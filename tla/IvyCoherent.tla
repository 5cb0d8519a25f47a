---------------------------- MODULE IvyCoherent ----------------------------
(***************************************************************************)
(* The coherence protocol implements a coherent page, when the network     *)
(* loses nothing and the manager's program leaves the page alone.          *)
(***************************************************************************)
EXTENDS IvyPage

\* What the program of node n may do without a fault.
program_access(n) ==
    IF CanStore(n) THEN "rw" ELSE IF CanLoad(n) THEN "rd" ELSE "none"

\* What it would load.
program_copy(n) == IF CanLoad(n) THEN mem[n] ELSE Empty

Coherent == INSTANCE CoherentPage WITH
    Nothing <- Empty,
    access <- [n \in Node |-> program_access(n)],
    copy <- [n \in Node |-> program_copy(n)],
    current <- latest

\* What programs see of the page (their copies and their rights to them, over
\* the faults, requests, fetches and invalidations that move it) is what they
\* would see of one memory whose page is lent to many readers or one writer.
IsCoherent == Coherent!CPSpec
=============================================================================

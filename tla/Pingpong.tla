------------------------------ MODULE Pingpong ------------------------------
(***************************************************************************)
(* The ping-pong workload (src/workloads/pingpong/pingpong.cc) on coherent *)
(* memory: loads and stores are atomic, the increment is a load and a      *)
(* store.  Node 0 is the manager, nodes 1 to WorkerCount the workers.      *)
(*                                                                         *)
(* The nodes are started by hand, in any order: the manager stores the     *)
(* first value, 1, while the workers may be counting already.  A history   *)
(* variable remembers whether that store did any harm.                     *)
(*                                                                         *)
(* Left out: output, and the loads made for it alone.                      *)
(***************************************************************************)
EXTENDS Integers

CONSTANTS
    WorkerCount,    \* worker_nodes, the number of workers
    ITERATIONS      \* the count the workers go up to

ASSUME CountAssumption ==
    WorkerCount \in Nat \ {0} /\ ITERATIONS \in Nat \ {0, 1}

VARIABLES
    counter,   \* arr_ul[0]
    mpc,       \* where the manager stands
    wpc,       \* wpc[id]: where worker id stands
    loaded,    \* loaded[id]: what its increment has loaded
    raced      \* history variable: the first store fell into an increment,
               \* or undid some

vars == <<counter, mpc, wpc, loaded, raced>>

Worker == 1 .. WorkerCount

Init ==
    /\ counter = 0
    /\ mpc = "store"
    /\ wpc = [id \in Worker |-> "test"]
    /\ loaded = [id \in Worker |-> 0]
    /\ raced = FALSE

store_first ==
    /\ mpc = "store"
    /\ counter' = 1
    /\ mpc' = "done"
    /\ raced' = (counter > 1 \/ \E id \in Worker : wpc[id] \in {"load", "store"})
    /\ UNCHANGED <<wpc, loaded>>

\* MUTANT of goes_on: the loop runs once more.
goes_on_at_end == counter <= ITERATIONS

goes_on == counter < ITERATIONS

\* The condition of the outer loop.
test_end(id) ==
    /\ wpc[id] = "test"
    /\ wpc' = [wpc EXCEPT ![id] = IF goes_on THEN "spin" ELSE "done"]
    /\ UNCHANGED <<counter, mpc, loaded, raced>>

\* MUTANT of my_turn: the worker counts whoever's turn it is.
my_turn_always(id) == TRUE

\* MUTANT of my_turn: the last worker waits for a remainder there is not.
my_turn_shifted(id) == counter % WorkerCount = id

my_turn(id) == counter % WorkerCount = id - 1

\* The inner loop: busy waiting, and the end of it.
busy_wait(id) == wpc[id] = "spin" /\ ~my_turn(id) /\ UNCHANGED vars

see_turn(id) ==
    /\ wpc[id] = "spin"
    /\ my_turn(id)
    /\ wpc' = [wpc EXCEPT ![id] = "load"]
    /\ UNCHANGED <<counter, mpc, loaded, raced>>

\* arr_ul[0]++
load(id) ==
    /\ wpc[id] = "load"
    /\ loaded' = [loaded EXCEPT ![id] = counter]
    /\ wpc' = [wpc EXCEPT ![id] = "store"]
    /\ UNCHANGED <<counter, mpc, raced>>

store(id) ==
    /\ wpc[id] = "store"
    /\ counter' = loaded[id] + 1
    /\ wpc' = [wpc EXCEPT ![id] = "test"]
    /\ UNCHANGED <<mpc, loaded, raced>>

WorkerStep(id) ==
    test_end(id) \/ busy_wait(id) \/ see_turn(id) \/ load(id) \/ store(id)

\* Every program ends in an endless loop.
AllDone == mpc = "done" /\ \A id \in Worker : wpc[id] = "done"

Next ==
    \/ store_first
    \/ \E id \in Worker : WorkerStep(id)
    \/ AllDone /\ UNCHANGED vars

Spec == Init /\ [][Next]_vars

\* Every node runs its program.
FairSpec ==
    Spec /\ WF_vars(store_first) /\ \A id \in Worker : WF_vars(WorkerStep(id))

-----------------------------------------------------------------------------
(***************************************************************************)
(* Properties.                                                             *)
(***************************************************************************)

\* No count is lost: between the load and the store of an increment nobody
\* else stores, although no lock protects it, unless the manager's first store
\* falls between them.
NoLostCount ==
    raced \/ \A id \in Worker : wpc[id] = "store" => counter = loaded[id]

\* The page ping-pongs: the counter goes up by one, and only by the step of
\* the worker whose turn it is, unless the first store raced.
TakesTurns ==
    [][\A id \in Worker : store(id) =>
          raced \/ (counter' = counter + 1 /\ counter % WorkerCount = id - 1)]_vars

\* A worker that passed the test before the end counts once more, no other,
\* unless the first store raced.
StopsInTime == raced \/ counter < ITERATIONS + WorkerCount

\* The workers come to an end (two workers do: the one that waits for its
\* turn at the end gets it), unless some had ended when the first store undid
\* their counts.
Completes == <>(raced \/ \A id \in Worker : wpc[id] = "done")
=============================================================================

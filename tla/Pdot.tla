-------------------------------- MODULE Pdot --------------------------------
(***************************************************************************)
(* The parallel dot product (src/workloads/pdot/pdot.cc) on coherent       *)
(* memory: loads and stores are atomic.  Node 0 only runs the manager of   *)
(* libivy, node 1 coordinates, node id > 1 runs mult_worker(id - 2).       *)
(*                                                                         *)
(* Left out: the canary (written, never read), dump_shm (returns at once), *)
(* output but for the product, the sleeps, the flags a worker prints.      *)
(***************************************************************************)
EXTENDS Integers, Sequences

CONSTANTS
    NODES_WORKER,   \* number of workers
    Number,         \* numbers that may stand in the input file
    Length,         \* how many of them: the first line of the file
    INT_MAX,        \* the largest number that operator>> reads into an int
    Word            \* uint64_t arithmetic is modulo Word (2^64 in the code)

ASSUME WorkersAssumption == NODES_WORKER \in Nat \ {0}
ASSUME InputAssumption == Number \subseteq Nat /\ Length \subseteq Nat /\ INT_MAX \in Nat
ASSUME WordAssumption == Word \in Nat \ {0, 1}

VARIABLES
    file,     \* the lines of the input file after the first
    vecs,     \* shm->vecs, indices from 0: the first vector, then the second
    header,   \* shm->header
    mpc,      \* where the coordinator stands
    in_iter,  \* elements read from the file
    scan,     \* the worker whose flag it looks at, or whose result it adds
    all_done, \* no flag of this round was down so far
    total,    \* merge_worker's sum, at last the dot product it prints
    wpc,      \* wpc[w]: where worker w stands
    elems,    \* elems[w]: its elems, the length of a vector
    i,        \* i[w]: iterations of its loop
    sum       \* sum[w]: its part of the product so far

coordinator == <<mpc, in_iter, scan, all_done, total>>
workers == <<wpc, elems, i, sum>>
vars == <<file, vecs, header, coordinator, workers>>

Worker == 0 .. NODES_WORKER - 1
Zero == [w \in Worker |-> 0]

Init ==
    /\ \E n \in Length : file \in [1 .. n -> Number]
    /\ vecs = [k \in 0 .. Len(file) - 1 |-> 0]
    /\ header = [elems |-> 0, ready |-> 0, result |-> Zero, done |-> Zero]
    /\ mpc = "vecs" /\ in_iter = 0 /\ scan = 0 /\ all_done = FALSE /\ total = 0
    /\ wpc = [w \in Worker |-> "poll"]
    /\ elems = Zero /\ i = Zero /\ sum = Zero

-----------------------------------------------------------------------------
(***************************************************************************)
(* main, id 1: fill the region and raise ready.                            *)
(***************************************************************************)

\* operator>> has a number for the loop: not at the end of the file, and not
\* at a number that does not fit an int.
readable == in_iter < Len(file) /\ file[in_iter + 1] <= INT_MAX

store_vecs ==
    /\ mpc = "vecs"
    /\ readable
    /\ vecs' = [vecs EXCEPT ![in_iter] = file[in_iter + 1] % Word]
    /\ in_iter' = in_iter + 1
    /\ UNCHANGED <<file, header, mpc, scan, all_done, total, workers>>

store_elems ==
    /\ mpc = "vecs"
    /\ ~readable
    /\ header' = [header EXCEPT !.elems = Len(file)]
    /\ mpc' = "flags"
    /\ UNCHANGED <<file, vecs, in_iter, scan, all_done, total, workers>>

store_flags ==
    /\ mpc = "flags"
    /\ header' = [header EXCEPT !.ready = 0, !.done = Zero]
    /\ mpc' = "ready"
    /\ UNCHANGED <<file, vecs, in_iter, scan, all_done, total, workers>>

store_ready ==
    /\ mpc = "ready"
    /\ header' = [header EXCEPT !.ready = 1]
    /\ mpc' = "sleep"
    /\ UNCHANGED <<file, vecs, in_iter, scan, all_done, total, workers>>

-----------------------------------------------------------------------------
(***************************************************************************)
(* mult_worker.                                                            *)
(***************************************************************************)

\* MUTANT of is_ready: the worker does not wait.
is_ready_anyway == TRUE

is_ready == header.ready = 1

wait_ready(w) ==
    /\ wpc[w] = "poll"
    /\ is_ready
    /\ wpc' = [wpc EXCEPT ![w] = "elems"]
    /\ UNCHANGED <<file, vecs, header, coordinator, elems, i, sum>>

load_elems(w) ==
    /\ wpc[w] = "elems"
    /\ elems' = [elems EXCEPT ![w] = header.elems \div 2]
    /\ wpc' = [wpc EXCEPT ![w] = "mult"]
    /\ UNCHANGED <<file, vecs, header, coordinator, i, sum>>

elems_per_node(w) == elems[w] \div NODES_WORKER

\* One iteration; nobody stores to the vectors any more (InputStays).
multiply(w) ==
    LET startA == elems_per_node(w) * w
        startB == elems[w] + elems_per_node(w) * w
    IN
    /\ wpc[w] = "mult"
    /\ i[w] < elems_per_node(w)
    /\ sum' = [sum EXCEPT ![w] =
                  (@ + vecs[startA + i[w]] * vecs[startB + i[w]]) % Word]
    /\ i' = [i EXCEPT ![w] = @ + 1]
    /\ UNCHANGED <<file, vecs, header, coordinator, wpc, elems>>

store_result(w) ==
    /\ wpc[w] = "mult"
    /\ i[w] = elems_per_node(w)
    /\ header' = [header EXCEPT !.result[w] = sum[w]]
    /\ wpc' = [wpc EXCEPT ![w] = "signal"]
    /\ UNCHANGED <<file, vecs, coordinator, elems, i, sum>>

store_done(w) ==
    /\ wpc[w] = "signal"
    /\ header' = [header EXCEPT !.done[w] = Word - 1]
    /\ wpc' = [wpc EXCEPT ![w] = "done"]
    /\ UNCHANGED <<file, vecs, coordinator, elems, i, sum>>

-----------------------------------------------------------------------------
(***************************************************************************)
(* main, id 1: rounds over all flags until a round finds none down, and    *)
(* merge_worker.                                                           *)
(***************************************************************************)
begin_round ==
    /\ mpc = "sleep"
    /\ all_done' = TRUE
    /\ scan' = 0
    /\ mpc' = "scan"
    /\ UNCHANGED <<file, vecs, header, in_iter, total, workers>>

\* MUTANT of still_done: only the flag seen last counts.
still_done_last == header.done[scan] # 0

\* MUTANT of still_done: the flag is compared as psort's is.
still_done_1 == all_done /\ header.done[scan] = 1

still_done == all_done /\ header.done[scan] # 0

look_at_flag ==
    /\ mpc = "scan"
    /\ scan < NODES_WORKER
    /\ all_done' = still_done
    /\ scan' = scan + 1
    /\ UNCHANGED <<file, vecs, header, mpc, in_iter, total, workers>>

end_round ==
    /\ mpc = "scan"
    /\ scan = NODES_WORKER
    /\ mpc' = IF all_done THEN "merge" ELSE "sleep"
    /\ scan' = 0
    /\ UNCHANGED <<file, vecs, header, in_iter, all_done, total, workers>>

merge_worker ==
    /\ mpc = "merge"
    /\ IF scan < NODES_WORKER
       THEN /\ total' = (total + header.result[scan]) % Word
            /\ scan' = scan + 1
            /\ mpc' = mpc
       ELSE /\ mpc' = "done"
            /\ UNCHANGED <<scan, total>>
    /\ UNCHANGED <<file, vecs, header, in_iter, all_done, workers>>

CoordinatorStep ==
    \/ store_vecs \/ store_elems \/ store_flags \/ store_ready
    \/ begin_round \/ look_at_flag \/ end_round \/ merge_worker

WorkerStep(w) ==
    \/ wait_ready(w) \/ load_elems(w) \/ multiply(w)
    \/ store_result(w) \/ store_done(w)

\* Every program ends in an endless loop.
AllDone == mpc = "done" /\ \A w \in Worker : wpc[w] = "done"

Next ==
    \/ CoordinatorStep
    \/ \E w \in Worker : WorkerStep(w)
    \/ AllDone /\ UNCHANGED vars

Spec == Init /\ [][Next]_vars

\* Every node runs its program.
FairSpec ==
    /\ Spec
    /\ WF_vars(CoordinatorStep)
    /\ \A w \in Worker : WF_vars(WorkerStep(w))

-----------------------------------------------------------------------------
(***************************************************************************)
(* Properties.                                                             *)
(***************************************************************************)

\* dot(f)[n] is the sum of the first n products of the two halves of f.
dot(f) ==
    LET k == Len(f) \div 2
        products[n \in 0 .. k] == IF n = 0 THEN 0 ELSE products[n - 1] + f[n] * f[k + n]
    IN products

\* What pdot is for: the coordinator prints the dot product of the two halves
\* of the file, as uint64_t arithmetic has it, although the parts are summed
\* on different nodes.
PrintsProduct ==
    mpc = "done" => total = dot(file)[Len(file) \div 2] % Word

\* Once a worker has seen ready, what it goes by is final: neither the vectors
\* nor their length change under it.
InputStays ==
    [][(\E w \in Worker : wpc[w] # "poll") =>
          vecs' = vecs /\ header'.elems = header.elems]_vars

\* While the coordinator adds up the results none of them changes any more:
\* every flag was up in one and the same round.
ResultsStay == [][(mpc = "merge") => header'.result = header.result]_vars

\* The handshake by ready and the flags ends: the product is printed.
Completes == <>(mpc = "done")
=============================================================================

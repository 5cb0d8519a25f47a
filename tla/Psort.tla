------------------------------- MODULE Psort -------------------------------
(***************************************************************************)
(* The parallel sort (src/workloads/psort/psort.cpp) on shared memory that *)
(* is coherent, as CoherentPage states it: loads and stores are atomic.    *)
(* Node 0 runs the manager, node id runs sort_worker(id - 1).              *)
(*                                                                         *)
(* Left out: the canary (ASSERT_VALID has no effect), dump_shm (returns at *)
(* once), output but for the sorted elements, the sleeps.                  *)
(***************************************************************************)
EXTENDS Integers, Sequences, FiniteSets

CONSTANTS
    NODES_WORKER,   \* number of workers
    Number,         \* numbers that may stand in the input file
    Length,         \* how many of them: the first line of the file
    INT_MAX         \* the largest number that operator>> reads into an int

ASSUME WorkersAssumption == NODES_WORKER \in Nat \ {0}
ASSUME InputAssumption == Number \subseteq Nat /\ Length \subseteq Nat /\ INT_MAX \in Nat

VARIABLES
    file,     \* the lines of the input file after the first
    data,     \* shm->data: data[i], indices from 0
    header,   \* shm->header
    mpc,      \* where the manager stands
    in_iter,  \* elements read from the file
    scan,     \* wait_for_workers: the worker it looks at
    iter,     \* merge_worker: elements merged of each part
    out,      \* what merge_worker has written
    wpc,      \* wpc[w]: where worker w stands
    elems,    \* elems[w]: its copy of header.elems
    part,     \* part[w]: its elems_per_node
    turn      \* turn[w]: iterations of its sorting loops

manager == <<mpc, in_iter, scan, iter, out>>
workers == <<wpc, elems, part, turn>>
vars == <<file, data, header, manager, workers>>

Worker == 0 .. NODES_WORKER - 1
Zero == [w \in Worker |-> 0]

Init ==
    /\ \E n \in Length : file \in [1 .. n -> Number]
    /\ data = [i \in 0 .. Len(file) - 1 |-> 0]
    /\ header = [elems |-> 0, ready |-> 0, done |-> Zero, nodes |-> 0]
    /\ mpc = "memset" /\ in_iter = 0 /\ scan = 0 /\ iter = Zero /\ out = <<>>
    /\ wpc = [w \in Worker |-> "poll"]
    /\ elems = Zero /\ part = Zero /\ turn = Zero

-----------------------------------------------------------------------------
(***************************************************************************)
(* populate_shm.                                                           *)
(***************************************************************************)
memset_shm ==
    /\ mpc = "memset"
    /\ data' = [i \in DOMAIN data |-> 0]
    /\ header' = [elems |-> 0, ready |-> 0, done |-> Zero, nodes |-> 0]
    /\ mpc' = "data"
    /\ UNCHANGED <<file, in_iter, scan, iter, out, workers>>

\* operator>> has a number for the loop: not at the end of the file, and not
\* at a number that does not fit an int.
readable == in_iter < Len(file) /\ file[in_iter + 1] <= INT_MAX

store_data ==
    /\ mpc = "data"
    /\ readable
    /\ data' = [data EXCEPT ![in_iter] = file[in_iter + 1]]
    /\ in_iter' = in_iter + 1
    /\ UNCHANGED <<file, header, mpc, scan, iter, out, workers>>

store_elems ==
    /\ mpc = "data"
    /\ ~readable
    /\ header' = [header EXCEPT !.elems = Len(file)]
    /\ mpc' = "flags"
    /\ UNCHANGED <<file, data, in_iter, scan, iter, out, workers>>

\* MUTANT of raised: ready goes up before the header is complete.
raised_early == 1

\* The value of ready until the header is complete.
raised == 0

store_flags ==
    /\ mpc = "flags"
    /\ header' = [header EXCEPT !.ready = raised, !.done = Zero]
    /\ mpc' = "nodes"
    /\ UNCHANGED <<file, data, in_iter, scan, iter, out, workers>>

store_nodes ==
    /\ mpc = "nodes"
    /\ header' = [header EXCEPT !.nodes = NODES_WORKER]
    /\ mpc' = "ready"
    /\ UNCHANGED <<file, data, in_iter, scan, iter, out, workers>>

store_ready ==
    /\ mpc = "ready"
    /\ header' = [header EXCEPT !.ready = 1]
    /\ mpc' = "wait"
    /\ UNCHANGED <<file, data, in_iter, scan, iter, out, workers>>

-----------------------------------------------------------------------------
(***************************************************************************)
(* sort_worker.  The loops sort the part in place; nobody else uses it     *)
(* (PartsStay), so that a comparison and its exchange are one step.        *)
(***************************************************************************)
wait_ready(w) ==
    /\ wpc[w] = "poll"
    /\ header.ready # 0
    /\ wpc' = [wpc EXCEPT ![w] = "elems"]
    /\ UNCHANGED <<file, data, header, manager, elems, part, turn>>

load_elems(w) ==
    /\ wpc[w] = "elems"
    /\ elems' = [elems EXCEPT ![w] = header.elems]
    /\ wpc' = [wpc EXCEPT ![w] = "nodes"]
    /\ UNCHANGED <<file, data, header, manager, part, turn>>

\* A division by zero kills the process.
load_nodes(w) ==
    /\ wpc[w] = "nodes"
    /\ wpc' = [wpc EXCEPT ![w] = IF header.nodes = 0 THEN "killed" ELSE "sort"]
    /\ part' = [part EXCEPT ![w] =
                   IF header.nodes = 0 THEN 0 ELSE elems[w] \div header.nodes]
    /\ UNCHANGED <<file, data, header, manager, elems, turn>>

\* MUTANT of turns: the inner loop ends one element early.
turns_short(w) == IF part[w] < 2 THEN 0 ELSE part[w] * (part[w] - 2)

\* How often the body of the two loops runs.
turns(w) == part[w] * (part[w] - 1)

exchange(w) ==
    LET j == part[w] * w + 1 + (turn[w] % (part[w] - 1))
    IN
    /\ wpc[w] = "sort"
    /\ turn[w] < turns(w)
    /\ data' = IF data[j - 1] > data[j]
               THEN [data EXCEPT ![j - 1] = data[j], ![j] = data[j - 1]]
               ELSE data
    /\ turn' = [turn EXCEPT ![w] = @ + 1]
    /\ UNCHANGED <<file, header, manager, wpc, elems, part>>

signal_done(w) ==
    /\ wpc[w] = "sort"
    /\ turn[w] = turns(w)
    /\ header' = [header EXCEPT !.done[w] = 1]
    /\ wpc' = [wpc EXCEPT ![w] = "done"]
    /\ UNCHANGED <<file, data, manager, elems, part, turn>>

-----------------------------------------------------------------------------
(***************************************************************************)
(* wait_for_workers and merge_worker.                                      *)
(***************************************************************************)

\* MUTANT of looks_on: the loop goes on whatever the flag.
looks_on_anyway(w) == TRUE

\* MUTANT of looks_on: the worker is done when its flag has all bits set.
looks_on_255(w) == header.done[w] = 255

looks_on(w) == header.done[w] = 1

\* Look at the flags in turn, from the first again when one is not set.
wait_for_workers ==
    /\ mpc = "wait"
    /\ \/ /\ scan < NODES_WORKER
          /\ scan' = IF looks_on(scan) THEN scan + 1 ELSE 0
          /\ mpc' = mpc
       \/ /\ scan = NODES_WORKER
          /\ mpc' = "merge"
          /\ UNCHANGED scan
    /\ UNCHANGED <<file, data, header, in_iter, iter, out, workers>>

elems_per_node == header.elems \div NODES_WORKER
left == {w \in Worker : iter[w] # elems_per_node}
head(w) == data[w * elems_per_node + iter[w]]

\* The least head, of the last part that has it.
is_next(w) == \A v \in left : head(w) < head(v) \/ (head(w) = head(v) /\ v <= w)

merge_worker ==
    /\ mpc = "merge"
    /\ \/ \E w \in left :
            /\ is_next(w)
            /\ out' = Append(out, head(w))
            /\ iter' = [iter EXCEPT ![w] = @ + 1]
            /\ mpc' = mpc
       \/ /\ left = {}
          /\ mpc' = "done"
          /\ UNCHANGED <<out, iter>>
    /\ UNCHANGED <<file, data, header, in_iter, scan, workers>>

ManagerStep ==
    \/ memset_shm \/ store_data \/ store_elems \/ store_flags \/ store_nodes
    \/ store_ready \/ wait_for_workers \/ merge_worker

WorkerStep(w) ==
    \/ wait_ready(w) \/ load_elems(w) \/ load_nodes(w)
    \/ exchange(w) \/ signal_done(w)

\* Every program ends in an endless loop.
AllDone == mpc = "done" /\ (\A w \in Worker : wpc[w] \in {"done", "killed"})

Next ==
    \/ ManagerStep
    \/ \E w \in Worker : WorkerStep(w)
    \/ AllDone /\ UNCHANGED vars

Spec == Init /\ [][Next]_vars

\* Every node runs its program.
FairSpec ==
    Spec /\ WF_vars(ManagerStep) /\ \A w \in Worker : WF_vars(WorkerStep(w))

-----------------------------------------------------------------------------
(***************************************************************************)
(* Properties.                                                             *)
(***************************************************************************)
\* How many places of f hold x.
times(f, x) == Cardinality({i \in DOMAIN f : f[i] = x})

\* What psort is for: the manager's output is the file in ascending order.
SortsFile ==
    mpc = "done" =>
        /\ \A i \in 1 .. Len(out) - 1 : out[i] <= out[i + 1]
        /\ \A x \in Number \cup {0} : times(out, x) = times(file, x)

\* No worker sorts by a header that populate_shm has not finished: what it
\* knows of its part is what the file says, and it is not killed by a zero.
WorkersAgree ==
    \A w \in Worker :
        /\ wpc[w] \in {"nodes", "sort", "done"} => elems[w] = Len(file)
        /\ wpc[w] \in {"sort", "done"} => part[w] = Len(file) \div NODES_WORKER
        /\ wpc[w] # "killed"

\* The done flags guard the parts: while the manager merges, no worker moves
\* an element any more.
PartsStay == [][(mpc \in {"merge", "done"}) => data' = data]_vars

\* The handshake by the ready and done flags ends: the sort completes.
Completes == <>(mpc = "done")
=============================================================================

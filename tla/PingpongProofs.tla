--------------------------- MODULE PingpongProofs ---------------------------
(***************************************************************************)
(* What is proved of Pingpong, for any number of workers and iterations,   *)
(* whether the workers start before or after the manager's store, as long  *)
(* as that store neither falls into an increment nor undoes any.           *)
(*                                                                         *)
(* The argument: such a store is harmless, for it finds the counter at 0   *)
(* or 1 and nobody between a load and a store.  A worker that has seen its *)
(* turn keeps it until it stores, since the remainder of the counter names *)
(* one worker only and nobody else can store meanwhile.  From ITERATIONS   *)
(* on no worker enters the loop any more, and each store takes one out.    *)
(***************************************************************************)
EXTENDS Pingpong, FiniteSetTheorems, TLAPS

TypeOK ==
    /\ counter \in Nat
    /\ mpc \in {"store", "done"}
    /\ wpc \in [Worker -> {"test", "spin", "load", "store", "done"}]
    /\ loaded \in [Worker -> Nat]
    /\ raced \in BOOLEAN

\* The worker that counts is the one whose turn it is.
CountsInTurn == \A id \in Worker : wpc[id] \in {"load", "store"} => my_turn(id)

\* The workers that will still count.
inLoop == {id \in Worker : wpc[id] \in {"spin", "load", "store"}}

\* Each worker in the loop has a count left below the bound.
RoomLeft ==
    counter >= ITERATIONS =>
        counter + Cardinality(inLoop) < ITERATIONS + WorkerCount

InTurn == CountsInTurn /\ NoLostCount /\ RoomLeft

IInv == TypeOK /\ (raced \/ InTurn)

-----------------------------------------------------------------------------
\* The workers are finitely many, and so are those in the loop.
LEMMA WorkersFinite ==
    /\ IsFiniteSet(Worker) /\ Cardinality(Worker) = WorkerCount
    /\ IsFiniteSet(inLoop) /\ Cardinality(inLoop) \in Nat
<1>1. WorkerCount \in Nat /\ WorkerCount >= 1
  BY CountAssumption, SMT
<1>2. IsFiniteSet(Worker) /\ Cardinality(Worker) = WorkerCount
  <2>1. IsFiniteSet(1 .. WorkerCount)
    BY <1>1, FS_Interval, SMT
  <2>2. Cardinality(1 .. WorkerCount) = WorkerCount
    BY <1>1, FS_Interval, SMT
  <2> QED BY <2>1, <2>2 DEF Worker
<1>3. inLoop \subseteq Worker
  BY DEF inLoop
<1>4. IsFiniteSet(inLoop)
  BY <1>2, <1>3, FS_Subset
<1> QED BY <1>2, <1>4, FS_CardinalityType

\* Only one worker has its turn.
LEMMA OneTurn ==
    ASSUME NEW a \in Worker, NEW b \in Worker, my_turn(a), my_turn(b)
    PROVE  a = b
BY CountAssumption, SMT DEF my_turn, Worker

\* At the start nobody counts.
LEMMA InitInvariant == Init => IInv
<1> SUFFICES ASSUME Init PROVE IInv
  OBVIOUS
<1>1. TypeOK /\ CountsInTurn /\ NoLostCount
  BY DEF Init, TypeOK, CountsInTurn, NoLostCount
<1>2. RoomLeft
  BY CountAssumption, SMT DEF Init, RoomLeft
<1> QED BY <1>1, <1>2 DEF IInv, InTurn

-----------------------------------------------------------------------------
\* A first store that finds nobody counting leaves everybody in turn.
LEMMA StoreFirst ==
    ASSUME IInv, store_first PROVE IInv'
<1>1. TypeOK'
  BY DEF IInv, TypeOK, store_first
<1>2. ASSUME ~raced'
      PROVE  InTurn'
  <2>1. \A id \in Worker : wpc[id] \notin {"load", "store"} /\ wpc'[id] = wpc[id]
    BY <1>2 DEF store_first
  <2>2. CountsInTurn' /\ NoLostCount'
    BY <2>1 DEF CountsInTurn, NoLostCount
  <2>3. RoomLeft'
    BY CountAssumption, SMT DEF RoomLeft, store_first
  <2> QED BY <2>2, <2>3 DEF InTurn
<1> QED BY <1>1, <1>2 DEF IInv

\* A worker that tests the end enters the loop with room for its count.
LEMMA TestEnd ==
    ASSUME TypeOK, InTurn, ~raced, NEW id \in Worker, test_end(id) PROVE InTurn'
<1> USE DEF InTurn
<1>1. CountsInTurn' /\ NoLostCount'
  BY DEF TypeOK, CountsInTurn, NoLostCount, test_end, my_turn
<1>2. RoomLeft'
  <2>1. CASE goes_on
    BY <2>1, CountAssumption, SMT DEF TypeOK, RoomLeft, goes_on, test_end
  <2>2. CASE ~goes_on
    <3>1. inLoop' = inLoop
      BY <2>2 DEF TypeOK, inLoop, test_end
    <3> QED BY <3>1 DEF RoomLeft, test_end
  <2> QED BY <2>1, <2>2
<1> QED BY <1>1, <1>2

\* A worker that sees its turn has it.
LEMMA SeeTurn ==
    ASSUME TypeOK, InTurn, ~raced, NEW id \in Worker, see_turn(id) PROVE InTurn'
<1> USE DEF InTurn
<1>1. NoLostCount'
  BY DEF TypeOK, NoLostCount, see_turn
<1>2. CountsInTurn'
  BY DEF TypeOK, CountsInTurn, see_turn, my_turn
<1>3. RoomLeft'
  <2>1. inLoop' = inLoop
    BY DEF TypeOK, inLoop, see_turn
  <2> QED BY <2>1 DEF RoomLeft, see_turn
<1> QED BY <1>1, <1>2, <1>3

\* The worker that loads knows the counter.
LEMMA LoadStep ==
    ASSUME TypeOK, InTurn, ~raced, NEW id \in Worker, load(id) PROVE InTurn'
<1> USE DEF InTurn
<1>1. CountsInTurn'
  BY DEF TypeOK, CountsInTurn, load, my_turn
<1>2. NoLostCount'
  BY DEF TypeOK, NoLostCount, load
<1>3. RoomLeft'
  <2>1. inLoop' = inLoop
    BY DEF TypeOK, inLoop, load
  <2> QED BY <2>1 DEF RoomLeft, load
<1> QED BY <1>1, <1>2, <1>3

\* A store is made by one worker at a time, and takes it out of the loop.
LEMMA StoreStep ==
    ASSUME TypeOK, InTurn, ~raced, NEW id \in Worker, store(id) PROVE InTurn'
<1> USE DEF InTurn
<1>1. loaded[id] = counter /\ counter' = counter + 1
  BY DEF NoLostCount, store
<1>2. my_turn(id)
  BY DEF CountsInTurn, store
<1>3. \A w \in Worker : wpc'[w] \notin {"load", "store"}
  <2> SUFFICES ASSUME NEW w \in Worker, w # id
               PROVE  wpc[w] \notin {"load", "store"}
    BY DEF TypeOK, store
  <2> QED BY <1>2, OneTurn DEF CountsInTurn
<1>4. CountsInTurn' /\ NoLostCount'
  BY <1>3 DEF CountsInTurn, NoLostCount
<1>5. RoomLeft'
  <2>1. id \in inLoop /\ inLoop' = inLoop \ {id}
    BY DEF TypeOK, inLoop, store
  <2>2. Cardinality(inLoop') = Cardinality(inLoop) - 1
    BY <2>1, WorkersFinite, FS_RemoveElement
  <2>3. Cardinality(inLoop) <= WorkerCount
    <3>1. inLoop \subseteq Worker
      BY DEF inLoop
    <3> QED BY <3>1, WorkersFinite, FS_Subset
  <2> QED
    BY <1>1, <2>2, <2>3, WorkersFinite, CountAssumption, SMT
       DEF TypeOK, RoomLeft
<1> QED BY <1>4, <1>5

\* Steps that change nothing.
LEMMA Stutter == ASSUME IInv, UNCHANGED vars PROVE IInv'
<1>1. inLoop' = inLoop
  BY DEF inLoop, vars
<1> QED
  BY <1>1 DEF IInv, InTurn, TypeOK, CountsInTurn, NoLostCount, RoomLeft, vars, my_turn

\* A step of a worker keeps the invariant, raced or not.
LEMMA WorkerSteps ==
    ASSUME IInv, NEW id \in Worker, WorkerStep(id) PROVE IInv'
<1>1. CASE busy_wait(id)
  BY <1>1, Stutter DEF busy_wait
<1>2. CASE ~busy_wait(id)
  <2>1. TypeOK'
    BY <1>2, SMT DEF IInv, TypeOK, WorkerStep, test_end, see_turn, load, store
  <2>2. raced' = raced
    BY <1>2 DEF WorkerStep, test_end, see_turn, load, store
  <2>3. ~raced => InTurn'
    BY <1>2, TestEnd, SeeTurn, LoadStep, StoreStep DEF IInv, WorkerStep
  <2> QED BY <2>1, <2>2, <2>3 DEF IInv
<1> QED BY <1>1, <1>2

\* Every step keeps it.
LEMMA StepInvariant ==
    ASSUME IInv, [Next]_vars PROVE IInv'
  BY StoreFirst, WorkerSteps, Stutter DEF Next

\* So it holds in every behaviour.
LEMMA Invariance == Spec => []IInv
<1>1. Init => IInv
  BY InitInvariant
<1>2. IInv /\ [Next]_vars => IInv'
  BY StepInvariant
<1> QED BY <1>1, <1>2, PTL DEF Spec

-----------------------------------------------------------------------------
\* No count is lost, whatever the number of workers and the order in which the
\* nodes start: nobody stores between the load and the store of arr_ul[0]++
\* (pingpong.cc:70), unless the manager's own store falls there.
THEOREM NothingLost == Spec => []NoLostCount
<1>1. IInv => NoLostCount
  BY DEF IInv, InTurn, NoLostCount
<1> QED BY <1>1, Invariance, PTL

\* Every count is made by the worker whose turn it is, and goes up by one,
\* whether the workers start before or after the manager's store, as long as
\* that store does not fall into a count or undo some.
THEOREM Turns == Spec => TakesTurns
<1> DEFINE Turn == \A id \in Worker : store(id) =>
                 raced \/ (counter' = counter + 1 /\ counter % WorkerCount = id - 1)
<1>1. IInv => Turn
  <2> SUFFICES ASSUME IInv, ~raced, NEW id \in Worker, store(id)
               PROVE  counter' = counter + 1 /\ counter % WorkerCount = id - 1
    OBVIOUS
  <2> QED BY DEF IInv, InTurn, NoLostCount, CountsInTurn, store, my_turn
<1>2. IInv /\ [Next]_vars => [Turn]_vars
  BY <1>1
<1>3. Spec => [][Next]_vars
  BY DEF Spec
<1> QED BY <1>1, <1>2, Invariance, PTL DEF TakesTurns, Spec

\* The counter stops short of one round above ITERATIONS, likewise.
THEOREM Stops == Spec => []StopsInTime
<1>1. IInv => StopsInTime
  BY WorkersFinite, CountAssumption, SMT
  DEF IInv, InTurn, TypeOK, RoomLeft, StopsInTime
<1> QED BY <1>1, Invariance, PTL
=============================================================================

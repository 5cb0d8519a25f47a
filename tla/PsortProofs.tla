----------------------------- MODULE PsortProofs -----------------------------
(***************************************************************************)
(* What is proved of Psort, for any number of workers and every file.      *)
(*                                                                         *)
(* The argument: a worker that sees ready finds the header complete, since *)
(* ready is the last store of populate_shm; and a done flag is the last    *)
(* store of its worker, so that the flags that wait_for_workers has passed *)
(* stay up and their workers have stopped.                                 *)
(***************************************************************************)
EXTENDS Psort, TLAPS, FiniteSetTheorems

TypeOK ==
    /\ header = [elems |-> header.elems, ready |-> header.ready,
                 done |-> header.done, nodes |-> header.nodes]
    /\ header.done = [w \in Worker |-> header.done[w]]
    /\ mpc \in {"memset", "data", "flags", "nodes", "ready", "wait", "merge", "done"}
    /\ scan \in Nat
    /\ wpc \in [Worker -> {"poll", "elems", "nodes", "sort", "done", "killed"}]
    /\ elems = [w \in Worker |-> elems[w]]
    /\ part = [w \in Worker |-> part[w]]

\* populate_shm has not come to its last store.
Populating == mpc \in {"memset", "data", "flags", "nodes", "ready"}

\* Nobody works before ready is up; then the header is complete.
ReadyLast ==
    IF Populating
    THEN /\ header.ready = 0 /\ scan = 0
         /\ \A w \in Worker : wpc[w] = "poll"
    ELSE header.elems = Len(file) /\ header.nodes = NODES_WORKER

\* What populate_shm has stored in the header so far.
HeaderSoFar ==
    /\ mpc \in {"flags", "nodes", "ready"} => header.elems = Len(file)
    /\ mpc = "ready" => header.nodes = NODES_WORKER

\* A flag that is up is the last thing its worker has stored.
FlagsLast == \A w \in Worker : header.done[w] = 1 => wpc[w] = "done"

\* The flags that wait_for_workers has passed are up.
FlagsSeen ==
    mpc = "wait" => \A w \in Worker : w < scan => header.done[w] = 1

\* When the parts are merged, all workers are done.
AllBefore == mpc \in {"merge", "done"} => \A w \in Worker : wpc[w] = "done"

Handshake == ReadyLast /\ HeaderSoFar /\ FlagsLast /\ FlagsSeen /\ AllBefore
IInv == TypeOK /\ Handshake /\ WorkersAgree

-----------------------------------------------------------------------------
LEMMA InitInvariant == Init => IInv
BY DEF Init, Zero, IInv, TypeOK, Handshake, Populating, ReadyLast, HeaderSoFar,
       FlagsLast, FlagsSeen, AllBefore, WorkersAgree

\* The steps of the manager leave the workers and the file alone.
LEMMA ManagerPreserves ==
    ASSUME IInv, ManagerStep PROVE IInv'
<1> USE DEF IInv, Handshake, Populating
<1>1. UNCHANGED <<wpc, elems, part, file>>
  BY DEF ManagerStep, memset_shm, store_data, store_elems, store_flags, store_nodes,
         store_ready, wait_for_workers, merge_worker, workers
<1>2. WorkersAgree'
  BY <1>1 DEF WorkersAgree
<1>3. CASE memset_shm
  BY <1>1, <1>2, <1>3 DEF memset_shm, Zero, TypeOK, ReadyLast, HeaderSoFar,
                          FlagsLast, FlagsSeen, AllBefore
<1>4. CASE store_data
  BY <1>1, <1>2, <1>4 DEF store_data, TypeOK, ReadyLast, HeaderSoFar,
                          FlagsLast, FlagsSeen, AllBefore
<1>5. CASE store_elems
  BY <1>1, <1>2, <1>5 DEF store_elems, TypeOK, ReadyLast, HeaderSoFar,
                          FlagsLast, FlagsSeen, AllBefore
<1>6. CASE store_flags
  <2>1. header' = [elems |-> header.elems, ready |-> 0, done |-> Zero,
                   nodes |-> header.nodes]
    BY <1>6 DEF store_flags, raised, TypeOK
  <2>2. mpc = "flags" /\ mpc' = "nodes" /\ scan' = scan
    BY <1>6 DEF store_flags
  <2>3. TypeOK'
    BY <1>1, <2>1, <2>2 DEF TypeOK, Zero
  <2> QED
    BY <1>1, <1>2, <2>1, <2>2, <2>3 DEF Zero, ReadyLast, HeaderSoFar,
                                        FlagsLast, FlagsSeen, AllBefore
<1>7. CASE store_nodes
  BY <1>1, <1>2, <1>7 DEF store_nodes, TypeOK, ReadyLast, HeaderSoFar,
                          FlagsLast, FlagsSeen, AllBefore
<1>8. CASE store_ready
  <2>1. \A w \in Worker : ~(w < 0)
    BY DEF Worker
  <2> QED
    BY <2>1, <1>1, <1>2, <1>8
       DEF store_ready, TypeOK, ReadyLast, HeaderSoFar, FlagsLast, FlagsSeen, AllBefore
<1>9. CASE wait_for_workers
  <2>1. TypeOK' /\ ReadyLast' /\ HeaderSoFar' /\ FlagsLast'
    BY <1>1, <1>9 DEF wait_for_workers, TypeOK, ReadyLast, HeaderSoFar, FlagsLast
  <2>2. header' = header /\ mpc = "wait" /\ scan \in Nat
    BY <1>9 DEF wait_for_workers, TypeOK
  <2>3. FlagsSeen'
    <3> SUFFICES ASSUME mpc' = "wait", NEW w \in Worker, w < scan'
                 PROVE  header'.done[w] = 1
      BY DEF FlagsSeen
    <3>1. scan' = IF looks_on(scan) THEN scan + 1 ELSE 0
      BY <1>9 DEF wait_for_workers
    <3>2. looks_on(scan) /\ (w < scan \/ w = scan)
      BY <2>2, <3>1 DEF Worker
    <3> QED BY <2>2, <3>2 DEF looks_on, FlagsSeen
  <2>4. AllBefore'
    <3> SUFFICES ASSUME mpc' = "merge", NEW w \in Worker PROVE wpc[w] = "done"
      BY <1>1, <1>9 DEF wait_for_workers, AllBefore
    <3>1. w < scan
      BY <1>9, <2>2, WorkersAssumption DEF wait_for_workers, Worker
    <3> QED BY <2>2, <3>1 DEF FlagsSeen, FlagsLast
  <2> QED BY <1>2, <2>1, <2>3, <2>4
<1>10. CASE merge_worker
  BY <1>1, <1>2, <1>10 DEF merge_worker, TypeOK, ReadyLast, HeaderSoFar,
                           FlagsLast, FlagsSeen, AllBefore
<1> QED
  BY <1>3, <1>4, <1>5, <1>6, <1>7, <1>8, <1>9, <1>10 DEF ManagerStep

\* The steps of a worker leave the manager where it is; no flag goes down.
LEMMA WorkerPreserves ==
    ASSUME IInv, NEW w \in Worker, WorkerStep(w) PROVE IInv'
<1> USE DEF IInv, Handshake, Populating
<1>1. mpc' = mpc /\ scan' = scan /\ file' = file
  BY DEF WorkerStep, wait_ready, load_elems, load_nodes, exchange, signal_done,
         manager
<1>2. /\ ~Populating
      /\ wpc[w] # "done"
      /\ header.elems = Len(file) /\ header.nodes = NODES_WORKER
      /\ NODES_WORKER # 0
  BY WorkersAssumption
     DEF WorkerStep, wait_ready, load_elems, load_nodes, exchange, signal_done, ReadyLast
<1>3. CASE wait_ready(w)
  <2>1. TypeOK' /\ WorkersAgree'
    BY <1>1, <1>2, <1>3 DEF wait_ready, TypeOK, WorkersAgree
  <2> QED
    BY <1>1, <1>2, <1>3, <2>1
       DEF wait_ready, TypeOK, ReadyLast, HeaderSoFar, FlagsLast, FlagsSeen, AllBefore
<1>4. CASE load_elems(w)
  <2>1. TypeOK' /\ WorkersAgree'
    BY <1>1, <1>2, <1>4 DEF load_elems, TypeOK, WorkersAgree
  <2> QED
    BY <1>1, <1>2, <1>4, <2>1
       DEF load_elems, TypeOK, ReadyLast, HeaderSoFar, FlagsLast, FlagsSeen, AllBefore
<1>5. CASE load_nodes(w)
  <2>1. TypeOK'
    BY <1>1, <1>2, <1>5 DEF load_nodes, TypeOK
  <2>2. WorkersAgree'
    <3>1. /\ elems[w] = Len(file)
          /\ wpc' = [wpc EXCEPT ![w] = "sort"]
          /\ part' = [part EXCEPT ![w] = Len(file) \div NODES_WORKER]
      BY <1>2, <1>5 DEF load_nodes, WorkersAgree
    <3> QED BY <1>1, <1>5, <3>1 DEF load_nodes, TypeOK, WorkersAgree
  <2> QED
    BY <1>1, <1>2, <1>5, <2>1, <2>2
       DEF load_nodes, TypeOK, ReadyLast, HeaderSoFar, FlagsLast, FlagsSeen, AllBefore
<1>6. CASE exchange(w)
  <2>1. UNCHANGED <<wpc, elems, part, header>>
    BY <1>6 DEF exchange
  <2> QED
    BY <1>1, <2>1 DEF TypeOK, WorkersAgree, ReadyLast, HeaderSoFar, FlagsLast,
                      FlagsSeen, AllBefore
<1>7. CASE signal_done(w)
  <2>1. TypeOK' /\ WorkersAgree'
    BY <1>1, <1>2, <1>7 DEF signal_done, TypeOK, WorkersAgree
  <2> QED
    BY <1>1, <1>2, <1>7, <2>1
       DEF signal_done, TypeOK, ReadyLast, HeaderSoFar, FlagsLast, FlagsSeen, AllBefore
<1> QED BY <1>3, <1>4, <1>5, <1>6, <1>7 DEF WorkerStep

LEMMA StepInvariant == IInv /\ [Next]_vars => IInv'
<1> SUFFICES ASSUME IInv, [Next]_vars PROVE IInv'
  OBVIOUS
<1>1. CASE UNCHANGED vars
  BY <1>1 DEF vars, manager, workers, IInv, TypeOK, Handshake, Populating, ReadyLast,
              HeaderSoFar, FlagsLast, FlagsSeen, AllBefore, WorkersAgree
<1> QED
  BY <1>1, ManagerPreserves, WorkerPreserves DEF Next

LEMMA Invariance == Spec => []IInv
<1>1. Init => IInv
  BY InitInvariant
<1>2. IInv /\ [Next]_vars => IInv'
  BY StepInvariant
<1> QED BY <1>1, <1>2, PTL DEF Spec

-----------------------------------------------------------------------------
\* Every worker sorts the part that the file gives it, and none divides by
\* zero: the header is complete when ready is up (psort.cpp:241-250, 74-99).
THEOREM WorkersKnowTheirPart == Spec => []WorkersAgree
<1>1. IInv => WorkersAgree
  BY DEF IInv
<1> QED BY <1>1, Invariance, PTL

\* While and after merge_worker runs, no element moves (psort.cpp:252-284,
\* 143-189).
THEOREM PartsAreFinal == Spec => PartsStay
<1> DEFINE Final == (mpc \in {"merge", "done"}) => data' = data
<1>1. IInv /\ [Next]_vars => [Final]_vars
  <2> SUFFICES ASSUME IInv, Next, mpc \in {"merge", "done"} PROVE data' = data
    OBVIOUS
  <2>1. \A w \in Worker : ~WorkerStep(w)
    BY DEF IInv, Handshake, AllBefore, WorkerStep, wait_ready, load_elems, load_nodes,
           exchange, signal_done
  <2>2. CASE ManagerStep
    BY <2>2 DEF ManagerStep, memset_shm, store_data, store_elems, store_flags,
                store_nodes, store_ready, wait_for_workers, merge_worker
  <2> QED BY <2>1, <2>2 DEF Next, vars
<1> QED BY <1>1, Invariance, PTL DEF Spec, PartsStay

-----------------------------------------------------------------------------
(***************************************************************************)
(* The output is the file in ascending order.                              *)
(*                                                                         *)
(* What a worker has after turn = p * (share - 1) + q comparisons of its   *)
(* two loops is the invariant of bubble sort: the last p places of its     *)
(* part, the one below them once the inner loop has passed it, and the     *)
(* place the inner loop stands at hold no less than the places before.     *)
(* An exchange keeps the numbers of data those of the file, and what       *)
(* merge_worker has written is the beginnings of the parts, in order.      *)
(***************************************************************************)

\* elems_per_node of sort_worker and merge_worker: where the part of worker w begins.
share == Len(file) \div NODES_WORKER
base(w) == share * w

\* The same numbers, each as often, in other places.
Rearranges(f, g) ==
    \E h \in Bijection(DOMAIN f, DOMAIN g) : \A i \in DOMAIN f : f[i] = g[h[i]]

Shapes ==
    /\ file \in Seq(Number) /\ Len(file) \in Length
    /\ data \in [0 .. Len(file) - 1 -> Int]
    /\ in_iter \in 0 .. Len(file)
    /\ iter \in [Worker -> Nat] /\ turn \in [Worker -> Nat] /\ out \in Seq(Int)

\* populate_shm copies the file; exchanges move what it has copied.
Filled ==
    /\ mpc = "memset" => in_iter = 0
    /\ mpc = "data" => \A i \in 0 .. in_iter - 1 : data[i] = file[i + 1]
    /\ mpc \notin {"memset", "data"} => Rearranges(data, file)

\* The part of worker w.
its(w) == [a \in 0 .. share - 1 |-> data[base(w) + a]]

\* The places of a part of e elements that are in order in pass p at place q.
InOrder(x, e, p, q) ==
    \A b \in 0 .. e - 1 :
        b >= e - p \/ (b = e - 1 - p /\ q >= b) \/ b = q =>
            \A a \in 0 .. b - 1 : x[a] <= x[b]

Ascends(x, e) == \A b \in 0 .. e - 1 : \A a \in 0 .. b - 1 : x[a] <= x[b]

Sorting ==
    \A w \in Worker :
        /\ wpc[w] \in {"poll", "elems", "nodes"} => turn[w] = 0
        /\ wpc[w] = "sort" /\ share > 1 =>
             \E p, q \in Nat : /\ q < share - 1 /\ turn[w] = p * (share - 1) + q
                               /\ InOrder(its(w), share, p, q)
        /\ wpc[w] = "done" => Ascends(its(w), share)

\* The places that merge_worker has written.
Merged == {i \in DOMAIN data : \E w \in Worker : base(w) <= i /\ i < base(w) + iter[w]}

Merging ==
    /\ mpc \notin {"merge", "done"} => iter = Zero /\ out = <<>>
    /\ \A w \in Worker : iter[w] <= share
    /\ \A i \in 1 .. Len(out) - 1 : out[i] <= out[i + 1]
    /\ \A w \in Worker :
         out # <<>> /\ iter[w] < share => out[Len(out)] <= data[base(w) + iter[w]]
    /\ Rearranges(out, [i \in Merged |-> data[i]])
    /\ mpc = "done" => \A w \in Worker : iter[w] = share

SInv == IInv /\ Shapes /\ Filled /\ Sorting /\ Merging

\* What the theorem asks of the file: it divides into parts, and its numbers fit an int.
Divides == \A n \in Length : n % NODES_WORKER = 0
Fits == \A x \in Number : x <= INT_MAX

\* A product with a larger factor is larger by at least the other factor.
LEMMA Products ==
    ASSUME NEW d \in Nat, NEW v \in Nat, NEW w \in Nat, v < w
    PROVE  d * v \in Nat /\ d * w \in Nat /\ d * v + d <= d * w
<1>1. PICK m \in Nat : w = v + 1 + m
  <2>1. w - v - 1 \in Nat /\ w = v + 1 + (w - v - 1)
    OBVIOUS
  <2> QED BY <2>1
<1>2. d * w = d * v + d + d * m
  BY <1>1
<1>3. d * m \in Nat /\ d * v \in Nat
  OBVIOUS
<1> QED BY <1>2, <1>3

\* Division with a remainder is unique.
LEMMA Remainder ==
    ASSUME NEW d \in Nat, NEW p \in Nat, NEW q \in Nat, q < d
    PROVE  (p * d + q) % d = q /\ (p * d + q) \div d = p
<1> DEFINE k == (p * d + q) \div d
           r == (p * d + q) % d
<1>a. p * d \in Nat /\ d * p = p * d
  OBVIOUS
<1>1. k \in Nat /\ r \in Nat /\ r < d /\ p * d + q = d * k + r
  BY <1>a
<1> HIDE DEF k, r
<1>2. p = k
  <2>1. CASE p < k
    BY <2>1, <1>1, <1>a, Products
  <2>2. CASE k < p
    BY <2>2, <1>1, <1>a, Products
  <2> QED BY <1>1, <2>1, <2>2
<1>3. r = q
  BY <1>1, <1>2, <1>a
<1> QED BY <1>2, <1>3 DEF k, r

\* The parts lie one after another in the elements.
LEMMA Parts ==
    ASSUME Len(file) \in Nat
    PROVE  /\ share \in Nat /\ \A w \in Worker : w \in Nat /\ base(w) \in Nat
           /\ \A w \in Worker : base(w) + share <= Len(file)
           /\ \A v, w \in Worker : v < w => base(v) + share <= base(w)
<1>a. NODES_WORKER \in Nat \ {0} /\ \A w \in Worker : w \in Nat /\ w < NODES_WORKER
  BY WorkersAssumption DEF Worker
<1>1. share \in Nat /\ share * NODES_WORKER <= Len(file)
  BY <1>a DEF share
<1>2. \A v, w \in Nat : v < w => share * v \in Nat /\ share * v + share <= share * w
  BY <1>1, Products
<1>3. \A w \in Worker : share * w \in Nat /\ share * w + share <= share * NODES_WORKER
  BY <1>a, <1>2
<1>4. \A v, w \in Worker : v < w => share * v + share <= share * w
  BY <1>a, <1>2
<1>5. share * NODES_WORKER \in Nat
  BY <1>a, <1>1
<1> HIDE DEF share
<1> QED BY <1>a, <1>1, <1>3, <1>4, <1>5 DEF base

\* When the file divides into parts, every element is in the part of a worker.
LEMMA PartOf ==
    ASSUME Len(file) \in Nat, Len(file) % NODES_WORKER = 0, NEW i \in 0 .. Len(file) - 1
    PROVE  \E w \in Worker : base(w) <= i /\ i < base(w) + share
<1>a. NODES_WORKER \in Nat \ {0}
  BY WorkersAssumption
<1>1. share \in Nat /\ Len(file) = share * NODES_WORKER
  BY <1>a DEF share
<1>2. share # 0
  BY <1>1, <1>a
<1> DEFINE w == i \div share
<1>3. w \in Nat /\ share * w <= i /\ i < share * w + share
  BY <1>1, <1>2
<1> HIDE DEF w, share
<1>4. w < NODES_WORKER
  <2> SUFFICES ASSUME NODES_WORKER <= w PROVE FALSE
    BY <1>3, <1>a
  <2>1. share * NODES_WORKER <= share * w
    BY <1>1, <1>3, <1>a, Products
  <2> QED BY <2>1, <1>1, <1>3
<1> QED BY <1>3, <1>4, <1>a DEF Worker, base

\* What is rearranged has every number as often.
LEMMA SameTimes ==
    ASSUME NEW f, NEW g, IsFiniteSet(DOMAIN f), Rearranges(f, g), NEW x
    PROVE  times(f, x) = times(g, x)
<1>1. PICK h \in Bijection(DOMAIN f, DOMAIN g) : \A i \in DOMAIN f : f[i] = g[h[i]]
  BY DEF Rearranges
<1> DEFINE S == {i \in DOMAIN f : f[i] = x}
           T == {i \in DOMAIN g : g[i] = x}
           k == [i \in S |-> h[i]]
<1>2. /\ h \in [DOMAIN f -> DOMAIN g]
      /\ \A i, j \in DOMAIN f : h[i] = h[j] => i = j
      /\ \A j \in DOMAIN g : \E i \in DOMAIN f : h[i] = j
  BY <1>1 DEF Bijection, Injection, Surjection, IsInjective
<1>3. k \in Bijection(S, T)
  BY <1>1, <1>2 DEF Bijection, Injection, Surjection, IsInjective
<1>4. IsFiniteSet(S)
  BY FS_Subset
<1>5. ExistsBijection(S, T)
  BY <1>3 DEF ExistsBijection
<1>6. Cardinality(T) = Cardinality(S)
  <2> HIDE DEF S, T
  <2> QED BY <1>4, <1>5, FS_Bijection
<1> QED BY <1>6 DEF times

\* An exchange of two places rearranges.
LEMMA ExchangeRearranges ==
    ASSUME NEW f, NEW g, Rearranges(f, g), NEW a \in DOMAIN f, NEW b \in DOMAIN f, a # b
    PROVE  Rearranges([f EXCEPT ![a] = f[b], ![b] = f[a]], g)
<1>1. PICK h \in Bijection(DOMAIN f, DOMAIN g) : \A i \in DOMAIN f : f[i] = g[h[i]]
  BY DEF Rearranges
<1> DEFINE e == [f EXCEPT ![a] = f[b], ![b] = f[a]]
           k == [h EXCEPT ![a] = h[b], ![b] = h[a]]
<1>2. /\ h \in [DOMAIN f -> DOMAIN g]
      /\ \A i, j \in DOMAIN f : h[i] = h[j] => i = j
      /\ \A j \in DOMAIN g : \E i \in DOMAIN f : h[i] = j
  BY <1>1 DEF Bijection, Injection, Surjection, IsInjective
<1>3. /\ DOMAIN e = DOMAIN f /\ e[a] = f[b] /\ e[b] = f[a]
      /\ \A i \in DOMAIN f \ {a, b} : e[i] = f[i]
  OBVIOUS
<1>4. /\ k \in [DOMAIN f -> DOMAIN g] /\ k[a] = h[b] /\ k[b] = h[a]
      /\ \A i \in DOMAIN f \ {a, b} : k[i] = h[i]
  BY <1>2
<1> HIDE DEF e, k
<1>5. \A i, j \in DOMAIN f : k[i] = k[j] => i = j
  BY <1>2, <1>4
<1>6. \A j \in DOMAIN g : \E i \in DOMAIN f : k[i] = j
  <2> SUFFICES ASSUME NEW j \in DOMAIN g PROVE \E i \in DOMAIN f : k[i] = j
    OBVIOUS
  <2>1. PICK i \in DOMAIN f : h[i] = j
    BY <1>2
  <2> QED BY <2>1, <1>4
<1>7. k \in Bijection(DOMAIN e, DOMAIN g)
  BY <1>3, <1>4, <1>5, <1>6 DEF Bijection, Injection, Surjection, IsInjective
<1>8. \A i \in DOMAIN e : e[i] = g[k[i]]
  BY <1>1, <1>3, <1>4
<1>9. Rearranges(e, g)
  BY <1>7, <1>8 DEF Rearranges
<1> QED BY <1>9 DEF e

\* One more number, from a place not taken before.
LEMMA AppendRearranges ==
    ASSUME NEW f \in Seq(Int), NEW D, NEW d, NEW j, j \notin D, d[j] \in Int,
           Rearranges(f, [i \in D |-> d[i]])
    PROVE  Rearranges(Append(f, d[j]), [i \in D \cup {j} |-> d[i]])
<1>1. PICK h \in Bijection(DOMAIN f, D) : \A i \in DOMAIN f : f[i] = d[h[i]]
  <2>1. PICK h \in Bijection(DOMAIN f, D) : \A i \in DOMAIN f : f[i] = [c \in D |-> d[c]][h[i]]
    BY DEF Rearranges
  <2>2. \A i \in DOMAIN f : h[i] \in D
    BY <2>1 DEF Bijection, Injection
  <2> QED BY <2>1, <2>2
<1>2. /\ h \in [DOMAIN f -> D]
      /\ \A i, c \in DOMAIN f : h[i] = h[c] => i = c
      /\ \A c \in D : \E i \in DOMAIN f : h[i] = c
  BY <1>1 DEF Bijection, Injection, Surjection, IsInjective
<1> DEFINE n == Len(f) + 1
           e == Append(f, d[j])
           k == [i \in 1 .. n |-> IF i = n THEN j ELSE h[i]]
           E == D \cup {j}
<1>3. /\ DOMAIN e = 1 .. n /\ n \in Nat /\ n \in 1 .. n
      /\ DOMAIN f = (1 .. n) \ {n}
      /\ e[n] = d[j] /\ \A i \in DOMAIN f : e[i] = f[i]
  <2>1. \A x \in Int :
          /\ DOMAIN Append(f, x) = 1 .. n /\ Append(f, x)[n] = x
          /\ \A i \in 1 .. Len(f) : Append(f, x)[i] = f[i]
    OBVIOUS
  <2>2. DOMAIN f = 1 .. Len(f) /\ Len(f) \in Nat
    OBVIOUS
  <2>3. n \in Nat /\ n \in 1 .. n /\ 1 .. Len(f) = (1 .. n) \ {n}
    BY <2>2
  <2> QED BY <2>1, <2>2, <2>3
<1>4. k \in [1 .. n -> E] /\ k[n] = j /\ \A i \in DOMAIN f : k[i] = h[i]
  BY <1>2, <1>3
<1> HIDE DEF n, e, k
<1>5. \A i, c \in 1 .. n : k[i] = k[c] => i = c
  <2>1. \A i \in DOMAIN f : k[i] # k[n]
    BY <1>2, <1>4
  <2>2. \A i, c \in DOMAIN f : k[i] = k[c] => i = c
    BY <1>2, <1>4
  <2> QED BY <1>3, <2>1, <2>2
<1>6. \A c \in E : \E i \in 1 .. n : k[i] = c
  BY <1>2, <1>3, <1>4
<1>7. k \in Bijection(DOMAIN e, E)
  <2> HIDE DEF E
  <2>1. k \in Injection(1 .. n, E)
    BY <1>4, <1>5 DEF Injection, IsInjective
  <2>2. k \in Surjection(1 .. n, E)
    BY <1>4, <1>6 DEF Surjection
  <2> QED BY <2>1, <2>2, <1>3 DEF Bijection
<1>8. \A i \in DOMAIN e : e[i] = d[k[i]] /\ k[i] \in E
  BY <1>1, <1>3, <1>4
<1>9. Rearranges(e, [i \in E |-> d[i]])
  BY <1>7, <1>8 DEF Rearranges
<1> QED BY <1>9 DEF e

\* A copy from the indices of a sequence to those of an array.
LEMMA ShiftRearranges ==
    ASSUME NEW f, NEW s \in Seq(Number), f \in [0 .. Len(s) - 1 -> Int],
           \A i \in 0 .. Len(s) - 1 : f[i] = s[i + 1]
    PROVE  Rearranges(f, s)
<1> DEFINE h == [i \in 0 .. Len(s) - 1 |-> i + 1]
<1>1. DOMAIN f = 0 .. Len(s) - 1 /\ DOMAIN s = 1 .. Len(s) /\ Len(s) \in Nat
  OBVIOUS
<1>2. h \in [0 .. Len(s) - 1 -> 1 .. Len(s)]
  BY <1>1
<1>3. \A j \in 1 .. Len(s) : j - 1 \in 0 .. Len(s) - 1 /\ h[j - 1] = j
  BY <1>1
<1>4. \A i, c \in 0 .. Len(s) - 1 : h[i] = h[c] => i = c
  BY <1>1
<1>5. \A i \in DOMAIN f : f[i] = s[h[i]]
  BY <1>1
<1> HIDE DEF h
<1>6. h \in Bijection(DOMAIN f, DOMAIN s)
  BY <1>1, <1>2, <1>3, <1>4 DEF Bijection, Injection, Surjection, IsInjective
<1> QED BY <1>5, <1>6 DEF Rearranges

\* A comparison and its exchange take the inner loop one place further.
LEMMA Compared ==
    ASSUME NEW e \in Nat, NEW x \in [0 .. e - 1 -> Int], NEW y \in [0 .. e - 1 -> Int],
           NEW p \in Nat, NEW q \in Nat, q < e - 1, InOrder(x, e, p, q),
           y = IF x[q] > x[q + 1] THEN [x EXCEPT ![q] = x[q + 1], ![q + 1] = x[q]] ELSE x
    PROVE  InOrder(y, e, p, q + 1)
<1>1. q \in 0 .. e - 1 /\ q + 1 \in 0 .. e - 1 /\ q # q + 1
  OBVIOUS
<1>2. /\ \A a \in 0 .. e - 1 \ {q, q + 1} : y[a] = x[a]
      /\ y[q] <= y[q + 1]
      /\ (y[q] = x[q] /\ y[q + 1] = x[q + 1] /\ x[q] <= x[q + 1])
           \/ (y[q] = x[q + 1] /\ y[q + 1] = x[q] /\ x[q] > x[q + 1])
      /\ \A a \in 0 .. e - 1 : x[a] \in Int /\ y[a] \in Int
  BY <1>1
<1>3. \A a \in 0 .. q - 1 : x[a] <= x[q]
  BY <1>1 DEF InOrder
<1> SUFFICES ASSUME NEW b \in 0 .. e - 1,
                    b >= e - p \/ (b = e - 1 - p /\ q + 1 >= b) \/ b = q + 1,
                    NEW a \in 0 .. b - 1
             PROVE  y[a] <= y[b]
  BY DEF InOrder
<1>4. a \in 0 .. e - 1
  OBVIOUS
<1>5. CASE b = q + 1
  <2>1. CASE a = q
    BY <2>1, <1>5, <1>2
  <2>2. CASE a # q
    <3>1. a \in 0 .. q - 1
      BY <2>2, <1>5
    <3>2. y[a] = x[a] /\ x[a] <= x[q]
      BY <3>1, <1>2, <1>3, <1>4
    <3> QED BY <3>2, <1>1, <1>2, <1>4, <1>5
  <2> QED BY <2>1, <2>2
<1>6. CASE b # q + 1 /\ (b >= e - p \/ b = e - 1 - p)
  <2>0. b >= e - p \/ (b = e - 1 - p /\ q >= b)
    BY <1>6
  <2>1. \A c \in 0 .. b - 1 : x[c] <= x[b]
    BY <2>0 DEF InOrder
  <2>2. CASE b = q
    <3>1. q + 1 >= e - p
      BY <2>0, <2>2
    <3>2. \A c \in 0 .. q : x[c] <= x[q + 1]
      BY <3>1, <1>1 DEF InOrder
    <3>3. x[q] <= x[q + 1]
      BY <3>2
    <3>4. y[a] = x[a] /\ y[b] = x[b]
      BY <3>3, <2>2, <1>2, <1>4
    <3> QED BY <3>4, <2>1
  <2>3. CASE b > q + 1
    <3>1. y[b] = x[b] /\ x[q] <= x[b] /\ x[q + 1] <= x[b]
      BY <2>3, <2>1, <1>2
    <3> QED BY <3>1, <2>1, <1>2, <1>4
  <2>4. CASE b < q
    BY <2>4, <2>1, <1>2, <1>4
  <2> QED BY <2>2, <2>3, <2>4, <1>6
<1> QED BY <1>5, <1>6

\* At the end of the inner loop the next pass begins.
LEMMA NextPass ==
    ASSUME NEW e \in Nat, NEW x, NEW p \in Nat, InOrder(x, e, p, e - 1)
    PROVE  InOrder(x, e, p + 1, 0)
BY DEF InOrder

\* After e passes the part is in order; so it is when there is nothing to sort.
LEMMA Passed ==
    ASSUME NEW e \in Nat, NEW x, NEW p \in Nat, NEW q \in Nat, p >= e \/ e <= 1,
           e <= 1 \/ InOrder(x, e, p, q)
    PROVE  Ascends(x, e)
BY DEF InOrder, Ascends

\* At the start only the first place is in order.
LEMMA FirstPass == ASSUME NEW e \in Nat, NEW x PROVE InOrder(x, e, 0, 0)
BY DEF InOrder

-----------------------------------------------------------------------------
\* The facts about the file that every step below uses.
LEMMA FileFacts ==
    ASSUME SInv, Divides
    PROVE  /\ Len(file) \in Nat /\ Len(file) % NODES_WORKER = 0
           /\ DOMAIN data = 0 .. Len(file) - 1 /\ DOMAIN file = 1 .. Len(file)
           /\ share \in Nat /\ \A w \in Worker : w \in Nat /\ base(w) \in Nat
           /\ \A w \in Worker : base(w) + share <= Len(file)
           /\ \A v, w \in Worker : v < w => base(v) + share <= base(w)
  BY Parts DEF SInv, Shapes, Divides

\* While nothing is merged there is nothing to show of the output.
LEMMA Unmerged ==
    ASSUME share' \in Nat, \A w \in Worker : base(w)' \in Nat,
           mpc' # "done", iter' = Zero, out' = <<>>
    PROVE  Merging'
<1>1. \A w \in Worker : iter'[w] = 0
  BY DEF Zero
<1>2. Merged' = {}
  BY <1>1 DEF Merged
<1>3. \A d : Rearranges(<<>>, [i \in {} |-> d[i]])
  <2> SUFFICES ASSUME NEW d PROVE Rearranges(<<>>, [i \in {} |-> d[i]])
    OBVIOUS
  <2> DEFINE h == [i \in {} |-> i]
  <2>1. DOMAIN <<>> = {} /\ h \in Bijection({}, {})
    BY DEF Bijection, Injection, Surjection, IsInjective
  <2> QED BY <2>1 DEF Rearranges
<1>4. Rearranges(out', [i \in Merged' |-> data'[i]])
  BY <1>2, <1>3
<1>5. Rearranges(out, [i \in Merged |-> data[i]])'
  BY <1>4 DEF Rearranges
<1>6. \A i \in 1 .. Len(out') - 1 : out'[i] <= out'[i + 1]
  OBVIOUS
<1> QED BY <1>1, <1>5, <1>6 DEF Merging

\* A step that moves neither a worker nor an element leaves the parts as they are.
LEMMA SortingFrame ==
    ASSUME Sorting, UNCHANGED <<file, data, turn, wpc>> PROVE Sorting'
BY DEF Sorting, its, share, base

\* The same of the output.
LEMMA MergingFrame ==
    ASSUME Merging, UNCHANGED <<file, data, iter, out>>,
           mpc' = mpc \/ {mpc, mpc'} \cap {"merge", "done"} = {}
    PROVE  Merging'
<1>1. Merged' = Merged
  BY DEF Merged, base, share
<1>2. Rearranges(out, [i \in Merged |-> data[i]])'
  BY <1>1 DEF Merging, Rearranges
<1> QED BY <1>2 DEF Merging, share, base

\* At the start.
LEMMA SInvInit == Init => SInv
<1> SUFFICES ASSUME Init PROVE SInv
  OBVIOUS
<1>1. IInv
  BY InitInvariant
<1>2. PICK n \in Length : file \in [1 .. n -> Number]
  BY DEF Init
<1>3. n \in Nat /\ file \in Seq(Number) /\ Len(file) = n
  BY <1>2, InputAssumption
<1>4. Shapes
  BY <1>2, <1>3 DEF Init, Zero, Shapes
<1>5. Filled /\ Sorting
  BY DEF Init, Zero, Filled, Sorting
<1>6. /\ mpc = "memset" /\ out = <<>> /\ iter = Zero /\ \A w \in Worker : iter[w] = 0
  BY DEF Init, Zero
<1>7. share \in Nat /\ \A w \in Worker : base(w) \in Nat
  BY <1>3, Parts
<1>8. Merged = {}
  <2>1. \A i \in DOMAIN data : i \in Int
    BY <1>3, <1>4 DEF Shapes
  <2>2. \A w \in Worker : base(w) + iter[w] = base(w)
    BY <1>6, <1>7
  <2>3. \A i \in DOMAIN data : \A w \in Worker : ~(base(w) <= i /\ i < base(w))
    BY <2>1, <1>7
  <2> QED BY <2>2, <2>3 DEF Merged
<1>9. Rearranges(out, [i \in Merged |-> data[i]])
  <2> DEFINE h == [i \in {} |-> i]
  <2>1. DOMAIN <<>> = {} /\ h \in Bijection({}, {})
    BY DEF Bijection, Injection, Surjection, IsInjective
  <2> QED BY <1>6, <1>8, <2>1 DEF Rearranges
<1>10. Merging
  BY <1>6, <1>7, <1>9 DEF Merging
<1> QED BY <1>1, <1>4, <1>5, <1>10 DEF SInv

\* populate_shm: nobody works yet, and nothing is merged.
LEMMA PopulatePreserves ==
    ASSUME SInv, Divides, Fits,
           memset_shm \/ store_data \/ store_elems \/ store_flags \/ store_nodes \/ store_ready
    PROVE  Shapes' /\ Filled' /\ Sorting' /\ Merging'
<1>a. /\ Len(file) \in Nat /\ DOMAIN data = 0 .. Len(file) - 1
      /\ share \in Nat /\ \A w \in Worker : base(w) \in Nat
  BY FileFacts
<1>1. Populating /\ (\A w \in Worker : wpc[w] = "poll" /\ turn[w] = 0)
      /\ mpc' \notin {"merge", "done", "memset"} /\ out = <<>> /\ iter = Zero
  BY DEF SInv, IInv, Handshake, ReadyLast, Populating, Sorting, Merging, memset_shm, store_data,
         store_elems, store_flags, store_nodes, store_ready
<1>2. UNCHANGED <<file, iter, out, turn, wpc>>
  BY DEF memset_shm, store_data, store_elems, store_flags, store_nodes, store_ready, workers
<1>3. Sorting'
  BY <1>1, <1>2 DEF Sorting
<1>4. Merging'
  <2>1. share' = share /\ \A w \in Worker : base(w)' = base(w)
    BY <1>2 DEF share, base
  <2> QED BY <1>a, <1>1, <1>2, <2>1, Unmerged
<1>5. Shapes
  BY DEF SInv
<1>6. CASE memset_shm
  <2>1. mpc = "memset" /\ mpc' = "data" /\ in_iter' = in_iter /\ in_iter = 0
        /\ data' = [i \in 0 .. Len(file) - 1 |-> 0]
    BY <1>a, <1>6 DEF memset_shm, Filled, SInv
  <2>2. Shapes'
    BY <1>2, <1>5, <2>1 DEF Shapes
  <2>3. 0 .. in_iter' - 1 = {}
    BY <2>1
  <2> QED BY <2>1, <2>2, <2>3, <1>3, <1>4 DEF Filled
<1>7. CASE store_data
  <2>1. in_iter < Len(file) /\ in_iter \in 0 .. Len(file)
        /\ data' = [data EXCEPT ![in_iter] = file[in_iter + 1]]
        /\ mpc = "data" /\ mpc' = "data" /\ in_iter' = in_iter + 1
    BY <1>5, <1>7 DEF store_data, readable, Shapes
  <2>2. file[in_iter + 1] \in Int /\ in_iter \in 0 .. Len(file) - 1
    <3>1. in_iter + 1 \in 1 .. Len(file) /\ in_iter \in 0 .. Len(file) - 1
      BY <1>a, <2>1
    <3>2. file[in_iter + 1] \in Number
      BY <3>1, <1>5 DEF Shapes
    <3>3. Number \subseteq Int
      BY InputAssumption
    <3> QED BY <3>1, <3>2, <3>3
  <2>3. Shapes'
    BY <1>2, <1>5, <2>1, <2>2 DEF Shapes
  <2>4. \A i \in 0 .. in_iter - 1 : data[i] = file[i + 1]
    BY <2>1 DEF SInv, Filled
  <2>5. \A i \in 0 .. in_iter : data'[i] = file[i + 1]
    BY <1>5, <2>1, <2>2, <2>4 DEF Shapes
  <2>6. in_iter' - 1 = in_iter
    BY <2>1
  <2>7. file' = file
    BY <1>2
  <2> QED BY <2>1, <2>3, <2>5, <2>6, <2>7, <1>3, <1>4 DEF Filled
<1>8. CASE store_elems
  <2>1. mpc = "data" /\ mpc' = "flags" /\ UNCHANGED <<data, in_iter>>
    BY <1>8 DEF store_elems
  <2>2. in_iter = Len(file)
    <3>1. in_iter \in 0 .. Len(file)
          /\ (in_iter < Len(file) => file[in_iter + 1] \in Number)
      BY <1>5 DEF Shapes
    <3> QED BY <1>8, <3>1 DEF store_elems, readable, Fits
  <2>3. \A i \in 0 .. Len(file) - 1 : data[i] = file[i + 1]
    BY <2>1, <2>2 DEF SInv, Filled
  <2>4. Rearranges(data, file)
    BY <1>5, <2>3, ShiftRearranges DEF Shapes
  <2>5. Rearranges(data, file)'
    BY <1>2, <2>1, <2>4 DEF Rearranges
  <2>6. Shapes'
    BY <1>2, <1>5, <2>1 DEF Shapes
  <2> QED BY <2>1, <2>5, <2>6, <1>3, <1>4 DEF Filled
<1>9. CASE store_flags \/ store_nodes \/ store_ready
  <2>1. mpc \notin {"memset", "data"} /\ mpc' \notin {"memset", "data"}
        /\ UNCHANGED <<data, in_iter>>
    BY <1>9 DEF store_flags, store_nodes, store_ready
  <2>2. Rearranges(data, file)'
    BY <1>2, <2>1 DEF Rearranges, SInv, Filled
  <2>3. Shapes'
    BY <1>2, <1>5, <2>1 DEF Shapes
  <2> QED BY <2>1, <2>2, <2>3, <1>3, <1>4 DEF Filled
<1> QED BY <1>3, <1>4, <1>6, <1>7, <1>8, <1>9

\* The parts of two workers share no place.
LEMMA Disjoint ==
    ASSUME SInv, Divides, NEW v \in Worker, NEW w \in Worker, NEW i \in Int,
           base(v) <= i, i < base(v) + share, base(w) <= i, i < base(w) + share
    PROVE  v = w
<1>1. v \in Nat /\ w \in Nat /\ base(v) \in Nat /\ base(w) \in Nat /\ share \in Nat
  BY FileFacts
<1>2. ~(v < w)
  <2>1. v < w => base(v) + share <= base(w)
    BY FileFacts
  <2> QED BY <1>1, <2>1
<1>3. ~(w < v)
  <2>1. w < v => base(w) + share <= base(v)
    BY FileFacts
  <2> QED BY <1>1, <2>1
<1> QED BY <1>1, <1>2, <1>3

\* merge_worker writes the least of the heads: nothing that is left is less.
LEMMA MergePreserves ==
    ASSUME SInv, Divides, mpc = "merge", UNCHANGED <<file, data, header>>, mpc' = "merge",
           NEW w \in left, is_next(w),
           out' = Append(out, head(w)), iter' = [iter EXCEPT ![w] = @ + 1]
    PROVE  Merging' /\ out' \in Seq(Int) /\ iter' \in [Worker -> Nat]
<1> DEFINE j == base(w) + iter[w]
<1>a. /\ Len(file) \in Nat /\ DOMAIN data = 0 .. Len(file) - 1 /\ share \in Nat
      /\ \A v \in Worker : base(v) \in Nat /\ base(v) + share <= Len(file)
  BY FileFacts
<1>b. /\ data \in [0 .. Len(file) - 1 -> Int] /\ out \in Seq(Int)
      /\ iter \in [Worker -> Nat] /\ \A v \in Worker : iter[v] <= share
  BY DEF SInv, Shapes, Merging
<1>c. elems_per_node = share /\ \A v \in Worker : share * v = base(v)
  <2>1. header.elems = Len(file)
    BY DEF SInv, IInv, Handshake, ReadyLast, Populating
  <2> QED BY <2>1 DEF elems_per_node, share, base
<1>d. \A v \in Worker : v \in Nat /\ v * share = share * v
  <2>1. \A v \in Worker : v \in Nat
    BY DEF Worker
  <2> HIDE DEF share
  <2> QED BY <1>a, <2>1
<1>1. w \in Worker /\ iter[w] < share /\ iter[w] \in Nat
  BY <1>a, <1>b, <1>c DEF left
<1>2. \A v \in Worker : head(v) = data[base(v) + iter[v]]
  BY <1>c, <1>d DEF head
<1>3. /\ j \in 0 .. Len(file) - 1 /\ j \in Int /\ base(w) <= j /\ j < base(w) + share
      /\ data[j] \in Int /\ out' = Append(out, data[j])
  BY <1>a, <1>b, <1>1, <1>2
<1>4. \A v \in Worker : iter[v] < share =>
         base(v) + iter[v] \in 0 .. Len(file) - 1 /\ data[base(v) + iter[v]] \in Int
  BY <1>a, <1>b
<1> HIDE DEF j
<1>5. \A v \in Worker : iter[v] < share => data[j] <= data[base(v) + iter[v]]
  <2> SUFFICES ASSUME NEW v \in Worker, iter[v] < share
               PROVE  data[j] <= data[base(v) + iter[v]]
    OBVIOUS
  <2>1. v \in left
    BY <1>a, <1>b, <1>c DEF left
  <2>2. head(w) < head(v) \/ head(w) = head(v)
    BY <2>1 DEF is_next
  <2>3. head(w) = data[j] /\ head(v) = data[base(v) + iter[v]]
    BY <1>1, <1>2 DEF j
  <2>4. data[base(v) + iter[v]] \in Int
    BY <1>4
  <2> QED BY <2>2, <2>3, <2>4, <1>3
<1>6. iter[w] + 1 < share => data[j] <= data[base(w) + (iter[w] + 1)]
  <2> SUFFICES ASSUME iter[w] + 1 < share
               PROVE  data[j] <= data[base(w) + (iter[w] + 1)]
    OBVIOUS
  <2>1. Ascends(its(w), share)
    BY <1>1 DEF SInv, IInv, Handshake, AllBefore, Sorting
  <2>2. iter[w] + 1 \in 0 .. share - 1 /\ iter[w] \in 0 .. (iter[w] + 1) - 1
        /\ iter[w] \in 0 .. share - 1
    BY <1>a, <1>1
  <2>3. its(w)[iter[w]] <= its(w)[iter[w] + 1]
    BY <2>1, <2>2 DEF Ascends
  <2> QED BY <2>2, <2>3 DEF its, j
<1>7. /\ iter' \in [Worker -> Nat] /\ iter'[w] = iter[w] + 1
      /\ \A v \in Worker \ {w} : iter'[v] = iter[v]
  BY <1>b, <1>1
<1>8. /\ out' \in Seq(Int) /\ out' # <<>> /\ Len(out') = Len(out) + 1 /\ Len(out) \in Nat
      /\ out'[Len(out')] = data[j] /\ \A i \in 1 .. Len(out) : out'[i] = out[i]
  <2>1. out \in Seq(Int) /\ data[j] \in Int /\ out' = Append(out, data[j])
    BY <1>b, <1>3
  <2>2. \A s \in Seq(Int) : \A x \in Int :
          /\ Append(s, x) \in Seq(Int) /\ Len(Append(s, x)) = Len(s) + 1 /\ Len(s) \in Nat
          /\ Append(s, x)[Len(s) + 1] = x /\ \A i \in 1 .. Len(s) : Append(s, x)[i] = s[i]
    OBVIOUS
  <2>3. /\ out' \in Seq(Int) /\ Len(out') = Len(out) + 1 /\ Len(out) \in Nat
        /\ out'[Len(out')] = data[j] /\ \A i \in 1 .. Len(out) : out'[i] = out[i]
    BY <2>1, <2>2
  <2>4. out' # <<>>
    BY <2>3
  <2> QED BY <2>3, <2>4
<1>9. \A i \in 1 .. Len(out') - 1 : out'[i] <= out'[i + 1]
  <2> SUFFICES ASSUME NEW i \in 1 .. Len(out') - 1 PROVE out'[i] <= out'[i + 1]
    OBVIOUS
  <2>1. i \in 1 .. Len(out)
    BY <1>8
  <2>2. CASE i < Len(out)
    <3>1. i \in 1 .. Len(out) - 1 /\ i + 1 \in 1 .. Len(out)
      BY <2>1, <2>2, <1>8
    <3>2. out[i] <= out[i + 1]
      BY <3>1 DEF SInv, Merging
    <3> QED BY <2>1, <3>1, <3>2, <1>8
  <2>3. CASE i = Len(out)
    <3>1. out # <<>>
      BY <2>1, <2>3, <1>b
    <3>2. out[Len(out)] <= data[j]
      BY <3>1, <1>1 DEF SInv, Merging, j
    <3> QED BY <2>1, <2>3, <3>2, <1>8
  <2> QED BY <2>1, <2>2, <2>3, <1>8
<1>10. j \notin Merged
  <2> SUFFICES ASSUME NEW v \in Worker, base(v) <= j, j < base(v) + iter[v] PROVE FALSE
    BY DEF Merged
  <2>1. j < base(v) + share
    BY <1>a, <1>b, <1>3
  <2>2. v = w
    BY <2>1, <1>1, <1>3, Disjoint
  <2> QED BY <2>2, <1>a, <1>1 DEF j
<1>11. Merged' = Merged \cup {j}
  <2>1. share' = share /\ \A v \in Worker : base(v)' = base(v)
    BY DEF share, base
  <2>2. \A i \in DOMAIN data :
           (base(w) <= i /\ i < base(w) + iter'[w])
             <=> (base(w) <= i /\ i < base(w) + iter[w]) \/ i = j
    <3>1. base(w) \in Nat /\ iter[w] \in Nat /\ j = base(w) + iter[w] /\ iter'[w] = iter[w] + 1
      BY <1>a, <1>1, <1>7 DEF j
    <3>2. \A i \in DOMAIN data : i \in Int
      BY <1>a
    <3>3. \A i \in Int : (base(w) <= i /\ i < base(w) + (iter[w] + 1))
                             <=> (base(w) <= i /\ i < base(w) + iter[w]) \/ i = base(w) + iter[w]
      BY <3>1
    <3> QED BY <3>1, <3>2, <3>3
  <2>3. \A i \in DOMAIN data :
           (\E v \in Worker : base(v) <= i /\ i < base(v) + iter'[v])
             <=> (\E v \in Worker : base(v) <= i /\ i < base(v) + iter[v]) \/ i = j
    BY <2>2, <1>1, <1>7
  <2>4. j \in DOMAIN data
    BY <1>a, <1>3
  <2>5. Merged' = {i \in DOMAIN data : \E v \in Worker : base(v) <= i /\ i < base(v) + iter'[v]}
    BY <2>1 DEF Merged
  <2> QED BY <2>3, <2>4, <2>5 DEF Merged
<1>12. Rearranges(out, [i \in Merged |-> data[i]])'
  <2>1. Rearranges(out, [i \in Merged |-> data[i]])
    BY DEF SInv, Merging
  <2>2. Rearranges(Append(out, data[j]), [i \in Merged \cup {j} |-> data[i]])
    BY <2>1, <1>b, <1>3, <1>10, AppendRearranges
  <2>3. Rearranges(out', [i \in Merged' |-> data'[i]])
    BY <2>2, <1>3, <1>11
  <2> QED BY <2>3 DEF Rearranges
<1>13. \A v \in Worker : iter'[v] <= share
  BY <1>a, <1>b, <1>1, <1>7
<1>14. \A v \in Worker :
          iter'[v] < share => out'[Len(out')] <= data[base(v) + iter'[v]]
  BY <1>5, <1>6, <1>7, <1>8
<1>15. share' = share /\ \A v \in Worker : base(v)' = base(v)
  BY DEF share, base
<1> QED BY <1>7, <1>8, <1>9, <1>12, <1>13, <1>14, <1>15 DEF Merging

\* The manager after populate_shm.
LEMMA ManagerKeepsOrder ==
    ASSUME SInv, Divides, Fits, ManagerStep
    PROVE  Shapes' /\ Filled' /\ Sorting' /\ Merging'
<1>1. CASE memset_shm \/ store_data \/ store_elems \/ store_flags \/ store_nodes \/ store_ready
  BY <1>1, PopulatePreserves
<1>2. CASE wait_for_workers \/ merge_worker
  <2>1. /\ UNCHANGED <<file, data, header, in_iter, turn, wpc>>
        /\ mpc \in {"wait", "merge"} /\ mpc' \in {"wait", "merge", "done"}
    BY <1>2 DEF wait_for_workers, merge_worker, workers
  <2>2. Sorting'
    BY <2>1, SortingFrame DEF SInv
  <2>3. Filled'
    BY <2>1 DEF SInv, Filled, Rearranges
  <2>4. ASSUME iter' \in [Worker -> Nat], out' \in Seq(Int)
        PROVE  Shapes'
    BY <2>1, <2>4 DEF SInv, Shapes
  <2>5. CASE wait_for_workers
    <3>1. UNCHANGED <<iter, out>> /\ mpc' # "done" /\ iter = Zero /\ out = <<>>
      BY <2>5 DEF wait_for_workers, SInv, Merging
    <3>2. share' = share /\ \A w \in Worker : base(w)' = base(w)
      BY <2>1 DEF share, base
    <3>3. Merging'
      BY <3>1, <3>2, FileFacts, Unmerged
    <3>4. Shapes'
      BY <2>1, <3>1 DEF SInv, Shapes
    <3> QED BY <2>2, <2>3, <3>3, <3>4
  <2>6. CASE merge_worker
    <3>1. CASE left = {}
      <4>1. UNCHANGED <<iter, out>> /\ mpc = "merge" /\ mpc' = "done"
        BY <2>6, <3>1 DEF merge_worker
      <4>2. \A w \in Worker : iter[w] = share
        <5>1. header.elems = Len(file)
          BY <4>1 DEF SInv, IInv, Handshake, ReadyLast, Populating
        <5> QED BY <5>1, <3>1 DEF left, elems_per_node, share
      <4>3. UNCHANGED <<share, Merged>> /\ \A w \in Worker : base(w)' = base(w)
        BY <2>1, <4>1 DEF Merged, base, share
      <4>4. Rearranges(out, [i \in Merged |-> data[i]])'
        BY <2>1, <4>1, <4>3 DEF Rearranges, SInv, Merging
      <4>5. Merging'
        BY <2>1, <4>1, <4>2, <4>3, <4>4 DEF SInv, Merging
      <4>6. Shapes'
        BY <2>1, <4>1 DEF SInv, Shapes
      <4> QED BY <2>2, <2>3, <4>5, <4>6
    <3>2. CASE left # {}
      <4>1. PICK w \in left : /\ is_next(w) /\ out' = Append(out, head(w))
                              /\ iter' = [iter EXCEPT ![w] = @ + 1] /\ mpc' = mpc
        BY <2>6, <3>2 DEF merge_worker
      <4>2. mpc = "merge" /\ mpc' = "merge"
        BY <2>6, <4>1 DEF merge_worker
      <4>3. Merging' /\ out' \in Seq(Int) /\ iter' \in [Worker -> Nat]
        BY <2>1, <4>1, <4>2, MergePreserves
      <4> QED BY <2>2, <2>3, <2>4, <4>3
    <3> QED BY <3>1, <3>2
  <2> QED BY <1>2, <2>5, <2>6
<1> QED BY <1>1, <1>2 DEF ManagerStep

\* Functions that agree everywhere are the same.
LEMMA SameFunction ==
    ASSUME NEW S, NEW T, NEW f \in [S -> T], NEW g \in [S -> T], \A a \in S : f[a] = g[a]
    PROVE  f = g
<1>1. f = [a \in S |-> f[a]] /\ g = [a \in S |-> g[a]]
  OBVIOUS
<1>2. [a \in S |-> f[a]] = [a \in S |-> g[a]]
  OBVIOUS
<1> QED BY <1>1, <1>2

\* A comparison in part w, at place q of pass p.
LEMMA ExchangePreserves ==
    ASSUME SInv, Divides, NEW w \in Worker, exchange(w)
    PROVE  Shapes' /\ Filled' /\ Sorting' /\ Merging'
<1>a. /\ Len(file) \in Nat /\ DOMAIN data = 0 .. Len(file) - 1 /\ share \in Nat
      /\ \A v \in Worker : base(v) \in Nat /\ base(v) + share <= Len(file)
  BY FileFacts
<1>b. /\ data \in [0 .. Len(file) - 1 -> Int] /\ turn \in [Worker -> Nat] /\ part[w] = share
      /\ Shapes
  BY DEF SInv, Shapes, IInv, WorkersAgree, exchange, share
<1>c. UNCHANGED <<file, header, in_iter, mpc, iter, out, wpc>> /\ wpc[w] = "sort"
      /\ turn[w] < turns(w) /\ turn' = [turn EXCEPT ![w] = turn[w] + 1]
  BY DEF exchange, manager
<1>d. mpc \notin {"memset", "data", "merge", "done"} /\ iter = Zero /\ out = <<>>
  BY <1>c DEF SInv, IInv, Handshake, ReadyLast, Populating, AllBefore, Merging
<1>1. share > 1
  <2>1. turn[w] \in Nat /\ turn[w] < share * (share - 1)
    BY <1>b, <1>c DEF turns
  <2>2. share # 0 /\ share # 1
    BY <2>1
  <2> HIDE DEF share
  <2> QED BY <2>2, <1>a
<1>2. PICK p, q \in Nat : /\ q < share - 1 /\ turn[w] = p * (share - 1) + q
                          /\ InOrder(its(w), share, p, q)
  BY <1>1, <1>c DEF SInv, Sorting
<1>3. turn[w] % (share - 1) = q
  <2> HIDE DEF share
  <2>1. share - 1 \in Nat
    BY <1>a, <1>1
  <2> QED BY <1>2, <2>1, Remainder
<1> DEFINE j == base(w) + q + 1
<1>4. j \in 0 .. Len(file) - 1 /\ j - 1 \in 0 .. Len(file) - 1 /\ j # j - 1 /\ j - 1 = base(w) + q
  BY <1>a, <1>2
<1>5. data' = IF data[j - 1] > data[j]
              THEN [data EXCEPT ![j - 1] = data[j], ![j] = data[j - 1]]
              ELSE data
  <2>1. share * w + 1 + q = j
    <3> HIDE DEF share
    <3>1. base(w) = share * w
      BY DEF base
    <3> QED BY <3>1, <1>a, <1>2
  <2> HIDE DEF j
  <2> QED BY <2>1, <1>3, <1>b DEF exchange
<1> HIDE DEF j
<1>6. data' \in [0 .. Len(file) - 1 -> Int] /\ turn' \in [Worker -> Nat]
  <2>1. data[j] \in Int /\ data[j - 1] \in Int
    BY <1>4, <1>b
  <2>2. data' \in [0 .. Len(file) - 1 -> Int]
    BY <2>1, <1>5, <1>b
  <2>3. turn[w] + 1 \in Nat
    BY <1>b
  <2> QED BY <2>2, <2>3, <1>b, <1>c
<1>7. Shapes'
  BY <1>b, <1>c, <1>6 DEF Shapes
<1>8. Filled'
  <2>1. Rearranges(data, file)
    BY <1>d DEF SInv, Filled
  <2>2. Rearranges([data EXCEPT ![j - 1] = data[j], ![j] = data[j - 1]], file)
    BY <2>1, <1>a, <1>4, ExchangeRearranges
  <2>3. Rearranges(data', file')
    BY <2>1, <2>2, <1>5, <1>c
  <2>4. Rearranges(data, file)'
    BY <2>3 DEF Rearranges
  <2> QED BY <2>4, <1>c, <1>d DEF Filled
<1>9. share' = share /\ \A v \in Worker : base(v)' = base(v)
  BY <1>c DEF share, base
<1>10. Merging'
  BY <1>a, <1>c, <1>d, <1>9, Unmerged
<1>11. /\ \A i \in 0 .. Len(file) - 1 : data[i] \in Int /\ data'[i] \in Int
       /\ \A i \in 0 .. Len(file) - 1 : i \notin {j, j - 1} => data'[i] = data[i]
       /\ IF data[j - 1] > data[j] THEN data'[j - 1] = data[j] /\ data'[j] = data[j - 1]
          ELSE data'[j - 1] = data[j - 1] /\ data'[j] = data[j]
  BY <1>4, <1>5, <1>6, <1>b
<1>12. \A v \in Worker : \A a \in 0 .. share - 1 : base(v) + a \in 0 .. Len(file) - 1
  BY <1>a
<1>13. \A v \in Worker \ {w} : its(v)' = its(v)
  <2> SUFFICES ASSUME NEW v \in Worker, v # w, NEW a \in 0 .. share - 1
               PROVE  data'[base(v) + a] = data[base(v) + a]
    BY <1>9 DEF its
  <2>1. base(v) + a \notin {j, j - 1}
    <3> SUFFICES ASSUME base(v) + a \in {j, j - 1} PROVE FALSE
      OBVIOUS
    <3>1. base(v) + a \in Int /\ base(v) <= base(v) + a /\ base(v) + a < base(v) + share
      BY <1>a
    <3>2. base(w) <= base(v) + a /\ base(v) + a < base(w) + share
      <4>1. /\ base(w) \in Nat /\ base(v) + a \in Int /\ share \in Nat /\ q \in Nat
            /\ q < share - 1
        BY <1>a, <1>2
      <4>2. base(v) + a = base(w) + q \/ base(v) + a = base(w) + q + 1
        BY <1>4 DEF j
      <4> HIDE DEF share
      <4> QED BY <4>1, <4>2
    <3> QED BY <3>1, <3>2, Disjoint
  <2> QED BY <2>1, <1>11, <1>12
<1>14. InOrder(its(w)', share, p, q + 1)
  <2> DEFINE x == its(w)
             y == [a \in 0 .. share - 1 |-> data'[base(w) + a]]
  <2>1. its(w)' = y
    BY <1>9 DEF its
  <2>2. x \in [0 .. share - 1 -> Int] /\ y \in [0 .. share - 1 -> Int]
    BY <1>11, <1>12 DEF its
  <2>3. q \in 0 .. share - 1 /\ q + 1 \in 0 .. share - 1 /\ q # q + 1
    BY <1>a, <1>2
  <2>4. x[q] = data[j - 1] /\ x[q + 1] = data[j] /\ y[q] = data'[j - 1] /\ y[q + 1] = data'[j]
    BY <2>3, <1>4, <1>a DEF j, its
  <2>5. \A a \in 0 .. share - 1 : a \notin {q, q + 1} => y[a] = x[a]
    <3> SUFFICES ASSUME NEW a \in 0 .. share - 1, a \notin {q, q + 1}
                 PROVE  data'[base(w) + a] = data[base(w) + a]
      BY DEF its
    <3>1. base(w) + a \notin {j, j - 1}
      BY <1>a, <1>4 DEF j
    <3> QED BY <3>1, <1>11, <1>12
  <2> HIDE DEF x, y
  <2>8. \A f, g \in [0 .. share - 1 -> Int] :
           (\A a \in 0 .. share - 1 : f[a] = g[a]) => f = g
    BY SameFunction
  <2>6. y = IF x[q] > x[q + 1] THEN [x EXCEPT ![q] = x[q + 1], ![q + 1] = x[q]] ELSE x
    <3>1. CASE x[q] > x[q + 1]
      <4> DEFINE z == [x EXCEPT ![q] = x[q + 1], ![q + 1] = x[q]]
      <4>1. /\ z \in [0 .. share - 1 -> Int] /\ z[q] = x[q + 1] /\ z[q + 1] = x[q]
            /\ \A a \in 0 .. share - 1 : a \notin {q, q + 1} => z[a] = x[a]
        BY <2>2, <2>3
      <4>2. \A a \in 0 .. share - 1 : y[a] = z[a]
        BY <4>1, <3>1, <2>3, <2>4, <2>5, <1>11
      <4> HIDE DEF z
      <4>3. y = z
        BY <4>1, <4>2, <2>2, <2>8
      <4> QED BY <4>3, <3>1 DEF z
    <3>2. CASE ~(x[q] > x[q + 1])
      <4>1. \A a \in 0 .. share - 1 : y[a] = x[a]
        BY <3>2, <2>3, <2>4, <2>5, <1>11
      <4>2. y = x
        BY <4>1, <2>2, <2>8
      <4> QED BY <4>2, <3>2
    <3> QED BY <3>1, <3>2
  <2>7. InOrder(y, share, p, q + 1)
    BY <2>2, <2>6, <1>2, <1>a, Compared DEF x
  <2> QED BY <2>1, <2>7
<1>15. \E r, s \in Nat : /\ s < share - 1 /\ turn'[w] = r * (share - 1) + s
                         /\ InOrder(its(w)', share, r, s)
  <2> HIDE DEF share
  <2>1. turn'[w] = p * (share - 1) + q + 1
    BY <1>2, <1>b, <1>c
  <2>2. CASE q + 1 < share - 1
    <3>1. q + 1 \in Nat /\ turn'[w] = p * (share - 1) + (q + 1)
      BY <2>1, <1>a
    <3> QED BY <3>1, <2>2, <1>14
  <2>3. CASE q + 1 = share - 1
    <3>1. turn'[w] = (p + 1) * (share - 1) + 0
      BY <2>1, <2>3, <1>a
    <3>2. InOrder(its(w)', share, p + 1, 0)
      BY <2>3, <1>14, <1>a, NextPass
    <3> QED BY <3>1, <3>2, <1>a, <1>1
  <2> QED BY <2>2, <2>3, <1>2, <1>a
<1>16. Sorting'
  <2> SUFFICES ASSUME NEW v \in Worker
               PROVE  /\ wpc'[v] \in {"poll", "elems", "nodes"} => turn'[v] = 0
                      /\ wpc'[v] = "sort" /\ share > 1 =>
                           \E r, s \in Nat : /\ s < share - 1 /\ turn'[v] = r * (share - 1) + s
                                             /\ InOrder(its(v)', share, r, s)
                      /\ wpc'[v] = "done" => Ascends(its(v)', share)
    BY <1>9 DEF Sorting, InOrder, Ascends
  <2>1. CASE v = w
    BY <2>1, <1>c, <1>15
  <2>2. CASE v # w
    <3>1. turn'[v] = turn[v] /\ wpc'[v] = wpc[v] /\ its(v)' = its(v)
      BY <2>2, <1>b, <1>c, <1>13
    <3> QED BY <3>1 DEF SInv, Sorting
  <2> QED BY <2>1, <2>2
<1> QED BY <1>7, <1>8, <1>10, <1>16

\* The other steps of a worker: it begins with an unsorted part, and ends with a sorted one.
LEMMA WorkerKeepsOrder ==
    ASSUME SInv, Divides, NEW w \in Worker, WorkerStep(w)
    PROVE  Shapes' /\ Filled' /\ Sorting' /\ Merging'
<1>1. CASE exchange(w)
  BY <1>1, ExchangePreserves
<1>2. CASE wait_ready(w) \/ load_elems(w) \/ load_nodes(w) \/ signal_done(w)
  <2>1. UNCHANGED <<file, data, in_iter, mpc, iter, out, turn>>
    BY <1>2 DEF wait_ready, load_elems, load_nodes, signal_done, manager
  <2>2. Shapes'
    BY <2>1 DEF SInv, Shapes
  <2>3. Filled'
    BY <2>1 DEF SInv, Filled, Rearranges
  <2>4. Merging'
    BY <2>1, MergingFrame DEF SInv
  <2>5. share \in Nat /\ wpc \in [Worker -> {"poll", "elems", "nodes", "sort", "done", "killed"}]
    BY FileFacts DEF SInv, IInv, TypeOK
  <2>6. share' = share /\ \A v \in Worker : its(v)' = its(v)
    BY <2>1 DEF share, base, its
  <2>7. \A v \in Worker \ {w} : wpc'[v] = wpc[v]
    BY <1>2, <2>5 DEF wait_ready, load_elems, load_nodes, signal_done
  <2>8. /\ wpc'[w] \in {"poll", "elems", "nodes"} => turn[w] = 0
        /\ wpc'[w] = "sort" /\ share > 1 =>
             \E p, q \in Nat : /\ q < share - 1 /\ turn[w] = p * (share - 1) + q
                               /\ InOrder(its(w), share, p, q)
        /\ wpc'[w] = "done" => Ascends(its(w), share)
    <3>1. CASE wait_ready(w) \/ load_elems(w) \/ load_nodes(w)
      <4>1. turn[w] = 0 /\ wpc'[w] # "done"
        BY <3>1, <2>5 DEF wait_ready, load_elems, load_nodes, SInv, Sorting
      <4>2. InOrder(its(w), share, 0, 0)
        BY <2>5, FirstPass
      <4>3. share > 1 => 0 < share - 1 /\ turn[w] = 0 * (share - 1) + 0
        BY <2>5, <4>1
      <4> QED BY <4>1, <4>2, <4>3
    <3>2. CASE signal_done(w)
      <4>1. /\ wpc[w] = "sort" /\ wpc'[w] = "done" /\ part[w] = share
            /\ turn[w] = part[w] * (part[w] - 1)
        BY <3>2, <2>5 DEF signal_done, turns, SInv, IInv, WorkersAgree, share
      <4>2. Ascends(its(w), share)
        <5>1. CASE share > 1
          <6>1. PICK p, q \in Nat : /\ q < share - 1 /\ turn[w] = p * (share - 1) + q
                                    /\ InOrder(its(w), share, p, q)
            BY <4>1, <5>1 DEF SInv, Sorting
          <6> HIDE DEF share
          <6>2. share - 1 \in Nat /\ 0 \in Nat /\ 0 < share - 1
            BY <2>5, <5>1
          <6>3. turn[w] = share * (share - 1) + 0
            BY <4>1, <2>5
          <6>4. turn[w] \div (share - 1) = share
            BY <6>2, <6>3, <2>5, Remainder
          <6>5. turn[w] \div (share - 1) = p
            BY <6>1, <6>2, Remainder
          <6>6. p >= share
            BY <6>4, <6>5, <2>5
          <6> QED BY <6>1, <6>6, <2>5, Passed
        <5>2. CASE ~(share > 1)
          <6>1. share <= 1 /\ 0 \in Nat
            BY <5>2, <2>5
          <6> QED BY <6>1, <2>5, Passed
        <5> QED BY <5>1, <5>2
      <4> QED BY <4>1, <4>2
    <3> QED BY <1>2, <3>1, <3>2
  <2>9. \A v \in Worker :
           /\ wpc'[v] \in {"poll", "elems", "nodes"} => turn'[v] = 0
           /\ wpc'[v] = "sort" /\ share > 1 =>
                \E p, q \in Nat : /\ q < share - 1 /\ turn'[v] = p * (share - 1) + q
                                  /\ InOrder(its(v)', share, p, q)
           /\ wpc'[v] = "done" => Ascends(its(v)', share)
    <3> SUFFICES ASSUME NEW v \in Worker
                 PROVE  /\ wpc'[v] \in {"poll", "elems", "nodes"} => turn[v] = 0
                        /\ wpc'[v] = "sort" /\ share > 1 =>
                             \E p, q \in Nat : /\ q < share - 1
                                               /\ turn[v] = p * (share - 1) + q
                                               /\ InOrder(its(v), share, p, q)
                        /\ wpc'[v] = "done" => Ascends(its(v), share)
      BY <2>1, <2>6
    <3>1. CASE v = w
      BY <3>1, <2>8
    <3>2. CASE v # w
      BY <3>2, <2>7 DEF SInv, Sorting
    <3> QED BY <3>1, <3>2
  <2>10. Sorting'
    BY <2>6, <2>9 DEF Sorting, InOrder, Ascends
  <2> QED BY <2>2, <2>3, <2>4, <2>10
<1> QED BY <1>1, <1>2 DEF WorkerStep

LEMMA SInvStep == SInv /\ Divides /\ Fits /\ [Next]_vars => SInv'
<1> SUFFICES ASSUME SInv, Divides, Fits, [Next]_vars PROVE SInv'
  OBVIOUS
<1>1. IInv'
  BY StepInvariant DEF SInv
<1>2. Shapes' /\ Filled' /\ Sorting' /\ Merging'
  <2>1. CASE UNCHANGED vars
    <3>1. UNCHANGED <<file, data, in_iter, mpc, iter, out, turn, wpc>>
      BY <2>1 DEF vars, manager, workers
    <3> QED
      BY <3>1, SortingFrame, MergingFrame DEF SInv, Shapes, Filled, Rearranges
  <2>2. CASE Next
    BY <2>1, <2>2, ManagerKeepsOrder, WorkerKeepsOrder DEF Next
  <2> QED BY <2>1, <2>2
<1> QED BY <1>1, <1>2 DEF SInv

\* When the manager is done it has written every place, so every number of the file.
LEMMA AllMerged ==
    ASSUME SInv, Divides PROVE SortsFile
<1> SUFFICES ASSUME mpc = "done" PROVE SortsFile
  BY DEF SortsFile
<1>a. /\ Len(file) \in Nat /\ DOMAIN data = 0 .. Len(file) - 1 /\ Len(file) % NODES_WORKER = 0
      /\ \A w \in Worker : iter[w] = share
  BY FileFacts DEF SInv, Merging
<1>1. Merged = DOMAIN data
  BY <1>a, PartOf DEF Merged
<1>2. [i \in DOMAIN data |-> data[i]] = data
  BY DEF SInv, Shapes
<1>3. Rearranges(out, data)
  BY <1>1, <1>2 DEF SInv, Merging
<1>4. Rearranges(data, file)
  BY DEF SInv, Filled
<1>5. IsFiniteSet(DOMAIN data) /\ IsFiniteSet(DOMAIN out)
  <2>1. DOMAIN out = 1 .. Len(out) /\ Len(out) \in Int
    BY DEF SInv, Shapes
  <2> QED BY <1>a, <2>1, FS_Interval
<1>6. \A x : times(out, x) = times(data, x) /\ times(data, x) = times(file, x)
  BY <1>3, <1>4, <1>5, SameTimes
<1>7. \A i \in 1 .. Len(out) - 1 : out[i] <= out[i + 1]
  BY DEF SInv, Merging
<1> QED BY <1>6, <1>7 DEF SortsFile

\* Whatever the interleaving, the output of psort is the file in ascending order, if its
\* elements divide into the parts of the workers and its numbers fit an int: the sorting loops
\* (psort.cpp:107-115) and merge_worker (psort.cpp:143-189) leave nothing out.
THEOREM FileIsSorted == Divides /\ Fits /\ Spec => []SortsFile
<1>1. CASE Divides /\ Fits
  <2>1. SInv /\ [Next]_vars => SInv'
    BY <1>1, SInvStep
  <2>2. SInv => SortsFile
    BY <1>1, AllMerged
  <2> QED BY <2>1, <2>2, SInvInit, PTL DEF Spec
<1>2. CASE ~(Divides /\ Fits)
  BY <1>2, PTL
<1> QED BY <1>1, <1>2
=============================================================================

----------------------------- MODULE PdotProofs -----------------------------
(***************************************************************************)
(* What is proved of Pdot, for any number of workers and every file.       *)
(*                                                                         *)
(* The argument: workers pass the wait for ready only after the last store *)
(* of the coordinator, and a flag that is up stays up, so that the flags   *)
(* that a round has seen are still up at its end.                          *)
(***************************************************************************)
EXTENDS Pdot, TLAPS, WellFoundedInduction

TypeOK ==
    /\ header = [elems |-> header.elems, ready |-> header.ready,
                 result |-> header.result, done |-> header.done]
    /\ header.done = [w \in Worker |-> header.done[w]]
    /\ mpc \in {"vecs", "flags", "ready", "sleep", "scan", "merge", "done"}
    /\ scan \in Nat
    /\ wpc \in [Worker -> {"poll", "elems", "mult", "signal", "done"}]

\* Nobody works, and no flag is up, before ready is.
ReadyLast ==
    mpc \in {"vecs", "flags", "ready"} =>
        /\ header.ready = 0
        /\ \A w \in Worker : wpc[w] = "poll"

\* A flag that is up is the last thing its worker has stored.
FlagsLast == \A w \in Worker : header.done[w] # 0 => wpc[w] = "done"

\* The flags that this round has passed, if all were up, are up.
RoundSeen ==
    mpc = "scan" /\ all_done =>
        \A w \in Worker : w < scan => header.done[w] # 0

\* When the results are added up, all workers are done.
AllBefore == mpc \in {"merge", "done"} => \A w \in Worker : wpc[w] = "done"

IInv == TypeOK /\ ReadyLast /\ FlagsLast /\ RoundSeen /\ AllBefore

-----------------------------------------------------------------------------
LEMMA InitInvariant == Init => IInv
BY DEF Init, Zero, IInv, TypeOK, ReadyLast, FlagsLast, RoundSeen, AllBefore

\* The steps of the coordinator change no worker's place.
LEMMA CoordinatorPreserves ==
    ASSUME IInv, CoordinatorStep PROVE IInv'
<1> USE DEF IInv
<1>1. wpc' = wpc
  BY DEF CoordinatorStep, store_vecs, store_elems, store_flags, store_ready,
         begin_round, look_at_flag, end_round, merge_worker, workers
<1>2. CASE store_vecs
  BY <1>1, <1>2 DEF store_vecs, TypeOK, ReadyLast, FlagsLast, RoundSeen, AllBefore
<1>3. CASE store_elems
  BY <1>1, <1>3 DEF store_elems, TypeOK, ReadyLast, FlagsLast, RoundSeen, AllBefore
<1>4. CASE store_flags
  BY <1>1, <1>4 DEF store_flags, Zero, TypeOK, ReadyLast, FlagsLast, RoundSeen, AllBefore
<1>5. CASE store_ready
  BY <1>1, <1>5 DEF store_ready, TypeOK, ReadyLast, FlagsLast, RoundSeen, AllBefore
<1>6. CASE begin_round
  <2>1. \A w \in Worker : ~(w < 0)
    BY DEF Worker
  <2> QED
    BY <1>1, <1>6, <2>1 DEF begin_round, TypeOK, ReadyLast, FlagsLast, RoundSeen, AllBefore
<1>7. CASE look_at_flag
  <2>1. TypeOK' /\ ReadyLast' /\ FlagsLast' /\ AllBefore'
    BY <1>1, <1>7 DEF look_at_flag, TypeOK, ReadyLast, FlagsLast, AllBefore
  <2>2. RoundSeen'
    <3> SUFFICES ASSUME all_done', NEW w \in Worker, w < scan'
                 PROVE  header'.done[w] # 0
      BY DEF RoundSeen
    <3>1. header' = header /\ mpc = "scan" /\ scan' = scan + 1 /\ still_done
      BY <1>7 DEF look_at_flag
    <3>2. w < scan \/ w = scan
      BY <3>1 DEF TypeOK, Worker
    <3> QED BY <3>1, <3>2 DEF still_done, RoundSeen
  <2> QED BY <2>1, <2>2
<1>8. CASE end_round
  <2>1. TypeOK' /\ ReadyLast' /\ FlagsLast' /\ RoundSeen'
    BY <1>1, <1>8 DEF end_round, TypeOK, ReadyLast, FlagsLast, RoundSeen
  <2>2. AllBefore'
    <3> SUFFICES ASSUME all_done, NEW w \in Worker PROVE wpc[w] = "done"
      BY <1>1, <1>8 DEF end_round, AllBefore
    <3>1. w < scan
      BY <1>8, WorkersAssumption DEF end_round, Worker
    <3> QED BY <1>8, <3>1 DEF end_round, RoundSeen, FlagsLast
  <2> QED BY <2>1, <2>2
<1>9. CASE merge_worker
  BY <1>1, <1>9 DEF merge_worker, TypeOK, ReadyLast, FlagsLast, RoundSeen, AllBefore
<1> QED
  BY <1>2, <1>3, <1>4, <1>5, <1>6, <1>7, <1>8, <1>9 DEF CoordinatorStep

\* The steps of a worker leave the coordinator where it is; no flag goes down.
LEMMA WorkerPreserves ==
    ASSUME IInv, NEW w \in Worker, WorkerStep(w) PROVE IInv'
<1> USE DEF IInv
<1>1. mpc' = mpc /\ scan' = scan /\ all_done' = all_done
  BY DEF WorkerStep, wait_ready, load_elems, multiply, store_result, store_done,
         coordinator
<1>2. mpc \notin {"vecs", "flags", "ready"} /\ wpc[w] # "done"
  BY DEF WorkerStep, wait_ready, is_ready, load_elems, multiply, store_result,
         store_done, ReadyLast
<1>3. CASE wait_ready(w)
  BY <1>1, <1>2, <1>3 DEF wait_ready, TypeOK, ReadyLast, FlagsLast, RoundSeen, AllBefore
<1>4. CASE load_elems(w)
  BY <1>1, <1>2, <1>4 DEF load_elems, TypeOK, ReadyLast, FlagsLast, RoundSeen, AllBefore
<1>5. CASE multiply(w)
  BY <1>1, <1>2, <1>5 DEF multiply, TypeOK, ReadyLast, FlagsLast, RoundSeen, AllBefore
<1>6. CASE store_result(w)
  BY <1>1, <1>2, <1>6 DEF store_result, TypeOK, ReadyLast, FlagsLast, RoundSeen, AllBefore
<1>7. CASE store_done(w)
  <2>1. Word - 1 # 0
    BY WordAssumption
  <2> QED
    BY <1>1, <1>2, <1>7, <2>1
       DEF store_done, TypeOK, ReadyLast, FlagsLast, RoundSeen, AllBefore
<1> QED BY <1>3, <1>4, <1>5, <1>6, <1>7 DEF WorkerStep

LEMMA StepInvariant == IInv /\ [Next]_vars => IInv'
<1> SUFFICES ASSUME IInv, [Next]_vars PROVE IInv'
  OBVIOUS
<1>1. CASE UNCHANGED vars
  BY <1>1 DEF vars, coordinator, workers, IInv, TypeOK, ReadyLast, FlagsLast,
              RoundSeen, AllBefore
<1> QED
  BY <1>1, CoordinatorPreserves, WorkerPreserves DEF Next

LEMMA Invariance == Spec => []IInv
<1>1. Init => IInv
  BY InitInvariant
<1>2. IInv /\ [Next]_vars => IInv'
  BY StepInvariant
<1> QED BY <1>1, <1>2, PTL DEF Spec

-----------------------------------------------------------------------------
\* The vectors and their length are final when the first worker sees ready
\* (pdot.cc:208, 89).
THEOREM InputIsFinal == Spec => InputStays
<1> DEFINE Final == (\E w \in Worker : wpc[w] # "poll") =>
                        vecs' = vecs /\ header'.elems = header.elems
<1>1. IInv /\ [Next]_vars => [Final]_vars
  <2> SUFFICES ASSUME IInv, Next, \E w \in Worker : wpc[w] # "poll"
               PROVE  vecs' = vecs /\ header'.elems = header.elems
    BY DEF vars, coordinator, workers
  <2>1. mpc \notin {"vecs", "flags", "ready"}
    BY DEF IInv, ReadyLast
  <2>2. CASE CoordinatorStep
    BY <2>1, <2>2
       DEF CoordinatorStep, store_vecs, store_elems, store_flags, store_ready,
           begin_round, look_at_flag, end_round, merge_worker
  <2>3. ASSUME NEW w \in Worker, WorkerStep(w)
        PROVE  vecs' = vecs /\ header'.elems = header.elems
    BY <2>3 DEF IInv, TypeOK, WorkerStep, wait_ready, load_elems, multiply,
                store_result, store_done
  <2> QED BY <2>2, <2>3 DEF Next, vars
<1> QED BY <1>1, Invariance, PTL DEF Spec, InputStays

\* merge_worker reads results that no worker will store to any more
\* (pdot.cc:144-154, 223-233).
THEOREM ResultsAreFinal == Spec => ResultsStay
<1> DEFINE Final == (mpc = "merge") => header'.result = header.result
<1>1. IInv /\ [Next]_vars => [Final]_vars
  <2> SUFFICES ASSUME IInv, Next, mpc = "merge"
               PROVE  header'.result = header.result
    OBVIOUS
  <2>1. \A w \in Worker : ~WorkerStep(w)
    BY DEF IInv, AllBefore, WorkerStep, wait_ready, load_elems, multiply,
           store_result, store_done
  <2>2. CASE CoordinatorStep
    BY <2>2 DEF CoordinatorStep, store_vecs, store_elems, store_flags,
                store_ready, begin_round, look_at_flag, end_round, merge_worker
  <2> QED BY <2>1, <2>2 DEF Next, vars
<1> QED BY <1>1, Invariance, PTL DEF Spec, ResultsStay

-----------------------------------------------------------------------------
(***************************************************************************)
(* The coordinator prints the dot product.                                 *)
(*                                                                         *)
(* Arithmetic modulo Word may take the remainder where it likes, so that a *)
(* worker's sum is the difference of the products at the end and at the    *)
(* beginning of what it has multiplied, and the coordinator's total the    *)
(* products of the parts it has added, which follow one another.           *)
(***************************************************************************)

\* Induction, from the least number that is not in T.
LEMMA FromZeroOn ==
    ASSUME NEW T \in SUBSET Nat, 0 \in T, \A n \in T : n + 1 \in T
    PROVE  T = Nat
<1> SUFFICES ASSUME Nat \ T # {} PROVE FALSE
  OBVIOUS
<1> DEFINE R == OpToRel(<, Nat)
<1>1. IsWellFoundedOn(R, Nat)
  BY NatLessThanWellFounded
<1>2. \A x, y \in Nat : <<y, x>> \in R <=> y < x
  BY DEF OpToRel
<1>3. PICK x \in Nat \ T : \A y \in Nat \ T : ~(<<y, x>> \in R)
  <2> HIDE DEF R
  <2> QED BY <1>1, WFMin
<1> HIDE DEF R
<1>4. \A y \in Nat \ T : x <= y
  <2>1. \A y \in Nat \ T : ~(y < x)
    BY <1>2, <1>3
  <2> QED BY <2>1, <1>3
<1>5. x # 0 /\ x - 1 \in Nat /\ x = (x - 1) + 1
  BY <1>3
<1>6. x - 1 \in T
  BY <1>4, <1>5
<1> QED BY <1>3, <1>5, <1>6

\* The sums of the first n numbers of d.
LEMMA SumsExist ==
    ASSUME NEW k \in Nat, NEW d \in [1 .. k -> Int]
    PROVE  \E g \in [0 .. k -> Int] :
              g = [n \in 0 .. k |-> IF n = 0 THEN 0 ELSE g[n - 1] + d[n]]
<1> DEFINE Sums(j, g) == g[0] = 0 /\ \A n \in 1 .. j : g[n] = g[n - 1] + d[n]
           T == {j \in Nat : j <= k => \E g \in [0 .. j -> Int] : Sums(j, g)}
<1>1. 0 \in T
  <2> DEFINE g == [n \in 0 .. 0 |-> 0]
  <2>1. g \in [0 .. 0 -> Int] /\ Sums(0, g)
    OBVIOUS
  <2> QED BY <2>1
<1>2. ASSUME NEW j \in T PROVE j + 1 \in T
  <2>a. j \in Nat /\ j + 1 \in Nat
    OBVIOUS
  <2> SUFFICES ASSUME j + 1 <= k PROVE \E g \in [0 .. j + 1 -> Int] : Sums(j + 1, g)
    BY <2>a
  <2>1. j \in Nat /\ j + 1 \in 1 .. k /\ d[j + 1] \in Int
    OBVIOUS
  <2>2. PICK g \in [0 .. j -> Int] : Sums(j, g)
    BY <2>1
  <2> DEFINE h == [n \in 0 .. j + 1 |-> IF n = j + 1 THEN g[j] + d[j + 1] ELSE g[n]]
  <2>3. h \in [0 .. j + 1 -> Int]
    BY <2>1, <2>2
  <2>4. \A n \in 1 .. j : h[n] = h[n - 1] + d[n]
    BY <2>1, <2>2
  <2>5. h[j + 1] = h[(j + 1) - 1] + d[j + 1] /\ h[0] = 0
    BY <2>1, <2>2
  <2>6. \A n \in 1 .. j + 1 : n \in 1 .. j \/ n = j + 1
    BY <2>1
  <2> HIDE DEF h
  <2>7. Sums(j + 1, h)
    BY <2>4, <2>5, <2>6
  <2> QED BY <2>3, <2>7
<1>3. T = Nat
  <2> HIDE DEF T
  <2>1. T \in SUBSET Nat
    BY DEF T
  <2> QED BY <1>1, <1>2, <2>1, FromZeroOn
<1>4. PICK g \in [0 .. k -> Int] : Sums(k, g)
  <2>1. k \in T
    BY <1>3
  <2> QED BY <2>1
<1>5. \A n \in 0 .. k : g[n] = IF n = 0 THEN 0 ELSE g[n - 1] + d[n]
  BY <1>4
<1>6. g = [n \in 0 .. k |-> g[n]]
  BY <1>4
<1> QED BY <1>4, <1>5, <1>6

\* What the definition of dot says.
LEMMA Dot ==
    ASSUME NEW f, Len(f) \in Nat, \A n \in 1 .. Len(f) : f[n] \in Int,
           NEW k, k = Len(f) \div 2
    PROVE  /\ k \in Nat /\ dot(f) \in [0 .. k -> Int] /\ dot(f)[0] = 0
           /\ \A n \in 1 .. k : dot(f)[n] = dot(f)[n - 1] + f[n] * f[k + n]
<1> DEFINE d == [n \in 1 .. k |-> f[n] * f[k + n]]
<1>1. k \in Nat /\ 2 * k <= Len(f)
  OBVIOUS
<1>2. d \in [1 .. k -> Int]
  <2> SUFFICES ASSUME NEW n \in 1 .. k PROVE f[n] * f[k + n] \in Int
    OBVIOUS
  <2>1. n \in 1 .. Len(f) /\ k + n \in 1 .. Len(f)
    BY <1>1
  <2>2. f[n] \in Int /\ f[k + n] \in Int
    BY <2>1
  <2> QED BY <2>2
<1>3. PICK g \in [0 .. k -> Int] :
          g = [n \in 0 .. k |-> IF n = 0 THEN 0 ELSE g[n - 1] + d[n]]
  <2> HIDE DEF d
  <2> QED BY <1>1, <1>2, SumsExist
<1>4. g = [n \in 0 .. k |-> IF n = 0 THEN 0 ELSE g[n - 1] + f[n] * f[k + n]]
  <2>1. \A n \in 0 .. k : n # 0 => d[n] = f[n] * f[k + n]
    BY <1>1
  <2> HIDE DEF d
  <2> QED BY <1>3, <2>1
<1>5. dot(f) = [n \in 0 .. k |-> IF n = 0 THEN 0 ELSE dot(f)[n - 1] + f[n] * f[k + n]]
  BY <1>4, Zenon DEF dot
<1> DEFINE T == {n \in Nat : n <= k => dot(f)[n] \in Int}
<1>6. 0 \in T
  BY <1>1, <1>5
<1>7. ASSUME NEW n \in T PROVE n + 1 \in T
  <2>1. n \in Nat /\ n + 1 \in Nat /\ (n <= k => dot(f)[n] \in Int)
    OBVIOUS
  <2> SUFFICES ASSUME n + 1 <= k PROVE dot(f)[n + 1] \in Int
    BY <2>1
  <2>2. /\ n + 1 \in 1 .. k /\ n + 1 \in 0 .. k /\ n + 1 # 0 /\ (n + 1) - 1 = n
        /\ dot(f)[n] \in Int
    BY <1>1, <2>1
  <2>3. dot(f)[n + 1] = dot(f)[n] + f[n + 1] * f[k + (n + 1)]
    BY <1>5, <2>2
  <2>4. d[n + 1] \in Int /\ d[n + 1] = f[n + 1] * f[k + (n + 1)]
    BY <1>2, <2>2
  <2> QED BY <2>2, <2>3, <2>4
<1>8. T = Nat
  <2>1. T \in SUBSET Nat
    OBVIOUS
  <2> HIDE DEF T
  <2> QED BY <1>6, <1>7, <2>1, FromZeroOn
<1>9. \A n \in 0 .. k : dot(f)[n] \in Int
  BY <1>1, <1>8
<1>10. /\ 0 \in 0 .. k /\ \A n \in 1 .. k : n \in 0 .. k /\ n # 0
  BY <1>1
<1>11. dot(f) \in [0 .. k -> Int]
  BY <1>5, <1>9
<1> QED BY <1>1, <1>5, <1>10, <1>11

\* Division by Word.
LEMMA Division ==
    ASSUME NEW x \in Int
    PROVE  /\ x % Word \in Int /\ 0 <= x % Word /\ x % Word < Word
           /\ \E m \in Int : x = Word * m + (x % Word)
<1>1. Word \in Nat /\ Word > 0
  BY WordAssumption
<1>2. x \div Word \in Int /\ x = Word * (x \div Word) + (x % Word)
  BY <1>1
<1>3. x % Word \in Int /\ 0 <= x % Word /\ x % Word < Word
  BY <1>1
<1> QED BY <1>2, <1>3

\* Multiples of Word do not count.
LEMMA Multiples ==
    ASSUME NEW x \in Int, NEW y \in Int, NEW m \in Int, y = x + Word * m
    PROVE  y % Word = x % Word
<1>1. PICK a \in Int : x = Word * a + (x % Word)
  BY Division
<1>2. PICK b \in Int : y = Word * b + (y % Word)
  BY Division
<1>3. /\ x % Word \in Int /\ 0 <= x % Word /\ x % Word < Word
      /\ y % Word \in Int /\ 0 <= y % Word /\ y % Word < Word
      /\ Word \in Int
  BY Division, WordAssumption
<1> DEFINE r == x % Word
           s == y % Word
           c == a + m - b
<1>4. c \in Int /\ Word * c = s - r
  <2>1. Word * a \in Int /\ Word * b \in Int /\ Word * m \in Int
    BY <1>3
  <2>2. Word * c = Word * a + Word * m - Word * b
    BY <1>3
  <2> QED BY <1>1, <1>2, <1>3, <2>1, <2>2
<1> HIDE DEF r, s, c
<1>5. r \in Int /\ 0 <= r /\ r < Word /\ s \in Int /\ 0 <= s /\ s < Word
  BY <1>3 DEF r, s
<1>6. c = 0
  <2>1. CASE c >= 1
    <3>1. Word * c >= Word
      BY <2>1, <1>3, <1>4, WordAssumption
    <3> QED BY <3>1, <1>3, <1>4, <1>5
  <2>2. CASE c <= -1
    <3>1. Word * c <= -Word
      BY <2>2, <1>3, <1>4, WordAssumption
    <3> QED BY <3>1, <1>3, <1>4, <1>5
  <2> QED BY <2>1, <2>2, <1>4
<1>7. Word * c = 0
  BY <1>3, <1>6
<1> QED BY <1>4, <1>5, <1>7 DEF r, s

\* The remainders of the terms of a sum.
LEMMA SumOfRemainders ==
    ASSUME NEW a \in Int, NEW b \in Int
    PROVE  ((a % Word) + (b % Word)) % Word = (a + b) % Word
<1>1. PICK m \in Int : a = Word * m + (a % Word)
  BY Division
<1>2. PICK n \in Int : b = Word * n + (b % Word)
  BY Division
<1>3. a % Word \in Int /\ b % Word \in Int /\ Word \in Int
  BY Division, WordAssumption
<1> DEFINE r == a % Word
           s == b % Word
<1> HIDE DEF r, s
<1>4. r \in Int /\ s \in Int /\ a = Word * m + r /\ b = Word * n + s
  BY <1>1, <1>2, <1>3 DEF r, s
<1>5. m + n \in Int /\ r + s \in Int /\ a + b = (r + s) + Word * (m + n)
  <2>1. Word * (m + n) = Word * m + Word * n
    BY <1>3
  <2>2. Word * m \in Int /\ Word * n \in Int
    BY <1>3
  <2> QED BY <1>4, <2>1, <2>2
<1>6. (a + b) % Word = (r + s) % Word
  BY <1>5, Multiples
<1> QED BY <1>6 DEF r, s

\* The remainders of the factors of a product.
LEMMA ProductOfRemainders ==
    ASSUME NEW b \in Int, NEW c \in Int
    PROVE  /\ (b % Word) * (c % Word) \in Int
           /\ ((b % Word) * (c % Word)) % Word = (b * c) % Word
<1>1. PICK m \in Int : b = Word * m + (b % Word)
  BY Division
<1>2. PICK n \in Int : c = Word * n + (c % Word)
  BY Division
<1>3. b % Word \in Int /\ c % Word \in Int /\ Word \in Int
  BY Division, WordAssumption
<1> DEFINE r == b % Word
           s == c % Word
<1> HIDE DEF r, s
<1>4. r \in Int /\ s \in Int /\ b = Word * m + r /\ c = Word * n + s
  BY <1>1, <1>2, <1>3 DEF r, s
<1>5. b * c = r * s + Word * (m * c + r * n)
  <2>1. b * c = (Word * m) * c + r * c
    BY <1>3, <1>4
  <2>2. r * c = r * (Word * n) + r * s
    BY <1>3, <1>4
  <2>3. (Word * m) * c = Word * (m * c) /\ r * (Word * n) = Word * (r * n)
    BY <1>3, <1>4
  <2>4. Word * (m * c + r * n) = Word * (m * c) + Word * (r * n)
    BY <1>3, <1>4
  <2>5. r * s \in Int /\ Word * (m * c) \in Int /\ Word * (r * n) \in Int
    BY <1>3, <1>4
  <2> QED BY <2>1, <2>2, <2>3, <2>4, <2>5
<1>6. m * c + r * n \in Int /\ r * s \in Int /\ b * c \in Int
  BY <1>4
<1>7. (b * c) % Word = (r * s) % Word
  BY <1>5, <1>6, Multiples
<1> QED BY <1>6, <1>7 DEF r, s

\* A step of a worker's loop adds a product.
LEMMA AddsProduct ==
    ASSUME NEW a \in Int, NEW b \in Int, NEW c \in Int
    PROVE  ((a % Word) + (b % Word) * (c % Word)) % Word = (a + b * c) % Word
<1> DEFINE r == a % Word
           t == (b % Word) * (c % Word)
           u == b * c
<1>1. r \in Int /\ r % Word = a % Word
  <2>1. r \in Int
    BY Division
  <2>2. PICK m \in Int : a = Word * m + r
    BY Division
  <2>3. Word * m \in Int
    BY WordAssumption
  <2> HIDE DEF r
  <2>4. a = r + Word * m
    BY <2>1, <2>2, <2>3
  <2> QED BY <2>1, <2>4, Multiples
<1>2. t \in Int /\ t % Word = u % Word /\ u \in Int
  BY ProductOfRemainders
<1> HIDE DEF r, t, u
<1>3. (r + t) % Word = ((r % Word) + (t % Word)) % Word
  BY <1>1, <1>2, SumOfRemainders
<1>4. (a + u) % Word = ((a % Word) + (u % Word)) % Word
  BY <1>2, SumOfRemainders
<1>5. (r + t) % Word = (a + u) % Word
  BY <1>1, <1>2, <1>3, <1>4
<1> QED BY <1>5 DEF r, t, u

-----------------------------------------------------------------------------
\* The length of a vector, the length of a part, and where the part of worker w begins.
half == Len(file) \div 2
share == half \div NODES_WORKER
base(w) == share * w

\* The sum of the products from lo to hi, as uint64_t arithmetic has it.
products(lo, hi) == (dot(file)[hi] - dot(file)[lo]) % Word

Shapes ==
    /\ file \in Seq(Number) /\ Len(file) \in Length
    /\ vecs \in [0 .. Len(file) - 1 -> Int]
    /\ in_iter \in 0 .. Len(file)
    /\ header.result \in [Worker -> Int]
    /\ elems \in [Worker -> Int] /\ i \in [Worker -> Nat] /\ sum \in [Worker -> Int]

\* The coordinator copies the file, and then says how long it is.
Filled ==
    /\ mpc = "vecs" => \A n \in 0 .. in_iter - 1 : vecs[n] = file[n + 1] % Word
    /\ mpc # "vecs" =>
         /\ header.elems = Len(file)
         /\ \A n \in 0 .. Len(file) - 1 : vecs[n] = file[n + 1] % Word

\* What worker w has in its sum, and what it leaves as its result.
Summing(w) ==
    /\ wpc[w] \in {"poll", "elems"} => i[w] = 0 /\ sum[w] = 0
    /\ wpc[w] = "mult" =>
         elems[w] = half /\ i[w] <= share /\ sum[w] = products(base(w), base(w) + i[w])
    /\ wpc[w] \in {"signal", "done"} =>
         header.result[w] = products(base(w), base(w) + share)

\* What the coordinator has added.
Adding ==
    /\ mpc \notin {"merge", "done"} => total = 0
    /\ mpc = "merge" => scan <= NODES_WORKER /\ total = products(0, share * scan)
    /\ mpc = "done" => total = products(0, share * NODES_WORKER)

DInv == IInv /\ Shapes /\ Filled /\ (\A w \in Worker : Summing(w)) /\ Adding

\* What the theorem asks of the file: each half divides into parts, and the numbers fit an int.
Divides == \A n \in Length : (n \div 2) % NODES_WORKER = 0
Fits == \A x \in Number : x <= INT_MAX

\* A part does not end beyond the beginning of the next.
LEMMA Parts ==
    ASSUME NEW d \in Nat, NEW v \in Nat, NEW w \in Nat, v < w
    PROVE  d * v \in Nat /\ d * w \in Nat /\ d * v + d <= d * w
<1>1. PICK m \in Nat : w = v + 1 + m
  <2>1. w - v - 1 \in Nat /\ w = v + 1 + (w - v - 1)
    OBVIOUS
  <2> QED BY <2>1
<1>2. d * w = d * v + d + d * m
  BY <1>1
<1>3. d * m \in Nat /\ d * v \in Nat
  OBVIOUS
<1> QED BY <1>2, <1>3

\* The facts about the file that the steps below use.
LEMMA FileFacts ==
    ASSUME Shapes
    PROVE  /\ Len(file) \in Nat /\ half \in Nat /\ 2 * half <= Len(file) /\ share \in Nat
           /\ \A n \in 1 .. Len(file) : file[n] \in Number /\ file[n] \in Int
           /\ dot(file) \in [0 .. half -> Int] /\ dot(file)[0] = 0
           /\ \A n \in 1 .. half :
                dot(file)[n] = dot(file)[n - 1] + file[n] * file[half + n]
           /\ \A w \in Worker : w \in Nat /\ base(w) \in Nat /\ base(w) + share <= half
           /\ share * NODES_WORKER \in Nat /\ share * NODES_WORKER <= half
<1>1. Len(file) \in Nat /\ \A n \in 1 .. Len(file) : file[n] \in Number
  BY DEF Shapes
<1>2. \A n \in 1 .. Len(file) : file[n] \in Int
  <2>1. Number \subseteq Int
    BY InputAssumption
  <2> QED BY <1>1, <2>1
<1>3. half \in Nat /\ 2 * half <= Len(file)
  BY <1>1 DEF half
<1>a. NODES_WORKER \in Nat \ {0} /\ \A w \in Worker : w \in Nat /\ w < NODES_WORKER
  BY WorkersAssumption DEF Worker
<1>4. /\ dot(file) \in [0 .. half -> Int] /\ dot(file)[0] = 0
      /\ \A n \in 1 .. half :
           dot(file)[n] = dot(file)[n - 1] + file[n] * file[half + n]
  BY <1>1, <1>2, Dot DEF half
<1> HIDE DEF half
<1>5. share \in Nat /\ share * NODES_WORKER <= half
  BY <1>a, <1>3 DEF share
<1> HIDE DEF share
<1>6. share * NODES_WORKER \in Nat
  BY <1>5, <1>a
<1>7. \A w \in Worker : share * w \in Nat /\ share * w + share <= share * NODES_WORKER
  BY <1>a, <1>5, Parts
<1>8. \A w \in Worker : w \in Nat /\ base(w) \in Nat /\ base(w) + share <= half
  BY <1>a, <1>3, <1>5, <1>6, <1>7 DEF base
<1> QED BY <1>1, <1>2, <1>3, <1>4, <1>5, <1>6, <1>8

\* At the start.
LEMMA DInvInit == Init => DInv
<1> SUFFICES ASSUME Init PROVE DInv
  OBVIOUS
<1>1. IInv
  BY InitInvariant
<1>2. Shapes
  <2>1. PICK n \in Length : file \in [1 .. n -> Number]
    BY DEF Init
  <2>2. n \in Nat /\ file \in Seq(Number) /\ Len(file) = n
    BY <2>1, InputAssumption
  <2> QED BY <2>2 DEF Init, Zero, Shapes
<1>3. Filled /\ Adding
  BY DEF Init, Filled, Adding
<1>4. \A w \in Worker : Summing(w)
  BY DEF Init, Zero, Summing
<1> QED BY <1>1, <1>2, <1>3, <1>4 DEF DInv

\* What depends on the file alone stays.
LEMMA Constants ==
    ASSUME file' = file
    PROVE  /\ half' = half /\ share' = share /\ dot(file)' = dot(file)
           /\ \A w : base(w)' = base(w)
           /\ \A lo, hi : products(lo, hi)' = products(lo, hi)
BY DEF half, share, base, products

\* A step that leaves the workers and the results alone leaves their sums alone.
LEMMA SummingFrame ==
    ASSUME NEW w \in Worker, Summing(w), file' = file, wpc'[w] = wpc[w], elems'[w] = elems[w],
           i'[w] = i[w], sum'[w] = sum[w], header'.result[w] = header.result[w]
    PROVE  Summing(w)'
BY Constants DEF Summing

\* A step that leaves the coordinator where it is leaves the total alone.
LEMMA AddingFrame ==
    ASSUME Adding, UNCHANGED <<file, mpc, scan, total>> PROVE Adding'
BY Constants DEF Adding

\* One iteration of a worker's loop.
LEMMA MultiplyAdds ==
    ASSUME DInv, NEW w \in Worker, multiply(w)
    PROVE  Shapes' /\ Filled' /\ (\A v \in Worker : Summing(v)') /\ Adding'
<1>a. Shapes /\ Filled /\ Summing(w) /\ Adding /\ \A v \in Worker : Summing(v)
  BY DEF DInv
<1>b. /\ Len(file) \in Nat /\ half \in Nat /\ 2 * half <= Len(file) /\ share \in Nat
      /\ \A n \in 1 .. Len(file) : file[n] \in Int
      /\ base(w) \in Nat /\ base(w) + share <= half
      /\ dot(file) \in [0 .. half -> Int]
  BY <1>a, FileFacts
<1>c. UNCHANGED <<file, vecs, header, mpc, in_iter, scan, total, wpc, elems>>
  BY DEF multiply, coordinator
<1>1. /\ wpc[w] = "mult" /\ elems[w] = half /\ i[w] \in Nat /\ sum[w] \in Int
      /\ i[w] < share /\ sum[w] = products(base(w), base(w) + i[w])
  <2>1. elems[w] = half /\ wpc[w] = "mult" /\ sum[w] = products(base(w), base(w) + i[w])
    BY <1>a DEF multiply, Summing
  <2>2. i[w] < share
    BY <2>1 DEF multiply, elems_per_node, share
  <2> QED BY <2>1, <2>2, <1>a DEF Shapes
<1> DEFINE j == base(w) + i[w]
           x == file[j + 1]
           y == file[half + j + 1]
<1>2. /\ j \in Nat /\ j \in 0 .. half /\ j + 1 \in 1 .. half /\ j + 1 \in 0 .. half
      /\ (j + 1) - 1 = j
      /\ j \in 0 .. Len(file) - 1 /\ half + j \in 0 .. Len(file) - 1
      /\ j + 1 \in 1 .. Len(file) /\ half + j + 1 \in 1 .. Len(file)
      /\ half + (j + 1) = half + j + 1 /\ (half + j) + 1 = half + j + 1
  <2>1. /\ base(w) \in Nat /\ i[w] \in Nat /\ share \in Nat /\ half \in Nat
        /\ Len(file) \in Nat /\ i[w] < share /\ base(w) + share <= half
        /\ 2 * half <= Len(file)
    BY <1>b, <1>1
  <2>2. j \in Nat /\ j < half
    BY <2>1
  <2> HIDE DEF j, half, share
  <2> QED BY <2>1, <2>2
<1>3. /\ sum' = [sum EXCEPT ![w] = (sum[w] + vecs[j] * vecs[half + j]) % Word]
      /\ i' = [i EXCEPT ![w] = i[w] + 1]
  <2>1. elems_per_node(w) = share
    BY <1>1 DEF elems_per_node, share
  <2>2. share * w + i[w] = j /\ (half + share * w) + i[w] = half + j
    <3>1. share * w \in Nat
      BY <1>b DEF base
    <3> HIDE DEF share
    <3> QED BY <3>1, <1>b, <1>1 DEF base
  <2> HIDE DEF j
  <2> QED BY <2>1, <2>2, <1>1 DEF multiply
<1>4. vecs[j] = x % Word /\ vecs[half + j] = y % Word /\ x \in Int /\ y \in Int
  <2>1. mpc # "vecs"
    BY <1>1 DEF DInv, IInv, ReadyLast
  <2>2. \A n \in 0 .. Len(file) - 1 : vecs[n] = file[n + 1] % Word
    BY <2>1, <1>a DEF Filled
  <2> HIDE DEF j
  <2> QED BY <2>2, <1>2, <1>b
<1>5. dot(file)[j + 1] = dot(file)[j] + x * y /\ dot(file)[j] \in Int
      /\ dot(file)[j + 1] \in Int /\ dot(file)[base(w)] \in Int
  <2>1. \A n \in 1 .. half : dot(file)[n] = dot(file)[n - 1] + file[n] * file[half + n]
    BY <1>a, FileFacts
  <2>3. base(w) \in 0 .. half
    BY <1>b
  <2> HIDE DEF j
  <2> QED BY <2>1, <2>3, <1>2, <1>b
<1> HIDE DEF j, x, y
<1>6. (sum[w] + vecs[j] * vecs[half + j]) % Word = products(base(w), j + 1)
  <2> DEFINE a == dot(file)[j] - dot(file)[base(w)]
  <2>1. a \in Int /\ sum[w] = a % Word
    BY <1>1, <1>5 DEF products, j
  <2>2. dot(file)[j + 1] - dot(file)[base(w)] = a + x * y
    <3>1. x * y \in Int
      BY <1>4
    <3> QED BY <3>1, <1>5
  <2> HIDE DEF a
  <2>3. ((a % Word) + (x % Word) * (y % Word)) % Word = (a + x * y) % Word
    BY <2>1, <1>4, AddsProduct
  <2> QED BY <2>1, <2>2, <2>3, <1>4 DEF products
<1>7. sum'[w] = products(base(w), j + 1) /\ i'[w] = i[w] + 1 /\ j + 1 = base(w) + (i[w] + 1)
  BY <1>3, <1>6, <1>a, <1>b, <1>1 DEF Shapes, j
<1>8. sum' \in [Worker -> Int] /\ i' \in [Worker -> Nat]
  <2>1. products(base(w), j + 1) \in Int
    <3>1. dot(file)[j + 1] - dot(file)[base(w)] \in Int
      BY <1>5
    <3> QED BY <3>1, Division DEF products
  <2>2. i[w] + 1 \in Nat
    BY <1>1
  <2> QED BY <2>1, <2>2, <1>3, <1>6, <1>a DEF Shapes
<1>9. Shapes' /\ Filled'
  BY <1>a, <1>c, <1>8 DEF Shapes, Filled
<1>10. Summing(w)'
  <2>1. i[w] + 1 <= share
    BY <1>b, <1>1
  <2>2. sum'[w] = products(base(w), base(w) + i'[w]) /\ i'[w] <= share
    BY <2>1, <1>7
  <2>3. wpc'[w] = "mult" /\ elems'[w] = half
    BY <1>1, <1>c
  <2> QED BY <2>2, <2>3, <1>c, Constants DEF Summing
<1>11. \A v \in Worker \ {w} : Summing(v)'
  <2> SUFFICES ASSUME NEW v \in Worker, v # w PROVE Summing(v)'
    OBVIOUS
  <2>1. i'[v] = i[v] /\ sum'[v] = sum[v]
    BY <1>3, <1>a DEF Shapes
  <2> QED BY <2>1, <1>a, <1>c, SummingFrame
<1>12. Adding'
  BY <1>a, <1>c, AddingFrame
<1> QED BY <1>9, <1>10, <1>11, <1>12

\* The other steps of a worker.
LEMMA WorkerAdds ==
    ASSUME DInv, NEW w \in Worker, WorkerStep(w)
    PROVE  Shapes' /\ Filled' /\ (\A v \in Worker : Summing(v)') /\ Adding'
<1>a. Shapes /\ Filled /\ Summing(w) /\ Adding /\ TypeOK /\ \A v \in Worker : Summing(v)
  BY DEF DInv, IInv
<1>b. half \in Nat /\ share \in Nat /\ base(w) \in Nat /\ base(w) + share <= half
      /\ dot(file) \in [0 .. half -> Int]
  BY <1>a, FileFacts
<1>1. CASE multiply(w)
  BY <1>1, MultiplyAdds
<1>2. CASE wait_ready(w) \/ load_elems(w)
  <2>1. /\ UNCHANGED <<file, vecs, header, mpc, in_iter, scan, total, i, sum>>
        /\ wpc[w] \in {"poll", "elems"} /\ mpc # "vecs"
        /\ \A v \in Worker \ {w} : wpc'[v] = wpc[v] /\ elems'[v] = elems[v]
    BY <1>2, <1>a DEF wait_ready, is_ready, load_elems, coordinator, DInv, IInv, ReadyLast, TypeOK, Shapes
  <2>2. header.elems = Len(file)
    BY <2>1, <1>a DEF Filled
  <2>3. Shapes'
    <3>1. elems' \in [Worker -> Int]
      <4>1. header.elems \div 2 \in Int
        BY <2>2, <1>a, FileFacts DEF half
      <4> QED BY <4>1, <1>2, <1>a DEF wait_ready, load_elems, Shapes
    <3> QED BY <3>1, <2>1, <1>a DEF Shapes
  <2>4. Filled'
    BY <2>1, <1>a DEF Filled
  <2>5. Summing(w)'
    <3>1. i[w] = 0 /\ sum[w] = 0 /\ i'[w] = 0 /\ sum'[w] = 0
      BY <2>1, <1>a DEF Summing
    <3>2. CASE wait_ready(w)
      <4>1. wpc'[w] = "elems"
        BY <3>2, <1>a DEF wait_ready, TypeOK
      <4> QED BY <4>1, <3>1 DEF Summing
    <3>3. CASE load_elems(w)
      <4>1. wpc'[w] = "mult" /\ elems'[w] = half
        BY <3>3, <2>2, <1>a DEF load_elems, TypeOK, Shapes, half
      <4>2. products(base(w), base(w) + 0) = 0
        <5>1. base(w) + 0 = base(w) /\ dot(file)[base(w)] \in Int
          BY <1>b
        <5>2. \A x \in Int : (x - x) % Word = 0
          BY WordAssumption
        <5> QED BY <5>1, <5>2 DEF products
      <4>3. i'[w] <= share
        BY <3>1, <1>b
      <4> QED BY <4>1, <4>2, <4>3, <3>1, <2>1, Constants DEF Summing
    <3> QED BY <1>2, <3>2, <3>3
  <2>6. \A v \in Worker \ {w} : Summing(v)'
    BY <2>1, <1>a, SummingFrame
  <2>7. Adding'
    BY <2>1, <1>a, AddingFrame
  <2> QED BY <2>3, <2>4, <2>5, <2>6, <2>7
<1>3. CASE store_result(w)
  <2>1. /\ UNCHANGED <<file, vecs, mpc, in_iter, scan, total, elems, i, sum>>
        /\ wpc[w] = "mult" /\ wpc'[w] = "signal" /\ header'.elems = header.elems
        /\ header'.result = [header.result EXCEPT ![w] = sum[w]]
        /\ \A v \in Worker \ {w} : wpc'[v] = wpc[v]
    BY <1>3, <1>a DEF store_result, coordinator, TypeOK
  <2>2. elems[w] = half /\ i[w] = share /\ sum[w] = products(base(w), base(w) + share)
    <3>1. elems[w] = half /\ sum[w] = products(base(w), base(w) + i[w])
      BY <2>1, <1>a DEF Summing
    <3>2. i[w] = share
      BY <3>1, <1>3 DEF store_result, elems_per_node, share
    <3> QED BY <3>1, <3>2
  <2>3. header'.result \in [Worker -> Int] /\ header'.result[w] = sum[w]
        /\ \A v \in Worker \ {w} : header'.result[v] = header.result[v]
    BY <2>1, <1>a DEF Shapes
  <2>4. Shapes' /\ Filled'
    BY <2>1, <2>3, <1>a DEF Shapes, Filled
  <2>5. Summing(w)'
    BY <2>1, <2>2, <2>3, Constants DEF Summing
  <2>6. \A v \in Worker \ {w} : Summing(v)'
    BY <2>1, <2>3, <1>a, SummingFrame
  <2>7. Adding'
    BY <2>1, <1>a, AddingFrame
  <2> QED BY <2>4, <2>5, <2>6, <2>7
<1>4. CASE store_done(w)
  <2>1. /\ UNCHANGED <<file, vecs, mpc, in_iter, scan, total, elems, i, sum>>
        /\ wpc[w] = "signal" /\ wpc'[w] = "done" /\ header'.elems = header.elems
        /\ header'.result = header.result
        /\ \A v \in Worker \ {w} : wpc'[v] = wpc[v]
    BY <1>4, <1>a DEF store_done, coordinator, TypeOK
  <2>2. Shapes' /\ Filled'
    BY <2>1, <1>a DEF Shapes, Filled
  <2>3. Summing(w)'
    BY <2>1, <1>a, Constants DEF Summing
  <2>4. \A v \in Worker \ {w} : Summing(v)'
    BY <2>1, <1>a, SummingFrame
  <2>5. Adding'
    BY <2>1, <1>a, AddingFrame
  <2> QED BY <2>2, <2>3, <2>4, <2>5
<1> QED BY <1>1, <1>2, <1>3, <1>4 DEF WorkerStep

\* The coordinator fills the vectors, waits, and adds up the parts.
LEMMA CoordinatorAdds ==
    ASSUME DInv, Fits, CoordinatorStep
    PROVE  Shapes' /\ Filled' /\ (\A v \in Worker : Summing(v)') /\ Adding'
<1>a. Shapes /\ Filled /\ Adding /\ TypeOK /\ \A v \in Worker : Summing(v)
  BY DEF DInv, IInv
<1>b. UNCHANGED <<file, wpc, elems, i, sum>>
  BY DEF CoordinatorStep, store_vecs, store_elems, store_flags, store_ready,
         begin_round, look_at_flag, end_round, merge_worker, workers
<1>c. header'.result = header.result
  BY <1>a DEF CoordinatorStep, store_vecs, store_elems, store_flags, store_ready,
              begin_round, look_at_flag, end_round, merge_worker, TypeOK
<1>1. \A v \in Worker : Summing(v)'
  BY <1>a, <1>b, <1>c, SummingFrame
<1>2. CASE store_vecs
  <2>1. /\ mpc = "vecs" /\ mpc' = "vecs" /\ in_iter < Len(file) /\ in_iter \in 0 .. Len(file)
        /\ vecs' = [vecs EXCEPT ![in_iter] = file[in_iter + 1] % Word]
        /\ in_iter' = in_iter + 1 /\ total' = total
    BY <1>2, <1>a DEF store_vecs, readable, Shapes
  <2>2. Len(file) \in Nat /\ \A n \in 1 .. Len(file) : file[n] \in Int
    BY <1>a, FileFacts
  <2>3. in_iter \in 0 .. Len(file) - 1 /\ in_iter + 1 \in 1 .. Len(file)
        /\ in_iter' \in 0 .. Len(file) /\ in_iter' - 1 = in_iter
    BY <2>1, <2>2
  <2>4. file[in_iter + 1] % Word \in Int
    BY <2>2, <2>3, Division
  <2>5. Shapes'
    BY <2>1, <2>3, <2>4, <1>a, <1>b, <1>c DEF Shapes
  <2>6. \A n \in 0 .. in_iter : vecs'[n] = file[n + 1] % Word
    <3>1. \A n \in 0 .. in_iter - 1 : vecs[n] = file[n + 1] % Word
      BY <2>1, <1>a DEF Filled
    <3>2. \A n \in 0 .. in_iter : n \in 0 .. Len(file) - 1 /\ (n = in_iter \/ n \in 0 .. in_iter - 1)
      BY <2>2, <2>3
    <3> QED BY <2>1, <2>3, <3>1, <3>2, <1>a DEF Shapes
  <2>7. Filled'
    BY <2>1, <2>3, <2>6, <1>b DEF Filled
  <2>8. Adding'
    BY <2>1, <1>a DEF Adding
  <2> QED BY <1>1, <2>5, <2>7, <2>8
<1>3. CASE store_elems
  <2>1. mpc = "vecs" /\ mpc' = "flags" /\ UNCHANGED <<vecs, in_iter, total>>
        /\ header'.elems = Len(file)
    BY <1>3, <1>a DEF store_elems, TypeOK
  <2>2. in_iter = Len(file)
    <3>1. in_iter \in 0 .. Len(file) /\ (in_iter < Len(file) => file[in_iter + 1] \in Number)
      BY <1>a DEF Shapes
    <3> QED BY <1>3, <3>1 DEF store_elems, readable, Fits
  <2>3. Shapes' /\ Adding'
    BY <2>1, <1>a, <1>b, <1>c DEF Shapes, Adding
  <2>4. Filled'
    BY <2>1, <2>2, <1>a, <1>b DEF Filled
  <2> QED BY <1>1, <2>3, <2>4
<1>4. CASE store_flags \/ store_ready \/ begin_round \/ look_at_flag
  <2>1. /\ mpc \notin {"vecs", "merge", "done"} /\ mpc' \notin {"vecs", "merge", "done"}
        /\ UNCHANGED <<vecs, in_iter, total>> /\ header'.elems = header.elems
    BY <1>4, <1>a DEF store_flags, store_ready, begin_round, look_at_flag, TypeOK
  <2>2. Shapes' /\ Filled' /\ Adding'
    BY <2>1, <1>a, <1>b, <1>c DEF Shapes, Filled, Adding
  <2> QED BY <1>1, <2>2
<1>d. /\ share * 0 = 0 /\ share \in Nat /\ half \in Nat /\ dot(file) \in [0 .. half -> Int]
      /\ share * NODES_WORKER \in Nat /\ share * NODES_WORKER <= half
      /\ NODES_WORKER \in Nat /\ 0 \in 0 .. half
  <2>1. \A n \in Nat : n * 0 = 0
    OBVIOUS
  <2> QED BY <2>1, <1>a, FileFacts, WorkersAssumption
<1>5. CASE end_round
  <2>1. /\ mpc = "scan" /\ mpc' \in {"merge", "sleep"} /\ scan' = 0
        /\ UNCHANGED <<vecs, in_iter, total, header>>
    BY <1>5 DEF end_round
  <2>2. Shapes' /\ Filled'
    BY <2>1, <1>a, <1>b DEF Shapes, Filled
  <2>3. total = 0
    BY <2>1, <1>a DEF Adding
  <2>4. products(0, share * 0) = 0
    <3>1. \A x \in Int : (x - x) % Word = 0
      BY WordAssumption
    <3>2. dot(file)[0] \in Int
      BY <1>d
    <3> QED BY <3>1, <3>2, <1>d DEF products
  <2>5. 0 <= NODES_WORKER
    BY <1>d
  <2>6. Adding'
    BY <2>1, <2>3, <2>4, <2>5, <1>b, Constants DEF Adding
  <2> QED BY <1>1, <2>2, <2>6
<1>6. CASE merge_worker
  <2>1. mpc = "merge" /\ UNCHANGED <<vecs, in_iter, header>> /\ mpc' \in {"merge", "done"}
        /\ scan \in Nat /\ scan <= NODES_WORKER /\ total = products(0, share * scan)
    BY <1>6, <1>a DEF merge_worker, TypeOK, Adding
  <2>2. Shapes' /\ Filled'
    BY <2>1, <1>a, <1>b DEF Shapes, Filled
  <2>3. CASE scan < NODES_WORKER
    <3>1. /\ total' = (total + header.result[scan]) % Word /\ scan' = scan + 1
          /\ mpc' = "merge"
      BY <1>6, <2>1, <2>3 DEF merge_worker
    <3>2. scan \in Worker /\ scan + 1 <= NODES_WORKER
      BY <2>1, <2>3, <1>d DEF Worker
    <3>3. header.result[scan] = products(base(scan), base(scan) + share)
      <4>1. wpc[scan] = "done"
        BY <2>1, <3>2 DEF DInv, IInv, AllBefore
      <4> QED BY <3>2, <4>1, <1>a DEF Summing
    <3>4. /\ base(scan) = share * scan /\ base(scan) \in 0 .. half
          /\ base(scan) + share \in 0 .. half
          /\ base(scan) + share = share * (scan + 1)
      <4>1. base(scan) \in Nat /\ base(scan) + share <= half
        BY <3>2, <1>a, FileFacts
      <4>2. base(scan) = share * scan
        BY DEF base
      <4> HIDE DEF share
      <4>3. share * scan + share = share * (scan + 1)
        BY <1>d, <2>1
      <4> QED BY <4>1, <4>2, <4>3, <1>d
    <3> DEFINE a == dot(file)[share * scan] - dot(file)[0]
               b == dot(file)[share * (scan + 1)] - dot(file)[share * scan]
    <3>5. /\ a \in Int /\ b \in Int
          /\ a + b = dot(file)[share * (scan + 1)] - dot(file)[0]
          /\ total = a % Word /\ header.result[scan] = b % Word
      <4>1. /\ dot(file)[share * scan] \in Int /\ dot(file)[0] \in Int
            /\ dot(file)[share * (scan + 1)] \in Int
        BY <3>4, <1>d
      <4>2. total = a % Word /\ header.result[scan] = b % Word
        BY <2>1, <3>3, <3>4 DEF products
      <4> QED BY <4>1, <4>2
    <3> HIDE DEF a, b
    <3>6. total' = (a + b) % Word
      BY <3>1, <3>5, SumOfRemainders
    <3>7. total' = products(0, share * (scan + 1))
      BY <3>5, <3>6 DEF products
    <3>8. Adding'
      BY <3>1, <3>2, <3>7, <1>b, Constants DEF Adding
    <3> QED BY <1>1, <2>2, <3>8
  <2>4. CASE ~(scan < NODES_WORKER)
    <3>1. mpc' = "done" /\ total' = total /\ scan = NODES_WORKER
      BY <1>6, <2>1, <2>4, <1>d DEF merge_worker
    <3>2. Adding'
      BY <2>1, <3>1, <1>b, Constants DEF Adding
    <3> QED BY <1>1, <2>2, <3>2
  <2> QED BY <2>3, <2>4
<1> QED BY <1>2, <1>3, <1>4, <1>5, <1>6 DEF CoordinatorStep

LEMMA DInvStep == DInv /\ Fits /\ [Next]_vars => DInv'
<1> SUFFICES ASSUME DInv, Fits, [Next]_vars PROVE DInv'
  OBVIOUS
<1>1. IInv'
  BY StepInvariant DEF DInv
<1>2. CASE UNCHANGED vars
  <2>1. UNCHANGED <<file, vecs, header, mpc, in_iter, scan, total, wpc, elems, i, sum>>
    BY <1>2 DEF vars, coordinator, workers
  <2>2. Shapes' /\ Filled'
    BY <2>1 DEF DInv, Shapes, Filled
  <2>3. (\A w \in Worker : Summing(w)') /\ Adding'
    BY <2>1, SummingFrame, AddingFrame DEF DInv
  <2> QED BY <1>1, <2>2, <2>3 DEF DInv
<1> QED BY <1>1, <1>2, CoordinatorAdds, WorkerAdds DEF Next, DInv

\* When the coordinator has added all parts, it has added all products.
LEMMA AllAdded == ASSUME DInv, Divides PROVE PrintsProduct
<1> SUFFICES ASSUME mpc = "done" PROVE total = dot(file)[half] % Word
  BY DEF PrintsProduct, half
<1>1. /\ half \in Nat /\ dot(file) \in [0 .. half -> Int] /\ dot(file)[0] = 0
  BY FileFacts DEF DInv
<1>2. total = products(0, share * NODES_WORKER)
  BY DEF DInv, Adding
<1>3. half % NODES_WORKER = 0 /\ NODES_WORKER \in Nat \ {0}
  BY WorkersAssumption DEF DInv, Shapes, Divides, half
<1> HIDE DEF half
<1>4. share * NODES_WORKER = half
  BY <1>1, <1>3 DEF share
<1>5. dot(file)[half] \in Int /\ dot(file)[half] - dot(file)[0] = dot(file)[half]
  BY <1>1
<1> QED BY <1>2, <1>4, <1>5 DEF products

\* Whatever the interleaving, what pdot prints is the dot product of the two halves of the file,
\* if each divides into the parts of the workers and its numbers fit an int: the loops of
\* mult_worker and merge_worker multiply and add every pair of elements once.
THEOREM ProductIsPrinted == Divides /\ Fits /\ Spec => []PrintsProduct
<1>1. CASE Divides /\ Fits
  <2>1. DInv /\ [Next]_vars => DInv'
    BY <1>1, DInvStep
  <2>2. DInv => PrintsProduct
    BY <1>1, AllAdded
  <2> QED BY <2>1, <2>2, DInvInit, PTL DEF Spec
<1>2. CASE ~(Divides /\ Fits)
  BY <1>2, PTL
<1> QED BY <1>1, <1>2
=============================================================================

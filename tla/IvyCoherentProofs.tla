------------------------- MODULE IvyCoherentProofs --------------------------
(***************************************************************************)
(* IvyPage implements CoherentPage, for a cluster of any size: every step  *)
(* changes what one program sees of the page, and what a program sees is   *)
(* settled by the two halves of coherence, in the state before the step    *)
(* and in the state after it.                                              *)
(***************************************************************************)
EXTENDS IvyCoherent, IvyPageCohProofs

\* What the program of node n sees.
Sees(n) == <<program_access(n), program_copy(n)>>

\* A step touches the address space and the program thread of one node at most,
\* and only a store changes what is current.
LEMMA OneNodeMoves ==
    ASSUME TypeOK, Callers, Next, ~\E n \in Node : Store(n)
    PROVE  /\ latest' = latest
           /\ \E n \in Node : \A m \in Node \ {n} :
                pc'[m] = pc[m] /\ perm'[m] = perm[m] /\ mem'[m] = mem[m]
<1> USE Names
<1>1. ASSUME NEW n \in Node, Load(n) \/ sigaction_hdlr(n) \/ HandlerStep(n)
      PROVE  /\ latest' = latest
             /\ \A m \in Node \ {n} :
                  pc'[m] = pc[m] /\ perm'[m] = perm[m] /\ mem'[m] = mem[m]
  BY <1>1 DEF Load, sigaction_hdlr, HandlerStep, rd_fault_hdlr, wr_fault_hdlr,
     ask_manager, call, fault_hdlr_reply, call_returns, hang_up, fault_hdlr_backoff,
     call_fails, open_page, get_rd_page_copy, get_rd_page_protect, get_wr_page_copy,
     killed_by_signal, home, TypeOK
<1>2. ASSUME NEW c \in Call, CallStep(c)
      PROVE  /\ latest' = latest
             /\ \A m \in Node \ {dst[c]} :
                  pc'[m] = pc[m] /\ perm'[m] = perm[m] /\ mem'[m] = mem[m]
  BY <1>2 DEF CallStep, discard_reply, hang_up, fetch_pg_lock, fetch_pg_answer,
     invalidate_adapter, TypeOK
<1>3. \A a \in Server : op[a] \in Serve => home(a) = Manager
  BY CallAssumption, NodeAssumption DEF Callers, home, Server, Manager
<1>4. ASSUME NEW a \in Server, ServerStep(a)
      PROVE  /\ latest' = latest
             /\ \A m \in Node \ {home(a)} :
                  pc'[m] = pc[m] /\ perm'[m] = perm[m] /\ mem'[m] = mem[m]
  <2>1. \A m \in Node \ {home(a)} : m \in Thread /\ m # a /\ m \notin Call
    BY ThreadSplit DEF home
  <2>2. CASE fetch_pg_protect(a) \/ read_page(a)
    BY <2>1, <2>2 DEF fetch_pg_protect, read_page, TypeOK
  <2>3. CASE serv_rd_rq_lock(a) \/ serv_wr_rq_lock(a)
    BY <2>1, <2>3 DEF serv_rd_rq_lock, serv_wr_rq_lock, serv_rq_lock, TypeOK
  <2>4. CASE serv_rd_rq(a) \/ serv_wr_rq(a) \/ send_invalidations(a)
    BY <2>1, <2>4 DEF serv_rd_rq, serv_wr_rq, send_invalidations, call, TypeOK
  <2>5. CASE serv_rd_rq_own(a) \/ serv_wr_rq_own(a)
    <3>1. home(a) = Manager
      BY <1>3, <2>5 DEF serv_rd_rq_own, serv_wr_rq_own, Serve, FetchPc
    <3> QED BY <2>1, <2>5, <3>1 DEF serv_rd_rq_own, serv_wr_rq_own, TypeOK
  <2>6. CASE serv_rd_rq_fetched(a) \/ serv_wr_rq_fetched(a) \/ send_invalidations_ok(a)
    BY <2>1, <2>6 DEF serv_rd_rq_fetched, serv_wr_rq_fetched, send_invalidations_ok,
       call_returns, hang_up, TypeOK
  <2>7. CASE serv_rd_rq_call_failed(a) \/ serv_wr_rq_call_failed(a)
    BY <2>1, <2>7 DEF serv_rd_rq_call_failed, serv_wr_rq_call_failed, serv_rq_call_failed,
       call_fails, hang_up, TypeOK
  <2>8. CASE send_invalidations_failed(a)
    BY <2>1, <2>8 DEF send_invalidations_failed, call_fails, hang_up, TypeOK
  <2>9. CASE serv_wr_rq_grant(a)
    BY <2>1, <2>9 DEF serv_wr_rq_grant, TypeOK
  <2> QED
    BY <1>4, <2>2, <2>3, <2>4, <2>5, <2>6, <2>7, <2>8, <2>9 DEF ServerStep
<1> QED BY <1>1, <1>2, <1>4, Names DEF Next

\* So the program of one node at most sees the page differently.
LEMMA OneSees ==
    ASSUME NEW n, \A m \in Node \ {n} :
             pc'[m] = pc[m] /\ perm'[m] = perm[m] /\ mem'[m] = mem[m]
    PROVE  \A m \in Node \ {n} :
             program_access(m)' = program_access(m) /\ program_copy(m)' = program_copy(m)
BY DEF program_access, program_copy, CanStore, CanLoad

\* What a program sees, in a coherent state.
LEMMA Views ==
    ASSUME ReadersXorWriter, LoadsLatest, NEW n \in Node
    PROVE  /\ program_access(n) \in {"none", "rd", "rw"}
           /\ program_copy(n) = IF program_access(n) = "none" THEN Empty ELSE latest
BY DEF ReadersXorWriter, LoadsLatest, program_access, program_copy, CanStore, CanLoad

\* Whatever one program comes to see, a coherent page allows it.
LEMMA ViewStep ==
    ASSUME ReadersXorWriter, LoadsLatest, ReadersXorWriter', LoadsLatest',
           latest' = latest, NEW n \in Node,
           \A m \in Node \ {n} :
             program_access(m)' = program_access(m) /\ program_copy(m)' = program_copy(m)
    PROVE  [Coherent!CPNext]_(Coherent!cpVars)
<1> DEFINE A == [k \in Node |-> program_access(k)]
           C == [k \in Node |-> program_copy(k)]
           before == program_access(n)
           after == program_access(n)'
<1>1. A' = [A EXCEPT ![n] = after] /\ C' = [C EXCEPT ![n] = program_copy(n)']
  OBVIOUS
<1>2. A[n] = before /\ C[n] = program_copy(n)
  OBVIOUS
<1>3. /\ before \in {"none", "rd", "rw"}
      /\ program_copy(n) = IF before = "none" THEN Empty ELSE latest
  BY Views
<1>4. /\ after \in {"none", "rd", "rw"}
      /\ program_copy(n)' = IF after = "none" THEN Empty ELSE latest
      /\ after = "rw" => \A m \in Node \ {n} : A[m] = "none"
      /\ after = "rd" => \A m \in Node \ {n} : A[m] # "rw"
  <2>1. /\ after \in {"none", "rd", "rw"}
        /\ program_copy(n)' = IF after = "none" THEN Empty ELSE latest
        /\ after = "rw" => \A m \in Node \ {n} : program_access(m)' = "none"
        /\ after = "rd" => \A m \in Node \ {n} : program_access(m)' # "rw"
    BY DEF ReadersXorWriter, LoadsLatest, program_access, program_copy, CanStore, CanLoad
  <2> QED BY <2>1
<1> HIDE DEF A, C, before, after
<1>5. CASE before = after
  BY <1>1, <1>2, <1>3, <1>4, <1>5 DEF Coherent!cpVars, A, C
<1>6. CASE before # after /\ after = "none"
  <2>1. Coherent!Lose(n)
    BY <1>1, <1>2, <1>4, <1>6 DEF Coherent!Lose, A, C
  <2> QED BY <2>1 DEF Coherent!CPNext
<1>7. CASE before = "none" /\ after = "rd"
  <2>1. Coherent!Share(n)
    BY <1>1, <1>2, <1>4, <1>7 DEF Coherent!Share, A, C
  <2> QED BY <2>1 DEF Coherent!CPNext
<1>8. CASE before = "rw" /\ after = "rd"
  <2>1. Coherent!Downgrade(n)
    BY <1>1, <1>2, <1>3, <1>4, <1>8 DEF Coherent!Downgrade, A, C
  <2> QED BY <2>1 DEF Coherent!CPNext
<1>9. CASE before # "rw" /\ after = "rw"
  <2>1. Coherent!Own(n)
    BY <1>1, <1>2, <1>4, <1>9 DEF Coherent!Own, A, C
  <2> QED BY <2>1 DEF Coherent!CPNext
<1> QED BY <1>3, <1>4, <1>5, <1>6, <1>7, <1>8, <1>9

\* A store is a write of the only program that has access.
LEMMA StoreWrites ==
    ASSUME TypeOK, ReadersXorWriter, LoadsLatest, NEW n \in Node, Store(n)
    PROVE  Coherent!CPNext
<1>1. /\ CanStore(n) /\ CanStore(n)' /\ CanLoad(n)'
      /\ latest' \in Data /\ mem'[n] = latest'
      /\ \A m \in Node \ {n} : pc'[m] = pc[m] /\ perm'[m] = perm[m]
      /\ \A m \in Node \ {n} : mem'[m] = mem[m]
  BY DEF Store, CanStore, CanLoad, TypeOK, Thread
<1>2. program_access(n) = "rw" /\ program_access(n)' = "rw" /\ program_copy(n)' = latest'
  BY <1>1 DEF program_access, program_copy
<1>3. \A m \in Node \ {n} :
        program_access(m)' = program_access(m) /\ program_copy(m)' = program_copy(m)
  BY <1>1, OneSees
<1>4. Coherent!Write(n)
  BY <1>1, <1>2, <1>3 DEF Coherent!Write
<1> QED BY <1>4 DEF Coherent!CPNext

\* What programs see of the page, through faults, requests, fetches and
\* invalidations, is a page of one memory lent to readers or a writer: whatever
\* the number of nodes and of calls in flight.
THEOREM ImplementsCoherentPage == Reliable /\ Spec => IsCoherent
<1>1. Init => Coherent!CPInit
  BY Names, CohInvInit, ThreadSplit
  DEF Init, Coherent!CPInit, program_access, program_copy, CanStore, CanLoad, CohInv, IInv
<1>2. ASSUME Reliable, CohInv, CohInv', [Next]_vars
      PROVE  [Coherent!CPNext]_(Coherent!cpVars)
  <2>1. /\ TypeOK /\ Callers /\ ReadersXorWriter /\ LoadsLatest
        /\ ReadersXorWriter' /\ LoadsLatest'
    <3>1. ReadersXorWriter /\ LoadsLatest /\ TypeOK /\ Callers
      BY <1>2, ExclusionFollows, LatestFollows DEF CohInv, IInv
    <3>2. Reliable'
      BY <1>2 DEF Reliable
    <3>3. ReadersXorWriter' /\ LoadsLatest'
      BY <1>2, <3>2, ExclusionFollows, LatestFollows, PTL
    <3> QED BY <3>1, <3>3
  <2>2. CASE \E n \in Node : Store(n)
    BY <2>1, <2>2, StoreWrites
  <2>3. CASE Next /\ ~\E n \in Node : Store(n)
    BY <2>1, <2>3, OneNodeMoves, OneSees, ViewStep
  <2>4. CASE UNCHANGED vars
    BY <2>4 DEF vars, Coherent!cpVars, program_access, program_copy, CanStore, CanLoad
  <2> QED BY <1>2, <2>2, <2>3, <2>4
<1>3. CASE Reliable
  <2>1. CohInv /\ CohInv' /\ [Next]_vars => [Coherent!CPNext]_(Coherent!cpVars)
    BY <1>2, <1>3
  <2> QED BY <1>1, <1>3, <2>1, CoherentInvariance, PTL DEF Spec, IsCoherent, Coherent!CPSpec
<1>4. CASE ~Reliable
  BY <1>4
<1> QED BY <1>3, <1>4
=============================================================================

------------------------- MODULE IvyPageLockProofs --------------------------
(***************************************************************************)
(* First part of the proof about IvyPage: the types of the variables, the  *)
(* pairing of calls with the threads that wait for them, and who holds the *)
(* contents of the page, are preserved by every step (the three depend on  *)
(* each other only through the state before the step); and critical        *)
(* sections are entered by wait_lock only and are left when the page lock  *)
(* is released.                                                            *)
(***************************************************************************)
EXTENDS IvyPageInv, TLAPS

(***************************************************************************)
(* Types.                                                                  *)
(***************************************************************************)
\* The variables that the RPC operators change, typed.
RpcType ==
    /\ pc \in [Thread -> Pc] /\ \A a \in Thread : pc[a] \in ThreadPc(a)
    /\ op \in [Thread -> Op] /\ \A n \in Node : op[n] \in {"rd", "wr"}
    /\ from \in [Call -> Thread \cup {NoOne}]
    /\ dst \in [Call -> Node] /\ req \in [Call -> Node]

\* Every place a thread can stand is a value of pc.
LEMMA PcSets == \A a \in Thread : ThreadPc(a) \subseteq Pc
  BY DEF ThreadPc, Pc

\* Making a call keeps the variables of the RPC layer typed.
LEMMA CallType ==
    ASSUME RpcType, NEW a \in Thread, NEW next \in ThreadPc(a), NEW c \in Call,
           NEW n \in Node, NEW fn \in Op, NEW who \in Node,
           call(a, next, c, n, fn, who)
    PROVE  RpcType'
<1>1. "sent" \in ThreadPc(c)
  BY DEF ThreadPc, CallPc
<1> QED
  BY <1>1, PcSets, CallAssumption DEF RpcType, call, Thread

\* So does forgetting one.
LEMMA HangUpType ==
    ASSUME RpcType, NEW a \in Thread, NEW next \in ThreadPc(a), NEW c \in Call,
           hang_up(a, next, c)
    PROVE  RpcType'
<1>1. "free" \in ThreadPc(c) /\ "rd" \in Op /\ Manager \in Node
  BY NodeAssumption DEF ThreadPc, CallPc, Op, Manager
<1> QED
  BY <1>1, PcSets, CallAssumption DEF RpcType, hang_up, Thread

\* And so does a failed call, which also leaves every buffer typed.
LEMMA CallFailsType ==
    ASSUME TypeOK, NEW a \in Thread, NEW next \in ThreadPc(a), NEW c \in Call,
           call_fails(a, next, c)
    PROVE  RpcType' /\ buf' \in [Thread -> Data \cup {Empty}]
<1>1. RpcType
  BY DEF TypeOK, RpcType
<1>2. CASE hang_up(a, next, c) /\ buf' = [buf EXCEPT ![c] = Empty]
  BY <1>1, <1>2, HangUpType DEF TypeOK
<1>3. CASE /\ pc' = [pc EXCEPT ![a] = next]
           /\ from' = [from EXCEPT ![c] = NoOne]
           /\ UNCHANGED <<op, buf, dst, req>>
  BY <1>1, <1>3, PcSets DEF RpcType, TypeOK
<1> QED BY <1>2, <1>3 DEF call_fails

\* Type correctness is preserved by every step of the system.
LEMMA TypeStep == ASSUME TypeOK, Callers, Pages, Next PROVE TypeOK'
<1> USE NodeAssumption, CallAssumption
<1> USE DEF TypeOK, RpcType, rpcVars, tblVars
<1> DEFINE Rest ==
      /\ buf \in [Thread -> Data \cup {Empty}]
      /\ todo \in [Thread -> SUBSET Node]
      /\ perm \in [Node -> Perm] /\ mem \in [Node -> Data]
      /\ pageLock \in [Node -> Thread \cup {NoOne}]
      /\ infoLock \in Server \cup {NoOne}
      /\ owner \in Node /\ copyset \in SUBSET Node
      /\ latest \in Data
<1>a. RpcType /\ Rest
  OBVIOUS
<1>b. /\ \A n \in Node : n \in Thread
      /\ \A c \in Call : c \in Thread
      /\ \A a \in Server : a \in Thread
      /\ Manager \in Node /\ Manager \notin Call
  BY DEF Thread, Server, Manager
<1>c. /\ \A a \in Thread : requester(a) \in Node /\ home(a) \in Node
  BY DEF requester, home, Thread
<1>d. \A a \in Thread : ThreadPc(a) \subseteq Pc
  BY PcSets
<1>1. ASSUME NEW n \in Node, Load(n) PROVE TypeOK'
  BY <1>1 DEF Load, Thread, ThreadPc, AppPc, Pc, Op
<1>2. ASSUME NEW n \in Node, Store(n) PROVE TypeOK'
  BY <1>2 DEF Store, Thread, ThreadPc, AppPc, Pc, Op
<1>3. ASSUME NEW n \in Node, sigaction_hdlr(n) PROVE TypeOK'
  BY <1>3 DEF sigaction_hdlr, Thread, ThreadPc, AppPc, ServePc, Pc, Op
<1>4. ASSUME NEW n \in Node, NEW fn \in {"rd", "wr"}, ask_manager(n, fn) PROVE TypeOK'
  <2>1. PICK c \in Call : call(n, "wait", c, Manager, fn, n)
    BY <1>4 DEF ask_manager
  <2>2. "wait" \in ThreadPc(n)
    BY <1>4, <1>b DEF ask_manager, ThreadPc, AppPc, ServePc, FetchPc
  <2>3. RpcType'
    BY <1>a, <1>b, <2>1, <2>2, CallType DEF Op
  <2> QED BY <1>4, <2>3, <1>b DEF ask_manager, wait_lock
<1>5. ASSUME NEW n \in Node, fault_hdlr_reply(n) PROVE TypeOK'
  <2>1. PICK c \in Call : call_returns(n, "protect", c)
          /\ buf' = [buf EXCEPT ![n] = buf[c], ![c] = Empty]
    BY <1>5 DEF fault_hdlr_reply
  <2>2. "protect" \in ThreadPc(n)
    BY DEF ThreadPc, AppPc
  <2>3. RpcType'
    BY <1>a, <1>b, <2>1, <2>2, HangUpType DEF call_returns
  <2> QED BY <1>5, <2>1, <2>3, <1>b DEF fault_hdlr_reply
<1>6. ASSUME NEW n \in Node, fault_hdlr_backoff(n) PROVE TypeOK'
  <2>1. PICK c \in Call : call_fails(n, "lock", c)
    BY <1>6 DEF fault_hdlr_backoff
  <2>2. "lock" \in ThreadPc(n)
    BY <1>6, <1>b DEF fault_hdlr_backoff, ThreadPc, AppPc, ServePc, FetchPc
  <2>3. RpcType' /\ buf' \in [Thread -> Data \cup {Empty}]
    BY <1>a, <1>b, <2>1, <2>2, CallFailsType
  <2> QED BY <1>6, <2>1, <2>3 DEF fault_hdlr_backoff
<1>7. ASSUME NEW n \in Node, open_page(n) PROVE TypeOK'
  BY <1>7, <1>b, <1>d DEF open_page, ThreadPc, AppPc, Perm
<1>8. ASSUME NEW n \in Node, get_rd_page_copy(n) PROVE TypeOK'
  BY <1>8, <1>b, <1>d DEF get_rd_page_copy, Pages, Paged, ThreadPc, AppPc
<1>9. ASSUME NEW n \in Node, get_rd_page_protect(n) PROVE TypeOK'
  BY <1>9, <1>b, <1>d DEF get_rd_page_protect, hdlr_unlock, ThreadPc, AppPc, Perm
<1>10. ASSUME NEW n \in Node, get_wr_page_copy(n) PROVE TypeOK'
  BY <1>10, <1>b, <1>d DEF get_wr_page_copy, received, hdlr_unlock, ThreadPc, AppPc
<1>11. ASSUME NEW n \in Node, killed_by_signal(n) PROVE TypeOK'
  <2>1. \A a \in Thread : "killed" \in ThreadPc(a)
    BY DEF ThreadPc, AppPc, CallPc, ServePc, FetchPc, Thread
  <2> QED BY <1>11, <1>b, <1>d, <2>1 DEF killed_by_signal
<1>12. ASSUME NEW c \in Call, discard_reply(c) PROVE TypeOK'
  <2>1. "free" \in ThreadPc(c)
    BY DEF ThreadPc, CallPc
  <2>2. RpcType'
    BY <1>a, <1>b, <2>1, <1>12, HangUpType DEF discard_reply
  <2> QED BY <1>12, <2>2 DEF discard_reply
<1>13. ASSUME NEW c \in Call, fetch_pg_lock(c) PROVE TypeOK'
  BY <1>13, <1>b, <1>d DEF fetch_pg_lock, wait_lock, ThreadPc, FetchPc
<1>14. ASSUME NEW c \in Call, fetch_pg_answer(c) PROVE TypeOK'
  BY <1>14, <1>b, <1>d DEF fetch_pg_answer, left_access, ThreadPc, CallPc, Perm
<1>15. ASSUME NEW c \in Call, invalidate_adapter(c) PROVE TypeOK'
  BY <1>15, <1>b, <1>d DEF invalidate_adapter, ThreadPc, CallPc, Perm
<1>16. ASSUME NEW a \in Server, fetch_pg_protect(a) PROVE TypeOK'
  <2>1. "fpRead" \in ThreadPc(a)
    BY DEF ThreadPc, FetchPc, Server
  <2> QED BY <1>16, <2>1, <1>b, <1>c, <1>d DEF fetch_pg_protect, Perm
<1>17. ASSUME NEW a \in Server, read_page(a) PROVE TypeOK'
  <2>1. "fpSet" \in ThreadPc(a)
    BY DEF ThreadPc, FetchPc, Server
  <2> QED BY <1>17, <2>1, <1>b, <1>c, <1>d DEF read_page
<1>18. ASSUME NEW a \in Server, NEW o \in {"rd", "wr"}, serv_rq_lock(a, o) PROVE TypeOK'
  <2>1. "srvInfo" \in ThreadPc(a)
    BY DEF ThreadPc, ServePc, Server
  <2> QED BY <1>18, <2>1, <1>b, <1>d DEF serv_rq_lock, wait_lock
<1>19. ASSUME NEW a \in Server, serv_rd_rq(a) PROVE TypeOK'
  <2>1. "srvFetch" \in ThreadPc(a) /\ "fpProtect" \in ThreadPc(a)
    BY DEF ThreadPc, ServePc, FetchPc, Server
  <2>2. RpcType'
    <3>1. CASE pc' = [pc EXCEPT ![a] = "fpProtect"] /\ UNCHANGED <<op, rpcVars>>
      BY <3>1, <2>1, <1>b, <1>d
    <3>2. CASE \E c \in Call : call(a, "srvFetch", c, owner, "fetch_rd", requester(a))
      BY <3>2, <2>1, <1>a, <1>b, <1>c, CallType DEF Op
    <3> QED BY <3>1, <3>2, <1>19 DEF serv_rd_rq
  <2>3. /\ infoLock' = a /\ copyset' = copyset_with(requester(a))
        /\ UNCHANGED <<buf, todo, perm, mem, pageLock, owner, latest>>
    BY <1>19 DEF serv_rd_rq
  <2>4. copyset_with(requester(a)) \subseteq copyset \cup {requester(a)}
    BY DEF copyset_with
  <2>5. requester(a) \in Node
    BY <1>b, <1>c
  <2>6. copyset' \in SUBSET Node
    BY <2>3, <2>4, <2>5
  <2> QED BY <2>2, <2>3, <2>6
<1>20. ASSUME NEW a \in Server, serv_wr_rq(a) PROVE TypeOK'
  <2>1. "srvFetch" \in ThreadPc(a) /\ "fpProtect" \in ThreadPc(a)
          /\ "srvInval" \in ThreadPc(a)
    BY DEF ThreadPc, ServePc, FetchPc, Server
  <2>2. RpcType'
    <3>1. CASE pc' = [pc EXCEPT ![a] = "fpProtect"] /\ UNCHANGED <<op, rpcVars>>
      BY <3>1, <2>1, <1>b, <1>d
    <3>2. CASE \E c \in Call : call(a, "srvFetch", c, owner, "fetch_none", requester(a))
      BY <3>2, <2>1, <1>a, <1>b, <1>c, CallType DEF Op
    <3>3. CASE pc' = [pc EXCEPT ![a] = "srvInval"] /\ UNCHANGED <<op, rpcVars>>
      BY <3>3, <2>1, <1>b, <1>d
    <3> QED BY <3>1, <3>2, <3>3, <1>20 DEF serv_wr_rq
  <2> QED BY <1>20, <2>2, <1>b, <1>c DEF serv_wr_rq, ivld_set
<1>21. ASSUME NEW a \in Server, serv_rd_rq_own(a) PROVE TypeOK'
  <2>1. served(a) \in ThreadPc(a)
    BY <1>b DEF served, ThreadPc, AppPc, CallPc, Server
  <2> QED BY <1>21, <2>1, <1>b, <1>d DEF serv_rd_rq_own, left_access, release_locks, Perm
<1>22. ASSUME NEW a \in Server, serv_wr_rq_own(a) PROVE TypeOK'
  <2>1. "srvInval" \in ThreadPc(a)
    BY DEF ThreadPc, ServePc, Server
  <2> QED BY <1>22, <2>1, <1>b, <1>d DEF serv_wr_rq_own, left_access, Perm
<1>23. ASSUME NEW a \in Server, serv_rd_rq_fetched(a) PROVE TypeOK'
  <2>1. served(a) \in ThreadPc(a)
    BY <1>b DEF served, ThreadPc, AppPc, CallPc, Server
  <2>2. PICK c \in Call : call_returns(a, served(a), c)
          /\ buf' = [buf EXCEPT ![a] = page_contents(c), ![c] = Empty]
    BY <1>23 DEF serv_rd_rq_fetched
  <2>4. RpcType'
    BY <1>a, <1>b, <2>1, <2>2, HangUpType DEF call_returns
  <2> QED BY <1>23, <2>2, <2>4, <1>b DEF serv_rd_rq_fetched, page_contents, release_locks
<1>24. ASSUME NEW a \in Server, serv_wr_rq_fetched(a) PROVE TypeOK'
  <2>1. "srvInval" \in ThreadPc(a)
    BY DEF ThreadPc, ServePc, Server
  <2>2. PICK c \in Call : call_returns(a, "srvInval", c)
          /\ buf' = [buf EXCEPT ![a] = page_contents(c), ![c] = Empty]
    BY <1>24 DEF serv_wr_rq_fetched
  <2>4. RpcType'
    BY <1>a, <1>b, <2>1, <2>2, HangUpType DEF call_returns
  <2> QED BY <1>24, <2>2, <2>4, <1>b DEF serv_wr_rq_fetched, page_contents
<1>25. ASSUME NEW a \in Server, NEW o \in {"rd", "wr"}, serv_rq_call_failed(a, o)
      PROVE TypeOK'
  <2>1. retried(a) \in ThreadPc(a)
    BY DEF retried, ThreadPc, ServePc, Server
  <2>2. PICK c \in Call : call_fails(a, retried(a), c)
    BY <1>25 DEF serv_rq_call_failed
  <2>4. RpcType' /\ buf' \in [Thread -> Data \cup {Empty}]
    BY <1>b, <2>1, <2>2, CallFailsType
  <2> QED BY <1>25, <2>4, <1>b DEF serv_rq_call_failed, release_locks
<1>26. ASSUME NEW a \in Server, send_invalidations(a) PROVE TypeOK'
  <2>1. PICK n \in Node, c \in Call : call(a, "srvAck", c, n, "inval", requester(a))
    BY <1>26, <1>b DEF send_invalidations
  <2>2. "srvAck" \in ThreadPc(a)
    BY DEF ThreadPc, ServePc, Server
  <2>3. RpcType'
    BY <1>a, <1>b, <1>c, <2>1, <2>2, CallType DEF Op
  <2> QED BY <1>26, <2>3 DEF send_invalidations
<1>27. ASSUME NEW a \in Server, send_invalidations_ok(a) PROVE TypeOK'
  <2>1. PICK c \in Call : call_returns(a, "srvInval", c)
          /\ todo' = [todo EXCEPT ![a] = ivld_left(a, dst[c])]
    BY <1>27 DEF send_invalidations_ok
  <2>2. "srvInval" \in ThreadPc(a)
    BY DEF ThreadPc, ServePc, Server
  <2>3. RpcType'
    BY <1>a, <1>b, <2>1, <2>2, HangUpType DEF call_returns
  <2> QED BY <1>27, <1>b, <2>1, <2>3 DEF send_invalidations_ok, ivld_left
<1>28. ASSUME NEW a \in Server, send_invalidations_failed(a) PROVE TypeOK'
  <2>1. PICK c \in Call : call_fails(a, "srvInval", c)
    BY <1>28 DEF send_invalidations_failed
  <2>2. "srvInval" \in ThreadPc(a)
    BY DEF ThreadPc, ServePc, Server
  <2>3. RpcType' /\ buf' \in [Thread -> Data \cup {Empty}]
    BY <1>b, <2>1, <2>2, CallFailsType
  <2> QED BY <1>28, <2>3 DEF send_invalidations_failed
<1>29. ASSUME NEW a \in Server, serv_wr_rq_grant(a) PROVE TypeOK'
  <2>1. served(a) \in ThreadPc(a)
    BY <1>b DEF served, ThreadPc, AppPc, CallPc, Server
  <2> QED BY <1>29, <2>1, <1>b, <1>c, <1>d DEF serv_wr_rq_grant, release_locks
<1> HIDE DEF TypeOK
<1> QED
  BY <1>1, <1>2, <1>3, <1>4, <1>5, <1>6, <1>7, <1>8, <1>9, <1>10, <1>11, <1>12,
     <1>13, <1>14, <1>15, <1>16, <1>17, <1>18, <1>19, <1>20, <1>21, <1>23, <1>24,
     <1>25, <1>26, <1>27, <1>28, <1>29, <1>22
  DEF Next, HandlerStep, CallStep, ServerStep, rd_fault_hdlr, wr_fault_hdlr,
      serv_rd_rq_lock, serv_wr_rq_lock, serv_rd_rq_call_failed, serv_wr_rq_call_failed

-----------------------------------------------------------------------------
(***************************************************************************)
(* Calls and their callers.                                                *)
(***************************************************************************)
\* A thread that waits for an answer.
Calling == {"wait", "srvFetch", "srvAck"}

\* The variables of the RPC layer are functions on the right domains.
RpcTyped ==
    /\ pc \in [Thread -> Pc] /\ op \in [Thread -> Op]
    /\ from \in [Call -> Thread \cup {NoOne}]
    /\ dst \in [Call -> Node] /\ req \in [Call -> Node]

\* Program threads of workers and server threads make up all threads.
LEMMA ThreadSplit ==
    /\ Thread = Server \cup Worker /\ Server \cap Worker = {}
    /\ NoOne \notin Thread /\ Manager \in Node
    /\ Call \subseteq Server /\ Manager \notin Call
  BY NodeAssumption, CallAssumption DEF Thread, Server, Worker, Manager

\* A step of a thread that waits for no call leaves the waiting as it is.
LEMMA CallersMove ==
    ASSUME RpcTyped, Callers, NEW a \in Thread, pc[a] \notin Calling,
           \A b \in Thread \ {a} : pc'[b] = pc[b] /\ op'[b] = op[b],
           a \in Call => op'[a] = op[a], UNCHANGED rpcVars
    PROVE  Callers'
<1> USE DEF Callers, rpcVars, Calling
<1>1. \A c \in Call : op'[c] = op[c]
  BY DEF Thread
<1>2. \A c \in Call : from[c] \in Server \cup Worker => from[c] \in Thread /\ from[c] # a
  BY ThreadSplit
<1> QED BY <1>1, <1>2

\* A new call gets its caller as the one thread that waits for it.
LEMMA CallersCall ==
    ASSUME RpcTyped, Callers, NEW a \in Thread, pc[a] \notin Calling \cup {"free"},
           NEW next, NEW c \in Call, NEW n, NEW fn, NEW who,
           call(a, next, c, n, fn, who),
           fn \in Serve => n = Manager,
           a \in Server => (next = "srvFetch" /\ fn \in Fetch) \/ next = "srvAck",
           a \in Worker => next = "wait" /\ fn = op[a] /\ who = a
    PROVE  Callers'
<1>1. a # c /\ a # NoOne
  BY ThreadSplit DEF call
<1>2. \A d \in Call : from[d] # a
  BY ThreadSplit DEF Callers, Calling
<1>3. \A d \in Call : from[d] \in Server \cup Worker => from[d] # c
  BY DEF Callers, call
<1>4. /\ pc' = [pc EXCEPT ![a] = next, ![c] = "sent"]
      /\ op' = [op EXCEPT ![c] = fn]
      /\ from' = [from EXCEPT ![c] = a]
      /\ dst' = [dst EXCEPT ![c] = n]
      /\ req' = [req EXCEPT ![c] = who]
  BY DEF call
<1>5. \A d \in Call \ {c} : from'[d] = from[d] /\ op'[d] = op[d] /\ dst'[d] = dst[d]
        /\ req'[d] = req[d]
  BY <1>4 DEF RpcTyped, Thread
<1>6. from'[c] = a /\ op'[c] = fn /\ dst'[c] = n /\ req'[c] = who /\ pc'[a] = next
  BY <1>1, <1>4 DEF RpcTyped, Thread
<1>7. \A b \in Thread \ {a, c} : pc'[b] = pc[b] /\ op'[b] = op[b]
  BY <1>4 DEF RpcTyped
<1>8. op'[a] = op[a]
  BY <1>4, <1>1 DEF RpcTyped
<1> QED
  BY <1>1, <1>2, <1>3, <1>5, <1>6, <1>7, <1>8, ThreadSplit DEF Callers

\* A caller that has its answer, or an orphan that has none, is forgotten.
LEMMA CallersHangUp ==
    ASSUME RpcTyped, Callers, NEW a \in Thread, NEW next, NEW c \in Call,
           pc[c] \in {"sent", "done", "killed"}, from[c] \in {a, NoOne},
           from[c] = NoOne => a = c, hang_up(a, next, c)
    PROVE  Callers'
<1>1. \A d \in Call \ {c} : from[d] # a /\ from[d] # c
  BY ThreadSplit DEF Callers
<1>2. /\ pc' = [pc EXCEPT ![a] = next, ![c] = "free"]
      /\ op' = [op EXCEPT ![c] = "rd"]
      /\ from' = [from EXCEPT ![c] = NoOne]
      /\ dst' = [dst EXCEPT ![c] = Manager]
      /\ req' = [req EXCEPT ![c] = Manager]
  BY DEF hang_up
<1>3. \A d \in Call \ {c} : from'[d] = from[d] /\ op'[d] = op[d] /\ dst'[d] = dst[d]
        /\ req'[d] = req[d]
  BY <1>2 DEF RpcTyped, Thread
<1>4. from'[c] = NoOne /\ dst'[c] = Manager
  BY <1>2 DEF RpcTyped
<1>5. \A b \in Thread \ {a, c} : pc'[b] = pc[b] /\ op'[b] = op[b]
  BY <1>2 DEF RpcTyped
<1> QED
  BY <1>1, <1>3, <1>4, <1>5, ThreadSplit DEF Callers

\* The caller of a call that failed waits no more.
LEMMA CallersFail ==
    ASSUME RpcTyped, Callers, NEW a \in Thread, NEW next, NEW c \in Call,
           call_fails(a, next, c)
    PROVE  Callers'
<1>1. CASE pc[c] \in {"sent", "done", "killed"} /\ hang_up(a, next, c)
  BY <1>1, CallersHangUp, ThreadSplit DEF call_fails
<1>2. CASE /\ pc' = [pc EXCEPT ![a] = next]
           /\ from' = [from EXCEPT ![c] = NoOne]
           /\ UNCHANGED <<op, dst, req>>
  <2>1. \A d \in Call \ {c} : from[d] # a
    BY ThreadSplit DEF Callers, call_fails
  <2>2. \A d \in Call \ {c} : from'[d] = from[d]
    BY <1>2 DEF RpcTyped
  <2>3. from'[c] = NoOne
    BY <1>2 DEF RpcTyped
  <2>4. \A b \in Thread \ {a} : pc'[b] = pc[b]
    BY <1>2 DEF RpcTyped
  <2> QED BY <1>2, <2>1, <2>2, <2>3, <2>4, ThreadSplit DEF Callers
<1> QED BY <1>1, <1>2 DEF call_fails

\* The callers in a process that was killed wait no more.
LEMMA CallersKilled ==
    ASSUME RpcTyped, Callers, NEW n \in Node, killed_by_signal(n)
    PROVE  Callers'
<1>1. /\ pc' = [a \in Thread |-> IF home(a) = n /\ pc[a] # "free" THEN "killed" ELSE pc[a]]
      /\ from' = [c \in Call |->
                   IF from[c] # NoOne /\ home(from[c]) = n THEN NoOne ELSE from[c]]
      /\ UNCHANGED <<op, dst, req>>
  BY DEF killed_by_signal
<1>2. \A c \in Call : from'[c] # NoOne => from'[c] = from[c] /\ home(from[c]) # n
  BY <1>1, ThreadSplit DEF RpcTyped
<1>3. \A a \in Thread : home(a) # n => pc'[a] = pc[a]
  BY <1>1
<1> QED BY <1>1, <1>2, <1>3, ThreadSplit DEF Callers

\* Every step keeps callers and calls paired.
LEMMA CallersStep ==
    ASSUME TypeOK, Callers, Pages, Next PROVE Callers'
<1> USE ThreadSplit
<1>a. RpcTyped
  BY DEF TypeOK, RpcTyped
<1>b. \A n \in Node : n \in Thread
  BY DEF Thread
<1> USE DEF RpcTyped
<1>1. ASSUME NEW n \in Node, Load(n) \/ Store(n) \/ sigaction_hdlr(n) PROVE Callers'
  <2>1. pc[n] \notin Calling
    BY <1>1 DEF Load, Store, sigaction_hdlr, Accesses, Calling
  <2>2. UNCHANGED rpcVars
    BY <1>1 DEF Load, Store, sigaction_hdlr
  <2>3. \A b \in Thread \ {n} : pc'[b] = pc[b] /\ op'[b] = op[b]
    BY <1>1, <1>a DEF Load, Store, sigaction_hdlr
  <2>4. n \notin Call
    BY CallAssumption
  <2> QED BY <1>a, <1>b, <2>1, <2>2, <2>3, <2>4, CallersMove
<1>2. ASSUME NEW n \in Node, NEW fn \in Serve, ask_manager(n, fn) PROVE Callers'
  <2>1. n \in Worker
    BY <1>2, <1>b, CallAssumption
      DEF ask_manager, TypeOK, ThreadPc, AppPc, ServePc, FetchPc, Worker
  <2>2. pc[n] = "lock" /\ op[n] = fn /\ \E c \in Call : call(n, "wait", c, Manager, fn, n)
    BY <1>2 DEF ask_manager
  <2> QED BY <1>a, <1>b, <2>1, <2>2, CallersCall DEF Calling
<1>3. ASSUME NEW n \in Node, fault_hdlr_reply(n) \/ fault_hdlr_backoff(n) PROVE Callers'
  BY <1>a, <1>b, <1>3, CallersHangUp, CallersFail
    DEF fault_hdlr_reply, fault_hdlr_backoff, call_returns
<1>4. ASSUME
        NEW n \in Node, open_page(n) \/ get_rd_page_copy(n) \/ get_rd_page_protect(n)
                \/ get_wr_page_copy(n) PROVE Callers'
  <2>1. pc[n] \notin Calling /\ UNCHANGED <<op, rpcVars>>
          /\ \A b \in Thread \ {n} : pc'[b] = pc[b]
    BY <1>a, <1>4
      DEF open_page, get_rd_page_copy, get_rd_page_protect, get_wr_page_copy, Calling
  <2> QED BY <1>a, <1>b, <2>1, CallersMove
<1>5. ASSUME NEW n \in Node, killed_by_signal(n) PROVE Callers'
  BY <1>a, <1>5, CallersKilled
<1>6. ASSUME NEW c \in Call, discard_reply(c) PROVE Callers'
  BY <1>a, <1>6, CallersHangUp DEF discard_reply
<1>7. ASSUME
        NEW c \in Call, fetch_pg_lock(c) \/ fetch_pg_answer(c)
                \/ invalidate_adapter(c) PROVE Callers'
  <2>1. pc[c] \notin Calling /\ UNCHANGED <<op, rpcVars>>
          /\ \A b \in Thread \ {c} : pc'[b] = pc[b]
    BY <1>a, <1>7 DEF fetch_pg_lock, fetch_pg_answer, invalidate_adapter, Calling
  <2> QED BY <1>a, <2>1, CallersMove
<1>8. ASSUME NEW a \in Server, NEW o, serv_rq_lock(a, o) PROVE Callers'
  <2>1. pc[a] \notin Calling /\ UNCHANGED <<op, rpcVars>>
          /\ \A b \in Thread \ {a} : pc'[b] = pc[b]
    BY <1>a, <1>8 DEF serv_rq_lock, Calling
  <2> QED BY <1>a, <2>1, CallersMove
<1>9. ASSUME
        NEW a \in Server, fetch_pg_protect(a) \/ read_page(a) \/ serv_rd_rq_own(a)
                \/ serv_wr_rq_own(a) \/ serv_wr_rq_grant(a)
      PROVE  Callers'
  <2>1. pc[a] \notin Calling /\ UNCHANGED <<op, rpcVars>>
          /\ \A b \in Thread \ {a} : pc'[b] = pc[b]
    BY <1>a, <1>9
      DEF fetch_pg_protect, read_page, serv_rd_rq_own, serv_wr_rq_own, serv_wr_rq_grant,
                 Calling
  <2> QED BY <1>a, <2>1, CallersMove
<1>10. ASSUME
        NEW a \in Server, serv_rd_rq(a) \/ serv_wr_rq(a) \/ send_invalidations(a)
              PROVE Callers'
  <2>1. pc[a] \notin Calling \cup {"free"}
    BY <1>10 DEF serv_rd_rq, serv_wr_rq, send_invalidations, Calling
  <2>2. CASE \E x : pc' = [pc EXCEPT ![a] = x] /\ UNCHANGED <<op, rpcVars>>
    BY <1>a, <2>1, <2>2, CallersMove
  <2>3. CASE \E c \in Call : \E n : call(a, "srvFetch", c, n, "fetch_rd", requester(a))
    BY <1>a, <2>1, <2>3, CallersCall DEF Fetch, Serve
  <2>4. CASE \E c \in Call : \E n : call(a, "srvFetch", c, n, "fetch_none", requester(a))
    BY <1>a, <2>1, <2>4, CallersCall DEF Fetch, Serve
  <2>5. CASE \E c \in Call : \E n : call(a, "srvAck", c, n, "inval", requester(a))
    BY <1>a, <2>1, <2>5, CallersCall DEF Serve
  <2> QED BY <1>10, <2>2, <2>3, <2>4, <2>5 DEF serv_rd_rq, serv_wr_rq, send_invalidations
<1>11. ASSUME NEW a \in Server,
              serv_rd_rq_fetched(a) \/ serv_wr_rq_fetched(a) \/ send_invalidations_ok(a)
       PROVE  Callers'
  BY <1>a, <1>11, CallersHangUp
    DEF serv_rd_rq_fetched, serv_wr_rq_fetched, send_invalidations_ok, call_returns
<1>12. ASSUME NEW a \in Server,
        NEW o, serv_rq_call_failed(a, o) \/ send_invalidations_failed(a) PROVE Callers'
  BY <1>a, <1>12, CallersFail DEF serv_rq_call_failed, send_invalidations_failed
<1> QED
  BY <1>1, <1>2, <1>3, <1>4, <1>5, <1>6, <1>7, <1>8, <1>9, <1>10, <1>11, <1>12
  DEF Next, HandlerStep, CallStep, ServerStep, rd_fault_hdlr, wr_fault_hdlr, Serve,
      serv_rd_rq_lock, serv_wr_rq_lock, serv_rd_rq_call_failed, serv_wr_rq_call_failed

-----------------------------------------------------------------------------
(***************************************************************************)
(* The page in transit.                                                    *)
(***************************************************************************)
\* The variables that contents of the page pass through, typed.
Bufs == RpcTyped /\ buf \in [Thread -> Data \cup {Empty}] /\ mem \in [Node -> Data]

\* A step that touches the state of one thread only has that thread to check.
LEMMA PagesMove ==
    ASSUME Pages, NEW a \in Thread,
           \A b \in Thread \ {a} : pc'[b] = pc[b] /\ op'[b] = op[b] /\ buf'[b] = buf[b],
           Paged(a)'
    PROVE  Pages'
  BY DEF Pages, Paged

\* Making a call moves no page.
LEMMA PagesCall ==
    ASSUME Bufs, Pages, NEW a \in Thread, NEW next \in Calling, NEW c \in Call,
           NEW n, NEW fn, NEW who, call(a, next, c, n, fn, who), buf' = buf,
           pc[a] # "free", next = "srvAck" => op[a] = "wr"
    PROVE  Pages'
<1>1. pc' = [pc EXCEPT ![a] = next, ![c] = "sent"] /\ op' = [op EXCEPT ![c] = fn]
  BY DEF call
<1>2. a # c
  BY DEF call
<1>3. pc'[a] = next /\ pc'[c] = "sent" /\ op'[a] = op[a]
  BY <1>1, <1>2 DEF Bufs, RpcTyped, Thread
<1>4. \A b \in Thread \ {a, c} : pc'[b] = pc[b] /\ op'[b] = op[b]
  BY <1>1 DEF Bufs, RpcTyped
<1> QED BY <1>3, <1>4 DEF Pages, Paged, Calling, FetchPc

\* An answer moves from the call to its caller.
LEMMA PagesHangUp ==
    ASSUME Bufs, Pages, NEW a \in Thread, NEW c \in Call, a # c, NEW v,
           NEW next \in {"protect", "done", "srvInval", "lock", "srvLock"},
           hang_up(a, next, c), buf' = [buf EXCEPT ![a] = v, ![c] = Empty],
           next \in {"protect", "done"} => (op[a] = "wr" \/ v # Empty),
           next = "srvInval" => op[a] = "wr"
    PROVE  Pages'
<1>1. /\ pc' = [pc EXCEPT ![a] = next, ![c] = "free"]
      /\ op' = [op EXCEPT ![c] = "rd"]
  BY DEF hang_up
<1>2. pc'[a] = next /\ pc'[c] = "free" /\ buf'[a] = v /\ op'[a] = op[a]
  BY <1>1 DEF Bufs, RpcTyped, Thread
<1>3. \A b \in Thread \ {a, c} : pc'[b] = pc[b] /\ op'[b] = op[b] /\ buf'[b] = buf[b]
  BY <1>1 DEF Bufs, RpcTyped
<1> QED
  BY <1>2, <1>3 DEF Pages, Paged, Fetch, FetchPc

\* A failed call hands over nothing.
LEMMA PagesFail ==
    ASSUME Bufs, Callers, Pages, NEW a \in Thread, NEW c \in Call,
           NEW next \in {"srvInval", "lock", "srvLock"},
           call_fails(a, next, c), pc[a] \in Calling,
           next = "srvInval" => op[a] = "wr"
    PROVE  Pages'
<1>1. CASE hang_up(a, next, c) /\ pc[c] \in {"sent", "done", "killed"}
        /\ buf' = [buf EXCEPT ![c] = Empty]
  <2>1. a # c
    BY <1>1 DEF Calling
  <2>2. pc'[a] = next /\ pc'[c] = "free" /\ op'[a] = op[a] /\ buf'[a] = buf[a]
    BY <1>1, <2>1 DEF hang_up, Bufs, RpcTyped, Thread
  <2>3. \A b \in Thread \ {a, c} : pc'[b] = pc[b] /\ op'[b] = op[b] /\ buf'[b] = buf[b]
    BY <1>1 DEF hang_up, Bufs, RpcTyped
  <2> QED BY <2>2, <2>3 DEF Pages, Paged, Fetch, FetchPc
<1>2. CASE pc' = [pc EXCEPT ![a] = next] /\ UNCHANGED <<op, buf, dst, req>>
  BY <1>2, PagesMove DEF Bufs, RpcTyped, Pages, Paged, FetchPc
<1> QED BY <1>1, <1>2 DEF call_fails

\* Every step keeps a page in the hands of those that must have one.
LEMMA PagesStep ==
    ASSUME TypeOK, Callers, Pages, Next PROVE Pages'
<1> USE ThreadSplit
<1>a. Bufs
  BY DEF TypeOK, Bufs, RpcTyped
<1>b. \A n \in Node : n \in Thread
  BY DEF Thread
<1> USE DEF Bufs, RpcTyped, Paged
<1>1. ASSUME NEW n \in Node, Load(n) PROVE Pages'
  <2>1. Paged(n)'
    BY <1>a, <1>b, <1>1 DEF Load
  <2> QED BY <1>a, <1>b, <1>1, <2>1, PagesMove DEF Load
<1>2. ASSUME NEW n \in Node, Store(n) PROVE Pages'
  <2>1. Paged(n)'
    BY <1>a, <1>b, <1>2 DEF Store
  <2> QED BY <1>a, <1>b, <1>2, <2>1, PagesMove DEF Store
<1>3. ASSUME NEW n \in Node, sigaction_hdlr(n) PROVE Pages'
  <2>1. Paged(n)'
    BY <1>a, <1>b, <1>3 DEF sigaction_hdlr
  <2> QED BY <1>a, <1>b, <1>3, <2>1, PagesMove DEF sigaction_hdlr
<1>4. ASSUME NEW n \in Node, NEW fn, ask_manager(n, fn) PROVE Pages'
  BY <1>a, <1>b, <1>4, PagesCall DEF ask_manager, Calling
<1>5. ASSUME NEW n \in Node, fault_hdlr_reply(n) PROVE Pages'
  <2>1. PICK c \in Call : call_returns(n, "protect", c)
          /\ buf' = [buf EXCEPT ![n] = buf[c], ![c] = Empty]
    BY <1>5 DEF fault_hdlr_reply
  <2>2. n \in Worker
    BY <1>5, <2>1, <1>b DEF fault_hdlr_reply, call_returns, Callers
  <2>3. op[n] = "wr" \/ buf[c] # Empty
    BY <1>5, <2>1, <2>2, <1>b DEF fault_hdlr_reply, call_returns, Callers, Pages, TypeOK
  <2>4. n # c
    BY <1>5, <2>1 DEF fault_hdlr_reply, call_returns
  <2> QED BY <1>a, <1>b, <2>1, <2>3, <2>4, PagesHangUp DEF call_returns
<1>6. ASSUME NEW n \in Node, fault_hdlr_backoff(n) PROVE Pages'
  BY <1>a, <1>b, <1>6, PagesFail DEF fault_hdlr_backoff, Calling
<1>7. ASSUME NEW n \in Node, open_page(n) PROVE Pages'
  <2>1. Paged(n)'
    BY <1>a, <1>b, <1>7 DEF open_page, Pages, FetchPc
  <2> QED BY <1>a, <1>b, <1>7, <2>1, PagesMove DEF open_page
<1>8. ASSUME NEW n \in Node, get_rd_page_copy(n) PROVE Pages'
  <2>1. Paged(n)'
    BY <1>a, <1>b, <1>8 DEF get_rd_page_copy
  <2> QED BY <1>a, <1>b, <1>8, <2>1, PagesMove DEF get_rd_page_copy
<1>9. ASSUME NEW n \in Node, get_rd_page_protect(n) PROVE Pages'
  <2>1. Paged(n)'
    BY <1>a, <1>b, <1>9 DEF get_rd_page_protect, FetchPc
  <2> QED BY <1>a, <1>b, <1>9, <2>1, PagesMove DEF get_rd_page_protect
<1>10. ASSUME NEW n \in Node, get_wr_page_copy(n) PROVE Pages'
  <2>1. Paged(n)'
    BY <1>a, <1>b, <1>10 DEF get_wr_page_copy
  <2> QED BY <1>a, <1>b, <1>10, <2>1, PagesMove DEF get_wr_page_copy
<1>11. ASSUME NEW n \in Node, killed_by_signal(n) PROVE Pages'
  BY <1>a, <1>11 DEF killed_by_signal, Pages, FetchPc
<1>12. ASSUME NEW c \in Call, discard_reply(c) PROVE Pages'
  BY <1>a, <1>12, PagesMove DEF discard_reply, hang_up, Thread
<1>13. ASSUME NEW c \in Call, fetch_pg_lock(c) PROVE Pages'
  BY <1>a, <1>13, PagesMove DEF fetch_pg_lock, Thread
<1>14. ASSUME NEW c \in Call, fetch_pg_answer(c) PROVE Pages'
  BY <1>a, <1>14, PagesMove DEF fetch_pg_answer, Thread, Pages
<1>15. ASSUME NEW c \in Call, invalidate_adapter(c) PROVE Pages'
  BY <1>a, <1>15, PagesMove DEF invalidate_adapter, Thread, Fetch, FetchPc
<1>16. ASSUME NEW a \in Server, fetch_pg_protect(a) PROVE Pages'
  BY <1>a, <1>16, PagesMove DEF fetch_pg_protect, FetchPc, Pages
<1>17. ASSUME NEW a \in Server, read_page(a) PROVE Pages'
  <2>1. mem[home(a)] # Empty
    BY DataAssumption DEF home, TypeOK, Thread
  <2> QED BY <2>1, <1>a, <1>17, PagesMove DEF read_page, FetchPc, Pages
<1>18. ASSUME NEW a \in Server, NEW o, serv_rq_lock(a, o) PROVE Pages'
  BY <1>a, <1>18, PagesMove DEF serv_rq_lock, FetchPc
<1>19. ASSUME NEW a \in Server, serv_rd_rq(a) PROVE Pages'
  <2>1. CASE pc' = [pc EXCEPT ![a] = "fpProtect"] /\ UNCHANGED <<op, rpcVars>>
    BY <1>a, <1>19, <2>1, PagesMove DEF serv_rd_rq
  <2>2. CASE \E c \in Call : call(a, "srvFetch", c, owner, "fetch_rd", requester(a))
    BY <1>a, <1>19, <2>2, PagesCall DEF serv_rd_rq, Calling
  <2> QED BY <1>19, <2>1, <2>2 DEF serv_rd_rq
<1>20. ASSUME NEW a \in Server, serv_wr_rq(a) PROVE Pages'
  <2>1. CASE pc' = [pc EXCEPT ![a] = "fpProtect"] /\ UNCHANGED <<op, rpcVars>>
    BY <1>a, <1>20, <2>1, PagesMove DEF serv_wr_rq
  <2>2. CASE \E c \in Call : call(a, "srvFetch", c, owner, "fetch_none", requester(a))
    BY <1>a, <1>20, <2>2, PagesCall DEF serv_wr_rq, Calling
  <2>3. CASE pc' = [pc EXCEPT ![a] = "srvInval"] /\ UNCHANGED <<op, rpcVars>>
    BY <1>a, <1>20, <2>3, PagesMove DEF serv_wr_rq
  <2> QED BY <1>20, <2>1, <2>2, <2>3 DEF serv_wr_rq
<1>21. ASSUME NEW a \in Server, serv_rd_rq_own(a) PROVE Pages'
  BY <1>a, <1>21, PagesMove DEF serv_rd_rq_own, served, Pages
<1>22. ASSUME NEW a \in Server, serv_wr_rq_own(a) PROVE Pages'
  BY <1>a, <1>22, PagesMove DEF serv_wr_rq_own
<1>23. ASSUME NEW a \in Server, serv_rd_rq_fetched(a) PROVE Pages'
  <2>1. PICK c \in Call : call_returns(a, served(a), c)
          /\ buf' = [buf EXCEPT ![a] = buf[c], ![c] = Empty]
    BY <1>23 DEF serv_rd_rq_fetched, page_contents
  <2>2. a # c /\ buf[c] # Empty
    BY <1>23, <2>1 DEF serv_rd_rq_fetched, call_returns, Callers, Pages
  <2> QED BY <1>a, <2>1, <2>2, PagesHangUp DEF call_returns, served
<1>24. ASSUME NEW a \in Server, serv_wr_rq_fetched(a) PROVE Pages'
  <2>1. PICK c \in Call : call_returns(a, "srvInval", c)
          /\ buf' = [buf EXCEPT ![a] = buf[c], ![c] = Empty]
    BY <1>24 DEF serv_wr_rq_fetched, page_contents
  <2>2. a # c /\ op[a] = "wr"
    BY <1>24, <2>1 DEF serv_wr_rq_fetched, call_returns
  <2> QED BY <1>a, <2>1, <2>2, PagesHangUp DEF call_returns
<1>25. ASSUME NEW a \in Server, NEW o, serv_rq_call_failed(a, o) PROVE Pages'
  BY <1>a, <1>25, PagesFail DEF serv_rq_call_failed, retried, Calling
<1>26. ASSUME NEW a \in Server, send_invalidations(a) PROVE Pages'
  BY <1>a, <1>26, PagesCall DEF send_invalidations, Pages, Calling
<1>27. ASSUME NEW a \in Server, send_invalidations_ok(a) PROVE Pages'
  <2>1. PICK c \in Call : call_returns(a, "srvInval", c)
    BY <1>27 DEF send_invalidations_ok
  <2>2. a # c /\ op[a] = "wr" /\ buf' = buf
    BY <1>27, <2>1 DEF send_invalidations_ok, call_returns, Pages
  <2>3. QED BY <1>a, <2>1, <2>2 DEF call_returns, hang_up, Pages
<1>28. ASSUME NEW a \in Server, send_invalidations_failed(a) PROVE Pages'
  BY <1>a, <1>28, PagesFail DEF send_invalidations_failed, Pages, Calling
<1>29. ASSUME NEW a \in Server, serv_wr_rq_grant(a) PROVE Pages'
  BY <1>a, <1>29, PagesMove DEF serv_wr_rq_grant, served, Fetch, Pages
<1> QED
  BY <1>1, <1>2, <1>3, <1>4, <1>5, <1>6, <1>7, <1>8, <1>9, <1>10, <1>11, <1>12,
     <1>13, <1>14, <1>15, <1>16, <1>17, <1>18, <1>19, <1>20, <1>21, <1>22, <1>23,
     <1>24, <1>25, <1>26, <1>27, <1>28, <1>29
  DEF Next, HandlerStep, CallStep, ServerStep, rd_fault_hdlr, wr_fault_hdlr,
      serv_rd_rq_lock, serv_wr_rq_lock, serv_rd_rq_call_failed, serv_wr_rq_call_failed

(***************************************************************************)
(* Critical sections.                                                      *)
(***************************************************************************)
\* A step that touches no page lock may only end critical sections.
LEMMA LockKept ==
    ASSUME Locked, UNCHANGED pageLock,
           \A a \in Thread, n \in Node : Holds(a, n)' => Holds(a, n)
    PROVE  Locked'
  BY DEF Locked

\* wait_lock admits one thread, into a section nobody is in.
LEMMA LockTaken ==
    ASSUME TypeOK, Locked, NEW t \in Thread, NEW m \in Node, wait_lock(m, t),
           \A a \in Thread, n \in Node :
               Holds(a, n)' => Holds(a, n) \/ (a = t /\ n = m)
    PROVE  Locked'
<1>1. \A a \in Thread : ~Holds(a, m)
  BY ThreadSplit DEF Locked, wait_lock
<1>2. pageLock'[m] = t /\ \A n \in Node \ {m} : pageLock'[n] = pageLock[n]
  BY DEF wait_lock, TypeOK
<1> QED BY <1>1, <1>2 DEF Locked

\* A thread that unlocks leaves its critical section in the same step.
LEMMA LockReleased ==
    ASSUME TypeOK, Locked, NEW t \in Thread, NEW m \in Node, Holds(t, m),
           pageLock' = [pageLock EXCEPT ![m] = NoOne], ~Holds(t, m)',
           \A a \in Thread, n \in Node : Holds(a, n)' => Holds(a, n)
    PROVE  Locked'
<1>1. \A n \in Node \ {m} : pageLock'[n] = pageLock[n]
  BY DEF TypeOK
<1> QED BY <1>1 DEF Locked

\* A step of one thread only has that thread to check.
LEMMA HoldsMove ==
    ASSUME TypeOK, NEW a \in Thread,
           \A b \in Thread \ {a} : pc'[b] = pc[b] /\ op'[b] = op[b],
           UNCHANGED dst, \A n \in Node : Holds(a, n)' => Holds(a, n)
    PROVE  \A b \in Thread, n \in Node : Holds(b, n)' => Holds(b, n)
  BY DEF Holds, Serving

\* A returning call puts no thread into a critical section.
LEMMA HoldsHangUp ==
    ASSUME RpcTyped, NEW a \in Thread, NEW next, NEW c \in Call,
           hang_up(a, next, c), a # c => next \in {"lock", "srvLock", "protect", "done",
                      "srvInval"},
           next = "protect" /\ a \in Node => pc[a] = "wait" \/ a = Manager,
           next = "srvInval" => Serving(a)
    PROVE  \A b \in Thread, n \in Node : Holds(b, n)' => Holds(b, n)
<1>1. /\ pc' = [pc EXCEPT ![a] = next, ![c] = "free"]
      /\ op' = [op EXCEPT ![c] = "rd"]
      /\ dst' = [dst EXCEPT ![c] = Manager]
  BY DEF hang_up
<1>2. pc'[c] = "free" /\ (a # c => pc'[a] = next)
  BY <1>1 DEF RpcTyped, Thread
<1>3. \A b \in Thread \ {c} : (b \in Call => dst'[b] = dst[b]) /\ op'[b] = op[b]
  BY <1>1 DEF RpcTyped
<1>4. \A b \in Thread \ {a, c} : pc'[b] = pc[b]
  BY <1>1 DEF RpcTyped
<1>5. \A n : ~Holds(c, n)'
  BY <1>2, CallAssumption, ThreadSplit DEF Holds, Serving, FetchPc
<1>6. \A b \in Thread \ {a, c}, n \in Node : Holds(b, n)' => Holds(b, n)
  BY <1>3, <1>4 DEF Holds, Serving
<1>7. a # c => \A n \in Node : Holds(a, n)' => Holds(a, n)
  BY <1>2, <1>3, ThreadSplit DEF Holds, Serving, FetchPc, Worker
<1> QED BY <1>5, <1>6, <1>7

\* A call puts at most its caller, a fault handler, into a critical section.
LEMMA HoldsCall ==
    ASSUME RpcTyped, NEW a \in Thread, NEW next \in {"wait", "srvFetch", "srvAck"},
            NEW c \in Call,
           NEW m, NEW fn, NEW who, call(a, next, c, m, fn, who), pc[a] # "free",
           next # "wait" => Serving(a)
    PROVE  \A b \in Thread, n \in Node :
              Holds(b, n)' => Holds(b, n) \/ (next = "wait" /\ b = a /\ n = a
                      /\ n \in Worker)
<1>1. /\ pc' = [pc EXCEPT ![a] = next, ![c] = "sent"]
      /\ op' = [op EXCEPT ![c] = fn]
      /\ dst' = [dst EXCEPT ![c] = m]
  BY DEF call
<1>2. a # c /\ pc'[c] = "sent" /\ pc'[a] = next
  BY <1>1 DEF RpcTyped, Thread, call
<1>3. \A b \in Thread \ {c} : (b \in Call => dst'[b] = dst[b]) /\ op'[b] = op[b]
  BY <1>1 DEF RpcTyped
<1>4. \A b \in Thread \ {a, c} : pc'[b] = pc[b]
  BY <1>1 DEF RpcTyped
<1>5. \A n : ~Holds(c, n)'
  BY <1>2, CallAssumption, ThreadSplit DEF Holds, Serving, FetchPc
<1>6. \A b \in Thread \ {a, c}, n \in Node : Holds(b, n)' => Holds(b, n)
  BY <1>3, <1>4 DEF Holds, Serving
<1>7. \A n \in Node : Holds(a, n)' => Holds(a, n) \/ (next = "wait" /\ n = a
        /\ n \in Worker)
  BY <1>2, <1>3, ThreadSplit DEF Holds, Serving, FetchPc, Worker
<1> QED BY <1>5, <1>6, <1>7

\* A failed call puts no thread into a critical section.
LEMMA HoldsFail ==
    ASSUME RpcTyped, NEW a \in Thread, NEW next \in {"lock", "srvLock", "srvInval"},
            NEW c \in Call,
           call_fails(a, next, c), pc[a] \in Calling, next = "srvInval" => Serving(a)
    PROVE  \A b \in Thread, n \in Node : Holds(b, n)' => Holds(b, n)
<1>1. CASE hang_up(a, next, c)
  BY <1>1, HoldsHangUp
<1>2. CASE pc' = [pc EXCEPT ![a] = next] /\ UNCHANGED <<op, dst>>
  BY <1>2, ThreadSplit DEF Holds, Serving, FetchPc, RpcTyped
<1> QED BY <1>1, <1>2 DEF call_fails

\* The manager stays in its section when it turns to its own page or to the copies.
LEMMA LockedMove ==
    ASSUME TypeOK, Locked, NEW a \in Server, Serving(a), op[a] \in Serve,
           NEW next \in {"fpProtect", "srvInval"}, pc' = [pc EXCEPT ![a] = next],
           UNCHANGED <<op, rpcVars, pageLock>>
    PROVE  Locked'
<1>1. RpcTyped /\ a \in Thread
  BY ThreadSplit DEF TypeOK, RpcTyped
<1>2. \A b \in Thread \ {a} : pc'[b] = pc[b]
  BY <1>1 DEF RpcTyped
<1>3. \A n \in Node : Holds(a, n)' => Holds(a, n)
  BY <1>1, ThreadSplit DEF RpcTyped, Holds, Serving, Worker, Serve, Fetch
<1> QED BY <1>1, <1>2, <1>3, HoldsMove, LockKept DEF rpcVars

\* The manager stays in its section across the calls it makes.
LEMMA LockedCall ==
    ASSUME TypeOK, Locked, NEW a \in Server, Serving(a), UNCHANGED pageLock,
           NEW next \in {"srvFetch", "srvAck"}, NEW c \in Call, NEW m, NEW fn, NEW who,
           call(a, next, c, m, fn, who)
    PROVE  Locked'
<1>1. RpcTyped /\ a \in Thread /\ pc[a] # "free"
  BY ThreadSplit DEF TypeOK, RpcTyped, Serving, FetchPc
<1> QED BY <1>1, HoldsCall, LockKept

\* Every step keeps critical sections under their page lock.
LEMMA LockedStep ==
    ASSUME TypeOK, Callers, Pages, Locked, Next PROVE Locked'
<1> USE ThreadSplit
<1>a. RpcTyped
  BY DEF TypeOK, RpcTyped
<1>b. \A n \in Node : n \in Thread
  BY DEF Thread
<1> USE DEF RpcTyped, Holds, Serving
<1>1. ASSUME NEW n \in Node, Load(n) \/ Store(n) \/ sigaction_hdlr(n) PROVE Locked'
  <2>1. \A b \in Thread \ {n} : pc'[b] = pc[b] /\ op'[b] = op[b]
    BY <1>a, <1>1 DEF Load, Store, sigaction_hdlr
  <2>2. pc'[n] \in {"run", "srvLock", "lock"} /\ UNCHANGED <<dst, pageLock>>
    BY <1>a, <1>b, <1>1 DEF Load, Store, sigaction_hdlr, rpcVars
  <2>3. \A m \in Node : ~Holds(n, m)'
    BY <2>2 DEF FetchPc
  <2> QED BY <1>b, <2>1, <2>2, <2>3, HoldsMove, LockKept
<1>2. ASSUME NEW n \in Node, NEW fn \in Serve, ask_manager(n, fn) PROVE Locked'
  <2>1. PICK c \in Call : call(n, "wait", c, Manager, fn, n)
    BY <1>2 DEF ask_manager
  <2>2. pc[n] # "free" /\ wait_lock(n, n)
    BY <1>2 DEF ask_manager
  <2> HIDE DEF RpcTyped, Holds, Serving
  <2>3. \A b \in Thread, m \in Node : Holds(b, m)' => Holds(b, m) \/ (b = n /\ m = n)
    BY <1>a, <1>b, <2>1, <2>2, HoldsCall
  <2> QED BY <1>b, <2>2, <2>3, LockTaken
<1>3. ASSUME NEW n \in Node, fault_hdlr_reply(n) PROVE Locked'
  <2>1. PICK c \in Call : hang_up(n, "protect", c) /\ pc[n] = "wait" /\ UNCHANGED pageLock
    BY <1>3 DEF fault_hdlr_reply, call_returns
  <2> QED BY <1>a, <1>b, <2>1, HoldsHangUp, LockKept
<1>4. ASSUME NEW n \in Node, fault_hdlr_backoff(n) PROVE Locked'
  <2>1. PICK c \in Call : call_fails(n, "lock", c) /\ pc[n] = "wait"
    BY <1>4 DEF fault_hdlr_backoff
  <2>2. n \in Worker
    BY <2>1, <1>b, CallAssumption DEF TypeOK, ThreadPc, AppPc, ServePc, FetchPc, Worker
  <2>3. pc'[n] = "lock"
    BY <2>1, <1>a, <1>b, CallAssumption DEF call_fails, hang_up
  <2>4. ~Holds(n, n)' /\ Holds(n, n)
    BY <2>1, <2>2, <2>3, CallAssumption DEF FetchPc, Worker
  <2>5. pageLock' = [pageLock EXCEPT ![n] = NoOne]
    BY <1>4 DEF fault_hdlr_backoff
  <2> QED BY <1>a, <1>b, <2>1, <2>4, <2>5, HoldsFail, LockReleased DEF Calling
<1>5. ASSUME NEW n \in Node, open_page(n) \/ get_rd_page_copy(n) PROVE Locked'
  <2>1. \A b \in Thread \ {n} : pc'[b] = pc[b] /\ op'[b] = op[b]
    BY <1>a, <1>5 DEF open_page, get_rd_page_copy
  <2>2. pc[n] \in {"protect", "copy"} /\ pc'[n] \in {"copy", "settle"}
          /\ UNCHANGED <<op, dst, pageLock>>
    BY <1>a, <1>b, <1>5 DEF open_page, get_rd_page_copy, rpcVars
  <2>3. \A m \in Node : Holds(n, m)' => Holds(n, m)
    BY <2>2 DEF FetchPc
  <2> QED BY <1>b, <2>1, <2>2, <2>3, HoldsMove, LockKept
<1>6. ASSUME NEW n \in Node, get_rd_page_protect(n) \/ get_wr_page_copy(n) PROVE Locked'
  <2>1. \A b \in Thread \ {n} : pc'[b] = pc[b] /\ op'[b] = op[b]
    BY <1>a, <1>6 DEF get_rd_page_protect, get_wr_page_copy
  <2>2. pc[n] \in {"copy", "settle"} /\ pc'[n] = "retry" /\ UNCHANGED <<op, dst>>
          /\ hdlr_unlock(n)
    BY <1>a, <1>b, <1>6 DEF get_rd_page_protect, get_wr_page_copy, rpcVars
  <2>3. \A m \in Node : ~Holds(n, m)'
    BY <2>2 DEF FetchPc
  <2>4. CASE n = Manager
    BY <1>b, <2>1, <2>2, <2>3, <2>4, HoldsMove, LockKept DEF hdlr_unlock
  <2>5. CASE n # Manager
    <3>1. Holds(n, n)
      BY <2>2, <2>5 DEF Worker
    <3> QED BY <1>b, <2>1, <2>2, <2>3, <2>5, <3>1, HoldsMove, LockReleased DEF hdlr_unlock
  <2> QED BY <2>4, <2>5
<1>7. ASSUME NEW n \in Node, killed_by_signal(n) PROVE Locked'
  <2>1. \A a \in Thread : pc'[a] \in {pc[a], "killed"}
    BY <1>7 DEF killed_by_signal
  <2>2. \A a \in Thread, m \in Node : Holds(a, m)' => Holds(a, m)
    BY <1>7, <2>1 DEF killed_by_signal, FetchPc
  <2> QED BY <2>2, <1>7, LockKept DEF killed_by_signal
<1>8. ASSUME NEW c \in Call, discard_reply(c) PROVE Locked'
  BY <1>a, <1>8, HoldsHangUp, LockKept DEF discard_reply
<1>9. ASSUME NEW c \in Call, fetch_pg_lock(c) PROVE Locked'
  <2>1. \A b \in Thread \ {c} : pc'[b] = pc[b] /\ op'[b] = op[b]
    BY <1>a, <1>9 DEF fetch_pg_lock
  <2>2. op[c] \in Fetch /\ pc'[c] = "fpProtect" /\ UNCHANGED <<op, dst>>
          /\ wait_lock(dst[c], c) /\ dst[c] \in Node
    BY <1>a, <1>9 DEF fetch_pg_lock, rpcVars, Fetch, Thread
  <2>3. \A n \in Node : Holds(c, n)' => n = dst[c]
    BY <2>2, CallAssumption DEF Fetch, Serve
  <2>4. \A b \in Thread \ {c}, n \in Node : Holds(b, n)' => Holds(b, n)
    BY <2>1, <2>2
  <2> QED BY <1>a, <2>2, <2>3, <2>4, LockTaken
<1>10. ASSUME NEW c \in Call, fetch_pg_answer(c) PROVE Locked'
  <2>1. \A b \in Thread \ {c} : pc'[b] = pc[b] /\ op'[b] = op[b]
    BY <1>a, <1>10 DEF fetch_pg_answer
  <2>2. op[c] \in Fetch /\ pc[c] = "fpSet" /\ pc'[c] = "done" /\ UNCHANGED <<op, dst>>
          /\ dst[c] \in Node
        /\ pageLock' = [pageLock EXCEPT ![dst[c]] = NoOne]
    BY <1>a, <1>10 DEF fetch_pg_answer, rpcVars, Fetch, Thread
  <2>3. \A n \in Node : ~Holds(c, n)'
    BY <2>2, CallAssumption DEF Fetch, Serve, FetchPc
  <2>4. Holds(c, dst[c])
    BY <2>2 DEF FetchPc
  <2> QED BY <1>a, <2>1, <2>2, <2>3, <2>4, HoldsMove, LockReleased
<1>11. ASSUME NEW c \in Call, invalidate_adapter(c) PROVE Locked'
  <2>1. \A b \in Thread \ {c} : pc'[b] = pc[b] /\ op'[b] = op[b]
    BY <1>a, <1>11 DEF invalidate_adapter
  <2>2. pc'[c] = "done" /\ UNCHANGED <<op, dst, pageLock>>
    BY <1>a, <1>11 DEF invalidate_adapter, rpcVars
  <2>3. \A n \in Node : ~Holds(c, n)'
    BY <2>2, CallAssumption DEF FetchPc
  <2> QED BY <1>a, <2>1, <2>2, <2>3, HoldsMove, LockKept
<1>12. ASSUME NEW a \in Server, fetch_pg_protect(a) \/ read_page(a) PROVE Locked'
  <2>1. \A b \in Thread \ {a} : pc'[b] = pc[b] /\ op'[b] = op[b]
    BY <1>a, <1>12 DEF fetch_pg_protect, read_page
  <2>2. pc[a] \in FetchPc /\ pc'[a] \in {"fpRead", "fpSet"}
          /\ UNCHANGED <<op, dst, pageLock>>
    BY <1>a, <1>12 DEF fetch_pg_protect, read_page, rpcVars, FetchPc
  <2>3. \A n \in Node : Holds(a, n)' => Holds(a, n)
    BY <2>2, CallAssumption DEF FetchPc
  <2> QED BY <1>a, <2>1, <2>2, <2>3, HoldsMove, LockKept
<1>13. ASSUME NEW a \in Server, NEW o \in Serve, serv_rq_lock(a, o) PROVE Locked'
  <2>1. \A b \in Thread \ {a} : pc'[b] = pc[b] /\ op'[b] = op[b]
    BY <1>a, <1>13 DEF serv_rq_lock
  <2>2. op[a] \in Serve /\ pc'[a] = "srvInfo" /\ UNCHANGED <<op, dst>>
          /\ wait_lock(Manager, a)
    BY <1>a, <1>13 DEF serv_rq_lock, rpcVars
  <2>3. \A n \in Node : Holds(a, n)' => n = Manager
    BY <2>2 DEF FetchPc
  <2>4. \A b \in Thread \ {a}, n \in Node : Holds(b, n)' => Holds(b, n)
    BY <2>1, <2>2
  <2> QED BY <1>a, <2>2, <2>3, <2>4, LockTaken
<1>14. ASSUME NEW a \in Server, serv_rd_rq(a) PROVE Locked'
  <2>1. Serving(a) /\ op[a] \in Serve /\ UNCHANGED pageLock
    BY <1>14 DEF serv_rd_rq, Serve
  <2>2. CASE pc' = [pc EXCEPT ![a] = "fpProtect"] /\ UNCHANGED <<op, rpcVars>>
    BY <2>1, <2>2, LockedMove
  <2>3. CASE \E c \in Call : call(a, "srvFetch", c, owner, "fetch_rd", requester(a))
    BY <2>1, <2>3, LockedCall
  <2> HIDE DEF Holds, Serving
  <2> QED BY <1>14, <2>2, <2>3 DEF serv_rd_rq
<1>15. ASSUME NEW a \in Server, serv_wr_rq(a) PROVE Locked'
  <2>1. Serving(a) /\ op[a] \in Serve /\ UNCHANGED pageLock
    BY <1>15 DEF serv_wr_rq, Serve
  <2>2. CASE pc' = [pc EXCEPT ![a] = "fpProtect"] /\ UNCHANGED <<op, rpcVars>>
    BY <2>1, <2>2, LockedMove
  <2>3. CASE \E c \in Call : call(a, "srvFetch", c, owner, "fetch_none", requester(a))
    BY <2>1, <2>3, LockedCall
  <2>4. CASE pc' = [pc EXCEPT ![a] = "srvInval"] /\ UNCHANGED <<op, rpcVars>>
    BY <2>1, <2>4, LockedMove
  <2> HIDE DEF Holds, Serving
  <2> QED BY <1>15, <2>2, <2>3, <2>4 DEF serv_wr_rq
<1>16. ASSUME NEW a \in Server, send_invalidations(a) PROVE Locked'
  <2>1. PICK c \in Call, n \in Node : call(a, "srvAck", c, n, "inval", requester(a))
    BY <1>16 DEF send_invalidations, TypeOK
  <2>2. Serving(a) /\ UNCHANGED pageLock
    BY <1>16 DEF send_invalidations
  <2> QED BY <2>1, <2>2, LockedCall
<1>17. ASSUME NEW a \in Server, serv_rd_rq_own(a) \/ serv_wr_rq_grant(a) PROVE Locked'
  <2>1. \A b \in Thread \ {a} : pc'[b] = pc[b] /\ op'[b] = op[b]
    BY <1>a, <1>17 DEF serv_rd_rq_own, serv_wr_rq_grant
  <2>2. pc[a] \in {"fpSet", "srvInval"} /\ pc'[a] = served(a) /\ UNCHANGED <<op, dst>>
          /\ release_locks
    BY <1>a, <1>17 DEF serv_rd_rq_own, serv_wr_rq_grant, rpcVars
  <2>3. \A n \in Node : ~Holds(a, n)'
    BY <2>2, CallAssumption DEF FetchPc, served, Worker
  <2>4. Holds(a, Manager)
    BY <1>17 DEF FetchPc, serv_rd_rq_own, serv_wr_rq_grant, Serve
  <2>5. \A b \in Thread, n \in Node : Holds(b, n)' => Holds(b, n)
    BY <2>1, <2>2, <2>3, HoldsMove
  <2>6. pageLock' = [pageLock EXCEPT ![Manager] = NoOne]
    BY <2>2 DEF release_locks
  <2> HIDE DEF Holds
  <2> QED BY <2>3, <2>4, <2>5, <2>6, LockReleased
<1>18. ASSUME NEW a \in Server, serv_wr_rq_own(a) PROVE Locked'
  <2>1. \A b \in Thread \ {a} : pc'[b] = pc[b] /\ op'[b] = op[b]
    BY <1>a, <1>18 DEF serv_wr_rq_own
  <2>2. pc[a] = "fpSet" /\ pc'[a] = "srvInval" /\ UNCHANGED <<op, dst, pageLock>>
          /\ op[a] = "wr"
    BY <1>a, <1>18 DEF serv_wr_rq_own, rpcVars
  <2>3. \A n \in Node : Holds(a, n)' => Holds(a, n)
    BY <2>2 DEF FetchPc, Serve, Fetch
  <2> QED BY <1>a, <2>1, <2>2, <2>3, HoldsMove, LockKept
<1>19. ASSUME NEW a \in Server, serv_wr_rq_fetched(a) \/ send_invalidations_ok(a)
      PROVE Locked'
  <2>1. PICK c \in Call : hang_up(a, "srvInval", c) /\ Serving(a) /\ UNCHANGED pageLock
    BY <1>19 DEF serv_wr_rq_fetched, send_invalidations_ok, call_returns
  <2> QED BY <1>a, <2>1, HoldsHangUp, LockKept
<1>20. ASSUME NEW a \in Server, serv_rd_rq_fetched(a) PROVE Locked'
  <2>1. PICK c \in Call : hang_up(a, served(a), c) /\ pc[a] = "srvFetch"
          /\ release_locks /\ pc[c] = "done"
    BY <1>20 DEF serv_rd_rq_fetched, call_returns
  <2>2. Holds(a, Manager) /\ a # c
    BY <2>1
  <2>3. pc'[a] = served(a)
    BY <2>1, <2>2, <1>a DEF hang_up
  <2>4. ~Holds(a, Manager)'
    BY <2>3, CallAssumption DEF FetchPc, served, Worker
  <2>5. \A b \in Thread, n \in Node : Holds(b, n)' => Holds(b, n)
    BY <2>1, <1>a, HoldsHangUp, CallAssumption DEF served
  <2> QED BY <1>a, <2>1, <2>2, <2>4, <2>5, LockReleased DEF release_locks
<1>21. ASSUME NEW a \in Server, NEW o, serv_rq_call_failed(a, o) PROVE Locked'
  <2>1. PICK c \in Call : call_fails(a, "srvLock", c) /\ pc[a] = "srvFetch" /\ release_locks
    BY <1>21 DEF serv_rq_call_failed, retried
  <2>2. Holds(a, Manager)
    BY <2>1
  <2>3. pc'[a] \in {"srvLock", "free"}
    BY <2>1, <1>a DEF call_fails, hang_up
  <2>4. ~Holds(a, Manager)'
    BY <2>3, CallAssumption DEF FetchPc, Worker
  <2>5. \A b \in Thread, n \in Node : Holds(b, n)' => Holds(b, n)
    BY <2>1, <1>a, HoldsFail DEF Calling
  <2> QED BY <1>a, <2>1, <2>2, <2>4, <2>5, LockReleased DEF release_locks
<1>22. ASSUME NEW a \in Server, send_invalidations_failed(a) PROVE Locked'
  <2>1. PICK c \in Call : call_fails(a, "srvInval", c) /\ pc[a] = "srvAck"
          /\ UNCHANGED pageLock
    BY <1>22 DEF send_invalidations_failed
  <2> QED BY <1>a, <2>1, HoldsFail, LockKept DEF Calling
<1> QED
  BY <1>1, <1>2, <1>3, <1>4, <1>5, <1>6, <1>7, <1>8, <1>9, <1>10, <1>11, <1>12,
     <1>13, <1>14, <1>17, <1>18, <1>19, <1>20, <1>21, <1>22, <1>15, <1>16
  DEF Next, HandlerStep, CallStep, ServerStep, rd_fault_hdlr, wr_fault_hdlr, Serve,
      serv_rd_rq_lock, serv_wr_rq_lock, serv_rd_rq_call_failed, serv_wr_rq_call_failed

\* The kinds of threads, and what is a node.
LEMMA Names ==
    ASSUME TypeOK
    PROVE  /\ \A n \in Worker : n \in Node /\ n # Manager /\ n \notin Server
           /\ \A n \in Node : n \in Thread /\ n \notin Call
                              /\ (n = Manager \/ n \in Worker)
           /\ \A c \in Call : c \in Thread /\ c \in Server /\ c \notin Node
                              /\ dst[c] \in Node
           /\ \A a \in Server : a \in Thread /\ (a \in Call \/ a = Manager)
           /\ \A a \in Thread : home(a) \in Node /\ requester(a) \in Node
                                /\ (a \in Node \/ a \in Call)
           /\ Manager \in Node /\ NoOne \notin Thread
BY ThreadSplit, CallAssumption DEF Worker, Thread, Server, TypeOK, home, requester
-----------------------------------------------------------------------------
(***************************************************************************)
(* And back: a lock is held only in the sections that it protects, when    *)
(* the manager's program leaves the page alone.                            *)
(***************************************************************************)

\* The page that is being fetched from one of the nodes in S can be read.
ReadableAt(S) ==
    \A a \in Thread : pc[a] \in {"fpRead", "fpSet"} /\ home(a) \in S => perm[home(a)] # "none"

\* The part of IInv that says who is in a section: the lock discipline needs no more.
Sections == TypeOK /\ Callers /\ Pages /\ Locked /\ OpenCopy

\* What a thread other than a can have done in a step of a: nothing, or it is a call
\* that is made or forgotten.
Stays(b) ==
    \/ /\ pc'[b] = pc[b] /\ op'[b] = op[b]
       /\ b \in Call => dst'[b] = dst[b] /\ req'[b] = req[b]
    \/ /\ pc[b] \in {"free", "sent", "done", "killed"}
       /\ pc'[b] \in {"free", "sent"}
       /\ pc'[b] = "sent" => IF op'[b] \in Serve THEN req'[b] # Manager
                             ELSE dst'[b] # Manager

\* Thread a looks at the table, or has looked at it.
Looks(a) == Serving(a) /\ pc[a] # "srvInfo"

\* The sections and the addresses of the other threads stay what they are.
LEMMA OthersStay ==
    ASSUME TypeOK, NEW a \in Thread, \A b \in Thread \ {a} : Stays(b)
    PROVE  /\ \A b \in Thread \ {a}, n \in Node : Holds(b, n)' <=> Holds(b, n)
           /\ \A b \in Server \ {a} : Looks(b)' <=> Looks(b)
           /\ \A b \in Thread \ {a} : pc'[b] \in FetchPc => pc'[b] = pc[b] /\ home(b)' = home(b)
<1> USE Names
<1>1. \A b \in Thread \ {a} : Serving(b)' <=> Serving(b)
  BY DEF Stays, Serving, FetchPc
<1>2. \A b \in Thread \ {a}, n \in Node : Holds(b, n)' <=> Holds(b, n)
  BY <1>1 DEF Stays, Holds, FetchPc, Worker
<1>3. \A b \in Server \ {a} : Looks(b)' <=> Looks(b)
  BY <1>1 DEF Looks, Stays, Serving
<1>4. \A b \in Thread \ {a} : pc'[b] \in FetchPc => pc'[b] = pc[b] /\ home(b)' = home(b)
  BY DEF Stays, home, FetchPc
<1> QED BY <1>2, <1>3, <1>4

\* The page locks that a step of thread a takes and leaves go with its sections.
PageLocksMove(a) ==
    \A n \in Node :
        \/ pageLock'[n] = pageLock[n] /\ (Holds(a, n) => Holds(a, n)')
        \/ pageLock'[n] = NoOne
        \/ pageLock'[n] = a /\ Holds(a, n)'

\* So does the info lock.
InfoLockMoves(a) ==
    \/ infoLock' = infoLock /\ (a \in Server => (Looks(a)' <=> Looks(a)))
    \/ infoLock = NoOne /\ infoLock' = a /\ a \in Server /\ Looks(a)'
    \/ infoLock = a /\ infoLock' = NoOne /\ ~Looks(a)'

\* Thread a addresses nothing to the manager but requests.
AddressesWorkers(a) ==
    /\ Manager \notin copyset'
    /\ \A b \in Thread : Manager \notin todo'[b]
    /\ a \in Call /\ pc'[a] # "free" =>
         IF op'[a] \in Serve THEN req'[a] # Manager ELSE dst'[a] # Manager

\* Thread a has opened the page it fetches, and protects no page another one reads.
LeavesReadable(a) ==
    /\ pc'[a] \in {"fpRead", "fpSet"} => perm'[home(a)'] # "none"
    /\ \A b \in Thread \ {a} : pc[b] \in {"fpRead", "fpSet"} =>
         perm'[home(b)] # "none" \/ perm'[home(b)] = perm[home(b)]

\* Such a step keeps the lock discipline.
LEMMA LocksMove ==
    ASSUME TypeOK, Occupied, Noted, Addressed, NEW S, ReadableAt(S), NEW a \in Thread,
           \A b \in Thread \ {a} : Stays(b), PageLocksMove(a), InfoLockMoves(a),
           AddressesWorkers(a), LeavesReadable(a)
    PROVE  Occupied' /\ Noted' /\ Addressed' /\ ReadableAt(S)'
<1> USE Names DEF PageLocksMove, InfoLockMoves, AddressesWorkers, LeavesReadable
<1>1. Occupied'
  <2> SUFFICES ASSUME NEW b \in Thread, NEW n \in Node, pageLock'[n] = b
               PROVE  Holds(b, n)'
    BY DEF Occupied
  <2>1. CASE b = a
    BY <2>1 DEF Occupied
  <2>2. CASE b # a
    BY <2>2, OthersStay DEF Occupied
  <2> QED BY <2>1, <2>2
<1>2. Noted'
  <2>1. \A b \in Server : infoLock = b <=> Looks(b)
    BY DEF Noted, Looks
  <2>2. \A b \in Server \ {a} : infoLock' = b <=> Looks(b)'
    BY <2>1, OthersStay
  <2>3. a \in Server => (infoLock' = a <=> Looks(a)')
    BY <2>1
  <2> QED BY <2>2, <2>3 DEF Noted, Looks
<1>3. Addressed'
  BY DEF Addressed, Stays
<1>4. ReadableAt(S)'
  <2>1. \A b \in Thread \ {a} : pc'[b] \in {"fpRead", "fpSet"} =>
          pc[b] \in {"fpRead", "fpSet"} /\ home(b)' = home(b)
    BY OthersStay DEF FetchPc
  <2> QED BY <2>1 DEF ReadableAt
<1> QED BY <1>1, <1>2, <1>3, <1>4

\* A call is made: its caller goes on, and nobody else moves.
LEMMA StaysCall ==
    ASSUME TypeOK, NEW a \in Thread, pc[a] # "free", NEW next, NEW c \in Call, NEW m,
           NEW fn, NEW who, call(a, next, c, m, fn, who),
           IF fn \in Serve THEN who # Manager ELSE m # Manager
    PROVE  /\ \A b \in Thread \ {a} : Stays(b)
           /\ pc'[a] = next /\ op'[a] = op[a]
           /\ a \in Call => dst'[a] = dst[a] /\ req'[a] = req[a]
BY Names DEF call, TypeOK, Stays

\* A call is forgotten.
LEMMA StaysHangUp ==
    ASSUME TypeOK, NEW a \in Thread, NEW next, NEW c \in Call, hang_up(a, next, c),
           pc[c] \in {"sent", "done", "killed"}, a # c
    PROVE  /\ \A b \in Thread \ {a} : Stays(b)
           /\ pc'[a] = next /\ op'[a] = op[a]
           /\ a \in Call => dst'[a] = dst[a] /\ req'[a] = req[a]
BY Names DEF hang_up, TypeOK, Stays

\* A call fails: it is forgotten, or it goes on for nobody.
LEMMA StaysFail ==
    ASSUME TypeOK, NEW a \in Thread, pc[a] \in Calling, NEW next, NEW c \in Call,
           call_fails(a, next, c)
    PROVE  /\ \A b \in Thread \ {a} : Stays(b)
           /\ pc'[a] = next /\ op'[a] = op[a]
           /\ a \in Call => dst'[a] = dst[a] /\ req'[a] = req[a]
<1>1. CASE hang_up(a, next, c) /\ pc[c] \in {"sent", "done", "killed"}
  BY <1>1, StaysHangUp DEF Calling
<1>2. CASE pc' = [pc EXCEPT ![a] = next] /\ UNCHANGED <<op, dst, req>>
  BY <1>2 DEF TypeOK, Stays
<1> QED BY <1>1, <1>2 DEF call_fails

\* The program and the handlers of a worker keep the lock discipline.
LEMMA LocksHandler ==
    ASSUME Sections, Occupied, Noted, Addressed, NEW S, ReadableAt(S), NEW n \in Worker,
           Load(n) \/ Store(n) \/ sigaction_hdlr(n) \/ HandlerStep(n)
    PROVE  Occupied' /\ Noted' /\ Addressed' /\ ReadableAt(S)'
<1> USE Names, ThreadSplit DEF Sections
<1>1. TypeOK
  OBVIOUS
<1>2. \A m \in Node : Holds(n, m) <=> m = n /\ pc[n] \in {"wait", "protect", "copy", "settle"}
  BY <1>1 DEF Holds
<1>3. \A m \in Node : Holds(n, m)' <=> m = n /\ pc'[n] \in {"wait", "protect", "copy", "settle"}
  BY <1>1 DEF Holds
<1>4. n \notin Server /\ n \notin Call /\ n \in Thread
  BY <1>1
<1>5. ~killed_by_signal(n)
  BY <1>1 DEF killed_by_signal, OpenCopy
<1>6. ASSUME \A b \in Thread \ {n} : Stays(b), PageLocksMove(n),
             pc'[n] \notin {"fpRead", "fpSet"}, UNCHANGED <<todo, tblVars>>,
             \A m \in Node : perm'[m] = perm[m] \/ perm'[m] # "none"
      PROVE  Occupied' /\ Noted' /\ Addressed' /\ ReadableAt(S)'
  <2>1. InfoLockMoves(n) /\ AddressesWorkers(n) /\ LeavesReadable(n)
    BY <1>1, <1>4, <1>6 DEF InfoLockMoves, AddressesWorkers, LeavesReadable, Addressed, tblVars
  <2> QED BY <1>1, <1>4, <1>6, <2>1, LocksMove
<1>7. CASE Load(n) \/ Store(n) \/ sigaction_hdlr(n)
  <2>1. /\ pc[n] \in {"run", "retry"} /\ pc'[n] \in {"run", "lock"}
        /\ \A b \in Thread \ {n} : Stays(b)
        /\ UNCHANGED <<todo, perm, pageLock, tblVars>>
    BY <1>1, <1>4, <1>7
    DEF Load, Store, sigaction_hdlr, CanLoad, CanStore, Accesses, TypeOK, Stays, rpcVars
  <2> QED BY <1>2, <1>6, <2>1 DEF PageLocksMove
<1>8. CASE rd_fault_hdlr(n) \/ wr_fault_hdlr(n)
  <2>1. PICK fn \in Serve, c \in Call : call(n, "wait", c, Manager, fn, n)
    BY <1>8 DEF rd_fault_hdlr, wr_fault_hdlr, ask_manager, Serve
  <2>2. pc[n] = "lock" /\ wait_lock(n, n) /\ UNCHANGED <<todo, perm, tblVars>>
    BY <1>8 DEF rd_fault_hdlr, wr_fault_hdlr, ask_manager
  <2>3. (\A b \in Thread \ {n} : Stays(b)) /\ pc'[n] = "wait"
    BY <1>1, <1>4, <2>1, <2>2, StaysCall
  <2>4. PageLocksMove(n)
    BY <1>1, <1>2, <1>3, <2>2, <2>3 DEF PageLocksMove, wait_lock, TypeOK
  <2> QED BY <1>6, <2>2, <2>3, <2>4
<1>9. CASE fault_hdlr_reply(n)
  <2>1. PICK c \in Call : hang_up(n, "protect", c) /\ pc[c] = "done"
    BY <1>9 DEF fault_hdlr_reply, call_returns
  <2>2. pc[n] = "wait" /\ UNCHANGED <<todo, perm, pageLock, tblVars>>
    BY <1>9 DEF fault_hdlr_reply
  <2>3. (\A b \in Thread \ {n} : Stays(b)) /\ pc'[n] = "protect"
    BY <1>1, <1>4, <2>1, <2>2, StaysHangUp
  <2> QED BY <1>2, <1>3, <1>6, <2>2, <2>3 DEF PageLocksMove
<1>10. CASE fault_hdlr_backoff(n)
  <2>1. PICK c \in Call : call_fails(n, "lock", c)
    BY <1>10 DEF fault_hdlr_backoff
  <2>2. /\ pc[n] = "wait" /\ pageLock' = [pageLock EXCEPT ![n] = NoOne]
        /\ UNCHANGED <<todo, perm, tblVars>>
    BY <1>10 DEF fault_hdlr_backoff
  <2>3. (\A b \in Thread \ {n} : Stays(b)) /\ pc'[n] = "lock"
    BY <1>1, <1>4, <2>1, <2>2, StaysFail DEF Calling
  <2> QED BY <1>1, <1>2, <1>3, <1>6, <2>2, <2>3 DEF PageLocksMove, TypeOK
<1>11. CASE open_page(n) \/ get_rd_page_copy(n)
  <2>1. /\ pc[n] \in {"protect", "copy"} /\ pc'[n] \in {"copy", "settle"}
        /\ \A b \in Thread \ {n} : Stays(b)
        /\ \A m \in Node : perm'[m] = perm[m] \/ perm'[m] # "none"
        /\ UNCHANGED <<todo, pageLock, tblVars>>
    BY <1>1, <1>4, <1>11 DEF open_page, get_rd_page_copy, TypeOK, Stays, rpcVars
  <2> QED BY <1>2, <1>3, <1>6, <2>1 DEF PageLocksMove
<1>12. CASE get_rd_page_protect(n) \/ get_wr_page_copy(n)
  <2>1. /\ pc'[n] = "retry" /\ pageLock' = [pageLock EXCEPT ![n] = NoOne]
        /\ \A b \in Thread \ {n} : Stays(b)
        /\ \A m \in Node : perm'[m] = perm[m] \/ perm'[m] # "none"
        /\ UNCHANGED <<todo, tblVars>>
    BY <1>1, <1>4, <1>12
    DEF get_rd_page_protect, get_wr_page_copy, hdlr_unlock, TypeOK, Stays, rpcVars
  <2> QED BY <1>1, <1>2, <1>3, <1>6, <2>1 DEF PageLocksMove, TypeOK
<1> QED
  BY <1>5, <1>7, <1>8, <1>9, <1>10, <1>11, <1>12 DEF HandlerStep


\* Whoever fetches a page holds the lock of the node it reads.
LEMMA ReadersHold ==
    ASSUME TypeOK, Callers, Pages, Locked, NEW a \in Thread, pc[a] \in FetchPc
    PROVE  Holds(a, home(a)) /\ pageLock[home(a)] = a
<1> USE Names
<1>1. TypeOK
  OBVIOUS
<1>2. a \in Server /\ op[a] \in Fetch \cup Serve
  <2>1. a \in Server
    BY <1>1, ThreadSplit DEF TypeOK, ThreadPc, AppPc, FetchPc, Server, Thread
  <2>2. op[a] \in Op /\ op[a] # "inval"
    BY <1>1 DEF TypeOK, Pages, Paged
  <2> QED BY <2>1, <2>2 DEF Op, Fetch, Serve
<1>3. op[a] \in Serve => Serving(a) /\ home(a) = Manager
  BY <1>1, <1>2 DEF Serving, Callers, home
<1>4. op[a] \in Fetch => a \in Call /\ home(a) = dst[a]
  BY <1>1, <1>2 DEF TypeOK, Fetch, home
<1>5. Holds(a, home(a))
  BY <1>2, <1>3, <1>4 DEF Holds
<1> QED BY <1>1, <1>5 DEF Locked

\* The ends of a call keep the lock discipline: its answer is discarded, or it is a
\* fetch or an invalidation.
LEMMA LocksCall ==
    ASSUME Sections, Occupied, Noted, Addressed, NEW S, ReadableAt(S), NEW c \in Call, CallStep(c)
    PROVE  Occupied' /\ Noted' /\ Addressed' /\ ReadableAt(S)'
<1> USE Names, ThreadSplit DEF Sections
<1>1. TypeOK
  OBVIOUS
<1>2. c \in Thread /\ c \in Server /\ c \notin Node /\ dst[c] \in Node /\ home(c) = dst[c]
  BY <1>1 DEF home
<1>3. CASE discard_reply(c)
  <2>1. /\ pc[c] \in {"done", "killed"} /\ pc'[c] = "free"
        /\ \A b \in Thread \ {c} : Stays(b)
        /\ UNCHANGED <<todo, perm, pageLock, tblVars>>
    BY <1>1, <1>2, <1>3 DEF discard_reply, hang_up, TypeOK, Stays
  <2>2. (\A n \in Node : ~Holds(c, n)) /\ ~Looks(c) /\ ~Looks(c)'
    BY <1>2, <2>1 DEF Holds, Looks, Serving, FetchPc
  <2>3. PageLocksMove(c) /\ InfoLockMoves(c) /\ AddressesWorkers(c) /\ LeavesReadable(c)
    BY <1>2, <2>1, <2>2
    DEF PageLocksMove, InfoLockMoves, AddressesWorkers, LeavesReadable, Addressed, tblVars
  <2> QED BY <1>1, <1>2, <2>1, <2>3, LocksMove
<1>4. CASE fetch_pg_lock(c)
  <2>1. /\ pc[c] = "sent" /\ pc'[c] = "fpProtect" /\ op[c] \in Fetch /\ op'[c] = op[c]
        /\ dst'[c] = dst[c] /\ req'[c] = req[c]
        /\ pageLock' = [pageLock EXCEPT ![dst[c]] = c]
        /\ \A b \in Thread \ {c} : Stays(b)
        /\ UNCHANGED <<todo, perm, tblVars>>
    BY <1>1, <1>2, <1>4 DEF fetch_pg_lock, wait_lock, TypeOK, Stays, rpcVars, Fetch
  <2>2. (\A n \in Node : ~Holds(c, n)) /\ Holds(c, dst[c])' /\ ~Looks(c) /\ ~Looks(c)'
    BY <1>2, <2>1 DEF Holds, Looks, Serving, FetchPc, Fetch, Serve
  <2>3. PageLocksMove(c)
    BY <1>1, <1>2, <2>1, <2>2 DEF PageLocksMove, TypeOK
  <2>4. InfoLockMoves(c) /\ AddressesWorkers(c) /\ LeavesReadable(c)
    BY <1>2, <2>1, <2>2
    DEF InfoLockMoves, AddressesWorkers, LeavesReadable, Addressed, tblVars
  <2> QED BY <1>1, <1>2, <2>1, <2>3, <2>4, LocksMove
<1>5. CASE fetch_pg_answer(c)
  <2>1. /\ pc[c] = "fpSet" /\ pc'[c] = "done" /\ op[c] \in Fetch /\ op'[c] = op[c]
        /\ dst'[c] = dst[c] /\ req'[c] = req[c]
        /\ pageLock' = [pageLock EXCEPT ![dst[c]] = NoOne]
        /\ \A n \in Node \ {dst[c]} : perm'[n] = perm[n]
        /\ \A b \in Thread \ {c} : Stays(b)
        /\ UNCHANGED <<todo, tblVars>>
    BY <1>1, <1>2, <1>5 DEF fetch_pg_answer, TypeOK, Stays, rpcVars, Fetch
  <2>2. (\A n \in Node \ {dst[c]} : ~Holds(c, n)) /\ ~Looks(c) /\ ~Looks(c)'
    BY <1>2, <2>1 DEF Holds, Looks, Serving, FetchPc, Fetch, Serve
  <2>3. PageLocksMove(c)
    BY <1>1, <1>2, <2>1, <2>2 DEF PageLocksMove, TypeOK
  <2>4. \A b \in Thread \ {c} : pc[b] \in {"fpRead", "fpSet"} => home(b) # dst[c]
    BY <1>2, <2>1, ReadersHold DEF FetchPc
  <2>5. InfoLockMoves(c) /\ AddressesWorkers(c)
    BY <1>2, <2>1, <2>2 DEF InfoLockMoves, AddressesWorkers, Addressed, tblVars
  <2>6. LeavesReadable(c)
    BY <1>1, <1>2, <2>1, <2>4 DEF LeavesReadable
  <2> QED BY <1>1, <1>2, <2>1, <2>3, <2>5, <2>6, LocksMove
<1>6. CASE invalidate_adapter(c)
  <2>1. /\ pc[c] = "sent" /\ pc'[c] = "done" /\ op[c] = "inval" /\ op'[c] = op[c]
        /\ dst'[c] = dst[c] /\ req'[c] = req[c]
        /\ ivld_ready(dst[c])
        /\ \A n \in Node \ {dst[c]} : perm'[n] = perm[n]
        /\ \A b \in Thread \ {c} : Stays(b)
        /\ UNCHANGED <<todo, pageLock, tblVars>>
    BY <1>1, <1>2, <1>6 DEF invalidate_adapter, TypeOK, Stays, rpcVars
  <2>2. (\A n \in Node : ~Holds(c, n)) /\ ~Looks(c) /\ ~Looks(c)'
    BY <1>2, <2>1 DEF Holds, Looks, Serving, FetchPc
  <2>3. pageLock[dst[c]] = NoOne
    BY <1>2, <2>1 DEF ivld_ready, Addressed, Serve
  <2>4. \A b \in Thread \ {c} : pc[b] \in {"fpRead", "fpSet"} => home(b) # dst[c]
    BY <2>3, ReadersHold DEF FetchPc
  <2>5. PageLocksMove(c) /\ InfoLockMoves(c) /\ AddressesWorkers(c)
    BY <1>2, <2>1, <2>2
    DEF PageLocksMove, InfoLockMoves, AddressesWorkers, Addressed, tblVars
  <2>6. LeavesReadable(c)
    BY <1>1, <1>2, <2>1, <2>4 DEF LeavesReadable
  <2> QED BY <1>1, <1>2, <2>1, <2>5, <2>6, LocksMove
<1> QED BY <1>3, <1>4, <1>5, <1>6 DEF CallStep

\* The server threads of the manager keep the lock discipline.
LEMMA LocksServer ==
    ASSUME Sections, Occupied, Noted, Addressed, NEW S, ReadableAt(S), NEW a \in Call, ServerStep(a)
    PROVE  Occupied' /\ Noted' /\ Addressed' /\ ReadableAt(S)'
<1> USE Names, ThreadSplit DEF Sections
<1>1. TypeOK
  OBVIOUS
<1>2. /\ a \in Thread /\ a \in Server /\ a \notin Node /\ a # Manager /\ dst[a] \in Node
      /\ home(a) = dst[a] /\ requester(a) = req[a]
  BY <1>1 DEF home, requester
<1>3. op[a] \in Serve => home(a) = Manager
  BY <1>2 DEF Callers
<1>4. op[a] \in Serve /\ pc[a] # "free" => requester(a) # Manager
  BY <1>2 DEF Addressed
<1>5. op[a] \in Serve => \A n \in Node : Holds(a, n) <=> n = Manager /\ Serving(a)
  BY <1>2 DEF Holds, Fetch, Serve
\* The step of a changes neither its operation nor its addresses.
<1> DEFINE Same == op'[a] = op[a] /\ dst'[a] = dst[a] /\ req'[a] = req[a]
           Tables == /\ Manager \notin copyset'
                     /\ \A b \in Thread : Manager \notin todo'[b]
<1>6. ASSUME Same, op[a] \in Serve
      PROVE  \A n \in Node : Holds(a, n)' <=> n = Manager /\ Serving(a)'
  BY <1>2, <1>6 DEF Holds, Fetch, Serve
<1>7. ASSUME Same, Tables, pc[a] # "free" PROVE AddressesWorkers(a)
  BY <1>2, <1>7 DEF AddressesWorkers, Addressed
<1>8. ASSUME \A n \in Node : perm'[n] = perm[n] \/ perm'[n] # "none",
             pc'[a] \notin {"fpRead", "fpSet"}
      PROVE  LeavesReadable(a)
  BY <1>1, <1>8 DEF LeavesReadable
\* A step inside the section: the page lock is kept.
<1>9. ASSUME Same, Tables, op[a] \in Serve, Serving(a), Serving(a)', pc'[a] # "srvInfo",
             UNCHANGED pageLock, LeavesReadable(a), \A b \in Thread \ {a} : Stays(b),
             \/ pc[a] # "srvInfo" /\ UNCHANGED infoLock
             \/ pc[a] = "srvInfo" /\ infoLock = NoOne /\ infoLock' = a
      PROVE  Occupied' /\ Noted' /\ Addressed' /\ ReadableAt(S)'
  <2>1. PageLocksMove(a)
    BY <1>5, <1>6, <1>9 DEF PageLocksMove
  <2>2. InfoLockMoves(a)
    BY <1>2, <1>9 DEF InfoLockMoves, Looks
  <2>3. AddressesWorkers(a)
    BY <1>7, <1>9 DEF Serving, FetchPc
  <2> QED BY <1>1, <1>2, <1>9, <2>1, <2>2, <2>3, LocksMove
\* A step that leaves it: both locks are released.
<1>10. ASSUME Same, Tables, op[a] \in Serve, Serving(a), pc[a] # "srvInfo",
              pc'[a] \in {"done", "srvLock"}, release_locks,
              \A n \in Node : perm'[n] = perm[n] \/ perm'[n] # "none",
              \A b \in Thread \ {a} : Stays(b)
       PROVE  Occupied' /\ Noted' /\ Addressed' /\ ReadableAt(S)'
  <2>1. PageLocksMove(a)
    BY <1>1, <1>5, <1>10 DEF PageLocksMove, release_locks, TypeOK
  <2>2. InfoLockMoves(a)
    BY <1>2, <1>10 DEF InfoLockMoves, Looks, Noted, release_locks, Serving, FetchPc
  <2>3. AddressesWorkers(a) /\ LeavesReadable(a)
    BY <1>7, <1>8, <1>10 DEF Serving, FetchPc
  <2> QED BY <1>1, <1>2, <1>10, <2>1, <2>2, <2>3, LocksMove
<1>11. UNCHANGED <<todo, copyset>> => Tables
  BY DEF Addressed
<1>12. CASE fetch_pg_protect(a) \/ read_page(a)
  <2>1. /\ pc[a] \in {"fpProtect", "fpRead"} /\ pc'[a] \in {"fpRead", "fpSet"} /\ Same
        /\ perm'[home(a)] # "none"
        /\ \A n \in Node : perm'[n] = perm[n] \/ perm'[n] # "none"
        /\ \A b \in Thread \ {a} : Stays(b)
        /\ UNCHANGED <<todo, pageLock, tblVars>>
    BY <1>1, <1>2, <1>12 DEF fetch_pg_protect, read_page, TypeOK, Stays, rpcVars
  <2>2. Serving(a)' <=> Serving(a)
    BY <2>1 DEF Serving, FetchPc
  <2>3. \A n \in Node : Holds(a, n) => Holds(a, n)'
    BY <1>2, <2>1, <2>2 DEF Holds, FetchPc
  <2>4. PageLocksMove(a) /\ InfoLockMoves(a)
    BY <1>2, <2>1, <2>2, <2>3 DEF PageLocksMove, InfoLockMoves, Looks, tblVars
  <2>5. home(a)' = home(a) /\ LeavesReadable(a)
    BY <1>1, <1>2, <2>1 DEF LeavesReadable, home
  <2>6. AddressesWorkers(a)
    BY <1>7, <1>11, <2>1 DEF tblVars
  <2> QED BY <1>1, <1>2, <2>1, <2>4, <2>5, <2>6, LocksMove
<1>13. CASE serv_rd_rq_lock(a) \/ serv_wr_rq_lock(a)
  <2>1. /\ pc[a] \in {"srvLock", "sent"} /\ op[a] \in Serve /\ pc'[a] = "srvInfo" /\ Same
        /\ pageLock' = [pageLock EXCEPT ![Manager] = a]
        /\ \A b \in Thread \ {a} : Stays(b)
        /\ UNCHANGED <<todo, perm, tblVars>>
    BY <1>1, <1>2, <1>13
    DEF serv_rd_rq_lock, serv_wr_rq_lock, serv_rq_lock, wait_lock, TypeOK, Stays, rpcVars, Serve
  <2>2. ~Serving(a) /\ Serving(a)'
    BY <2>1 DEF Serving, FetchPc
  <2>3. PageLocksMove(a)
    BY <1>1, <1>5, <1>6, <2>1, <2>2 DEF PageLocksMove, TypeOK
  <2>4. InfoLockMoves(a) /\ LeavesReadable(a) /\ AddressesWorkers(a)
    BY <1>7, <1>8, <1>11, <2>1, <2>2 DEF InfoLockMoves, Looks, tblVars
  <2> QED BY <1>1, <1>2, <2>1, <2>3, <2>4, LocksMove
<1>14. CASE serv_rd_rq(a) \/ serv_wr_rq(a)
  <2>1. /\ pc[a] = "srvInfo" /\ op[a] \in Serve /\ infoLock = NoOne /\ infoLock' = a
        /\ copyset' \subseteq copyset \cup {requester(a)}
        /\ \A b \in Thread : todo'[b] \subseteq todo[b] \cup copyset
        /\ UNCHANGED <<perm, pageLock>>
    <3>1. /\ pc[a] = "srvInfo" /\ op[a] \in Serve /\ infoLock = NoOne /\ infoLock' = a
          /\ UNCHANGED <<perm, pageLock>>
      BY <1>14 DEF serv_rd_rq, serv_wr_rq, Serve
    <3>2. CASE serv_rd_rq(a)
      BY <3>1, <3>2 DEF serv_rd_rq, copyset_with
    <3>3. CASE serv_wr_rq(a)
      <4>1. copyset' \subseteq copyset /\ todo' = [todo EXCEPT ![a] = ivld_set(a)]
        BY <3>3 DEF serv_wr_rq
      <4>2. ivld_set(a) \subseteq copyset
        BY DEF ivld_set
      <4> QED BY <1>1, <3>1, <4>1, <4>2 DEF TypeOK
    <3> QED BY <1>14, <3>2, <3>3
  <2>2. Tables
    BY <1>4, <2>1 DEF Addressed
  <2>3. Serving(a)
    BY <2>1 DEF Serving
  <2>4. CASE \E next \in {"fpProtect", "srvInval"} :
                pc' = [pc EXCEPT ![a] = next] /\ UNCHANGED <<op, rpcVars>>
    <3>1. /\ pc'[a] \in {"fpProtect", "srvInval"} /\ Same
          /\ \A b \in Thread \ {a} : Stays(b)
      BY <1>1, <1>2, <2>4 DEF TypeOK, Stays, rpcVars
    <3>2. Serving(a)' /\ LeavesReadable(a)
      BY <1>8, <2>1, <3>1 DEF Serving, FetchPc
    <3> QED BY <1>9, <2>1, <2>2, <2>3, <3>1, <3>2
  <2>5. CASE owner # Manager /\ \E c \in Call, fn \in Fetch :
                call(a, "srvFetch", c, owner, fn, requester(a))
    <3>1. PICK c \in Call, fn \in Fetch : call(a, "srvFetch", c, owner, fn, requester(a))
      BY <2>5
    <3>2. fn \notin Serve
      BY DEF Fetch, Serve
    <3>3. pc'[a] = "srvFetch" /\ Same /\ \A b \in Thread \ {a} : Stays(b)
      BY <1>1, <1>2, <2>1, <2>5, <3>1, <3>2, StaysCall
    <3>4. Serving(a)' /\ LeavesReadable(a)
      BY <1>8, <2>1, <3>3 DEF Serving
    <3> QED BY <1>9, <2>1, <2>2, <2>3, <3>3, <3>4
  <2> QED BY <1>14, <2>4, <2>5 DEF serv_rd_rq, serv_wr_rq, Fetch
<1>15. CASE serv_rd_rq_own(a)
  <2>1. /\ pc[a] = "fpSet" /\ op[a] \in Serve /\ pc'[a] = "done" /\ Same /\ release_locks
        /\ \A n \in Node : perm'[n] = perm[n] \/ perm'[n] # "none"
        /\ \A b \in Thread \ {a} : Stays(b)
        /\ UNCHANGED <<todo, copyset>>
    BY <1>1, <1>2, <1>15
    DEF serv_rd_rq_own, served, left_access, TypeOK, Stays, rpcVars, Serve
  <2> QED BY <1>10, <1>11, <2>1 DEF Serving, FetchPc
<1>16. CASE serv_wr_rq_own(a)
  <2>1. /\ pc[a] = "fpSet" /\ op[a] \in Serve /\ pc'[a] = "srvInval" /\ Same
        /\ \A n \in Node \ {Manager} : perm'[n] = perm[n]
        /\ \A b \in Thread \ {a} : Stays(b)
        /\ UNCHANGED <<todo, pageLock, tblVars>>
    BY <1>1, <1>2, <1>16 DEF serv_wr_rq_own, TypeOK, Stays, rpcVars, Serve
  <2>2. pageLock[Manager] = a
    BY <1>2, <1>3, <2>1, ReadersHold DEF FetchPc
  <2>3. \A b \in Thread \ {a} : pc[b] \in {"fpRead", "fpSet"} => home(b) # Manager
    BY <2>2, ReadersHold DEF FetchPc
  <2>4. LeavesReadable(a)
    BY <1>1, <2>1, <2>3 DEF LeavesReadable
  <2> QED BY <1>9, <1>11, <2>1, <2>4 DEF Serving, FetchPc, tblVars
<1>17. CASE serv_rd_rq_fetched(a)
  <2>1. PICK c \in Call : hang_up(a, served(a), c) /\ pc[c] = "done"
    BY <1>17 DEF serv_rd_rq_fetched, call_returns
  <2>2. /\ pc[a] = "srvFetch" /\ op[a] \in Serve /\ release_locks
        /\ UNCHANGED <<todo, perm, copyset>>
    BY <1>17 DEF serv_rd_rq_fetched, Serve
  <2>3. pc'[a] = "done" /\ Same /\ \A b \in Thread \ {a} : Stays(b)
    BY <1>1, <1>2, <2>1, <2>2, StaysHangUp DEF served
  <2> QED BY <1>10, <1>11, <2>2, <2>3 DEF Serving
<1>18. CASE serv_wr_rq_fetched(a)
  <2>1. PICK c \in Call : hang_up(a, "srvInval", c) /\ pc[c] = "done"
    BY <1>18 DEF serv_wr_rq_fetched, call_returns
  <2>2. /\ pc[a] = "srvFetch" /\ op[a] \in Serve
        /\ UNCHANGED <<todo, perm, pageLock, tblVars>>
    BY <1>18 DEF serv_wr_rq_fetched, Serve
  <2>3. pc'[a] = "srvInval" /\ Same /\ \A b \in Thread \ {a} : Stays(b)
    BY <1>1, <1>2, <2>1, <2>2, StaysHangUp
  <2>4. Serving(a) /\ Serving(a)' /\ LeavesReadable(a)
    BY <1>8, <2>2, <2>3 DEF Serving
  <2> QED BY <1>9, <1>11, <2>2, <2>3, <2>4 DEF tblVars
<1>19. CASE serv_rd_rq_call_failed(a) \/ serv_wr_rq_call_failed(a)
  <2>1. PICK c \in Call : call_fails(a, "srvLock", c)
    BY <1>19
    DEF serv_rd_rq_call_failed, serv_wr_rq_call_failed, serv_rq_call_failed, retried
  <2>2. /\ pc[a] = "srvFetch" /\ op[a] \in Serve /\ release_locks
        /\ todo' = [todo EXCEPT ![a] = {}] /\ UNCHANGED <<perm, copyset>>
    BY <1>19
    DEF serv_rd_rq_call_failed, serv_wr_rq_call_failed, serv_rq_call_failed, Serve
  <2>3. pc'[a] = "srvLock" /\ Same /\ \A b \in Thread \ {a} : Stays(b)
    BY <1>1, <1>2, <2>1, <2>2, StaysFail DEF Calling
  <2>4. Tables
    BY <1>1, <2>2 DEF Addressed, TypeOK
  <2> QED BY <1>10, <2>2, <2>3, <2>4 DEF Serving
<1>20. CASE send_invalidations(a)
  <2>1. PICK n \in todo[a], c \in Call : call(a, "srvAck", c, n, "inval", requester(a))
    BY <1>20 DEF send_invalidations
  <2>2. pc[a] = "srvInval" /\ UNCHANGED <<todo, perm, pageLock, tblVars>>
    BY <1>20 DEF send_invalidations
  <2>3. op[a] \in Serve /\ n # Manager
    BY <1>2, <2>2 DEF Pages, Paged, Serve, Addressed
  <2>4. pc'[a] = "srvAck" /\ Same /\ \A b \in Thread \ {a} : Stays(b)
    BY <1>1, <1>2, <2>1, <2>2, <2>3, StaysCall DEF Serve
  <2>5. Serving(a) /\ Serving(a)' /\ LeavesReadable(a)
    BY <1>8, <2>2, <2>4 DEF Serving
  <2> QED BY <1>9, <1>11, <2>2, <2>3, <2>4, <2>5 DEF tblVars
<1>21. CASE send_invalidations_ok(a) \/ send_invalidations_failed(a)
  <2>1. pc[a] = "srvAck" /\ UNCHANGED <<perm, pageLock, tblVars>>
    BY <1>21 DEF send_invalidations_ok, send_invalidations_failed
  <2>a. \A b \in Thread : todo'[b] \subseteq todo[b]
    <3>1. \E left \in SUBSET todo[a] : todo' = [todo EXCEPT ![a] = left]
      <4>1. CASE send_invalidations_ok(a)
        <5>1. PICK c \in Call : todo' = [todo EXCEPT ![a] = todo[a] \ {dst[c]}]
          BY <4>1 DEF send_invalidations_ok, ivld_left
        <5> QED BY <5>1
      <4>2. CASE send_invalidations_failed(a)
        BY <4>2 DEF send_invalidations_failed
      <4> QED BY <1>21, <4>1, <4>2
    <3> QED BY <1>1, <3>1 DEF TypeOK
  <2>2. op[a] \in Serve
    BY <1>2, <2>1 DEF Pages, Paged, Serve
  <2>3. pc'[a] = "srvInval" /\ Same /\ \A b \in Thread \ {a} : Stays(b)
    <3>1. CASE \E c \in Call : hang_up(a, "srvInval", c) /\ pc[c] = "done"
      BY <1>1, <1>2, <2>1, <3>1, StaysHangUp
    <3>2. CASE \E c \in Call : call_fails(a, "srvInval", c)
      BY <1>1, <1>2, <2>1, <3>2, StaysFail DEF Calling
    <3> QED
      BY <1>21, <3>1, <3>2
      DEF send_invalidations_ok, send_invalidations_failed, call_returns
  <2>4. Tables
    BY <2>1, <2>a DEF Addressed, tblVars
  <2>5. Serving(a) /\ Serving(a)' /\ LeavesReadable(a)
    BY <1>8, <2>1, <2>3 DEF Serving
  <2> QED BY <1>9, <2>1, <2>2, <2>3, <2>4, <2>5 DEF tblVars
<1>22. CASE serv_wr_rq_grant(a)
  <2>1. /\ pc[a] = "srvInval" /\ pc'[a] = "done" /\ Same /\ release_locks
        /\ copyset' = {} /\ UNCHANGED <<todo, perm>>
        /\ \A b \in Thread \ {a} : Stays(b)
    BY <1>1, <1>2, <1>22 DEF serv_wr_rq_grant, served, TypeOK, Stays, rpcVars
  <2>2. op[a] \in Serve
    BY <1>2, <2>1 DEF Pages, Paged, Serve
  <2> QED BY <1>10, <2>1, <2>2 DEF Serving, Addressed
<1> QED
  BY <1>12, <1>13, <1>14, <1>15, <1>16, <1>17, <1>18, <1>19, <1>20, <1>21, <1>22
  DEF ServerStep
=============================================================================

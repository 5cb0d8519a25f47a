--------------------------- MODULE IvyPageProofs ----------------------------
(***************************************************************************)
(* Last part of the proof about IvyPage: the right to store to the page    *)
(* belongs to the owner, and the theorems that follow from it.             *)
(***************************************************************************)
EXTENDS IvyPageLockProofs

(***************************************************************************)
(* The right to store.                                                     *)
(***************************************************************************)
\* A step of one thread that raises no protection entitles nobody.
LEMMA EntitledMove ==
    ASSUME TypeOK, NEW a \in Thread, NEW n \in Worker, Entitled(n)',
           \A b \in Thread \ {a} : pc'[b] = pc[b] /\ op'[b] = op[b],
           perm'[n] = "rw" => perm[n] = "rw" \/ pc'[n] = "copy",
           from' = from,
           a = n => pc'[a] \notin {"run", "retry", "protect", "copy"},
           a \in Call => pc'[a] # "done" \/ op'[a] # "wr"
    PROVE  Entitled(n)
  BY ThreadSplit DEF Entitled, CanStore, TypeOK, Thread, Worker

\* Making a call entitles nobody.
LEMMA EntitledCall ==
    ASSUME TypeOK, NEW a \in Thread, NEW n \in Worker, Entitled(n)',
           NEW next \in Calling, NEW c \in Call, NEW m, NEW fn, NEW who,
           call(a, next, c, m, fn, who), UNCHANGED perm
    PROVE  Entitled(n)
<1>1. /\ pc' = [pc EXCEPT ![a] = next, ![c] = "sent"]
      /\ op' = [op EXCEPT ![c] = fn]
      /\ from' = [from EXCEPT ![c] = a]
  BY DEF call
<1>2. /\ pc'[c] = "sent" /\ (a # c => pc'[a] = next)
      /\ \A b \in Thread \ {a, c} : pc'[b] = pc[b]
      /\ \A b \in Thread \ {c} : op'[b] = op[b]
      /\ \A d \in Call \ {c} : from'[d] = from[d]
  BY <1>1 DEF TypeOK, Thread
<1>3. n \in Thread /\ n # c /\ \A d \in Call : d \in Thread
  BY CallAssumption DEF Thread, Worker
<1> QED BY <1>2, <1>3 DEF Entitled, CanStore, Calling

\* A returning call passes the right to store on to its caller only.
LEMMA EntitledHangUp ==
    ASSUME TypeOK, Callers, NEW a \in Thread, NEW n \in Worker, Entitled(n)',
           NEW next, NEW c \in Call, UNCHANGED perm,
           hang_up(a, next, c), pc[c] \in {"sent", "done", "killed"},
           a \in Node => next \notin {"run", "retry", "copy"},
           a \in Node /\ next = "protect" => from[c] = a /\ pc[c] = "done",
           a \in Call => a = c \/ next # "done" \/ op[a] # "wr"
    PROVE  Entitled(n)
<1>1. /\ pc' = [pc EXCEPT ![a] = next, ![c] = "free"]
      /\ op' = [op EXCEPT ![c] = "rd"]
      /\ from' = [from EXCEPT ![c] = NoOne]
  BY DEF hang_up
<1>2. /\ pc'[c] = "free" /\ (a # c => pc'[a] = next)
      /\ \A b \in Thread \ {a, c} : pc'[b] = pc[b]
      /\ \A b \in Thread \ {c} : op'[b] = op[b]
      /\ \A d \in Call \ {c} : from'[d] = from[d]
  BY <1>1 DEF TypeOK, Thread
<1>3. n \in Thread /\ n \in Node /\ n \notin Call /\ \A d \in Call : d \in Thread
  BY CallAssumption DEF Thread, Worker
<1>4. CASE n = a /\ next = "protect" /\ op[n] = "wr"
  BY <1>3, <1>4 DEF Callers, Entitled
<1>5. CASE ~(n = a /\ next = "protect" /\ op[n] = "wr")
  BY <1>2, <1>3, <1>5 DEF Entitled, CanStore
<1> QED BY <1>4, <1>5

\* A failed call entitles nobody.
LEMMA EntitledFail ==
    ASSUME TypeOK, Callers, NEW a \in Thread, NEW n \in Worker, Entitled(n)',
           NEW next \in {"lock", "srvLock", "srvInval"}, NEW c \in Call, UNCHANGED perm,
           call_fails(a, next, c)
    PROVE  Entitled(n)
<1>1. CASE hang_up(a, next, c) /\ pc[c] \in {"sent", "done", "killed"}
  BY <1>1, EntitledHangUp
<1>2. CASE pc' = [pc EXCEPT ![a] = next] /\ from' = [from EXCEPT ![c] = NoOne]
        /\ UNCHANGED <<op, dst>>
  <2>1. /\ pc'[a] = next
        /\ \A b \in Thread \ {a} : pc'[b] = pc[b]
        /\ \A d \in Call : from'[d] \in {from[d], NoOne}
    BY <1>2 DEF TypeOK
  <2>2. n \in Thread /\ n # NoOne /\ \A d \in Call : d \in Thread
    BY CallAssumption DEF Thread, Worker
  <2> QED BY <1>2, <2>1, <2>2 DEF Entitled, CanStore
<1> QED BY <1>1, <1>2 DEF call_fails

\* Only serv_wr_rq, when it makes a requester the owner, entitles a worker.
LEMMA EntitledStep ==
    ASSUME TypeOK, Callers, Pages, Next, NEW n \in Worker, Entitled(n)'
    PROVE  \/ Entitled(n)
           \/ \E a \in Server : serv_wr_rq_grant(a) /\ n = requester(a)
<1> USE ThreadSplit
<1>a. /\ \A m \in Node : m \in Thread /\ m \notin Call
      /\ \A c \in Call : c \in Thread /\ c \in Server
      /\ n \in Node
  BY CallAssumption DEF Thread, Worker
<1> DEFINE Goal == Entitled(n) \/ \E a \in Server : serv_wr_rq_grant(a) /\ n = requester(a)
<1>1. ASSUME NEW m \in Node, Load(m) \/ Store(m) PROVE Goal
  <2>1. /\ pc[m] \in {"run", "retry"} /\ pc'[m] = "run" /\ UNCHANGED <<perm, from>>
        /\ \A b \in Thread \ {m} : pc'[b] = pc[b] /\ op'[b] = op[b]
    BY <1>1, <1>a DEF Load, Store, Accesses, rpcVars, TypeOK
  <2> QED BY <1>a, <2>1 DEF Entitled, CanStore
<1>2. ASSUME NEW m \in Node, sigaction_hdlr(m) PROVE Goal
  <2>1. /\ pc'[m] \in {"srvLock", "lock"} /\ UNCHANGED <<perm, from>>
        /\ \A b \in Thread \ {m} : pc'[b] = pc[b] /\ op'[b] = op[b]
    BY <1>2, <1>a DEF sigaction_hdlr, rpcVars, TypeOK
  <2> QED BY <1>a, <2>1, EntitledMove
<1>3. ASSUME NEW m \in Node, NEW fn \in Serve, ask_manager(m, fn) PROVE Goal
  BY <1>3, <1>a, EntitledCall DEF ask_manager, Calling
<1>4. ASSUME NEW m \in Node, fault_hdlr_reply(m) PROVE Goal
  <2>1. PICK c \in Call : hang_up(m, "protect", c) /\ pc[c] = "done" /\ from[c] = m
          /\ UNCHANGED perm
    BY <1>4 DEF fault_hdlr_reply, call_returns
  <2> QED BY <1>a, <2>1, EntitledHangUp
<1>5. ASSUME NEW m \in Node, fault_hdlr_backoff(m) PROVE Goal
  BY <1>5, <1>a, EntitledFail DEF fault_hdlr_backoff
<1>6. ASSUME NEW m \in Node, open_page(m) PROVE Goal
  <2>1. /\ pc[m] = "protect" /\ pc'[m] = "copy" /\ UNCHANGED <<op, from>>
        /\ \A b \in Thread \ {m} : pc'[b] = pc[b] /\ (b \in Node => perm'[b] = perm[b])
    BY <1>6, <1>a DEF open_page, rpcVars, TypeOK
  <2> QED BY <1>a, <2>1 DEF Entitled, CanStore
<1>7. ASSUME NEW m \in Node, get_rd_page_copy(m) PROVE Goal
  <2>1. /\ pc'[m] = "settle" /\ UNCHANGED <<op, from, perm>>
        /\ \A b \in Thread \ {m} : pc'[b] = pc[b]
    BY <1>7, <1>a DEF get_rd_page_copy, rpcVars, TypeOK
  <2> QED BY <1>a, <2>1, EntitledMove
<1>8. ASSUME NEW m \in Node, get_rd_page_protect(m) PROVE Goal
  <2>1. /\ pc'[m] = "retry" /\ UNCHANGED <<op, from>> /\ perm'[m] = "rd"
        /\ \A b \in Thread \ {m} : pc'[b] = pc[b] /\ (b \in Node => perm'[b] = perm[b])
    BY <1>8, <1>a DEF get_rd_page_protect, rpcVars, TypeOK
  <2> QED BY <1>a, <2>1 DEF Entitled, CanStore
<1>9. ASSUME NEW m \in Node, get_wr_page_copy(m) PROVE Goal
  <2>1. /\ pc[m] = "copy" /\ op[m] = "wr" /\ pc'[m] = "retry"
          /\ UNCHANGED <<op, from, perm>>
        /\ \A b \in Thread \ {m} : pc'[b] = pc[b]
    BY <1>9, <1>a DEF get_wr_page_copy, rpcVars, TypeOK
  <2> QED BY <1>a, <2>1 DEF Entitled, CanStore
<1>10. ASSUME NEW m \in Node, killed_by_signal(m) PROVE Goal
  <2>1. /\ UNCHANGED <<op, perm>> /\ \A b \in Thread : pc'[b] \in {pc[b], "killed"}
        /\ \A c \in Call : from'[c] \in {from[c], NoOne}
    BY <1>10, <1>a DEF killed_by_signal
  <2>2. n # NoOne
    BY <1>a
  <2> QED BY <1>a, <2>1, <2>2 DEF Entitled, CanStore
<1>11. ASSUME NEW c \in Call, discard_reply(c) PROVE Goal
  BY <1>11, <1>a, EntitledHangUp DEF discard_reply
<1>12. ASSUME NEW c \in Call, fetch_pg_lock(c) PROVE Goal
  <2>1. /\ pc'[c] = "fpProtect" /\ UNCHANGED <<op, from, perm>>
        /\ \A b \in Thread \ {c} : pc'[b] = pc[b]
    BY <1>12, <1>a DEF fetch_pg_lock, rpcVars, TypeOK
  <2> QED BY <1>a, <2>1, EntitledMove
<1>13. ASSUME NEW c \in Call, fetch_pg_answer(c) \/ invalidate_adapter(c) PROVE Goal
  <2>1. /\ op[c] # "wr" /\ UNCHANGED <<op, from>>
        /\ \A b \in Thread \ {c} : pc'[b] = pc[b]
        /\ perm'[n] \in {perm[n], "none", "rd"}
    BY <1>13, <1>a DEF fetch_pg_answer, invalidate_adapter, left_access, rpcVars, TypeOK
  <2> QED BY <1>a, <2>1, EntitledMove
<1>14. ASSUME NEW a \in Server, fetch_pg_protect(a) \/ read_page(a) PROVE Goal
  <2>1. /\ pc'[a] \in {"fpRead", "fpSet"} /\ UNCHANGED <<op, from>>
        /\ \A b \in Thread \ {a} : pc'[b] = pc[b]
        /\ perm'[n] \in {perm[n], "rd"}
    BY <1>14, <1>a DEF fetch_pg_protect, read_page, rpcVars, TypeOK
  <2> QED BY <1>a, <2>1, EntitledMove
<1>15. ASSUME NEW a \in Server, NEW o, serv_rq_lock(a, o) PROVE Goal
  <2>1. /\ pc'[a] = "srvInfo" /\ UNCHANGED <<op, from, perm>>
        /\ \A b \in Thread \ {a} : pc'[b] = pc[b]
    BY <1>15, <1>a DEF serv_rq_lock, rpcVars, TypeOK
  <2> QED BY <1>a, <2>1, EntitledMove
<1>16. ASSUME NEW a \in Server, serv_rd_rq(a) PROVE Goal
  <2>1. CASE pc' = [pc EXCEPT ![a] = "fpProtect"] /\ UNCHANGED <<op, rpcVars>>
    <3>1. /\ pc'[a] = "fpProtect" /\ UNCHANGED <<op, from, perm>>
          /\ \A b \in Thread \ {a} : pc'[b] = pc[b]
      BY <1>16, <2>1, <1>a DEF serv_rd_rq, rpcVars, TypeOK
    <3> QED BY <1>a, <3>1, EntitledMove
  <2>2. CASE \E c \in Call : call(a, "srvFetch", c, owner, "fetch_rd", requester(a))
    BY <1>16, <2>2, <1>a, EntitledCall DEF serv_rd_rq, Calling
  <2> QED BY <1>16, <2>1, <2>2 DEF serv_rd_rq
<1>17. ASSUME NEW a \in Server, serv_wr_rq(a) PROVE Goal
  <2>1. CASE \E x \in {"fpProtect", "srvInval"} : pc' = [pc EXCEPT ![a] = x]
          /\ UNCHANGED <<op, rpcVars>>
    <3>1. /\ pc'[a] \in {"fpProtect", "srvInval"} /\ UNCHANGED <<op, from, perm>>
          /\ \A b \in Thread \ {a} : pc'[b] = pc[b]
      BY <1>17, <2>1, <1>a DEF serv_wr_rq, rpcVars, TypeOK
    <3> QED BY <1>a, <3>1, EntitledMove
  <2>2. CASE \E c \in Call : call(a, "srvFetch", c, owner, "fetch_none", requester(a))
    BY <1>17, <2>2, <1>a, EntitledCall DEF serv_wr_rq, Calling
  <2> QED BY <1>17, <2>1, <2>2 DEF serv_wr_rq
<1>18. ASSUME NEW a \in Server, serv_rd_rq_own(a) \/ serv_wr_rq_own(a) PROVE Goal
  <2>1. /\ pc'[a] = "srvInval" \/ (op[a] = "rd" /\ pc'[a] \in {"protect", "done"})
        /\ UNCHANGED <<op, from>>
        /\ \A b \in Thread \ {a} : pc'[b] = pc[b]
        /\ perm'[n] = perm[n]
    BY <1>18, <1>a DEF serv_rd_rq_own, serv_wr_rq_own, served, rpcVars, TypeOK, Worker
  <2> QED BY <1>a, <2>1, EntitledMove
<1>19. ASSUME NEW a \in Server, serv_rd_rq_fetched(a) PROVE Goal
  <2>1. PICK c \in Call : hang_up(a, served(a), c) /\ pc[c] = "done" /\ from[c] = a
          /\ UNCHANGED perm /\ op[a] = "rd"
    BY <1>19 DEF serv_rd_rq_fetched, call_returns
  <2> QED BY <1>a, <2>1, EntitledHangUp DEF served
<1>20. ASSUME NEW a \in Server, serv_wr_rq_fetched(a) \/ send_invalidations_ok(a) PROVE Goal
  <2>1. PICK c \in Call : hang_up(a, "srvInval", c) /\ pc[c] = "done" /\ UNCHANGED perm
    BY <1>20 DEF serv_wr_rq_fetched, send_invalidations_ok, call_returns
  <2> QED BY <1>a, <2>1, EntitledHangUp
<1>21. ASSUME NEW a \in Server, NEW o, serv_rq_call_failed(a, o) PROVE Goal
  BY <1>21, <1>a, EntitledFail DEF serv_rq_call_failed, retried
<1>22. ASSUME NEW a \in Server, send_invalidations(a) PROVE Goal
  BY <1>22, <1>a, EntitledCall DEF send_invalidations, Calling
<1>23. ASSUME NEW a \in Server, send_invalidations_failed(a) PROVE Goal
  BY <1>23, <1>a, EntitledFail DEF send_invalidations_failed
<1>24. ASSUME NEW a \in Server, serv_wr_rq_grant(a) PROVE Goal
  <2>1. /\ pc[a] = "srvInval" /\ pc'[a] \in {"protect", "done"}
          /\ UNCHANGED <<op, from, perm>>
        /\ \A b \in Thread \ {a} : pc'[b] = pc[b]
    BY <1>24, <1>a DEF serv_wr_rq_grant, served, rpcVars, TypeOK
  <2>2. CASE a \in Call /\ from[a] = n
    BY <1>24, <1>a, <2>2 DEF Callers, requester
  <2>3. CASE ~(a \in Call /\ from[a] = n)
    BY <1>a, <2>1, <2>3 DEF Entitled, CanStore
  <2> QED BY <2>2, <2>3
<1> QED
  BY <1>1, <1>2, <1>3, <1>4, <1>5, <1>6, <1>7, <1>8, <1>9, <1>10, <1>11, <1>12,
     <1>13, <1>14, <1>15, <1>16, <1>17, <1>18, <1>19, <1>20, <1>21, <1>22, <1>23, <1>24
  DEF Next, HandlerStep, CallStep, ServerStep, rd_fault_hdlr, wr_fault_hdlr, Serve,
      serv_rd_rq_lock, serv_wr_rq_lock, serv_rd_rq_call_failed, serv_wr_rq_call_failed

-----------------------------------------------------------------------------
(***************************************************************************)
(* Requests being served.                                                  *)
(***************************************************************************)
\* The step moves no ownership and entitles nobody.
Tame == owner' = owner /\ \A n \in Worker : Entitled(n)' => Entitled(n)

\* A step of one thread only has that thread, and the caller it works for,
\* to check.
LEMMA GrantedMove ==
    ASSUME TypeOK, Callers, Grants, Tame, NEW a \in Thread,
           \A b \in Thread \ {a} : pc'[b] = pc[b] /\ op'[b] = op[b],
           UNCHANGED rpcVars, a \in Server => Granted(a)',
           a \in Call /\ from[a] \in Server /\ pc[from[a]] = "srvFetch" /\ pc'[a] \in Read
             => pc[a] \in Read \/ \A n \in Worker : n = dst[a] => ~Entitled(n)'
    PROVE  \A b \in Server : Granted(b)'
<1> SUFFICES ASSUME NEW b \in Server, b # a PROVE Granted(b)'
  OBVIOUS
<1>1. pc'[b] = pc[b] /\ op'[b] = op[b] /\ (b \in Call => req'[b] = req[b])
      /\ UNCHANGED <<from, dst>> /\ Granted(b) /\ owner' = owner
  BY ThreadSplit DEF rpcVars, Grants, Tame
<1>2. requester(b)' = requester(b)
  BY <1>1, ThreadSplit DEF requester, Server
<1>3. ASSUME NEW c \in Call, pc[b] = "srvFetch", from[c] = b, pc'[c] \in Read
      PROVE  pc[c] \in Read \/ \A n \in Worker : n = dst[c] => ~Entitled(n)'
  BY <1>3, ThreadSplit
<1> QED BY <1>1, <1>2, <1>3 DEF Granted, Tame

\* Making a call preserves what the requests being served have achieved.
LEMMA GrantedCall ==
    ASSUME TypeOK, Callers, Grants, Tame,
            NEW a \in Thread, pc[a] \notin Calling \cup {"free"},
           NEW next \in Calling, NEW c \in Call, NEW m, NEW fn, NEW who,
           call(a, next, c, m, fn, who),
           next = "srvFetch" => m = owner /\ owner # Manager,
           next = "srvAck" => pc[a] = "srvInval"
    PROVE  \A b \in Server : Granted(b)'
<1>1. /\ pc' = [pc EXCEPT ![a] = next, ![c] = "sent"]
      /\ op' = [op EXCEPT ![c] = fn]
      /\ from' = [from EXCEPT ![c] = a]
      /\ dst' = [dst EXCEPT ![c] = m]
      /\ req' = [req EXCEPT ![c] = who]
      /\ a # c
  BY DEF call
<1>2. /\ pc'[c] = "sent" /\ pc'[a] = next /\ from'[c] = a /\ dst'[c] = m
      /\ \A b \in Thread \ {a, c} : pc'[b] = pc[b]
      /\ \A b \in Thread \ {c} : op'[b] = op[b]
      /\ \A d \in Call \ {c} : from'[d] = from[d] /\ dst'[d] = dst[d] /\ req'[d] = req[d]
  BY <1>1 DEF TypeOK, Thread
<1>3. \A d \in Call \ {c} : from'[d] # a
  BY <1>2, ThreadSplit DEF Callers, Calling
<1> SUFFICES ASSUME NEW b \in Server PROVE Granted(b)'
  OBVIOUS
<1>4. CASE b = c
  BY <1>2, <1>4 DEF Granted, FetchPc
<1>5. CASE b # c
  <2>1. requester(b)' = requester(b)
    BY <1>2, <1>5, ThreadSplit DEF requester, Server
  <2>2. Granted(b) /\ owner' = owner /\ \A d \in Call : d \in Thread
    BY ThreadSplit DEF Grants, Tame
  <2>3. CASE b = a
    BY <1>2, <1>3, <2>1, <2>2, <2>3 DEF Granted, FetchPc, Tame, Calling, Read
  <2>4. CASE b # a
    <3>1. pc'[b] = pc[b] /\ op'[b] = op[b] /\ b \in Thread
      BY <1>2, <1>5, <2>4, ThreadSplit
    <3>2. ASSUME NEW d \in Call, from'[d] = b, pc[b] = "srvFetch"
          PROVE  d # c /\ from[d] = b /\ dst'[d] = dst[d]
                  /\ (pc'[d] \in Read => pc[d] \in Read)
      <4>1. d # c /\ from[d] = b /\ dst'[d] = dst[d]
        BY <1>2, <2>4, <3>2
      <4>2. CASE d = a
        BY <4>1, <4>2, <1>2 DEF Read, Calling
      <4>3. CASE d # a
        BY <4>1, <4>3, <1>2, <2>2
      <4> QED BY <4>1, <4>2, <4>3
    <3> QED BY <3>1, <3>2, <2>1, <2>2 DEF Granted, Tame
  <2> QED BY <2>3, <2>4
<1> QED BY <1>4, <1>5

\* So does a returning call.
LEMMA GrantedHangUp ==
    ASSUME TypeOK, Callers, Grants, Tame, NEW a \in Thread, NEW next, NEW c \in Call,
           hang_up(a, next, c), pc[c] \in {"sent", "done", "killed"}, from[c] \in {a,
                      NoOne},
           from[c] = NoOne => a = c,
           a # c => next \in {"lock", "srvLock", "protect", "done", "srvInval"},
           a # c /\ a \in Call /\ next = "done" => op[a] = "rd",
           a # c /\ next = "srvInval" => \A n \in Worker : n # requester(a) => ~Entitled(n)
    PROVE  \A b \in Server : Granted(b)'
<1>1. /\ pc' = [pc EXCEPT ![a] = next, ![c] = "free"]
      /\ op' = [op EXCEPT ![c] = "rd"]
      /\ from' = [from EXCEPT ![c] = NoOne]
      /\ dst' = [dst EXCEPT ![c] = Manager]
      /\ req' = [req EXCEPT ![c] = Manager]
  BY DEF hang_up
<1>2. /\ pc'[c] = "free" /\ from'[c] = NoOne /\ (a # c => pc'[a] = next)
      /\ \A b \in Thread \ {a, c} : pc'[b] = pc[b]
      /\ \A b \in Thread \ {c} : op'[b] = op[b]
      /\ \A d \in Call \ {c} : from'[d] = from[d] /\ dst'[d] = dst[d] /\ req'[d] = req[d]
  BY <1>1 DEF TypeOK, Thread
<1> SUFFICES ASSUME NEW b \in Server PROVE Granted(b)'
  OBVIOUS
<1>3. CASE b = c
  BY <1>2, <1>3 DEF Granted, FetchPc
<1>4. CASE b # c
  <2>1. requester(b)' = requester(b)
    BY <1>2, <1>4, ThreadSplit DEF requester, Server
  <2>2. Granted(b) /\ owner' = owner /\ \A d \in Call : d \in Thread
    BY ThreadSplit DEF Grants, Tame
  <2>3. CASE b = a
    BY <1>2, <1>4, <2>1, <2>2, <2>3 DEF Granted, FetchPc, Tame
  <2>4. CASE b # a
    <3>1. pc'[b] = pc[b] /\ op'[b] = op[b] /\ b \in Thread
      BY <1>2, <1>4, <2>4, ThreadSplit
    <3>2. ASSUME NEW d \in Call, from'[d] = b, pc[b] = "srvFetch"
          PROVE  d # c /\ from[d] = b /\ dst'[d] = dst[d]
                  /\ (pc'[d] \in Read => pc[d] \in Read)
      <4>1. d # c /\ from[d] = b /\ dst'[d] = dst[d] /\ op[d] \in Fetch
        BY <1>2, <3>2, ThreadSplit DEF Callers
      <4>2. CASE d = a
        BY <4>1, <4>2, <1>2 DEF Read, Fetch
      <4>3. CASE d # a
        BY <4>1, <4>3, <1>2, <2>2
      <4> QED BY <4>1, <4>2, <4>3
    <3> QED BY <3>1, <3>2, <2>1, <2>2 DEF Granted, Tame
  <2> QED BY <2>3, <2>4
<1> QED BY <1>3, <1>4

\* So does a failed one.
LEMMA GrantedFail ==
    ASSUME TypeOK, Callers, Grants, Tame, NEW a \in Thread, NEW c \in Call,
           NEW next \in {"lock", "srvLock", "srvInval"}, call_fails(a, next, c),
           next = "srvInval" => \A n \in Worker : n # requester(a) => ~Entitled(n)
    PROVE  \A b \in Server : Granted(b)'
<1>1. CASE hang_up(a, next, c) /\ pc[c] \in {"sent", "done", "killed"}
  BY <1>1, GrantedHangUp, ThreadSplit DEF call_fails
<1>2. CASE pc' = [pc EXCEPT ![a] = next] /\ from' = [from EXCEPT ![c] = NoOne]
        /\ UNCHANGED <<op, dst, req>>
  <2>1. /\ pc'[a] = next
        /\ \A b \in Thread \ {a} : pc'[b] = pc[b]
        /\ from'[c] = NoOne /\ \A d \in Call \ {c} : from'[d] = from[d]
    BY <1>2 DEF TypeOK
  <2> SUFFICES ASSUME NEW b \in Server PROVE Granted(b)'
    OBVIOUS
  <2>2. requester(b)' = requester(b)
    BY <1>2 DEF requester
  <2>3. Granted(b) /\ owner' = owner /\ \A d \in Call : d \in Thread
    BY ThreadSplit DEF Grants, Tame
  <2>4. \A d \in Call : from'[d] = b => from[d] = b /\ (pc'[d] \in Read => pc[d] \in Read)
    BY <2>1, <2>3, ThreadSplit DEF Read
  <2>5. CASE b = a
    BY <1>2, <2>1, <2>2, <2>3, <2>5 DEF Granted, FetchPc, Tame
  <2>6. CASE b # a
    <3>1. pc'[b] = pc[b] /\ op'[b] = op[b] /\ dst' = dst
      BY <1>2, <2>1, <2>6, ThreadSplit
    <3> QED BY <3>1, <2>2, <2>3, <2>4 DEF Granted, Tame
  <2> QED BY <2>5, <2>6
<1> QED BY <1>1, <1>2 DEF call_fails

\* Ownership moves in no other action than serv_wr_rq_grant.
LEMMA OwnerMoves ==
    ASSUME Next
    PROVE  owner' = owner \/ \E a \in Server : serv_wr_rq_grant(a)
  BY DEF Next, HandlerStep, CallStep, ServerStep, tblVars, Load, Store,
       sigaction_hdlr, rd_fault_hdlr, wr_fault_hdlr, ask_manager, fault_hdlr_reply,
       fault_hdlr_backoff, open_page, get_rd_page_copy, get_rd_page_protect,
       get_wr_page_copy, killed_by_signal, discard_reply, fetch_pg_lock, fetch_pg_answer,
       invalidate_adapter, fetch_pg_protect, read_page, serv_rd_rq_lock, serv_wr_rq_lock,
       serv_rq_lock, serv_rd_rq, serv_wr_rq, serv_rd_rq_own, serv_wr_rq_own,
       serv_rd_rq_fetched, serv_wr_rq_fetched, serv_rd_rq_call_failed,
       serv_wr_rq_call_failed, serv_rq_call_failed, send_invalidations,
       send_invalidations_ok, send_invalidations_failed

\* While fetch_pg holds the lock of a worker, that worker has no answer to a
\* request of its own.
LEMMA Fetched ==
    ASSUME TypeOK, Callers, Locked, NEW c \in Call, NEW n \in Worker, n = dst[c],
           pc[c] \in FetchPc, op[c] \in Fetch
    PROVE  pc[n] \notin {"wait", "protect", "copy"} /\ \A d \in Call : from[d] # n
<1>1. pageLock[n] = c /\ n \in Thread /\ n # c /\ n \in Node /\ c \in Thread
  BY CallAssumption DEF Locked, Holds, Worker, Thread, TypeOK
<1>2. ~Holds(n, n)
  BY <1>1 DEF Locked
<1>3. pc[n] \notin {"wait", "protect", "copy"}
  BY <1>2 DEF Holds
<1> QED BY <1>3 DEF Callers

\* Every step but the move of ownership keeps the requests being served on
\* course.
LEMMA GrantedStep ==
    ASSUME TypeOK, Callers, Pages, Locked, Grants, Next,
           ~\E a \in Server : serv_wr_rq_grant(a)
    PROVE  \A b \in Server : Granted(b)'
<1> USE ThreadSplit
<1>t. Tame
  BY OwnerMoves, EntitledStep DEF Tame
<1>a. /\ \A m \in Node : m \in Thread /\ m \notin Call /\ (m \in Server => m = Manager)
      /\ \A c \in Call : c \in Thread /\ c \in Server
  BY CallAssumption DEF Thread, Server
<1> DEFINE Goal == \A b \in Server : Granted(b)'
<1>1. ASSUME NEW m \in Node,
             Load(m) \/ Store(m) \/ sigaction_hdlr(m) \/ open_page(m) \/ get_rd_page_copy(m)
               \/ get_rd_page_protect(m) \/ get_wr_page_copy(m)
      PROVE  Goal
  <2>1. /\ pc'[m] \in {"run", "lock", "srvLock", "copy", "settle", "retry"}
          /\ UNCHANGED rpcVars
        /\ \A b \in Thread \ {m} : pc'[b] = pc[b] /\ op'[b] = op[b]
    BY <1>1, <1>a DEF Load, Store, sigaction_hdlr, open_page, get_rd_page_copy,
         get_rd_page_protect, get_wr_page_copy, TypeOK
  <2>2. Granted(m)'
    BY <2>1 DEF Granted, FetchPc
  <2> QED BY <1>t, <1>a, <2>1, <2>2, GrantedMove
<1>2. ASSUME NEW m \in Node, NEW fn \in Serve, ask_manager(m, fn) PROVE Goal
  BY <1>2, <1>t, <1>a, GrantedCall DEF ask_manager, Calling
<1>3. ASSUME NEW m \in Node, fault_hdlr_reply(m) PROVE Goal
  BY <1>3, <1>t, <1>a, GrantedHangUp DEF fault_hdlr_reply, call_returns
<1>4. ASSUME NEW m \in Node, fault_hdlr_backoff(m) PROVE Goal
  BY <1>4, <1>t, <1>a, GrantedFail DEF fault_hdlr_backoff
<1>5. ASSUME NEW m \in Node, killed_by_signal(m) PROVE Goal
  <2>1. /\ UNCHANGED <<op, dst, req>> /\ \A b \in Thread : pc'[b] \in {pc[b], "killed"}
        /\ \A c \in Call : from'[c] \in {from[c], NoOne}
    BY <1>5, <1>a DEF killed_by_signal
  <2>2. \A b \in Server : requester(b)' = requester(b)
    BY <2>1 DEF requester
  <2> QED BY <1>t, <1>a, <2>1, <2>2 DEF Granted, Grants, Tame, FetchPc, Read
<1>6. ASSUME NEW c \in Call, discard_reply(c) PROVE Goal
  BY <1>6, <1>t, <1>a, GrantedHangUp DEF discard_reply
<1>7. ASSUME NEW c \in Call, fetch_pg_lock(c) PROVE Goal
  <2>1. /\ pc'[c] = "fpProtect" /\ UNCHANGED <<op, rpcVars>> /\ op[c] \in Fetch
        /\ \A b \in Thread \ {c} : pc'[b] = pc[b]
    BY <1>7, <1>a DEF fetch_pg_lock, TypeOK, Fetch
  <2>2. Granted(c)'
    BY <2>1 DEF Granted, Fetch, Serve, rpcVars
  <2> QED BY <1>t, <1>a, <2>1, <2>2, GrantedMove DEF Read
<1>8. ASSUME NEW c \in Call, fetch_pg_answer(c) PROVE Goal
  <2>1. /\ pc[c] = "fpSet" /\ pc'[c] = "done" /\ UNCHANGED <<op, rpcVars>>
        /\ \A b \in Thread \ {c} : pc'[b] = pc[b]
    BY <1>8, <1>a DEF fetch_pg_answer, TypeOK
  <2>2. Granted(c)'
    BY <2>1 DEF Granted, FetchPc
  <2> QED BY <1>t, <1>a, <2>1, <2>2, GrantedMove DEF Read
<1>9. ASSUME NEW c \in Call, invalidate_adapter(c) PROVE Goal
  <2>1. /\ op[c] = "inval" /\ pc'[c] = "done" /\ UNCHANGED <<op, rpcVars>>
        /\ \A b \in Thread \ {c} : pc'[b] = pc[b]
    BY <1>9, <1>a DEF invalidate_adapter, TypeOK
  <2>2. Granted(c)'
    BY <2>1 DEF Granted, FetchPc
  <2>3. from[c] \in Server => pc[from[c]] # "srvFetch"
    BY <2>1 DEF Callers, Fetch
  <2> QED BY <1>t, <1>a, <2>1, <2>2, <2>3, GrantedMove
<1>10. ASSUME NEW a \in Server, fetch_pg_protect(a) PROVE Goal
  <2>1. /\ pc[a] = "fpProtect" /\ pc'[a] = "fpRead" /\ UNCHANGED <<op, rpcVars>>
        /\ \A b \in Thread \ {a} : pc'[b] = pc[b]
    BY <1>10, <1>a DEF fetch_pg_protect, TypeOK
  <2>2. Granted(a)'
    BY <1>t, <2>1 DEF Granted, FetchPc, Grants, Tame, Serve
  <2>3. ASSUME a \in Call, from[a] \in Server, pc[from[a]] = "srvFetch",
          NEW n \in Worker, n = dst[a]
        PROVE  ~Entitled(n)'
    <3>1. op[a] \in Fetch
      BY <2>3 DEF Callers
    <3>2. pc[n] \notin {"wait", "protect", "copy"} /\ \A d \in Call : from[d] # n
      BY <2>1, <2>3, <3>1, Fetched DEF FetchPc
    <3>3. pc'[n] = pc[n] /\ from' = from /\ n # a
      BY <2>1, <2>3, <1>a DEF rpcVars, Worker
    <3>4. perm'[n] = "rd"
      BY <1>10, <2>3, <1>a DEF fetch_pg_protect, home, TypeOK, Worker
    <3> QED BY <3>2, <3>3, <3>4 DEF Entitled, CanStore
  <2> QED BY <1>t, <1>a, <2>1, <2>2, <2>3, GrantedMove
<1>11. ASSUME NEW a \in Server, read_page(a) PROVE Goal
  <2>1. /\ pc[a] = "fpRead" /\ pc'[a] = "fpSet" /\ UNCHANGED <<op, rpcVars>>
        /\ \A b \in Thread \ {a} : pc'[b] = pc[b]
    BY <1>11, <1>a DEF read_page, TypeOK
  <2>2. Granted(a)'
    BY <1>t, <2>1 DEF Granted, FetchPc, Grants, Tame, Serve
  <2> QED BY <1>t, <1>a, <2>1, <2>2, GrantedMove DEF Read
<1>12. ASSUME NEW a \in Server, NEW o, serv_rq_lock(a, o) PROVE Goal
  <2>1. /\ pc'[a] = "srvInfo" /\ UNCHANGED <<op, rpcVars>>
        /\ \A b \in Thread \ {a} : pc'[b] = pc[b]
    BY <1>12, <1>a DEF serv_rq_lock, TypeOK
  <2>2. Granted(a)'
    BY <2>1 DEF Granted, FetchPc
  <2> QED BY <1>t, <1>a, <2>1, <2>2, GrantedMove DEF Read
<1>13. ASSUME NEW a \in Server, serv_rd_rq(a) \/ serv_wr_rq(a) PROVE Goal
  <2>1. pc[a] = "srvInfo" /\ owner' = owner
    BY <1>13, <1>t DEF serv_rd_rq, serv_wr_rq, Tame
  <2>2. CASE owner = Manager /\ pc' = [pc EXCEPT ![a] = "fpProtect"]
          /\ UNCHANGED <<op, rpcVars>>
    <3>1. /\ pc'[a] = "fpProtect" /\ UNCHANGED <<op, rpcVars>>
          /\ \A b \in Thread \ {a} : pc'[b] = pc[b]
      BY <2>2, <1>a DEF TypeOK
    <3>2. Granted(a)'
      BY <2>1, <2>2, <3>1 DEF Granted, FetchPc
    <3> QED BY <1>t, <1>a, <3>1, <3>2, GrantedMove DEF Read
  <2>3. CASE owner # Manager
          /\ \E c \in Call, fn \in Fetch : call(a, "srvFetch", c, owner, fn, requester(a))
    BY <1>t, <1>a, <2>1, <2>3, GrantedCall DEF Calling
  <2>4. CASE owner = requester(a) /\ pc' = [pc EXCEPT ![a] = "srvInval"]
          /\ UNCHANGED <<op, rpcVars>>
    <3>1. /\ pc'[a] = "srvInval" /\ UNCHANGED <<op, rpcVars>>
          /\ \A b \in Thread \ {a} : pc'[b] = pc[b]
      BY <2>4, <1>a DEF TypeOK
    <3>2. requester(a)' = requester(a)
      BY <3>1 DEF requester, rpcVars
    <3>3. Granted(a)'
      BY <1>t, <2>1, <2>4, <3>1, <3>2 DEF Granted, FetchPc, Grants, Tame
    <3> QED BY <1>t, <1>a, <3>1, <3>3, GrantedMove DEF Read
  <2>5. CASE serv_rd_rq(a)
    BY <2>2, <2>3, <2>5 DEF serv_rd_rq, Fetch
  <2>6. CASE serv_wr_rq(a)
    BY <2>2, <2>3, <2>4, <2>6 DEF serv_wr_rq, owner_asks, Fetch
  <2> QED BY <1>13, <2>5, <2>6
<1>14. ASSUME NEW a \in Server, serv_rd_rq_own(a) PROVE Goal
  <2>1. /\ pc'[a] \in {"protect", "done"} /\ UNCHANGED <<op, rpcVars>> /\ op[a] = "rd"
        /\ \A b \in Thread \ {a} : pc'[b] = pc[b]
    BY <1>14, <1>a DEF serv_rd_rq_own, served, TypeOK
  <2>2. Granted(a)'
    BY <2>1 DEF Granted, FetchPc
  <2>3. a \in Call /\ from[a] \in Server => pc[from[a]] # "srvFetch"
    BY <2>1 DEF Callers, Fetch
  <2> QED BY <1>t, <1>a, <2>1, <2>2, <2>3, GrantedMove
<1>15. ASSUME NEW a \in Server, serv_wr_rq_own(a) PROVE Goal
  <2>1. /\ pc[a] = "fpSet" /\ pc'[a] = "srvInval" /\ UNCHANGED <<op, rpcVars>>
          /\ op[a] = "wr"
        /\ \A b \in Thread \ {a} : pc'[b] = pc[b]
    BY <1>15, <1>a DEF serv_wr_rq_own, TypeOK
  <2>2. owner = Manager
    BY <2>1 DEF Grants, Granted, FetchPc, Serve
  <2>3. Granted(a)'
    BY <1>t, <2>1, <2>2 DEF Granted, FetchPc, Grants, Tame, Worker
  <2> QED BY <1>t, <1>a, <2>1, <2>3, GrantedMove DEF Read
<1>16. ASSUME NEW a \in Server, serv_rd_rq_fetched(a) PROVE Goal
  <2>1. PICK c \in Call : hang_up(a, served(a), c) /\ pc[c] = "done" /\ from[c] = a
          /\ op[a] = "rd"
    BY <1>16 DEF serv_rd_rq_fetched, call_returns
  <2> QED BY <1>t, <1>a, <2>1, GrantedHangUp DEF served
<1>17. ASSUME NEW a \in Server, serv_wr_rq_fetched(a) PROVE Goal
  <2>1. PICK c \in Call : hang_up(a, "srvInval", c) /\ pc[c] = "done" /\ from[c] = a
          /\ pc[a] = "srvFetch"
    BY <1>17 DEF serv_wr_rq_fetched, call_returns
  <2>2. \A n \in Worker : ~Entitled(n)
    BY <2>1 DEF Grants, Granted, Read
  <2> QED BY <1>t, <1>a, <2>1, <2>2, GrantedHangUp
<1>18. ASSUME NEW a \in Server, send_invalidations_ok(a) PROVE Goal
  <2>1. PICK c \in Call : hang_up(a, "srvInval", c) /\ pc[c] = "done" /\ from[c] = a
          /\ pc[a] = "srvAck"
    BY <1>18 DEF send_invalidations_ok, call_returns
  <2>2. \A n \in Worker : n # requester(a) => ~Entitled(n)
    BY <2>1 DEF Grants, Granted
  <2> QED BY <1>t, <1>a, <2>1, <2>2, GrantedHangUp
<1>19. ASSUME NEW a \in Server, NEW o, serv_rq_call_failed(a, o) PROVE Goal
  BY <1>19, <1>t, <1>a, GrantedFail DEF serv_rq_call_failed, retried
<1>20. ASSUME NEW a \in Server, send_invalidations(a) PROVE Goal
  BY <1>20, <1>t, <1>a, GrantedCall DEF send_invalidations, Calling
<1>21. ASSUME NEW a \in Server, send_invalidations_failed(a) PROVE Goal
  <2>1. PICK c \in Call : call_fails(a, "srvInval", c) /\ pc[a] = "srvAck"
    BY <1>21 DEF send_invalidations_failed
  <2>2. \A n \in Worker : n # requester(a) => ~Entitled(n)
    BY <2>1 DEF Grants, Granted
  <2> QED BY <1>t, <1>a, <2>1, <2>2, GrantedFail
<1> QED
  BY <1>1, <1>2, <1>3, <1>4, <1>5, <1>6, <1>7, <1>8, <1>9, <1>10, <1>11, <1>12,
     <1>13, <1>14, <1>15, <1>16, <1>17, <1>18, <1>19, <1>20, <1>21
  DEF Next, HandlerStep, CallStep, ServerStep, rd_fault_hdlr, wr_fault_hdlr, Serve,
      serv_rd_rq_lock, serv_wr_rq_lock, serv_rd_rq_call_failed, serv_wr_rq_call_failed

\* Every step keeps ownership the only source of the right to store.
LEMMA GrantsStep ==
    ASSUME TypeOK, Callers, Pages, Locked, Grants, Next PROVE Grants'
<1>1. CASE ~\E a \in Server : serv_wr_rq_grant(a)
  <2>1. owner' = owner /\ \A n \in Worker : Entitled(n)' => Entitled(n)
    BY <1>1, OwnerMoves, EntitledStep
  <2>2. \A b \in Server : Granted(b)'
    BY <1>1, GrantedStep
  <2> QED BY <2>1, <2>2 DEF Grants
<1>2. ASSUME NEW a \in Server, serv_wr_rq_grant(a) PROVE Grants'
  <2>1. /\ pc[a] = "srvInval" /\ owner' = requester(a) /\ pc'[a] \in {"protect", "done"}
        /\ \A b \in Thread \ {a} : pc'[b] = pc[b] /\ UNCHANGED op
    BY <1>2, ThreadSplit DEF serv_wr_rq_grant, served, TypeOK
  <2>2. \A n \in Worker : n # requester(a) => ~Entitled(n)
    BY <2>1 DEF Grants, Granted
  <2>3. ASSUME NEW n \in Worker, Entitled(n)' PROVE owner' = n
    <3>1. CASE Entitled(n)
      BY <2>1, <2>2, <3>1
    <3>2. CASE \E b \in Server : serv_wr_rq_grant(b) /\ n = requester(b)
      BY <2>1, <3>2 DEF serv_wr_rq_grant
    <3> QED BY <2>3, <3>1, <3>2, EntitledStep
  <2>4. ASSUME NEW b \in Server PROVE Granted(b)'
    <3>1. CASE b = a
      BY <2>1, <3>1 DEF Granted, FetchPc
    <3>2. CASE b # a
      <4>1. Holds(a, Manager)
        BY <2>1 DEF Holds, Serving
      <4>2. ~Holds(b, Manager)
        BY <3>2, <4>1, ThreadSplit DEF Locked
      <4>3. ~Serving(b)
        BY <4>2 DEF Holds
      <4>4. pc'[b] = pc[b] /\ op'[b] = op[b]
        BY <2>1, <3>2, ThreadSplit
      <4> QED BY <4>3, <4>4 DEF Serving, Granted
    <3> QED BY <3>1, <3>2
  <2> QED BY <2>3, <2>4 DEF Grants
<1> QED BY <1>1, <1>2

-----------------------------------------------------------------------------
(***************************************************************************)
(* Protection of the page.                                                 *)
(***************************************************************************)

\* Actions that change no protection: those of programs, of calls and their
\* answers, and of the manager's table.
LEMMA PermMoves ==
    ASSUME Next, perm' # perm
    PROVE  \/ \E n \in Node : open_page(n) \/ get_rd_page_protect(n)
           \/ \E c \in Call : fetch_pg_answer(c) \/ invalidate_adapter(c)
           \/ \E a \in Server : \/ fetch_pg_protect(a)
                                \/ serv_rd_rq_own(a) \/ serv_wr_rq_own(a)
  BY DEF Next, HandlerStep, CallStep, ServerStep, Load, Store, sigaction_hdlr,
       rd_fault_hdlr, wr_fault_hdlr, ask_manager, fault_hdlr_reply,
       fault_hdlr_backoff, get_rd_page_copy, get_wr_page_copy, killed_by_signal,
       discard_reply, fetch_pg_lock, read_page, serv_rd_rq_lock, serv_wr_rq_lock,
       serv_rq_lock, serv_rd_rq, serv_wr_rq, serv_rd_rq_fetched, serv_wr_rq_fetched,
       serv_rd_rq_call_failed, serv_wr_rq_call_failed, serv_rq_call_failed,
       send_invalidations, send_invalidations_ok, send_invalidations_failed,
       serv_wr_rq_grant

\* The program thread of a node starts to copy a page in open_page only.
LEMMA CopyEntered ==
    ASSUME TypeOK, Next, NEW n \in Node, pc[n] # "copy", pc'[n] = "copy"
    PROVE  open_page(n)
<1> USE ThreadSplit
<1>a. /\ RpcTyped /\ n \in Thread /\ n \notin Call
      /\ \A a \in Server : served(a) # "copy" /\ retried(a) # "copy"
  BY CallAssumption DEF TypeOK, RpcTyped, Thread, served, retried
<1>1. ASSUME NEW a \in Thread, NEW next \in Pc \ {"copy"}, NEW c \in Call,
             hang_up(a, next, c) \/ call_fails(a, next, c)
      PROVE  FALSE
  BY <1>1, <1>a DEF hang_up, call_fails, RpcTyped
<1>2. ASSUME NEW a \in Thread, NEW next \in Pc \ {"copy"}, NEW c \in Call,
             NEW m, NEW fn, NEW who, call(a, next, c, m, fn, who)
      PROVE  FALSE
  BY <1>2, <1>a DEF call, RpcTyped
<1>3. ASSUME NEW a \in Thread, NEW next \in Pc \ {"copy"}, pc' = [pc EXCEPT ![a] = next]
      PROVE  FALSE
  BY <1>3, <1>a DEF RpcTyped
<1>p. /\ \A a \in Server : a \in Thread /\ served(a) \in Pc /\ retried(a) \in Pc
      /\ {"run", "retry", "lock", "wait", "protect", "settle", "free", "done",
          "srvLock", "srvInfo", "srvFetch", "srvInval", "srvAck",
          "fpProtect", "fpRead", "fpSet"} \subseteq Pc \ {"copy"}
  BY DEF served, retried, Pc, AppPc, ServePc, FetchPc, CallPc
<1>n. \A m \in Node : m \in Thread
  BY DEF Thread
<1>4. ASSUME NEW m \in Node, Load(m) \/ Store(m) \/ sigaction_hdlr(m) PROVE FALSE
  BY <1>4, <1>3, <1>p, <1>n DEF Load, Store, sigaction_hdlr
<1>5. ASSUME NEW m \in Node, HandlerStep(m) PROVE open_page(n)
  <2>1. ASSUME NEW fn, ask_manager(m, fn) PROVE FALSE
    BY <2>1, <1>2, <1>p, <1>n DEF ask_manager
  <2>2. ASSUME fault_hdlr_reply(m) \/ fault_hdlr_backoff(m) PROVE FALSE
    BY <2>2, <1>1, <1>p, <1>n DEF fault_hdlr_reply, fault_hdlr_backoff, call_returns
  <2>3. ASSUME get_rd_page_copy(m) \/ get_rd_page_protect(m) \/ get_wr_page_copy(m)
        PROVE  FALSE
    BY <2>3, <1>3, <1>p, <1>n DEF get_rd_page_copy, get_rd_page_protect, get_wr_page_copy
  <2>4. ASSUME killed_by_signal(m) PROVE FALSE
    BY <2>4, <1>a DEF killed_by_signal
  <2>5. ASSUME open_page(m) PROVE open_page(n)
    BY <2>5, <1>a, <1>n DEF open_page, RpcTyped
  <2> QED
    BY <1>5, <2>1, <2>2, <2>3, <2>4, <2>5 DEF HandlerStep, rd_fault_hdlr, wr_fault_hdlr
<1>6. ASSUME NEW c \in Call, CallStep(c) PROVE FALSE
  BY <1>6, <1>1, <1>3, <1>p
  DEF CallStep, discard_reply, fetch_pg_lock, fetch_pg_answer, invalidate_adapter
<1>7. ASSUME NEW a \in Server, ServerStep(a) PROVE FALSE
  <2>1. ASSUME NEW o, serv_rq_lock(a, o) PROVE FALSE
    BY <2>1, <1>3, <1>p DEF serv_rq_lock
  <2>2. ASSUME NEW o, serv_rq_call_failed(a, o) PROVE FALSE
    BY <2>2, <1>a, <1>1, <1>p DEF serv_rq_call_failed
  <2>3. ASSUME fetch_pg_protect(a) \/ read_page(a) \/ serv_rd_rq_own(a)
                 \/ serv_wr_rq_own(a) \/ serv_wr_rq_grant(a)
        PROVE  FALSE
    BY <2>3, <1>a, <1>3, <1>p
    DEF fetch_pg_protect, read_page, serv_rd_rq_own, serv_wr_rq_own, serv_wr_rq_grant
  <2>4. ASSUME serv_rd_rq(a) \/ serv_wr_rq(a) \/ send_invalidations(a) PROVE FALSE
    BY <2>4, <1>2, <1>3, <1>p DEF serv_rd_rq, serv_wr_rq, send_invalidations
  <2>5. ASSUME serv_rd_rq_fetched(a) \/ serv_wr_rq_fetched(a)
                 \/ send_invalidations_ok(a) \/ send_invalidations_failed(a)
        PROVE  FALSE
    BY <2>5, <1>a, <1>1, <1>p DEF serv_rd_rq_fetched, serv_wr_rq_fetched,
       send_invalidations_ok, send_invalidations_failed, call_returns
  <2> QED
    BY <1>7, <2>1, <2>2, <2>3, <2>4, <2>5
    DEF ServerStep, serv_rd_rq_lock, serv_wr_rq_lock, serv_rd_rq_call_failed,
        serv_wr_rq_call_failed
<1> QED BY <1>4, <1>5, <1>6, <1>7 DEF Next

\* No step takes the page a worker copies in away from it: fetch_pg and
\* invalidate_pg need the lock which that worker holds.
LEMMA OpenCopyStep ==
    ASSUME TypeOK, Callers, Pages, Locked, OpenCopy, Next
    PROVE  OpenCopy'
<1> SUFFICES ASSUME NEW n \in Worker, pc'[n] = "copy" PROVE perm'[n] = "rw"
  BY DEF OpenCopy
<1>a. n \in Node /\ n # Manager /\ n \in Thread /\ n \notin Call
  BY CallAssumption DEF Worker, Thread
<1>1. CASE pc[n] # "copy"
  BY <1>1, <1>a, CopyEntered DEF open_page, TypeOK
<1>2. CASE pc[n] = "copy"
  <2>1. Holds(n, n) /\ pageLock[n] = n /\ perm[n] = "rw"
    BY <1>2, <1>a DEF Holds, Locked, OpenCopy
  <2>2. \A a \in Thread : a # n => ~Holds(a, n)
    BY <2>1, <1>a DEF Locked
  <2>3. ASSUME NEW m \in Node, open_page(m) \/ get_rd_page_protect(m)
        PROVE  perm'[n] = "rw"
    BY <2>1, <2>3, <1>2, <1>a DEF open_page, get_rd_page_protect, TypeOK
  <2>4. ASSUME NEW c \in Call, fetch_pg_answer(c) PROVE perm'[n] = "rw"
    <3>1. Holds(c, dst[c]) /\ c \in Thread /\ c # n
      BY <2>4, <1>a, ThreadSplit DEF fetch_pg_answer, Holds, FetchPc, Fetch, Thread
    <3>2. dst[c] # n
      BY <3>1, <2>2
    <3> QED BY <2>1, <2>4, <3>2, <1>a DEF fetch_pg_answer, TypeOK
  <2>5. ASSUME NEW c \in Call, invalidate_adapter(c) PROVE perm'[n] = "rw"
    <3>1. dst[c] # n
      BY <2>1, <2>5, <1>a, ThreadSplit DEF invalidate_adapter, ivld_ready
    <3> QED BY <2>1, <2>5, <3>1, <1>a DEF invalidate_adapter, TypeOK
  <2>6. ASSUME NEW a \in Server, fetch_pg_protect(a) PROVE perm'[n] = "rw"
    <3>1. home(a) # n
      <4>1. CASE a = Manager
        BY <4>1, <1>a, ThreadSplit DEF home
      <4>2. CASE a \in Call /\ op[a] \in Serve
        BY <4>2, <1>a, CallAssumption DEF Callers, home
      <4>3. CASE a \in Call /\ op[a] \in Fetch
        <5>1. Holds(a, dst[a]) /\ a \in Thread /\ a # n
          BY <2>6, <4>3, <1>a, ThreadSplit DEF fetch_pg_protect, Holds, FetchPc
        <5> QED BY <5>1, <2>2, <4>3, CallAssumption DEF home
      <4>4. a \in Call => op[a] \in Serve \cup Fetch
        BY <2>6, ThreadSplit DEF fetch_pg_protect, Pages, Paged, FetchPc, TypeOK,
           Op, Serve, Fetch
      <4> QED BY <4>1, <4>2, <4>3, <4>4 DEF Server
    <3> QED BY <2>1, <2>6, <3>1, <1>a DEF fetch_pg_protect, TypeOK
  <2>7. ASSUME NEW a \in Server, serv_rd_rq_own(a) \/ serv_wr_rq_own(a)
        PROVE  perm'[n] = "rw"
    BY <2>1, <2>7, <1>a DEF serv_rd_rq_own, serv_wr_rq_own, TypeOK
  <2> QED BY <2>1, <2>3, <2>4, <2>5, <2>6, <2>7, PermMoves
<1> QED BY <1>1, <1>2

\* A program, a fault handler that fills its page, and a process that was
\* killed move in their own actions only.
LEMMA OwnMoves ==
    ASSUME TypeOK, Next, NEW n \in Node, pc[n] \in {"run", "copy", "settle", "killed"},
           pc'[n] # pc[n]
    PROVE  \/ Load(n) \/ Store(n) \/ sigaction_hdlr(n)
           \/ get_rd_page_copy(n) \/ get_rd_page_protect(n)
           \/ get_wr_page_copy(n) \/ killed_by_signal(n)
<1> USE ThreadSplit
<1> DEFINE Own == \/ Load(n) \/ Store(n) \/ sigaction_hdlr(n)
                  \/ get_rd_page_copy(n) \/ get_rd_page_protect(n)
                  \/ get_wr_page_copy(n) \/ killed_by_signal(n)
<1>a. /\ RpcTyped /\ n \in Thread /\ n \notin Call
      /\ \A m \in Node : m \in Thread
      /\ \A a \in Server : a \in Thread
  BY CallAssumption DEF TypeOK, RpcTyped, Thread
<1>1. ASSUME NEW a \in Thread, a # n, NEW next, NEW c \in Call,
             hang_up(a, next, c) \/ call_fails(a, next, c)
      PROVE  FALSE
  BY <1>1, <1>a DEF hang_up, call_fails, RpcTyped
<1>2. ASSUME NEW a \in Thread, a # n, NEW next, NEW c \in Call,
             NEW m, NEW fn, NEW who, call(a, next, c, m, fn, who)
      PROVE  FALSE
  BY <1>2, <1>a DEF call, RpcTyped
<1>3. ASSUME NEW a \in Thread, a # n, NEW next, pc' = [pc EXCEPT ![a] = next]
      PROVE  FALSE
  BY <1>3, <1>a DEF RpcTyped
<1>4. ASSUME NEW m \in Node, Load(m) \/ Store(m) \/ sigaction_hdlr(m) PROVE Own
  BY <1>4, <1>3, <1>a DEF Load, Store, sigaction_hdlr, Accesses
<1>5. ASSUME NEW m \in Node, HandlerStep(m) PROVE Own
  <2>1. ASSUME NEW fn, ask_manager(m, fn) PROVE FALSE
    BY <2>1, <1>2, <1>a DEF ask_manager
  <2>2. ASSUME fault_hdlr_reply(m) \/ fault_hdlr_backoff(m) PROVE FALSE
    BY <2>2, <1>1, <1>a DEF fault_hdlr_reply, fault_hdlr_backoff, call_returns
  <2>3. ASSUME open_page(m) PROVE FALSE
    BY <2>3, <1>3, <1>a DEF open_page
  <2>4. ASSUME get_rd_page_copy(m) \/ get_rd_page_protect(m) \/ get_wr_page_copy(m)
        PROVE  Own
    BY <2>4, <1>3, <1>a DEF get_rd_page_copy, get_rd_page_protect, get_wr_page_copy
  <2>5. ASSUME killed_by_signal(m) PROVE Own
    <3>1. home(n) = n
      BY DEF home
    <3> QED BY <2>5, <3>1, <1>a DEF killed_by_signal
  <2> QED
    BY <1>5, <2>1, <2>2, <2>3, <2>4, <2>5 DEF HandlerStep, rd_fault_hdlr, wr_fault_hdlr
<1>6. ASSUME NEW c \in Call, CallStep(c) PROVE FALSE
  BY <1>6, <1>1, <1>3, <1>a
  DEF CallStep, discard_reply, fetch_pg_lock, fetch_pg_answer, invalidate_adapter
<1>7. ASSUME NEW a \in Server, ServerStep(a) PROVE FALSE
  <2>1. ASSUME NEW o, serv_rq_lock(a, o) PROVE FALSE
    BY <2>1, <1>3, <1>a DEF serv_rq_lock
  <2>2. ASSUME NEW o, serv_rq_call_failed(a, o) PROVE FALSE
    BY <2>2, <1>a, <1>1 DEF serv_rq_call_failed
  <2>3. ASSUME fetch_pg_protect(a) \/ read_page(a) \/ serv_rd_rq_own(a)
                 \/ serv_wr_rq_own(a) \/ serv_wr_rq_grant(a)
        PROVE  FALSE
    BY <2>3, <1>a, <1>3
    DEF fetch_pg_protect, read_page, serv_rd_rq_own, serv_wr_rq_own, serv_wr_rq_grant
  <2>4. ASSUME serv_rd_rq(a) \/ serv_wr_rq(a) \/ send_invalidations(a) PROVE FALSE
    BY <2>4, <1>2, <1>3, <1>a DEF serv_rd_rq, serv_wr_rq, send_invalidations
  <2>5. ASSUME serv_rd_rq_fetched(a) \/ serv_wr_rq_fetched(a)
                 \/ send_invalidations_ok(a) \/ send_invalidations_failed(a)
        PROVE  FALSE
    BY <2>5, <1>a, <1>1 DEF serv_rd_rq_fetched, serv_wr_rq_fetched,
       send_invalidations_ok, send_invalidations_failed, call_returns
  <2> QED
    BY <1>7, <2>1, <2>2, <2>3, <2>4, <2>5
    DEF ServerStep, serv_rd_rq_lock, serv_wr_rq_lock, serv_rd_rq_call_failed,
        serv_wr_rq_call_failed
<1> QED BY <1>4, <1>5, <1>6, <1>7 DEF Next

\* The access of a program thread is chosen by its program alone.
LEMMA AccessMoves ==
    ASSUME TypeOK, Next, NEW n \in Node, op'[n] # op[n]
    PROVE  Load(n) \/ Store(n) \/ sigaction_hdlr(n)
<1>a. /\ RpcTyped /\ n \in Thread /\ n \notin Call
  BY CallAssumption DEF TypeOK, RpcTyped, Thread
<1>1. ASSUME NEW a, NEW next, NEW c \in Call,
             hang_up(a, next, c) \/ call_fails(a, next, c)
      PROVE  FALSE
  BY <1>1, <1>a DEF hang_up, call_fails, RpcTyped
<1>2. ASSUME NEW a, NEW next, NEW c \in Call,
             NEW m, NEW fn, NEW who, call(a, next, c, m, fn, who)
      PROVE  FALSE
  BY <1>2, <1>a DEF call, RpcTyped
<1>3. ASSUME NEW m \in Node, Load(m) \/ Store(m) \/ sigaction_hdlr(m)
      PROVE  Load(n) \/ Store(n) \/ sigaction_hdlr(n)
  BY <1>3, <1>a DEF Load, Store, sigaction_hdlr, RpcTyped
<1>4. ASSUME NEW m \in Node, HandlerStep(m) PROVE FALSE
  <2>1. ASSUME NEW fn, ask_manager(m, fn) PROVE FALSE
    BY <2>1, <1>2 DEF ask_manager
  <2>2. ASSUME fault_hdlr_reply(m) \/ fault_hdlr_backoff(m) PROVE FALSE
    BY <2>2, <1>1 DEF fault_hdlr_reply, fault_hdlr_backoff, call_returns
  <2> QED
    BY <1>4, <2>1, <2>2 DEF HandlerStep, rd_fault_hdlr, wr_fault_hdlr, open_page,
       get_rd_page_copy, get_rd_page_protect, get_wr_page_copy, killed_by_signal
<1>5. ASSUME NEW c \in Call, CallStep(c) PROVE FALSE
  BY <1>5, <1>1
  DEF CallStep, discard_reply, fetch_pg_lock, fetch_pg_answer, invalidate_adapter
<1>6. ASSUME NEW a \in Server, ServerStep(a) PROVE FALSE
  <2>1. ASSUME NEW o, serv_rq_lock(a, o) \/ serv_rq_call_failed(a, o) PROVE FALSE
    BY <2>1, <1>1 DEF serv_rq_lock, serv_rq_call_failed
  <2>2. ASSUME serv_rd_rq(a) \/ serv_wr_rq(a) \/ send_invalidations(a) PROVE FALSE
    BY <2>2, <1>2 DEF serv_rd_rq, serv_wr_rq, send_invalidations
  <2>3. ASSUME serv_rd_rq_fetched(a) \/ serv_wr_rq_fetched(a)
                 \/ send_invalidations_ok(a) \/ send_invalidations_failed(a)
        PROVE  FALSE
    BY <2>3, <1>1 DEF serv_rd_rq_fetched, serv_wr_rq_fetched,
       send_invalidations_ok, send_invalidations_failed, call_returns
  <2> QED
    BY <1>6, <2>1, <2>2, <2>3 DEF ServerStep, serv_rd_rq_lock, serv_wr_rq_lock,
       serv_rd_rq_call_failed, serv_wr_rq_call_failed, fetch_pg_protect, read_page,
       serv_rd_rq_own, serv_wr_rq_own, serv_wr_rq_grant
<1> QED BY <1>3, <1>4, <1>5, <1>6 DEF Next

\* No step makes the page of a manager that does not store writable, but for
\* the time its fault handler copies a page in.
LEMMA ReaderStep ==
    ASSUME TypeOK, Reader, Next
    PROVE  Reader'
<1> SUFFICES ASSUME Manager \notin Storer
             PROVE  /\ op'[Manager] = "rd"
                    /\ perm'[Manager] = "rw" => pc'[Manager] \in {"copy", "settle",
                               "killed"}
  BY DEF Reader
<1>a. /\ Manager \in Node /\ Manager \in Thread /\ Manager \notin Call
      /\ op[Manager] = "rd"
      /\ perm[Manager] = "rw" => pc[Manager] \in {"copy", "settle", "killed"}
  BY ThreadSplit DEF Reader, Thread
<1>1. op'[Manager] = "rd"
  BY <1>a, AccessMoves DEF Load, Store, sigaction_hdlr, Accesses, TypeOK
<1>2. ASSUME perm'[Manager] = "rw", perm[Manager] # "rw"
      PROVE  pc'[Manager] \in {"copy", "settle", "killed"}
  <2>1. ASSUME NEW n \in Node, open_page(n) \/ get_rd_page_protect(n)
        PROVE  pc'[Manager] = "copy"
    BY <1>2, <2>1, <1>a DEF open_page, get_rd_page_protect, TypeOK
  <2>2. ASSUME NEW c \in Call, fetch_pg_answer(c) \/ invalidate_adapter(c)
        PROVE  FALSE
    BY <1>2, <2>2, <1>a DEF fetch_pg_answer, invalidate_adapter, left_access, TypeOK
  <2>3. ASSUME NEW a \in Server,
               fetch_pg_protect(a) \/ serv_rd_rq_own(a) \/ serv_wr_rq_own(a)
        PROVE  FALSE
    BY <1>2, <2>3, <1>a
    DEF fetch_pg_protect, serv_rd_rq_own, serv_wr_rq_own, left_access, TypeOK
  <2> QED BY <1>2, <2>1, <2>2, <2>3, PermMoves
<1>3. ASSUME perm'[Manager] = "rw", perm[Manager] = "rw"
      PROVE  pc'[Manager] \in {"copy", "settle", "killed"}
  <2>1. CASE get_rd_page_copy(Manager)
    BY <2>1, <1>a DEF get_rd_page_copy, TypeOK
  <2>2. CASE get_rd_page_protect(Manager)
    BY <1>3, <2>2, <1>a DEF get_rd_page_protect, TypeOK
  <2>3. CASE get_wr_page_copy(Manager)
    BY <2>3, <1>a DEF get_wr_page_copy
  <2>4. CASE killed_by_signal(Manager)
    <3>1. home(Manager) = Manager /\ pc[Manager] # "free"
      BY <1>3, <1>a DEF home
    <3> QED BY <2>4, <3>1, <1>a DEF killed_by_signal
  <2>5. ~(Load(Manager) \/ Store(Manager) \/ sigaction_hdlr(Manager))
    BY <1>3, <1>a DEF Load, Store, sigaction_hdlr, Accesses
  <2> QED BY <1>3, <1>a, <2>1, <2>2, <2>3, <2>4, <2>5, OwnMoves
<1> QED BY <1>1, <1>2, <1>3

\* A manager without a program that uses the page never faults.
LEMMA IdlerStep ==
    ASSUME TypeOK, Idler, Next
    PROVE  Idler'
<1> SUFFICES ASSUME Manager \notin Loader \cup Storer, pc'[Manager] # "run"
             PROVE  FALSE
  BY DEF Idler
<1>1. pc[Manager] = "run" /\ Manager \in Node
  BY ThreadSplit DEF Idler
<1> QED
  BY <1>1, OwnMoves DEF Load, Store, sigaction_hdlr, Accesses, get_rd_page_copy,
     get_rd_page_protect, get_wr_page_copy, killed_by_signal

-----------------------------------------------------------------------------
(***************************************************************************)
(* The theorems.                                                           *)
(***************************************************************************)

\* The initial states satisfy the inductive invariant: nobody has access, no
\* call exists and every lock is free.
LEMMA IInvInit == Init => IInv
<1> SUFFICES ASSUME Init PROVE IInv
  OBVIOUS
<1>a. /\ \A n \in Node : n \in Thread /\ n \notin Call
      /\ \A c \in Call : c \in Thread
  BY CallAssumption DEF Thread
<1>b. /\ \A n \in Node : pc[n] = "run" /\ perm[n] = "none"
      /\ \A c \in Call : pc[c] = "free" /\ from[c] = NoOne /\ dst[c] = Manager
      /\ \A a \in Thread : op[a] = "rd" /\ pc[a] \in {"run", "free"}
  BY <1>a DEF Init, Thread
<1>1. TypeOK
  <2>1. \A a \in Thread : pc[a] \in ThreadPc(a) /\ pc[a] \in Pc
    BY <1>a, <1>b, ThreadSplit DEF ThreadPc, AppPc, CallPc, ServePc, FetchPc, Pc, Thread
  <2> QED
    BY <1>a, <1>b, <2>1, ThreadSplit, DataAssumption, UserAssumption
    DEF Init, TypeOK, Op, Perm, Thread
<1>2. Callers
  BY <1>b, ThreadSplit DEF Callers
<1>3. Pages
  BY <1>b DEF Pages, Paged, FetchPc
<1>4. Locked
  BY <1>b, ThreadSplit DEF Locked, Holds, Serving, FetchPc, Worker
<1>5. OpenCopy /\ Reader /\ Idler
  BY <1>b, <1>a, ThreadSplit DEF OpenCopy, Reader, Idler, Worker
<1>6. Grants
  BY <1>a, <1>b, ThreadSplit DEF Grants, Granted, Entitled, CanStore, FetchPc, Worker
<1> QED BY <1>1, <1>2, <1>3, <1>4, <1>5, <1>6 DEF IInv

\* Every step, and a step in which nothing happens, preserves it.
LEMMA IInvStep == IInv /\ [Next]_vars => IInv'
<1> SUFFICES ASSUME IInv, [Next]_vars PROVE IInv'
  OBVIOUS
<1>1. CASE Next
  BY <1>1, TypeStep, CallersStep, PagesStep, LockedStep, OpenCopyStep, GrantsStep,
     ReaderStep, IdlerStep DEF IInv
<1>2. CASE UNCHANGED vars
  <2>1. TypeOK'
    BY <1>2 DEF vars, IInv, TypeOK
  <2>2. Callers' /\ OpenCopy' /\ Reader' /\ Idler'
    BY <1>2 DEF vars, IInv, Callers, OpenCopy, Reader, Idler
  <2>3. Pages'
    BY <1>2 DEF vars, IInv, Pages, Paged
  <2>4. Locked'
    BY <1>2 DEF vars, IInv, Locked, Holds, Serving
  <2>5. Grants'
    BY <1>2 DEF vars, IInv, Grants, Granted, Entitled, CanStore, requester
  <2> QED BY <2>1, <2>2, <2>3, <2>4, <2>5 DEF IInv
<1> QED BY <1>1, <1>2

\* The inductive invariant holds in every reachable state, for any cluster,
\* any network and any programs.
THEOREM Invariance == Spec => []IInv
  BY IInvInit, IInvStep, PTL DEF Spec

\* Program threads, calls and the manager's table stay in their types.
THEOREM TypeCorrect == Spec => []TypeOK
<1>1. IInv => TypeOK
  BY DEF IInv
<1> QED BY <1>1, Invariance, PTL

\* The assertion in get_rd_page_from_mngr never fails: a read answer carries a
\* page, however often the request was retried.
THEOREM ReadAnswers == Spec => []ReadAnswerHasPage
<1>1. IInv => ReadAnswerHasPage
  BY DEF IInv, Pages, Paged, ReadAnswerHasPage, Thread
<1> QED BY <1>1, Invariance, PTL

\* At most one worker can store to the page, even when calls fail and their
\* late executions take effect, and even when the manager takes part.
THEOREM WorkersExclude == Spec => []SingleWorkerWriter
<1>1. IInv => SingleWorkerWriter
  BY DEF IInv, Grants, Entitled, SingleWorkerWriter, Worker
<1> QED BY <1>1, Invariance, PTL

\* When the manager's program does not store, at most one node at all can:
\* the exactly-one-writer half of the claim in the paper.
THEOREM OneWriter == Manager \notin Storer /\ Spec => []SingleWriter
<1>1. Manager \notin Storer /\ IInv => SingleWriter
  <2> SUFFICES ASSUME Manager \notin Storer, IInv,
                      NEW m \in Node, NEW n \in Node, CanStore(m), CanStore(n)
               PROVE  m = n
    BY DEF SingleWriter
  <2>1. ~CanStore(Manager)
    BY DEF IInv, Reader, CanStore
  <2>2. m \in Worker /\ n \in Worker
    BY <2>1 DEF Worker
  <2> QED BY <2>2 DEF IInv, Grants, Entitled
<1>2. CASE Manager \notin Storer
  <2>1. IInv => SingleWriter
    BY <1>1, <1>2
  <2> QED BY <2>1, Invariance, PTL
<1>3. CASE Manager \in Storer
  BY <1>3
<1> QED BY <1>2, <1>3

\* Under the same condition ownership moves only to a node while no other can
\* store: the old owner has lost its right before serv_wr_rq names the new one.
THEOREM OwnershipMovesAlone == Manager \notin Storer /\ Spec => OwnerMovesAlone
<1> DEFINE Alone == owner' # owner => \A n \in Node \ {owner'} : ~CanStore(n)'
<1>1. Manager \notin Storer /\ IInv' => Alone
  <2> SUFFICES ASSUME Manager \notin Storer, IInv', NEW n \in Node, n # owner'
               PROVE  ~CanStore(n)'
    OBVIOUS
  <2>1. CASE n = Manager
    BY <2>1 DEF IInv, Reader, CanStore
  <2>2. CASE n # Manager
    BY <2>2 DEF IInv, Grants, Entitled, Worker
  <2> QED BY <2>1, <2>2
<1>2. CASE Manager \notin Storer
  <2>1. IInv' => [Alone]_vars
    BY <1>1, <1>2
  <2> QED BY <2>1, Invariance, PTL DEF OwnerMovesAlone
<1>3. CASE Manager \in Storer
  BY <1>3
<1> QED BY <1>2, <1>3

\* When the manager's program leaves the page alone, no fault handler ever
\* copies a page into memory it may not write: the set_access call before the
\* memcpy is still in force, and no process is killed.
THEOREM CopiesAreWritable ==
    Manager \notin Loader \cup Storer /\ Spec => []CopyIsWritable
<1>1. Manager \notin Loader \cup Storer /\ IInv => CopyIsWritable
  BY DEF IInv, Idler, OpenCopy, CopyIsWritable, Worker
<1>2. CASE Manager \notin Loader \cup Storer
  <2>1. IInv => CopyIsWritable
    BY <1>1, <1>2
  <2> QED BY <2>1, Invariance, PTL
<1>3. CASE Manager \in Loader \cup Storer
  BY <1>3
<1> QED BY <1>2, <1>3

\* Every step keeps the lock discipline when the manager's program leaves the page
\* alone: that program then stays where it is.
LEMMA LocksStep ==
    ASSUME Sections, pc[Manager] = "run", Occupied, Noted, Addressed, NEW S, ReadableAt(S), Next,
           ~(Load(Manager) \/ Store(Manager) \/ sigaction_hdlr(Manager))
    PROVE  Occupied' /\ Noted' /\ Addressed' /\ ReadableAt(S)'
<1>1. ASSUME NEW n \in Node, Load(n) \/ Store(n) \/ sigaction_hdlr(n) \/ HandlerStep(n)
      PROVE  Occupied' /\ Noted' /\ Addressed' /\ ReadableAt(S)'
  <2>1. n # Manager
    BY <1>1 DEF HandlerStep, rd_fault_hdlr, wr_fault_hdlr, ask_manager, fault_hdlr_reply,
       fault_hdlr_backoff, open_page, get_rd_page_copy, get_rd_page_protect,
       get_wr_page_copy, killed_by_signal
  <2> QED BY <1>1, <2>1, LocksHandler DEF Worker
<1>2. ASSUME NEW c \in Call, CallStep(c)
      PROVE  Occupied' /\ Noted' /\ Addressed' /\ ReadableAt(S)'
  BY <1>2, LocksCall
<1>3. ASSUME NEW a \in Server, ServerStep(a)
      PROVE  Occupied' /\ Noted' /\ Addressed' /\ ReadableAt(S)'
  <2>1. a \in Call
    <3> SUFFICES ASSUME a = Manager PROVE FALSE
      BY DEF Server
    <3> QED
      BY <1>3, ThreadSplit
      DEF ServerStep, fetch_pg_protect, read_page, serv_rd_rq_lock, serv_wr_rq_lock,
          serv_rq_lock, serv_rd_rq, serv_wr_rq, serv_rd_rq_own, serv_wr_rq_own,
          serv_rd_rq_fetched, serv_wr_rq_fetched, serv_rd_rq_call_failed,
          serv_wr_rq_call_failed, serv_rq_call_failed, send_invalidations,
          send_invalidations_ok, send_invalidations_failed, serv_wr_rq_grant
  <2> QED BY <1>3, <2>1, LocksServer
<1> QED BY <1>1, <1>2, <1>3 DEF Next

\* The lock discipline of a page as one invariant.
LEMMA LockInvStep ==
    ASSUME Manager \notin Loader \cup Storer, LockInv, [Next]_vars
    PROVE  LockInv'
<1> USE DEF LockInv
<1>1. IInv'
  BY IInvStep
<1>2. CASE UNCHANGED vars
  BY <1>1, <1>2 DEF vars, rpcVars, tblVars, Occupied, Noted, Addressed, Fetchable, Holds,
     Serving, home
<1>3. CASE Next
  <2>1. Sections /\ pc[Manager] = "run"
    BY DEF IInv, Sections, Idler
  <2>2. ~(Load(Manager) \/ Store(Manager) \/ sigaction_hdlr(Manager))
    BY <2>1 DEF Load, Store, sigaction_hdlr, Accesses
  <2>3. ReadableAt(Node)
    BY DEF ReadableAt, Fetchable
  <2>4. \A a \in Thread : home(a)' \in Node
    BY <1>1 DEF IInv, TypeOK, home, Thread
  <2>5. ReadableAt(Node)' => Fetchable'
    BY <2>4 DEF ReadableAt, Fetchable
  <2>6. Occupied' /\ Noted' /\ Addressed' /\ ReadableAt(Node)'
    BY <1>3, <2>1, <2>2, <2>3, LocksStep
  <2> QED BY <1>1, <2>5, <2>6
<1> QED BY <1>2, <1>3

\* At the start every lock is free, and nobody fetches anything.
LEMMA LockInvInit == Init => LockInv
<1> SUFFICES ASSUME Init PROVE LockInv
  OBVIOUS
<1>1. IInv
  BY IInvInit
<1>2. /\ \A a \in Thread : pc[a] \in {"run", "free"} /\ todo[a] = {}
      /\ \A c \in Call : pc[c] = "free"
      /\ copyset = {} /\ infoLock = NoOne /\ \A n \in Node : pageLock[n] = NoOne
  BY CallAssumption DEF Init, Thread
<1>3. Occupied /\ Noted /\ Addressed /\ Fetchable
  BY <1>2, ThreadSplit DEF Occupied, Noted, Addressed, Fetchable, Serving, FetchPc
<1> QED BY <1>1, <1>3 DEF LockInv

\* The lock discipline holds in every reachable state, on any network.
THEOREM LockInvariance == Manager \notin Loader \cup Storer /\ Spec => []LockInv
<1>1. CASE Manager \notin Loader \cup Storer
  <2>1. LockInv /\ [Next]_vars => LockInv'
    BY <1>1, LockInvStep
  <2> QED BY <2>1, LockInvInit, PTL DEF Spec
<1>2. CASE Manager \in Loader \cup Storer
  BY <1>2
<1> QED BY <1>1, <1>2

\* So a thread holds a lock exactly from its wait_lock to its unlock.
LEMMA LocksMatch ==
    ASSUME Sections, Occupied, Noted, Addressed
    PROVE  LocksMatchThreads
<1> USE Names DEF Sections
<1>1. TypeOK
  OBVIOUS
<1>2. \A a \in Thread, n \in Node : pageLock[n] = a <=> Holds(a, n)
  BY DEF Locked, Occupied
<1>3. \A a \in Server : Holds(a, Manager) <=> Serving(a)
  BY <1>1 DEF Holds, Addressed, Worker, FetchPc, Fetch, Serve
<1>4. \A a \in Server : Serving(a) <=>
        \/ pc[a] \in ServePc \ {"srvLock"}
        \/ pc[a] \in FetchPc /\ op[a] \in {"rd", "wr"}
  BY DEF Serving, ServePc, Serve
<1>5. \A n \in Node \ {Manager} : Holds(n, n) <=>
        pc[n] \in {"wait", "protect", "copy", "settle"}
  BY <1>1 DEF Holds, Worker
<1>6. \A n \in Node \ {Manager}, c \in Call :
        Holds(c, n) <=> dst[c] = n /\ pc[c] \in FetchPc
  BY <1>1 DEF Holds, Worker, Callers, Pages, Paged, TypeOK, Op, Fetch, Serve
<1>7. \A a \in Server : infoLock = a <=> pageLock[Manager] = a /\ pc[a] # "srvInfo"
  BY <1>1, <1>2, <1>3 DEF Noted
<1> QED
  BY <1>1, <1>2, <1>3, <1>4, <1>5, <1>6, <1>7 DEF LocksMatchThreads

\* A page lock or an info lock is held by the thread that is between its wait_lock and
\* its unlock, and by nobody else: no return path of the fault handlers, of fetch_pg and
\* of the two serv functions, the failed calls included, keeps a lock or drops one early.
THEOREM LocksAreReleased ==
    Manager \notin Loader \cup Storer /\ Spec => []LocksMatchThreads
<1>1. LockInv => LocksMatchThreads
  BY LocksMatch DEF LockInv, IInv, Sections
<1>2. CASE Manager \notin Loader \cup Storer
  BY <1>1, <1>2, LockInvariance, PTL
<1>3. CASE Manager \in Loader \cup Storer
  BY <1>3
<1> QED BY <1>2, <1>3

\* read_page in fetch_pg finds its page readable: an invalidation, late or lost ones
\* included, waits for the lock that the reader holds.
THEOREM FetchesCanRead ==
    Manager \notin Loader \cup Storer /\ Spec => []FetchCanRead
<1>1. LockInv => FetchCanRead
  BY DEF LockInv, Fetchable, FetchCanRead
<1>2. CASE Manager \notin Loader \cup Storer
  BY <1>1, <1>2, LockInvariance, PTL
<1>3. CASE Manager \in Loader \cup Storer
  BY <1>3
<1> QED BY <1>2, <1>3
=============================================================================

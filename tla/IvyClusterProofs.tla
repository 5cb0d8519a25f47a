-------------------------- MODULE IvyClusterProofs --------------------------
(***************************************************************************)
(* Proofs about IvyCluster.  Whatever the order in which the processes     *)
(* come up, they keep the lock discipline of IvyPage; as long as the       *)
(* manager serves nobody before its get_shm has returned they show a page  *)
(* nothing but steps of IvyPage; and a pool of one thread per node and per *)
(* orphan never lets a nested call wait behind others.                     *)
(***************************************************************************)
EXTENDS IvyCluster, IvyPageProofs, FiniteSetTheorems

(***************************************************************************)
(* What a step of the cluster is to a page.                                *)
(***************************************************************************)
\* A step that touches no more of IvyPage's state than protections.
Maps == /\ UNCHANGED <<pc, op, buf, todo, rpcVars, mem, pageLock, tblVars, latest>>
        /\ perm' \in [Node -> Perm]

\* set_access on a region that is not mapped: the thread goes on without it.
Unmapped(a) ==
    /\ pc[a] = "fpProtect"
    /\ ~Mapped(home(a))
    /\ pc' = [pc EXCEPT ![a] = "fpRead"]
    /\ UNCHANGED <<op, buf, todo, rpcVars, perm, mem, pageLock, tblVars, latest>>

\* A step of the page, of a program only where the process is ready.
Runs ==
    /\ \/ \E n \in Node : /\ boot[n] = "ready"
                          /\ Load(n) \/ Store(n) \/ sigaction_hdlr(n)
       \/ \E n \in Node : HandlerStep(n)
       \/ \E c \in Call : CallStep(c)
       \/ \E a \in Server : ServerStep(a)
    /\ boot' = boot

\* Every step of the cluster is one of these.
LEMMA StepKinds ==
    ASSUME TypeOK, ClusterNext
    PROVE  Runs \/ Maps \/ \E a \in Server : Unmapped(a) /\ boot' = boot
<1>1. ASSUME NEW n \in Node, construct(n) \/ start_recv(n) \/ take_job(n)
      PROVE  Maps
  BY <1>1 DEF construct, start_recv, take_job, Maps, vars, rpcVars, tblVars, TypeOK
<1>2. ASSUME NEW n \in Node, map_region(n) \/ reg_addr_range(n)
      PROVE  Maps
  BY <1>2 DEF map_region, reg_addr_range, Maps, TypeOK, Perm
<1>3. ASSUME NEW n \in Node, RunProgram(n) \/ RunHandler(n)
      PROVE  Runs
  BY <1>3 DEF RunProgram, RunHandler, Runs, accept_and_release
<1>4. ASSUME NEW a \in Server, RunServer(a)
      PROVE  Runs \/ (Unmapped(a) /\ boot' = boot)
  BY <1>4 DEF RunServer, protect_fails, Runs, Unmapped, accept_and_release
<1>5. ASSUME NEW c \in Call, read_page_faults(c)
      PROVE  Maps
  BY <1>5 DEF read_page_faults, Maps, vars, rpcVars, tblVars, TypeOK
<1> QED BY <1>1, <1>2, <1>3, <1>4, <1>5 DEF ClusterNext

\* A step of the page is one of IvyPage.
LEMMA RunsIsNext == Runs => Next
  BY DEF Runs, Next

(***************************************************************************)
(* Types, callers, pages and locks, as in IvyPage: none of it depends on   *)
(* the protection of a page.                                               *)
(***************************************************************************)
Base == TypeOK /\ Callers /\ Pages /\ Locked

\* At the start, as in IvyPage.
LEMMA BaseInit == ClusterInit => Base
  BY IInvInit DEF ClusterInit, IInv, Base

\* Every step of the cluster keeps it.
LEMMA BaseStep == Base /\ [ClusterNext]_clusterVars => Base'
<1> SUFFICES ASSUME Base, [ClusterNext]_clusterVars PROVE Base'
  OBVIOUS
<1> USE DEF Base
<1>1. CASE Runs
  BY <1>1, RunsIsNext, TypeStep, CallersStep, PagesStep, LockedStep
<1>2. CASE Maps
  BY <1>2 DEF Maps, rpcVars, tblVars, TypeOK, Callers, Pages, Paged, Locked, Holds, Serving
<1>3. ASSUME NEW a \in Server, Unmapped(a)
      PROVE  Base'
  <2>1. a \in Thread /\ pc[a] = "fpProtect" /\ pc'[a] = "fpRead"
        /\ \A b \in Thread \ {a} : pc'[b] = pc[b]
    BY <1>3, Names DEF Unmapped, TypeOK
  <2>2. TypeOK'
    BY <1>3, Names DEF Unmapped, rpcVars, tblVars, TypeOK, ThreadPc, Pc, FetchPc
  <2>3. Callers'
    BY <1>3, <2>1 DEF Unmapped, rpcVars, Callers, Thread, Server, TypeOK
  <2>4. Pages'
    BY <1>3, <2>1 DEF Unmapped, Pages, Paged, FetchPc
  <2>5. Locked'
    BY <1>3, <2>1 DEF Unmapped, rpcVars, Locked, Holds, Serving, FetchPc
  <2> QED BY <2>2, <2>3, <2>4, <2>5
<1>4. CASE UNCHANGED clusterVars
  BY <1>4 DEF clusterVars, vars, rpcVars, tblVars, TypeOK, Callers, Pages, Paged, Locked,
     Holds, Serving
<1> QED BY <1>1, <1>2, <1>3, <1>4, StepKinds

(***************************************************************************)
(* Whatever a thread works with is ready, but for the manager.             *)
(***************************************************************************)
Ready(n) == boot[n] = "ready"

\* A node that has left its program, is asked to fetch or to invalidate, is asked
\* for by a call, or is in the table has mapped the region.  The manager may be asked
\* for the page earlier.
Booted ==
    /\ boot \in [Node -> {"new", "constructed", "mapped", "ready"}]
    /\ \A n \in Node : pc[n] # "run" => Ready(n)
    /\ \A c \in Call : pc[c] # "free" =>
         Ready(req[c]) /\ (op[c] \in Serve \/ Ready(dst[c]))
    /\ \A n \in copyset : Ready(n)
    /\ \A a \in Thread : \A n \in todo[a] : Ready(n)
    /\ owner # Manager => Ready(owner)

\* A thread that is at work works for a process that is ready, and runs in one, unless
\* it serves a request.
LEMMA AtWork ==
    ASSUME Base, Booted, NEW a \in Thread, pc[a] \notin {"run", "free"}
    PROVE  Ready(requester(a)) /\ (home(a) # Manager => Ready(home(a)))
  BY ThreadSplit, CallAssumption DEF Base, Callers, Booted, home, requester, Thread

\* A thread that fetches a page runs in a process that is ready, unless the manager
\* serves somebody before it is.
LEMMA AtFetch ==
    ASSUME Base, Booted, ServesMapped, NEW a \in Thread, pc[a] \in FetchPc
    PROVE  Ready(home(a))
<1>1. pageLock[home(a)] = a /\ a # NoOne
  BY ReadersHold, Names DEF Base
<1>2. CASE home(a) = Manager
  BY <1>1, <1>2 DEF ServesMapped, Ready
<1>3. CASE home(a) # Manager
  BY <1>3, AtWork DEF FetchPc
<1> QED BY <1>2, <1>3

\* A thread moves on.
LEMMA BootedMove ==
    ASSUME Base, Booted, boot' = boot, NEW a \in Thread,
           pc[a] \notin {"run", "free"} \/ (a \in Node /\ Ready(a)),
           \A b \in Thread \ {a} : pc'[b] = pc[b], UNCHANGED rpcVars,
           \A c \in Call : op'[c] = op[c],
           \A n \in copyset' : Ready(n),
           \A b \in Thread : \A n \in todo'[b] : Ready(n),
           owner' # Manager => Ready(owner')
    PROVE  Booted'
<1>1. \A n \in Node : n \in Thread /\ n \notin Call
  BY Names DEF Base
<1>2. \A c \in Call : c \in Thread /\ c \notin Node
  BY Names DEF Base
<1> QED BY <1>1, <1>2 DEF Booted, Ready, rpcVars

\* A thread makes a call for a process that is ready, to one that is, or a request.
LEMMA BootedCall ==
    ASSUME Base, Booted, boot' = boot, NEW a \in Thread, NEW next, NEW c \in Call,
           NEW n, NEW fn, NEW who, call(a, next, c, n, fn, who),
           pc[a] \notin {"run", "free"}, fn \in Serve \/ Ready(n), Ready(who),
           \A m \in copyset' : Ready(m),
           \A b \in Thread : \A m \in todo'[b] : Ready(m),
           owner' = owner
    PROVE  Booted'
<1>1. /\ \A b \in Thread \ {a, c} : pc'[b] = pc[b]
      /\ dst' = [dst EXCEPT ![c] = n] /\ req' = [req EXCEPT ![c] = who]
      /\ op' = [op EXCEPT ![c] = fn]
  BY DEF call, Base, TypeOK
<1>2. dst'[c] = n /\ req'[c] = who /\ op'[c] = fn
      /\ \A d \in Call \ {c} : dst'[d] = dst[d] /\ req'[d] = req[d] /\ op'[d] = op[d]
  BY <1>1 DEF Base, TypeOK, Thread
<1>3. (\A m \in Node : m \in Thread /\ m \notin Call) /\ (\A d \in Call : d \in Thread /\ d \notin Node)
  BY Names DEF Base
<1> QED BY <1>1, <1>2, <1>3 DEF Booted, Ready

\* A call is forgotten.
LEMMA BootedHangUp ==
    ASSUME Base, Booted, boot' = boot, NEW a \in Thread, NEW next, NEW c \in Call,
           hang_up(a, next, c), pc[a] \notin {"run", "free"},
           \A b \in Thread : todo'[b] \subseteq todo[b], UNCHANGED <<owner, copyset>>
    PROVE  Booted'
<1>1. /\ \A b \in Thread \ {a, c} : pc'[b] = pc[b]
      /\ pc'[c] = "free"
      /\ \A d \in Call \ {c} : dst'[d] = dst[d] /\ req'[d] = req[d] /\ op'[d] = op[d]
  BY DEF hang_up, Base, TypeOK, Thread
<1>2. (\A m \in Node : m \in Thread /\ m \notin Call) /\ (\A d \in Call : d \in Thread /\ d \notin Node)
  BY Names DEF Base
<1> QED BY <1>1, <1>2 DEF Booted, Ready

\* A call fails, and is forgotten or left to itself.
LEMMA BootedFails ==
    ASSUME Base, Booted, boot' = boot, NEW a \in Thread, NEW next, NEW c \in Call,
           call_fails(a, next, c), pc[a] \notin {"run", "free"},
           \A b \in Thread : todo'[b] \subseteq todo[b], UNCHANGED <<owner, copyset>>
    PROVE  Booted'
<1>1. CASE hang_up(a, next, c)
  BY <1>1, BootedHangUp
<1>2. CASE pc' = [pc EXCEPT ![a] = next] /\ UNCHANGED <<op, dst, req>>
  <2>1. \A b \in Thread \ {a} : pc'[b] = pc[b]
    BY <1>2 DEF Base, TypeOK
  <2>2. (\A m \in Node : m \in Thread /\ m \notin Call)
        /\ (\A d \in Call : d \in Thread /\ d \notin Node)
    BY Names DEF Base
  <2> QED BY <1>2, <2>1, <2>2 DEF Booted, Ready
<1> QED BY <1>1, <1>2 DEF call_fails

\* Steps of the page keep to what is ready.
LEMMA BootedRuns == ASSUME Base, Booted, Runs PROVE Booted'
<1> USE DEF Runs
<1>a. TypeOK /\ boot' = boot
  BY DEF Base
<1>b. /\ \A n \in Node : n \in Thread /\ (pc[n] # "run" => Ready(n))
      /\ \A n \in copyset : Ready(n)
      /\ \A b \in Thread : \A n \in todo[b] : Ready(n)
      /\ owner # Manager => Ready(owner)
      /\ Manager \in Node
  BY <1>a, Names DEF Booted
<1>c. \A a \in Thread : pc[a] \notin {"run", "free"} => Ready(requester(a))
  BY AtWork
<1>d. \A n \in Node : pc[n] # "run" => pc[n] \notin {"run", "free"}
  BY <1>a, <1>b, CallAssumption DEF TypeOK, ThreadPc, AppPc, ServePc, FetchPc
<1>e. \A n \in Node : n \notin Call
  BY <1>a, Names
<1>1. ASSUME NEW n \in Node, Ready(n), Load(n) \/ Store(n) \/ sigaction_hdlr(n)
      PROVE  Booted'
  <2>1. n \in Thread /\ \A b \in Thread \ {n} : pc'[b] = pc[b]
    BY <1>1, <1>a, <1>b DEF Load, Store, sigaction_hdlr, TypeOK
  <2>2. UNCHANGED <<rpcVars, todo, owner, copyset>>
    BY <1>1 DEF Load, Store, sigaction_hdlr, tblVars
  <2>3. \A c \in Call : op'[c] = op[c]
    <3>1. op' = op \/ \E fn : op' = [op EXCEPT ![n] = fn]
      BY <1>1 DEF Load, Store, sigaction_hdlr
    <3> QED BY <1>a, <1>e, <3>1, Names DEF TypeOK
  <2> QED BY <1>1, <1>a, <1>b, <2>1, <2>2, <2>3, BootedMove
<1>2. ASSUME NEW n \in Node,
             \/ open_page(n) \/ get_rd_page_copy(n) \/ get_rd_page_protect(n)
             \/ get_wr_page_copy(n)
      PROVE  Booted'
  <2>1. n \in Thread /\ pc[n] \notin {"run", "free"} /\ \A b \in Thread \ {n} : pc'[b] = pc[b]
    BY <1>2, <1>a, <1>b DEF open_page, get_rd_page_copy, get_rd_page_protect,
       get_wr_page_copy, TypeOK
  <2>2. UNCHANGED <<op, rpcVars, todo, owner, copyset>>
    BY <1>2 DEF open_page, get_rd_page_copy, get_rd_page_protect, get_wr_page_copy, tblVars
  <2> QED BY <1>a, <1>b, <2>1, <2>2, BootedMove
<1>3. ASSUME NEW n \in Node, NEW fn \in Serve, ask_manager(n, fn)
      PROVE  Booted'
  <2>1. n \in Thread /\ pc[n] \notin {"run", "free"} /\ Ready(n)
    BY <1>3, <1>b DEF ask_manager
  <2>2. UNCHANGED <<todo, owner, copyset>>
    BY <1>3 DEF ask_manager, tblVars
  <2>3. PICK c \in Call : call(n, "wait", c, Manager, fn, n)
    BY <1>3 DEF ask_manager
  <2> QED BY <1>a, <1>b, <2>1, <2>2, <2>3, BootedCall
<1>4. ASSUME NEW n \in Node, fault_hdlr_reply(n)
      PROVE  Booted'
  BY <1>4, <1>a, <1>b, BootedHangUp DEF fault_hdlr_reply, call_returns, tblVars
<1>5. ASSUME NEW n \in Node, fault_hdlr_backoff(n)
      PROVE  Booted'
  BY <1>5, <1>a, <1>b, BootedFails DEF fault_hdlr_backoff, tblVars
<1>6. ASSUME NEW n \in Node, killed_by_signal(n)
      PROVE  Booted'
  <2>1. pc[n] # "run"
    BY <1>6 DEF killed_by_signal
  <2>2. \A a \in Thread : pc'[a] =
          IF home(a) = n /\ pc[a] # "free" THEN "killed" ELSE pc[a]
    BY <1>6 DEF killed_by_signal
  <2>3. UNCHANGED <<op, dst, req, todo, owner, copyset>>
    BY <1>6 DEF killed_by_signal, tblVars
  <2>4. (\A m \in Node : m \in Thread /\ home(m) = m) /\ \A c \in Call : c \in Thread
    BY <1>a, Names DEF home
  <2> QED BY <1>a, <2>1, <2>2, <2>3, <2>4 DEF Booted, Ready
<1>7. ASSUME NEW c \in Call, CallStep(c)
      PROVE  Booted'
  <2>1. c \in Thread
    BY <1>a, Names
  <2>2. CASE discard_reply(c)
    BY <1>a, <2>1, <2>2, BootedHangUp DEF discard_reply, tblVars
  <2>3. CASE fetch_pg_lock(c) \/ fetch_pg_answer(c) \/ invalidate_adapter(c)
    <3>1. pc[c] \notin {"run", "free"} /\ \A b \in Thread \ {c} : pc'[b] = pc[b]
      BY <1>a, <2>3 DEF fetch_pg_lock, fetch_pg_answer, invalidate_adapter, TypeOK
    <3>2. UNCHANGED <<op, rpcVars, todo, owner, copyset>>
      BY <2>3 DEF fetch_pg_lock, fetch_pg_answer, invalidate_adapter, tblVars
    <3> QED BY <1>a, <1>b, <2>1, <3>1, <3>2, BootedMove
  <2> QED BY <1>7, <2>2, <2>3 DEF CallStep
<1>8. ASSUME NEW a \in Server, ServerStep(a)
      PROVE  Booted'
  <2>1. a \in Thread
    BY <1>a, Names
  <2>2. CASE \/ fetch_pg_protect(a) \/ read_page(a) \/ serv_rd_rq_lock(a)
             \/ serv_wr_rq_lock(a) \/ serv_rd_rq_own(a) \/ serv_wr_rq_own(a)
    <3>1. pc[a] \notin {"run", "free"} /\ \A b \in Thread \ {a} : pc'[b] = pc[b]
      BY <1>a, <2>2 DEF fetch_pg_protect, read_page, serv_rd_rq_lock, serv_wr_rq_lock,
         serv_rq_lock, serv_rd_rq_own, serv_wr_rq_own, TypeOK
    <3>2. UNCHANGED <<op, rpcVars, todo, owner, copyset>>
      BY <2>2 DEF fetch_pg_protect, read_page, serv_rd_rq_lock, serv_wr_rq_lock,
         serv_rq_lock, serv_rd_rq_own, serv_wr_rq_own, tblVars
    <3> QED BY <1>a, <1>b, <2>1, <3>1, <3>2, BootedMove
  <2>3. CASE serv_rd_rq(a)
    <3>1. pc[a] \notin {"run", "free"} /\ Ready(requester(a))
          /\ copyset' = copyset \cup {requester(a)} /\ UNCHANGED <<todo, owner>>
      BY <1>c, <2>1, <2>3 DEF serv_rd_rq, copyset_with
    <3>2. CASE pc' = [pc EXCEPT ![a] = "fpProtect"] /\ UNCHANGED <<op, rpcVars>>
      <4>1. \A b \in Thread \ {a} : pc'[b] = pc[b]
        BY <1>a, <3>2 DEF TypeOK
      <4> QED BY <1>a, <1>b, <2>1, <3>1, <3>2, <4>1, BootedMove
    <3>3. CASE owner # Manager /\ \E c \in Call :
                 call(a, "srvFetch", c, owner, "fetch_rd", requester(a))
      <4> QED BY <1>a, <1>b, <2>1, <3>1, <3>3, BootedCall
    <3> QED BY <2>3, <3>2, <3>3 DEF serv_rd_rq
  <2>4. CASE serv_wr_rq(a)
    <3>1. /\ pc[a] \notin {"run", "free"} /\ Ready(requester(a))
          /\ copyset' \subseteq copyset /\ owner' = owner
          /\ todo' = [todo EXCEPT ![a] = copyset \ {requester(a)}]
      BY <1>c, <2>1, <2>4 DEF serv_wr_rq, ivld_set
    <3>2. \A b \in Thread : \A n \in todo'[b] : Ready(n)
      BY <1>a, <1>b, <3>1 DEF TypeOK
    <3>3. CASE \E next : pc' = [pc EXCEPT ![a] = next] /\ UNCHANGED <<op, rpcVars>>
      <4>1. \A b \in Thread \ {a} : pc'[b] = pc[b]
        BY <1>a, <3>3 DEF TypeOK
      <4> QED BY <1>a, <1>b, <2>1, <3>1, <3>2, <3>3, <4>1, BootedMove
    <3>4. CASE owner # Manager /\ \E c \in Call :
                 call(a, "srvFetch", c, owner, "fetch_none", requester(a))
      <4> QED BY <1>a, <1>b, <2>1, <3>1, <3>2, <3>4, BootedCall
    <3> QED BY <2>4, <3>3, <3>4 DEF serv_wr_rq
  <2>5. CASE serv_rd_rq_fetched(a) \/ serv_wr_rq_fetched(a) \/ send_invalidations_ok(a)
    <3>1. /\ pc[a] \notin {"run", "free"} /\ UNCHANGED <<owner, copyset>>
          /\ \A b \in Thread : todo'[b] \subseteq todo[b]
      BY <1>a, <2>1, <2>5 DEF serv_rd_rq_fetched, serv_wr_rq_fetched,
         send_invalidations_ok, ivld_left, tblVars, TypeOK
    <3>2. \E c \in Call : \E next : hang_up(a, next, c)
      BY <2>5 DEF serv_rd_rq_fetched, serv_wr_rq_fetched, send_invalidations_ok,
         call_returns
    <3> QED BY <1>a, <2>1, <3>1, <3>2, BootedHangUp
  <2>6. CASE serv_rd_rq_call_failed(a) \/ serv_wr_rq_call_failed(a)
             \/ send_invalidations_failed(a)
    <3>1. /\ pc[a] \notin {"run", "free"} /\ UNCHANGED <<owner, copyset>>
          /\ \A b \in Thread : todo'[b] \subseteq todo[b]
      BY <1>a, <2>1, <2>6 DEF serv_rd_rq_call_failed, serv_wr_rq_call_failed,
         serv_rq_call_failed, send_invalidations_failed, tblVars, TypeOK
    <3>2. \E c \in Call : \E next : call_fails(a, next, c)
      BY <2>6 DEF serv_rd_rq_call_failed, serv_wr_rq_call_failed,
         serv_rq_call_failed, send_invalidations_failed
    <3> QED BY <1>a, <2>1, <3>1, <3>2, BootedFails
  <2>7. CASE send_invalidations(a)
    <3>1. pc[a] \notin {"run", "free"} /\ UNCHANGED <<todo, owner, copyset>>
          /\ Ready(requester(a))
      BY <1>c, <2>1, <2>7 DEF send_invalidations, tblVars
    <3>2. PICK n \in todo[a], c \in Call : call(a, "srvAck", c, n, "inval", requester(a))
      BY <2>7 DEF send_invalidations
    <3> QED BY <1>a, <1>b, <2>1, <3>1, <3>2, BootedCall
  <2>8. CASE serv_wr_rq_grant(a)
    <3>1. /\ pc[a] \notin {"run", "free"} /\ Ready(requester(a))
          /\ copyset' = {} /\ owner' = requester(a) /\ UNCHANGED <<op, todo, rpcVars>>
          /\ \A b \in Thread \ {a} : pc'[b] = pc[b]
      BY <1>a, <1>c, <2>1, <2>8 DEF serv_wr_rq_grant, TypeOK
    <3> QED BY <1>a, <1>b, <2>1, <3>1, BootedMove
  <2> QED BY <1>8, <2>2, <2>3, <2>4, <2>5, <2>6, <2>7, <2>8 DEF ServerStep
<1> QED
  BY <1>1, <1>2, <1>3, <1>4, <1>5, <1>6, <1>7, <1>8
  DEF HandlerStep, rd_fault_hdlr, wr_fault_hdlr, Ready, Serve

\* Every step of the cluster does.
LEMMA BootedStep ==
    ASSUME Base, Booted, [ClusterNext]_clusterVars PROVE Booted'
<1>a. TypeOK /\ (\A n \in Node : n \in Thread) /\ Manager \in Node
  BY Names DEF Base
<1>1. ASSUME NEW n \in Node, construct(n)
      PROVE  Booted'
  <2>1. /\ boot' = [boot EXCEPT ![n] = "constructed"] /\ boot[n] = "new"
        /\ UNCHANGED <<pc, op, dst, req, copyset, todo, owner>>
    BY <1>1 DEF construct, vars
  <2>2. \A m \in Node : Ready(m) => boot'[m] = "ready"
    BY <2>1 DEF Booted, Ready
  <2> QED BY <1>a, <2>1, <2>2 DEF Booted, Ready, Base, TypeOK
<1>2. ASSUME NEW n \in Node, map_region(n) \/ reg_addr_range(n)
      PROVE  Booted'
  <2>1. /\ \E b \in {"mapped", "ready"} : boot' = [boot EXCEPT ![n] = b]
        /\ boot[n] \in {"constructed", "mapped"}
        /\ UNCHANGED <<pc, op, dst, req, copyset, todo, owner>>
    BY <1>2 DEF map_region, reg_addr_range, rpcVars, tblVars
  <2>2. /\ boot[n] # "new" /\ boot[n] # "ready"
        /\ \A m \in Node : Ready(m) => boot'[m] = "ready"
    BY <2>1 DEF Booted, Ready
  <2> QED BY <1>a, <2>1, <2>2 DEF Booted, Ready, Base, TypeOK
<1>3. ASSUME UNCHANGED <<vars, boot>>
      PROVE  Booted'
  BY <1>3 DEF vars, Booted, Ready
<1>4. ASSUME NEW n \in Node, RunProgram(n) \/ RunHandler(n)
      PROVE  Booted'
  <2>1. Runs
    BY <1>4 DEF RunProgram, RunHandler, Runs, accept_and_release
  <2> QED BY <2>1, BootedRuns
<1>5. ASSUME NEW a \in Server, RunServer(a)
      PROVE  Booted'
  <2>1. CASE Runs
    BY <2>1, BootedRuns
  <2>2. CASE Unmapped(a) /\ boot' = boot
    <3>1. /\ a \in Thread /\ pc[a] \notin {"run", "free"}
          /\ \A b \in Thread \ {a} : pc'[b] = pc[b]
          /\ UNCHANGED <<op, rpcVars, todo, owner, copyset>>
      BY <1>a, <2>2, Names DEF Unmapped, tblVars, TypeOK
    <3> QED BY <2>2, <3>1, BootedMove DEF Booted
  <2> QED
    BY <1>5, <2>1, <2>2 DEF RunServer, protect_fails, Runs, Unmapped, accept_and_release
<1> QED
  BY <1>1, <1>2, <1>3, <1>4, <1>5
  DEF ClusterNext, start_recv, take_job, read_page_faults, clusterVars

(***************************************************************************)
(* The refinement.                                                         *)
(***************************************************************************)
\* The protection of the page as IvyPage sees it.
seen == [n \in Node |-> IF boot[n] = "ready" THEN perm[n] ELSE "none"]

\* What a process that is ready does to its page is seen, and nothing else.
LEMMA SeenChange ==
    ASSUME TypeOK, boot' = boot, NEW n \in Node, Ready(n), NEW p,
           perm' = [perm EXCEPT ![n] = p]
    PROVE  seen' = [seen EXCEPT ![n] = p]
  BY DEF seen, Ready, TypeOK

\* Where nothing is done to a page nothing is seen.
LEMMA SeenSame == ASSUME boot' = boot, perm' = perm PROVE seen' = seen
  BY DEF seen

\* A step of a program on a process that is ready is one of IvyPage.
LEMMA ProgramMaps ==
    ASSUME Base, boot' = boot, NEW n \in Node, Ready(n),
           Load(n) \/ Store(n) \/ sigaction_hdlr(n)
    PROVE  Page!Load(n) \/ Page!Store(n) \/ Page!sigaction_hdlr(n)
<1>1. seen[n] = perm[n] /\ seen' = seen
  BY SeenSame DEF seen, Ready, Load, Store, sigaction_hdlr
<1>2. CASE Load(n)
  BY <1>1, <1>2
  DEF seen, Load, Accesses, CanLoad, rpcVars, tblVars,
      Page!Load, Page!Accesses, Page!CanLoad, Page!rpcVars, Page!tblVars
<1>3. CASE Store(n)
  BY <1>1, <1>3
  DEF seen, Store, Accesses, CanStore, rpcVars, tblVars,
      Page!Store, Page!Accesses, Page!CanStore, Page!rpcVars, Page!tblVars
<1>4. CASE sigaction_hdlr(n)
  BY <1>1, <1>4
  DEF seen, sigaction_hdlr, Accesses, CanLoad, CanStore, rpcVars, tblVars, Manager,
      Page!sigaction_hdlr, Page!Accesses, Page!CanLoad, Page!CanStore, Page!rpcVars,
      Page!tblVars, Page!Manager
<1> QED BY <1>2, <1>3, <1>4

\* A call fails alike: nothing of it depends on a protection.
LEMMA FailsMaps ==
    ASSUME NEW a, NEW next, NEW c, call_fails(a, next, c)
    PROVE  Page!call_fails(a, next, c)
<1>1. hang_up(a, next, c) => Page!hang_up(a, next, c)
  BY DEF hang_up, Manager, Page!hang_up, Page!Manager
<1>2. Page!Cardinality(Page!Orphans) = Cardinality(Orphans)
  BY DEF Orphans, Page!Orphans, Cardinality, Page!Cardinality
<1> QED BY <1>1, <1>2 DEF call_fails, Up, Page!call_fails, Page!Up

\* So is a step of a fault handler.
LEMMA HandlerMaps ==
    ASSUME Base, Booted, boot' = boot, NEW n \in Node, HandlerStep(n)
    PROVE  Page!HandlerStep(n)
<1>a. TypeOK /\ n \in Thread
  BY Names DEF Base
<1>1. ASSUME pc[n] # "run"
      PROVE  Ready(n) /\ seen[n] = perm[n]
  BY <1>1 DEF seen, Booted, Ready
<1>2. CASE rd_fault_hdlr(n) \/ wr_fault_hdlr(n)
  <2>1. seen' = seen
    BY <1>2, SeenSame DEF rd_fault_hdlr, wr_fault_hdlr, ask_manager
  <2>2. CASE rd_fault_hdlr(n)
    BY <2>1, <2>2
    DEF seen, rd_fault_hdlr, ask_manager, wait_lock, call, tblVars, Manager,
        Page!HandlerStep, Page!rd_fault_hdlr, Page!ask_manager, Page!wait_lock,
        Page!call, Page!tblVars, Page!Manager
  <2>3. CASE wr_fault_hdlr(n)
    BY <2>1, <2>3
    DEF seen, wr_fault_hdlr, ask_manager, wait_lock, call, tblVars, Manager,
        Page!HandlerStep, Page!wr_fault_hdlr, Page!ask_manager, Page!wait_lock,
        Page!call, Page!tblVars, Page!Manager
  <2> QED BY <1>2, <2>2, <2>3
<1>3. CASE fault_hdlr_reply(n)
  <2>1. seen' = seen
    BY <1>3, SeenSame DEF fault_hdlr_reply
  <2>2. Page!fault_hdlr_reply(n)
    BY <1>3, <2>1
    DEF seen, fault_hdlr_reply, call_returns, hang_up, tblVars, Manager,
        Page!fault_hdlr_reply, Page!call_returns, Page!hang_up, Page!tblVars, Page!Manager
  <2> QED BY <2>2 DEF Page!HandlerStep
<1>4. CASE fault_hdlr_backoff(n)
  <2>1. seen' = seen
    BY <1>4, SeenSame DEF fault_hdlr_backoff
  <2>2. Page!fault_hdlr_backoff(n)
    BY <1>4, <2>1, FailsMaps
    DEF seen, fault_hdlr_backoff, tblVars, Page!fault_hdlr_backoff, Page!tblVars
  <2> QED BY <2>2 DEF Page!HandlerStep
<1>5. CASE open_page(n)
  <2>1. seen' = [seen EXCEPT ![n] = "rw"]
    BY <1>a, <1>1, <1>5, SeenChange DEF open_page
  <2>2. Page!open_page(n)
    BY <1>5, <2>1
    DEF seen, open_page, rpcVars, tblVars, Page!open_page, Page!rpcVars, Page!tblVars
  <2> QED BY <2>2 DEF Page!HandlerStep
<1>6. CASE get_rd_page_copy(n)
  <2>1. seen' = seen /\ seen[n] = perm[n]
    BY <1>1, <1>6, SeenSame DEF get_rd_page_copy
  <2>2. Page!get_rd_page_copy(n)
    BY <1>6, <2>1
    DEF seen, get_rd_page_copy, rpcVars, tblVars, Page!get_rd_page_copy, Page!rpcVars,
        Page!tblVars
  <2> QED BY <2>2 DEF Page!HandlerStep
<1>7. CASE get_rd_page_protect(n)
  <2>1. seen' = [seen EXCEPT ![n] = "rd"]
    BY <1>a, <1>1, <1>7, SeenChange DEF get_rd_page_protect
  <2>2. Page!get_rd_page_protect(n)
    BY <1>7, <2>1
    DEF seen, get_rd_page_protect, hdlr_unlock, rpcVars, tblVars, Manager,
        Page!get_rd_page_protect, Page!hdlr_unlock, Page!rpcVars, Page!tblVars, Page!Manager
  <2> QED BY <2>2 DEF Page!HandlerStep
<1>8. CASE get_wr_page_copy(n)
  <2>1. seen' = seen /\ seen[n] = perm[n]
    BY <1>1, <1>8, SeenSame DEF get_wr_page_copy
  <2>2. Page!get_wr_page_copy(n)
    BY <1>8, <2>1
    DEF seen, get_wr_page_copy, received, hdlr_unlock, rpcVars, tblVars, Manager,
        Page!get_wr_page_copy, Page!received, Page!hdlr_unlock, Page!rpcVars,
        Page!tblVars, Page!Manager
  <2> QED BY <2>2 DEF Page!HandlerStep
<1>9. CASE killed_by_signal(n)
  <2>1. seen' = seen /\ seen[n] = perm[n]
    BY <1>1, <1>9, SeenSame DEF killed_by_signal
  <2>2. Page!killed_by_signal(n)
    BY <1>9, <2>1
    DEF seen, killed_by_signal, home, rpcVars, tblVars, Manager, Thread,
        Page!killed_by_signal, Page!home, Page!rpcVars, Page!tblVars, Page!Manager,
        Page!Thread
  <2> QED BY <2>2 DEF Page!HandlerStep
<1> QED
  BY <1>2, <1>3, <1>4, <1>5, <1>6, <1>7, <1>8, <1>9 DEF HandlerStep

\* So is a step of a call.
LEMMA CallMaps ==
    ASSUME Base, Booted, boot' = boot, NEW c \in Call, CallStep(c)
    PROVE  Page!CallStep(c)
<1>a. TypeOK /\ dst[c] \in Node
  BY Names DEF Base
<1>1. ASSUME pc[c] # "free", op[c] \in Fetch \cup {"inval"}
      PROVE  Ready(dst[c])
  BY <1>1 DEF Booted, Fetch, Serve
<1>2. CASE discard_reply(c)
  <2>1. seen' = seen
    BY <1>2, SeenSame DEF discard_reply
  <2>2. Page!discard_reply(c)
    BY <1>2, <2>1
    DEF seen, discard_reply, hang_up, tblVars, Manager, Page!discard_reply,
        Page!hang_up, Page!tblVars, Page!Manager
  <2> QED BY <2>2 DEF Page!CallStep
<1>3. CASE fetch_pg_lock(c)
  <2>1. seen' = seen
    BY <1>3, SeenSame DEF fetch_pg_lock
  <2>2. Page!fetch_pg_lock(c)
    BY <1>3, <2>1
    DEF seen, fetch_pg_lock, wait_lock, Up, rpcVars, tblVars, Page!fetch_pg_lock,
        Page!wait_lock, Page!Up, Page!rpcVars, Page!tblVars
  <2> QED BY <2>2 DEF Page!CallStep
<1>4. CASE fetch_pg_answer(c)
  <2>1. seen' = [seen EXCEPT ![dst[c]] = left_access(op[c])]
    BY <1>a, <1>1, <1>4, SeenChange DEF fetch_pg_answer, Fetch
  <2>2. Page!fetch_pg_answer(c)
    BY <1>4, <2>1
    DEF seen, fetch_pg_answer, left_access, rpcVars, tblVars, Page!fetch_pg_answer,
        Page!left_access, Page!rpcVars, Page!tblVars
  <2> QED BY <2>2 DEF Page!CallStep
<1>5. CASE invalidate_adapter(c)
  <2>1. seen' = [seen EXCEPT ![dst[c]] = "none"]
    BY <1>a, <1>1, <1>5, SeenChange DEF invalidate_adapter
  <2>2. Page!invalidate_adapter(c)
    BY <1>5, <2>1
    DEF seen, invalidate_adapter, ivld_ready, Up, rpcVars, tblVars, Manager,
        Page!invalidate_adapter, Page!ivld_ready, Page!Up, Page!rpcVars, Page!tblVars,
        Page!Manager
  <2> QED BY <2>2 DEF Page!CallStep
<1> QED BY <1>2, <1>3, <1>4, <1>5 DEF CallStep

\* So is a step of a thread that serves a request or reads a page.
LEMMA ServerMaps ==
    ASSUME Base, Booted, ServesMapped, boot' = boot, NEW a \in Server, ServerStep(a)
    PROVE  Page!ServerStep(a)
<1>a. TypeOK /\ a \in Thread /\ home(a) \in Node /\ Manager \in Node
  BY Names DEF Base
<1>1. ASSUME pc[a] \in FetchPc
      PROVE  Ready(home(a)) /\ seen[home(a)] = perm[home(a)]
  BY <1>a, <1>1, AtFetch DEF seen, Ready
<1>2. /\ Page!Manager = Manager /\ Page!requester(a) = requester(a)
      /\ Page!home(a) = home(a)
  BY DEF Manager, requester, home, Page!Manager, Page!requester, Page!home
<1>3. ASSUME pc[a] \in FetchPc /\ op[a] \in Serve
      PROVE  Ready(Manager)
  BY <1>a, <1>1, <1>3, CallAssumption DEF Base, Callers, FetchPc, home, Server, Serve
<1>4. CASE fetch_pg_protect(a)
  <2>1. seen' = [seen EXCEPT ![home(a)] = "rd"]
    BY <1>4, <1>a, <1>1, SeenChange DEF fetch_pg_protect, FetchPc
  <2>2. Page!fetch_pg_protect(a)
    BY <1>2, <1>4, <2>1
    DEF seen, fetch_pg_protect, rpcVars, tblVars, Page!fetch_pg_protect,
        Page!rpcVars, Page!tblVars
  <2> QED BY <2>2 DEF Page!ServerStep
<1>5. CASE read_page(a)
  <2>1. seen' = seen /\ seen[home(a)] = perm[home(a)]
    BY <1>5, <1>1, SeenSame DEF read_page, FetchPc
  <2>2. Page!read_page(a)
    BY <1>2, <1>5, <2>1
    DEF seen, read_page, rpcVars, tblVars, Page!read_page, Page!rpcVars,
        Page!tblVars
  <2> QED BY <2>2 DEF Page!ServerStep
<1>6. CASE serv_rd_rq_lock(a)
  <2>1. seen' = seen
    BY <1>6, SeenSame DEF serv_rd_rq_lock, serv_rq_lock
  <2>2. Page!serv_rd_rq_lock(a)
    BY <1>2, <1>6, <2>1
    DEF seen, serv_rd_rq_lock, serv_rq_lock, wait_lock, Up, rpcVars, tblVars,
        Page!serv_rd_rq_lock, Page!serv_rq_lock, Page!wait_lock, Page!Up,
        Page!rpcVars, Page!tblVars
  <2> QED BY <2>2 DEF Page!ServerStep
<1>7. CASE serv_wr_rq_lock(a)
  <2>1. seen' = seen
    BY <1>7, SeenSame DEF serv_wr_rq_lock, serv_rq_lock
  <2>2. Page!serv_wr_rq_lock(a)
    BY <1>2, <1>7, <2>1
    DEF seen, serv_wr_rq_lock, serv_rq_lock, wait_lock, Up, rpcVars, tblVars,
        Page!serv_wr_rq_lock, Page!serv_rq_lock, Page!wait_lock, Page!Up,
        Page!rpcVars, Page!tblVars
  <2> QED BY <2>2 DEF Page!ServerStep
<1>8. CASE serv_rd_rq(a)
  <2>1. seen' = seen
    BY <1>8, SeenSame DEF serv_rd_rq
  <2>2. Page!serv_rd_rq(a)
    BY <1>2, <1>8, <2>1
    DEF seen, serv_rd_rq, call, copyset_with, rpcVars, Page!serv_rd_rq, Page!call,
        Page!copyset_with, Page!rpcVars
  <2> QED BY <2>2 DEF Page!ServerStep
<1>9. CASE serv_wr_rq(a)
  <2>1. seen' = seen
    BY <1>9, SeenSame DEF serv_wr_rq
  <2>2. Page!serv_wr_rq(a)
    BY <1>2, <1>9, <2>1
    DEF seen, serv_wr_rq, call, ivld_set, owner_asks, rpcVars, Page!serv_wr_rq,
        Page!call, Page!ivld_set, Page!owner_asks, Page!rpcVars
  <2> QED BY <2>2 DEF Page!ServerStep
<1>10. CASE serv_rd_rq_own(a)
  <2>1. seen' = [seen EXCEPT ![Manager] = left_access("rd")]
    BY <1>10, <1>a, <1>3, SeenChange DEF serv_rd_rq_own, FetchPc, Serve
  <2>2. Page!serv_rd_rq_own(a)
    BY <1>2, <1>10, <2>1
    DEF seen, serv_rd_rq_own, served, release_locks, left_access, rpcVars, tblVars,
        Page!serv_rd_rq_own, Page!served, Page!release_locks, Page!left_access,
        Page!rpcVars, Page!tblVars
  <2> QED BY <2>2 DEF Page!ServerStep
<1>11. CASE serv_wr_rq_own(a)
  <2>1. seen' = [seen EXCEPT ![Manager] = left_access("wr")]
    BY <1>11, <1>a, <1>3, SeenChange DEF serv_wr_rq_own, FetchPc, Serve
  <2>2. Page!serv_wr_rq_own(a)
    BY <1>2, <1>11, <2>1
    DEF seen, serv_wr_rq_own, left_access, rpcVars, tblVars, Page!serv_wr_rq_own,
        Page!left_access, Page!rpcVars, Page!tblVars
  <2> QED BY <2>2 DEF Page!ServerStep
<1>12. CASE serv_rd_rq_fetched(a)
  <2>1. seen' = seen
    BY <1>12, SeenSame DEF serv_rd_rq_fetched
  <2>2. Page!serv_rd_rq_fetched(a)
    BY <1>2, <1>12, <2>1
    DEF seen, serv_rd_rq_fetched, call_returns, hang_up, page_contents, served,
        release_locks, tblVars, Page!serv_rd_rq_fetched, Page!call_returns,
        Page!hang_up, Page!page_contents, Page!served, Page!release_locks,
        Page!tblVars
  <2> QED BY <2>2 DEF Page!ServerStep
<1>13. CASE serv_wr_rq_fetched(a)
  <2>1. seen' = seen
    BY <1>13, SeenSame DEF serv_wr_rq_fetched
  <2>2. Page!serv_wr_rq_fetched(a)
    BY <1>2, <1>13, <2>1
    DEF seen, serv_wr_rq_fetched, call_returns, hang_up, page_contents, tblVars,
        Page!serv_wr_rq_fetched, Page!call_returns, Page!hang_up,
        Page!page_contents, Page!tblVars
  <2> QED BY <2>2 DEF Page!ServerStep
<1>14. CASE serv_rd_rq_call_failed(a)
  <2>1. seen' = seen
    BY <1>14, SeenSame DEF serv_rd_rq_call_failed, serv_rq_call_failed
  <2>2. Page!serv_rd_rq_call_failed(a)
    BY <1>2, <1>14, <2>1, FailsMaps
    DEF seen, serv_rd_rq_call_failed, serv_rq_call_failed, retried, release_locks,
        tblVars, Page!serv_rd_rq_call_failed, Page!serv_rq_call_failed,
        Page!retried, Page!release_locks, Page!tblVars
  <2> QED BY <2>2 DEF Page!ServerStep
<1>15. CASE serv_wr_rq_call_failed(a)
  <2>1. seen' = seen
    BY <1>15, SeenSame DEF serv_wr_rq_call_failed, serv_rq_call_failed
  <2>2. Page!serv_wr_rq_call_failed(a)
    BY <1>2, <1>15, <2>1, FailsMaps
    DEF seen, serv_wr_rq_call_failed, serv_rq_call_failed, retried, release_locks,
        tblVars, Page!serv_wr_rq_call_failed, Page!serv_rq_call_failed,
        Page!retried, Page!release_locks, Page!tblVars
  <2> QED BY <2>2 DEF Page!ServerStep
<1>16. CASE send_invalidations(a)
  <2>1. seen' = seen
    BY <1>16, SeenSame DEF send_invalidations
  <2>2. Page!send_invalidations(a)
    BY <1>2, <1>16, <2>1
    DEF seen, send_invalidations, call, tblVars, Page!send_invalidations,
        Page!call, Page!tblVars
  <2> QED BY <2>2 DEF Page!ServerStep
<1>17. CASE send_invalidations_ok(a)
  <2>1. seen' = seen
    BY <1>17, SeenSame DEF send_invalidations_ok
  <2>2. Page!send_invalidations_ok(a)
    BY <1>2, <1>17, <2>1
    DEF seen, send_invalidations_ok, call_returns, hang_up, ivld_left, tblVars,
        Page!send_invalidations_ok, Page!call_returns, Page!hang_up,
        Page!ivld_left, Page!tblVars
  <2> QED BY <2>2 DEF Page!ServerStep
<1>18. CASE send_invalidations_failed(a)
  <2>1. seen' = seen
    BY <1>18, SeenSame DEF send_invalidations_failed
  <2>2. Page!send_invalidations_failed(a)
    BY <1>2, <1>18, <2>1, FailsMaps
    DEF seen, send_invalidations_failed, tblVars, Page!send_invalidations_failed,
        Page!tblVars
  <2> QED BY <2>2 DEF Page!ServerStep
<1>19. CASE serv_wr_rq_grant(a)
  <2>1. seen' = seen
    BY <1>19, SeenSame DEF serv_wr_rq_grant
  <2>2. Page!serv_wr_rq_grant(a)
    BY <1>2, <1>19, <2>1
    DEF seen, serv_wr_rq_grant, served, release_locks, rpcVars,
        Page!serv_wr_rq_grant, Page!served, Page!release_locks, Page!rpcVars
  <2> QED BY <2>2 DEF Page!ServerStep
<1> QED
  BY <1>4, <1>5, <1>6, <1>7, <1>8, <1>9, <1>10, <1>11,
     <1>12, <1>13, <1>14, <1>15, <1>16, <1>17, <1>18, <1>19
  DEF ServerStep

\* A step of the page that the cluster takes is a step of IvyPage on what is seen.
LEMMA RunsMaps == ASSUME Base, Booted, ServesMapped, Runs PROVE Page!Next
  BY ProgramMaps, HandlerMaps, CallMaps, ServerMaps
  DEF Runs, Ready, Server, Manager, Page!Next, Page!Server, Page!Manager

\* Coming up, listening and taking jobs are not seen.
LEMMA ComingUpUnseen ==
    ASSUME Base, Booted, NEW n \in Node,
           \/ construct(n) \/ start_recv(n) \/ take_job(n)
           \/ map_region(n) \/ reg_addr_range(n)
    PROVE  UNCHANGED Page!vars
<1>1. seen' = seen
  <2>1. CASE construct(n)
    BY <2>1 DEF construct, vars, seen, Booted
  <2>2. CASE start_recv(n) \/ take_job(n)
    BY <2>2 DEF start_recv, take_job, vars, seen
  <2>3. CASE map_region(n)
    BY <2>3 DEF map_region, seen, Booted
  <2>4. CASE reg_addr_range(n)
    <3>1. /\ boot[n] = "mapped" /\ boot' = [boot EXCEPT ![n] = "ready"]
          /\ perm' = [perm EXCEPT ![n] = "none"]
      BY <2>4 DEF reg_addr_range
    <3>2. ASSUME NEW m \in Node
          PROVE  (IF boot'[m] = "ready" THEN perm'[m] ELSE "none")
                   = (IF boot[m] = "ready" THEN perm[m] ELSE "none")
      BY <3>1 DEF Base, TypeOK, Booted
    <3> QED BY <3>2 DEF seen
  <2> QED BY <2>1, <2>2, <2>3, <2>4
<1> QED
  BY <1>1 DEF construct, start_recv, take_job, map_region, reg_addr_range, vars, rpcVars,
     tblVars, seen, Page!vars

\* Every step of a cluster whose manager is ready when it serves is a step of IvyPage
\* or unseen.
LEMMA ClusterStepMaps ==
    ASSUME ServesMapped, Base, Booted, [ClusterNext]_clusterVars
    PROVE  [Page!Next]_(Page!vars)
<1>1. CASE Runs
  BY <1>1, RunsMaps
<1>2. ASSUME NEW n \in Node,
             \/ construct(n) \/ start_recv(n) \/ take_job(n)
             \/ map_region(n) \/ reg_addr_range(n)
      PROVE  UNCHANGED Page!vars
  BY <1>2, ComingUpUnseen
<1>3. ASSUME NEW n \in Node, RunProgram(n) \/ RunHandler(n)
      PROVE  Runs
  BY <1>3 DEF RunProgram, RunHandler, Runs, accept_and_release
<1>4. ASSUME NEW a \in Server, RunServer(a)
      PROVE  Runs
  <2>1. ~protect_fails(a)
    BY AtFetch, Names DEF Base, protect_fails, Ready, Mapped, FetchPc
  <2> QED BY <1>4, <2>1 DEF RunServer, Runs, accept_and_release
<1>5. CASE UNCHANGED <<vars, boot>>
  BY <1>5 DEF vars, Page!vars
<1> QED
  BY <1>1, <1>2, <1>3, <1>4, <1>5 DEF ClusterNext, clusterVars, read_page_faults

\* At the start no process is there, and all is as in IvyPage.
LEMMA BootedInit == ClusterInit => Booted /\ Page!Init
<1> SUFFICES ASSUME ClusterInit PROVE Booted /\ Page!Init
  OBVIOUS
<1>1. Init /\ boot = [n \in Node |-> "new"]
  BY DEF ClusterInit
<1>2. Booted
  BY <1>1, CallAssumption DEF Init, Booted, Thread
<1>3. Page!Init
  BY <1>1 DEF Init, Thread, Manager, Page!Init, Page!Thread, Page!Manager
<1> QED BY <1>2, <1>3

\* Processes that come up in any order, servers that refuse calls until they listen, and
\* a pool of any size show a page nothing but steps of IvyPage, as long as the manager
\* serves no request before its get_shm has returned.
THEOREM ClusterImplementsIvyPage == ClusterSpec => ImplementsIvyPage
<1>1. ClusterInit => Base /\ Booted /\ Page!Init
  BY BaseInit, BootedInit
<1>2. Base /\ Booted /\ [ClusterNext]_clusterVars =>
        Base' /\ Booted' /\ [ServesMapped => Page!Next]_(Page!vars)
  BY BaseStep, BootedStep, ClusterStepMaps
<1> QED BY <1>1, <1>2, PTL DEF ClusterSpec, ImplementsIvyPage

\* A cluster whose manager never does so implements IvyPage: every safety property proved
\* of IvyPage then holds from the first moment on.
THEOREM ClusterImplements == ClusterSpec /\ []ServesMapped => Page!Spec
BY ClusterImplementsIvyPage, PTL DEF ImplementsIvyPage, Page!Spec

(***************************************************************************)
(* Locks in the cluster.  The protections of a process are those of its    *)
(* region itself here, also while it comes up: mmap leaves the region open *)
(* for a moment, and get_shm then closes it, without any lock.             *)
(***************************************************************************)

\* A step that is none of IvyPage changes no protection but of a process that comes up,
\* or is a server thread of the manager that fails to restrict the region.
LEMMA ComesUpOrRuns ==
    ASSUME Base, Booted, [ClusterNext]_clusterVars
    PROVE  \/ Runs
           \/ /\ UNCHANGED <<pc, op, buf, todo, rpcVars, mem, pageLock, tblVars, latest>>
              /\ \A n \in Node : Ready(n) => perm'[n] = perm[n]
           \/ \E a \in Server : Unmapped(a) /\ home(a) = Manager
<1> DEFINE Kept == UNCHANGED <<pc, op, buf, todo, rpcVars, mem, pageLock, tblVars, latest>>
           Opens == \A n \in Node : Ready(n) => perm'[n] = perm[n]
<1>1. ASSUME NEW n \in Node, construct(n) \/ start_recv(n) \/ take_job(n)
      PROVE  Kept /\ Opens
  BY <1>1 DEF construct, start_recv, take_job, vars, rpcVars, tblVars, Base, TypeOK
<1>2. ASSUME NEW n \in Node, map_region(n) \/ reg_addr_range(n)
      PROVE  Kept /\ Opens
  BY <1>2 DEF map_region, reg_addr_range, Ready, Base, TypeOK, Perm
<1>3. ASSUME NEW n \in Node, RunProgram(n) \/ RunHandler(n)
      PROVE  Runs
  BY <1>3 DEF RunProgram, RunHandler, Runs, accept_and_release
<1>4. ASSUME NEW a \in Server, RunServer(a)
      PROVE  Runs \/ (Unmapped(a) /\ home(a) = Manager)
  <2>1. protect_fails(a) => home(a) = Manager
    BY AtWork, Names DEF Base, protect_fails, Ready, Mapped
  <2> QED BY <1>4, <2>1 DEF RunServer, protect_fails, Unmapped, Runs, accept_and_release
<1>5. CASE UNCHANGED vars
  BY <1>5 DEF vars, rpcVars, tblVars, Base, TypeOK
<1> QED
  BY <1>1, <1>2, <1>3, <1>4, <1>5 DEF ClusterNext, clusterVars, read_page_faults

\* The lock discipline of the cluster: that of IvyPage, without the right to store, which
\* a region has for a moment before its process takes part, and without the page of a
\* manager that serves before it has one.
ClusterLocks ==
    /\ Sections /\ Booted /\ Idler /\ Occupied /\ Noted /\ Addressed
    /\ ReadableAt(Worker)

\* At the start all locks are free.
LEMMA ClusterLocksInit == ClusterInit => ClusterLocks
  BY LockInvInit, BootedInit
  DEF ClusterInit, LockInv, IInv, Sections, ClusterLocks, Fetchable, ReadableAt

\* Every step keeps it: a thread with a lock of a worker works in a process that has come
\* up, and the manager's locks do not depend on its page.
LEMMA ClusterLocksStep ==
    ASSUME Manager \notin Loader \cup Storer, ClusterLocks, [ClusterNext]_clusterVars
    PROVE  ClusterLocks'
<1> USE DEF ClusterLocks
<1>1. Base /\ Base' /\ Booted'
  BY BaseStep, BootedStep DEF Sections, Base
<1>2. CASE Runs
  <2>1. Next
    BY <1>2, RunsIsNext
  <2>2. OpenCopy' /\ Idler'
    BY <2>1, OpenCopyStep, IdlerStep DEF Sections
  <2>3. pc[Manager] = "run"
        /\ ~(Load(Manager) \/ Store(Manager) \/ sigaction_hdlr(Manager))
    BY DEF Idler, Load, Store, sigaction_hdlr, Accesses
  <2>4. Occupied' /\ Noted' /\ Addressed' /\ ReadableAt(Worker)'
    BY <2>1, <2>3, LocksStep
  <2> QED BY <1>1, <2>2, <2>4 DEF Base, Sections
<1>3. ASSUME UNCHANGED <<pc, op, buf, todo, rpcVars, mem, pageLock, tblVars, latest>>,
             \A n \in Node : Ready(n) => perm'[n] = perm[n]
      PROVE  ClusterLocks'
  <2>1. OpenCopy'
    BY <1>3 DEF Sections, OpenCopy, Booted, Worker
  <2>2. ReadableAt(Worker)'
    <3>1. \A a \in Thread : pc[a] \in {"fpRead", "fpSet"} /\ home(a) \in Worker =>
              Ready(home(a)) /\ home(a) \in Node
      BY <1>1, AtWork, Names DEF Base
    <3>2. \A a \in Thread : home(a)' = home(a)
      BY <1>3 DEF rpcVars, home
    <3> QED BY <1>3, <3>1, <3>2 DEF ReadableAt
  <2>3. Idler' /\ Occupied' /\ Noted' /\ Addressed'
    BY <1>3 DEF Idler, Occupied, Noted, Addressed, Holds, Serving, rpcVars, tblVars
  <2> QED BY <1>1, <2>1, <2>2, <2>3 DEF Base, Sections
<1>4. ASSUME NEW a \in Server, Unmapped(a), home(a) = Manager
      PROVE  ClusterLocks'
  <2>1. /\ a \in Thread /\ a \notin Worker /\ pc[a] = "fpProtect" /\ pc'[a] = "fpRead"
        /\ \A b \in Thread \ {a} : pc'[b] = pc[b]
        /\ UNCHANGED <<op, todo, rpcVars, perm, pageLock, tblVars>>
    BY <1>1, <1>4, Names DEF Base, Unmapped, TypeOK
  <2>2. \A b \in Thread : home(b)' = home(b) /\ (Serving(b)' <=> Serving(b))
    BY <2>1 DEF rpcVars, home, Serving, FetchPc
  <2>3. \A b \in Thread, n \in Node : Holds(b, n)' <=> Holds(b, n)
    BY <2>1, <2>2 DEF rpcVars, Holds, FetchPc
  <2>4. OpenCopy' /\ Addressed'
    BY <2>1, Names DEF Sections, OpenCopy, Addressed, rpcVars, tblVars
  <2>5. Idler'
    BY <1>1, <2>1, Names DEF Base, Idler, TypeOK
  <2>6. Occupied' /\ Noted'
    BY <1>1, <2>1, <2>2, <2>3, Names DEF Base, Occupied, Noted, tblVars
  <2>7. ReadableAt(Worker)'
    BY <1>4, <2>1, <2>2 DEF ReadableAt, Worker
  <2> QED BY <1>1, <2>4, <2>5, <2>6, <2>7 DEF Base, Sections
<1> QED BY <1>1, <1>2, <1>3, <1>4, ComesUpOrRuns

\* In whatever order the processes come up, also when the manager is asked for the page
\* before it has one, every lock is held exactly from its wait_lock to its unlock, no
\* handler copies into a protected page, and a fetch finds the page of a worker readable:
\* get_shm, which closes a region without a lock, is done before anybody relies on it.
THEOREM ClusterKeepsLocks ==
    Manager \notin Loader \cup Storer /\ ClusterSpec
        => [](LocksMatchThreads /\ CopyIsWritable /\ ReadableAt(Worker))
<1>1. CASE Manager \notin Loader \cup Storer
  <2>1. ClusterLocks => LocksMatchThreads /\ CopyIsWritable /\ ReadableAt(Worker)
    BY <1>1, LocksMatch DEF ClusterLocks, Sections, Idler, OpenCopy, CopyIsWritable, Worker
  <2>2. ClusterLocks /\ [ClusterNext]_clusterVars => ClusterLocks'
    BY <1>1, ClusterLocksStep
  <2> QED BY <2>1, <2>2, ClusterLocksInit, PTL DEF ClusterSpec
<1>2. CASE ~(Manager \notin Loader \cup Storer)
  BY <1>2
<1> QED BY <1>1, <1>2

(***************************************************************************)
(* What a step of a thread does to the calls.                              *)
(***************************************************************************)
\* Thread a moves on; if it is a call, it does so to serve a request only as one.
Moves(a) ==
    /\ pc[a] \notin {"free", "killed"} /\ pc'[a] \notin {"free", "killed"}
    /\ a \in Call => pc'[a] # "sent"
    /\ a \in Call /\ pc'[a] \in ServePc => op[a] \in Serve \/ pc[a] \in ServePc
    /\ Serving(a)' => Serving(a) \/ Up(Manager)
    /\ \A b \in Thread \ {a} : pc'[b] = pc[b] /\ op'[b] = op[b]
    /\ a \in Call => op'[a] = op[a]
    /\ UNCHANGED rpcVars

\* Thread a makes call c.
Calls(a, c) ==
    /\ pc[c] = "free" /\ pc'[c] = "sent" /\ from'[c] = a
    /\ pc[a] \in {"lock", "srvInfo", "srvInval"} /\ pc'[a] \in Calling
    /\ pc'[a] \in ServePc => pc[a] \in ServePc
    /\ Serving(a)' => Serving(a)
    /\ \A b \in Thread \ {a, c} : pc'[b] = pc[b]
    /\ \A b \in Thread \ {c} : op'[b] = op[b]
    /\ \A d \in Call \ {c} : from'[d] = from[d] /\ dst'[d] = dst[d]

\* Call c is forgotten by thread a, or by its server when nobody waits.  It is so
\* before it is executed only when it has failed.
Ends(a, c) ==
    /\ pc[c] \in {"sent", "done", "killed"} /\ pc'[c] = "free"
    /\ pc[c] = "sent" => CallFailed(a) /\ from[c] = a
    /\ a # c => /\ pc[a] \in Calling /\ pc'[a] \notin {"free", "killed", "sent"}
                /\ pc'[a] \in ServePc => pc[a] \in ServePc
                /\ Serving(a)' => Serving(a)
    /\ \A b \in Thread \ {a, c} : pc'[b] = pc[b]
    /\ \A b \in Thread \ {c} : op'[b] = op[b]
    /\ \A d \in Call \ {c} : from'[d] = from[d] /\ dst'[d] = dst[d]

\* Thread a gives up its call c, which goes on without it.
Leaves(a, c) ==
    /\ from[c] = a /\ Cardinality(Orphans) < MaxOrphans
    /\ pc[a] \in Calling /\ pc'[a] \notin {"free", "killed", "sent"}
    /\ pc'[a] \in ServePc => pc[a] \in ServePc
    /\ Serving(a)' => Serving(a)
    /\ \A b \in Thread \ {a} : pc'[b] = pc[b]
    /\ \A d \in Call \ {c} : from'[d] = from[d]
    /\ UNCHANGED <<op, dst>>

Works(a) ==
    Moves(a) \/ \E c \in Call : Calls(a, c) \/ Ends(a, c) \/ Leaves(a, c)

\* Making a call.
LEMMA CallWorks ==
    ASSUME TypeOK, NEW a \in Thread, NEW c \in Call, NEW next \in Calling,
           NEW n, NEW fn, NEW who, call(a, next, c, n, fn, who),
           pc[a] \in {"lock", "srvInfo", "srvInval"},
           next # "wait" => pc[a] # "lock"
    PROVE  Works(a)
<1>1. /\ pc' = [pc EXCEPT ![a] = next, ![c] = "sent"] /\ pc[c] = "free" /\ a # c
      /\ op' = [op EXCEPT ![c] = fn] /\ from' = [from EXCEPT ![c] = a]
      /\ dst' = [dst EXCEPT ![c] = n]
  BY DEF call
<1>2. /\ pc'[a] = next /\ pc'[c] = "sent" /\ from'[c] = a
      /\ \A b \in Thread \ {a, c} : pc'[b] = pc[b]
      /\ \A b \in Thread \ {c} : op'[b] = op[b]
      /\ \A d \in Call \ {c} : from'[d] = from[d] /\ dst'[d] = dst[d]
  BY <1>1 DEF TypeOK, Thread
<1>3. (next \in ServePc => pc[a] \in ServePc) /\ (Serving(a)' => Serving(a))
  BY <1>2 DEF Calling, ServePc, Serving, FetchPc
<1>4. Calls(a, c)
  BY <1>1, <1>2, <1>3 DEF Calls
<1> QED BY <1>4 DEF Works

\* Hanging up.
LEMMA HangUpWorks ==
    ASSUME TypeOK, NEW a \in Thread, NEW c \in Call, a # c,
           NEW next \in {"protect", "done", "srvInval", "lock", "srvLock"},
           hang_up(a, next, c),
           pc[c] \in {"sent", "done", "killed"},
           pc[c] = "sent" => CallFailed(a) /\ from[c] = a,
           pc[a] \in Calling, next \in {"srvInval", "srvLock"} => pc[a] # "wait"
    PROVE  Works(a)
<1>1. /\ pc' = [pc EXCEPT ![a] = next, ![c] = "free"]
      /\ op' = [op EXCEPT ![c] = "rd"] /\ from' = [from EXCEPT ![c] = NoOne]
      /\ dst' = [dst EXCEPT ![c] = Manager]
  BY DEF hang_up
<1>2. /\ pc'[a] = next /\ pc'[c] = "free"
      /\ \A b \in Thread \ {a, c} : pc'[b] = pc[b]
      /\ \A b \in Thread \ {c} : op'[b] = op[b]
      /\ \A d \in Call \ {c} : from'[d] = from[d] /\ dst'[d] = dst[d]
  BY <1>1 DEF TypeOK, Thread
<1>3. (next \in ServePc => pc[a] \in ServePc) /\ (Serving(a)' => Serving(a))
  BY <1>2 DEF Calling, ServePc, Serving, FetchPc
<1>4. Ends(a, c)
  BY <1>2, <1>3 DEF Ends
<1> QED BY <1>4 DEF Works

\* A call fails.
LEMMA FailWorks ==
    ASSUME TypeOK, NEW a \in Thread, NEW c \in Call,
           NEW next \in {"srvInval", "lock", "srvLock"}, call_fails(a, next, c),
           CallFailed(a), pc[a] \in Calling,
           next \in {"srvInval", "srvLock"} => pc[a] # "wait"
    PROVE  Works(a)
<1>1. CASE hang_up(a, next, c) /\ pc[c] \in {"sent", "done", "killed"}
  BY <1>1, HangUpWorks DEF call_fails, Calling
<1>2. CASE /\ Cardinality(Orphans) < MaxOrphans
           /\ pc' = [pc EXCEPT ![a] = next]
           /\ from' = [from EXCEPT ![c] = NoOne]
           /\ UNCHANGED <<op, buf, dst, req>>
  <2>1. /\ pc'[a] = next /\ \A b \in Thread \ {a} : pc'[b] = pc[b]
        /\ \A d \in Call \ {c} : from'[d] = from[d]
    BY <1>2 DEF TypeOK, Thread
  <2>2. (next \in ServePc => pc[a] \in ServePc) /\ (Serving(a)' => Serving(a))
    BY <2>1 DEF Calling, ServePc, Serving, FetchPc
  <2>3. Leaves(a, c)
    BY <1>2, <2>1, <2>2 DEF Leaves, call_fails
  <2> QED BY <2>3 DEF Works
<1> QED BY <1>1, <1>2 DEF call_fails

\* The steps of a program and of its fault handler.
LEMMA ProgramWorks ==
    ASSUME TypeOK, NEW n \in Node,
           Load(n) \/ Store(n) \/ sigaction_hdlr(n) \/ HandlerStep(n)
    PROVE  Works(n) \/ killed_by_signal(n)
<1>a. /\ n \in Thread /\ n \notin Call /\ Manager \notin Call
      /\ \A c \in Call : c # n /\ c \in Thread
  BY Names
<1>1. CASE Load(n) \/ Store(n) \/ sigaction_hdlr(n) \/ open_page(n)
           \/ get_rd_page_copy(n) \/ get_rd_page_protect(n) \/ get_wr_page_copy(n)
  <2>1. /\ pc[n] \notin {"free", "killed"} /\ pc'[n] \notin {"free", "killed"}
        /\ \A b \in Thread \ {n} : pc'[b] = pc[b]
        /\ ~Serving(n)'
    BY <1>a, <1>1
    DEF Load, Store, sigaction_hdlr, Accesses, open_page, get_rd_page_copy,
        get_rd_page_protect, get_wr_page_copy, TypeOK, Serving, FetchPc
  <2>2. UNCHANGED rpcVars /\ \A b \in Thread \ {n} : op'[b] = op[b]
    BY <1>a, <1>1
    DEF Load, Store, sigaction_hdlr, open_page, get_rd_page_copy,
        get_rd_page_protect, get_wr_page_copy, TypeOK
  <2> QED BY <1>a, <2>1, <2>2 DEF Works, Moves
<1>2. CASE rd_fault_hdlr(n) \/ wr_fault_hdlr(n)
  <2>1. PICK fn \in {"rd", "wr"} : ask_manager(n, fn)
    BY <1>2 DEF rd_fault_hdlr, wr_fault_hdlr
  <2>2. PICK c \in Call : call(n, "wait", c, Manager, fn, n)
    BY <2>1 DEF ask_manager
  <2> QED BY <1>a, <2>1, <2>2, CallWorks DEF ask_manager, Calling
<1>3. CASE fault_hdlr_reply(n)
  BY <1>a, <1>3, HangUpWorks DEF fault_hdlr_reply, call_returns, Calling
<1>4. CASE fault_hdlr_backoff(n)
  BY <1>a, <1>4, FailWorks DEF fault_hdlr_backoff, CallFailed, Calling
<1> QED
  BY <1>1, <1>2, <1>3, <1>4 DEF HandlerStep

\* The steps of a call.
LEMMA CalleeWorks ==
    ASSUME TypeOK, NEW c \in Call, CallStep(c)
    PROVE  Works(c)
<1>a. c \in Thread
  BY Names
<1>1. CASE discard_reply(c)
  <2>1. /\ pc[c] \in {"done", "killed"} /\ pc'[c] = "free"
        /\ \A b \in Thread \ {c} : pc'[b] = pc[b] /\ op'[b] = op[b]
        /\ \A d \in Call \ {c} : from'[d] = from[d] /\ dst'[d] = dst[d]
    BY <1>a, <1>1 DEF discard_reply, hang_up, TypeOK
  <2> QED BY <2>1 DEF Works, Ends
<1>2. CASE fetch_pg_lock(c) \/ fetch_pg_answer(c) \/ invalidate_adapter(c)
  <2>1. /\ pc[c] \notin {"free", "killed"} /\ pc'[c] \in {"fpProtect", "done"}
        /\ \A b \in Thread \ {c} : pc'[b] = pc[b]
        /\ UNCHANGED <<op, rpcVars>>
        /\ pc'[c] = "fpProtect" => op[c] \notin Serve
    BY <1>a, <1>2 DEF fetch_pg_lock, fetch_pg_answer, invalidate_adapter, TypeOK, Serve
  <2>2. ~Serving(c)' /\ pc'[c] \notin ServePc \cup {"free", "killed", "sent"}
    BY <2>1 DEF Serving, FetchPc, ServePc
  <2> QED BY <2>1, <2>2 DEF Works, Moves
<1> QED BY <1>1, <1>2 DEF CallStep

\* The steps of a thread that serves a request or reads a page.
LEMMA ServerWorks ==
    ASSUME TypeOK, NEW a \in Server, ServerStep(a)
    PROVE  Works(a)
<1>a. a \in Thread /\ (a \in Call \/ a = Manager) /\ Manager \notin Call
  BY Names
<1>1. CASE fetch_pg_protect(a) \/ read_page(a)
  <2>1. /\ pc[a] \in FetchPc /\ pc'[a] \in FetchPc /\ UNCHANGED <<op, rpcVars>>
        /\ \A b \in Thread \ {a} : pc'[b] = pc[b]
    BY <1>a, <1>1 DEF fetch_pg_protect, read_page, FetchPc, TypeOK
  <2>2. Serving(a)' => Serving(a)
    BY <2>1 DEF Serving, FetchPc
  <2>3. Moves(a)
    BY <2>1, <2>2 DEF Moves, FetchPc, ServePc
  <2> QED BY <2>3 DEF Works
<1>2. CASE serv_rd_rq_lock(a) \/ serv_wr_rq_lock(a)
  <2>1. /\ pc[a] \in {"srvLock", "sent"} /\ pc'[a] = "srvInfo" /\ UNCHANGED <<op, rpcVars>>
        /\ op[a] \in Serve /\ Up(Manager) /\ \A b \in Thread \ {a} : pc'[b] = pc[b]
    BY <1>a, <1>2 DEF serv_rd_rq_lock, serv_wr_rq_lock, serv_rq_lock, Serve, TypeOK
  <2>2. Moves(a)
    BY <2>1 DEF Moves
  <2> QED BY <2>2 DEF Works
<1>3. ASSUME op[a] \in Serve, pc[a] \in {"srvInfo", "fpSet"},
             pc' = [pc EXCEPT ![a] = "fpProtect"] \/ pc' = [pc EXCEPT ![a] = "srvInval"]
             \/ pc' = [pc EXCEPT ![a] = served(a)], UNCHANGED <<op, rpcVars>>
      PROVE  Works(a)
  <2>1. /\ \A b \in Thread \ {a} : pc'[b] = pc[b]
        /\ pc'[a] \in {"fpProtect", "srvInval", "protect", "done"}
    BY <1>a, <1>3 DEF TypeOK, served
  <2>2. Serving(a)
    BY <1>3 DEF Serving, FetchPc
  <2>3. Moves(a)
    BY <1>3, <2>1, <2>2 DEF Moves
  <2> QED BY <2>3 DEF Works
<1>4. CASE serv_rd_rq(a)
  BY <1>a, <1>3, <1>4, CallWorks DEF serv_rd_rq, Serve, Calling
<1>5. CASE serv_wr_rq(a)
  BY <1>a, <1>3, <1>5, CallWorks DEF serv_wr_rq, Serve, Calling
<1>6. CASE serv_rd_rq_own(a) \/ serv_wr_rq_own(a)
  BY <1>a, <1>3, <1>6 DEF serv_rd_rq_own, serv_wr_rq_own, Serve
<1>7. CASE serv_rd_rq_fetched(a) \/ serv_wr_rq_fetched(a) \/ send_invalidations_ok(a)
  BY <1>a, <1>7, HangUpWorks
  DEF serv_rd_rq_fetched, serv_wr_rq_fetched, send_invalidations_ok, call_returns, served,
      Calling
<1>8. CASE \/ serv_rd_rq_call_failed(a) \/ serv_wr_rq_call_failed(a)
           \/ send_invalidations_failed(a)
  <2>1. PICK next \in {"srvInval", "srvLock"}, c \in Call : call_fails(a, next, c)
    BY <1>8 DEF serv_rd_rq_call_failed, serv_wr_rq_call_failed, serv_rq_call_failed,
       send_invalidations_failed, retried
  <2>2. pc[a] \in {"srvFetch", "srvAck"} /\ CallFailed(a)
    BY <1>8 DEF serv_rd_rq_call_failed, serv_wr_rq_call_failed, serv_rq_call_failed,
       send_invalidations_failed, CallFailed
  <2> QED BY <1>a, <2>1, <2>2, FailWorks DEF Calling
<1>9. CASE send_invalidations(a)
  BY <1>a, <1>9, CallWorks DEF send_invalidations, Calling
<1>10. CASE serv_wr_rq_grant(a)
  <2>1. /\ pc[a] = "srvInval" /\ pc'[a] \in {"protect", "done"} /\ UNCHANGED <<op, rpcVars>>
        /\ \A b \in Thread \ {a} : pc'[b] = pc[b]
    BY <1>a, <1>10 DEF serv_wr_rq_grant, served, TypeOK
  <2>2. Moves(a)
    BY <2>1 DEF Moves, Serving, ServePc
  <2> QED BY <2>2 DEF Works
<1> QED
  BY <1>1, <1>2, <1>4, <1>5, <1>6, <1>7, <1>8, <1>9, <1>10 DEF ServerStep

(***************************************************************************)
(* How many calls there can be.                                            *)
(***************************************************************************)
\* A call serves a request only as one.  As long as the manager lives no more
\* calls than MaxOrphans are executed for nobody; when it has died none of
\* its threads serves any more.
Few ==
    /\ \A c \in Call : pc[c] \in ServePc => op[c] \in Serve
    /\ Up(Manager) => IsFiniteSet(Orphans) /\ Cardinality(Orphans) <= MaxOrphans
    /\ ~Up(Manager) => \A a \in Server : ~Serving(a)

\* At the start there are no calls.
LEMMA FewInit == ClusterInit => Few
<1> SUFFICES ASSUME ClusterInit PROVE Few
  OBVIOUS
<1>1. Base /\ pc = [a \in Thread |-> IF a \in Node THEN "run" ELSE "free"]
  BY BaseInit DEF ClusterInit, Init
<1>2. Up(Manager) /\ \A c \in Call : pc[c] = "free"
  BY <1>1, Names DEF Base, Up
<1>3. Orphans = {}
  BY <1>2 DEF Orphans
<1> QED BY <1>2, <1>3, FS_EmptySet, FailAssumption DEF Few, ServePc

\* A step of a thread keeps them few.
LEMMA FewWorks ==
    ASSUME Base, Few, NEW a \in Thread, Works(a) PROVE Few'
<1>a. /\ TypeOK /\ Manager \in Thread /\ Manager \notin Call /\ NoOne \notin Thread
      /\ \A b \in Server : b \in Thread /\ (b \in Call \/ b = Manager)
      /\ \A c \in Call : c \in Thread
  BY Names, ThreadSplit DEF Base
<1>b. pc[Manager] # "free" /\ \A n \in Thread : n \notin Call => pc[n] # "free" /\ pc[n] # "sent"
  BY <1>a, CallAssumption DEF TypeOK, ThreadPc, AppPc, ServePc, FetchPc, Thread
<1>1. CASE Moves(a)
  <2>1. (Up(Manager)' <=> Up(Manager)) /\ Orphans' = Orphans
    BY <1>1, <1>a DEF Moves, Up, Orphans, rpcVars
  <2>2. \A b \in Server : Serving(b)' => Serving(b) \/ Up(Manager)
    BY <1>1, <1>a DEF Moves, Serving
  <2>3. \A c \in Call : pc'[c] \in ServePc => op'[c] \in Serve
    BY <1>1, <1>a DEF Moves, Few
  <2> QED BY <2>1, <2>2, <2>3 DEF Few
<1>2. ASSUME NEW c \in Call, Calls(a, c)
      PROVE  Few'
  <2>1. a # c
    BY <1>2 DEF Calls
  <2>2. (Up(Manager)' <=> Up(Manager)) /\ Orphans' = Orphans
    BY <1>2, <1>a, <2>1 DEF Calls, Up, Orphans, Calling
  <2>3. \A b \in Server : Serving(b)' => Serving(b)
    BY <1>2, <1>a, <2>1 DEF Calls, Serving, FetchPc
  <2>4. \A d \in Call : pc'[d] \in ServePc => op'[d] \in Serve
    BY <1>2, <1>a, <2>1 DEF Calls, Few, ServePc
  <2> QED BY <2>2, <2>3, <2>4 DEF Few
<1>3. ASSUME NEW c \in Call, Ends(a, c)
      PROVE  Few'
  <2>1. (Up(Manager)' <=> Up(Manager)) /\ Orphans' \subseteq Orphans
    BY <1>3, <1>a, <1>b DEF Ends, Up, Orphans, Calling
  <2>2. \A b \in Server : Serving(b)' => Serving(b)
    BY <1>3, <1>a DEF Ends, Serving, FetchPc
  <2>3. \A d \in Call : pc'[d] \in ServePc => op'[d] \in Serve
    BY <1>3, <1>a DEF Ends, Few, ServePc
  <2>4. Up(Manager) => /\ IsFiniteSet(Orphans') /\ Cardinality(Orphans') <= MaxOrphans
    BY <2>1, FS_Subset, FS_CardinalityType, FailAssumption DEF Few
  <2> QED BY <2>1, <2>2, <2>3, <2>4 DEF Few
<1>4. ASSUME NEW c \in Call, Leaves(a, c)
      PROVE  Few'
  <2>1. (Up(Manager)' <=> Up(Manager)) /\ Orphans' \subseteq Orphans \cup {c}
    BY <1>4, <1>a, <1>b DEF Leaves, Up, Orphans, Calling
  <2>2. \A b \in Server : Serving(b)' => Serving(b)
    BY <1>4, <1>a DEF Leaves, Serving, FetchPc
  <2>3. \A d \in Call : pc'[d] \in ServePc => op'[d] \in Serve
    BY <1>4, <1>a DEF Leaves, Few, ServePc
  <2>4. Up(Manager) => /\ IsFiniteSet(Orphans') /\ Cardinality(Orphans') <= MaxOrphans
    <3> SUFFICES ASSUME Up(Manager)
                 PROVE  IsFiniteSet(Orphans') /\ Cardinality(Orphans') <= MaxOrphans
      OBVIOUS
    <3>1. IsFiniteSet(Orphans) /\ Cardinality(Orphans) \in Nat
          /\ Cardinality(Orphans) < MaxOrphans
      BY <1>4, FS_CardinalityType DEF Few, Leaves
    <3>2. /\ IsFiniteSet(Orphans \cup {c})
          /\ Cardinality(Orphans \cup {c}) =
               IF c \in Orphans THEN Cardinality(Orphans) ELSE Cardinality(Orphans) + 1
      BY <3>1, FS_AddElement
    <3>3. IsFiniteSet(Orphans') /\ Cardinality(Orphans') <= Cardinality(Orphans \cup {c})
      BY <2>1, <3>2, FS_Subset
    <3>4. Cardinality(Orphans') \in Nat
      BY <3>3, FS_CardinalityType
    <3> QED BY <3>1, <3>2, <3>3, <3>4, FailAssumption
  <2> QED BY <2>1, <2>2, <2>3, <2>4 DEF Few
<1> QED BY <1>1, <1>2, <1>3, <1>4 DEF Works

\* The death of a process leaves no more calls to be executed for nobody than the
\* manager's own: a worker that dies waits for no call.
LEMMA FewKilled ==
    ASSUME Base, Few, NEW n \in Node, killed_by_signal(n) PROVE Few'
<1>a. /\ TypeOK /\ Manager \in Thread /\ Manager \notin Call /\ NoOne \notin Thread
      /\ \A b \in Server : b \in Thread /\ (b \in Call \/ b = Manager)
      /\ \A c \in Call : c \in Thread /\ c \notin Node
      /\ \A m \in Node : m \in Thread /\ home(m) = m
      /\ Manager \in Node /\ Callers /\ n \in Worker \cup {Manager}
  BY Names, ThreadSplit DEF Base, home, Worker
<1>1. /\ \A b \in Thread : pc'[b] = IF home(b) = n /\ pc[b] # "free" THEN "killed" ELSE pc[b]
      /\ \A c \in Call : from'[c] =
            IF from[c] # NoOne /\ home(from[c]) = n THEN NoOne ELSE from[c]
      /\ op' = op /\ dst' = dst
      /\ pc[n] = "copy" \/ (n = Manager /\ pc[n] = "fpRead")
  BY <1>a DEF killed_by_signal
<1>2. \A c \in Call : pc[c] \in ServePc => home(c) = Manager
  BY <1>a DEF Few, Callers, home
<1>3. \A b \in Thread : pc'[b] \in ServePc \cup FetchPc => pc'[b] = pc[b]
  BY <1>1 DEF ServePc, FetchPc
<1>4. \A c \in Call : pc'[c] \in ServePc => op'[c] \in Serve
  BY <1>a, <1>1, <1>3 DEF Few
<1>5. \A b \in Server : Serving(b)' => Serving(b)
  BY <1>a, <1>1, <1>3 DEF Serving, ServePc
<1>6. CASE n = Manager
  <2>1. ~Up(Manager)'
    BY <1>a, <1>1, <1>6 DEF Up
  <2>2. ASSUME NEW b \in Server, Serving(b)'
        PROVE  FALSE
    <3>1. pc'[b] = pc[b] /\ Serving(b)
      BY <1>a, <1>3, <1>5, <2>2 DEF Serving, ServePc
    <3>2. home(b) = Manager
      BY <1>a, <1>2, <3>1 DEF Serving, ServePc, Callers, home
    <3> QED BY <1>a, <1>1, <1>6, <3>1, <3>2 DEF Serving, FetchPc
  <2> QED BY <1>4, <2>1, <2>2 DEF Few
<1>7. CASE n # Manager
  <2>1. n \in Worker /\ pc[n] = "copy"
    BY <1>a, <1>1, <1>7
  <2>2. \A c \in Call : from[c] # NoOne => home(from[c]) # n
    <3> SUFFICES ASSUME NEW c \in Call, from[c] # NoOne, home(from[c]) = n
                 PROVE  FALSE
      OBVIOUS
    <3>1. from[c] \in Thread
      BY <1>a DEF TypeOK
    <3>2. CASE from[c] \in Node
      BY <1>a, <2>1, <3>2 DEF Callers
    <3>3. CASE from[c] \in Call
      BY <1>a, <1>2, <1>7, <3>3 DEF Callers, ServePc, Server
    <3> QED BY <3>1, <3>2, <3>3 DEF Thread
  <2>3. Orphans' = Orphans
    BY <1>a, <1>1, <2>2 DEF Orphans
  <2>4. Up(Manager)' <=> Up(Manager)
    BY <1>a, <1>1, <1>7 DEF Up
  <2> QED BY <1>4, <1>5, <2>3, <2>4 DEF Few
<1> QED BY <1>6, <1>7

(***************************************************************************)
(* Jobs and threads.                                                       *)
(***************************************************************************)
\* A job is a call to the process that has not begun, and has no thread; it is
\* queued once.  A call that has a thread is executed by the process.
Pooled ==
    /\ jobs \in [Node -> Seq(Call)] /\ pool \in [Node -> SUBSET Call]
    /\ \A n \in Node : \A i \in DOMAIN jobs[n] :
         /\ pc[jobs[n][i]] = "sent" /\ dst[jobs[n][i]] = n
         /\ jobs[n][i] \notin pool[n]
         /\ \A j \in DOMAIN jobs[n] : jobs[n][i] = jobs[n][j] => i = j
    /\ \A n \in Node : \A c \in pool[n] :
         pc[c] \notin {"free", "done", "killed"} /\ dst[c] = n

\* A set of one element as a sequence.
LEMMA SetToSeqSmall ==
    /\ SetToSeq({}) = <<>>
    /\ \A x : SetToSeq({x}) = <<x>>
<1>1. SetToSeq({}) = <<>>
  <2>1. Cardinality({}) = 0
    BY FS_EmptySet
  <2>2. \A f \in [1 .. 0 -> {}] : f = <<>>
    OBVIOUS
  <2>3. <<>> \in [1 .. 0 -> {}] /\ IsInjective(<<>>)
    BY DEF IsInjective
  <2> QED BY <2>1, <2>2, <2>3 DEF SetToSeq
<1>2. ASSUME NEW x PROVE SetToSeq({x}) = <<x>>
  <2>1. Cardinality({x}) = 1
    BY FS_Singleton
  <2>2. \A f \in [1 .. 1 -> {x}] : f = <<x>>
    OBVIOUS
  <2>3. <<x>> \in [1 .. 1 -> {x}] /\ IsInjective(<<x>>)
    BY DEF IsInjective
  <2> QED BY <2>1, <2>2, <2>3 DEF SetToSeq
<1> QED BY <1>1, <1>2

\* Accepting a call and releasing threads: what is queued stays as it is while the process
\* lives, and one call is made at a time.
LEMMA PooledAccepts ==
    ASSUME Base, Pooled, accept_and_release, NEW c0,
           \A c \in Call : pc[c] # "free" /\ pc'[c] # "free" => dst'[c] = dst[c],
           \A n \in Node : Up(n)' => \A i \in DOMAIN jobs[n] : pc'[jobs[n][i]] = "sent",
           \A c \in Call : pc[c] = "free" /\ pc'[c] = "sent" => c = c0
    PROVE  Pooled'
<1>1. /\ jobs' = [n \in Node |-> IF Up(n)' THEN jobs[n] \o SetToSeq(Made(n)) ELSE <<>>]
      /\ pool' = [n \in Node |-> {c \in pool[n] : ~answered(c)}]
  BY DEF accept_and_release
<1>2. ASSUME NEW n \in Node
      PROVE  /\ jobs'[n] \in Seq(Call)
             /\ \A i \in DOMAIN jobs'[n] :
                  /\ pc'[jobs'[n][i]] = "sent" /\ dst'[jobs'[n][i]] = n
                  /\ jobs'[n][i] \notin pool'[n]
                  /\ \A j \in DOMAIN jobs'[n] : jobs'[n][i] = jobs'[n][j] => i = j
  <2>a. /\ jobs[n] \in Seq(Call) /\ pool'[n] \subseteq pool[n]
        /\ \A i \in DOMAIN jobs[n] : jobs[n][i] \in Call
        /\ DOMAIN jobs[n] = 1 .. Len(jobs[n])
    BY <1>1 DEF Pooled
  <2>b. Up(n)' => \A i \in DOMAIN jobs[n] :
                  /\ pc'[jobs[n][i]] = "sent" /\ dst'[jobs[n][i]] = n
                  /\ jobs[n][i] \notin pool'[n]
                  /\ \A j \in DOMAIN jobs[n] : jobs[n][i] = jobs[n][j] => i = j
    BY <2>a DEF Pooled
  <2>1. CASE ~Up(n)'
    BY <1>1, <2>1
  <2>2. CASE Up(n)' /\ Made(n) = {}
    <3>1. jobs'[n] = jobs[n] \o SetToSeq(Made(n))
      BY <1>1, <2>2
    <3>2. SetToSeq(Made(n)) = <<>>
      BY <2>2, SetToSeqSmall
    <3>3. jobs'[n] = jobs[n]
      BY <2>a, <3>1, <3>2
    <3> QED BY <2>2, <2>a, <2>b, <3>3
  <2>3. CASE Up(n)' /\ Made(n) # {}
    <3>1. Made(n) = {c0} /\ c0 \in Call /\ pc[c0] = "free" /\ pc'[c0] = "sent" /\ dst'[c0] = n
      BY <2>3 DEF Made
    <3>2. jobs'[n] = jobs[n] \o <<c0>> /\ <<c0>> \in Seq(Call)
      <4>1. jobs'[n] = jobs[n] \o SetToSeq(Made(n))
        BY <1>1, <2>3
      <4>2. SetToSeq(Made(n)) = <<c0>>
        BY <3>1, SetToSeqSmall
      <4>3. <<c0>> \in Seq(Call)
        BY <3>1
      <4> QED BY <4>1, <4>2, <4>3
    <3>3. /\ c0 \notin pool'[n] /\ \A i \in DOMAIN jobs[n] : jobs[n][i] # c0
      BY <2>a, <3>1 DEF Pooled
    <3>4. /\ jobs'[n] \in Seq(Call) /\ DOMAIN jobs'[n] = 1 .. Len(jobs[n]) + 1
          /\ jobs'[n][Len(jobs[n]) + 1] = c0
          /\ \A i \in DOMAIN jobs[n] : jobs'[n][i] = jobs[n][i]
          /\ \A i \in DOMAIN jobs'[n] : i \in DOMAIN jobs[n] \/ i = Len(jobs[n]) + 1
      BY <2>a, <3>1, <3>2
    <3> QED BY <2>3, <2>b, <3>1, <3>3, <3>4
  <2> QED BY <2>1, <2>2, <2>3
<1>3. ASSUME NEW n \in Node, NEW c \in pool'[n]
      PROVE  pc'[c] \notin {"free", "done", "killed"} /\ dst'[c] = n
  BY <1>1, <1>3 DEF Pooled, answered
<1>4. jobs' \in [Node -> Seq(Call)] /\ pool' \in [Node -> SUBSET Call]
  BY <1>1, <1>2 DEF Pooled
<1> QED BY <1>2, <1>3, <1>4 DEF Pooled

\* Jobs are calls.
LEMMA JobsAreCalls ==
    ASSUME Pooled PROVE \A n \in Node : \A i \in DOMAIN jobs[n] : jobs[n][i] \in Call
<1> SUFFICES ASSUME NEW n \in Node, NEW i \in DOMAIN jobs[n] PROVE jobs[n][i] \in Call
  OBVIOUS
<1>1. jobs[n] \in Seq(Call)
  BY DEF Pooled
<1> QED BY <1>1

\* A call that has been accepted is not given up before it is executed, and it is
\* executed by a thread of the pool.
LEMMA PooledWorks ==
    ASSUME Base, Pooled, accept_and_release, NEW a \in Thread, Works(a), FailsFor(a),
           a \in Call /\ pc[a] = "sent" => a \in pool[dst[a]]
    PROVE  Pooled'
<1>a. /\ TypeOK /\ Callers /\ NoOne \notin Thread
      /\ \A c \in Call : c \in Thread
      /\ \A n \in Node : \A i \in DOMAIN jobs[n] : jobs[n][i] \in Call
      /\ \A n \in Node : \A i \in DOMAIN jobs[n] :
           pc[jobs[n][i]] = "sent" /\ dst[jobs[n][i]] = n /\ jobs[n][i] \notin pool[n]
  BY Names, ThreadSplit, JobsAreCalls DEF Base, Pooled
<1>1. CASE Moves(a)
  <2>1. \A c \in Call : c # a => pc'[c] = pc[c]
    BY <1>1, <1>a DEF Moves
  <2>2. \A n \in Node : \A i \in DOMAIN jobs[n] : jobs[n][i] # a
    BY <1>a
  <2>3. a \in Call => pc[a] # "free" /\ pc'[a] # "sent"
    BY <1>1 DEF Moves
  <2>4. UNCHANGED dst
    BY <1>1 DEF Moves, rpcVars
  <2> QED BY <1>a, <2>1, <2>2, <2>3, <2>4, PooledAccepts
<1>2. ASSUME NEW c \in Call, Calls(a, c)
      PROVE  Pooled'
  <2>1. /\ \A d \in Call : d # a /\ d # c => pc'[d] = pc[d]
        /\ \A d \in Call : d # c => dst'[d] = dst[d]
        /\ pc[c] = "free" /\ pc[a] # "sent" /\ pc'[a] # "sent"
    BY <1>2, <1>a DEF Calls, Calling
  <2>2. \A n \in Node : \A i \in DOMAIN jobs[n] : jobs[n][i] # a /\ jobs[n][i] # c
    BY <1>a, <2>1
  <2> QED BY <1>a, <2>1, <2>2, PooledAccepts
<1>3. ASSUME NEW c \in Call, Ends(a, c)
      PROVE  Pooled'
  <2>1. /\ \A d \in Call : d # a /\ d # c => pc'[d] = pc[d]
        /\ \A d \in Call : d # c => dst'[d] = dst[d]
        /\ pc'[c] = "free" /\ (a # c => pc[a] # "sent" /\ pc'[a] # "sent")
    BY <1>3, <1>a DEF Ends, Calling
  <2>2. ASSUME NEW n \in Node, NEW i \in DOMAIN jobs[n], jobs[n][i] = c
        PROVE  FALSE
    <3>1. pc[c] = "sent" /\ dst[c] = n /\ CallFailed(a) /\ from[c] = a
      BY <1>3, <1>a, <2>2 DEF Ends
    <3>2. \A d \in Call : from[d] = a => d = c
      BY <1>a, <3>1 DEF Callers
    <3>3. ~send_invalidations_ok(a)
      BY <3>1, <3>2 DEF send_invalidations_ok, call_returns
    <3>4. Accepted(c)
      BY <2>2, <3>1 DEF Accepted, Range
    <3> QED BY <2>1, <3>1, <3>2, <3>3, <3>4 DEF FailsFor
  <2>3. \A n \in Node : \A i \in DOMAIN jobs[n] : jobs[n][i] # a \/ a = c
    BY <1>a, <2>1
  <2>4. \A d \in Call : pc[d] # "free" /\ pc'[d] # "free" => dst'[d] = dst[d]
    BY <2>1
  <2>5. \A n \in Node : \A i \in DOMAIN jobs[n] : pc'[jobs[n][i]] = "sent"
    BY <1>a, <2>1, <2>2, <2>3
  <2>6. \A d \in Call : ~(pc[d] = "free" /\ pc'[d] = "sent")
    BY <2>1
  <2> QED BY <2>4, <2>5, <2>6, PooledAccepts
<1>4. ASSUME NEW c \in Call, Leaves(a, c)
      PROVE  Pooled'
  <2>1. /\ \A d \in Call : d # a => pc'[d] = pc[d]
        /\ UNCHANGED dst /\ pc[a] # "sent" /\ pc'[a] # "sent"
    BY <1>4, <1>a DEF Leaves, Calling
  <2>2. \A n \in Node : \A i \in DOMAIN jobs[n] : jobs[n][i] # a
    BY <1>a, <2>1
  <2> QED BY <1>a, <2>1, <2>2, PooledAccepts
<1> QED BY <1>1, <1>2, <1>3, <1>4 DEF Works

\* A process that dies takes its jobs with it.
LEMMA PooledKilled ==
    ASSUME Base, Pooled, accept_and_release, NEW n \in Node, killed_by_signal(n)
    PROVE  Pooled'
<1>a. /\ TypeOK /\ \A m \in Node : m \in Thread /\ home(m) = m
      /\ \A c \in Call : c \in Thread /\ c \notin Node
      /\ \A m \in Node : \A i \in DOMAIN jobs[m] :
           jobs[m][i] \in Call /\ pc[jobs[m][i]] = "sent" /\ dst[jobs[m][i]] = m
  BY Names, JobsAreCalls DEF Base, Pooled, home
<1>1. /\ \A b \in Thread : pc'[b] = IF home(b) = n /\ pc[b] # "free" THEN "killed" ELSE pc[b]
      /\ dst' = dst /\ pc[n] # "free"
  BY <1>a DEF killed_by_signal
<1>2. ASSUME NEW m \in Node, Up(m)', NEW i \in DOMAIN jobs[m]
      PROVE  pc'[jobs[m][i]] = "sent"
  <2>1. m # n
    BY <1>a, <1>1, <1>2 DEF Up
  <2>2. home(jobs[m][i]) = m
    BY <1>a DEF home
  <2> QED BY <1>a, <1>1, <2>1, <2>2
<1>3. \A c \in Call : ~(pc[c] = "free" /\ pc'[c] = "sent")
  BY <1>a, <1>1
<1> QED BY <1>1, <1>2, <1>3, PooledAccepts

\* A thread of the pool takes the first job.
LEMMA PooledTakes ==
    ASSUME Pooled, NEW n \in Node, take_job(n)
    PROVE  Pooled'
<1>1. /\ jobs[n] \in Seq(Call) /\ jobs[n] # <<>> /\ UNCHANGED <<pc, dst>>
      /\ pool' = [pool EXCEPT ![n] = @ \cup {Head(jobs[n])}]
      /\ jobs' = [jobs EXCEPT ![n] = Tail(@)]
  BY DEF take_job, Pooled, vars
<1>2. /\ Len(jobs[n]) \in Nat /\ Len(jobs[n]) > 0
      /\ Head(jobs[n]) = jobs[n][1] /\ 1 \in DOMAIN jobs[n]
      /\ Tail(jobs[n]) \in Seq(Call)
      /\ DOMAIN Tail(jobs[n]) = 1 .. Len(jobs[n]) - 1
      /\ \A i \in DOMAIN Tail(jobs[n]) :
           /\ Tail(jobs[n])[i] = jobs[n][i + 1] /\ i \in Nat /\ i + 1 # 1
           /\ i + 1 \in DOMAIN jobs[n]
      /\ Head(jobs[n]) \in Call
  BY <1>1
<1>3. /\ jobs'[n] = Tail(jobs[n]) /\ pool'[n] = pool[n] \cup {Head(jobs[n])}
      /\ \A m \in Node \ {n} : jobs'[m] = jobs[m] /\ pool'[m] = pool[m]
      /\ jobs' \in [Node -> Seq(Call)] /\ pool' \in [Node -> SUBSET Call]
  BY <1>1, <1>2 DEF Pooled
<1>4. \A i, j \in DOMAIN Tail(jobs[n]) : i + 1 = j + 1 => i = j
  BY <1>2
<1>5. \A i \in DOMAIN jobs'[n] :
         /\ pc'[jobs'[n][i]] = "sent" /\ dst'[jobs'[n][i]] = n
         /\ jobs'[n][i] \notin pool'[n]
         /\ \A j \in DOMAIN jobs'[n] : jobs'[n][i] = jobs'[n][j] => i = j
  BY <1>1, <1>2, <1>3, <1>4 DEF Pooled
<1>6. \A c \in pool'[n] : pc'[c] \notin {"free", "done", "killed"} /\ dst'[c] = n
  BY <1>1, <1>2, <1>3 DEF Pooled
<1> QED BY <1>1, <1>3, <1>5, <1>6 DEF Pooled

\* The inductive invariant behind the bound of the pool.
PoolInv == Base /\ Few /\ Pooled

\* At the start nothing is queued.
LEMMA PoolInvInit == ClusterInit => PoolInv
  BY BaseInit, FewInit DEF ClusterInit, PoolInv, Pooled

\* Every step keeps it.
LEMMA PoolInvStep == PoolInv /\ [ClusterNext]_clusterVars => PoolInv'
<1> SUFFICES ASSUME PoolInv, [ClusterNext]_clusterVars PROVE PoolInv'
  OBVIOUS
<1> USE DEF PoolInv
<1>a. Base' /\ TypeOK /\ (\A n \in Node : n \in Thread /\ n \notin Call)
      /\ (\A a \in Server : a \in Thread) /\ (\A c \in Call : c \in Thread)
  BY BaseStep, Names DEF Base
<1>1. ASSUME UNCHANGED <<pc, op, from, dst>>
      PROVE  Few'
  BY <1>1 DEF Few, Up, Orphans, Serving
<1>2. ASSUME UNCHANGED <<pc, dst, jobs, pool>>
      PROVE  Pooled'
  BY <1>2 DEF Pooled
<1>3. ASSUME NEW n \in Node, construct(n) \/ start_recv(n)
      PROVE  Few' /\ Pooled'
  BY <1>3, <1>1, <1>2 DEF construct, start_recv, vars, server
<1>4. ASSUME NEW n \in Node, map_region(n) \/ reg_addr_range(n)
      PROVE  Few' /\ Pooled'
  BY <1>4, <1>1, <1>2 DEF map_region, reg_addr_range, rpcVars, server
<1>5. ASSUME NEW n \in Node, take_job(n)
      PROVE  Few' /\ Pooled'
  BY <1>5, <1>1, PooledTakes DEF take_job, vars
<1>6. ASSUME NEW n \in Node, RunProgram(n)
      PROVE  Few' /\ Pooled'
  <2>1. Works(n) \/ killed_by_signal(n)
    BY <1>6, <1>a, ProgramWorks DEF RunProgram
  <2>2. ~CallFailed(n)
    BY <1>6
    DEF RunProgram, Load, Store, sigaction_hdlr, Accesses, CallFailed, fault_hdlr_backoff,
        serv_rd_rq_call_failed, serv_wr_rq_call_failed, serv_rq_call_failed,
        send_invalidations_failed
  <2>3. FailsFor(n)
    BY <2>2 DEF FailsFor
  <2>4. accept_and_release
    BY <1>6 DEF RunProgram
  <2> QED BY <1>a, <2>1, <2>3, <2>4, FewWorks, FewKilled, PooledWorks, PooledKilled
<1>7. ASSUME NEW n \in Node, RunHandler(n)
      PROVE  Few' /\ Pooled'
  <2>1. Works(n) \/ killed_by_signal(n)
    BY <1>7, <1>a, ProgramWorks DEF RunHandler
  <2> QED
    BY <1>7, <1>a, <2>1, FewWorks, FewKilled, PooledWorks, PooledKilled DEF RunHandler
<1>8. ASSUME NEW a \in Server, RunServer(a)
      PROVE  Few' /\ Pooled'
  <2>1. CASE ServerStep(a) \/ (a \in Call /\ CallStep(a))
    <3>1. Works(a)
      BY <1>a, <2>1, ServerWorks, CalleeWorks
    <3> QED BY <1>8, <1>a, <3>1, FewWorks, PooledWorks DEF RunServer
  <2>2. CASE Unmapped(a)
    <3>1. /\ pc[a] = "fpProtect" /\ pc'[a] = "fpRead" /\ UNCHANGED <<op, rpcVars>>
          /\ \A b \in Thread \ {a} : pc'[b] = pc[b]
      BY <1>a, <2>2 DEF Unmapped, TypeOK
    <3>2. Moves(a)
      BY <3>1 DEF Moves, Serving, FetchPc, ServePc
    <3> QED BY <1>8, <1>a, <3>1, <3>2, FewWorks, PooledWorks DEF RunServer, Works
  <2> QED BY <1>8, <2>1, <2>2 DEF RunServer, protect_fails, Unmapped
<1>9. CASE UNCHANGED clusterVars
  <2>1. UNCHANGED <<pc, op, from, dst, jobs, pool>>
    BY <1>9 DEF clusterVars, vars, rpcVars, server
  <2>2. UNCHANGED <<pc, op, from, dst>> /\ UNCHANGED <<pc, dst, jobs, pool>>
    BY <2>1
  <2>3. Few'
    BY <2>2, <1>1
  <2>4. Pooled'
    BY <2>2 DEF Pooled
  <2> QED BY <1>a, <2>3, <2>4
<1>10. ASSUME NEW c \in Call, read_page_faults(c)
       PROVE  Few' /\ Pooled'
  BY <1>10, <1>1, <1>2 DEF read_page_faults, vars
<1> QED BY <1>a, <1>3, <1>4, <1>5, <1>6, <1>7, <1>8, <1>9, <1>10 DEF ClusterNext

\* The calls of one process that are under way: one per worker, one that a server has made,
\* and the orphans.
LEMMA CallsUnderWay ==
    ASSUME Base, Few, IsFiniteSet(Node), Up(Manager), NEW S \in SUBSET Call,
           \A c \in S : pc[c] # "free"
    PROVE  IsFiniteSet(S) /\ Cardinality(S) <= Cardinality(Node) + MaxOrphans
<1> DEFINE A == {c \in S : from[c] = NoOne}
           B == {c \in S : from[c] \in Worker}
           C == {c \in S : from[c] \in Server}
           f == [c \in B |-> from[c]]
<1>a. /\ TypeOK /\ Callers /\ NoOne \notin Thread /\ Thread = Server \cup Worker
      /\ \A c \in S : c \in Call /\ from[c] \in Thread \cup {NoOne}
      /\ Manager \in Node
  BY ThreadSplit DEF Base, TypeOK
<1>1. IsFiniteSet(A) /\ Cardinality(A) <= MaxOrphans /\ Cardinality(A) \in Nat
  <2>1. A \in SUBSET Orphans
    BY DEF Orphans
  <2>2. IsFiniteSet(Orphans) /\ Cardinality(Orphans) <= MaxOrphans
        /\ Cardinality(Orphans) \in Nat
    BY FS_CardinalityType DEF Few
  <2>3. IsFiniteSet(A) /\ Cardinality(A) <= Cardinality(Orphans)
    BY <2>1, <2>2, FS_Subset
  <2>4. Cardinality(A) \in Nat
    BY <2>3, FS_CardinalityType
  <2> HIDE DEF A
  <2> QED BY <2>2, <2>3, <2>4, FailAssumption
<1>2. IsFiniteSet(B) /\ Cardinality(B) <= Cardinality(Node) - 1 /\ Cardinality(B) \in Nat
  <2>1. IsFiniteSet(Worker) /\ Cardinality(Worker) = Cardinality(Node) - 1
    BY <1>a, FS_RemoveElement DEF Worker
  <2>2. f \in Injection(B, Worker)
    BY <1>a, ThreadSplit DEF Callers, Injection, IsInjective
  <2>3. IsFiniteSet(B) /\ Cardinality(B) <= Cardinality(Worker)
    BY <2>1, <2>2, FS_Injection
  <2>4. Cardinality(B) \in Nat
    BY <2>3, FS_CardinalityType
  <2> HIDE DEF B
  <2> QED BY <2>1, <2>3, <2>4
<1>3. IsFiniteSet(C) /\ Cardinality(C) <= 1 /\ Cardinality(C) \in Nat
  <2>1. \A c, d \in C : c = d
    <3> SUFFICES ASSUME NEW c \in C, NEW d \in C PROVE c = d
      OBVIOUS
    <3>1. Serving(from[c]) /\ Serving(from[d])
      BY <1>a DEF Callers, Serving
    <3>2. from[c] = pageLock[Manager] /\ from[d] = pageLock[Manager]
      BY <1>a, <3>1 DEF Base, Locked, Holds
    <3> QED BY <1>a, <3>2 DEF Callers
  <2>2. CASE C = {}
    BY <2>2, FS_EmptySet
  <2>3. CASE C # {}
    <3>1. PICK c : C = {c}
      BY <2>1, <2>3
    <3>2. IsFiniteSet({c}) /\ Cardinality({c}) = 1
      BY FS_Singleton
    <3> HIDE DEF C
    <3> QED BY <3>1, <3>2
  <2> QED BY <2>2, <2>3
<1>4. S = (A \cup B) \cup C
  BY <1>a
<1> HIDE DEF A, B, C
<1>5. IsFiniteSet(A \cup B) /\ Cardinality(A \cup B) \in Nat
      /\ Cardinality(A \cup B) <= Cardinality(A) + Cardinality(B)
  <2>1. /\ IsFiniteSet(A \cup B)
        /\ Cardinality(A \cup B) = Cardinality(A) + Cardinality(B) - Cardinality(A \cap B)
    BY <1>1, <1>2, FS_Union
  <2>2. IsFiniteSet(A \cap B)
    BY <1>1, FS_Subset
  <2> QED BY <1>1, <1>2, <2>1, <2>2, FS_CardinalityType
<1>6. IsFiniteSet(S) /\ Cardinality(S) <= Cardinality(A \cup B) + Cardinality(C)
      /\ Cardinality(S) \in Nat
  <2>1. /\ IsFiniteSet(S)
        /\ Cardinality(S) =
             Cardinality(A \cup B) + Cardinality(C) - Cardinality((A \cup B) \cap C)
    BY <1>3, <1>4, <1>5, FS_Union
  <2>2. IsFiniteSet((A \cup B) \cap C)
    BY <1>3, FS_Subset
  <2> QED BY <1>3, <1>5, <2>1, <2>2, FS_CardinalityType
<1>7. Cardinality(Node) \in Nat
  BY FS_CardinalityType
<1> QED BY <1>1, <1>2, <1>3, <1>5, <1>6, <1>7, FailAssumption

\* The jobs of a process up to one that a server thread has made, and the calls that have a
\* thread, are all calls under way.
LEMMA EnoughThreads ==
    ASSUME PoolInv, IsFiniteSet(Node), PoolSize >= Cardinality(Node) + MaxOrphans
    PROVE  NestedCallsHaveThreads
<1> SUFFICES ASSUME NEW n \in Node, NEW i \in DOMAIN jobs[n], from[jobs[n][i]] \in Server
             PROVE  i + Cardinality(pool[n]) <= PoolSize
  BY DEF NestedCallsHaveThreads
<1> USE DEF PoolInv
<1> DEFINE J == {jobs[n][k] : k \in 1 .. i}
           f == [k \in 1 .. i |-> jobs[n][k]]
<1>1. /\ jobs[n] \in Seq(Call) /\ pool[n] \in SUBSET Call
      /\ i \in Nat /\ 1 .. i \subseteq DOMAIN jobs[n] /\ i \in 1 .. i
      /\ \A k \in 1 .. i :
           /\ jobs[n][k] \in Call /\ pc[jobs[n][k]] = "sent" /\ jobs[n][k] \notin pool[n]
           /\ \A j \in 1 .. i : jobs[n][k] = jobs[n][j] => k = j
      /\ \A c \in pool[n] : pc[c] # "free"
  <2>1. /\ jobs[n] \in Seq(Call) /\ pool[n] \in SUBSET Call
        /\ \A c \in pool[n] : pc[c] # "free"
    BY DEF Pooled
  <2>2. /\ i \in Nat /\ 1 .. i \subseteq DOMAIN jobs[n] /\ i \in 1 .. i
        /\ \A k \in DOMAIN jobs[n] : jobs[n][k] \in Call
    BY <2>1
  <2>3. \A k \in DOMAIN jobs[n] :
           /\ pc[jobs[n][k]] = "sent" /\ jobs[n][k] \notin pool[n]
           /\ \A j \in DOMAIN jobs[n] : jobs[n][k] = jobs[n][j] => k = j
    BY DEF Pooled
  <2> QED BY <2>1, <2>2, <2>3
<1>2. Up(Manager)
  <2>1. jobs[n][i] \in Call
    BY <1>1
  <2>2. Serving(from[jobs[n][i]])
    BY <2>1 DEF Base, Callers, Serving
  <2> QED BY <2>2 DEF Few
<1>3. IsFiniteSet(J) /\ Cardinality(J) = i
  <2>1. f \in Bijection(1 .. i, J)
    BY <1>1 DEF Bijection, Injection, Surjection, IsInjective
  <2>a. i \in Int /\ 1 <= i
    BY <1>1
  <2>2. IsFiniteSet(1 .. i) /\ Cardinality(1 .. i) = i
    BY <2>a, FS_Interval
  <2>3. ExistsBijection(1 .. i, J)
    BY <2>1 DEF ExistsBijection
  <2> HIDE DEF J
  <2> QED BY <2>2, <2>3, FS_Bijection
<1>4. /\ J \cup pool[n] \in SUBSET Call /\ \A c \in J \cup pool[n] : pc[c] # "free"
      /\ J \cap pool[n] = {}
  BY <1>1
<1> HIDE DEF J
<1>5. /\ IsFiniteSet(J \cup pool[n])
      /\ Cardinality(J \cup pool[n]) <= Cardinality(Node) + MaxOrphans
  BY <1>2, <1>4, CallsUnderWay
<1>6. IsFiniteSet(pool[n]) /\ Cardinality(pool[n]) \in Nat
  BY <1>5, FS_Subset, FS_CardinalityType
<1>7. Cardinality(J \cup pool[n]) = i + Cardinality(pool[n])
  <2>1. Cardinality(J \cup pool[n])
          = Cardinality(J) + Cardinality(pool[n]) - Cardinality(J \cap pool[n])
    BY <1>3, <1>6, FS_Union
  <2>2. i \in Nat /\ Cardinality(J) = i /\ Cardinality(J \cap pool[n]) = 0
    BY <1>1, <1>3, <1>4, FS_EmptySet
  <2> QED BY <1>6, <2>1, <2>2
<1>8. Cardinality(Node) \in Nat
  BY FS_CardinalityType
<1> QED BY <1>1, <1>5, <1>6, <1>7, <1>8, PoolAssumption, FailAssumption

\* With a thread for each process and for each call whose caller has given up, a call that a
\* server makes with locks held never waits for a thread that other calls keep: the pool is
\* no place where the processes wait for each other.
THEOREM PoolSuffices ==
    IsFiniteSet(Node) /\ PoolSize >= Cardinality(Node) + MaxOrphans /\ ClusterSpec
        => []NestedCallsHaveThreads
<1>1. CASE IsFiniteSet(Node) /\ PoolSize >= Cardinality(Node) + MaxOrphans
  <2>1. PoolInv => NestedCallsHaveThreads
    BY <1>1, EnoughThreads
  <2> QED BY <2>1, PoolInvInit, PoolInvStep, PTL DEF ClusterSpec
<1>2. CASE ~(IsFiniteSet(Node) /\ PoolSize >= Cardinality(Node) + MaxOrphans)
  BY <1>2, PTL
<1> QED BY <1>1, <1>2
=============================================================================

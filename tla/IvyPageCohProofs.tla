-------------------------- MODULE IvyPageCohProofs --------------------------
(***************************************************************************)
(* Coherence of IvyPage on a network that loses nothing, when the          *)
(* manager's program leaves the page alone: CohInv is preserved by every   *)
(* step, one lemma per step, and the theorems that follow.                 *)
(***************************************************************************)
EXTENDS IvyPageCohInv, IvyPageProofs

(***************************************************************************)
(* What CohInv says of the threads that take part in a request.            *)
(***************************************************************************)

\* The manager's program runs, and so its thread serves nothing.
LEMMA ManagerRuns ==
    ASSUME CohInv, Reliable
    PROVE  /\ pc[Manager] = "run" /\ op[Manager] = "rd"
           /\ \A a \in Server : Serving(a) => a \in Call
           /\ \A c \in Call : from[c] # Manager
<1>1. pc[Manager] = "run" /\ op[Manager] = "rd"
  BY UserAssumption DEF CohInv, IInv, Idler, Reader, Reliable
<1> QED
  BY <1>1, ThreadSplit DEF Serving, FetchPc, CohInv, IInv, Callers, Server

\* A request is served for a worker that waits for it with its page locked.
LEMMA Behind ==
    ASSUME CohInv, Reliable, NEW c \in Call, pc[c] # "free", op[c] \in Serve
    PROVE  /\ from[c] \in Worker /\ req[c] = from[c] /\ requester(c) = from[c]
           /\ pc[from[c]] = "wait" /\ op[from[c]] = op[c]
           /\ pageLock[from[c]] = from[c] /\ dst[c] = Manager /\ home(c) = Manager
<1> USE DEF CohInv, IInv
<1>1. from[c] \in Thread /\ from[c] # NoOne
  BY ThreadSplit DEF TypeOK, Answered
<1>2. from[c] \notin Server
  BY ThreadSplit DEF Callers, Answered, Serve, Fetch
<1>3. from[c] \in Worker
  BY <1>1, <1>2, ThreadSplit
<1>4. pc[from[c]] = "wait" /\ op[from[c]] = op[c] /\ req[c] = from[c] /\ dst[c] = Manager
  BY <1>3 DEF Callers
<1>5. pageLock[from[c]] = from[c]
  BY <1>3, <1>4, ThreadSplit DEF Locked, Holds, Worker
<1>6. requester(c) = req[c] /\ home(c) = dst[c]
  BY CallAssumption DEF requester, home
<1> QED BY <1>3, <1>4, <1>5, <1>6

\* A server thread that is in the locked part of the service is a call, it is
\* the only one, and it serves a worker.
LEMMA OneServes ==
    ASSUME CohInv, Reliable, NEW a \in Server, Serving(a)
    PROVE  /\ a \in Call /\ op[a] \in Serve /\ pageLock[Manager] = a
           /\ from[a] \in Worker /\ requester(a) = from[a]
           /\ \A b \in Server : Serving(b) => b = a
<1> USE DEF CohInv, IInv
<1>1. a \in Call
  BY ManagerRuns
<1>2. pc[a] # "free" /\ op[a] \in Serve
  BY <1>1 DEF Serving, Answered, ServePc, FetchPc
<1>3. \A b \in Server : Serving(b) => pageLock[Manager] = b
  BY ThreadSplit DEF Locked, Holds
<1> QED BY <1>1, <1>2, <1>3, Behind

\* A thread that serves a request is alone in that, and its requester waits for it
\* and for nothing else.
LEMMA AtWork ==
    ASSUME CohInv, Reliable, NEW a \in Server, Serving(a)
    PROVE  /\ a \in Call /\ Serving(a) /\ op[a] \in Serve /\ requester(a) = from[a]
           /\ from[a] \in Worker /\ pc[from[a]] = "wait" /\ op[from[a]] = op[a]
           /\ \A b \in Server : Serving(b) => b = a
           /\ \A c \in Call : from[c] = from[a] => c = a
           /\ \A c \in Call : from[c] # Manager
<1> USE DEF CohInv, IInv
<1>1. a \in Call /\ op[a] \in Serve /\ from[a] \in Worker
  BY OneServes
<1>2. pc[a] # "free" /\ from[a] # NoOne
  BY <1>1, ThreadSplit DEF Serving, FetchPc, Worker
<1>3. \A c \in Call : from[c] = from[a] => c = a
  BY <1>1, <1>2 DEF Callers
<1> QED BY <1>1, <1>2, <1>3, OneServes, Behind, ManagerRuns

\* A call to fetch or to invalidate is made by a call that serves a request.
LEMMA Nested ==
    ASSUME CohInv, Reliable, NEW c \in Call, pc[c] # "free", op[c] \notin Serve
    PROVE  /\ from[c] \in Call /\ Serving(from[c])
           /\ op[c] = "inval" => pc[from[c]] = "srvAck"
           /\ op[c] \in Fetch =>
                /\ pc[from[c]] = "srvFetch"
                /\ op[c] = IF op[from[c]] = "wr" THEN "fetch_none" ELSE "fetch_rd"
                /\ dst[c] = owner /\ owner \in Worker /\ home(c) = owner
<1> USE DEF CohInv, IInv
<1>1. from[c] \in Thread /\ from[c] # NoOne
  BY ThreadSplit DEF TypeOK, Answered
<1>2. from[c] \notin Worker
  BY DEF Callers, TypeOK, Worker, Serve
<1>3. from[c] \in Server /\ from[c] # Manager
  BY <1>1, <1>2, ThreadSplit, ManagerRuns
<1>4. from[c] \in Call
  BY <1>3 DEF Server
<1>5. /\ (pc[from[c]] = "srvFetch" /\ op[c] \in Fetch) \/ pc[from[c]] = "srvAck"
      /\ pc[from[c]] = "srvAck" => op[c] = "inval"
      /\ pc[from[c]] = "srvFetch" =>
           /\ op[c] = IF op[from[c]] = "wr" THEN "fetch_none" ELSE "fetch_rd"
           /\ dst[c] = owner /\ owner # Manager
  BY <1>3 DEF Callers, Answered, Grants, Granted
<1>6. home(c) = dst[c] /\ owner \in Node
  BY CallAssumption DEF home, TypeOK
<1> QED BY <1>3, <1>4, <1>5, <1>6 DEF Serving, Fetch, Worker

\* While the owner's page is being fetched, the owner is not in a fault handler
\* past its lock.
LEMMA FetchedIdle ==
    ASSUME CohInv, Reliable, NEW c \in Call, pc[c] \in FetchPc, op[c] \in Fetch
    PROVE  /\ pc[owner] \notin {"wait", "protect", "copy", "settle"}
           /\ pageLock[owner] = c
<1> USE DEF CohInv, IInv
<1>1. dst[c] = owner /\ owner \in Worker
  BY Nested DEF FetchPc, Fetch, Serve
<1>2. pageLock[owner] = c
  BY <1>1, ThreadSplit DEF Locked, Holds, Worker
<1>3. owner \in Thread /\ owner \in Node /\ owner # c
  BY <1>1, ThreadSplit, CallAssumption DEF Worker, Thread
<1> QED BY <1>1, <1>2, <1>3 DEF Locked, Holds

\* One thread at a time is in fetch_pg, and it reads the owner's page.
LEMMA OneFetches ==
    ASSUME CohInv, Reliable, NEW a \in Thread, pc[a] \in FetchPc
    PROVE  /\ a \in Call /\ dst[a] = owner /\ home(a) = owner
           /\ \/ op[a] \in Fetch /\ owner \in Worker
              \/ op[a] \in Serve /\ owner = Manager /\ Serving(a)
           /\ pc[owner] \notin {"wait", "protect", "copy", "settle"}
           /\ \A c \in Call : from[c] # owner
           /\ \A b \in Thread : pc[b] \in FetchPc => b = a
<1> USE DEF CohInv, IInv
<1>1. \A b \in Thread : pc[b] \in FetchPc => b \in Call /\ op[b] \in Fetch \cup Serve
  <2> SUFFICES ASSUME NEW b \in Thread, pc[b] \in FetchPc
               PROVE  b \in Call /\ op[b] \in Fetch \cup Serve
    OBVIOUS
  <2>1. b \in Call
    BY ManagerRuns, ThreadSplit DEF TypeOK, ThreadPc, AppPc, FetchPc
  <2> QED BY <2>1 DEF TypeOK, Pages, Paged, Op, Fetch, Serve, Thread
<1>2. \A b \in Thread : pc[b] \in FetchPc /\ op[b] \in Fetch =>
        /\ from[b] \in Call /\ Serving(from[b]) /\ pc[from[b]] = "srvFetch"
        /\ dst[b] = owner /\ owner \in Worker /\ home(b) = owner
  BY <1>1, Nested DEF FetchPc, Fetch, Serve
<1>3. \A b \in Thread : pc[b] \in FetchPc /\ op[b] \in Serve =>
        /\ Serving(b) /\ owner = Manager /\ dst[b] = owner /\ home(b) = owner
  BY <1>1, Behind DEF FetchPc, Serving, Grants, Granted, Server
<1>4. \A b, d \in Server : Serving(b) /\ Serving(d) => b = d
  BY OneServes
<1>5. \A b \in Thread : pc[b] \in FetchPc => b = a
  <2> SUFFICES ASSUME NEW b \in Thread, pc[b] \in FetchPc PROVE b = a
    OBVIOUS
  <2>1. CASE op[a] \in Fetch /\ op[b] \in Fetch
    <3>1. from[a] = from[b] /\ from[a] # NoOne
      BY <1>2, <1>4, <2>1, ThreadSplit DEF Server
    <3> QED BY <1>1, <3>1 DEF Callers
  <2>2. CASE op[a] \in Serve /\ op[b] \in Serve
    BY <1>1, <1>3, <1>4, <2>2 DEF Server
  <2>3. ASSUME NEW d \in {a, b}, NEW e \in {a, b}, op[d] \in Fetch, op[e] \in Serve
        PROVE  FALSE
    <3>1. from[d] = e
      BY <1>1, <1>2, <1>3, <1>4, <2>3 DEF Server
    <3> QED BY <1>1, <1>2, <2>3, <3>1 DEF FetchPc
  <2> QED BY <1>1, <2>1, <2>2, <2>3
<1>6. pc[owner] \notin {"wait", "protect", "copy", "settle"}
  BY <1>1, <1>3, FetchedIdle, ManagerRuns
<1>7. \A c \in Call : from[c] # owner
  BY <1>1, <1>2, <1>3, <1>6, ManagerRuns DEF Callers
<1> QED BY <1>1, <1>2, <1>3, <1>5, <1>6, <1>7

\* Until its fetch is answered, the owner has access to its page.
LEMMA OwnerReads ==
    ASSUME CohInv, Reliable, NEW c \in Call, pc[c] \in FetchPc, owner \in Worker
    PROVE  perm[owner] # "none"
<1> USE DEF CohInv, IInv
<1>1. /\ op[c] \in Fetch /\ pc[owner] \notin {"protect", "copy"}
      /\ \A d \in Call : from[d] # owner
  BY OneFetches, ThreadSplit DEF Worker, Thread
<1>2. from[c] \in Call /\ Serving(from[c]) /\ pc[from[c]] = "srvFetch"
  BY <1>1, Nested DEF FetchPc, Fetch, Serve
<1>3. ~Promised(owner)
  BY <1>1 DEF Promised
<1>4. ASSUME NEW b \in Server, Revoking(b), GivenUp(b) PROVE FALSE
  <2>1. b = from[c]
    BY <1>2, <1>4, OneServes DEF Revoking, Serving, Serve, Server
  <2>2. \A d \in Call : from[d] = b => d = c
    BY <2>1, <1>2, ThreadSplit DEF Callers
  <2> QED BY <1>2, <1>4, <2>1, <2>2 DEF GivenUp, FetchPc
<1> QED BY <1>3, <1>4 DEF OwnerHas

-----------------------------------------------------------------------------
(***************************************************************************)
(* What the steps change.                                                  *)
(***************************************************************************)

\* An answer frees its call and moves its caller on.
LEMMA ReturnEffect ==
    ASSUME TypeOK, NEW a \in Thread, pc[a] # "done", NEW next, NEW c \in Call,
           call_returns(a, next, c)
    PROVE  /\ a # c /\ pc[c] = "done" /\ pc'[c] = "free" /\ pc'[a] = next
           /\ \A b \in Thread : b # a /\ b # c => pc'[b] = pc[b]
           /\ op'[c] = "rd" /\ \A b \in Thread : b # c => op'[b] = op[b]
           /\ from[c] = a /\ from'[c] = NoOne
           /\ \A d \in Call : d # c =>
                from'[d] = from[d] /\ dst'[d] = dst[d] /\ req'[d] = req[d]
BY DEF call_returns, hang_up, TypeOK, Thread

-----------------------------------------------------------------------------
(***************************************************************************)
(* The program and its fault handlers.                                     *)
(***************************************************************************)
\* A load changes nothing but where the program stands.
LEMMA LoadStep ==
    ASSUME CohInv, Reliable, IInv', NEW n \in Worker, Load(n) PROVE CohInv'
<1> USE Names DEF CohInv
<1>1. TypeOK
  BY DEF IInv
<1>2. /\ pc[n] \in {"run", "retry"} /\ pc'[n] = "run" /\ op'[n] = "rd"
      /\ \A b \in Thread : b # n => pc'[b] = pc[b]
      /\ \A b \in Thread : b # n => op'[b] = op[b]
      /\ UNCHANGED <<buf, todo, from, dst, req, perm, mem, pageLock, infoLock,
         owner, copyset, latest>>
  BY <1>1 DEF Load, CanLoad, IInv, TypeOK, rpcVars, tblVars
<1>3. \A m \in Node : Holder(m)' => Holder(m)
  BY <1>1, <1>2 DEF Holder
<1>4. \A m \in Worker : Entitled(m)' => Entitled(m)
  BY <1>1, <1>2 DEF Entitled, CanStore
<1>5. Answered'
  BY <1>1, <1>2 DEF Answered, requester, ServePc, IInv, Callers
<1>6. Fetchable'
  BY <1>1, <1>2 DEF Fetchable, home
<1>7. Alone'
  BY <1>1, <1>3, <1>4 DEF Alone
<1>8. Covered'
  BY <1>1, <1>2, <1>3 DEF Covered, Revoking, GivenUp, requester, FetchPc
<1>9. OwnerHas'
  BY <1>1, <1>2 DEF OwnerHas, Promised, Revoking, GivenUp, requester, FetchPc
<1>10. Faulted'
  BY <1>1, <1>2 DEF Faulted
<1>11. Current'
  BY <1>1, <1>2 DEF Current, Carries
<1>12. EmptyMeansCopy'
  BY <1>1, <1>2 DEF EmptyMeansCopy
<1> QED BY <1>5, <1>6, <1>7, <1>8, <1>9, <1>10, <1>11, <1>12

\* The program of the only holder stores: nothing else is current.
LEMMA StoreStep ==
    ASSUME CohInv, Reliable, IInv', NEW n \in Worker, Store(n) PROVE CohInv'
<1> USE Names DEF CohInv
<1>1. TypeOK
  BY DEF IInv
<1>2. /\ pc[n] \in {"run",
         "retry"} /\ pc'[n] = "run" /\ op'[n] = "rd" /\ perm[n] = "rw"
      /\ mem'[n] = latest'
      /\ \A b \in Thread : b # n => pc'[b] = pc[b]
      /\ \A b \in Thread : b # n => op'[b] = op[b]
      /\ \A m \in Node : m # n => mem'[m] = mem[m]
      /\ UNCHANGED <<buf, todo, from, dst, req, perm, pageLock, infoLock, owner,
         copyset>>
  BY <1>1 DEF Store, CanStore, IInv, TypeOK, rpcVars, tblVars
<1>3. \A m \in Node : m # n => ~Holder(m)
  BY <1>1, <1>2 DEF Alone, Entitled, CanStore
<1>4. owner = n
  BY <1>2 DEF IInv, Grants, Entitled, CanStore
<1>5. \A b \in Thread : buf[b] = Empty
  <2> SUFFICES ASSUME NEW b \in Thread, buf[b] # Empty PROVE FALSE
    OBVIOUS
  <2>1. Carries(b)
    BY DEF Current
  <2>2. CASE b \in Node
    BY <1>1, <1>2, <1>3, <2>1, <2>2 DEF Carries, Holder
  <2>3. CASE b \in Call /\ op[b] \in Serve
    <3>1. (pc[b] # "free" /\ Serving(b)) \/ pc[b] = "done"
      BY <1>1, <2>1, <2>3 DEF Carries, Serving, FetchPc
    <3>2. from[b] \in Worker /\ requester(b) = from[b] /\ from[b] # n
      BY <1>2, <2>1, <2>3, Behind DEF Carries
    <3>3. pc[b] # "done"
      BY <1>1, <1>3, <3>2, <2>3 DEF Holder
    <3>4. pc[b] = "fpSet" => owner = Manager
      BY <1>1, <2>3 DEF IInv, Grants, Granted, FetchPc
    <3>5. pc[b] \in {"srvInval", "srvAck"} => ~Entitled(n)
      BY <1>1, <2>3, <3>2 DEF IInv, Grants, Granted
    <3> QED
      BY <1>1, <1>2, <1>4, <2>1, <2>3, <3>3, <3>4, <3>5
     DEF Carries, Entitled, CanStore
  <2>4. CASE b \in Call /\ op[b] \notin Serve
    <3>1. pc[b] \in {"fpSet", "done"} /\ op[b] \in Fetch
      BY <1>1, <2>1, <2>4 DEF Carries, IInv, Paged, Pages, FetchPc, Answered,
         ServePc,
                              TypeOK, Op, Fetch, Serve
    <3>2. pc[from[b]] = "srvFetch" /\ from[b] \in Call
      BY <2>4, <3>1, Nested
    <3>3. ~Entitled(n)
      BY <1>1, <1>4, <2>4, <3>1, <3>2 DEF IInv, Grants, Granted, Read
    <3> QED BY <1>2, <3>3 DEF Entitled, CanStore
  <2> QED BY <1>1, <2>2, <2>3, <2>4
<1>6. \A m \in Node : Holder(m)' => Holder(m)
  BY <1>1, <1>2 DEF Holder
<1>7. \A m \in Worker : Entitled(m)' => Entitled(m)
  BY <1>1, <1>2 DEF Entitled, CanStore
<1>8. Answered'
  BY <1>1, <1>2 DEF Answered, requester, ServePc, IInv, Callers
<1>9. Fetchable'
  BY <1>1, <1>2 DEF Fetchable, home
<1>10. Alone'
  BY <1>1, <1>6, <1>7 DEF Alone
<1>11. Covered'
  BY <1>1, <1>2, <1>6 DEF Covered, Revoking, GivenUp, requester, FetchPc
<1>12. OwnerHas'
  BY <1>1, <1>2 DEF OwnerHas, Promised, Revoking, GivenUp, requester, FetchPc
<1>13. Faulted'
  BY <1>1, <1>2 DEF Faulted
<1>14. Current'
  BY <1>1, <1>2, <1>3, <1>4, <1>5 DEF Current, Carries, Holder
<1>15. EmptyMeansCopy'
  BY <1>1, <1>2, <1>3 DEF EmptyMeansCopy, Holder
<1> QED BY <1>8, <1>9, <1>10, <1>11, <1>12, <1>13, <1>14, <1>15

\* A program faults only without the access that it needs.
LEMMA FaultStep ==
    ASSUME CohInv, Reliable, IInv', NEW n \in Worker,
         sigaction_hdlr(n) PROVE CohInv'
<1> USE Names DEF CohInv
<1>1. TypeOK
  BY DEF IInv
<1>2. /\ pc[n] \in {"run", "retry"} /\ pc'[n] = "lock"
      /\ (op'[n] = "rd" /\ perm[n] = "none") \/ (op'[n] = "wr" /\ perm[n] # "rw")
      /\ \A b \in Thread : b # n => pc'[b] = pc[b]
      /\ \A b \in Thread : b # n => op'[b] = op[b]
      /\ UNCHANGED <<buf, todo, from, dst, req, perm, mem, pageLock, infoLock,
         owner, copyset, latest>>
  BY <1>1 DEF sigaction_hdlr, Accesses, CanLoad, CanStore, IInv, TypeOK, rpcVars,
         tblVars
<1>3. \A m \in Node : Holder(m)' => Holder(m)
  BY <1>1, <1>2 DEF Holder
<1>4. \A m \in Worker : Entitled(m)' => Entitled(m)
  BY <1>1, <1>2 DEF Entitled, CanStore
<1>5. Answered'
  BY <1>1, <1>2 DEF Answered, requester, ServePc, IInv, Callers
<1>6. Fetchable'
  BY <1>1, <1>2 DEF Fetchable, home
<1>7. Alone'
  BY <1>1, <1>3, <1>4 DEF Alone
<1>8. Covered'
  BY <1>1, <1>2, <1>3 DEF Covered, Revoking, GivenUp, requester, FetchPc
<1>9. OwnerHas'
  BY <1>1, <1>2 DEF OwnerHas, Promised, Revoking, GivenUp, requester, FetchPc
<1>10. Faulted'
  BY <1>1, <1>2 DEF Faulted
<1>11. Current'
  BY <1>1, <1>2 DEF Current, Carries
<1>12. EmptyMeansCopy'
  BY <1>1, <1>2 DEF EmptyMeansCopy
<1> QED BY <1>5, <1>6, <1>7, <1>8, <1>9, <1>10, <1>11, <1>12

\* The request takes the page lock; the call is only sent.
LEMMA AskStep ==
    ASSUME CohInv, Reliable, IInv', NEW n \in Worker, NEW fn \in Serve,
         ask_manager(n, fn) PROVE CohInv'
<1> USE Names DEF CohInv
<1>1. TypeOK
  BY DEF IInv
<1>2. n \in Thread /\ pc[n] = "lock"
  BY <1>1 DEF ask_manager
<1>3. PICK c \in Call : call(n, "wait", c, Manager, fn, n)
  BY DEF ask_manager
<1>4. /\ n # c /\ pc[c] = "free" /\ pc'[c] = "sent" /\ pc'[n] = "wait"
      /\ \A b \in Thread : b # n /\ b # c => pc'[b] = pc[b]
      /\ op'[c] = fn
      /\ \A b \in Thread : b # c => op'[b] = op[b]
      /\ from'[c] = n /\ dst'[c] = Manager /\ req'[c] = n
      /\ \A d \in Call : d # c =>
           from'[d] = from[d] /\ dst'[d] = dst[d] /\ req'[d] = req[d]
  BY <1>1, <1>2, <1>3, CallAssumption DEF call, TypeOK, Thread
<1>5. /\ pc[n] = "lock" /\ pc'[n] = "wait" /\ op[n] = fn
      /\ n # c /\ pc[c] = "free" /\ pc'[c] = "sent"
      /\ \A b \in Thread : b # n /\ b # c => pc'[b] = pc[b]
      /\ op'[c] = fn /\ from'[c] = n
      /\ \A b \in Thread : b # c => op'[b] = op[b]
      /\ \A d \in Call : d # c => from'[d] = from[d]
      /\ \A d \in Call : d # c => dst'[d] = dst[d]
      /\ \A d \in Call : d # c => req'[d] = req[d]
      /\ UNCHANGED <<buf, todo, perm, mem, infoLock, owner, copyset, latest>>
  BY <1>1, <1>3, <1>2, <1>4 DEF ask_manager, tblVars
<1>6. \A m \in Node : Holder(m)' => Holder(m)
  BY <1>1, <1>5 DEF Holder
<1>7. \A m \in Worker : Entitled(m)' => Entitled(m)
  BY <1>1, <1>5 DEF Entitled, CanStore
<1>8. Answered'
  BY <1>1, <1>5 DEF Answered, requester, ServePc
<1>9. Fetchable'
  BY <1>1, <1>5 DEF Fetchable, home
<1>10. Alone'
  BY <1>1, <1>6, <1>7 DEF Alone
<1>11. Covered'
  BY <1>1, <1>5, <1>6 DEF Covered, Revoking, GivenUp, requester, FetchPc
<1>12. OwnerHas'
  BY <1>1, <1>5 DEF OwnerHas, Promised, Revoking, GivenUp, requester, FetchPc
<1>13. Faulted'
  BY <1>1, <1>5 DEF Faulted
<1>14. Current'
  <2>1. \A m \in Node : m # c /\ m \in Thread
    BY <1>1
  <2>2. \A m \in Node : pc'[m] = "settle" \/ pc'[m] = "copy" \/ pc[m] = "copy" => pc'[m] = pc[m]
    BY <1>5, <2>1
  <2>3. \A b \in Thread : buf[b] # Empty => b # n /\ b # c
    BY <1>5 DEF Current, Carries
  <2>4. \A b \in Thread : buf[b] # Empty => Carries(b)'
    BY <1>5, <2>3 DEF Current, Carries
  <2> QED BY <1>5, <2>2, <2>4 DEF Current
<1>15. EmptyMeansCopy'
  BY <1>1, <1>5 DEF EmptyMeansCopy
<1> QED BY <1>8, <1>9, <1>10, <1>11, <1>12, <1>13, <1>14, <1>15

\* The answer moves from the call to its caller.
LEMMA ReplyStep ==
    ASSUME CohInv, Reliable, IInv', NEW n \in Worker,
         fault_hdlr_reply(n) PROVE CohInv'
<1> USE Names DEF CohInv
<1>1. TypeOK
  BY DEF IInv
<1>2. n \in Thread /\ pc[n] = "wait"
  BY <1>1 DEF fault_hdlr_reply
<1>3. PICK c \in Call : call_returns(n, "protect",
         c) /\ buf' = [buf EXCEPT ![n] = buf[c], ![c] = Empty]
  BY DEF fault_hdlr_reply
<1>4. /\ n # c /\ pc[c] = "done" /\ pc'[c] = "free" /\ pc'[n] = "protect"
      /\ \A b \in Thread : b # n /\ b # c => pc'[b] = pc[b]
      /\ op'[c] = "rd"
      /\ \A b \in Thread : b # c => op'[b] = op[b]
      /\ from[c] = n /\ from'[c] = NoOne
      /\ \A d \in Call : d # c =>
           from'[d] = from[d] /\ dst'[d] = dst[d] /\ req'[d] = req[d]
  BY <1>1, <1>2, <1>3, ReturnEffect
<1>5. /\ pc[n] = "wait" /\ pc'[n] = "protect"
      /\ n # c /\ pc[c] = "done" /\ pc'[c] = "free" /\ from[c] = n /\ from'[c] = NoOne
      /\ \A b \in Thread : b # n /\ b # c => pc'[b] = pc[b]
      /\ \A b \in Thread : b # c => op'[b] = op[b]
      /\ \A d \in Call : d # c => from'[d] = from[d]
      /\ \A d \in Call : d # c => dst'[d] = dst[d]
      /\ \A d \in Call : d # c => req'[d] = req[d]
      /\ buf'[n] = buf[c] /\ buf'[c] = Empty
      /\ \A b \in Thread : b # n /\ b # c => buf'[b] = buf[b]
      /\ UNCHANGED <<todo, perm, mem, pageLock, infoLock, owner, copyset, latest>>
  BY <1>1, <1>3, <1>2, <1>4 DEF fault_hdlr_reply, tblVars, TypeOK
<1>6. op[c] = op[n]
  BY <1>1, <1>5 DEF IInv, Callers
<1>7. \A m \in Node : Holder(m)' => Holder(m)
  BY <1>1, <1>5 DEF Holder
<1>8. \A m \in Worker : Entitled(m)' => Entitled(m)
  BY <1>1, <1>5, <1>6 DEF Entitled, CanStore
<1>9. Answered'
  BY <1>1, <1>5 DEF Answered, requester, ServePc
<1>10. Fetchable'
  BY <1>1, <1>5 DEF Fetchable, home
<1>11. Alone'
  BY <1>1, <1>7, <1>8 DEF Alone
<1>12. Covered'
  BY <1>1, <1>5, <1>7 DEF Covered, Revoking, GivenUp, requester, FetchPc
<1>13. OwnerHas'
  BY <1>1, <1>5, <1>6 DEF OwnerHas, Promised, Revoking, GivenUp, requester, FetchPc
<1>14. Faulted'
  BY <1>1, <1>5 DEF Faulted
<1>15. Current'
  <2>1. \A m \in Node : m # c /\ m \in Thread
    BY <1>1
  <2>2. \A m \in Node : m # n => pc'[m] = pc[m]
    BY <1>5, <2>1
  <2>3. \A b \in Thread : b # n /\ buf'[b] # Empty => b # c /\ buf[b] # Empty
    BY <1>5
  <2>4. \A b \in Thread : b # n /\ buf'[b] # Empty => Carries(b)'
    BY <1>5, <2>3 DEF Current, Carries
  <2>5. \A b \in Thread : buf'[b] # Empty => buf'[b] = latest
    BY <1>1, <1>5 DEF Current
  <2>6. Carries(n)'
    BY <1>1, <1>5 DEF Carries
  <2> QED BY <1>1, <1>5, <2>2, <2>4, <2>5, <2>6 DEF Current
<1>16. EmptyMeansCopy'
  <2> SUFFICES ASSUME NEW m \in Worker
      PROVE  /\ pc'[m] = "protect" /\ op'[m] = "wr" /\ buf'[m] = Empty => perm[m] = "rd"
             /\ pc'[m] = "copy" /\ op'[m] = "wr" /\ buf'[m] = Empty => mem[m] = latest
             /\ \A e \in Call :
                  /\ from'[e] = m /\ op'[e] = "wr" /\ buf'[e] = Empty
                  /\ pc'[e] \in {"srvInval", "srvAck", "done"}
                  => perm[m] = "rd"
    BY <1>5 DEF EmptyMeansCopy
  <2>1. \A e \in Call : e # c => buf'[e] = buf[e] /\ op'[e] = op[e] /\ pc'[e] = pc[e]
    BY <1>1, <1>5
  <2>2. CASE m = n
    BY <1>1, <1>5, <1>6, <2>1, <2>2 DEF EmptyMeansCopy
  <2>3. CASE m # n
    <3>1. m # c /\ m \in Thread
      BY <1>1
    <3>2. pc'[m] = pc[m] /\ op'[m] = op[m] /\ buf'[m] = buf[m]
      BY <1>5, <2>3, <3>1
    <3>3. \A e \in Call : pc'[e] \in {"srvInval", "srvAck", "done"} => e # c
      BY <1>5
    <3>4. UNCHANGED <<perm, mem,
         latest>> /\ \A e \in Call : e # c => from'[e] = from[e]
      BY <1>5
    <3> QED BY <2>1, <3>2, <3>3, <3>4 DEF EmptyMeansCopy
  <2> QED BY <2>2, <2>3
<1> QED BY <1>9, <1>10, <1>11, <1>12, <1>13, <1>14, <1>15, <1>16

\* The page of a node that has an answer is opened.
LEMMA OpenStep ==
    ASSUME CohInv, Reliable, IInv', NEW n \in Worker, open_page(n) PROVE CohInv'
<1> USE Names DEF CohInv
<1>1. TypeOK
  BY DEF IInv
<1>2. /\ pc[n] = "protect" /\ pc'[n] = "copy" /\ perm'[n] = "rw"
      /\ \A b \in Thread : b # n => pc'[b] = pc[b]
      /\ \A m \in Node : m # n => perm'[m] = perm[m]
      /\ UNCHANGED <<op, buf, todo, from, dst, req, mem, pageLock, infoLock, owner,
         copyset, latest>>
  BY <1>1 DEF open_page, IInv, TypeOK, rpcVars, tblVars
<1>3. \A m \in Node : Holder(m)' => Holder(m)
  BY <1>1, <1>2 DEF Holder
<1>4. \A m \in Worker : Entitled(m)' => Entitled(m)
  BY <1>1, <1>2 DEF Entitled, CanStore
<1>5. Answered'
  BY <1>1, <1>2 DEF Answered, requester, ServePc
<1>6. Fetchable'
  BY <1>1, <1>2 DEF Fetchable, home
<1>7. Alone'
  BY <1>1, <1>3, <1>4 DEF Alone
<1>8. Covered'
  BY <1>1, <1>2, <1>3 DEF Covered, Revoking, GivenUp, requester, FetchPc
<1>9. OwnerHas'
  BY <1>1, <1>2 DEF OwnerHas, Promised, Revoking, GivenUp, requester, FetchPc
<1>10. Faulted'
  BY <1>1, <1>2 DEF Faulted
<1>11. Current'
  BY <1>1, <1>2 DEF Current, Carries
<1>12. EmptyMeansCopy'
  BY <1>1, <1>2 DEF EmptyMeansCopy, Current, IInv, Callers
<1> QED BY <1>5, <1>6, <1>7, <1>8, <1>9, <1>10, <1>11, <1>12

\* What is copied in for a read is current.
LEMMA ReadCopyStep ==
    ASSUME CohInv, Reliable, IInv', NEW n \in Worker,
         get_rd_page_copy(n) PROVE CohInv'
<1> USE Names DEF CohInv
<1>1. TypeOK
  BY DEF IInv
<1>2. /\ pc[n] = "copy" /\ pc'[n] = "settle" /\ op[n] = "rd" /\ mem'[n] = buf[n] /\ buf'[n] = Empty
      /\ \A b \in Thread : b # n => pc'[b] = pc[b]
      /\ \A m \in Node : m # n => mem'[m] = mem[m]
      /\ \A b \in Thread : b # n => buf'[b] = buf[b]
      /\ UNCHANGED <<op, todo, from, dst, req, perm, pageLock, infoLock, owner,
         copyset, latest>>
  BY <1>1 DEF get_rd_page_copy, IInv, TypeOK, rpcVars, tblVars
<1>3. buf[n] # Empty
  BY <1>1, <1>2 DEF IInv, Pages, Paged
<1>4. \A m \in Node : Holder(m)' => Holder(m)
  BY <1>1, <1>2 DEF Holder
<1>5. \A m \in Worker : Entitled(m)' => Entitled(m)
  BY <1>1, <1>2 DEF Entitled, CanStore
<1>6. Answered'
  BY <1>1, <1>2 DEF Answered, requester, ServePc
<1>7. Fetchable'
  BY <1>1, <1>2 DEF Fetchable, home
<1>8. Alone'
  BY <1>1, <1>4, <1>5 DEF Alone
<1>9. Covered'
  BY <1>1, <1>2, <1>4 DEF Covered, Revoking, GivenUp, requester, FetchPc
<1>10. OwnerHas'
  BY <1>1, <1>2 DEF OwnerHas, Promised, Revoking, GivenUp, requester, FetchPc
<1>11. Faulted'
  BY <1>1, <1>2 DEF Faulted
<1>12. Current'
  BY <1>1, <1>2, <1>3 DEF Current, Carries
<1>13. EmptyMeansCopy'
  BY <1>1, <1>2 DEF EmptyMeansCopy
<1> QED BY <1>6, <1>7, <1>8, <1>9, <1>10, <1>11, <1>12, <1>13

\* A reader settles for read access.
LEMMA ReadProtectStep ==
    ASSUME CohInv, Reliable, IInv', NEW n \in Worker,
         get_rd_page_protect(n) PROVE CohInv'
<1> USE Names DEF CohInv
<1>1. TypeOK
  BY DEF IInv
<1>2. /\ pc[n] = "settle" /\ pc'[n] = "retry" /\ perm'[n] = "rd"
      /\ \A b \in Thread : b # n => pc'[b] = pc[b]
      /\ \A m \in Node : m # n => perm'[m] = perm[m]
      /\ UNCHANGED <<op, buf, todo, from, dst, req, mem, infoLock, owner, copyset,
         latest>>
  BY <1>1 DEF get_rd_page_protect, IInv, TypeOK, rpcVars, tblVars
<1>3. \A m \in Node : Holder(m)' => Holder(m)
  BY <1>1, <1>2 DEF Holder
<1>4. \A m \in Worker : Entitled(m)' => Entitled(m)
  BY <1>1, <1>2 DEF Entitled, CanStore
<1>5. Answered'
  BY <1>1, <1>2 DEF Answered, requester, ServePc
<1>6. Fetchable'
  BY <1>1, <1>2 DEF Fetchable, home
<1>7. Alone'
  BY <1>1, <1>3, <1>4 DEF Alone
<1>8. Covered'
  BY <1>1, <1>2, <1>3 DEF Covered, Revoking, GivenUp, requester, FetchPc
<1>9. OwnerHas'
  BY <1>1, <1>2 DEF OwnerHas, Promised, Revoking, GivenUp, requester, FetchPc
<1>10. Faulted'
  BY <1>1, <1>2 DEF Faulted
<1>11. Current'
  BY <1>1, <1>2 DEF Current, Carries
<1>12. EmptyMeansCopy'
  BY <1>1, <1>2 DEF EmptyMeansCopy, IInv, Callers
<1> QED BY <1>5, <1>6, <1>7, <1>8, <1>9, <1>10, <1>11, <1>12

\* A writer's page is current, copied in or there already.
LEMMA WriteCopyStep ==
    ASSUME CohInv, Reliable, IInv', NEW n \in Worker,
         get_wr_page_copy(n) PROVE CohInv'
<1> USE Names DEF CohInv
<1>1. TypeOK
  BY DEF IInv
<1>2. /\ pc[n] = "copy" /\ pc'[n] = "retry" /\ op[n] = "wr" /\ perm[n] = "rw"
      /\ mem'[n] = received(n) /\ buf'[n] = Empty
      /\ \A b \in Thread : b # n => pc'[b] = pc[b]
      /\ \A m \in Node : m # n => mem'[m] = mem[m]
      /\ \A b \in Thread : b # n => buf'[b] = buf[b]
      /\ UNCHANGED <<op, todo, from, dst, req, perm, infoLock, owner, copyset,
         latest>>
  BY <1>1 DEF get_wr_page_copy, OpenCopy, IInv, TypeOK, rpcVars, tblVars
<1>3. \A m \in Node : Holder(m)' => Holder(m)
  BY <1>1, <1>2 DEF Holder
<1>4. \A m \in Worker : Entitled(m)' => Entitled(m)
  BY <1>1, <1>2 DEF Entitled, CanStore
<1>5. Answered'
  BY <1>1, <1>2 DEF Answered, requester, ServePc
<1>6. Fetchable'
  BY <1>1, <1>2 DEF Fetchable, home
<1>7. Alone'
  BY <1>1, <1>3, <1>4 DEF Alone
<1>8. Covered'
  BY <1>1, <1>2, <1>3 DEF Covered, Revoking, GivenUp, requester, FetchPc
<1>9. OwnerHas'
  BY <1>1, <1>2 DEF OwnerHas, Promised, Revoking, GivenUp, requester, FetchPc
<1>10. Faulted'
  BY <1>1, <1>2 DEF Faulted
<1>11. Current'
  BY <1>1, <1>2 DEF Current, Carries, received, EmptyMeansCopy
<1>12. EmptyMeansCopy'
  BY <1>1, <1>2 DEF EmptyMeansCopy
<1> QED BY <1>5, <1>6, <1>7, <1>8, <1>9, <1>10, <1>11, <1>12

-----------------------------------------------------------------------------
(***************************************************************************)
(* The calls that fetch and invalidate the page.                           *)
(***************************************************************************)
\* A fetch takes the owner's page lock.
LEMMA FetchLockStep ==
    ASSUME CohInv, Reliable, IInv', NEW c \in Call, fetch_pg_lock(c) PROVE CohInv'
<1> USE Names DEF CohInv
<1>1. TypeOK
  BY DEF IInv
<1>2. /\ pc[c] = "sent" /\ pc'[c] = "fpProtect" /\ op[c] \in Fetch
      /\ \A b \in Thread : b # c => pc'[b] = pc[b]
      /\ UNCHANGED <<op, buf, todo, from, dst, req, perm, mem, infoLock, owner,
         copyset, latest>>
  BY <1>1 DEF fetch_pg_lock, Fetch, IInv, TypeOK, rpcVars, tblVars
<1>3. \A m \in Node : Holder(m)' => Holder(m)
  BY <1>1, <1>2 DEF Holder
<1>4. \A m \in Worker : Entitled(m)' => Entitled(m)
  BY <1>1, <1>2 DEF Entitled, CanStore
<1>5. Answered'
  BY <1>1, <1>2 DEF Answered, requester, ServePc, Fetch
<1>6. Fetchable'
  BY <1>1, <1>2 DEF Fetchable, home
<1>7. Alone'
  BY <1>1, <1>3, <1>4 DEF Alone
<1>8. Covered'
  BY <1>1, <1>2, <1>3 DEF Covered, Revoking, GivenUp, requester, FetchPc, Fetch
<1>9. OwnerHas'
  BY <1>1, <1>2 DEF OwnerHas, Promised, Revoking, GivenUp, requester, FetchPc, Fetch
<1>10. Faulted'
  BY <1>1, <1>2 DEF Faulted
<1>11. Current'
  BY <1>1, <1>2 DEF Current, Carries
<1>12. EmptyMeansCopy'
  BY <1>1, <1>2 DEF EmptyMeansCopy
<1> QED BY <1>5, <1>6, <1>7, <1>8, <1>9, <1>10, <1>11, <1>12

\* The only new reader is a manager that owns the page.
LEMMA FetchProtectStep ==
    ASSUME CohInv, Reliable, IInv', NEW a \in Server,
         fetch_pg_protect(a) PROVE CohInv'
<1> USE Names DEF CohInv
<1>1. TypeOK
  BY DEF IInv
<1>2. /\ a \in Call /\ pc[a] \in FetchPc /\ home(a) = owner
      /\ \/ op[a] \in Fetch /\ owner \in Worker
         \/ op[a] \in Serve /\ owner = Manager /\ Serving(a)
      /\ pc[owner] \notin {"wait", "protect", "copy", "settle"}
      /\ \A c \in Call : from[c] # owner
  BY <1>1, OneFetches DEF fetch_pg_protect, FetchPc
<1>3. owner \in Worker => perm[owner] # "none"
  BY <1>2, OwnerReads
<1>4. mem[owner] = latest
  BY <1>1, <1>2, <1>3 DEF Current
<1>5. /\ pc[a] = "fpProtect" /\ pc'[a] = "fpRead" /\ perm'[owner] = "rd"
      /\ \A b \in Thread : b # a => pc'[b] = pc[b]
      /\ \A m \in Node : m # owner => perm'[m] = perm[m]
      /\ UNCHANGED <<op, buf, todo, from, dst, req, mem, pageLock, infoLock, owner,
         copyset, latest>>
  BY <1>1, <1>2 DEF fetch_pg_protect, IInv, TypeOK, rpcVars, tblVars
<1>6. \A b \in Server : op[a] \in Serve /\ Serving(b) => b = a
  BY <1>2, OneServes DEF Fetch, Serve
<1>7. \A m \in Node : Holder(m)' => Holder(m) \/ (m = owner /\ owner = Manager)
  BY <1>1, <1>2, <1>3, <1>5 DEF Holder
<1>8. \A m \in Worker : Entitled(m)' => Entitled(m)
  BY <1>1, <1>5 DEF Entitled, CanStore
<1>9. Answered'
  BY <1>1, <1>5 DEF Answered, requester, ServePc
<1>10. Fetchable'
  BY <1>1, <1>5, <1>2 DEF Fetchable, home
<1>11. Alone'
  BY <1>1, <1>7, <1>8 DEF Alone, IInv, Grants
<1>12. Covered'
  BY <1>1, <1>5, <1>7, <1>2, <1>6 DEF Covered, Revoking, GivenUp, requester,
         FetchPc, Serving, Fetch, Serve
<1>13. OwnerHas'
  BY <1>1, <1>5, <1>3 DEF OwnerHas, Promised, Revoking, GivenUp, requester, FetchPc
<1>14. Faulted'
  BY <1>1, <1>5, <1>3, <1>2 DEF Faulted
<1>15. Current'
  <2>1. \A m \in Node : pc'[m] = pc[m] /\ (perm[m] # "none" \/ perm'[m] = "none" \/ m = owner)
    BY <1>1, <1>2, <1>5
  <2>2. \A b \in Thread : buf[b] # Empty => Carries(b)'
    BY <1>2, <1>5, <2>1 DEF Current, Carries
  <2>3. UNCHANGED <<buf, mem, owner, latest>>
    BY <1>5
  <2> QED BY <1>4, <2>1, <2>2, <2>3 DEF Current
<1>16. EmptyMeansCopy'
  BY <1>1, <1>5, <1>2 DEF EmptyMeansCopy
<1> QED BY <1>9, <1>10, <1>11, <1>12, <1>13, <1>14, <1>15, <1>16

\* What is read of the owner's page is current.
LEMMA ReadPageStep ==
    ASSUME CohInv, Reliable, IInv', NEW a \in Server, read_page(a) PROVE CohInv'
<1> USE Names DEF CohInv
<1>1. TypeOK
  BY DEF IInv
<1>2. /\ a \in Call /\ home(a) = owner
      /\ pc[owner] \notin {"wait", "protect", "copy", "settle"}
      /\ \A c \in Call : from[c] # owner
  BY <1>1, OneFetches DEF read_page, FetchPc
<1>3. /\ pc[a] = "fpRead" /\ pc'[a] = "fpSet" /\ perm[owner] # "none" /\ buf'[a] = mem[owner]
      /\ \A b \in Thread : b # a => pc'[b] = pc[b]
      /\ \A b \in Thread : b # a => buf'[b] = buf[b]
      /\ UNCHANGED <<op, todo, from, dst, req, perm, mem, pageLock, infoLock,
         owner, copyset, latest>>
  BY <1>1, <1>2 DEF read_page, IInv, TypeOK, rpcVars, tblVars
<1>4. mem[owner] = latest
  BY <1>1, <1>2, <1>3 DEF Current
<1>5. \A m \in Node : Holder(m)' => Holder(m)
  BY <1>1, <1>3 DEF Holder
<1>6. \A m \in Worker : Entitled(m)' => Entitled(m)
  BY <1>1, <1>3 DEF Entitled, CanStore
<1>7. Answered'
  BY <1>1, <1>3 DEF Answered, requester, ServePc
<1>8. Fetchable'
  BY <1>1, <1>3, <1>2 DEF Fetchable, home
<1>9. Alone'
  BY <1>1, <1>5, <1>6 DEF Alone
<1>10. Covered'
  BY <1>1, <1>3, <1>5 DEF Covered, Revoking, GivenUp, requester, FetchPc
<1>11. OwnerHas'
  BY <1>1, <1>3 DEF OwnerHas, Promised, Revoking, GivenUp, requester, FetchPc
<1>12. Faulted'
  BY <1>1, <1>3 DEF Faulted
<1>13. Current'
  BY <1>1, <1>3, <1>4, <1>2 DEF Current, Carries
<1>14. EmptyMeansCopy'
  BY <1>1, <1>3, <1>2 DEF EmptyMeansCopy
<1> QED BY <1>7, <1>8, <1>9, <1>10, <1>11, <1>12, <1>13, <1>14

\* A fetch for a write leaves the owner without access.
LEMMA FetchAnswerStep ==
    ASSUME CohInv, Reliable, IInv', NEW c \in Call, fetch_pg_answer(c) PROVE CohInv'
<1> USE Names DEF CohInv
<1>1. TypeOK
  BY DEF IInv
<1>2. pc[c] \in FetchPc /\ pc[c] = "fpSet" /\ op[c] \in Fetch /\ op[c] \notin Serve
  BY DEF fetch_pg_answer, FetchPc, Fetch, Serve
<1>3. /\ dst[c] = owner /\ owner \in Worker
      /\ pc[owner] \notin {"wait", "protect", "copy", "settle"}
      /\ \A d \in Call : from[d] # owner
      /\ \A b \in Thread : pc[b] \in FetchPc => b = c
  BY <1>1, <1>2, OneFetches, ThreadSplit DEF Fetch, Serve
<1>4. /\ from[c] \in Call /\ Serving(from[c]) /\ pc[from[c]] = "srvFetch" /\ from[c] # c
      /\ op[c] = IF op[from[c]] = "wr" THEN "fetch_none" ELSE "fetch_rd"
      /\ \A b \in Server : Serving(b) => b = from[c]
  BY <1>1, <1>2, Nested, OneServes DEF FetchPc
<1>5. perm[owner] # "none"
  BY <1>1, <1>3, <1>2, OwnerReads
<1>6. /\ pc[c] = "fpSet" /\ pc'[c] = "done" /\ op[c] \in Fetch
      /\ perm'[owner] = IF op[c] = "fetch_rd" THEN "rd" ELSE "none"
      /\ \A b \in Thread : b # c => pc'[b] = pc[b]
      /\ \A m \in Node : m # owner => perm'[m] = perm[m]
      /\ UNCHANGED <<op, buf, todo, from, dst, req, mem, infoLock, owner, copyset,
         latest>>
  BY <1>1, <1>3 DEF fetch_pg_answer, left_access, Fetch, IInv, TypeOK, rpcVars,
         tblVars
<1>7. op[c] = "fetch_none" => ~Holder(owner)'
  BY <1>1, <1>3, <1>6 DEF Holder
<1>8. \A m \in Node : Holder(m)' => Holder(m)
  BY <1>1, <1>3, <1>4, <1>5, <1>6 DEF Holder
<1>9. \A m \in Worker : Entitled(m)' => Entitled(m)
  BY <1>1, <1>4, <1>6 DEF Entitled, CanStore
<1>10. Answered'
  BY <1>1, <1>6, <1>4 DEF Answered, requester, ServePc, Fetch, Serve
<1>11. Fetchable'
  BY <1>1, <1>6, <1>3 DEF Fetchable, home, FetchPc
<1>12. Alone'
  BY <1>1, <1>8, <1>9 DEF Alone
<1>13. Covered'
  BY <1>1, <1>6, <1>8, <1>4, <1>7 DEF Covered, Revoking, GivenUp, requester,
         FetchPc, Serving, Fetch, Serve
<1>14. OwnerHas'
  BY <1>1, <1>6, <1>3, <1>4 DEF OwnerHas, Promised, Revoking, GivenUp, requester,
         FetchPc, Fetch, Answered
<1>15. Faulted'
  BY <1>1, <1>6, <1>5, <1>3 DEF Faulted
<1>16. Current'
  <2>1. \A m \in Node : pc'[m] = pc[m] /\ (perm[m] = "none" => perm'[m] = "none")
    BY <1>1, <1>5, <1>6
  <2>2. \A b \in Thread : buf[b] # Empty /\ b # c => Carries(b)'
    BY <1>6, <2>1 DEF Current, Carries
  <2>3. Carries(c)'
    BY <1>1, <1>6 DEF Carries, Fetch
  <2>4. UNCHANGED <<buf, mem, owner, latest>>
    BY <1>6
  <2> QED BY <2>1, <2>2, <2>3, <2>4 DEF Current
<1>17. EmptyMeansCopy'
  <2>1. \A m \in Worker : pc[m] \in {"wait", "protect",
         "copy"} => perm'[m] = perm[m]
    BY <1>1, <1>3, <1>6
  <2>2. \A d \in Call : from'[d] \in Worker => perm'[from'[d]] = perm[from'[d]] /\ pc'[d] = pc[d]
    BY <1>1, <1>3, <1>4, <1>6
  <2>3. \A m \in Worker : pc'[m] = pc[m]
    BY <1>1, <1>6
  <2>4. UNCHANGED <<op, buf, from, mem, latest>>
    BY <1>6
  <2> QED BY <1>1, <2>1, <2>2, <2>3, <2>4 DEF EmptyMeansCopy
<1> QED BY <1>10, <1>11, <1>12, <1>13, <1>14, <1>15, <1>16, <1>17

\* A node that has been invalidated holds nothing: it is not in its handler.
LEMMA InvalidateStep ==
    ASSUME CohInv, Reliable, IInv', NEW c \in Call,
         invalidate_adapter(c) PROVE CohInv'
<1> USE Names DEF CohInv
<1>1. TypeOK
  BY DEF IInv
<1>2. /\ pc[c] = "sent" /\ op[c] = "inval" /\ op[c] \notin Serve
      /\ dst[c] \in Worker => pageLock[dst[c]] = NoOne
  BY DEF invalidate_adapter, ivld_ready, Serve, Worker
<1>3. /\ from[c] \in Call /\ Serving(from[c]) /\ pc[from[c]] = "srvAck" /\ from[c] # c
      /\ op[from[c]] = "wr" /\ requester(from[c]) = from[from[c]]
      /\ from[from[c]] \in Worker /\ pageLock[from[from[c]]] = from[from[c]]
      /\ \A b \in Server : Serving(b) => b = from[c]
  <2>1. from[c] \in Call /\ Serving(from[c]) /\ pc[from[c]] = "srvAck"
    BY <1>1, <1>2, Nested
  <2>2. op[from[c]] = "wr"
    BY <2>1 DEF IInv, Pages, Paged
  <2> QED BY <1>1, <1>2, <2>1, <2>2, Behind, OneServes DEF Serve
<1>4. dst[c] \in Worker => pc[dst[c]] \notin {"wait", "protect", "copy", "settle"}
  BY <1>1, <1>2 DEF IInv, Locked, Holds
<1>5. \A d \in Call : from[d] # dst[c]
  BY <1>1, <1>4, ManagerRuns DEF IInv, Callers
<1>6. \A b \in Thread : pc[b] \notin FetchPc
  <2> SUFFICES ASSUME NEW b \in Thread, pc[b] \in FetchPc PROVE FALSE
    OBVIOUS
  <2>1. b \in Call /\ (op[b] \in Fetch \/ Serving(b))
    BY <1>1, OneFetches
  <2>2. CASE Serving(b)
    BY <1>1, <1>3, <2>1, <2>2 DEF FetchPc
  <2>3. CASE op[b] \in Fetch
    BY <1>1, <1>3, <2>1, <2>3, Nested DEF FetchPc, Fetch, Serve
  <2> QED BY <2>1, <2>2, <2>3
<1>7. /\ pc[c] = "sent" /\ pc'[c] = "done" /\ op[c] = "inval" /\ perm'[dst[c]] = "none"
      /\ \A b \in Thread : b # c => pc'[b] = pc[b]
      /\ \A m \in Node : m # dst[c] => perm'[m] = perm[m]
      /\ UNCHANGED <<op, buf, todo, from, dst, req, mem, pageLock, infoLock, owner,
         copyset, latest>>
  BY <1>1 DEF invalidate_adapter, IInv, TypeOK, rpcVars, tblVars
<1>8. ~Holder(dst[c])'
  BY <1>1, <1>4, <1>5, <1>7, ManagerRuns DEF Holder
<1>9. \A m \in Node : Holder(m)' => Holder(m)
  BY <1>1, <1>3, <1>7 DEF Holder
<1>10. \A m \in Worker : Entitled(m)' => Entitled(m)
  BY <1>1, <1>3, <1>7 DEF Entitled, CanStore
<1>11. Answered'
  BY <1>1, <1>7 DEF Answered, requester, ServePc
<1>12. Fetchable'
  BY <1>1, <1>7, <1>6 DEF Fetchable, home, FetchPc
<1>13. Alone'
  BY <1>1, <1>9, <1>10 DEF Alone
<1>14. Covered'
  BY <1>1, <1>7, <1>9, <1>8, <1>3 DEF Covered, Revoking, GivenUp, requester,
         FetchPc, Serving, Serve
<1>15. OwnerHas'
  BY <1>1, <1>7, <1>2, <1>3 DEF OwnerHas, Promised, Revoking, GivenUp, requester,
         FetchPc
<1>16. Faulted'
  BY <1>1, <1>7 DEF Faulted
<1>17. Current'
  BY <1>1, <1>7 DEF Current, Carries
<1>18. EmptyMeansCopy'
  <2>1. \A m \in Worker : pc[m] \in {"wait", "protect",
         "copy"} => perm'[m] = perm[m]
    BY <1>1, <1>4, <1>7
  <2>2. \A d \in Call : from'[d] \in Worker => d # c
    BY <1>1, <1>3, <1>7
  <2>3. \A d \in Call : from'[d] \in Worker => perm'[from'[d]] = perm[from'[d]] /\ pc'[d] = pc[d]
    BY <1>1, <1>5, <1>7, <2>2
  <2>4. \A m \in Worker : pc'[m] = pc[m]
    BY <1>1, <1>7
  <2>5. UNCHANGED <<op, buf, from, mem, latest>>
    BY <1>7
  <2> QED BY <1>1, <2>1, <2>3, <2>4, <2>5 DEF EmptyMeansCopy
<1> QED BY <1>11, <1>12, <1>13, <1>14, <1>15, <1>16, <1>17, <1>18

-----------------------------------------------------------------------------
(***************************************************************************)
(* The manager.                                                            *)
(***************************************************************************)
\* A request takes the manager's page lock.
LEMMA ServeLockStep ==
    ASSUME CohInv, Reliable, IInv', NEW a \in Server, NEW o \in Serve,
         serv_rq_lock(a, o) PROVE CohInv'
<1> USE Names DEF CohInv
<1>1. TypeOK
  BY DEF IInv
<1>2. a \in Call /\ pc[a] \in {"sent", "srvLock"} /\ op[a] = o
  BY <1>1, ManagerRuns DEF serv_rq_lock
<1>3. /\ pc'[a] = "srvInfo" /\ op[a] = o
      /\ \A b \in Thread : b # a => pc'[b] = pc[b]
      /\ UNCHANGED <<op, buf, todo, from, dst, req, perm, mem, infoLock, owner,
         copyset, latest>>
  BY <1>1, <1>2 DEF serv_rq_lock, IInv, TypeOK, rpcVars, tblVars
<1>4. \A m \in Node : Holder(m)' => Holder(m)
  BY <1>1, <1>2, <1>3 DEF Holder
<1>5. \A m \in Worker : Entitled(m)' => Entitled(m)
  BY <1>1, <1>2, <1>3 DEF Entitled, CanStore
<1>6. Answered'
  BY <1>1, <1>3, <1>2 DEF Answered, requester, ServePc
<1>7. Fetchable'
  BY <1>1, <1>3, <1>2 DEF Fetchable, home
<1>8. Alone'
  BY <1>1, <1>4, <1>5 DEF Alone
<1>9. Covered'
  BY <1>1, <1>3, <1>4, <1>2 DEF Covered, Revoking, GivenUp, requester, FetchPc,
         Serve
<1>10. OwnerHas'
  BY <1>1, <1>3, <1>2 DEF OwnerHas, Promised, Revoking, GivenUp, requester, FetchPc
<1>11. Faulted'
  BY <1>1, <1>3, <1>2 DEF Faulted
<1>12. Current'
  BY <1>1, <1>3, <1>2 DEF Current, Carries
<1>13. EmptyMeansCopy'
  BY <1>1, <1>3, <1>2 DEF EmptyMeansCopy
<1> QED BY <1>6, <1>7, <1>8, <1>9, <1>10, <1>11, <1>12, <1>13

\* A reader is in the copyset before it has its copy.
LEMMA ServeReadStep ==
    ASSUME CohInv, Reliable, IInv', NEW a \in Server, owner = Manager,
         serv_rd_rq(a) PROVE CohInv'
<1> USE Names DEF CohInv
<1>1. TypeOK
  BY DEF IInv
<1>2. pc[a] \in {"srvInfo"} /\ op[a] = "rd"
  BY DEF serv_rd_rq
<1>3. /\ a \in Call /\ Serving(a) /\ op[a] \in Serve /\ requester(a) = from[a]
      /\ from[a] \in Worker /\ pc[from[a]] = "wait" /\ op[from[a]] = op[a]
      /\ \A b \in Server : Serving(b) => b = a
      /\ \A c \in Call : from[c] = from[a] => c = a
      /\ \A c \in Call : from[c] # Manager
  BY <1>1, <1>2, AtWork DEF Serving, FetchPc, Serve
<1>4. \A b \in Server : ~Revoking(b)
  BY <1>3, <1>2 DEF Revoking, Serving, Serve, FetchPc
<1>5. /\ pc[a] = "srvInfo" /\ pc'[a] = "fpProtect" /\ owner = Manager
      /\ copyset' = copyset \cup {from[a]}
      /\ \A b \in Thread : b # a => pc'[b] = pc[b]
      /\ UNCHANGED <<op, buf, todo, from, dst, req, perm, mem, pageLock, owner,
         latest>>
  BY <1>1, <1>3, <1>2 DEF serv_rd_rq, copyset_with, IInv, TypeOK, rpcVars
<1>6. \A m \in Node : Holder(m)' => Holder(m)
  BY <1>1, <1>3, <1>2, <1>5 DEF Holder
<1>7. \A m \in Worker : Entitled(m)' => Entitled(m)
  BY <1>1, <1>3, <1>2, <1>5 DEF Entitled, CanStore
<1>8. Answered'
  BY <1>1, <1>5, <1>3, <1>2 DEF Answered, requester, ServePc
<1>9. Fetchable'
  BY <1>1, <1>5, <1>3, <1>2 DEF Fetchable, home
<1>10. Alone'
  BY <1>1, <1>6, <1>7, <1>3, <1>2 DEF Alone
<1>11. Covered'
  BY <1>1, <1>5, <1>6, <1>3, <1>2, <1>4 DEF Covered, Revoking, GivenUp, requester,
         FetchPc, Serving
<1>12. OwnerHas'
  BY <1>1, <1>5, <1>3, <1>2 DEF OwnerHas, Promised, Revoking, GivenUp, requester,
         FetchPc
<1>13. Faulted'
  BY <1>1, <1>5, <1>3, <1>2 DEF Faulted
<1>14. Current'
  BY <1>1, <1>5, <1>3, <1>2 DEF Current, Carries
<1>15. EmptyMeansCopy'
  BY <1>1, <1>5, <1>3, <1>2 DEF EmptyMeansCopy
<1> QED BY <1>8, <1>9, <1>10, <1>11, <1>12, <1>13, <1>14, <1>15

\* The same when a worker owns the page: it is asked to keep read access.
LEMMA ServeReadAskStep ==
    ASSUME CohInv, Reliable, IInv', NEW a \in Server, owner # Manager,
         serv_rd_rq(a) PROVE CohInv'
<1> USE Names DEF CohInv
<1>1. TypeOK
  BY DEF IInv
<1>2. pc[a] \in {"srvInfo"} /\ op[a] = "rd"
  BY DEF serv_rd_rq
<1>3. /\ a \in Call /\ Serving(a) /\ op[a] \in Serve /\ requester(a) = from[a]
      /\ from[a] \in Worker /\ pc[from[a]] = "wait" /\ op[from[a]] = op[a]
      /\ \A b \in Server : Serving(b) => b = a
      /\ \A c \in Call : from[c] = from[a] => c = a
      /\ \A c \in Call : from[c] # Manager
  BY <1>1, <1>2, AtWork DEF Serving, FetchPc, Serve
<1>4. \A b \in Server : ~Revoking(b)
  BY <1>3, <1>2 DEF Revoking, Serving, Serve, FetchPc
<1>5. PICK c \in Call : call(a, "srvFetch", c, owner, "fetch_rd", requester(a))
  BY DEF serv_rd_rq
<1>6. /\ a # c /\ pc[c] = "free" /\ pc'[c] = "sent" /\ pc'[a] = "srvFetch"
      /\ \A b \in Thread : b # a /\ b # c => pc'[b] = pc[b]
      /\ op'[c] = "fetch_rd"
      /\ \A b \in Thread : b # c => op'[b] = op[b]
      /\ from'[c] = a /\ dst'[c] = owner /\ req'[c] = requester(a)
      /\ \A d \in Call : d # c =>
           from'[d] = from[d] /\ dst'[d] = dst[d] /\ req'[d] = req[d]
  BY <1>1, <1>3, <1>2, <1>5, CallAssumption DEF call, TypeOK, Thread
<1>7. \A d \in Call : from[d] # a
  BY <1>1, <1>3, <1>2 DEF IInv, Callers, Server
<1>8. a \in Call /\ a \notin Node /\ c \notin Node /\ a \in Thread /\ c \in Thread
  BY <1>1, <1>3
<1>9. /\ pc[a] = "srvInfo" /\ pc'[a] = "srvFetch" /\ owner # Manager
      /\ a # c /\ pc[c] = "free" /\ pc'[c] = "sent"
      /\ \A b \in Thread : b # a /\ b # c => pc'[b] = pc[b]
      /\ op'[c] = "fetch_rd" /\ from'[c] = a
      /\ \A b \in Thread : b # c => op'[b] = op[b]
      /\ \A d \in Call : d # c => from'[d] = from[d]
      /\ \A d \in Call : d # c => dst'[d] = dst[d]
      /\ \A d \in Call : d # c => req'[d] = req[d]
      /\ \A d \in Call : from[d] # a
      /\ copyset' = copyset \cup {from[a]}
      /\ UNCHANGED <<buf, todo, perm, mem, pageLock, owner, latest>>
  BY <1>1, <1>3, <1>2, <1>6, <1>7 DEF serv_rd_rq, copyset_with
<1>10. \A m \in Node : Holder(m)' => Holder(m)
  BY <1>1, <1>3, <1>2, <1>9 DEF Holder
<1>11. \A m \in Worker : Entitled(m)' => Entitled(m)
  BY <1>1, <1>3, <1>2, <1>9 DEF Entitled, CanStore
<1>12. Answered'
  BY <1>1, <1>9, <1>3, <1>2 DEF Answered, requester, ServePc
<1>13. Fetchable'
  BY <1>1, <1>9, <1>3, <1>2 DEF Fetchable, home
<1>14. Alone'
  BY <1>1, <1>10, <1>11, <1>3, <1>2 DEF Alone
<1>15. Covered'
  BY <1>1, <1>9, <1>10, <1>3, <1>2, <1>4 DEF Covered, Revoking, GivenUp, requester,
         FetchPc, Serving
<1>16. OwnerHas'
  BY <1>1, <1>9, <1>3, <1>2 DEF OwnerHas, Promised, Revoking, GivenUp, requester,
         FetchPc
<1>17. Faulted'
  BY <1>1, <1>9, <1>3, <1>2 DEF Faulted
<1>18. Current'
  <2>1. \A b \in Node : b # a /\ b # c /\ b \in Thread
    BY <1>1, <1>8
  <2>2. \A b \in Node : pc'[b] = pc[b]
    BY <1>9, <2>1
  <2>3. \A b \in Thread : buf[b] # Empty => b # a /\ b # c /\ Carries(b)
    BY <1>9, <1>8 DEF Current, Carries
  <2>4. \A b \in Thread : buf[b] # Empty => Carries(b)'
    BY <1>9, <2>3 DEF Carries
  <2>5. \A b \in Thread : buf'[b] # Empty => buf'[b] = latest' /\ Carries(b)'
    BY <1>9, <2>4 DEF Current
  <2> QED BY <1>9, <2>2, <2>5 DEF Current
<1>19. EmptyMeansCopy'
  <2>1. \A m \in Worker : pc'[m] = pc[m] /\ op'[m] = op[m] /\ buf'[m] = buf[m]
    BY <1>1, <1>9, <1>8
  <2>2. \A d \in Call : from'[d] \in Worker /\ pc'[d] \in {"srvInval", "srvAck",
         "done"} =>
          from'[d] = from[d] /\ op'[d] = op[d] /\ pc'[d] = pc[d] /\ buf'[d] = buf[d]
    BY <1>1, <1>9, <1>8
  <2> QED BY <1>9, <2>1, <2>2 DEF EmptyMeansCopy
<1> QED BY <1>12, <1>13, <1>14, <1>15, <1>16, <1>17, <1>18, <1>19

\* A writer leaves the copyset, and the others are to be invalidated.
LEMMA ServeWriteStep ==
    ASSUME CohInv, Reliable, IInv', NEW a \in Server, owner = Manager,
         serv_wr_rq(a) PROVE CohInv'
<1> USE Names DEF CohInv
<1>1. TypeOK
  BY DEF IInv
<1>2. pc[a] \in {"srvInfo"} /\ op[a] = "wr"
  BY DEF serv_wr_rq
<1>3. /\ a \in Call /\ Serving(a) /\ op[a] \in Serve /\ requester(a) = from[a]
      /\ from[a] \in Worker /\ pc[from[a]] = "wait" /\ op[from[a]] = op[a]
      /\ \A b \in Server : Serving(b) => b = a
      /\ \A c \in Call : from[c] = from[a] => c = a
      /\ \A c \in Call : from[c] # Manager
  BY <1>1, <1>2, AtWork DEF Serving, FetchPc, Serve
<1>4. \A b \in Server : ~Revoking(b)
  BY <1>3, <1>2 DEF Revoking, Serving, Serve, FetchPc
<1>5. /\ pc[a] = "srvInfo" /\ pc'[a] = "fpProtect" /\ owner = Manager
      /\ copyset' = copyset \ {from[a]}
      /\ \A b \in Thread : b # a => pc'[b] = pc[b]
      /\ todo'[a] = copyset \ {from[a]} /\ UNCHANGED <<op, buf, from, dst, req,
         perm, mem, pageLock, owner, latest>>
      /\ \A b \in Thread : b # a => todo'[b] = todo[b]
  BY <1>1, <1>3, <1>2 DEF serv_wr_rq, ivld_set, IInv, TypeOK, rpcVars
<1>6. \A m \in Node : Holder(m)' => Holder(m)
  BY <1>1, <1>3, <1>2, <1>5 DEF Holder
<1>7. \A m \in Worker : Entitled(m)' => Entitled(m)
  BY <1>1, <1>3, <1>2, <1>5 DEF Entitled, CanStore
<1>8. Answered'
  BY <1>1, <1>5, <1>3, <1>2 DEF Answered, requester, ServePc
<1>9. Fetchable'
  BY <1>1, <1>5, <1>3, <1>2 DEF Fetchable, home
<1>10. Alone'
  BY <1>1, <1>6, <1>7, <1>3, <1>2 DEF Alone
<1>11. Covered'
  <2>1. \A b \in Server : b # a => (pc'[b] = pc[b] /\ op'[b] = op[b]) \/ pc'[b] = "sent"
    BY <1>1, <1>5
  <2>2. \A b \in Server : b # a => ~Serving(b)'
    BY <1>3, <2>1 DEF Serving, FetchPc
  <2>3. op'[a] = "wr" /\ pc'[a] \in {"fpProtect", "srvInval", "srvFetch"}
    BY <1>1, <1>3, <1>2, <1>5
  <2>4. Revoking(a)' /\ requester(a)' = from[a] /\ todo'[a] = copyset'
    BY <1>1, <1>3, <1>5, <2>3 DEF Revoking, FetchPc, requester
  <2>5. \A n \in Node : Holder(n)' => n \in copyset \cup {owner}
    BY <1>4, <1>6 DEF Covered
  <2>6. \A n \in Node \ {from[a]} : Holder(n)' => n \in todo'[a] \/ (owner # from[a] /\ n = owner)
    BY <2>5, <1>5
  <2>7. owner # from[a] => ~GivenUp(a)'
    BY <1>1, <1>3, <1>5 DEF GivenUp
  <2>8. \A b \in Server : Revoking(b)' => b = a
    BY <2>2 DEF Revoking, Serving, Serve
  <2>9. \A b \in Server : op'[b] = "rd" => pc'[b] \notin {"srvFetch"} \cup FetchPc
    BY <2>2, <2>3 DEF Serving, Serve
  <2>10. pc'[a] # "srvAck" /\ owner' = owner
    BY <1>5
  <2> QED BY <1>1, <1>3, <2>4, <2>6, <2>7, <2>8, <2>9, <2>10 DEF Covered
<1>12. OwnerHas'
  BY <1>1, <1>5, <1>3, <1>2 DEF OwnerHas, Promised, Revoking, GivenUp, requester,
         FetchPc
<1>13. Faulted'
  BY <1>1, <1>5, <1>3, <1>2 DEF Faulted
<1>14. Current'
  BY <1>1, <1>5, <1>3, <1>2 DEF Current, Carries
<1>15. EmptyMeansCopy'
  BY <1>1, <1>5, <1>3, <1>2 DEF EmptyMeansCopy
<1> QED BY <1>8, <1>9, <1>10, <1>11, <1>12, <1>13, <1>14, <1>15

\* A requester that owns the page has it, with read access.
LEMMA ServeWriteHolderStep ==
    ASSUME CohInv, Reliable, IInv', NEW a \in Server, owner # Manager,
         owner_asks(a), serv_wr_rq(a) PROVE CohInv'
<1> USE Names DEF CohInv
<1>1. TypeOK
  BY DEF IInv
<1>2. pc[a] \in {"srvInfo"} /\ op[a] = "wr"
  BY DEF serv_wr_rq
<1>3. /\ a \in Call /\ Serving(a) /\ op[a] \in Serve /\ requester(a) = from[a]
      /\ from[a] \in Worker /\ pc[from[a]] = "wait" /\ op[from[a]] = op[a]
      /\ \A b \in Server : Serving(b) => b = a
      /\ \A c \in Call : from[c] = from[a] => c = a
      /\ \A c \in Call : from[c] # Manager
  BY <1>1, <1>2, AtWork DEF Serving, FetchPc, Serve
<1>4. \A b \in Server : ~Revoking(b)
  BY <1>3, <1>2 DEF Revoking, Serving, Serve, FetchPc
<1>5. /\ pc[a] = "srvInfo" /\ pc'[a] = "srvInval" /\ owner = from[a]
      /\ copyset' = copyset \ {from[a]}
      /\ \A b \in Thread : b # a => pc'[b] = pc[b]
      /\ todo'[a] = copyset \ {from[a]} /\ UNCHANGED <<op, buf, from, dst, req,
         perm, mem, pageLock, owner, latest>>
      /\ \A b \in Thread : b # a => todo'[b] = todo[b]
  BY <1>1, <1>3, <1>2 DEF serv_wr_rq, owner_asks, ivld_set, IInv, TypeOK, rpcVars
<1>6. perm[from[a]] = "rd"
  <2>1. perm[from[a]] # "rw"
    BY <1>1, <1>3, <1>2 DEF Faulted
  <2>2. ~Promised(from[a])
    BY <1>1, <1>3, <1>2 DEF Promised
  <2>3. perm[from[a]] # "none"
    BY <1>3, <1>4, <1>5, <2>2 DEF OwnerHas
  <2> QED BY <1>1, <1>3, <2>1, <2>3 DEF TypeOK, Perm
<1>7. \A m \in Node : Holder(m)' => Holder(m)
  BY <1>1, <1>3, <1>2, <1>5 DEF Holder
<1>8. \A m \in Worker : Entitled(m)' => Entitled(m)
  BY <1>1, <1>3, <1>2, <1>5 DEF Entitled, CanStore
<1>9. Answered'
  BY <1>1, <1>5, <1>3, <1>2 DEF Answered, requester, ServePc
<1>10. Fetchable'
  BY <1>1, <1>5, <1>3, <1>2 DEF Fetchable, home
<1>11. Alone'
  BY <1>1, <1>7, <1>8, <1>3, <1>2 DEF Alone
<1>12. Covered'
  <2>1. \A b \in Server : b # a => (pc'[b] = pc[b] /\ op'[b] = op[b]) \/ pc'[b] = "sent"
    BY <1>1, <1>5
  <2>2. \A b \in Server : b # a => ~Serving(b)'
    BY <1>3, <2>1 DEF Serving, FetchPc
  <2>3. op'[a] = "wr" /\ pc'[a] \in {"fpProtect", "srvInval", "srvFetch"}
    BY <1>1, <1>3, <1>2, <1>5
  <2>4. Revoking(a)' /\ requester(a)' = from[a] /\ todo'[a] = copyset'
    BY <1>1, <1>3, <1>5, <2>3 DEF Revoking, FetchPc, requester
  <2>5. \A n \in Node : Holder(n)' => n \in copyset \cup {owner}
    BY <1>4, <1>7 DEF Covered
  <2>6. \A n \in Node \ {from[a]} : Holder(n)' => n \in todo'[a] \/ (owner # from[a] /\ n = owner)
    BY <2>5, <1>5
  <2>7. owner # from[a] => ~GivenUp(a)'
    BY <1>1, <1>3, <1>5 DEF GivenUp
  <2>8. \A b \in Server : Revoking(b)' => b = a
    BY <2>2 DEF Revoking, Serving, Serve
  <2>9. \A b \in Server : op'[b] = "rd" => pc'[b] \notin {"srvFetch"} \cup FetchPc
    BY <2>2, <2>3 DEF Serving, Serve
  <2>10. pc'[a] # "srvAck" /\ owner' = owner
    BY <1>5
  <2> QED BY <1>1, <1>3, <2>4, <2>6, <2>7, <2>8, <2>9, <2>10 DEF Covered
<1>13. OwnerHas'
  BY <1>1, <1>5, <1>3, <1>2, <1>6 DEF OwnerHas, Promised, Revoking, GivenUp,
         requester, FetchPc
<1>14. Faulted'
  BY <1>1, <1>5, <1>3, <1>2 DEF Faulted
<1>15. Current'
  BY <1>1, <1>5, <1>3, <1>2 DEF Current, Carries
<1>16. EmptyMeansCopy'
  BY <1>1, <1>5, <1>3, <1>2, <1>6 DEF EmptyMeansCopy
<1> QED BY <1>9, <1>10, <1>11, <1>12, <1>13, <1>14, <1>15, <1>16

\* Another owner is asked to give the page up.
LEMMA ServeWriteAskStep ==
    ASSUME CohInv, Reliable, IInv', NEW a \in Server, owner # Manager,
         ~owner_asks(a), serv_wr_rq(a) PROVE CohInv'
<1> USE Names DEF CohInv
<1>1. TypeOK
  BY DEF IInv
<1>2. pc[a] \in {"srvInfo"} /\ op[a] = "wr"
  BY DEF serv_wr_rq
<1>3. /\ a \in Call /\ Serving(a) /\ op[a] \in Serve /\ requester(a) = from[a]
      /\ from[a] \in Worker /\ pc[from[a]] = "wait" /\ op[from[a]] = op[a]
      /\ \A b \in Server : Serving(b) => b = a
      /\ \A c \in Call : from[c] = from[a] => c = a
      /\ \A c \in Call : from[c] # Manager
  BY <1>1, <1>2, AtWork DEF Serving, FetchPc, Serve
<1>4. \A b \in Server : ~Revoking(b)
  BY <1>3, <1>2 DEF Revoking, Serving, Serve, FetchPc
<1>5. PICK c \in Call : call(a, "srvFetch", c, owner, "fetch_none", requester(a))
  BY DEF serv_wr_rq, owner_asks
<1>6. /\ a # c /\ pc[c] = "free" /\ pc'[c] = "sent" /\ pc'[a] = "srvFetch"
      /\ \A b \in Thread : b # a /\ b # c => pc'[b] = pc[b]
      /\ op'[c] = "fetch_none"
      /\ \A b \in Thread : b # c => op'[b] = op[b]
      /\ from'[c] = a /\ dst'[c] = owner /\ req'[c] = requester(a)
      /\ \A d \in Call : d # c =>
           from'[d] = from[d] /\ dst'[d] = dst[d] /\ req'[d] = req[d]
  BY <1>1, <1>3, <1>2, <1>5, CallAssumption DEF call, TypeOK, Thread
<1>7. \A d \in Call : from[d] # a
  BY <1>1, <1>3, <1>2 DEF IInv, Callers, Server
<1>8. a \in Call /\ a \notin Node /\ c \notin Node /\ a \in Thread /\ c \in Thread
  BY <1>1, <1>3
<1>9. /\ pc[a] = "srvInfo" /\ pc'[a] = "srvFetch" /\ owner # Manager
      /\ a # c /\ pc[c] = "free" /\ pc'[c] = "sent"
      /\ \A b \in Thread : b # a /\ b # c => pc'[b] = pc[b]
      /\ op'[c] = "fetch_none" /\ from'[c] = a
      /\ \A b \in Thread : b # c => op'[b] = op[b]
      /\ \A d \in Call : d # c => from'[d] = from[d]
      /\ \A d \in Call : d # c => dst'[d] = dst[d]
      /\ \A d \in Call : d # c => req'[d] = req[d]
      /\ \A d \in Call : from[d] # a
      /\ copyset' = copyset \ {from[a]}
      /\ todo'[a] = copyset \ {from[a]} /\ owner # from[a]
      /\ \A b \in Thread : b # a => todo'[b] = todo[b]
      /\ UNCHANGED <<buf, perm, mem, pageLock, owner, latest>>
  BY <1>1, <1>3, <1>2, <1>6, <1>7 DEF serv_wr_rq, owner_asks, ivld_set, TypeOK
<1>10. \A m \in Node : Holder(m)' => Holder(m)
  BY <1>1, <1>3, <1>2, <1>9 DEF Holder
<1>11. \A m \in Worker : Entitled(m)' => Entitled(m)
  BY <1>1, <1>3, <1>2, <1>9 DEF Entitled, CanStore
<1>12. Answered'
  BY <1>1, <1>9, <1>3, <1>2 DEF Answered, requester, ServePc
<1>13. Fetchable'
  BY <1>1, <1>9, <1>3, <1>2 DEF Fetchable, home
<1>14. Alone'
  BY <1>1, <1>10, <1>11, <1>3, <1>2 DEF Alone
<1>15. Covered'
  <2>1. \A b \in Server : b # a => (pc'[b] = pc[b] /\ op'[b] = op[b]) \/ pc'[b] = "sent"
    BY <1>1, <1>9
  <2>2. \A b \in Server : b # a => ~Serving(b)'
    BY <1>3, <2>1 DEF Serving, FetchPc
  <2>3. op'[a] = "wr" /\ pc'[a] \in {"fpProtect", "srvInval", "srvFetch"}
    BY <1>1, <1>3, <1>2, <1>9
  <2>4. Revoking(a)' /\ requester(a)' = from[a] /\ todo'[a] = copyset'
    BY <1>1, <1>3, <1>9, <2>3 DEF Revoking, FetchPc, requester
  <2>5. \A n \in Node : Holder(n)' => n \in copyset \cup {owner}
    BY <1>4, <1>10 DEF Covered
  <2>6. \A n \in Node \ {from[a]} : Holder(n)' => n \in todo'[a] \/ (owner # from[a] /\ n = owner)
    BY <2>5, <1>9
  <2>7. owner # from[a] => ~GivenUp(a)'
    BY <1>1, <1>3, <1>9 DEF GivenUp
  <2>8. \A b \in Server : Revoking(b)' => b = a
    BY <2>2 DEF Revoking, Serving, Serve
  <2>9. \A b \in Server : op'[b] = "rd" => pc'[b] \notin {"srvFetch"} \cup FetchPc
    BY <2>2, <2>3 DEF Serving, Serve
  <2>10. pc'[a] # "srvAck" /\ owner' = owner
    BY <1>9
  <2> QED BY <1>1, <1>3, <2>4, <2>6, <2>7, <2>8, <2>9, <2>10 DEF Covered
<1>16. OwnerHas'
  BY <1>1, <1>9, <1>3, <1>2 DEF OwnerHas, Promised, Revoking, GivenUp, requester,
         FetchPc
<1>17. Faulted'
  BY <1>1, <1>9, <1>3, <1>2 DEF Faulted
<1>18. Current'
  <2>1. \A b \in Node : b # a /\ b # c /\ b \in Thread
    BY <1>1, <1>8
  <2>2. \A b \in Node : pc'[b] = pc[b]
    BY <1>9, <2>1
  <2>3. \A b \in Thread : buf[b] # Empty => b # a /\ b # c /\ Carries(b)
    BY <1>9, <1>8 DEF Current, Carries
  <2>4. \A b \in Thread : buf[b] # Empty => Carries(b)'
    BY <1>9, <2>3 DEF Carries
  <2>5. \A b \in Thread : buf'[b] # Empty => buf'[b] = latest' /\ Carries(b)'
    BY <1>9, <2>4 DEF Current
  <2> QED BY <1>9, <2>2, <2>5 DEF Current
<1>19. EmptyMeansCopy'
  <2>1. \A m \in Worker : pc'[m] = pc[m] /\ op'[m] = op[m] /\ buf'[m] = buf[m]
    BY <1>1, <1>9, <1>8
  <2>2. \A d \in Call : from'[d] \in Worker /\ pc'[d] \in {"srvInval", "srvAck",
         "done"} =>
          from'[d] = from[d] /\ op'[d] = op[d] /\ pc'[d] = pc[d] /\ buf'[d] = buf[d]
    BY <1>1, <1>9, <1>8
  <2> QED BY <1>9, <2>1, <2>2 DEF EmptyMeansCopy
<1> QED BY <1>12, <1>13, <1>14, <1>15, <1>16, <1>17, <1>18, <1>19

\* The requester becomes a reader, and it is in the copyset.
LEMMA ServedReadOwnStep ==
    ASSUME CohInv, Reliable, IInv', NEW a \in Server,
         serv_rd_rq_own(a) PROVE CohInv'
<1> USE Names DEF CohInv
<1>1. TypeOK
  BY DEF IInv
<1>2. pc[a] \in {"fpSet"} /\ op[a] = "rd"
  BY DEF serv_rd_rq_own
<1>3. /\ a \in Call /\ Serving(a) /\ op[a] \in Serve /\ requester(a) = from[a]
      /\ from[a] \in Worker /\ pc[from[a]] = "wait" /\ op[from[a]] = op[a]
      /\ \A b \in Server : Serving(b) => b = a
      /\ \A c \in Call : from[c] = from[a] => c = a
      /\ \A c \in Call : from[c] # Manager
  BY <1>1, <1>2, AtWork DEF Serving, FetchPc, Serve
<1>4. \A b \in Server : ~Revoking(b)
  BY <1>3, <1>2 DEF Revoking, Serving, Serve, FetchPc
<1>5. /\ owner = Manager
      /\ \A b \in Thread : pc[b] \in FetchPc => b = a
  BY <1>1, <1>3, <1>2, OneFetches DEF FetchPc, Worker, Fetch, Serve
<1>6. perm[Manager] # "none"
  BY <1>1, <1>3, <1>2, <1>5, OneFetches DEF Fetchable, FetchPc
<1>7. /\ pc[a] = "fpSet" /\ pc'[a] = "done" /\ perm'[Manager] = "rd"
      /\ \A b \in Thread : b # a => pc'[b] = pc[b]
      /\ \A m \in Node : m # Manager => perm'[m] = perm[m]
      /\ UNCHANGED <<op, buf, todo, from, dst, req, mem, owner, copyset, latest>>
  BY <1>1, <1>3 DEF serv_rd_rq_own, left_access, served, IInv, TypeOK, rpcVars
<1>8. \A m \in Node : Holder(m)' => Holder(m) \/ m = from[a]
  BY <1>1, <1>3, <1>2, <1>6, <1>7 DEF Holder
<1>9. \A m \in Worker : Entitled(m)' => Entitled(m)
  BY <1>1, <1>3, <1>2, <1>7 DEF Entitled, CanStore
<1>10. Answered'
  BY <1>1, <1>7, <1>3, <1>2 DEF Answered, requester, ServePc
<1>11. Fetchable'
  BY <1>1, <1>7, <1>3, <1>5 DEF Fetchable, home, FetchPc
<1>12. Alone'
  BY <1>1, <1>8, <1>9, <1>5 DEF Alone, IInv, Grants, Worker
<1>13. Covered'
  <2>0. \A n \in Node : Holder(n)' => n \in copyset' \cup {owner'}
    BY <1>1, <1>3, <1>2, <1>4, <1>8, <1>7 DEF Covered, FetchPc
  <2>1. \A b \in Server : b # a => ~Serving(b)'
    BY <1>1, <1>3, <1>7 DEF Serving, FetchPc
  <2>2. ~Serving(a)'
    BY <1>3, <1>7 DEF Serving, FetchPc
  <2>3. \A b \in Server : ~Revoking(b)'
    BY <2>1, <2>2 DEF Revoking, Serving, Serve
  <2>4. \A b \in Server : op'[b] = "rd" => pc'[b] \notin {"srvFetch"} \cup FetchPc
    BY <2>1, <2>2 DEF Serving, Serve
  <2>5. \A n \in Node : Holder(n)' => n \in copyset' \cup {owner'}
    BY <2>0
  <2> QED BY <2>3, <2>4, <2>5 DEF Covered
<1>14. OwnerHas'
  BY <1>1, <1>7, <1>5 DEF OwnerHas, Promised, Revoking, GivenUp, requester,
         FetchPc, Worker
<1>15. Faulted'
  BY <1>1, <1>7, <1>3, <1>2 DEF Faulted
<1>16. Current'
  BY <1>1, <1>7, <1>3, <1>2, <1>6 DEF Current, Carries
<1>17. EmptyMeansCopy'
  BY <1>1, <1>7, <1>3, <1>2 DEF EmptyMeansCopy
<1> QED BY <1>10, <1>11, <1>12, <1>13, <1>14, <1>15, <1>16, <1>17

\* The manager gives its own page up.
LEMMA ServedWriteOwnStep ==
    ASSUME CohInv, Reliable, IInv', NEW a \in Server,
         serv_wr_rq_own(a) PROVE CohInv'
<1> USE Names DEF CohInv
<1>1. TypeOK
  BY DEF IInv
<1>2. pc[a] \in {"fpSet"} /\ op[a] = "wr"
  BY DEF serv_wr_rq_own
<1>3. /\ a \in Call /\ Serving(a) /\ op[a] \in Serve /\ requester(a) = from[a]
      /\ from[a] \in Worker /\ pc[from[a]] = "wait" /\ op[from[a]] = op[a]
      /\ \A b \in Server : Serving(b) => b = a
      /\ \A c \in Call : from[c] = from[a] => c = a
      /\ \A c \in Call : from[c] # Manager
  BY <1>1, <1>2, AtWork DEF Serving, FetchPc, Serve
<1>4. /\ owner = Manager
      /\ \A b \in Thread : pc[b] \in FetchPc => b = a
  BY <1>1, <1>3, <1>2, OneFetches DEF FetchPc, Worker, Fetch, Serve
<1>5. perm[Manager] # "none"
  BY <1>1, <1>3, <1>2, <1>4, OneFetches DEF Fetchable, FetchPc
<1>6. buf[a] # Empty
  BY <1>1, <1>2 DEF IInv, Pages, Paged
<1>7. /\ pc[a] = "fpSet" /\ pc'[a] = "srvInval" /\ perm'[Manager] = "none"
      /\ \A b \in Thread : b # a => pc'[b] = pc[b]
      /\ \A m \in Node : m # Manager => perm'[m] = perm[m]
      /\ UNCHANGED <<op, buf, todo, from, dst, req, mem, pageLock, infoLock, owner,
         copyset, latest>>
  BY <1>1, <1>3 DEF serv_wr_rq_own, left_access, IInv, TypeOK, rpcVars, tblVars
<1>8. ~Holder(Manager)'
  BY <1>1, <1>3, <1>7, ManagerRuns DEF Holder
<1>9. \A m \in Node : Holder(m)' => Holder(m)
  BY <1>1, <1>3, <1>2, <1>7 DEF Holder
<1>10. \A m \in Worker : Entitled(m)' => Entitled(m)
  BY <1>1, <1>3, <1>2, <1>7 DEF Entitled, CanStore
<1>11. Answered'
  BY <1>1, <1>7, <1>3, <1>2 DEF Answered, requester, ServePc
<1>12. Fetchable'
  BY <1>1, <1>7, <1>3, <1>4 DEF Fetchable, home, FetchPc
<1>13. Alone'
  BY <1>1, <1>9, <1>10, <1>3, <1>2 DEF Alone
<1>14. Covered'
  BY <1>1, <1>7, <1>9, <1>3, <1>2, <1>8, <1>4 DEF Covered, Revoking, GivenUp,
         requester, FetchPc, Serving, Serve
<1>15. OwnerHas'
  BY <1>1, <1>7, <1>4 DEF OwnerHas, Promised, Revoking, GivenUp, requester,
         FetchPc, Worker
<1>16. Faulted'
  BY <1>1, <1>7, <1>3, <1>2 DEF Faulted
<1>17. Current'
  BY <1>1, <1>7, <1>3, <1>2 DEF Current, Carries
<1>18. EmptyMeansCopy'
  <2>1. \A m \in Worker : pc'[m] = pc[m] /\ perm'[m] = perm[m]
    BY <1>1, <1>3, <1>7
  <2>2. \A d \in Call : buf'[d] = Empty => d # a /\ pc'[d] = pc[d]
    BY <1>1, <1>6, <1>7
  <2>3. UNCHANGED <<op, buf, from, mem, latest>>
    BY <1>7
  <2> QED BY <2>1, <2>2, <2>3 DEF EmptyMeansCopy
<1> QED BY <1>11, <1>12, <1>13, <1>14, <1>15, <1>16, <1>17, <1>18

\* The same with the page that the owner has sent.
LEMMA ServedReadStep ==
    ASSUME CohInv, Reliable, IInv', NEW a \in Server,
         serv_rd_rq_fetched(a) PROVE CohInv'
<1> USE Names DEF CohInv
<1>1. TypeOK
  BY DEF IInv
<1>2. pc[a] \in {"srvFetch"} /\ op[a] = "rd"
  BY DEF serv_rd_rq_fetched
<1>3. /\ a \in Call /\ Serving(a) /\ op[a] \in Serve /\ requester(a) = from[a]
      /\ from[a] \in Worker /\ pc[from[a]] = "wait" /\ op[from[a]] = op[a]
      /\ \A b \in Server : Serving(b) => b = a
      /\ \A c \in Call : from[c] = from[a] => c = a
      /\ \A c \in Call : from[c] # Manager
  BY <1>1, <1>2, AtWork DEF Serving, FetchPc, Serve
<1>4. \A b \in Server : ~Revoking(b)
  BY <1>3, <1>2 DEF Revoking, Serving, Serve, FetchPc
<1>5. served(a) = "done"
  BY <1>1, <1>3 DEF served
<1>6. PICK c \in Call : call_returns(a, served(a),
         c) /\ buf' = [buf EXCEPT ![a] = page_contents(c), ![c] = Empty]
  BY DEF serv_rd_rq_fetched
<1>7. /\ a # c /\ pc[c] = "done" /\ pc'[c] = "free" /\ pc'[a] = "done"
      /\ \A b \in Thread : b # a /\ b # c => pc'[b] = pc[b]
      /\ op'[c] = "rd"
      /\ \A b \in Thread : b # c => op'[b] = op[b]
      /\ from[c] = a /\ from'[c] = NoOne
      /\ \A d \in Call : d # c =>
           from'[d] = from[d] /\ dst'[d] = dst[d] /\ req'[d] = req[d]
  BY <1>1, <1>3, <1>2, <1>6, <1>5 DEF call_returns, hang_up, TypeOK, Thread
<1>8. \A d \in Call : from[d] = a => d = c
  BY <1>1, <1>3, <1>7 DEF IInv, Callers
<1>9. dst[c] = owner /\ owner # Manager /\ op[c] \in Fetch
  BY <1>1, <1>3, <1>2, <1>7 DEF IInv, Grants, Granted, Callers
<1>10. a \in Call /\ a \notin Node /\ c \notin Node /\ a \in Thread /\ c \in Thread
  BY <1>1, <1>3
<1>11. /\ pc[a] = "srvFetch" /\ pc'[a] = "done"
       /\ a # c /\ pc[c] = "done" /\ pc'[c] = "free" /\ from[c] = a /\ from'[c] = NoOne
       /\ \A b \in Thread : b # a /\ b # c => pc'[b] = pc[b]
       /\ op'[c] = "rd"
       /\ \A b \in Thread : b # c => op'[b] = op[b]
       /\ \A d \in Call : d # c => from'[d] = from[d]
       /\ \A d \in Call : d # c => dst'[d] = dst[d]
       /\ \A d \in Call : d # c => req'[d] = req[d]
       /\ \A d \in Call : from[d] = a => d = c
       /\ buf'[a] = buf[c] /\ buf'[c] = Empty
       /\ \A b \in Thread : b # a /\ b # c => buf'[b] = buf[b]
       /\ UNCHANGED <<todo, perm, mem, owner, copyset, latest>>
  BY <1>1, <1>3, <1>2, <1>6, <1>7, <1>8 DEF serv_rd_rq_fetched, page_contents,
         TypeOK
<1>12. \A m \in Worker : ~Entitled(m)
  BY <1>1, <1>3, <1>2, <1>11, <1>9 DEF IInv, Grants, Granted, Read
<1>13. \A m \in Node : Holder(m)' => Holder(m) \/ m = from[a]
  BY <1>1, <1>3, <1>2, <1>11 DEF Holder
<1>14. \A m \in Worker : Entitled(m)' => Entitled(m)
  BY <1>1, <1>3, <1>2, <1>11 DEF Entitled, CanStore
<1>15. Answered'
  BY <1>1, <1>11, <1>3, <1>2 DEF Answered, requester, ServePc
<1>16. Fetchable'
  BY <1>1, <1>11, <1>3, <1>2 DEF Fetchable, home
<1>17. Alone'
  BY <1>1, <1>13, <1>14, <1>12 DEF Alone
<1>18. Covered'
  <2>0. \A n \in Node : Holder(n)' => n \in copyset' \cup {owner'}
    BY <1>1, <1>3, <1>2, <1>4, <1>13, <1>11 DEF Covered
  <2>1. \A b \in Server : b # a => ~Serving(b)'
    BY <1>1, <1>3, <1>11 DEF Serving, FetchPc
  <2>2. ~Serving(a)'
    BY <1>3, <1>11 DEF Serving, FetchPc
  <2>3. \A b \in Server : ~Revoking(b)'
    BY <2>1, <2>2 DEF Revoking, Serving, Serve
  <2>4. \A b \in Server : op'[b] = "rd" => pc'[b] \notin {"srvFetch"} \cup FetchPc
    BY <2>1, <2>2 DEF Serving, Serve
  <2>5. \A n \in Node : Holder(n)' => n \in copyset' \cup {owner'}
    BY <2>0
  <2> QED BY <2>3, <2>4, <2>5 DEF Covered
<1>19. OwnerHas'
  BY <1>1, <1>11, <1>3, <1>2, <1>4 DEF OwnerHas, Promised, Revoking, GivenUp,
         requester, FetchPc
<1>20. Faulted'
  BY <1>1, <1>11, <1>3, <1>2 DEF Faulted
<1>21. Current'
  <2>1. \A b \in Node : b # a /\ b # c /\ b \in Thread
    BY <1>1, <1>10
  <2>2. \A b \in Node : pc'[b] = pc[b]
    BY <1>11, <2>1
  <2>3. \A b \in Thread : b # a /\ buf'[b] # Empty => b # c /\ buf[b] # Empty
    BY <1>11
  <2>4. \A b \in Thread : b # a /\ buf'[b] # Empty => Carries(b)'
    BY <1>11, <2>2, <2>3 DEF Current, Carries
  <2>5. Carries(a)'
    BY <1>3, <1>2, <1>11, <1>10 DEF Carries
  <2>6. \A b \in Thread : buf'[b] # Empty => buf'[b] = latest
    BY <1>1, <1>11, <1>10 DEF Current
  <2>7. UNCHANGED <<perm, mem, owner, latest>>
    BY <1>11
  <2> QED BY <2>2, <2>4, <2>5, <2>6, <2>7 DEF Current
<1>22. EmptyMeansCopy'
  <2>1. \A m \in Worker : pc'[m] = pc[m] /\ op'[m] = op[m] /\ buf'[m] = buf[m]
    BY <1>1, <1>11, <1>10
  <2>2. \A d \in Call : /\ from'[d] \in Worker /\ op'[d] = "wr" /\ buf'[d] = Empty
                        /\ pc'[d] \in {"srvInval", "srvAck", "done"}
          => /\ from'[d] = from[d] /\ op[d] = "wr" /\ buf[d] = Empty
             /\ pc[d] \in {"srvInval", "srvAck", "done"}
    BY <1>1, <1>11, <1>10, <1>3, <1>2
  <2>3. UNCHANGED <<perm, mem, latest>>
    BY <1>11
  <2> QED BY <2>1, <2>2, <2>3 DEF EmptyMeansCopy
<1> QED BY <1>15, <1>16, <1>17, <1>18, <1>19, <1>20, <1>21, <1>22

\* The old owner's page is in the manager's hands.
LEMMA FetchedStep ==
    ASSUME CohInv, Reliable, IInv', NEW a \in Server,
         serv_wr_rq_fetched(a) PROVE CohInv'
<1> USE Names DEF CohInv
<1>1. TypeOK
  BY DEF IInv
<1>2. pc[a] \in {"srvFetch"} /\ op[a] = "wr"
  BY DEF serv_wr_rq_fetched
<1>3. /\ a \in Call /\ Serving(a) /\ op[a] \in Serve /\ requester(a) = from[a]
      /\ from[a] \in Worker /\ pc[from[a]] = "wait" /\ op[from[a]] = op[a]
      /\ \A b \in Server : Serving(b) => b = a
      /\ \A c \in Call : from[c] = from[a] => c = a
      /\ \A c \in Call : from[c] # Manager
  BY <1>1, <1>2, AtWork DEF Serving, FetchPc, Serve
<1>4. PICK c \in Call : call_returns(a, "srvInval",
         c) /\ buf' = [buf EXCEPT ![a] = page_contents(c), ![c] = Empty]
  BY DEF serv_wr_rq_fetched
<1>5. /\ a # c /\ pc[c] = "done" /\ pc'[c] = "free" /\ pc'[a] = "srvInval"
      /\ \A b \in Thread : b # a /\ b # c => pc'[b] = pc[b]
      /\ op'[c] = "rd"
      /\ \A b \in Thread : b # c => op'[b] = op[b]
      /\ from[c] = a /\ from'[c] = NoOne
      /\ \A d \in Call : d # c =>
           from'[d] = from[d] /\ dst'[d] = dst[d] /\ req'[d] = req[d]
  BY <1>1, <1>3, <1>2, <1>4 DEF call_returns, hang_up, TypeOK, Thread
<1>6. \A d \in Call : from[d] = a => d = c
  BY <1>1, <1>3, <1>5 DEF IInv, Callers
<1>7. dst[c] = owner /\ owner # Manager /\ op[c] \in Fetch
  BY <1>1, <1>3, <1>2, <1>5 DEF IInv, Grants, Granted, Callers
<1>8. a \in Call /\ a \notin Node /\ c \notin Node /\ a \in Thread /\ c \in Thread
  BY <1>1, <1>3
<1>9. buf[c] # Empty
  BY <1>1, <1>5, <1>7 DEF IInv, Pages, Paged
<1>10. /\ pc[a] = "srvFetch" /\ pc'[a] = "srvInval"
       /\ a # c /\ pc[c] = "done" /\ pc'[c] = "free" /\ from[c] = a /\ from'[c] = NoOne
       /\ \A b \in Thread : b # a /\ b # c => pc'[b] = pc[b]
       /\ op'[c] = "rd"
       /\ \A b \in Thread : b # c => op'[b] = op[b]
       /\ \A d \in Call : d # c => from'[d] = from[d]
       /\ \A d \in Call : d # c => dst'[d] = dst[d]
       /\ \A d \in Call : d # c => req'[d] = req[d]
       /\ \A d \in Call : from[d] = a => d = c
       /\ buf'[a] = buf[c] /\ buf'[c] = Empty
       /\ \A b \in Thread : b # a /\ b # c => buf'[b] = buf[b]
       /\ UNCHANGED <<todo, perm, mem, pageLock, infoLock, owner, copyset, latest>>
  BY <1>1, <1>3, <1>2, <1>4, <1>5, <1>6 DEF serv_wr_rq_fetched, page_contents,
         TypeOK, tblVars
<1>11. \A m \in Node : Holder(m)' => Holder(m)
  BY <1>1, <1>3, <1>2, <1>10 DEF Holder
<1>12. \A m \in Worker : Entitled(m)' => Entitled(m)
  <2>1. \A m \in Worker : pc'[m] = pc[m] /\ op'[m] = op[m]
    BY <1>1, <1>10, <1>8
  <2>2. \A d \in Call : from'[d] \in Worker /\ pc'[d] = "done" =>
          from'[d] = from[d] /\ op'[d] = op[d] /\ pc'[d] = pc[d]
    BY <1>1, <1>3, <1>10, <1>8
  <2> QED BY <1>10, <2>1, <2>2 DEF Entitled, CanStore
<1>13. Answered'
  BY <1>1, <1>10, <1>3, <1>2 DEF Answered, requester, ServePc
<1>14. Fetchable'
  BY <1>1, <1>10, <1>3, <1>2 DEF Fetchable, home
<1>15. Alone'
  BY <1>1, <1>11, <1>12, <1>3, <1>2 DEF Alone
<1>16. Covered'
  BY <1>1, <1>10, <1>11, <1>3, <1>2 DEF Covered, Revoking, GivenUp, requester,
         FetchPc, Serving, Serve
<1>17. OwnerHas'
  BY <1>1, <1>10, <1>3, <1>2 DEF OwnerHas, Promised, Revoking, GivenUp, requester,
         FetchPc
<1>18. Faulted'
  BY <1>1, <1>10, <1>3, <1>2 DEF Faulted
<1>19. Current'
  <2>1. \A b \in Node : b # a /\ b # c /\ b \in Thread
    BY <1>1, <1>8
  <2>2. \A b \in Node : pc'[b] = pc[b]
    BY <1>10, <2>1
  <2>3. \A b \in Thread : b # a /\ buf'[b] # Empty => b # c /\ buf[b] # Empty
    BY <1>10
  <2>4. \A b \in Thread : b # a /\ buf'[b] # Empty => Carries(b)'
    BY <1>10, <2>2, <2>3 DEF Current, Carries
  <2>5. Carries(a)'
    BY <1>3, <1>2, <1>10, <1>8 DEF Carries
  <2>6. \A b \in Thread : buf'[b] # Empty => buf'[b] = latest
    BY <1>1, <1>10, <1>8 DEF Current
  <2>7. UNCHANGED <<perm, mem, owner, latest>>
    BY <1>10
  <2> QED BY <2>2, <2>4, <2>5, <2>6, <2>7 DEF Current
<1>20. EmptyMeansCopy'
  <2>1. \A m \in Worker : pc'[m] = pc[m] /\ op'[m] = op[m] /\ buf'[m] = buf[m]
    BY <1>1, <1>10, <1>8
  <2>2. \A d \in Call : /\ from'[d] \in Worker /\ op'[d] = "wr" /\ buf'[d] = Empty
                        /\ pc'[d] \in {"srvInval", "srvAck", "done"}
          => /\ from'[d] = from[d] /\ op[d] = "wr" /\ buf[d] = Empty
             /\ pc[d] \in {"srvInval", "srvAck", "done"}
    BY <1>1, <1>10, <1>8, <1>9
  <2>3. UNCHANGED <<perm, mem, latest>>
    BY <1>10
  <2> QED BY <2>1, <2>2, <2>3 DEF EmptyMeansCopy
<1> QED BY <1>13, <1>14, <1>15, <1>16, <1>17, <1>18, <1>19, <1>20

\* An invalidation is sent to the first node on the list.
LEMMA InvalidateAskStep ==
    ASSUME CohInv, Reliable, IInv', NEW a \in Server,
         send_invalidations(a) PROVE CohInv'
<1> USE Names DEF CohInv
<1>1. TypeOK
  BY DEF IInv
<1>2. pc[a] \in {"srvInval"}
  BY <1>1 DEF send_invalidations
<1>3. /\ a \in Call /\ Serving(a) /\ op[a] \in Serve /\ requester(a) = from[a]
      /\ from[a] \in Worker /\ pc[from[a]] = "wait" /\ op[from[a]] = op[a]
      /\ \A b \in Server : Serving(b) => b = a
      /\ \A c \in Call : from[c] = from[a] => c = a
      /\ \A c \in Call : from[c] # Manager
  BY <1>1, <1>2, AtWork DEF Serving, FetchPc, Serve, IInv, Pages, Paged
<1>4. op[a] = "wr"
  BY <1>1, <1>2, <1>3 DEF IInv, Pages, Paged
<1>5. PICK n \in todo[a], c \in Call : call(a, "srvAck", c, n, "inval",
         requester(a))
  BY DEF send_invalidations
<1>6. /\ a # c /\ pc[c] = "free" /\ pc'[c] = "sent" /\ pc'[a] = "srvAck"
      /\ \A b \in Thread : b # a /\ b # c => pc'[b] = pc[b]
      /\ op'[c] = "inval"
      /\ \A b \in Thread : b # c => op'[b] = op[b]
      /\ from'[c] = a /\ dst'[c] = n /\ req'[c] = requester(a)
      /\ \A d \in Call : d # c =>
           from'[d] = from[d] /\ dst'[d] = dst[d] /\ req'[d] = req[d]
  BY <1>1, <1>3, <1>2, <1>5, CallAssumption DEF call, TypeOK, Thread
<1>7. \A d \in Call : from[d] # a
  BY <1>1, <1>3, <1>2 DEF IInv, Callers, Server
<1>8. a \in Call /\ a \notin Node /\ c \notin Node /\ a \in Thread /\ c \in Thread
  BY <1>1, <1>3
<1>9. /\ pc[a] = "srvInval" /\ pc'[a] = "srvAck"
      /\ a # c /\ pc[c] = "free" /\ pc'[c] = "sent"
      /\ \A b \in Thread : b # a /\ b # c => pc'[b] = pc[b]
      /\ op'[c] = "inval" /\ from'[c] = a
      /\ \A b \in Thread : b # c => op'[b] = op[b]
      /\ \A d \in Call : d # c => from'[d] = from[d]
      /\ \A d \in Call : d # c => dst'[d] = dst[d]
      /\ \A d \in Call : d # c => req'[d] = req[d]
      /\ \A d \in Call : from[d] # a
      /\ UNCHANGED <<buf, todo, perm, mem, pageLock, infoLock, owner, copyset,
         latest>>
  BY <1>1, <1>3, <1>2, <1>6, <1>7 DEF send_invalidations, tblVars
<1>10. \A m \in Node : Holder(m)' => Holder(m)
  BY <1>1, <1>3, <1>2, <1>9 DEF Holder
<1>11. \A m \in Worker : Entitled(m)' => Entitled(m)
  BY <1>1, <1>3, <1>2, <1>9 DEF Entitled, CanStore
<1>12. Answered'
  BY <1>1, <1>9, <1>3, <1>2 DEF Answered, requester, ServePc
<1>13. Fetchable'
  BY <1>1, <1>9, <1>3, <1>2 DEF Fetchable, home
<1>14. Alone'
  BY <1>1, <1>10, <1>11, <1>3, <1>2 DEF Alone
<1>15. Covered'
  BY <1>1, <1>9, <1>10, <1>3, <1>2, <1>4 DEF Covered, Revoking, GivenUp, requester,
         FetchPc, Serving, Serve
<1>16. OwnerHas'
  BY <1>1, <1>9, <1>3, <1>2, <1>4 DEF OwnerHas, Promised, Revoking, GivenUp,
         requester, FetchPc
<1>17. Faulted'
  BY <1>1, <1>9, <1>3, <1>2 DEF Faulted
<1>18. Current'
  <2>1. \A b \in Node : b # a /\ b # c /\ b \in Thread
    BY <1>1, <1>8
  <2>2. \A b \in Node : pc'[b] = pc[b]
    BY <1>9, <2>1
  <2>3. buf[c] = Empty /\ pc'[a] \in {"srvInval", "srvAck"}
    BY <1>9, <1>8, <1>1 DEF Current, Carries
  <2>4. \A b \in Thread : buf[b] # Empty /\ b # a => Carries(b)'
    BY <1>9, <2>2, <2>3 DEF Current, Carries
  <2>5. Carries(a)'
    BY <1>8, <2>3 DEF Carries
  <2>6. UNCHANGED <<perm, mem, owner, latest, buf>>
    BY <1>9
  <2> QED BY <2>2, <2>4, <2>5, <2>6 DEF Current
<1>19. EmptyMeansCopy'
  <2>1. \A m \in Worker : pc'[m] = pc[m] /\ op'[m] = op[m] /\ buf'[m] = buf[m]
    BY <1>1, <1>9, <1>8
  <2>2. \A d \in Call : /\ from'[d] \in Worker /\ op'[d] = "wr" /\ buf'[d] = Empty
                        /\ pc'[d] \in {"srvInval", "srvAck", "done"}
          => /\ from'[d] = from[d] /\ op[d] = "wr" /\ buf[d] = Empty
             /\ pc[d] \in {"srvInval", "srvAck", "done"}
    BY <1>1, <1>9, <1>8
  <2>3. UNCHANGED <<perm, mem, latest>>
    BY <1>9
  <2> QED BY <2>1, <2>2, <2>3 DEF EmptyMeansCopy
<1> QED BY <1>12, <1>13, <1>14, <1>15, <1>16, <1>17, <1>18, <1>19

\* The node that has been invalidated is off the list, and has no copy.
LEMMA InvalidatedStep ==
    ASSUME CohInv, Reliable, IInv', NEW a \in Server,
         send_invalidations_ok(a) PROVE CohInv'
<1> USE Names DEF CohInv
<1>1. TypeOK
  BY DEF IInv
<1>2. pc[a] \in {"srvAck"}
  BY <1>1 DEF send_invalidations_ok
<1>3. /\ a \in Call /\ Serving(a) /\ op[a] \in Serve /\ requester(a) = from[a]
      /\ from[a] \in Worker /\ pc[from[a]] = "wait" /\ op[from[a]] = op[a]
      /\ \A b \in Server : Serving(b) => b = a
      /\ \A c \in Call : from[c] = from[a] => c = a
      /\ \A c \in Call : from[c] # Manager
  BY <1>1, <1>2, AtWork DEF Serving, FetchPc, Serve, IInv, Pages, Paged
<1>4. op[a] = "wr"
  BY <1>1, <1>2, <1>3 DEF IInv, Pages, Paged
<1>5. PICK c \in Call : call_returns(a, "srvInval",
         c) /\ todo' = [todo EXCEPT ![a] = ivld_left(a, dst[c])]
  BY DEF send_invalidations_ok
<1>6. /\ a # c /\ pc[c] = "done" /\ pc'[c] = "free" /\ pc'[a] = "srvInval"
      /\ \A b \in Thread : b # a /\ b # c => pc'[b] = pc[b]
      /\ op'[c] = "rd"
      /\ \A b \in Thread : b # c => op'[b] = op[b]
      /\ from[c] = a /\ from'[c] = NoOne
      /\ \A d \in Call : d # c =>
           from'[d] = from[d] /\ dst'[d] = dst[d] /\ req'[d] = req[d]
  BY <1>1, <1>3, <1>2, <1>5 DEF call_returns, hang_up, TypeOK, Thread
<1>7. \A d \in Call : from[d] = a => d = c
  BY <1>1, <1>3, <1>6 DEF IInv, Callers
<1>8. a \in Call /\ a \notin Node /\ c \notin Node /\ a \in Thread /\ c \in Thread
  BY <1>1, <1>3
<1>9. buf[c] = Empty
  BY <1>1, <1>3, <1>2, <1>6, <1>8 DEF Current, Carries, Answered
<1>10. ~Holder(dst[c])
  BY <1>3, <1>2, <1>4, <1>6 DEF Covered, Revoking
<1>11. /\ pc[a] = "srvAck" /\ pc'[a] = "srvInval"
       /\ a # c /\ pc[c] = "done" /\ pc'[c] = "free" /\ from[c] = a /\ from'[c] = NoOne
       /\ \A b \in Thread : b # a /\ b # c => pc'[b] = pc[b]
       /\ op'[c] = "rd"
       /\ \A b \in Thread : b # c => op'[b] = op[b]
       /\ \A d \in Call : d # c => from'[d] = from[d]
       /\ \A d \in Call : d # c => dst'[d] = dst[d]
       /\ \A d \in Call : d # c => req'[d] = req[d]
       /\ \A d \in Call : from[d] = a => d = c
       /\ todo'[a] = todo[a] \ {dst[c]} /\ ~Holder(dst[c])
       /\ \A b \in Thread : b # a => todo'[b] = todo[b]
       /\ UNCHANGED <<buf, perm, mem, pageLock, infoLock, owner, copyset, latest>>
  BY <1>1, <1>3, <1>2, <1>5, <1>6, <1>7, <1>10
     DEF send_invalidations_ok, ivld_left, TypeOK, tblVars
<1>12. \A m \in Node : Holder(m)' => Holder(m)
  BY <1>1, <1>3, <1>2, <1>11 DEF Holder
<1>13. \A m \in Worker : Entitled(m)' => Entitled(m)
  BY <1>1, <1>3, <1>2, <1>11 DEF Entitled, CanStore
<1>14. Answered'
  BY <1>1, <1>11, <1>3, <1>2 DEF Answered, requester, ServePc
<1>15. Fetchable'
  BY <1>1, <1>11, <1>3, <1>2 DEF Fetchable, home
<1>16. Alone'
  BY <1>1, <1>12, <1>13, <1>3, <1>2 DEF Alone
<1>17. Covered'
  BY <1>1, <1>11, <1>12, <1>3, <1>2, <1>4 DEF Covered, Revoking, GivenUp,
         requester, FetchPc, Serving, Serve
<1>18. OwnerHas'
  BY <1>1, <1>11, <1>3, <1>2, <1>4 DEF OwnerHas, Promised, Revoking, GivenUp,
         requester, FetchPc
<1>19. Faulted'
  BY <1>1, <1>11, <1>3, <1>2 DEF Faulted
<1>20. Current'
  <2>1. \A b \in Node : b # a /\ b # c /\ b \in Thread
    BY <1>1, <1>8
  <2>2. \A b \in Node : pc'[b] = pc[b]
    BY <1>11, <2>1
  <2>3. buf[c] = Empty /\ pc'[a] \in {"srvInval", "srvAck"}
    BY <1>11, <1>8, <1>9 DEF Current, Carries
  <2>4. \A b \in Thread : buf[b] # Empty /\ b # a => Carries(b)'
    BY <1>11, <2>2, <2>3 DEF Current, Carries
  <2>5. Carries(a)'
    BY <1>8, <2>3 DEF Carries
  <2>6. UNCHANGED <<perm, mem, owner, latest, buf>>
    BY <1>11
  <2> QED BY <2>2, <2>4, <2>5, <2>6 DEF Current
<1>21. EmptyMeansCopy'
  <2>1. \A m \in Worker : pc'[m] = pc[m] /\ op'[m] = op[m] /\ buf'[m] = buf[m]
    BY <1>1, <1>11, <1>8
  <2>2. \A d \in Call : /\ from'[d] \in Worker /\ op'[d] = "wr" /\ buf'[d] = Empty
                        /\ pc'[d] \in {"srvInval", "srvAck", "done"}
          => /\ from'[d] = from[d] /\ op[d] = "wr" /\ buf[d] = Empty
             /\ pc[d] \in {"srvInval", "srvAck", "done"}
    BY <1>1, <1>11, <1>8
  <2>3. UNCHANGED <<perm, mem, latest>>
    BY <1>11
  <2> QED BY <2>1, <2>2, <2>3 DEF EmptyMeansCopy
<1> QED BY <1>14, <1>15, <1>16, <1>17, <1>18, <1>19, <1>20, <1>21

\* Only the requester has the page when it becomes the owner.
LEMMA GrantStep ==
    ASSUME CohInv, Reliable, IInv', NEW a \in Server,
         serv_wr_rq_grant(a) PROVE CohInv'
<1> USE Names DEF CohInv
<1>1. TypeOK
  BY DEF IInv
<1>2. pc[a] \in {"srvInval"}
  BY <1>1 DEF serv_wr_rq_grant
<1>3. /\ a \in Call /\ Serving(a) /\ op[a] \in Serve /\ requester(a) = from[a]
      /\ from[a] \in Worker /\ pc[from[a]] = "wait" /\ op[from[a]] = op[a]
      /\ \A b \in Server : Serving(b) => b = a
      /\ \A c \in Call : from[c] = from[a] => c = a
      /\ \A c \in Call : from[c] # Manager
  BY <1>1, <1>2, AtWork DEF Serving, FetchPc, Serve, IInv, Pages, Paged
<1>4. op[a] = "wr"
  BY <1>1, <1>2, <1>3 DEF IInv, Pages, Paged
<1>5. /\ pc[a] = "srvInval" /\ pc'[a] = "done" /\ op[a] = "wr" /\ todo[a] = {}
      /\ copyset' = {} /\ owner' = from[a]
      /\ \A b \in Thread : b # a => pc'[b] = pc[b]
      /\ UNCHANGED <<op, buf, todo, from, dst, req, perm, mem, latest>>
  BY <1>1, <1>3, <1>4 DEF serv_wr_rq_grant, served, IInv, TypeOK, rpcVars
<1>6. \A m \in Node : m # from[a] => ~Holder(m)
  BY <1>1, <1>3, <1>5 DEF Covered, Revoking, GivenUp
<1>7. \A m \in Node : Holder(m)' => m = from[a]
  BY <1>1, <1>3, <1>6, <1>5 DEF Holder
<1>8. \A m \in Worker : Entitled(m)' => m = from[a]
  BY <1>5 DEF IInv, Grants
<1>9. Answered'
  BY <1>1, <1>5, <1>3, <1>2 DEF Answered, requester, ServePc, Serving
<1>10. Fetchable'
  BY <1>1, <1>5, <1>3, <1>2 DEF Fetchable, home
<1>11. Alone'
  BY <1>1, <1>7, <1>8, <1>3, <1>2 DEF Alone
<1>12. Covered'
  <2>1. \A b \in Server : b # a => ~Serving(b)'
    BY <1>1, <1>3, <1>5 DEF Serving, FetchPc
  <2>2. ~Serving(a)'
    BY <1>3, <1>5 DEF Serving, FetchPc
  <2>3. \A b \in Server : ~Revoking(b)'
    BY <2>1, <2>2 DEF Revoking, Serving, Serve
  <2>4. \A b \in Server : op'[b] = "rd" => pc'[b] \notin {"srvFetch"} \cup FetchPc
    BY <2>1, <2>2 DEF Serving, Serve
  <2>5. \A n \in Node : Holder(n)' => n \in copyset' \cup {owner'}
    BY <1>7, <1>5
  <2> QED BY <2>3, <2>4, <2>5 DEF Covered
<1>13. OwnerHas'
  BY <1>1, <1>5, <1>3, <1>2 DEF OwnerHas, Promised, Revoking, GivenUp, requester,
         FetchPc
<1>14. Faulted'
  BY <1>1, <1>5, <1>3, <1>2 DEF Faulted
<1>15. Current'
  BY <1>1, <1>5, <1>3, <1>2 DEF Current, Carries
<1>16. EmptyMeansCopy'
  BY <1>1, <1>5, <1>3, <1>2 DEF EmptyMeansCopy
<1> QED BY <1>9, <1>10, <1>11, <1>12, <1>13, <1>14, <1>15, <1>16
-----------------------------------------------------------------------------
(***************************************************************************)
(* Every step, and the theorems.                                           *)
(***************************************************************************)

\* On a reliable network no call fails, and no thread is killed or orphaned.
LEMMA NothingFails ==
    ASSUME CohInv, Reliable
    PROVE  /\ \A a \in Thread, next \in Pc, c \in Call : ~call_fails(a, next, c)
           /\ \A n \in Node : ~killed_by_signal(n)
           /\ \A c \in Call : ~discard_reply(c)
<1> USE Names DEF CohInv
<1>1. TypeOK
  BY DEF IInv
<1>2. \A a \in Thread, next \in Pc, c \in Call : ~call_fails(a, next, c)
  BY <1>1 DEF call_fails, Up, Answered, Reliable
<1>3. \A n \in Node : ~killed_by_signal(n)
  BY <1>1, ManagerRuns DEF killed_by_signal, IInv, OpenCopy
<1>4. \A c \in Call : ~discard_reply(c)
  BY DEF discard_reply, Answered
<1> QED BY <1>2, <1>3, <1>4

\* A step in which nothing happens preserves the invariant.
LEMMA CohStutters == ASSUME CohInv, UNCHANGED vars, IInv' PROVE CohInv'
<1> USE DEF CohInv, vars
<1>1. Answered' /\ Fetchable' /\ Faulted'
  BY DEF Answered, Fetchable, Faulted, requester, home
<1>2. Covered'
  BY DEF Covered, Revoking, GivenUp, Holder, requester
<1>3. Alone'
  BY DEF Alone, Entitled, CanStore, Holder
<1>4. OwnerHas'
  BY DEF OwnerHas, Promised, Revoking, GivenUp, requester
<1>5. Current' /\ EmptyMeansCopy'
  BY DEF Current, Carries, EmptyMeansCopy
<1> QED BY <1>1, <1>2, <1>3, <1>4, <1>5

\* Every step preserves the invariant.
LEMMA CohInvStep == ASSUME CohInv, Reliable, [Next]_vars PROVE CohInv'
<1>1. IInv'
  BY IInvStep DEF CohInv
<1>2. TypeOK
  BY DEF CohInv, IInv
<1>3. /\ \A a \in Thread, next \in Pc, c \in Call : ~call_fails(a, next, c)
      /\ \A n \in Node : ~killed_by_signal(n)
      /\ \A c \in Call : ~discard_reply(c)
  BY NothingFails
<1>4. {"lock", "srvLock", "srvInval"} \subseteq Pc
  BY DEF Pc, AppPc, ServePc
<1>5. ASSUME NEW n \in Node, Load(n) \/ Store(n) \/ sigaction_hdlr(n) \/ HandlerStep(n)
      PROVE  CohInv'
  <2>1. n \in Worker
    BY <1>2, <1>3, <1>5, Names, ManagerRuns
    DEF Load, Store, sigaction_hdlr, Accesses, Reliable, HandlerStep, rd_fault_hdlr,
        wr_fault_hdlr, ask_manager, fault_hdlr_reply, fault_hdlr_backoff, open_page,
        get_rd_page_copy, get_rd_page_protect, get_wr_page_copy
  <2>2. ~fault_hdlr_backoff(n)
    BY <1>2, <1>3, <1>4, Names DEF fault_hdlr_backoff
  <2>3. CASE rd_fault_hdlr(n) \/ wr_fault_hdlr(n)
    BY <1>1, <2>1, <2>3, AskStep DEF rd_fault_hdlr, wr_fault_hdlr, Serve
  <2> QED
    BY <1>1, <1>3, <1>5, <2>1, <2>2, <2>3, LoadStep, StoreStep, FaultStep, ReplyStep,
       OpenStep, ReadCopyStep, ReadProtectStep, WriteCopyStep DEF HandlerStep
<1>6. ASSUME NEW c \in Call, CallStep(c) PROVE CohInv'
  BY <1>1, <1>3, <1>6, FetchLockStep, FetchAnswerStep, InvalidateStep DEF CallStep
<1>7. ASSUME NEW a \in Server, ServerStep(a) PROVE CohInv'
  <2>1. /\ ~serv_rd_rq_call_failed(a) /\ ~serv_wr_rq_call_failed(a)
        /\ ~send_invalidations_failed(a)
    BY <1>2, <1>3, <1>4, Names
    DEF serv_rd_rq_call_failed, serv_wr_rq_call_failed, serv_rq_call_failed, retried,
        send_invalidations_failed
  <2>2. CASE serv_rd_rq_lock(a) \/ serv_wr_rq_lock(a)
    BY <1>1, <2>2, ServeLockStep DEF serv_rd_rq_lock, serv_wr_rq_lock, Serve
  <2>3. CASE serv_rd_rq(a)
    BY <1>1, <2>3, ServeReadStep, ServeReadAskStep
  <2>4. CASE serv_wr_rq(a)
    BY <1>1, <2>4, ServeWriteStep, ServeWriteHolderStep, ServeWriteAskStep
  <2> QED
    BY <1>1, <1>7, <2>1, <2>2, <2>3, <2>4, FetchProtectStep, ReadPageStep,
       ServedReadOwnStep, ServedWriteOwnStep, ServedReadStep, FetchedStep,
       InvalidateAskStep, InvalidatedStep, GrantStep DEF ServerStep
<1>8. CASE UNCHANGED vars
  BY <1>1, <1>8, CohStutters
<1> QED BY <1>5, <1>6, <1>7, <1>8 DEF Next

\* It holds at the start: nobody has access and the manager's copy is current.
LEMMA CohInvInit == Init => CohInv
<1> SUFFICES ASSUME Init PROVE CohInv
  OBVIOUS
<1>1. IInv
  BY IInvInit
<1>2. TypeOK
  BY <1>1 DEF IInv
<1>3. /\ \A n \in Node : pc[n] = "run" /\ perm[n] = "none" /\ mem[n] = latest
      /\ \A c \in Call : pc[c] = "free" /\ from[c] = NoOne
      /\ \A a \in Thread : op[a] = "rd" /\ buf[a] = Empty
      /\ owner = Manager
  BY <1>2, Names DEF Init
<1>4. \A n \in Node : ~Holder(n)
  BY <1>2, <1>3, Names DEF Holder
<1>5. \A a \in Thread : pc[a] \in {"run", "free"}
  BY <1>3 DEF Thread
<1>6. Answered /\ Fetchable /\ Faulted
  BY <1>2, <1>3, <1>5, Names DEF Answered, Fetchable, Faulted, ServePc
<1>7. Covered /\ Alone /\ OwnerHas
  <2>1. Alone /\ OwnerHas
    BY <1>2, <1>3, <1>4, Names DEF Alone, OwnerHas, Worker
  <2>2. Covered
    BY <1>2, <1>3, <1>4, <1>5, Names DEF Covered, Revoking, FetchPc
  <2> QED BY <2>1, <2>2
<1>8. Current /\ EmptyMeansCopy
  BY <1>2, <1>3, <1>5, Names DEF Current, EmptyMeansCopy
<1> QED BY <1>1, <1>6, <1>7, <1>8 DEF CohInv

\* The invariant behind coherence holds in every reachable state of a cluster of
\* any size on a reliable network, when the manager's program leaves the page alone.
THEOREM CoherentInvariance == Reliable /\ Spec => []CohInv
<1>1. CASE Reliable
  <2>1. CohInv /\ [Next]_vars => CohInv'
    BY <1>1, CohInvStep
  <2> QED BY <2>1, CohInvInit, PTL DEF Spec
<1>2. CASE ~Reliable
  BY <1>2
<1> QED BY <1>1, <1>2

\* Who can store is a worker, which is alone with the page.
LEMMA ExclusionFollows == Reliable /\ CohInv => ReadersXorWriter
<1> SUFFICES ASSUME Reliable, CohInv, NEW m \in Node, NEW n \in Node, CanStore(m),
                    CanLoad(n), m # n
             PROVE  FALSE
  BY DEF ReadersXorWriter
<1>1. m \in Worker
  BY ManagerRuns DEF CohInv, IInv, Reader, CanStore, Worker, Reliable
<1>2. ~Holder(n)
  BY <1>1 DEF CohInv, Alone, Entitled
<1> QED BY <1>2 DEF Holder, CanLoad

\* The paper's claim: one or more readers, or exactly one writer.  Unlike the
\* writers' half (OneWriter) it needs every invalidation to arrive.
THEOREM ReadersExcludeWriter == Reliable /\ Spec => []ReadersXorWriter
<1>1. CASE Reliable
  <2>1. CohInv => ReadersXorWriter
    BY <1>1, ExclusionFollows
  <2> QED BY <1>1, <2>1, CoherentInvariance, PTL
<1>2. CASE ~Reliable
  BY <1>2
<1> QED BY <1>1, <1>2

\* What a program can load is readable and not being copied in.
LEMMA LatestFollows == CohInv => LoadsLatest
  BY DEF CohInv, Current, LoadsLatest, CanLoad

\* What a program can load is what was stored last, by whichever program: no
\* answer is stale when it is copied in, and no copy survives a write.
THEOREM LoadsAreCurrent == Reliable /\ Spec => []LoadsLatest
  BY CoherentInvariance, LatestFollows, PTL

\* The manager's table knows every copy, whenever no write request is past the
\* point where it took the copyset.
THEOREM TableKnowsCopies == Reliable /\ Spec => []CopiesKnown
<1>1. Reliable /\ CohInv => CopiesKnown
  <2> SUFFICES ASSUME Reliable, CohInv, NEW n \in Node, perm[n] # "none",
                      n \notin copyset \cup {owner}
               PROVE  \E a \in Server : pageLock[Manager] = a /\ n = requester(a)
    BY DEF CopiesKnown
  <2>1. PICK a \in Server : Revoking(a)
    BY DEF CohInv, Covered, Holder
  <2>2. Serving(a)
    BY <2>1 DEF Revoking, Serving, Serve
  <2>3. n = requester(a)
    BY <2>1 DEF CohInv, Covered, Holder
  <2> QED BY <2>2, <2>3, OneServes
<1>2. CASE Reliable
  <2>1. CohInv => CopiesKnown
    BY <1>1, <1>2
  <2> QED BY <1>2, <2>1, CoherentInvariance, PTL
<1>3. CASE ~Reliable
  BY <1>3
<1> QED BY <1>2, <1>3

\* When serv_wr_rq hands the page over, send_invalidations has really left every
\* other node without access.
THEOREM GrantsAreExclusive == Reliable /\ Spec => []GrantIsExclusive
<1>1. CohInv => GrantIsExclusive
  <2> SUFFICES ASSUME CohInv, NEW a \in Server, pc[a] = "srvInval", todo[a] = {},
                      NEW n \in Node \ {requester(a)}
               PROVE  perm[n] = "none"
    BY DEF GrantIsExclusive
  <2>1. Revoking(a) /\ GivenUp(a)
    BY ThreadSplit DEF CohInv, IInv, Pages, Paged, Revoking, GivenUp
  <2> QED BY <2>1 DEF CohInv, Covered, Holder
<1> QED BY <1>1, CoherentInvariance, PTL

\* The comment in get_wr_page_from_mngr: an empty answer to a write request means
\* that the node has the current contents already.
THEOREM EmptyAnswersMeanCopies == Reliable /\ Spec => []EmptyAnswerMeansCopy
<1>1. Reliable /\ CohInv => EmptyAnswerMeansCopy
  <2> SUFFICES ASSUME Reliable, CohInv, NEW n \in Node, pc[n] = "protect",
                      op[n] = "wr", buf[n] = Empty
               PROVE  perm[n] = "rd" /\ mem[n] = latest
    BY DEF EmptyAnswerMeansCopy
  <2>1. n \in Worker
    BY ManagerRuns DEF Worker
  <2>2. perm[n] = "rd"
    BY <2>1 DEF CohInv, EmptyMeansCopy
  <2> QED BY <2>2 DEF CohInv, Current
<1>2. CASE Reliable
  <2>1. CohInv => EmptyAnswerMeansCopy
    BY <1>1, <1>2
  <2> QED BY <1>2, <2>1, CoherentInvariance, PTL
<1>3. CASE ~Reliable
  BY <1>3
<1> QED BY <1>2, <1>3
=============================================================================

----------------------------- MODULE IvyPageInv -----------------------------
(***************************************************************************)
(* The inductive invariant behind the theorems about IvyPage: why no two   *)
(* workers can store to the page, whatever the network and the manager's   *)
(* own program do.  Each part is a property of the code that the next one  *)
(* rests on.                                                               *)
(***************************************************************************)
EXTENDS IvyPage

Worker == Node \ {Manager}
Fetch == {"fetch_rd", "fetch_none"}
Serve == {"rd", "wr"}

(***************************************************************************)
(* Calls and their callers.                                                *)
(***************************************************************************)

\* RPCs block: a thread waits for one call at most, it stands where that call
\* was made, and a call knows on whose behalf it was made.  Requests for the
\* page are addressed to the manager.
Callers ==
    /\ \A c, d \in Call : from[c] # NoOne /\ from[c] = from[d] => c = d
    /\ \A c \in Call : from[c] \in Server =>
         \/ pc[from[c]] = "srvFetch" /\ op[c] \in Fetch
         \/ pc[from[c]] = "srvAck"
    /\ \A c \in Call : from[c] \in Worker =>
         pc[from[c]] = "wait" /\ op[c] = op[from[c]] /\ req[c] = from[c]
    /\ \A c \in Call : op[c] \in Serve => dst[c] = Manager

(***************************************************************************)
(* The page in transit.                                                    *)
(***************************************************************************)

\* Thread a has the contents it is to hand over or to copy.  Only a write
\* request reaches the invalidations, and no invalidation reads a page.
Paged(a) ==
    /\ pc[a] = "fpSet" => buf[a] # Empty
    /\ a \in Call /\ pc[a] = "done" /\ op[a] \in Fetch \cup {"rd"} => buf[a] # Empty
    /\ a \in Node /\ pc[a] \in {"protect", "copy"} /\ op[a] = "rd" => buf[a] # Empty
    /\ pc[a] \in {"srvInval", "srvAck"} => op[a] = "wr"
    /\ pc[a] \in FetchPc => op[a] # "inval"

Pages == \A a \in Thread : Paged(a)

(***************************************************************************)
(* Critical sections.                                                      *)
(***************************************************************************)

\* Thread a is in the locked part of serv_rd_rq or serv_wr_rq.
Serving(a) ==
    \/ pc[a] \in {"srvInfo", "srvFetch", "srvInval", "srvAck"}
    \/ pc[a] \in FetchPc /\ op[a] \in Serve

\* Thread a is in a section of the code that node n's page lock protects.
Holds(a, n) ==
    \/ a = n /\ n \in Worker /\ pc[a] \in {"wait", "protect", "copy", "settle"}
    \/ a \in Call /\ n = dst[a] /\ pc[a] \in FetchPc /\ op[a] \in Fetch
    \/ a \in Server /\ n = Manager /\ Serving(a)

\* Whoever is in such a section is the holder: there is one at a time.
Locked == \A a \in Thread, n \in Node : Holds(a, n) => pageLock[n] = a

\* A worker that is to copy a page in finds it writable: whoever would protect
\* it meanwhile waits for the page lock.
OpenCopy == \A n \in Worker : pc[n] = "copy" => perm[n] = "rw"

(***************************************************************************)
(* The right to store.                                                     *)
(***************************************************************************)

\* Node n's program can store, or has an answer that will let it.
Entitled(n) ==
    \/ CanStore(n)
    \/ pc[n] \in {"protect", "copy"} /\ op[n] = "wr"
    \/ \E c \in Call : from[c] = n /\ op[c] = "wr" /\ pc[c] = "done"

\* A call of fetch_pg has restricted the owner's page.
Read == {"fpRead", "fpSet", "done"}

\* What a request being served has achieved.  The owner is the node fetch_pg
\* was sent to; it may store no more once it has been reached; and when the
\* copies are being invalidated, no worker but the requester may store.
Granted(a) ==
    /\ pc[a] \in FetchPc /\ op[a] \in Serve => owner = Manager
    /\ pc[a] = "srvFetch" =>
         \A c \in Call : from[c] = a =>
             /\ dst[c] = owner /\ owner # Manager
             /\ pc[c] \in Read => \A n \in Worker : n = owner => ~Entitled(n)
    /\ pc[a] \in {"srvInval", "srvAck"} =>
         \A n \in Worker : n # requester(a) => ~Entitled(n)

\* Only the owner of the page may store to it.
Grants ==
    /\ \A n \in Worker : Entitled(n) => owner = n
    /\ \A a \in Server : Granted(a)

\* A manager whose program does not store never has its page writable outside
\* of its fault handler.
Reader ==
    Manager \notin Storer =>
        /\ op[Manager] = "rd"
        /\ perm[Manager] = "rw" => pc[Manager] \in {"copy", "settle", "killed"}

\* A manager whose program does not use the page never faults.
Idler == Manager \notin Loader \cup Storer => pc[Manager] = "run"

\* The inductive invariant.  It holds with any network, and whatever the
\* manager's own program does.
IInv ==
    /\ TypeOK /\ Callers /\ Pages /\ Locked /\ OpenCopy /\ Grants
    /\ Reader /\ Idler

(***************************************************************************)
(* Locks are released, and pages stay readable while they are read.  This  *)
(* holds on any network, as long as the manager's program does not use the *)
(* page: no process is then killed with locks held.                        *)
(***************************************************************************)

\* A page lock that is taken is held by a thread in a section that it protects.
Occupied == \A a \in Thread, n \in Node : pageLock[n] = a => Holds(a, n)

\* The info lock is held by the thread that serves, once it has looked at the table.
Noted ==
    \A a \in Server : infoLock = a <=> Serving(a) /\ pc[a] # "srvInfo"

\* A manager that makes no requests is not asked to fetch or invalidate either.
Addressed ==
    /\ Manager \notin copyset
    /\ \A a \in Thread : Manager \notin todo[a]
    /\ \A c \in Call : pc[c] # "free" =>
         IF op[c] \in Serve THEN req[c] # Manager ELSE dst[c] # Manager

\* The page that is being fetched can be read until its protection is set.
Fetchable ==
    \A a \in Thread : pc[a] \in {"fpRead", "fpSet"} => perm[home(a)] # "none"

\* The inductive invariant of the lock discipline: IInv says that who is in a section
\* has its lock, this that a lock is taken by nobody else, on every return path.
LockInv == IInv /\ Occupied /\ Noted /\ Addressed /\ Fetchable
=============================================================================

------------------------------ MODULE IvyPage ------------------------------
(***************************************************************************)
(* The life of one shared page under libivy (src/libivy/libivy.cc).        *)
(*                                                                         *)
(* Every lock and every table entry of the code is kept per page address,  *)
(* so one page is modelled.  Each node runs one program thread; a SIGSEGV  *)
(* turns that thread into a fault handler, which asks the manager (node 0  *)
(* in every shipped config, and the literal 0 in every RPC the code makes) *)
(* for the page.  The manager serves requests on server threads, one per   *)
(* RPC, or on its own program thread when it faults itself, and makes      *)
(* nested RPCs (fetch_pg, invalidate_pg) while it holds its page lock.     *)
(*                                                                         *)
(* Left out: info[addr].access (written by both fault handlers, read       *)
(* nowhere), logging, the hex encoding of a page (a page is one value).    *)
(***************************************************************************)
EXTENDS Naturals, FiniteSets

CONSTANTS
    Node,           \* node ids: indices into the "nodes" array of the config
    Loader,         \* nodes whose program loads from the page
    Storer,         \* nodes whose program stores to the page
    Call,           \* identities of RPC calls in flight
    Data,           \* contents a page can have
    ZeroPage,       \* the contents mmap gives it
    Empty,          \* the empty string: a reply that carries no page
    NoOne,          \* no lock holder, no caller
    CallsMayFail,   \* whether RpcServer::call may return "RPC failed"
    MaxOrphans      \* bound: calls still executing after their caller gave up

ASSUME NodeAssumption == Node \subseteq Nat /\ 0 \in Node
ASSUME UserAssumption == Loader \subseteq Node /\ Storer \subseteq Node
ASSUME CallAssumption == Call \cap Node = {} /\ NoOne \notin Call \cup Node
ASSUME DataAssumption == ZeroPage \in Data /\ Empty \notin Data
ASSUME FailAssumption == CallsMayFail \in BOOLEAN /\ MaxOrphans \in Nat

VARIABLES
    pc,        \* pc[a]: where thread a stands
    op,        \* op[n]: access node n's program is making; op[c]: RPC called
    buf,       \* buf[a]: mem_str / page_contents held by thread a
    todo,      \* todo[a]: ivld_set of a request being served, what is left
    from,      \* from[c]: the thread waiting for call c
    dst,       \* dst[c]: the node that executes call c
    req,       \* req[c]: req_node, the node a request is made for
    perm,      \* perm[n]: protection of the page in node n's address space
    mem,       \* mem[n]: contents of the page in node n's memory
    pageLock,  \* pageLock[n]: holder of node n's pg_tbl->page_locks[addr]
    infoLock,  \* holder of the manager's pg_tbl->info_locks[addr]
    owner,     \* the manager's pg_tbl->info[addr].owner
    copyset,   \* the manager's pg_tbl->info[addr].copyset
    latest     \* history variable: contents after the last store of a program

rpcVars == <<from, dst, req>>
tblVars == <<infoLock, owner, copyset>>
vars == <<pc, op, buf, todo, from, dst, req, perm, mem, pageLock, infoLock,
          owner, copyset, latest>>

-----------------------------------------------------------------------------
(***************************************************************************)
(* Threads.  A program thread is named by its node, a server thread by the *)
(* call it executes.  Requests are served by a call, or by the manager's   *)
(* program thread when the manager itself faults.                          *)
(***************************************************************************)
Manager == 0
Thread == Node \cup Call
Server == Call \cup {Manager}

requester(a) == IF a \in Node THEN a ELSE req[a]
home(a) == IF a \in Node THEN a ELSE dst[a]

\* Where a thread can stand: on its program and in the fault handlers (AppPc),
\* in serv_rd_rq and serv_wr_rq (ServePc), in fetch_pg (FetchPc), in a call.
AppPc == {"run", "retry", "lock", "wait", "protect", "copy", "settle", "killed"}
ServePc == {"srvLock", "srvInfo", "srvFetch", "srvInval", "srvAck"}
FetchPc == {"fpProtect", "fpRead", "fpSet"}
CallPc == {"free", "sent", "done", "killed"}
Pc == AppPc \cup ServePc \cup FetchPc \cup CallPc
Op == {"rd", "wr", "fetch_rd", "fetch_none", "inval"}
Perm == {"none", "rd", "rw"}

\* The process of node n has not been killed by a signal.
Up(n) == pc[n] # "killed"

Init ==
    /\ pc = [a \in Thread |-> IF a \in Node THEN "run" ELSE "free"]
    /\ op = [a \in Thread |-> "rd"]
    /\ buf = [a \in Thread |-> Empty]
    /\ todo = [a \in Thread |-> {}]
    /\ from = [c \in Call |-> NoOne]
    /\ dst = [c \in Call |-> Manager]
    /\ req = [c \in Call |-> Manager]
    /\ perm = [n \in Node |-> "none"]
    /\ mem = [n \in Node |-> ZeroPage]
    /\ pageLock = [n \in Node |-> NoOne]
    /\ infoLock = NoOne
    /\ owner = Manager
    /\ copyset = {}
    /\ latest = ZeroPage

\* MUTANT of wait_lock: the lock is taken whoever holds it.
wait_lock_unchecked(n, a) == pageLock' = [pageLock EXCEPT ![n] = a]

\* Thread a polls node n's page lock until it gets it.
wait_lock(n, a) ==
    /\ pageLock[n] = NoOne
    /\ pageLock' = [pageLock EXCEPT ![n] = a]

-----------------------------------------------------------------------------
(***************************************************************************)
(* RPC.  A call is blocking: its caller waits for it and for nothing else. *)
(* It fails when the connection cannot be made, when it breaks, or when no *)
(* answer arrives within the client's read timeout; what the callee does   *)
(* is then out of the caller's hands.                                      *)
(***************************************************************************)

\* Thread a calls fn on node n on behalf of node who and goes to next.
call(a, next, c, n, fn, who) ==
    /\ pc[c] = "free"
    /\ pc' = [pc EXCEPT ![a] = next, ![c] = "sent"]
    /\ op' = [op EXCEPT ![c] = fn]
    /\ from' = [from EXCEPT ![c] = a]
    /\ dst' = [dst EXCEPT ![c] = n]
    /\ req' = [req EXCEPT ![c] = who]

\* Forget call c; thread a (c itself when nobody waits) goes to next.
hang_up(a, next, c) ==
    /\ pc' = [pc EXCEPT ![a] = next, ![c] = "free"]
    /\ op' = [op EXCEPT ![c] = "rd"]
    /\ from' = [from EXCEPT ![c] = NoOne]
    /\ dst' = [dst EXCEPT ![c] = Manager]
    /\ req' = [req EXCEPT ![c] = Manager]

\* Thread a receives the answer of its call c.
call_returns(a, next, c) ==
    /\ from[c] = a
    /\ pc[c] = "done"
    /\ hang_up(a, next, c)

Orphans == {c \in Call : from[c] = NoOne /\ pc[c] # "free"}

\* The call of thread a returns "RPC failed".  Either it was never executed,
\* or its answer is lost, or it is executed (still, or later) for nobody.
\* A call to a process that was killed fails on any network.
call_fails(a, next, c) ==
    /\ from[c] = a
    /\ \/ /\ CallsMayFail \/ ~Up(dst[c])
          /\ pc[c] \in {"sent", "done", "killed"}
          /\ hang_up(a, next, c)
          /\ buf' = [buf EXCEPT ![c] = Empty]
       \/ /\ CallsMayFail /\ Up(dst[c])
          /\ pc[c] # "done"
          /\ Cardinality(Orphans) < MaxOrphans
          /\ pc' = [pc EXCEPT ![a] = next]
          /\ from' = [from EXCEPT ![c] = NoOne]
          /\ UNCHANGED <<op, buf, dst, req>>

\* The server finds that nobody waits for the answer of call c any more.
discard_reply(c) ==
    /\ pc[c] \in {"done", "killed"}
    /\ from[c] = NoOne
    /\ hang_up(c, "free", c)
    /\ buf' = [buf EXCEPT ![c] = Empty]
    /\ UNCHANGED <<todo, perm, mem, pageLock, tblVars, latest>>

-----------------------------------------------------------------------------
(***************************************************************************)
(* The program and its fault handlers, on the program thread of node n.    *)
(***************************************************************************)
CanLoad(n) == pc[n] \in {"run", "retry"} /\ perm[n] # "none"
CanStore(n) == pc[n] \in {"run", "retry"} /\ perm[n] = "rw"

\* The program is at an access of kind o: a new one, or, when the signal
\* handler has returned, the one that faulted.
Accesses(n, o) ==
    /\ n \in IF o = "rd" THEN Loader ELSE Storer
    /\ \/ pc[n] = "run"
       \/ pc[n] = "retry" /\ op[n] = o

Load(n) ==
    /\ Accesses(n, "rd")
    /\ CanLoad(n)
    /\ pc' = [pc EXCEPT ![n] = "run"]
    /\ op' = [op EXCEPT ![n] = "rd"]
    /\ UNCHANGED <<buf, todo, rpcVars, perm, mem, pageLock, tblVars, latest>>

Store(n) ==
    /\ Accesses(n, "wr")
    /\ CanStore(n)
    /\ \E v \in Data :
         /\ mem' = [mem EXCEPT ![n] = v]
         /\ latest' = v
    /\ pc' = [pc EXCEPT ![n] = "run"]
    /\ op' = [op EXCEPT ![n] = "rd"]
    /\ UNCHANGED <<buf, todo, rpcVars, perm, pageLock, tblVars>>

\* The kernel raises SIGSEGV; the handler tells a write from a read fault.
\* The manager serves its own request in place, without its page lock.
sigaction_hdlr(n) ==
    /\ \E o \in {"rd", "wr"} :
         /\ Accesses(n, o)
         /\ IF o = "rd" THEN ~CanLoad(n) ELSE ~CanStore(n)
         /\ op' = [op EXCEPT ![n] = o]
    /\ pc' = [pc EXCEPT ![n] = IF n = Manager THEN "srvLock" ELSE "lock"]
    /\ UNCHANGED <<buf, todo, rpcVars, perm, mem, pageLock, tblVars, latest>>

\* Take this node's page lock and call the manager with it held.
ask_manager(n, fn) ==
    /\ pc[n] = "lock"
    /\ op[n] = fn
    /\ wait_lock(n, n)
    /\ \E c \in Call : call(n, "wait", c, Manager, fn, n)
    /\ UNCHANGED <<buf, todo, perm, mem, tblVars, latest>>

rd_fault_hdlr(n) == ask_manager(n, "rd")
wr_fault_hdlr(n) == ask_manager(n, "wr")

\* The manager's answer arrives.
fault_hdlr_reply(n) ==
    /\ pc[n] = "wait"
    /\ \E c \in Call :
         /\ call_returns(n, "protect", c)
         /\ buf' = [buf EXCEPT ![n] = buf[c], ![c] = Empty]
    /\ UNCHANGED <<todo, perm, mem, pageLock, tblVars, latest>>

\* The call failed: release the page lock, sleep, start again.
fault_hdlr_backoff(n) ==
    /\ pc[n] = "wait"
    /\ \E c \in Call : call_fails(n, "lock", c)
    /\ pageLock' = [pageLock EXCEPT ![n] = NoOne]
    /\ UNCHANGED <<todo, perm, mem, tblVars, latest>>

\* Make the page writable to this process, so that it can be filled.
open_page(n) ==
    /\ pc[n] = "protect"
    /\ perm' = [perm EXCEPT ![n] = "rw"]
    /\ pc' = [pc EXCEPT ![n] = "copy"]
    /\ UNCHANGED <<op, buf, todo, rpcVars, mem, pageLock, tblVars, latest>>

\* MUTANT of hdlr_unlock: the handler returns with its page locked.
hdlr_keeps_lock(n) == pageLock' = pageLock

\* The page lock of a fault handler that has finished: the manager holds none.
hdlr_unlock(n) ==
    pageLock' = IF n = Manager THEN pageLock
                ELSE [pageLock EXCEPT ![n] = NoOne]

\* Copy the page in; it stays writable until get_rd_page_protect.
get_rd_page_copy(n) ==
    /\ pc[n] = "copy"
    /\ op[n] = "rd"
    /\ perm[n] = "rw"
    /\ mem' = [mem EXCEPT ![n] = buf[n]]
    /\ pc' = [pc EXCEPT ![n] = "settle"]
    /\ buf' = [buf EXCEPT ![n] = Empty]
    /\ UNCHANGED <<op, todo, rpcVars, perm, pageLock, tblVars, latest>>

\* Restrict the page to reads, unlock and return to the program.
get_rd_page_protect(n) ==
    /\ pc[n] = "settle"
    /\ perm' = [perm EXCEPT ![n] = "rd"]
    /\ pc' = [pc EXCEPT ![n] = "retry"]
    /\ hdlr_unlock(n)
    /\ UNCHANGED <<op, buf, todo, rpcVars, mem, tblVars, latest>>

\* MUTANT of received: the contents of a write answer are not copied.
received_ignored(n) == mem[n]

\* The page after a write grant: an empty answer means it is here already.
received(n) == IF buf[n] = Empty THEN mem[n] ELSE buf[n]

\* Copy the page in unless the answer is empty, unlock and return.
get_wr_page_copy(n) ==
    /\ pc[n] = "copy"
    /\ op[n] = "wr"
    /\ buf[n] # Empty => perm[n] = "rw"
    /\ mem' = [mem EXCEPT ![n] = received(n)]
    /\ pc' = [pc EXCEPT ![n] = "retry"]
    /\ buf' = [buf EXCEPT ![n] = Empty]
    /\ hdlr_unlock(n)
    /\ UNCHANGED <<op, todo, rpcVars, perm, tblVars, latest>>

\* A fault inside the fault handler, where SIGSEGV is blocked (sigfillset in
\* reg_fault_hdlr), kills the process: memcpy to a page that another thread
\* has protected meanwhile, or the manager's read of its own page.  The calls
\* the process executes die with it, and nobody waits for those it has made.
killed_by_signal(n) ==
    /\ \/ pc[n] = "copy" /\ buf[n] # Empty /\ perm[n] # "rw"
       \/ n = Manager /\ pc[n] = "fpRead" /\ perm[n] = "none"
    /\ pc' = [a \in Thread |->
                 IF home(a) = n /\ pc[a] # "free" THEN "killed" ELSE pc[a]]
    /\ from' = [c \in Call |->
                   IF from[c] # NoOne /\ home(from[c]) = n THEN NoOne ELSE from[c]]
    /\ UNCHANGED <<op, buf, todo, dst, req, perm, mem, pageLock, tblVars, latest>>

-----------------------------------------------------------------------------
(***************************************************************************)
(* fetch_pg: read the page of the node that runs thread a and leave it     *)
(* with the protection the request asks for.  Thread a executes a FETCH_PG *)
(* call, or serves a request on the manager, which reads its own page.     *)
(***************************************************************************)

\* A worker takes its page lock first (the manager does not).
fetch_pg_lock(c) ==
    /\ pc[c] = "sent"
    /\ op[c] \in {"fetch_rd", "fetch_none"}
    /\ Up(dst[c])
    /\ wait_lock(dst[c], c)
    /\ pc' = [pc EXCEPT ![c] = "fpProtect"]
    /\ UNCHANGED <<op, buf, todo, rpcVars, perm, mem, tblVars, latest>>

fetch_pg_protect(a) ==
    /\ pc[a] = "fpProtect"
    /\ perm' = [perm EXCEPT ![home(a)] = "rd"]
    /\ pc' = [pc EXCEPT ![a] = "fpRead"]
    /\ UNCHANGED <<op, buf, todo, rpcVars, mem, pageLock, tblVars, latest>>

\* A read of a page protected meanwhile would fault in this very thread: on a
\* server thread the handler waits for the page lock that the thread holds
\* itself (no step), on the manager's program thread it is killed_by_signal.
read_page(a) ==
    /\ pc[a] = "fpRead"
    /\ perm[home(a)] # "none"
    /\ buf' = [buf EXCEPT ![a] = mem[home(a)]]
    /\ pc' = [pc EXCEPT ![a] = "fpSet"]
    /\ UNCHANGED <<op, todo, rpcVars, perm, mem, pageLock, tblVars, latest>>

\* The protection that request fn leaves the owner's page with.
left_access(fn) == IF fn \in {"rd", "fetch_rd"} THEN "rd" ELSE "none"

fetch_pg_answer(c) ==
    /\ pc[c] = "fpSet"
    /\ op[c] \in {"fetch_rd", "fetch_none"}
    /\ perm' = [perm EXCEPT ![dst[c]] = left_access(op[c])]
    /\ pageLock' = [pageLock EXCEPT ![dst[c]] = NoOne]
    /\ pc' = [pc EXCEPT ![c] = "done"]
    /\ UNCHANGED <<op, buf, todo, rpcVars, mem, tblVars, latest>>

\* MUTANT of ivld_ready: nobody waits for its page lock.
ivld_always_ready(n) == TRUE

\* INVALIDATE_PG: a worker waits for its page lock, the manager does not.
ivld_ready(n) == n = Manager \/ pageLock[n] = NoOne

invalidate_adapter(c) ==
    /\ pc[c] = "sent"
    /\ op[c] = "inval"
    /\ Up(dst[c])
    /\ ivld_ready(dst[c])
    /\ perm' = [perm EXCEPT ![dst[c]] = "none"]
    /\ pc' = [pc EXCEPT ![c] = "done"]
    /\ UNCHANGED <<op, buf, todo, rpcVars, mem, pageLock, tblVars, latest>>

-----------------------------------------------------------------------------
(***************************************************************************)
(* The manager: serv_rd_rq and serv_wr_rq, on thread a.  The adapters call *)
(* them again, after a sleep, until they succeed.                          *)
(***************************************************************************)

\* MUTANT of served: the manager's own request ends like a call.
served_as_call(a) == "done"

\* Where thread a goes once its request is served: a call answers, the
\* manager's own fault handler goes on to fill its page.
served(a) == IF a = Manager THEN "protect" ELSE "done"

\* MUTANT of retried: the adapter answers without a page.
retried_never(a) == served(a)

\* Where it goes when the request failed: the adapter's loop begins again.
retried(a) == "srvLock"

\* MUTANT of release_locks: the page lock is not released.
release_info_lock ==
    /\ infoLock' = NoOne
    /\ pageLock' = pageLock

release_locks ==
    /\ infoLock' = NoOne
    /\ pageLock' = [pageLock EXCEPT ![Manager] = NoOne]

\* Wait for the page lock, whatever the request.
serv_rq_lock(a, o) ==
    /\ pc[a] = "srvLock" \/ (a \in Call /\ pc[a] = "sent")
    /\ op[a] = o
    /\ Up(Manager)
    /\ wait_lock(Manager, a)
    /\ pc' = [pc EXCEPT ![a] = "srvInfo"]
    /\ UNCHANGED <<op, buf, todo, rpcVars, perm, mem, tblVars, latest>>

serv_rd_rq_lock(a) == serv_rq_lock(a, "rd")
serv_wr_rq_lock(a) == serv_rq_lock(a, "wr")

\* MUTANT of copyset_with: the copy is not recorded.
copyset_without(n) == copyset

\* The copyset once node n has a copy.
copyset_with(n) == copyset \cup {n}

\* Wait for the info lock, enter the requester in the copyset, and get the
\* page: from this process when the manager owns it, else from the owner.
serv_rd_rq(a) ==
    /\ pc[a] = "srvInfo"
    /\ op[a] = "rd"
    /\ infoLock = NoOne
    /\ infoLock' = a
    /\ copyset' = copyset_with(requester(a))
    /\ \/ /\ owner = Manager
          /\ pc' = [pc EXCEPT ![a] = "fpProtect"]
          /\ UNCHANGED <<op, rpcVars>>
       \/ /\ owner # Manager
          /\ \E c \in Call :
               call(a, "srvFetch", c, owner, "fetch_rd", requester(a))
    /\ UNCHANGED <<buf, todo, perm, mem, pageLock, owner, latest>>

\* MUTANT of ivld_set: copies are left alone.
ivld_nobody(a) == {}

\* The copies a write by the requester makes stale.
ivld_set(a) == copyset \ {requester(a)}

\* MUTANT of owner_asks: a requester with a copy is not sent the page either.
holder_asks(a) == owner = requester(a) \/ requester(a) \in copyset

\* The requester needs no contents: it owns the page.
owner_asks(a) == owner = requester(a)

\* Likewise for a write: the requester leaves the copyset, the others are to
\* be invalidated, and a requester that owns the page is sent no contents.
serv_wr_rq(a) ==
    /\ pc[a] = "srvInfo"
    /\ op[a] = "wr"
    /\ infoLock = NoOne
    /\ infoLock' = a
    /\ copyset' = copyset \ {requester(a)}
    /\ todo' = [todo EXCEPT ![a] = ivld_set(a)]
    /\ \/ /\ owner = Manager
          /\ pc' = [pc EXCEPT ![a] = "fpProtect"]
          /\ UNCHANGED <<op, rpcVars>>
       \/ /\ owner # Manager
          /\ owner_asks(a)
          /\ pc' = [pc EXCEPT ![a] = "srvInval"]
          /\ UNCHANGED <<op, rpcVars>>
       \/ /\ owner # Manager
          /\ ~owner_asks(a)
          /\ \E c \in Call :
               call(a, "srvFetch", c, owner, "fetch_none", requester(a))
    /\ UNCHANGED <<buf, perm, mem, pageLock, owner, latest>>

\* The manager has read its own page: a read request is served.
serv_rd_rq_own(a) ==
    /\ pc[a] = "fpSet"
    /\ op[a] = "rd"
    /\ perm' = [perm EXCEPT ![Manager] = left_access("rd")]
    /\ release_locks
    /\ pc' = [pc EXCEPT ![a] = served(a)]
    /\ UNCHANGED <<op, buf, todo, rpcVars, mem, owner, copyset, latest>>

serv_wr_rq_own(a) ==
    /\ pc[a] = "fpSet"
    /\ op[a] = "wr"
    /\ perm' = [perm EXCEPT ![Manager] = left_access("wr")]
    /\ pc' = [pc EXCEPT ![a] = "srvInval"]
    /\ UNCHANGED <<op, buf, todo, rpcVars, mem, pageLock, tblVars, latest>>

\* MUTANT of page_contents: the owner's answer is dropped.
no_contents(c) == Empty

\* What the owner's answer to FETCH_PG carries.
page_contents(c) == buf[c]

\* The owner's answer to FETCH_PG arrives.
serv_rd_rq_fetched(a) ==
    /\ pc[a] = "srvFetch"
    /\ op[a] = "rd"
    /\ \E c \in Call :
         /\ call_returns(a, served(a), c)
         /\ buf' = [buf EXCEPT ![a] = page_contents(c), ![c] = Empty]
    /\ release_locks
    /\ UNCHANGED <<todo, perm, mem, owner, copyset, latest>>

serv_wr_rq_fetched(a) ==
    /\ pc[a] = "srvFetch"
    /\ op[a] = "wr"
    /\ \E c \in Call :
         /\ call_returns(a, "srvInval", c)
         /\ buf' = [buf EXCEPT ![a] = page_contents(c), ![c] = Empty]
    /\ UNCHANGED <<todo, perm, mem, pageLock, tblVars, latest>>

\* FETCH_PG failed: unlock, return "call failed", and the adapter retries.
\* The copyset keeps the change made before the call.
serv_rq_call_failed(a, o) ==
    /\ pc[a] = "srvFetch"
    /\ op[a] = o
    /\ \E c \in Call : call_fails(a, retried(a), c)
    /\ todo' = [todo EXCEPT ![a] = {}]
    /\ release_locks
    /\ UNCHANGED <<perm, mem, owner, copyset, latest>>

serv_rd_rq_call_failed(a) == serv_rq_call_failed(a, "rd")
serv_wr_rq_call_failed(a) == serv_rq_call_failed(a, "wr")

\* Invalidate the copies one at a time, in the order of std::set.
send_invalidations(a) ==
    /\ pc[a] = "srvInval"
    /\ \E n \in todo[a], c \in Call :
         /\ \A m \in todo[a] : n <= m
         /\ call(a, "srvAck", c, n, "inval", requester(a))
    /\ UNCHANGED <<buf, todo, perm, mem, pageLock, tblVars, latest>>

\* MUTANT of ivld_left: the loop ends after the first node.
ivld_done(a, n) == {}

\* The copies left to invalidate once node n's is.
ivld_left(a, n) == todo[a] \ {n}

send_invalidations_ok(a) ==
    /\ pc[a] = "srvAck"
    /\ \E c \in Call :
         /\ call_returns(a, "srvInval", c)
         /\ todo' = [todo EXCEPT ![a] = ivld_left(a, dst[c])]
    /\ UNCHANGED <<buf, perm, mem, pageLock, tblVars, latest>>

\* INVALIDATE_PG failed: the remaining copies are skipped, and serv_wr_rq
\* does not look at the error.
send_invalidations_failed(a) ==
    /\ pc[a] = "srvAck"
    /\ \E c \in Call : call_fails(a, "srvInval", c)
    /\ todo' = [todo EXCEPT ![a] = {}]
    /\ UNCHANGED <<perm, mem, pageLock, tblVars, latest>>

\* The requester becomes the owner.
serv_wr_rq_grant(a) ==
    /\ pc[a] = "srvInval"
    /\ todo[a] = {}
    /\ copyset' = {}
    /\ owner' = requester(a)
    /\ release_locks
    /\ pc' = [pc EXCEPT ![a] = served(a)]
    /\ UNCHANGED <<op, buf, todo, rpcVars, perm, mem, latest>>

-----------------------------------------------------------------------------
HandlerStep(n) ==
    \/ rd_fault_hdlr(n) \/ wr_fault_hdlr(n)
    \/ fault_hdlr_reply(n) \/ fault_hdlr_backoff(n)
    \/ open_page(n) \/ get_rd_page_copy(n) \/ get_rd_page_protect(n)
    \/ get_wr_page_copy(n) \/ killed_by_signal(n)

CallStep(c) ==
    \/ discard_reply(c)
    \/ fetch_pg_lock(c) \/ fetch_pg_answer(c) \/ invalidate_adapter(c)

ServerStep(a) ==
    \/ fetch_pg_protect(a) \/ read_page(a)
    \/ serv_rd_rq_lock(a) \/ serv_rd_rq(a) \/ serv_rd_rq_own(a)
    \/ serv_rd_rq_fetched(a) \/ serv_rd_rq_call_failed(a)
    \/ serv_wr_rq_lock(a) \/ serv_wr_rq(a) \/ serv_wr_rq_own(a)
    \/ serv_wr_rq_fetched(a) \/ serv_wr_rq_call_failed(a)
    \/ send_invalidations(a) \/ send_invalidations_ok(a)
    \/ send_invalidations_failed(a) \/ serv_wr_rq_grant(a)

Next ==
    \/ \E n \in Node : Load(n) \/ Store(n) \/ sigaction_hdlr(n) \/ HandlerStep(n)
    \/ \E c \in Call : CallStep(c)
    \/ \E a \in Server : ServerStep(a)

Spec == Init /\ [][Next]_vars

-----------------------------------------------------------------------------
(***************************************************************************)
(* Properties.                                                             *)
(***************************************************************************)
ThreadPc(a) ==
    IF a \in Call THEN CallPc \cup ServePc \cup FetchPc
    ELSE IF a = Manager THEN (AppPc \ {"lock", "wait"}) \cup ServePc \cup FetchPc
    ELSE AppPc

\* Program threads and calls stay in the code they can execute: only the
\* manager's program thread serves a request in place, only a call answers.
TypeOK ==
    /\ pc \in [Thread -> Pc] /\ \A a \in Thread : pc[a] \in ThreadPc(a)
    /\ op \in [Thread -> Op] /\ \A n \in Node : op[n] \in {"rd", "wr"}
    /\ buf \in [Thread -> Data \cup {Empty}]
    /\ todo \in [Thread -> SUBSET Node]
    /\ from \in [Call -> Thread \cup {NoOne}]
    /\ dst \in [Call -> Node] /\ req \in [Call -> Node]
    /\ perm \in [Node -> Perm] /\ mem \in [Node -> Data]
    /\ pageLock \in [Node -> Thread \cup {NoOne}]
    /\ infoLock \in Server \cup {NoOne}
    /\ owner \in Node /\ copyset \in SUBSET Node
    /\ latest \in Data

\* The paper's claim, first half: at any time at most one program can store
\* to the page without a fault.
SingleWriter ==
    \A m, n \in Node : CanStore(m) /\ CanStore(n) => m = n

\* The same among the workers (every node but the manager).
SingleWorkerWriter ==
    \A m, n \in Node \ {Manager} : CanStore(m) /\ CanStore(n) => m = n

\* The paper's claim: at any time one or more readers or exactly one writer.
ReadersXorWriter ==
    \A m, n \in Node : CanStore(m) /\ CanLoad(n) => m = n

\* What a program can load is what was stored last, by whichever program.
LoadsLatest == \A n \in Node : CanLoad(n) => mem[n] = latest

\* The manager's table covers every node that has access: nobody keeps a copy
\* that the next write grant would not revoke.
CopiesKnown ==
    \A n \in Node : perm[n] # "none" =>
        \/ n \in copyset \cup {owner}
        \/ \E a \in Server : pageLock[Manager] = a /\ n = requester(a)

\* When serv_wr_rq is about to hand the page over, no node but the requester
\* has any access left: send_invalidations has invalidated "every node".
GrantIsExclusive ==
    \A a \in Server : pc[a] = "srvInval" /\ todo[a] = {} =>
        \A n \in Node \ {requester(a)} : perm[n] = "none"

\* A write answer without contents reaches only a node that has read access
\* to the current contents (the comment in get_wr_page_from_mngr).
EmptyAnswerMeansCopy ==
    \A n \in Node : pc[n] = "protect" /\ op[n] = "wr" /\ buf[n] = Empty =>
        perm[n] = "rd" /\ mem[n] = latest

\* memcpy in get_rd_page_from_mngr and get_wr_page_from_mngr finds the page
\* writable, as the set_access call before it left it.
CopyIsWritable == \A n \in Node : pc[n] = "copy" => perm[n] = "rw"

\* read_page in fetch_pg finds the page readable: a fault there would wait for
\* the page lock that its own thread holds.
FetchCanRead == \A a \in Thread : pc[a] = "fpRead" => perm[home(a)] # "none"

\* IVY_ASSERT in get_rd_page_from_mngr: a read answer is a whole page.
ReadAnswerHasPage ==
    \A n \in Node : pc[n] \in {"protect", "copy"} /\ op[n] = "rd" => buf[n] # Empty

\* Every lock is held by the thread that is between its wait_lock and its
\* unlock, on every return path, and by nobody else.
LocksMatchThreads ==
    /\ \A a \in Server : pageLock[Manager] = a <=>
         \/ pc[a] \in ServePc \ {"srvLock"}
         \/ pc[a] \in FetchPc /\ op[a] \in {"rd", "wr"}
    /\ \A a \in Server : infoLock = a <=>
         pageLock[Manager] = a /\ pc[a] # "srvInfo"
    /\ \A n \in Node \ {Manager} :
         /\ pageLock[n] = n <=> pc[n] \in {"wait", "protect", "copy", "settle"}
         /\ \A c \in Call : pageLock[n] = c <=> dst[c] = n /\ pc[c] \in FetchPc

\* Ownership moves only when no other program can store to the page any more.
OwnerMovesAlone ==
    [][owner' # owner => \A n \in Node \ {owner'} : ~CanStore(n)']_vars
=============================================================================

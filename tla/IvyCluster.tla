----------------------------- MODULE IvyCluster -----------------------------
(***************************************************************************)
(* IvyPage in the processes that run it: each is constructed (Ivy::Ivy),   *)
(* begins to listen on a thread of its own (RpcServer::start_serving),     *)
(* maps the region and protects it (Ivy::get_shm), and only then runs its  *)
(* program.  Processes are started by hand, in any order.  A call to a     *)
(* process that does not listen is refused.  A call that is accepted waits *)
(* in the list of jobs of its server until one of the PoolSize threads of  *)
(* the pool takes it, and has that thread until it is answered, whatever   *)
(* it waits for meanwhile.  The manager may be asked for the page before   *)
(* it has mapped the region.                                               *)
(*                                                                         *)
(* Left out: the parsing of the config file (a process that rejects it is  *)
(* never constructed), and the mutex of each HTTP client: with one page    *)
(* the lock of the page keeps a process from making two calls at once.     *)
(***************************************************************************)
EXTENDS IvyPage, Sequences, SequencesExt

CONSTANTS
    PoolSize,       \* CPPHTTPLIB_THREAD_POOL_COUNT, threads of a server
    OnlyRefused     \* whether calls fail only because nobody listens

ASSUME PoolAssumption == PoolSize \in Nat \ {0}
ASSUME RefusalAssumption ==
    CallsMayFail /\ OnlyRefused \in BOOLEAN

VARIABLES
    boot,       \* boot[n]: how far process n has come
    listening,  \* listening[n]: its server accepts connections
    jobs,       \* jobs[n]: calls accepted that no thread has taken
    pool,       \* pool[n]: calls that have a thread of the pool
    stuck       \* calls whose thread has faulted on the page it serves

server == <<listening, jobs, pool, stuck>>
clusterVars == <<vars, boot, server>>

ClusterInit ==
    /\ Init
    /\ boot = [n \in Node |-> "new"]
    /\ listening = [n \in Node |-> FALSE]
    /\ jobs = [n \in Node |-> <<>>]
    /\ pool = [n \in Node |-> {}]
    /\ stuck = {}

-----------------------------------------------------------------------------
(***************************************************************************)
(* From the constructor to the program.                                    *)
(***************************************************************************)

\* Ivy::Ivy registers the handler and the functions, and starts the server.
construct(n) ==
    /\ boot[n] = "new"
    /\ boot' = [boot EXCEPT ![n] = "constructed"]
    /\ UNCHANGED <<vars, server>>

\* The detached thread of start_serving.
start_recv(n) ==
    /\ boot[n] # "new"
    /\ ~listening[n]
    /\ Up(n)
    /\ listening' = [listening EXCEPT ![n] = TRUE]
    /\ UNCHANGED <<vars, boot, jobs, pool, stuck>>

\* mmap in get_shm: the region can be read and written for a moment.
map_region(n) ==
    /\ boot[n] = "constructed"
    /\ boot' = [boot EXCEPT ![n] = "mapped"]
    /\ perm' = [perm EXCEPT ![n] = "rw"]
    /\ UNCHANGED <<pc, op, buf, todo, rpcVars, mem, pageLock, tblVars, latest,
                   server>>

reg_addr_range(n) ==
    /\ boot[n] = "mapped"
    /\ boot' = [boot EXCEPT ![n] = "ready"]
    /\ perm' = [perm EXCEPT ![n] = "none"]
    /\ UNCHANGED <<pc, op, buf, todo, rpcVars, mem, pageLock, tblVars, latest,
                   server>>

Mapped(n) == boot[n] \in {"mapped", "ready"}

-----------------------------------------------------------------------------
(***************************************************************************)
(* The server.  A call that thread a makes is accepted at once, if the     *)
(* server listens; it leaves the pool when it is answered.                 *)
(***************************************************************************)
Accepted(c) == c \in Range(jobs[dst[c]]) \cup pool[dst[c]]

\* The call to process n that this step makes, if n accepts connections.
Made(n) ==
    {c \in Call : listening[n] /\ Up(n) /\ pc[c] = "free" /\ pc'[c] = "sent" /\ dst'[c] = n}

\* MUTANT of answered: a thread is kept by its call for good.
answered_never(c) == FALSE

answered(c) == pc'[c] \in {"done", "free", "killed"}

\* Jobs die with their process.
accept_and_release ==
    /\ jobs' = [n \in Node |-> IF Up(n)' THEN jobs[n] \o SetToSeq(Made(n)) ELSE <<>>]
    /\ pool' = [n \in Node |-> {c \in pool[n] : ~answered(c)}]
    /\ stuck' = {c \in stuck : ~answered(c)}
    /\ UNCHANGED <<boot, listening>>

\* A thread of the pool takes the job that waits longest.
take_job(n) ==
    /\ jobs[n] # <<>>
    /\ Cardinality(pool[n]) < PoolSize
    /\ Up(n)
    /\ pool' = [pool EXCEPT ![n] = @ \cup {Head(jobs[n])}]
    /\ jobs' = [jobs EXCEPT ![n] = Tail(@)]
    /\ UNCHANGED <<vars, boot, listening, stuck>>

-----------------------------------------------------------------------------
(***************************************************************************)
(* The steps of IvyPage.                                                   *)
(***************************************************************************)
CallFailed(a) ==
    \/ fault_hdlr_backoff(a) \/ serv_rd_rq_call_failed(a)
    \/ serv_wr_rq_call_failed(a) \/ send_invalidations_failed(a)

\* A call fails because nobody listens or, unless OnlyRefused, as in IvyPage:
\* a call that was accepted is executed some time.  (The step that takes the
\* last acknowledgement is no failure, though it has the effect of one.)
FailsFor(a) ==
    CallFailed(a) /\ ~send_invalidations_ok(a) =>
        \E c \in Call :
            /\ from[c] = a
            /\ IF Accepted(c) THEN ~OnlyRefused /\ pc'[c] # "free"
               ELSE pc[c] = "sent" \/ ~OnlyRefused

RunProgram(n) ==
    /\ boot[n] = "ready"
    /\ Load(n) \/ Store(n) \/ sigaction_hdlr(n)
    /\ accept_and_release

RunHandler(n) ==
    /\ HandlerStep(n)
    /\ FailsFor(n)
    /\ accept_and_release

\* MUTANT of protect_fails: fetch_pg never restricts the page.
protect_never(a) == pc[a] = "fpProtect"

\* mprotect of a region that is not mapped yet fails, and nobody looks.
protect_fails(a) == pc[a] = "fpProtect" /\ ~Mapped(home(a))

\* A server thread executes call a, the manager's program its own request.
RunServer(a) ==
    /\ a \in Call /\ pc[a] = "sent" => a \in pool[dst[a]]
    /\ a \notin stuck
    /\ IF protect_fails(a)
       THEN pc' = [pc EXCEPT ![a] = "fpRead"]
            /\ UNCHANGED <<op, buf, todo, rpcVars, perm, mem, pageLock, tblVars, latest>>
       ELSE ServerStep(a) \/ (a \in Call /\ CallStep(a))
    /\ FailsFor(a)
    /\ accept_and_release

\* The page cannot be read, whether it is not mapped or closed by get_shm: the
\* thread faults, and waits in the handler for the page lock it holds itself.
read_page_faults(c) ==
    /\ pc[c] = "fpRead"
    /\ perm[home(c)] = "none"
    /\ c \notin stuck
    /\ stuck' = stuck \cup {c}
    /\ UNCHANGED <<vars, boot, listening, jobs, pool>>

ClusterNext ==
    \/ \E n \in Node :
         \/ construct(n) \/ start_recv(n) \/ map_region(n) \/ reg_addr_range(n)
         \/ take_job(n)
         \/ RunProgram(n) \/ RunHandler(n)
    \/ \E a \in Server : RunServer(a)
    \/ \E c \in Call : read_page_faults(c)

ClusterSpec == ClusterInit /\ [][ClusterNext]_clusterVars

\* Processes come up, threads take jobs and keep running, and a polled lock that
\* is free again and again is taken in the end (try_lock in a loop promises no
\* more than that).
ClusterFairness ==
    /\ \A n \in Node :
         /\ WF_clusterVars(construct(n) \/ map_region(n) \/ reg_addr_range(n))
         /\ WF_clusterVars(start_recv(n))
         /\ WF_clusterVars(take_job(n))
         /\ WF_clusterVars(RunHandler(n))
         /\ SF_clusterVars(RunHandler(n) /\ (rd_fault_hdlr(n) \/ wr_fault_hdlr(n)))
    /\ \A a \in Server :
         /\ WF_clusterVars(RunServer(a) \/ (a \in Call /\ read_page_faults(a)))
         /\ SF_clusterVars(RunServer(a) /\ (serv_rd_rq_lock(a) \/ serv_wr_rq_lock(a)))
    /\ \A c \in Call :
         SF_clusterVars(RunServer(c) /\ (fetch_pg_lock(c) \/ invalidate_adapter(c)))

FairClusterSpec == ClusterSpec /\ ClusterFairness

-----------------------------------------------------------------------------
(***************************************************************************)
(* Properties.                                                             *)
(***************************************************************************)

\* A call that a server thread makes, with locks held, does not wait for a
\* thread that other calls have: it and all jobs before it find one free.
NestedCallsHaveThreads ==
    \A n \in Node : \A i \in DOMAIN jobs[n] :
        from[jobs[n][i]] \in Server => i + Cardinality(pool[n]) <= PoolSize

\* A fault is served, whatever the order in which the processes come up and
\* whichever calls are refused, unless a server thread has faulted itself.
ServedUnlessStuck ==
    \A n \in Node \ {Manager} :
        pc[n] = "lock" ~> pc[n] = "retry" \/ stuck # {}

\* A process that has not mapped and protected the region yet has no access.
Page == INSTANCE IvyPage WITH
    perm <- [n \in Node |-> IF boot[n] = "ready" THEN perm[n] ELSE "none"]

\* Whoever the manager serves, it has mapped and protected the region.
ServesMapped == pageLock[Manager] # NoOne => boot[Manager] = "ready"

\* Processes that come up in any order, refused calls and the pool show a page
\* nothing but steps of IvyPage, as long as the manager does not serve a
\* request before its get_shm has returned.
ImplementsIvyPage ==
    Page!Init /\ [][ServesMapped => Page!Next]_(Page!vars)
=============================================================================

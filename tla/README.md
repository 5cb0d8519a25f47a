# Verification of libivy

libivy is a distributed shared memory after IVY's fixed manager: programs on
several nodes map one region, a page fault asks the manager for the page, and
the manager fetches it from its owner and invalidates the other copies. This
directory holds TLA+ models of it, TLC configurations that check them, and
TLAPS proofs about them. File names below are those under the repository's `src/`,
`libivy.cc` being `src/libivy/libivy.cc`.

## 1. The system

| part | code | state | operations |
|---|---|---|---|
| fault handlers (every node) | `libivy.cc` 235-283, 508-583, 594-689 | protection and contents of each page, the page lock | `sigaction_hdlr`, `rd_fault_hdlr`, `wr_fault_hdlr`, `get_rd_page_from_mngr`, `get_wr_page_from_mngr` |
| owner side (every node) | `libivy.cc` 168-194, 331-364, 717-756 | the same | `fetch_pg`, `invalidate_adapter`, `read_page` |
| manager (node 0) | `libivy.cc` 366-506, 692-715, 758-822 | `pg_tbl->info` (owner, copyset), page locks, info locks | `serv_rd_rq`, `serv_wr_rq` and their adapters, `send_invalidations` |
| page table | `ivypagetbl.hh`, `common.hh` 32-36 | three `std::map`s by page address, polled locks | `wait_lock`, `unlock` |
| start-up (every node) | `libivy.cc` 30-166, 285-329 | how far the process has come, the protection of the region | the constructor, `get_shm`, `reg_addr_range` |
| RPC layer | `rpcserver.cc`, `vendor/headers/httplib.h` | the listening socket, calls in flight, jobs, the threads of the pool | `call`, `start_serving`, `start_recv` |
| workloads | `workloads/psort`, `pdot`, `pingpong` | words of the shared region | the programs |
| the rest | config and addresses, `read_mem_perm`, hex codec, benchmarks, trace analysis | - | sequential, or outside of the running system |

How they interact: a fault runs the handler *on the faulting thread*. On a
worker it takes the node's page lock and makes a blocking RPC to node 0. There
a server thread takes the manager's page lock and info lock and, with them
held, makes blocking RPCs to the owner (`fetch_pg`) and to the nodes of the
copyset (`invalidate_pg`); server threads of those nodes take *their* page lock.
On the manager the handler calls the service directly and **takes no page lock of
its own**. Failed calls are retried: the handler backs off and starts again,
the adapters on the manager loop until the service succeeds. A process starts to
listen before it has mapped the region, and its server has a bounded pool of threads.

What is hard about it: the interleaving of program threads, server threads and
nested calls; the locks held across calls; calls that fail after they have been
executed, or are executed after their caller gave up; table entries changed
before the step they stand for has succeeded; errors that are dropped; processes
that come up in any order. `PROJECT.json` lists these hazards with their lines and
the properties that watch them.

What makes each part correct:
- protocol: one writer or many readers; a load returns what was stored last; a
  fault is served; the contents are never on no node at all;
- manager: the table covers every copy; a grant is exclusive; ownership moves
  only when nobody else can store; both locks are released on every path;
- handlers and owner side: the page is writable while it is filled and readable
  while it is read; a read answer is a whole page;
- start-up and RPC layer: no request is served from a region that is not there
  yet; a nested call finds a thread;
- workloads: psort sorts, pdot multiplies, pingpong loses no count, and their
  handshakes end.

## 2. The modules

| module | what it is |
|---|---|
| `IvyPage` | the core: the life of one page, one action per step between two points where another thread can be seen |
| `CoherentPage` | the abstract specification: a page of one memory, lent to many readers or one writer |
| `IvyCoherent` | the refinement mapping from `IvyPage` to `CoherentPage` |
| `IvyCluster` | `IvyPage` in its processes: start-up, listening sockets, jobs and the thread pool |
| `Psort`, `Pdot`, `Pingpong` | the workloads over a coherent memory |
| `IvyPageInv`, `IvyPageCohInv` | the inductive invariants `IInv`, `LockInv` and `CohInv`, in named parts |
| `IvyPageLockProofs`, `IvyPageProofs`, `IvyPageCohProofs`, `IvyCoherentProofs` | the proofs about the protocol, each extending the one before |
| `IvyClusterProofs` | the proofs about processes, jobs and the thread pool |
| `PsortProofs`, `PdotProofs`, `PingpongProofs` | the proofs about the workloads |
| `MCIvyPage`, `MCIvyCoherent`, `MCIvyCluster` | instances for TLC: the symmetry of call identities |

A definition whose comment begins with MUTANT is a plausible slip in the definition
after it; `PROJECT.json` pairs each with the property under which TLC finds it.

### IvyPage

All state of the code is kept per page address, so one page is modelled. A
program thread is named by its node, a server thread by the call it executes.
`pc` says where a thread stands: `lock`, `wait`, `protect`, `copy`, `settle` are
the points of the fault handlers, `srv*` those of the service on the manager,
`fp*` those of `fetch_pg`. `perm`, `mem` and `pageLock` are per node; `owner`,
`copyset` and `infoLock` are the manager's. `latest` is the only history variable.

- Loads and stores of a program are atomic and need the protection; where it is
  missing the kernel raises the signal (`sigaction_hdlr`), and the access is tried
  again when the handler has returned (`retry`).
- `call`, `call_returns`, `call_fails`, `discard_reply` are the RPC layer. With
  `CallsMayFail` a call fails before it is executed, after it, or while the
  server goes on executing it for nobody (an *orphan*).
- Where two statements of the code can be separated by another thread and the
  separation can matter, they are two actions: `set_access`, `memcpy` and
  `set_access` in the handlers; `set_access`, `read_page` and `set_access` in
  `fetch_pg`; each invalidation.
- `killed_by_signal` is a SIGSEGV inside the handler, where all signals are
  blocked: the process dies and calls to it fail from then on.

Left out: `info[].access` (written, never read), logging, the hex encoding (a page
is one value), a failing `mprotect` (`NOT_OK`; but see `IvyCluster`), several faulting
threads in one process, `manager_id` other than 0 (the code itself writes 0 in places:
394, 467, 609, 651). The sleep between the service and the answer needs no step of its
own, since an answer may be taken at any later time.

### CoherentPage and IvyCoherent

`CoherentPage` knows access rights and copies, and none of the machinery.
`IvyCoherent` maps a node's access to what its program may do without a fault, its
copy to what a load would return, and shows every step to be a lending, a loss,
a write, or a stutter.

### IvyCluster

Two things `IvyPage` takes for granted: that a process is there when it is called, and
that a call is executed once it is made. `construct`, `start_recv`, `map_region` and
`reg_addr_range` are the constructor, the detached thread that listens, `mmap` and the
first `mprotect`; a call to a process that does not listen is refused. What
is accepted becomes a job (`jobs`), which a free thread of the `pool` takes and keeps
until it has answered, through all nested calls and polled locks. The steps
of the protocol are those of `IvyPage`, restricted to processes that are up and calls that
have a thread. Processes come up in any order. A `set_access` on a region that is not
mapped fails, and the code goes on (`protect_fails`). The jobs of a process that is killed die with it, and it accepts nothing any more.

- The constructor starts the server (`libivy.cc` 133) before `get_shm` maps the region
  (138-157): a request in between makes the manager's `fetch_pg` read what is not there. The
  thread faults, and its handler waits for the page lock that the thread holds itself
  (`read_page_faults`, `stuck`). Nothing in the code makes workers wait until the manager has
  mapped; the paper's "the manager node starts first in the cluster" (section 2.1) does not
  either, since the window is inside the start of the manager. The run `served_before_mapped`
  shows it. What start-up does not break is stated with that case in the formula:
  `ImplementsIvyPage` asks for steps of `IvyPage` from states in which the manager serves
  nobody before it has mapped (`ServesMapped`), `ServedUnlessStuck` for service unless a
  thread has faulted so. Workers need no such condition: nobody asks them before they have
  asked themselves (`Booted`).
- httplib's pool has `max(8, hardware threads - 1)` threads. `configs/simple.json` has 8
  nodes: 7 requests of workers at the manager and one nested call that it makes to itself
  are 8, and a call that outlived its caller is one too many.
- A program may run before the detached thread of its process listens. An invalidation is
  then refused, and the copy stays readable, as in the run `invalidation_ignored`: to
  `IvyPage` this is a call that failed, so the refinement is one into `IvyPage` with failures.

### Psort, Pdot and Pingpong

Memory is atomic in them, as `CoherentPage` promises it. Where node 0 itself uses the
shared pages (psort, pingpong), libivy does *not* keep that promise (run
`manager_two_writers`): what is shown is shown of the program on coherent memory.

In `Psort` the manager clears and fills the region, writes the header and raises `ready`
last; workers poll `ready`, sort their part in place, and raise their `done`; the manager
polls the flags in turn and merges. The file is read as `operator>>` reads it into an `int`.

In `Pdot` node 1 does this, node 0 only runs libivy's manager. The coordinator polls in
rounds over all flags and needs one round in which none is down. Workers store
their result before their flag. Arithmetic is that of `uint64_t`, with `Word` for 2^64;
`dot`, what the product should be, is computed without a word's limit and reduced once.

In `Pingpong` the turn is `counter % WorkerCount`; the increment is a load and a store.
The manager's first store (`pingpong.cc` 57) races with worker 1, whose turn is 0 already,
and nothing orders them. The history variable `raced` says that the store has fallen between
a worker's seeing its turn and its store, or has undone counts; the properties speak of the behaviours without
that, whatever the start order. A store that comes before the first count, or right after
it while nobody counts, does no harm.

## 3. The runs

Node 0 is the manager. `Call` has an identity for each thread that can make a
call at once, one more for a nested call, and `MaxOrphans` more.

| run | instance | what it shows |
|---|---|---|
| `workers_reliable` | 3 workers that load and store, 2 contents, no failures | `IsCoherent` (the refinement), `ReadersXorWriter`, `LoadsLatest`, `CopiesKnown`, `GrantIsExclusive`, `EmptyAnswerMeansCopy`, and `CohInv` |
| `workers_failures` | 2 workers that load and store, 2 contents, failures, 1 orphan | `SingleWriter`, `CopyIsWritable`, `FetchCanRead`, `ReadAnswerHasPage`, `LocksMatchThreads`, `OwnerMovesAlone`, and `LockInv` |
| `manager_program` | the manager loads and stores, 2 workers store, failures, 1 orphan; processes are killed | `TypeOK`, `SingleWorkerWriter`, `IInv` |
| `faults_served` | processes come up in any order; pools of one thread; a worker that loads and one that stores; calls are refused until the callee listens; fair threads | `ServedUnlessStuck`, `ImplementsIvyPage` |
| `pool_suffices` | a manager that loads, 2 workers that store, failures, 1 orphan, pools of 4 | `NestedCallsHaveThreads` |
| `psort_sorts` | 2 workers, files of 0, 2, 4 or 6 numbers below 3, fair programs | `SortsFile`, `WorkersAgree`, `PartsStay`, `Completes` |
| `pdot_products` | 2 workers, files of 0, 4 or 8 numbers out of {1, 3}, words of 4 bits, fair programs | `PrintsProduct`, `InputStays`, `ResultsStay`, `Completes` |
| `pingpong_turns` | 2 workers and the manager in any order, 50 iterations, fair programs | `NoLostCount`, `TakesTurns`, `StopsInTime`, `Completes` |

and runs in which the code breaks what the repository says of it:

| run | statement | what happens |
|---|---|---|
| `manager_two_writers` | the paper: one or more readers or exactly one writer | the manager opens its page after its lock is released; two nodes store |
| `invalidation_ignored` | `libivy.hh` 147: "on every node" | a failed invalidation ends the loop; `serv_wr_rq` drops the error and grants |
| `lost_page` | `libivy.cc` 670 | a write answer is lost; the retry comes from the owner and is answered without the page |
| `served_before_mapped` | `README.md` 23: `get_shm` "sets up the shared memory and all the handlers"; `libivy.hh` 122: `fetch_pg` sets the protection and returns the page | the handlers are up since the constructor: the manager serves a request, and reads its page, before `get_shm` has made it readable |

One more divergence has no run. A fault handler keeps its page lock during the call to the
manager (`libivy.cc` 559), which the paper (section 3.5) denies: "the node releases the lock
and backs off". Handler and manager can so wait for each other, when the manager is to
fetch or to invalidate on a node that asks itself. The client's read timeout of 5 s
(`httplib.h` 32, `rpcserver.cc` 146) ends the wait: the call fails, the handler unlocks and
tries again. To the model this is a call that fails, one of those in the runs with failures.

More violations need only other constants:

| module and constants | violated | why |
|---|---|---|
| `IvyPage`, 0 in `Loader` or `Storer` | `CopyIsWritable` | a server thread protects the page that the manager's handler is about to fill; the process is killed |
| `IvyPage` as in `workers_reliable`, 2 workers, 0 in `Loader` | `ReadersXorWriter`, `LoadsLatest`, `CopiesKnown`, `GrantIsExclusive`, `LocksMatchThreads` | the manager's handler opens its page without a lock, after a later write request has been served (`EmptyAnswerMeansCopy` and `FetchCanRead` hold) |
| `IvyCluster` as in `pool_suffices`, `PoolSize = 3` | `NestedCallsHaveThreads` | the requests of both workers and an orphan have all threads (if calls are only refused, 3 suffice and 2 do not) |
| `Psort`, `Length = {3}` | `SortsFile` | the rest of the division (`psort.cpp` 89, 176) is neither sorted nor merged |
| `Psort`, `INT_MAX = 1` | `SortsFile` | a number above `INT_MAX` ends the input (220), which psort's README calls `uint64_t` |
| `Pdot`, `Length = {6}` | `PrintsProduct` | the rest of the division is not multiplied (`pdot.cc` 95) |
| `Pingpong`, without `raced` in the properties | `NoLostCount`, `TakesTurns` | the manager's store comes between a load and its store, or undoes counts |
| `Pingpong`, `WorkerCount = 3` | `Completes` | the worker whose turn would come has stopped, another one waits for it |

**Bounds.** Two workers and the manager are the smallest system with three roles
(owner, requester, manager) on three nodes; the third worker of `workers_reliable`
adds a copy holder that is neither, and a second invalidation. Two contents tell a
stale page from the current one; where a property does not speak of contents one
is enough. One orphan is enough for a call to outlive its caller while its
retry runs. A pool of workers + orphans + 1 threads is tight, and a pool of one is the
hardest case for `ServedUnlessStuck`. The sort needs three elements per part for passes that are
not independent; three values give ties. Numbers 1 and 3 and 4-bit words make sums of products
wrap around. Fifty iterations are many more than there are workers.

**Deadlock** is checked in `psort_sorts`, `pdot_products` and `pingpong_turns`. The other
runs switch it off because the system really stops there: when all programs have the access
they want, when handler and manager wait for each other (which, with failures allowed, a
failing call ends), when a process has been killed, and when a server thread waits for its
own lock.

**Fairness.** In `faults_served` processes come up, threads of a pool take jobs, and each
thread goes on (weak fairness of its steps): the kernel schedules it, calls and sleeps end.
Programs need not make any access. A lock is polled by `try_lock`, so no waiter has a place
in a queue: strong fairness of taking a lock says that a waiter gets it if it is free again
and again, which is an assumption about the scheduler. Calls fail in this run only while
the callee does not listen yet; without the client's 5 s timeout handler and manager could
wait for each other for ever, which is why the run has no node that both loads and stores.
The workloads have weak fairness of each program: it polls and is scheduled.

Every property of a passing run has a mutant, a plausible slip in one mapped
definition (a lock taken unchecked, a copy not entered in the copyset, a loop
that ends early, an answer dropped), under which TLC finds it violated.

## 4. The proofs

All theorems hold for every value of the constants: any set of nodes, any number of calls
in flight. The assumptions are those of the modules: nodes are naturals, 0 is one of
them, calls are not nodes, the empty answer is no page. The conditions of the
theorems are stated in them, and are needed: see the runs that expect a violation and the
table after them.

| theorems | properties | network | the manager's program |
|---|---|---|---|
| `Invariance`, `TypeCorrect`, `ReadAnswers`, `WorkersExclude` | `IInv`, `TypeOK`, `ReadAnswerHasPage`, `SingleWorkerWriter` | any | any |
| `OneWriter`, `OwnershipMovesAlone` | `SingleWriter`, `OwnerMovesAlone` | any | never stores |
| `CopiesAreWritable`, `LockInvariance`, `LocksAreReleased`, `FetchesCanRead` | `CopyIsWritable`, `LockInv`, `LocksMatchThreads`, `FetchCanRead` | any | does not use the page |
| `CoherentInvariance`, `ReadersExcludeWriter`, `LoadsAreCurrent`, `TableKnowsCopies`, `GrantsAreExclusive`, `EmptyAnswersMeanCopies` | `CohInv`, `ReadersXorWriter`, `LoadsLatest`, `CopiesKnown`, `GrantIsExclusive`, `EmptyAnswerMeansCopy` | calls do not fail | does not use the page |
| `ImplementsCoherentPage` | `IsCoherent` | calls do not fail | does not use the page |

| theorems about the cluster | properties | condition |
|---|---|---|
| `ClusterImplementsIvyPage` | `ImplementsIvyPage` | - |
| `ClusterImplements` | `Page!Spec` | `[]ServesMapped` |
| `ClusterKeepsLocks` | `LocksMatchThreads`, `CopyIsWritable`, and `FetchCanRead` of the workers' pages, over the raw protections | the manager's program does not use the page |
| `PoolSuffices` | `NestedCallsHaveThreads` | finitely many nodes, `PoolSize` at least their number plus `MaxOrphans` |

| theorems about the workloads | properties | condition |
|---|---|---|
| `WorkersKnowTheirPart`, `PartsAreFinal` (psort) | `WorkersAgree`, `PartsStay` | - |
| `FileIsSorted` (psort) | `SortsFile` | `Divides`, `Fits` |
| `InputIsFinal`, `ResultsAreFinal` (pdot) | `InputStays`, `ResultsStay` | - |
| `ProductIsPrinted` (pdot) | `PrintsProduct` | `Divides`, `Fits` |
| `NothingLost`, `Turns`, `Stops` (pingpong) | `NoLostCount`, `TakesTurns`, `StopsInTime` | - (`raced` is in the properties) |

### One writer: `IInv`

Two stores are excluded by ownership, `Grants`: a worker that can store, or has an answer
that will let it, is the owner in the table. This is not inductive: the table changes
when the grant is made, long after the owner was told to give the page up. So `Granted`
says what a request has achieved at each point: the owner that `fetch_pg` has reached may
not store any more, and while copies are being invalidated no worker but the requester may.
That rests on three things. `Callers`: RPCs block, so a thread has one call at most, and
an answer belongs to the request it is taken for. An orphan's answer belongs to nobody,
which is why `Entitled` speaks of calls that somebody waits for. `Locked`: the sections of
the code under a page lock are held by their thread, so that no fetch can interrupt a
handler, and no two requests are served at once. `OpenCopy`: the page stays writable while
a worker copies into it, since `fetch_pg` and `invalidate_adapter` wait for its lock.
`Pages` (a thread that is to hand over a page has one) gives `ReadAnswerHasPage`. `Reader`
and `Idler` say what the manager's own page is like when its program does not store, or does
not use it: the manager's handler takes no lock, so nothing else excludes it.

### Locks are released: `LockInv`

`IInv` says that whoever is in a section has its lock. `LockInv` adds the way back,
`Occupied`: a page lock that is taken is held by a thread in a section, so no return path
forgets it, the paths of failed calls included; `Noted` is the same of the info lock.
`Addressed` keeps the manager out: a manager that asks for nothing is in no copyset
and owns the page by its own table only, so it is sent no fetch and no invalidation, which
it would execute without a lock. `ReadableAt` is what the locks are for: from the
`set_access` of `fetch_pg` to its end the page can be read (of a set of nodes, since in the
cluster it holds of the workers only). Each step moves one
thread (`LocksMove`); what the others do meanwhile is to be called or to be forgotten
(`Stays`).

### Coherence: `CohInv`

On a network that loses nothing the invalidations are complete. `Answered`: somebody waits
for each call, and its kind is the one that the waiter's position demands. `Covered`:
every node that has access, or an answer that will give it access (`Holder`), is in the
table, or, while a write request is served, among its pending invalidations, or is the owner
that has not been fetched yet. `Alone`: who can store, or will, holds the only copy; it
follows from `Covered` when the last invalidation is acknowledged. `OwnerHas`: a worker in the
table as the owner has the page until it has given it up, which is what makes an answer
without contents right; `Faulted`: a worker does not ask for what it has. `Current`: what is
readable, under way, or in the memory of an owning manager, is what was stored last.
`EmptyMeansCopy`: a requester that is answered without the page can read it at that time.

The refinement needs no more: a step touches one address space and one program at most
(`OneNodeMoves`), so it changes the view of one program. `ReadersXorWriter` and
`LoadsLatest` before and after the step then say which step of `CoherentPage` that is:
access can be gained only where nobody else's is in the way, and with the current contents.

### The cluster: `Booted`, `PoolInv`

The refinement shows a process that is not ready as one without access, so every step of a
thread that touches a protection must be taken in a process that is ready. `Booted` says so of
the workers, whatever the start order: a process in a handler, the callee of a fetch or of an
invalidation and the node a call is made for, a member of the copyset, a pending invalidation,
and the owner, unless that is the manager. The manager is asked earlier, since its table
begins with itself as the owner; `AtFetch` therefore takes `ServesMapped` for it, and needs
nothing else: a thread that fetches a page has its page lock. Start-up, listening
and `take_job` are then stutters, a `set_access` on a region that is not mapped does not
occur, and `RunProgram`, `RunHandler` and `RunServer` are steps of `IvyPage` that may come
later than there. `Base` is the part of `IInv` that protections have no say in; it and
`Booted` hold without the condition, so the theorem says of each single step what it is.

tlapm does not lift a theorem through an `INSTANCE`, so what holds of the raw protections
is shown once more: `mmap` and `get_shm` open and close a region without any lock, but
a worker's only before it takes part, by `Booted`. The manager's lock discipline survives even a
thread that has faulted for good: it is the readability of the manager's own page alone
that is lost. The lemmas about `LockInv` need no more of
`IInv` than `Sections`, which says nothing of the right to store, and hold of the steps
of the cluster as they are (`ClusterLocks`).

The bound of the pool is a count. `Pooled`: the jobs and the pool of a process are distinct
calls that it has accepted and not answered. A call is an orphan (`MaxOrphans` at most, by
`Few`), or the request of a worker's program (one per worker, since RPCs block), or was made by
a server thread with the manager's page lock, of which there is one. So the jobs up to
a nested call and the calls in the pool are no more than `Cardinality(Node) + MaxOrphans`.
With 8 nodes and no orphan that is the 8 threads of httplib, with none to spare.

### The workloads

psort and pdot: a worker that has left its poll has seen `ready`, so the manager has
stored all the rest; a manager that merges has seen each flag up, and a flag goes up after
the worker's last store. In pdot the flags of a round are remembered by `all_done`, which
one flag that is down keeps down. pingpong: a worker between its load and its store has the turn,
the counter it has loaded is still the counter, and no other worker can have the turn; the one store that respects no turn is the
manager's, once, and `raced` remembers whether it did harm.

What psort computes (`SInv`). `Filled`: what has been read is in its place, and from then on
the region is a rearrangement of the file (`Rearranges`: a bijection; one exchange composed
with it is one again). `Sorting`: after *p* passes of a worker's loops the last *p*
places of its part are in order and hold the largest elements, and the place the pass has come to
holds the largest so far (`InOrder`). `Merging`: the output is in order, is a rearrangement of
the places that `merge_worker` has passed in the parts (`Merged`), and its last element is no
larger than the next of any part. At the end all places are passed, and the output is
the file in order.

What pdot computes (`DInv`). `Summing`: a worker's sum is that of the products of its part so far,
modulo `Word`; `Adding`: the coordinator's is that of the parts it has added. Both are
differences of `dot`, a recursive function, whose equation `dot[n] = dot[n - 1] +
product` is all that the steps need; that there is such a function takes an
induction over its argument, done by hand from a least counterexample (`FromZeroOn`). The
rest is arithmetic of remainders: a remainder may be taken before or after a sum or a product.

`Divides` and `Fits` say that the number of workers divides the length and that the numbers
fit an `int`. Both are needed: see the table after the runs.

### What stays with TLC

Liveness (`ServedUnlessStuck`, the three `Completes`) and `ENABLED`. Every other property of a
passing run is a theorem. TLC also checks the invariants of the proofs: `IInv` in
`manager_program`, `LockInv` in `workers_failures`, `CohInv` in `workers_reliable`.

## 5. What is not modelled

- Config file and addresses (`parse_addr`, the node table), `pg_align`, `read_mem_perm`, the
  hex codec: sequential code without shared state, called before the program runs or on
  values the protocol passes through. A process that rejects its config is never constructed.
  Their hazards are listed, without a property: a port of 65536, a region rounded down, a
  permission test that holds of every line, a page that is never freed.
- The latency benchmarks (timing; their accesses are those of a `Loader` or a `Storer`) and the
  trace analysis (offline).
- HTTP itself: headers, status codes and bodies; what can go wrong is that a call fails.
- The mutex of each HTTP client: with one page, the page's lock keeps a process from making two
  calls at once. With several pages calls to one node wait for each other; calls for two pages
  are otherwise independent.
- The growth of the `std::map`s without a lock: a data race, whose outcomes (a corrupted tree)
  the protocol has no state for.
- Several program threads of one process. `manager_id` other than 0: the code itself sends
  requests to 0, so there is no such system to model.

## 6. Plan

Done: `IvyPage` with its runs; `IInv`, `LockInv`, `CohInv` and their theorems; `CoherentPage`, the
refinement, checked and proved; start-up and thread pool in `IvyCluster`, its refinement of
`IvyPage` and the bound of the pool, checked and proved; `Psort`, `Pdot` and `Pingpong` with
their safety theorems.

Left, in this order:
1. Two pages and the mutex of the HTTP clients: which of the calls for different pages wait
   for each other.
2. A variant with two program threads per node, which fault on the same page.
3. Proofs: `EmptyAnswerMeansCopy` and `FetchCanRead` with a manager whose program only reads, the
   two that TLC does not find violated then.
4. Pure operators with reference definitions: `parse_addr`, `pg_align`, `read_mem_perm`, the hex codec.

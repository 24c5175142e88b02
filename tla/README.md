# A verification project for the Firebird server

Firebird (this repository: the 1.5 generation, C++) is an SQL database server.
In its Classic architecture every client is served by a process of its own;
the processes share the database file and, through a mapped file, a lock
table, an event table and nothing else. What makes the data correct is
therefore a set of protocols between processes that may be interrupted or
killed at any point. This directory models those protocols in TLA+, checks
them with TLC on small instances and proves the central ones with TLAPS.

Paths below are relative to the repository root (`src/src/lock/lock.cpp` is
`src/lock/lock.cpp` of the source tree).

## 1. Inventory

| Part | Source | State | Operations | Interacts with |
| --- | --- | --- | --- | --- |
| Lock manager | `lock/lock.cpp`, `lock/lock.h` | lock, request and owner blocks in shared memory, one table mutex | enqueue, convert, downgrade, dequeue, wait, deadlock scan, blocking AST, re-post, owner creation and purge | called by `jrd/lck.cpp`; calls AST routines of the engine from a signal handler |
| Engine lock interface | `jrd/lck.cpp` | per-attachment lock blocks, `lck_logical`, `lck_physical` | LCK_lock, LCK_convert, LCK_downgrade, LCK_release | page cache, transactions, shutdown, shadows |
| Page cache | `jrd/cch.cpp` | buffers, latches, precedence graph, dirty flags | fetch, mark, release, write with precedence, flush, `blocking_ast_bdb` | lock manager (page locks), disk |
| Transactions | `jrd/tra.cpp`, `jrd/tpc.cpp` | transaction inventory pages and their cache, header counters | start, commit, roll back, prepare, sweep, wait | lock manager (transaction locks), page cache |
| Record versions | `jrd/vio.cpp`, `jrd/dpm.epp` | chains of record versions | store, modify, erase, get, garbage collect, back out | transactions, page cache |
| Pages and indexes | `jrd/pag.cpp`, `jrd/btr.cpp`, `jrd/idx.cpp` | page inventory, B-trees | allocate, insert, split, garbage collect | page cache |
| Events | `jrd/event.cpp` | event, interest and process blocks in shared memory | queue, post, deliver, cancel | transactions post on commit |
| Shutdown, shadows | `jrd/shut.cpp`, `jrd/sdw.cpp` | database flags, shadow files | shut, online, roll over | lock manager data and ASTs |
| Bitmaps, compression | `jrd/sbm.cpp`, `jrd/sqz.cpp` | none | set, test, and, or; compress, expand, difference | records, queries |
| Request execution, optimizer | `jrd/exe.cpp`, `jrd/evl.cpp`, `jrd/opt.cpp`, `jrd/cmp.cpp` | request trees and impure areas | compile, start, receive, unwind | all of the above |
| SQL, remote, tools | `dsql/`, `remote/`, `gpre/`, `burp/`, `isql/`, ... | parse trees, packets | compile, transport, dump and restore | client API |

What is hard:

* *Lock manager.* Sections of the table are serial, but the signal handler and
  the waiting loop touch shared flags without the table; processes die with
  locks granted and are purged in the middle of somebody else's section;
  timeouts race grants; AST notices are lost and sent again; deadlock detection
  must agree with the grant order. It is correct if counts and queues are
  always exact, incompatible levels are never granted together, no grant is
  forgotten, no cycle goes undetected, and every wait ends.
* *Engine lock interface and page cache.* The level the engine believes it
  holds must be the one it holds; pages must reach the disk in an order that
  leaves the database consistent after a crash at any point.
* *Transactions and record versions.* A reader must see a consistent snapshot
  although state pages are cached and garbage is collected concurrently.
* *Events.* A posted event reaches every interested process once, across
  processes that come, go and die.

## 2. Plan

Done:

1. **LockTable**, the lock manager section by section, on which everything else
   in the engine relies, with **LockTableProofs** (types, counts, queues,
   compatibility, the walk of `post_blockage`) and **LockOrderProofs** (the order
   of grants, what the engine is told, the deadlocks found). **StrayWalk** goes on
   where that walk leaves its lock.
2. **SharedQueue**, the linked queues of the table and their repair, which
   refines **AtomicQueues**; **LockData**, the data of locks and the queries the
   transaction manager asks; both with proofs.
3. **EventManager**, the event table, its signals and deliveries, with
   **EventManagerProofs** (types, event blocks, counts, wakeups).
4. **PageCache**, careful writing, page locks and their blocking AST, with
   **PageCacheProofs** (types and latches, coherence, precedence, durability).
5. **RecordVersions**, snapshots, update conflicts and garbage collection, with
   **RecordVersionsProofs** (numbers, chains, no version lost) and
   **SnapshotProofs** (snapshot reads, no lost update).

To model later: the wake-up event of `wait_for_request()` and the nesting of
signal handlers (`isc_sync.cpp`, `isc_ipc.cpp`); an abstract lock service that
LockTable implements; local lock compatibility (`lck.cpp`); limbo transactions,
the state cache and the sweep; shutdown and shadows; record compression and
sparse bitmaps against reference definitions.

## 3. Modules

| Module | What it is |
| --- | --- |
| `LockTable.tla` | the lock manager: state, actions, properties, inductive invariant, fairness |
| `MCLockTable.tla` | level sets and symmetry for TLC; `LockTable_*.cfg` are its instances |
| `StrayWalk.tla` | what `post_blockage` does when the request it is to go on with was freed |
| `MCStrayWalk.tla` | level set and symmetry; `StrayWalk_stray.cfg` |
| `LockTableProofs.tla` | lemmas and theorems about LockTable, for TLAPS |
| `LockOrderProofs.tla` | the order of grants in LockTable, what the engine is told and the deadlocks found, for TLAPS |
| `AtomicQueues.tla` | what the shared queues promise: append and remove in one step |
| `SharedQueue.tla` | the linked queues store by store, deaths and repair; refines AtomicQueues |
| `MCSharedQueue.tla` | the stages a process dies in, for each run; `SharedQueue_*.cfg` |
| `SharedQueueProofs.tla` | the queues stay well linked, for TLAPS |
| `LockData.tla` | lock data, the data queues and the queries on them |
| `MCLockData.tla` | symmetry; `LockData_*.cfg` are its instances |
| `LockDataProofs.tla` | the data queues are exact, for TLAPS |
| `EventManager.tla` | the event manager: table, threads, signal handlers, fairness |
| `MCEventManager.tla` | sessions and event blocks of the instance; `EventManager_events.cfg` |
| `EventManagerProofs.tla` | event blocks and counts are exact, no wakeup is lost, for TLAPS |
| `PageCache.tla` | the page caches of several processes over one file |
| `MCPageCache.tla` | transactions and fetches of each process; `PageCache_*.cfg` |
| `PageCacheProofs.tla` | coherence, precedence and durability, for TLAPS |
| `RecordVersions.tla` | snapshot transactions over one record |
| `MCRecordVersions.tla` | symmetry; `RecordVersions_*.cfg` are its instances |
| `RecordVersionsProofs.tla` | no version is lost or freed twice, for TLAPS |
| `SnapshotProofs.tla` | reads are of the snapshot and no update is lost, for TLAPS |

The three parts of the lock manager are separate because they meet only in
serial sections of the table. LockTable takes a queue operation to be atomic,
which SharedQueue justifies for a process that dies in one; LockData takes the
decision to grant a request from LockTable and follows only what a grant does
to the data.

The modules above the lock manager use it through what it promises: PageCache
takes a page lock to be granted when it is compatible with the levels held and
the blocking AST to be posted to those in the way (`Compatible`,
`post_blockage`, `LCK_downgrade`); RecordVersions takes a transaction's lock to
be free exactly when the transaction has ended or its process is dead, and the
query of the least lock data to be exact, as `ExtremesExact` of LockData
states. RecordVersions in turn takes one page access to be one step, which
`Coherent` of PageCache justifies. EventManager shares nothing with the others
but the processes.

### LockTable

The build modelled is the POSIX Classic server (`USE_BLOCKING_SIGNALS`,
`USE_WAKEUP_EVENTS`, `HAVE_MMAP`, no `SUPERSERVER`, no manager process).

*State.* The fields of lock blocks (`lbl_*`), request blocks (`lrq_*`), owner
blocks (`own_*`) and the header (`lhb_owners`, `lhb_active_owner`) keep their
names. A queue is a sequence of requests; `own_requests` is a set because no
property depends on its order. A block is on the free list when it has no
owner (requests) or an empty queue (locks). Per process there are: whether it
is alive, whether a blocking signal is on its way, where its main thread is in
`wait_for_request` (`pc`), whether it runs a blocking AST (`ast`), the call it
is in (`op`), and what the engine recorded for each request (`lck_physical`).

*Sections.* Between `acquire()` and `release()` a process owns the table; `sec`
says what it still has to do there. Each loop of the code takes one step per
element:

| Stage of `sec` | Code |
| --- | --- |
| `enq`, `grant_or_que` | `LOCK_enq`, `grant_or_que` |
| `convert`, `downgrade`, `reset` | `convert`, called from `LOCK_convert` or `LOCK_downgrade`; its end after a rejection |
| `post` | `post_pending`, one pending request per step |
| `block` | `post_blockage` with `signal_owner`, one request per step |
| `stray` | the same after it left its lock (StrayWalk only) |
| `purge`, `probe`, `create` | `purge_owner`, `probe_owners`, `create_owner` |
| `probed`, `scan` | the rest of a turn of `wait_for_request`, with `deadlock_scan` |
| `ast` | `blocking_action2` |
| `release`, `unlock` | `release`, `release_mutex` |

What happens without the table interleaves with these steps: `WaitForTable` (a
process that finds the table taken sets `OWN_hung` and waits in `acquire()`),
`SignalIgnored` (the handler clears `OWN_signaled`, in a section or in
`acquire()`), `WaitOver`, `WaitWoken`, `WaitReturns` (the waiting loop and its
callers), `Crash`. `signal_owner` sends nothing to an owner with `OWN_signaled` or
`OWN_hung` (`SkipsSignal`), and then does not notice that it is dead either.

*Abstractions.* One owner per process, attached once (`own_count` is 1).
`deadlock_walk`, a depth-first recursion over flags, is given by the set of
requests it visits; which request of a cycle becomes the victim depends on
where the walk enters, so it is any of them. Time is left out: a sleeper may
wake at any moment, and a timed wait may expire whenever it wakes; this allows
every order of timeout and grant. Freed blocks are reset at once (the code
leaves their fields alone until they are allocated again) and any free block
may be allocated. A conversion passes the AST routine the request already has.
An AST routine makes at most one call, a dequeue or downgrade of a request
whose own call has returned. Lock data, history, statistics and remapping of
the table are left out. Processes die outside the table only, also while they
wait for it. That freed blocks are reset does not matter until somebody reads
one, which only `post_blockage` does; StrayWalk keeps what they say. `OWN_signal`
(a signal that failed) is set just before the owner is purged and is not kept.

### StrayWalk

`post_blockage` remembers the next request of the lock (3516) before it signals
the owner of the current one, and purges that owner if it is dead. When the next
request is the same owner's, it is freed. `release_request` moves it to
`lhb_free_requests` and leaves its owner, level and AST routine alone, so the walk
goes on there: first through what was freed after it (`StrayBlock`, with what
`freed` remembers of those blocks), then over the header of the free queue and the
blocks that were free before (`StrayOlder`, where what a block says is any value).
A block that looks like a blocking request is put on `own_blocks` of the owner it
names (`Notify`), although that owner block is free. The owner is signaled, not
purged again: a freed owner block has process id 0, and `kill(0, ...)` succeeds and
signals the process group. The walk ends only at a block that says EX.

LockTable has all steps but these: where the request that follows is free it has
no step, and `BlockageStaysOnLock` says that this does not come about. It needs a
process that asks twice for one lock (`"dup" \in Calls`; `LOCK_enq` allows it) and
dies. The engine does so for a transaction lock, when a transaction waits for
another one of the same process; those locks have no AST routine. A page lock,
which has one, belongs to one buffer and is asked for once per process.

### SharedQueue

*State.* The links of every header and node, the three fields of the secondary
header block that announce work in progress, whether an owner is marked active,
and the stage, queue and node of the one process that has the table. A stage is
named for the store that comes next: each store of `insert_tail`, `remove_que`
and the repair in `acquire()` is an action. `Die` may happen at any stage in
`DiesAt`; the next `Acquire` finds `lhb_active_owner` set and repairs.

`queued` records which nodes their callers take to be queued: from the store
that clears `shb_insert_que` until the one that sets `shb_remove_node`, the two
points from which a death no longer changes the outcome. `Forward` and
`Backward` are the links as `acquire()` would leave them if the process died
now; the refinement reads the abstract queues off them.

The node a process died with is removed once more if it is `Owned`, as
`purge_owner()` does for every request on `own_requests`. Owned nodes stand for
`lrq_lbl_requests`, the others for the links of lock and owner blocks.

*Abstractions.* All queues are alike: the code is the same. Stores take effect in the order of the source text, which the
code relies on without enforcing it. An owned node is taken to be on
`own_requests` during the whole operation, as it is when LOCK_enq inserts the
request into its lock and when LOCK_deq removes it.

### LockData

*State.* The name (parent, series, key) of each lock block, its `lbl_data`, the
number of its granted requests, the data its pending requests will write when
granted (`lrq_data`), and the queue of each series (`lhb_data`). A section is
one step. A conversion carries no data (`lrq_data` is zero after the first
grant) and is left out. The parents are locks that live as long as their
children, as the database lock does.

`tra.cpp` keeps the oldest active transaction of each transaction in the data of
its lock; `TRA_start` asks for the minimum (`LCK_MIN`) and
`TRA_active_transactions` whether there is any (`LCK_ANY`).

### EventManager

The build is the POSIX Classic server: one thread per process, EVENT_SIGNAL
handled on top of it.

*State.* The event blocks with their counts and the counts of minor events per
major one, sessions with their historical interests, requests with the
thresholds of their interests, process blocks with `PRB_wakeup` and
`PRB_pending`, and the mutex. Per process: `acquire_count`, where its thread is
(`at`: running, in `acquire()`, in a section, in `release()`), what it does next
(`op`), whether a signal is pending, and where its handler is. `told` is the
count a client was last given; `posted` and `seen` are history.

*Actions.* An API call (`CallQue`, `CallCancel`, `CallDelete`, `CallPost`,
`CallExit`) begins with the increment of `acquire_count`; `acquire` waits for the
mutex; `Acquired` runs the section of the call, one of `create_process`,
`create_session`, `que`, `cancel`, `delete_session`, `post`, `post_process`,
`exit_handler`; `release` has its steps in the order of the code, so that a
signal may come between any two of them; then `ISC_kill`. `HandleSignal` is the
entry of `deliver()`; `deliver` is one turn of its loop with `deliver_request`;
`ast_returns` is the end of the callback, outside of the table.

*Abstractions.* Names are values, the event block a set of events. The order of
sessions in a process's queue is that of their numbers. One request's callback
leaves the client with the counts it was told; a client queues again with
thresholds one above them, as `isc_event_counts` makes it do. Extending the
region and validation are left out.

### PageCache

The build is the Classic server without `PAGE_LATCHING`: latches are use counts
of the one thread, and other processes are kept out by page locks.

*State.* What the file holds, as the set of changes made to each page; each
change names the changes on other pages it refers to (`needs`), which is what
precedence is for. Per process: its buffers (contents, `bdb_flags`,
`bdb_transactions`, use count, level of the page lock), its precedence blocks in
force and cleared, the pages its caller holds, where its main thread is, the
stack of `write_buffer()` calls, the frames of `down_grade()` in its signal
handler, and the pages whose blocking AST is due.

*Actions.* `CCH_fetch` in its parts (`get_buffer`, `Reuse`, `lock_buffer`,
`Granted`, `ReadFails`, and the denials), `check_precedence` and
`InsertPrecedence`, `CCH_mark`, `CCH_release` and `Released`, `TRA_commit` with
`btc_flush` and `TRA_set_state`, `Unwind`. `write_buffer` is a recursion, one step
per page looked at or written (`WriteClean` ... `WriteFails`). The AST
(`blocking_ast_bdb`, `Ast*`) is the recursion of `down_grade`, one step per
element of its two loops; it runs on top of the main thread at any step.
A conversion (`LCK_convert_opt`) does not wait: if anybody is in its way it is
denied at once, without a blocking AST (`ConversionDenied`); `lock_buffer` then gives
the lock up and asks for it again, and waits (`Reseize`). Only that request, or one
for a page without a lock, posts ASTs and may be denied because of a deadlock.

*The callers.* What a client does with pages is taken from `btr.cpp` (3500-3530,
3997) and `dpm.epp` (extend_relation): a page is changed, released, and the page
that is to refer to it is given a precedence to it before it is marked.

*Abstractions.* The precedence search limit is left out (reaching it writes the
page, as closing a cycle does). Header and transaction inventory pages,
CCH_fake, the same page fetched twice, shadows, the journal and the Superserver
cache are left out. The dirty-page tree of `btc_flush` is the set it stands for.

### RecordVersions

*State.* The header page's counters, the transaction inventory, the data of
every transaction lock, each process's counters (`dbb`), its transaction with
its snapshot of the inventory, and one record: its versions by the place they
are stored in, each with transaction, back pointer, deleted flag and whether its
back version is kept as differences. Per process: what it does next, the version
in hand (`rpb`) and the rest of its request. `log` is history: the updates, with
what each had read.

*Actions.* Starting (`TRA_start` under the header page, `TRA_get_inventory`,
`Scan`, `Query`, `Settle`), reading (`Read`, `VIO_chase_record_version` one
version per step, `Regain`), garbage collection (`purge`, `expunge`,
`garbage_collect`, `Backout*`), updating (`VIO_store`, `DPM_chain`, `Update`,
`prepare_update`, `TRA_wait`, `Discard`), ending (`TRA_commit`, `TRA_rollback` with
or without undo, `TRA_release_transaction`) and `Crash`. A step is what is done
while one page is held. A bugcheck is a state `TypeOK` excludes. The case of a
dead version behind another one, for which the code has a branch of its own, is
left out of the chase (vio.cpp:640-685): `VersionsAreKept` proves that there is
none. The chase takes a latch of the next page that is never refused; the refetch
after a latch timeout (741, 790) is what `Regain` does without one. A rollback that
meets an error, before its undo or after it, leaves a dead transaction (`Undone`);
one in the middle of the undo is left out.

*Abstractions.* Concurrency (snapshot) transactions only; at most one update per
transaction; a version's data is its writer's number. A crash loses no page
(PageCache is about that). Limbo, read committed and the state cache, sweep,
savepoints, fragments, index and blob garbage are left out.

### Bounds

Every bound is a constant of the module: `Owners`, `Locks`, `Requests` (the
room in the table, so that it does run out), `MaxLocks`, `MaxCrashes`, and the
sets of arguments `Levels`, `Waits`, `AstArgs`, `Calls`. Two owners suffice for
the races of a signal, a timeout or a purge with a section; three owners are
used where order in the queue matters (a holder and two waiters). Page locks
use PR and EX only, as `cch.cpp` does; the run `timeouts` adds SW, the one level
that is not ordered with PR, and the proof covers all six levels. In `pages` both
owners may hold PR and convert to EX, which is the shortest deadlock there is; a
deadlock over two locks has the theorem `DeadlocksAreFound`.
Owners, requests and locks are interchangeable, which is used as symmetry in
all runs but the liveness run.

For the queues, two headers and three nodes give every neighbourhood (a header
alone, a node between header and node, two nodes) and a second queue to be
mixed up with; three deaths let a repair be interrupted and repeated.
For the data, three blocks under two parents give a queue in which another
parent's lock stands between two of one parent, and four requests let one lock
be held while others bring new data. Series without a queue
(`LCK_MAX_SERIES` and above) are covered by the proof only.

Events: two sessions of one process show the handler's loop going from one to
the next, the third belongs to the poster, which may be its own target; two
events, one in both blocks and one in a block only, let interest in one survive
the other; posting by two makes thresholds be jumped over. Pages: two processes
are every conflict there is; two pages with several changes make buffers go stale
and be read again, a third (run `careful`) makes chains and cycles of precedence,
and two buffers for three pages make a fetch reuse a dirty buffer. `cache` has a
buffer for each page: reuse of a buffer is in `careful`, and `Coherent` over it is
proved. The run `order` is searched under a constraint (`OneWriter`: one process
writes, the other reads one page), which only makes the violation quicker to
find. Versions: three processes are an updater, a reader that needs the old
version and a collector; two places for back versions give a chain
of three; three transactions on top of three old ones keep the counters of the
header apart; every second start cleans up after dead transactions.

## 4. Runs

| Run | Instance | Checks |
| --- | --- | --- |
| `pages` | 2 owners, 1 lock, PR/EX, wait or not, conversions, downgrades, prior requests, re-posts, 1 crash | `TypeOK`, `CountsExact`, `QueuesExact`, `EngineAgrees`, `NoMissedDeadlock`, `BlockageStaysOnLock`, `GrantKept` |
| `timeouts` | 3 owners, 1 lock, PR/SW/EX, timed waits | `CountsExact`, `NoForgottenGrant`, `GrantedCompatible`, `NoOvertaking` |
| `live` | 2 owners, 1 exclusive lock, owners leave and come back, 1 crash, fairness | `WaitEnds` |
| `stray` | 2 owners, 3 requests on 1 lock, several per owner, 1 crash | `FreedOwnerBlocksNobody` is violated |
| `recovery` | 2 queues, 2 owned nodes and 1 other, 3 deaths outside the windows of `WindowsClosed` | `WellLinked`, `QueuesAtomic` |
| `oldest` | 3 blocks, 2 parents or none, data 0 to 2, 4 requests | `ExtremesExact`, `CountExact` |
| `events` | 2 processes, 3 sessions, 2 events, 2 requests, 1 crash, fairness | `TypeOK`, `ExactCounts`, `BlocksExact`, `NoLostWakeup`, `Delivered` |
| `cache` | 2 processes, 2 pages, 3 transactions, 2 changes, 1 I/O failure, 1 crash | `TypeOK`, `Coherent`, `Durable` |
| `careful` | 2 processes, 3 pages in 2 buffers, 2 changes, one page written at once (must_write), fairness | `PrecedenceAcyclic`, `CarefulWrite`, `Answered` |
| `order` | 2 processes, 3 pages, 3 changes, no failure or crash | `DiskConsistent` is violated |
| `versions` | 3 processes, 2 places, transactions 4 to 6, 1 crash, one start at a time | `TypeOK`, `SnapshotRead`, `NoLostUpdate`, `VersionsKept` |
| `overlap` | the same without crash, starts overlap | `SnapshotRead` is violated |

The runs of LockTable, SharedQueue and LockData check for deadlock of the model.
The others may stop: their calls are bounded and processes die.

In `pages` a walk of `post_blockage` can be interrupted by the purge of a dead
owner, `BlockageStaysOnLock` says it goes on where it should, and `QueuesExact` is
about the whole queues, in every stage of a section. `live` leaves re-posts out:
each new call of the engine opens again the moment between the last look at
`own_blocks` in `release()` and the release of the mutex, in which a signal may be
ignored, and nothing bounds the calls.

What the properties of the last three modules say:

* `ExactCounts`: a client computes occurrences from two counts it was told; they
  are the occurrences there were, whatever others delete in between.
  `BlocksExact`: no event block is leaked or missing. `NoLostWakeup`: a satisfied
  request is always in somebody's hands. `Delivered`: it is delivered in the end.
* `Coherent`: who holds a page lock has the page. `DiskConsistent` (`order`): at
  every moment the file refers only to what it holds, so that a crash at any point
  is harmless. `PrecedenceAcyclic`: recursive writing ends. `CarefulWrite`: no page
  is written while one above it by a block in force is dirty. `Durable`: a committed
  transaction is in the file. `Answered`: nobody waits for a page for ever.
* `SnapshotRead`: a read sees the last version its snapshot has as committed.
  `NoLostUpdate`: an update has read what the update before it wrote.
  `VersionsKept`: each stored version is in the chain or in one process's hands,
  and no version behind another belongs to a dead transaction, on which the
  reader's walk and `VIO_backout` rely.

### Where the code differs from what it says

Three runs end with a violation.

`overlap`: `TRA_start` looks at the lock data of the other transactions only when
its own snapshot holds an older active one.
Let A(4) run while U(6) takes its inventory, let A delete the record and commit,
and let T(5), which started together with U, take its inventory then: T finds
nothing active, holds its own number to be the oldest active transaction, and
expunges the record U's snapshot still contains. The comment on that query
claims "the minimum of all all versions needed by all active transactions".
`versions` holds because its starts do not overlap; everything else about
concurrent readers, updaters and collectors is the same.

`stray`: o1 holds a lock with an AST routine, has another request for it, and
dies. o2 asks for the lock, `post_blockage` reaches o1's first request, cannot signal
o1, purges it, and goes on with the second, which is on the free queue now: the
blocks freed by the purge look like requests of o1 and are put on the `own_blocks`
of its free owner block. `validate_owner` asserts that nothing is there ("should not
be in loop for freed owner", lock.cpp:4669). The next owner that gets this block
(`init_owner_block` makes its queues empty) leaves those requests linked to a
header that does not know them.

`order`: p1 changes pages 1 and 3, and takes 2 to let it refer to 1
(`CCH_precedence`). `check_precedence()` tests that page 1 is dirty before it inserts
the block that puts 1 above 2; p2's request for page 1 comes in between
(`PRE_MUTEX` is empty in this build), the AST writes it, and the block stands
although page 1 is clean. Page 3 is then put above 1 by a caller that gives 1 up
without changing it, as one does that fails between `CCH_precedence` and `CCH_mark`
(`btr.cpp`: a second `CCH_precedence` may fail when it writes a page). Now 2 shall
refer to 3: `related` finds 3 above 2 already, through 1, and nothing is inserted.
`write_buffer` of 2 meets 1 clean, frees its blocks without writing 3, and writes 2
before 3. `CCH_precedence` promises that "the specified page will always be written
before the page associated with the window" (cch.cpp:3428). What the code keeps, and
is proved, is the promise for one block at a time (`CarefulWrite`): no page is
written while a page above it by a block in force is dirty.

The following differences were found the same way. Each property is in its
module; the instance that shows the violation is given with it.

* `PendingJustified` (LockTable, instance of `timeouts`): `validate_lock`
  asserts that a pending request is incompatible with the state of its lock or
  has a pending request before it. A request that times out is marked rejected
  in one section and released in the next; between the two the waiter behind it
  satisfies neither. Only a validating build notices; the clean-up grants the
  waiter (`NoForgottenGrant` in `timeouts` states exactly this exception and
  holds).
* `NoForgottenGrant` without the grant order option (LockTable, as `timeouts`
  with `LOCK_ordering = FALSE`, PR and SW, `Waits = {"wait"}`, `Calls =
  {"convert"}`): `post_pending` then goes on behind a request it refuses, and a
  pending conversion to a lower level it grants there may be what the refused
  one waited for. That one is looked at again only when somebody else releases
  the lock. The option is on by default (`config.cpp`), and with it the property
  is proved.
* `EngineAgrees` (LockTable, as `pages` with 3 owners, 3 requests, `Levels <-
  RecordLevels`, `Waits = {"wait"}`, `AstArgs = {TRUE}`, `Calls =
  {"downgrade"}`): `LOCK_downgrade` returns the level it computed from the
  waiters even when `convert` refused it because of another holder. Page locks,
  the only ones downgraded today, are not affected (`pages` checks the same
  property with PR and EX and it holds).
* `NoMissedDeadlock` (LockTable, as `timeouts` with `Levels <- ConvLevels`,
  `Waits = {"wait"}`, `Calls = {"convert"}`): with grant ordering a pending
  conversion waits for pending requests before it (`post_pending` stops at the
  first it cannot grant), but `deadlock_walk` follows granted requests only. A
  cycle through such an edge is not found, and all its owners are marked
  scanned. It also fails without conversions (3 owners, 2 locks, 5 requests,
  `Levels` = {SR, PW}, `Calls = {}`): o3 holds PW on l1, where o1 waits for PW
  and behind it o2 for SR; o2 holds PW on l2, where o3 waits for PW. The walk
  from o2 finds SR compatible with the PW held and with the PW ahead, so o2 waits
  for nobody; but `post_pending` stops at o1, so it does. This needs levels
  among which compatibility is not transitive (SR with PW twice, PW not with
  PW; also SR, PR and SW). With neither conversions nor such levels, and
  whenever the option is off, the property is proved.
* `QueuesUsable` (SharedQueue, all nodes `Owned`, `DiesAt = {}`, `OwnedDiesAt
  <- AtRemovalEnd`, 1 death): `remove_que` clears `shb_remove_node` before it
  resets the links of the node. A death in between leaves a node that the purge
  of its owner removes again, through links that may have become stale.
* `ReleaseReleases` (EventManager, instance of `events`): a signal that arrives
  in `release()` after the decrement of `acquire_count` and before
  `ISC_mutex_unlock()` is not ignored; `deliver()` then waits for the semaphore
  its own thread holds. `Delivered` names this state as its exception
  (`Stuck`).
* `InvalidNeverCommits` (PageCache, instance of `cache`): "Invalidate any
  active transactions that may have modified a page that couldn't be written"
  (`tra.cpp`, TRA_invalidate), but `TRA_commit` tests the flag before it
  flushes. An AST that fails to write a page between the two drops the change,
  and the transaction commits. `Durable` makes this one exception.
* `Answered` without its exception (PageCache, as `careful` with 1 failure):
  `write_buffer()` releases a page, without posting a blocked AST again, before
  it writes a higher page; if that write fails it returns, and the process that
  waits for the lower page is forgotten until the page is used again.

`QueuesUsable` shows one of three windows `WindowsClosed` excludes. The others
show the same way when they are opened:

* `DiesAt = {"ins_end", "ins_prior"}`: a death between the two stores that end
  `insert_tail` (or, stage `rec_prior`, those that end its undoing) leaves
  `shb_insert_prior` behind; a second one just after an insertion into another
  queue was announced makes `acquire()` tie the two queues together.
* `OwnedDiesAt` the stages of `insert_tail`: undoing an insertion does not reset
  the links of the node, although the request is already on `own_requests` and
  will be removed by the purge.

The run `recovery` and the proofs say that these are the only windows.

### Fairness

`FairSpec` assumes: a section runs to its end (it is straight-line code with
finite loops); a sleeper wakes, because its sleep is bounded by the deadlock
scan interval; the table mutex, a kernel semaphore with a queue of waiters, is not
withheld for ever from a process that waits for it (`Enter`); signals are delivered; an owner that has seen a blocking
notice gives up the lock or downgrades it, as the comment on
`LRQ_blocking_seen` in `post_blockage` promises. Nothing is assumed about new
calls. Strong fairness is needed where the table must be free: it is free
infinitely often, not continuously.

EventManager: threads and handlers go on, and who waits for the semaphore gets
it, since the kernel serves waiters in order (strong fairness of `Acquired` and
`deliver`). PageCache: calls that were entered go on, signals are handled, the
lock manager grants and posts (`WaitEnds` of LockTable), and a caller releases
the pages it holds. No call is assumed to be made.

## 5. Proofs

`LockTableProofs` proves for all sets of owners and locks, every finite set of
requests and all arguments, including any number of crashes, from `BlockagesFit`
(no process asks twice for one lock, or none dies):

| Theorem | States |
| --- | --- |
| `Invariance` | `Spec => [](IInv /\ BlockageInv)` |
| `TypeCorrect` | `Spec => []TypeOK` |
| `CountsAreExact` | `Spec => []CountsExact` |
| `GrantsAreCompatible` | `Spec => []GrantedCompatible` |
| `QueuesAreExact` | `Spec => []QueuesExact` |
| `BlockagesStay` | `Spec => []BlockageStaysOnLock` |

`ConstantsAssumption` says that the null values are not blocks, requests are
finite, and arguments are of their types. Without `BlockagesFit` the queues are not
exact: `stray` shows it.

*Argument.* None of these is inductive alone. A count stays natural because it
equals a cardinality, so `CountsExact` is needed for `TypeOK`; the counts stay
exact because a request is in one queue once (`QueueInv`) and because a
request is decremented only while it is counted, which needs that who is
pending is known to the waiter or its purger (`WaitInv`) and that a section
holds a request fit for its next step (`SecInv`: for instance, the request in
`grant_or_que` is not pending and holds nothing). Compatibility follows from
exact counts: the cached state is the strongest level held, and the matrix is
monotone along the levels except between PR and SW, which are incompatible
with each other. `IInv` is the conjunction of these; TLC checked it on the
instances above before it was proved. `BlockageInv` is why `post_blockage` stays on
its lock: it walks for a request of its own process (`ScanInv` and `StaysInv`), an
owner has one request for a lock (`OneRequestInv`), so purging the owner of the
current request frees neither the one that waits nor the next one.

*Layout.* Lemmas about levels, queues and cardinalities; one lemma for each of
the twelve ways in which a step changes the table (granting, releasing,
inserting, beginning a wait, rejecting, ...); one lemma per action that cites
them; `NextIInv`; the theorems.

`LockOrderProofs` proves, from the same assumptions:

| Theorem | States |
| --- | --- |
| `OrderInvariance` | `Spec => [](IInv /\ OrderInv)` |
| `NoGrantForgotten` | `LOCK_ordering` implies `Spec => []NoForgottenGrant` |
| `NewcomersWait` | `Spec => NoOvertaking` |
| `EngineIsTold` | `DowngradesFit` implies `Spec => []EngineAgrees` |
| `DeadlocksAreFound` | `DeadlocksFit` implies `Spec => []NoMissedDeadlock` |
| `HeldLevelsAreKept` | `Spec => GrantKept` |

*Argument.* `NoForgottenGrant` speaks of the moments when nobody is in the
table; `SettledInv` says what is true inside a section too: the first waiter of
a lock cannot be granted unless `post_pending` is at that lock or a rejected
request there has not been cleaned up by its owner. So every step that could
let a waiter in must lead to `post_pending` at that lock, and does: releases,
grants, and the owner of a rejected conversion. `RejectedInv` says who has still
to clean up, and that a waiter never asks for the level it has, so that a
rejection is always seen as one; this needs that a request fits the others at
its own level (`HeldFits`), which is compatibility again. The walk itself passes
only waiters it has granted (`WalkInv`), and a request that begins to wait
either could not be granted or, sent to the tail, has a waiter before it
(`MovedToTail`). `NoOvertaking` follows from `WalkInv` and the exact count of
pending requests; that `convert` never gives a request its first level is
`NewcomerInv`. `EngineAgrees` speaks of processes outside the lock manager;
`ToldInv` says what the engine knows while its call waits, is granted by
somebody else, or is rejected: the level from before the call until the answer
is the level asked for. It rests on a request asking for what its owner's
call asks for (`AnswerInv`), and on `convert` giving whatever `LOCK_downgrade`
has computed. That needs `DowngradesFit`: clients that downgrade do not ask for both
PR and SW on the locks of one table, which are the only two levels not ordered
by strength (`LowerLevel` shows that PR computed from SW is the only bad
case; section 4 has the counterexample). Without downgrades the theorem holds
for all levels. `GrantKept` needs only that whoever is purged is dead or purges
itself (`PurgeInvariance`). TLC checked `OrderInv` and `EngineInv` on the instances
above, and on some with conversions, prior requests, crashes and three requests
on one lock, before they were proved.

`DeadlocksFit` asks, with the grant order option only, that nobody converts and
that compatibility is transitive among the levels in use: one that is asked for,
one that waits ahead of it, and one that is held. Page levels (PR, EX) satisfy
it, and so do SR, PR and EX together; SR and PW do not (section 4). The invariant
is `DeadlockInv`. An owner waits for the one request its block names
(`WaitersInv`), and a scan starts from the request of the owner that scans
(`ScanInv`). `NoMissedDeadlock` says that a set of waiting owners, each waiting for
another of the set, has one that is not marked scanned. Every step but the scan
changes one request: an owner that begins to wait is not marked; one that is
granted waits no longer; and one that lowers its level lets in whoever the old
level let in (`LowerInv`). So none of them makes a deadlock of scanned owners
only (`DeadlocksKept`). The scan marks its owner when it has found nothing, and
then there was nothing. Each waiter of a deadlock leads the walk to another one
(`WalkStaysIn`): of those on its lock that its level is compatible with, take the
first. If that one waits for a holder, the walk follows the same holder, because
compatibility is transitive and holders stand before waiters (`HeldAheadInv`,
`HeldLevelInv`); if it waits for a waiter ahead, that is one the walk does not
pass over, because the first was the first. Only new requests wait
(`NoConversionInv`), for levels asked for (`AskedInv`). And a walk that never
leaves a finite set meets itself (`WalkMeetsItself`). Then `ScanFinds` a victim. TLC checked `DeadlockInv` on an instance with
two owners and two locks before it was proved.

*Layout.* What a request, a section and a lock need to keep (`RequestKept`,
`SettledKept`); steps that leave the locks alone (`QuietStep`) and steps that
work on one request (`WorksOn`); one lemma per action or group of actions; the
theorems. `EngineQuiet` and `EngineActs` do the same for `EngineInv`. For
`DeadlockInv` the walk first, then the ways the waits change, then one lemma for
each action or group of actions and each part of the invariant.

`SharedQueueProofs` proves, for all sets of headers and nodes and any number of
deaths:

| Theorem | States |
| --- | --- |
| `QueueInvariance` | `WindowsClosed` implies `Spec => []IInv` |
| `QueuesStayLinked` | `WindowsClosed` implies `Spec => []WellLinked` |

`WindowsClosed` excludes deaths in the three windows of section 4 and nothing
else. *Argument.* `WellLinked` speaks of the links as they would be
after a repair, so a store that announces work, or one in its middle, leaves it
alone only if the announcement describes the links correctly: `ShbInv` says
what may be announced in any state, `InsertInv`, `RemoveInv` and `RecoverInv`
what has been stored at each stage, `PurgeInv` that a node to be removed again
is queued or linked to itself, `ActiveInv` that a death inside is noticed. One
lemma per action; in each, the repaired links after the store are computed
first, and most stores turn out to leave them as they were.

`LockDataProofs` proves, for all sets of blocks, names and integer data:

| Theorem | States |
| --- | --- |
| `DataInvariance` | `Spec => []IInv` |
| `ExtremesAreExact` | `Spec => []ExtremesExact` |
| `QueryCountsAreExact` | `Spec => []CountExact` |

*Argument.* `IInv` says that names are unique and that a data queue holds
exactly the locks with data, once, ordered among those of the same parent.
Lemmas about removing from and inserting into a sequence carry it over every
operation; `ExtremesFollow` then finds the first and last lock of a parent.
The place `insert_data_que` stops at exists because a set of naturals has a
least element, taken from the library's well-founded orders. For the count, the
positions `LOCK_query_data` counts are mapped one to one onto the locks present
under the root, since the queue holds each of them once.

`EventManagerProofs` proves, for every finite set of processes, every finite set
of events, all sessions, and any number of requests, posts and deaths:

| Theorem | States |
| --- | --- |
| `Invariance` | `Spec => []IInv` |
| `TypeCorrect` | `Spec => []TypeOK` |
| `EventBlocksAreExact` | `Spec => []BlocksExact` |
| `CountsAreExact` | `Spec => []ExactCounts` |
| `WakeupsAreKept` | `Spec => []NoLostWakeup` |

`EventAssumption` asks that sessions have numbers and owners, events parents,
and that processes and events are finite (counts of them are compared).
*Argument.* `TypeOK` bounds the request numbers, so each call of `EVENT_que`
under way must have a number left (`NumbersLeft`), and `acquire_count`, so the
thread and the handler of a process must never both have it up
(`ThreadsCounted`). `BlocksExact` survives a call only if its session and process
are still as the call found them: `CallsFit` says that nobody but its own
process deletes them while it lives. `ExactCounts` needs to know why an event
block is not forgotten between two counts a client is told: its own session
keeps an interest in it (`CountsKept`). `NoLostWakeup` is stated through `Tended`,
which says in whose hands a satisfied request is; that it is inductive rests on
the order of the steps in `release` and `deliver`, on marks that are left only
with a process that has still to deliver, and on the scan passing a session
only when none of its requests is satisfied.
*Layout.* The ways the table changes first (`TableInv`), one lemma per action,
then the theorems.

`PageCacheProofs` proves, for every set of processes, pages and transactions, any
number of buffers, calls and changes, of failed reads and writes, and of deaths:

| Theorem | States |
| --- | --- |
| `Invariance` | `Spec => []IInv` |
| `TypeCorrect` | `Spec => []TypeOK` |
| `CachesAreCoherent` | `Spec => []Coherent` |
| `PrecedenceHasNoCycle` | `Spec => []PrecedenceAcyclic` |
| `CommitsAreDurable` | `Spec => []Durable` |
| `WritesAreCareful` | `Spec => CarefulWrite` |

`PageCacheAssumption` asks that page numbers are naturals and that no two
processes run the same transaction. *Argument.* That a use count is natural
(`TypeOK`) needs the sum it stands for: `LatchesExact` names every holder of a
latch, and `FramesApart` says that the frames of the handler are on pages of
their own, which the main thread does not use. This is also what lets the
handler change a buffer under the main thread: it only takes pages whose count
is zero. `Coherent` needs `LocksCompatible` (nobody else may write the page),
`NothingOverwritten` (a dirty buffer has all the file has), and that a caller or
a waiter keeps its lock (`WindowsLocked`, `WaitFits`). `PrecedenceAcyclic` survives
the insertion of a block because the test made before it stays true until
then, or because the lower page is being written, after which nothing is above
it (`PrecedenceFits`); an AST only removes blocks. `Durable` follows from
`ChangesKept` (a change not in the file is in a dirty buffer that names its
transaction) when `btc_flush` has passed all pages (`FlushFits`). `CarefulWrite`
needs `HigherSeen` for the handler: a page above is dirty only if its loop has
still to come to it; for `write_buffer` it is the condition of the loop.
*Layout.* Buffers, latches and sets of blocks first; then what a step of one
process must keep so that `IInv` stays, without frames (`CalmStep`) or on top of
them (`AstQuiet`, `AstFrame`); one lemma per action; the theorems.

`RecordVersionsProofs` proves, for every set of processes and places, any number
of transactions, reads and deaths, and starts that overlap at will:

| Theorem | States |
| --- | --- |
| `Invariance` | `Spec => []IInv` |
| `VersionsAreKept` | `Spec => []VersionsKept` |

`VersionsAssumption` asks that places and the two names are apart, that at least
three transactions have run before (`Init` takes the counters of the header from
them), and that the bound on numbers leaves room for them. *Argument.* A chain
is the least set closed under back pointers, so two facts about it need no
induction: it is inside every closed set, and a closed set stays closed when a
place outside it is written (`ChainSame`, `ChainOutside`). It loops nowhere
because versions fall along it (`ChainInv`), and they do because an updater has
read a committed version with a smaller number than its own; that this is so,
and that the version is still the primary one when `Update` replaces it, is
`ActInv`. A process may free what it has in hand because nobody else has it and
no chain leads there (`HandInv`), and it acts upon what it has read because a
number is used once: a number not yet written by its transaction is `Fresh`
everywhere, so a version found again under the page with the same transaction
and back pointer (`Same`) is the one that was read. That only dead transactions
are backed out rests on the locks: a transaction without one that is still
marked active has died (`NumbersInv`, `Gone`), and what the snapshot says of an
ended transaction stays true (`SnapshotInv`). *Layout.* Chains; numbers, locks and
counters step by step; steps that leave the record alone (`StillStep`) and
steps that write it (`MoveStep`, which asks what the step does to its own
process only); one lemma per action; the theorems.

`SnapshotProofs` goes on from there, for the same constants but with
`StartsApart`: at most one transaction starts at a time (`MaxStarting <= 1`).

| Theorem | States |
| --- | --- |
| `StartsAreSafe` | `StartsApart` implies `Spec => []StartInv` |
| `StoryInvariance` | `StartsApart` implies `Spec => []SInv` |
| `ReadsAreSnapshots` | `StartsApart` implies `Spec => []SnapshotRead` |
| `NoUpdateIsLost` | `StartsApart` implies `Spec => []NoLostUpdate` |
| `NoVersionDisappears` | `StartsApart` implies `Spec => []TypeOK` |

The code does not see to it that starts keep apart; `overlap` shows that without
it `SnapshotRead` fails. The theorems say that this is the only reason: all
else may interleave at will and processes may die anywhere. *Argument.* The
starter is the youngest transaction and everybody who runs is active in its
snapshot, so what it computes as oldest is old enough for all (`StartInv`): a
transaction committed below `tra_oldest_active` or below the oldest snapshot is
committed in every snapshot (`Safe`), because a number below which nobody runs
stays one (`Gone`). `HistoryInv` ties the record to the history: each version in
the chain is one of the updates kept, its back pointer leads to the update kept
before it, and a chain may end early only where nobody looks for more
(`NothingBefore`). So the chain changes in four ways only: not at all for those
who look at it, cut at its end (`purge`), its head taken back (`Backout`,
undo) or put before it (`Update`). `GoesOn` says what must be left of the story
and of each reader's view of it, and is shown of each of the four; `OthersRead`
takes the walks of all other processes over it. A walk is right because a reader has passed only what its
snapshot does not have (`WalkInv`); it ends with the answer `Expected` gives
(`AnswerInv`), which is `SnapshotRead`. `NoLostUpdate` follows for the updater: it
has read the last version its snapshot shows, `prepare_update` found that one on
top of the chain, and what was kept before it is then what it has read.
`NoBugcheck` is part of the invariant, since a lost version would be met on the
walk first. TLC checked `SInv` on the instance of `versions` before it was proved.

Only model-checked:

* Liveness (`WaitEnds`, `Delivered`, `Answered`), which the provers cannot do.
* The refinement `QueuesAtomic`: it reads a queue by following links any number
  of times, and needs induction over data.

What a theorem states only under a condition (`StartsApart`, `WindowsClosed`,
`BlockagesFit`, `LOCK_ordering`, `DowngradesFit`, `DeadlocksFit`) fails without it; section 4 has
the counterexamples.

## 6. Not modelled

See `components` in `PROJECT.json`. In the lock manager: table extension, death
of a process inside the table other than in a queue operation, the aggregates
SUM and AVG (no caller), several owners per process, the manager-process and
Superserver builds. In the event manager: extending the region, a death inside a
section (the semaphore is released, the table is not repaired), the threaded
builds. In the page cache: CCH_fake, header and inventory pages, shadows, the
journal, torn links when an AST meets an edit of a precedence queue, the
Superserver's cache writer. In transactions and records: two-phase commit, read
committed, the state cache, sweep, savepoints, fragments, blob and index garbage.

The rest of the repository (compilers, optimizer, remote
protocol, tools, character sets) is sequential translation and formatting, or
tables, with little state a model checker would reach further into than its
tests; it makes up most of its lines.

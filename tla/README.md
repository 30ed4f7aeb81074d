# Verification of the Bösen/Petuum parameter server

TLA+ models, TLC runs and TLAPS proofs for the parameter server in
`src/src/petuum_ps` and `src/src/petuum_ps_common`.

Contents: [1 The system](#1-the-system) ·
[2 Modules](#2-modules-and-how-they-correspond-to-the-code) ·
[3 Runs](#3-runs-bounds-and-what-they-show) ·
[4 Disagreements found](#4-disagreements-with-the-comments) ·
[5 Proofs](#5-proofs) ·
[6 Not modelled](#6-what-is-not-modelled) · [7 Plan](#7-plan)

## 1 The system

A *client* is a process with several application threads and, per communication
channel, one *background worker*; a *server* thread of each channel holds a part
of the rows of every table (the rows are hashed to channels and servers). In
the repository's deployment every process runs both clients and servers.
Application threads update rows (`Inc`), read them (`Get`) and end their
iterations (`Clock`). Under the *stale synchronous parallel* (SSP) model, a read
at clock `k` with staleness `s` must see every update made anywhere before clock
`k - s`, and all updates of its own process. SSPPush keeps that promise differently: servers
push rows that changed, and a read waits for one clock of the whole system.

### Components

| component | state it keeps | operations |
|---|---|---|
| Consistency controller (`consistency/ssp_consistency_controller.cpp`) | none of its own; uses process storage and oplog | `Get`, `Inc`, `BatchInc`, `DenseBatchInc`, `Clock` |
| Table group (`client/table_group.cpp`, `client/client_table.cpp`, `client/thread_table.cpp`) | `vector_clock_` of the process's threads; per thread its clock and the rows it updated | `Clock` (aggressive, conservative), `GlobalBarrier`, `CreateTable`, (de)registration of threads |
| Process oplog and oplog index (`oplog/`) | updates per row that were not sent; rows the next batch takes | `FindInsertOpLog`, `FindAndLock`, `GetEraseOpLog`, `AddIndex`, `ResetPartition` |
| Process storage (`storage/bounded_sparse_process_storage.cpp`, `clock_lru.cpp`) | cached rows with their clocks; second-chance eviction state | `Find`, `Insert`, `EvictOneRow` |
| Background worker (`thread/abstract_bg_worker.cpp`, `thread/ssp_bg_worker.cpp`) | `version_`, `client_clock_`, `pending_clock_send_oplog_`, `clock_advanced_buffed_` | one handler per message: clock, send oplog, row request, row reply, oplog ack, shutdown, table creation |
| Row request manager (`thread/row_request_oplog_mgr.cpp`) | pending requests per row; batches retained for replay; requests per version | `AddRowRequest`, `InformReply`, `AddOpLog`, `GetOpLog`, `CleanVersionOpLogs` |
| Message tracker (`thread/msg_tracker.cpp`), one per worker and per server | sequence numbers sent, acknowledged, received | `IncGetSeq`, `RecvAck`, `CheckSendAll`, `PendingAcks`; `RecvMsg` |
| Vector clock (`util/vector_clock.cpp`, `_mt`) | one clock per participant and their minimum | `AddClock`, `Tick`, `TickUntil` |
| Server (`server/server.cpp`, `server/server_thread.cpp`) | rows; `bg_clock_` per client; `bg_version_map_`; requests waiting for a clock | `HandleRowRequest`, `HandleOpLogMsg`, `GetFulfilledRowRequests`, `ClockUntil`, snapshots, shutdown |
| SSPPush server (`ssp_push_server_thread.cpp`, `callback_subs.hpp`, `server_table.cpp`) | per row: who subscribed, whether it changed; `pending_clock_push_row_` | `RowSubscribe`, `ServerPushRow`, `HandleBgServerPushRowAck` |
| SSPPush worker (`ssp_push_bg_worker.cpp`, `ssp_push_row_request_oplog_mgr.cpp`, `server_version_mgr.cpp`) | clock and acknowledged version per server; every batch not yet acknowledged by all | `HandleServerPushRow`, `ServerAcknowledgeVersion`, `OpLogIterInit`, `OpLogIterNext` |
| System clock (`ssp_push_bg_worker_group.cpp`), shared by a process | `bg_server_clock_`, `system_clock_`, its mutex and condition variable | `GetSystemClock`, `WaitSystemClock` |
| SSPAggr (`ssp_aggr_*`, `max_vector_clock.cpp`) | additionally: row importance, communication timing | early communication |
| Name node (`server/name_node*.cpp`) | connections, tables being created and who waits for them, workers shut down | start-up handshake, `CreateTable`, shutdown |
| Communication bus (`comm_bus/`) | zmq sockets | `Send`, `Recv` |

### How they interact

```
 app threads --Inc/Get--> process storage, oplog (shared memory, row locks)
      |                          ^
      | kBgClock, kBgSendOpLog,  | takes oplogs, replaces rows
      | kRowRequest              |
      v                          |
 background worker --kClientSendOpLog, kRowRequest--> server
      ^------ kServerRowRequestReply, kServerOpLogAck ----|
      |------ kServerPushRow ----> / <--- kBgServerPushRowAck (SSPPush)

 name node <-- kClientConnect, kServerConnect, kCreateTable, kClientShutDown -- workers, servers
           --> kConnectServer, kClientStart, kCreateTableReply, kServerShutDownAck
```

* Threads of a process share the storage, the oplog and the vector clock with
  each other and with the background worker. `Inc` and the worker's row
  replacement both hold the lock of the row's oplog, so the cached row and the
  oplog change together.
* Everything else is a message. zmq delivers the messages of one sender to one
  receiver in order, once; messages of different senders mix freely.
* A `Get` that misses blocks its thread until the worker says that the row has
  been inserted (`kRowRequestReply`), then looks the row up again.

### What is hard

* *Interleaving*: `Inc`, `Clock` of other threads, batching and row replacement.
* *Replay*: a row in a reply contains some batches of this process and not others;
  the worker must add exactly the missing ones, for which it must still have
  them, and must not keep batches for ever.
* *Flow control*: with `kMaxPendingMsgs` batches unacknowledged by any server the
  worker holds back further batches, and with them the clock they carry; a server
  holds back its pushes in the same way, and both hold back their shutdown.
* *One clock for all rows*: under SSPPush nobody looks at the clock of a row.
* *Locks taken too late*: the system clock is computed under one lock and stored under none.
* *Versions that wrap* around after 2^32 batches.
* *Start and end*: many processes connect, create tables and stop in any order.
* *Clocks that jump*: several clocks may reach a server in one message.
* *Eviction* between a reply and the look-up of the thread that waited for it; several
  workers that evict and insert in one storage at once, next to threads that find rows.
* *Unset memory*: `RowRequestInfo`'s copy constructor leaves `sent` unset.

The complete list, at the line where each one bites, is `hazards` in
`PROJECT.json`.

### What makes the components correct

* Table group and vector clock: the minimum is exact, and the return value says
  when it moved (`MinIsExact`, `AnswerTellsMove`).
* Storage, oplog and controller: own updates are always visible
  (`ReadMyWrites`), none is counted twice (`NoDoubleApply`), rows are not staler
  than their clock (`BoundedStaleness`).
* Process storage: rows that are referred to stay (`ReferredStay`), its map and its slots
  agree (`SlotsAgree`), concurrent insertions never exceed the slots (`InsertsFit`), find a free
  one (`ReportNoBug`), and each of them ends (`InsertsEnd`).
* Background worker and request manager: retained batches cover every reply
  on its way (`OplogKeptUntilReplied`), and nothing is retained without a request
  (`KeptOnlyForRequests`); a waiting thread has a request out
  (`WaitersHaveRequest`); a held-back batch has an acknowledgement coming
  (`HeldBackAwaitsAck`); no update and no clock is lost (`NoUpdateLost`, `AllClocksArrive`).
* Server: batches arrive in version order (part of `NoCheckFails`); only requests
  that cannot be answered wait (`OnlyUnfreshWait`, which fails: section 4). A woken thread finds
  its row, or the row was evicted again and again (`OnlyOplogOrFetchFails`).
* SSPPush: a high system clock makes every cached row readable
  (`SystemClockCoversCache`), a value that arrives can be brought up to date
  (`RetainedForReplay`), a request can be answered at once (`RequestsAnswerable`), a push that is
  held back is made (`HeldPushAwaitsAck`), and all caches converge (`CachesConverge`).
* System clock: never ahead (`NeverAhead`), no wake-up lost (`SleepersAreNotified`),
  every wait ends (`WaitsEnd`).
* Versions: the minimum is the slowest server's (`MinIsOldest`), replay is exact
  (`ReplayExact`, which fails when a version wraps: section 4; `ReplayExactInLap` is what holds), exactly
  the right batches are retained (`RetainedSpec`).
* Start and end: each receive gets what it expects (`NoCheckFails`), a table exists
  everywhere before it is used (`TablesBeforeUse`), the system comes up and down (`Terminates`), no clock
  is lost at the end (`ClocksApplied`), no message remains (`NothingUnread`), and a shutdown that waits
  has an acknowledgement coming (`HeldShutDownAwaitsAck`).
* The whole: a table of sets of updates with bounded staleness
  (`SSPStore`, refined by `SSP` and by `SSPPush` as `StoreSpec`), in which every `Get` returns
  and all updates arrive (`Convergence`).

## 2 Modules and how they correspond to the code

`map` in `PROJECT.json` gives the source lines of each definition.

**`RowRequests`**: the row request manager of one background worker as a value
with its operations as operators (no variables): `AddRowRequest`, `InformReply`
(`PopServed`, `ClockToRequest`, `Renewed`), `AddOpLog`, `GetOpLog`,
`CleanVersionOpLogs`. The counter map `version_request_cnt_map_` is a function of
the listed requests and is recomputed (`RequestVersions`). The do-while loop that
deletes versions is a range, the loop of `InformReply` a fold over the requests it
pops, because what one pop deletes depends on the requests the next still finds. The
uninitialised member `sent` of a listed copy is the parameter `garbage`, which the
caller chooses freely.

**`SSP`** (extends `RowRequests`): one communication channel: application threads,
the process-wide state of each client, one background worker per client, the
servers, and the channels between them.

| action | code |
|---|---|
| `Inc` | `SSPConsistencyController::Inc`; `BatchInc` and `DenseBatchInc` take the same locks for several columns (which column an update reaches is not modelled) |
| `GetCached`, `GetFetch`, `GetResume` | `SSPConsistencyController::Get`: hit; miss with `RequestRow`; the loop after the wake-up |
| `ClockFlush`, `ClockTick` | `TableGroup::ClockAggressive` / `ClockConservative`: the flush of the oplog index; the tick and the message |
| `Evict` | `BoundedSparseProcessStorage::EvictOneRow`, of any cached row that is not `pinned`, at any time |
| `BgClock`, `BgSendOpLog` | the cases `kBgClock`, `kBgSendOpLog` with `HandleClockMsg`, `PrepareOpLogsToSend`, `CreateOpLogMsgs`, `SendOpLogMsgs`, `TrackBgOpLog` |
| `BgRowRequest` | `CheckForwardRowRequestToServer` |
| `BgRowReply` | `HandleServerRowRequestReply` with `UpdateExistingRow` / `InsertNonexistentRow` and the replay of old oplogs |
| `BgOpLogAck` | the case `kServerOpLogAck` with `RecvAck` |
| `ServerRowRequest` | `ServerThread::HandleRowRequest` |
| `ServerOpLog` | `ServerThread::HandleOpLogMsg` with `ClockUntil`, `GetFulfilledRowRequests`, the replies and the acknowledgement |

Data abstraction: an update is a tuple `<<thread, clock, n>>`, the value of a row the
set of updates added up in it. The history variable `twice` records an update
that any addition met a second time; while it is empty, sets and sums agree. Rows
are of one table; several columns of a row behave alike.

Steps are atomic where the code holds a lock or runs in one thread: a worker or
server handler reads and writes only state of its own thread and, row by row, under the
oplog lock, the row in question. `Clock` is two steps, because another thread's
batch may fall between the flush and the tick. Taking a batch walks over the rows one by
one; an `Inc` between two rows commutes with it, since each property looks at one row.
`version_ - 1` before the first batch is the unsigned representation of -1 in the code, and
-1 in the model; versions stay below the bounds of the runs.

The variable `pinned` holds the rows a `Get` found stale: its accessor then counts two
references and gives back one, so the row is never evicted (section 4, item 6). `SetClock` after
the replacement of a row belongs to the same step: the fetching thread is still blocked, and
another one that reads between the two sees a newer row under an older clock. `want.since` is history: how
many rows the process had evicted when the `Get` asked for its row.

A failed `CHECK` aborts the process. In the model it sets `failed` to its name
and nothing happens any more.

**`SSPStore`**: what the application is promised: `Inc`, `Get`, `Clock` over the
variables `made`, `clock`, `got` only, with no servers, messages or caches. A `Get`
returns any set of updates that contains the *due* ones (older than the staleness bound,
or of its own process, or seen by its previous `Get` of the row). `got` records both what a `Get`
had to see and what it saw, so that a `Get` which returns too little is never mistaken for
a stuttering step. `SSP` implements it with
the identity refinement mapping on these three variables (`StoreSpec`).

**`VectorClock`**: the vector clock. `TickUntil`, a loop over `Tick`, is modelled
step by step; `VectorClockMT` holds its lock across it, so other operations wait.
`SSP` uses closed forms of it: `MinClock` and `Max({old, new})` for `ClockUntil`;
the theorems about it in `SystemClockProofs` say they agree.

**`ProcessStorage`**: the bounded sparse storage of one process, the refinement of what `SSP`
calls `storage`, `Evict` and `pinned`. Several background workers insert into it (one per
communication channel: the only place where channels meet), application threads find
rows in it and hold them.

| action | code |
|---|---|
| `Get`, `GetAgain`, `Release` | the two `Find` calls of `SSPConsistencyController::Get` with one accessor; the accessor's destructor |
| `Update`, `Updated` | a reply for a cached row: `Find` in `HandleServerRowRequestReply`; the end of the handler |
| `Insert`, `EvictOneRow` | `++num_rows_` and the comparison with the capacity; `--num_rows_` of an evicting worker |
| `Probe` | one turn of `ClockLRU::FindOneToEvict` |
| `Candidate` | the rest of `EvictOneRow`'s loop under the row's lock, with `NoEvict` or the first half of `ClockLRU::Evict`, which empties the slot and puts it into the queue |
| `Evicted` | the second half: the locks of the slot and of the evicted row are released |
| `Claim`, `Fill`, `Put` | the second half of `Insert`: `FindEmptySlot`; the slot's lock, its `CHECK` and its contents; the map |

A worker's program counter says which locks it holds (`RowLocked`, `SlotLocked`), so that
a lock held while waiting for another one is visible, and one that is released before anyone
can wait is not. `stale_` is an array of atomic flags, the hands and `num_rows_` are atomic counters: each is
touched in a step of its own. `Probe` looks at flag, lock and contents of a slot in one step, that of its `TryLock`: a flag that
changes in between changes nothing ("we don't care", says the code). Rows are
locked by stripes, `row_id % capacity`, as in the code.

**`SSPPush`** (extends `SSP`): the SSPPush model of the same system. Its classes derive from those
of SSP, and so do its actions: what the derived classes override or extend is written anew,
the rest is SSP's action with the new variables unchanged.

| action | code |
|---|---|
| `PushGet`, `PushGetBlock`, `PushGetUnblock`, `PushGetResume` | `SSPPushConsistencyController::Get`: system clock high enough; `WaitSystemClock`; its return; the fetch loop |
| `PushInc`, `PushClockFlush`, `PushClockTick`, `PushEvict` | SSP's |
| `PushBgBatch` | SSP's `BgClock`, `BgSendOpLog`, with `SSPPushRowRequestOpLogMgr::AddOpLog`, which always retains |
| `PushBgOpLogAck` | the case `kServerOpLogAck` with `ServerAcknowledgeVersion` |
| `PushBgRowRequest` | `CheckForwardRowRequestToServer`, where any cached row will do |
| `PushBgRowReply` | `HandleServerRowRequestReply` with the replay by `OpLogIterInit`, `OpLogIterNext` |
| `PushBgRows` | `HandleServerPushRow`, `ApplyServerPushedRow`, the clocks, the acknowledgement |
| `PushServerRowRequest` | SSP's, with `RowSubscribe` |
| `PushServerOpLog` | `HandleOpLogMsg` with `ServerPushRow` and `CreateSendServerPushRowMsgs` |
| `ServerPushAck` | `HandleBgServerPushRowAck` |

A push is one message per client, or two when the rows in `Fill` fill the first; only the last
carries the clock. A client has one worker here, so the minimum over the workers of a process is
that worker's own. `systemClock` may start with any value of `Uninitialised`: the code
never initialises `system_clock_`.

**`SystemClock`** (extends `VectorClock`): one process with several workers and threads around
`bg_server_clock_` (a `VectorClock`, locked while ticked), the atomic `system_clock_`, and the mutex and
condition variable of `WaitSystemClock`. Every access to shared memory is a step of its own: `Pushed`,
`Ticks`, `TickEnds`, `Store` and `Notify` of a worker; `Get`, `Lock`, `Check`, `Sleep`, `WakeSpuriously`
and `Leave` of a thread. `GetsEveryClock` says whether the application reads between any two
clocks. Of the servers it knows that they push any clock up to that of the process itself, that is,
that other processes keep up.

**`ServerVersions`**: one worker's view of several servers through versions of `Width` bits that
wrap around: `SetServerVersion` with its two ways to find the minimum (`NewMin`, `Older`), the deletion of
batches in `ServerAcknowledgeVersion` (`Deletable`), the comparison and iteration of the replay
(`Replays`, `ReplayCheck`, `Replayed`). `sent` and `known` are history: they count without wrapping.
**`RetainedBatches`** is what it should do, stated without versions: a batch is kept from when it is sent
until every server is known to have it. The refinement (`RetainedSpec`) maps the retained list to its set.

**`Lifecycle`**: several processes from their start to their end, each with its application threads, and a
worker and a server for each channel; one runs the name node. Each thread is at a place in its program
(`at`), and a receive is an action that takes the first message of a FIFO link, if that receive
would look at the link: a worker waits for the name node with `RecvInProc` or `RecvInterProc`, and
`HandleCreateTables` takes `RecvInProc` and `RecvAny` in turn (`Looked`). Barriers are joint steps.

| action | code |
|---|---|
| `NameNodeConnection`, `ServerConnection`, `BgConnectServers`, `BgStart` | `InitNameNode`, `InitServer`, `BgServerHandshake` |
| `InitBarrier`, `BgInitThread` | `BgWorkerGroup::Start` and `AppThreadRegister`; `RecvAppInitThreadConnection` |
| `CreateTable`, `TableCreated`, `BgCreateTable`, `BgTableCreated`, `BgAllTablesCreated`, `NameNodeCreateTable`, `NameNodeCreateTableReply`, `ServerCreateTable`, `CreateTableBarrier` | table creation, from `TableGroup::CreateTable` to `CreateTableDone` |
| `RegisterThread`, `RegisterBarrier`, `Clock`, `DeregisterThread`, `ShutDown` | `TableGroup`; `ShutDown` is its destructor |
| `BgConnect`, `BgClock`, `BgOpLogAck`, `BgPushRow`, `BgDereg`, `BgShutDownAck` | cases of the worker's message loop |
| `ServerOpLog`, `ServerPushRowAck`, `ServerShutDown`, `NameNodeShutDown` | cases of the servers' and the name node's loops |

The message tracker is a count of unacknowledged messages per destination; rows and requests are left
to `SSP` and `SSPPush`. Each thread's connection message is on its way at the start. As the interface
demands, threads register after `CreateTableDone()` (`ps_table_group.hpp:72-73`), and the
initialising thread, which here accesses tables too, stops after the others (`ps_table_group.hpp:52-54`). There
is at least one table: with none, `HandleCreateTables` waits for `kCreatedAllTables`, which the name
node sends only from the handlers of table messages.

**`MCSSP`, `MCSSPPush`, `MCSystemClock`, `MCServerVersions`, `MCProcessStorage`, `MCLifecycle`**: the constants
of the TLC runs.
**`SSPProofs`, `SSPStoreProofs`, `SSPPushProofs`, `SSPPushCacheProofs`, `ServerVersionsProofs`, `SystemClockProofs`,
`ProcessStorageProofs`, `LifecycleProofs`**: see section 5. The first four extend one another in this order: SSPPush keeps
`SSP`'s channels, versions and request lists, so the lemmas about `SSP` serve both.
`SystemClockProofs` has the theorems about `VectorClock` too.

## 3 Runs, bounds and what they show

| run | instance | shows |
|---|---|---|
| `paired` | 2 clients with one thread each, one reads and one writes, 2 servers of which one has no rows, window 1, staleness 1, 2 clocks | no `CHECK` fails, requests, replies and retained batches fit together, no update or clock is lost, bounded staleness, refinement of `SSPStore`, every `Get` returns and all updates reach the server |
| `local` | 1 client with two threads, aggressive clocks, window 1, one eviction | the process sees its own updates, each once; retained batches are released; only `GetOpLog`'s `CHECK` fails |
| `push` | 2 clients with one thread each, both write and one reads, window 1, staleness 0, 2 clocks, 2 updates and evictions in all; the row fills a push message | under SSPPush: the same promises (`SSPStore`, own updates), and that the system clock, the subscriptions and the retained batches carry them |
| `system_clock` | 2 workers, 2 threads, clocks up to 4, staleness 1 | vector clock exact between any two steps; system clock never ahead; no lost wake-up; every wait ends |
| `versions` | 3 servers, versions of 2 bits, 3 batches under way, 9 batches | versions wrap twice; minimum and retained batches are exact, and so is replay unless a version wraps in between; refinement of `RetainedBatches` |
| `storage` | 3 workers, 2 threads with 2 `Get`s each, 4 rows in a storage of 2 | referenced rows stay, slots and map agree, insertions fit, no "Report bug" `CHECK` fails, every insertion ends |
| `startup` | 2 clients (2 threads and 1), 2 channels, 1 table | handshake and table creation in every order; the system comes up and goes down |
| `shutdown` | 2 clients, 1 channel, 2 tables, 2 clocks, window 1, pushed rows | shutdown while batches and pushes are outstanding or held back; no deadlock |
| `oplog_deleted`, `system_clock_behind`, `minimum_jumps`, `version_wraps` | as small as each needs | the disagreements 1 to 4 of section 4 |

Six more instances are kept as `.cfg` files. They are not among the runs of `PROJECT.json`, and are run by hand,
as `tlc -config overtaken.cfg MCSSP`:

| instance | module | shows |
|---|---|---|
| `overtaken` | `MCSSP` | passes: with two writing threads in one process and a reader in another, no clock arrives without the updates made before it, though one thread's tick sends what another has flushed (`BoundedStaleness`, `StoreSpec`) |
| `retried` | `MCSSP` | passes: `local` without updates and with three evictions, so that a `Get` is retried. Only `GetOpLog`'s `CHECK` fails, and the one on `num_fetches` after three evictions within one `Get` (`OnlyOplogOrFetchFails`); both do fail |
| `request_unsent` | `MCSSP` | violates `WaitersHaveRequest`: section 4, item 5 |
| `storage_leak` | `MCProcessStorage` | violates `InsertsEndWithinAccessors`: section 4, item 6 |
| `clock_overwritten` | `MCSSP` | violates `AllClocksArrive`: section 4, item 7 |
| `system_clock_unset` | `MCSSPPush` | violates `SystemClockCoversCache`: section 4, item 8 |

Each property of a passing run is also checked against a deliberately wrong definition,
kept next to the right one and marked *Mutant*: with it, TLC finds the property violated. None of
them therefore holds by the shape of the model.

Bounds, all in guards or constants: `MaxClock` (a thread stops calling `Clock`), `MaxIncs`
(updates per thread, row and clock), `MaxEvict` (evictions per client), the sets `Writers`
and `Readers` (which threads' application code updates and reads). Why they suffice: two
clocks with staleness 1 make a `Get` find its row fresh, stale or absent, make requests wait
at the server, and let a batch overtake a request in both directions; a window of one makes
every second clock wait for an acknowledgement; two threads per client are needed and enough
for two requests of one row with different clocks to be out at once. The window of the build is
200 (`kMaxPendingMsgs` in `constants.hpp:14`); the model takes it as a constant because only
whether it is exhausted matters.

`paired` has one thread per client and therefore no two requests for one row: there the
system has no fault, and liveness and `NoCheckFails` hold. With two reading threads
(`local`, `retried`) `GetOpLog`'s `CHECK` may fail (section 4), which is why these instances
do not check deadlock and why their invariants are about the states up to the failure. `local` has one eviction, and
the `CHECK` on `num_fetches` needs three: `retried` has them, and the theorem `GetFindsFreshRow` is about any number.
What takes two threads of a process and another process is in `overtaken`, where only the other process reads; for
any threads it is the theorems `StoreImplemented` and `StalenessBounded`.

In `ProcessStorage`, `MaxGets` bounds the calls of one thread; `MaxRounds` is 2 for the
code's 20 (`MAX_NUM_ROUNDS`): giving up the search is a modelled outcome, and a longer search
only makes it rarer. The hand is kept modulo the capacity. Two slots, four rows on two
stripes and three workers let two workers evict while the third inserts, with rows of the same
stripe on both sides. In this run the system may really stop, by the `FATAL` of a search that is
given up while all rows are referred to; hence `CHECK_DEADLOCK FALSE`.

In `SSPPush`, `MaxEvents` bounds updates and evictions together; a push is at most two messages. With one
server the retained batches depend on one acknowledged version only; `ServerVersions` has three
servers, and versions of two bits, of which three may be under way: the smallest numbers with which the
order of versions from before and after the wrap-around matters. `MaxReports` bounds the
messages of a server on their way. A `CHECK` that fails in `ServerVersions` is a deadlock, which its run checks.
In `SystemClock` four clocks with staleness 1 let two workers be two ticks apart while a thread waits.
`startup` has no clocks (`MaxClock` 0), as the window plays no part in it; it has the second channel, whose
workers and servers start and shut down on their own. The system then stops for good, and `Terminates` says that it
stops nowhere else; hence `CHECK_DEADLOCK FALSE`. `shutdown` checks deadlock and has one channel.

**Fairness** (`FairSpec` of `SSP`, `PushFairSpec` of `SSPPush`): for each link, the receiving loop
takes what waits in it some time (weak fairness per link): workers and servers take messages in an endless loop
from sockets zmq serves in turn. Weak fairness also of the wake-up of a blocked thread and of `Clock`, as an application
that stops clocking stops everyone by design. `Inc`, `Get` and `Evict` may or may not
happen.

`SysFairSpec` of `SystemClock`: workers take what is pushed, threads run. Acquiring the mutex
(`Lock`, `Notify`) is strongly fair: it is free again and again, and whoever waits for it gets it some
time. Nothing wakes a sleeping thread but a notification that is sent; a spurious wake-up may happen and
is not relied on.

`FairSpec` of `Lifecycle`: something that can happen does (weak fairness of the whole, `Clock` aside). There
are finitely many messages, so no thread needs fairness of its own.

`FairSpec` of `ProcessStorage` is weak fairness of each worker's next step and of a woken thread's
second look. How long the application keeps an accessor is up to it; a spinning lock is not
assumed to be fair. `InsertsEnd` is about executions in which from some time on there are enough rows
nobody refers to, as the code's comment demands.

## 4 Disagreements with the comments

Each of the first eight is shown by an instance that checks one property taken from a comment in the
source: the first four, which take several actors or a wrap-around, are runs of `PROJECT.json` and described with their traces under
its `findings`; the others are shown by instances run by hand (section 3).

1. `oplog_deleted`: "An oplog cannot be deleted until all row requests sent prior to
   its version (exclusive) have been replied" (`row_request_oplog_mgr.hpp:104-106`). One
   reply satisfies two listed requests of which both were sent, the second with a
   smaller clock; the reply to the second then needs a batch that was not kept.
2. `system_clock_behind`: "a locally shared clock to denote the minimum clock that the entire
   system has reached, which determines if a local thread may read a local cached copy of the row"
   (`ssp_push_bg_worker_group.hpp:18-22`). Two workers store their minima in the wrong order, and
   the system clock stays below a minimum that the system has reached. It recovers with the next
   minimum; but a thread that calls `Clock()` several times before its next `Get`, as `GlobalBarrier` does, may
   then wait for ever. With a `Get` at every clock each wait ends (`WaitsEnd`). It takes a worker whose `TickUntil`
   moves by two or more clocks at once, that is, a push or a batch held back by the window.
3. `minimum_jumps`: "not fresh enough, wait" (`server_thread.cpp:192`). Requests wait under an exact clock, and
   `GetFulfilledRowRequests` looks up those of the new minimum only. When the minimum jumps over a clock, the requests
   that wait for it stay queued although the row is fresh enough, and their threads wait for ever. The minimum jumps
   when a held-back clock joins the next one in one batch, that is with 200 unacknowledged batches (1 in the run).
4. `version_wraps`: "OpLogs that are after (exclusively) version should be applied" (`ssp_bg_worker.cpp:282`). When a
   version wraps around between the last batch a row contains and the worker's next one, `version + 1 < version_`
   fails (`ssp_bg_worker.cpp:262`) and nothing is replayed: the process misses its own updates until the row comes
   again. `ReplayExactInLap` says what remains true. It takes 2^32 batches (4 in the run).
5. `request_unsent`: "If not, send the current request; otherwise, wait for server
   response" (`row_request_oplog_mgr.hpp:76-83`). The listed copy's `sent` is
   unset memory, and may claim that a request was sent.
6. `storage_leak`: "we require that capacity - number of referenced rows to be larger than or
   equal to the number of concurrent insertion threads" (`bounded_sparse_process_storage.hpp:48-50`), where
   the count is the "number of references used by application" (`client_row.hpp:19`). `SetClientRow`
   does not clear the accessor, so a `Get` that found its row stale leaves a reference behind. When
   such rows fill the storage, an insertion searches for ever although no accessor refers to a row.
7. `clock_overwritten`: "its clock will be kept track of" (`ps_table_group.hpp:96-98`), and aggressive clocks should
   cost only performance (`configs.hpp:118-121`). A process clock that is held back is overwritten by a later
   plain batch request (`clock_advanced_buffed_`, `abstract_bg_worker.cpp:425`), and if it was the last one it never reaches
   the servers. Takes a full window, aggressive clocks and two threads. Under SSPPush all readers then wait.
8. `system_clock_unset`: the comment of `system_clock_behind` (`ssp_push_bg_worker_group.hpp:18-22`) once more.
   `system_clock_` is not initialised (line 31). With a positive value in its memory a `Get` takes for
   reached what nobody has reached, and `SystemClockCoversCache` fails as soon as a process caches a row to
   which another has made an update (and `NeverAhead` of `SystemClock` in the first state).

One more has no instance, because it needs a detail that the models abstract:

9. `DenseBatchInc` of a range that starts at column `index_st > 0`: the function for dense oplogs
   (`ssp_consistency_controller.cpp:176-188`) starts at the oplog's column `index_st` and then adds `updates[col_id]` at
   offset `col_id = i + index_st` again, while the one for other oplogs (190-200) adds the i-th update to column
   `index_st + i`. The two agree for `index_st = 0` only.

## 5 Proofs

TLAPS proves, for every value of the constants that satisfies `SSPAssumption`, `SSPPushAssumption` (which
adds that there are finitely many servers: a process takes the minimum over them),
`VectorClockAssumption`, `SystemClockAssumption`, `ServerVersionsAssumption`, `StorageAssumption` or `LifecycleAssumption`:

* `SSPProofs!TypeCorrect`: `Spec => []TypeOK`. The invariant is inductive as it
  stands. Lemmas about the operators of `RowRequests` say which manager it returns and
  that what it inserts comes from its arguments; minima and maxima of
  finite sets come from the well-foundedness of the strict subset order
  (`FiniteHasLeast`, `FiniteHasGreatest`).
* `SSPProofs!UpdatesNeverLost`: `Spec => []NoUpdateLost`. `UpdatesInv` adds
  to types and `NoUpdateLost` that a message to a server carries updates of that
  server's rows only (`RightServer`): without it, applying a message to all rows could
  add updates nobody accounts for. An update then moves from the oplog into
  the channel of its row's server (`BatchUpdates`) and from there into the row
  (`ServerOpLogUpdates`); sending and taking are statements about what the messages
  of a sequence carry (`CarriedAppend`, `CarriedTail`).

  The next eight are layers of one inductive invariant of `SSP`. So that a layer need not look at every action
  again, `StepEffect` says once what a step does to the values of rows (`Effect`): it makes an update (`Inc`), sends
  a batch (`Batched`), replays batches on a row (`Replayed`), applies a batch (`AppliedBatch`), or none of these
  (`Quiet`). Each layer has one lemma per effect.
* `SSPProofs!BatchesInOrder`: `Spec => []OrderKept`. `ChannelInv`: the batches between a worker and a server
  have exactly the versions from the one the server applied to the one the worker sends next, in order, and the
  acknowledgements those from the last one received to the one applied (`InOrder`). Hence the `CHECK`s on `bg_version` and in
  `RecvAck` never fail.
* `SSPProofs!HeldBackIsSent`: `Spec => []HeldBackAwaitsAck`. `ChannelInv` also says that a batch is only held back
  while the window is exhausted (`HeldBackWaits`): the batches that are not acknowledged are then in one of the two
  channels.
* `SSPProofs!NothingAppliedTwice`: `Spec => []NoDoubleApply`. `ApartInv`: the row at the server, the batches on
  their way, and the oplog hold different updates of a process, the retained batches hold different ones too, and a reply
  holds none of a retained batch newer than its version. Versions alone do not say that; it takes `OwnInv`: an
  update that is made is a new one (`MadeNumbered`) and is in one of these places (`Accounted`).
* `SSPProofs!OwnWritesRead`: `Spec => []ReadMyWrites`. `Rebuildable`: the value in a reply, the retained batches
  newer than its version and the oplog together hold all updates of the process, as long as none of those batches is missing.
  A reply becomes stale on its way, and each batch that is sent meanwhile keeps it rebuildable.
* `SSPStoreProofs!StalenessBounded`: `Spec => []BoundedStaleness`. `TickInv` counts the clock messages between threads
  and worker: with them the worker's clock is the minimum of the vector clock, exactly, which the threads' clocks are
  never behind; and an update the next batch does not take was made in its thread's present clock. `StaleInv`: what is
  not applied at a server is no older than the client's clock there, and no older than the clock of any batch it follows
  (`Recent`); hence a reply of clock `k` holds all updates of earlier clocks (`Current`).
* `SSPStoreProofs!StoreImplemented`: `Spec => StoreSpec`, the refinement, by step simulation. What a `Get` must return
  includes what the thread has seen before, so the invariant must say that a cached row never loses an update another process
  made. A reply can overtake nothing, so the replies of a channel are ordered by clock and value (`RepliesOrdered`), what
  was read is in the server's row and in each reply still to come with a large enough clock (`Lasting`), and a thread that is woken
  finds a row of its clock or none (`WokenLasts`). The last needs `RequestsInv`: a thread waits for one request, which is on its way to
  the worker or in its list once, and for no other.
* `SSPStoreProofs!GetFindsFreshRow`: `Spec => []OnlyOplogOrFetchFails`, for any number of evictions. With `WokenLasts` the `CHECK_GE` on the
  row's clock after a fetch holds. `FetchesEvicted` counts: a thread that asks again for the n-th time has seen n
  evictions since this `Get` first asked, and one more if it has been woken and the row is gone, so the `CHECK` on `num_fetches` fails
  only after three, each between a reply and the thread's look-up. In the instance `retried` it then does fail; the code's
  comment there expects that to be rare. `BatchesInOrder` excludes the other `CHECK`s.
* `SSPStoreProofs!ClocksArrive`: `~Aggressive => (Spec => []AllClocksArrive)`. `ArriveInv`: the worker's last clock is known to a server,
  on its way to it, or held back, and what is held back remembers that it carries a clock. With `BgSendOpLog` messages the last
  part is false (section 4, item 7), hence the hypothesis.
* `SSPPushProofs!PushTypeCorrect`: `PushSpec => []PushTypeOK`, inductive as it stands.
* `SSPPushProofs!HeldPushIsMade`: `PushSpec => []HeldPushAwaitsAck`. `PushWindowInv`: every push whose number is
  not acknowledged is on its way to the client or its acknowledgement to the server (`PushAccounted`), and a push is only held
  back while some client's window is full (`PushHeld`).
* `SSPPushProofs!RetainedWhenNeeded`: `PushSpec => []RetainedForReplay`. `PushReplayInv`: the versions in a channel to
  a client rise from the one the client has taken over to the server's (`VersionsRise`), and every batch some server is not known to have is retained (`AllRetained`). A batch is given up
  when the minimum over the servers passes it, and no message on its way can be older than that.
* `SSPPushProofs!RequestsAlwaysAnswerable`: `(\A k \in Uninitialised : k <= 0) => (PushSpec => []RequestsAnswerable)`.
  `PushAnswerInv`: clocks rise from `serverClock` through the channel to the server's `MinClock` (`ClocksRise`); the
  system clock and every thread's copy of it are behind all of `serverClock` (`KnownClocks`), and so is the clock of each
  request wherever it is (`RequestsReached`), of which a thread has one (`PushRequestsInv`). Without the
  hypothesis it is false (section 4, item 8).
* `SSPPushCacheProofs!CacheAlwaysCovered`: `(\A k \in Uninitialised : k <= 0) => (PushSpec => []SystemClockCoversCache)`, with two
  layers on top of those of `SSPPushProofs`. `PushFlowInv` follows updates to the servers: none is lost, none is overtaken by a later clock of its process
  (`Orderly`, `BatchesOrdered`, and `TickInv` of `SSPStoreProofs`), so that a server whose clock of a process is k has applied all that
  process made before k (`AppliedBefore`). `PushCoverInv` follows them back (`RowCovers`, for each process and row): when a clock on its way to a
  process is taken, the cached value has all updates before that clock; a value on its way has all updates before
  its own; what a subscribed process lacks of the server's value is still to be pushed; and a cached value has
  all updates before the server's clock the process knows. Values come from the row's server and go to subscribers only
  (`ValuesPlaced`, `CachedSubscribed`), and no request waits at a server (`NoneWait`).
  The hypothesis is that of `RequestsAlwaysAnswerable`, which this proof uses, and is needed for the same reason.
* `SSPPushCacheProofs!PushOwnWritesRead`, `PushNothingAppliedTwice`: `ReadMyWrites` and `NoDoubleApply` of `SSPPush`, and
  `PushStoreImplemented`: `PushSpec => StoreSpec`, the refinement, all under the same hypothesis. The third layer,
  `PushOwnInv`, says of a process's own updates what `ApartInv` and `Rebuildable` say in `SSP`, now for pushed rows as well. The oplog and
  the retained batches of a client hold different updates, all its own, and a batch on its way that is retained is the one sent
  (`PushLogsOwned`, `RetainedApart`, `SentIsRetained`). A server's row, and each value on its way, lacks exactly what the oplog and the
  retained batches newer than its version hold of the client's updates (`Whole`: `RowsWhole`, `ValuesWhole`), so replaying
  them adds nothing twice and leaves nothing out. For the refinement, a later value on a channel holds an earlier one
  (`ValuesGrow`); what is cached, or a thread has seen, is, but for the client's own updates, in the server's row and in each value
  still to come (`CacheLasts`, `SeenStays`); and a waiting thread asks for the stalest clock it is allowed (`PushWantStalest`),
  which `PushCoverInv` turns into what it owes to other processes. A step in which a `CHECK` fails changes nothing the
  abstract store sees (`FailsFirst`).
* `ServerVersionsProofs!MinAlwaysOldest`, `ReplayAlwaysExact`, `VersionsNeverFail`: `Spec => []MinIsOldest`,
  `Spec => []ReplayExactInLap`, `Spec => [](failed = "no")`, for versions of any `Width` that wrap any number of times. `Reported`
  bounds the batches under way: none is `2^Width` or more behind the last, since the window (`MaxPending`) is smaller
  (`Window`). Of two batches in such a window versions tell which is older, by the upper bound (`VersionsCompare`, which
  comes from the division by `2^Width`, `Before`). So the minimum is right whichever way it is computed (`NewMinIs`), and what
  is deleted, respectively replayed, is what the batches' numbers say (`DeletedIs`, `Replay`); `Acknowledges`: that the minimum is only
  computed when the only slowest server reports is enough.
* `ServerVersionsProofs!RetainedImplemented`: `Spec => RetainedSpec`, the refinement of `RetainedBatches`. `ListExact`: the
  list has the batches after the oldest one known, to the last.
* `SystemClockProofs!MinAlwaysExact`, `AnswerAlwaysTells` (of `VectorClock`): the inductive
  invariant adds to `MinIsExact` that within `TickUntil` the value collected so far tells
  the moves since the operation began (0 if none).

* `SystemClockProofs!SystemClockImplementsVectorClock`: `SysSpec => Spec` of `VectorClock`: the steps of workers
  and threads are steps of the vector clock or leave it alone. Through it `MinIsExact` holds in
  `SystemClock` as well.
* `SystemClockProofs!SystemClockNeverAhead`: `SysSpec => []NeverAhead`, if every value in `Uninitialised` is at most 0.
  `ReachedInv` says that the minimum has reached whatever anybody holds: the answer a tick has collected, the value
  a worker is about to store, the shared clock, the cached ones. It is preserved because the
  minimum never falls (`MinIsExact`, which comes with the vector clock's invariant), and `Construct`,
  which adds a participant with clock 0, only happens before anything is pushed.
* `SystemClockProofs!NoWakeUpLost`: `SysSpec => []SleepersAreNotified`. `WakeInv` adds the thread that has found the
  clock too low and still holds the mutex (`pc = "falling"`): if the clock has become high enough since, some worker
  that has stored it has yet to notify, and cannot do so before the thread sleeps, since it needs the mutex.
* `ProcessStorageProofs!SlotsAlwaysAgree`: `Spec => []SlotsAgree`. `SlotInv` adds what a worker's place in
  `Insert()` says of its row and slot (`WorkerPlaces`: its row is not mapped while it fills a slot, and is in the slot
  when it puts it into the map) and that no two workers hold the lock of one stripe of rows or of one
  slot (`LocksExclusive`). Without the locks one worker could empty the slot another is about to enter into the map.
* `ProcessStorageProofs!InsertsAlwaysFit`: `Spec => []InsertsFit`. `RowsCounted`: `num_rows_` is at least the number of
  occupied slots, of workers that have a claim on a slot, and of those that have counted
  themselves in and not yet found the storage full. The count is what `++num_rows_ > capacity_` is compared with, so a
  claim is only made below the capacity.
* `ProcessStorageProofs!ReferredAlwaysStay`: `Spec => []ReferredStay`. `RefsCover`: `num_refs_` of a row is at least the
  number of accessors that hold it and of workers that update it, and `AccessorsWanted` says which row an accessor may hold
  at each place in `Get()`. It is not an equality: an accessor used twice is counted twice, which `storage_leak` shows.
* `ProcessStorageProofs!NoBugToReport`: `Spec => []ReportNoBug`: the "Report bug" `CHECK`s of `ClockLRU` and `EvictOneRow` never fail, although
  an evicted slot is in the queue before it is unlocked (`Evicted`). `FreeInv` says where each slot is: the slots below `insert_hand_` are those that hold a row, wait in `empty_slots_` or have been taken
  by a worker that is about to fill them, and no slot is in two of these places. Together with `InsertsFit` it follows
  by counting that an insertion that finds `empty_slots_` empty finds a slot above the hand (`SlotToClaim`).
* `ProcessStorageProofs!TypeCorrect`: `Spec => []TypeOK`; the bounds of `num_rows_`, of `insert_hand_` and of the reference
  counts come from the invariants above and `RowsBounded`.

* `LifecycleProofs!TablesAlwaysThere`: `Spec => []TablesBeforeUse`. What `TablesBeforeUse` says of `tables_` and the servers
  is the end of a chain: a reply to a worker is only sent when the name node's count is full
  (`AnsweredWhenThere`), the count is at most the number of servers that have the table and whose answer has been taken
  (`RepliesCounted`), and each server is asked once and answers once (`AskedOnce`, on the two directions of its link with
  the name node). None of them is inductive alone. Messages on a link are counted (`Count`), and each action has a
  lemma that says whether it adds to a count; most do not (`Quiet`).
* `LifecycleProofs!HeldShutDownAnswered`: `Spec => []HeldShutDownAwaitsAck`. The invariant is inductive with
  `TypeOK` alone once the messages are counted link by link (`AcksInv`): a batch becomes its acknowledgement, pushed rows
  become theirs, and what is held back is held back by a window that is full, for a window is at least 1.
* `LifecycleProofs!ClocksAlwaysApplied`: `Spec => []ClocksApplied`. `DrainInv` follows a clock on its way. The clock of
  a worker and the `kBgClock` messages that its client's threads have sent it and it has not received make the process clock
  (`TicksCounted`; a thread moves the minimum of its process by at most one, `ClockMoves`); on the link of a thread no clock
  comes after its end, and there is one end (`Orderly`, `EndsFollowClocks`); a worker counts the ends of its threads
  and tells its servers when nothing is held back and nothing unacknowledged (`EndsCounted`). Unless it
  holds one back, the last batch a worker has sent to a server carries the worker's clock (`LinkDrains`). A server counts
  the ends of its workers (`ServerDrains`). When it exits all of them are therefore done; `AcksInv` says that no batch is under way then, so
  that the server's clock of each worker is the worker's, and no `kBgClock` is, so that the worker's is the process clock.
  These theorems assume, beside `LifecycleAssumption`, that application threads have other ids than workers, servers and the
  name node (`IdsAssumption`), as `GlobalContext` numbers them.

Only model-checked: liveness (`Convergence`, `CachesConverge`, `InsertsEnd`, `WaitsEnd`, `Terminates`: TLAPS handles
neither fairness nor `ENABLED`), `NoCheckFails` and `NothingUnread` of `Lifecycle`, and of `SSP`, `NoCheckFails`,
which holds only in some configurations (section 4, item 1), and `KeptOnlyForRequests`, for which the
loop of `InformReply`, a fold over the requests it removes, would have to be unrolled by induction. Out of the prover's reach for good: what a recursive definition
computes for all inputs (the installed provers cannot instantiate the induction rules over data),
hence no `RECURSIVE` operator is used and loops are folds or ranges.

## 6 What is not modelled

* Several communication channels in `SSP` and `SSPPush`: channels share no state but the process storage
  and the system clock, where `ProcessStorage` and `SystemClock` have several workers, and the start and end,
  where `Lifecycle` has; a row belongs to one channel.
* Asynchronous reads (`GetAsync`, `WaitPendingAsnycGet`) and thread caches (`ThreadGet`, `ThreadInc`).
* The variants `version_maintain` and `no_oplog_replay` of a table, append-only oplogs, the dense process
  storage (which evicts nothing).
* Which column an update of `DenseBatchInc` is added to: SSP's rows have no columns.
* The overflow of `evict_hand_`, a 32-bit counter that is never reduced.
* A program without tables, and an initialising thread that accesses none (its rules differ only in whether
  it takes part in the registration barrier).
* SSPAggr: when and in which order it sends rows between clocks is numeric policy.
* The arithmetic of rows, serialisation, compression, statistics, NUMA placement,
  snapshots: no protocol state.
* Process crashes: the code has no recovery; a failed process ends the job.
* `src/src/ml`, `src/apps`, `src/src/petuum_ps_sn`: users of the parameter server and a
  stand-in without its protocol.

## 7 Plan

Done: the modules of section 2 and the theorems of section 5. Left, in order:

1. Proofs over `Lifecycle`: `NoCheckFails`, then `NothingUnread`, which need the types and the order of the messages
   of all links.
2. A proof over `SSP`: `NoCheckFails` under the hypotheses of the run that checks it.
3. `DenseInc`: where `DenseBatchInc` adds a range of updates in a dense oplog and in a row, as a
   function, against the column-wise definition, over small rows and ranges.
4. SSPAggr's early communication as an extension of `SSPPush`; append-only oplogs.

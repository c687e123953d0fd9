# TLA+ models of the kv_engine data service (ep-engine front door)

This directory holds TLA+ specifications of the parts of `kv_engine` whose
correctness depends on interleavings, locks, tasks and message order, the
TLC configurations that check them, and `PROJECT.json`, which maps every
definition to the source lines it models and lists the runs, mutants,
findings and hazards.

## 1. The system (inventory)

| Part | Source | State | Operations | Interacts with |
|---|---|---|---|---|
| KVBucket: vBucket map and request admission | `src/engines/ep/src/kv_bucket.cc` | `vbMap` (vbid -> VBucket), each VBucket's state (active, replica, pending, dead) and state lock (reader/writer), `vbsetMutex`, pending-op queue per VBucket | `set`, `add`, `replace`, `getInternal`, `deleteItem`, `setWithMeta`, `deleteWithMeta`, `addBackfillItem`, `setVBucketState`, `deleteVBucket`, `resetVBucket`, `rollback`, expiry/eviction helpers, warmup gating | front end (cookies), DCP (state-change notification, consumers calling withMeta/backfill), executor pool (tasks), collections manager, failover table, checkpoint manager |
| PendingOpsNotification task | `kv_bucket.cc` 202-235 | the VBucketPtr it holds | `run` -> `VBucket::fireAllOps` | KVBucket, front end (notifyIOComplete) |
| Rollback | `kv_bucket.cc` 2338-2393, `resetVBucket_UNLOCKED` 995-1019 | vbsetMutex, per-vb mutex (try_lock) | `rollback` task step: Reschedule / Abort / Complete | DCP consumer, checkpoint manager |
| DurabilityMonitor | header in `kv_bucket.cc` 2614-2863; tests in `src/unnamed/part_002`, `vbucket_durability_test.cc` | replication chain, tracked SyncWrites, per-node write/ack seqnos (memory and disk) | `addSyncWrite`, `seqnoAckReceived`, commit of the durable prefix | VBucket (commit), DCP (acks from replicas) |
| Collections::Manager | `src/unnamed/part_001` | `current` manifest, update mutex | `update(bucket, manifest)` with try_lock and rollback to `current`, `update(vb)` | KVBucket (`setCollections`, `setVBucketState` replica->active) |
| Connection (memcached front end) | `src/unnamed/part_000` | connection state machine, cookies in EWOULDBLOCK | `close` (-> pending_close), DCP producer frames (mutation, deletion, prepare, commit, abort) | engine (notifyIOComplete) |
| Bucket background tasks and lifecycle | `kv_bucket.cc` 240-477, 1845-1884, 1987-2151, 2407-2409, 2477-2494 | `expiryPager` and `accessScanner` ({enabled, sleeptime, task} under their mutexes), `statsSnapshotTaskId`, the item pager task, the Configuration listeners, the executor pool's tasks | `initialize`, `warmupCompleted`, `initializeExpiryPager`, `deinitialize`, `set/enable/disable/wakeUpExpiryPager`, `enable/disable/setAccessScannerSleeptime`, `resetAccessScannerStartTime`, `runAccessScannerTask`, `enable/disableItemPager` | Configuration (set_param on front-end threads calls the listeners), Warmup (calls warmupCompleted on its own thread), executor pool |
| vBucket walks | `kv_bucket.cc` 1388-1413, 2182-2263 | VBCBAdaptor's vbList, the Position of a pause-resume walk | `KVBucket::visit` (schedules a VBCBAdaptor), `VBCBAdaptor::run`, `pauseResumeVisit`, `startPosition`/`endPosition`, `getRandomKey` | visitors (pagers, defragmenter; not in the repository), executor pool, vBucket map (vBuckets created and deleted meanwhile) |
| ConnMap, BgFetcher, vbucket_state | `connmap.h`, `bgfetcher.h` | declarations only | - | - |
| Mock engine and engine_testapp | `src/unnamed/part_003` | per-cookie mutex, condition variable, status, nblocks, handle_ewouldblock; main's test and attempt loops, SIGALRM timer | the mock_engine wrappers (`do_blocking_engine_call`, `call_engine_and_handle_EWOULDBLOCK`, `allocate_ex`), `notify_io_complete`, `execute_test`, `report_test`, `main` | the engine under test (calls back `notify_io_complete` from its own threads) |

Hard behaviours: front-end worker threads race the cluster manager's state
changes on the same vBucket; requests parked on a pending vBucket are
resumed by a task that runs later; a dropped VBucket object lives on while
requests and tasks hold it; rollback competes for the per-vBucket mutex and
reschedules; replicas acknowledge sync writes out of step with the local
flusher; a collections update can fail half way and roll back.

Correctness, per part: a client write reaches a VBucket only in a state its
handler permits (state lock); every parked request is resumed exactly once
with a terminal status; DurabilityMonitor commits exactly the prefix of
tracked writes acknowledged by a majority of the chain, in seqno order, with
acks monotonic; a failed collections update leaves every active vBucket on
the previous manifest.

## 2. Modules

### KVBucket.tla (kv_bucket.cc)

State: `current` (vbMap: the incarnation of each vbid in the map, 0 for
none), `created`, `objState` (state of each VBucket object, which may have
been dropped from the map), `readers` (holders of the state lock as
reader), `pendingOps` (addPendingOp queue), `notifyTasks` (scheduled
PendingOpsNotification tasks), per cookie `pc`, `req`, `held` (the
VBucketPtr its handler holds), `issued`, the admin counter and the history
`applied` (every write that reached a VBucket, whether it came through
deleteItem, and whether the state then was permitted).

Actions:
* `Issue` - a client or DCP consumer sends a request (op, permitted
  states, vbid).
* `VBucketMissing` - `getVBucket` returns null: NOT_MY_VBUCKET.
* `Admit` - set/add/replace/getInternal/setWithMeta/deleteWithMeta/
  addBackfillItem: take the state lock as reader and check the state
  (`LockedAdmission`: NMVB, park on pending, TMPFAIL on takeover backlog,
  NOT_STORED/KEY_EEXISTS on CAS).
* `Apply` - the collections handle and the call into the VBucket, still
  under the lock; the lock is released.
* `DeleteCheck`, `DeleteAddPending`, `DeleteApply` - deleteItem, whose
  state checks take no lock; `addPendingOp` re-checks pending and the
  handler falls through to the delete when it refuses.
* `SetVBucketState` - early return for the same state without meta,
  otherwise the writer lock (`WriterLockFree`), the new state, and a
  notification task on pending -> active.
* `CreateVBucket` - setVBucketState for a vbid not in the map.
* `DeleteVBucket` - set dead under the writer lock and drop from the map.
* `RunPendingOpsNotification` - the task runs `FireAllOps`
  (`VBucket::fireAllOps`, not in this repository, modelled from the spec:
  active -> resume with SUCCESS and the front end executes the request
  again; pending -> keep; otherwise NOT_MY_VBUCKET).

Status codes are not kept: they only end the request. The takeover backlog,
an invalid CAS and an unknown collection are free choices (`\E ... \in
BOOLEAN`), as they depend on data the model abstracts.

### DurabilityMonitor.tla and SyncWrite.tla (durability_monitor.h)

`DurabilityMonitor.cc` is not in the repository: the model follows the
header kept at the end of `kv_bucket.cc` (lines 2614-2863), the unit tests
in `src/unnamed/part_002` and spec section 4.F. Definitions taken from the
spec alone are marked `spec_modelled` in PROJECT.json.

State: `high` (the vBucket's high seqno), `tracked` (trackedWrites: seqno
and level, in seqno order), `writeSeqno` and `ackSeqno` (per node, per
tracking `memory`/`disk`: the node's position in trackedWrites and its last
ack), `committed` (the commit_sync_write items queued, in order) and
`errors` (logic_error messages thrown).

Actions: `Mutation` (a plain item takes a seqno), `AddSyncWrite(level)`
(tracked; the active's memory position moves to it), and `SendAck(n)`,
which calls `SeqnoAckReceived`: `AckRejection` (mem < disk, nothing
tracked, a decreasing ack) or `NewPositions` (updateNodeAck +
advanceNodePosition: the position moves to the last tracked write not
past the ack, `LastTrackedUpTo`) followed by commit and removal of the
`DurablePrefixLen` leading writes that are `Durable` (majority
`ceil((n+1)/2)` of the chain holds it in memory, on disk, or in memory
plus the active's disk). The environment is every replica of the chain
acking what it holds, monotonically, when it has received or persisted a
prepare (`Replicas`: seqnoAckReceived is called on a DCP_SEQNO_ACK, which
only replicas send). The active's memory position moves with
`AddSyncWrite`; nothing moves its disk position. The unit test at
part_002:307-310 calls seqnoAckReceived for the active only to simulate a
persistence notification that it says "has not been implemented yet", so
the model does not take that path: a MajorityAndPersistOnMaster write is
never committed, and neither is anything tracked after it.

`SyncWrite.tla` is what the monitor promises: writes prepared at
increasing seqnos; nodes come to hold items; a prefix of pending writes is
committed once each meets its level, with majority defined as "more than
half the chain". `DurabilityMonitor` instantiates it with
`pending <- tracked` and `held <- writeSeqno`; `SyncWriteRefinement` is
`SW!Spec`.

KVBucket additions. `Worker` also covers `getMetaData` (admitted on
active and pending, never parked: `GetMetaPermitted`), `getAndUpdateTtl`
(parks on pending: `TouchPermitted`),
`deleteExpiredItem` (`ExpiryAdmission`: under the lock, active only,
otherwise skipped) and the unlocked handlers `getLocked`, `unlockKey` and
`evictKey`, whose state check (`ActiveOnlyCheck`) takes no lock, like
deleteItem's. `Rollback(v)` is the rollback task's decision: abort when
there is no vBucket or it is neither replica nor pending, a KVStore rewind
that leaves the vBucket as it is, or `resetVBucket_UNLOCKED`, which drops
the object from the map without setting it dead and creates a new
incarnation in the same state.

### CollectionsManager.tla (part_001)

State: per vBucket its state (or none) and manifest, `rejects` (which
manifests `VB::updateFromManifest` refuses for which vBucket: that code is
not in the repository, so it is a fixed choice made in Init), `current`
(the manager's manifest, 0 for nullptr), the manager mutex and vbsetMutex,
and the admin thread's `admin` record (pc, manifest, vBucket index,
returned status). Actions: `SetCollections` (a bounded number of pushes),
`ManagerUpdate` (try_lock: temporary_failure when held), `UpdateVBucket`
(one vBucket of the loop; a refusal starts the rollback to `current`,
which dereferences it: `crashed` when it is null), `UpdateDone`,
`GetManifest`/`GetManifestReturn` (holding the mutex), `SetVBucketState`
with `ManifestAfterStateChange` (Manager::update(VBucket&), result
ignored), `DeleteVBucket`, `ReplicaReceivesManifest` (DCP).

### ConnectionSend.tla (part_000)

The send path of a connection. State: `phase` (step, ship, send, wait,
closed), `msglist` (msghdrs, each a sequence of iovecs of at most
`IovMax`), `msgcurr`, the write pipe as read/write offsets, and two
histories: `queued` (the bytes every iovec described when added) and
`received` (what sendmsg handed the kernel). A byte is its identity
`<<iovec, offset, pipe|item>>`, so ordering and loss are visible without
modelling contents. Actions: `StartShip` (addMsgHdr(true)), the DCP
producer callbacks (`Mutation`, `Prepare`, `Deletion`,
`DeletionOrExpirationV2`, `StreamFrame`, `ControlFrame`, `DurabilityFrame`:
header into the pipe, key and value as item iovecs; `ENGINE_E2BIG` ends
the cycle when a frame does not fit), `Transmit` (sendmsg of any prefix
of the current msghdr; EWOULDBLOCK, after which updateEvent(EV_WRITE)
re-registers the event or fails and closes the connection; or a socket
error) with `adjust_msghdr`, `EndStep` (the producer has nothing more:
transmit) and `WriteEvent` (libevent's EV_WRITE callback after a soft
error, not in the repository). `closeCause` records why transmit closed.

### BucketTasks.tla (kv_bucket.cc, tasks and lifecycle)

The bucket's background tasks as seen by the executor pool. `live` is the
set of scheduled tasks, each `[id, kind]`; `Schedule` gives a fresh id
(`nextId`, bounded by `MaxIds`) and `Cancel` removes by id, as
ExecutorPool::schedule/cancel do. `expiryPager` and `accessScanner` are
the structs {enabled, sleeptime, task} that their mutexes guard; every
action that touches one is atomic, since the code holds the mutex for the
whole function. `config` is the Configuration, enumerated over every
startup value in `Init`; `listeners` records which groups of keys
(`"expiry"`, `"scanner"`) have registered listeners, and `phase` the
bucket's lifecycle (constructor, initialize, initializeExpiryPager,
deinitialize), `warmup` the warmup task's phase.

`warmupCompleted` is split into the three steps that another thread can
come between (`wc`): `WarmupScannerEnable` (reads access_scanner_enabled
and sets `accessScanner.enabled`), `WarmupScannerSleeptime` (reads
alog_sleep_time and calls setAccessScannerSleeptime), `WarmupRegister`
(registers the listeners and schedules StatSnap). Without a warmup task
(`warmup = "none"`) initialize calls it inline. The listener actions
(`SetExpiryPagerSleeptime`, `EnableExpiryPager`, ...,
`SetAccessScannerSleeptime`) fire only once their group is registered and
the bucket serves (`Listening`); `SetParamUnheard` is a set_param of a
scanner key before its listener exists, which changes only `config`.
`ScannerSleeptimeEffect` and `SleeptimeEffect` are the bodies of
setAccessScannerSleeptime and setExpiryPagerSleeptime, shared by the
warmup step and the listeners as in the code.

Environment assumptions: front-end requests (set_param) arrive only after
initialize has returned. `Deinitialize`, like deinitialize, neither waits
for nor excludes a warmupCompleted already running on the warmup thread:
stop() does not interrupt it, and it goes on to schedule StatSnap (and an
AccessScanner) after deinitialize has cancelled them (hazard at
kv_bucket.cc:1960; the properties of the bucket_tasks run speak of the
pool only until deinitialize).

### VBVisitors.tla (kv_bucket.cc, walks over the vBucket map)

The vBucket map is reduced to `present`, the vbids it holds a VBucket for;
`CreateVBucket` and `DeleteVBucket` (bounded by `MaxChanges`) change it at
any time. Three walks:

- `Visit` is KVBucket::visit(visitor, ...): the VBCBAdaptor constructor
  lists `present \cap Filter` in vbid order (`vbList`) and the task is
  scheduled. `AdaptorRun` is one VBCBAdaptor::run: if the front vBucket
  exists the visitor may pause (`AdaptorPause`: snooze and return true,
  nothing popped, at most `MaxPauses` times); otherwise the vBucket is
  visited if it still exists and popped (`Popped`), and the run that
  leaves the list empty calls complete() and returns false
  (`AdaptorReturn`). `listed`, `stable`, `visits` and `completed` are
  history variables for the properties.
- `WalkCall`, `WalkStep`, `WalkEnd` are pauseResumeVisit, one loop
  iteration per step so that vBuckets change between iterations; `visit()`
  returning false ends the call with the Position of that vbid
  (`WalkPause`). `WalkCall` and `WalkRestart` stand for the caller (the
  defragmenter's task, not in the repository), which resumes from the
  returned Position and starts again from startPosition() at
  endPosition(). A visit that pauses has not finished its vBucket (the
  defragmenter resumes inside its hash table), so `finished` records only
  visits that returned true.
- `ScanFrom` and `GetRandomKey` are getRandomKey's loop as a RECURSIVE
  operator: start at `labs(getRandom()) % max`, test, increment, wrap at
  max, stop at start. `hits` are the vBuckets that are active and yield a
  key; `FirstHit` is the reference definition.

### MockEngine.tla and EngineTestApp.tla (part_003)

`MockEngine` is one cookie of the testapp mock engine. State: `mutex`
(free or held by the test thread), the test thread's `pc` (idle, call,
wait, waiting, woken), the wrapper `kind` (blocking:
do_blocking_engine_call; handled: call_engine_and_handle_EWOULDBLOCK;
allocate_ex), `status` (the cookie's status, written by
notify_io_complete), `pending` (notifications the engine still owes, in
order), `nblocks`, `calls`, `result`, `handleEwouldblock`. Actions:
`Enter` (cb_mutex_enter), `CallEngine` (success, failure, or
EWOULDBLOCK: allocate_ex throws logic_error, without handle_ewouldblock
the wrapper returns it, otherwise it waits), `Wait` (cb_cond_wait
releases the mutex), `NotifyIOComplete` (the engine's thread; the mock
engine forwards it to mock_server, which is not in the repository and is
taken to store the status under the mutex and signal), `SpuriousWakeup`, `Woken` (re-take the mutex; success calls
again; failure returns, and do_blocking_engine_call returns without
cb_mutex_exit).

`EngineTestApp` extends it with main: `attempts` (atoi of
TESTAPP_ATTEMPTS or -a; `AttemptValues` includes 0), `-Z`, the test
index, the attempt loop (`RetryWanted`: `attempt < attempts && ecode !=
SUCCESS && ecode != SUCCESS_AFTER_RETRY`), `StartAttempt` (execute_test:
an immediate FAIL/SKIPPED/PENDING, or the test function with a fresh
engine and cookie), `TestReturns` (SUCCESS after a retry becomes
SUCCESS_AFTER_RETRY; `ReportRc` is report_test), `EndTest`
(clear_test_timeout, exitcode, -Z), `AlarmFires` (alarm_handler sets
`alarmed`, which nothing reads), and the mock engine's actions while a
test function runs.

## 3. Runs

| Run | cfg | Expect | What it shows |
|---|---|---|---|
| kvbucket | MC_KVBucket.cfg | pass | `LockedWritesInPermittedState`: the reader lock makes admission and write atomic against setVBucketState, deleteVBucket and rollback. `OneOutstandingBlock`: a cookie is parked on one VBucket at most and only while it waits, through deleteItem's addPendingOp result path. |
| kvbucket_delete | MC_KVBucket_delete.cfg | violation | `UnlockedWritesOnlyOnActive`: deleteItem, getLocked, unlockKey and evictKey check the state without the lock; TLC finds the check passed on active, setVBucketState(replica), then the operation applied on the replica. |
| kvbucket_parked | MC_KVBucket_parked.cfg | violation | `ParkedRequestsResumed`: a request parked on a pending vBucket that then goes to replica is never resumed: only pending -> active schedules the task (after deleteVBucket, the deferred-deletion task outside the repository may still release it). |
| durability | MC_DurabilityMonitor.cfg | pass | Chain of four (majority three), all three levels, seqnos up to 2. `NodePositionsConsistent` (spec invariant 5), `HeadNotDurable` (everything an ack makes durable at the head is committed in that call), `EveryTrackedWriteCommitted` (a tracked write with no MajorityAndPersistOnMaster write at or before it is committed, under fair replica acks), and `SyncWriteRefinement`. The run also reaches the rejected late ack ("No tracked SyncWrite"). |
| collections | MC_CollectionsManager.cfg | pass | `SuccessMeansApplied`: a reported success leaves every active vBucket on the new manifest. `RollbackReportTruthful`: a reported rollback leaves every active vBucket on the current one. |
| collections_stale | MC_CollectionsManager_stale.cfg | violation | `ActiveVBucketsOnCurrent`: a replica that rejected the current manifest is promoted and stays active on its old one (update(VBucket&) drops the result). |
| collections_null | MC_CollectionsManager_null.cfg | violation | `NoNullManifestDereference`: the first manifest is rejected and the rollback dereferences the null `current`. |
| connection_send | MC_ConnectionSend.cfg | pass | `TypeOK` (no msghdr holds more than IOV_MAX iovecs), `DeliveredInOrder`, `PipeHoldsExactlyUnsent`, `CompleteMeansDelivered`, and `NoEmptySend` (sendmsg is never given an empty msghdr, so the "returned 0" close never happens) over frames spanning two msghdrs, every partial send and a failing updateEvent. |
| testapp | MC_EngineTestApp.cfg | pass | `TestAppTypeOK`: the runner's state is well formed and the attempt counter never passes `attempts`, across the mock engine's EWOULDBLOCK paths. |
| bucket_tasks | MC_BucketTasks.cfg | pass | `ExpiryPagerMatchesSettings`: once the bucket serves, the pool holds exactly one ExpiredItemPager, the one `expiryPager.task` names, when the pager is enabled, and none otherwise, across every interleaving of the expiry listeners. `AccessScannerMatchesSettings`: the same for the AccessScanner, which also must not run with sleeptime 0, until deinitialize. || bucket_tasks_config | MC_BucketTasks_config.cfg | violation | `ScannerFollowsConfiguration`: alog_path set, access_scanner_enabled false; warmupCompleted reads it, a set_param turns it on before the listeners are registered, and the access scanner stays disabled while the configuration says enabled. |

| vb_visitors | MC_VBVisitors.cfg | pass | `RandomKeyFromFirstActive`: for every random value and every set of active vBuckets with keys, getRandomKey returns the first in cyclic order from its start, ENOENT only when there is none. `AdaptorVisitsListedOnce`: VBCBAdaptor visits each listed vBucket at most once, calls complete() once, and by then has visited every listed vBucket that was never deleted, through pauses and deletions. `NoVBucketSkipped`: a pause-resume walk that reaches endPosition() has finished every vBucket present since it started. `AdaptorCompletes`: a scheduled adaptor eventually completes. |

Each finding is recorded in `PROJECT.json` with the source line. Every
property of a passing run has a mutant there: a plausible bug in the
mapped definition (a dropped guard, an off-by-one, a missing lock) under
which TLC finds the property violated.

Bounds: one vbid, two cookies, one request per cookie, up to two VBucket
objects per vbid, five state requests. Five state requests reach every
transition sequence of interest: create pending, park, pending -> active
(task scheduled), active -> pending again before the task runs, delete and
re-create. Two cookies let one request hold the reader lock while another
is parked. A second request per cookie multiplies the state space by ten
without adding a new interleaving of lock, queue and task.

DurabilityMonitor bounds: seqnos up to 2 give a plain mutation before a
SyncWrite (sparse seqnos, as in the tests) or two SyncWrites of different
levels, enough for a durable write behind a non-durable one; a third
seqno does not finish within ten minutes. The chain of four (majority
three, the largest chain registerReplicationChain accepts) is the only
even chain where the majority formula can be got wrong without also being
wrong for two, and it leaves a replica to ack after a commit.

Collections bounds: two vBuckets (one can be promoted while the other is
active), two manifests and three pushes: a push that fails half way and
rolls back, then another. ConnectionSend bounds: IOV_MAX 2 and frames of
up to three iovecs make a frame span two msghdrs; a pipe of 5 bytes makes
a second frame not fit (E2BIG); two ship cycles reuse the pipe after
partial sends. Mock engine bounds: two calls, one EWOULDBLOCK per call
and two tests with attempts 0, 1 and 3 reach a retry after SKIPPED, a
success after a retry, and the empty loop.

VBVisitors bounds: three vBuckets with one outside the filter (a listed,
an unlisted and a deleted one can coexist), two creations or deletions (a
vBucket deleted and re-created while the adaptor snoozes), one pause per
walk (a retry of the same vBucket), and random values 0, 1, 2 and 5,
which start the scan at every vBucket and wrap the modulus.

BucketTasks bounds: two expiry sleep times (a change that must cancel and
reschedule), alog_sleep_time 0 and 1 (0 cancels without scheduling, the
case that leaves a stale task id), every startup configuration, and eight
task ids, enough for every listener to reschedule several times; when the
ids run out, Schedule is disabled and the run stops there.

Fairness: weak fairness on each cookie's handler steps (a worker thread
runs a request it has picked up to completion) and on each VBucket's
notification task (the executor pool runs scheduled tasks). Clients and
the cluster manager are not fair: they need not send anything, so deadlock
checking is off (the engine idles when nothing more is sent). The kvbucket pass run checks no liveness; the fairness is used by
kvbucket_parked. For the DurabilityMonitor, weak fairness on each
replica's acknowledgement: DCP keeps delivering to a connected replica,
its flusher keeps persisting and the consumer acks; this is an assumption
about the environment, which the durability run makes explicit. No
fairness is assumed for the active's disk position, which nothing in the
code moves. The mock engine and engine_testapp assume no fairness and
check no liveness: whether a wait ends depends on mock_server, which is
not in the repository; a test may hang, so deadlock checking is off. VBVisitors assumes weak
fairness of `AdaptorRun` only: the executor pool runs a scheduled or
snoozed task again; vBucket changes and the pause-resume caller are not
fair. BucketTasks has no
fairness and no liveness property: its properties are safety properties,
and after deinitialize the bucket is destroyed, so deadlock checking is
off.

The mock engine's two harness bugs, do_blocking_engine_call returning with
the cookie mutex held after a failed notification (part_003 384) and
attempts = 0 reporting every test passed (part_003 1485), are still in
the models (Woken's failure disjunct, AttemptValues containing 0) and are
recorded as hazards; their violation runs gave way to the engine's own
code. Some properties are no longer checked: the type invariants of
KVBucket, DurabilityMonitor and CollectionsManager (no plausible code
change breaks them, only the removal of a model bound), a liveness
property of PendingOpsNotification (it followed from the spec-modelled
fireAllOps and its fairness), the testapp's "no attempt after success"
(it restated the loop condition), and the mock engine's "blocked call
eventually woken" (it rested on mock_server). The DurabilityMonitor records the logic_error a replica's late ack
of an already committed prepare gets ("No tracked SyncWrite", `errors`).
The durability run reaches that rejection (a prepare commits once a majority
of the four-node chain holds it, and a remaining replica's ack then finds
nothing tracked), and NodePositionsConsistent and EveryTrackedWriteCommitted hold
across it: the rejection leaves every position and the tracked list as
they were, so later prepares still commit.

## 4. Plan for the remaining parts

1. Connection close with parked cookies (pending_close, signalIfIdle)
   composed with the KVBucket notification, once that state-machine code
   is in the repository.
2. The mock engine: what a spurious wakeup does to the status read after
   it (the wrappers do not loop on a flag), and the -t timeout, which
   never stops a hung test.
3. The testapp configuration merge (part_003 1258-1313) as a pure
   operator checked against a reference definition.
4. The other tasks initialize schedules (resizer, checkpoint remover,
   defragmenter, compressor) and the item pager's wake-ups in BucketTasks.
5. Warmup gating (maybeEnableTraffic) and the memory-quota checks of the
   write handlers in KVBucket.
6. DurabilityMonitor aborts (timeout, demotion) once their code is in the
   repository.

## 5. Not modelled

Frame encoding and byte layouts (part_000), statistics, logging,
bloom filters, memory accounting, what the pagers and the access scanner
do when they run (BucketTasks models only when they are scheduled),
the flusher and KVStore I/O, the data rewound by rollback, SSL and
authentication, the libevent plumbing, the mock_server code (not in the
repository), and the connmap/bgfetcher headers (declarations only).

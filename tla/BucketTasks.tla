---------------------------- MODULE BucketTasks ----------------------------
(***************************************************************************)
(* The background tasks a KVBucket schedules on the executor pool          *)
(* (src/engines/ep/src/kv_bucket.cc): the bucket's lifecycle (constructor, *)
(* initialize, warmup completion, deinitialize), the expiry pager and the  *)
(* access scanner, each kept in a struct {mutex, enabled, sleeptime, task} *)
(* and rescheduled by configuration listeners, the item pager and the      *)
(* stats snapshot task.                                                    *)
(*                                                                         *)
(* The executor pool is not in the repository: `live' is the set of tasks *)
(* it holds, schedule() adds a task under a fresh id and cancel(id) drops  *)
(* the task with that id, if any.  Each function below holds its struct's *)
(* mutex for its whole body, so it is one step.  Configuration listeners   *)
(* call them from front-end threads once registered; the Warmup task (not *)
(* in the repository) calls warmupCompleted from its own thread.          *)
(***************************************************************************)
EXTENDS Naturals, FiniteSets

CONSTANTS
    StimeValues,     \* exp_pager_stime values a set_param may give
    AlogSleepValues, \* alog_sleep_time values (minutes; 0 disables the task)
    MaxIds           \* bound on task ids handed out by schedule()

Kinds == {"ExpiredItemPager", "AccessScanner", "StatSnap", "ItemPager"}
NoTask == 0

\* ItemPager's id: the object is created by the constructor and rescheduled
\* under the same id.
ItemPagerId == 1

VARIABLES
    phase,       \* the engine thread: "created", "warmup_inline", "expiry",
                 \* "initialized", "deinitialized"
    warmup,      \* warmupTask: "none", "created", "loading", "completing",
                 \* "complete", "stopped"
    config,      \* the Configuration values the code reads
    expiryPager, \* [enabled, sleeptime, task]
    accessScanner, \* [enabled, sleeptime, task]
    statsSnapshotTaskId,
    listeners,   \* listener groups registered: "expiry", "scanner"
    live,        \* tasks in the executor pool: [id, kind]
    nextId,      \* the next id schedule() hands out
    wc           \* warmupCompleted's progress: "idle", "enable", "sleeptime",
                 \* "register", "done"

vars == <<phase, warmup, config, expiryPager, accessScanner,
          statsSnapshotTaskId, listeners, live, nextId, wc>>

----------------------------------------------------------------------------
\* ExecutorPool::schedule and ::cancel on a pool value.
Schedule(pool, id, kind) == pool \cup {[id |-> id, kind |-> kind]}
Cancel(pool, id) == {t \in pool : t.id # id}
LiveOf(kind) == {t.id : t \in {u \in live : u.kind = kind}}

\* KVBucket::KVBucket: the item pager is created and disabled, the warmup
\* task created when `warmup' is configured.  The structs' defaults are
\* in kv_bucket.h, not in the repository: disabled, sleeptime 0, no task.
Init ==
    /\ phase = "created"
    /\ config \in [warmup : BOOLEAN, expPagerEnabled : BOOLEAN,
                   expPagerStime : StimeValues, alogPath : BOOLEAN,
                   accessScannerEnabled : BOOLEAN,
                   alogSleepTime : AlogSleepValues]
    /\ warmup = IF config.warmup THEN "created" ELSE "none"
    /\ expiryPager = [enabled |-> FALSE, sleeptime |-> 0, task |-> NoTask]
    /\ accessScanner = [enabled |-> FALSE, sleeptime |-> 0, task |-> NoTask]
    /\ statsSnapshotTaskId = NoTask
    /\ listeners = {}
    /\ live = {}
    /\ nextId = ItemPagerId + 1
    /\ wc = "idle"

\* KVBucket::initialize up to startWarmupTask: start the warmup task, or
\* with none complete the warmup on this thread.
Initialize ==
    /\ phase = "created"
    /\ phase' = IF warmup = "created" THEN "expiry" ELSE "warmup_inline"
    /\ warmup' = IF warmup = "created" THEN "loading" ELSE warmup
    /\ wc' = IF warmup = "created" THEN wc ELSE "enable"
    /\ UNCHANGED <<config, expiryPager, accessScanner, statsSnapshotTaskId,
                   listeners, live, nextId>>

\* The Warmup task has loaded enough and calls warmupCompleted.
WarmupFinishes ==
    /\ warmup = "loading"
    /\ warmup' = "completing"
    /\ wc' = "enable"
    /\ UNCHANGED <<phase, config, expiryPager, accessScanner,
                   statsSnapshotTaskId, listeners, live, nextId>>

\* Mutant: the old task is cancelled only when the new sleeptime is not 0.
ScannerSleeptimeCancelOnNewValue(val) ==
    IF accessScanner.enabled
    THEN LET cancelled == IF val # 0
                          THEN Cancel(live, accessScanner.task) ELSE live
         IN  /\ accessScanner' =
                   [accessScanner EXCEPT !.sleeptime = val * 60,
                                         !.task = IF val # 0 THEN nextId
                                                  ELSE @]
             /\ live' = IF val # 0
                        THEN Schedule(cancelled, nextId, "AccessScanner")
                        ELSE cancelled
             /\ nextId' = IF val # 0 THEN nextId + 1 ELSE nextId
    ELSE UNCHANGED <<accessScanner, live, nextId>>

\* Mutant: the sleeptime is stored in minutes.
ScannerSleeptimeInMinutes(val) ==
    IF accessScanner.enabled
    THEN LET cancelled == IF accessScanner.sleeptime # 0
                          THEN Cancel(live, accessScanner.task) ELSE live
         IN  /\ accessScanner' =
                   [accessScanner EXCEPT !.sleeptime = val,
                                         !.task = IF val # 0 THEN nextId
                                                  ELSE @]
             /\ live' = IF val # 0
                        THEN Schedule(cancelled, nextId, "AccessScanner")
                        ELSE cancelled
             /\ nextId' = IF val # 0 THEN nextId + 1 ELSE nextId
    ELSE UNCHANGED <<accessScanner, live, nextId>>

\* setAccessScannerSleeptime(val, _)'s body: when enabled, cancel the task
\* if sleeptime is not 0, then schedule a new one if the new one is not 0.
ScannerSleeptimeEffect(val) ==
    IF accessScanner.enabled
    THEN LET cancelled == IF accessScanner.sleeptime # 0
                          THEN Cancel(live, accessScanner.task) ELSE live
         IN  /\ accessScanner' =
                   [accessScanner EXCEPT !.sleeptime = val * 60,
                                         !.task = IF val # 0 THEN nextId
                                                  ELSE @]
             /\ live' = IF val # 0
                        THEN Schedule(cancelled, nextId, "AccessScanner")
                        ELSE cancelled
             /\ nextId' = IF val # 0 THEN nextId + 1 ELSE nextId
    ELSE UNCHANGED <<accessScanner, live, nextId>>

(***************************************************************************)
(* warmupCompleted, on the warmup thread or inline in initialize, in the  *)
(* steps that matter to other threads.  With an access log path: set     *)
(* accessScanner.enabled from access_scanner_enabled (under the mutex);   *)
(* when it is set, read alog_sleep_time and call setAccessScannerSleeptime *)
(* (under the mutex again); then register the scanner's listeners.  Last, *)
(* schedule the StatSnap task.                                             *)
(***************************************************************************)
WarmupScannerEnable ==
    /\ wc = "enable"
    /\ accessScanner' = IF config.alogPath
                        THEN [accessScanner EXCEPT
                                 !.enabled = config.accessScannerEnabled]
                        ELSE accessScanner
    /\ wc' = IF config.alogPath /\ config.accessScannerEnabled
             THEN "sleeptime" ELSE "register"
    /\ UNCHANGED <<phase, warmup, config, expiryPager, statsSnapshotTaskId,
                   listeners, live, nextId>>

WarmupScannerSleeptime ==
    /\ wc = "sleeptime"
    /\ nextId < MaxIds
    /\ ScannerSleeptimeEffect(config.alogSleepTime)
    /\ wc' = "register"
    /\ UNCHANGED <<phase, warmup, config, expiryPager, statsSnapshotTaskId,
                   listeners>>

WarmupRegister ==
    /\ wc = "register"
    /\ nextId < MaxIds
    /\ listeners' = IF config.alogPath THEN listeners \cup {"scanner"}
                    ELSE listeners
    /\ live' = Schedule(live, nextId, "StatSnap")
    /\ statsSnapshotTaskId' = nextId
    /\ nextId' = nextId + 1
    /\ wc' = "done"
    /\ phase' = IF phase = "warmup_inline" THEN "expiry" ELSE phase
    /\ warmup' = IF warmup = "completing" THEN "complete" ELSE warmup
    /\ UNCHANGED <<config, expiryPager, accessScanner>>

\* Mutant: the old task is not cancelled.
SleeptimeNoCancel(val) ==
    /\ expiryPager' =
          [expiryPager EXCEPT !.sleeptime = val,
                              !.task = IF expiryPager.enabled THEN nextId
                                       ELSE @]
    /\ live' = IF expiryPager.enabled
               THEN Schedule(live, nextId, "ExpiredItemPager")
               ELSE live
    /\ nextId' = IF expiryPager.enabled THEN nextId + 1 ELSE nextId

\* setExpiryPagerSleeptime's body on the expiry struct and the pool.
SleeptimeEffect(val) ==
    LET cancelled == Cancel(live, expiryPager.task)
    IN  /\ expiryPager' =
              [expiryPager EXCEPT !.sleeptime = val,
                                  !.task = IF expiryPager.enabled THEN nextId
                                           ELSE @]
        /\ live' = IF expiryPager.enabled
                   THEN Schedule(cancelled, nextId, "ExpiredItemPager")
                   ELSE cancelled
        /\ nextId' = IF expiryPager.enabled THEN nextId + 1 ELSE nextId

\* initialize, continued: initializeExpiryPager sets `enabled' from the
\* configuration, calls setExpiryPagerSleeptime and registers the expiry
\* listeners; nothing else reaches the struct before them.
InitializeExpiryPager ==
    /\ phase = "expiry"
    /\ nextId < MaxIds
    /\ LET cancelled == Cancel(live, expiryPager.task)
       IN  /\ expiryPager' = [enabled |-> config.expPagerEnabled,
                              sleeptime |-> config.expPagerStime,
                              task |-> IF config.expPagerEnabled THEN nextId
                                       ELSE expiryPager.task]
           /\ live' = IF config.expPagerEnabled
                      THEN Schedule(cancelled, nextId, "ExpiredItemPager")
                      ELSE cancelled
           /\ nextId' = IF config.expPagerEnabled THEN nextId + 1 ELSE nextId
    /\ listeners' = listeners \cup {"expiry"}
    /\ phase' = "initialized"
    /\ UNCHANGED <<warmup, config, accessScanner, statsSnapshotTaskId, wc>>

----------------------------------------------------------------------------
(* The listeners' calls, on a front-end thread after a set_param.          *)
Listening(group) == group \in listeners /\ phase = "initialized"

\* exp_pager_stime: setExpiryPagerSleeptime cancels the task whether or not
\* the pager is enabled and reschedules it when enabled.
SetExpiryPagerSleeptime(val) ==
    /\ Listening("expiry")
    /\ nextId < MaxIds
    /\ config' = [config EXCEPT !.expPagerStime = val]
    /\ SleeptimeEffect(val)
    /\ UNCHANGED <<phase, warmup, accessScanner, statsSnapshotTaskId,
                   listeners, wc>>

\* exp_pager_initial_run_time: reschedule only when enabled.
SetExpiryPagerTasktime ==
    /\ Listening("expiry")
    /\ nextId < MaxIds
    /\ expiryPager.enabled
    /\ live' = Schedule(Cancel(live, expiryPager.task), nextId,
                        "ExpiredItemPager")
    /\ expiryPager' = [expiryPager EXCEPT !.task = nextId]
    /\ nextId' = nextId + 1
    /\ UNCHANGED <<phase, warmup, config, accessScanner,
                   statsSnapshotTaskId, listeners, wc>>

\* exp_pager_enabled = true: enableExpiryPager, a no-op when enabled.
EnableExpiryPager ==
    /\ Listening("expiry")
    /\ nextId < MaxIds
    /\ config' = [config EXCEPT !.expPagerEnabled = TRUE]
    /\ IF expiryPager.enabled
       THEN UNCHANGED <<expiryPager, live, nextId>>
       ELSE /\ expiryPager' = [expiryPager EXCEPT !.enabled = TRUE,
                                                  !.task = nextId]
            /\ live' = Schedule(Cancel(live, expiryPager.task), nextId,
                                "ExpiredItemPager")
            /\ nextId' = nextId + 1
    /\ UNCHANGED <<phase, warmup, accessScanner, statsSnapshotTaskId,
                   listeners, wc>>

\* exp_pager_enabled = false: disableExpiryPager.
DisableExpiryPager ==
    /\ Listening("expiry")
    /\ config' = [config EXCEPT !.expPagerEnabled = FALSE]
    /\ IF expiryPager.enabled
       THEN /\ live' = Cancel(live, expiryPager.task)
            /\ expiryPager' = [expiryPager EXCEPT !.enabled = FALSE]
       ELSE UNCHANGED <<expiryPager, live>>
    /\ UNCHANGED <<phase, warmup, accessScanner, statsSnapshotTaskId,
                   listeners, nextId, wc>>

(***************************************************************************)
(* A set_param of access_scanner_enabled or alog_sleep_time while the      *)
(* bucket serves but before warmupCompleted has registered the scanner's   *)
(* listeners: the Configuration changes and nobody is told.               *)
(***************************************************************************)
SetParamUnheard ==
    /\ phase = "initialized"
    /\ "scanner" \notin listeners
    /\ \/ \E b \in BOOLEAN : config' = [config EXCEPT !.accessScannerEnabled = b]
       \/ \E v \in AlogSleepValues : config' = [config EXCEPT !.alogSleepTime = v]
    /\ UNCHANGED <<phase, warmup, expiryPager, accessScanner,
                   statsSnapshotTaskId, listeners, live, nextId, wc>>

\* wakeUpExpiryPager: wake the task when enabled (the pool's wake changes
\* nothing the model keeps).
WakeUpExpiryPager ==
    /\ phase = "initialized"
    /\ expiryPager.enabled
    /\ UNCHANGED vars

\* runAccessScannerTask: wake whatever task id accessScanner holds, read
\* without the mutex and whether or not the scanner is enabled; the pool's
\* wake of a live or a cancelled id changes nothing the model keeps.
RunAccessScannerTask ==
    /\ phase = "initialized"
    /\ UNCHANGED vars

(***************************************************************************)
(* access_scanner_enabled = true: enableAccessScannerTask.  It cancels the *)
(* old task only when sleeptime is not 0, reads alog_sleep_time and        *)
(* schedules a scanner when that is not 0.                                 *)
(***************************************************************************)
EnableAccessScannerTask ==
    /\ Listening("scanner")
    /\ nextId < MaxIds
    /\ config' = [config EXCEPT !.accessScannerEnabled = TRUE]
    /\ IF accessScanner.enabled
       THEN UNCHANGED <<accessScanner, live, nextId>>
       ELSE LET sleep == config.alogSleepTime * 60
                cancelled == IF accessScanner.sleeptime # 0
                             THEN Cancel(live, accessScanner.task) ELSE live
            IN  /\ accessScanner' =
                      [enabled |-> TRUE, sleeptime |-> sleep,
                       task |-> IF sleep # 0 THEN nextId
                                ELSE accessScanner.task]
                /\ live' = IF sleep # 0
                           THEN Schedule(cancelled, nextId, "AccessScanner")
                           ELSE cancelled
                /\ nextId' = IF sleep # 0 THEN nextId + 1 ELSE nextId
    /\ UNCHANGED <<phase, warmup, expiryPager, statsSnapshotTaskId,
                   listeners, wc>>

\* access_scanner_enabled = false: disableAccessScannerTask.
DisableAccessScannerTask ==
    /\ Listening("scanner")
    /\ config' = [config EXCEPT !.accessScannerEnabled = FALSE]
    /\ IF accessScanner.enabled
       THEN /\ live' = Cancel(live, accessScanner.task)
            /\ accessScanner' = [accessScanner EXCEPT !.sleeptime = 0,
                                                      !.enabled = FALSE]
       ELSE UNCHANGED <<accessScanner, live>>
    /\ UNCHANGED <<phase, warmup, expiryPager, statsSnapshotTaskId,
                   listeners, nextId, wc>>

\* alog_sleep_time: setAccessScannerSleeptime(val, false), only when
\* enabled: cancel the task if sleeptime is not 0, schedule a new one if
\* the new sleeptime is not 0.
SetAccessScannerSleeptime(val) ==
    /\ Listening("scanner")
    /\ nextId < MaxIds
    /\ config' = [config EXCEPT !.alogSleepTime = val]
    /\ ScannerSleeptimeEffect(val)
    /\ UNCHANGED <<phase, warmup, expiryPager, statsSnapshotTaskId,
                   listeners, wc>>

\* alog_task_time: resetAccessScannerStartTime reschedules a running
\* scanner for the new start hour.
ResetAccessScannerStartTime ==
    /\ Listening("scanner")
    /\ nextId < MaxIds
    /\ accessScanner.enabled
    /\ accessScanner.sleeptime # 0
    /\ live' = Schedule(Cancel(live, accessScanner.task), nextId,
                        "AccessScanner")
    /\ accessScanner' = [accessScanner EXCEPT !.task = nextId]
    /\ nextId' = nextId + 1
    /\ UNCHANGED <<phase, warmup, config, expiryPager, statsSnapshotTaskId,
                   listeners, wc>>

\* enableItemPager: cancel the ItemPager and schedule the same object
\* again; disableItemPager: cancel it.  They are called by the bucket
\* subclasses, not in the repository, at any time after construction.
EnableItemPager ==
    /\ phase # "deinitialized"
    /\ live' = Schedule(Cancel(live, ItemPagerId), ItemPagerId, "ItemPager")
    /\ UNCHANGED <<phase, warmup, config, expiryPager, accessScanner,
                   statsSnapshotTaskId, listeners, nextId, wc>>

DisableItemPager ==
    /\ phase # "deinitialized"
    /\ live' = Cancel(live, ItemPagerId)
    /\ UNCHANGED <<phase, warmup, config, expiryPager, accessScanner,
                   statsSnapshotTaskId, listeners, nextId, wc>>

(***************************************************************************)
(* deinitialize: stopWarmup (stop a warmup still loading), then cancel the *)
(* StatSnap task and, under its mutex, the access scanner's task.  The     *)
(* NONIO task group and the taskable are stopped by the pool, not in the  *)
(* repository.  The bucket is torn down once initialize has returned; it   *)
(* neither waits for nor excludes a warmupCompleted already running on the *)
(* warmup thread, which goes on after it (stop() does not interrupt it).   *)
(***************************************************************************)
Deinitialize ==
    /\ phase = "initialized"
    /\ warmup' = IF warmup = "loading" THEN "stopped" ELSE warmup
    /\ live' = Cancel(Cancel(live, statsSnapshotTaskId), accessScanner.task)
    /\ phase' = "deinitialized"
    /\ UNCHANGED <<config, expiryPager, accessScanner, statsSnapshotTaskId,
                   listeners, nextId, wc>>

Next ==
    \/ Initialize
    \/ WarmupFinishes
    \/ WarmupScannerEnable
    \/ WarmupScannerSleeptime
    \/ WarmupRegister
    \/ InitializeExpiryPager
    \/ \E v \in StimeValues : SetExpiryPagerSleeptime(v)
    \/ SetExpiryPagerTasktime
    \/ EnableExpiryPager
    \/ DisableExpiryPager
    \/ WakeUpExpiryPager
    \/ RunAccessScannerTask
    \/ EnableAccessScannerTask
    \/ DisableAccessScannerTask
    \/ \E v \in AlogSleepValues : SetAccessScannerSleeptime(v)
    \/ ResetAccessScannerStartTime
    \/ SetParamUnheard
    \/ EnableItemPager
    \/ DisableItemPager
    \/ Deinitialize

Spec == Init /\ [][Next]_vars

----------------------------------------------------------------------------
TypeOK ==
    /\ phase \in {"created", "warmup_inline", "expiry", "initialized",
                  "deinitialized"}
    /\ warmup \in {"none", "created", "loading", "completing", "complete",
                   "stopped"}
    /\ expiryPager.enabled \in BOOLEAN
    /\ expiryPager.sleeptime \in StimeValues \cup {0}
    /\ accessScanner.enabled \in BOOLEAN
    /\ accessScanner.sleeptime \in {v * 60 : v \in AlogSleepValues} \cup {0}
    /\ {expiryPager.task, accessScanner.task, statsSnapshotTaskId}
          \subseteq 0 .. MaxIds
    /\ listeners \subseteq {"expiry", "scanner"}
    /\ live \subseteq [id : 1 .. MaxIds, kind : Kinds]
    /\ nextId \in 2 .. MaxIds
    /\ wc \in {"idle", "enable", "sleeptime", "register", "done"}

(***************************************************************************)
(* While the bucket is initialized, exactly one ExpiredItemPager is in the *)
(* pool when the expiry pager is enabled, the one expiryPager.task names,  *)
(* and none when it is disabled: initializeExpiryPager and every listener *)
(* call (sleeptime, initial run time, enable, disable) cancel the old task *)
(* before they schedule a new one.                                         *)
(***************************************************************************)
ExpiryPagerMatchesSettings ==
    phase = "initialized" =>
        LiveOf("ExpiredItemPager") =
            IF expiryPager.enabled THEN {expiryPager.task} ELSE {}

(***************************************************************************)
(* Until deinitialize, at most one AccessScanner is in the pool, the one   *)
(* accessScanner.task names, exactly while the scanner is enabled with a   *)
(* sleeptime other than 0: warmupCompleted and the listener calls keep the *)
(* task, the flag and the sleeptime in step, although a sleeptime of 0     *)
(* leaves `task' naming a cancelled task that the next call must not       *)
(* cancel again nor leave behind.                                          *)
(***************************************************************************)
AccessScannerMatchesSettings ==
    phase # "deinitialized" =>
        LiveOf("AccessScanner") =
            IF accessScanner.enabled /\ accessScanner.sleeptime # 0
            THEN {accessScanner.task} ELSE {}

(***************************************************************************)
(* Once warmupCompleted has returned, the access scanner follows the       *)
(* configuration: it is enabled exactly when access_scanner_enabled is     *)
(* set, with alog_sleep_time's sleeptime.  warmupCompleted reads both      *)
(* values before it registers the listeners that report later changes.    *)
(***************************************************************************)
ScannerFollowsConfiguration ==
    (wc = "done" /\ phase = "initialized" /\ config.alogPath) =>
        /\ accessScanner.enabled = config.accessScannerEnabled
        /\ accessScanner.enabled =>
              accessScanner.sleeptime = config.alogSleepTime * 60

====

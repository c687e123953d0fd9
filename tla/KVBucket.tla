------------------------------ MODULE KVBucket ------------------------------
(***************************************************************************)
(* The front door of the storage engine for one bucket (kv_bucket.cc):    *)
(* the vBucket map, each vBucket object's state, the per-vBucket state     *)
(* lock that request handlers hold as readers while a state change takes   *)
(* it as writer, the queue of requests parked on a pending vBucket and the *)
(* PendingOpsNotification task that resumes them.                          *)
(*                                                                         *)
(* A request runs on a front-end worker thread.  The handlers that take    *)
(* the state lock (set, add, replace, getInternal, setWithMeta,            *)
(* deleteWithMeta, addBackfillItem) are split in two steps, admission      *)
(* under the lock and the call into the VBucket, so that the model shows   *)
(* what the lock excludes.  deleteItem reads the state without the lock.   *)
(***************************************************************************)
EXTENDS Naturals, FiniteSets

CONSTANTS
    VB,         \* vBucket ids
    Cookies,    \* client connections, each with one request at a time
    MaxInc,     \* how many VBucket objects one vBucket id may be given
    MaxAdmin,   \* bound on vBucket state requests (set / create / delete)
    MaxOps      \* bound on requests issued per cookie

ASSUME MaxInc \in Nat \ {0} /\ MaxAdmin \in Nat /\ MaxOps \in Nat

VBStates == {"active", "replica", "pending", "dead"}

\* A VBucket object: the vBucket id and which incarnation of it.  A dropped
\* object lives on while a request or a task still holds its VBucketPtr.
Obj == VB \X (1 .. MaxInc)
NoObj == <<"none", 0>>

\* Request kinds.  The *WithMeta ops come from XDCR (permitted: active) or
\* from a DCP consumer (permitted: replica, pending); backfill is
\* addBackfillItem from a DCP consumer; touch is getAndUpdateTtl, getMeta
\* getMetaData, evict evictKey; expire is deleteExpiredItem, called by the
\* expiry pager rather than a client.
MetaOps == {"setWithMeta", "delWithMeta"}
Ops == {"set", "add", "replace", "get", "delete", "backfill", "touch",
        "getMeta", "getLocked", "unlockKey", "evict", "expire"} \cup MetaOps
Writes == Ops \ {"get", "getMeta"}
\* Handlers that check the vBucket state without taking the state lock.
UnlockedOps == {"delete", "getLocked", "unlockKey", "evict"}
\* Ops that fail TMPFAIL when the takeover is lagging (isTakeoverBackedUp).
TakeoverChecked == {"set", "add", "delete"} \cup MetaOps
\* Ops that refuse the request's CAS: add (a CAS given), the others an
\* invalid CAS (Item::isValidCas).
CasChecked == {"add", "backfill"} \cup MetaOps

\* getMetaData: NOT_MY_VBUCKET for dead and replica; a pending vBucket
\* answers without parking the request.
GetMetaPermitted == {"active", "pending"}

\* getAndUpdateTtl: NOT_MY_VBUCKET for dead and replica, pending parks.
TouchPermitted == {"active"}

\* The states in which each handler goes on to call into the VBucket.
PermChoices(op) ==
    CASE op \in MetaOps -> {{"active"}, {"replica", "pending"}}
      [] op = "backfill" -> {{"replica", "pending"}}
      [] op = "getMeta" -> {GetMetaPermitted}
      [] op = "touch" -> {TouchPermitted}
      [] OTHER -> {{"active"}}

\* No request in flight.
NoReq == [op |-> "none", perm |-> {}, vb |-> "none"]

PC == {"idle", "start", "locked", "delPending", "delApply", "blocked"}

VARIABLES
    current,     \* vbMap: vbid -> incarnation in the map, 0 if none
    created,     \* vbid -> incarnations created so far
    objState,    \* VBucket object -> its state ("none" before creation)
    readers,     \* VBucket object -> requests holding its state lock
    pendingOps,  \* VBucket object -> cookies parked by addPendingOp
    notifyTasks, \* VBucket object -> scheduled PendingOpsNotification tasks
    pc,          \* cookie -> where its request is
    req,         \* cookie -> the request: op, permitted states, vbid
    held,        \* cookie -> the VBucket object its handler holds
    issued,      \* cookie -> requests issued (bounded by MaxOps)
    admin,       \* vBucket state requests served (bounded by MaxAdmin)
    applied      \* history: every write that reached the VBucket, with
                 \* the object's state at that moment

vars == <<current, created, objState, readers, pendingOps, notifyTasks,
          pc, req, held, issued, admin, applied>>
vbVars == <<current, created, objState>>
reqVars == <<pc, req, held, issued>>

(***************************************************************************)
(* Admission of the handlers that hold the state lock: set, add, replace,  *)
(* getInternal (HONOR_STATES), setWithMeta, deleteWithMeta and             *)
(* addBackfillItem.  A state outside the permitted ones is NOT_MY_VBUCKET  *)
(* except pending, where the request is parked (addPendingOp cannot fail   *)
(* under the lock: the state cannot change).                               *)
(***************************************************************************)
LockedAdmission(op, perm, s, backedUp, badCas) ==
    IF s \notin perm
    THEN IF s = "pending" THEN "block" ELSE "notMyVbucket"
    ELSE IF op \in TakeoverChecked /\ backedUp THEN "tmpFail"
    ELSE IF op \in CasChecked /\ badCas
         THEN IF op = "add" THEN "notStored" ELSE "keyExists"
    ELSE "proceed"

\* Admission of deleteItem, which reads the state without the state lock.
DeleteAdmission(s, backedUp) ==
    IF s \in {"dead", "replica"} THEN "notMyVbucket"
    ELSE IF s = "pending" THEN "addPending"
    ELSE IF backedUp THEN "tmpFail"
    ELSE "proceed"

\* getLocked, unlockKey and evictKey: NOT_MY_VBUCKET unless active, checked
\* without the state lock; nothing is parked.
ActiveOnlyAdmission(s) ==
    IF s = "active" THEN "proceed" ELSE "notMyVbucket"

\* deleteExpiredItem, under the state lock: only an active vBucket expires
\* the item; otherwise nothing happens.
ExpiryAdmission(s) ==
    IF s = "active" THEN "proceed" ELSE "skip"

\* Mutant: the state change does not wait for the readers.
WriterLockIgnored(o) == TRUE

\* A state change takes the state lock as writer: no reader may hold it.
WriterLockFree(o) == readers[o] = {}

\* The record of a write reaching the VBucket (VBucket::set, add, ...):
\* whether it came through deleteItem, and whether the object was then in
\* a state the request's admission permits.
Reached(c, o) ==
    IF req[c].op \in Writes
    THEN applied \cup {[unlocked |-> req[c].op \in UnlockedOps,
                        permitted |-> objState[o] \in req[c].perm]}
    ELSE applied

\* The request ends; its status (SUCCESS, NOT_MY_VBUCKET, TMPFAIL,
\* NOT_STORED, KEY_EEXISTS, UNKNOWN_COLLECTION) goes back to the front end
\* and is not kept.
Finish(c) ==
    /\ pc' = [pc EXCEPT ![c] = "idle"]
    /\ req' = [req EXCEPT ![c] = NoReq]
    /\ held' = [held EXCEPT ![c] = NoObj]

(***************************************************************************)
(* VBucket::fireAllOps: an active vBucket resumes its parked requests with *)
(* SUCCESS (the front end executes them again), a pending one keeps them,  *)
(* any other state fails them with NOT_MY_VBUCKET.                         *)
(***************************************************************************)
FireAllOps(o) ==
    LET s == objState[o]
        parked == pendingOps[o]
    IN  IF s = "pending"
        THEN UNCHANGED <<pendingOps, pc, req>>
        ELSE /\ pendingOps' = [pendingOps EXCEPT ![o] = {}]
             /\ pc' = [c \in Cookies |->
                         IF c \in parked
                         THEN IF s = "active" THEN "start" ELSE "idle"
                         ELSE pc[c]]
             /\ req' = [c \in Cookies |->
                         IF c \in parked /\ s # "active"
                         THEN NoReq ELSE req[c]]

----------------------------------------------------------------------------
Init ==
    /\ current = [v \in VB |-> 0]
    /\ created = [v \in VB |-> 0]
    /\ objState = [o \in Obj |-> "none"]
    /\ readers = [o \in Obj |-> {}]
    /\ pendingOps = [o \in Obj |-> {}]
    /\ notifyTasks = [o \in Obj |-> 0]
    /\ pc = [c \in Cookies |-> "idle"]
    /\ req = [c \in Cookies |-> NoReq]
    /\ held = [c \in Cookies |-> NoObj]
    /\ issued = [c \in Cookies |-> 0]
    /\ admin = 0
    /\ applied = {}

(***************************************************************************)
(* Requests                                                                *)
(***************************************************************************)

\* A client (or a DCP consumer) sends a request for vBucket v.
Issue(c, v, op, perm) ==
    /\ pc[c] = "idle"
    /\ issued[c] < MaxOps
    /\ pc' = [pc EXCEPT ![c] = "start"]
    /\ req' = [req EXCEPT ![c] = [op |-> op, perm |-> perm, vb |-> v]]
    /\ issued' = [issued EXCEPT ![c] = @ + 1]
    /\ UNCHANGED <<vbVars, readers, pendingOps, notifyTasks, held,
                   admin, applied>>

\* getVBucket finds no vBucket: every handler answers NOT_MY_VBUCKET.
VBucketMissing(c) ==
    /\ pc[c] = "start"
    /\ current[req[c].vb] = 0
    /\ Finish(c)
    /\ UNCHANGED <<vbVars, readers, pendingOps, notifyTasks, issued,
                   admin, applied>>

\* set / add / replace / getInternal / setWithMeta / deleteWithMeta /
\* addBackfillItem / getAndUpdateTtl / getMetaData / deleteExpiredItem:
\* take the state lock as reader and check the state.
Admit(c) ==
    /\ pc[c] = "start"
    /\ req[c].op \notin UnlockedOps
    /\ current[req[c].vb] # 0
    /\ LET o == <<req[c].vb, current[req[c].vb]>>
       IN \E backedUp, badCas \in BOOLEAN :
          LET outcome ==
                IF req[c].op = "expire"
                THEN ExpiryAdmission(objState[o])
                ELSE LockedAdmission(req[c].op, req[c].perm,
                                     objState[o], backedUp, badCas)
          IN \/ /\ outcome = "proceed"
                /\ readers' = [readers EXCEPT ![o] = @ \cup {c}]
                /\ pc' = [pc EXCEPT ![c] = "locked"]
                /\ held' = [held EXCEPT ![c] = o]
                /\ UNCHANGED <<pendingOps, req>>
             \/ /\ outcome = "block"
                /\ pendingOps' = [pendingOps EXCEPT ![o] = @ \cup {c}]
                /\ pc' = [pc EXCEPT ![c] = "blocked"]
                /\ UNCHANGED <<readers, req, held>>
             \/ /\ outcome \notin {"proceed", "block"}
                /\ Finish(c)
                /\ UNCHANGED <<readers, pendingOps>>
    /\ UNCHANGED <<vbVars, notifyTasks, issued, admin, applied>>

\* Still under the state lock: the collections read handle (which
\* addBackfillItem and deleteExpiredItem do not take), then the call into
\* the VBucket; the lock is released as the handler returns.
Apply(c) ==
    /\ pc[c] = "locked"
    /\ LET o == held[c]
       IN /\ readers' = [readers EXCEPT ![o] = @ \ {c}]
          /\ \E known \in BOOLEAN :
                IF known \/ req[c].op \in {"backfill", "expire"}
                THEN /\ applied' = Reached(c, o)
                     /\ Finish(c)
                ELSE /\ Finish(c)
                     /\ UNCHANGED applied
    /\ UNCHANGED <<vbVars, pendingOps, notifyTasks, issued, admin>>

\* deleteItem: the state checks, without the state lock.
DeleteCheck(c) ==
    /\ pc[c] = "start"
    /\ req[c].op = "delete"
    /\ current[req[c].vb] # 0
    /\ LET o == <<req[c].vb, current[req[c].vb]>>
       IN \E backedUp \in BOOLEAN :
          LET outcome == DeleteAdmission(objState[o], backedUp)
          IN \/ /\ outcome = "addPending"
                /\ pc' = [pc EXCEPT ![c] = "delPending"]
                /\ held' = [held EXCEPT ![c] = o]
                /\ UNCHANGED req
             \/ /\ outcome = "proceed"
                /\ pc' = [pc EXCEPT ![c] = "delApply"]
                /\ held' = [held EXCEPT ![c] = o]
                /\ UNCHANGED req
             \/ /\ outcome \in {"notMyVbucket", "tmpFail"}
                /\ Finish(c)
    /\ UNCHANGED <<vbVars, readers, pendingOps, notifyTasks, issued,
                   admin, applied>>

\* getLocked / unlockKey / evictKey: the state check, without the lock.
ActiveOnlyCheck(c) ==
    /\ pc[c] = "start"
    /\ req[c].op \in UnlockedOps \ {"delete"}
    /\ current[req[c].vb] # 0
    /\ LET o == <<req[c].vb, current[req[c].vb]>>
       IN \/ /\ ActiveOnlyAdmission(objState[o]) = "proceed"
             /\ pc' = [pc EXCEPT ![c] = "delApply"]
             /\ held' = [held EXCEPT ![c] = o]
             /\ UNCHANGED req
          \/ /\ ActiveOnlyAdmission(objState[o]) = "notMyVbucket"
             /\ Finish(c)
    /\ UNCHANGED <<vbVars, readers, pendingOps, notifyTasks, issued,
                   admin, applied>>

\* An unlocked handler past its checks: the collections handle, then the
\* call into the VBucket (deleteItem, getLocked, unlockKey, evictKey) on
\* whatever state the vBucket is in now.
ExecDelete(c) ==
    \E known \in BOOLEAN :
        IF known
        THEN /\ applied' = Reached(c, held[c])
             /\ Finish(c)
        ELSE /\ Finish(c)
             /\ UNCHANGED applied

\* Mutant: deleteItem ignores addPendingOp's result and deletes anyway.
DeleteAddPendingIgnoresResult(c) ==
    /\ pc[c] = "delPending"
    /\ LET o == held[c]
       IN pendingOps' = [pendingOps EXCEPT ![o] =
                           IF objState[o] = "pending" THEN @ \cup {c} ELSE @]
    /\ ExecDelete(c)
    /\ UNCHANGED <<vbVars, readers, notifyTasks, issued, admin>>

\* deleteItem saw pending: addPendingOp parks the request if the vBucket is
\* still pending, otherwise returns false and the handler falls through to
\* the delete.
DeleteAddPending(c) ==
    /\ pc[c] = "delPending"
    /\ LET o == held[c]
       IN IF objState[o] = "pending"
          THEN /\ pendingOps' = [pendingOps EXCEPT ![o] = @ \cup {c}]
               /\ pc' = [pc EXCEPT ![c] = "blocked"]
               /\ UNCHANGED <<req, held, applied>>
          ELSE /\ ExecDelete(c)
               /\ UNCHANGED pendingOps
    /\ UNCHANGED <<vbVars, readers, notifyTasks, issued, admin>>

DeleteApply(c) ==
    /\ pc[c] = "delApply"
    /\ ExecDelete(c)
    /\ UNCHANGED <<vbVars, readers, pendingOps, notifyTasks, issued,
                   admin>>

(***************************************************************************)
(* vBucket state requests (under vbsetMutex, so one at a time)             *)
(***************************************************************************)

\* setVBucketState for a vbid with no VBucket: a new object in state `to'.
CreateVBucket(v, to) ==
    /\ admin < MaxAdmin
    /\ current[v] = 0
    /\ created[v] < MaxInc
    /\ LET o == <<v, created[v] + 1>>
       IN /\ objState' = [objState EXCEPT ![o] = to]
          /\ current' = [current EXCEPT ![v] = created[v] + 1]
          /\ created' = [created EXCEPT ![v] = @ + 1]
    /\ admin' = admin + 1
    /\ UNCHANGED <<readers, pendingOps, notifyTasks, reqVars, applied>>

\* setVBucketState for an existing VBucket.  The same state without meta
\* returns at once; otherwise vbMap.setState takes the writer lock, and a
\* pending -> active change schedules PendingOpsNotification.
SetVBucketState(v, to, meta) ==
    /\ admin < MaxAdmin
    /\ current[v] # 0
    /\ LET o == <<v, current[v]>>
           old == objState[o]
       IN \/ /\ to = old /\ ~meta
             /\ UNCHANGED <<objState, notifyTasks>>
          \/ /\ to # old \/ meta
             /\ WriterLockFree(o)
             /\ objState' = [objState EXCEPT ![o] = to]
             /\ notifyTasks' =
                    [notifyTasks EXCEPT ![o] =
                        @ + (IF old = "pending" /\ to = "active" THEN 1 ELSE 0)]
    /\ admin' = admin + 1
    /\ UNCHANGED <<current, created, readers, pendingOps, reqVars, applied>>

\* deleteVBucket: the locked VBucket is set dead (writer lock) and dropped
\* from the map; its object lives on while anything still holds it.
DeleteVBucket(v) ==
    /\ admin < MaxAdmin
    /\ current[v] # 0
    /\ LET o == <<v, current[v]>>
       IN /\ WriterLockFree(o)
          /\ objState' = [objState EXCEPT ![o] = "dead"]
    /\ current' = [current EXCEPT ![v] = 0]
    /\ admin' = admin + 1
    /\ UNCHANGED <<created, readers, pendingOps, notifyTasks, reqVars,
                   applied>>

\* resetVBucket_UNLOCKED: drop the VBucket from the map (it stays in its
\* state) and create a new one in the same state.
resetVBucket_UNLOCKED(v) ==
    /\ created[v] < MaxInc
    /\ objState' = [objState EXCEPT ![<<v, created[v] + 1>>] =
                        objState[<<v, current[v]>>]]
    /\ current' = [current EXCEPT ![v] = created[v] + 1]
    /\ created' = [created EXCEPT ![v] = @ + 1]

(***************************************************************************)
(* The rollback task (KVBucket::rollback) under vbsetMutex, holding the    *)
(* VBucket's state lock as reader.  A missing vBucket, or one that is not  *)
(* replica or pending, aborts.  With a non-zero seqno the KVStore may      *)
(* rewind (doRollback succeeds with a high seqno > 0): the data changes,   *)
(* the vBucket does not.  Otherwise resetVBucket_UNLOCKED drops the object *)
(* from the map, without setting it dead, and setVBucketState_UNLOCKED     *)
(* creates a new one in the same state.  A failed try_lock reschedules the *)
(* task, which changes nothing.                                            *)
(***************************************************************************)
Rollback(v) ==
    /\ admin < MaxAdmin
    /\ \/ /\ current[v] = 0
          /\ UNCHANGED vbVars
       \/ /\ current[v] # 0
          /\ LET o == <<v, current[v]>>
                 rollbackable == objState[o] \in {"replica", "pending"}
             IN \/ /\ ~rollbackable
                   /\ UNCHANGED vbVars
                \/ /\ rollbackable
                   /\ UNCHANGED vbVars
                \/ /\ rollbackable
                   /\ resetVBucket_UNLOCKED(v)
    /\ admin' = admin + 1
    /\ UNCHANGED <<readers, pendingOps, notifyTasks, reqVars, applied>>

\* The executor runs a PendingOpsNotification task for its VBucket.
RunPendingOpsNotification(o) ==
    /\ notifyTasks[o] > 0
    /\ notifyTasks' = [notifyTasks EXCEPT ![o] = @ - 1]
    /\ FireAllOps(o)
    /\ UNCHANGED <<vbVars, readers, held, issued, admin, applied>>

----------------------------------------------------------------------------
Worker(c) ==
    \/ VBucketMissing(c)
    \/ Admit(c)
    \/ Apply(c)
    \/ DeleteCheck(c)
    \/ ActiveOnlyCheck(c)
    \/ DeleteAddPending(c)
    \/ DeleteApply(c)

Next ==
    \/ \E c \in Cookies, v \in VB, op \in Ops :
          \E perm \in PermChoices(op) : Issue(c, v, op, perm)
    \/ \E c \in Cookies : Worker(c)
    \/ \E v \in VB, to \in VBStates : CreateVBucket(v, to)
    \/ \E v \in VB, to \in VBStates, meta \in BOOLEAN :
          SetVBucketState(v, to, meta)
    \/ \E v \in VB : DeleteVBucket(v)
    \/ \E v \in VB : Rollback(v)
    \/ \E o \in Obj : RunPendingOpsNotification(o)

\* Worker threads keep running a request they hold and the executor runs
\* the tasks it has been given; clients and the cluster manager need not
\* send anything.
Fairness ==
    /\ \A c \in Cookies : WF_vars(Worker(c))
    /\ \A o \in Obj : WF_vars(RunPendingOpsNotification(o))

Spec == Init /\ [][Next]_vars /\ Fairness

----------------------------------------------------------------------------

(***************************************************************************)
(* The handlers that hold the state lock (set, add, replace, setWithMeta,  *)
(* deleteWithMeta, addBackfillItem) only reach the VBucket while it is in  *)
(* a state their admission permits: a concurrent setVBucketState or        *)
(* deleteVBucket cannot slip between the check and the write.              *)
(***************************************************************************)
LockedWritesInPermittedState ==
    \A w \in applied : ~w.unlocked => w.permitted

(***************************************************************************)
(* The handlers that check the state without the lock (deleteItem,         *)
(* getLocked, unlockKey, evictKey) only reach the VBucket while it is      *)
(* active, as the spec requires of every client write.                     *)
(***************************************************************************)
UnlockedWritesOnlyOnActive ==
    \A w \in applied : w.unlocked => w.permitted

(***************************************************************************)
(* A cookie has at most one blocking operation outstanding: it is parked   *)
(* on exactly one VBucket while it waits and on none otherwise, so         *)
(* fireAllOps resumes it once.                                             *)
(***************************************************************************)
OneOutstandingBlock ==
    \A c \in Cookies :
        Cardinality({o \in Obj : c \in pendingOps[o]}) =
            IF pc[c] = "blocked" THEN 1 ELSE 0

(***************************************************************************)
(* A request parked on a pending vBucket is resumed once the vBucket has   *)
(* left the pending state, whatever state it went to (spec: the cookie is  *)
(* notified exactly once with a terminal status, through fireAllOps when   *)
(* the state changes).                                                     *)
(***************************************************************************)
ParkedRequestsResumed ==
    \A c \in Cookies, o \in Obj :
        (c \in pendingOps[o] /\ objState[o] # "pending")
            ~> (c \notin pendingOps[o])

=============================================================================

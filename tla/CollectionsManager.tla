------------------------ MODULE CollectionsManager ------------------------
(***************************************************************************)
(* Collections::Manager (src/unnamed/part_001) and its callers in          *)
(* kv_bucket.cc: the bucket's current manifest, the manager's mutex, and   *)
(* the collections manifest of every vBucket.                              *)
(*                                                                         *)
(* setCollections holds vbsetMutex and calls Manager::update, which        *)
(* try_locks the manager's mutex, parses the manifest, applies it to every *)
(* active vBucket in vbid order and, on the first rejection, re-applies    *)
(* the current manifest to every active vBucket.  setVBucketState and      *)
(* createVBucket (also under vbsetMutex) call Manager::update(VBucket&)    *)
(* when a vBucket becomes active from replica or is created active.        *)
(* getCollections takes the manager's mutex to read the current manifest.  *)
(*                                                                         *)
(* A manifest is its uid: manifests are numbered in the order they are     *)
(* pushed, 0 stands for a vBucket's default manifest and, for `current',   *)
(* for nullptr.  Whether a vBucket accepts a manifest (VB::Manifest::update *)
(* is not in this repository) depends on the manifest's content, fixed per *)
(* vBucket and manifest by the set `rejects' chosen in Init.               *)
(***************************************************************************)
EXTENDS Naturals, FiniteSets

CONSTANTS
    NumVB,        \* the size of the vBucket map
    MaxManifest,  \* the number of valid manifests pushed
    MaxCalls      \* the number of setCollections calls

VBids == 0 .. NumVB - 1
Manifests == 1 .. MaxManifest
VBStates == {"active", "replica", "pending", "dead"}
NoVB == "none"           \* vbMap.getBucket(vbid) returns null

VARIABLES
    vbState,      \* vbid -> state of the VBucket in the map, or NoVB
    vbManifest,   \* vbid -> uid of the VBucket's collections manifest
    rejects,      \* <<vbid, uid>> pairs where updateFromManifest fails
    current,      \* Manager::current, 0 for nullptr
    mgrLock,      \* holder of Manager::lock: "free", "admin" or "reader"
    vbsetLock,    \* holder of vbsetMutex: "free" or "admin"
    admin,        \* the setCollections call in progress
    reader,       \* a getCollections call: "idle" or "holding"
    issued,       \* manifests constructed so far
    calls         \* setCollections calls made so far

vars == <<vbState, vbManifest, rejects, current, mgrLock, vbsetLock, admin,
          reader, issued, calls>>

AdminPCs == {"idle", "update", "apply", "rollback", "crashed"}
Statuses == {"none", "success", "temporary_failure", "invalid_arguments",
             "cannot_apply"}

----------------------------------------------------------------------------
\* VB::updateFromManifest: re-applying the manifest the vBucket already has
\* changes nothing; otherwise a manifest is accepted unless its content is
\* one this vBucket rejects.
VBucketAccepts(v, m) == vbManifest[v] = m \/ <<v, m>> \notin rejects

\* Manager::update(VBucket&): under the manager's mutex, apply the current
\* manifest if there is one; the result of updateFromManifest is dropped.
UpdateVB(v) ==
    IF current # 0 /\ VBucketAccepts(v, current) THEN current ELSE vbManifest[v]

\* The call returns `status' and setCollections releases vbsetMutex.
Return(status, rolledBack) ==
    /\ admin' = [admin EXCEPT !.pc = "idle", !.status = status,
                              !.rolledBack = rolledBack]
    /\ vbsetLock' = "free"

----------------------------------------------------------------------------
Init ==
    /\ vbState \in [VBids -> VBStates \cup {NoVB}]
    /\ vbManifest = [v \in VBids |-> 0]
    /\ rejects \in SUBSET (VBids \X Manifests)
    /\ current = 0
    /\ mgrLock = "free"
    /\ vbsetLock = "free"
    /\ admin = [pc |-> "idle", m |-> 0, i |-> 0, status |-> "none",
                rolledBack |-> FALSE]
    /\ reader = "idle"
    /\ issued = 0
    /\ calls = 0

\* Mutant: setCollections does not take vbsetMutex.
SetCollectionsWithoutVbset ==
    /\ admin.pc = "idle"
    /\ calls < MaxCalls
    /\ calls' = calls + 1
    /\ admin' = [admin EXCEPT !.pc = "update", !.status = "none"]
    /\ UNCHANGED <<vbState, vbManifest, rejects, current, mgrLock, vbsetLock,
                   reader, issued>>

\* KVBucket::setCollections: vbsetMutex inhibits vBucket state changes for
\* the whole update.
SetCollections ==
    /\ admin.pc = "idle"
    /\ calls < MaxCalls
    /\ vbsetLock = "free"
    /\ vbsetLock' = "admin"
    /\ calls' = calls + 1
    /\ admin' = [admin EXCEPT !.pc = "update", !.status = "none"]
    /\ UNCHANGED <<vbState, vbManifest, rejects, current, mgrLock, reader,
                   issued>>

\* Manager::update(bucket, manifest): try_lock, then construct the manifest.
ManagerUpdate ==
    /\ admin.pc = "update"
    /\ \/ /\ mgrLock # "free"
          /\ Return("temporary_failure", FALSE)
          /\ UNCHANGED <<mgrLock, issued>>
       \/ /\ mgrLock = "free"
          /\ Return("invalid_arguments", FALSE)
          /\ UNCHANGED <<mgrLock, issued>>
       \/ /\ mgrLock = "free"
          /\ issued < MaxManifest
          /\ mgrLock' = "admin"
          /\ issued' = issued + 1
          /\ admin' = [admin EXCEPT !.pc = "apply", !.m = issued + 1, !.i = 0]
          /\ UNCHANGED vbsetLock
    /\ UNCHANGED <<vbState, vbManifest, rejects, current, reader, calls>>

\* Mutant: the rollback starts at the vBucket that rejected the update.
RollbackFromFailed(i) == [admin EXCEPT !.pc = "rollback", !.i = i]

\* updateAllVBuckets(bucket, *current) after updateAllVBuckets returned the
\* vbid at index i: the rollback visits the map from vbid 0.
BeginRollback(i) == [admin EXCEPT !.pc = "rollback", !.i = 0]

\* One iteration of updateAllVBuckets: the vBucket at index i, if it is in
\* the map and active, is given the new manifest (apply) or the current one
\* (rollback).  A rejection ends the loop.  With no current manifest the
\* rollback dereferences nullptr: the process crashes.
UpdateVBucket ==
    /\ admin.pc \in {"apply", "rollback"}
    /\ admin.i < NumVB
    /\ LET v == admin.i
           target == IF admin.pc = "apply" THEN admin.m ELSE current
       IN  \/ /\ vbState[v] # "active" \/ VBucketAccepts(v, target)
              /\ vbManifest' = IF vbState[v] = "active"
                               THEN [vbManifest EXCEPT ![v] = target]
                               ELSE vbManifest
              /\ admin' = [admin EXCEPT !.i = v + 1]
              /\ UNCHANGED <<mgrLock, vbsetLock, current>>
           \/ /\ vbState[v] = "active" /\ ~VBucketAccepts(v, target)
              /\ admin.pc = "apply"
              /\ admin' = IF current = 0 THEN [admin EXCEPT !.pc = "crashed"]
                          ELSE BeginRollback(v)
              /\ UNCHANGED <<vbManifest, mgrLock, vbsetLock, current>>
           \/ /\ vbState[v] = "active" /\ ~VBucketAccepts(v, target)
              /\ admin.pc = "rollback"
              /\ Return("cannot_apply", FALSE)
              /\ mgrLock' = "free"
              /\ UNCHANGED <<vbManifest, current>>
    /\ UNCHANGED <<vbState, rejects, reader, issued, calls>>

\* updateAllVBuckets returned no vbid: the new manifest becomes current, or
\* the rollback succeeded and the update fails.
UpdateDone ==
    /\ admin.pc \in {"apply", "rollback"}
    /\ admin.i = NumVB
    /\ \/ /\ admin.pc = "apply"
          /\ current' = admin.m
          /\ Return("success", FALSE)
       \/ /\ admin.pc = "rollback"
          /\ Return("cannot_apply", TRUE)
          /\ UNCHANGED current
    /\ mgrLock' = "free"
    /\ UNCHANGED <<vbState, vbManifest, rejects, reader, issued, calls>>

\* Manager::getManifest (getCollections): the mutex is held while the
\* current manifest is read, and released on return.
GetManifest ==
    /\ reader = "idle"
    /\ mgrLock = "free"
    /\ mgrLock' = "reader"
    /\ reader' = "holding"
    /\ UNCHANGED <<vbState, vbManifest, rejects, current, vbsetLock, admin,
                   issued, calls>>

GetManifestReturn ==
    /\ reader = "holding"
    /\ mgrLock' = "free"
    /\ reader' = "idle"
    /\ UNCHANGED <<vbState, vbManifest, rejects, current, vbsetLock, admin,
                   issued, calls>>

\* Mutant: the replica -> active refresh is not made.
NoRefresh(v, to) == vbManifest[v]

\* The manifest a vBucket has after setVBucketState(v, to): a replica made
\* active, or a vBucket created active (default manifest), is given the
\* current manifest through Manager::update(VBucket&).
ManifestAfterStateChange(v, to) ==
    CASE vbState[v] = NoVB -> IF to = "active" THEN UpdateVB(v) ELSE 0
      [] vbState[v] = "replica" /\ to = "active" -> UpdateVB(v)
      [] OTHER -> vbManifest[v]

\* setVBucketState / createVBucket under vbsetMutex.  The state is set
\* first; Manager::update(VBucket&) then blocks on the manager's mutex.
SetVBucketState(v, to) ==
    /\ vbsetLock = "free"
    /\ to # vbState[v]
    /\ (to = "active" /\ vbState[v] \in {"replica", NoVB}) => mgrLock = "free"
    /\ vbState' = [vbState EXCEPT ![v] = to]
    /\ vbManifest' = [vbManifest EXCEPT ![v] = ManifestAfterStateChange(v, to)]
    /\ UNCHANGED <<rejects, current, mgrLock, vbsetLock, admin, reader,
                   issued, calls>>

\* deleteVBucket under vbsetMutex: dead, then dropped from the map.
DeleteVBucket(v) ==
    /\ vbsetLock = "free"
    /\ vbState[v] # NoVB
    /\ vbState' = [vbState EXCEPT ![v] = NoVB]
    /\ vbManifest' = [vbManifest EXCEPT ![v] = 0]
    /\ UNCHANGED <<rejects, current, mgrLock, vbsetLock, admin, reader,
                   issued, calls>>

\* A replica or pending vBucket follows the manifest of the active vBucket
\* on another node through DCP system events: any manifest pushed so far.
ReplicaReceivesManifest(v, m) ==
    /\ vbState[v] \in {"replica", "pending"}
    /\ m # vbManifest[v]
    /\ vbManifest' = [vbManifest EXCEPT ![v] = m]
    /\ UNCHANGED <<vbState, rejects, current, mgrLock, vbsetLock, admin,
                   reader, issued, calls>>

Next ==
    \/ SetCollections
    \/ ManagerUpdate
    \/ UpdateVBucket
    \/ UpdateDone
    \/ GetManifest
    \/ GetManifestReturn
    \/ \E v \in VBids, to \in VBStates : SetVBucketState(v, to)
    \/ \E v \in VBids : DeleteVBucket(v)
    \/ \E v \in VBids, m \in 1 .. issued : ReplicaReceivesManifest(v, m)

\* A thread that has started an update or a read runs it to completion.
Fairness ==
    /\ WF_vars(ManagerUpdate \/ UpdateVBucket \/ UpdateDone)
    /\ WF_vars(GetManifestReturn)

Spec == Init /\ [][Next]_vars /\ Fairness

----------------------------------------------------------------------------

ActiveOnCurrent(v) == vbState[v] = "active" => vbManifest[v] = current

(***************************************************************************)
(* A setCollections that returns success has given the new manifest to     *)
(* every vBucket that is active when it returns: updateAllVBuckets visits  *)
(* the whole map while vbsetMutex keeps vBucket states from changing.      *)
(***************************************************************************)
SuccessMeansApplied ==
    [][admin.pc = "apply" /\ admin'.pc = "idle" /\ admin'.status = "success"
       => \A v \in VBids : ActiveOnCurrent(v)']_vars

(***************************************************************************)
(* When Manager::update reports "rolled-back success:1", every active      *)
(* vBucket is back on the current manifest, including those that had      *)
(* taken the new one before the rejection.                                 *)
(***************************************************************************)
RollbackReportTruthful ==
    [][admin.pc = "rollback" /\ admin'.pc = "idle" /\ admin'.rolledBack
       => \A v \in VBids : ActiveOnCurrent(v)']_vars

(***************************************************************************)
(* Spec 4.H: new manifests are applied to every active partition, and a    *)
(* rejected update is rolled back on all of them.  So, between updates,    *)
(* every active vBucket is on the manager's current manifest.              *)
(***************************************************************************)
ActiveVBucketsOnCurrent ==
    admin.pc = "idle" /\ current # 0 => \A v \in VBids : ActiveOnCurrent(v)

(***************************************************************************)
(* Manager::update never dereferences a null current manifest: the process *)
(* does not crash when a vBucket rejects a manifest.                       *)
(***************************************************************************)
NoNullManifestDereference == admin.pc # "crashed"

====

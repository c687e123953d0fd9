----------------------------- MODULE VBVisitors -----------------------------
(***************************************************************************)
(* The ways KVBucket walks its vBuckets (kv_bucket.cc):                    *)
(*   - VBCBAdaptor, the task KVBucket::visit schedules for a visitor: it   *)
(*     lists the vBuckets the visitor's filter accepts when it is built,   *)
(*     then visits one per run, snoozing when the visitor asks to pause;   *)
(*   - pauseResumeVisit, a walk that stops where the visitor pauses and    *)
(*     is resumed later from the Position it returned;                    *)
(*   - getRandomKey, a scan from a random vBucket round the whole map.     *)
(* The vBucket map is reduced to the set of vbids it holds an object for;  *)
(* vBuckets are created and deleted while the walks are in progress.      *)
(***************************************************************************)
EXTENDS Naturals, FiniteSets, Sequences, SequencesExt

CONSTANTS
    NumVB,          \* vbMap.getSize()
    Filter,         \* the vbids the adaptor's VBucketFilter accepts
    RandomValues,   \* values labs(getRandom()) may take
    MaxPauses,      \* bound on the pauses a visitor asks for in one walk
    MaxChanges      \* bound on vBucket creations and deletions

VB == 0 .. NumVB - 1
NoKey == NumVB      \* getRandomKey found no key: ENGINE_KEY_ENOENT

VARIABLES
    present,     \* vbids for which vbMap.getBucket returns a VBucket
    changes,     \* creations and deletions so far
    task,        \* the VBCBAdaptor: "none", "scheduled" or "done"
    vbList,      \* its queue of vbids, built in the constructor
    listed,      \* history: the vbids the constructor put in vbList
    stable,      \* history: listed vbids present ever since construction
    visits,      \* history: visitBucket calls per vbid
    completed,   \* history: visitor->complete() calls
    pauses,      \* pauses asked for by the adaptor's visitor
    walking,     \* a pauseResumeVisit call is running
    vbid,        \* its loop variable
    pos,         \* the Position the last call returned
    finished,    \* vbids whose visit(vb) returned true in this walk
    walkStable,  \* history: vbids present since the walk started
    walkPauses   \* pauses asked for in this walk

adaptorVars == <<task, vbList, listed, stable, visits, completed, pauses>>
walkVars == <<walking, vbid, pos, finished, walkStable, walkPauses>>
vars == <<present, changes, adaptorVars, walkVars>>

----------------------------------------------------------------------------
(* getRandomKey: from start, try each vBucket in turn, wrapping at max,   *)
(* until one is active and its hash table yields a key (`hits'), or the   *)
(* scan is back at start.                                                 *)
RECURSIVE ScanFrom(_, _, _)
ScanFrom(curr, start, hits) ==
    IF curr \in hits THEN curr
    ELSE LET next == IF curr + 1 = NumVB THEN 0 ELSE curr + 1
         IN  IF next = start THEN NoKey ELSE ScanFrom(next, start, hits)

\* Mutant: the random start is taken modulo max - 1.
GetRandomKeyShortModulus(rnd, hits) ==
    LET start == rnd % (NumVB - 1) IN ScanFrom(start, start, hits)

GetRandomKey(rnd, hits) ==
    LET start == rnd % NumVB IN ScanFrom(start, start, hits)

\* Reference: the first vBucket with a key in cyclic order from start.
FirstHit(start, hits) ==
    LET at(k) == (start + k) % NumVB
        ks == {k \in 0 .. NumVB - 1 : at(k) \in hits}
    IN  IF ks = {} THEN NoKey
        ELSE at(CHOOSE k \in ks : \A j \in ks : k <= j)

----------------------------------------------------------------------------
Init ==
    /\ present \in SUBSET VB
    /\ changes = 0
    /\ task = "none"
    /\ vbList = <<>>
    /\ listed = {}
    /\ stable = {}
    /\ visits = [v \in VB |-> 0]
    /\ completed = 0
    /\ pauses = 0
    /\ walking = FALSE
    /\ vbid = 0
    /\ pos = 0
    /\ finished = {}
    /\ walkStable = present
    /\ walkPauses = 0

(* setVBucketState_UNLOCKED creating a vBucket, deleteVBucket dropping it. *)
CreateVBucket(v) ==
    /\ changes < MaxChanges /\ v \notin present
    /\ present' = present \cup {v}
    /\ changes' = changes + 1
    /\ UNCHANGED <<adaptorVars, walkVars>>

DeleteVBucket(v) ==
    /\ changes < MaxChanges /\ v \in present
    /\ present' = present \ {v}
    /\ changes' = changes + 1
    /\ stable' = stable \ {v}
    /\ walkStable' = walkStable \ {v}
    /\ UNCHANGED <<task, vbList, listed, visits, completed, pauses,
                   walking, vbid, pos, finished, walkPauses>>

(* Mutant: the constructor lists every vbid, ignoring the filter.        *)
VisitUnfiltered ==
    /\ task \in {"none", "done"}
    /\ vbList' = SetToSortSeq(present, LAMBDA a, b : a < b)
    /\ listed' = present
    /\ stable' = present
    /\ task' = "scheduled"
    /\ visits' = [v \in VB |-> 0]
    /\ completed' = 0
    /\ pauses' = 0
    /\ UNCHANGED <<present, changes, walkVars>>

(* KVBucket::visit: the VBCBAdaptor constructor lists the filtered vbids  *)
(* of the map in order, and the task is scheduled.                        *)
Visit ==
    /\ task \in {"none", "done"}
    /\ LET ids == present \cap Filter
       IN  /\ vbList' = SetToSortSeq(ids, LAMBDA a, b : a < b)
           /\ listed' = ids
           /\ stable' = ids
    /\ task' = "scheduled"
    /\ visits' = [v \in VB |-> 0]
    /\ completed' = 0
    /\ pauses' = 0
    /\ UNCHANGED <<present, changes, walkVars>>

(* Mutant: on a pause the vbid is popped as well, as if it were visited.  *)
AdaptorPausePop ==
    /\ pauses < MaxPauses
    /\ pauses' = pauses + 1
    /\ vbList' = Tail(vbList)
    /\ UNCHANGED <<task, visits, completed>>

(* visitor->pauseVisitor(): snooze(sleepTime) and return true, before the *)
(* vbid is popped, so the next run tries the same vBucket again.          *)
AdaptorPause ==
    /\ pauses < MaxPauses
    /\ pauses' = pauses + 1
    /\ UNCHANGED <<task, vbList, visits, completed>>

(* Mutant: the pop is inside `if (vb)', so a deleted vBucket stays.      *)
PoppedIfPresent(v, list) == IF v \in present THEN Tail(list) ELSE list

(* vbList.pop(), after the `if (vb)' block: visited or gone, it is done.  *)
Popped(v, list) == Tail(list)

(* `return !isdone': the task is rescheduled while vbids remain.          *)
AdaptorReturn(rest) == IF rest = <<>> THEN "done" ELSE "scheduled"

(* VBCBAdaptor::run, one execution of the task.  If the front vBucket     *)
(* still exists the visitor may pause; otherwise the vBucket, if it       *)
(* exists, is visited, and the vbid is popped.  The run that finds the    *)
(* list empty calls complete().                                           *)
AdaptorRun ==
    /\ task = "scheduled"
    /\ \/ /\ vbList # <<>>
          /\ Head(vbList) \in present
          /\ AdaptorPause
       \/ LET v == Head(vbList)
              rest == Popped(v, vbList)
          IN  /\ vbList # <<>>
              /\ visits' = IF v \in present
                           THEN [visits EXCEPT ![v] = @ + 1] ELSE visits
              /\ vbList' = rest
              /\ completed' = IF rest = <<>> THEN completed + 1 ELSE completed
              /\ task' = AdaptorReturn(rest)
              /\ UNCHANGED pauses
       \/ /\ vbList = <<>>
          /\ completed' = completed + 1
          /\ task' = AdaptorReturn(vbList)
          /\ UNCHANGED <<vbList, visits, pauses>>
    /\ UNCHANGED <<present, changes, listed, stable, walkVars>>

----------------------------------------------------------------------------
(* The caller of pauseResumeVisit (the defragmenter's task) starts a call *)
(* from the Position the last one returned, and starts a new walk from    *)
(* startPosition() once endPosition() is reached.                         *)
WalkCall ==
    /\ ~walking
    /\ pos < NumVB
    /\ walking' = TRUE
    /\ vbid' = pos
    /\ UNCHANGED <<present, changes, adaptorVars, pos, finished, walkStable,
                   walkPauses>>

WalkRestart ==
    /\ ~walking
    /\ pos = NumVB
    /\ pos' = 0
    /\ finished' = {}
    /\ walkStable' = present
    /\ walkPauses' = 0
    /\ UNCHANGED <<present, changes, adaptorVars, walking, vbid>>

(* Mutant: a paused walk returns the Position after the paused vBucket.   *)
WalkPauseAfter(v) ==
    /\ walking' = FALSE
    /\ pos' = v + 1
    /\ walkPauses' = walkPauses + 1
    /\ UNCHANGED <<vbid, finished>>

WalkPause(v) ==
    /\ walking' = FALSE
    /\ pos' = v
    /\ walkPauses' = walkPauses + 1
    /\ UNCHANGED <<vbid, finished>>

(* One iteration of pauseResumeVisit's loop: a vBucket that exists is     *)
(* visited; visit() returning false breaks out and returns this vbid.     *)
WalkStep ==
    /\ walking
    /\ vbid < NumVB
    /\ \/ /\ vbid \notin present
          /\ vbid' = vbid + 1
          /\ UNCHANGED <<walking, pos, finished, walkPauses>>
       \/ /\ vbid \in present
          /\ finished' = finished \cup {vbid}
          /\ vbid' = vbid + 1
          /\ UNCHANGED <<walking, pos, walkPauses>>
       \/ /\ vbid \in present
          /\ walkPauses < MaxPauses
          /\ WalkPause(vbid)
    /\ UNCHANGED <<present, changes, adaptorVars, walkStable>>

WalkEnd ==
    /\ walking
    /\ vbid = NumVB
    /\ walking' = FALSE
    /\ pos' = NumVB
    /\ UNCHANGED <<present, changes, adaptorVars, vbid, finished, walkStable,
                   walkPauses>>

----------------------------------------------------------------------------
Next ==
    \/ \E v \in VB : CreateVBucket(v) \/ DeleteVBucket(v)
    \/ Visit
    \/ AdaptorRun
    \/ WalkCall
    \/ WalkRestart
    \/ WalkStep
    \/ WalkEnd

(* The executor pool runs a scheduled (or snoozed) task again.            *)
Spec == Init /\ [][Next]_vars /\ WF_vars(AdaptorRun)

----------------------------------------------------------------------------
TypeOK ==
    /\ present \subseteq VB
    /\ changes \in 0 .. MaxChanges
    /\ task \in {"none", "scheduled", "done"}
    /\ vbList \in Seq(VB)
    /\ listed \cup stable \subseteq Filter
    /\ visits \in [VB -> Nat]
    /\ completed \in Nat
    /\ pauses \in 0 .. MaxPauses
    /\ walking \in BOOLEAN
    /\ vbid \in 0 .. NumVB
    /\ pos \in 0 .. NumVB
    /\ finished \cup walkStable \subseteq VB
    /\ walkPauses \in 0 .. MaxPauses

(***************************************************************************)
(* getRandomKey returns the first vBucket, in cyclic order from the       *)
(* random start, that exists, is active and yields a key, and ENOENT only *)
(* when there is none: the wrap at max and the stop at start miss none.   *)
(***************************************************************************)
RandomKeyFromFirstActive ==
    \A rnd \in RandomValues, hits \in SUBSET present :
        GetRandomKey(rnd, hits) = FirstHit(rnd % NumVB, hits)

(***************************************************************************)
(* The adaptor visits each vBucket it listed at most once, and by the     *)
(* time it calls complete() (once) it has visited every listed vBucket    *)
(* that existed throughout, although vBuckets were deleted and created   *)
(* while it snoozed and ran.                                               *)
(***************************************************************************)
AdaptorVisitsListedOnce ==
    /\ \A v \in VB : visits[v] <= 1 /\ (visits[v] = 1 => v \in listed)
    /\ completed <= 1
    /\ completed = 1 => \A v \in stable : visits[v] = 1

(***************************************************************************)
(* When a pause-resume walk reaches endPosition(), every vBucket present  *)
(* since the walk started has been visited to the end: resuming at the   *)
(* returned Position skips none of them.                                  *)
(***************************************************************************)
NoVBucketSkipped ==
    (~walking /\ pos = NumVB) => walkStable \subseteq finished

(***************************************************************************)
(* A scheduled VBCBAdaptor completes: every run pops a vbid or pauses,    *)
(* pauses are finite, and the run that empties the list stops the task.   *)
(***************************************************************************)
AdaptorCompletes ==
    task = "scheduled" ~> task = "done"

============================================================================

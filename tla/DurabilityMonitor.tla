------------------------- MODULE DurabilityMonitor -------------------------
(***************************************************************************)
(* The DurabilityMonitor of one active vBucket (durability_monitor.h,      *)
(* kept in kv_bucket.cc): the SyncWrites it tracks in seqno order, the     *)
(* replication chain and, per node and per tracking (memory, disk), the    *)
(* seqno of the last tracked write the node has reached (write seqno) and  *)
(* the last seqno it acknowledged (ack seqno).  All of it changes under    *)
(* the monitor's mutex, so every call is one atomic step.                  *)
(*                                                                         *)
(* The environment: the vBucket enqueues items (SyncWrites and plain       *)
(* mutations) at increasing seqnos, and every node of the chain sends      *)
(* DCP_SEQNO_ACK for what it holds in memory and on disk: never beyond the *)
(* high seqno, never less on disk than in memory, never going back.  Only  *)
(* replicas send DCP_SEQNO_ACK.  The active's memory position moves with   *)
(* addSyncWrite, and nothing moves its disk position: the unit test at     *)
(* part_002:307-310 calls seqnoAckReceived for the active only to simulate *)
(* a persistence notification that "has not been implemented yet".        *)
(***************************************************************************)
EXTENDS Naturals, Sequences, FiniteSets

CONSTANTS
    Chain,      \* the registered replication chain, the active first
    Levels,     \* the durability levels requested by clients
    MaxSeqno    \* the highest seqno an item may take

Nodes == {Chain[i] : i \in 1 .. Len(Chain)}
Active == Chain[1]
Replicas == Nodes \ {Active}
Tracking == {"memory", "disk"}
AllLevels == {"Majority", "MajorityAndPersistOnMaster", "PersistToMajority"}

\* registerReplicationChain refuses an empty chain, more than
\* maxReplicas + 1 nodes, and a duplicate node.
ValidChain(c) ==
    /\ 1 <= Len(c) /\ Len(c) <= 3 + 1
    /\ \A i, j \in 1 .. Len(c) : i # j => c[i] # c[j]

ASSUME ValidChain(Chain) /\ Levels \subseteq AllLevels /\ MaxSeqno \in Nat

VARIABLES
    high,        \* the vBucket's high seqno (checkpoint manager)
    tracked,     \* trackedWrites: [seqno, level] in seqno order
    writeSeqno,  \* node -> tracking -> seqno of its write position
    ackSeqno,    \* node -> tracking -> last seqno it acknowledged
    committed,   \* seqnos of the commit_sync_write items, in queue order
    errors       \* logic_error messages thrown by seqnoAckReceived

dmVars == <<tracked, writeSeqno, ackSeqno, committed, errors>>
vars == <<high, dmVars>>

Zero == [t \in Tracking |-> 0]

----------------------------------------------------------------------------
(***************************************************************************)
(* The requirement of a tracked write.  The majority of a chain of n nodes *)
(* is ceil((n + 1) / 2), the active included.                              *)
(***************************************************************************)
\* Mutant: half the chain, rounded up, is taken as the majority.
MajorityOffByOne(n) == (n + 1) \div 2

Majority(n) == (n + 2) \div 2

Reached(w, t, pos) == {n \in Nodes : pos[n][t] >= w.seqno}

Durable(w, pos) ==
    LET enough(t) == Cardinality(Reached(w, t, pos)) >= Majority(Len(Chain))
    IN  CASE w.level = "Majority" -> enough("memory")
          [] w.level = "MajorityAndPersistOnMaster" ->
                enough("memory") /\ pos[Active]["disk"] >= w.seqno
          [] w.level = "PersistToMajority" -> enough("disk")

\* Mutant: only the first tracked write is looked at per acknowledgement.
HeadOnlyPrefixLen(t, pos) ==
    IF t # <<>> /\ Durable(t[1], pos) THEN 1 ELSE 0

\* The number of leading tracked writes that are durable: commit stops at
\* the first one that is not, to keep commits in seqno order.
DurablePrefixLen(t, pos) ==
    CHOOSE k \in 0 .. Len(t) :
        /\ \A i \in 1 .. k : Durable(t[i], pos)
        /\ k = Len(t) \/ ~Durable(t[k + 1], pos)

\* Mutant: the position moves to the first tracked write at or past the ack.
FirstTrackedFrom(t, old, a) ==
    LET later == {t[i].seqno : i \in {j \in 1 .. Len(t) : t[j].seqno >= a}}
    IN  IF later = {} THEN old ELSE CHOOSE s \in later : \A r \in later : s <= r

\* advanceNodePosition: the position moves to the last tracked write whose
\* seqno is not past the ack; it stays put if there is none (the writes it
\* passed may have been committed and removed).
LastTrackedUpTo(t, old, a) ==
    LET upTo == {t[i].seqno : i \in {j \in 1 .. Len(t) : t[j].seqno <= a}}
    IN  IF upTo = {} THEN old ELSE CHOOSE s \in upTo : \A r \in upTo : s >= r

\* Mutant: only the memory tracking is processed.
MemoryOnlyPositions(n, ack) ==
    [writeSeqno EXCEPT ![n]["memory"] =
        LastTrackedUpTo(tracked, @, ack["memory"])]

\* updateNodeAck and advanceNodePosition for both trackings of node n.
NewPositions(n, ack) ==
    [writeSeqno EXCEPT ![n] =
        [t \in Tracking |-> LastTrackedUpTo(tracked, @[t], ack[t])]]

\* The logic_error seqnoAckReceived throws, if any.
AckRejection(n, mem, disk) ==
    IF mem < disk THEN "memorySeqno < diskSeqno"
    ELSE IF tracked = <<>> THEN "No tracked SyncWrite"
    ELSE IF mem < ackSeqno[n]["memory"] \/ disk < ackSeqno[n]["disk"]
         THEN "Monotonic"
    ELSE "none"

(***************************************************************************)
(* seqnoAckReceived(node, memSeqno, diskSeqno): reject, or record the ack, *)
(* move the node's write positions, then commit (queue commit_sync_write   *)
(* and notify the client) and remove the durable prefix of trackedWrites.  *)
(***************************************************************************)
SeqnoAckReceived(n, mem, disk) ==
    LET rejection == AckRejection(n, mem, disk)
        ack == [memory |-> mem, disk |-> disk]
        pos == NewPositions(n, ack)
        k == DurablePrefixLen(tracked, pos)
    IN  \/ /\ rejection # "none"
           /\ errors' = errors \cup {rejection}
           /\ UNCHANGED <<tracked, writeSeqno, ackSeqno, committed>>
        \/ /\ rejection = "none"
           /\ ackSeqno' = [ackSeqno EXCEPT ![n] = ack]
           /\ writeSeqno' = pos
           /\ committed' = committed \o [i \in 1 .. k |-> tracked[i].seqno]
           /\ tracked' = SubSeq(tracked, k + 1, Len(tracked))
           /\ UNCHANGED errors

\* The seqnos of the SyncWrites prepared so far.
TrackedSeqnos == {tracked[i].seqno : i \in 1 .. Len(tracked)}
CommittedSeqnos == {committed[i] : i \in 1 .. Len(committed)}
Prepared == TrackedSeqnos \cup CommittedSeqnos

----------------------------------------------------------------------------
Init ==
    /\ high = 0
    /\ tracked = <<>>
    /\ writeSeqno = [n \in Nodes |-> Zero]
    /\ ackSeqno = [n \in Nodes |-> Zero]
    /\ committed = <<>>
    /\ errors = {}

\* A plain mutation takes the next seqno; the monitor does not see it.
Mutation ==
    /\ high < MaxSeqno
    /\ high' = high + 1
    /\ UNCHANGED dmVars

\* VBucket enqueues a SyncWrite and calls addSyncWrite: it is tracked, and
\* the active has implicitly reached it in memory.
AddSyncWrite(level) ==
    /\ high < MaxSeqno
    /\ high' = high + 1
    /\ tracked' = Append(tracked, [seqno |-> high + 1, level |-> level])
    /\ writeSeqno' = [writeSeqno EXCEPT ![Active]["memory"] = high + 1]
    /\ ackSeqno' = [ackSeqno EXCEPT ![Active]["memory"] = high + 1]
    /\ UNCHANGED <<committed, errors>>

\* A replica of the chain acknowledges what it holds, never beyond the high
\* seqno, memory ahead of disk, when it has received or persisted a
\* prepare (a tracked or already committed SyncWrite) past its last ack.
SendAck(n) ==
    \E mem \in ackSeqno[n]["memory"] .. high :
    \E disk \in ackSeqno[n]["disk"] .. mem :
        /\ \E s \in Prepared :
              \/ ackSeqno[n]["memory"] < s /\ s <= mem
              \/ ackSeqno[n]["disk"] < s /\ s <= disk
        /\ SeqnoAckReceived(n, mem, disk)
        /\ UNCHANGED high

Next ==
    \/ Mutation
    \/ \E level \in Levels : AddSyncWrite(level)
    \/ \E n \in Replicas : SendAck(n)

\* DCP keeps delivering to every replica in the chain, their flushers keep
\* persisting, and every replica acknowledges what it holds.
Fairness == \A n \in Replicas : WF_vars(SendAck(n))

Spec == Init /\ [][Next]_vars /\ Fairness

----------------------------------------------------------------------------

(***************************************************************************)
(* Spec invariant 5: a node's write position never passes what it         *)
(* acknowledged, and a node never acknowledges more on disk than in        *)
(* memory.                                                                 *)
(***************************************************************************)
NodePositionsConsistent ==
    \A n \in Nodes :
        /\ \A t \in Tracking : writeSeqno[n][t] <= ackSeqno[n][t]
        /\ ackSeqno[n]["disk"] <= ackSeqno[n]["memory"]

(***************************************************************************)
(* After every step the first tracked write is not yet durable: whatever  *)
(* an acknowledgement makes durable at the head of trackedWrites is        *)
(* committed by that same seqnoAckReceived (spec invariant 7, "committed   *)
(* iff" a majority has it, for chains of two or more nodes).               *)
(***************************************************************************)
HeadNotDurable ==
    tracked = <<>> \/ ~Durable(tracked[1], writeSeqno)

(***************************************************************************)
(* A tracked write is eventually committed, as long as DCP delivers and    *)
(* the replicas persist and acknowledge, unless it or a write tracked      *)
(* before it is MajorityAndPersistOnMaster: that level needs the active's  *)
(* disk position, which nothing in the code moves, and commits are in      *)
(* seqno order, so such a write blocks every later one.                    *)
(***************************************************************************)
CommittableWithoutActiveDisk(s) ==
    \E i \in 1 .. Len(tracked) :
        /\ tracked[i].seqno = s
        /\ \A j \in 1 .. i : tracked[j].level # "MajorityAndPersistOnMaster"

EveryTrackedWriteCommitted ==
    \A s \in 1 .. MaxSeqno :
        CommittableWithoutActiveDisk(s) ~> (s \in CommittedSeqnos)

(***************************************************************************)
(* The monitor implements the SyncWrite specification: commits happen in  *)
(* seqno order, only for prepared writes, and only once each meets its     *)
(* level, judged by the nodes' write positions.                            *)
(***************************************************************************)
SW == INSTANCE SyncWrite WITH pending <- tracked, held <- writeSeqno

SyncWriteRefinement == SW!Spec

=============================================================================

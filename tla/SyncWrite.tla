----------------------------- MODULE SyncWrite -----------------------------
(***************************************************************************)
(* What synchronous durability promises for one vBucket, without the       *)
(* monitor's bookkeeping.  Items are enqueued with increasing seqnos; a    *)
(* SyncWrite is prepared at its seqno; the chain's nodes come to hold      *)
(* items in memory and on disk; a prefix of the prepared writes may be     *)
(* committed, in seqno order, once each of them meets its level:           *)
(*   Majority                    - more than half the chain holds it in    *)
(*                                 memory;                                 *)
(*   MajorityAndPersistOnMaster  - that, and the active has it on disk;    *)
(*   PersistToMajority           - more than half the chain has it on disk.*)
(***************************************************************************)
EXTENDS Naturals, Sequences, FiniteSets

CONSTANTS
    Chain,      \* the replication chain, the active first
    Levels,     \* the durability levels in use
    MaxSeqno    \* the highest seqno an item may take

Nodes == {Chain[i] : i \in 1 .. Len(Chain)}
Active == Chain[1]
Tracking == {"memory", "disk"}

VARIABLES
    high,       \* the vBucket's high seqno
    pending,    \* prepared SyncWrites not yet committed, in seqno order
    committed,  \* seqnos of committed SyncWrites, in commit order
    held        \* node -> tracking -> the seqno up to which it holds items

\* A level is met when more than half the chain holds the write.
HeldBy(w, t, pos) == {n \in Nodes : pos[n][t] >= w.seqno}
MoreThanHalf(S) == 2 * Cardinality(S) > Len(Chain)

Met(w, pos) ==
    CASE w.level = "Majority" -> MoreThanHalf(HeldBy(w, "memory", pos))
      [] w.level = "MajorityAndPersistOnMaster" ->
            MoreThanHalf(HeldBy(w, "memory", pos))
            /\ pos[Active]["disk"] >= w.seqno
      [] w.level = "PersistToMajority" -> MoreThanHalf(HeldBy(w, "disk", pos))

Init ==
    /\ high = 0
    /\ pending = <<>>
    /\ committed = <<>>
    /\ held = [n \in Nodes |-> [t \in Tracking |-> 0]]

\* An item that is not a SyncWrite takes the next seqno.
Enqueue ==
    /\ high < MaxSeqno
    /\ high' = high + 1
    /\ UNCHANGED <<pending, committed, held>>

\* A SyncWrite is prepared at the next seqno; the active holds it in memory.
Prepare(level) ==
    /\ high < MaxSeqno
    /\ high' = high + 1
    /\ pending' = Append(pending, [seqno |-> high + 1, level |-> level])
    /\ held' = [held EXCEPT ![Active]["memory"] = high + 1]
    /\ UNCHANGED committed

\* Nodes come to hold more items (never beyond the high seqno), and a
\* prefix of the pending writes, each of which now meets its level, is
\* committed.
Progress ==
    /\ held' \in [Nodes -> [Tracking -> 0 .. high]]
    /\ \A n \in Nodes, t \in Tracking : held'[n][t] >= held[n][t]
    /\ \E k \in 0 .. Len(pending) :
          /\ \A i \in 1 .. k : Met(pending[i], held')
          /\ committed' = committed \o [i \in 1 .. k |-> pending[i].seqno]
          /\ pending' = SubSeq(pending, k + 1, Len(pending))
    /\ UNCHANGED high

Next ==
    \/ Enqueue
    \/ \E level \in Levels : Prepare(level)
    \/ Progress

Spec == Init /\ [][Next]_<<high, pending, committed, held>>

=============================================================================

\* Sync writes of all three levels against the largest chain
\* registerReplicationChain accepts (four nodes, majority three): node
\* positions, commit of the durable prefix, progress under fair replica acks, and
\* refinement of SyncWrite.  Replicas stop acknowledging once they hold
\* everything, so the system may stop.
CONSTANTS
    active = active
    replica1 = replica1
    replica2 = replica2
    replica3 = replica3
    Chain <- MC_FullChain
    Levels <- MC_Levels
    MaxSeqno = 2
SPECIFICATION Spec
INVARIANTS
    NodePositionsConsistent
    HeadNotDurable
PROPERTIES
    EveryTrackedWriteCommitted
    SyncWriteRefinement
CHECK_DEADLOCK FALSE

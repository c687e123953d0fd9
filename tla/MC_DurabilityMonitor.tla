------------------------ MODULE MC_DurabilityMonitor ------------------------
(* DurabilityMonitor instantiated for TLC: an active and up to three replicas. *)
EXTENDS DurabilityMonitor

CONSTANTS active, replica1, replica2, replica3

\* The largest chain registerReplicationChain accepts; its majority is 3.
MC_FullChain == <<active, replica1, replica2, replica3>>
MC_Levels == {"Majority", "MajorityAndPersistOnMaster", "PersistToMajority"}
=============================================================================

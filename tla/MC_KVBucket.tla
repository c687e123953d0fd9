---------------------------- MODULE MC_KVBucket ----------------------------
(* KVBucket instantiated for TLC: one vBucket, two cookies. *)
EXTENDS KVBucket

CONSTANTS c1, c2, vb0

MC_VB == {vb0}
MC_Cookies == {c1, c2}
=============================================================================

----------------------- MODULE MC_CollectionsManager -----------------------
(* Collections::Manager instantiated for TLC: the map size and the number  *)
(* of manifests and calls are given in the .cfg files.                     *)
EXTENDS CollectionsManager
=============================================================================

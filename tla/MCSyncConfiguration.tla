------------------------ MODULE MCSyncConfiguration -------------------------
(* Instances of SyncConfiguration for TLC.                                   *)
EXTENDS SyncConfiguration
==============================================================================

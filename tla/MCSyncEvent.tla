---------------------------- MODULE MCSyncEvent ----------------------------
(* Instances of SyncEvent for TLC.                                          *)
EXTENDS SyncEvent
=============================================================================

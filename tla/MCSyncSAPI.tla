----------------------------- MODULE MCSyncSAPI -----------------------------
(* Instances of SyncSAPI for TLC.                                           *)
EXTENDS SyncSAPI
=============================================================================

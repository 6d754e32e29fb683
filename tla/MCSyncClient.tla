----------------------------- MODULE MCSyncClient -----------------------------
(***************************************************************************)
(* Small instances of SyncClient for TLC.                                  *)
(***************************************************************************)
EXTENDS SyncClient
=============================================================================

---------------------------- MODULE MCMemoryStore ----------------------------
(***************************************************************************)
(* Small instances of MemoryStore for TLC.                                 *)
(***************************************************************************)
EXTENDS MemoryStore

CONSTANTS b1, b2
=============================================================================

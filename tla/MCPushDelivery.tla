---------------------------- MODULE MCPushDelivery ----------------------------
(***************************************************************************)
(* Small instances of PushDelivery for TLC.                                *)
(***************************************************************************)
EXTENDS PushDelivery

CONSTANTS k1, r1, r2
=============================================================================

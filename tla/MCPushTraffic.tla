---------------------------- MODULE MCPushTraffic ----------------------------
(* Constants of PushTraffic for TLC. *)
EXTENDS PushTraffic, TLC

Items == Requests \X (1..Widest)
=============================================================================

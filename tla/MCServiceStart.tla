--------------------------- MODULE MCServiceStart ---------------------------
(***************************************************************************)
(* ServiceStart on a small instance: two processes, three starts.          *)
(***************************************************************************)
EXTENDS ServiceStart
=============================================================================

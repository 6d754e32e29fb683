------------------------------ MODULE MCStreamHub ------------------------------
(***************************************************************************)
(* Small instances of StreamHub for TLC.                                   *)
(***************************************************************************)
EXTENDS StreamHub

CONSTANTS d1, d2, p1, p2, s1, s2
=============================================================================

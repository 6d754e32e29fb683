---------------------------- MODULE MCGotifyStore ----------------------------
(***************************************************************************)
(* Small instances of GotifyStore for TLC.                                 *)
(***************************************************************************)
EXTENDS GotifyStore
=============================================================================

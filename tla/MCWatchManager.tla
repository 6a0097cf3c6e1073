-------------------------- MODULE MCWatchManager --------------------------
(***************************************************************************)
(* Small instances of WatchManager for TLC.                                *)
(***************************************************************************)
EXTENDS WatchManager

CONSTANTS f1, a1, a2, s1, s2

=============================================================================

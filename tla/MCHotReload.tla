---------------------------- MODULE MCHotReload ----------------------------
(***************************************************************************)
(* Small instances of HotReload for TLC.                                   *)
(***************************************************************************)
EXTENDS HotReload

CONSTANTS w1, w2

=============================================================================

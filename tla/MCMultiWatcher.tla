--------------------------- MODULE MCMultiWatcher ---------------------------
(***************************************************************************)
(* A small instance of MultiWatcher for TLC.                               *)
(***************************************************************************)
EXTENDS MultiWatcher

CONSTANTS f1, f2, a1, a2, s1, s2

=============================================================================

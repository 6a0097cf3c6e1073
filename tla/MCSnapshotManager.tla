------------------------- MODULE MCSnapshotManager -------------------------
(***************************************************************************)
(* A small instance of SnapshotManager for TLC.                            *)
(***************************************************************************)
EXTENDS SnapshotManager

CONSTANTS t1, r1

=============================================================================

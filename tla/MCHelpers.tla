----------------------------- MODULE MCHelpers -----------------------------
(***************************************************************************)
(* A small instance of Helpers for TLC.                                    *)
(***************************************************************************)
EXTENDS Helpers

CONSTANTS c1, c2, c3, p1, p2, p3, r1, r2

NoDataIn2 == {2}

=============================================================================

------------------------- MODULE MCObserverManager -------------------------
(***************************************************************************)
(* Small instances of ObserverManager for TLC.                             *)
(***************************************************************************)
EXTENDS ObserverManager

CONSTANTS s1, s2, n1, n2, c1, c2

NoPairs == {}
C2InS1 == {<<c2, s1>>}

=============================================================================

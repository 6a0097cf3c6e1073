--------------------------- MODULE MCConfigEngine ---------------------------
(***************************************************************************)
(* Small instances of ConfigEngine for TLC.                                *)
(***************************************************************************)
EXTENDS ConfigEngine

CONSTANTS k1, k2, r1, r2, w1, w2, c1, c2

\* Priorities: a file (10), the environment (20), Set (30).
Prios == {10, 20, 30}
MemoryPri == 30

V(r, p) == [raw |-> r, pri |-> p]
D(a, b) == [k \in Keys |-> IF k = k1 THEN a ELSE b]

\* A file that changes between loads, and an environment.
FileContents == {D(V(r1, 10), Absent), D(V(r2, 10), V(r2, 10))}
EnvContents == {D(V(r2, 20), Absent), D(Absent, V(r1, 10))}
FileAndEnv == <<FileContents, EnvContents>>
NoContents == <<>>

OtherConfig == {D(Absent, V(r1, 30))}
NoConfig == {}

=============================================================================

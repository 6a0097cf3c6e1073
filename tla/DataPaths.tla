----------------------------- MODULE DataPaths -----------------------------
(***************************************************************************)
(* The parts of the library that the data of a configuration goes through, *)
(* side by side: the parsers and Flatten, the loaders and the merge, the   *)
(* nested maps, the binding and validation of a struct, and the snapshots. *)
(* Each works on data of its own, so that one of them is looked at in a    *)
(* behaviour.                                                              *)
(***************************************************************************)
EXTENDS Parsing, Loading, Nesting, Validation, SnapshotManager

VARIABLE part

vars == <<part, parseVars, loadVars, nestVars, validVars, snapVars>>

NoParse == ParseOf("none")
NoLoad  == LoadOf("none", <<>>)
NoNest  == NestOf("none", <<<<>>, <<>>>>)
NoValid == ValidOf(CHOOSE type \in Roots : TRUE, <<>>)

Init ==
    /\ SnapInit
    /\ \/ part = "parse" /\ ParseInit /\ NoLoad /\ NoNest /\ NoValid
       \/ part = "load"  /\ LoadInit /\ NoParse /\ NoNest /\ NoValid
       \/ part = "nest"  /\ NestInit /\ NoParse /\ NoLoad /\ NoValid
       \/ part = "bind"  /\ ValidInit /\ NoParse /\ NoLoad /\ NoNest
       \/ part = "snap"  /\ NoParse /\ NoLoad /\ NoNest /\ NoValid

Next ==
    /\ part' = part
    /\ \/ part = "parse" /\ ParseNext /\ UNCHANGED <<loadVars, nestVars, validVars, snapVars>>
       \/ part = "load"  /\ LoadingNext /\ UNCHANGED <<parseVars, nestVars, validVars, snapVars>>
       \/ part = "nest"  /\ NestNext /\ UNCHANGED <<parseVars, loadVars, validVars, snapVars>>
       \/ part = "bind"  /\ ValidNext /\ UNCHANGED <<parseVars, loadVars, nestVars, snapVars>>
       \/ part = "snap"  /\ SnapNext /\ UNCHANGED <<parseVars, loadVars, nestVars, validVars>>

Spec == Init /\ [][Next]_vars

=============================================================================

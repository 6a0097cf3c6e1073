----------------------------- MODULE ConfigData -----------------------------
(***************************************************************************)
(* The values a configuration holds (types/types.go, core/state.go): a raw *)
(* value with the priority of the source it came from, by flat key.        *)
(***************************************************************************)
EXTENDS Naturals, Sequences

CONSTANTS
    Keys,      \* configuration keys
    Raws,      \* raw values
    Pris,      \* priorities of sources
    SetPri,    \* priority of a value written by Set
    Absent,    \* "no such key"
    NumSources \* sources of the configuration, loaded in order

Value == [raw : Raws, pri : Pris]
Data == [Keys -> Value \cup {Absent}]

ASSUME DataAssumption ==
    /\ Pris \subseteq Nat
    /\ SetPri \in Pris
    /\ Absent \notin Value
    /\ NumSources \in Nat

\* An operation that writes.  Restore and Merge come with the values of the
\* snapshot or of the other configuration, Reload with what each source
\* returned.
Reloads == [kind : {"reload"}, contents : Seq(Data)]

\* Set and Delete change one key of the values there are.
Edits == [kind : {"set"}, key : Keys, raw : Raws] \cup [kind : {"delete"}, key : Keys]

Operation ==
    Edits
        \cup [kind : {"restore", "merge"}, with : Data]
        \cup Reloads

=============================================================================

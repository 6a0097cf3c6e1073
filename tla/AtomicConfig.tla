---------------------------- MODULE AtomicConfig ----------------------------
(***************************************************************************)
(* What the configuration promises its callers: every Set, Delete,         *)
(* Restore, Merge and Reload that takes effect does so in one step, on the *)
(* values as they are at that moment, and makes the next version.  One     *)
(* that fails before it takes effect leaves no trace.                      *)
(***************************************************************************)
EXTENDS ConfigData

VARIABLES
    data,    \* the values, by key
    version, \* number of the current state
    last     \* the operation that made it

\* The value Reload takes for k from what its sources returned: the one with
\* the highest priority, and among equals the one of the earliest source.
Winner(contents, k) ==
    LET has == {i \in 1..Len(contents) : contents[i][k] # Absent}
        Beats(i, j) == \/ contents[i][k].pri > contents[j][k].pri
                       \/ contents[i][k].pri = contents[j][k].pri /\ i <= j
    IN IF has = {} THEN Absent
       ELSE contents[CHOOSE i \in has : \A j \in has : Beats(i, j)][k]

\* The values after op when they are d before it.
Apply(op, d) ==
    CASE op.kind = "set"     -> [d EXCEPT ![op.key] = [raw |-> op.raw, pri |-> SetPri]]
      [] op.kind = "delete"  -> [d EXCEPT ![op.key] = Absent]
      [] op.kind = "restore" -> op.with
      [] op.kind = "merge"   ->
           [k \in Keys |-> IF op.with[k] # Absent THEN op.with[k] ELSE d[k]]
      [] op.kind = "reload"  -> [k \in Keys |-> Winner(op.contents, k)]

Init ==
    /\ data = [k \in Keys |-> Absent]
    /\ version = 1
    /\ last \notin Operation

Do ==
    /\ last' \in Operation
    /\ last'.kind = "reload" => Len(last'.contents) = NumSources
    /\ data' = Apply(last', data)
    /\ version' = version + 1

Spec == Init /\ [][Do]_<<data, version, last>>

=============================================================================

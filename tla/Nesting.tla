------------------------------ MODULE Nesting ------------------------------
(***************************************************************************)
(* The three places where dotted keys are made into nested maps: the index *)
(* of a State (core/state.go), the deep merge (merge/merge.go), and the    *)
(* exporters (export/export.go).  Each inserts one key after the other, in *)
(* the order in which Go visits a map, which is any order.                 *)
(*                                                                         *)
(* A key is the sequence of its parts.  The raw value at a key is a leaf,  *)
(* or a map of the program's own, which holds leaves.  All maps are in     *)
(* "heap": the map made while inserting is known by the path it is made    *)
(* at, and the raw map at key p of source s by [source |-> s, raw |-> p].  *)
(* The index and an export are of one source; the deep merge has two.      *)
(***************************************************************************)
EXTENDS Naturals, Sequences, SequencesExt, FiniteSets

CONSTANTS
    Paths,    \* keys
    MapNames, \* the names in a raw map
    MapPaths  \* keys at which a source may hold a map

ASSUME NestingAssumption ==
    /\ MapPaths \subseteq Paths /\ IsFiniteSet(Paths)
    /\ \A p \in Paths : p \in Seq(ToSet(p)) /\ p # <<>>

VARIABLES
    task,   \* "index", "export" or "deep"
    given,  \* the sources: which raw value is at which key
    heap,   \* the maps, functions from names to entries
    todo,   \* the keys of each source that have not been inserted
    found   \* the dotted keys that come out of it, if it has ended

nestVars == <<task, given, heap, todo, found>>

Sources == {1, 2}
Raws(p) == IF p \in MapPaths THEN {"leaf", "map"} ELSE {"leaf"}
RawMap(s, p) == [source |-> s, raw |-> p]
Made(path) == [made |-> path]
Root == Made(<<>>)

\* Entries: a leaf, a map, and, in the deep merge, the types.Value of a key.
Leaf(s, p)  == [leaf |-> <<s, p>>]
Map(id)     == [map |-> id]
Value(s, p) == [value |-> <<s, p>>]
IsMap(e)    == "map" \in DOMAIN e

\* What the raw map at key p of source s holds.
RawContent(s, p) == [n \in MapNames |-> Leaf(s, Append(p, n))]

\* The sources that hold the keys in held[s], with raw values of each sort.
Holding(held) ==
    {g \in [Sources -> UNION {[P -> {"leaf", "map"}] : P \in {held[s] : s \in Sources}}] :
        \A s \in Sources : DOMAIN g[s] = held[s] /\ \A p \in held[s] : g[s][p] \in Raws(p)}

NestOf(t, g) ==
    /\ task = t /\ given = g
    /\ heap = [id \in {Root} \cup {RawMap(s, p) : s \in Sources, p \in MapPaths} |->
                  IF id = Root THEN <<>> ELSE RawContent(id.source, id.raw)]
    /\ todo = [s \in Sources |-> DOMAIN given[s]]
    /\ found = {}

NestInit ==
    \/ \E held \in [Sources -> SUBSET Paths] : \E g \in Holding(held) : NestOf("deep", g)
    \/ \E keys \in SUBSET Paths : \E g \in Holding(<<keys, {}>>) : NestOf("index", g) \/ NestOf("export", g)

-----------------------------------------------------------------------------

\* The function f, with e at x.
Store(f, x, e) == [y \in DOMAIN f \cup {x} |-> IF y = x THEN e ELSE f[y]]

\* The function f, and g where f has no value.
Over(f, g) == [y \in DOMAIN f \cup DOMAIN g |-> IF y \in DOMAIN f THEN f[y] ELSE g[y]]

With(h, id, name, e) == Store(h, id, Store(h[id], name, e))

\* An empty map in the map "at", for the first i parts of key p.
WithMap(h, at, p, i) ==
    LET id == Made(SubSeq(p, 1, i)) IN
    [heap |-> Store(With(h, at, p[i], Map(id)), id, <<>>), at |-> id]

\* The map in which the last part of a key is put, and the heap with the
\* maps made on the way: what is no map is passed over, or replaced by a map.
Descent(h, p, passing) ==
    LET to[i \in 0..(Len(p) - 1)] ==
            IF i = 0 THEN [heap |-> h, at |-> Root]
            ELSE LET d    == to[i - 1]
                     here == d.heap[d.at]
                 IN  CASE p[i] \in DOMAIN here /\ IsMap(here[p[i]]) ->
                             [heap |-> d.heap, at |-> here[p[i]].map]
                       [] p[i] \in DOMAIN here /\ ~IsMap(here[p[i]]) /\ passing -> d
                       [] OTHER -> WithMap(d.heap, d.at, p, i)
    IN  to[Len(p) - 1]

\* In an export, and elsewhere.
DescendPassing(h, p) == Descent(h, p, TRUE)

Descend(h, p) == Descent(h, p, FALSE)

Stored(p) == IF given[1][p] = "map" THEN Map(RawMap(1, p)) ELSE Leaf(1, p)

\* State.insertIndexed.
InsertIndexed(p) ==
    /\ task = "index" /\ p \in todo[1]
    /\ LET d == Descend(heap, p) IN heap' = With(d.heap, d.at, Last(p), Stored(p))
    /\ todo' = [todo EXCEPT ![1] = @ \ {p}]
    /\ UNCHANGED <<task, given, found>>

\* buildNested, for one key.
InsertExported(p) ==
    /\ task = "export" /\ p \in todo[1]
    /\ LET d == DescendPassing(heap, p) IN heap' = With(d.heap, d.at, Last(p), Stored(p))
    /\ todo' = [todo EXCEPT ![1] = @ \ {p}]
    /\ UNCHANGED <<task, given, found>>

\* insertNested, for the sources in their order: a raw map is merged into a
\* map that is there already.
InsertNested(s, p) ==
    /\ task = "deep" /\ p \in todo[s] /\ \A t \in 1..(s - 1) : todo[t] = {}
    /\ LET d    == Descend(heap, p)
           here == d.heap[d.at]
       IN  heap' = IF /\ Last(p) \in DOMAIN here /\ IsMap(here[Last(p)])
                      /\ given[s][p] = "map"
                      THEN LET id == here[Last(p)].map IN
                           Store(d.heap, id, Over(d.heap[RawMap(s, p)], d.heap[id]))
                      ELSE With(d.heap, d.at, Last(p), Value(s, p))
    /\ todo' = [todo EXCEPT ![s] = @ \ {p}]
    /\ UNCHANGED <<task, given, found>>

\* The entries that are no maps, and their keys: the names that lead to them.
Flattened(h) ==
    LET under[id \in DOMAIN h] ==
            UNION {IF IsMap(h[id][n]) THEN {<<<<n>> \o e[1], e[2]>> : e \in under[h[id][n].map]}
                                      ELSE {<<<<n>>, h[id][n]>>} : n \in DOMAIN h[id]}
    IN  under[Root]

\* The State is published, the map is printed, or flattenValues has given the
\* keys back.
NestEnds ==
    /\ \A s \in Sources : todo[s] = {}
    /\ found = {}
    /\ found' = {Flattened(heap)}
    /\ UNCHANGED <<task, given, heap, todo>>

NestNext ==
    \/ \E p \in Paths : InsertIndexed(p) \/ InsertExported(p)
    \/ \E s \in Sources, p \in Paths : InsertNested(s, p)
    \/ NestEnds

NestSpec == NestInit /\ [][NestNext]_nestVars

-----------------------------------------------------------------------------

AllKeys == DOMAIN given[1] \cup DOMAIN given[2]

Below(q, p) == q # p /\ IsPrefix(p, q)

\* No other key is above p, or below it.
Alone(p) == ~\E q \in AllKeys : Below(q, p) \/ Below(p, q)

\* What a key is found with: the value of the last source that has it, and
\* in the index and an export, which hold raw values, the leaves of its map.
Expected(p) ==
    LET s == IF p \in DOMAIN given[2] THEN 2 ELSE 1 IN
    CASE task = "deep" -> {<<p, Value(s, p)>>}
      [] task # "deep" /\ given[s][p] = "leaf" -> {<<p, Leaf(s, p)>>}
      [] task # "deep" /\ given[s][p] = "map" ->
            {<<Append(p, n), Leaf(s, Append(p, n))>> : n \in MapNames}

KeyOf(e) == IF "leaf" \in DOMAIN e THEN e.leaf[2] ELSE e.value[2]

\* The keys of the first source, and of the entries of its maps, that no map is at.
LeafKeys ==
    {p \in DOMAIN given[1] : given[1][p] = "leaf"}
        \cup {Append(p, n) : p \in {q \in DOMAIN given[1] : given[1][q] = "map"}, n \in MapNames}

\* An export of a value and of a key below it: the key may end up beside the
\* value instead of below it, in place of another, or in another's map.
Misplaced == task = "export" /\ \E q \in DOMAIN given[1], p \in LeafKeys : Below(q, p)

\* A key that has no other key above or below it is found in the nested map
\* with its last value, and with nothing else, in whatever order the keys
\* are inserted, and the value found at any key is one given for it; and
\* the raw map of a value is written to only for a key below it, and not by
\* the deep merge: by the index and by an export, which changes a value that
\* has been published; all of it except in an export of a value and of a key
\* below it (state.go:147-178, merge.go:116-199, export.go:528-553).
NestedAsDotted ==
    ~Misplaced =>
        /\ \A f \in found :
              /\ \A p \in AllKeys : Alone(p) => {e \in f : IsPrefix(p, e[1])} = Expected(p)
              /\ \A e \in f : KeyOf(e[2]) = e[1]
        /\ \A s \in Sources, p \in MapPaths :
              heap[RawMap(s, p)] # RawContent(s, p) =>
                 task # "deep" /\ \E q \in DOMAIN given[s] : Below(q, p)

=============================================================================

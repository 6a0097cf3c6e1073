------------------------------ MODULE Parsing ------------------------------
(***************************************************************************)
(* The YAML and TOML parsers of the package confparser, line by line, and  *)
(* Flatten, which gives the nested document its dotted keys.               *)
(*                                                                         *)
(* A line has a key and either a value or, when it opens a map or a        *)
(* section, none; an "other" line has neither.  A key is a sequence of     *)
(* names: a YAML key or the key of a TOML value may have dots in it, which *)
(* neither parser looks at, and the parts of the name of a TOML section    *)
(* are its path.  A value is known by the number of its line.              *)
(*                                                                         *)
(* A document is a function of the paths of its maps and values: a path is *)
(* a sequence of keys, as many as there are maps around it.                *)
(***************************************************************************)
EXTENDS Naturals, Sequences, SequencesExt, FiniteSets

CONSTANTS
    LineKeys,
    MaxIndent, \* bound
    MaxLines   \* bound: lines of a document

ASSUME ParsingAssumption ==
    /\ \A key \in LineKeys : key \in Seq(ToSet(key))
    /\ MaxIndent \in Nat /\ MaxLines \in Nat

VARIABLES
    format,  \* "yaml" or "toml"
    lines,   \* the lines read so far
    doc,     \* the document: the line of a value, or 0 for a map
    current, \* the path of the map that lines are added to
    stack,   \* yaml: the indent of each open map, and the map around it
    flat     \* what Flatten has made of it, if it has run

parseVars == <<format, lines, doc, current, stack, flat>>

Lines == [indent : 0..MaxIndent, key : LineKeys, kind : {"map", "value", "other"}]

ParseOf(f) ==
    /\ format = f /\ lines = <<>>
    /\ doc = <<>> /\ current = <<>> /\ stack = <<>> /\ flat = {}

ParseInit == ParseOf("yaml") \/ ParseOf("toml")

\* The document in which path p holds v, and no longer what was there.
Put(d, p, v) ==
    [q \in {q \in DOMAIN d : ~IsPrefix(p, q)} \cup {p} |-> IF q = p THEN v ELSE d[q]]

-----------------------------------------------------------------------------

\* Mutant: a map is closed only by a line to the left of it.
StillOpenAtIndent(open, line) == open.indent <= line.indent

StillOpen(open, line) == open.indent < line.indent

\* Maps are popped from the stack until the last one is still open.
YamlLine(line) ==
    LET left   == SubSeq(stack, 1, CHOOSE n \in 0..Len(stack) :
                                      /\ n = 0 \/ StillOpen(stack[n], line)
                                      /\ \A m \in (n + 1)..Len(stack) : ~StillOpen(stack[m], line))
        around == IF Len(left) < Len(stack) THEN stack[Len(left) + 1].around ELSE current
        path   == Append(around, line.key)
    IN  /\ CASE line.kind = "map" ->
                   /\ doc' = Put(doc, path, 0)
                   /\ current' = path
                   /\ stack' = Append(left, [indent |-> line.indent, around |-> around])
             [] line.kind = "value" ->
                   doc' = Put(doc, path, Len(lines) + 1) /\ current' = around /\ stack' = left
             [] line.kind = "other" ->
                   doc' = doc /\ current' = around /\ stack' = left
        /\ UNCHANGED flat

\* The map a TOML section header leads to, and the document with the maps
\* it needs: a name that is a value is passed over.
Section(d, names) ==
    LET s[n \in 0..Len(names)] ==
            IF n = 0 THEN [doc |-> d, at |-> <<>>]
            ELSE LET p == Append(s[n - 1].at, <<names[n]>>) IN
                 IF p \notin DOMAIN s[n - 1].doc THEN [doc |-> Put(s[n - 1].doc, p, 0), at |-> p]
                 ELSE [s[n - 1] EXCEPT !.at = IF s[n - 1].doc[p] = 0 THEN p ELSE @]
    IN  s[Len(names)]

TomlLine(line) ==
    /\ line.indent = 0
    /\ CASE line.kind = "map" ->
               LET s == Section(doc, line.key) IN doc' = s.doc /\ current' = s.at
         [] line.kind = "value" ->
               doc' = Put(doc, Append(current, line.key), Len(lines) + 1) /\ UNCHANGED current
         [] line.kind = "other" -> UNCHANGED <<doc, current>>
    /\ UNCHANGED <<stack, flat>>

ParseLine ==
    /\ flat = {} /\ Len(lines) < MaxLines
    /\ \E line \in Lines :
          /\ lines' = Append(lines, line)
          /\ IF format = "yaml" THEN YamlLine(line) ELSE TomlLine(line)
    /\ UNCHANGED format

\* The maps of Go are visited in any order: of values with one dotted key,
\* any may be the last.
Flatten ==
    /\ flat = {}
    /\ LET values  == {p \in DOMAIN doc : doc[p] # 0}
           dotted  == {FlattenSeq(p) : p \in values}
       IN  \E last \in [dotted -> values] :
              /\ \A key \in dotted : FlattenSeq(last[key]) = key
              /\ flat' = {[key \in dotted |-> doc[last[key]]]}
    /\ UNCHANGED <<format, lines, doc, current, stack>>

ParseNext == ParseLine \/ Flatten

ParseSpec == ParseInit /\ [][ParseNext]_parseVars

-----------------------------------------------------------------------------
(* What the lines of a document mean.                                      *)

\* The maps that line i is placed in: in YAML those it is nested in, in TOML
\* the sections before it, of which the last counts.
Around(f, ls, i) ==
    {j \in 1..(i - 1) :
        /\ ls[j].kind = "map"
        /\ f = "yaml" => \A k \in (j + 1)..i : ls[k].indent > ls[j].indent}

PathsIn(f, ls) ==
    LET path[i \in DOMAIN ls] ==
            IF f # "yaml" /\ ls[i].kind = "map" THEN [n \in 1..Len(ls[i].key) |-> <<ls[i].key[n]>>]
            ELSE Append(IF Around(f, ls, i) = {} THEN <<>> ELSE path[Max(Around(f, ls, i))], ls[i].key)
    IN  path

PathOf(i) == PathsIn(format, lines)[i]

ValueLines == {i \in DOMAIN lines : lines[i].kind = "value"}

\* Line j replaces what line i has written: the same key again, or the map
\* around it written again.  A TOML section that is there already is not.
Replaces(j, i) ==
    /\ j > i /\ IsPrefix(PathOf(j), PathOf(i))
    /\ lines[j].kind = "value" \/ (format = "yaml" /\ lines[j].kind = "map")

Kept == {i \in ValueLines : ~\E j \in DOMAIN lines : Replaces(j, i)}

\* A TOML section named like a value: its keys end up around it.
NamedLikeValue ==
    /\ format = "toml"
    /\ \E j \in ValueLines, i \in DOMAIN lines :
          /\ lines[i].kind = "map" /\ j < i
          /\ IsPrefix(PathOf(j), PathOf(i))

\* The flattened document holds the values that the indentation, or the
\* section headers, place at each key, unless a later line has replaced
\* them; only keys with dots in them make it a matter of chance which value
\* a dotted key has, and only a TOML section named like a value misplaces
\* some (parser.go:113-163, 286-316, 384-397).
ParsedAsNested ==
    \A f \in flat : ~NamedLikeValue =>
        /\ DOMAIN f = {FlattenSeq(PathOf(i)) : i \in Kept}
        /\ \A key \in DOMAIN f : f[key] \in Kept /\ FlattenSeq(PathOf(f[key])) = key

=============================================================================

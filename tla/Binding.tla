------------------------------ MODULE Binding ------------------------------
(***************************************************************************)
(* bind.Binder (bind/bind.go): the values of a configuration are written   *)
(* to the fields of a struct, one field after the other, until one fails.  *)
(*                                                                         *)
(* A struct type is a sequence of fields.  A key is the sequence of its    *)
(* parts; the target is the function of the fields written so far, a field *)
(* being known by the indices that lead to it.  "int8" and "uint8" stand   *)
(* for the integers narrower than a configuration's, "text" for strings,   *)
(* "list" for slices of int8; floats, booleans, durations and times take   *)
(* one kind of raw value and the strings that read as one, as "int" does.  *)
(***************************************************************************)
EXTENDS Integers, Sequences, SequencesExt, FiniteSets

CONSTANTS
    Types,  \* the fields of each struct type
    Roots,  \* the types of the targets
    Maps,   \* maps of raw values: functions from keys
    Inputs  \* the configurations

Structs == {"struct", "embedded", "pointer"}
Plain   == {"int", "int8", "uint8", "text", "list"}
Numbers == {"int", "digits"}

RawOK(raw) ==
    \/ raw.is \in Numbers /\ raw.n \in Int
    \/ raw.is = "word"
    \/ raw.is = "list" /\ raw.of \in Seq(ToSet(raw.of))
    \/ raw.is = "map" /\ raw.of \in Maps

\* The default of a field is a string in its tag.
FieldOK(f) ==
    /\ f.kind \in Structs \cup Plain \cup {"hidden"}
    /\ f.kind \in Structs => f.of \in DOMAIN Types
    /\ f.default = {} \/ \E raw \in f.default :
                            f.default = {raw} /\ raw.is \in {"digits", "word"} /\ RawOK(raw)

\* No struct holds another of its type, not even behind a pointer.
ASSUME BindingAssumption ==
    /\ Roots \subseteq DOMAIN Types /\ IsFiniteSet(DOMAIN Types)
    /\ \A type \in DOMAIN Types :
          Types[type] \in Seq(ToSet(Types[type])) /\ \A f \in ToSet(Types[type]) : FieldOK(f)
    /\ \E depth \in [DOMAIN Types -> 1..Cardinality(DOMAIN Types)] :
          \A type \in DOMAIN Types : \A f \in ToSet(Types[type]) :
             f.kind \in Structs => depth[f.of] < depth[type]
    /\ Inputs \subseteq Maps /\ \A data \in Maps : \A key \in DOMAIN data : RawOK(data[key])

VARIABLES
    root,   \* the type of the target
    config, \* the configuration
    target, \* the fields written
    frames, \* the calls of Bind under way, the outermost first
    bind    \* "running", "ok", "err" or "panic"

bindVars == <<root, config, target, frames, bind>>

-----------------------------------------------------------------------------
(* The fields of a struct type and those of its structs, each with its     *)
(* place, its key, and the positions in its key of the pointers it is      *)
(* behind.  An embedded struct adds nothing to the keys of its fields.     *)

Inside(f, i, d) ==
    [place    |-> <<i>> \o d.place,
     key      |-> IF f.kind = "embedded" THEN d.key ELSE <<f.key>> \o d.key,
     pointers |-> {q + 1 : q \in d.pointers} \cup {q \in {1} : f.kind = "pointer"},
     field    |-> d.field]

StructFields[type \in DOMAIN Types] ==
    UNION {LET f == Types[type][i] IN
           {[place |-> <<i>>, key |-> <<f.key>>, pointers |-> {}, field |-> f]}
           \cup {Inside(f, i, d) : d \in IF f.kind \in Structs THEN StructFields[f.of] ELSE {}} :
           i \in DOMAIN Types[type]}

Embeds(type) == \E d \in StructFields[type] : d.field.kind = "embedded"

\* FieldByIndex: the field an index leads to, if it leads to one.
FieldAt(type, index) == {d.field : d \in {d \in StructFields[type] : d.place = index}}

-----------------------------------------------------------------------------
(* The metadata of a struct type: the fields that Bind looks at, in their  *)
(* order, each with its key and its index.                                 *)

\* Mutant: the key of a nested field has no prefix.
InStructWithoutPrefix(m, ms) == [j \in DOMAIN ms |-> [ms[j] EXCEPT !.index = m.index \o @]]

\* The metadata of a struct, in the struct that has m for it.
InStruct(m, ms) == [j \in DOMAIN ms |-> [ms[j] EXCEPT !.index = m.index \o @, !.key = m.key \o @]]

\* The metadata of field i, a struct with the metadata "nested": an embedded
\* one is walked with the index of the struct around it, so that its fields
\* get the indices of fields of that struct.
WalkField(f, i, nested) ==
    LET m == [index |-> <<i>>, key |-> <<f.key>>, required |-> f.required, default |-> f.default] IN
    CASE f.kind = "hidden"   -> <<>>
      [] f.kind = "embedded" -> nested
      [] f.kind = "struct"   -> <<m>> \o InStruct(m, nested)
      [] OTHER               -> <<m>>

WalkFields[type \in DOMAIN Types] ==
    FlattenSeq([i \in DOMAIN Types[type] |->
        WalkField(Types[type][i], i, WalkFields[Types[type][i].of])])

-----------------------------------------------------------------------------
(* What is written for a raw value: an "int" n, "digits" that read as n, a *)
(* "word" that reads as no number, a "map" or a "list"; "text" is what it  *)
(* is printed as.                                                          *)

Fails == [fails |-> TRUE]
Ok(v) == [value |-> v]

Int8(n) == ((n + 128) % 256) - 128

\* setReflectValue: an element that is neither a number nor a string is
\* left at zero.
Element(raw) ==
    CASE raw.is \in Numbers -> Ok(Int8(raw.n))
      [] raw.is = "word"      -> Fails
      [] OTHER                -> Ok(0)

Convert(kind, raw) ==
    CASE kind = "text" -> Ok(raw.text)
      [] kind = "int"  -> IF raw.is \in Numbers THEN Ok(raw.n) ELSE Fails
      [] kind = "int8" -> IF raw.is \in Numbers THEN Ok(Int8(raw.n)) ELSE Fails
      [] kind = "uint8" ->
            IF raw.is \in Numbers /\ raw.n >= 0 THEN Ok(raw.n % 256) ELSE Fails
      [] kind = "list" ->
            IF raw.is = "list" /\ \A e \in ToSet(raw.of) : Element(e) # Fails
               THEN Ok([i \in DOMAIN raw.of |-> Element(raw.of[i]).value]) ELSE Fails

-----------------------------------------------------------------------------

Frame(type, base, data) ==
    [type |-> type, base |-> base, data |-> data, fields |-> WalkFields[type]]

BindOf(type, data) ==
    /\ root = type /\ config = data
    /\ target = <<>>
    /\ frames = <<Frame(root, <<>>, config)>>
    /\ bind = "running"

BindInit == \E type \in Roots, data \in Inputs : BindOf(type, data)

Top == Last(frames)

\* The frames when the field at hand has been dealt with.
Advanced == [frames EXCEPT ![Len(frames)].fields = Tail(@)]

Ends(how) == bind' = how /\ UNCHANGED <<root, config, target, frames>>

\* The value of a field: the one of its key, or else its default.
Chosen(frame, m) ==
    IF m.key \in DOMAIN frame.data THEN {frame.data[m.key]} ELSE m.default

\* A field that cannot be set, as an unexported one, is passed over.
BindField ==
    /\ bind = "running" /\ Top.fields # <<>>
    /\ LET m     == Head(Top.fields)
           given == Chosen(Top, m)
           place == Top.base \o m.index
       IN
       \/ FieldAt(Top.type, m.index) = {} /\ Ends("panic")
       \/ \E f \in FieldAt(Top.type, m.index) :
             /\ f.kind = "hidden" \/ (given = {} /\ ~m.required)
             /\ frames' = Advanced
             /\ UNCHANGED <<root, config, target, bind>>
       \/ \E f \in FieldAt(Top.type, m.index) :
             f.kind # "hidden" /\ given = {} /\ m.required /\ Ends("err")
       \/ \E f \in FieldAt(Top.type, m.index), raw \in given :
             \/ /\ f.kind \notin Structs \cup {"hidden"} /\ Convert(f.kind, raw) # Fails
                /\ target' = [p \in DOMAIN target \cup {place} |->
                                 IF p = place THEN Convert(f.kind, raw).value ELSE target[p]]
                /\ frames' = Advanced
                /\ UNCHANGED <<root, config, bind>>
             \/ f.kind \notin Structs \cup {"hidden"} /\ Convert(f.kind, raw) = Fails /\ Ends("err")
             \/ f.kind \in Structs /\ raw.is # "map" /\ Ends("err")
             \/ /\ f.kind \in Structs /\ raw.is = "map"
                /\ frames' = Append(Advanced, Frame(f.of, place, raw.of))
                /\ UNCHANGED <<root, config, target, bind>>

BindReturns ==
    /\ bind = "running" /\ Top.fields = <<>>
    /\ IF Len(frames) > 1 THEN frames' = Front(frames) /\ UNCHANGED bind
                          ELSE bind' = "ok" /\ UNCHANGED frames
    /\ UNCHANGED <<root, config, target>>

BindNext == BindField \/ BindReturns

BindSpec == BindInit /\ [][BindNext]_bindVars

-----------------------------------------------------------------------------
(* What the struct declares, and what the configuration says of it.        *)

DeclaredFields == {d \in StructFields[root] : d.field.kind \in Plain}

\* A field as the struct at the first m parts of its key has it.
Inner(d, m) ==
    [place    |-> SubSeq(d.place, m + 1, Len(d.place)),
     key      |-> SubSeq(d.key, m + 1, Len(d.key)),
     pointers |-> {q - m : q \in {q \in d.pointers : q > m}},
     field    |-> d.field]

Above(d, m) == SubSeq(d.key, 1, m)

\* Where there may be a map for a field: what is behind a pointer is not
\* found by its own key, only in a map that is given for the pointer.
MapsAbove(d, data) ==
    {m \in 1..(Len(d.key) - 1) :
        /\ \A q \in d.pointers : m <= q
        /\ Above(d, m) \in DOMAIN data /\ data[Above(d, m)].is = "map"}

\* The value of its own key, or else its default.
Own(d, data) ==
    IF d.pointers # {} THEN {}
    ELSE IF d.key \in DOMAIN data THEN {data[d.key]} ELSE d.field.default

Fields == UNION {StructFields[type] : type \in {type \in DOMAIN Types : ~Embeds(type)}}

\* The value meant for a field: its own, or the one that is meant for it by
\* the map at the longest of the keys above.
Meant[d \in Fields] ==
    [data \in Maps |->
        LET MeantBy(m) == Meant[Inner(d, m)][data[Above(d, m)].of]
            giving     == {m \in MapsAbove(d, data) : MeantBy(m) # {}}
        IN  IF Own(d, data) # {} THEN Own(d, data)
            ELSE UNION {MeantBy(m) : m \in {m \in giving : \A o \in giving : o <= m}}]

\* All that is given for a field.
Given[d \in Fields] ==
    [data \in Maps |->
        Own(d, data) \cup UNION {Given[Inner(d, m)][data[Above(d, m)].of] : m \in MapsAbove(d, data)}]

Stands(kind, v, raw) ==
    CASE kind = "text"  -> v = raw.text
      [] kind = "int"   -> raw.is \in Numbers /\ v = raw.n
      [] kind = "int8"  -> raw.is \in Numbers /\ v \in -128..127 /\ (v - raw.n) % 256 = 0
      [] kind = "uint8" -> raw.is \in Numbers /\ v \in 0..255 /\ (v - raw.n) % 256 = 0 /\ raw.n >= 0
      [] kind = "list"  -> Len(v) = Len(raw.of)

\* A Bind that succeeds has written to each field the value of its key, its
\* default, or what a map above gives, cut to its width, and to no other
\* field; a Bind that fails has left each field as it was or with a value
\* given for it.  An embedded struct spoils both, and alone may make Bind
\* panic: its fields are looked up in the struct around it (bind.go:383).
BindExact ==
    ~Embeds(root) =>
        /\ bind # "panic"
        /\ bind = "ok" => \A d \in DeclaredFields :
              IF Meant[d][config] = {} THEN d.place \notin DOMAIN target
              ELSE /\ d.place \in DOMAIN target
                   /\ \A raw \in Meant[d][config] : Stands(d.field.kind, target[d.place], raw)
        /\ \A p \in DOMAIN target : \E d \in DeclaredFields :
              d.place = p /\ \E raw \in Given[d][config] : Stands(d.field.kind, target[p], raw)

=============================================================================

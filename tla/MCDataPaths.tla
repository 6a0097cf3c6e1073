---------------------------- MODULE MCDataPaths ----------------------------
(***************************************************************************)
(* A small instance of DataPaths for TLC.                                  *)
(***************************************************************************)
EXTENDS DataPaths

CONSTANTS a, b, c, k1, t1, t2, r1

TheLineKeys == {<<a>>, <<b>>, <<a, b>>}
ThePriorities == {1, 2}

ThePaths == {<<a>>, <<a, b>>, <<b>>, <<a, b, c>>}
TheMapPaths == {<<a>>, <<a, b>>}

-----------------------------------------------------------------------------
(* Structs to bind, and the configurations to bind them to.                *)

Field(key, kind, of, required, default, rules) ==
    [key |-> key, kind |-> kind, of |-> of, required |-> required,
     default |-> default, rules |-> rules]

Num(n)       == [is |-> "int", n |-> n, text |-> ToString(n)]
Digits(n)    == [is |-> "digits", n |-> n, text |-> ToString(n)]
Word         == [is |-> "word", text |-> "word"]
MapOf(m)     == [is |-> "map", of |-> m, text |-> ""]
ListOf(s)    == [is |-> "list", of |-> s, text |-> ""]

AtLeast(n)   == [is |-> "min", n |-> n]
AtMost(n)    == [is |-> "max", n |-> n]
Within(n, m) == [is |-> "range", n |-> n, max |-> m]
OneOf(texts) == [is |-> "oneof", allowed |-> texts]
NotEmpty     == [is |-> "required"]

TheTypes ==
    [outer |-> <<Field("h", "hidden", "", FALSE, {}, <<>>),
                 Field("n", "int", "", TRUE, {Digits(9)}, <<AtLeast(5), AtMost(10), Within(1, 4)>>),
                 Field("in", "struct", "inner", FALSE, {}, <<>>),
                 Field("p", "pointer", "base", FALSE, {}, <<>>),
                 Field("u", "uint8", "", TRUE, {}, <<AtMost(3)>>),
                 Field("t", "text", "", FALSE, {}, <<NotEmpty, AtLeast(2), OneOf({"word"})>>)>>,
     inner |-> <<Field("x", "int8", "", FALSE, {Digits(7)}, <<>>),
                 Field("y", "text", "", FALSE, {}, <<NotEmpty>>),
                 Field("l", "list", "", FALSE, {}, <<>>)>>,
     child |-> <<Field("base", "embedded", "base", FALSE, {}, <<>>),
                 Field("u", "text", "", FALSE, {}, <<>>)>>,
     noted |-> <<Field("h", "hidden", "", FALSE, {}, <<>>),
                 Field("t", "text", "", FALSE, {}, <<OneOf({"word"})>>),
                 Field("note", "embedded", "note", FALSE, {}, <<>>)>>,
     note  |-> <<Field("y", "text", "", FALSE, {}, <<>>),
                 Field("u", "text", "", FALSE, {}, <<>>),
                 Field("p", "int", "", FALSE, {}, <<>>),
                 Field("z", "text", "", FALSE, {}, <<>>)>>,
     base  |-> <<Field("n", "int8", "", FALSE, {Digits(3)}, <<>>),
                 Field("y", "text", "", FALSE, {}, <<>>),
                 Field("u", "uint8", "", TRUE, {}, <<>>)>>]

TheRoots == {"outer", "child", "noted"}

\* The configurations with no value, or one of "raws", for key k.
Opt(k, raws) == {<<>>} \cup {k :> raw : raw \in raws}

\* The maps in a configuration.
BaseMaps  == {<<"u">> :> Num(4)}
InnerMaps == Opt(<<"x">>, {Num(300), Word})

\* What decides about the scalars, the embedded structs and the pointer is
\* combined with every map of the inner struct, and what decides about the
\* inner struct with the scalars that come before and after it.
Scalars ==
    {n @@ u @@ t : n \in Opt(<<"n">>, {Num(300), Digits(7), Word}),
                   u \in Opt(<<"u">>, {Num(-1), Digits(261)}),
                   t \in Opt(<<"t">>, {Digits(1), Word})}
InnerMapsOrNot == Opt(<<"in">>, {MapOf(m) : m \in InnerMaps} \cup {Word})

TheInputs ==
    {s @@ y @@ p @@ q @@ i :
        s \in Scalars,
        y \in {<<>>, <<"y">> :> Digits(1)},
        p \in Opt(<<"p">>, {MapOf(m) : m \in BaseMaps}),
        q \in Opt(<<"p", "y">>, {Word}),
        i \in InnerMapsOrNot}
    \cup
    {s @@ i @@ x @@ l :
        s \in Scalars,
        i \in InnerMapsOrNot,
        x \in Opt(<<"in", "x">>, {Num(-129)}),
        l \in Opt(<<"in", "l">>, {ListOf(<<Num(300), MapOf(<<>>)>>), ListOf(<<Word>>)})}

TheMaps == TheInputs \cup BaseMaps \cup InnerMaps

=============================================================================

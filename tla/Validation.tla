----------------------------- MODULE Validation -----------------------------
(***************************************************************************)
(* The package validate: a Plan is applied to a configuration, and the     *)
(* StructValidator, by the rules in the tags of its fields, to a struct    *)
(* that Bind has filled.                                                   *)
(*                                                                         *)
(* The field of a type has, besides what Binding says, a sequence "rules". *)
(* "oneof" stands for the rules of strings: enum, pattern, email, url,     *)
(* alphanumeric and uuid accept some strings.                              *)
(***************************************************************************)
EXTENDS Binding

ASSUME ValidationAssumption ==
    \A type \in DOMAIN Types : \A f \in ToSet(Types[type]) : f.rules \in Seq(ToSet(f.rules))

VARIABLES
    planErrors,   \* the rules of the plan that failed, if it has been applied
    structErrors  \* the rules of fields that failed, if they have been

validVars == <<bindVars, planErrors, structErrors>>

-----------------------------------------------------------------------------
(* The value a validator is given: a Go value of some type.                *)

String(text) == [type |-> "string", text |-> text, len |-> Len(text)]

Raw(raw) ==
    CASE raw.is = "int"                -> [type |-> "int", n |-> raw.n]
      [] raw.is \in {"digits", "word"} -> String(raw.text)
      [] raw.is = "map"                -> [type |-> "map", len |-> Cardinality(DOMAIN raw.of)]
      [] raw.is = "list"               -> [type |-> "slice", len |-> Len(raw.of)]

\* Field i of the struct, with the zero value if Bind has not written it.
FieldValue(f, i) ==
    LET Or(zero) == IF <<i>> \in DOMAIN target THEN target[<<i>>] ELSE zero IN
    CASE f.kind = "int"               -> [type |-> "int", n |-> Or(0)]
      [] f.kind \in {"int8", "uint8"} -> [type |-> "narrow", n |-> Or(0)]
      [] f.kind = "list"              -> [type |-> "slice", len |-> Len(Or(<<>>))]
      [] f.kind = "text"              -> String(Or(""))
      [] f.kind \in Structs           -> [type |-> "struct"]

\* A value that is a string, a slice or a map must not be empty.
RequiredFails(v) == v.type \in {"string", "slice", "map"} /\ v.len = 0

\* A boundary is for int, int64 and float64, and for the length of a string;
\* a value of any other type passes.
Measured(v) ==
    CASE v.type = "int"    -> {v.n}
      [] v.type = "string" -> {v.len}
      [] OTHER             -> {}

RangeFails(rule, v) == v.type = "int" /\ (v.n < rule.n \/ v.n > rule.max)

\* What is no string fails the rules of strings.
StringRuleFails(rule, v) == v.type # "string" \/ v.text \notin rule.allowed

Violates(rule, v) ==
    CASE rule.is = "required" -> RequiredFails(v)
      [] rule.is = "min"      -> \E n \in Measured(v) : n < rule.n
      [] rule.is = "max"      -> \E n \in Measured(v) : n > rule.n
      [] rule.is = "range"    -> RangeFails(rule, v)
      [] rule.is = "oneof"    -> StringRuleFails(rule, v)

-----------------------------------------------------------------------------

\* The plan that says of the keys of the fields what their tags say.
RulesOf(f) ==
    (IF f.required THEN <<[key |-> <<f.key>>, required |-> TRUE, validator |-> {}]>> ELSE <<>>)
    \o [j \in DOMAIN f.rules |-> [key |-> <<f.key>>, required |-> FALSE, validator |-> {f.rules[j]}]]

Plan == FlattenSeq([i \in DOMAIN Types[root] |-> RulesOf(Types[root][i])])

ValidOf(type, data) == BindOf(type, data) /\ planErrors = {} /\ structErrors = {}

ValidInit == BindInit /\ planErrors = {} /\ structErrors = {}

\* The rules of the plan that fail.
Failing(rules) ==
    {r \in ToSet(rules) :
        IF r.key \notin DOMAIN config THEN r.required
        ELSE \E v \in r.validator : Violates(v, Raw(config[r.key]))}

\* Mutant: the plan stops at the first rule that fails.
ValidatePlanFirst ==
    /\ bind # "running" /\ planErrors = {}
    /\ planErrors' = {{Plan[i] : i \in {i \in DOMAIN Plan :
                                           \A j \in 1..i : (Plan[j] \in Failing(Plan)) <=> j = i}}}
    /\ UNCHANGED <<bindVars, structErrors>>

ValidatePlan ==
    /\ bind # "running" /\ planErrors = {}
    /\ planErrors' = {Failing(Plan)}
    /\ UNCHANGED <<bindVars, structErrors>>

\* The rules that parseValidateTag makes of the tag of a field: it knows of
\* no range, and passes over what it does not know.
TagRules(f) == {rule \in ToSet(f.rules) : rule.is # "range"}

\* validateStruct looks at the fields of the struct itself, and not at those
\* of the structs in it.
ValidateStruct ==
    /\ bind = "ok" /\ structErrors = {}
    /\ structErrors' =
          {UNION {LET f == Types[root][i] IN
                  {<<i, rule>> : rule \in {rule \in TagRules(f) : Violates(rule, FieldValue(f, i))}} :
                  i \in {i \in DOMAIN Types[root] : Types[root][i].kind # "hidden"}}}
    /\ UNCHANGED <<bindVars, planErrors>>

ValidNext ==
    \/ BindNext /\ UNCHANGED <<planErrors, structErrors>>
    \/ ValidatePlan
    \/ ValidateStruct

ValidSpec == ValidInit /\ [][ValidNext]_validVars

-----------------------------------------------------------------------------

\* The Go type of a field, as a validator sees it, is that of the raw value.
SameType(f, raw) ==
    (f.kind = "int" /\ raw.is = "int") \/ (f.kind = "text" /\ raw.is \in {"digits", "word"})

\* The plan and the struct validator find the same rules broken: of a field
\* that has its own value, of the type the field has, a rule fails in the
\* configuration just when it fails in the struct that Bind has filled; and
\* what the plan misses, Bind has a default for.  They do not agree on a
\* string bound to a number, whose length the plan looks at, nor on the
\* narrow integers, which the struct validator lets pass, whatever they are,
\* nor on a range, which a tag cannot say
\* (validate.go:58-97, 291-334, 490-534, 585-623).
ValidatorsAgree ==
    ~Embeds(root) => \A p \in planErrors, s \in structErrors : \A i \in DOMAIN Types[root] :
        LET f == Types[root][i]
            PlanFails(rule) == [key |-> <<f.key>>, required |-> FALSE, validator |-> {rule}] \in p
        IN  /\ <<f.key>> \in DOMAIN config /\ SameType(f, config[<<f.key>>]) =>
                  \A rule \in ToSet(f.rules) :
                     rule.is # "range" => (PlanFails(rule) <=> <<i, rule>> \in s)
            /\ /\ f.kind # "hidden" /\ f.required
               /\ [key |-> <<f.key>>, required |-> TRUE, validator |-> {}] \in p
               => f.default # {}

=============================================================================

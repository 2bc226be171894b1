----------------------------- MODULE Validation -----------------------------
(***************************************************************************)
(* The validation package: what the built-in rules accept and what a        *)
(* Validator returns, over the values that request input consists of.       *)
(* Strings are members of a set of texts, of which a table gives what the   *)
(* standard library's parsers say of them.                                  *)
(***************************************************************************)
EXTENDS Integers, SequencesExt

CONSTANTS
    Text,     \* the strings that occur
    About,    \* what is known of each, see Facts
    Printed,  \* how %v prints the integers that occur
    Suffixed, \* the names of the confirmation fields
    Custom    \* the rules that Extend has added, each with the texts it accepts

Facts ==
    [trimmed : Text,    \* strings.TrimSpace
     length : Nat,      \* runes
     number : BOOLEAN, integer : BOOLEAN,  \* strconv.ParseFloat, ParseInt
     boolean : BOOLEAN, email : BOOLEAN, url : BOOLEAN, alpha : BOOLEAN, alnum : BOOLEAN]

ASSUME AboutAssumption == About \in [Text -> Facts]

\* TrimSpace leaves nothing to trim.
ASSUME TrimAssumption == \A t \in Text : About[About[t].trimmed].trimmed = About[t].trimmed

\* The zero string, and the two that print a bool.
ASSUME TextAssumption == {"", "true", "false"} \subseteq Text /\ About[""].trimmed = ""

\* The dynamic types of a map[string]any that comes from a form or from JSON.
Null == [kind |-> "null"]
Str(t) == [kind |-> "string", text |-> t]
Strs(ts) == [kind |-> "strings", items |-> ts]    \* []string
List(vs) == [kind |-> "list", items |-> vs]       \* []any
Num(n) == [kind |-> "number", n |-> n]            \* float64
Bool(b) == [kind |-> "bool", b |-> b]
Object(f) == [kind |-> "map", of |-> f]

IsStr(v) == v.kind = "string"
FactsOf(v) == About[v.text]

\* The step of lookup into the map that was found so far, if it is one.
Absent == [ok |-> FALSE, value |-> Null]
Segment(found, name) ==
    IF found.ok /\ found.value.kind = "map" /\ name \in DOMAIN found.value.of
    THEN [ok |-> TRUE, value |-> found.value.of[name]]
    ELSE Absent

\* lookup: the value at a dotted name, here a sequence of its segments.
Lookup(data, path) ==
    LET found[k \in 0..Len(path)] ==
            IF k = 0 THEN [ok |-> TRUE, value |-> data] ELSE Segment(found[k - 1], path[k])
    IN found[Len(path)]

\* isEmptyValue; a []string is never empty.
IsEmpty(v) == v = Null \/ v = Str("") \/ v = List(<<>>)

----------------------------------------------------------------------------
(* Rules *)

RuleString(v) == IsStr(v)
RuleNumeric(v) == v.kind = "number" \/ (IsStr(v) /\ FactsOf(v).number)
\* The numbers of the model are whole.
RuleInteger(v) == v.kind = "number" \/ (IsStr(v) /\ FactsOf(v).integer)
RuleBoolean(v) ==
    \/ v.kind = "bool"
    \/ IsStr(v) /\ FactsOf(v).boolean
    \/ v.kind = "number" /\ v.n \in {0, 1}
RuleEmail(v) == IsStr(v) /\ FactsOf(v).email
RuleURL(v) == IsStr(v) /\ FactsOf(v).url
RuleAlpha(v) == IsStr(v) /\ FactsOf(v).alpha
RuleAlphaNum(v) == IsStr(v) /\ FactsOf(v).alnum

\* Mutant of SizeOf: a field sent several times has a size as well.
SizeOfAll(v) ==
    CASE IsStr(v) -> <<FactsOf(v).length>>
      [] v.kind \in {"list", "strings"} -> <<Len(v.items)>>
      [] v.kind = "number" -> <<v.n>>
      [] OTHER -> <<>>

\* sizeOf: a value of another type has none.
SizeOf(v) ==
    CASE IsStr(v) -> <<FactsOf(v).length>>
      [] v.kind = "list" -> <<Len(v.items)>>
      [] v.kind = "number" -> <<v.n>>
      [] OTHER -> <<>>

RuleMin(v, n) == SizeOf(v) # <<>> /\ SizeOf(v)[1] >= n
RuleMax(v, n) == SizeOf(v) # <<>> /\ SizeOf(v)[1] =< n
RuleSize(v, n) == SizeOf(v) = <<n>>

\* Sprintf("%v"), as far as two values can print alike.
Sprint(v) ==
    CASE v.kind = "number" -> Str(Printed[v.n])
      [] v.kind = "bool" -> Str(IF v.b THEN "true" ELSE "false")
      [] v.kind = "strings" -> List([k \in DOMAIN v.items |-> Str(v.items[k])])
      [] OTHER -> v

RuleIn(v, allowed) == \E t \in ToSet(allowed) : Sprint(v) = Str(t)

Same(v, other) == other.ok /\ Sprint(other.value) = Sprint(v)

\* The field that confirms another one: the suffix is put to its last segment.
Confirmation(path) == [path EXCEPT ![Len(path)] = Suffixed[@]]

Builtin == {"required", "nullable", "string", "numeric", "integer", "boolean", "email", "url",
            "min", "max", "size", "in", "alpha", "alpha_num", "confirmed", "same", "different"}

\* A rule: its name and its parameters, a rule that needs one passes without it.
Passes(rule, path, v, data) ==
    LET arg == rule.args[1]
        unless(p) == rule.args = <<>> \/ p IN
    IF rule.name \in DOMAIN Custom THEN IsStr(v) /\ v.text \in Custom[rule.name] ELSE
    CASE rule.name = "required"  -> ~IsEmpty(v)
      [] rule.name = "nullable"  -> TRUE
      [] rule.name = "string"    -> RuleString(v)
      [] rule.name = "numeric"   -> RuleNumeric(v)
      [] rule.name = "integer"   -> RuleInteger(v)
      [] rule.name = "boolean"   -> RuleBoolean(v)
      [] rule.name = "email"     -> RuleEmail(v)
      [] rule.name = "url"       -> RuleURL(v)
      [] rule.name = "min"       -> unless(RuleMin(v, arg))
      [] rule.name = "max"       -> unless(RuleMax(v, arg))
      [] rule.name = "size"      -> unless(RuleSize(v, arg))
      [] rule.name = "in"        -> RuleIn(v, rule.args)
      [] rule.name = "alpha"     -> RuleAlpha(v)
      [] rule.name = "alpha_num" -> RuleAlphaNum(v)
      [] rule.name = "confirmed" -> Same(v, Lookup(data, Confirmation(path)))
      [] rule.name = "same"      -> unless(Same(v, Lookup(data, arg)))
      [] rule.name = "different" -> unless(~Same(v, Lookup(data, arg)))

----------------------------------------------------------------------------
(* The Validator *)

\* The rules of a field that are looked at: an empty one is only required.
Fired(rules, path, data) ==
    LET found == Lookup(data, path) IN
    {rule \in ToSet(rules[path]) :
        (found.ok /\ ~IsEmpty(found.value)) \/ rule.name = "required"}

\* Validator.run panics at a rule nobody has registered.
Unregistered(rules, data) ==
    \E path \in DOMAIN rules : \E rule \in Fired(rules, path, data) :
        rule.name \notin Builtin \cup DOMAIN Custom

\* The fields with errors after Validator.run.
Failed(rules, data) ==
    {path \in DOMAIN rules : \E rule \in Fired(rules, path, data) :
        ~Passes(rule, path, Lookup(data, path).value, data)}

\* Validator.Validated, when nothing failed: the declared fields that are there.
Validated(rules, data) ==
    [path \in {p \in DOMAIN rules : Lookup(data, p).ok} |-> Lookup(data, path).value]
=============================================================================

---------------------------- MODULE RequestInput ----------------------------
(***************************************************************************)
(* What becomes of a request's query and body on the way to a controller:   *)
(* the method override, the two middleware that clean the input, the CSRF   *)
(* check, the handler's own Merge calls and Context.Validate, in the order  *)
(* of public/main.go.                                                       *)
(*                                                                         *)
(* Each of them may be the first to read the body, and net/http reads it    *)
(* only once, differently for each method and content type.                 *)
(***************************************************************************)
EXTENDS Validation

CONSTANTS
    Sent,       \* the requests, see SentType
    Overlays,   \* the maps a handler merges into the input
    RuleSets,   \* the rules a handler validates with
    TokenText,  \* the session's CSRF token
    Methods,    \* the methods, and what else an override may say
    MaxMerges,  \* bound on the handler's merges
    None        \* not parsed, not validated

\* The fields of a form come with all their values, those of JSON as one value.
SentType(r) ==
    /\ r.method \in Methods
    /\ r.override \in Methods \cup {""}      \* X-HTTP-Method-Override
    /\ r.header \in Text                     \* X-CSRF-TOKEN or X-XSRF-TOKEN
    /\ r.type \in {"form", "multipart", "json", "other"}
    /\ \A k \in DOMAIN r.query : r.query[k] \in Seq(Text)
    /\ r.type \in {"form", "multipart"} => \A k \in DOMAIN r.body : r.body[k] \in Seq(Text)

ASSUME SentAssumption == \A r \in Sent : SentType(r)
ASSUME RuleSetsAssumption == \A rs \in RuleSets : \A path \in DOMAIN rs : path \in Seq(STRING) \ {<<>>}
ASSUME NoneAssumption == None # <<>> /\ \A r \in Sent : r.body # None
ASSUME BoundAssumption == MaxMerges \in Nat

VARIABLES
    pc,
    sent,       \* the request as it came
    method,     \* Request.Method
    postForm,   \* Request.PostForm: None until somebody parses the body
    input,      \* Context.input
    inputResolved,
    merges,     \* the maps the handler has merged, with their precedence
    rules,      \* the rules of the last Validate
    validated   \* what it returned, or None

vars == <<pc, sent, method, postForm, input, inputResolved, merges, rules, validated>>

TypeOK ==
    /\ pc \in {"spoof", "trim", "convert", "csrf", "handle", "valid", "invalid", "refused",
               "panicked"}
    /\ sent \in Sent
    /\ method \in Methods
    /\ Len(merges) =< MaxMerges

Init ==
    /\ pc = "spoof"
    /\ sent \in Sent
    /\ method = sent.method
    /\ postForm = None
    /\ input = <<>>
    /\ inputResolved = FALSE
    /\ merges = <<>>
    /\ rules = <<>>
    /\ validated = None

----------------------------------------------------------------------------
(* Reading the body *)

\* net/http: a url-encoded body is read for these methods only, a multipart one
\* always, any other never.
FormOf(m) ==
    IF sent.type = "multipart" \/ (sent.type = "form" /\ m \in {"POST", "PUT", "PATCH"})
    THEN sent.body ELSE <<>>

\* Mutant of Parsed: every call reads again, by the method of the moment.
ParsedAgain == FormOf(method)

\* PostFormValue and ParseMultipartForm: the first call reads, for good.
Parsed == IF postForm = None THEN FormOf(method) ELSE postForm

FirstOf(form, k) == IF k \in DOMAIN form THEN form[k][1] ELSE ""

\* flattenInputValues.
Flat(ts) == IF Len(ts) = 1 THEN Str(ts[1]) ELSE Strs(ts)
Flattened(form) == [k \in DOMAIN form |-> Flat(form[k])]

\* f with the entries of g over its own.
Over(f, g) == [k \in DOMAIN f \cup DOMAIN g |-> IF k \in DOMAIN g THEN g[k] ELSE f[k]]

\* Mutant of Resolved: the query over the body.
ResolvedQueryFirst ==
    IF sent.type = "json" THEN Over(sent.body, Flattened(sent.query))
    ELSE Over(Flattened(Parsed), Flattened(sent.query))

\* resolveInput: the body over the query.  What is not JSON leaves no entry.
Resolved ==
    IF sent.type = "json" THEN Over(Flattened(sent.query), sent.body)
    ELSE Over(Flattened(sent.query), Flattened(Parsed))

\* The input once it is resolved, and what resolving it leaves parsed.
Input == IF inputResolved THEN input ELSE Resolved
ParsedByInput == IF inputResolved \/ sent.type = "json" THEN postForm ELSE Parsed

----------------------------------------------------------------------------
(* Middleware *)

Spoofable == {"PUT", "PATCH", "DELETE"}

\* MethodSpoofing: the header decides if it is there, else the field _method,
\* for which the body is parsed.
MethodSpoofing ==
    LET named == IF sent.override # "" THEN sent.override
                 ELSE About[FirstOf(Parsed, "_method")].trimmed IN
    /\ pc = "spoof"
    /\ method' = IF method = "POST" /\ named \in Spoofable THEN named ELSE method
    /\ postForm' = IF method = "POST" /\ sent.override = "" THEN Parsed ELSE postForm
    /\ pc' = "trim"
    /\ UNCHANGED <<sent, input, inputResolved, merges, rules, validated>>

\* trimInputValue: strings and the elements of a []string, nothing inside JSON.
Trimmed(v) ==
    CASE v.kind = "string"  -> Str(About[v.text].trimmed)
      [] v.kind = "strings" -> Strs([k \in DOMAIN v.items |-> About[v.items[k]].trimmed])
      [] OTHER -> v

TrimStrings ==
    /\ pc = "trim"
    /\ input' = [k \in DOMAIN Input |-> Trimmed(Input[k])]
    /\ inputResolved' = TRUE
    /\ postForm' = ParsedByInput
    /\ pc' = "convert"
    /\ UNCHANGED <<sent, method, merges, rules, validated>>

\* nullifyEmptyInputValue.
Nullified(v) == IF v = Str("") THEN Null ELSE v

ConvertEmptyStringsToNull ==
    /\ pc = "convert"
    /\ input' = [k \in DOMAIN Input |-> Nullified(Input[k])]
    /\ inputResolved' = TRUE
    /\ postForm' = ParsedByInput
    /\ pc' = "csrf"
    /\ UNCHANGED <<sent, method, merges, rules, validated>>

\* tokenFromRequest: the field of the body, or else a header.
TokenFromRequest ==
    LET field == FirstOf(Parsed, "_token") IN IF field # "" THEN field ELSE sent.header

\* The csrf middleware of the matched route.
VerifyCsrfToken ==
    /\ pc = "csrf"
    /\ postForm' = Parsed
    /\ pc' = IF TokenFromRequest = TokenText THEN "handle" ELSE "refused"
    /\ UNCHANGED <<sent, method, input, inputResolved, merges, rules, validated>>

----------------------------------------------------------------------------
(* The handler *)

\* Context.Merge.
Merge(data) ==
    /\ pc = "handle"
    /\ Len(merges) < MaxMerges
    /\ input' = Over(Input, data)
    /\ merges' = Append(merges, [over |-> TRUE, data |-> data])
    /\ UNCHANGED <<pc, sent, method, postForm, inputResolved, rules, validated>>

\* Context.MergeIfMissing.
MergeIfMissing(data) ==
    /\ pc = "handle"
    /\ Len(merges) < MaxMerges
    /\ input' = Over(data, Input)
    /\ merges' = Append(merges, [over |-> FALSE, data |-> data])
    /\ UNCHANGED <<pc, sent, method, postForm, inputResolved, rules, validated>>

\* Context.Validate: the declared fields, or a panic, with the errors or because
\* of an unregistered rule.
Validate(rs) ==
    LET data == Object(Input)
        outcome == IF Unregistered(rs, data) THEN "panicked"
                   ELSE IF Failed(rs, data) # {} THEN "invalid" ELSE "valid" IN
    /\ pc = "handle"
    /\ rules' = rs
    /\ pc' = outcome
    /\ validated' = IF outcome = "valid" THEN Validated(rs, data) ELSE None
    /\ UNCHANGED <<sent, method, postForm, input, inputResolved, merges>>

Next ==
    \/ MethodSpoofing \/ TrimStrings \/ ConvertEmptyStringsToNull \/ VerifyCsrfToken
    \/ \E data \in Overlays : Merge(data) \/ MergeIfMissing(data)
    \/ \E rs \in RuleSets : Validate(rs)

Spec == Init /\ [][Next]_vars

----------------------------------------------------------------------------
(* Properties *)

\* Whether the body of a request is one that the server reads at all: not that of
\* a url-encoded DELETE, also if only the override header has made it one.
BodyIsRead ==
    \/ sent.type \in {"json", "multipart"}
    \/ /\ sent.type = "form"
       /\ sent.method \in {"POST", "PUT", "PATCH"}
       /\ ~(sent.method = "POST" /\ sent.override = "DELETE")

\* Whichever middleware was the first to parse the body, under whichever method,
\* the CSRF check, the method override and the handler have read the same form:
\* all of it or nothing ("resolveInput, MethodSpoofing's and VerifyCsrfToken's
\* PostFormValue calls ... can all call into this machinery in any order").
OneReadingOfTheBody ==
    /\ postForm \in {None, <<>>, sent.body}
    /\ pc \in {"handle", "refused"} /\ sent.type # "json" =>
           /\ postForm = IF BodyIsRead THEN sent.body ELSE <<>>
           /\ merges = <<>> => \A k \in DOMAIN postForm :
                  input[k] = Nullified(Trimmed(Flat(postForm[k])))
    /\ method # sent.method =>
           method \in {sent.override} \cup
                      (IF sent.override = "" THEN {About[FirstOf(sent.body, "_method")].trimmed}
                       ELSE {})

\* The value a handler should see for a key: that of the last call of Merge that
\* has it, else of the body if the server reads it, else of the query, else of the
\* first MergeIfMissing; a string without spaces around it, and nil rather than "".
Body == IF ~BodyIsRead THEN <<>> ELSE IF sent.type = "json" THEN sent.body ELSE Flattened(sent.body)
Clean(v) == IF v.kind = "string" /\ About[v.text].trimmed = "" THEN Null ELSE Trimmed(v)
Merged(k, over) == {i \in DOMAIN merges : merges[i].over = over /\ k \in DOMAIN merges[i].data}
IsRight(k, v) ==
    \/ \E i \in Merged(k, TRUE) : v = merges[i].data[k] /\ \A j \in Merged(k, TRUE) : j =< i
    \/ /\ Merged(k, TRUE) = {}
       /\ \/ k \in DOMAIN Body /\ v = Clean(Body[k])
          \/ k \in DOMAIN sent.query \ DOMAIN Body /\ v = Clean(Flat(sent.query[k]))
          \/ /\ k \notin DOMAIN sent.query \cup DOMAIN Body
             /\ \E i \in Merged(k, FALSE) :
                   v = merges[i].data[k] /\ \A j \in Merged(k, FALSE) : i =< j
InputIsWhatWasSent ==
    pc \in {"handle", "valid", "invalid"} =>
        /\ DOMAIN input = DOMAIN Body \cup DOMAIN sent.query
                          \cup UNION {DOMAIN merges[i].data : i \in DOMAIN merges}
        /\ \A k \in DOMAIN input : IsRight(k, input[k])

\* A controller asserts that a validated field is a string and takes "" if it is
\* not.  For what comes from a form, this is the text that was validated: a
\* required field with a minimum length has that length, without the spaces
\* around it, and the same text was sent to confirm it (AuthController.Register
\* and ResetPassword: "required|min:8|confirmed").
HasRule(path, name) == \E rule \in ToSet(rules[path]) : rule.name = name
Minima(path) == {rule.args[1] : rule \in {r \in ToSet(rules[path]) : r.name = "min" /\ r.args # <<>>}}
AsString(path) ==
    IF path \in DOMAIN validated /\ IsStr(validated[path]) THEN validated[path].text ELSE ""
ControllerGetsTheText ==
    pc = "valid" /\ sent.type # "json" /\ merges = <<>> =>
        \A path \in DOMAIN rules :
            HasRule(path, "required") /\ Minima(path) # {} =>
                /\ About[AsString(path)].trimmed = AsString(path)
                /\ \A n \in Minima(path) : About[AsString(path)].length >= n
                /\ HasRule(path, "confirmed") =>
                       \E ts \in {sent.query, sent.body} : \E k \in DOMAIN ts :
                           /\ <<k>> = Confirmation(path)
                           /\ About[ts[k][1]].trimmed = AsString(path)
=============================================================================

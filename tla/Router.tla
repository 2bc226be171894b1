------------------------------- MODULE Router -------------------------------
(***************************************************************************)
(* The kernel's route table while an application registers its routes:    *)
(* plain routes, and the registrars of Resource, ApiResource and           *)
(* Singleton, whose fluent calls register everything anew; how a request   *)
(* is matched against the table, and how a name becomes a URL.             *)
(*                                                                         *)
(* A path or URI is a sequence of segments; "/" is the empty one.  A       *)
(* segment of a URI is the set of words it accepts: a static one accepts   *)
(* itself, a parameter what its Where constraint leaves of Word.           *)
(***************************************************************************)
EXTENDS Naturals, FiniteSets, SequencesExt

CONSTANTS
    Word,         \* the words of a path
    Cut,          \* those with a "?" or "#", which end the path of a URL
    Unescaped,    \* what a request's path has for a word in a URL, up to such a mark
    Missing,      \* stands for a parameter that a URL is built without
    Resource,     \* the registrars
    Declaration,  \* for each, its kind, prefix, parents, last segment, name, methods
    Plain,        \* the routes registered one by one
    PlainRoute,   \* for each, its methods, URI and name
    NoRoute,      \* stands for no route
    Selection,    \* arguments of Only and Except
    MaxCalls,     \* bound on registering calls
    Path,         \* the paths that the properties try
    Value         \* and the values of parameters

ASSUME RouterAssumption ==
    /\ Missing \notin Word
    /\ Cut \subseteq Word /\ DOMAIN Unescaped = Word
    /\ {"create", "edit"} \subseteq Word
    /\ Resource \cap Plain = {}
    /\ MaxCalls \in Nat

Static(w) == [param |-> FALSE, optional |-> FALSE, words |-> {w}]
Param == [param |-> TRUE, optional |-> FALSE, words |-> Word]
Where(segment, words) == [segment EXCEPT !.words = words]
Optional(segment) == [segment EXCEPT !.optional = TRUE]
Segment == {Static(w) : w \in Word}
           \cup [param : {TRUE}, optional : BOOLEAN, words : SUBSET Word]

\* The entries of s that are in S, in their order: the loops that append what
\* they keep to a new slice.
Kept(s, S) ==
    LET kept[i \in 0..Len(s)] ==
            IF i = 0 THEN << >>
            ELSE IF s[i] \in S THEN Append(kept[i - 1], s[i])
            ELSE kept[i - 1]
    IN kept[Len(s)]

Action(name, methods, suffix) ==
    [name |-> name, methods |-> methods, suffix |-> suffix]

ResourceActionTable ==
    << Action("index", {"GET"}, << >>),
       Action("create", {"GET"}, <<Static("create")>>),
       Action("store", {"POST"}, << >>),
       Action("show", {"GET"}, <<Param>>),
       Action("edit", {"GET"}, <<Param, Static("edit")>>),
       Action("update", {"PUT", "PATCH"}, <<Param>>),
       Action("destroy", {"DELETE"}, <<Param>>) >>

ApiResourceActionTable ==
    Kept(ResourceActionTable,
         {a \in ToSet(ResourceActionTable) : a.name \notin {"create", "edit"}})

SingletonActionTable ==
    << Action("show", {"GET"}, << >>),
       Action("edit", {"GET"}, <<Static("edit")>>),
       Action("update", {"PUT", "PATCH"}, << >>) >>

SingletonCreatableTable ==
    << Action("create", {"GET"}, <<Static("create")>>),
       Action("store", {"POST"}, << >>) >>

MemberActions == {"show", "edit", "update", "destroy"}
ActionName == {a.name : a \in ToSet(ResourceActionTable)}

Name == {<<Declaration[g].name, a>> : g \in Resource, a \in ActionName}
        \cup {PlainRoute[p].name : p \in Plain}
Method == {"GET", "POST", "PUT", "PATCH", "DELETE", "OPTIONS"}
Route == [owner : Resource \cup Plain, action : ActionName \cup {"none"}, round : Nat,
          methods : SUBSET Method, uri : Seq(Segment), name : Name]

\* In a group's prefix nothing is optional: an optional parameter must trail the
\* route (docs/developer-guide.md, "Known limitations").
ASSUME DeclarationAssumption ==
    /\ \A g \in Resource :
           /\ Declaration[g].kind \in {"resource", "api", "singleton"}
           /\ Declaration[g].prefix \in Seq({s \in Segment : ~s.optional})
           /\ Declaration[g].parents \in Seq(Word)
           /\ Declaration[g].last \in Word
    /\ \A p \in Plain :
           /\ PlainRoute[p].methods \subseteq Method
           /\ PlainRoute[p].uri \in Seq(Segment)
    /\ NoRoute \notin Route

VARIABLES
    routes,      \* Kernel.routes
    named,       \* Kernel.namedRoutes
    registrar,   \* the fields of each ResourceRegistrar and SingletonRegistrar
    registered,  \* the routes it registered last
    calls,
    wanted       \* history: the actions that the calls on it have asked for

vars == <<routes, named, registrar, registered, calls, wanted>>

Init ==
    /\ routes = << >>
    /\ named = [n \in Name |-> NoRoute]
    /\ registrar = [g \in Resource |-> [only |-> {}, except |-> {}, shallow |-> FALSE,
                                        creatable |-> FALSE, round |-> 0]]
    /\ registered = [g \in Resource |-> {}]
    /\ calls = 0
    /\ wanted = [g \in Resource |-> ActionName]

----------------------------------------------------------------------------
(* Registration *)

Declared(g) == registrar[g].round > 0

Table(g, r) ==
    CASE Declaration[g].kind = "resource" -> ResourceActionTable
      [] Declaration[g].kind = "api" -> ApiResourceActionTable
      [] Declaration[g].kind = "singleton" ->
             IF r.creatable THEN SingletonCreatableTable \o SingletonActionTable
                            ELSE SingletonActionTable

Allowed(r, a) ==
    /\ r.only # {} => a \in r.only
    /\ r.except # {} => a \notin r.except

\* Each parent brings its own segment and its parameter.
Parents(g) ==
    [k \in 1 .. 2 * Len(Declaration[g].parents) |->
        IF k % 2 = 1 THEN Static(Declaration[g].parents[(k + 1) \div 2]) ELSE Param]

Uri(g, r, a) ==
    LET parents == IF r.shallow /\ a.name \in MemberActions THEN << >> ELSE Parents(g)
    IN Declaration[g].prefix \o parents \o <<Static(Declaration[g].last)>> \o a.suffix

RouteOf(g, r, a) ==
    [owner |-> g, action |-> a.name, round |-> r.round, methods |-> a.methods,
     uri |-> Uri(g, r, a), name |-> <<Declaration[g].name, a.name>>]

\* The routes register() builds: the allowed actions that the controller has.
Picked(g, r) ==
    {a \in ToSet(Table(g, r)) : Allowed(r, a.name) /\ a.name \in Declaration[g].has}

NewRoutes(g, r) ==
    LET actions == Kept(Table(g, r), Picked(g, r))
    IN [k \in DOMAIN actions |-> RouteOf(g, r, actions[k])]

\* Mutant of RemoveRoutes: a removed route's place is filled with the last one.
RemoveSwapping(table, old) ==
    LET kept == SelectSeq(table, LAMBDA x : x \notin old)
    IN IF old = {} \/ kept = << >> THEN kept
       ELSE <<Last(kept)>> \o Front(kept)

RemoveRoutes(table, old) == Kept(table, ToSet(table) \ old)

\* Mutant of ForgetNames: the names of removed routes go, whoever has them now.
ForgetByName(names, old) ==
    [n \in Name |-> IF \E x \in old : x.name = n THEN NoRoute ELSE names[n]]

ForgetNames(names, old) == [n \in Name |-> IF names[n] \in old THEN NoRoute ELSE names[n]]

\* Route.Name for each of the routes in turn.
NameRoutes(names, fresh) ==
    [n \in Name |->
        IF \E x \in fresh : x.name = n THEN CHOOSE x \in fresh : x.name = n ELSE names[n]]

\* Mutant of Register: what is registered already stays where it is.
RegisterMissing(g, r) ==
    LET wants == NewRoutes(g, r)
        old == {x \in registered[g] : \A k \in DOMAIN wants :
                    wants[k].action # x.action \/ wants[k].uri # x.uri}
        kept == registered[g] \ old
        fresh == SelectSeq(wants, LAMBDA x : \A y \in kept : y.action # x.action)
    IN /\ routes' = RemoveRoutes(routes, old) \o fresh
       /\ named' = NameRoutes(ForgetNames(named, old), ToSet(fresh))
       /\ registered' = [registered EXCEPT ![g] = kept \cup ToSet(fresh)]
       /\ registrar' = [registrar EXCEPT ![g] = r]

Register(g, r) ==
    LET fresh == NewRoutes(g, r)
    IN /\ routes' = RemoveRoutes(routes, registered[g]) \o fresh
       /\ named' = NameRoutes(ForgetNames(named, registered[g]), ToSet(fresh))
       /\ registered' = [registered EXCEPT ![g] = ToSet(fresh)]
       /\ registrar' = [registrar EXCEPT ![g] = r]

\* One more call; each registers routes of its own.
Call(g, r) ==
    /\ calls < MaxCalls
    /\ calls' = calls + 1
    /\ Register(g, [r EXCEPT !.round = @ + 1])

\* Resource, ApiResource or Singleton.
Declare(g) ==
    /\ ~Declared(g)
    /\ Call(g, registrar[g])
    /\ UNCHANGED wanted

Fluent(g) == Declared(g) /\ Declaration[g].kind # "singleton"

\* Mutant of Only: the exceptions stay.
OnlyKeepingExcept(g, actions) ==
    /\ Fluent(g)
    /\ Call(g, [registrar[g] EXCEPT !.only = actions])
    /\ wanted' = [wanted EXCEPT ![g] = IF actions = {} THEN ActionName ELSE actions]

\* An empty list restricts nothing.
Only(g, actions) ==
    /\ Fluent(g)
    /\ Call(g, [registrar[g] EXCEPT !.only = actions, !.except = {}])
    /\ wanted' = [wanted EXCEPT ![g] = IF actions = {} THEN ActionName ELSE actions]

Except(g, actions) ==
    /\ Fluent(g)
    /\ Call(g, [registrar[g] EXCEPT !.except = actions, !.only = {}])
    /\ wanted' = [wanted EXCEPT ![g] = ActionName \ actions]

Shallow(g) ==
    /\ Fluent(g)
    /\ Call(g, [registrar[g] EXCEPT !.shallow = TRUE])
    /\ UNCHANGED wanted

Creatable(g) ==
    /\ Declared(g)
    /\ Declaration[g].kind = "singleton"
    /\ Call(g, [registrar[g] EXCEPT !.creatable = TRUE])
    /\ UNCHANGED wanted

\* A verb helper, Match, Any or Redirect, with its Where calls and its Name.
AddRoute(p) ==
    LET route == [owner |-> p, action |-> "none", round |-> 1, methods |-> PlainRoute[p].methods,
                  uri |-> PlainRoute[p].uri, name |-> PlainRoute[p].name]
    IN /\ calls < MaxCalls
       /\ calls' = calls + 1
       /\ \A x \in ToSet(routes) : x.owner # p
       /\ routes' = Append(routes, route)
       /\ named' = NameRoutes(named, {route})
       /\ UNCHANGED <<registrar, registered, wanted>>

CallOn(g) ==
    \/ Declare(g)
    \/ \E actions \in Selection : Only(g, actions) \/ Except(g, actions)
    \/ Shallow(g)
    \/ Creatable(g)

Next == (\E g \in Resource : CallOn(g)) \/ (\E p \in Plain : AddRoute(p))

Spec == Init /\ [][Next]_vars

----------------------------------------------------------------------------
(* Matching and URLs *)

\* The positions of a URI that a request or a URL without those in `absent` has.
Present(uri, absent) == Kept([k \in DOMAIN uri |-> k], DOMAIN uri \ absent)

\* The compiled pattern: each segment brings its own slash, so a pattern with
\* segments never matches "/".
Fits(uri, path) ==
    \/ uri = << >> /\ path = << >>
    \/ /\ path # << >>
       /\ \E absent \in SUBSET {k \in DOMAIN uri : uri[k].optional} :
              LET present == Present(uri, absent)
              IN /\ Len(present) = Len(path)
                 /\ \A i \in DOMAIN path : path[i] \in uri[present[i]].words

\* match: the first route of the table that has the method and fits, otherwise
\* the methods of those that fit.
Match(table, method, path) ==
    LET fitting == {k \in DOMAIN table : Fits(table[k].uri, path)}
        serving == {k \in fitting : method \in table[k].methods}
    IN IF serving = {}
       THEN [route |-> NoRoute, allowed |-> UNION {table[k].methods : k \in fitting}]
       ELSE [route |-> table[CHOOSE k \in serving : \A i \in serving : k <= i],
             allowed |-> {}]

\* Mutant of BuildUrl: the loop breaks at a missing optional parameter.
BuildUrlCut(uri, values) ==
    LET missing == {k \in DOMAIN uri : uri[k].param /\ values[k] = Missing}
        present == SelectSeq([k \in DOMAIN uri |-> k],
                             LAMBDA k : \A i \in missing : k < i)
    IN [i \in DOMAIN present |->
            IF uri[present[i]].param THEN values[present[i]]
            ELSE CHOOSE w \in uri[present[i]].words : TRUE]

\* buildURL from the values of the parameters, defaults included, which are
\* written as they are.
BuildUrl(uri, values) ==
    LET present == Present(uri, {k \in DOMAIN uri : uri[k].param /\ values[k] = Missing})
    IN [i \in DOMAIN present |->
            IF uri[present[i]].param THEN values[present[i]]
            ELSE CHOOSE w \in uri[present[i]].words : TRUE]

\* The path of a request for a URL, as net/http gives it to match: the segments up
\* to the first mark that ends it, with "%" escapes decoded.
Requested(url) ==
    [i \in {k \in DOMAIN url : \A j \in 1 .. k - 1 : url[j] \notin Cut} |-> Unescaped[url[i]]]

\* A word that a path and a URL write in the same way.
Verbatim(w) == w \notin Cut /\ Unescaped[w] = w

----------------------------------------------------------------------------
(* Properties *)

\* The positions of a registrar's routes in the table.
Own(g) == {k \in DOMAIN routes : routes[k].owner = g}

\* After any sequence of calls, the table has exactly the actions that the last
\* of Only and Except asked for and the controller has, each once and none of an
\* earlier call (register, docs/controllers.md: a call replaces, it does not
\* compound).
ExactRoutes ==
    \A g \in Resource : Declared(g) =>
        /\ {routes[k].action : k \in Own(g)} =
               {a.name : a \in ToSet(Table(g, registrar[g]))}
               \cap wanted[g] \cap Declaration[g].has
        /\ \A k \in Own(g) : routes[k].round = registrar[g].round
        /\ \A i, k \in Own(g) : routes[i].action = routes[k].action => i = k

\* Among the routes of one resource, a request never reaches a parameter when a
\* later route has its word as a static segment: /photos/create is create and not
\* show, whatever was called (docs/controllers.md, "Registration order is not
\* cosmetic").
StaticFirst ==
    \A g \in Resource : \A i, k \in Own(g) :
        /\ i < k
        /\ routes[i].methods \cap routes[k].methods # {}
        /\ \E path \in Path : Fits(routes[i].uri, path) /\ Fits(routes[k].uri, path)
        => \A s \in DOMAIN routes[i].uri :
               routes[i].uri[s].param => routes[k].uri[s].param

\* A call on one registrar changes how a request is answered only if one of its
\* own routes answers it before or after, or makes it a 405; the routes of others
\* keep their precedence (removeRoutes, register).
CallsAreLocal ==
    [][\A g \in Resource : registrar'[g] # registrar[g] =>
           \A method \in Method, path \in Path :
               LET before == Match(routes, method, path)
                   after == Match(routes', method, path)
                   own == registered[g] \cup registered'[g]
               IN \/ before = after
                  \/ before.route \in own
                  \/ after.route \in own
                  \/ /\ before.route = after.route
                     /\ \E x \in own : Fits(x.uri, path)]_vars

\* A name stands for a route of the table, and a call takes a name from a route that
\* stays only for a route that it has just registered (registerNamedRoute,
\* removeRoutes).
NamesReachRoutes ==
    [][\A n \in Name :
           /\ named'[n] \in ToSet(routes') \cup {NoRoute}
           /\ named'[n] = NoRoute => named[n] \notin ToSet(routes')
           /\ named'[n] # named[n] => named'[n] \notin ToSet(routes)]_vars

\* A request for the URL that is built for a name, with values its constraints
\* allow, fits the name's route, unless nothing is left of the URL (buildURL,
\* compilePattern).  That is so if all its words are written in a URL as they are:
\* buildURL escapes nothing, so a value with "?", "#" or "%" comes back as another
\* one, with fewer segments, or not at all.
UrlsMatch ==
    \A x \in ToSet(routes) :
        LET values == [k \in DOMAIN x.uri |->
                          IF ~x.uri[k].param THEN {Missing}
                          ELSE (x.uri[k].words \cap Value)
                               \cup (IF x.uri[k].optional THEN {Missing} ELSE {})]
        IN \A v \in [DOMAIN x.uri -> Value \cup {Missing}] :
               (\A k \in DOMAIN x.uri : v[k] \in values[k]) =>
                   LET url == BuildUrl(x.uri, v)
                   IN url # << >> /\ (\A i \in DOMAIN url : Verbatim(url[i]))
                          => Fits(x.uri, Requested(url))
============================================================================

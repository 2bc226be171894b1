--------------------------- MODULE MiddlewareStack ---------------------------
(***************************************************************************)
(* Which middleware a route runs, and in which order: the calls that        *)
(* configure groups, routes and named middleware at boot, and what          *)
(* Kernel.resolveRouteMiddleware makes of them for each request.            *)
(*                                                                         *)
(* Middleware lists are Go slices.  A slice is modelled as a view of an     *)
(* array, because append writes into the array when there is room: two      *)
(* slices of one array can overwrite each other's last elements.            *)
(***************************************************************************)
EXTENDS Naturals, SequencesExt

CONSTANTS
    Name,          \* base names of middleware and of middleware groups
    Param,         \* parameters of a "name:params" spec
    Plain,         \* the parameters of a spec without any
    Aliases,       \* the names AliasMiddleware may register
    Bound,         \* the names the container resolves to a middleware
    Priority,      \* Kernel.MiddlewarePriority
    Rules,         \* the rules of a controller, see RuleType
    Lists,         \* the lists of specs that calls pass
    GroupCalls,    \* the calls of MiddlewareGroup: a name and its members
    MaxGroups,     \* bound on the RouteGroups made
    MaxRoutes,     \* bound on the routes registered
    MaxCalls       \* bound on the calls that configure them

\* A middleware spec, as ParseMiddlewareSpec reads it.
Entry == [name : Name, param : Param \cup {Plain}]

\* The actions of a resource controller that its rules tell apart.
Action == {"index", "store", "show"}

\* A rule of a controller; an empty list of Only or Except restricts nothing.
RuleType == [entry : Entry, only : SUBSET Action, except : SUBSET Action]

ASSUME NameAssumption ==
    /\ IsFiniteSet(Name)
    /\ {"web", "session", "csrf", "block"} \subseteq Name  \* see Web and WithMiddleware
ASSUME PlainAssumption == Plain \notin Param
ASSUME PriorityAssumption == Priority \in Seq(Name) /\ IsInjective(Priority)
ASSUME ListsAssumption == Lists \subseteq Seq(Entry)
ASSUME RulesAssumption == Rules \in Seq(RuleType)
ASSUME GroupCallsAssumption == GroupCalls \subseteq Name \X Seq(Entry)
ASSUME BoundAssumption == MaxGroups \in Nat /\ MaxRoutes \in Nat /\ MaxCalls \in Nat

\* What an array holds beyond the slices that view it.
Blank == [name |-> "", param |-> Plain]

VARIABLES
    arrays,    \* the arrays, in the order of their allocation
    groups,    \* the slice of each RouteGroup
    routes,    \* the slice of each route
    members,   \* the slice of each named group
    named,     \* the keys of MiddlewareGroups
    without,   \* what each route excludes, as written in the call
    direct,    \* the names of each route's WithMiddleware entries
    alias,     \* the keys of RouteMiddleware
    asked,     \* history: the specs the calls gave to each of them
    calls

vars == <<arrays, groups, routes, members, named, without, direct, alias, asked, calls>>

Slice == [at : Nat, len : Nat]

TypeOK ==
    /\ arrays \in Seq(Seq(Entry \cup {Blank}))
    /\ groups \in Seq(Slice)
    /\ routes \in Seq(Slice)
    /\ members \in [Name -> Slice]
    /\ named \subseteq Name
    /\ without \in Seq(SUBSET Entry)
    /\ direct \in Seq(Seq(Name))
    /\ alias \subseteq Name
    /\ asked.groups \in Seq(Seq(Entry))
    /\ asked.routes \in Seq(Seq(Entry))
    /\ asked.members \in [Name -> Seq(Entry)]
    /\ calls \in 0..MaxCalls

----------------------------------------------------------------------------
(* Slices *)

\* The elements of a slice.
Elements(s) == SubSeq(arrays[s.at], 1, s.len)

\* make and copy: a slice of its own array, without room for more.
Fresh(heap, xs) == [heap |-> Append(heap, xs), slice |-> [at |-> Len(heap) + 1, len |-> Len(xs)]]

\* How append enlarges an array.
Capacity(old, needed) == IF needed > 2 * old THEN needed ELSE 2 * old

\* append(s, xs...): in place when the array has room, else in a larger one.
Extended(heap, s, xs) ==
    LET needed == s.len + Len(xs)
        room == Len(heap[s.at])
        filled(k) == IF k =< s.len THEN heap[s.at][k]
                     ELSE IF k =< needed THEN xs[k - s.len]
                     ELSE IF k =< room THEN heap[s.at][k] ELSE Blank
    IN IF needed =< room
       THEN [heap  |-> [heap EXCEPT ![s.at] = [k \in 1..room |-> filled(k)]],
             slice |-> [s EXCEPT !.len = needed]]
       ELSE [heap  |-> Append(heap, [k \in 1..Capacity(room, needed) |-> filled(k)]),
             slice |-> [at |-> Len(heap) + 1, len |-> needed]]

\* The nil slice: it has no room, so nothing is ever written to its array.
Nil == [at |-> 1, len |-> 0]

----------------------------------------------------------------------------
(* Configuration *)

Web == <<[name |-> "session", param |-> Plain], [name |-> "csrf", param |-> Plain]>>

Init ==
    /\ arrays = << <<>>, Web >>
    /\ groups = <<>>
    /\ routes = <<>>
    /\ members = [n \in Name |-> IF n = "web" THEN [at |-> 2, len |-> 2] ELSE Nil]
    /\ named = {"web"}
    /\ without = <<>>
    /\ direct = <<>>
    /\ alias = {}
    /\ asked = [groups |-> <<>>, routes |-> <<>>,
                members |-> [n \in Name |-> IF n = "web" THEN Web ELSE <<>>]]
    /\ calls = 0

Call == calls < MaxCalls /\ calls' = calls + 1

\* Kernel.Middleware, and with <<>> Kernel.Prefix and Kernel.Name.
NewGroup(xs) ==
    /\ Call
    /\ Len(groups) < MaxGroups
    /\ LET g == Fresh(arrays, xs) IN
           /\ arrays' = g.heap
           /\ groups' = Append(groups, g.slice)
    /\ asked' = [asked EXCEPT !.groups = Append(@, xs)]
    /\ UNCHANGED <<routes, members, named, without, direct, alias>>

\* Mutant of SubGroup: the clone keeps the slice of its parent.
SubGroupShared(g, xs) ==
    /\ Call
    /\ Len(groups) < MaxGroups
    /\ LET child == Extended(arrays, groups[g], xs) IN
           /\ arrays' = child.heap
           /\ groups' = Append(groups, child.slice)
    /\ asked' = [asked EXCEPT !.groups = Append(@, @[g] \o xs)]
    /\ UNCHANGED <<routes, members, named, without, direct, alias>>

\* RouteGroup.Middleware, and with <<>> RouteGroup.Prefix and RouteGroup.Name: a
\* clone of the group, extended.
SubGroup(g, xs) ==
    /\ Call
    /\ Len(groups) < MaxGroups
    /\ LET clone == Fresh(arrays, Elements(groups[g]))
           child == Extended(clone.heap, clone.slice, xs) IN
           /\ arrays' = child.heap
           /\ groups' = Append(groups, child.slice)
    /\ asked' = [asked EXCEPT !.groups = Append(@, @[g] \o xs)]
    /\ UNCHANGED <<routes, members, named, without, direct, alias>>

\* addRoute, for a route of the group g or (0) of no group.
AddRoute(g) ==
    /\ Call
    /\ Len(routes) < MaxRoutes
    /\ LET own == Fresh(arrays, IF g = 0 THEN <<>> ELSE Elements(groups[g])) IN
           /\ arrays' = own.heap
           /\ routes' = Append(routes, own.slice)
    /\ without' = Append(without, {})
    /\ direct' = Append(direct, <<>>)
    /\ asked' = [asked EXCEPT !.routes = Append(@, IF g = 0 THEN <<>> ELSE asked.groups[g])]
    /\ UNCHANGED <<groups, members, named, alias>>

\* RouteDefinition.Middleware.
Middleware(r, xs) ==
    /\ Call
    /\ LET own == Extended(arrays, routes[r], xs) IN
           /\ arrays' = own.heap
           /\ routes' = [routes EXCEPT ![r] = own.slice]
    /\ asked' = [asked EXCEPT !.routes[r] = @ \o xs]
    /\ UNCHANGED <<groups, members, named, without, direct, alias>>

\* MiddlewareRule.appliesTo: Only wins over Except.
AppliesTo(rule, action) ==
    IF rule.only # {} THEN action \in rule.only ELSE action \notin rule.except

\* Controller.MiddlewareForAction.
MiddlewareForAction(action) ==
    FlattenSeq([k \in DOMAIN Rules |->
        IF AppliesTo(Rules[k], action) THEN <<Rules[k].entry>> ELSE <<>>])

\* ApplyControllerMiddleware, for a route registered for this action.
ApplyControllerMiddleware(r, action) ==
    /\ MiddlewareForAction(action) # <<>>
    /\ Middleware(r, MiddlewareForAction(action))

WithoutMiddleware(r, xs) ==
    /\ Call
    /\ without' = [without EXCEPT ![r] = @ \cup ToSet(xs)]
    /\ UNCHANGED <<arrays, groups, routes, members, named, direct, alias, asked>>

\* RouteDefinition.WithMiddleware, as Block calls it.
WithMiddleware(r) ==
    /\ Call
    /\ direct' = [direct EXCEPT ![r] = Append(@, "block")]
    /\ UNCHANGED <<arrays, groups, routes, members, named, without, alias, asked>>

\* Kernel.MiddlewareGroup: defines the group, or extends it.
MiddlewareGroup(n, xs) ==
    /\ Call
    /\ LET own == Extended(arrays, members[n], xs) IN
           /\ arrays' = own.heap
           /\ members' = [members EXCEPT ![n] = own.slice]
    /\ named' = named \cup {n}
    /\ asked' = [asked EXCEPT !.members[n] = @ \o xs]
    /\ UNCHANGED <<groups, routes, without, direct, alias>>

AliasMiddleware(n) ==
    /\ Call
    /\ n \notin alias
    /\ alias' = alias \cup {n}
    /\ UNCHANGED <<arrays, groups, routes, members, named, without, direct, asked>>

Next ==
    \/ \E xs \in Lists \cup {<<>>} : NewGroup(xs)
    \/ \E xs \in Lists \cup {<<>>}, g \in DOMAIN groups : SubGroup(g, xs)
    \/ \E g \in {0} \cup DOMAIN groups : AddRoute(g)
    \/ \E xs \in Lists, r \in DOMAIN routes : Middleware(r, xs) \/ WithoutMiddleware(r, xs)
    \/ \E action \in Action, r \in DOMAIN routes : ApplyControllerMiddleware(r, action)
    \/ \E r \in DOMAIN routes : WithMiddleware(r)
    \/ \E call \in GroupCalls : MiddlewareGroup(call[1], call[2])
    \/ \E n \in Aliases : AliasMiddleware(n)

Spec == Init /\ [][Next]_vars

----------------------------------------------------------------------------
(* Resolution *)

\* Mutant of Expanded: the members of a group are not looked at again.
ExpandedOnce(xs) ==
    FlattenSeq([k \in DOMAIN xs |->
        IF xs[k].name \in named THEN Elements(members[xs[k].name]) ELSE <<xs[k]>>])

\* expandMiddlewareNames: a group is replaced by its members, and theirs, except
\* inside itself, where its name stands for a middleware.
Expanded(xs) ==
    LET one[visiting \in SUBSET Name] ==
            [e \in Entry |->
                IF e.name \in named \ visiting
                THEN LET inside == Elements(members[e.name])
                     IN FlattenSeq([k \in DOMAIN inside |->
                                       one[visiting \cup {e.name}][inside[k]]])
                ELSE <<e>>]
    IN FlattenSeq([k \in DOMAIN xs |-> one[{}][xs[k]]])

\* lookupMiddleware: an alias, or a service of the container.
Known(n) == n \in alias \cup Bound

\* The base name is looked up among what the call wrote: an exclusion written with
\* parameters excludes nothing, although WithoutMiddleware is said to ignore them.
Excluded(r, e) == [name |-> e.name, param |-> Plain] \in without[r]

\* The entries of s that are in S, in their order.
Kept(s, S) == FlattenSeq([k \in DOMAIN s |-> IF s[k] \in S THEN <<s[k]>> ELSE <<>>])

\* The middleware of a route before sorting; "block" carries no parameters.
Resolved(r) ==
    Kept(Expanded(Elements(routes[r])), {e \in Entry : ~Excluded(r, e) /\ Known(e.name)})
    \o [k \in DOMAIN direct[r] |-> [name |-> direct[r][k], param |-> Plain]]

\* Mutant of Rank: what is not in the list has the zero rank of a Go map.
RankZero(n) ==
    IF n \in ToSet(Priority) THEN CHOOSE k \in DOMAIN Priority : Priority[k] = n ELSE 1

\* The place of a name in MiddlewarePriority, or behind all of it.
Rank(n) ==
    IF n \in ToSet(Priority) THEN CHOOSE k \in DOMAIN Priority : Priority[k] = n
    ELSE Len(Priority) + 1

\* resolveRouteMiddleware: the stable sort by rank.
Stack(r) ==
    FlattenSeq([k \in 1..(Len(Priority) + 1) |->
                   Kept(Resolved(r), {e \in Entry : Rank(e.name) = k})])

----------------------------------------------------------------------------
(* Properties *)

\* Whatever is configured next, each RouteGroup, route and named group holds what
\* its own calls gave it: no append reaches the list of another one (RouteGroup:
\* "so a group can be reused as the base for several independent sub-groups
\* without cross-contaminating their attributes").
ConfigurationsApart ==
    /\ \A g \in DOMAIN groups : Elements(groups[g]) = asked.groups[g]
    /\ \A r \in DOMAIN routes : Elements(routes[r]) = asked.routes[r]
    /\ \A n \in Name : Elements(members[n]) = asked.members[n]

\* The names that stand in a list, and those that stand in the groups these name,
\* and in theirs.
NamesIn(xs) == {xs[k].name : k \in DOMAIN xs}
Mentions(n) == IF n \in named THEN NamesIn(asked.members[n]) ELSE {}
Closed == {C \in SUBSET Name : \A n \in C : Mentions(n) \subseteq C}
Reached(names) == {n \in Name : \A C \in Closed : names \subseteq C => n \in C}

\* The names that a route's calls exclude, in whatever way they write them.
ExcludedNames(r) == {e.name : e \in without[r]}

\* A route runs a middleware only if its calls ask for it, directly or through
\* groups in groups, even circular ones, somebody has registered it, and the route
\* has not excluded it by its name; and it runs what is asked for, registered and
\* not mentioned in an exclusion (resolveRouteMiddleware).  What Block attached runs
\* in any case.  Nothing is said of a middleware excluded with parameters only: the
\* code runs it, WithoutMiddleware's comment says that it does not.
RunsWhatWasAsked ==
    \A r \in DOMAIN routes :
        LET runs == NamesIn(Stack(r))
            reached == Reached(NamesIn(asked.routes[r])) IN
        /\ \A n \in Name \ (named \cup {"block"}) :
               /\ n \in runs => /\ n \in reached
                               /\ Known(n)
                               /\ [name |-> n, param |-> Plain] \notin without[r]
               /\ n \in reached /\ Known(n) /\ n \notin ExcludedNames(r) => n \in runs
        /\ direct[r] # <<>> => "block" \in runs

\* The listed middleware run in the order of the list and before all others, the
\* others in the order in which they were assigned, wherever each comes from: with
\* the application's list (routes/web.go), no route verifies a token, looks up the
\* user or locks the session before the session is there.
InPriorityOrder ==
    \A r \in DOMAIN routes :
        LET s == Stack(r)
            unlisted == {e \in Entry : e.name \notin ToSet(Priority)} IN
        /\ \A i, j \in DOMAIN s : i < j =>
               /\ s[j].name \in ToSet(Priority) => s[i].name \in ToSet(Priority)
               /\ \A k, l \in DOMAIN Priority :
                      Priority[k] = s[i].name /\ Priority[l] = s[j].name => k =< l
        /\ Kept(s, unlisted) = Kept(Resolved(r), unlisted)
============================================================================

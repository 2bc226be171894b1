-------------------------- MODULE MCSessionEngine --------------------------
(* Small instances of SessionEngine. *)
EXTENDS SessionRefinement, FiniteSets, TLC

CONSTANTS r1, r2, r3, c1, c2

\* Two requests of one client, and one of another if there is a third.
MCClientOf == [r \in Request |-> IF r = r3 /\ c2 \in Client THEN c2 ELSE c1]

\* A route with or without .Block(); patient, .Block(0), waits for ever.
Unblocked(ops) ==
    [guarded : {FALSE}, blocked : {FALSE}, patient : {FALSE}, op : ops, panics : {FALSE}]
Patient(ops) ==
    [guarded : {FALSE}, blocked : {TRUE}, patient : {TRUE}, op : ops, panics : {FALSE}]
Impatient(ops) ==
    [guarded : {FALSE}, blocked : {TRUE}, patient : {FALSE}, op : ops, panics : {FALSE}]

\* Routes behind csrf or auth, and handlers that may panic.
Guarded(routes) == {[rt EXCEPT !.guarded = TRUE] : rt \in routes}
Panicking(routes) == {[rt EXCEPT !.panics = TRUE] : rt \in routes}

\* Under .Block(0), beside requests that go without the lock: turned away by csrf,
\* timed out, or on a route without .Block().
BlockedRoutes ==
    Guarded(Patient({"put"})) \cup Panicking(Patient({"login"}))
        \cup Impatient({"invalidate"}) \cup Unblocked({"regenerate"})

\* Every kind of route that matters beside another.
MixedRoutes ==
    Unblocked({"put", "login", "invalidate"}) \cup Impatient({"regenerate"})
        \cup Guarded(Patient({"put"})) \cup Panicking(Impatient({"put", "login"}))

\* Routes for requests of two clients.
TwoClientRoutes == Unblocked({"put", "login"}) \cup Panicking(Impatient({"put"}))

SameClient == Permutations({r \in Request : MCClientOf[r] = c1})
============================================================================

---------------------------- MODULE MCCsrfSession ----------------------------
(* The application's routes, and blocked and panicking variants of them. *)
EXTENDS CsrfSession, TLC

CONSTANTS c1, c2, r1, r2, r4

MCClientOf == [r \in Request |-> IF r = r4 THEN c2 ELSE c1]

Plainly == [csrf |-> FALSE, safe |-> TRUE, blocked |-> FALSE, renders |-> FALSE,
            op |-> "none", panics |-> FALSE]

Form == [Plainly EXCEPT !.csrf = TRUE, !.renders = TRUE, !.panics = TRUE]
Login == [Plainly EXCEPT !.csrf = TRUE, !.safe = FALSE, !.op = "regenerate"]

\* What the first client uses; the second one fetches a form, whose token the first
\* one may then send.
AllRoutes == {
    [Plainly EXCEPT !.renders = TRUE],                           \* GET /csrf-token
    Form,
    [Plainly EXCEPT !.csrf = TRUE, !.blocked = TRUE, !.renders = TRUE],  \* a blocked form
    [Plainly EXCEPT !.csrf = TRUE, !.safe = FALSE, !.blocked = TRUE],    \* a blocked POST
    Login,
    [Plainly EXCEPT !.csrf = TRUE, !.safe = FALSE, !.op = "invalidate"]}  \* POST /logout

MCRoute == [c \in Client |-> IF c = c1 THEN AllRoutes
                          ELSE {[Form EXCEPT !.renders = FALSE, !.panics = FALSE]}]

\* The requests of the first client are interchangeable.
RequestsAlike == Permutations(Request \ {r4})
=============================================================================

----------------------------- MODULE CsrfSession -----------------------------
(***************************************************************************)
(* The CSRF token: where the session keeps it, how the VerifyCsrfToken     *)
(* middleware checks it and hands it to the browser, and what becomes of it *)
(* when the session changes its ID, is reloaded by .Block(), or lives in the *)
(* cookie itself (the stateless "cookie" driver).                          *)
(*                                                                         *)
(* One process per HTTP request, whose handler may call Session.Token from *)
(* two goroutines.  Its steps are its accesses to what is shared with other *)
(* requests or between these two; the middleware that only reads and writes *)
(* the Context are folded into the step before them.  Of a session's data  *)
(* only the token is kept.  The mutex of .Block() is left out: a waiter may *)
(* proceed without it after its timeout, so every interleaving below is one *)
(* of the code.                                                            *)
(***************************************************************************)
EXTENDS Naturals

CONSTANTS
    Request,      \* HTTP requests, each handled once
    Client,       \* browsers
    ClientOf,     \* the client that sends a request
    Route,        \* the routes each client may ask for, see RouteType
    MaxLosses,    \* bound on records that Gc, a restart or a failing disk takes
    None,         \* no token; no cookie
    Absent,       \* the record of an ID that has none
    Missed        \* a goroutine has found no token yet

RouteType ==
    [csrf : BOOLEAN,      \* carries the "csrf" middleware, after "session"
     safe : BOOLEAN,      \* GET, HEAD or OPTIONS, or excepted by its path
     blocked : BOOLEAN,   \* carries .Block()
     renders : BOOLEAN,   \* the handler puts CsrfToken into its response
     op : {"none", "regenerate", "invalidate"},
     panics : BOOLEAN]    \* the handler may panic

NoRoute == [csrf |-> FALSE, safe |-> TRUE, blocked |-> FALSE, renders |-> FALSE,
            op |-> "none", panics |-> FALSE]

ASSUME ClientOfAssumption == ClientOf \in [Request -> Client]
ASSUME RouteAssumption == Route \in [Client -> SUBSET RouteType]
ASSUME BoundAssumption == MaxLosses \in Nat

\* A random value is never generated twice: it is named by the request and the
\* call of generateRandomToken that makes it.  IDs: in the first Load, in the
\* reload, in the handler.  Tokens: in the middleware, or by a goroutine.
Goroutine == {"g1", "g2"}
Minting == {"start", "reload", "handler"}
Id == (Request \X Minting) \cup (Client \X {"prior"})
Token == Request \X ({"csrf"} \cup Goroutine)
Rand(r, place) == <<r, place>>
Prior(c) == <<c, "prior">>

ASSUME SentinelAssumption ==
    /\ {None, Absent, Missed} \cap Token = {}
    /\ None # Absent /\ None # Missed /\ Absent # Missed

Session == [id : Id, token : Token \cup {None}]

\* A cookie carries an ID or, for the stateless driver, the encrypted session.
Naming(id) == [kind |-> "id", id |-> id]
Sealed(token) == [kind |-> "sealed", token |-> token]
Cookie == {None} \cup {Naming(id) : id \in Id} \cup {Sealed(t) : t \in Token \cup {None}}

\* None is no cookie.
ASSUME CookieAssumption ==
    None \notin {Naming(id) : id \in Id} \cup {Sealed(t) : t \in Token \cup {None}}

\* A request: the middleware it is in, and its Context.
Context == [
    pc : {"idle", "block", "handle", "render", "blocksave", "save", "done"},
    route : RouteType,
    offered : Token \cup {None},   \* the token it was sent with
    sess : Session,
    orig : Id,                     \* SessionOriginalIDKey
    cookie : Cookie,               \* the session cookie it queues, or None
    xsrf : Token \cup {None},      \* the XSRF-TOKEN cookie it queues
    body : Token \cup {None},      \* the token in the response body
    committed : BOOLEAN,           \* the response headers have been written
    received : BOOLEAN,            \* the client has them, or has given up
    seen : [Goroutine -> Token \cup {None, Missed}],  \* what Token returned
    spoiled : BOOLEAN]             \* history: its response promises nothing

VARIABLES
    stateless, \* whether SESSION_DRIVER is "cookie"
    req,       \* the requests
    jar,       \* the session cookie of each client
    xsrf,      \* the XSRF-TOKEN cookie of each client
    page,      \* the token in the page each client fetched last
    store,     \* the handler's records: a token, None, or Absent
    given,     \* history: the tokens sent to each client
    paired,    \* history: which of xsrf and page the session's token is due to match
    ended,     \* the requests that are over
    losses

vars == <<stateless, req, jar, xsrf, page, store, given, paired, ended, losses>>

client == <<jar, xsrf, page, given>>

TypeOK ==
    /\ stateless \in BOOLEAN
    /\ req \in [Request -> Context]
    /\ jar \in [Client -> Cookie]
    /\ xsrf \in [Client -> Token \cup {None}]
    /\ page \in [Client -> Token \cup {None}]
    /\ store \in [Id -> Token \cup {None, Absent}]
    /\ given \in [Client -> SUBSET Token]
    /\ paired \in [Client -> SUBSET {"xsrf", "page"}]
    /\ ended \subseteq Request
    /\ losses \in 0..MaxLosses

\* A request that has not come, or whose Context is garbage.
Unborn(r) ==
    [pc |-> "idle", route |-> NoRoute, offered |-> None,
     sess |-> [id |-> Rand(r, "start"), token |-> None], orig |-> Rand(r, "start"),
     cookie |-> None, xsrf |-> None, body |-> None, committed |-> FALSE, received |-> FALSE,
     seen |-> [g \in Goroutine |-> None], spoiled |-> FALSE]

Init ==
    /\ stateless \in BOOLEAN
    /\ req = [r \in Request |-> Unborn(r)]
    \* A client is new, or has a session that nobody has asked for a token yet.
    /\ \E known \in SUBSET Client :
           /\ jar = [c \in Client |-> IF c \notin known THEN None
                                      ELSE IF stateless THEN Sealed(None)
                                      ELSE Naming(Prior(c))]
           /\ store = [id \in Id |-> IF ~stateless /\ id \in {Prior(c) : c \in known}
                                     THEN None ELSE Absent]
    /\ xsrf = [c \in Client |-> None]
    /\ page = [c \in Client |-> None]
    /\ given = [c \in Client |-> {}]
    /\ paired = [c \in Client |-> {}]
    /\ ended = {}
    /\ losses = 0

----------------------------------------------------------------------------
(* Helpers *)

\* Whether Load finds a session behind a cookie.
Readable(cookie) ==
    /\ cookie # None
    /\ cookie.kind = IF stateless THEN "sealed" ELSE "id"
    /\ stateless \/ store[cookie.id] # Absent

\* Manager.Load; the ID of a session from the cookie driver is always new.
Load(cookie, fresh) ==
    CASE ~Readable(cookie) -> [id |-> fresh, token |-> None]
      [] Readable(cookie) /\ stateless -> [id |-> fresh, token |-> cookie.token]
      [] OTHER -> [id |-> cookie.id, token |-> store[cookie.id]]

\* Session.Token, called by the middleware alone: the session with its token.
WithToken(s, fresh) == IF s.token = None THEN [s EXCEPT !.token = fresh] ELSE s

\* Mutant of TokensMatch: the stored token, and no check for an unset one.
TokensMatchUnset(s, t) == s.token = t

\* tokensMatch: Token generates one, so an unset one never matches.
TokensMatch(s, t) == s.token # None /\ s.token = t

Busy(c) == {r \in Request : ClientOf[r] = c /\ req[r].pc # "idle"}

\* What comes after the csrf middleware.
AfterCsrf(rt) == IF rt.blocked THEN "block" ELSE "handle"

\* A step of a request on its own Context.  A request that has run and whose
\* response has been received or given up is over.
Becomes(r, x) ==
    LET over == x.pc = "done" /\ x.received IN
    /\ req' = [req EXCEPT ![r] = IF over THEN Unborn(r) ELSE x]
    /\ ended' = IF over THEN ended \cup {r} ELSE ended
    /\ UNCHANGED stateless

----------------------------------------------------------------------------
(* The chain of one request *)

\* syncCookie: the value of XSRF-TOKEN.
SyncCookie(s) == s.token

\* VerifyCsrfToken.Handle: hand out the token and go on, or answer 419.
Verified(x, fresh) ==
    LET s == WithToken(x.sess, fresh) IN
    IF x.route.safe \/ TokensMatch(x.sess, x.offered)
    THEN [x EXCEPT !.sess = s, !.xsrf = SyncCookie(s), !.pc = AfterCsrf(x.route)]
    ELSE [x EXCEPT !.sess = s, !.committed = TRUE, !.pc = "save"]

\* The client sends a request with one of the tokens it knows of, or another
\* client's; StartSession loads the session and, unless it is stateless, queues
\* its cookie; the csrf middleware follows if the route has it.
Arrive(r, rt, t) ==
    LET c == ClientOf[r]
        s == Load(jar[c], Rand(r, "start"))
        x == [Unborn(r) EXCEPT !.route = rt, !.offered = t, !.sess = s, !.orig = s.id,
                               !.cookie = IF stateless THEN None ELSE Naming(s.id),
                               !.pc = AfterCsrf(rt), !.spoiled = Busy(c) # {}] IN
    /\ req[r].pc = "idle" /\ r \notin ended
    \* Requests of one client that overlap promise nothing about its cookies.
    /\ req' = [q \in Request |-> IF q = r
                                 THEN IF rt.csrf THEN Verified(x, Rand(r, "csrf")) ELSE x
                                 ELSE IF q \in Busy(c) THEN [req[q] EXCEPT !.spoiled = TRUE]
                                 ELSE req[q]]
    /\ paired' = IF Busy(c) = {} /\ Readable(jar[c]) THEN paired
                 ELSE [paired EXCEPT ![c] = {}]
    /\ UNCHANGED <<stateless, client, store, ended, losses>>

\* The store does not have the session of a request, or not with its token: the
\* csrf middleware has just made it, the record has gone, or there are no records.
Unsaved(x) == stateless \/ store[x.orig] # x.sess.token

\* The .Block() middleware before next(): the session is loaded again by its ID,
\* which for the cookie driver is no cookie it can decode.  What was not saved is
\* gone.
Reload(r) ==
    LET x == req[r]
        fresh == Load(Naming(x.orig), Rand(r, "reload")) IN
    /\ x.pc = "block"
    /\ Becomes(r, [x EXCEPT !.sess = fresh, !.pc = "handle",
                            !.cookie = IF fresh.id # x.orig THEN Naming(fresh.id) ELSE @,
                            !.spoiled = @ \/ Unsaved(x)])
    /\ UNCHANGED <<client, paired, store, losses>>

Saving(rt) == IF rt.blocked THEN "blocksave" ELSE "save"

\* Session.Regenerate, which keeps the data, and Session.Invalidate.
Changed(s, op, fresh) ==
    CASE op = "none"       -> s
      [] op = "regenerate" -> [s EXCEPT !.id = fresh]
      [] op = "invalidate" -> [id |-> fresh, token |-> None]

\* The handler changes the session, through RegenerateSession or
\* InvalidateSession, which replace the queued cookie; then it renders the token,
\* or it writes a response or leaves that to the server.  Or it panics: no
\* after-phase runs, nothing is saved, and Recover sends what is queued.
Handle(r) ==
    LET x == req[r]
        op == x.route.op
        y == [x EXCEPT !.sess = Changed(@, op, Rand(r, "handler")),
                       !.cookie = IF op = "none" THEN @ ELSE Naming(Rand(r, "handler")),
                       !.spoiled = @ \/ op = "invalidate"] IN
    /\ x.pc = "handle"
    /\ \/ x.route.renders /\ Becomes(r, [y EXCEPT !.pc = "render"])
       \/ ~x.route.renders /\ \E writes \in BOOLEAN :
              Becomes(r, [y EXCEPT !.pc = Saving(x.route), !.committed = writes])
       \/ x.route.panics /\ Becomes(r, [y EXCEPT !.pc = "done", !.committed = TRUE,
                                                 !.spoiled = TRUE])
    /\ UNCHANGED <<client, paired, store, losses>>

\* Session.Token in a goroutine, under the read lock.
TokenRead(r, g) ==
    LET x == req[r] IN
    /\ x.pc = "render"
    /\ x.seen[g] = None
    /\ Becomes(r, [x EXCEPT !.seen[g] = IF x.sess.token = None THEN Missed ELSE x.sess.token])
    /\ UNCHANGED <<client, paired, store, losses>>

\* Mutant of Stored: the token is stored without looking again.
StoredBlindly(s, fresh) == [s EXCEPT !.token = fresh]

\* Session.Token under the write lock: another goroutine may have been faster.
Stored(s, fresh) == WithToken(s, fresh)

TokenStore(r, g) ==
    LET x == req[r]
        s == Stored(x.sess, Rand(r, g)) IN
    /\ x.pc = "render"
    /\ x.seen[g] = Missed
    /\ Becomes(r, [x EXCEPT !.sess = s, !.seen[g] = s.token])
    /\ UNCHANGED <<client, paired, store, losses>>

\* The handler writes the response with the token.
Respond(r) ==
    LET x == req[r] IN
    /\ x.pc = "render"
    /\ \A g \in Goroutine : x.seen[g] \in Token
    /\ Becomes(r, [x EXCEPT !.body = x.seen["g1"], !.committed = TRUE, !.pc = Saving(x.route)])
    /\ UNCHANGED <<client, paired, store, losses>>

\* Mutant of Saved: a record that is there is not written again, as if only a change
\* of ID were a change of the session.
SavedIfNew(x) ==
    [id \in Id |-> IF id = x.sess.id /\ store[id] = Absent THEN x.sess.token
                   ELSE IF id = x.orig /\ id # x.sess.id THEN Absent ELSE store[id]]

\* Manager.Save for a driver with records: the record of a replaced ID is
\* destroyed, the new one written.
Saved(x) ==
    [id \in Id |-> IF id = x.sess.id THEN x.sess.token
                   ELSE IF id = x.orig THEN Absent ELSE store[id]]

\* The after-phase of .Block(), or of StartSession if that one did not run.
\* StartSession sends a stateless session in its cookie if the response is still
\* open; .Block() discards it.
Save(r) ==
    LET x == req[r] IN
    /\ x.pc \in {"blocksave", "save"}
    /\ store' = IF stateless THEN store ELSE Saved(x)
    /\ Becomes(r, [x EXCEPT !.pc = "done",
                            !.cookie = IF stateless /\ x.pc = "save" /\ ~x.committed
                                       THEN Sealed(x.sess.token) ELSE @])
    /\ UNCHANGED <<client, paired, losses>>

\* Handler.Write fails after Handler.Destroy: nobody is told.
SaveFails(r) ==
    LET x == req[r] IN
    /\ x.pc \in {"blocksave", "save"}
    /\ ~stateless
    /\ losses < MaxLosses
    /\ losses' = losses + 1
    /\ store' = IF x.sess.id = x.orig THEN store ELSE [store EXCEPT ![x.orig] = Absent]
    /\ Becomes(r, [x EXCEPT !.pc = "done", !.spoiled = TRUE])
    /\ paired' = [paired EXCEPT ![ClientOf[r]] = {}]
    /\ UNCHANGED client

----------------------------------------------------------------------------
(* Clients and the store *)

\* What a response changes of a value that a client holds.
Newer(value, held) == IF value = None THEN held ELSE value

\* The headers reach the client, as early as they are written.  The session
\* cookie of a stateless session is one of them only if they were written late.
Receive(r) ==
    LET x == req[r]
        c == ClientOf[r]
        promised == IF stateless /\ x.committed THEN {}
                    ELSE {k \in {"xsrf", "page"} : IF k = "xsrf" THEN x.xsrf # None
                                                   ELSE x.body # None} IN
    /\ x.committed \/ x.pc = "done"
    /\ ~x.received
    /\ Becomes(r, [x EXCEPT !.received = TRUE])
    /\ jar' = [jar EXCEPT ![c] = Newer(x.cookie, @)]
    /\ xsrf' = [xsrf EXCEPT ![c] = Newer(x.xsrf, @)]
    /\ page' = [page EXCEPT ![c] = Newer(x.body, @)]
    /\ given' = [given EXCEPT ![c] = @ \cup ({x.xsrf, x.body} \ {None})]
    /\ paired' = [paired EXCEPT ![c] = IF x.spoiled THEN {} ELSE @ \cup promised]
    /\ UNCHANGED <<store, losses>>

\* The connection breaks before the headers arrive.
GiveUp(r) ==
    LET x == req[r] IN
    /\ x.committed \/ x.pc = "done"
    /\ ~x.received
    /\ Becomes(r, [x EXCEPT !.received = TRUE])
    /\ UNCHANGED <<client, paired, store, losses>>

\* Handler.Gc collects a record, or a restart empties the memory driver.
Lose(id) ==
    /\ store[id] # Absent
    /\ losses < MaxLosses
    /\ losses' = losses + 1
    /\ store' = [store EXCEPT ![id] = Absent]
    /\ UNCHANGED <<stateless, req, client, paired, ended>>

Offers(c) == {None, xsrf[c], page[c]} \cup {xsrf[d] : d \in Client}

Next ==
    \/ \E r \in Request : \E rt \in Route[ClientOf[r]], t \in Offers(ClientOf[r]) : Arrive(r, rt, t)
    \/ \E r \in Request :
           \/ Reload(r) \/ Handle(r) \/ Respond(r)
           \/ Save(r) \/ SaveFails(r) \/ Receive(r) \/ GiveUp(r)
    \/ \E r \in Request, g \in Goroutine : TokenRead(r, g) \/ TokenStore(r, g)
    \/ \E id \in Id : Lose(id)

Spec == Init /\ [][Next]_vars

----------------------------------------------------------------------------
(* Properties *)

\* All calls of Token in one request give the same token (Session.go: "two
\* concurrent first-requests ... will agree on whichever was stored first"), and
\* the body shows the one in the XSRF-TOKEN cookie, unless the session was
\* emptied or replaced between the two.
TokensAgree ==
    \A r \in Request : \A g \in Goroutine :
        LET x == req[r] IN
        x.seen[g] \in Token =>
            /\ x.seen[g] = x.sess.token
            /\ x.spoiled \/ x.xsrf \in {None, x.seen[g]}

\* A handler that changes state runs only for a request with a token that the
\* server had sent to that very client before: no request gets through with no
\* token, or with one of another client, however sessions expire, move to a new
\* ID or start anew (VerifyCsrfToken.Handle, Manager.Load).
OnlyWithOwnToken ==
    \A r \in Request :
        LET x == req[r] IN
        x.route.csrf /\ ~x.route.safe /\ x.pc \in {"block", "handle", "render", "blocksave"}
            => x.offered \in given[ClientOf[r]]

\* The token that an open cookie names in the store, or carries.
TokenBehind(cookie) == IF stateless THEN cookie.token ELSE store[cookie.id]

\* Once its requests are over, a client that sends one at a time holds in
\* XSRF-TOKEN, and in the page it fetched, the token of the very session its
\* session cookie stands for, so that its next form is accepted.  A login moves the
\* session to a new ID with its token, as Session.Regenerate says of all data
\* (docs/security-csrf.md denies it of the token).  Not promised after a panic or a
\* failed save, a logout, a reload of what was not saved, or a response of a
\* stateless session whose handler wrote it.
TokenRoundTrip ==
    \A c \in Client :
        Busy(c) = {} /\ Readable(jar[c]) =>
            /\ "xsrf" \in paired[c] => xsrf[c] = TokenBehind(jar[c])
            /\ "page" \in paired[c] => page[c] = TokenBehind(jar[c])
=============================================================================

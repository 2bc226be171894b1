------------------------- MODULE CsrfSessionProofs -------------------------
(* Proofs about CsrfSession, for every number of requests, clients, routes *)
(* and losses: no token crosses from one client to another, and a client   *)
(* holds the token of its session.                                         *)
EXTENDS CsrfSession, TLAPS

USE ClientOfAssumption, RouteAssumption, BoundAssumption

----------------------------------------------------------------------------
(* Who owns what *)

\* The client for which an ID or a token was generated.
Owner(id) == IF id[2] = "prior" THEN id[1] ELSE ClientOf[id[1]]
OwnIds(c) == {id \in Id : Owner(id) = c}
OwnTokens(c) == {t \in Token : ClientOf[t[1]] = c}
OwnCookies(c) ==
    {None} \cup {Naming(id) : id \in OwnIds(c)} \cup {Sealed(t) : t \in OwnTokens(c) \cup {None}}
OwnSessions(c) == [id : OwnIds(c), token : OwnTokens(c) \cup {None}]

\* A Context that holds what is its client's.
OwnContexts(r) ==
    LET c == ClientOf[r] IN
    {x \in Context :
        /\ x.sess \in OwnSessions(c)
        /\ x.orig \in OwnIds(c)
        /\ x.cookie \in OwnCookies(c)
        /\ x.xsrf \in OwnTokens(c) \cup {None}
        /\ x.body \in OwnTokens(c) \cup {None}
        /\ \A g \in Goroutine : x.seen[g] \in OwnTokens(c) \cup {None, Missed}}

\* What Token has returned, and what XSRF-TOKEN says, is the session's token.
Coherent(x) ==
    /\ x.pc \in {"idle", "block", "handle"} => \A g \in Goroutine : x.seen[g] = None
    /\ \A g \in Goroutine : x.seen[g] \in Token => x.seen[g] = x.sess.token
    /\ ~x.spoiled /\ x.xsrf # None => x.xsrf = x.sess.token

\* A request that has passed the csrf middleware had a token of its client.
Passing == {"block", "handle", "render", "blocksave"}
Entitled(r, x, sent) ==
    x.route.csrf /\ ~x.route.safe /\ x.pc \in Passing => x.offered \in sent[ClientOf[r]]

OwnershipInv ==
    /\ TypeOK
    /\ \A r \in Request : req[r] \in OwnContexts(r) /\ Coherent(req[r])
                          /\ Entitled(r, req[r], given)
    /\ \A c \in Client : /\ jar[c] \in OwnCookies(c)
                         /\ given[c] \subseteq OwnTokens(c)
                         /\ xsrf[c] \in given[c] \cup {None}
                         /\ page[c] \in given[c] \cup {None}
    /\ \A id \in Id : store[id] \in OwnTokens(Owner(id)) \cup {None, Absent}

----------------------------------------------------------------------------
(* Names *)

\* A generated ID belongs to the client of the request that generated it.
LEMMA IdIsOwn ==
    ASSUME NEW r \in Request, NEW m \in Minting
    PROVE  Rand(r, m) \in OwnIds(ClientOf[r])
BY DEF Rand, Minting, Id, OwnIds, Owner

\* So does a generated token.
LEMMA TokenIsOwn ==
    ASSUME NEW r \in Request, NEW m \in {"csrf"} \cup Goroutine
    PROVE  Rand(r, m) \in OwnTokens(ClientOf[r])
BY DEF Rand, Token, OwnTokens

\* The session that a client had before belongs to it.
LEMMA PriorIsOwn ==
    ASSUME NEW c \in Client
    PROVE  Prior(c) \in OwnIds(c)
BY DEF Prior, Id, OwnIds, Owner

\* The owner of an ID is a client.
LEMMA OwnerIsClient ==
    ASSUME NEW id \in Id
    PROVE  Owner(id) \in Client
BY DEF Id, Owner, Minting

\* No sentinel is a token.
LEMMA SentinelsAreNoTokens == None \notin Token /\ Absent \notin Token /\ Missed \notin Token
BY SentinelAssumption

\* A request that has not come holds nothing of anybody's.
LEMMA UnbornIsOwn ==
    ASSUME NEW r \in Request
    PROVE  Unborn(r) \in OwnContexts(r) /\ Coherent(Unborn(r)) /\ Unborn(r).pc \notin Passing
<1>1. Rand(r, "start") \in OwnIds(ClientOf[r])
  BY IdIsOwn DEF Minting
<1>2. Unborn(r) \in Context
  BY <1>1 DEF Unborn, Context, NoRoute, RouteType, Session, Cookie, OwnIds
<1>3. Unborn(r) \in OwnContexts(r)
  BY <1>1, <1>2 DEF Unborn, OwnContexts, OwnSessions, OwnCookies
<1> QED
  BY <1>3, SentinelsAreNoTokens DEF Unborn, Coherent, Passing

\* Load gives a client a session of its own.
LEMMA LoadIsOwn ==
    ASSUME OwnershipInv, NEW c \in Client, NEW cookie \in OwnCookies(c), NEW fresh \in OwnIds(c)
    PROVE  Load(cookie, fresh) \in OwnSessions(c)
<1>1. CASE ~Readable(cookie)
  BY <1>1 DEF Load, OwnSessions
<1>2. CASE Readable(cookie) /\ stateless
  <2>1. cookie # None /\ cookie.kind = "sealed"
    BY <1>2 DEF Readable
  <2>2. PICK t \in OwnTokens(c) \cup {None} : cookie = Sealed(t)
    BY <2>1 DEF OwnCookies, Naming
  <2>3. cookie.token \in OwnTokens(c) \cup {None}
    BY <2>2 DEF Sealed
  <2>4. Load(cookie, fresh) = [id |-> fresh, token |-> cookie.token]
    BY <1>2 DEF Load
  <2> QED
    BY <2>3, <2>4 DEF OwnSessions
<1>3. CASE Readable(cookie) /\ ~stateless
  <2>1. cookie # None /\ cookie.kind = "id" /\ store[cookie.id] # Absent
    BY <1>3 DEF Readable
  <2>2. PICK id \in OwnIds(c) : cookie = Naming(id)
    BY <2>1 DEF OwnCookies, Sealed
  <2>3. cookie.id \in Id /\ Owner(cookie.id) = c
    BY <2>2 DEF Naming, OwnIds
  <2>4. store[cookie.id] \in OwnTokens(c) \cup {None}
    BY <2>1, <2>3 DEF OwnershipInv
  <2>5. Load(cookie, fresh) = [id |-> cookie.id, token |-> store[cookie.id]]
    BY <1>3 DEF Load
  <2> QED
    BY <2>3, <2>4, <2>5 DEF OwnSessions, OwnIds
<1> QED
  BY <1>1, <1>2, <1>3

\* A session of a client is a session.
LEMMA OwnSessionsAreSessions ==
    ASSUME NEW c \in Client, NEW s \in OwnSessions(c)
    PROVE  s \in Session
BY DEF OwnSessions, OwnIds, OwnTokens, Session

\* A cookie of a client is a cookie.
LEMMA OwnCookiesAreCookies ==
    ASSUME NEW c \in Client, NEW k \in OwnCookies(c)
    PROVE  k \in Cookie
BY DEF OwnCookies, Cookie, OwnIds, OwnTokens

----------------------------------------------------------------------------
(* One request *)

\* Generating the token leaves a session with its client.
LEMMA WithTokenIsOwn ==
    ASSUME NEW c \in Client, NEW s \in OwnSessions(c), NEW t \in OwnTokens(c)
    PROVE  /\ WithToken(s, t) \in OwnSessions(c)
           /\ WithToken(s, t).id = s.id
           /\ s.token # None => WithToken(s, t).token = s.token
           /\ WithToken(s, t).token \in OwnTokens(c)
BY DEF WithToken, OwnSessions

\* So does a change of the ID.
LEMMA ChangedIsOwn ==
    ASSUME NEW c \in Client, NEW s \in OwnSessions(c), NEW id \in OwnIds(c),
           NEW op \in {"none", "regenerate", "invalidate"}
    PROVE  /\ Changed(s, op, id) \in OwnSessions(c)
           /\ op # "invalidate" => Changed(s, op, id).token = s.token
<1>1. CASE op = "none"
  BY <1>1 DEF Changed, OwnSessions
<1>2. CASE op = "regenerate"
  BY <1>2 DEF Changed, OwnSessions
<1>3. CASE op = "invalidate"
  BY <1>3 DEF Changed, OwnSessions
<1> QED
  BY <1>1, <1>2, <1>3

\* What a request is before a step.
LEMMA ContextNow ==
    ASSUME OwnershipInv, NEW r \in Request
    PROVE  /\ req[r] \in OwnContexts(r) /\ Coherent(req[r]) /\ Entitled(r, req[r], given)
           /\ req[r] \in Context /\ req[r].sess \in OwnSessions(ClientOf[r])
           /\ req[r].route \in RouteType /\ ClientOf[r] \in Client
<1>1. req[r] \in OwnContexts(r) /\ Coherent(req[r]) /\ Entitled(r, req[r], given)
  BY DEF OwnershipInv
<1> QED
  BY <1>1 DEF OwnContexts, Context

\* A step of a request on its own Context, which leaves the other requests alone.
LEMMA RequestsKept ==
    ASSUME OwnershipInv, NEW r \in Request, NEW x \in OwnContexts(r), Becomes(r, x),
           Coherent(x), Entitled(r, x, given),
           \A c \in Client : given[c] \subseteq given'[c]
    PROVE  /\ req' \in [Request -> Context] /\ ended' \subseteq Request
           /\ stateless' \in BOOLEAN
           /\ \A q \in Request : req'[q] \in OwnContexts(q) /\ Coherent(req'[q])
                                 /\ Entitled(q, req'[q], given')
<1> DEFINE y == IF x.pc = "done" /\ x.received THEN Unborn(r) ELSE x
<1>1. /\ req \in [Request -> Context] /\ ended \subseteq Request /\ stateless \in BOOLEAN
  BY DEF OwnershipInv, TypeOK
<1>2. req' = [req EXCEPT ![r] = y] /\ stateless' = stateless
      /\ (ended' = ended \/ ended' = ended \cup {r})
  BY DEF Becomes
<1>3. y \in OwnContexts(r) /\ Coherent(y)
  BY UnbornIsOwn
<1>4. Entitled(r, y, given)
  BY UnbornIsOwn DEF Entitled
<1>5. y \in Context
  BY <1>3 DEF OwnContexts
<1> HIDE DEF y
<1>6. req'[r] = y /\ \A q \in Request \ {r} : req'[q] = req[q]
  BY <1>1, <1>2
<1>7. \A q \in Request : req'[q] \in OwnContexts(q) /\ Coherent(req'[q])
                         /\ Entitled(q, req'[q], given)
  BY <1>3, <1>4, <1>6, ContextNow
<1>8. ASSUME NEW q \in Request PROVE Entitled(q, req'[q], given')
  BY <1>7 DEF Entitled
<1> QED
  BY <1>1, <1>2, <1>5, <1>7, <1>8

\* What clients hold is left alone by most steps.
LEMMA ClientsKept ==
    ASSUME OwnershipInv, UNCHANGED client
    PROVE  /\ jar' \in [Client -> Cookie]
           /\ xsrf' \in [Client -> Token \cup {None}]
           /\ page' \in [Client -> Token \cup {None}]
           /\ given' \in [Client -> SUBSET Token]
           /\ \A c \in Client : /\ jar'[c] \in OwnCookies(c)
                                /\ given'[c] \subseteq OwnTokens(c)
                                /\ xsrf'[c] \in given'[c] \cup {None}
                                /\ page'[c] \in given'[c] \cup {None}
           /\ \A c \in Client : given[c] \subseteq given'[c]
BY DEF OwnershipInv, TypeOK, client

\* And so is the store.
LEMMA StoreKept ==
    ASSUME OwnershipInv, store' = store
    PROVE  /\ store' \in [Id -> Token \cup {None, Absent}]
           /\ \A id \in Id : store'[id] \in OwnTokens(Owner(id)) \cup {None, Absent}
BY DEF OwnershipInv, TypeOK

\* A step of a request that changes its Context only.
LEMMA OwnStep ==
    ASSUME OwnershipInv, NEW r \in Request, NEW x \in OwnContexts(r), Becomes(r, x),
           Coherent(x), x.route = req[r].route, x.offered = req[r].offered,
           x.pc \in Passing => req[r].pc \in Passing,
           UNCHANGED <<client, paired, store, losses>>
    PROVE  OwnershipInv'
<1>1. Entitled(r, x, given)
  BY ContextNow DEF Entitled
<1>2. /\ req' \in [Request -> Context] /\ ended' \subseteq Request /\ stateless' \in BOOLEAN
      /\ \A q \in Request : req'[q] \in OwnContexts(q) /\ Coherent(req'[q])
                            /\ Entitled(q, req'[q], given')
  BY <1>1, ClientsKept, RequestsKept
<1>3. paired' \in [Client -> SUBSET {"xsrf", "page"}] /\ losses' \in 0..MaxLosses
  BY DEF OwnershipInv, TypeOK
<1> QED
  BY <1>2, <1>3, ClientsKept, StoreKept DEF OwnershipInv, TypeOK

----------------------------------------------------------------------------
(* The steps *)

\* How a Context with other contents stays its client's.
LEMMA StillOwn ==
    ASSUME NEW r \in Request, NEW x \in Context, ClientOf[r] \in Client,
           x.sess \in OwnSessions(ClientOf[r]), x.orig \in OwnIds(ClientOf[r]),
           x.cookie \in OwnCookies(ClientOf[r]),
           x.xsrf \in OwnTokens(ClientOf[r]) \cup {None},
           x.body \in OwnTokens(ClientOf[r]) \cup {None},
           \A g \in Goroutine : x.seen[g] \in OwnTokens(ClientOf[r]) \cup {None, Missed}
    PROVE  x \in OwnContexts(r)
BY DEF OwnContexts

\* What the csrf middleware makes of a Context that has just been filled.
LEMMA VerifiedIsOwn ==
    ASSUME OwnershipInv, NEW r \in Request, NEW x \in OwnContexts(r),
           NEW fresh \in OwnTokens(ClientOf[r]),
           x.pc \in {"block", "handle"}, x.xsrf = None,
           \A g \in Goroutine : x.seen[g] = None
    PROVE  /\ Verified(x, fresh) \in OwnContexts(r)
           /\ Coherent(Verified(x, fresh))
           /\ Verified(x, fresh).offered = x.offered
           /\ Verified(x, fresh).route = x.route
           /\ Verified(x, fresh).pc \in Passing
                  => x.route.safe \/ TokensMatch(x.sess, x.offered)
<1> DEFINE c == ClientOf[r]
           s == WithToken(x.sess, fresh)
           pass == x.route.safe \/ TokensMatch(x.sess, x.offered)
<1>1. c \in Client /\ x \in Context /\ x.sess \in OwnSessions(c)
  BY ContextNow DEF OwnContexts
<1>2. s \in OwnSessions(c) /\ s.token \in OwnTokens(c)
  BY <1>1, WithTokenIsOwn
<1>3. s \in Session /\ s.token \in Token
  BY <1>1, <1>2, OwnSessionsAreSessions DEF OwnTokens
<1>4. Verified(x, fresh) =
        IF pass THEN [x EXCEPT !.sess = s, !.xsrf = s.token, !.pc = AfterCsrf(x.route)]
        ELSE [x EXCEPT !.sess = s, !.committed = TRUE, !.pc = "save"]
  BY DEF Verified, SyncCookie
<1> HIDE DEF s, pass
<1>5. CASE pass
  <2> DEFINE y == [x EXCEPT !.sess = s, !.xsrf = s.token, !.pc = AfterCsrf(x.route)]
  <2> AfterCsrf(x.route) \in {"block", "handle"}
    BY DEF AfterCsrf
  <2>1. y \in Context
    BY <1>1, <1>3, ZenonT(30) DEF Context
  <2>2. y.sess = s /\ y.xsrf = s.token /\ y.orig = x.orig /\ y.cookie = x.cookie
        /\ y.body = x.body /\ y.seen = x.seen /\ y.offered = x.offered /\ y.route = x.route
    BY <1>1 DEF Context
  <2> HIDE DEF y
  <2>3. y \in OwnContexts(r)
    BY <1>1, <1>2, <2>1, <2>2 DEF OwnContexts
  <2>4. Coherent(y)
    BY <2>2, SentinelsAreNoTokens DEF Coherent
  <2> QED
    BY <1>4, <1>5, <2>2, <2>3, <2>4 DEF y, pass
<1>6. CASE ~pass
  <2> DEFINE y == [x EXCEPT !.sess = s, !.committed = TRUE, !.pc = "save"]
  <2>1. y \in Context
    BY <1>1, <1>3 DEF Context
  <2>2. y.sess = s /\ y.xsrf = x.xsrf /\ y.orig = x.orig /\ y.cookie = x.cookie
        /\ y.body = x.body /\ y.seen = x.seen /\ y.offered = x.offered /\ y.route = x.route
        /\ y.pc = "save"
    BY <1>1 DEF Context
  <2> HIDE DEF y
  <2>3. y \in OwnContexts(r)
    BY <1>1, <1>2, <2>1, <2>2 DEF OwnContexts
  <2>4. Coherent(y)
    BY <2>2, SentinelsAreNoTokens DEF Coherent
  <2> QED
    BY <1>4, <1>6, <2>2, <2>3, <2>4 DEF y, Passing
<1> QED
  BY <1>5, <1>6

\* A token that a client offers and that matches its session was sent to it.
LEMMA MatchIsGiven ==
    ASSUME OwnershipInv, NEW c \in Client, NEW s \in OwnSessions(c), NEW t \in Offers(c),
           TokensMatch(s, t)
    PROVE  t \in given[c]
<1>1. t # None /\ t \in OwnTokens(c)
  BY DEF TokensMatch, OwnSessions
<1>2. CASE t = xsrf[c] \/ t = page[c]
  BY <1>1, <1>2 DEF OwnershipInv
<1>3. ASSUME NEW d \in Client, t = xsrf[d] PROVE t \in given[c]
  <2>1. t \in given[d] /\ t \in OwnTokens(d)
    BY <1>1, <1>3 DEF OwnershipInv
  <2>2. d = c
    BY <1>1, <2>1 DEF OwnTokens
  <2> QED
    BY <2>1, <2>2
<1> QED
  BY <1>1, <1>2, <1>3 DEF Offers

LEMMA OffersAreTokens ==
    ASSUME OwnershipInv, NEW c \in Client, NEW t \in Offers(c)
    PROVE  t \in Token \cup {None}
BY DEF OwnershipInv, TypeOK, Offers

LEMMA ArriveKeeps ==
    ASSUME OwnershipInv, NEW r \in Request, NEW rt \in Route[ClientOf[r]],
           NEW t \in Offers(ClientOf[r]), Arrive(r, rt, t)
    PROVE  OwnershipInv'
<1> DEFINE c == ClientOf[r]
           s == Load(jar[c], Rand(r, "start"))
           x == [Unborn(r) EXCEPT !.route = rt, !.offered = t, !.sess = s, !.orig = s.id,
                                  !.cookie = IF stateless THEN None ELSE Naming(s.id),
                                  !.pc = AfterCsrf(rt), !.spoiled = Busy(c) # {}]
           y == IF rt.csrf THEN Verified(x, Rand(r, "csrf")) ELSE x
<1>1. c \in Client /\ rt \in RouteType /\ t \in Token \cup {None}
  BY OffersAreTokens
<1>2. s \in OwnSessions(c) /\ s \in Session /\ s.id \in OwnIds(c) /\ s.id \in Id
  <2>1. jar[c] \in OwnCookies(c)
    BY <1>1 DEF OwnershipInv
  <2>2. Rand(r, "start") \in OwnIds(c)
    BY IdIsOwn DEF Minting
  <2>3. s \in OwnSessions(c)
    BY <1>1, <2>1, <2>2, LoadIsOwn
  <2> QED
    BY <1>1, <2>3, OwnSessionsAreSessions DEF OwnSessions, OwnIds
<1>3. (Busy(c) # {}) \in BOOLEAN
  OBVIOUS
<1> HIDE DEF s
<1>4. Unborn(r) \in Context /\ Unborn(r) \in OwnContexts(r)
  BY UnbornIsOwn DEF OwnContexts
<1>5. (IF stateless THEN None ELSE Naming(s.id)) \in OwnCookies(c)
  BY <1>2 DEF OwnCookies
<1>6. (IF stateless THEN None ELSE Naming(s.id)) \in Cookie
  BY <1>1, <1>5, OwnCookiesAreCookies
<1> AfterCsrf(rt) \in {"block", "handle"}
  BY DEF AfterCsrf
<1>7. x \in Context
  BY <1>1, <1>2, <1>3, <1>4, <1>6, ZenonT(30) DEF Context
<1>8. /\ x.route = rt /\ x.offered = t /\ x.sess = s /\ x.orig = s.id
      /\ x.cookie = (IF stateless THEN None ELSE Naming(s.id))
      /\ x.pc \in {"block", "handle"} /\ x.xsrf = None /\ x.body = None
      /\ \A g \in Goroutine : x.seen[g] = None
  BY DEF Unborn, AfterCsrf
<1> HIDE DEF x
<1>9. x \in OwnContexts(r)
  BY <1>1, <1>2, <1>5, <1>7, <1>8, StillOwn
<1>10. Coherent(x)
  BY <1>8, SentinelsAreNoTokens DEF Coherent
<1>11. /\ y \in OwnContexts(r) /\ Coherent(y) /\ y.offered = t /\ y.route = rt
       /\ rt.csrf /\ y.pc \in Passing => rt.safe \/ TokensMatch(s, t)
  <2>1. Rand(r, "csrf") \in OwnTokens(c)
    BY TokenIsOwn
  <2> QED
    BY <1>8, <1>9, <1>10, <2>1, VerifiedIsOwn
<1>12. Entitled(r, y, given)
  BY <1>1, <1>2, <1>11, MatchIsGiven DEF Entitled
<1>13. req' = [q \in Request |-> IF q = r THEN y
                                 ELSE IF q \in Busy(c) THEN [req[q] EXCEPT !.spoiled = TRUE]
                                 ELSE req[q]]
  BY DEF Arrive, x, s
<1> HIDE DEF y
<1>14. ASSUME NEW q \in Request
       PROVE  LET z == [req[q] EXCEPT !.spoiled = TRUE]
              IN z \in OwnContexts(q) /\ Coherent(z) /\ Entitled(q, z, given)
  <2> DEFINE z == [req[q] EXCEPT !.spoiled = TRUE]
  <2>1. req[q] \in Context /\ req[q] \in OwnContexts(q)
    BY ContextNow
  <2>2. z \in Context
    BY <2>1 DEF Context
  <2>3. /\ z.pc = req[q].pc /\ z.route = req[q].route /\ z.offered = req[q].offered
        /\ z.sess = req[q].sess /\ z.orig = req[q].orig /\ z.cookie = req[q].cookie
        /\ z.xsrf = req[q].xsrf /\ z.body = req[q].body /\ z.seen = req[q].seen /\ z.spoiled
    BY <2>1 DEF Context
  <2> HIDE DEF z
  <2>4. z \in OwnContexts(q)
    BY <2>1, <2>2, <2>3 DEF OwnContexts
  <2>5. Coherent(z)
    BY <2>3, ContextNow DEF Coherent
  <2>6. Entitled(q, z, given)
    BY <2>3, ContextNow DEF Entitled
  <2> QED
    BY <2>4, <2>5, <2>6 DEF z
<1>15. given' = given
  BY DEF Arrive, client
<1>16. ASSUME NEW q \in Request
       PROVE  req'[q] \in OwnContexts(q) /\ Coherent(req'[q]) /\ Entitled(q, req'[q], given')
  BY <1>11, <1>12, <1>13, <1>14, <1>15, ContextNow
<1>17. req' \in [Request -> Context]
  BY <1>13, <1>16 DEF OwnContexts
<1>18. /\ stateless' = stateless /\ losses' = losses /\ ended' = ended /\ store' = store
       /\ UNCHANGED client
       /\ (paired' = paired \/ paired' = [paired EXCEPT ![c] = {}])
  BY DEF Arrive
<1>19. /\ stateless' \in BOOLEAN /\ losses' \in 0..MaxLosses /\ ended' \subseteq Request
       /\ paired' \in [Client -> SUBSET {"xsrf", "page"}]
  BY <1>1, <1>18 DEF OwnershipInv, TypeOK
<1> QED
  BY <1>16, <1>17, <1>18, <1>19, ClientsKept, StoreKept DEF OwnershipInv, TypeOK

\* A session that was saved as it is comes back with its ID and token.
LEMMA ReloadFindsSaved ==
    ASSUME NEW x \in Context, NEW id, NEW fresh, fresh = Load(Naming(x.orig), id), ~Unsaved(x)
    PROVE  /\ ~stateless /\ store[x.orig] = x.sess.token
           /\ fresh.id = x.orig /\ fresh.token = x.sess.token
<1>1. ~stateless /\ store[x.orig] = x.sess.token
  BY DEF Unsaved
<1>2. x.sess.token \in Token \cup {None} /\ Naming(x.orig) # None
  BY CookieAssumption DEF Context, Session
<1>3. Naming(x.orig).kind = "id" /\ Naming(x.orig).id = x.orig
  BY DEF Naming
<1>4. Readable(Naming(x.orig))
  BY <1>1, <1>2, <1>3, SentinelAssumption DEF Readable
<1>5. fresh = [id |-> x.orig, token |-> store[x.orig]]
  BY <1>1, <1>3, <1>4 DEF Load
<1> QED
  BY <1>1, <1>5

LEMMA ReloadKeeps ==
    ASSUME OwnershipInv, NEW r \in Request, Reload(r)
    PROVE  OwnershipInv'
<1> DEFINE c == ClientOf[r]
           x == req[r]
           fresh == Load(Naming(x.orig), Rand(r, "reload"))
           cookie == IF fresh.id # x.orig THEN Naming(fresh.id) ELSE x.cookie
           spoiled == x.spoiled \/ Unsaved(x)
           y == [x EXCEPT !.sess = fresh, !.pc = "handle", !.cookie = cookie,
                          !.spoiled = spoiled]
<1>1. /\ c \in Client /\ x \in Context /\ x \in OwnContexts(r) /\ Coherent(x)
      /\ x.pc = "block"
  BY ContextNow DEF Reload
<1>2. fresh \in OwnSessions(c) /\ fresh \in Session /\ fresh.id \in OwnIds(c)
  <2>1. Naming(x.orig) \in OwnCookies(c) /\ Rand(r, "reload") \in OwnIds(c)
    BY <1>1, IdIsOwn DEF OwnContexts, OwnCookies, Minting
  <2>2. fresh \in OwnSessions(c)
    BY <1>1, <2>1, LoadIsOwn
  <2> QED
    BY <1>1, <2>2, OwnSessionsAreSessions DEF OwnSessions
<1>3. Becomes(r, y) /\ UNCHANGED <<client, paired, store, losses>>
  BY DEF Reload
<1> HIDE DEF fresh
<1>0. ~Unsaved(x) => fresh.token = x.sess.token
  <2>1. fresh = Load(Naming(x.orig), Rand(r, "reload"))
    BY DEF fresh
  <2> QED
    BY <1>1, <2>1, ReloadFindsSaved
<1>4. cookie \in OwnCookies(c)
  BY <1>1, <1>2 DEF OwnContexts, OwnCookies
<1>5. cookie \in Cookie /\ spoiled \in BOOLEAN
  BY <1>1, <1>4, OwnCookiesAreCookies DEF Context
<1>6. spoiled \/ (~x.spoiled /\ fresh.token = x.sess.token)
  BY <1>0
<1> HIDE DEF cookie, spoiled
<1>7. y \in Context
  BY <1>1, <1>2, <1>5 DEF Context
<1>8. /\ y.sess = fresh /\ y.pc = "handle" /\ y.cookie = cookie /\ y.spoiled = spoiled
      /\ y.orig = x.orig /\ y.xsrf = x.xsrf /\ y.body = x.body /\ y.seen = x.seen
      /\ y.route = x.route /\ y.offered = x.offered
  BY <1>1 DEF Context
<1> HIDE DEF y
<1>9. y \in OwnContexts(r)
  BY <1>1, <1>2, <1>4, <1>7, <1>8 DEF OwnContexts
<1>10. Coherent(y)
  BY <1>1, <1>6, <1>8, SentinelsAreNoTokens DEF Coherent
<1> QED
  BY <1>1, <1>3, <1>8, <1>9, <1>10, OwnStep DEF Passing

LEMMA HandleKeeps ==
    ASSUME OwnershipInv, NEW r \in Request, Handle(r)
    PROVE  OwnershipInv'
<1> DEFINE c == ClientOf[r]
           x == req[r]
           op == x.route.op
           s == Changed(x.sess, op, Rand(r, "handler"))
           cookie == IF op = "none" THEN x.cookie ELSE Naming(Rand(r, "handler"))
           y == [x EXCEPT !.sess = s, !.cookie = cookie,
                          !.spoiled = x.spoiled \/ op = "invalidate"]
<1>1. /\ c \in Client /\ x \in Context /\ x \in OwnContexts(r) /\ Coherent(x)
      /\ x.route \in RouteType /\ x.pc = "handle"
  BY ContextNow DEF Handle
<1>2. Rand(r, "handler") \in OwnIds(c)
  BY IdIsOwn DEF Minting
<1>3. op \in {"none", "regenerate", "invalidate"}
  BY <1>1 DEF RouteType
<1>4. /\ s \in OwnSessions(c) /\ s \in Session
      /\ op # "invalidate" => s.token = x.sess.token
  BY <1>1, <1>2, <1>3, ChangedIsOwn, OwnSessionsAreSessions DEF OwnContexts
<1>5. cookie \in OwnCookies(c) /\ cookie \in Cookie
  <2>1. cookie \in OwnCookies(c)
    BY <1>1, <1>2 DEF OwnContexts, OwnCookies
  <2> QED
    BY <1>1, <2>1, OwnCookiesAreCookies
<1>6. PICK p \in {"render", "blocksave", "save", "done"}, d \in BOOLEAN, e \in BOOLEAN :
        /\ Becomes(r, [y EXCEPT !.pc = p, !.committed = d, !.spoiled = e])
        /\ e = (y.spoiled \/ p = "done")
        /\ UNCHANGED <<client, paired, store, losses>>
  <2> DEFINE To(p, d, e) == [y EXCEPT !.pc = p, !.committed = d, !.spoiled = e]
  <2>1. y \in Context
    BY <1>1, <1>4, <1>5 DEF Context
  <2> USE <2>1 DEF Context
  <2>2. UNCHANGED <<client, paired, store, losses>>
    BY DEF Handle
  <2>3. \/ Becomes(r, [y EXCEPT !.pc = "render"])
        \/ \E writes \in BOOLEAN :
               Becomes(r, [y EXCEPT !.pc = Saving(x.route), !.committed = writes])
        \/ Becomes(r, [y EXCEPT !.pc = "done", !.committed = TRUE, !.spoiled = TRUE])
    BY DEF Handle
  <2> HIDE DEF y
  <2>4. CASE Becomes(r, [y EXCEPT !.pc = "render"])
    <3>1. [y EXCEPT !.pc = "render"] = To("render", y.committed, y.spoiled)
      OBVIOUS
    <3> QED
      BY <2>2, <2>4, <3>1
  <2>5. ASSUME NEW writes \in BOOLEAN,
               Becomes(r, [y EXCEPT !.pc = Saving(x.route), !.committed = writes])
        PROVE  Becomes(r, To(Saving(x.route), writes, y.spoiled))
    <3>1. [y EXCEPT !.pc = Saving(x.route), !.committed = writes]
          = To(Saving(x.route), writes, y.spoiled)
      OBVIOUS
    <3> QED
      BY <2>5, <3>1
  <2>6. Saving(x.route) \in {"blocksave", "save"}
    BY DEF Saving
  <2>7. CASE Becomes(r, [y EXCEPT !.pc = "done", !.committed = TRUE, !.spoiled = TRUE])
    BY <2>2, <2>7
  <2> QED
    BY <2>2, <2>3, <2>4, <2>5, <2>6, <2>7
<1> DEFINE z == [y EXCEPT !.pc = p, !.committed = d, !.spoiled = e]
<1> HIDE DEF s, cookie
<1>7. z \in Context
  <2>1. y \in Context
    BY <1>1, <1>4, <1>5, ZenonT(30) DEF Context
  <2> HIDE DEF y
  <2> QED
    BY <2>1, ZenonT(30) DEF Context
<1>8. /\ z.sess = s /\ z.pc = p /\ z.cookie = cookie /\ z.spoiled = e
      /\ z.orig = x.orig /\ z.xsrf = x.xsrf /\ z.body = x.body /\ z.seen = x.seen
      /\ z.route = x.route /\ z.offered = x.offered
      /\ y.spoiled = (x.spoiled \/ op = "invalidate")
  BY <1>1 DEF Context
<1>9. Becomes(r, z) /\ UNCHANGED <<client, paired, store, losses>>
  BY <1>6
<1>10. e = (x.spoiled \/ op = "invalidate" \/ p = "done")
  BY <1>6, <1>8
<1> HIDE DEF z
<1>11. z \in OwnContexts(r)
  BY <1>1, <1>4, <1>5, <1>7, <1>8 DEF OwnContexts
<1>12. Coherent(z)
  BY <1>1, <1>4, <1>8, <1>10, SentinelsAreNoTokens DEF Coherent
<1>13. x.pc \in Passing
  BY <1>1 DEF Passing
<1> HIDE DEF s, cookie, y
<1> QED
  BY <1>8, <1>9, <1>11, <1>12, <1>13, OwnStep

LEMMA TokenReadKeeps ==
    ASSUME OwnershipInv, NEW r \in Request, NEW g \in Goroutine, TokenRead(r, g)
    PROVE  OwnershipInv'
<1> DEFINE c == ClientOf[r]
           x == req[r]
           v == IF x.sess.token = None THEN Missed ELSE x.sess.token
           y == [x EXCEPT !.seen[g] = v]
<1>1. /\ c \in Client /\ x \in Context /\ x \in OwnContexts(r) /\ Coherent(x)
      /\ x.pc = "render" /\ Becomes(r, y) /\ UNCHANGED <<client, paired, store, losses>>
  BY ContextNow DEF TokenRead
<1>2. v \in OwnTokens(c) \cup {Missed} /\ (v = Missed \/ v = x.sess.token)
  BY <1>1 DEF OwnContexts, OwnSessions
<1> HIDE DEF v
<1>3. y.seen = [x.seen EXCEPT ![g] = v] /\ x.seen \in [Goroutine -> Token \cup {None, Missed}]
  BY <1>1 DEF Context
<1>4. y \in Context
  BY <1>1, <1>2 DEF Context, OwnTokens
<1>5. /\ y.sess = x.sess /\ y.pc = x.pc /\ y.cookie = x.cookie /\ y.spoiled = x.spoiled
      /\ y.orig = x.orig /\ y.xsrf = x.xsrf /\ y.body = x.body
      /\ y.route = x.route /\ y.offered = x.offered
  BY <1>1 DEF Context
<1>6. \A h \in Goroutine : y.seen[h] = IF h = g THEN v ELSE x.seen[h]
  BY <1>3
<1> HIDE DEF y
<1>7. y \in OwnContexts(r)
  BY <1>1, <1>2, <1>4, <1>5, <1>6 DEF OwnContexts
<1>8. Coherent(y)
  BY <1>1, <1>2, <1>5, <1>6, SentinelsAreNoTokens DEF Coherent
<1> QED
  BY <1>1, <1>5, <1>7, <1>8, OwnStep

LEMMA TokenStoreKeeps ==
    ASSUME OwnershipInv, NEW r \in Request, NEW g \in Goroutine, TokenStore(r, g)
    PROVE  OwnershipInv'
<1> DEFINE c == ClientOf[r]
           x == req[r]
           s == Stored(x.sess, Rand(r, g))
           y == [x EXCEPT !.sess = s, !.seen[g] = s.token]
<1>1. /\ c \in Client /\ x \in Context /\ x \in OwnContexts(r) /\ Coherent(x)
      /\ x.pc = "render" /\ Becomes(r, y) /\ UNCHANGED <<client, paired, store, losses>>
  BY ContextNow DEF TokenStore
<1>2. /\ s \in OwnSessions(c) /\ s \in Session /\ s.token \in OwnTokens(c)
      /\ x.sess.token # None => s.token = x.sess.token
  BY <1>1, TokenIsOwn, WithTokenIsOwn, OwnSessionsAreSessions DEF Stored, OwnContexts
<1> HIDE DEF s
<1>3. y.seen = [x.seen EXCEPT ![g] = s.token]
      /\ x.seen \in [Goroutine -> Token \cup {None, Missed}]
  BY <1>1 DEF Context
<1>4. y \in Context
  BY <1>1, <1>2 DEF Context, OwnTokens
<1>5. /\ y.sess = s /\ y.pc = x.pc /\ y.cookie = x.cookie /\ y.spoiled = x.spoiled
      /\ y.orig = x.orig /\ y.xsrf = x.xsrf /\ y.body = x.body
      /\ y.route = x.route /\ y.offered = x.offered
  BY <1>1 DEF Context
<1>6. \A h \in Goroutine : y.seen[h] = IF h = g THEN s.token ELSE x.seen[h]
  BY <1>3
<1> HIDE DEF y
<1>7. y \in OwnContexts(r)
  BY <1>1, <1>2, <1>4, <1>5, <1>6 DEF OwnContexts
<1>8. Coherent(y)
  BY <1>1, <1>2, <1>5, <1>6, SentinelsAreNoTokens DEF Coherent
<1> QED
  BY <1>1, <1>5, <1>7, <1>8, OwnStep

LEMMA RespondKeeps ==
    ASSUME OwnershipInv, NEW r \in Request, Respond(r)
    PROVE  OwnershipInv'
<1> DEFINE c == ClientOf[r]
           x == req[r]
           y == [x EXCEPT !.body = x.seen["g1"], !.committed = TRUE, !.pc = Saving(x.route)]
<1>1. /\ c \in Client /\ x \in Context /\ x \in OwnContexts(r) /\ Coherent(x)
      /\ x.pc = "render" /\ Becomes(r, y) /\ UNCHANGED <<client, paired, store, losses>>
  BY ContextNow DEF Respond
<1>2. x.seen["g1"] \in OwnTokens(c) \cup {None}
  BY <1>1, SentinelsAreNoTokens DEF Respond, Goroutine, OwnContexts
<1>3. Saving(x.route) \in {"blocksave", "save"}
  BY DEF Saving
<1>4. y \in Context
  BY <1>1, <1>2, <1>3 DEF Context, OwnTokens
<1>5. /\ y.sess = x.sess /\ y.pc = Saving(x.route) /\ y.cookie = x.cookie
      /\ y.spoiled = x.spoiled /\ y.orig = x.orig /\ y.xsrf = x.xsrf
      /\ y.body = x.seen["g1"] /\ y.seen = x.seen
      /\ y.route = x.route /\ y.offered = x.offered
  BY <1>1 DEF Context
<1> HIDE DEF y
<1>6. y \in OwnContexts(r)
  BY <1>1, <1>2, <1>4, <1>5 DEF OwnContexts
<1>7. Coherent(y)
  BY <1>1, <1>3, <1>5 DEF Coherent
<1> QED
  BY <1>1, <1>5, <1>6, <1>7, OwnStep DEF Passing

\* A step that saves, or fails to, ends the handling of the request.
LEMMA SavingKeeps ==
    ASSUME OwnershipInv, NEW r \in Request, NEW k \in OwnCookies(ClientOf[r]),
           NEW e \in {req[r].spoiled, TRUE},
           Becomes(r, [req[r] EXCEPT !.pc = "done", !.cookie = k, !.spoiled = e]),
           UNCHANGED client,
           store' \in [Id -> Token \cup {None, Absent}],
           \A id \in Id : store'[id] \in OwnTokens(Owner(id)) \cup {None, Absent},
           paired' \in [Client -> SUBSET {"xsrf", "page"}],
           losses' \in 0..MaxLosses
    PROVE  OwnershipInv'
<1> DEFINE c == ClientOf[r]
           x == req[r]
           y == [x EXCEPT !.pc = "done", !.cookie = k, !.spoiled = e]
<1>1. c \in Client /\ x \in Context /\ x \in OwnContexts(r) /\ Coherent(x)
  BY ContextNow
<1>2. k \in Cookie /\ e \in BOOLEAN
  BY <1>1, OwnCookiesAreCookies DEF Context
<1>3. y \in Context
  BY <1>1, <1>2 DEF Context
<1>4. /\ y.sess = x.sess /\ y.pc = "done" /\ y.cookie = k /\ y.spoiled = e
      /\ y.orig = x.orig /\ y.xsrf = x.xsrf /\ y.body = x.body /\ y.seen = x.seen
  BY <1>1 DEF Context
<1>5. Becomes(r, y)
  OBVIOUS
<1> HIDE DEF y
<1>6. y \in OwnContexts(r)
  BY <1>1, <1>3, <1>4 DEF OwnContexts
<1>7. Coherent(y)
  BY <1>1, <1>4 DEF Coherent
<1>8. Entitled(r, y, given)
  BY <1>4 DEF Entitled, Passing
<1>9. \A d \in Client : given[d] \subseteq given'[d]
  BY ClientsKept
<1>10. /\ req' \in [Request -> Context] /\ ended' \subseteq Request
       /\ stateless' \in BOOLEAN
       /\ \A q \in Request : req'[q] \in OwnContexts(q) /\ Coherent(req'[q])
                             /\ Entitled(q, req'[q], given')
  BY <1>5, <1>6, <1>7, <1>8, <1>9, RequestsKept
<1> QED
  BY <1>10, ClientsKept DEF OwnershipInv, TypeOK

LEMMA SaveKeeps ==
    ASSUME OwnershipInv, NEW r \in Request, Save(r)
    PROVE  OwnershipInv'
<1> DEFINE c == ClientOf[r]
           x == req[r]
           k == IF stateless /\ x.pc = "save" /\ ~x.committed THEN Sealed(x.sess.token)
                ELSE x.cookie
<1>1. /\ c \in Client /\ x \in Context /\ x.sess \in OwnSessions(c) /\ x \in OwnContexts(r)
  BY ContextNow
<1>2. k \in OwnCookies(c)
  BY <1>1 DEF OwnContexts, OwnCookies, OwnSessions
<1>3. /\ Becomes(r, [x EXCEPT !.pc = "done", !.cookie = k])
      /\ UNCHANGED <<client, paired, losses>>
      /\ store' = IF stateless THEN store ELSE Saved(x)
  BY DEF Save
<1>4. [x EXCEPT !.pc = "done", !.cookie = k]
      = [x EXCEPT !.pc = "done", !.cookie = k, !.spoiled = x.spoiled]
  BY <1>1 DEF Context
<1>5. store \in [Id -> Token \cup {None, Absent}]
      /\ \A id \in Id : store[id] \in OwnTokens(Owner(id)) \cup {None, Absent}
  BY DEF OwnershipInv, TypeOK
<1>6. x.sess.token \in OwnTokens(Owner(x.sess.id)) \cup {None}
  BY <1>1 DEF OwnSessions, OwnIds
<1>7. \A id \in Id : Saved(x)[id] \in OwnTokens(Owner(id)) \cup {None, Absent}
  BY <1>5, <1>6 DEF Saved
<1>8. Saved(x) \in [Id -> Token \cup {None, Absent}]
  BY <1>7 DEF Saved, OwnTokens
<1>9. /\ store' \in [Id -> Token \cup {None, Absent}]
      /\ \A id \in Id : store'[id] \in OwnTokens(Owner(id)) \cup {None, Absent}
  BY <1>3, <1>5, <1>7, <1>8
<1>10. paired' \in [Client -> SUBSET {"xsrf", "page"}] /\ losses' \in 0..MaxLosses
  BY <1>3 DEF OwnershipInv, TypeOK
<1> HIDE DEF k
<1> QED
  BY <1>2, <1>3, <1>4, <1>9, <1>10, SavingKeeps

LEMMA SaveFailsKeeps ==
    ASSUME OwnershipInv, NEW r \in Request, SaveFails(r)
    PROVE  OwnershipInv'
<1> DEFINE c == ClientOf[r]
           x == req[r]
<1>1. c \in Client /\ x \in Context /\ x \in OwnContexts(r) /\ x.cookie \in OwnCookies(c)
  BY ContextNow DEF OwnContexts
<1>2. [x EXCEPT !.pc = "done", !.spoiled = TRUE]
      = [x EXCEPT !.pc = "done", !.cookie = x.cookie, !.spoiled = TRUE]
  BY <1>1 DEF Context
<1>3. /\ Becomes(r, [x EXCEPT !.pc = "done", !.spoiled = TRUE])
      /\ UNCHANGED client /\ losses < MaxLosses /\ losses' = losses + 1
      /\ paired' = [paired EXCEPT ![c] = {}]
      /\ store' = store \/ store' = [store EXCEPT ![x.orig] = Absent]
  BY DEF SaveFails
<1>4. store \in [Id -> Token \cup {None, Absent}]
      /\ \A id \in Id : store[id] \in OwnTokens(Owner(id)) \cup {None, Absent}
  BY DEF OwnershipInv, TypeOK
<1>5. /\ store' \in [Id -> Token \cup {None, Absent}]
      /\ \A id \in Id : store'[id] \in OwnTokens(Owner(id)) \cup {None, Absent}
  BY <1>3, <1>4
<1>6. paired' \in [Client -> SUBSET {"xsrf", "page"}] /\ losses' \in 0..MaxLosses
  BY <1>1, <1>3 DEF OwnershipInv, TypeOK
<1> QED
  BY <1>1, <1>2, <1>3, <1>5, <1>6, SavingKeeps

\* Receiving, or giving up, changes nothing of what the server works with.
LEMMA Received ==
    ASSUME OwnershipInv, NEW r \in Request
    PROVE  LET y == [req[r] EXCEPT !.received = TRUE] IN
           /\ y \in OwnContexts(r) /\ Coherent(y) /\ Entitled(r, y, given)
           /\ y.route = req[r].route /\ y.offered = req[r].offered /\ y.pc = req[r].pc
<1> DEFINE x == req[r]
           y == [x EXCEPT !.received = TRUE]
<1>1. x \in Context /\ x \in OwnContexts(r) /\ Coherent(x) /\ Entitled(r, x, given)
  BY ContextNow
<1>2. y \in Context
  BY <1>1 DEF Context
<1>3. /\ y.sess = x.sess /\ y.pc = x.pc /\ y.cookie = x.cookie /\ y.spoiled = x.spoiled
      /\ y.orig = x.orig /\ y.xsrf = x.xsrf /\ y.body = x.body /\ y.seen = x.seen
      /\ y.route = x.route /\ y.offered = x.offered
  BY <1>1 DEF Context
<1> HIDE DEF y
<1>4. y \in OwnContexts(r)
  BY <1>1, <1>2, <1>3 DEF OwnContexts
<1>5. Coherent(y) /\ Entitled(r, y, given)
  BY <1>1, <1>3 DEF Coherent, Entitled
<1> QED
  BY <1>3, <1>4, <1>5 DEF y

LEMMA GiveUpKeeps ==
    ASSUME OwnershipInv, NEW r \in Request, GiveUp(r)
    PROVE  OwnershipInv'
BY Received, OwnStep DEF GiveUp

LEMMA ReceiveKeeps ==
    ASSUME OwnershipInv, NEW r \in Request, Receive(r)
    PROVE  OwnershipInv'
<1> DEFINE c == ClientOf[r]
           x == req[r]
           y == [x EXCEPT !.received = TRUE]
           sent == {x.xsrf, x.body} \ {None}
<1>1. c \in Client /\ x \in OwnContexts(r)
  BY ContextNow
<1>2. /\ x.cookie \in OwnCookies(c) /\ x.xsrf \in OwnTokens(c) \cup {None}
      /\ x.body \in OwnTokens(c) \cup {None} /\ sent \subseteq OwnTokens(c)
  BY <1>1 DEF OwnContexts
<1>3. /\ Becomes(r, y) /\ store' = store /\ losses' = losses
      /\ jar' = [jar EXCEPT ![c] = Newer(x.cookie, jar[c])]
      /\ xsrf' = [xsrf EXCEPT ![c] = Newer(x.xsrf, xsrf[c])]
      /\ page' = [page EXCEPT ![c] = Newer(x.body, page[c])]
      /\ given' = [given EXCEPT ![c] = given[c] \cup sent]
  BY DEF Receive
<1>4. paired' \in [Client -> SUBSET {"xsrf", "page"}]
  <2>1. paired \in [Client -> SUBSET {"xsrf", "page"}]
    BY DEF OwnershipInv, TypeOK
  <2>2. PICK p \in SUBSET {"xsrf", "page"} :
            paired' = [paired EXCEPT ![c] = IF x.spoiled THEN {} ELSE paired[c] \cup p]
    <3> DEFINE promised == IF stateless /\ x.committed THEN {}
                           ELSE {k \in {"xsrf", "page"} : IF k = "xsrf" THEN x.xsrf # None
                                                          ELSE x.body # None}
    <3>1. promised \in SUBSET {"xsrf", "page"}
      OBVIOUS
    <3>2. paired' = [paired EXCEPT ![c] = IF x.spoiled THEN {} ELSE paired[c] \cup promised]
      BY DEF Receive
    <3> QED
      BY <3>1, <3>2
  <2> QED
    BY <1>1, <2>1, <2>2
<1>5. /\ jar \in [Client -> Cookie] /\ xsrf \in [Client -> Token \cup {None}]
      /\ page \in [Client -> Token \cup {None}] /\ given \in [Client -> SUBSET Token]
      /\ \A d \in Client : /\ jar[d] \in OwnCookies(d)
                           /\ given[d] \subseteq OwnTokens(d)
                           /\ xsrf[d] \in given[d] \cup {None}
                           /\ page[d] \in given[d] \cup {None}
  BY DEF OwnershipInv, TypeOK
<1>6. \A d \in Client : given[d] \subseteq given'[d]
  BY <1>1, <1>3, <1>5
<1>7. y \in OwnContexts(r) /\ Coherent(y) /\ Entitled(r, y, given)
  BY Received
<1> HIDE DEF y, sent
<1>8. /\ req' \in [Request -> Context] /\ ended' \subseteq Request /\ stateless' \in BOOLEAN
      /\ \A q \in Request : req'[q] \in OwnContexts(q) /\ Coherent(req'[q])
                            /\ Entitled(q, req'[q], given')
  BY <1>3, <1>6, <1>7, RequestsKept
<1>9. /\ Newer(x.cookie, jar[c]) \in OwnCookies(c)
      /\ Newer(x.xsrf, xsrf[c]) \in given[c] \cup sent \cup {None}
      /\ Newer(x.body, page[c]) \in given[c] \cup sent \cup {None}
  BY <1>1, <1>2, <1>5 DEF Newer, sent
<1>10. \A d \in Client : /\ jar'[d] \in OwnCookies(d)
                         /\ given'[d] \subseteq OwnTokens(d)
                         /\ xsrf'[d] \in given'[d] \cup {None}
                         /\ page'[d] \in given'[d] \cup {None}
  BY <1>1, <1>2, <1>3, <1>5, <1>9
<1>11. \A d \in Client : /\ jar'[d] \in Cookie
                         /\ given'[d] \in SUBSET Token
                         /\ xsrf'[d] \in Token \cup {None}
                         /\ page'[d] \in Token \cup {None}
  BY <1>10, OwnCookiesAreCookies DEF OwnTokens
<1>12. /\ jar' \in [Client -> Cookie] /\ xsrf' \in [Client -> Token \cup {None}]
       /\ page' \in [Client -> Token \cup {None}] /\ given' \in [Client -> SUBSET Token]
  BY <1>3, <1>5, <1>11
<1>13. losses' \in 0..MaxLosses
  BY <1>3 DEF OwnershipInv, TypeOK
<1> QED
  BY <1>3, <1>4, <1>8, <1>10, <1>12, <1>13, StoreKept DEF OwnershipInv, TypeOK

LEMMA LoseKeeps ==
    ASSUME OwnershipInv, NEW id \in Id, Lose(id)
    PROVE  OwnershipInv'
<1>1. /\ store' = [store EXCEPT ![id] = Absent] /\ losses < MaxLosses
      /\ losses' = losses + 1
      /\ UNCHANGED <<stateless, req, client, paired, ended>>
  BY DEF Lose
<1>2. /\ store' \in [Id -> Token \cup {None, Absent}]
      /\ \A i \in Id : store'[i] \in OwnTokens(Owner(i)) \cup {None, Absent}
  BY <1>1 DEF OwnershipInv, TypeOK
<1>3. /\ req' \in [Request -> Context] /\ ended' \subseteq Request /\ stateless' \in BOOLEAN
      /\ paired' \in [Client -> SUBSET {"xsrf", "page"}] /\ losses' \in 0..MaxLosses
  BY <1>1 DEF OwnershipInv, TypeOK
<1>4. given' = given
  BY <1>1 DEF client
<1>5. \A q \in Request : req'[q] \in OwnContexts(q) /\ Coherent(req'[q])
                         /\ Entitled(q, req'[q], given')
  BY <1>1, <1>4, ContextNow
<1> QED
  BY <1>1, <1>2, <1>3, <1>5, ClientsKept DEF OwnershipInv, TypeOK

----------------------------------------------------------------------------
(* The invariant and its consequences *)

LEMMA OwnershipInit == Init => OwnershipInv
<1> SUFFICES ASSUME Init PROVE OwnershipInv
  OBVIOUS
<1>1. PICK known \in SUBSET Client :
        /\ jar = [c \in Client |-> IF c \notin known THEN None
                                   ELSE IF stateless THEN Sealed(None) ELSE Naming(Prior(c))]
        /\ store = [id \in Id |-> IF ~stateless /\ id \in {Prior(c) : c \in known}
                                  THEN None ELSE Absent]
  BY DEF Init
<1>2. \A c \in Client : jar[c] \in OwnCookies(c)
  BY <1>1, PriorIsOwn DEF OwnCookies
<1>3. jar \in [Client -> Cookie]
  BY <1>1, <1>2, OwnCookiesAreCookies
<1>4. store \in [Id -> Token \cup {None, Absent}]
      /\ \A id \in Id : store[id] \in OwnTokens(Owner(id)) \cup {None, Absent}
  BY <1>1
<1>5. req = [r \in Request |-> Unborn(r)]
  BY DEF Init
<1>6. \A r \in Request : req[r] \in OwnContexts(r) /\ Coherent(req[r])
                         /\ Entitled(r, req[r], given)
  BY <1>5, UnbornIsOwn DEF Entitled
<1>7. req \in [Request -> Context]
  BY <1>5, UnbornIsOwn DEF OwnContexts
<1>8. /\ stateless \in BOOLEAN /\ xsrf = [c \in Client |-> None]
      /\ page = [c \in Client |-> None] /\ given = [c \in Client |-> {}]
      /\ paired = [c \in Client |-> {}] /\ ended = {} /\ losses = 0
  BY DEF Init
<1>9. /\ xsrf \in [Client -> Token \cup {None}] /\ page \in [Client -> Token \cup {None}]
      /\ given \in [Client -> SUBSET Token]
      /\ paired \in [Client -> SUBSET {"xsrf", "page"}]
  BY <1>8
<1>10. ended \subseteq Request /\ losses \in 0..MaxLosses
  BY <1>8
<1>11. \A c \in Client : xsrf[c] = None /\ page[c] = None /\ given[c] = {}
  BY <1>8
<1>12. TypeOK
  BY <1>3, <1>4, <1>7, <1>8, <1>9, <1>10 DEF TypeOK
<1> QED
  BY <1>2, <1>4, <1>6, <1>11, <1>12 DEF OwnershipInv

LEMMA OwnershipStep == OwnershipInv /\ [Next]_vars => OwnershipInv'
<1> SUFFICES ASSUME OwnershipInv, [Next]_vars PROVE OwnershipInv'
  OBVIOUS
<1>1. ASSUME NEW r \in Request, NEW rt \in Route[ClientOf[r]], NEW t \in Offers(ClientOf[r]),
             Arrive(r, rt, t)
      PROVE  OwnershipInv'
  BY <1>1, ArriveKeeps
<1>2. ASSUME NEW r \in Request,
             \/ Reload(r) \/ Handle(r) \/ Respond(r)
             \/ Save(r) \/ SaveFails(r) \/ Receive(r) \/ GiveUp(r)
      PROVE  OwnershipInv'
  BY <1>2, ReloadKeeps, HandleKeeps, RespondKeeps, SaveKeeps, SaveFailsKeeps, ReceiveKeeps,
     GiveUpKeeps
<1>3. ASSUME NEW r \in Request, NEW g \in Goroutine, TokenRead(r, g) \/ TokenStore(r, g)
      PROVE  OwnershipInv'
  BY <1>3, TokenReadKeeps, TokenStoreKeeps
<1>4. ASSUME NEW id \in Id, Lose(id) PROVE OwnershipInv'
  BY <1>4, LoseKeeps
<1>5. CASE UNCHANGED vars
  <2>1. UNCHANGED <<stateless, req, jar, xsrf, page, store, given, paired, ended, losses>>
    BY <1>5 DEF vars
  <2>2. /\ TypeOK'
        /\ \A r \in Request : req'[r] \in OwnContexts(r) /\ Coherent(req'[r])
                              /\ Entitled(r, req'[r], given')
    BY <2>1, ContextNow DEF OwnershipInv, TypeOK
  <2> QED
    BY <2>1, <2>2, ClientsKept, StoreKept DEF OwnershipInv, client
<1> QED
  BY <1>1, <1>2, <1>3, <1>4, <1>5 DEF Next

\* Every ID, cookie, record and token stays with the client for which it was
\* generated, and the variables keep their types.
THEOREM OwnershipHolds == Spec => []OwnershipInv
BY OwnershipInit, OwnershipStep, PTL DEF Spec

\* The handler of a route that checks tokens runs only for a token that the
\* server has sent to that client (VerifyCsrfToken.Handle), for every number of
\* clients and requests, both drivers, and any losses of records.
THEOREM HandledWithOwnToken == Spec => []OnlyWithOwnToken
<1>1. OwnershipInv => OnlyWithOwnToken
  BY DEF OwnershipInv, OnlyWithOwnToken, Entitled, Passing
<1> QED
  BY <1>1, OwnershipHolds, PTL

\* The goroutines of one request are given one token (Session.Token), and the
\* cookie names it.
THEOREM OneTokenPerRequest == Spec => []TokensAgree
<1>1. OwnershipInv => TokensAgree
  <2> SUFFICES ASSUME OwnershipInv, NEW r \in Request, NEW g \in Goroutine,
                      req[r].seen[g] \in Token
               PROVE  /\ req[r].seen[g] = req[r].sess.token
                      /\ req[r].spoiled \/ req[r].xsrf \in {None, req[r].seen[g]}
    BY DEF TokensAgree
  <2> QED
    BY ContextNow DEF Coherent
<1> QED
  BY <1>1, OwnershipHolds, PTL

----------------------------------------------------------------------------
(* The round trip of a token *)

\* What a client holds in XSRF-TOKEN, and in its page.
Held(c, k) == IF k = "xsrf" THEN xsrf[c] ELSE page[c]

\* What the client is due to hold is the token t.
Matches(c, t) == \A k \in paired[c] : Held(c, k) = t /\ t # None

\* The client holds the token of the session that its cookie stands for.
Settled(c) ==
    \A t \in Token \cup {None} :
        /\ stateless /\ jar[c] = Sealed(t) => Matches(c, t)
        /\ \A id \in Id : ~stateless /\ jar[c] = Naming(id) /\ store[id] = t => Matches(c, t)

\* IDs that have been generated: a reload or a handler to come makes another one.
Begun(r) == r \in ended \/ req[r].pc # "idle"
Old(id) == \A r \in Request : id \in {Rand(r, "reload"), Rand(r, "handler")} => Begun(r)

\* The only request of a client whose cookies are promised anything: its session
\* has the token, and either the client still has the cookie it sent, or it has
\* the one that the response brought and the session is yet to be saved.
InFlight(c, x) ==
    /\ ~x.spoiled \/ x.sess.id = x.orig => Matches(c, x.sess.token)
    /\ \/ Settled(c) /\ (stateless \/ jar[c] = Naming(x.orig))
       \/ ~stateless /\ ~x.spoiled /\ x.received /\ jar[c] = Naming(x.sess.id)

\* What a request queues at each point of its chain, and what it has saved.
QueuesItsSession(x) ==
    /\ ~stateless => x.cookie = Naming(x.sess.id)
    /\ stateless /\ (x.committed \/ x.pc # "done") => \A t \in Token \cup {None} : x.cookie # Sealed(t)
    /\ stateless /\ ~x.committed /\ x.pc = "done" /\ ~x.spoiled
           => x.cookie = Sealed(x.sess.token)
    /\ ~stateless /\ x.pc = "done" /\ ~x.spoiled
           => store[x.sess.id] \in {x.sess.token, Absent}

InOrder(x) ==
    /\ x.pc \in {"block", "handle", "render"} => ~x.committed /\ ~x.received
    /\ x.pc = "block" => x.sess.id = x.orig
    /\ x.body \in {None, x.seen["g1"]}
    /\ x.pc = "blocksave" => x.route.blocked
    /\ stateless /\ x.route.blocked /\ x.pc \in {"handle", "render", "blocksave"} => x.spoiled

FreshIds(r, x) ==
    /\ x.orig \notin {Rand(r, "reload"), Rand(r, "handler")}
    /\ Old(x.sess.id) /\ Old(x.orig)
    /\ \A id \in Id : x.cookie = Naming(id) => Old(id)

Shape(r, x) == QueuesItsSession(x) /\ InOrder(x) /\ FreshIds(r, x)

RequestInv(c, r, x) ==
    /\ x.pc = "idle" => ~x.committed
    /\ x.pc # "idle" =>
        /\ Shape(r, x)
        /\ ~x.spoiled => Busy(c) = {r}
        /\ paired[c] # {} => Busy(c) = {r} /\ InFlight(c, x)

ClientInv(c) ==
    /\ \A id \in Id : jar[c] = Naming(id) => Old(id)
    /\ Busy(c) = {} => Settled(c)
    /\ \A r \in Request, x \in Context :
           ClientOf[r] = c /\ req[r] = x => RequestInv(c, r, x)

RoundTripInv == \A c \in Client : ClientInv(c)

\* An ID that has been generated stays so.
LEMMA OldStays ==
    ASSUME \A r \in Request : Begun(r) => Begun(r)'
    PROVE  \A id : Old(id) => Old(id)'
BY DEF Old, Rand

\* A session cookie names an ID or is sealed, never both.
LEMMA Cookies ==
    /\ \A i, j : Naming(i) = Naming(j) => i = j
    /\ \A i, j : Sealed(i) = Sealed(j) => i = j
    /\ \A i, j : Naming(i) # Sealed(j)
    /\ \A i \in Id : Naming(i) # None
    /\ \A t \in Token \cup {None} : Sealed(t) # None
<1>1. \A i, j : Naming(i) = Naming(j) => i = j
  BY DEF Naming
<1>2. \A i, j : Sealed(i) = Sealed(j) => i = j
  BY DEF Sealed
<1>3. \A i, j : Naming(i) # Sealed(j)
  <2>1. \A i : Naming(i).kind = "id"
    BY DEF Naming
  <2>2. \A i : Sealed(i).kind = "sealed"
    BY DEF Sealed
  <2> QED
    BY <2>1, <2>2
<1> QED
  BY <1>1, <1>2, <1>3, CookieAssumption

\* Nothing that other clients do disturbs a client, nor does the loss of a record.
LEMMA UndisturbedClient ==
    ASSUME OwnershipInv, NEW c \in Client, ClientInv(c),
           \A r \in Request : Begun(r) => Begun(r)',
           stateless' = stateless,
           jar'[c] = jar[c], xsrf'[c] = xsrf[c], page'[c] = page[c], paired'[c] = paired[c],
           \A r \in Request : ClientOf[r] = c => req'[r] = req[r],
           \A id \in OwnIds(c) : store'[id] \in {store[id], Absent}
    PROVE  ClientInv(c)'
<1>1. Busy(c)' = Busy(c)
  BY DEF Busy
<1>2. ASSUME NEW t PROVE Matches(c, t)' <=> Matches(c, t)
  BY DEF Matches, Held
<1>3. \A id : Old(id) => Old(id)'
  BY OldStays
<1>4. \A id \in Id : jar[c] = Naming(id) => id \in OwnIds(c)
  <2>1. jar[c] \in OwnCookies(c)
    BY DEF OwnershipInv
  <2> QED
    BY <2>1, Cookies DEF OwnCookies, OwnIds
<1>5. Settled(c) => Settled(c)'
  <2> SUFFICES ASSUME Settled(c), NEW t \in Token \cup {None}
               PROVE  /\ stateless /\ jar[c] = Sealed(t) => Matches(c, t)'
                      /\ \A id \in Id : ~stateless /\ jar[c] = Naming(id) /\ store'[id] = t
                                            => Matches(c, t)'
    BY DEF Settled
  <2>1. ASSUME stateless, jar[c] = Sealed(t) PROVE Matches(c, t)'
    BY <1>2, <2>1 DEF Settled
  <2>2. ASSUME NEW id \in Id, ~stateless, jar[c] = Naming(id), store'[id] = t
        PROVE  Matches(c, t)'
    <3>1. store[id] = t
      BY <1>4, <2>2, SentinelAssumption, SentinelsAreNoTokens
    <3> QED
      BY <1>2, <2>2, <3>1 DEF Settled
  <2> QED
    BY <2>1, <2>2
<1>6. ASSUME NEW x PROVE InFlight(c, x) => InFlight(c, x)'
  BY <1>2, <1>5 DEF InFlight
<1>7. ASSUME NEW r \in Request, NEW x \in Context, ClientOf[r] = c, req'[r] = x, x.pc # "idle"
      PROVE  RequestInv(c, r, x)'
  <2>1. req[r] = x /\ RequestInv(c, r, x)
    BY <1>7 DEF ClientInv
  <2>2. x.sess.id \in OwnIds(c)
    BY <1>7, <2>1, ContextNow DEF OwnSessions
  <2>3. FreshIds(r, x)'
    BY <1>3, <1>7, <2>1 DEF RequestInv, Shape, FreshIds
  <2>4. QueuesItsSession(x)'
    BY <1>7, <2>1, <2>2 DEF RequestInv, Shape, QueuesItsSession
  <2>5. InOrder(x)'
    BY <1>7, <2>1 DEF RequestInv, Shape, InOrder
  <2> QED
    BY <1>1, <1>6, <1>7, <2>1, <2>3, <2>4, <2>5 DEF RequestInv, Shape
<1>8. ASSUME NEW r \in Request, NEW x \in Context, ClientOf[r] = c, req'[r] = x
      PROVE  RequestInv(c, r, x)'
  <2>1. x.pc = "idle" => ~x.committed
    BY <1>8 DEF ClientInv, RequestInv
  <2> QED
    BY <1>7, <1>8, <2>1 DEF RequestInv
<1> QED
  BY <1>1, <1>3, <1>5, <1>8 DEF ClientInv

\* The Context of a request, and what the invariant says of it.
LEMMA RequestNow ==
    ASSUME OwnershipInv, RoundTripInv, NEW r \in Request, req[r].pc # "idle"
    PROVE  /\ req[r] \in Context /\ ClientOf[r] \in Client
           /\ RequestInv(ClientOf[r], r, req[r])
           /\ req[r].sess.id \in OwnIds(ClientOf[r]) /\ req[r].sess.id \in Id
           /\ req[r].orig \in OwnIds(ClientOf[r]) /\ req[r].orig \in Id
           /\ req[r].sess.token \in Token \cup {None}
           /\ req[r].xsrf \in Token \cup {None} /\ req[r].body \in Token \cup {None}
           /\ r \in Busy(ClientOf[r])
<1>1. req[r] \in Context /\ req[r] \in OwnContexts(r) /\ ClientOf[r] \in Client
      /\ req[r].sess \in OwnSessions(ClientOf[r])
  BY ContextNow
<1>2. RequestInv(ClientOf[r], r, req[r])
  BY <1>1 DEF RoundTripInv, ClientInv
<1> QED
  BY <1>1, <1>2 DEF OwnContexts, OwnSessions, OwnIds, Context, Session, Busy

\* A response comes from a request in its chain.
LEMMA AnsweredIsBusy ==
    ASSUME OwnershipInv, RoundTripInv, NEW r \in Request, req[r].committed \/ req[r].pc = "done"
    PROVE  req[r].pc # "idle"
<1>1. req[r] \in Context /\ ClientOf[r] \in Client
  BY ContextNow
<1> QED
  BY <1>1 DEF RoundTripInv, ClientInv, RequestInv

\* A step of a request, at any place of its chain.
LEMMA Moves ==
    ASSUME OwnershipInv, RoundTripInv, NEW r \in Request, req[r].pc # "idle",
           NEW y \in Context, Becomes(r, y), y.pc # "idle",
           \A d \in Client \ {ClientOf[r]} :
               /\ jar'[d] = jar[d] /\ xsrf'[d] = xsrf[d]
               /\ page'[d] = page[d] /\ paired'[d] = paired[d],
           \A id \in Id : id \in OwnIds(ClientOf[r]) \/ store'[id] = store[id],
           ~y.spoiled => ~req[r].spoiled,
           Shape(r, y)',
           \A id \in Id : jar'[ClientOf[r]] = Naming(id) => Old(id),
           paired'[ClientOf[r]] # {} =>
               /\ Busy(ClientOf[r]) = {r}
               /\ InFlight(ClientOf[r], y)'
               /\ y.pc = "done" /\ y.received => Settled(ClientOf[r])'
    PROVE  RoundTripInv'
<1> DEFINE c == ClientOf[r]
           over == y.pc = "done" /\ y.received
<1>1. c \in Client
  BY RequestNow
<1>2. /\ req' = [req EXCEPT ![r] = IF over THEN Unborn(r) ELSE y] /\ stateless' = stateless
      /\ ended' = IF over THEN ended \cup {r} ELSE ended
      /\ req \in [Request -> Context]
  BY DEF Becomes, OwnershipInv, TypeOK
<1>3. /\ \A q \in Request \ {r} : req'[q] = req[q]
      /\ over => req'[r] = Unborn(r) /\ r \in ended'
      /\ ~over => req'[r] = y
  BY <1>2
<1>4. \A q \in Request : Begun(q) => Begun(q)'
  BY <1>2, <1>3 DEF Begun
<1>5. \A id : Old(id) => Old(id)'
  BY <1>4, OldStays
<1>6. ASSUME NEW d \in Client, d # c PROVE ClientInv(d)'
  <2>1. \A q \in Request : ClientOf[q] = d => req'[q] = req[q]
    BY <1>3, <1>6
  <2>2. \A id \in OwnIds(d) : store'[id] \in {store[id], Absent}
    BY <1>6 DEF OwnIds
  <2>3. ClientInv(d)
    BY <1>6 DEF RoundTripInv
  <2> QED
    BY <1>2, <1>4, <1>6, <2>1, <2>2, <2>3, UndisturbedClient
<1>7. /\ over => Busy(c)' = Busy(c) \ {r}
      /\ ~over => Busy(c)' = Busy(c)
  BY <1>3 DEF Busy, Unborn
<1>8. Busy(c)' = {} => Settled(c)'
  <2> SUFFICES ASSUME Busy(c)' = {}, paired'[c] # {} PROVE Settled(c)'
    BY DEF Settled, Matches
  <2>1. over
    BY <1>3, <1>7 DEF Busy
  <2> QED
    BY <2>1
<1>9. ASSUME NEW q \in Request, NEW x \in Context, ClientOf[q] = c, req'[q] = x, x.pc # "idle"
      PROVE  RequestInv(c, q, x)'
  <2>1. CASE q = r
    <3>1. ~over /\ x = y
      BY <1>3, <1>9, <2>1 DEF Unborn
    <3>2. ~x.spoiled => Busy(c) = {r}
      BY <3>1, RequestNow DEF RequestInv
    <3> QED
      BY <1>7, <2>1, <3>1, <3>2 DEF RequestInv
  <2>2. CASE q # r
    <3>1. req[q] = x /\ q \in Busy(c) /\ r \in Busy(c)
      BY <1>3, <1>9, <2>2, RequestNow
    <3>2. RequestInv(c, q, x)
      BY <1>9, <3>1, RequestNow
    <3>3. Busy(c) # {q} /\ Busy(c) # {r}
      BY <2>2, <3>1
    <3>4. x.spoiled
      BY <1>9, <3>2, <3>3 DEF RequestInv
    <3>5. paired'[c] = {}
      BY <3>3
    <3>6. Shape(q, x)'
      BY <1>2, <1>5, <1>9, <3>2, <3>4
         DEF RequestInv, Shape, QueuesItsSession, InOrder, FreshIds
    <3> QED
      BY <1>9, <3>4, <3>5, <3>6 DEF RequestInv
  <2> QED
    BY <2>1, <2>2
<1>10. ASSUME NEW q \in Request, NEW x \in Context, ClientOf[q] = c, req'[q] = x
       PROVE  RequestInv(c, q, x)'
  <2>1. x.pc = "idle" => ~x.committed
    <3>1. CASE q = r
      BY <1>3, <1>10, <3>1 DEF Unborn
    <3>2. CASE q # r
      <4>1. req[q] = x
        BY <1>3, <1>10, <3>2
      <4> QED
        BY <1>1, <1>10, <4>1 DEF RoundTripInv, ClientInv, RequestInv
    <3> QED
      BY <3>1, <3>2
  <2> QED
    BY <1>9, <1>10, <2>1 DEF RequestInv
<1>11. ClientInv(c)'
  BY <1>5, <1>8, <1>10 DEF ClientInv
<1> QED
  BY <1>6, <1>11 DEF RoundTripInv

\* A step of a request that is still to be answered, and changes its Context only.
LEMMA Works ==
    ASSUME OwnershipInv, RoundTripInv, NEW r \in Request, req[r].pc # "idle",
           ~req[r].received,
           NEW y \in Context, Becomes(r, y), y.pc # "idle", y.orig = req[r].orig,
           UNCHANGED <<client, paired, store, losses>>,
           ~y.spoiled => ~req[r].spoiled,
           Shape(r, y),
           paired[ClientOf[r]] # {} /\ InFlight(ClientOf[r], req[r])
                                    /\ (~y.spoiled \/ y.sess.id = y.orig)
               => Matches(ClientOf[r], y.sess.token)
    PROVE  RoundTripInv'
<1> DEFINE c == ClientOf[r]
<1>1. /\ c \in Client /\ RequestInv(c, r, req[r]) /\ stateless' = stateless
      /\ jar' = jar /\ xsrf' = xsrf /\ page' = page /\ paired' = paired /\ store' = store
  BY RequestNow DEF client, Becomes
<1>2. \A q \in Request : Begun(q) => Begun(q)'
  BY DEF Begun, Becomes, OwnershipInv, TypeOK
<1>3. Shape(r, y)'
  BY <1>1, <1>2, OldStays DEF Shape, QueuesItsSession, InOrder, FreshIds
<1>4. \A t : Matches(c, t)' <=> Matches(c, t)
  BY <1>1 DEF Matches, Held
<1>5. Settled(c)' <=> Settled(c)
  BY <1>1, <1>4 DEF Settled
<1>6. ASSUME paired'[c] # {}
      PROVE  Busy(c) = {r} /\ InFlight(c, y)' /\ Settled(c)'
  <2>1. Busy(c) = {r} /\ InFlight(c, req[r])
    BY <1>1, <1>6 DEF RequestInv
  <2>2. Settled(c) /\ (stateless \/ jar[c] = Naming(y.orig))
    BY <2>1 DEF InFlight
  <2>3. ~y.spoiled \/ y.sess.id = y.orig => Matches(c, y.sess.token)
    BY <1>1, <1>6, <2>1
  <2> QED
    BY <1>1, <1>4, <1>5, <2>1, <2>2, <2>3 DEF InFlight
<1>7. \A id \in Id : jar'[c] = Naming(id) => Old(id)
  BY <1>1 DEF RoundTripInv, ClientInv
<1> QED
  BY <1>1, <1>3, <1>6, <1>7, Moves

LEMMA ReloadInTrip ==
    ASSUME OwnershipInv, RoundTripInv, NEW r \in Request, Reload(r)
    PROVE  RoundTripInv'
<1> DEFINE c == ClientOf[r]
           x == req[r]
<1>1. x.pc = "block" /\ UNCHANGED <<client, paired, store, losses>>
  BY DEF Reload
<1>2. /\ x \in Context /\ c \in Client /\ Shape(r, x) /\ x.orig \in Id
      /\ x.sess.id = x.orig /\ ~x.received
  BY <1>1, RequestNow DEF RequestInv, Shape, InOrder
<1>3. PICK fresh : fresh = Load(Naming(x.orig), Rand(r, "reload"))
  OBVIOUS
<1>4. fresh \in OwnSessions(c) /\ fresh \in Session
  <2>1. Naming(x.orig) \in OwnCookies(c) /\ Rand(r, "reload") \in OwnIds(c)
    BY <1>1, RequestNow, IdIsOwn DEF OwnCookies, Minting
  <2> QED
    BY <1>2, <1>3, <2>1, LoadIsOwn, OwnSessionsAreSessions
<1>5. \/ fresh.id = Rand(r, "reload")
      \/ ~stateless /\ fresh.id = x.orig /\ fresh.token = store[x.orig]
  BY <1>3 DEF Load, Readable, Naming
<1>6. PICK y : y = [x EXCEPT !.sess = fresh, !.pc = "handle",
                       !.cookie = IF fresh.id # x.orig THEN Naming(fresh.id) ELSE @,
                       !.spoiled = @ \/ Unsaved(x)]
  OBVIOUS
<1>7. Becomes(r, y)
  BY <1>3, <1>6 DEF Reload
<1>8. /\ y.sess = fresh /\ y.pc = "handle"
      /\ y.cookie = (IF fresh.id # x.orig THEN Naming(fresh.id) ELSE x.cookie)
      /\ y.spoiled = (x.spoiled \/ Unsaved(x))
      /\ y.orig = x.orig /\ y.xsrf = x.xsrf /\ y.body = x.body /\ y.seen = x.seen
      /\ y.route = x.route /\ y.committed = x.committed /\ y.received = x.received
  BY <1>2, <1>6 DEF Context
<1>9. y \in Context
  <2>1. (IF fresh.id # x.orig THEN Naming(fresh.id) ELSE x.cookie) \in Cookie
    BY <1>2, <1>4 DEF Context, Cookie, Session
  <2>2. (x.spoiled \/ Unsaved(x)) \in BOOLEAN
    BY <1>2 DEF Context, Unsaved
  <2> QED
    BY <1>2, <1>4, <1>6, <2>1, <2>2, ZenonT(30) DEF Context
<1>10. fresh.id # x.orig => fresh.id = Rand(r, "reload")
  BY <1>5
<1>11. x.orig # Rand(r, "reload")
  BY <1>2 DEF Shape, FreshIds
<1>12. Begun(r) /\ Old(Rand(r, "reload"))
  BY <1>1 DEF Begun, Old, Rand
<1>0. ~Unsaved(x) => ~stateless /\ fresh.id = x.orig /\ fresh.token = store[x.orig]
  BY <1>2, <1>3, ReloadFindsSaved
<1>13. FreshIds(r, y)
  BY <1>2, <1>8, <1>10, <1>12, Cookies DEF Shape, FreshIds
<1>14. QueuesItsSession(y)
  BY <1>1, <1>2, <1>8, Cookies DEF Shape, QueuesItsSession
<1>15. InOrder(y)
  BY <1>0, <1>1, <1>2, <1>5, <1>8, <1>11 DEF Shape, InOrder
<1>16. ASSUME paired[c] # {}, InFlight(c, x), ~y.spoiled \/ y.sess.id = y.orig
       PROVE  Matches(c, y.sess.token)
  <2>1. ~stateless /\ fresh.id = x.orig /\ fresh.token = store[x.orig]
    BY <1>0, <1>5, <1>8, <1>11, <1>16
  <2>2. Settled(c) /\ jar[c] = Naming(x.orig)
    BY <1>2, <1>16, <2>1 DEF InFlight
  <2>3. fresh.token \in Token \cup {None}
    BY <1>4 DEF Session
  <2> QED
    BY <1>2, <1>8, <2>1, <2>2, <2>3 DEF Settled
<1> QED
  BY <1>1, <1>2, <1>7, <1>8, <1>9, <1>13, <1>14, <1>15, <1>16, Works DEF Shape

LEMMA HandleInTrip ==
    ASSUME OwnershipInv, RoundTripInv, NEW r \in Request, Handle(r)
    PROVE  RoundTripInv'
<1> DEFINE c == ClientOf[r]
           x == req[r]
           op == x.route.op
<1>1. x.pc = "handle" /\ UNCHANGED <<client, paired, store, losses>>
  BY DEF Handle
<1>2. /\ x \in Context /\ c \in Client /\ Shape(r, x) /\ x.sess \in OwnSessions(c)
      /\ op \in {"none", "regenerate", "invalidate"} /\ ~x.received
  BY <1>1, RequestNow, ContextNow DEF RequestInv, Shape, InOrder, RouteType
<1>3. PICK s : s = Changed(x.sess, op, Rand(r, "handler"))
  OBVIOUS
<1>4. PICK k : k = IF op = "none" THEN x.cookie ELSE Naming(Rand(r, "handler"))
  OBVIOUS
<1>5. /\ s \in Session
      /\ op = "none" => s = x.sess
      /\ op # "none" => s.id = Rand(r, "handler")
      /\ op # "invalidate" => s.token = x.sess.token
  <2>1. Rand(r, "handler") \in OwnIds(c)
    BY IdIsOwn DEF Minting
  <2>2. s \in Session /\ (op # "invalidate" => s.token = x.sess.token)
    BY <1>2, <1>3, <2>1, ChangedIsOwn, OwnSessionsAreSessions
  <2>3. op = "none" => s = x.sess
    BY <1>3 DEF Changed
  <2>4. op # "none" => s.id = Rand(r, "handler")
    BY <1>2, <1>3 DEF Changed, OwnSessions
  <2> QED
    BY <2>2, <2>3, <2>4
<1>6. k \in Cookie
  <2>1. Rand(r, "handler") \in Id
    BY IdIsOwn DEF OwnIds, Minting
  <2> QED
    BY <1>2, <1>4, <2>1 DEF Context, Cookie
<1>7. PICK y0 : y0 = [x EXCEPT !.sess = s, !.cookie = k, !.spoiled = @ \/ op = "invalidate"]
  OBVIOUS
<1>8. PICK y :
        /\ Becomes(r, y)
        /\ \/ y = [y0 EXCEPT !.pc = "render"]
           \/ \E writes \in BOOLEAN : y = [y0 EXCEPT !.pc = Saving(x.route), !.committed = writes]
           \/ y = [y0 EXCEPT !.pc = "done", !.committed = TRUE, !.spoiled = TRUE]
  <2>1. y0 = [x EXCEPT !.sess = Changed(@, x.route.op, Rand(r, "handler")),
                       !.cookie = IF x.route.op = "none" THEN @ ELSE Naming(Rand(r, "handler")),
                       !.spoiled = @ \/ x.route.op = "invalidate"]
    BY <1>3, <1>4, <1>7
  <2>2. \/ Becomes(r, [y0 EXCEPT !.pc = "render"])
        \/ \E writes \in BOOLEAN :
               Becomes(r, [y0 EXCEPT !.pc = Saving(x.route), !.committed = writes])
        \/ Becomes(r, [y0 EXCEPT !.pc = "done", !.committed = TRUE, !.spoiled = TRUE])
    BY <2>1 DEF Handle
  <2> QED
    BY <2>2
<1>9. y0 \in Context
  <2>1. (x.spoiled \/ op = "invalidate") \in BOOLEAN
    BY <1>2 DEF Context
  <2> QED
    BY <1>2, <1>5, <1>6, <1>7, <2>1, ZenonT(30) DEF Context
<1>10. /\ y0.sess = s /\ y0.pc = x.pc /\ y0.cookie = k
       /\ y0.spoiled = (x.spoiled \/ op = "invalidate")
       /\ y0.orig = x.orig /\ y0.xsrf = x.xsrf /\ y0.body = x.body /\ y0.seen = x.seen
       /\ y0.route = x.route /\ y0.committed = x.committed /\ y0.received = x.received
  BY <1>2, <1>7 DEF Context
<1>11. Saving(x.route) \in {"blocksave", "save"}
       /\ (Saving(x.route) = "blocksave" => x.route.blocked)
  BY DEF Saving
<1>12. y \in Context
  <2>1. CASE y = [y0 EXCEPT !.pc = "render"]
    BY <1>9, <2>1, ZenonT(30) DEF Context
  <2>2. CASE \E writes \in BOOLEAN :
                 y = [y0 EXCEPT !.pc = Saving(x.route), !.committed = writes]
    <3>1. PICK writes \in BOOLEAN :
              y = [y0 EXCEPT !.pc = Saving(x.route), !.committed = writes]
      BY <2>2
    <3>2. Saving(x.route) \in {"idle", "block", "handle", "render", "blocksave", "save", "done"}
      BY <1>11
    <3> QED
      BY <1>9, <3>1, <3>2, ZenonT(30) DEF Context
  <2>3. CASE y = [y0 EXCEPT !.pc = "done", !.committed = TRUE, !.spoiled = TRUE]
    BY <1>9, <2>3, ZenonT(30) DEF Context
  <2> QED
    BY <1>8, <2>1, <2>2, <2>3
<1>13. /\ y.sess = s /\ y.cookie = k /\ y.orig = x.orig /\ y.xsrf = x.xsrf
       /\ y.body = x.body /\ y.seen = x.seen /\ y.route = x.route /\ ~y.received
       /\ y.pc \in {"render", "blocksave", "save", "done"}
       /\ y.pc = "blocksave" => y.route.blocked
       /\ y.pc = "render" => ~y.committed
       /\ y.pc = "done" => y.spoiled /\ y.committed
       /\ (x.spoiled \/ op = "invalidate" => y.spoiled)
  <2>1. x.pc = "handle" /\ ~x.committed /\ ~x.received
    BY <1>1, <1>2 DEF Shape, InOrder
  <2>2. CASE y = [y0 EXCEPT !.pc = "render"]
    BY <1>9, <1>10, <2>1, <2>2 DEF Context
  <2>3. CASE \E writes \in BOOLEAN :
                 y = [y0 EXCEPT !.pc = Saving(x.route), !.committed = writes]
    BY <1>9, <1>10, <1>11, <2>1, <2>3 DEF Context
  <2>4. CASE y = [y0 EXCEPT !.pc = "done", !.committed = TRUE, !.spoiled = TRUE]
    BY <1>9, <1>10, <2>1, <2>4 DEF Context
  <2> QED
    BY <1>8, <2>2, <2>3, <2>4
<1>14. x.orig # Rand(r, "handler")
  BY <1>2 DEF Shape, FreshIds
<1>15. Old(Rand(r, "handler"))
  BY <1>1 DEF Begun, Old, Rand
<1>16. FreshIds(r, y)
  BY <1>2, <1>4, <1>5, <1>13, <1>15, Cookies DEF Shape, FreshIds
<1>17. QueuesItsSession(y)
  BY <1>1, <1>2, <1>4, <1>5, <1>13, Cookies DEF Shape, QueuesItsSession
<1>18. InOrder(y)
  BY <1>1, <1>2, <1>13 DEF Shape, InOrder
<1>19. ASSUME paired[c] # {}, InFlight(c, x), ~y.spoiled \/ y.sess.id = y.orig
       PROVE  Matches(c, y.sess.token)
  <2>1. s.token = x.sess.token /\ (~x.spoiled \/ x.sess.id = x.orig)
    BY <1>2, <1>5, <1>13, <1>14, <1>19
  <2> QED
    BY <1>13, <1>19, <2>1 DEF InFlight
<1> QED
  BY <1>1, <1>2, <1>8, <1>12, <1>13, <1>16, <1>17, <1>18, <1>19, Works DEF Shape

LEMMA TokenReadInTrip ==
    ASSUME OwnershipInv, RoundTripInv, NEW r \in Request, NEW g \in Goroutine, TokenRead(r, g)
    PROVE  RoundTripInv'
<1> DEFINE c == ClientOf[r]
           x == req[r]
<1>1. /\ x.pc = "render" /\ x.seen[g] = None
      /\ UNCHANGED <<client, paired, store, losses>>
  BY DEF TokenRead
<1>2. /\ x \in Context /\ c \in Client /\ Shape(r, x) /\ ~x.received
      /\ x.sess.token \in Token \cup {None} /\ x.body \in Token \cup {None}
  BY <1>1, RequestNow DEF RequestInv, Shape, InOrder
<1>3. PICK v : v = IF x.sess.token = None THEN Missed ELSE x.sess.token
  OBVIOUS
<1>4. v \in Token \cup {None, Missed}
  BY <1>2, <1>3
<1>5. PICK y : y = [x EXCEPT !.seen[g] = v]
  OBVIOUS
<1>6. Becomes(r, y)
  BY <1>3, <1>5 DEF TokenRead
<1>7. y \in Context
  BY <1>2, <1>4, <1>5 DEF Context
<1>8. /\ y.sess = x.sess /\ y.pc = x.pc /\ y.cookie = x.cookie /\ y.spoiled = x.spoiled
      /\ y.orig = x.orig /\ y.body = x.body /\ y.route = x.route
      /\ y.committed = x.committed /\ y.received = x.received
      /\ y.seen = [x.seen EXCEPT ![g] = v]
  BY <1>2, <1>5 DEF Context
<1>9. y.body \in {None, y.seen["g1"]}
  <2>1. x.body \in {None, x.seen["g1"]} /\ x.seen \in [Goroutine -> Token \cup {None, Missed}]
    BY <1>2 DEF Shape, InOrder, Context
  <2>2. g = "g1" => x.body = None
    BY <1>1, <2>1
  <2> QED
    BY <1>8, <2>1, <2>2 DEF Goroutine
<1>10. Shape(r, y)
  BY <1>1, <1>2, <1>8, <1>9 DEF Shape, QueuesItsSession, InOrder, FreshIds
<1>11. InFlight(c, x) /\ (~y.spoiled \/ y.sess.id = y.orig) => Matches(c, y.sess.token)
  BY <1>8 DEF InFlight
<1> QED
  BY <1>1, <1>2, <1>6, <1>7, <1>8, <1>10, <1>11, Works

LEMMA TokenStoreInTrip ==
    ASSUME OwnershipInv, RoundTripInv, NEW r \in Request, NEW g \in Goroutine, TokenStore(r, g)
    PROVE  RoundTripInv'
<1> DEFINE c == ClientOf[r]
           x == req[r]
<1>1. /\ x.pc = "render" /\ x.seen[g] = Missed
      /\ UNCHANGED <<client, paired, store, losses>>
  BY DEF TokenStore
<1>2. /\ x \in Context /\ c \in Client /\ Shape(r, x) /\ ~x.received
      /\ x.sess \in OwnSessions(c) /\ x.body \in Token \cup {None}
  BY <1>1, RequestNow, ContextNow DEF RequestInv, Shape, InOrder
<1>3. PICK s : s = Stored(x.sess, Rand(r, g))
  OBVIOUS
<1>4. /\ s \in Session /\ s.id = x.sess.id /\ s.token \in Token
      /\ x.sess.token # None => s.token = x.sess.token
  <2>1. Rand(r, g) \in OwnTokens(c)
    BY TokenIsOwn
  <2>2. /\ s \in OwnSessions(c) /\ s.id = x.sess.id /\ s.token \in OwnTokens(c)
        /\ x.sess.token # None => s.token = x.sess.token
    BY <1>2, <1>3, <2>1, WithTokenIsOwn DEF Stored
  <2> QED
    BY <1>2, <2>2, OwnSessionsAreSessions DEF OwnTokens
<1>5. PICK y : y = [x EXCEPT !.sess = s, !.seen[g] = s.token]
  OBVIOUS
<1>6. Becomes(r, y)
  BY <1>3, <1>5 DEF TokenStore
<1>7. y \in Context
  BY <1>2, <1>4, <1>5 DEF Context
<1>8. /\ y.sess = s /\ y.pc = x.pc /\ y.cookie = x.cookie /\ y.spoiled = x.spoiled
      /\ y.orig = x.orig /\ y.body = x.body /\ y.route = x.route
      /\ y.committed = x.committed /\ y.received = x.received
      /\ y.seen = [x.seen EXCEPT ![g] = s.token]
  BY <1>2, <1>5 DEF Context
<1>9. y.body \in {None, y.seen["g1"]}
  <2>1. x.body \in {None, x.seen["g1"]} /\ x.seen \in [Goroutine -> Token \cup {None, Missed}]
    BY <1>2 DEF Shape, InOrder, Context
  <2>2. g = "g1" => x.body = None
    BY <1>1, <1>2, <2>1, SentinelAssumption, SentinelsAreNoTokens
  <2> QED
    BY <1>8, <2>1, <2>2 DEF Goroutine
<1>10. Shape(r, y)
  BY <1>1, <1>2, <1>4, <1>8, <1>9 DEF Shape, QueuesItsSession, InOrder, FreshIds
<1>11. ASSUME paired[c] # {}, InFlight(c, x), ~y.spoiled \/ y.sess.id = y.orig
       PROVE  Matches(c, y.sess.token)
  <2>1. Matches(c, x.sess.token)
    BY <1>4, <1>8, <1>11 DEF InFlight
  <2>2. x.sess.token # None
    BY <1>11, <2>1 DEF Matches
  <2> QED
    BY <1>4, <1>8, <2>1, <2>2
<1> QED
  BY <1>1, <1>2, <1>6, <1>7, <1>8, <1>10, <1>11, Works

LEMMA RespondInTrip ==
    ASSUME OwnershipInv, RoundTripInv, NEW r \in Request, Respond(r)
    PROVE  RoundTripInv'
<1> DEFINE c == ClientOf[r]
           x == req[r]
<1>1. /\ x.pc = "render" /\ x.seen["g1"] \in Token
      /\ UNCHANGED <<client, paired, store, losses>>
  BY DEF Respond, Goroutine
<1>2. /\ x \in Context /\ c \in Client /\ Shape(r, x) /\ ~x.received
  BY <1>1, RequestNow DEF RequestInv, Shape, InOrder
<1>3. Saving(x.route) \in {"blocksave", "save"}
      /\ (Saving(x.route) = "blocksave" => x.route.blocked)
  BY DEF Saving
<1>4. PICK y : y = [x EXCEPT !.body = x.seen["g1"], !.committed = TRUE, !.pc = Saving(x.route)]
  OBVIOUS
<1>5. Becomes(r, y)
  BY <1>4 DEF Respond
<1>6. y \in Context
  BY <1>1, <1>2, <1>3, <1>4 DEF Context
<1>7. /\ y.sess = x.sess /\ y.pc = Saving(x.route) /\ y.cookie = x.cookie
      /\ y.spoiled = x.spoiled /\ y.orig = x.orig /\ y.body = x.seen["g1"]
      /\ y.route = x.route /\ y.committed /\ y.received = x.received /\ y.seen = x.seen
  BY <1>2, <1>4 DEF Context
<1>8. QueuesItsSession(y)
  BY <1>1, <1>2, <1>3, <1>7 DEF Shape, QueuesItsSession
<1>9. InOrder(y) /\ FreshIds(r, y)
  BY <1>1, <1>2, <1>3, <1>7 DEF Shape, InOrder, FreshIds
<1>10. InFlight(c, x) /\ (~y.spoiled \/ y.sess.id = y.orig) => Matches(c, y.sess.token)
  BY <1>7 DEF InFlight
<1> QED
  BY <1>1, <1>2, <1>3, <1>5, <1>6, <1>7, <1>8, <1>9, <1>10, Works DEF Shape

LEMMA GiveUpInTrip ==
    ASSUME OwnershipInv, RoundTripInv, NEW r \in Request, GiveUp(r)
    PROVE  RoundTripInv'
<1> DEFINE c == ClientOf[r]
           x == req[r]
<1>1. /\ x.committed \/ x.pc = "done"
      /\ ~x.received /\ UNCHANGED <<client, paired, store, losses>>
  BY DEF GiveUp
<1>2. x.pc # "idle"
  BY <1>1, AnsweredIsBusy
<1>3. /\ x \in Context /\ c \in Client /\ Shape(r, x)
  BY <1>2, RequestNow DEF RequestInv
<1>4. PICK y : y = [x EXCEPT !.received = TRUE]
  OBVIOUS
<1>5. Becomes(r, y)
  BY <1>4 DEF GiveUp
<1>6. y \in Context
  BY <1>3, <1>4 DEF Context
<1>7. /\ y.sess = x.sess /\ y.pc = x.pc /\ y.cookie = x.cookie
      /\ y.spoiled = x.spoiled /\ y.orig = x.orig /\ y.body = x.body
      /\ y.route = x.route /\ y.committed = x.committed /\ y.seen = x.seen
  BY <1>3, <1>4 DEF Context
<1>8. Shape(r, y)
  BY <1>1, <1>3, <1>7 DEF Shape, QueuesItsSession, InOrder, FreshIds
<1>9. InFlight(c, x) /\ (~y.spoiled \/ y.sess.id = y.orig) => Matches(c, y.sess.token)
  BY <1>7 DEF InFlight
<1> QED
  BY <1>1, <1>2, <1>3, <1>5, <1>6, <1>7, <1>8, <1>9, Works

LEMMA SaveInTrip ==
    ASSUME OwnershipInv, RoundTripInv, NEW r \in Request, Save(r)
    PROVE  RoundTripInv'
<1> DEFINE c == ClientOf[r]
           x == req[r]
<1>1. /\ x.pc \in {"blocksave", "save"}
      /\ store' = IF stateless THEN store ELSE Saved(x)
      /\ UNCHANGED <<client, paired, losses>>
  BY DEF Save
<1>2. /\ x \in Context /\ c \in Client /\ RequestInv(c, r, x) /\ Shape(r, x)
      /\ x.sess.id \in Id /\ x.sess.id \in OwnIds(c) /\ x.orig \in Id /\ x.orig \in OwnIds(c)
      /\ x.sess.token \in Token \cup {None}
  BY <1>1, RequestNow DEF RequestInv
<1>3. PICK k : k = IF stateless /\ x.pc = "save" /\ ~x.committed THEN Sealed(x.sess.token)
                   ELSE x.cookie
  OBVIOUS
<1>4. k \in Cookie
  BY <1>2, <1>3 DEF Cookie, Context
<1>5. PICK y : y = [x EXCEPT !.pc = "done", !.cookie = k]
  OBVIOUS
<1>6. Becomes(r, y) /\ stateless' = stateless
  BY <1>3, <1>5 DEF Save, Becomes
<1>7. y \in Context
  BY <1>2, <1>4, <1>5 DEF Context
<1>8. /\ y.sess = x.sess /\ y.pc = "done" /\ y.cookie = k
      /\ y.spoiled = x.spoiled /\ y.orig = x.orig /\ y.body = x.body /\ y.seen = x.seen
      /\ y.route = x.route /\ y.committed = x.committed /\ y.received = x.received
  BY <1>2, <1>5 DEF Context
<1>9. /\ jar' = jar /\ xsrf' = xsrf /\ page' = page /\ paired' = paired
      /\ stateless => store' = store
      /\ ~stateless => /\ store'[x.sess.id] = x.sess.token
                       /\ x.orig # x.sess.id => store'[x.orig] = Absent
      /\ \A id \in Id \ {x.sess.id, x.orig} : store'[id] = store[id]
  BY <1>1, <1>2 DEF client, Saved
<1>10. \A q \in Request : Begun(q) => Begun(q)'
  BY <1>6, <1>8 DEF Begun, Becomes, OwnershipInv, TypeOK
<1>11. QueuesItsSession(y)'
  BY <1>1, <1>2, <1>3, <1>6, <1>8, <1>9, Cookies DEF Shape, QueuesItsSession, InOrder
<1>12. InOrder(y)'
  BY <1>2, <1>6, <1>8 DEF Shape, InOrder
<1>13. FreshIds(r, y)'
  BY <1>2, <1>3, <1>8, <1>10, OldStays, Cookies DEF Shape, FreshIds
<1>14. \A t : Matches(c, t)' <=> Matches(c, t)
  BY <1>9 DEF Matches, Held
<1>15. ASSUME paired'[c] # {}
       PROVE  Busy(c) = {r} /\ InFlight(c, y)' /\ (y.received => Settled(c)')
  <2>1. Busy(c) = {r} /\ InFlight(c, x)
    BY <1>1, <1>2, <1>9, <1>15 DEF RequestInv
  <2>2. ~y.spoiled \/ y.sess.id = y.orig => Matches(c, y.sess.token)'
    BY <1>8, <1>14, <2>1 DEF InFlight
  <2>3. CASE stateless
    BY <1>6, <1>8, <1>9, <1>14, <2>1, <2>2, <2>3 DEF InFlight, Settled
  <2>4. CASE ~stateless /\ jar[c] = Naming(x.orig)
    <3>1. ASSUME NEW t \in Token \cup {None}, NEW id \in Id, jar[c] = Naming(id), store'[id] = t
          PROVE  Matches(c, t)'
      <4>1. id = x.orig
        BY <2>4, <3>1, Cookies
      <4>2. x.orig = x.sess.id /\ t = x.sess.token
        BY <1>2, <1>9, <2>4, <3>1, <4>1, SentinelAssumption, SentinelsAreNoTokens
      <4> QED
        BY <1>8, <2>2, <4>2
    <3>2. Settled(c)'
      BY <1>6, <1>9, <2>4, <3>1 DEF Settled
    <3> QED
      BY <1>6, <1>8, <1>9, <2>1, <2>2, <2>4, <3>2 DEF InFlight
  <2>5. CASE ~stateless /\ ~x.spoiled /\ x.received /\ jar[c] = Naming(x.sess.id)
    <3>1. ASSUME NEW t \in Token \cup {None}, NEW id \in Id, jar[c] = Naming(id), store'[id] = t
          PROVE  Matches(c, t)'
      <4>1. t = x.sess.token
        BY <1>2, <1>9, <2>5, <3>1, Cookies
      <4> QED
        BY <1>8, <2>2, <2>5, <4>1
    <3>2. Settled(c)'
      BY <1>6, <1>9, <2>5, <3>1 DEF Settled
    <3> QED
      BY <1>6, <1>8, <1>9, <2>1, <2>2, <2>5, <3>2 DEF InFlight
  <2> QED
    BY <2>1, <2>3, <2>4, <2>5 DEF InFlight
<1>16. \A id \in Id : jar'[c] = Naming(id) => Old(id)
  BY <1>2, <1>9 DEF RoundTripInv, ClientInv
<1>17. \A id \in Id : id \in OwnIds(c) \/ store'[id] = store[id]
  BY <1>2, <1>9
<1>18. Shape(r, y)'
  BY <1>11, <1>12, <1>13 DEF Shape
<1> QED
  BY <1>1, <1>6, <1>7, <1>8, <1>9, <1>15, <1>16, <1>17, <1>18, Moves

LEMMA SaveFailsInTrip ==
    ASSUME OwnershipInv, RoundTripInv, NEW r \in Request, SaveFails(r)
    PROVE  RoundTripInv'
<1> DEFINE c == ClientOf[r]
           x == req[r]
<1>1. /\ x.pc \in {"blocksave", "save"} /\ UNCHANGED client
      /\ store' = IF x.sess.id = x.orig THEN store ELSE [store EXCEPT ![x.orig] = Absent]
      /\ paired' = [paired EXCEPT ![c] = {}] /\ ~stateless
  BY DEF SaveFails
<1>2. /\ x \in Context /\ c \in Client /\ Shape(r, x) /\ x.orig \in OwnIds(c)
  BY <1>1, RequestNow DEF RequestInv
<1>3. PICK y : y = [x EXCEPT !.pc = "done", !.spoiled = TRUE]
  OBVIOUS
<1>4. Becomes(r, y) /\ stateless' = stateless
  BY <1>3 DEF SaveFails, Becomes
<1>5. y \in Context
  BY <1>2, <1>3 DEF Context
<1>6. /\ y.sess = x.sess /\ y.pc = "done" /\ y.cookie = x.cookie
      /\ y.spoiled /\ y.orig = x.orig /\ y.body = x.body /\ y.seen = x.seen
      /\ y.route = x.route
  BY <1>2, <1>3 DEF Context
<1>7. store \in [Id -> Token \cup {None, Absent}] /\ paired \in [Client -> SUBSET {"xsrf", "page"}]
  BY DEF OwnershipInv, TypeOK
<1>8. /\ jar' = jar /\ xsrf' = xsrf /\ page' = page /\ paired'[c] = {}
      /\ \A d \in Client \ {c} : paired'[d] = paired[d]
      /\ \A id \in Id : id \in OwnIds(c) \/ store'[id] = store[id]
  BY <1>1, <1>2, <1>7 DEF client
<1>9. \A q \in Request : Begun(q) => Begun(q)'
  BY <1>4, <1>6 DEF Begun, Becomes, OwnershipInv, TypeOK
<1>10. Shape(r, y)'
  BY <1>1, <1>2, <1>4, <1>6, <1>9, OldStays DEF Shape, QueuesItsSession, InOrder, FreshIds
<1>11. \A id \in Id : jar'[c] = Naming(id) => Old(id)
  BY <1>2, <1>8 DEF RoundTripInv, ClientInv
<1> QED
  BY <1>1, <1>4, <1>5, <1>6, <1>8, <1>10, <1>11, Moves

LEMMA ReceiveInTrip ==
    ASSUME OwnershipInv, RoundTripInv, NEW r \in Request, Receive(r)
    PROVE  RoundTripInv'
<1> DEFINE c == ClientOf[r]
           x == req[r]
<1>1. /\ x.committed \/ x.pc = "done"
      /\ ~x.received /\ store' = store
      /\ jar' = [jar EXCEPT ![c] = Newer(x.cookie, jar[c])]
      /\ xsrf' = [xsrf EXCEPT ![c] = Newer(x.xsrf, xsrf[c])]
      /\ page' = [page EXCEPT ![c] = Newer(x.body, page[c])]
  BY DEF Receive
<1>2. x.pc # "idle"
  BY <1>1, AnsweredIsBusy
<1>3. /\ x \in Context /\ c \in Client /\ RequestInv(c, r, x) /\ Shape(r, x) /\ Coherent(x)
      /\ x.sess.id \in Id /\ x.sess.token \in Token \cup {None}
      /\ x.xsrf \in Token \cup {None} /\ x.body \in Token \cup {None}
  BY <1>2, RequestNow, ContextNow DEF RequestInv
<1>4. PICK y : y = [x EXCEPT !.received = TRUE]
  OBVIOUS
<1>5. Becomes(r, y) /\ stateless' = stateless
  BY <1>4 DEF Receive, Becomes
<1>6. y \in Context
  BY <1>3, <1>4 DEF Context
<1>7. /\ y.sess = x.sess /\ y.pc = x.pc /\ y.cookie = x.cookie
      /\ y.spoiled = x.spoiled /\ y.orig = x.orig /\ y.body = x.body
      /\ y.route = x.route /\ y.committed = x.committed /\ y.seen = x.seen /\ y.received
  BY <1>3, <1>4 DEF Context
<1>8. /\ jar \in [Client -> Cookie] /\ xsrf \in [Client -> Token \cup {None}]
      /\ page \in [Client -> Token \cup {None}] /\ paired \in [Client -> SUBSET {"xsrf", "page"}]
  BY DEF OwnershipInv, TypeOK
<1>9. PICK promised :
        /\ promised = IF stateless /\ x.committed THEN {}
                      ELSE {k \in {"xsrf", "page"} : IF k = "xsrf" THEN x.xsrf # None
                                                     ELSE x.body # None}
        /\ paired' = [paired EXCEPT ![c] = IF x.spoiled THEN {} ELSE paired[c] \cup promised]
  BY DEF Receive
<1>10. /\ jar'[c] = Newer(x.cookie, jar[c])
       /\ xsrf'[c] = Newer(x.xsrf, xsrf[c]) /\ page'[c] = Newer(x.body, page[c])
       /\ paired'[c] = (IF x.spoiled THEN {} ELSE paired[c] \cup promised)
       /\ \A d \in Client \ {c} : /\ jar'[d] = jar[d] /\ xsrf'[d] = xsrf[d]
                                  /\ page'[d] = page[d] /\ paired'[d] = paired[d]
  BY <1>1, <1>3, <1>8, <1>9
<1>11. \A q \in Request : Begun(q) => Begun(q)'
  BY <1>2, <1>5, <1>7 DEF Begun, Becomes, OwnershipInv, TypeOK
<1>12. Shape(r, y)'
  BY <1>1, <1>3, <1>5, <1>7, <1>11, OldStays DEF Shape, QueuesItsSession, InOrder, FreshIds
<1>13. ASSUME paired'[c] # {}
       PROVE  Busy(c) = {r} /\ InFlight(c, y)' /\ (y.pc = "done" => Settled(c)')
  <2>1. ~x.spoiled /\ Busy(c) = {r}
    BY <1>2, <1>3, <1>10, <1>13 DEF RequestInv
  <2>2. paired[c] # {} => InFlight(c, x) /\ Matches(c, x.sess.token)
    BY <1>2, <1>3, <2>1 DEF RequestInv, InFlight
  <2>3. (x.xsrf # None => x.xsrf = x.sess.token) /\ (x.body # None => x.body = x.sess.token)
    BY <1>3, <2>1 DEF Coherent, Shape, InOrder, Goroutine
  <2>4. Matches(c, y.sess.token)'
    <3>1. SUFFICES ASSUME NEW k \in paired'[c]
                   PROVE  /\ (IF k = "xsrf" THEN xsrf'[c] ELSE page'[c]) = y.sess.token
                          /\ y.sess.token # None
      BY DEF Matches, Held
    <3>2. k \in {"xsrf", "page"} /\ (k \in paired[c] \/ k \in promised)
      BY <1>3, <1>8, <1>9, <1>10, <2>1, <3>1
    <3>3. k \in paired[c] => /\ (IF k = "xsrf" THEN xsrf[c] ELSE page[c]) = x.sess.token
                             /\ x.sess.token # None
      BY <2>2 DEF Matches, Held
    <3>4. k \in promised => IF k = "xsrf" THEN x.xsrf # None ELSE x.body # None
      BY <1>9
    <3> QED
      BY <1>7, <1>10, <2>3, <3>2, <3>3, <3>4 DEF Newer
  <2>5. CASE ~stateless
    <3>1. jar'[c] = Naming(x.sess.id)
      BY <1>3, <1>10, <2>5, Cookies DEF Newer, Shape, QueuesItsSession
    <3>2. InFlight(c, y)'
      BY <1>5, <1>7, <2>1, <2>4, <2>5, <3>1 DEF InFlight
    <3>3. ASSUME y.pc = "done" PROVE Settled(c)'
      <4>1. store[x.sess.id] \in {x.sess.token, Absent}
        BY <1>3, <1>7, <2>1, <2>5, <3>3 DEF Shape, QueuesItsSession
      <4>2. ASSUME NEW t \in Token \cup {None}, NEW id \in Id, jar'[c] = Naming(id), store'[id] = t
            PROVE  Matches(c, t)'
        <5>1. id = x.sess.id
          BY <3>1, <4>2, Cookies
        <5>2. t = x.sess.token
          BY <1>1, <4>1, <4>2, <5>1, SentinelAssumption, SentinelsAreNoTokens
        <5> QED
          BY <1>7, <2>4, <5>2
      <4> QED
        BY <1>5, <2>5, <4>2 DEF Settled
    <3> QED
      BY <2>1, <3>2, <3>3
  <2>6. CASE stateless
    <3>1. ASSUME NEW t \in Token \cup {None}, jar'[c] = Sealed(t) PROVE t = x.sess.token
      <4>1. CASE x.committed
        <5>1. x.cookie # Sealed(t)
          BY <1>3, <2>6, <4>1 DEF Shape, QueuesItsSession
        <5>2. jar[c] = Sealed(t)
          BY <1>10, <3>1, <5>1 DEF Newer
        <5>3. paired[c] # {}
          BY <1>9, <1>10, <1>13, <2>6, <4>1
        <5>4. Matches(c, t)
          BY <2>2, <2>6, <5>2, <5>3 DEF InFlight, Settled
        <5>5. Matches(c, x.sess.token)
          BY <2>2, <5>3
        <5> QED
          BY <5>3, <5>4, <5>5 DEF Matches
      <4>2. CASE ~x.committed
        <5>1. x.cookie = Sealed(x.sess.token)
          BY <1>1, <1>3, <2>1, <2>6, <4>2 DEF Shape, QueuesItsSession
        <5> QED
          BY <1>3, <1>10, <3>1, <5>1, Cookies DEF Newer
      <4> QED
        BY <4>1, <4>2
    <3>2. Settled(c)'
      BY <1>5, <1>7, <2>4, <2>6, <3>1 DEF Settled
    <3> QED
      BY <1>5, <1>7, <2>1, <2>4, <2>6, <3>2 DEF InFlight
  <2> QED
    BY <2>5, <2>6
<1>14. \A id \in Id : jar'[c] = Naming(id) => Old(id)
  BY <1>3, <1>10 DEF RoundTripInv, ClientInv, Newer, Shape, FreshIds
<1> QED
  BY <1>1, <1>2, <1>5, <1>6, <1>7, <1>10, <1>12, <1>13, <1>14, Moves

LEMMA LoseInTrip ==
    ASSUME OwnershipInv, RoundTripInv, NEW lost \in Id, Lose(lost)
    PROVE  RoundTripInv'
<1>1. /\ stateless' = stateless /\ req' = req /\ ended' = ended
      /\ jar' = jar /\ xsrf' = xsrf /\ page' = page /\ paired' = paired
      /\ store' = [store EXCEPT ![lost] = Absent]
  BY DEF Lose, client
<1>2. store \in [Id -> Token \cup {None, Absent}]
  BY DEF OwnershipInv, TypeOK
<1>3. \A q \in Request : Begun(q) => Begun(q)'
  BY <1>1 DEF Begun
<1>4. ASSUME NEW c \in Client PROVE ClientInv(c)'
  <2>1. \A id \in OwnIds(c) : store'[id] \in {store[id], Absent}
    BY <1>1, <1>2 DEF OwnIds
  <2>2. ClientInv(c)
    BY DEF RoundTripInv
  <2> QED
    BY <1>1, <1>3, <2>1, <2>2, UndisturbedClient
<1> QED
  BY <1>4 DEF RoundTripInv

LEMMA StutterInTrip ==
    ASSUME OwnershipInv, RoundTripInv, UNCHANGED vars
    PROVE  RoundTripInv'
<1>1. /\ stateless' = stateless /\ req' = req /\ ended' = ended
      /\ jar' = jar /\ xsrf' = xsrf /\ page' = page /\ paired' = paired /\ store' = store
  BY DEF vars
<1>2. \A q \in Request : Begun(q) => Begun(q)'
  BY <1>1 DEF Begun
<1>3. ASSUME NEW c \in Client PROVE ClientInv(c)'
  <2>1. ClientInv(c)
    BY DEF RoundTripInv
  <2> QED
    BY <1>1, <1>2, <2>1, UndisturbedClient
<1> QED
  BY <1>3 DEF RoundTripInv

\* The session that Load gives a client which is due to hold its token.
LEMMA LoadedIsBehind ==
    ASSUME OwnershipInv, NEW c \in Client, Settled(c), Readable(jar[c]), NEW fresh
    PROVE  /\ Matches(c, Load(jar[c], fresh).token)
           /\ ~stateless => jar[c] = Naming(Load(jar[c], fresh).id)
<1>1. jar[c] \in OwnCookies(c)
  BY DEF OwnershipInv
<1>2. CASE stateless
  <2>1. PICK t \in Token \cup {None} : jar[c] = Sealed(t)
    BY <1>1, <1>2 DEF OwnCookies, OwnTokens, Readable, Naming
  <2>2. Load(jar[c], fresh).token = t
    BY <1>2, <2>1 DEF Load, Sealed
  <2> QED
    BY <1>2, <2>1, <2>2 DEF Settled
<1>3. CASE ~stateless
  <2>1. PICK id \in Id : jar[c] = Naming(id) /\ id \in OwnIds(c)
    BY <1>1, <1>3 DEF OwnCookies, OwnIds, Readable, Sealed
  <2>2. jar[c].id = id
    BY <2>1 DEF Naming
  <2>3. store[id] \in Token \cup {None}
    BY <1>3, <2>1, <2>2 DEF Readable, OwnershipInv, OwnIds, OwnTokens
  <2>4. Load(jar[c], fresh) = [id |-> id, token |-> store[id]]
    BY <1>3, <2>2 DEF Load
  <2> QED
    BY <1>3, <2>1, <2>3, <2>4 DEF Settled
<1> QED
  BY <1>2, <1>3

\* The ID of a session that is loaded is the one in its cookie, or a fresh one.
LEMMA LoadedId ==
    ASSUME OwnershipInv, NEW c \in Client, NEW fresh
    PROVE  Load(jar[c], fresh).id = fresh \/ jar[c] = Naming(Load(jar[c], fresh).id)
<1>1. jar[c] \in OwnCookies(c)
  BY DEF OwnershipInv
<1>2. CASE Readable(jar[c]) /\ ~stateless
  <2>1. PICK id \in Id : jar[c] = Naming(id)
    BY <1>1, <1>2 DEF OwnCookies, OwnIds, Readable, Sealed
  <2>2. jar[c].id = id
    BY <2>1 DEF Naming
  <2> QED
    BY <1>2, <2>1, <2>2 DEF Load
<1>3. CASE ~(Readable(jar[c]) /\ ~stateless)
  BY <1>3 DEF Load
<1> QED
  BY <1>2, <1>3

LEMMA ArriveInTrip ==
    ASSUME OwnershipInv, RoundTripInv, NEW r \in Request, NEW rt \in Route[ClientOf[r]],
           NEW t \in Offers(ClientOf[r]), Arrive(r, rt, t)
    PROVE  RoundTripInv'
<1> DEFINE c == ClientOf[r]
<1>1. /\ c \in Client /\ rt \in RouteType /\ t \in Token \cup {None}
      /\ req[r].pc = "idle" /\ r \notin ended
  <2>1. req[r].pc = "idle" /\ r \notin ended
    BY DEF Arrive
  <2>2. c \in Client /\ t \in Token \cup {None}
    BY OffersAreTokens
  <2>3. rt \in RouteType
    OBVIOUS
  <2> QED
    BY <2>1, <2>2, <2>3
<1>2. PICK s : s = Load(jar[c], Rand(r, "start"))
  OBVIOUS
<1>3. /\ s \in Session /\ s \in OwnSessions(c) /\ s.id \in Id
      /\ s.id = Rand(r, "start") \/ jar[c] = Naming(s.id)
  <2>1. jar[c] \in OwnCookies(c) /\ Rand(r, "start") \in OwnIds(c)
    BY <1>1, IdIsOwn DEF OwnershipInv, Minting
  <2>2. s \in OwnSessions(c)
    BY <1>1, <1>2, <2>1, LoadIsOwn
  <2> QED
    BY <1>1, <1>2, <2>2, OwnSessionsAreSessions, LoadedId DEF Session
<1>4. Old(s.id) /\ s.id \notin {Rand(r, "reload"), Rand(r, "handler")}
  <2>1. CASE s.id = Rand(r, "start")
    BY <2>1 DEF Old, Rand
  <2>2. CASE jar[c] = Naming(s.id)
    <3>1. Old(s.id)
      BY <1>1, <1>3, <2>2 DEF RoundTripInv, ClientInv
    <3> QED
      BY <1>1, <3>1 DEF Old, Begun
  <2> QED
    BY <1>3, <2>1, <2>2
<1>5. PICK x : x = [Unborn(r) EXCEPT !.route = rt, !.offered = t, !.sess = s, !.orig = s.id,
                                     !.cookie = IF stateless THEN None ELSE Naming(s.id),
                                     !.pc = AfterCsrf(rt), !.spoiled = Busy(c) # {}]
  OBVIOUS
<1>6. PICK y : y = IF rt.csrf THEN Verified(x, Rand(r, "csrf")) ELSE x
  OBVIOUS
<1>7. /\ req' = [q \in Request |-> IF q = r THEN y
                                   ELSE IF q \in Busy(c) THEN [req[q] EXCEPT !.spoiled = TRUE]
                                   ELSE req[q]]
      /\ paired' = IF Busy(c) = {} /\ Readable(jar[c]) THEN paired
                   ELSE [paired EXCEPT ![c] = {}]
      /\ UNCHANGED <<stateless, client, store, ended, losses>>
  BY <1>2, <1>5, <1>6 DEF Arrive
<1>8. /\ x.sess = s /\ x.orig = s.id /\ x.cookie = (IF stateless THEN None ELSE Naming(s.id))
      /\ x.pc = AfterCsrf(rt) /\ x.spoiled = (Busy(c) # {}) /\ x.body = None
      /\ ~x.committed /\ ~x.received /\ x.route = rt
  BY <1>5 DEF Unborn
<1>9. /\ y.orig = s.id /\ y.sess.id = s.id
      /\ (s.token # None => y.sess.token = s.token)
      /\ y.cookie = x.cookie /\ y.spoiled = (Busy(c) # {}) /\ y.body = None /\ ~y.received
      /\ y.route = rt
      /\ \/ y.pc = AfterCsrf(rt) /\ ~y.committed
         \/ y.pc = "save"
  <2>1. CASE ~rt.csrf
    BY <1>6, <1>8, <2>1
  <2>2. CASE rt.csrf
    <3>1. PICK z : z = WithToken(s, Rand(r, "csrf"))
      OBVIOUS
    <3>2. z.id = s.id /\ (s.token # None => z.token = s.token)
      BY <1>1, <1>3, <3>1, TokenIsOwn, WithTokenIsOwn
    <3>3. \/ y = [x EXCEPT !.sess = z, !.xsrf = SyncCookie(z), !.pc = AfterCsrf(rt)]
          \/ y = [x EXCEPT !.sess = z, !.committed = TRUE, !.pc = "save"]
      BY <1>6, <1>8, <2>2, <3>1 DEF Verified
    <3>4. CASE y = [x EXCEPT !.sess = z, !.xsrf = SyncCookie(z), !.pc = AfterCsrf(rt)]
      BY <1>5, <1>8, <3>2, <3>4 DEF Unborn
    <3>5. CASE y = [x EXCEPT !.sess = z, !.committed = TRUE, !.pc = "save"]
      BY <1>5, <1>8, <3>2, <3>5 DEF Unborn
    <3> QED
      BY <3>3, <3>4, <3>5
  <2> QED
    BY <2>1, <2>2
<1>10. /\ req'[r] = y
       /\ \A q \in Request \ {r} : ClientOf[q] # c => req'[q] = req[q]
       /\ \A q \in Busy(c) \ {r} : req'[q] = [req[q] EXCEPT !.spoiled = TRUE]
       /\ \A q \in Request \ {r} : q \notin Busy(c) => req'[q] = req[q]
  BY <1>7 DEF Busy
<1>11. AfterCsrf(rt) = (IF rt.blocked THEN "block" ELSE "handle") /\ y.pc # "idle"
  BY <1>9 DEF AfterCsrf
<1>12. \A q \in Request : Begun(q) => Begun(q)'
  <2>1. \A q \in Busy(c) \ {r} : req'[q].pc = req[q].pc
    BY <1>10, ContextNow DEF Context, Busy
  <2> QED
    BY <1>7, <1>10, <1>11, <2>1 DEF Begun
<1>13. /\ stateless' = stateless /\ jar' = jar /\ xsrf' = xsrf /\ page' = page /\ store' = store
       /\ paired'[c] = (IF Busy(c) = {} /\ Readable(jar[c]) THEN paired[c] ELSE {})
       /\ \A d \in Client \ {c} : paired'[d] = paired[d]
  BY <1>1, <1>7 DEF client, OwnershipInv, TypeOK
<1>14. ASSUME NEW d \in Client, d # c PROVE ClientInv(d)'
  <2>1. \A q \in Request : ClientOf[q] = d => req'[q] = req[q]
    BY <1>10, <1>14
  <2>2. ClientInv(d)
    BY DEF RoundTripInv
  <2> QED
    BY <1>12, <1>13, <1>14, <2>1, <2>2, UndisturbedClient
<1>15. r \in Busy(c)' /\ Busy(c)' = Busy(c) \cup {r}
  <2>1. \A q \in Busy(c) \ {r} : req'[q].pc = req[q].pc
    BY <1>10, ContextNow DEF Context, Busy
  <2> QED
    BY <1>10, <1>11, <2>1 DEF Busy
<1>16. Shape(r, y)'
  <2>1. FreshIds(r, y)'
    BY <1>3, <1>4, <1>8, <1>9, <1>12, OldStays, Cookies DEF FreshIds
  <2>2. QueuesItsSession(y)'
    BY <1>8, <1>9, <1>11, <1>13, Cookies DEF QueuesItsSession
  <2>3. InOrder(y)'
    BY <1>8, <1>9, <1>11, <1>13 DEF InOrder
  <2> QED
    BY <2>1, <2>2, <2>3 DEF Shape
<1>17. ASSUME paired'[c] # {} PROVE Busy(c)' = {r} /\ InFlight(c, y)'
  <2>1. Busy(c) = {} /\ Readable(jar[c]) /\ paired'[c] = paired[c]
    BY <1>13, <1>17
  <2>2. Settled(c)
    BY <1>1, <2>1 DEF RoundTripInv, ClientInv
  <2>3. Matches(c, s.token) /\ (~stateless => jar[c] = Naming(s.id))
    BY <1>1, <1>2, <2>1, <2>2, LoadedIsBehind
  <2>4. y.sess.token = s.token
    BY <1>9, <1>17, <2>1, <2>3 DEF Matches
  <2>5. \A v : Matches(c, v)' <=> Matches(c, v)
    BY <1>13, <2>1 DEF Matches, Held
  <2>6. Settled(c)'
    BY <1>13, <2>2, <2>5 DEF Settled
  <2> QED
    BY <1>9, <1>13, <1>15, <2>1, <2>3, <2>4, <2>5, <2>6 DEF InFlight
<1>18. ASSUME NEW q \in Request, q # r, ClientOf[q] = c, NEW x1 \in Context, req'[q] = x1
       PROVE  RequestInv(c, q, x1)'
  <2>1. CASE q \notin Busy(c)
    <3>1. req[q] = x1 /\ x1.pc = "idle"
      BY <1>10, <1>18, <2>1 DEF Busy
    <3>2. RequestInv(c, q, x1)
      BY <1>1, <1>18, <3>1 DEF RoundTripInv, ClientInv
    <3> QED
      BY <3>1, <3>2 DEF RequestInv
  <2>2. CASE q \in Busy(c)
    <3>1. PICK x0 \in Context : x0 = req[q] /\ x1 = [x0 EXCEPT !.spoiled = TRUE]
      BY <1>10, <1>18, <2>2, ContextNow
    <3>2. /\ x1.sess = x0.sess /\ x1.pc = x0.pc /\ x1.cookie = x0.cookie
          /\ x1.spoiled /\ x1.orig = x0.orig /\ x1.body = x0.body /\ x1.received = x0.received
          /\ x1.route = x0.route /\ x1.committed = x0.committed /\ x1.seen = x0.seen
      BY <3>1 DEF Context
    <3>3. x0.pc # "idle"
      BY <2>2, <3>1 DEF Busy
    <3>4. Shape(q, x0)
      BY <1>1, <1>18, <3>1, <3>3 DEF RoundTripInv, ClientInv, RequestInv
    <3>5. Shape(q, x1)'
      BY <1>12, <1>13, <3>2, <3>4, OldStays DEF Shape, QueuesItsSession, InOrder, FreshIds
    <3>6. paired'[c] = {}
      BY <1>13, <2>2
    <3> QED
      BY <3>2, <3>3, <3>5, <3>6 DEF RequestInv
  <2> QED
    BY <2>1, <2>2
<1>19. RequestInv(c, r, y)'
  BY <1>9, <1>11, <1>15, <1>16, <1>17 DEF RequestInv
<1>20. ClientInv(c)'
  <2>1. \A id \in Id : jar'[c] = Naming(id) => Old(id)'
    BY <1>1, <1>12, <1>13, OldStays DEF RoundTripInv, ClientInv
  <2>2. ASSUME NEW q \in Request, NEW x1 \in Context, ClientOf[q] = c, req'[q] = x1
        PROVE  RequestInv(c, q, x1)'
    BY <1>10, <1>18, <1>19, <2>2
  <2> QED
    BY <1>15, <2>1, <2>2 DEF ClientInv
<1> QED
  BY <1>14, <1>20 DEF RoundTripInv

----------------------------------------------------------------------------
(* The invariant of the round trip *)

LEMMA RoundTripInit == Init => RoundTripInv
<1> SUFFICES ASSUME Init, NEW c \in Client PROVE ClientInv(c)
  BY DEF RoundTripInv
<1>1. PICK known \in SUBSET Client :
        jar = [d \in Client |-> IF d \notin known THEN None
                                ELSE IF stateless THEN Sealed(None) ELSE Naming(Prior(d))]
  BY DEF Init
<1>2. req = [r \in Request |-> Unborn(r)] /\ paired = [d \in Client |-> {}]
  BY DEF Init
<1>3. ASSUME NEW id \in Id, jar[c] = Naming(id) PROVE Old(id)
  <2>1. id = Prior(c)
    BY <1>1, <1>3, Cookies
  <2> QED
    BY <2>1 DEF Old, Prior, Rand
<1>4. Settled(c)
  BY <1>2 DEF Settled, Matches
<1>5. ASSUME NEW r \in Request, NEW x \in Context, req[r] = x PROVE RequestInv(c, r, x)
  BY <1>2, <1>5 DEF RequestInv, Unborn
<1> QED
  BY <1>3, <1>4, <1>5 DEF ClientInv

LEMMA RoundTripStep == OwnershipInv /\ RoundTripInv /\ [Next]_vars => RoundTripInv'
<1> SUFFICES ASSUME OwnershipInv, RoundTripInv, [Next]_vars PROVE RoundTripInv'
  OBVIOUS
<1>1. ASSUME NEW r \in Request, NEW rt \in Route[ClientOf[r]], NEW t \in Offers(ClientOf[r]),
             Arrive(r, rt, t)
      PROVE  RoundTripInv'
  BY <1>1, ArriveInTrip
<1>2. ASSUME NEW r \in Request,
             \/ Reload(r) \/ Handle(r) \/ Respond(r)
             \/ Save(r) \/ SaveFails(r) \/ Receive(r) \/ GiveUp(r)
      PROVE  RoundTripInv'
  BY <1>2, ReloadInTrip, HandleInTrip, RespondInTrip, SaveInTrip, SaveFailsInTrip,
     ReceiveInTrip, GiveUpInTrip
<1>3. ASSUME NEW r \in Request, NEW g \in Goroutine, TokenRead(r, g) \/ TokenStore(r, g)
      PROVE  RoundTripInv'
  BY <1>3, TokenReadInTrip, TokenStoreInTrip
<1>4. ASSUME NEW id \in Id, Lose(id) PROVE RoundTripInv'
  BY <1>4, LoseInTrip
<1>5. CASE UNCHANGED vars
  BY <1>5, StutterInTrip
<1> QED
  BY <1>1, <1>2, <1>3, <1>4, <1>5 DEF Next

\* A client whose requests do not overlap holds the token of the very session its
\* cookie stands for, also after a change of ID (VerifyCsrfToken.Handle,
\* Session.Regenerate, Manager.Save, .Block()), whatever other clients do and records
\* are lost, for both drivers and any routes, with the exceptions of the property.
THEOREM ClientsHoldTheirToken == Spec => []TokenRoundTrip
<1>1. OwnershipInv /\ RoundTripInv => TokenRoundTrip
  <2> SUFFICES ASSUME OwnershipInv, RoundTripInv, NEW c \in Client,
                      Busy(c) = {}, Readable(jar[c])
               PROVE  /\ "xsrf" \in paired[c] => xsrf[c] = TokenBehind(jar[c])
                      /\ "page" \in paired[c] => page[c] = TokenBehind(jar[c])
    BY DEF TokenRoundTrip
  <2>1. Settled(c)
    BY DEF RoundTripInv, ClientInv
  <2>2. Matches(c, Load(jar[c], None).token)
    BY <2>1, LoadedIsBehind
  <2>3. Load(jar[c], None).token = TokenBehind(jar[c])
    BY DEF Load, TokenBehind
  <2> QED
    BY <2>2, <2>3 DEF Matches, Held
<1> QED
  BY <1>1, RoundTripInit, RoundTripStep, OwnershipHolds, PTL DEF Spec
=============================================================================

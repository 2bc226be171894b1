--------------------------- MODULE SessionEngine ---------------------------
(***************************************************************************)
(* The ID-based session engine under concurrent requests: the StartSession *)
(* middleware, the .Block() middleware nested inside it, Manager.Load and  *)
(* Manager.Save, the lock registry and the "memory" and "file" handlers.   *)
(*                                                                         *)
(* One process per HTTP request.  The steps of a request are its accesses  *)
(* to what requests share: the store, the lock registry, and the cookie    *)
(* jar of the client that sent it.  Everything else a request does is      *)
(* folded into the step next to it: so are the csrf, auth and role         *)
(* middleware, which run between StartSession and .Block() and may put     *)
(* something in the session or answer the request themselves.              *)
(*                                                                         *)
(* A session's data is the set of requests whose update it contains: all   *)
(* that the properties tell apart is whose updates a record holds.         *)
(***************************************************************************)
EXTENDS Naturals

CONSTANTS
    Request,      \* HTTP requests, each handled once
    Client,       \* browsers, each with one cookie jar
    ClientOf,     \* the client that sends a request
    Route,        \* the routes a request may match, see RouteType
    Driver,       \* "memory" or "file"
    MaxRestarts,  \* bound on process restarts
    MaxSweeps,    \* bound on calls of Manager.Gc
    Foreign,      \* a well-formed ID this server's store never held
    None          \* no cookie; no lock holder

Op == {"read", "put", "regenerate", "login", "invalidate"}

RouteType ==
    [guarded : BOOLEAN,   \* csrf, auth or role runs before .Block() and the handler
     blocked : BOOLEAN,   \* carries .Block()
     patient : BOOLEAN,   \* .Block(0): waits for the lock without a deadline
     op : Op,             \* what the handler does to the session
     panics : BOOLEAN]    \* the handler may panic (Validate, Abort, a bug)

\* Before a request is matched.
NoRoute == [guarded |-> FALSE, blocked |-> FALSE, patient |-> FALSE, op |-> "read",
            panics |-> FALSE]

ASSUME ClientOfAssumption == ClientOf \in [Request -> Client]
ASSUME RouteAssumption == Route \subseteq RouteType
ASSUME DriverAssumption == Driver \in {"memory", "file"}
ASSUME BoundAssumption == MaxRestarts \in Nat /\ MaxSweeps \in Nat

\* A random 256-bit ID is never generated twice, so it is named by the request
\* and the call of generateRandomToken that makes it: in the first Load, in the
\* reload under .Block(), or in the handler (Regenerate, Invalidate).
Minting == {"start", "reload", "handler"}
Token(r, place) == <<r, place>>

\* The session a client already has when the model starts.
Prior(c) == <<c, "prior">>

Id == (Request \X Minting) \cup (Client \X {"prior"}) \cup {Foreign}

ASSUME SentinelAssumption ==
    /\ None \notin Id \cup Request
    /\ Foreign \notin (Request \X Minting) \cup (Client \X {"prior"})

\* A session in memory, and what a handler stores under an ID.  A "torn" file
\* has been truncated by os.WriteFile and not written yet; "items" then still
\* names its last complete contents, which no read returns.
Session == [id : Id, items : SUBSET Request]
Record == [status : {"absent", "whole", "torn"}, items : SUBSET Request]

Absent == [status |-> "absent", items |-> {}]
Whole(items) == [status |-> "whole", items |-> items]

Pc == {"idle", "load", "lock", "reload", "handle", "save", "write", "fill",
       "unwind", "done", "dead"}

VARIABLES
    pc,         \* where each request is
    route,      \* the route it matched
    presented,  \* the session cookie it carried
    sess,       \* Context.session
    orig,       \* SessionOriginalIDKey
    queued,     \* the session cookie in the response headers
    sent,       \* whether the client has received those headers
    jar,        \* the session cookie each client holds
    store,      \* the handler's records
    lock,       \* lockRegistry: who holds each ID's mutex
    retired,    \* history: the IDs whose record a save has destroyed
    unlocked,   \* history: the IDs a request works on, or saves, without the mutex
    restarts, sweeps

vars == <<pc, route, presented, sess, orig, queued, sent, jar, store, lock,
          retired, unlocked, restarts, sweeps>>

\* What a step of a request on its own state leaves alone.
shared == <<jar, store, lock>>
aux == <<retired, unlocked, restarts, sweeps>>

TypeOK ==
    /\ pc \in [Request -> Pc]
    /\ route \in [Request -> RouteType]
    /\ presented \in [Request -> Id \cup {None}]
    /\ sess \in [Request -> Session]
    /\ orig \in [Request -> Id]
    /\ queued \in [Request -> Id \cup {None}]
    /\ sent \in [Request -> BOOLEAN]
    /\ jar \in [Client -> Id \cup {None}]
    /\ store \in [Id -> Record]
    /\ lock \in [Id -> Request \cup {None}]
    /\ retired \subseteq Id
    /\ unlocked \subseteq Id
    /\ restarts \in Nat
    /\ sweeps \in Nat

----------------------------------------------------------------------------
(* Helpers *)

\* Handler.Read returned a payload that decodes: an unset cookie, an unknown
\* ID, an empty and a half-written file are all "no session yet".
Readable(cookie) == cookie \in Id /\ store[cookie].status = "whole"

\* Mutant of Load: the cookie's value becomes the ID of the new session.
LoadAdopting(cookie, fresh) ==
    [id    |-> IF cookie \in Id THEN cookie ELSE fresh,
     items |-> IF Readable(cookie) THEN store[cookie].items ELSE {}]

\* Mutant of Load: no check for an unset cookie.
LoadUnchecked(cookie, fresh) ==
    [id    |-> cookie,
     items |-> IF Readable(cookie) THEN store[cookie].items ELSE {}]

\* Manager.Load: the stored session, or a new one under the fresh ID.
Load(cookie, fresh) ==
    IF Readable(cookie)
    THEN [id |-> cookie, items |-> store[cookie].items]
    ELSE [id |-> fresh, items |-> {}]

\* What the handler leaves in Context.session.  Login is Put followed by
\* RegenerateSession, as AuthController.Login does it.
AfterOp(op, s, r) ==
    [id    |-> IF op \in {"regenerate", "login", "invalidate"}
               THEN Token(r, "handler") ELSE s.id,
     items |-> IF op = "invalidate" THEN {}
               ELSE IF op \in {"put", "login"} THEN s.items \cup {r}
               ELSE s.items]

Goto(r, label) == pc' = [pc EXCEPT ![r] = label]

----------------------------------------------------------------------------
Init ==
    /\ pc = [r \in Request |-> "idle"]
    /\ route = [r \in Request |-> NoRoute]
    /\ presented = [r \in Request |-> None]
    /\ sess = [r \in Request |-> [id |-> Token(r, "start"), items |-> {}]]
    /\ orig = [r \in Request |-> Token(r, "start")]
    /\ queued = [r \in Request |-> None]
    /\ sent = [r \in Request |-> FALSE]
    /\ jar \in {j \in [Client -> Id \cup {None}] :
                    \A c \in Client : j[c] \in {Prior(c), Foreign, None}}
    /\ store = [i \in Id |->
                    IF \E c \in Client : i = Prior(c) /\ jar[c] = i
                    THEN Whole({}) ELSE Absent]
    /\ lock = [i \in Id |-> None]
    /\ retired = {}
    /\ unlocked = {}
    /\ restarts = 0
    /\ sweeps = 0

\* The client sends a request with the cookie it holds now.
Arrive(r) ==
    /\ pc[r] = "idle"
    /\ \E rt \in Route : route' = [route EXCEPT ![r] = rt]
    /\ presented' = [presented EXCEPT ![r] = jar[ClientOf[r]]]
    /\ Goto(r, "load")
    /\ UNCHANGED <<sess, orig, queued, sent, shared, aux>>

\* StartSession.Handle up to next(): load with no lock held, record the
\* original ID, queue the cookie.  Then csrf may put its token, and auth a
\* remembered user, in the session that was loaded.
Started(r) ==
    /\ pc[r] = "load"
    /\ \E own \in IF route[r].guarded THEN SUBSET {r} ELSE {{}} :
           LET s == Load(presented[r], Token(r, "start")) IN
               /\ sess' = [sess EXCEPT ![r] = [id |-> s.id, items |-> s.items \cup own]]
               /\ orig' = [orig EXCEPT ![r] = s.id]
               /\ queued' = [queued EXCEPT ![r] = s.id]

\* The request goes on to .Block(), or straight to the handler.
StartSession(r) ==
    /\ Started(r)
    /\ Goto(r, IF route[r].blocked THEN "lock" ELSE "handle")
    /\ unlocked' = IF route[r].blocked THEN unlocked ELSE unlocked \cup {orig'[r]}
    /\ UNCHANGED <<route, presented, sent, shared, retired, restarts, sweeps>>

\* csrf, auth or role answers without next(): the request never comes to
\* .Block(), and StartSession saves what it loaded, with no lock held.
TurnedAway(r) ==
    /\ route[r].guarded
    /\ Started(r)
    /\ Goto(r, "save")
    /\ unlocked' = unlocked \cup {orig'[r]}
    /\ UNCHANGED <<route, presented, sent, shared, retired, restarts, sweeps>>

\* Mutant of AcquireLock: the mutex is taken without looking at its holder.
AcquireAnyway(r) ==
    /\ pc[r] = "lock"
    /\ lock' = [lock EXCEPT ![orig[r]] = r]
    /\ Goto(r, "reload")
    /\ UNCHANGED <<route, presented, sess, orig, queued, sent, jar, store, aux>>

\* lockRegistry.acquire succeeds (Lock or TryLock).
AcquireLock(r) ==
    /\ pc[r] = "lock"
    /\ lock[orig[r]] = None
    /\ lock' = [lock EXCEPT ![orig[r]] = r]
    /\ Goto(r, "reload")
    /\ UNCHANGED <<route, presented, sess, orig, queued, sent, jar, store, aux>>

\* acquire gives up after a failed TryLock past the deadline: the request goes
\* on without the lock.
GiveUpLock(r) ==
    /\ pc[r] = "lock"
    /\ ~route[r].patient
    /\ lock[orig[r]] # None
    /\ Goto(r, "reload")
    /\ unlocked' = unlocked \cup {orig[r]}
    /\ UNCHANGED <<route, presented, sess, orig, queued, sent, shared, retired, restarts,
                   sweeps>>

\* Mutant of Reload: the middleware only locks, and keeps the session that
\* StartSession loaded.
ReloadNothing(r) ==
    /\ pc[r] = "reload"
    /\ Goto(r, "handle")
    /\ UNCHANGED <<route, presented, sess, orig, queued, sent, shared, aux>>

\* Mutant of Reload: the queued cookie is not repaired.
ReloadKeepCookie(r) ==
    /\ pc[r] = "reload"
    /\ sess' = [sess EXCEPT ![r] = Load(orig[r], Token(r, "reload"))]
    /\ Goto(r, "handle")
    /\ UNCHANGED <<route, presented, orig, queued, sent, shared, aux>>

\* The .Block() middleware loads again and repairs the queued cookie when the
\* record is gone.
Reload(r) ==
    /\ pc[r] = "reload"
    /\ LET s == Load(orig[r], Token(r, "reload")) IN
           /\ sess' = [sess EXCEPT ![r] = s]
           /\ queued' = IF s.id # orig[r] THEN [queued EXCEPT ![r] = s.id] ELSE queued
    /\ Goto(r, "handle")
    /\ UNCHANGED <<route, presented, orig, sent, shared, aux>>

\* The handler works on Context.session; RegenerateSession and
\* InvalidateSession also rewrite the queued cookie.
Work(r, op) ==
    LET s == AfterOp(op, sess[r], r) IN
        /\ sess' = [sess EXCEPT ![r] = s]
        /\ queued' = IF s.id # sess[r].id THEN [queued EXCEPT ![r] = s.id] ELSE queued

\* Mutant of HandlerReturns: the lock is released before the save, which is left
\* to StartSession's after-phase.
UnlockBeforeSave(r) ==
    /\ pc[r] = "handle"
    /\ Work(r, route[r].op)
    /\ lock' = IF lock[orig[r]] = r THEN [lock EXCEPT ![orig[r]] = None] ELSE lock
    /\ Goto(r, "save")
    /\ UNCHANGED <<route, presented, orig, sent, jar, store, aux>>

HandlerReturns(r) ==
    /\ pc[r] = "handle"
    /\ Work(r, route[r].op)
    /\ Goto(r, "save")
    /\ UNCHANGED <<route, presented, orig, sent, shared, aux>>

\* Mutant of HandlerPanics: the unlock is not deferred.
PanicKeepingLock(r) ==
    /\ pc[r] = "handle"
    /\ route[r].panics
    /\ \E op \in {"read", route[r].op} : Work(r, op)
    /\ Goto(r, "done")
    /\ UNCHANGED <<route, presented, orig, sent, shared, aux>>

\* A panic, before or after the session was changed, skips every save.
HandlerPanics(r) ==
    /\ pc[r] = "handle"
    /\ route[r].panics
    /\ \E op \in {"read", route[r].op} : Work(r, op)
    /\ Goto(r, "unwind")
    /\ UNCHANGED <<route, presented, orig, sent, shared, aux>>

\* Manager.Save, first half: the record of a replaced ID is destroyed.
DestroyOriginal(r) ==
    /\ pc[r] = "save"
    /\ store' = IF sess[r].id # orig[r]
                THEN [store EXCEPT ![orig[r]] = Absent] ELSE store
    /\ retired' = IF sess[r].id # orig[r] THEN retired \cup {orig[r]} ELSE retired
    /\ Goto(r, "write")
    /\ UNCHANGED <<route, presented, sess, orig, queued, sent, jar, lock, unlocked, restarts,
                   sweeps>>

\* Manager.Save, second half, with the memory handler: one map assignment.
WriteMemory(r) ==
    /\ pc[r] = "write"
    /\ Driver = "memory"
    /\ store' = [store EXCEPT ![sess[r].id] = Whole(sess[r].items)]
    /\ Goto(r, "unwind")
    /\ UNCHANGED <<route, presented, sess, orig, queued, sent, jar, lock, aux>>

\* With the file handler: os.WriteFile truncates, then writes.
TruncateFile(r) ==
    /\ pc[r] = "write"
    /\ Driver = "file"
    /\ store' = [store EXCEPT ![sess[r].id].status = "torn"]
    /\ Goto(r, "fill")
    /\ UNCHANGED <<route, presented, sess, orig, queued, sent, jar, lock, aux>>

FillFile(r) ==
    /\ pc[r] = "fill"
    /\ store' = [store EXCEPT ![sess[r].id] = Whole(sess[r].items)]
    /\ Goto(r, "unwind")
    /\ UNCHANGED <<route, presented, sess, orig, queued, sent, jar, lock, aux>>

\* encode fails: Save returns before it touches the store.  Only a value that
\* this request has put can fail, what was loaded came out of JSON.
EncodeFails(r) ==
    /\ pc[r] = "save"
    /\ r \in sess[r].items
    /\ Goto(r, "unwind")
    /\ UNCHANGED <<route, presented, sess, orig, queued, sent, shared, aux>>

\* The error of Handler.Destroy is dropped: the old record stays.  (Removing a
\* file that is gone already is no error.)
DestroyFails(r) ==
    /\ pc[r] = "save"
    /\ Driver = "file"
    /\ sess[r].id # orig[r]
    /\ store[orig[r]].status # "absent"
    /\ Goto(r, "write")
    /\ UNCHANGED <<route, presented, sess, orig, queued, sent, shared, aux>>

\* Mutant of WriteFails: the error of a failed save becomes a panic that skips
\* the deferred unlock.
WriteFailsLocked(r) ==
    /\ pc[r] \in {"write", "fill"}
    /\ Driver = "file"
    /\ Goto(r, "done")
    /\ UNCHANGED <<route, presented, sess, orig, queued, sent, shared, aux>>

\* Handler.Write fails, before or after the file was truncated: both callers of
\* Save drop the error.
WriteFails(r) ==
    /\ pc[r] \in {"write", "fill"}
    /\ Driver = "file"
    /\ Goto(r, "unwind")
    /\ UNCHANGED <<route, presented, sess, orig, queued, sent, shared, aux>>

\* Mutant of Unwind: SessionSavedKey is not looked at, and StartSession saves the
\* session once more when the mutex is free again.
UnwindSavingAgain(r) ==
    /\ pc[r] = "unwind"
    /\ lock' = IF lock[orig[r]] = r THEN [lock EXCEPT ![orig[r]] = None] ELSE lock
    /\ Goto(r, IF lock[orig[r]] = r THEN "write" ELSE "done")
    /\ UNCHANGED <<route, presented, sess, orig, queued, sent, jar, store, aux>>

\* The deferred unlock, after a save or through a panic.
Unwind(r) ==
    /\ pc[r] = "unwind"
    /\ lock' = IF lock[orig[r]] = r THEN [lock EXCEPT ![orig[r]] = None] ELSE lock
    /\ Goto(r, "done")
    /\ UNCHANGED <<route, presented, sess, orig, queued, sent, jar, store, aux>>

\* The response headers reach the client: any time after the handler wrote its
\* response, so possibly before the session is saved.
Deliver(r) ==
    /\ pc[r] \in {"save", "write", "fill", "unwind", "done"}
    /\ ~sent[r]
    /\ sent' = [sent EXCEPT ![r] = TRUE]
    /\ jar' = [jar EXCEPT ![ClientOf[r]] = queued[r]]
    /\ UNCHANGED <<pc, route, presented, sess, orig, queued, store, lock, aux>>

\* A request is between the two halves of os.WriteFile on this record.
BeingWritten(i) == \E r \in Request : pc[r] = "fill" /\ sess[r].id = i

\* Manager.Gc: the records that have outlived the lifetime go; a file that is
\* being written was modified just now.
Gc ==
    /\ sweeps < MaxSweeps
    /\ sweeps' = sweeps + 1
    /\ \E old \in SUBSET {i \in Id : store[i].status # "absent" /\ ~BeingWritten(i)} :
           /\ old # {}
           /\ store' = [i \in Id |-> IF i \in old THEN Absent ELSE store[i]]
    /\ UNCHANGED <<pc, route, presented, sess, orig, queued, sent, jar, lock, retired, unlocked,
                   restarts>>

\* The process dies and starts again: its requests and mutexes are gone, and
\* so is the memory handler's map; files stay as they are.
Restart ==
    /\ restarts < MaxRestarts
    /\ restarts' = restarts + 1
    /\ pc' = [r \in Request |-> IF pc[r] \in {"idle", "done"} THEN pc[r] ELSE "dead"]
    /\ lock' = [i \in Id |-> None]
    /\ store' = IF Driver = "memory" THEN [i \in Id |-> Absent] ELSE store
    /\ UNCHANGED <<route, presented, sess, orig, queued, sent, jar, retired, unlocked, sweeps>>

\* Every request has been handled: the server waits.
Quiescent ==
    /\ \A r \in Request : pc[r] \in {"done", "dead"}
    /\ UNCHANGED vars

Handling(r) ==
    \/ StartSession(r)
    \/ TurnedAway(r)
    \/ AcquireLock(r)
    \/ GiveUpLock(r)
    \/ Reload(r)
    \/ HandlerReturns(r)
    \/ HandlerPanics(r)
    \/ DestroyOriginal(r)
    \/ WriteMemory(r)
    \/ TruncateFile(r)
    \/ FillFile(r)
    \/ EncodeFails(r)
    \/ DestroyFails(r)
    \/ WriteFails(r)
    \/ Unwind(r)

Next ==
    \/ \E r \in Request : Arrive(r) \/ Handling(r) \/ Deliver(r)
    \/ Gc
    \/ Restart
    \/ Quiescent

Spec == Init /\ [][Next]_vars

\* A goroutine that can take its next step takes it.  Nothing makes a client
\* send a request or receive a response, and nothing calls Gc.
FairSpec == Spec /\ \A r \in Request : WF_vars(Handling(r))

----------------------------------------------------------------------------
(* Properties *)

\* No request ever works on a session that holds another client's data: an ID
\* reaches only the client it was generated for, and Load never adopts an ID it
\* did not find, even one that two clients present (Manager.Load).
ConfinedToClient ==
    \A r \in Request : \A q \in sess[r].items : ClientOf[q] = ClientOf[r]

\* The cookie queued before next() follows every change of the session's ID: by
\* the reload under .Block(), by RegenerateSession and by InvalidateSession.  A
\* client is never left with the ID of a record that its own request replaced.
CookieNamesSession ==
    \A r \in Request : pc[r] \notin {"idle", "load", "dead"} => queued[r] = sess[r].id

\* A mutex is held only for the request's own original ID, and only between
\* acquire and the deferred unlock: not after a panic, a timeout or a restart.
LocksHaveOwners ==
    \A i \in Id : lock[i] # None =>
        /\ orig[lock[i]] = i
        /\ pc[lock[i]] \in {"reload", "handle", "save", "write", "fill", "unwind"}

\* Under .Block() a request that holds the lock works on what the store holds: no
\* other request has written the record since the reload (SessionBlock.go, "start
\* from the freshest available state").  Not so once some request has worked on
\* that session, or was turned away with it, outside the lock: here and below, only
\* the sessions that this has happened to are exempt, whatever else goes on.
LockedCopyIsCurrent ==
    \A r \in Request :
        /\ pc[r] = "handle"
        /\ lock[orig[r]] = r
        /\ orig[r] \notin unlocked
        /\ store[orig[r]].status = "whole"
        => sess[r] = [id |-> orig[r], items |-> store[orig[r]].items]

\* A save never drops an update that the record it replaces holds: the lost
\* update that .Block() exists to prevent.  A session whose requests all came
\* through the lock has none, and an unblocked, timed-out or turned-away request
\* costs no session but its own an update.
NoLostUpdate ==
    [][\A i \in Id \ unlocked :
           /\ store[i].status # "absent"
           /\ store'[i].status # "absent"
           => store[i].items \subseteq store'[i].items]_store

\* Once a save has destroyed the record of a replaced ID, no later save of any
\* request brings a record back under that ID (Manager.Save), unless some request
\* had loaded it to save it without the lock.
RetiredStaysGone ==
    \A i \in retired \ unlocked : store[i].status = "absent"

\* Every request is answered or dies with the process: a panicking, slow or
\* timed-out holder of a mutex never leaves another request waiting for ever.
EveryRequestEnds ==
    \A r \in Request : pc[r] = "load" ~> pc[r] \in {"done", "dead"}
============================================================================

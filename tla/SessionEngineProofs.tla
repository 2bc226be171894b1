------------------------ MODULE SessionEngineProofs ------------------------
(* Proofs about SessionEngine, for every number of requests and clients and *)
(* every mix of routes; that it implements SerialSession; and about what one *)
(* session holds (FlashData), for every set of keys.                         *)
EXTENDS SessionRefinement, FlashData, TLAPS

USE ClientOfAssumption, RouteAssumption, DriverAssumption, BoundAssumption

----------------------------------------------------------------------------
(* Types *)

\* A generated ID is an ID, and neither sentinel.
LEMMA TokenIsId ==
    ASSUME NEW r \in Request, NEW k \in Minting
    PROVE  Token(r, k) \in Id /\ Token(r, k) # None /\ Token(r, k) # Foreign
BY SentinelAssumption DEF Token, Id

\* IDs generated by different calls differ.
LEMMA DistinctTokens ==
    ASSUME NEW r \in Request, NEW q \in Request,
           NEW k \in Minting, NEW l \in Minting, Token(r, k) = Token(q, l)
    PROVE  r = q /\ k = l
BY DEF Token

\* The sentinel for "no cookie, no holder" is no ID and no request.
LEMMA NoneIsNeither == None \notin Id /\ None \notin Request
BY SentinelAssumption

\* Load returns a session.
LEMMA LoadType ==
    ASSUME TypeOK, NEW cookie, NEW fresh \in Id
    PROVE  Load(cookie, fresh) \in Session
BY DEF Load, Readable, TypeOK, Session, Record

\* What StartSession leaves: the session that was loaded, with at most the
\* request's own update, and its ID in the queued cookie.
LEMMA StartedSession ==
    ASSUME TypeOK, NEW r \in Request, Started(r)
    PROVE  \E s \in Session :
               /\ s.id = Load(presented[r], Token(r, "start")).id
               /\ s.items \subseteq Load(presented[r], Token(r, "start")).items \cup {r}
               /\ s.id \in Id
               /\ sess' = [sess EXCEPT ![r] = s]
               /\ orig' = [orig EXCEPT ![r] = s.id]
               /\ queued' = [queued EXCEPT ![r] = s.id]
<1> DEFINE l == Load(presented[r], Token(r, "start"))
<1>1. l \in Session
  BY LoadType, TokenIsId DEF Minting
<1>2. PICK own \in SUBSET {r} :
          /\ sess' = [sess EXCEPT ![r] = [id |-> l.id, items |-> l.items \cup own]]
          /\ orig' = [orig EXCEPT ![r] = l.id]
          /\ queued' = [queued EXCEPT ![r] = l.id]
  BY DEF Started
<1> HIDE DEF l
<1>3. [id |-> l.id, items |-> l.items \cup own] \in Session
  BY <1>1 DEF Session
<1>4. WITNESS [id |-> l.id, items |-> l.items \cup own] \in Session
<1> QED
  BY <1>1, <1>2 DEF l, Session

\* A handler leaves a session.
LEMMA AfterOpType ==
    ASSUME NEW s \in Session, NEW r \in Request, NEW op
    PROVE  AfterOp(op, s, r) \in Session
BY TokenIsId DEF AfterOp, Session, Minting

\* What a save stores is a record.
LEMMA RecordType ==
    /\ Absent \in Record
    /\ \A items \in SUBSET Request : Whole(items) \in Record
BY DEF Whole, Absent, Record

\* What a save does to the store keeps it a store of records.
LEMMA RecordsTyped ==
    ASSUME TypeOK, NEW r \in Request,
           \/ store' = store
           \/ store' = [store EXCEPT ![orig[r]] = Absent]
           \/ store' = [store EXCEPT ![sess[r].id] = Whole(sess[r].items)]
           \/ store' = [store EXCEPT ![sess[r].id].status = "torn"]
    PROVE  store' \in [Id -> Record]
<1>1. store \in [Id -> Record]
  BY DEF TypeOK
<1>2. Absent \in Record /\ Whole(sess[r].items) \in Record
  BY RecordType DEF TypeOK, Session
<1>3. CASE store' = store
  BY <1>1, <1>3
<1>4. CASE store' = [store EXCEPT ![orig[r]] = Absent]
  BY <1>1, <1>2, <1>4
<1>5. CASE store' = [store EXCEPT ![sess[r].id] = Whole(sess[r].items)]
  BY <1>1, <1>2, <1>5
<1>6. CASE store' = [store EXCEPT ![sess[r].id].status = "torn"]
  BY <1>1, <1>6 DEF Record
<1> QED
  BY <1>3, <1>4, <1>5, <1>6

\* The initial states are typed.
LEMMA TypeInit == Init => TypeOK
<1> SUFFICES ASSUME Init PROVE TypeOK
  OBVIOUS
<1>1. /\ pc \in [Request -> Pc]
      /\ route \in [Request -> RouteType]
      /\ presented \in [Request -> Id \cup {None}]
      /\ queued \in [Request -> Id \cup {None}]
      /\ sent \in [Request -> BOOLEAN]
      /\ jar \in [Client -> Id \cup {None}]
  BY DEF Init, Pc, RouteType, NoRoute, Op
<1>2. sess \in [Request -> Session] /\ orig \in [Request -> Id]
  BY TokenIsId DEF Init, Session, Minting
<1>3. store \in [Id -> Record]
  BY RecordType DEF Init
<1>4. lock \in [Id -> Request \cup {None}]
  BY DEF Init
<1>5. retired \subseteq Id /\ unlocked \subseteq Id /\ restarts \in Nat /\ sweeps \in Nat
  BY DEF Init
<1> QED
  BY <1>1, <1>2, <1>3, <1>4, <1>5 DEF TypeOK

\* Every step keeps the types.
LEMMA TypeStep == TypeOK /\ [Next]_vars => TypeOK'
<1> SUFFICES ASSUME TypeOK, [Next]_vars PROVE TypeOK'
  OBVIOUS
<1> USE DEF TypeOK, shared, aux, Goto, Pc
<1>1. ASSUME NEW r \in Request, Arrive(r) PROVE TypeOK'
  BY <1>1 DEF Arrive
<1>2. ASSUME NEW r \in Request, StartSession(r) \/ TurnedAway(r) PROVE TypeOK'
  <2>1. PICK s \in Session :
            /\ s.id \in Id
            /\ sess' = [sess EXCEPT ![r] = s]
            /\ orig' = [orig EXCEPT ![r] = s.id]
            /\ queued' = [queued EXCEPT ![r] = s.id]
    BY <1>2, StartedSession DEF StartSession, TurnedAway
  <2>2. orig'[r] \in Id
    BY <2>1
  <2> QED
    BY <1>2, <2>1, <2>2 DEF StartSession, TurnedAway
<1>3. ASSUME NEW r \in Request, AcquireLock(r) PROVE TypeOK'
  BY <1>3 DEF AcquireLock
<1>4. ASSUME NEW r \in Request, GiveUpLock(r) PROVE TypeOK'
  BY <1>4 DEF GiveUpLock
<1>5. ASSUME NEW r \in Request, Reload(r) PROVE TypeOK'
  <2> DEFINE s == Load(orig[r], Token(r, "reload"))
  <2>1. s \in Session
    BY LoadType, TokenIsId DEF Minting
  <2>2. s.id \in Id
    BY <2>1 DEF Session
  <2> HIDE DEF s
  <2>3. /\ sess' = [sess EXCEPT ![r] = s]
        /\ queued' = IF s.id # orig[r] THEN [queued EXCEPT ![r] = s.id] ELSE queued
    BY <1>5 DEF Reload, s
  <2> QED
    BY <1>5, <2>1, <2>2, <2>3 DEF Reload
<1>6. ASSUME NEW r \in Request, NEW op, Work(r, op)
      PROVE  sess' \in [Request -> Session] /\ queued' \in [Request -> Id \cup {None}]
  <2> DEFINE s == AfterOp(op, sess[r], r)
  <2>1. s \in Session
    BY AfterOpType
  <2>2. s.id \in Id
    BY <2>1 DEF Session
  <2> HIDE DEF s
  <2>3. /\ sess' = [sess EXCEPT ![r] = s]
        /\ queued' = IF s.id # sess[r].id THEN [queued EXCEPT ![r] = s.id] ELSE queued
    BY <1>6 DEF Work, s
  <2> QED
    BY <2>1, <2>2, <2>3
<1>7. ASSUME NEW r \in Request, HandlerReturns(r) PROVE TypeOK'
  BY <1>6, <1>7 DEF HandlerReturns
<1>8. ASSUME NEW r \in Request, HandlerPanics(r) PROVE TypeOK'
  <2>1. PICK op \in {"read", route[r].op} : Work(r, op)
    BY <1>8 DEF HandlerPanics
  <2> QED
    BY <1>6, <1>8, <2>1 DEF HandlerPanics
<1>9. ASSUME NEW r \in Request, DestroyOriginal(r) PROVE TypeOK'
  BY <1>9, RecordType DEF DestroyOriginal
<1>10. ASSUME NEW r \in Request, WriteMemory(r) \/ FillFile(r) PROVE TypeOK'
  <2>1. Whole(sess[r].items) \in Record
    BY RecordType DEF Session
  <2> QED
    BY <1>10, <2>1 DEF WriteMemory, FillFile
<1>11. ASSUME NEW r \in Request, TruncateFile(r) PROVE TypeOK'
  BY <1>11 DEF TruncateFile, Record
<1>12. ASSUME NEW r \in Request,
              Unwind(r) \/ EncodeFails(r) \/ DestroyFails(r) \/ WriteFails(r)
       PROVE  TypeOK'
  BY <1>12 DEF Unwind, EncodeFails, DestroyFails, WriteFails
<1>13. ASSUME NEW r \in Request, Deliver(r) PROVE TypeOK'
  BY <1>13 DEF Deliver
<1>14. CASE Gc
  <2>1. PICK old \in SUBSET {i \in Id : store[i].status # "absent" /\ ~BeingWritten(i)} :
            store' = [i \in Id |-> IF i \in old THEN Absent ELSE store[i]]
    BY <1>14 DEF Gc
  <2>2. store' \in [Id -> Record]
    BY <2>1, RecordType
  <2> QED
    BY <1>14, <2>2 DEF Gc
<1>15. CASE Restart
  BY <1>15, RecordType DEF Restart
<1>16. CASE Quiescent \/ UNCHANGED vars
  BY <1>16 DEF Quiescent, vars
<1> QED
  BY <1>1, <1>2, <1>3, <1>4, <1>5, <1>7, <1>8, <1>9, <1>10, <1>11, <1>12,
     <1>13, <1>14, <1>15, <1>16 DEF Next, Handling

\* The variables keep their types: IDs and cookies are IDs, a session's data is
\* made of requests.
THEOREM TypeCorrect == Spec => []TypeOK
BY TypeInit, TypeStep, PTL DEF Spec

----------------------------------------------------------------------------
(* The lock discipline *)

Critical == {"reload", "handle", "save", "write", "fill", "unwind"}

\* A mutex is held only inside its request's critical section: it is free again
\* after a panic, a timeout and a restart.
THEOREM LockDiscipline == Spec => []LocksHaveOwners
<1>1. Init => LocksHaveOwners
  BY DEF Init, LocksHaveOwners
<1>2. TypeOK /\ LocksHaveOwners /\ [Next]_vars => LocksHaveOwners'
  <2> SUFFICES ASSUME TypeOK, LocksHaveOwners, [Next]_vars PROVE LocksHaveOwners'
    OBVIOUS
  <2> USE NoneIsNeither DEF TypeOK, LocksHaveOwners, shared, aux, Goto
  <2>1. ASSUME NEW r \in Request, Arrive(r) PROVE LocksHaveOwners'
    BY <2>1 DEF Arrive
  <2>2. ASSUME NEW r \in Request, StartSession(r) \/ TurnedAway(r) PROVE LocksHaveOwners'
    <3>1. PICK s \in Session : orig' = [orig EXCEPT ![r] = s.id]
      BY <2>2, StartedSession DEF StartSession, TurnedAway
    <3> QED
      BY <2>2, <3>1 DEF StartSession, TurnedAway, Started
  <2>3. ASSUME NEW r \in Request, AcquireLock(r) PROVE LocksHaveOwners'
    BY <2>3 DEF AcquireLock
  <2>4. ASSUME NEW r \in Request, GiveUpLock(r) \/ Reload(r) PROVE LocksHaveOwners'
    BY <2>4 DEF GiveUpLock, Reload
  <2>5. ASSUME NEW r \in Request, HandlerReturns(r) \/ HandlerPanics(r)
        PROVE  LocksHaveOwners'
    BY <2>5 DEF HandlerReturns, HandlerPanics
  <2>6. ASSUME NEW r \in Request,
               DestroyOriginal(r) \/ WriteMemory(r) \/ TruncateFile(r) \/ FillFile(r)
        PROVE  LocksHaveOwners'
    BY <2>6 DEF DestroyOriginal, WriteMemory, TruncateFile, FillFile
  <2>7. ASSUME NEW r \in Request,
               Unwind(r) \/ EncodeFails(r) \/ DestroyFails(r) \/ WriteFails(r)
        PROVE  LocksHaveOwners'
    BY <2>7 DEF Unwind, EncodeFails, DestroyFails, WriteFails
  <2>8. ASSUME NEW r \in Request, Deliver(r) PROVE LocksHaveOwners'
    BY <2>8 DEF Deliver
  <2>9. CASE Gc \/ Quiescent \/ UNCHANGED vars
    BY <2>9 DEF Gc, Quiescent, vars
  <2>10. CASE Restart
    BY <2>10 DEF Restart
  <2> QED
    BY <2>1, <2>2, <2>3, <2>4, <2>5, <2>6, <2>7, <2>8, <2>9, <2>10 DEF Next, Handling
<1> QED
  BY <1>1, <1>2, TypeCorrect, PTL DEF Spec

----------------------------------------------------------------------------
(* The session cookie *)

\* Before the reload the session still has its original ID.
CookieInv ==
    /\ CookieNamesSession
    /\ \A r \in Request : pc[r] \in {"lock", "reload"} => sess[r].id = orig[r]

\* The queued cookie follows the session's ID through every step of a request.
THEOREM CookieFollowsSession == Spec => []CookieNamesSession
<1>1. Init => CookieInv
  BY DEF Init, CookieInv, CookieNamesSession
<1>2. TypeOK /\ CookieInv /\ [Next]_vars => CookieInv'
  <2> SUFFICES ASSUME TypeOK, CookieInv, [Next]_vars PROVE CookieInv'
    OBVIOUS
  <2> USE DEF TypeOK, CookieInv, CookieNamesSession, shared, aux, Goto
  <2>1. ASSUME NEW r \in Request, Arrive(r) PROVE CookieInv'
    BY <2>1 DEF Arrive
  <2>2. ASSUME NEW r \in Request, StartSession(r) \/ TurnedAway(r) PROVE CookieInv'
    <3>1. PICK s \in Session :
              /\ sess' = [sess EXCEPT ![r] = s]
              /\ orig' = [orig EXCEPT ![r] = s.id]
              /\ queued' = [queued EXCEPT ![r] = s.id]
      BY <2>2, StartedSession DEF StartSession, TurnedAway
    <3> QED
      BY <2>2, <3>1 DEF StartSession, TurnedAway
  <2>3. ASSUME NEW r \in Request, AcquireLock(r) \/ GiveUpLock(r) PROVE CookieInv'
    BY <2>3 DEF AcquireLock, GiveUpLock
  <2>4. ASSUME NEW r \in Request, Reload(r) PROVE CookieInv'
    <3> DEFINE s == Load(orig[r], Token(r, "reload"))
    <3>1. s \in Session
      BY LoadType, TokenIsId DEF Minting
    <3> HIDE DEF s
    <3>2. /\ sess' = [sess EXCEPT ![r] = s]
          /\ queued' = IF s.id # orig[r] THEN [queued EXCEPT ![r] = s.id] ELSE queued
      BY <2>4 DEF Reload, s
    <3> QED
      BY <2>4, <3>1, <3>2 DEF Reload
  <2>5. ASSUME NEW r \in Request, NEW op, Work(r, op), pc[r] = "handle",
               NEW label \in {"save", "unwind"}, Goto(r, label), UNCHANGED orig
        PROVE  CookieInv'
    <3> DEFINE s == AfterOp(op, sess[r], r)
    <3>1. s \in Session
      BY AfterOpType
    <3> HIDE DEF s
    <3>2. /\ sess' = [sess EXCEPT ![r] = s]
          /\ queued' = IF s.id # sess[r].id THEN [queued EXCEPT ![r] = s.id] ELSE queued
      BY <2>5 DEF Work, s
    <3> QED
      BY <2>5, <3>1, <3>2
  <2>6. ASSUME NEW r \in Request, HandlerReturns(r) \/ HandlerPanics(r)
        PROVE  CookieInv'
    BY <2>5, <2>6 DEF HandlerReturns, HandlerPanics
  <2>7. ASSUME NEW r \in Request,
               \/ DestroyOriginal(r) \/ WriteMemory(r) \/ TruncateFile(r)
               \/ FillFile(r) \/ EncodeFails(r) \/ DestroyFails(r) \/ WriteFails(r)
               \/ Unwind(r) \/ Deliver(r)
        PROVE  CookieInv'
    BY <2>7 DEF DestroyOriginal, WriteMemory, TruncateFile, FillFile, EncodeFails,
       DestroyFails, WriteFails, Unwind, Deliver
  <2>8. CASE Gc \/ Restart \/ Quiescent \/ UNCHANGED vars
    BY <2>8 DEF Gc, Restart, Quiescent, vars
  <2> QED
    BY <2>1, <2>2, <2>3, <2>4, <2>6, <2>7, <2>8 DEF Next, Handling
<1>3. CookieInv => CookieNamesSession
  BY DEF CookieInv
<1> QED
  BY <1>1, <1>2, <1>3, TypeCorrect, PTL DEF Spec

----------------------------------------------------------------------------
(* Sessions of different clients *)

\* The IDs generated for a client's requests.
Owns(c, i) ==
    \/ i = Prior(c)
    \/ \E r \in Request : \E k \in Minting : ClientOf[r] = c /\ i = Token(r, k)

Items(c) == {q \in Request : ClientOf[q] = c}

\* Every ID in a request's or a client's hands is its own, unknown, or unset,
\* and the records under a client's IDs hold that client's updates only.
OwnershipInv ==
    /\ \A r \in Request :
           /\ Owns(ClientOf[r], sess[r].id)
           /\ Owns(ClientOf[r], orig[r])
           /\ queued[r] = None \/ Owns(ClientOf[r], queued[r])
           /\ presented[r] \in {None, Foreign} \/ Owns(ClientOf[r], presented[r])
           /\ sess[r].items \subseteq Items(ClientOf[r])
    /\ \A c \in Client :
           /\ jar[c] \in {None, Foreign} \/ Owns(c, jar[c])
           /\ \A i \in Id : Owns(c, i) => store[i].items \subseteq Items(c)
    /\ store[Foreign].status = "absent"

\* An ID generated for a request is its client's.
LEMMA OwnToken ==
    ASSUME NEW r \in Request, NEW k \in Minting
    PROVE  Owns(ClientOf[r], Token(r, k))
BY DEF Owns

\* No ID is generated for two clients.
LEMMA OwnerUnique ==
    ASSUME NEW c \in Client, NEW d \in Client, NEW i, Owns(c, i), Owns(d, i)
    PROVE  c = d
BY DEF Owns, Prior, Token, Minting

\* The unknown ID and the missing cookie are no client's.
LEMMA ForeignUnowned ==
    ASSUME NEW c \in Client
    PROVE  ~Owns(c, Foreign) /\ ~Owns(c, None)
BY SentinelAssumption DEF Owns, Prior, Token, Id

\* No request works on a session holding data of another client's requests.
THEOREM SessionsNeverShared == Spec => []ConfinedToClient
<1>1. Init => OwnershipInv
  <2> SUFFICES ASSUME Init PROVE OwnershipInv
    OBVIOUS
  <2>1. \A i \in Id : store[i].items = {}
    BY DEF Init, Whole, Absent
  <2>2. store[Foreign].status = "absent"
    <3>1. \A c \in Client : Foreign # Prior(c)
      BY ForeignUnowned DEF Owns
    <3> QED
      BY <3>1 DEF Init, Absent, Id
  <2>3. ASSUME NEW r \in Request
        PROVE  Owns(ClientOf[r], Token(r, "start"))
    BY OwnToken DEF Minting
  <2>4. ASSUME NEW c \in Client
        PROVE  jar[c] \in {None, Foreign} \/ Owns(c, jar[c])
    BY DEF Init, Owns
  <2> QED
    BY <2>1, <2>2, <2>3, <2>4 DEF Init, OwnershipInv
<1>2. TypeOK /\ OwnershipInv /\ [Next]_vars => OwnershipInv'
  <2> SUFFICES ASSUME TypeOK, OwnershipInv, [Next]_vars PROVE OwnershipInv'
    OBVIOUS
  <2> USE DEF TypeOK, OwnershipInv, Goto
  <2>1. ASSUME NEW r \in Request, NEW k \in Minting, NEW cookie,
               cookie \in {None, Foreign} \/ Owns(ClientOf[r], cookie)
        PROVE  /\ Load(cookie, Token(r, k)) \in Session
               /\ Owns(ClientOf[r], Load(cookie, Token(r, k)).id)
               /\ Load(cookie, Token(r, k)).items \subseteq Items(ClientOf[r])
    <3>1. Load(cookie, Token(r, k)) \in Session
      BY LoadType, TokenIsId
    <3>2. CASE Readable(cookie)
      <4>1. cookie \in Id /\ cookie # Foreign /\ cookie # None
        BY <3>2, NoneIsNeither DEF Readable
      <4>2. Owns(ClientOf[r], cookie)
        BY <2>1, <4>1
      <4> QED
        BY <3>1, <3>2, <4>1, <4>2 DEF Load
    <3>3. CASE ~Readable(cookie)
      BY <3>1, <3>3, OwnToken DEF Load
    <3> QED
      BY <3>2, <3>3
  <2>2. ASSUME NEW r \in Request, Arrive(r) PROVE OwnershipInv'
    BY <2>2 DEF Arrive, shared
  <2>3. ASSUME NEW r \in Request, StartSession(r) \/ TurnedAway(r) PROVE OwnershipInv'
    <3> DEFINE l == Load(presented[r], Token(r, "start"))
    <3>1. Owns(ClientOf[r], l.id) /\ l.items \subseteq Items(ClientOf[r])
      BY <2>1 DEF Minting
    <3>2. PICK s \in Session :
              /\ s.id = l.id
              /\ s.items \subseteq l.items \cup {r}
              /\ sess' = [sess EXCEPT ![r] = s]
              /\ orig' = [orig EXCEPT ![r] = s.id]
              /\ queued' = [queued EXCEPT ![r] = s.id]
      BY <2>3, StartedSession DEF StartSession, TurnedAway
    <3>3. UNCHANGED <<presented, jar, store>>
      BY <2>3 DEF StartSession, TurnedAway, shared
    <3> HIDE DEF l
    <3>4. Owns(ClientOf[r], s.id) /\ s.items \subseteq Items(ClientOf[r])
      BY <3>1, <3>2 DEF Items
    <3> QED
      BY <3>2, <3>3, <3>4
  <2>4. ASSUME NEW r \in Request, Reload(r) PROVE OwnershipInv'
    <3> DEFINE s == Load(orig[r], Token(r, "reload"))
    <3>1. s \in Session /\ Owns(ClientOf[r], s.id) /\ s.items \subseteq Items(ClientOf[r])
      BY <2>1 DEF Minting
    <3> HIDE DEF s
    <3>2. /\ sess' = [sess EXCEPT ![r] = s]
          /\ queued' = IF s.id # orig[r] THEN [queued EXCEPT ![r] = s.id] ELSE queued
          /\ UNCHANGED <<presented, orig, jar, store>>
      BY <2>4 DEF Reload, shared, s
    <3> QED
      BY <3>1, <3>2
  <2>5. ASSUME NEW r \in Request, NEW op, Work(r, op),
               UNCHANGED <<presented, orig, jar, store>>
        PROVE  OwnershipInv'
    <3> DEFINE s == AfterOp(op, sess[r], r)
    <3>1. s \in Session
      BY AfterOpType
    <3>2. Owns(ClientOf[r], s.id)
      BY OwnToken DEF AfterOp, Minting
    <3>3. s.items \subseteq Items(ClientOf[r])
      BY DEF AfterOp, Items
    <3> HIDE DEF s
    <3>4. /\ sess' = [sess EXCEPT ![r] = s]
          /\ queued' = IF s.id # sess[r].id THEN [queued EXCEPT ![r] = s.id] ELSE queued
      BY <2>5 DEF Work, s
    <3> QED
      BY <2>5, <3>1, <3>2, <3>3, <3>4
  <2>6. ASSUME NEW r \in Request, HandlerReturns(r) \/ HandlerPanics(r)
        PROVE  OwnershipInv'
    BY <2>5, <2>6 DEF HandlerReturns, HandlerPanics, shared
  <2>7. ASSUME NEW r \in Request, NEW s, s = store' ,
               UNCHANGED <<presented, sess, orig, queued, jar>>,
               s \in [Id -> Record],
               \A i \in Id : \/ s[i] = store[i]
                             \/ s[i].items = {} /\ s[i].status = "absent"
                             \/ i = sess[r].id /\ s[i].items \subseteq
                                    sess[r].items \cup store[i].items
        PROVE  OwnershipInv'
    <3>1. s[Foreign].status = "absent"
      BY <2>7, ForeignUnowned DEF Id
    <3>2. ASSUME NEW c \in Client, NEW i \in Id, Owns(c, i)
          PROVE  s[i].items \subseteq Items(c)
      <4>1. CASE i = sess[r].id /\ s[i].items \subseteq sess[r].items \cup store[i].items
        BY <3>2, <4>1, OwnerUnique, SMTT(30)
      <4> QED
        BY <2>7, <3>2, <4>1
    <3> QED
      BY <2>7, <3>1, <3>2
  <2>8. ASSUME NEW r \in Request,
               DestroyOriginal(r) \/ WriteMemory(r) \/ TruncateFile(r) \/ FillFile(r)
        PROVE  OwnershipInv'
    <3>1. /\ UNCHANGED <<presented, sess, orig, queued, jar>>
          /\ \/ store' = store
             \/ store' = [store EXCEPT ![orig[r]] = Absent]
             \/ store' = [store EXCEPT ![sess[r].id] = Whole(sess[r].items)]
             \/ store' = [store EXCEPT ![sess[r].id].status = "torn"]
      BY <2>8 DEF DestroyOriginal, WriteMemory, TruncateFile, FillFile
    <3>2. sess[r].id \in Id /\ sess[r].items \in SUBSET Request
      BY DEF Session
    <3>3. store' \in [Id -> Record]
      BY <2>8, <3>1, RecordsTyped
    <3>4. \A i \in Id : \/ store'[i] = store[i]
                        \/ store'[i].items = {} /\ store'[i].status = "absent"
                        \/ i = sess[r].id /\ store'[i].items \subseteq
                               sess[r].items \cup store[i].items
      BY <3>1, <3>2 DEF Whole, Absent, Record
    <3> QED
      BY <2>7, <3>1, <3>3, <3>4
  <2>9. ASSUME NEW r \in Request,
               AcquireLock(r) \/ GiveUpLock(r) \/ Unwind(r) \/ EncodeFails(r)
               \/ DestroyFails(r) \/ WriteFails(r)
        PROVE  OwnershipInv'
    BY <2>9 DEF AcquireLock, GiveUpLock, Unwind, EncodeFails, DestroyFails, WriteFails,
       shared
  <2>10. ASSUME NEW r \in Request, Deliver(r) PROVE OwnershipInv'
    BY <2>10 DEF Deliver
  <2>11. CASE Gc \/ Restart
    <3>1. UNCHANGED <<presented, sess, orig, queued, jar>>
      BY <2>11 DEF Gc, Restart
    <3>2. \A i \in Id : store'[i] = store[i] \/ store'[i] = Absent
      BY <2>11 DEF Gc, Restart
    <3>3. \A i \in Id : \/ store'[i] = store[i]
                        \/ store'[i].items = {} /\ store'[i].status = "absent"
      BY <3>2 DEF Absent
    <3> QED
      BY <3>1, <3>3 DEF Id
  <2>12. CASE Quiescent \/ UNCHANGED vars
    BY <2>12 DEF Quiescent, vars
  <2> QED
    BY <2>2, <2>3, <2>4, <2>6, <2>8, <2>9, <2>10, <2>11, <2>12 DEF Next, Handling
<1>3. OwnershipInv => ConfinedToClient
  BY DEF OwnershipInv, ConfinedToClient, Items
<1> QED
  BY <1>1, <1>2, <1>3, TypeCorrect, PTL DEF Spec

----------------------------------------------------------------------------
(* Sessions whose requests all come through the lock *)

\* Inside its critical section a request holds the mutex of its original ID, unless
\* that ID counts as worked on without it.
CriticalHoldsLock ==
    \A r \in Request :
        pc[r] \in Critical /\ orig[r] \notin unlocked => lock[orig[r]] = r

\* After the reload a session has its original ID or one minted since.
SessionIdKnown ==
    \A r \in Request : pc[r] \in {"handle", "save", "write", "fill"} =>
        sess[r].id \in {orig[r], Token(r, "reload"), Token(r, "handler")}

\* Until a request has written, no request can have loaded an ID it mints under
\* the lock: there is nothing readable under it.
UnsavedTokensUnknown ==
    \A r \in Request : \A k \in {"reload", "handler"} :
        pc[r] \notin {"unwind", "done", "dead"} =>
            /\ store[Token(r, k)].status # "whole"
            /\ store[Token(r, k)].items = {}
            /\ pc[r] # "fill" => store[Token(r, k)].status = "absent"
            /\ Token(r, k) \notin retired \cup unlocked
            /\ \A q \in Request : orig[q] # Token(r, k)

\* A request that kept its ID works on a copy that misses no stored update.
CopyCoversRecord ==
    \A r \in Request :
        /\ pc[r] \in {"handle", "save", "write", "fill"}
        /\ sess[r].id = orig[r]
        /\ orig[r] \notin unlocked
        => /\ store[orig[r]].items \subseteq sess[r].items
           /\ orig[r] \notin retired

AbsentIsEmpty == \A i \in Id : store[i].status = "absent" => store[i].items = {}

LockedCopyExact ==
    \A r \in Request :
        pc[r] = "handle" /\ orig[r] \notin unlocked /\ store[orig[r]].status = "whole" =>
            sess[r].id = orig[r] /\ sess[r].items = store[orig[r]].items

SerialInv ==
    /\ TypeOK
    /\ CriticalHoldsLock
    /\ SessionIdKnown
    /\ UnsavedTokensUnknown
    /\ CopyCoversRecord
    /\ AbsentIsEmpty
    /\ RetiredStaysGone
    /\ LockedCopyExact

Writing == {"handle", "save", "write", "fill"}

\* The initial states satisfy SerialInv: nothing is minted yet.
LEMMA SerialInit == Init => SerialInv
<1> SUFFICES ASSUME Init PROVE SerialInv
  OBVIOUS
<1>1. TypeOK
  BY TypeInit
<1>2. \A i \in Id : store[i].items = {}
  BY DEF Init, Whole, Absent
<1>3. ASSUME NEW r \in Request, NEW k \in {"reload", "handler"}
      PROVE  /\ store[Token(r, k)].status = "absent"
             /\ \A q \in Request : orig[q] # Token(r, k)
  <2>1. Token(r, k) \in Id
    BY TokenIsId DEF Minting
  <2>2. \A c \in Client : Token(r, k) # Prior(c)
    BY DEF Token, Prior
  <2> QED
    BY <2>1, <2>2 DEF Init, Token, Absent
<1>4. \A r \in Request : pc[r] = "idle"
  BY DEF Init
<1>5. retired = {} /\ unlocked = {}
  BY DEF Init
<1>6. UnsavedTokensUnknown
  BY <1>2, <1>3, <1>4, <1>5, TokenIsId DEF UnsavedTokensUnknown, Minting
<1> QED
  BY <1>1, <1>2, <1>4, <1>5, <1>6 DEF SerialInv, CriticalHoldsLock,
     Critical, SessionIdKnown, CopyCoversRecord, AbsentIsEmpty, RetiredStaysGone,
     LockedCopyExact

\* A request before its write is complete shares neither its original ID nor the ID
\* it will write with another one that holds the mutex of its own.
LEMMA WritersApart ==
    ASSUME SerialInv, NEW r \in Request, NEW q \in Request, r # q,
           pc[r] \in Writing
    PROVE  /\ pc[q] \in Critical /\ orig[q] \notin unlocked =>
                  orig[q] # orig[r] /\ orig[q] # sess[r].id
           /\ \A k \in {"reload", "handler"} :
                  pc[q] \notin {"unwind", "done", "dead"} =>
                      orig[r] # Token(q, k) /\ sess[r].id # Token(q, k)
<1>1. pc[q] \in Critical /\ orig[q] \notin unlocked => orig[q] # orig[r]
  BY DEF SerialInv, CriticalHoldsLock, Critical, Writing
<1>2. \A k \in {"reload", "handler"} : \A p \in Request : orig[p] # Token(r, k)
  BY DEF SerialInv, UnsavedTokensUnknown, Writing
<1>3. sess[r].id \in {orig[r], Token(r, "reload"), Token(r, "handler")}
  BY DEF SerialInv, SessionIdKnown, Writing
<1>4. ASSUME NEW k \in {"reload", "handler"}, pc[q] \notin {"unwind", "done", "dead"}
      PROVE  orig[r] # Token(q, k) /\ sess[r].id # Token(q, k)
  <2>1. orig[r] # Token(q, k)
    BY <1>4 DEF SerialInv, UnsavedTokensUnknown
  <2>2. Token(r, "reload") # Token(q, k) /\ Token(r, "handler") # Token(q, k)
    BY DistinctTokens DEF Minting
  <2> QED
    BY <1>3, <2>1, <2>2
<1> QED
  BY <1>1, <1>2, <1>3, <1>4

\* What a request is about to write over is covered by its copy, or is new.
LEMMA WriteIsSafe ==
    ASSUME SerialInv, NEW r \in Request, pc[r] \in Writing
    PROVE  /\ sess[r].id \notin unlocked =>
                  /\ store[sess[r].id].items \subseteq sess[r].items
                  /\ sess[r].id \notin retired
           /\ orig[r] \in Id /\ sess[r].id \in Id
<1>1. orig[r] \in Id /\ sess[r].id \in Id
  BY DEF SerialInv, TypeOK, Session
<1>2. CASE sess[r].id = orig[r]
  BY <1>1, <1>2 DEF SerialInv, CopyCoversRecord, Writing
<1>3. CASE sess[r].id # orig[r]
  <2>1. PICK k \in {"reload", "handler"} : sess[r].id = Token(r, k)
    BY <1>3 DEF SerialInv, SessionIdKnown, Writing
  <2> QED
    BY <1>1, <2>1 DEF SerialInv, UnsavedTokensUnknown, Writing
<1> QED
  BY <1>2, <1>3

\* Every step of a request, a sweep and a restart preserve SerialInv.
LEMMA SerialStep == SerialInv /\ [Next]_vars => SerialInv'
<1> SUFFICES ASSUME SerialInv, [Next]_vars PROVE SerialInv'
  OBVIOUS
<1> USE DEF SerialInv, Goto
<1>0. TypeOK /\ TypeOK'
  BY TypeStep
<1>1. ASSUME NEW r \in Request, Arrive(r) PROVE SerialInv'
  <2>1. /\ pc' = [pc EXCEPT ![r] = "load"]
        /\ pc[r] = "idle"
        /\ UNCHANGED <<sess, orig, store, lock, retired, unlocked>>
    BY <1>1 DEF Arrive, shared, aux
  <2> QED
    BY <1>0, <2>1 DEF TypeOK, CriticalHoldsLock, Critical,
       SessionIdKnown, UnsavedTokensUnknown, CopyCoversRecord, AbsentIsEmpty,
       RetiredStaysGone, LockedCopyExact
<1>2. ASSUME NEW r \in Request, StartSession(r) \/ TurnedAway(r) PROVE SerialInv'
  <2> DEFINE l == Load(presented[r], Token(r, "start"))
  <2>1. PICK s \in Session : /\ s.id = l.id
                             /\ s.id \in Id
                             /\ sess' = [sess EXCEPT ![r] = s]
                             /\ orig' = [orig EXCEPT ![r] = s.id]
    BY <1>0, <1>2, StartedSession DEF StartSession, TurnedAway
  <2>2. /\ pc[r] = "load"
        /\ UNCHANGED <<store, lock, retired>>
        /\ \/ pc' = [pc EXCEPT ![r] = "lock"] /\ unlocked' = unlocked
           \/ /\ \E to \in {"handle", "save"} : pc' = [pc EXCEPT ![r] = to]
              /\ unlocked' = unlocked \cup {s.id}
    BY <1>0, <1>2, <2>1 DEF StartSession, TurnedAway, Started, shared, TypeOK
  <2>3. ASSUME NEW q \in Request, NEW k \in {"reload", "handler"},
               pc[q] \notin {"unwind", "done", "dead"}
        PROVE  s.id # Token(q, k)
    <3>1. CASE Readable(presented[r])
      BY <2>1, <2>3, <3>1 DEF Load, Readable, UnsavedTokensUnknown
    <3>2. CASE ~Readable(presented[r])
      BY <2>1, <3>2, DistinctTokens DEF Load, Minting
    <3> QED
      BY <3>1, <3>2
  <2> HIDE DEF l
  <2>4. UnsavedTokensUnknown'
    BY <1>0, <2>1, <2>2, <2>3 DEF TypeOK, UnsavedTokensUnknown
  <2>5. CriticalHoldsLock'
    BY <1>0, <2>1, <2>2 DEF TypeOK, CriticalHoldsLock, Critical
  <2>6. SessionIdKnown' /\ CopyCoversRecord' /\ LockedCopyExact'
    BY <1>0, <2>1, <2>2 DEF TypeOK, SessionIdKnown, CopyCoversRecord, LockedCopyExact
  <2> QED
    BY <1>0, <2>2, <2>4, <2>5, <2>6 DEF AbsentIsEmpty, RetiredStaysGone
<1>3. ASSUME NEW r \in Request, AcquireLock(r) PROVE SerialInv'
  <2>1. CriticalHoldsLock'
    BY <1>0, <1>3, NoneIsNeither DEF AcquireLock, aux, TypeOK, CriticalHoldsLock, Critical
  <2>2. /\ pc[r] = "lock"
        /\ pc' = [pc EXCEPT ![r] = "reload"]
        /\ UNCHANGED <<sess, orig, store, retired, unlocked>>
    BY <1>3 DEF AcquireLock, aux
  <2> QED
    BY <1>0, <2>1, <2>2 DEF TypeOK, SessionIdKnown, UnsavedTokensUnknown, CopyCoversRecord,
       AbsentIsEmpty, RetiredStaysGone, LockedCopyExact
<1>4. ASSUME NEW r \in Request, GiveUpLock(r) PROVE SerialInv'
  <2>1. /\ pc[r] = "lock"
        /\ pc' = [pc EXCEPT ![r] = "reload"]
        /\ unlocked' = unlocked \cup {orig[r]}
        /\ UNCHANGED <<sess, orig, store, lock, retired>>
    BY <1>4 DEF GiveUpLock, shared
  <2>2. UnsavedTokensUnknown'
    BY <1>0, <2>1 DEF TypeOK, UnsavedTokensUnknown
  <2>3. CriticalHoldsLock'
    BY <1>0, <2>1 DEF TypeOK, CriticalHoldsLock, Critical
  <2> QED
    BY <1>0, <2>1, <2>2, <2>3 DEF TypeOK, SessionIdKnown, CopyCoversRecord, AbsentIsEmpty,
       RetiredStaysGone, LockedCopyExact
<1>5. ASSUME NEW r \in Request, Reload(r) PROVE SerialInv'
  <2> DEFINE s == Load(orig[r], Token(r, "reload"))
  <2>1. /\ pc[r] = "reload"
        /\ pc' = [pc EXCEPT ![r] = "handle"]
        /\ sess' = [sess EXCEPT ![r] = s]
        /\ UNCHANGED <<orig, store, lock, retired, unlocked>>
    BY <1>5 DEF Reload, shared, aux
  <2>2. orig[r] # Token(r, "reload")
    BY <2>1 DEF UnsavedTokensUnknown
  <2>3. orig[r] \in Id
    BY <1>0 DEF TypeOK
  <2>4. s.id \in {orig[r], Token(r, "reload")}
    BY DEF Load
  <2>5. s.id = orig[r] => /\ store[orig[r]].items = s.items
                          /\ orig[r] \notin retired \ unlocked
    BY <2>2, <2>3 DEF Load, Readable, RetiredStaysGone
  <2>6. store[orig[r]].status = "whole" =>
            s.id = orig[r] /\ s.items = store[orig[r]].items
    BY <2>3 DEF Load, Readable
  <2> HIDE DEF s
  <2>7. SessionIdKnown' /\ CopyCoversRecord' /\ LockedCopyExact'
    BY <1>0, <2>1, <2>4, <2>5, <2>6 DEF TypeOK, SessionIdKnown, CopyCoversRecord,
       LockedCopyExact
  <2> QED
    BY <1>0, <2>1, <2>7 DEF TypeOK, CriticalHoldsLock, Critical,
       UnsavedTokensUnknown, AbsentIsEmpty, RetiredStaysGone
<1>6. ASSUME NEW r \in Request, NEW op, Work(r, op), pc[r] = "handle",
             NEW label \in {"save", "unwind"}, Goto(r, label),
             UNCHANGED <<orig, store, lock, retired, unlocked>>
      PROVE  SerialInv'
  <2> DEFINE s == AfterOp(op, sess[r], r)
  <2>1. s.id \in {sess[r].id, Token(r, "handler")}
    BY DEF AfterOp
  <2>2. Token(r, "handler") # orig[r]
    BY <1>6 DEF UnsavedTokensUnknown
  <2>3. s.id = orig[r] => sess[r].id = orig[r] /\ sess[r].items \subseteq s.items
    BY <2>2 DEF AfterOp
  <2>4. sess' = [sess EXCEPT ![r] = s]
    BY <1>6 DEF Work
  <2> HIDE DEF s
  <2>5. SessionIdKnown'
    BY <1>0, <1>6, <2>1, <2>4 DEF TypeOK, SessionIdKnown
  <2>6. CopyCoversRecord' /\ LockedCopyExact'
    BY <1>0, <1>6, <2>3, <2>4 DEF TypeOK, CopyCoversRecord, LockedCopyExact
  <2> QED
    BY <1>0, <1>6, <2>5, <2>6 DEF TypeOK, CriticalHoldsLock, Critical,
       UnsavedTokensUnknown, AbsentIsEmpty, RetiredStaysGone
<1>7. ASSUME NEW r \in Request, HandlerReturns(r) \/ HandlerPanics(r) PROVE SerialInv'
  BY <1>6, <1>7 DEF HandlerReturns, HandlerPanics, shared, aux
<1>8. ASSUME NEW r \in Request, DestroyOriginal(r) PROVE SerialInv'
  <2>1. /\ pc[r] = "save"
        /\ pc' = [pc EXCEPT ![r] = "write"]
        /\ UNCHANGED <<sess, orig, lock, unlocked>>
    BY <1>8 DEF DestroyOriginal
  <2>2. CASE sess[r].id = orig[r]
    <3>1. UNCHANGED <<store, retired>>
      BY <1>8, <2>2 DEF DestroyOriginal
    <3> QED
      BY <1>0, <2>1, <3>1 DEF TypeOK, CriticalHoldsLock, Critical,
         SessionIdKnown, UnsavedTokensUnknown, CopyCoversRecord, AbsentIsEmpty,
         RetiredStaysGone, LockedCopyExact
  <2>3. CASE sess[r].id # orig[r]
    <3>1. /\ store' = [store EXCEPT ![orig[r]] = Absent]
          /\ retired' = retired \cup {orig[r]}
      BY <1>8, <2>3 DEF DestroyOriginal
    <3>2. UnsavedTokensUnknown'
      <4>1. \A q \in Request : \A k \in {"reload", "handler"} :
                pc[q] \notin {"unwind", "done", "dead"} => orig[r] # Token(q, k)
        BY DEF UnsavedTokensUnknown
      <4> QED
        BY <1>0, <2>1, <3>1, <4>1, TokenIsId
           DEF TypeOK, UnsavedTokensUnknown, Absent, Minting
    <3>3. CopyCoversRecord' /\ LockedCopyExact'
      BY <1>0, <2>1, <2>3, <3>1, WritersApart
         DEF TypeOK, CopyCoversRecord, LockedCopyExact, Writing, Critical
    <3>4. AbsentIsEmpty' /\ RetiredStaysGone'
      BY <1>0, <2>1, <3>1 DEF TypeOK, AbsentIsEmpty, RetiredStaysGone, Absent
    <3> QED
      BY <1>0, <2>1, <3>2, <3>3, <3>4 DEF TypeOK, CriticalHoldsLock,
         Critical, SessionIdKnown
  <2> QED
    BY <2>2, <2>3
<1>9. ASSUME NEW r \in Request, WriteMemory(r) \/ FillFile(r) PROVE SerialInv'
  <2>1. /\ pc[r] \in {"write", "fill"}
        /\ pc' = [pc EXCEPT ![r] = "unwind"]
        /\ store' = [store EXCEPT ![sess[r].id] = Whole(sess[r].items)]
        /\ UNCHANGED <<sess, orig, lock, retired, unlocked>>
    BY <1>9 DEF WriteMemory, FillFile, aux
  <2>2. sess[r].id \in Id /\ sess[r].id \notin retired \ unlocked
    BY <2>1, WriteIsSafe DEF Writing
  <2>3. UnsavedTokensUnknown'
    BY <1>0, <2>1, WritersApart, TokenIsId
       DEF TypeOK, UnsavedTokensUnknown, Writing, Minting
  <2>4. CopyCoversRecord' /\ LockedCopyExact'
    BY <1>0, <2>1, WritersApart
       DEF TypeOK, CopyCoversRecord, LockedCopyExact, Writing, Critical
  <2>5. AbsentIsEmpty' /\ RetiredStaysGone'
    BY <1>0, <2>1, <2>2 DEF TypeOK, AbsentIsEmpty, RetiredStaysGone, Whole
  <2> QED
    BY <1>0, <2>1, <2>3, <2>4, <2>5 DEF TypeOK, CriticalHoldsLock,
       Critical, SessionIdKnown
<1>10. ASSUME NEW r \in Request, TruncateFile(r) PROVE SerialInv'
  <2>1. /\ pc[r] = "write"
        /\ pc' = [pc EXCEPT ![r] = "fill"]
        /\ store' = [store EXCEPT ![sess[r].id].status = "torn"]
        /\ UNCHANGED <<sess, orig, lock, retired, unlocked>>
    BY <1>10 DEF TruncateFile, aux
  <2>2. sess[r].id \in Id /\ sess[r].id \notin retired \ unlocked
    BY <2>1, WriteIsSafe DEF Writing
  <2>3. \A i \in Id : /\ store'[i].items = store[i].items
                      /\ store'[i].status = IF i = sess[r].id THEN "torn" ELSE store[i].status
    BY <1>0, <2>1, <2>2 DEF TypeOK, Record
  <2>4. UnsavedTokensUnknown'
    BY <1>0, <2>1, <2>3, WritersApart, TokenIsId
       DEF TypeOK, UnsavedTokensUnknown, Writing, Minting
  <2>5. CopyCoversRecord' /\ LockedCopyExact'
    BY <1>0, <2>1, <2>3, WritersApart
       DEF TypeOK, CopyCoversRecord, LockedCopyExact, Writing, Critical
  <2>6. AbsentIsEmpty' /\ RetiredStaysGone'
    BY <1>0, <2>1, <2>2, <2>3 DEF TypeOK, AbsentIsEmpty, RetiredStaysGone
  <2> QED
    BY <1>0, <2>1, <2>4, <2>5, <2>6 DEF TypeOK, CriticalHoldsLock,
       Critical, SessionIdKnown
<1>11. ASSUME NEW r \in Request, Unwind(r) PROVE SerialInv'
  <2>1. CriticalHoldsLock'
    BY <1>0, <1>11 DEF Unwind, aux, TypeOK, CriticalHoldsLock, Critical
  <2>2. /\ pc[r] = "unwind"
        /\ pc' = [pc EXCEPT ![r] = "done"]
        /\ UNCHANGED <<sess, orig, store, retired, unlocked>>
    BY <1>11 DEF Unwind, aux
  <2> QED
    BY <1>0, <2>1, <2>2 DEF TypeOK, SessionIdKnown, UnsavedTokensUnknown, CopyCoversRecord,
       AbsentIsEmpty, RetiredStaysGone, LockedCopyExact
<1>15. ASSUME NEW r \in Request, EncodeFails(r) \/ DestroyFails(r) \/ WriteFails(r)
       PROVE  SerialInv'
  <2>1. /\ pc[r] \in {"save", "write", "fill"}
        /\ \/ pc[r] = "save" /\ pc' = [pc EXCEPT ![r] = "write"]
           \/ pc' = [pc EXCEPT ![r] = "unwind"]
        /\ UNCHANGED <<sess, orig, store, lock, retired, unlocked>>
    BY <1>15 DEF EncodeFails, DestroyFails, WriteFails, shared, aux
  <2>2. CriticalHoldsLock' /\ SessionIdKnown'
    BY <1>0, <2>1 DEF TypeOK, CriticalHoldsLock, Critical, SessionIdKnown
  <2>3. UnsavedTokensUnknown' /\ CopyCoversRecord' /\ LockedCopyExact'
    BY <1>0, <2>1 DEF TypeOK, UnsavedTokensUnknown, CopyCoversRecord, LockedCopyExact
  <2> QED
    BY <1>0, <2>1, <2>2, <2>3 DEF AbsentIsEmpty, RetiredStaysGone
<1>12. ASSUME NEW r \in Request, Deliver(r) PROVE SerialInv'
  BY <1>0, <1>12 DEF Deliver, aux, CriticalHoldsLock, SessionIdKnown,
     UnsavedTokensUnknown, CopyCoversRecord, AbsentIsEmpty, RetiredStaysGone, LockedCopyExact
<1>13. CASE Gc \/ Restart
  <2>1. UNCHANGED <<sess, orig, retired, unlocked>>
    BY <1>13 DEF Gc, Restart
  <2>2. \A i \in Id : store'[i] = store[i] \/ store'[i] = Absent
    BY <1>13 DEF Gc, Restart
  <2>3. \A i \in Id : \/ store'[i] = store[i]
                      \/ store'[i].items = {} /\ store'[i].status = "absent"
    BY <2>2 DEF Absent
  <2>4. \/ UNCHANGED <<pc, lock>>
        \/ \A r \in Request : pc'[r] \in {"idle", "done", "dead"}
                              /\ (pc'[r] = "idle" => pc[r] = "idle")
    BY <1>13 DEF Gc, Restart
  <2>7. UnsavedTokensUnknown'
    BY <2>1, <2>3, <2>4, TokenIsId DEF UnsavedTokensUnknown, Minting
  <2>8. CopyCoversRecord' /\ LockedCopyExact'
    BY <1>0, <2>1, <2>3, <2>4, SMTT(30) DEF TypeOK, CopyCoversRecord, LockedCopyExact
  <2>9. AbsentIsEmpty' /\ RetiredStaysGone'
    BY <1>0, <2>1, <2>3 DEF TypeOK, AbsentIsEmpty, RetiredStaysGone
  <2> QED
    BY <1>0, <2>1, <2>4, <2>7, <2>8, <2>9 DEF
       CriticalHoldsLock, Critical, SessionIdKnown
<1>14. CASE Quiescent \/ UNCHANGED vars
  BY <1>0, <1>14 DEF Quiescent, vars, CriticalHoldsLock, SessionIdKnown,
     UnsavedTokensUnknown, CopyCoversRecord, AbsentIsEmpty, RetiredStaysGone, LockedCopyExact
<1> QED
  BY <1>1, <1>2, <1>3, <1>4, <1>5, <1>7, <1>8, <1>9, <1>10, <1>11, <1>12, <1>13, <1>14,
     <1>15 DEF Next, Handling

\* SerialInv is an invariant, whatever routes there are.
LEMMA SerialInvariant == Spec => []SerialInv
BY SerialInit, SerialStep, PTL DEF Spec

\* The ID of a replaced session never gets a record again, unless a request had
\* loaded that session to save it without its mutex.
THEOREM BlockedNoResurrection == Spec => []RetiredStaysGone
<1>1. SerialInv => RetiredStaysGone
  BY DEF SerialInv
<1> QED
  BY <1>1, SerialInvariant, PTL

\* A handler that holds the mutex of a session always works on what the store
\* holds, unless a request had that session without it.
THEOREM BlockedCopyIsCurrent == Spec => []LockedCopyIsCurrent
<1>1. SerialInv => LockedCopyIsCurrent
  BY DEF SerialInv, LockedCopyExact, LockedCopyIsCurrent, TypeOK, Session
<1> QED
  BY <1>1, SerialInvariant, PTL

\* No save drops an update from a record but one that some request works on or
\* saves without its mutex, whatever the driver and the routes, and through garbage
\* collection, panics, failures and restarts.
THEOREM BlockedNoLostUpdate == Spec => NoLostUpdate
<1> DEFINE Kept == \A i \in Id \ unlocked :
               /\ store[i].status # "absent"
               /\ store'[i].status # "absent"
               => store[i].items \subseteq store'[i].items
<1>1. SerialInv /\ [Next]_vars => [Kept]_store
  <2> SUFFICES ASSUME SerialInv, [Next]_vars PROVE Kept \/ UNCHANGED store
    OBVIOUS
  <2>0. store \in [Id -> Record] /\ sess \in [Request -> Session]
    BY DEF SerialInv, TypeOK
  <2>1. ASSUME NEW r \in Request, DestroyOriginal(r) PROVE Kept \/ UNCHANGED store
    BY <2>0, <2>1 DEF DestroyOriginal, Absent
  <2>2. ASSUME NEW r \in Request, WriteMemory(r) \/ FillFile(r) PROVE Kept
    <3>1. /\ pc[r] \in Writing
          /\ store' = [store EXCEPT ![sess[r].id] = Whole(sess[r].items)]
      BY <2>2 DEF WriteMemory, FillFile, Writing
    <3>2. sess[r].id \notin unlocked => store[sess[r].id].items \subseteq sess[r].items
      BY <3>1, WriteIsSafe
    <3> QED
      BY <2>0, <3>1, <3>2 DEF Whole
  <2>3. ASSUME NEW r \in Request, TruncateFile(r) PROVE Kept
    BY <2>0, <2>3 DEF TruncateFile, Record
  <2>4. CASE Gc \/ Restart
    <3>1. \A i \in Id : store'[i] = store[i] \/ store'[i] = Absent
      BY <2>4 DEF Gc, Restart
    <3> QED
      BY <3>1 DEF Absent
  <2> QED
    BY <2>1, <2>2, <2>3, <2>4 DEF Next, Handling, Arrive, StartSession, TurnedAway,
       AcquireLock, GiveUpLock, Reload, HandlerReturns, HandlerPanics, EncodeFails,
       DestroyFails, WriteFails, Unwind, Deliver, Quiescent, vars, shared
<1> QED
  BY <1>1, SerialInvariant, PTL DEF Spec, NoLostUpdate

----------------------------------------------------------------------------
(* What the refinement needs beyond SerialInv *)

\* Until a request has written, its update is in no record and in no other
\* request's copy.
UnsavedUpdate ==
    \A r \in Request : pc[r] \notin {"unwind", "done", "dead"} =>
        /\ \A i \in Id : r \notin store[i].items
        /\ \A q \in Request : q # r => r \notin sess[q].items

\* Between the handler and the write, the copy is what the record holds with the
\* request's own update, or, if the ID has changed, that or nothing; and what a
\* torn file held is in no copy made since.
CopyExact(r, at, s, id, record) ==
    /\ at \in {"save", "write", "fill"} /\ record.status = "whole" =>
           IF s.id = id THEN s.items \ {r} = record.items
           ELSE at = "save" => s.items \ {r} \in {{}, record.items}
    /\ at \in {"handle", "save"} /\ record.status = "torn" => s.items \subseteq {r}

CopiesExact ==
    \A r \in Request : orig[r] \notin unlocked =>
        CopyExact(r, pc[r], sess[r], orig[r], store[orig[r]])

RefinementInv == SerialInv /\ UnsavedUpdate /\ CopiesExact

LEMMA RefinementInit == Init => RefinementInv
<1> SUFFICES ASSUME Init PROVE RefinementInv
  OBVIOUS
<1>1. SerialInv
  BY SerialInit
<1>2. \A i \in Id : store[i].items = {}
  BY DEF Init, Whole, Absent
<1>3. \A r \in Request : pc[r] = "idle" /\ sess[r].items = {}
  BY DEF Init
<1> QED
  BY <1>1, <1>2, <1>3 DEF RefinementInv, UnsavedUpdate, CopiesExact, CopyExact

\* A step that writes no record, and puts no data in a copy but a record's or the
\* request's own, keeps the updates of the others out of it.
LEMMA UnsavedKept ==
    ASSUME RefinementInv, NEW r \in Request,
           \A q \in Request \ {r} : pc'[q] = pc[q] /\ sess'[q] = sess[q],
           pc[r] \in {"unwind", "done", "dead"} => pc'[r] \in {"unwind", "done", "dead"},
           \A q \in Request : q \in sess'[r].items =>
               \/ q \in sess[r].items
               \/ q = r
               \/ \E i \in Id : q \in store[i].items,
           \A i \in Id : \A q \in Request : q \in store'[i].items =>
               \/ q \in store[i].items
               \/ q \in sess[r].items /\ pc'[r] = "unwind"
    PROVE  UnsavedUpdate'
<1> SUFFICES ASSUME NEW q \in Request, pc'[q] \notin {"unwind", "done", "dead"}
             PROVE  /\ \A i \in Id : q \notin store'[i].items
                    /\ \A p \in Request : p # q => q \notin sess'[p].items
  BY DEF UnsavedUpdate
<1>1. pc[q] \notin {"unwind", "done", "dead"}
  BY DEF RefinementInv
<1>2. /\ \A i \in Id : q \notin store[i].items
      /\ \A p \in Request : p # q => q \notin sess[p].items
  BY <1>1 DEF RefinementInv, UnsavedUpdate
<1>3. \A i \in Id : q \notin store'[i].items
  BY <1>2
<1>4. \A p \in Request : p # q => q \notin sess'[p].items
  BY <1>2
<1> QED
  BY <1>3, <1>4

\* What a request does to the record it is working on leaves alone the record
\* that another request in its critical section is working on.
LEMMA OthersRecords ==
    ASSUME RefinementInv, NEW r \in Request, NEW q \in Request, q # r,
           pc[q] \in Critical, orig[q] \notin unlocked,
           \A i \in Id : \/ store'[i] = store[i]
                         \/ pc[r] \in Writing /\ i \in {orig[r], sess[r].id}
    PROVE  store'[orig[q]] = store[orig[q]]
<1>1. orig[q] \in Id
  BY DEF RefinementInv, SerialInv, TypeOK
<1>2. pc[r] \in Writing => orig[q] # orig[r] /\ orig[q] # sess[r].id
  BY WritersApart DEF RefinementInv
<1> QED
  BY <1>1, <1>2

\* So such a step keeps the copies of the others exact.
LEMMA OthersExact ==
    ASSUME RefinementInv, NEW r \in Request,
           \A q \in Request \ {r} : pc'[q] = pc[q] /\ sess'[q] = sess[q]
                                     /\ orig'[q] = orig[q],
           \A i \in Id : \/ store'[i] = store[i]
                         \/ pc[r] \in Writing /\ i \in {orig[r], sess[r].id},
           unlocked \subseteq unlocked',
           orig'[r] \notin unlocked' =>
               CopyExact(r, pc'[r], sess'[r], orig'[r], store'[orig'[r]])
    PROVE  CopiesExact'
<1> SUFFICES ASSUME NEW q \in Request, q # r, orig'[q] \notin unlocked'
             PROVE  CopyExact(q, pc'[q], sess'[q], orig'[q], store'[orig'[q]])
  BY DEF CopiesExact
<1>1. /\ pc'[q] = pc[q] /\ sess'[q] = sess[q] /\ orig'[q] = orig[q]
      /\ orig[q] \notin unlocked
  OBVIOUS
<1>2. CopyExact(q, pc[q], sess[q], orig[q], store[orig[q]])
  BY <1>1 DEF RefinementInv, CopiesExact
<1>3. pc[q] \in Critical => store'[orig[q]] = store[orig[q]]
  BY <1>1, OthersRecords
<1> QED
  BY <1>1, <1>2, <1>3 DEF CopyExact, Critical

\* Every step keeps RefinementInv.
LEMMA RefinementStep == RefinementInv /\ [Next]_vars => RefinementInv'
<1> SUFFICES ASSUME RefinementInv, [Next]_vars PROVE RefinementInv'
  OBVIOUS
<1>0. TypeOK /\ TypeOK' /\ SerialInv /\ SerialInv'
  BY SerialStep DEF RefinementInv, SerialInv
<1>t. /\ pc \in [Request -> Pc] /\ sess \in [Request -> Session]
      /\ orig \in [Request -> Id] /\ store \in [Id -> Record]
  BY <1>0 DEF TypeOK
<1> DEFINE Mine(r) == UnsavedUpdate' /\ CopiesExact'
<1> USE DEF Goto
<1>1. ASSUME NEW r \in Request, Arrive(r) PROVE Mine(r)
  <2>1. /\ pc[r] = "idle" /\ pc' = [pc EXCEPT ![r] = "load"]
        /\ UNCHANGED <<sess, orig, store, unlocked>>
    BY <1>1 DEF Arrive, shared, aux
  <2>2. UnsavedUpdate'
    BY <1>t, <2>1, UnsavedKept
  <2>3. CopiesExact'
    <3>1. /\ \A q \in Request \ {r} : pc'[q] = pc[q] /\ sess'[q] = sess[q]
                                       /\ orig'[q] = orig[q]
          /\ \A i \in Id : store'[i] = store[i]
      BY <1>t, <2>1
    <3>2. CopyExact(r, pc'[r], sess'[r], orig'[r], store'[orig'[r]])
      BY <1>t, <2>1 DEF CopyExact
    <3> QED
      BY <2>1, <3>1, <3>2, OthersExact
  <2> QED
    BY <2>2, <2>3
<1>2. ASSUME NEW r \in Request, StartSession(r) \/ TurnedAway(r) PROVE Mine(r)
  <2> DEFINE l == Load(presented[r], Token(r, "start"))
  <2>1. PICK s \in Session : /\ s.items \subseteq l.items \cup {r}
                             /\ s.id \in Id
                             /\ sess' = [sess EXCEPT ![r] = s]
                             /\ orig' = [orig EXCEPT ![r] = s.id]
    BY <1>0, <1>2, StartedSession DEF StartSession, TurnedAway
  <2>2. /\ pc[r] = "load"
        /\ UNCHANGED store
        /\ unlocked \subseteq unlocked'
        /\ \/ pc' = [pc EXCEPT ![r] = "lock"]
           \/ /\ \E to \in {"handle", "save"} : pc' = [pc EXCEPT ![r] = to]
              /\ orig'[r] \in unlocked'
    BY <1>0, <1>2, <2>1 DEF StartSession, TurnedAway, Started, shared, TypeOK
  <2>3. \A q \in l.items : \E i \in Id : q \in store[i].items
    BY DEF Load, Readable
  <2> HIDE DEF l
  <2>4. UnsavedUpdate'
    BY <1>t, <2>1, <2>2, <2>3, UnsavedKept
  <2>5. CopiesExact'
    <3>1. /\ \A q \in Request \ {r} : pc'[q] = pc[q] /\ sess'[q] = sess[q]
                                       /\ orig'[q] = orig[q]
          /\ \A i \in Id : store'[i] = store[i]
      BY <1>t, <2>1, <2>2
    <3>2. orig'[r] \notin unlocked' =>
              CopyExact(r, pc'[r], sess'[r], orig'[r], store'[orig'[r]])
      BY <1>t, <2>1, <2>2 DEF CopyExact
    <3> QED
      BY <2>2, <3>1, <3>2, OthersExact
  <2> QED
    BY <2>4, <2>5
<1>3. ASSUME NEW r \in Request, AcquireLock(r) \/ GiveUpLock(r) PROVE Mine(r)
  <2>1. /\ pc[r] = "lock" /\ pc' = [pc EXCEPT ![r] = "reload"]
        /\ UNCHANGED <<sess, orig, store>>
        /\ unlocked \subseteq unlocked'
    BY <1>3 DEF AcquireLock, GiveUpLock, shared, aux
  <2>2. UnsavedUpdate'
    BY <1>t, <2>1, UnsavedKept
  <2>3. CopiesExact'
    <3>1. /\ \A q \in Request \ {r} : pc'[q] = pc[q] /\ sess'[q] = sess[q]
                                       /\ orig'[q] = orig[q]
          /\ \A i \in Id : store'[i] = store[i]
      BY <1>t, <2>1
    <3>2. CopyExact(r, pc'[r], sess'[r], orig'[r], store'[orig'[r]])
      BY <1>t, <2>1 DEF CopyExact
    <3> QED
      BY <2>1, <3>1, <3>2, OthersExact
  <2> QED
    BY <2>2, <2>3
<1>4. ASSUME NEW r \in Request, Reload(r) PROVE Mine(r)
  <2> DEFINE s == Load(orig[r], Token(r, "reload"))
  <2>1. /\ pc[r] = "reload" /\ pc' = [pc EXCEPT ![r] = "handle"]
        /\ sess' = [sess EXCEPT ![r] = s]
        /\ UNCHANGED <<orig, store, unlocked>>
    BY <1>4 DEF Reload, shared, aux
  <2>2. orig[r] \in Id
    BY <1>0 DEF TypeOK
  <2>3. /\ \A q \in s.items : \E i \in Id : q \in store[i].items
        /\ store[orig[r]].status = "torn" => s.items = {}
    BY <2>2 DEF Load, Readable
  <2> HIDE DEF s
  <2>4. UnsavedUpdate'
    BY <1>t, <2>1, <2>3, UnsavedKept
  <2>5. CopiesExact'
    <3>1. /\ \A q \in Request \ {r} : pc'[q] = pc[q] /\ sess'[q] = sess[q]
                                       /\ orig'[q] = orig[q]
          /\ \A i \in Id : store'[i] = store[i]
      BY <1>t, <2>1, <2>3
    <3>2. CopyExact(r, pc'[r], sess'[r], orig'[r], store'[orig'[r]])
      BY <1>t, <2>1, <2>3 DEF CopyExact
    <3> QED
      BY <2>1, <3>1, <3>2, OthersExact
  <2> QED
    BY <2>4, <2>5
<1>5. ASSUME NEW r \in Request, HandlerReturns(r) \/ HandlerPanics(r) PROVE Mine(r)
  <2>1. PICK op : Work(r, op)
    BY <1>5 DEF HandlerReturns, HandlerPanics
  <2> DEFINE s == AfterOp(op, sess[r], r)
  <2>2. /\ pc[r] = "handle"
        /\ \E to \in {"save", "unwind"} : pc' = [pc EXCEPT ![r] = to]
        /\ sess' = [sess EXCEPT ![r] = s]
        /\ UNCHANGED <<orig, store, unlocked>>
    BY <1>5, <2>1 DEF HandlerReturns, HandlerPanics, Work, shared, aux
  <2>3. /\ s.items \in {{}, sess[r].items, sess[r].items \cup {r}}
        /\ s.id \in {sess[r].id, Token(r, "handler")}
    BY DEF AfterOp
  <2>4. orig[r] # Token(r, "handler")
    BY <1>0, <2>2 DEF SerialInv, UnsavedTokensUnknown
  <2>5. s.id = orig[r] => s.items \ {r} = sess[r].items \ {r}
    BY <2>3, <2>4 DEF AfterOp
  <2> HIDE DEF s
  <2>6. UnsavedUpdate'
    BY <1>t, <2>2, <2>3, UnsavedKept
  <2>7. orig[r] \notin unlocked /\ store[orig[r]].status = "whole" =>
                                           /\ sess[r].items = store[orig[r]].items
                                           /\ r \notin store[orig[r]].items
    BY <1>0, <2>2 DEF SerialInv, LockedCopyExact, RefinementInv, UnsavedUpdate, TypeOK
  <2>8. orig[r] \notin unlocked /\ store[orig[r]].status = "torn" => sess[r].items \subseteq {r}
    BY <2>2 DEF RefinementInv, CopiesExact, CopyExact
  <2>9. /\ pc'[r] \in {"save", "unwind"}
        /\ sess'[r] = s /\ orig'[r] = orig[r] /\ store'[orig[r]] = store[orig[r]]
    BY <1>0, <2>2 DEF TypeOK
  <2>10. orig'[r] \notin unlocked' =>
             CopyExact(r, pc'[r], sess'[r], orig'[r], store'[orig'[r]])
    BY <2>2, <2>3, <2>5, <2>7, <2>8, <2>9 DEF CopyExact
  <2>11. CopiesExact'
    <3>1. /\ \A q \in Request \ {r} : pc'[q] = pc[q] /\ sess'[q] = sess[q]
                                       /\ orig'[q] = orig[q]
          /\ \A i \in Id : store'[i] = store[i]
      BY <1>t, <2>2, <2>10
    <3> QED
      BY <2>2, <2>10, <3>1, OthersExact
  <2> QED
    BY <2>6, <2>11
<1>6. ASSUME NEW r \in Request, DestroyOriginal(r) PROVE Mine(r)
  <2>1. /\ pc[r] = "save" /\ pc' = [pc EXCEPT ![r] = "write"]
        /\ store' = IF sess[r].id # orig[r] THEN [store EXCEPT ![orig[r]] = Absent] ELSE store
        /\ UNCHANGED <<sess, orig, unlocked>>
    BY <1>6 DEF DestroyOriginal
  <2>2. UnsavedUpdate'
    BY <1>t, <2>1, UnsavedKept DEF Absent
  <2>3. CopiesExact'
    <3>1. /\ \A q \in Request \ {r} : pc'[q] = pc[q] /\ sess'[q] = sess[q]
                                      /\ orig'[q] = orig[q]
          /\ \A i \in Id : store'[i] = store[i] \/ i = orig[r]
      BY <1>t, <2>1
    <3>2. orig[r] \notin unlocked => CopyExact(r, pc[r], sess[r], orig[r], store[orig[r]])
      BY DEF RefinementInv, CopiesExact
    <3>3. orig'[r] \notin unlocked' =>
              CopyExact(r, pc'[r], sess'[r], orig'[r], store'[orig'[r]])
      BY <1>t, <2>1, <3>2 DEF CopyExact, Absent
    <3> QED
      BY <2>1, <3>1, <3>3, OthersExact DEF Writing
  <2> QED
    BY <2>2, <2>3
<1>7. ASSUME NEW r \in Request, WriteMemory(r) \/ FillFile(r) PROVE Mine(r)
  <2>1. /\ pc[r] \in {"write", "fill"} /\ pc' = [pc EXCEPT ![r] = "unwind"]
        /\ store' = [store EXCEPT ![sess[r].id] = Whole(sess[r].items)]
        /\ UNCHANGED <<sess, orig, unlocked>>
    BY <1>7 DEF WriteMemory, FillFile, aux
  <2>2. \A i \in Id : \/ store'[i] = store[i]
                      \/ i = sess[r].id /\ store'[i].items = sess[r].items
    BY <1>t, <2>1 DEF Whole
  <2>3. UnsavedUpdate'
    BY <1>t, <2>1, <2>2, UnsavedKept
  <2>4. CopiesExact'
    <3>1. \A q \in Request \ {r} : pc'[q] = pc[q] /\ sess'[q] = sess[q]
                                   /\ orig'[q] = orig[q]
      BY <1>t, <2>1
    <3>2. CopyExact(r, pc'[r], sess'[r], orig'[r], store'[orig'[r]])
      BY <1>t, <2>1 DEF CopyExact
    <3> QED
      BY <2>1, <2>2, <3>1, <3>2, OthersExact DEF Writing
  <2> QED
    BY <2>3, <2>4
<1>8. ASSUME NEW r \in Request, TruncateFile(r) PROVE Mine(r)
  <2>1. /\ pc[r] = "write" /\ pc' = [pc EXCEPT ![r] = "fill"]
        /\ store' = [store EXCEPT ![sess[r].id].status = "torn"]
        /\ UNCHANGED <<sess, orig, unlocked>>
    BY <1>8 DEF TruncateFile, aux
  <2>2. \A i \in Id : /\ store'[i].items = store[i].items
                      /\ store'[i] = store[i] \/ i = sess[r].id
                      /\ i = sess[r].id => store'[i].status = "torn"
    BY <1>t, <2>1 DEF Record
  <2>3. UnsavedUpdate'
    BY <1>t, <2>1, <2>2, UnsavedKept
  <2>4. CopiesExact'
    <3>1. \A q \in Request \ {r} : pc'[q] = pc[q] /\ sess'[q] = sess[q]
                                   /\ orig'[q] = orig[q]
      BY <1>t, <2>1
    <3>2. orig[r] \notin unlocked => CopyExact(r, pc[r], sess[r], orig[r], store[orig[r]])
      BY DEF RefinementInv, CopiesExact
    <3>3. orig'[r] \notin unlocked' =>
              CopyExact(r, pc'[r], sess'[r], orig'[r], store'[orig'[r]])
      BY <1>t, <2>1, <2>2, <3>2 DEF CopyExact
    <3> QED
      BY <2>1, <2>2, <3>1, <3>3, OthersExact DEF Writing
  <2> QED
    BY <2>3, <2>4
<1>9. ASSUME NEW r \in Request,
             EncodeFails(r) \/ DestroyFails(r) \/ WriteFails(r) \/ Unwind(r)
      PROVE  Mine(r)
  <2>1. /\ pc[r] \in {"save", "write", "fill", "unwind"}
        /\ \/ pc[r] = "save" /\ sess[r].id # orig[r] /\ pc' = [pc EXCEPT ![r] = "write"]
           \/ pc' = [pc EXCEPT ![r] = "unwind"]
           \/ pc' = [pc EXCEPT ![r] = "done"]
        /\ UNCHANGED <<sess, orig, store, unlocked>>
    BY <1>9 DEF EncodeFails, DestroyFails, WriteFails, Unwind, shared, aux
  <2>2. UnsavedUpdate'
    BY <1>t, <2>1, UnsavedKept
  <2>3. CopiesExact'
    <3>1. /\ \A q \in Request \ {r} : pc'[q] = pc[q] /\ sess'[q] = sess[q]
                                      /\ orig'[q] = orig[q]
          /\ \A i \in Id : store'[i] = store[i]
      BY <1>t, <2>1
    <3>2. orig[r] \notin unlocked => CopyExact(r, pc[r], sess[r], orig[r], store[orig[r]])
      BY DEF RefinementInv, CopiesExact
    <3>3. orig'[r] \notin unlocked' =>
              CopyExact(r, pc'[r], sess'[r], orig'[r], store'[orig'[r]])
      BY <1>t, <2>1, <3>2 DEF CopyExact
    <3> QED
      BY <2>1, <3>1, <3>3, OthersExact
  <2> QED
    BY <2>2, <2>3
<1>10. CASE Gc \/ Restart
  <2>1. /\ UNCHANGED <<sess, orig, unlocked>>
        /\ \A i \in Id : store'[i] = store[i] \/ store'[i] = Absent
        /\ \A q \in Request : pc'[q] = pc[q] \/ pc'[q] = "dead"
    BY <1>t, <1>10 DEF Gc, Restart
  <2>2. UnsavedUpdate'
    BY <2>1 DEF RefinementInv, UnsavedUpdate, Absent
  <2>3. CopiesExact'
    BY <1>t, <2>1 DEF RefinementInv, CopiesExact, CopyExact, Absent
  <2> QED
    BY <1>0, <2>2, <2>3 DEF RefinementInv
<1>11. CASE (\E r \in Request : Deliver(r)) \/ Quiescent \/ UNCHANGED vars
  <2>1. UNCHANGED <<pc, sess, orig, store, unlocked>>
    BY <1>11 DEF Deliver, Quiescent, vars, aux
  <2>2. UnsavedUpdate'
    BY <2>1 DEF RefinementInv, UnsavedUpdate
  <2>3. CopiesExact'
    BY <2>1 DEF RefinementInv, CopiesExact
  <2> QED
    BY <1>0, <2>2, <2>3 DEF RefinementInv
<1> QED
  BY <1>0, <1>1, <1>2, <1>3, <1>4, <1>5, <1>6, <1>7, <1>8, <1>9, <1>10, <1>11
     DEF Next, Handling, RefinementInv

----------------------------------------------------------------------------
(* Every step is a step of SerialSession *)

\* The mapped variables have the abstract types.
LEMMA AbstractTypes ==
    TypeOK => /\ AllContents \in [Id -> SUBSET Request]
              /\ AllMoving \in [Request -> SUBSET Request]
              /\ Live \subseteq Id
BY DEF TypeOK, Session, Record, AllContents, Contents, Working, AllMoving, Moving, Live

LEMMA AbstractTypesNext ==
    TypeOK' => /\ AllContents' \in [Id -> SUBSET Request]
               /\ AllMoving' \in [Request -> SUBSET Request]
               /\ Live' \subseteq Id
BY DEF TypeOK, Session, Record, AllContents, Contents, Working, AllMoving, Moving, Live

\* What the mapped variables hold, entry by entry.
LEMMA Entries ==
    /\ \A i \in Id : AllContents[i] = Contents(i)
    /\ \A r \in Request : AllMoving[r] = Moving(r)
    /\ \A i \in Id : i \in Live <=> store[i].status = "whole" /\ i \notin unlocked
BY DEF AllContents, AllMoving, Live

\* A step that keeps the contents of each record, or loses them with the record,
\* is a loss.
LEMMA LoseStep ==
    ASSUME TypeOK', UNCHANGED <<retired, unlocked>>,
           \A i \in Id \ unlocked :
               store'[i].status = "whole" => store[i].status = "whole",
           \A i \in Id : \/ AllContents'[i] = AllContents[i]
                         \/ (AllContents'[i] = {} /\ store'[i].status # "whole"),
           \A r \in Request : AllMoving'[r] \in {AllMoving[r], {}}
    PROVE  Serial!Next
<1>1. Live' \subseteq Live /\ \A i \in Id : store'[i].status # "whole" => i \notin Live'
  BY DEF Live
<1>2. Serial!Lose
  BY <1>1, AbstractTypesNext DEF Serial!Lose
<1> QED
  BY <1>2 DEF Serial!Next

\* The steps of a request before its handler runs, and after its write.
LEMMA AsideStep ==
    ASSUME SerialInv, TypeOK', NEW r \in Request,
           UNCHANGED <<store, retired, unlocked>>,
           \A q \in Request \ {r} : pc'[q] = pc[q] /\ sess'[q] = sess[q]
                                     /\ orig'[q] = orig[q],
           pc[r] \in {"idle", "load", "lock", "unwind"},
           pc'[r] \in {"load", "lock", "reload", "done"},
           \A i \in Id : \/ lock'[i] = lock[i]
                         \/ lock[i] \in {None, r} /\ lock'[i] \in {None, r}
    PROVE  Serial!Next
<1>1. \A i \in Id : lock[i] \in Request \cup {None} /\ lock'[i] \in Request \cup {None}
  BY DEF SerialInv, TypeOK
<1>2. \A i \in Id : AllContents'[i] = AllContents[i]
  <2> SUFFICES ASSUME NEW i \in Id PROVE AllContents'[i] = AllContents[i]
    OBVIOUS
  <2>1. CASE lock'[i] = lock[i]
    <3>1. CASE lock[i] = r
      <4>1. ~Working(r, i) /\ ~Working(r, i)'
        BY DEF Working
      <4> QED
        BY <2>1, <3>1, <4>1 DEF AllContents, Contents
    <3>2. CASE lock[i] # r
      BY <1>1, <2>1, <3>2 DEF AllContents, Contents, Working
    <3> QED
      BY <3>1, <3>2
  <2>2. CASE lock[i] \in {None, r} /\ lock'[i] \in {None, r}
    BY <2>2 DEF AllContents, Contents, Working
  <2> QED
    BY <2>1, <2>2
<1>3. \A q \in Request : AllMoving'[q] = AllMoving[q]
  BY DEF AllMoving, Moving
<1> QED
  BY <1>2, <1>3, LoseStep

\* A step of a request that goes on without its mutex abandons its original ID.
LEMMA AbandonStep ==
    ASSUME TypeOK, TypeOK', NEW r \in Request,
           UNCHANGED <<store, lock, retired>>,
           unlocked' = unlocked \cup {orig'[r]},
           \A q \in Request \ {r} : pc'[q] = pc[q] /\ sess'[q] = sess[q]
                                     /\ orig'[q] = orig[q],
           pc[r] \in {"load", "lock"},
           pc'[r] \in {"reload", "handle", "save"}
    PROVE  Serial!Next
<1> DEFINE o == orig'[r]
<1>0. o \in Id
  BY DEF TypeOK
<1>1. \A i \in Id : AllContents'[i] = IF i = o THEN {} ELSE AllContents[i]
  <2> SUFFICES ASSUME NEW i \in Id
               PROVE  AllContents'[i] = IF i = o THEN {} ELSE AllContents[i]
    OBVIOUS
  <2>1. CASE i \in unlocked \/ i = o
    BY <2>1 DEF AllContents, Contents
  <2>2. CASE i \notin unlocked /\ i # o
    <3>1. lock[i] \in Request \cup {None}
      BY DEF TypeOK
    <3>2. CASE lock[i] = r
      <4>1. ~Working(r, i) /\ ~Working(r, i)'
        BY <2>2 DEF Working
      <4> QED
        BY <2>2, <3>2, <4>1 DEF AllContents, Contents
    <3>3. CASE lock[i] # r
      BY <2>2, <3>1, <3>3 DEF AllContents, Contents, Working
    <3> QED
      BY <3>2, <3>3
  <2> QED
    BY <2>1, <2>2
<1>2. AllContents' = [AllContents EXCEPT ![o] = {}]
  BY <1>0, <1>1, AbstractTypes, AbstractTypesNext
<1>3. AllMoving' = AllMoving
  <2>1. \A q \in Request : AllMoving'[q] = AllMoving[q]
    BY DEF AllMoving, Moving
  <2> QED
    BY <2>1, AbstractTypes, AbstractTypesNext
<1>4. Live' = Live \ {o}
  BY DEF Live
<1>5. Serial!Abandon(o)
  BY <1>2, <1>3, <1>4 DEF Serial!Abandon
<1> QED
  BY <1>0, <1>5 DEF Serial!Next

\* A request that works on a record knows, under its mutex, what it holds.
LEMMA CopyIsContents ==
    ASSUME RefinementInv, NEW r \in Request, orig[r] \notin unlocked,
           pc[r] \in {"handle", "save", "write", "fill"}
    PROVE  /\ lock[orig[r]] = r /\ r # None /\ orig[r] \in Id /\ sess[r].id \in Id
           /\ store[orig[r]].status = "whole" =>
                  IF pc[r] = "handle" \/ sess[r].id = orig[r]
                  THEN sess[r].items \ {r} = store[orig[r]].items
                  ELSE pc[r] = "save" => sess[r].items \ {r} \in {{}, store[orig[r]].items}
<1>1. lock[orig[r]] = r /\ r # None /\ orig[r] \in Id /\ sess[r].id \in Id
  BY NoneIsNeither DEF RefinementInv, SerialInv, TypeOK, CriticalHoldsLock, Critical, Session
<1>2. CASE pc[r] = "handle"
  <2>1. r \notin store[orig[r]].items
    BY <1>1, <1>2 DEF RefinementInv, UnsavedUpdate
  <2>2. store[orig[r]].status = "whole" => sess[r].items = store[orig[r]].items
    BY <1>2 DEF RefinementInv, SerialInv, LockedCopyExact
  <2> QED
    BY <1>1, <1>2, <2>1, <2>2
<1>3. CASE pc[r] # "handle"
  BY <1>1, <1>3 DEF RefinementInv, CopiesExact, CopyExact
<1> QED
  BY <1>2, <1>3

\* A request whose session has a new ID: nothing is stored under it, and nobody
\* works on it.
LEMMA NewIdIsFree ==
    ASSUME RefinementInv, NEW r \in Request, pc[r] \in {"save", "write", "fill"},
           sess[r].id # orig[r]
    PROVE  /\ store[sess[r].id].status # "whole"
           /\ sess[r].id \notin retired \cup unlocked
           /\ \A q \in Request : orig[q] # sess[r].id
<1>1. PICK k \in {"reload", "handler"} : sess[r].id = Token(r, k)
  BY DEF RefinementInv, SerialInv, SessionIdKnown
<1> QED
  BY <1>1 DEF RefinementInv, SerialInv, UnsavedTokensUnknown

\* Every step of a request, a sweep and a restart is a step of SerialSession or
\* changes nothing there.
LEMMA SerialSteps ==
    RefinementInv /\ RefinementInv' /\ [Next]_vars
        => [Serial!Next]_(Serial!vars)
<1> SUFFICES ASSUME RefinementInv, RefinementInv', [Next]_vars
             PROVE  [Serial!Next]_(Serial!vars)
  OBVIOUS
<1>0. SerialInv /\ TypeOK /\ TypeOK'
  BY DEF RefinementInv, SerialInv
<1>t. /\ pc \in [Request -> Pc] /\ sess \in [Request -> Session]
      /\ orig \in [Request -> Id] /\ store \in [Id -> Record]
      /\ lock \in [Id -> Request \cup {None}]
  BY <1>0 DEF TypeOK
<1> USE DEF Goto
<1>1. ASSUME NEW r \in Request,
             \/ Arrive(r) \/ AcquireLock(r) \/ Unwind(r)
             \/ StartSession(r) /\ route[r].blocked
      PROVE  Serial!Next
  <2>1. /\ UNCHANGED <<store, retired, unlocked>>
        /\ pc[r] \in {"idle", "load", "lock", "unwind"}
        /\ pc'[r] \in {"load", "lock", "reload", "done"}
    BY <1>1, <1>t DEF Arrive, StartSession, Started, AcquireLock, Unwind, shared, aux
  <2>2. /\ \A q \in Request \ {r} : pc'[q] = pc[q] /\ sess'[q] = sess[q]
                                     /\ orig'[q] = orig[q]
        /\ \A i \in Id : \/ lock'[i] = lock[i]
                         \/ lock[i] \in {None, r} /\ lock'[i] \in {None, r}
    BY <1>1, <1>t DEF Arrive, StartSession, Started, AcquireLock, Unwind, shared
  <2> QED
    BY <1>0, <2>1, <2>2, AsideStep
<1>2. ASSUME NEW r \in Request,
             \/ GiveUpLock(r) \/ TurnedAway(r)
             \/ StartSession(r) /\ ~route[r].blocked
      PROVE  Serial!Next
  <2>1. /\ UNCHANGED <<store, lock, retired>>
        /\ unlocked' = unlocked \cup {orig'[r]}
        /\ pc[r] \in {"load", "lock"}
        /\ pc'[r] \in {"reload", "handle", "save"}
    BY <1>2, <1>t DEF GiveUpLock, TurnedAway, StartSession, Started, shared
  <2>2. \A q \in Request \ {r} : pc'[q] = pc[q] /\ sess'[q] = sess[q]
                                  /\ orig'[q] = orig[q]
    BY <1>2, <1>t DEF GiveUpLock, TurnedAway, StartSession, Started, shared
  <2> QED
    BY <1>0, <2>1, <2>2, AbandonStep
<1>3. ASSUME NEW r \in Request, Reload(r) \/ HandlerReturns(r) \/ HandlerPanics(r)
                                 \/ WriteFails(r) \/ EncodeFails(r)
      PROVE  Serial!Next
  <2>1. /\ UNCHANGED <<store, lock, orig, retired, unlocked>>
        /\ \A q \in Request \ {r} : pc'[q] = pc[q] /\ sess'[q] = sess[q]
    BY <1>3, <1>t DEF Reload, HandlerReturns, HandlerPanics, WriteFails, EncodeFails, Work,
       shared, aux
  <2>2. CASE Reload(r)
    <3>1. /\ pc[r] = "reload" /\ pc'[r] = "handle"
          /\ store[orig[r]].status # "whole" => sess'[r].items = {}
      BY <2>2, <1>t DEF Reload, Load, Readable
    <3>2. \A i \in Id : AllContents'[i] = AllContents[i]
      <4> SUFFICES ASSUME NEW i \in Id PROVE AllContents'[i] = AllContents[i]
        OBVIOUS
      <4>1. CASE store[i].status = "whole" \/ lock[i] # r
        BY <4>1, <1>t, <2>1, <3>1 DEF AllContents, Contents, Working
      <4>2. CASE store[i].status # "whole" /\ lock[i] = r
        BY <4>2, <1>t, <2>1, <3>1 DEF AllContents, Contents, Working
      <4> QED
        BY <4>1, <4>2
    <3>3. \A q \in Request : AllMoving'[q] = AllMoving[q]
      BY <1>t, <2>1, <3>1 DEF AllMoving, Moving
    <3> QED
      BY <1>0, <2>1, <3>2, <3>3, LoseStep
  <2>3. CASE HandlerReturns(r) \/ HandlerPanics(r)
    <3>1. /\ pc[r] = "handle" /\ pc'[r] \in {"save", "unwind"}
          /\ sess'[r].items \ {r} \in {sess[r].items \ {r}, {}}
      <4>1. PICK op : Work(r, op)
        BY <2>3 DEF HandlerReturns, HandlerPanics
      <4>2. sess'[r].items \ {r} \in {sess[r].items \ {r}, {}}
        BY <4>1, <1>t DEF Work, AfterOp
      <4> QED
        BY <2>3, <1>t, <4>2 DEF HandlerReturns, HandlerPanics
    <3>2. \A i \in Id : AllContents'[i] = AllContents[i]
                        \/ (AllContents'[i] = {} /\ store'[i].status # "whole")
      <4> SUFFICES ASSUME NEW i \in Id
                   PROVE  AllContents'[i] = AllContents[i]
                          \/ (AllContents'[i] = {} /\ store'[i].status # "whole")
        OBVIOUS
      <4>1. CASE store[i].status = "whole"
        BY <4>1, <2>1, <1>t DEF AllContents, Contents, Working
      <4>2. CASE store[i].status # "whole" /\ lock[i] # r
        <5>1. lock[i] # None => lock[i] \in Request \ {r}
          BY <4>2, <1>t
        <5> QED
          BY <4>2, <5>1, <2>1 DEF AllContents, Contents, Working
      <4>3. CASE store[i].status # "whole" /\ lock[i] = r
        BY <4>3, <1>t, <2>1, <3>1 DEF AllContents, Contents, Working
      <4> QED
        BY <4>1, <4>2, <4>3
    <3>3. \A q \in Request : AllMoving'[q] = AllMoving[q]
      BY <1>t, <2>1, <3>1 DEF AllMoving, Moving
    <3> QED
      BY <1>0, <2>1, <3>2, <3>3, LoseStep
  <2>4. CASE WriteFails(r) \/ EncodeFails(r)
    <3>1. pc[r] \in {"save", "write", "fill"} /\ pc'[r] = "unwind" /\ sess' = sess
      BY <2>4, <1>t DEF WriteFails, EncodeFails
    <3>2. \A i \in Id : AllContents'[i] = AllContents[i]
                        \/ (AllContents'[i] = {} /\ store'[i].status # "whole")
      <4> SUFFICES ASSUME NEW i \in Id
                   PROVE  AllContents'[i] = AllContents[i]
                          \/ (AllContents'[i] = {} /\ store'[i].status # "whole")
        OBVIOUS
      <4>1. CASE store[i].status = "whole"
        BY <4>1, <2>1, <1>t DEF AllContents, Contents, Working
      <4>2. CASE store[i].status # "whole" /\ lock[i] # r
        <5>1. lock[i] # None => lock[i] \in Request \ {r}
          BY <4>2, <1>t
        <5> QED
          BY <4>2, <5>1, <2>1 DEF AllContents, Contents, Working
      <4>3. CASE store[i].status # "whole" /\ lock[i] = r
        BY <4>3, <1>t, <2>1, <3>1 DEF AllContents, Contents, Working
      <4> QED
        BY <4>1, <4>2, <4>3
    <3>3. \A q \in Request : AllMoving'[q] \in {AllMoving[q], {}}
      BY <1>t, <2>1, <3>1 DEF AllMoving, Moving
    <3> QED
      BY <1>0, <2>1, <3>2, <3>3, LoseStep
  <2> QED
    BY <1>3, <2>2, <2>3, <2>4
<1>4. ASSUME NEW r \in Request, DestroyOriginal(r), sess[r].id = orig[r]
      PROVE  Serial!Next
  <2>1. /\ pc[r] = "save" /\ pc' = [pc EXCEPT ![r] = "write"]
        /\ UNCHANGED <<sess, orig, store, lock, retired, unlocked>>
    BY <1>4 DEF DestroyOriginal
  <2>2. \A i \in Id : AllContents'[i] = AllContents[i]
    BY <1>4, <1>t, <2>1 DEF AllContents, Contents, Working
  <2>3. \A q \in Request : AllMoving'[q] = AllMoving[q]
    BY <1>4, <1>t, <2>1 DEF AllMoving, Moving
  <2> QED
    BY <1>0, <2>1, <2>2, <2>3, LoseStep
<1>5. ASSUME NEW r \in Request, DestroyOriginal(r), sess[r].id # orig[r]
      PROVE  Serial!Next
  <2>1. /\ pc[r] = "save" /\ pc' = [pc EXCEPT ![r] = "write"]
        /\ store' = [store EXCEPT ![orig[r]] = Absent]
        /\ retired' = retired \cup {orig[r]}
        /\ UNCHANGED <<sess, orig, lock, unlocked>>
    BY <1>5 DEF DestroyOriginal
  <2>2. orig[r] \in Id /\ sess[r].items \ {r} \in SUBSET Request
    BY <1>t DEF Session
  <2>3. sess[r].items \ {r} \in Serial!Portable(orig[r])
    <3>1. CASE orig[r] \in unlocked
      BY <2>2, <3>1 DEF Serial!Portable
    <3>2. CASE orig[r] \notin unlocked
      <4>1. /\ lock[orig[r]] = r /\ r # None
            /\ store[orig[r]].status = "whole" =>
                   sess[r].items \ {r} \in {{}, store[orig[r]].items}
        BY <1>5, <2>1, <3>2, CopyIsContents
      <4>2. sess[r].items \ {r} \in {{}, AllContents[orig[r]]}
        BY <2>1, <2>2, <3>2, <4>1 DEF AllContents, Contents, Working
      <4> QED
        BY <3>2, <4>2 DEF Serial!Portable
    <3> QED
      BY <3>1, <3>2
  <2>4. AllContents' = [AllContents EXCEPT ![orig[r]] = {}]
    <3>1. \A i \in Id : AllContents'[i] = IF i = orig[r] THEN {} ELSE AllContents[i]
      <4> SUFFICES ASSUME NEW i \in Id
                   PROVE  AllContents'[i] = IF i = orig[r] THEN {} ELSE AllContents[i]
        OBVIOUS
      <4>1. CASE i = orig[r]
        <5>1. store'[i].status # "whole"
          BY <4>1, <1>t, <2>1, <2>2 DEF Absent
        <5>2. CASE i \in unlocked
          BY <2>1, <5>2 DEF AllContents, Contents
        <5>3. CASE i \notin unlocked
          <6>1. lock[i] = r
            BY <4>1, <5>3, <2>1, CopyIsContents
          <6>2. pc'[r] = "write" /\ sess'[r].id # i
            BY <4>1, <1>5, <1>t, <2>1
          <6> QED
            BY <2>1, <5>1, <6>1, <6>2 DEF AllContents, Contents, Working
        <5> QED
          BY <4>1, <5>2, <5>3
      <4>2. CASE i # orig[r]
        BY <4>2, <1>t, <2>1 DEF AllContents, Contents, Working
      <4> QED
        BY <4>1, <4>2
    <3> QED
      BY <1>0, <3>1, AbstractTypes, AbstractTypesNext
  <2>5. AllMoving' = [AllMoving EXCEPT ![r] = sess[r].items \ {r}]
    <3>1. \A q \in Request :
              AllMoving'[q] = IF q = r THEN sess[r].items \ {r} ELSE AllMoving[q]
      BY <1>5, <1>t, <2>1 DEF AllMoving, Moving
    <3> QED
      BY <1>0, <3>1, AbstractTypes, AbstractTypesNext
  <2>6. Live' = Live \ {orig[r]}
    BY <1>t, <2>1 DEF Live, Absent
  <2>7. Serial!Take(r, orig[r])
    BY <2>1, <2>3, <2>4, <2>5, <2>6 DEF Serial!Take
  <2> QED
    BY <2>2, <2>7 DEF Serial!Next
<1>6. ASSUME NEW r \in Request, DestroyFails(r) PROVE Serial!Next
  <2>1. /\ pc[r] = "save" /\ pc' = [pc EXCEPT ![r] = "write"]
        /\ sess[r].id # orig[r] /\ store[orig[r]].status # "absent"
        /\ UNCHANGED <<sess, orig, store, lock, retired, unlocked>>
    BY <1>6 DEF DestroyFails, shared, aux
  <2>2. orig[r] \in Id /\ sess[r].items \ {r} \in SUBSET Request
    BY <1>t DEF Session
  <2>3. orig[r] \notin unlocked =>
            /\ lock[orig[r]] = r /\ r # None
            /\ store[orig[r]].status = "whole" =>
                   sess[r].items \ {r} \in {{}, store[orig[r]].items}
            /\ store[orig[r]].status # "whole" => sess[r].items \ {r} = {}
    <3> SUFFICES ASSUME orig[r] \notin unlocked
                 PROVE  /\ lock[orig[r]] = r /\ r # None
                        /\ store[orig[r]].status = "whole" =>
                               sess[r].items \ {r} \in {{}, store[orig[r]].items}
                        /\ store[orig[r]].status # "whole" => sess[r].items \ {r} = {}
      OBVIOUS
    <3>1. store[orig[r]].status \in {"absent", "whole", "torn"}
      BY <1>t, <2>2 DEF Record
    <3>2. store[orig[r]].status # "whole" => sess[r].items \ {r} = {}
      BY <2>1, <3>1 DEF RefinementInv, CopiesExact, CopyExact
    <3> QED
      BY <2>1, <3>2, CopyIsContents
  <2>4. sess[r].items \ {r} \in Serial!Portable(orig[r])
    <3>1. CASE orig[r] \in unlocked
      BY <2>2, <3>1 DEF Serial!Portable
    <3>2. CASE orig[r] \notin unlocked
      <4>1. sess[r].items \ {r} \in {{}, AllContents[orig[r]]}
        BY <2>1, <2>2, <2>3, <3>2 DEF AllContents, Contents, Working
      <4> QED
        BY <3>2, <4>1 DEF Serial!Portable
    <3> QED
      BY <3>1, <3>2
  <2>5. \A i \in Id : AllContents'[i] = AllContents[i]
    <3> SUFFICES ASSUME NEW i \in Id PROVE AllContents'[i] = AllContents[i]
      OBVIOUS
    <3>1. CASE i = orig[r]
      BY <3>1, <1>t, <2>1, <2>2, <2>3 DEF AllContents, Contents, Working
    <3>2. CASE i # orig[r]
      BY <3>2, <1>t, <2>1 DEF AllContents, Contents, Working
    <3> QED
      BY <3>1, <3>2
  <2>6. AllMoving' = [AllMoving EXCEPT ![r] = sess[r].items \ {r}]
    <3>1. \A q \in Request :
              AllMoving'[q] = IF q = r THEN sess[r].items \ {r} ELSE AllMoving[q]
      BY <1>t, <2>1 DEF AllMoving, Moving
    <3> QED
      BY <1>0, <3>1, AbstractTypes, AbstractTypesNext
  <2>7. AllContents' = AllContents /\ Live' = Live
    BY <1>0, <2>1, <2>5, AbstractTypes, AbstractTypesNext DEF Live
  <2>8. Serial!TakeCopy(r, orig[r])
    BY <2>1, <2>4, <2>6, <2>7 DEF Serial!TakeCopy
  <2> QED
    BY <2>2, <2>8 DEF Serial!Next
<1>7. ASSUME NEW r \in Request, TruncateFile(r) PROVE Serial!Next
  <2>1. /\ pc[r] = "write" /\ pc' = [pc EXCEPT ![r] = "fill"]
        /\ store' = [store EXCEPT ![sess[r].id].status = "torn"]
        /\ UNCHANGED <<sess, orig, lock, retired, unlocked>>
    BY <1>7 DEF TruncateFile, aux
  <2>2. /\ orig[r] \in Id /\ sess[r].id \in Id
        /\ orig[r] \notin unlocked =>
               /\ lock[orig[r]] = r /\ r # None
               /\ store[orig[r]].status = "whole" /\ sess[r].id = orig[r] =>
                      sess[r].items \ {r} = store[orig[r]].items
    BY <1>t, <2>1, CopyIsContents DEF Session
  <2>3. sess[r].id # orig[r] => /\ store[sess[r].id].status # "whole"
                                /\ \A q \in Request : orig[q] # sess[r].id
    BY <2>1, NewIdIsFree
  <2>4. \A i \in Id : AllContents'[i] = AllContents[i]
    <3> SUFFICES ASSUME NEW i \in Id PROVE AllContents'[i] = AllContents[i]
      OBVIOUS
    <3>1. CASE i # sess[r].id
      BY <3>1, <1>t, <2>1 DEF AllContents, Contents, Working
    <3>2. CASE i = sess[r].id /\ i # orig[r]
      <4>1. store[i].status # "whole" /\ store'[i].status # "whole"
        BY <3>2, <1>t, <2>1, <2>3 DEF Record
      <4>2. \A q \in Request : orig[q] # i
        BY <3>2, <2>3
      <4>3. AllContents[i] = {}
        BY <1>t, <4>1, <4>2 DEF AllContents, Contents, Working
      <4>4. AllContents'[i] = {}
        BY <1>t, <2>1, <4>1, <4>2 DEF AllContents, Contents, Working
      <4> QED
        BY <4>3, <4>4
    <3>3. CASE i = sess[r].id /\ i = orig[r] /\ i \notin unlocked
      <4>1. store'[i].status # "whole"
        BY <3>3, <1>t, <2>1 DEF Record
      <4>2. AllContents'[i] = sess[r].items \ {r}
        BY <3>3, <1>t, <2>1, <2>2, <4>1 DEF AllContents, Contents, Working
      <4>3. AllContents[i] = sess[r].items \ {r}
        BY <3>3, <1>t, <2>1, <2>2 DEF AllContents, Contents, Working
      <4> QED
        BY <4>2, <4>3
    <3>4. CASE i \in unlocked
      BY <2>1, <3>4 DEF AllContents, Contents
    <3> QED
      BY <3>1, <3>2, <3>3, <3>4
  <2>5. \A q \in Request : AllMoving'[q] = AllMoving[q]
    BY <1>t, <2>1 DEF AllMoving, Moving
  <2>6. \A i \in Id : store'[i].status = "whole" => store[i].status = "whole"
    BY <1>t, <2>1 DEF Record
  <2> QED
    BY <1>0, <2>1, <2>4, <2>5, <2>6, LoseStep
<1>8. ASSUME NEW r \in Request, WriteMemory(r) \/ FillFile(r), sess[r].id = orig[r],
             orig[r] \notin unlocked
      PROVE  Serial!Next
  <2>1. /\ pc[r] \in {"write", "fill"} /\ pc' = [pc EXCEPT ![r] = "unwind"]
        /\ store' = [store EXCEPT ![sess[r].id] = Whole(sess[r].items)]
        /\ UNCHANGED <<sess, orig, lock, retired, unlocked>>
    BY <1>8 DEF WriteMemory, FillFile, aux
  <2>2. /\ lock[orig[r]] = r /\ r # None /\ orig[r] \in Id
        /\ store[orig[r]].status = "whole" =>
               sess[r].items \ {r} = store[orig[r]].items
    BY <1>8, <2>1, CopyIsContents
  <2>3. orig[r] \notin retired \cup unlocked
    BY <1>8, <2>1, <1>0, WriteIsSafe DEF Writing
  <2>4. AllContents[orig[r]] = sess[r].items \ {r}
    BY <1>8, <2>1, <2>2 DEF AllContents, Contents, Working
  <2>5. PICK own \in SUBSET {r} : sess[r].items = AllContents[orig[r]] \cup own
    <3>1. sess[r].items = AllContents[orig[r]] \cup (sess[r].items \cap {r})
      BY <2>4
    <3> QED
      BY <3>1
  <2>6. AllContents' = [AllContents EXCEPT ![orig[r]] = @ \cup own]
    <3>1. \A i \in Id : AllContents'[i] =
              IF i = orig[r] THEN AllContents[orig[r]] \cup own ELSE AllContents[i]
      <4> SUFFICES ASSUME NEW i \in Id
                   PROVE  AllContents'[i] =
                    IF i = orig[r] THEN AllContents[orig[r]] \cup own ELSE AllContents[i]
        OBVIOUS
      <4>1. CASE i = orig[r]
        <5>1. store'[i].status = "whole" /\ store'[i].items = sess[r].items
          BY <4>1, <1>8, <1>t, <2>1 DEF Whole
        <5> QED
          BY <4>1, <1>8, <2>1, <2>5, <5>1 DEF AllContents, Contents
      <4>2. CASE i # orig[r]
        BY <4>2, <1>8, <1>t, <2>1 DEF AllContents, Contents, Working
      <4> QED
        BY <4>1, <4>2
    <3> QED
      BY <1>0, <3>1, AbstractTypes, AbstractTypesNext
  <2>7. AllMoving' = AllMoving
    <3>1. \A q \in Request : AllMoving'[q] = AllMoving[q]
      BY <1>8, <1>t, <2>1 DEF AllMoving, Moving
    <3> QED
      BY <1>0, <3>1, AbstractTypes, AbstractTypesNext
  <2>8. Live' = Live \cup {orig[r]}
    BY <1>8, <1>t, <2>1, <2>2 DEF Live, Whole
  <2>9. Serial!Update(r, orig[r])
    BY <2>1, <2>3, <2>6, <2>7, <2>8 DEF Serial!Update
  <2> QED
    BY <2>2, <2>9 DEF Serial!Next
<1>13. ASSUME NEW r \in Request, WriteMemory(r) \/ FillFile(r), sess[r].id = orig[r],
              orig[r] \in unlocked
       PROVE  Serial!Next
  <2>1. /\ pc[r] \in {"write", "fill"} /\ pc' = [pc EXCEPT ![r] = "unwind"]
        /\ store' = [store EXCEPT ![orig[r]] = Whole(sess[r].items)]
        /\ UNCHANGED <<sess, orig, lock, retired, unlocked>>
    BY <1>13 DEF WriteMemory, FillFile, aux
  <2>2. \A i \in Id : AllContents'[i] = AllContents[i]
    <3> SUFFICES ASSUME NEW i \in Id PROVE AllContents'[i] = AllContents[i]
      OBVIOUS
    <3>1. CASE i \in unlocked
      BY <2>1, <3>1 DEF AllContents, Contents
    <3>2. CASE i \notin unlocked
      <4>1. i # orig[r]
        BY <1>13, <3>2
      <4> QED
        BY <1>13, <1>t, <2>1, <3>2, <4>1 DEF AllContents, Contents, Working
    <3> QED
      BY <3>1, <3>2
  <2>3. \A q \in Request : AllMoving'[q] = AllMoving[q]
    BY <1>13, <1>t, <2>1 DEF AllMoving, Moving
  <2>4. \A i \in Id \ unlocked : store'[i].status = "whole" => store[i].status = "whole"
    BY <1>13, <1>t, <2>1
  <2> QED
    BY <1>0, <2>1, <2>2, <2>3, <2>4, LoseStep
<1>9. ASSUME NEW r \in Request, WriteMemory(r) \/ FillFile(r), sess[r].id # orig[r]
      PROVE  Serial!Next
  <2>1. /\ pc[r] \in {"write", "fill"} /\ pc' = [pc EXCEPT ![r] = "unwind"]
        /\ store' = [store EXCEPT ![sess[r].id] = Whole(sess[r].items)]
        /\ UNCHANGED <<sess, orig, lock, retired, unlocked>>
    BY <1>9 DEF WriteMemory, FillFile, aux
  <2>2. /\ store[sess[r].id].status # "whole" /\ sess[r].id \notin retired \cup unlocked
        /\ \A q \in Request : orig[q] # sess[r].id
    BY <1>9, <2>1, NewIdIsFree
  <2>3. sess[r].id \in Id
    BY <1>t DEF Session
  <2>4. AllContents[sess[r].id] = {} /\ sess[r].id \notin Live
    BY <1>t, <2>2, <2>3 DEF AllContents, Contents, Working, Live
  <2>5. AllMoving[r] = sess[r].items \ {r}
    BY <1>9, <2>1 DEF AllMoving, Moving
  <2>6. PICK own \in SUBSET {r} : sess[r].items = AllMoving[r] \cup own
    <3>1. sess[r].items = AllMoving[r] \cup (sess[r].items \cap {r})
      BY <2>5
    <3> QED
      BY <3>1
  <2>7. AllContents' = [AllContents EXCEPT ![sess[r].id] = AllMoving[r] \cup own]
    <3>1. \A i \in Id : AllContents'[i] =
              IF i = sess[r].id THEN AllMoving[r] \cup own ELSE AllContents[i]
      <4> SUFFICES ASSUME NEW i \in Id
                   PROVE  AllContents'[i] =
                    IF i = sess[r].id THEN AllMoving[r] \cup own ELSE AllContents[i]
        OBVIOUS
      <4>1. CASE i = sess[r].id
        <5>1. store'[i].status = "whole" /\ store'[i].items = sess[r].items
          BY <4>1, <1>t, <2>1 DEF Whole
        <5> QED
          BY <4>1, <2>1, <2>2, <2>6, <5>1 DEF AllContents, Contents
      <4>2. CASE i # sess[r].id
        BY <4>2, <1>9, <1>t, <2>1 DEF AllContents, Contents, Working
      <4> QED
        BY <4>1, <4>2
    <3> QED
      BY <1>0, <3>1, AbstractTypes, AbstractTypesNext
  <2>8. AllMoving' = [AllMoving EXCEPT ![r] = {}]
    <3>1. \A q \in Request : AllMoving'[q] = IF q = r THEN {} ELSE AllMoving[q]
      BY <1>9, <1>t, <2>1 DEF AllMoving, Moving
    <3> QED
      BY <1>0, <3>1, AbstractTypes, AbstractTypesNext
  <2>9. Live' = Live \cup {sess[r].id}
    BY <1>t, <2>1, <2>2, <2>3 DEF Live, Whole
  <2>10. Serial!Publish(r, sess[r].id)
    BY <2>1, <2>2, <2>4, <2>7, <2>8, <2>9 DEF Serial!Publish
  <2> QED
    BY <2>3, <2>10 DEF Serial!Next
<1>10. CASE Gc
  <2>1. /\ UNCHANGED <<pc, sess, orig, lock, retired, unlocked>>
        /\ \A i \in Id : store'[i] = store[i] \/ store'[i] = Absent
    BY <1>10, <1>t DEF Gc
  <2>2. \A i \in Id : AllContents'[i] = AllContents[i]
                      \/ (AllContents'[i] = {} /\ store'[i].status # "whole")
    <3> SUFFICES ASSUME NEW i \in Id
                 PROVE  AllContents'[i] = AllContents[i]
                        \/ (AllContents'[i] = {} /\ store'[i].status # "whole")
      OBVIOUS
    <3>0. CASE store'[i] = store[i]
      BY <3>0, <2>1, <1>t DEF AllContents, Contents, Working
    <3> SUFFICES ASSUME store'[i] # store[i]
                 PROVE  AllContents'[i] = AllContents[i]
                        \/ (AllContents'[i] = {} /\ store'[i].status # "whole")
      BY <3>0
    <3>1. store'[i].status # "whole"
      BY <2>1 DEF Absent
    <3>4. CASE i \in unlocked
      BY <2>1, <3>4 DEF AllContents, Contents
    <3>2. CASE i \notin unlocked /\ lock[i] # None /\ Working(lock[i], i)
      <4> DEFINE h == lock[i]
      <4>1. h \in Request /\ orig[h] = i /\ pc[h] \in {"handle", "save", "write", "fill"}
            /\ (pc[h] \in {"handle", "save"} \/ sess[h].id = i)
        BY <1>t, <3>2 DEF Working
      <4>2. AllContents'[i] = sess[h].items \ {h}
        BY <1>t, <2>1, <3>1, <3>2 DEF AllContents, Contents, Working
      <4>3. AllContents[i] = IF store[i].status = "whole" THEN store[i].items
                             ELSE sess[h].items \ {h}
        BY <3>2 DEF AllContents, Contents
      <4>4. store[i].status = "whole" => sess[h].items \ {h} \in {{}, store[i].items}
        BY <3>2, <4>1, CopyIsContents
      <4> HIDE DEF h
      <4> QED
        BY <3>1, <4>2, <4>3, <4>4
    <3>3. CASE ~(lock[i] # None /\ Working(lock[i], i))
      BY <1>t, <2>1, <3>1, <3>3 DEF AllContents, Contents, Working
    <3> QED
      BY <3>2, <3>3, <3>4
  <2>3. \A q \in Request : AllMoving'[q] = AllMoving[q]
    BY <2>1 DEF AllMoving, Moving
  <2>4. \A i \in Id : store'[i].status = "whole" => store[i].status = "whole"
    BY <2>1 DEF Absent
  <2>5. Serial!Next
    BY <1>0, <2>1, <2>2, <2>3, <2>4, LoseStep
  <2> QED
    BY <2>5
<1>11. CASE Restart
  <2>1. /\ UNCHANGED <<sess, orig, retired, unlocked>>
        /\ \A i \in Id : lock'[i] = None
                         /\ (store'[i] = store[i] \/ store'[i] = Absent)
        /\ \A q \in Request : pc'[q] = pc[q] \/ pc'[q] = "dead"
        /\ \A q \in Request : pc'[q] \notin {"write", "fill"}
    BY <1>11, <1>t DEF Restart, aux
  <2>2. \A i \in Id : AllContents'[i] = AllContents[i]
                      \/ (AllContents'[i] = {} /\ store'[i].status # "whole")
    <3> SUFFICES ASSUME NEW i \in Id
                 PROVE  AllContents'[i] = AllContents[i]
                        \/ (AllContents'[i] = {} /\ store'[i].status # "whole")
      OBVIOUS
    <3>1. CASE store'[i].status = "whole"
      <4>1. store'[i] = store[i]
        BY <3>1, <2>1 DEF Absent
      <4> QED
        BY <3>1, <4>1, <2>1, <1>t DEF AllContents, Contents, Working
    <3>2. CASE store'[i].status # "whole"
      BY <3>2, <2>1 DEF AllContents, Contents
    <3> QED
      BY <3>1, <3>2
  <2>3. \A q \in Request : AllMoving'[q] \in {AllMoving[q], {}}
    BY <2>1 DEF AllMoving, Moving
  <2>4. \A i \in Id : store'[i].status = "whole" => store[i].status = "whole"
    BY <2>1 DEF Absent
  <2>5. Serial!Next
    BY <1>0, <2>1, <2>2, <2>3, <2>4, LoseStep
  <2> QED
    BY <2>5
<1>12. CASE (\E r \in Request : Deliver(r)) \/ Quiescent \/ UNCHANGED vars
  <2>1. UNCHANGED <<pc, sess, orig, store, lock, retired, unlocked>>
    BY <1>12 DEF Deliver, Quiescent, vars, aux
  <2> QED
    BY <2>1 DEF Serial!vars, AllContents, Contents, Working, AllMoving, Moving, Live
<1> QED
  BY <1>1, <1>2, <1>3, <1>4, <1>5, <1>6, <1>7, <1>8, <1>9, <1>10, <1>11, <1>12,
     <1>13 DEF Next, Handling

\* The session engine implements SerialSession: each request of a session whose
\* requests all come through the lock takes effect as one atomic read and write of
\* it, in some order, and data is lost only to expiry, a crash or a failing disk,
\* never overwritten or mixed (SessionBlock.go, Manager.Save).  Unblocked, timed-out
\* and turned-away requests end this for the session they come with and no other.
THEOREM BlockedIsSerial == Spec => ImplementsSerial
<1>1. Init => Serial!Init
  <2> SUFFICES ASSUME Init PROVE Serial!Init
    OBVIOUS
  <2>1. /\ \A i \in Id : store[i].items = {} /\ lock[i] = None
        /\ \A r \in Request : pc[r] = "idle"
        /\ retired = {} /\ unlocked = {}
    BY DEF Init, Whole, Absent
  <2> QED
    BY <2>1 DEF Serial!Init, AllContents, Contents, AllMoving, Moving, Live
<1>2. Spec => []RefinementInv
  BY RefinementInit, RefinementStep, PTL DEF Spec
<1> QED
  BY <1>1, <1>2, SerialSteps, PTL DEF Spec, ImplementsSerial, Serial!Spec

----------------------------------------------------------------------------
(* What a session holds: FlashData, for every set of keys *)

\* How the marks of a key and its presence agree with the promise about it.
Agrees(k, v, old, new, d) ==
    /\ d = "plain" => k \in v /\ k \notin old /\ k \notin new
    /\ d = "next" => k \in v /\ k \notin old /\ k \in new
    /\ d = "now" => k \in v /\ k \in old /\ k \notin new
    /\ d = "kept" => k \in old /\ k \in new
    /\ d = "again" => k \in old /\ k \notin new
    /\ d = "over" => k \notin v /\ k \notin old /\ k \notin new

FlashInv ==
    /\ FlashTypeOK
    /\ \A k \in Key : Agrees(k, values, oldFlash, newFlash, due[k])
    /\ \A k \in Key : Agrees(k, stored.values, stored.old, stored.new, stored.due[k])

\* Loading a payload whose promises agree gives a session whose promises agree.
LEMMA LoadAgrees ==
    ASSUME NEW p \in Payload, LoadFrom(p),
           \A k \in Key : Agrees(k, p.values, p.old, p.new, p.due[k])
    PROVE  /\ values' \subseteq Key /\ oldFlash' \subseteq Key /\ newFlash' \subseteq Key
           /\ due' \in [Key -> Promise]
           /\ \A k \in Key : Agrees(k, values', oldFlash', newFlash', due'[k])
<1>1. \A k \in Key : p.due[k] \in Promise
  BY DEF Payload
<1>2. \A k \in Key : Aged(p.due[k]) \in Promise
  BY <1>1 DEF Aged, Promise
<1>3. ASSUME NEW k \in Key
      PROVE  Agrees(k, values', oldFlash', newFlash', due'[k])
  <2>1. due'[k] = Aged(p.due[k])
    BY DEF LoadFrom
  <2> QED
    BY <1>1, <2>1 DEF LoadFrom, Agrees, Aged, Promise
<1> QED
  BY <1>2, <1>3 DEF LoadFrom, Payload

\* Every method of the session and every load preserves FlashInv.
LEMMA FlashStep == FlashInv /\ [FlashNext]_flashVars => FlashInv'
<1> SUFFICES ASSUME FlashInv, [FlashNext]_flashVars PROVE FlashInv'
  OBVIOUS
<1> USE DEF FlashInv, FlashTypeOK
<1>1. ASSUME NEW k \in Key, Put(k) PROVE FlashInv'
  BY <1>1 DEF Put, Agrees, Promise
<1>2. ASSUME NEW k \in Key, Forget(k) PROVE FlashInv'
  BY <1>2 DEF Forget, Agrees, Promise
<1>3. ASSUME NEW k \in Key, Flash(k) PROVE FlashInv'
  BY <1>3 DEF Flash, Agrees, Promise
<1>4. ASSUME NEW k \in Key, Now(k) PROVE FlashInv'
  BY <1>4 DEF Now, Agrees, Promise
<1>5. ASSUME NEW keys \in SUBSET Key, Keep(keys) PROVE FlashInv'
  BY <1>5 DEF Keep, Agrees, Promise
<1>6. CASE Reflash
  BY <1>6 DEF Reflash, Agrees, Promise
<1>7. CASE Flush
  BY <1>7 DEF Flush, Agrees, Promise
<1>8. CASE SaveAndLoad
  <2>1. Encoded \in Payload
    BY DEF Encoded, Payload
  <2>2. \A k \in Key : Agrees(k, Encoded.values, Encoded.old, Encoded.new, Encoded.due[k])
    BY DEF Encoded
  <2>3. stored' = Encoded /\ LoadFrom(Encoded)
    BY <1>8 DEF SaveAndLoad
  <2> QED
    BY <2>1, <2>2, <2>3, LoadAgrees
<1>9. CASE PanicAndLoad
  BY <1>9, LoadAgrees DEF PanicAndLoad
<1>10. CASE UNCHANGED flashVars
  BY <1>10 DEF flashVars
<1> QED
  BY <1>1, <1>2, <1>3, <1>4, <1>5, <1>6, <1>7, <1>8, <1>9, <1>10 DEF FlashNext

\* FlashInv holds of every behaviour.
LEMMA FlashInvariant == FlashSpec => []FlashInv
<1>1. FlashInit => FlashInv
  BY DEF FlashInit, FlashInv, FlashTypeOK, Payload, Promise, Agrees
<1> QED
  BY <1>1, FlashStep, PTL DEF FlashSpec

\* A flashed value is readable in the next saved request and gone after it.
THEOREM FlashIsOneRequest == FlashSpec => []FlashLastsOneRequest
<1>1. FlashInv => FlashLastsOneRequest
  BY DEF FlashInv, FlashLastsOneRequest, Agrees
<1> QED
  BY <1>1, FlashInvariant, PTL

\* A plain value stays until it is removed.
THEOREM PlainIsKept == FlashSpec => []PlainValuesStay
<1>1. FlashInv => PlainValuesStay
  BY DEF FlashInv, PlainValuesStay, Agrees
<1> QED
  BY <1>1, FlashInvariant, PTL
============================================================================

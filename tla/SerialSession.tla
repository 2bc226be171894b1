--------------------------- MODULE SerialSession ---------------------------
(***************************************************************************)
(* What the session engine promises to a session whose requests all come   *)
(* through the lock of .Block(): they read and rewrite its record one      *)
(* after another, each in one atomic step, and a request that changes the  *)
(* session's ID takes exactly what the record held to the new ID.  Data    *)
(* may be lost, to expiry, a crash or a failing disk, and is never changed *)
(* otherwise.  The promise is made for each session by itself: it ends for *)
(* the sessions that are abandoned, those that a request works on without  *)
(* the lock, and holds on for every other one.                             *)
(***************************************************************************)
CONSTANTS
    Request,    \* the requests, named in the sessions they have updated
    Id          \* session IDs

VARIABLES
    contents,   \* whose updates the record of each ID holds
    live,       \* the IDs whose record a request can load
    moving,     \* what a request is taking from one ID to another
    retired,    \* the IDs whose record a change of ID has destroyed
    loose       \* the IDs about which nothing is promised any more

vars == <<contents, live, moving, retired, loose>>

Init ==
    /\ contents = [i \in Id |-> {}]
    /\ live \subseteq Id
    /\ moving = [r \in Request |-> {}]
    /\ retired = {}
    /\ loose = {}

\* A request reads a record and writes it with its own update, or as it was.
Update(r, i) ==
    /\ i \notin retired \cup loose
    /\ \E own \in SUBSET {r} : contents' = [contents EXCEPT ![i] = @ \cup own]
    /\ live' = live \cup {i}
    /\ UNCHANGED <<moving, retired, loose>>

\* What a request may take from an ID: its data (Regenerate) or none (Invalidate).
Portable(i) == IF i \in loose THEN SUBSET Request ELSE {{}, contents[i]}

\* A request gives up an ID and takes what it held.
Take(r, i) ==
    /\ \E data \in Portable(i) : moving' = [moving EXCEPT ![r] = data]
    /\ contents' = [contents EXCEPT ![i] = {}]
    /\ live' = live \ {i}
    /\ retired' = retired \cup {i}
    /\ UNCHANGED loose

\* The same when the old record cannot be destroyed.
TakeCopy(r, i) ==
    /\ \E data \in Portable(i) : moving' = [moving EXCEPT ![r] = data]
    /\ UNCHANGED <<contents, live, retired, loose>>

\* It stores what it took, with its own update, under an ID never used before.
Publish(r, i) ==
    /\ i \notin live \cup retired \cup loose
    /\ contents[i] = {}
    /\ \E own \in SUBSET {r} : contents' = [contents EXCEPT ![i] = moving[r] \cup own]
    /\ live' = live \cup {i}
    /\ moving' = [moving EXCEPT ![r] = {}]
    /\ UNCHANGED <<retired, loose>>

\* A request works on a session without its lock.
Abandon(i) ==
    /\ loose' = loose \cup {i}
    /\ contents' = [contents EXCEPT ![i] = {}]
    /\ live' = live \ {i}
    /\ UNCHANGED <<moving, retired>>

\* Records expire, become unreadable, or go with the process.  The request that
\* is working on a record still has its data and may bring it back.
Lose ==
    /\ contents' \in [Id -> SUBSET Request]
    /\ moving' \in [Request -> SUBSET Request]
    /\ live' \subseteq live
    /\ \A i \in Id : \/ contents'[i] = contents[i]
                     \/ contents'[i] = {} /\ i \notin live'
    /\ \A r \in Request : moving'[r] \in {moving[r], {}}
    /\ UNCHANGED <<retired, loose>>

Next ==
    \/ \E r \in Request, i \in Id :
           Update(r, i) \/ Take(r, i) \/ TakeCopy(r, i) \/ Publish(r, i) \/ Abandon(i)
    \/ Lose

Spec == Init /\ [][Next]_vars
============================================================================

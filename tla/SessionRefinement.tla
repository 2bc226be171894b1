------------------------- MODULE SessionRefinement -------------------------
(* SessionEngine implements SerialSession, which forgets the sessions that *)
(* some request works on or saves without their mutex.                     *)
EXTENDS SessionEngine

\* A request under the lock still has the data of its original record.
Working(r, i) ==
    /\ orig[r] = i
    /\ pc[r] \in {"handle", "save"} \/ (pc[r] \in {"write", "fill"} /\ sess[r].id = i)

\* The abstract contents of a record that cannot be read are what the request
\* holding its mutex would bring back.
Contents(i) ==
    IF i \in unlocked THEN {}
    ELSE IF store[i].status = "whole" THEN store[i].items
    ELSE IF lock[i] # None /\ Working(lock[i], i) THEN sess[lock[i]].items \ {lock[i]}
    ELSE {}

\* What a request whose session's ID has changed is about to write.
Moving(r) ==
    IF pc[r] \in {"write", "fill"} /\ sess[r].id # orig[r]
    THEN sess[r].items \ {r} ELSE {}

AllContents == [i \in Id |-> Contents(i)]
Live == {i \in Id \ unlocked : store[i].status = "whole"}
AllMoving == [r \in Request |-> Moving(r)]

Serial == INSTANCE SerialSession WITH
    contents <- AllContents,
    live <- Live,
    moving <- AllMoving,
    loose <- unlocked

\* The requests of a session that all come through .Block()'s lock take effect one
\* after another, each as one atomic read and write of its record, whatever the
\* lock, the reload, the two halves of Save and of os.WriteFile, sweeps, failures,
\* restarts, and requests that work on other sessions without their lock, do in
\* between (SessionBlock.go, Manager.Save).
ImplementsSerial == Serial!Spec
============================================================================

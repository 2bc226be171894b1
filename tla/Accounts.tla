------------------------------ MODULE Accounts ------------------------------
(***************************************************************************)
(* auth.Guard over one account: the row of the users table, the row of the *)
(* password_reset_tokens table, and the requests that read and write them. *)
(*                                                                         *)
(* Guard opens no transaction: each GORM call is a statement of its own,   *)
(* so each is one step and the steps of concurrent requests interleave.    *)
(* The database (unique index on email, primary key on the reset row) and  *)
(* GORM's Save, which writes every column of the value it is given, are    *)
(* external and modelled by what the calls rely on.                        *)
(*                                                                         *)
(* A secret (a password, a reset token, a remember token) is named by the  *)
(* request that made it: no two random tokens are equal, and only hashes   *)
(* are stored and compared.                                                *)
(***************************************************************************)
EXTENDS Naturals

CONSTANTS
    Request,    \* HTTP requests to AuthController and the "auth" middleware
    Ops,        \* the operations requests ask for
    Original,   \* the password of an account that exists from the start
    None,       \* no remember token
    MaxFaults   \* bound on database calls that return an error

AllOps == {"register", "login", "logout", "remember", "forgot", "reset"}

Secret == Request \cup {Original}

ASSUME OpsAssumption == Ops \subseteq AllOps
ASSUME SentinelAssumption == Original \notin Request /\ None \notin Secret
ASSUME FaultAssumption == MaxFaults \in Nat

User == [present : BOOLEAN, password : Secret, remember : Secret \cup {None}]
ResetRow == [present : BOOLEAN, token : Secret, expired : BOOLEAN]

Pc == {"idle", "issue", "clear", "lookup", "store", "find", "save", "delete",
       "purge", "ok", "failed"}

VARIABLES
    user,     \* the account's row in "users"
    row,      \* its row in "password_reset_tokens"
    pc, op,
    secret,   \* the password or token a request presented
    copy,     \* the models.User a request has read
    found,    \* whether CreatePasswordResetToken found a row to replace
    revoked,  \* history: the secrets that must not be accepted any more
    late,     \* history: requests that presented a secret already revoked
    faults

vars == <<user, row, pc, op, secret, copy, found, revoked, late, faults>>

TypeOK ==
    /\ user \in User
    /\ row \in ResetRow
    /\ pc \in [Request -> Pc]
    /\ op \in [Request -> AllOps]
    /\ secret \in [Request -> Secret]
    /\ copy \in [Request -> User]
    /\ found \in [Request -> BOOLEAN]
    /\ revoked \subseteq Secret
    /\ late \subseteq Request
    /\ faults \in Nat

NoRow == [present |-> FALSE, token |-> Original, expired |-> FALSE]
NewRow(token) == [present |-> TRUE, token |-> token, expired |-> FALSE]

Init ==
    /\ user \in [present : BOOLEAN, password : {Original}, remember : {None}]
    /\ row = NoRow
    /\ pc = [r \in Request |-> "idle"]
    /\ op = [r \in Request |-> "login"]
    /\ secret = [r \in Request |-> Original]
    /\ copy = [r \in Request |-> user]
    /\ found = [r \in Request |-> FALSE]
    /\ revoked = {}
    /\ late = {}
    /\ faults = 0

----------------------------------------------------------------------------
\* A request for operation o presents s and runs up to its first statement,
\* after which it is at `label`.
Begin(r, o, s, label) ==
    /\ o \in Ops
    /\ pc[r] = "idle"
    /\ pc' = [pc EXCEPT ![r] = label]
    /\ op' = [op EXCEPT ![r] = o]
    /\ secret' = [secret EXCEPT ![r] = s]
    /\ late' = IF s \in revoked THEN late \cup {r} ELSE late

\* The next statement of a request that has begun.
Step(r, from, to) ==
    /\ pc[r] = from
    /\ pc' = [pc EXCEPT ![r] = to]
    /\ UNCHANGED <<op, secret, late, faults>>

\* Guard.Register: one INSERT, refused by the unique index.
Register(r) ==
    /\ Begin(r, "register", Original, IF user.present THEN "failed" ELSE "ok")
    /\ user' = IF user.present THEN user
               ELSE [present |-> TRUE, password |-> r, remember |-> None]
    /\ UNCHANGED <<row, copy, found, revoked, faults>>

\* AuthController.Login: Attempt, then IssueRememberToken if the client asked to
\* be remembered.
Attempt(r) ==
    /\ \E s \in Secret, remember \in BOOLEAN :
           Begin(r, "login", s,
                 IF ~user.present \/ user.password # s THEN "failed"
                 ELSE IF remember THEN "issue" ELSE "ok")
    /\ copy' = [copy EXCEPT ![r] = user]
    /\ UNCHANGED <<user, row, found, revoked, faults>>

\* Mutant of IssueRememberToken: the user read by Attempt is saved whole.
IssueSavingUser(r) ==
    /\ Step(r, "issue", "ok")
    /\ user' = [copy[r] EXCEPT !.remember = r]
    /\ revoked' = revoked \cup ({user.remember} \ {None})
    /\ UNCHANGED <<row, copy, found>>

\* Guard.IssueRememberToken updates one column; it replaces the token before.
IssueRememberToken(r) ==
    /\ Step(r, "issue", "ok")
    /\ user' = [user EXCEPT !.remember = r]
    /\ revoked' = revoked \cup ({user.remember} \ {None})
    /\ UNCHANGED <<row, copy, found>>

\* AuthController.Logout: Guard.User, if the session has one.
Logout(r) ==
    /\ \E loggedIn \in BOOLEAN :
           Begin(r, "logout", Original, IF loggedIn /\ user.present THEN "clear" ELSE "ok")
    /\ UNCHANGED <<user, row, copy, found, revoked, faults>>

\* Mutant of ClearRememberToken: only the session is cleared.
ClearNothing(r) ==
    /\ Step(r, "clear", "ok")
    /\ revoked' = revoked \cup ({user.remember} \ {None})
    /\ UNCHANGED <<user, row, copy, found>>

\* Guard.ClearRememberToken updates one column.
ClearRememberToken(r) ==
    /\ Step(r, "clear", "ok")
    /\ user' = [user EXCEPT !.remember = None]
    /\ revoked' = revoked \cup ({user.remember} \ {None})
    /\ UNCHANGED <<row, copy, found>>

\* The "auth" middleware's attemptRememberLogin: Guard.UserByRememberToken.
UserByRememberToken(r) ==
    /\ \E s \in Secret :
           Begin(r, "remember", s,
                 IF user.present /\ user.remember = s THEN "ok" ELSE "failed")
    /\ UNCHANGED <<user, row, copy, found, revoked, faults>>

\* Guard.CreatePasswordResetToken: the user, then the existing row, then the new
\* hash is stored over it or in a new row.
ForgotFindUser(r) ==
    /\ Begin(r, "forgot", Original, IF user.present THEN "lookup" ELSE "failed")
    /\ UNCHANGED <<user, row, copy, found, revoked, faults>>

ForgotLookup(r) ==
    /\ Step(r, "lookup", "store")
    /\ found' = [found EXCEPT ![r] = row.present]
    /\ UNCHANGED <<user, row, copy, revoked>>

\* Save inserts the row if it has gone since; Create fails on one made since.
\* A token that is replaced is revoked.
ForgotStore(r) ==
    LET refused == ~found[r] /\ row.present IN
        /\ Step(r, "store", IF refused THEN "failed" ELSE "ok")
        /\ row' = IF refused THEN row ELSE NewRow(r)
        /\ revoked' = IF row.present /\ ~refused THEN revoked \cup {row.token} ELSE revoked
        /\ UNCHANGED <<user, copy, found>>

\* Guard.ResetPassword reads the reset row and checks it.
ResetRead(r) ==
    /\ \E s \in Secret :
           Begin(r, "reset", s,
                 IF ~row.present THEN "failed"
                 ELSE IF row.expired THEN "purge"
                 ELSE IF row.token # s THEN "failed"
                 ELSE "find")
    /\ UNCHANGED <<user, row, copy, found, revoked, faults>>

\* An expired row is deleted by its primary key, whatever token it now holds.
ResetPurge(r) ==
    /\ Step(r, "purge", "failed")
    /\ row' = NoRow
    /\ UNCHANGED <<user, copy, found, revoked>>

ResetFindUser(r) ==
    /\ Step(r, "find", IF user.present THEN "save" ELSE "failed")
    /\ copy' = [copy EXCEPT ![r] = user]
    /\ UNCHANGED <<user, row, found, revoked>>

\* The new password is saved with every other column as it was read.
ResetSave(r) ==
    /\ Step(r, "save", "delete")
    /\ user' = [copy[r] EXCEPT !.password = r]
    /\ revoked' = revoked \cup {user.password}
    /\ UNCHANGED <<row, copy, found>>

\* Mutant of ResetDelete: the row is left in place.
ResetKeepingRow(r) ==
    /\ Step(r, "delete", "ok")
    /\ revoked' = revoked \cup {secret[r]}
    /\ UNCHANGED <<user, row, copy, found>>

\* The row is deleted by its primary key; the reset has used its token.
ResetDelete(r) ==
    /\ Step(r, "delete", "ok")
    /\ row' = NoRow
    /\ revoked' = revoked \cup {secret[r]}
    /\ UNCHANGED <<user, copy, found>>

\* A statement after the first fails.  Logout, Login and the deletion in
\* ResetPassword ignore the error and the request succeeds without the write.
DatabaseError(r) ==
    /\ faults < MaxFaults
    /\ faults' = faults + 1
    /\ pc[r] \in {"issue", "clear", "lookup", "store", "find", "save", "delete", "purge"}
    /\ pc' = [pc EXCEPT ![r] = IF pc[r] \in {"issue", "clear", "delete"} THEN "ok" ELSE "failed"]
    /\ revoked' = IF pc[r] = "delete" THEN revoked \cup {secret[r]} ELSE revoked
    /\ UNCHANGED <<user, row, op, secret, copy, found, late>>

\* passwordResetTokenTTL passes.
Expire ==
    /\ row.present
    /\ ~row.expired
    /\ row' = [row EXCEPT !.expired = TRUE]
    /\ revoked' = revoked \cup {row.token}
    /\ UNCHANGED <<user, pc, op, secret, copy, found, late, faults>>

\* Every request has been answered.
Answered ==
    /\ \A r \in Request : pc[r] \in {"ok", "failed"}
    /\ UNCHANGED vars

Serving(r) ==
    \/ Register(r)
    \/ Attempt(r)
    \/ IssueRememberToken(r)
    \/ Logout(r)
    \/ ClearRememberToken(r)
    \/ UserByRememberToken(r)
    \/ ForgotFindUser(r)
    \/ ForgotLookup(r)
    \/ ForgotStore(r)
    \/ ResetRead(r)
    \/ ResetPurge(r)
    \/ ResetFindUser(r)
    \/ ResetSave(r)
    \/ ResetDelete(r)
    \/ DatabaseError(r)

Next == (\E r \in Request : Serving(r)) \/ Expire \/ Answered

Spec == Init /\ [][Next]_vars

----------------------------------------------------------------------------
(* Properties *)

\* A request that presents a revoked secret when it begins does not succeed.
Refused(o) == \A r \in late : op[r] = o => pc[r] # "ok"

\* A password that a reset has replaced opens no session again, whatever other
\* requests hold a copy of the user that still has it: no write brings it back
\* (Attempt, IssueRememberToken, ResetPassword).
ReplacedPasswordRefused == Refused("login")

\* As long as no statement has failed, a reset token that a completed reset
\* used, that a newer one replaced or that expired resets nothing later
\* (CreatePasswordResetToken, ResetPassword).
SpentTokenRefused == faults = 0 => Refused("reset")

NoResetSaved == \A r \in Request : op[r] = "reset" => pc[r] \notin {"delete", "ok"}

\* Until a reset has saved its copy of the user, a remember token that a logout
\* cleared or a later login replaced logs nobody in any more, also if it was the
\* copy of another login that had it (IssueRememberToken, ClearRememberToken,
\* UserByRememberToken).
ClearedRememberRefused == NoResetSaved => Refused("remember")
============================================================================

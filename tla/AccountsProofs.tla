--------------------------- MODULE AccountsProofs ---------------------------
(***************************************************************************)
(* Proofs about Accounts, for any requests, operations and database faults. *)
(*                                                                         *)
(* A revoked secret comes back only if some write stores it again.  So the *)
(* argument is about where the secrets in the two rows come from: each is  *)
(* named by a request that has written it (NamesInv), the kinds of request *)
(* that make passwords, reset tokens and remember tokens are disjoint, and *)
(* a write stores the name of a request that has written nothing before.   *)
(***************************************************************************)
EXTENDS Accounts, TLAPS

\* The request named by a secret has written it, in one of the operations ops.
Made(s, ops) == s \in Request => op[s] \in ops /\ pc[s] \in {"ok", "delete"}

\* The same for a secret that can only be a request's.
MadeBy(s, ops) == s \in Request /\ op[s] \in ops /\ pc[s] \in {"ok", "delete"}

\* A request is only ever at a step of its own operation.
OwnSteps ==
    \A r \in Request :
        /\ pc[r] = "issue" => op[r] = "login"
        /\ pc[r] = "clear" => op[r] = "logout"
        /\ pc[r] \in {"lookup", "store"} => op[r] = "forgot"
        /\ pc[r] \in {"find", "save", "delete", "purge"} => op[r] = "reset"

NamesInv ==
    /\ TypeOK
    /\ OwnSteps
    /\ Made(user.password, {"register", "reset"})
    /\ user.remember # None => MadeBy(user.remember, {"login"})
    /\ \A r \in Request : copy[r].remember # None => MadeBy(copy[r].remember, {"login"})
    /\ row.present => MadeBy(row.token, {"forgot"})
    /\ \A r \in Request :
           pc[r] \in {"find", "save", "delete"} => MadeBy(secret[r], {"forgot"})
    /\ \A s \in revoked : Made(s, AllOps)
    /\ \A r \in late : pc[r] # "idle"

PasswordInv ==
    /\ user.password \notin revoked
    /\ \A r \in late : op[r] = "login" => pc[r] = "failed"

TokenInv ==
    faults = 0 =>
        /\ row.present /\ ~row.expired => row.token \notin revoked
        /\ \A r \in late : op[r] = "reset" => pc[r] \in {"purge", "failed"}

RememberInv ==
    NoResetSaved =>
        /\ user.remember \notin revoked
        /\ \A r \in late : op[r] = "remember" => pc[r] = "failed"

USE DEF Secret, AllOps

\* The disjuncts of Next, for proofs by case.
LEMMA StepCases ==
    ASSUME [Next]_vars
    PROVE  \/ \E r \in Request : Serving(r)
           \/ Expire
           \/ UNCHANGED vars
  BY DEF Next, Answered

----------------------------------------------------------------------------
\* Every step keeps the type invariant.
LEMMA TypeStep ==
    ASSUME TypeOK, [Next]_vars
    PROVE  TypeOK'
<1> USE DEF TypeOK, User, ResetRow, Pc, NoRow, NewRow, Begin, Step
<1>1. ASSUME NEW r \in Request, Register(r) PROVE TypeOK'
  BY <1>1 DEF Register
<1>2. ASSUME NEW r \in Request, Attempt(r) PROVE TypeOK'
  BY <1>2 DEF Attempt
<1>3. ASSUME NEW r \in Request, IssueRememberToken(r) PROVE TypeOK'
  BY <1>3 DEF IssueRememberToken
<1>4. ASSUME NEW r \in Request, Logout(r) PROVE TypeOK'
  BY <1>4 DEF Logout
<1>5. ASSUME NEW r \in Request, ClearRememberToken(r) PROVE TypeOK'
  BY <1>5 DEF ClearRememberToken
<1>6. ASSUME NEW r \in Request, UserByRememberToken(r) PROVE TypeOK'
  BY <1>6 DEF UserByRememberToken
<1>7. ASSUME NEW r \in Request, ForgotFindUser(r) PROVE TypeOK'
  BY <1>7 DEF ForgotFindUser
<1>8. ASSUME NEW r \in Request, ForgotLookup(r) PROVE TypeOK'
  BY <1>8 DEF ForgotLookup
<1>9. ASSUME NEW r \in Request, ForgotStore(r) PROVE TypeOK'
  BY <1>9 DEF ForgotStore
<1>10. ASSUME NEW r \in Request, ResetRead(r) PROVE TypeOK'
  BY <1>10 DEF ResetRead
<1>11. ASSUME NEW r \in Request, ResetPurge(r) PROVE TypeOK'
  BY <1>11 DEF ResetPurge
<1>12. ASSUME NEW r \in Request, ResetFindUser(r) PROVE TypeOK'
  BY <1>12 DEF ResetFindUser
<1>13. ASSUME NEW r \in Request, ResetSave(r) PROVE TypeOK'
  BY <1>13 DEF ResetSave
<1>14. ASSUME NEW r \in Request, ResetDelete(r) PROVE TypeOK'
  BY <1>14 DEF ResetDelete
<1>15. ASSUME NEW r \in Request, DatabaseError(r) PROVE TypeOK'
  BY <1>15, FaultAssumption DEF DatabaseError
<1>16. CASE Expire
  BY <1>16 DEF Expire
<1>17. CASE UNCHANGED vars
  BY <1>17 DEF vars
<1> QED
  BY <1>1, <1>2, <1>3, <1>4, <1>5, <1>6, <1>7, <1>8, <1>9, <1>10, <1>11, <1>12,
     <1>13, <1>14, <1>15, <1>16, <1>17, StepCases DEF Serving

\* Every variable keeps its type: among others, every row read, copied and
\* written back by Guard is a row of its table.
THEOREM TypeCorrect == Spec => []TypeOK
<1>1. Init => TypeOK
  BY DEF Init, TypeOK, User, ResetRow, Pc, NoRow
<1> QED
  BY <1>1, TypeStep, PTL DEF Spec

----------------------------------------------------------------------------
\* Every secret in the rows, in a copy or in revoked comes from a request that
\* has written it.
LEMMA NamesStep ==
    ASSUME NamesInv, [Next]_vars
    PROVE  NamesInv'
<1> USE DEF NamesInv, Begin, Step
<1>a. TypeOK'
  BY TypeStep
<1>1. ASSUME NEW r \in Request, Register(r) PROVE NamesInv'
  BY <1>1, <1>a DEF Register, NoRow, Made, MadeBy, TypeOK, OwnSteps
<1>2. ASSUME NEW r \in Request, Attempt(r) PROVE NamesInv'
  BY <1>2, <1>a DEF Attempt, Made, MadeBy, TypeOK, OwnSteps
<1>3. ASSUME NEW r \in Request, IssueRememberToken(r) PROVE NamesInv'
  BY <1>3, <1>a DEF IssueRememberToken, Made, MadeBy, TypeOK, OwnSteps
<1>4. ASSUME NEW r \in Request, Logout(r) PROVE NamesInv'
  BY <1>4, <1>a DEF Logout, Made, MadeBy, TypeOK, OwnSteps
<1>5. ASSUME NEW r \in Request, ClearRememberToken(r) PROVE NamesInv'
  BY <1>5, <1>a DEF ClearRememberToken, Made, MadeBy, OwnSteps
<1>6. ASSUME NEW r \in Request, UserByRememberToken(r) PROVE NamesInv'
  BY <1>6, <1>a DEF UserByRememberToken, Made, MadeBy, TypeOK, OwnSteps
<1>7. ASSUME NEW r \in Request, ForgotFindUser(r) PROVE NamesInv'
  BY <1>7, <1>a DEF ForgotFindUser, Made, MadeBy, TypeOK, OwnSteps
<1>8. ASSUME NEW r \in Request, ForgotLookup(r) PROVE NamesInv'
  BY <1>8, <1>a DEF ForgotLookup, Made, MadeBy, OwnSteps
<1>9. ASSUME NEW r \in Request, ForgotStore(r) PROVE NamesInv'
  BY <1>9, <1>a DEF ForgotStore, NewRow, Made, MadeBy, TypeOK, OwnSteps
<1>10. ASSUME NEW r \in Request, ResetRead(r) PROVE NamesInv'
  BY <1>10, <1>a DEF ResetRead, Made, MadeBy, TypeOK, OwnSteps
<1>11. ASSUME NEW r \in Request, ResetPurge(r) PROVE NamesInv'
  BY <1>11, <1>a DEF ResetPurge, NoRow, Made, MadeBy, OwnSteps
<1>12. ASSUME NEW r \in Request, ResetFindUser(r) PROVE NamesInv'
  BY <1>12, <1>a DEF ResetFindUser, Made, MadeBy, OwnSteps
<1>13. ASSUME NEW r \in Request, ResetSave(r) PROVE NamesInv'
  BY <1>13, <1>a DEF ResetSave, Made, MadeBy, TypeOK, OwnSteps
<1>14. ASSUME NEW r \in Request, ResetDelete(r) PROVE NamesInv'
  BY <1>14 DEF ResetDelete, NoRow, Made, MadeBy, TypeOK, ResetRow, OwnSteps
<1>15. ASSUME NEW r \in Request, DatabaseError(r) PROVE NamesInv'
  BY <1>15, <1>a DEF DatabaseError, Made, MadeBy, OwnSteps
<1>16. CASE Expire
  BY <1>16, <1>a DEF Expire, Made, MadeBy, OwnSteps
<1>17. CASE UNCHANGED vars
  BY <1>17 DEF vars, Made, MadeBy, TypeOK, OwnSteps
<1> QED
  BY <1>1, <1>2, <1>3, <1>4, <1>5, <1>6, <1>7, <1>8, <1>9, <1>10, <1>11, <1>12,
     <1>13, <1>14, <1>15, <1>16, <1>17, StepCases DEF Serving

\* NamesInv holds of every behaviour.
LEMMA NamesHold == Spec => []NamesInv
<1>1. Init => NamesInv
  BY SentinelAssumption DEF Init, NamesInv, OwnSteps, Made, MadeBy, TypeOK, User, ResetRow, Pc, NoRow
<1> QED
  BY <1>1, NamesStep, PTL DEF Spec

----------------------------------------------------------------------------
\* Every step keeps the password out of revoked: the one a reset writes is new.
LEMMA PasswordStep ==
    ASSUME NamesInv, PasswordInv, [Next]_vars
    PROVE  PasswordInv'
<1> USE DEF NamesInv, PasswordInv, Begin, Step
<1>1. ASSUME NEW r \in Request, Register(r) PROVE PasswordInv'
  BY <1>1 DEF Register, NoRow, Made, TypeOK
<1>2. ASSUME NEW r \in Request, Attempt(r) PROVE PasswordInv'
  BY <1>2 DEF Attempt, TypeOK
<1>3. ASSUME NEW r \in Request, IssueRememberToken(r) PROVE PasswordInv'
  BY <1>3 DEF IssueRememberToken, Made, MadeBy
<1>4. ASSUME NEW r \in Request, Logout(r) PROVE PasswordInv'
  BY <1>4 DEF Logout, TypeOK
<1>5. ASSUME NEW r \in Request, ClearRememberToken(r) PROVE PasswordInv'
  BY <1>5 DEF ClearRememberToken, Made, MadeBy
<1>6. ASSUME NEW r \in Request, UserByRememberToken(r) PROVE PasswordInv'
  BY <1>6 DEF UserByRememberToken, TypeOK
<1>7. ASSUME NEW r \in Request, ForgotFindUser(r) PROVE PasswordInv'
  BY <1>7 DEF ForgotFindUser, TypeOK
<1>8. ASSUME NEW r \in Request, ForgotLookup(r) PROVE PasswordInv'
  BY <1>8 DEF ForgotLookup
<1>9. ASSUME NEW r \in Request, ForgotStore(r) PROVE PasswordInv'
  BY <1>9 DEF ForgotStore, NewRow, Made, MadeBy
<1>10. ASSUME NEW r \in Request, ResetRead(r) PROVE PasswordInv'
  BY <1>10 DEF ResetRead, TypeOK
<1>11. ASSUME NEW r \in Request, ResetPurge(r) PROVE PasswordInv'
  BY <1>11 DEF ResetPurge, NoRow
<1>12. ASSUME NEW r \in Request, ResetFindUser(r) PROVE PasswordInv'
  BY <1>12 DEF ResetFindUser
<1>13. ASSUME NEW r \in Request, ResetSave(r) PROVE PasswordInv'
  BY <1>13 DEF ResetSave, Made
<1>14. ASSUME NEW r \in Request, ResetDelete(r) PROVE PasswordInv'
  BY <1>14 DEF ResetDelete, NoRow, Made, MadeBy
<1>15. ASSUME NEW r \in Request, DatabaseError(r) PROVE PasswordInv'
  BY <1>15 DEF DatabaseError, Made, MadeBy
<1>16. CASE Expire
  BY <1>16 DEF Expire, Made, MadeBy
<1>17. CASE UNCHANGED vars
  BY <1>17 DEF vars
<1> QED
  BY <1>1, <1>2, <1>3, <1>4, <1>5, <1>6, <1>7, <1>8, <1>9, <1>10, <1>11, <1>12,
     <1>13, <1>14, <1>15, <1>16, <1>17, StepCases DEF Serving

\* A password that a reset replaced is never accepted again: whichever requests
\* hold a copy of the user with the old password, whatever they write, and
\* whichever database calls fail (Attempt, IssueRememberToken, ResetPassword).
THEOREM ReplacedPasswordStaysOut == Spec => []ReplacedPasswordRefused
<1>1. Init => PasswordInv
  BY DEF Init, PasswordInv
<1>2. PasswordInv => ReplacedPasswordRefused
  BY DEF PasswordInv, ReplacedPasswordRefused, Refused
<1> QED
  BY <1>1, <1>2, NamesHold, PasswordStep, PTL DEF Spec

----------------------------------------------------------------------------
\* Every step keeps a live reset token out of revoked while no statement has failed.
LEMMA TokenStep ==
    ASSUME NamesInv, TokenInv, [Next]_vars
    PROVE  TokenInv'
<1> USE DEF NamesInv, TokenInv, Begin, Step
<1>1. ASSUME NEW r \in Request, Register(r) PROVE TokenInv'
  BY <1>1 DEF Register, NoRow, TypeOK
<1>2. ASSUME NEW r \in Request, Attempt(r) PROVE TokenInv'
  BY <1>2 DEF Attempt, TypeOK
<1>3. ASSUME NEW r \in Request, IssueRememberToken(r) PROVE TokenInv'
  BY <1>3 DEF IssueRememberToken, MadeBy
<1>4. ASSUME NEW r \in Request, Logout(r) PROVE TokenInv'
  BY <1>4 DEF Logout, TypeOK
<1>5. ASSUME NEW r \in Request, ClearRememberToken(r) PROVE TokenInv'
  BY <1>5 DEF ClearRememberToken, MadeBy
<1>6. ASSUME NEW r \in Request, UserByRememberToken(r) PROVE TokenInv'
  BY <1>6 DEF UserByRememberToken, TypeOK
<1>7. ASSUME NEW r \in Request, ForgotFindUser(r) PROVE TokenInv'
  BY <1>7 DEF ForgotFindUser, TypeOK
<1>8. ASSUME NEW r \in Request, ForgotLookup(r) PROVE TokenInv'
  BY <1>8 DEF ForgotLookup
<1>9. ASSUME NEW r \in Request, ForgotStore(r) PROVE TokenInv'
  BY <1>9 DEF ForgotStore, NewRow, Made, MadeBy
<1>10. ASSUME NEW r \in Request, ResetRead(r) PROVE TokenInv'
  BY <1>10 DEF ResetRead, TypeOK
<1>11. ASSUME NEW r \in Request, ResetPurge(r) PROVE TokenInv'
  BY <1>11 DEF ResetPurge, NoRow
<1>12. ASSUME NEW r \in Request, ResetFindUser(r) PROVE TokenInv'
  BY <1>12 DEF ResetFindUser
<1>13. ASSUME NEW r \in Request, ResetSave(r) PROVE TokenInv'
  BY <1>13 DEF ResetSave, Made, MadeBy
<1>14. ASSUME NEW r \in Request, ResetDelete(r) PROVE TokenInv'
  BY <1>14 DEF ResetDelete, NoRow
<1>15. ASSUME NEW r \in Request, DatabaseError(r) PROVE TokenInv'
  BY <1>15 DEF DatabaseError, TypeOK
<1>16. CASE Expire
  BY <1>16 DEF Expire
<1>17. CASE UNCHANGED vars
  BY <1>17 DEF vars
<1> QED
  BY <1>1, <1>2, <1>3, <1>4, <1>5, <1>6, <1>7, <1>8, <1>9, <1>10, <1>11, <1>12,
     <1>13, <1>14, <1>15, <1>16, <1>17, StepCases DEF Serving

\* As long as no database call has failed, a reset token that was used, replaced or
\* expired resets nothing in a request that begins later
\* (CreatePasswordResetToken, ResetPassword).
THEOREM SpentTokenStaysOut == Spec => []SpentTokenRefused
<1>1. Init => TokenInv
  BY DEF Init, TokenInv, NoRow
<1>2. TokenInv => SpentTokenRefused
  BY DEF TokenInv, SpentTokenRefused, Refused
<1>3. NamesInv /\ TokenInv /\ [Next]_vars => TokenInv'
  BY TokenStep
<1> QED
  BY <1>1, <1>2, <1>3, NamesHold, PTL DEF Spec

----------------------------------------------------------------------------
\* Every step keeps the remember token out of revoked, if nobody writes an old
\* copy of the user back.
LEMMA RememberStep ==
    ASSUME NamesInv, RememberInv, [Next]_vars
    PROVE  RememberInv'
<1> USE DEF NamesInv, RememberInv, NoResetSaved, Begin, Step
<1>1. ASSUME NEW r \in Request, Register(r) PROVE RememberInv'
  BY <1>1, SentinelAssumption DEF Register, NoRow, TypeOK
<1>2. ASSUME NEW r \in Request, Attempt(r) PROVE RememberInv'
  BY <1>2 DEF Attempt, TypeOK
<1>3. ASSUME NEW r \in Request, IssueRememberToken(r) PROVE RememberInv'
  BY <1>3 DEF IssueRememberToken, Made, MadeBy
<1>4. ASSUME NEW r \in Request, Logout(r) PROVE RememberInv'
  BY <1>4 DEF Logout, TypeOK
<1>5. ASSUME NEW r \in Request, ClearRememberToken(r) PROVE RememberInv'
  BY <1>5, SentinelAssumption DEF ClearRememberToken, TypeOK
<1>6. ASSUME NEW r \in Request, UserByRememberToken(r) PROVE RememberInv'
  BY <1>6 DEF UserByRememberToken, TypeOK
<1>7. ASSUME NEW r \in Request, ForgotFindUser(r) PROVE RememberInv'
  BY <1>7 DEF ForgotFindUser, TypeOK
<1>8. ASSUME NEW r \in Request, ForgotLookup(r) PROVE RememberInv'
  BY <1>8 DEF ForgotLookup
<1>9. ASSUME NEW r \in Request, ForgotStore(r) PROVE RememberInv'
  BY <1>9, SentinelAssumption DEF ForgotStore, NewRow, MadeBy
<1>10. ASSUME NEW r \in Request, ResetRead(r) PROVE RememberInv'
  BY <1>10 DEF ResetRead, OwnSteps, TypeOK
<1>11. ASSUME NEW r \in Request, ResetPurge(r) PROVE RememberInv'
  BY <1>11 DEF ResetPurge, NoRow
<1>12. ASSUME NEW r \in Request, ResetFindUser(r) PROVE RememberInv'
  BY <1>12 DEF ResetFindUser
<1>13. ASSUME NEW r \in Request, ResetSave(r) PROVE RememberInv'
  BY <1>13 DEF ResetSave, OwnSteps, TypeOK
<1>14. ASSUME NEW r \in Request, ResetDelete(r) PROVE RememberInv'
  BY <1>14 DEF ResetDelete, NoRow, OwnSteps, TypeOK
<1>15. ASSUME NEW r \in Request, DatabaseError(r) PROVE RememberInv'
  BY <1>15 DEF DatabaseError, OwnSteps, TypeOK
<1>16. CASE Expire
  BY <1>16, SentinelAssumption DEF Expire, MadeBy
<1>17. CASE UNCHANGED vars
  BY <1>17 DEF vars
<1> QED
  BY <1>1, <1>2, <1>3, <1>4, <1>5, <1>6, <1>7, <1>8, <1>9, <1>10, <1>11, <1>12,
     <1>13, <1>14, <1>15, <1>16, <1>17, StepCases DEF Serving

\* Until a reset has saved, a remember token that a logout cleared or a later
\* login replaced logs nobody in again: the only other writes of the column are
\* single-column updates (IssueRememberToken, ClearRememberToken).
THEOREM ClearedRememberStaysOut == Spec => []ClearedRememberRefused
<1>1. Init => RememberInv
  BY DEF Init, RememberInv
<1>2. RememberInv => ClearedRememberRefused
  BY DEF RememberInv, ClearedRememberRefused, Refused
<1>3. NamesInv /\ RememberInv /\ [Next]_vars => RememberInv'
  BY RememberStep
<1> QED
  BY <1>1, <1>2, <1>3, NamesHold, PTL DEF Spec
============================================================================

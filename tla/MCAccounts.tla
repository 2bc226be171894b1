----------------------------- MODULE MCAccounts -----------------------------
(* Small instances of Accounts. *)
EXTENDS Accounts, TLC

CONSTANTS r1, r2, r3, r4, r5

RequestsAlike == Permutations(Request)
============================================================================

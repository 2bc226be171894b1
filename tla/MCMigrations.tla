---------------------------- MODULE MCMigrations ----------------------------
(* Small instances of Migrations. *)
EXTENDS Migrations, TLC

CONSTANTS p1, p2, p3, p4

\* A feature branch adds migrations 2 and 4 to the 1 and 3 that others have, and
\* two commands run a build that has them all.
MCBuild == [p \in Command |-> IF p = p1 THEN {1, 3} ELSE IF p = p2 THEN {1, 2, 3} ELSE {1, 2, 3, 4}]

SameBuild == Permutations(Command \cap {p3, p4})
============================================================================

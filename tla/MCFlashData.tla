---------------------------- MODULE MCFlashData ----------------------------
(* Small instances of FlashData. *)
EXTENDS FlashData, TLC

CONSTANTS k1, k2

SameKeys == Permutations({k1, k2})
============================================================================

----------------------------- MODULE MCLockData -----------------------------
(* Instances of LockData for TLC. *)
EXTENDS LockData, TLC

Interchangeable ==
    Permutations(Blocks) \cup Permutations(Roots) \cup Permutations(Keys)
=============================================================================

---------------------------- MODULE MCLockTable ----------------------------
(* Instances of LockTable for TLC. *)
EXTENDS LockTable, TLC

(* Owners, requests and locks are interchangeable. *)
Interchangeable ==
    Permutations(Owners) \cup Permutations(Requests) \cup Permutations(Locks)

PageLevels == {LCK_PR, LCK_EX}
RecordLevels == {LCK_PR, LCK_SW}
MixedLevels == {LCK_PR, LCK_SW, LCK_EX}
ExclusiveLevel == {LCK_EX}
ConvLevels == {LCK_SR, LCK_PW, LCK_EX}
=============================================================================

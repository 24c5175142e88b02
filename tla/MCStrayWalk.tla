---------------------------- MODULE MCStrayWalk ----------------------------
EXTENDS StrayWalk, TLC

Interchangeable == Permutations(Owners) \cup Permutations(Requests)

PageLevels == {LCK_PR, LCK_EX}
=============================================================================

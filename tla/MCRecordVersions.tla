--------------------------- MODULE MCRecordVersions ---------------------------
EXTENDS RecordVersions, TLC
CONSTANTS p1, p2, p3, s1, s2

(* Processes and places for versions are told apart only by their history. *)
Symmetry == Permutations(Proc) \cup Permutations(Slot)
=============================================================================

--------------------------- MODULE MCSharedQueue ---------------------------
(* Instances of SharedQueue for TLC. *)
EXTENDS SharedQueue, TLC

Interchangeable ==
    Permutations(Heads) \cup Permutations(Owned) \cup Permutations(Nodes \ Owned)

(* Not between the two stores that end an insertion or its undoing; *)
NotAtInsertEnd == Stages \ {"free", "ins_end", "rec_prior"}

(* between the stores that end remove_que; *)
AtRemovalEnd == {"rem_self", "rem_init"}

(* in remove_que, but not between the stores that end it. *)
InRemoval == {"in", "rem_node", "rem_next", "rem_prior", "rem_done"}
=============================================================================

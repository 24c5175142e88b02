---------------------------- MODULE MCPageCache ----------------------------
EXTENDS PageCache, TLC

CONSTANTS p1, p2, t1, t2, t3

TwoOne == p1 :> {t1, t2} @@ p2 :> {t3}
OnlyP1 == p1 :> {t1} @@ p2 :> {}
Three_one == p1 :> 3 @@ p2 :> 1
Four_one == p1 :> 4 @@ p2 :> 1
Two_two == p1 :> 2 @@ p2 :> 2

(* Bounds the search of the run order: p1 holds pages only to write them,  *)
(* and p2 asks only for page 1, to read it.                                *)
OneWriter ==
    /\ \A pg \in windows[p1] : "writer" \in bdb[p1][pg].flags
    /\ \A pg \in Page : "cached" \in bdb[p2][pg].flags => pg = 1 /\ "writer" \notin bdb[p2][pg].flags

(* The two transactions of p1 are interchangeable. *)
TraSymmetry == Permutations({t1, t2})
=============================================================================

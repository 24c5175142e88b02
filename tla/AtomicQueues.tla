---------------------------- MODULE AtomicQueues ----------------------------
(***************************************************************************)
(* What the queues of the lock table promise: a node is appended to a      *)
(* queue, or removed from the one it is on, in one step.  A process that   *)
(* dies in the middle has either done all of it or nothing.                *)
(***************************************************************************)
EXTENDS Sequences

CONSTANTS Heads, Nodes

VARIABLE queues     \* the nodes of each queue, first to last

On(n) == {h \in Heads : \E i \in DOMAIN queues[h] : queues[h][i] = n}

Init == queues = [h \in Heads |-> <<>>]

(* The node goes to the tail of the queue; it is on no queue before. *)
InsertTail(h, n) ==
    /\ On(n) = {}
    /\ queues' = [queues EXCEPT ![h] = Append(@, n)]

(* The node leaves the queue it is on; the others keep their order. *)
Remove(n) ==
    /\ On(n) # {}
    /\ queues' = [h \in Heads |-> SelectSeq(queues[h], LAMBDA m : m # n)]

Next == \E n \in Nodes : Remove(n) \/ \E h \in Heads : InsertTail(h, n)

Spec == Init /\ [][Next]_queues
=============================================================================

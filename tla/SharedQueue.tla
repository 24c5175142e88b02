---------------------------- MODULE SharedQueue ----------------------------
(***************************************************************************)
(* The doubly linked, self-relative queues of the shared lock table        *)
(* (lock/lock.cpp insert_tail, remove_que) and what acquire() does for a   *)
(* process that died while it was changing one.                            *)
(*                                                                         *)
(* Only the process that holds the table mutex touches a queue, so there   *)
(* is one program counter; but it can die before any of its stores, and    *)
(* the kernel then gives the mutex to the next process.  Stores take       *)
(* effect in the order of the source text.                                 *)
(***************************************************************************)
EXTENDS Integers, Sequences, FiniteSets

CONSTANTS
    Heads,          \* queue headers, lbl_requests of the locks
    Nodes,          \* queue elements, lrq_lbl_requests of the requests
    Owned,          \* those the purge of an owner removes: its requests
    DiesAt,         \* the stages a process may die in,
    OwnedDiesAt,    \* if it is at work on a node that is owned
    MaxCrashes,     \* bound: processes that die in a behaviour
    NoSrq           \* a null offset

Srqs == Heads \cup Nodes

(* A stage is named for the store that comes next. *)
InsertStages == {"ins_que", "ins_prior", "ins_forward", "ins_backward",
                 "ins_link", "ins_tail", "ins_done", "ins_end"}
RemoveStages == {"rem_node", "rem_next", "rem_prior", "rem_done",
                 "rem_self", "rem_init"}
RecoverStages == {"recover", "rec_tail", "rec_link", "rec_que", "rec_prior"}
Stages == {"free", "in"} \cup InsertStages \cup RemoveStages \cup RecoverStages

ASSUME QueueAssumption ==
    /\ Heads \cap Nodes = {}
    /\ NoSrq \notin Srqs
    /\ Owned \subseteq Nodes
    /\ DiesAt \subseteq Stages \ {"free"}
    /\ OwnedDiesAt \subseteq Stages \ {"free"}
    /\ MaxCrashes \in Nat

VARIABLES
    srq_forward, srq_backward,      \* the links of every header and node
    \* the secondary header block: the work in progress
    shb_remove_node, shb_insert_que, shb_insert_prior,
    lhb_active_owner,               \* is an owner marked as active?
    \* the process that holds the mutex: its stage and its arguments
    pc, que, node,
    queued,                         \* nodes their callers take to be queued
    purge,                          \* nodes left behind by dead processes
    crashes                         \* bound

linkVars == <<srq_forward, srq_backward>>
shbVars == <<shb_remove_node, shb_insert_que, shb_insert_prior>>
vars == <<linkVars, shbVars, lhb_active_owner, pc, que, node, queued, purge,
          crashes>>

(* Links and recovery data name queue headers and nodes only. *)
TypeOK ==
    /\ srq_forward \in [Srqs -> Srqs]
    /\ srq_backward \in [Srqs -> Srqs]
    /\ shb_remove_node \in Nodes \cup {NoSrq}
    /\ shb_insert_que \in Heads \cup {NoSrq}
    /\ shb_insert_prior \in Srqs \cup {NoSrq}
    /\ lhb_active_owner \in BOOLEAN
    /\ pc \in Stages
    /\ que \in Heads \cup {NoSrq}
    /\ node \in Nodes \cup {NoSrq}
    /\ queued \in SUBSET Nodes
    /\ purge \in SUBSET Nodes
    /\ crashes \in 0 .. MaxCrashes

-----------------------------------------------------------------------------
(* The queues as acquire() would leave them if the process died now.       *)

Undo == shb_remove_node = NoSrq /\ shb_insert_que # NoSrq /\ shb_insert_prior # NoSrq

Forward ==
    IF shb_remove_node # NoSrq
    THEN [srq_forward EXCEPT
             ![srq_backward[shb_remove_node]] = srq_forward[shb_remove_node],
             ![shb_remove_node] = shb_remove_node]
    ELSE IF Undo THEN [srq_forward EXCEPT ![shb_insert_prior] = shb_insert_que]
    ELSE srq_forward

Backward ==
    IF shb_remove_node # NoSrq
    THEN [srq_backward EXCEPT
             ![srq_forward[shb_remove_node]] = srq_backward[shb_remove_node],
             ![shb_remove_node] = shb_remove_node]
    ELSE IF Undo THEN [srq_backward EXCEPT ![shb_insert_que] = shb_insert_prior]
    ELSE srq_backward

-----------------------------------------------------------------------------
(* insert_tail(que, node) *)

Step(from, to) == pc = from /\ pc' = to

Rest == <<lhb_active_owner, queued, purge, crashes>>

InsertTail(h, n) ==
    /\ Step("in", "ins_que")
    /\ n \notin queued /\ n \notin purge
    /\ que' = h /\ node' = n
    /\ UNCHANGED <<linkVars, shbVars, Rest>>

InsertQue ==
    /\ Step("ins_que", "ins_prior")
    /\ shb_insert_que' = que
    /\ UNCHANGED <<linkVars, shb_remove_node, shb_insert_prior, que, node, Rest>>

InsertPrior ==
    /\ Step("ins_prior", "ins_forward")
    /\ shb_insert_prior' = srq_backward[que]
    /\ UNCHANGED <<linkVars, shb_remove_node, shb_insert_que, que, node, Rest>>

InsertForward ==
    /\ Step("ins_forward", "ins_backward")
    /\ srq_forward' = [srq_forward EXCEPT ![node] = que]
    /\ UNCHANGED <<srq_backward, shbVars, que, node, Rest>>

InsertBackward ==
    /\ Step("ins_backward", "ins_link")
    /\ srq_backward' = [srq_backward EXCEPT ![node] = srq_backward[que]]
    /\ UNCHANGED <<srq_forward, shbVars, que, node, Rest>>

InsertLink ==
    /\ Step("ins_link", "ins_tail")
    /\ srq_forward' = [srq_forward EXCEPT ![srq_backward[que]] = node]
    /\ UNCHANGED <<srq_backward, shbVars, que, node, Rest>>

InsertLast ==
    /\ Step("ins_tail", "ins_done")
    /\ srq_backward' = [srq_backward EXCEPT ![que] = node]
    /\ UNCHANGED <<srq_forward, shbVars, que, node, Rest>>

(* From here on the node is queued: a death no longer undoes it. *)
InsertDone ==
    /\ Step("ins_done", "ins_end")
    /\ shb_insert_que' = NoSrq
    /\ queued' = queued \cup {node}
    /\ UNCHANGED <<linkVars, shb_remove_node, shb_insert_prior, que, node,
                   lhb_active_owner, purge, crashes>>

InsertEnd ==
    /\ Step("ins_end", "in")
    /\ shb_insert_prior' = NoSrq
    /\ UNCHANGED <<linkVars, shb_remove_node, shb_insert_que, que, node, Rest>>

-----------------------------------------------------------------------------
(* remove_que(node) *)

RemoveQue(n) ==
    /\ Step("in", "rem_node")
    /\ n \in queued /\ n \notin purge
    /\ node' = n
    /\ UNCHANGED <<linkVars, shbVars, que, Rest>>

(* purge_owner() finds the request of a dead process on own_requests, and  *)
(* release_request() removes it from its lock, whether or not the dead     *)
(* process had done so.                                                    *)
RemoveAgain(n) ==
    /\ Step("in", "rem_node")
    /\ n \in purge
    /\ node' = n
    /\ purge' = purge \ {n}
    /\ UNCHANGED <<linkVars, shbVars, que, lhb_active_owner, queued, crashes>>

(* From here on the node is not queued: a death does not stop its removal. *)
RemoveNode ==
    /\ Step("rem_node", "rem_next")
    /\ shb_remove_node' = node
    /\ queued' = queued \ {node}
    /\ UNCHANGED <<linkVars, shb_insert_que, shb_insert_prior, que, node,
                   lhb_active_owner, purge, crashes>>

RemoveNext ==
    /\ Step("rem_next", "rem_prior")
    /\ srq_backward' =
          [srq_backward EXCEPT ![srq_forward[node]] = srq_backward[node]]
    /\ UNCHANGED <<srq_forward, shbVars, que, node, Rest>>

RemovePrior ==
    /\ Step("rem_prior", "rem_done")
    /\ srq_forward' =
          [srq_forward EXCEPT ![srq_backward[node]] = srq_forward[node]]
    /\ UNCHANGED <<srq_backward, shbVars, que, node, Rest>>

RemoveDone ==
    /\ Step("rem_done", "rem_self")
    /\ shb_remove_node' = NoSrq
    /\ UNCHANGED <<linkVars, shb_insert_que, shb_insert_prior, que, node, Rest>>

(* QUE_INIT stores the backward link first. *)
SelfLinked_dropped(links) == links
SelfLinked(links) == [links EXCEPT ![node] = node]

RemoveSelf ==
    /\ Step("rem_self", "rem_init")
    /\ srq_backward' = SelfLinked(srq_backward)
    /\ UNCHANGED <<srq_forward, shbVars, que, node, Rest>>

RemoveInit ==
    /\ Step("rem_init", "in")
    /\ srq_forward' = SelfLinked(srq_forward)
    /\ UNCHANGED <<srq_backward, shbVars, que, node, Rest>>

-----------------------------------------------------------------------------
(* acquire(), release_mutex() and the death of the process in between *)

Acquire ==
    /\ pc = "free"
    /\ pc' = IF lhb_active_owner THEN "recover" ELSE "in"
    /\ lhb_active_owner' = TRUE
    /\ que' = NoSrq /\ node' = NoSrq
    /\ UNCHANGED <<linkVars, shbVars, queued, purge, crashes>>

(* The unfinished work of the dead process: an insertion is undone only if *)
(* both of its fields are set.                                             *)
InsertUnfinished_never == FALSE
InsertUnfinished == shb_insert_que # NoSrq /\ shb_insert_prior # NoSrq

Recover ==
    /\ pc = "recover"
    /\ \/ /\ shb_remove_node # NoSrq
          /\ pc' = "rem_node"
          /\ node' = shb_remove_node
       \/ /\ shb_remove_node = NoSrq
          /\ pc' = IF InsertUnfinished THEN "rec_tail" ELSE "in"
          /\ UNCHANGED node
    /\ UNCHANGED <<linkVars, shbVars, que, Rest>>

RecoverTail ==
    /\ Step("rec_tail", "rec_link")
    /\ srq_backward' = [srq_backward EXCEPT ![shb_insert_que] = shb_insert_prior]
    /\ UNCHANGED <<srq_forward, shbVars, que, node, Rest>>

RecoverLink ==
    /\ Step("rec_link", "rec_que")
    /\ srq_forward' = [srq_forward EXCEPT ![shb_insert_prior] = shb_insert_que]
    /\ UNCHANGED <<srq_backward, shbVars, que, node, Rest>>

RecoverQue ==
    /\ Step("rec_que", "rec_prior")
    /\ shb_insert_que' = NoSrq
    /\ UNCHANGED <<linkVars, shb_remove_node, shb_insert_prior, que, node, Rest>>

RecoverPrior ==
    /\ Step("rec_prior", "in")
    /\ shb_insert_prior' = NoSrq
    /\ UNCHANGED <<linkVars, shb_remove_node, shb_insert_que, que, node, Rest>>

ReleaseMutex ==
    /\ Step("in", "free")
    /\ lhb_active_owner' = FALSE
    /\ UNCHANGED <<linkVars, shbVars, que, node, queued, purge, crashes>>

(* The owner stays marked as active; if the node belongs to a request, the *)
(* request is still on own_requests.                                       *)
Die ==
    /\ crashes < MaxCrashes
    /\ pc \in IF node \in Owned THEN OwnedDiesAt ELSE DiesAt
    /\ pc' = "free"
    /\ crashes' = crashes + 1
    /\ purge' = purge \cup ({node} \cap Owned)
    /\ UNCHANGED <<linkVars, shbVars, lhb_active_owner, que, node, queued>>

-----------------------------------------------------------------------------

(* The queues are empty; no element has been on one yet. *)
Init ==
    /\ srq_forward = [x \in Srqs |-> x]
    /\ srq_backward = [x \in Srqs |-> x]
    /\ shb_remove_node = NoSrq
    /\ shb_insert_que = NoSrq
    /\ shb_insert_prior = NoSrq
    /\ lhb_active_owner = FALSE
    /\ pc = "free"
    /\ que = NoSrq
    /\ node = NoSrq
    /\ queued = {}
    /\ purge = {}
    /\ crashes = 0

Next ==
    \/ \E n \in Nodes :
          \/ \E h \in Heads : InsertTail(h, n)
          \/ RemoveQue(n) \/ RemoveAgain(n)
    \/ InsertQue \/ InsertPrior \/ InsertForward \/ InsertBackward
    \/ InsertLink \/ InsertLast \/ InsertDone \/ InsertEnd
    \/ RemoveNode \/ RemoveNext \/ RemovePrior \/ RemoveDone
    \/ RemoveSelf \/ RemoveInit
    \/ Acquire \/ ReleaseMutex \/ Die
    \/ Recover \/ RecoverTail \/ RecoverLink \/ RecoverQue \/ RecoverPrior

Spec == Init /\ [][Next]_vars

-----------------------------------------------------------------------------
(* Properties. *)

(* Whatever store a process dies before, acquire() finds or restores       *)
(* well-formed queues: headers and queued nodes point at each other only,  *)
(* and a neighbour always points back.                                     *)
WellLinked ==
    LET Q == Heads \cup queued
    IN  \A x \in Q : /\ Forward[x] \in Q /\ Backward[Forward[x]] = x
                     /\ Backward[x] \in Q /\ Forward[Backward[x]] = x

(* The same at the point where a process starts to use the queues. *)
QueuesUsable == pc = "in" => WellLinked

-----------------------------------------------------------------------------
(* The inductive invariant the proofs rest on. *)

(* No process dies between the two stores that end an insertion or its     *)
(* undoing.  With a node the purge removes again, none dies in insert_tail *)
(* or between the stores that end remove_que.                              *)
WindowsClosed ==
    /\ "ins_end" \notin DiesAt /\ "rec_prior" \notin DiesAt
    /\ OwnedDiesAt \subseteq {"in", "rem_node", "rem_next", "rem_prior", "rem_done"}

SelfLink(x) == Forward[x] = x /\ Backward[x] = x

(* What the secondary header block says can be acted upon. *)
ShbInv ==
    /\ shb_insert_prior # NoSrq =>
          /\ shb_remove_node = NoSrq
          /\ shb_insert_que # NoSrq \/ pc \in {"ins_end", "rec_prior"}
          /\ shb_insert_prior \in Heads \cup queued
    /\ shb_remove_node # NoSrq =>
          /\ shb_remove_node \notin queued
          /\ srq_forward[shb_remove_node] = shb_remove_node <=>
                srq_backward[shb_remove_node] = shb_remove_node
          /\ srq_forward[shb_remove_node] # shb_remove_node =>
                /\ srq_forward[shb_remove_node] \in Heads \cup queued
                /\ srq_backward[shb_remove_node] \in Heads \cup queued
    /\ (pc = "free" /\ ~ lhb_active_owner) =>
          shb_remove_node = NoSrq /\ shb_insert_prior = NoSrq
    /\ pc \in {"in", "ins_que", "ins_prior", "rem_self", "rem_init"} =>
          shb_remove_node = NoSrq /\ shb_insert_prior = NoSrq
    /\ pc \in {"rem_node", "rem_next", "rem_prior", "rem_done"} =>
          shb_insert_prior = NoSrq

(* The process in the table has done the stores before its stage. *)
InsertInv ==
    /\ pc \in InsertStages => que \in Heads /\ node \in Nodes /\ node \notin purge
    /\ pc \in InsertStages \ {"ins_end"} => node \notin queued
    /\ pc \in InsertStages \ {"ins_que", "ins_end"} => shb_insert_que = que
    /\ pc \in {"ins_forward", "ins_backward", "ins_link", "ins_tail", "ins_done"} =>
          shb_insert_prior # NoSrq
    /\ pc \in {"ins_forward", "ins_backward", "ins_link", "ins_tail"} =>
          srq_backward[que] = shb_insert_prior
    /\ pc \in {"ins_backward", "ins_link", "ins_tail", "ins_done"} =>
          srq_forward[node] = que
    /\ pc \in {"ins_link", "ins_tail", "ins_done"} =>
          srq_backward[node] = shb_insert_prior
    /\ pc \in {"ins_tail", "ins_done"} => srq_forward[shb_insert_prior] = node
    /\ pc = "ins_done" => srq_backward[que] = node
    /\ pc = "ins_end" =>
          shb_insert_que = NoSrq /\ shb_remove_node = NoSrq /\ node \in queued

RemoveInv ==
    /\ pc \in RemoveStages => node \in Nodes
    /\ pc = "rem_node" =>
          /\ shb_remove_node \in {NoSrq, node}
          /\ node \in queued \/ SelfLink(node)
    /\ pc \in {"rem_next", "rem_prior", "rem_done"} => shb_remove_node = node
    /\ pc \in {"rem_prior", "rem_done"} =>
          srq_backward[srq_forward[node]] = srq_backward[node]
    /\ pc = "rem_done" => srq_forward[srq_backward[node]] = srq_forward[node]
    /\ pc \in {"rem_self", "rem_init"} => node \notin queued
    /\ pc = "rem_init" => srq_backward[node] = node

RecoverInv ==
    /\ pc \in RecoverStages => node = NoSrq
    /\ pc \in {"rec_tail", "rec_link", "rec_que"} => Undo
    /\ pc \in {"rec_link", "rec_que"} =>
          srq_backward[shb_insert_que] = shb_insert_prior
    /\ pc = "rec_que" => srq_forward[shb_insert_prior] = shb_insert_que
    /\ pc = "rec_prior" => shb_insert_que = NoSrq /\ shb_remove_node = NoSrq

(* A node that will be removed again can be. *)
PurgeInv ==
    /\ purge \subseteq Owned
    /\ pc = "in" /\ node \in Owned => node \in queued \/ SelfLink(node)
    /\ \A n \in purge :
          \/ n \in queued
          \/ SelfLink(n)
          \/ pc \in {"rem_self", "rem_init"} /\ n = node

(* A process in the table is marked as active, so its death is noticed. *)
ActiveInv == pc # "free" => lhb_active_owner

IInv ==
    /\ TypeOK /\ WellLinked /\ ShbInv /\ ActiveInv
    /\ InsertInv /\ RemoveInv /\ RecoverInv /\ PurgeInv

-----------------------------------------------------------------------------
(* The abstract queues. *)

(* The elements met from the header h on, up to the header. *)
Visited(h) ==
    LET at[i \in Nat] == IF i = 0 THEN Forward[h] ELSE Forward[at[i - 1]]
        steps == 0 .. Cardinality(Nodes)
        ends == {i \in steps : at[i] = h}
        len == IF ends = {} THEN Cardinality(Nodes) + 1
               ELSE CHOOSE i \in ends : \A j \in ends : i <= j
    IN  [i \in 1 .. len |-> at[i - 1]]

Atomic == INSTANCE AtomicQueues WITH queues <- [h \in Heads |-> Visited(h)]

(* insert_tail: "the next process into the lock table will notice the      *)
(* uncompleted work and undo it"; remove_que: "will notice the uncompleted *)
(* work and complete it".  So every operation on a queue is atomic: an     *)
(* insertion happens when shb_insert_que is cleared, a removal when        *)
(* shb_remove_node is set, and a death changes nothing.                    *)
QueuesAtomic == Atomic!Spec
=============================================================================

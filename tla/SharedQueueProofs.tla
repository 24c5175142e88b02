------------------------- MODULE SharedQueueProofs -------------------------
(***************************************************************************)
(* The queues of the lock table stay well formed whatever process dies,    *)
(* and however often, outside the windows WindowsClosed names.             *)
(*                                                                         *)
(* Most steps leave the queues as acquire() would leave them (Forward and  *)
(* Backward) unchanged; an insertion takes effect with InsertDone, a       *)
(* removal with RemoveNode.  One lemma per action.                         *)
(***************************************************************************)
EXTENDS SharedQueue, TLAPS

(* The repaired links are links. *)
LEMMA LinksType ==
    ASSUME TypeOK
    PROVE  Forward \in [Srqs -> Srqs] /\ Backward \in [Srqs -> Srqs]
BY QueueAssumption DEF TypeOK, Forward, Backward, Undo, Srqs

(* A caller appends a node that is on no queue. *)
LEMMA InsertTail_Inv ==
    ASSUME NEW h \in Heads, NEW n \in Nodes, IInv, WindowsClosed, InsertTail(h, n)
    PROVE  IInv'
<1> USE QueueAssumption DEF Srqs, Stages, InsertStages, RemoveStages, RecoverStages
<1>1. TypeOK'
  BY DEF InsertTail, Step, Rest, linkVars, shbVars, IInv, TypeOK, ShbInv,
       InsertInv, RemoveInv, RecoverInv, Undo
<1>2. Forward \in [Srqs -> Srqs] /\ Backward \in [Srqs -> Srqs]
  BY LinksType DEF IInv
<1>3. Forward' = Forward /\ Backward' = Backward
  BY <1>1 DEF InsertTail, Step, Rest, linkVars, shbVars, IInv, TypeOK, ShbInv,
       InsertInv, RemoveInv, RecoverInv, Forward, Backward, Undo
<1>4. WellLinked'
  BY <1>1, <1>2, <1>3 DEF InsertTail, Step, Rest, linkVars, shbVars, IInv,
       TypeOK, WellLinked
<1>5. ShbInv'
  BY <1>1, <1>2, <1>3 DEF InsertTail, Step, Rest, linkVars, shbVars, IInv,
       TypeOK, ShbInv, InsertInv, RemoveInv, RecoverInv, Undo, WindowsClosed
<1>6. InsertInv'
  BY <1>1, <1>2, <1>3 DEF InsertTail, Step, Rest, linkVars, shbVars, IInv,
       TypeOK, ShbInv, InsertInv
<1>7. RemoveInv'
  BY <1>1, <1>2, <1>3 DEF InsertTail, Step, Rest, linkVars, shbVars, IInv,
       TypeOK, ShbInv, RemoveInv, SelfLink
<1>8. RecoverInv'
  BY <1>1, <1>2, <1>3 DEF InsertTail, Step, Rest, linkVars, shbVars, IInv,
       TypeOK, ShbInv, RecoverInv, Undo
<1>9. PurgeInv'
  BY <1>1, <1>2, <1>3 DEF InsertTail, Step, Rest, linkVars, shbVars, IInv,
       TypeOK, ShbInv, InsertInv, RemoveInv, RecoverInv, PurgeInv, SelfLink,
       WindowsClosed
<1>10. ActiveInv'
  BY DEF InsertTail, Step, Rest, linkVars, shbVars, IInv, ActiveInv
<1> QED
  BY <1>1, <1>10, <1>4, <1>5, <1>6, <1>7, <1>8, <1>9 DEF IInv

(* A caller removes a queued node. *)
LEMMA RemoveQue_Inv ==
    ASSUME NEW n \in Nodes, IInv, WindowsClosed, RemoveQue(n)
    PROVE  IInv'
<1> USE QueueAssumption DEF Srqs, Stages, InsertStages, RemoveStages, RecoverStages
<1>1. TypeOK'
  BY DEF RemoveQue, Step, Rest, linkVars, shbVars, IInv, TypeOK, ShbInv,
       InsertInv, RemoveInv, RecoverInv, Undo
<1>2. Forward \in [Srqs -> Srqs] /\ Backward \in [Srqs -> Srqs]
  BY LinksType DEF IInv
<1>3. Forward' = Forward /\ Backward' = Backward
  BY <1>1 DEF RemoveQue, Step, Rest, linkVars, shbVars, IInv, TypeOK, ShbInv,
       InsertInv, RemoveInv, RecoverInv, Forward, Backward, Undo
<1>4. WellLinked'
  BY <1>1, <1>2, <1>3 DEF RemoveQue, Step, Rest, linkVars, shbVars, IInv,
       TypeOK, WellLinked
<1>5. ShbInv'
  BY <1>1, <1>2, <1>3 DEF RemoveQue, Step, Rest, linkVars, shbVars, IInv,
       TypeOK, ShbInv, InsertInv, RemoveInv, RecoverInv, Undo, WindowsClosed
<1>6. InsertInv'
  BY <1>1, <1>2, <1>3 DEF RemoveQue, Step, Rest, linkVars, shbVars, IInv,
       TypeOK, ShbInv, InsertInv
<1>7. RemoveInv'
  BY <1>1, <1>2, <1>3 DEF RemoveQue, Step, Rest, linkVars, shbVars, IInv,
       TypeOK, ShbInv, RemoveInv, SelfLink
<1>8. RecoverInv'
  BY <1>1, <1>2, <1>3 DEF RemoveQue, Step, Rest, linkVars, shbVars, IInv,
       TypeOK, ShbInv, RecoverInv, Undo
<1>9. PurgeInv'
  BY <1>1, <1>2, <1>3 DEF RemoveQue, Step, Rest, linkVars, shbVars, IInv,
       TypeOK, ShbInv, InsertInv, RemoveInv, RecoverInv, PurgeInv, SelfLink,
       WindowsClosed
<1>10. ActiveInv'
  BY DEF RemoveQue, Step, Rest, linkVars, shbVars, IInv, ActiveInv
<1> QED
  BY <1>1, <1>10, <1>4, <1>5, <1>6, <1>7, <1>8, <1>9 DEF IInv

(* The purge removes a node that is queued or linked to itself. *)
LEMMA RemoveAgain_Inv ==
    ASSUME NEW n \in Nodes, IInv, WindowsClosed, RemoveAgain(n)
    PROVE  IInv'
<1> USE QueueAssumption DEF Srqs, Stages, InsertStages, RemoveStages, RecoverStages
<1>1. TypeOK'
  BY DEF RemoveAgain, Step, Rest, linkVars, shbVars, IInv, TypeOK, ShbInv,
       InsertInv, RemoveInv, RecoverInv, Undo
<1>2. Forward \in [Srqs -> Srqs] /\ Backward \in [Srqs -> Srqs]
  BY LinksType DEF IInv
<1>3. Forward' = Forward /\ Backward' = Backward
  BY <1>1 DEF RemoveAgain, Step, Rest, linkVars, shbVars, IInv, TypeOK, ShbInv,
       InsertInv, RemoveInv, RecoverInv, Forward, Backward, Undo
<1>4. WellLinked'
  BY <1>1, <1>2, <1>3 DEF RemoveAgain, Step, Rest, linkVars, shbVars, IInv,
       TypeOK, WellLinked
<1>5. ShbInv'
  BY <1>1, <1>2, <1>3 DEF RemoveAgain, Step, Rest, linkVars, shbVars, IInv,
       TypeOK, ShbInv, InsertInv, RemoveInv, RecoverInv, Undo, WindowsClosed
<1>6. InsertInv'
  BY <1>1, <1>2, <1>3 DEF RemoveAgain, Step, Rest, linkVars, shbVars, IInv,
       TypeOK, ShbInv, InsertInv
<1>7. RemoveInv'
  <2>1. node' = n /\ queued' = queued /\ (n \in queued \/ SelfLink(n))
    BY DEF RemoveAgain, Step, IInv, PurgeInv
  <2>2. SelfLink(n) => SelfLink(node)'
    BY <1>3, <2>1 DEF SelfLink
  <2> QED
    BY <1>1, <2>1, <2>2 DEF RemoveAgain, Step, shbVars, IInv, TypeOK, ShbInv,
         RemoveInv
<1>8. RecoverInv'
  BY <1>1, <1>2, <1>3 DEF RemoveAgain, Step, Rest, linkVars, shbVars, IInv,
       TypeOK, ShbInv, RecoverInv, Undo
<1>9. PurgeInv'
  BY <1>1, <1>2, <1>3 DEF RemoveAgain, Step, Rest, linkVars, shbVars, IInv,
       TypeOK, ShbInv, InsertInv, RemoveInv, RecoverInv, PurgeInv, SelfLink,
       WindowsClosed
<1>10. ActiveInv'
  BY DEF RemoveAgain, Step, Rest, linkVars, shbVars, IInv, ActiveInv
<1> QED
  BY <1>1, <1>10, <1>4, <1>5, <1>6, <1>7, <1>8, <1>9 DEF IInv

(* The old value of shb_insert_prior is null, so nothing is undone yet. *)
LEMMA InsertQue_Inv ==
    ASSUME IInv, WindowsClosed, InsertQue
    PROVE  IInv'
<1> USE QueueAssumption DEF Srqs, Stages, InsertStages, RemoveStages, RecoverStages
<1>1. TypeOK'
  BY DEF InsertQue, Step, Rest, linkVars, shbVars, IInv, TypeOK, ShbInv,
       InsertInv, RemoveInv, RecoverInv, Undo
<1>2. Forward \in [Srqs -> Srqs] /\ Backward \in [Srqs -> Srqs]
  BY LinksType DEF IInv
<1>3. Forward' = Forward /\ Backward' = Backward
  BY <1>1 DEF InsertQue, Step, Rest, linkVars, shbVars, IInv, TypeOK, ShbInv,
       InsertInv, RemoveInv, RecoverInv, Forward, Backward, Undo
<1>4. WellLinked'
  BY <1>1, <1>2, <1>3 DEF InsertQue, Step, Rest, linkVars, shbVars, IInv,
       TypeOK, WellLinked
<1>5. ShbInv'
  BY <1>1, <1>2, <1>3 DEF InsertQue, Step, Rest, linkVars, shbVars, IInv,
       TypeOK, ShbInv, InsertInv, RemoveInv, RecoverInv, Undo, WindowsClosed
<1>6. InsertInv'
  BY <1>1, <1>2, <1>3 DEF InsertQue, Step, Rest, linkVars, shbVars, IInv,
       TypeOK, ShbInv, InsertInv
<1>7. RemoveInv'
  BY <1>1, <1>2, <1>3 DEF InsertQue, Step, Rest, linkVars, shbVars, IInv,
       TypeOK, ShbInv, RemoveInv, SelfLink
<1>8. RecoverInv'
  BY <1>1, <1>2, <1>3 DEF InsertQue, Step, Rest, linkVars, shbVars, IInv,
       TypeOK, ShbInv, RecoverInv, Undo
<1>9. PurgeInv'
  BY <1>1, <1>2, <1>3 DEF InsertQue, Step, Rest, linkVars, shbVars, IInv,
       TypeOK, ShbInv, InsertInv, RemoveInv, RecoverInv, PurgeInv, SelfLink,
       WindowsClosed
<1>10. ActiveInv'
  BY DEF InsertQue, Step, Rest, linkVars, shbVars, IInv, ActiveInv
<1> QED
  BY <1>1, <1>10, <1>4, <1>5, <1>6, <1>7, <1>8, <1>9 DEF IInv

(* Undoing an insertion that has not touched the queue changes nothing. *)
LEMMA InsertPrior_Inv ==
    ASSUME IInv, WindowsClosed, InsertPrior
    PROVE  IInv'
<1> USE QueueAssumption DEF Srqs, Stages, InsertStages, RemoveStages, RecoverStages
<1>1. TypeOK'
  BY DEF InsertPrior, Step, Rest, linkVars, shbVars, IInv, TypeOK, ShbInv,
       InsertInv, RemoveInv, RecoverInv, Undo
<1>2. Forward \in [Srqs -> Srqs] /\ Backward \in [Srqs -> Srqs]
  BY LinksType DEF IInv
<1>3. Forward' = Forward /\ Backward' = Backward
  <2>1. shb_remove_node = NoSrq /\ shb_insert_prior = NoSrq /\ shb_insert_que = que /\ que \in Heads
    BY DEF InsertPrior, Step, IInv, ShbInv, InsertInv
  <2>2. Forward = srq_forward /\ Backward = srq_backward
    BY <2>1 DEF Forward, Backward, Undo
  <2>3. srq_backward[que] \in Heads \cup queued /\ srq_forward[srq_backward[que]] = que
    BY <2>1, <2>2 DEF IInv, WellLinked
  <2>4. Forward' = [srq_forward EXCEPT ![srq_backward[que]] = que]
    BY <2>1, <2>3, <1>1 DEF InsertPrior, linkVars, Forward, Undo, IInv, TypeOK
  <2>5. Backward' = [srq_backward EXCEPT ![que] = srq_backward[que]]
    BY <2>1, <2>3, <1>1 DEF InsertPrior, linkVars, Backward, Undo, IInv, TypeOK
  <2> QED
    BY <2>1, <2>2, <2>3, <2>4, <2>5 DEF IInv, TypeOK
<1>4. WellLinked'
  BY <1>1, <1>2, <1>3 DEF InsertPrior, Step, Rest, linkVars, shbVars, IInv,
       TypeOK, WellLinked
<1>5. ShbInv'
  <2>1. shb_remove_node = NoSrq /\ shb_insert_prior = NoSrq /\ shb_insert_que = que /\ que \in Heads
    BY DEF InsertPrior, Step, IInv, ShbInv, InsertInv
  <2>2. Backward = srq_backward
    BY <2>1 DEF Backward, Undo
  <2>3. shb_insert_prior' \in Heads \cup queued
    BY <2>1, <2>2 DEF InsertPrior, IInv, WellLinked
  <2> QED
    BY <2>1, <2>3, <1>1 DEF InsertPrior, Step, Rest, linkVars, IInv, TypeOK,
         ShbInv
<1>6. InsertInv'
  BY <1>1, <1>2, <1>3 DEF InsertPrior, Step, Rest, linkVars, shbVars, IInv,
       TypeOK, ShbInv, InsertInv
<1>7. RemoveInv'
  BY <1>1, <1>2, <1>3 DEF InsertPrior, Step, Rest, linkVars, shbVars, IInv,
       TypeOK, ShbInv, RemoveInv, SelfLink
<1>8. RecoverInv'
  BY <1>1, <1>2, <1>3 DEF InsertPrior, Step, Rest, linkVars, shbVars, IInv,
       TypeOK, ShbInv, RecoverInv, Undo
<1>9. PurgeInv'
  BY <1>1, <1>2, <1>3 DEF InsertPrior, Step, Rest, linkVars, shbVars, IInv,
       TypeOK, ShbInv, InsertInv, RemoveInv, RecoverInv, PurgeInv, SelfLink,
       WindowsClosed
<1>10. ActiveInv'
  BY DEF InsertPrior, Step, Rest, linkVars, shbVars, IInv, ActiveInv
<1> QED
  BY <1>1, <1>10, <1>4, <1>5, <1>6, <1>7, <1>8, <1>9 DEF IInv

(* Nobody on a queue points at the node. *)
LEMMA InsertForward_Inv ==
    ASSUME IInv, WindowsClosed, InsertForward
    PROVE  IInv'
<1> USE QueueAssumption DEF Srqs, Stages, InsertStages, RemoveStages, RecoverStages
<1>1. TypeOK'
  BY DEF InsertForward, Step, Rest, linkVars, shbVars, IInv, TypeOK, ShbInv,
       InsertInv, RemoveInv, RecoverInv, Undo
<1>2. Forward \in [Srqs -> Srqs] /\ Backward \in [Srqs -> Srqs]
  BY LinksType DEF IInv
<1>3. \A x \in Srqs : x # node => Forward'[x] = Forward[x] /\ Backward'[x] = Backward[x]
  <2>1. Undo /\ Undo' /\ node \in Nodes /\ shb_insert_prior \in Srqs /\ shb_insert_que \in Srqs
    BY <1>1 DEF InsertForward, Step, shbVars, IInv, ShbInv, InsertInv, TypeOK,
         Undo
  <2>2. Forward = [srq_forward EXCEPT ![shb_insert_prior] = shb_insert_que] /\ Backward = [srq_backward EXCEPT ![shb_insert_que] = shb_insert_prior]
    BY <2>1 DEF Forward, Backward, Undo
  <2>3. Forward' = [srq_forward' EXCEPT ![shb_insert_prior] = shb_insert_que] /\ Backward' = [srq_backward EXCEPT ![shb_insert_que] = shb_insert_prior]
    BY <2>1 DEF InsertForward, shbVars, Forward, Backward, Undo
  <2> QED
    BY <2>1, <2>2, <2>3 DEF InsertForward, IInv, TypeOK
<1>4. WellLinked'
  BY <1>1, <1>2, <1>3 DEF InsertForward, Step, Rest, IInv, TypeOK, WellLinked,
       InsertInv
<1>5. ShbInv'
  BY <1>1, <1>2, <1>3 DEF InsertForward, Step, Rest, linkVars, shbVars, IInv,
       TypeOK, ShbInv, InsertInv, RemoveInv, RecoverInv, Undo, WindowsClosed
<1>6. InsertInv'
  BY <1>1, <1>2, <1>3 DEF InsertForward, Step, Rest, linkVars, shbVars, IInv,
       TypeOK, ShbInv, InsertInv
<1>7. RemoveInv'
  BY <1>1, <1>2, <1>3 DEF InsertForward, Step, Rest, linkVars, shbVars, IInv,
       TypeOK, ShbInv, RemoveInv, SelfLink
<1>8. RecoverInv'
  BY <1>1, <1>2, <1>3 DEF InsertForward, Step, Rest, linkVars, shbVars, IInv,
       TypeOK, ShbInv, RecoverInv, Undo
<1>9. PurgeInv'
  BY <1>1, <1>2, <1>3 DEF InsertForward, Step, Rest, linkVars, shbVars, IInv,
       TypeOK, ShbInv, InsertInv, RemoveInv, RecoverInv, PurgeInv, SelfLink,
       WindowsClosed
<1>10. ActiveInv'
  BY DEF InsertForward, Step, Rest, linkVars, shbVars, IInv, ActiveInv
<1> QED
  BY <1>1, <1>10, <1>4, <1>5, <1>6, <1>7, <1>8, <1>9 DEF IInv

(* Nobody on a queue points at the node. *)
LEMMA InsertBackward_Inv ==
    ASSUME IInv, WindowsClosed, InsertBackward
    PROVE  IInv'
<1> USE QueueAssumption DEF Srqs, Stages, InsertStages, RemoveStages, RecoverStages
<1>1. TypeOK'
  BY DEF InsertBackward, Step, Rest, linkVars, shbVars, IInv, TypeOK, ShbInv,
       InsertInv, RemoveInv, RecoverInv, Undo
<1>2. Forward \in [Srqs -> Srqs] /\ Backward \in [Srqs -> Srqs]
  BY LinksType DEF IInv
<1>3. \A x \in Srqs : x # node => Forward'[x] = Forward[x] /\ Backward'[x] = Backward[x]
  <2>1. Undo /\ Undo' /\ node \in Nodes /\ shb_insert_prior \in Srqs /\ shb_insert_que \in Srqs
    BY <1>1 DEF InsertBackward, Step, shbVars, IInv, ShbInv, InsertInv, TypeOK,
         Undo
  <2>2. Forward = [srq_forward EXCEPT ![shb_insert_prior] = shb_insert_que] /\ Backward = [srq_backward EXCEPT ![shb_insert_que] = shb_insert_prior]
    BY <2>1 DEF Forward, Backward, Undo
  <2>3. Forward' = [srq_forward EXCEPT ![shb_insert_prior] = shb_insert_que] /\ Backward' = [srq_backward' EXCEPT ![shb_insert_que] = shb_insert_prior]
    BY <2>1 DEF InsertBackward, shbVars, Forward, Backward, Undo
  <2> QED
    BY <2>1, <2>2, <2>3 DEF InsertBackward, IInv, TypeOK
<1>4. WellLinked'
  BY <1>1, <1>2, <1>3 DEF InsertBackward, Step, Rest, IInv, TypeOK, WellLinked,
       InsertInv
<1>5. ShbInv'
  BY <1>1, <1>2, <1>3 DEF InsertBackward, Step, Rest, linkVars, shbVars, IInv,
       TypeOK, ShbInv, InsertInv, RemoveInv, RecoverInv, Undo, WindowsClosed
<1>6. InsertInv'
  BY <1>1, <1>2, <1>3 DEF InsertBackward, Step, Rest, linkVars, shbVars, IInv,
       TypeOK, ShbInv, InsertInv
<1>7. RemoveInv'
  BY <1>1, <1>2, <1>3 DEF InsertBackward, Step, Rest, linkVars, shbVars, IInv,
       TypeOK, ShbInv, RemoveInv, SelfLink
<1>8. RecoverInv'
  BY <1>1, <1>2, <1>3 DEF InsertBackward, Step, Rest, linkVars, shbVars, IInv,
       TypeOK, ShbInv, RecoverInv, Undo
<1>9. PurgeInv'
  BY <1>1, <1>2, <1>3 DEF InsertBackward, Step, Rest, linkVars, shbVars, IInv,
       TypeOK, ShbInv, InsertInv, RemoveInv, RecoverInv, PurgeInv, SelfLink,
       WindowsClosed
<1>10. ActiveInv'
  BY DEF InsertBackward, Step, Rest, linkVars, shbVars, IInv, ActiveInv
<1> QED
  BY <1>1, <1>10, <1>4, <1>5, <1>6, <1>7, <1>8, <1>9 DEF IInv

(* The prior element points at the node; acquire() would undo that. *)
LEMMA InsertLink_Inv ==
    ASSUME IInv, WindowsClosed, InsertLink
    PROVE  IInv'
<1> USE QueueAssumption DEF Srqs, Stages, InsertStages, RemoveStages, RecoverStages
<1>1. TypeOK'
  BY DEF InsertLink, Step, Rest, linkVars, shbVars, IInv, TypeOK, ShbInv,
       InsertInv, RemoveInv, RecoverInv, Undo
<1>2. Forward \in [Srqs -> Srqs] /\ Backward \in [Srqs -> Srqs]
  BY LinksType DEF IInv
<1>3. Forward' = Forward /\ Backward' = Backward
  BY <1>1 DEF InsertLink, Step, Rest, linkVars, shbVars, IInv, TypeOK, ShbInv,
       InsertInv, RemoveInv, RecoverInv, Forward, Backward, Undo
<1>4. WellLinked'
  BY <1>1, <1>2, <1>3 DEF InsertLink, Step, Rest, linkVars, shbVars, IInv,
       TypeOK, WellLinked
<1>5. ShbInv'
  BY <1>1, <1>2, <1>3 DEF InsertLink, Step, Rest, linkVars, shbVars, IInv,
       TypeOK, ShbInv, InsertInv, RemoveInv, RecoverInv, Undo, WindowsClosed
<1>6. InsertInv'
  BY <1>1, <1>2, <1>3 DEF InsertLink, Step, Rest, linkVars, shbVars, IInv,
       TypeOK, ShbInv, InsertInv
<1>7. RemoveInv'
  BY <1>1, <1>2, <1>3 DEF InsertLink, Step, Rest, linkVars, shbVars, IInv,
       TypeOK, ShbInv, RemoveInv, SelfLink
<1>8. RecoverInv'
  BY <1>1, <1>2, <1>3 DEF InsertLink, Step, Rest, linkVars, shbVars, IInv,
       TypeOK, ShbInv, RecoverInv, Undo
<1>9. PurgeInv'
  BY <1>1, <1>2, <1>3 DEF InsertLink, Step, Rest, linkVars, shbVars, IInv,
       TypeOK, ShbInv, InsertInv, RemoveInv, RecoverInv, PurgeInv, SelfLink,
       WindowsClosed
<1>10. ActiveInv'
  BY DEF InsertLink, Step, Rest, linkVars, shbVars, IInv, ActiveInv
<1> QED
  BY <1>1, <1>10, <1>4, <1>5, <1>6, <1>7, <1>8, <1>9 DEF IInv

(* The header points at the node; acquire() would undo that. *)
LEMMA InsertLast_Inv ==
    ASSUME IInv, WindowsClosed, InsertLast
    PROVE  IInv'
<1> USE QueueAssumption DEF Srqs, Stages, InsertStages, RemoveStages, RecoverStages
<1>1. TypeOK'
  BY DEF InsertLast, Step, Rest, linkVars, shbVars, IInv, TypeOK, ShbInv,
       InsertInv, RemoveInv, RecoverInv, Undo
<1>2. Forward \in [Srqs -> Srqs] /\ Backward \in [Srqs -> Srqs]
  BY LinksType DEF IInv
<1>3. Forward' = Forward /\ Backward' = Backward
  BY <1>1 DEF InsertLast, Step, Rest, linkVars, shbVars, IInv, TypeOK, ShbInv,
       InsertInv, RemoveInv, RecoverInv, Forward, Backward, Undo
<1>4. WellLinked'
  BY <1>1, <1>2, <1>3 DEF InsertLast, Step, Rest, linkVars, shbVars, IInv,
       TypeOK, WellLinked
<1>5. ShbInv'
  BY <1>1, <1>2, <1>3 DEF InsertLast, Step, Rest, linkVars, shbVars, IInv,
       TypeOK, ShbInv, InsertInv, RemoveInv, RecoverInv, Undo, WindowsClosed
<1>6. InsertInv'
  BY <1>1, <1>2, <1>3 DEF InsertLast, Step, Rest, linkVars, shbVars, IInv,
       TypeOK, ShbInv, InsertInv
<1>7. RemoveInv'
  BY <1>1, <1>2, <1>3 DEF InsertLast, Step, Rest, linkVars, shbVars, IInv,
       TypeOK, ShbInv, RemoveInv, SelfLink
<1>8. RecoverInv'
  BY <1>1, <1>2, <1>3 DEF InsertLast, Step, Rest, linkVars, shbVars, IInv,
       TypeOK, ShbInv, RecoverInv, Undo
<1>9. PurgeInv'
  BY <1>1, <1>2, <1>3 DEF InsertLast, Step, Rest, linkVars, shbVars, IInv,
       TypeOK, ShbInv, InsertInv, RemoveInv, RecoverInv, PurgeInv, SelfLink,
       WindowsClosed
<1>10. ActiveInv'
  BY DEF InsertLast, Step, Rest, linkVars, shbVars, IInv, ActiveInv
<1> QED
  BY <1>1, <1>10, <1>4, <1>5, <1>6, <1>7, <1>8, <1>9 DEF IInv

(* The insertion takes effect: the node sits between prior and header. *)
LEMMA InsertDone_Inv ==
    ASSUME IInv, WindowsClosed, InsertDone
    PROVE  IInv'
<1> USE QueueAssumption DEF Srqs, Stages, InsertStages, RemoveStages, RecoverStages
<1>1. TypeOK'
  BY DEF InsertDone, Step, Rest, linkVars, shbVars, IInv, TypeOK, ShbInv,
       InsertInv, RemoveInv, RecoverInv, Undo
<1>2. Forward \in [Srqs -> Srqs] /\ Backward \in [Srqs -> Srqs]
  BY LinksType DEF IInv
<1>3. /\ Forward' = srq_forward /\ Backward' = srq_backward
     /\ que \in Heads /\ node \in Nodes /\ node \notin queued
     /\ shb_insert_prior \in Heads \cup queued
     /\ Forward = [srq_forward EXCEPT ![shb_insert_prior] = que]
     /\ Backward = [srq_backward EXCEPT ![que] = shb_insert_prior]
     /\ srq_forward[node] = que /\ srq_backward[node] = shb_insert_prior
     /\ srq_forward[shb_insert_prior] = node /\ srq_backward[que] = node
  BY <1>1 DEF InsertDone, Step, linkVars, IInv, TypeOK, ShbInv, InsertInv,
       Forward, Backward, Undo
<1>4. WellLinked'
  <2> DEFINE Q == Heads \cup queued
  <2>1. \A x \in Q : Forward[x] \in Q /\ Backward[Forward[x]] = x /\ Backward[x] \in Q /\ Forward[Backward[x]] = x
    BY DEF IInv, WellLinked
  <2>2. queued' = queued \cup {node} /\ queued \subseteq Nodes
    BY DEF InsertDone, IInv, TypeOK
  <2>3. \A x \in Q : x # shb_insert_prior => Forward'[x] = Forward[x]
    BY <1>3 DEF IInv, TypeOK
  <2>4. \A x \in Q : x # que => Backward'[x] = Backward[x]
    BY <1>3 DEF IInv, TypeOK
  <2>5. Forward[shb_insert_prior] = que /\ Backward[que] = shb_insert_prior
    BY <1>3 DEF IInv, TypeOK
  <2>6. \A x \in Q : (x # shb_insert_prior => Forward[x] # que) /\ (x # que => Backward[x] # shb_insert_prior)
    BY <2>1, <2>5
  <2>7. \A x \in Q : Forward'[x] \in Q \cup {node} /\ Backward'[Forward'[x]] = x
    BY <1>3, <2>1, <2>3, <2>4, <2>5, <2>6
  <2>8. \A x \in Q : Backward'[x] \in Q \cup {node} /\ Forward'[Backward'[x]] = x
    BY <1>3, <2>1, <2>3, <2>4, <2>5, <2>6
  <2>9. /\ Forward'[node] \in Q /\ Backward'[Forward'[node]] = node
        /\ Backward'[node] \in Q /\ Forward'[Backward'[node]] = node
    BY <1>3
  <2> QED
    BY <2>2, <2>7, <2>8, <2>9 DEF WellLinked
<1>5. ShbInv'
  BY <1>1, <1>2, <1>3 DEF InsertDone, Step, Rest, linkVars, shbVars, IInv,
       TypeOK, ShbInv, InsertInv, RemoveInv, RecoverInv, Undo, WindowsClosed
<1>6. InsertInv'
  BY <1>1, <1>2, <1>3 DEF InsertDone, Step, Rest, linkVars, shbVars, IInv,
       TypeOK, ShbInv, InsertInv
<1>7. RemoveInv'
  BY <1>1, <1>2, <1>3 DEF InsertDone, Step, Rest, linkVars, shbVars, IInv,
       TypeOK, ShbInv, RemoveInv, SelfLink
<1>8. RecoverInv'
  BY <1>1, <1>2, <1>3 DEF InsertDone, Step, Rest, linkVars, shbVars, IInv,
       TypeOK, ShbInv, RecoverInv, Undo
<1>9. PurgeInv'
  BY <1>1, <1>2, <1>3 DEF InsertDone, Step, Rest, linkVars, shbVars, IInv,
       TypeOK, ShbInv, InsertInv, RemoveInv, RecoverInv, PurgeInv, SelfLink,
       WindowsClosed
<1>10. ActiveInv'
  BY DEF InsertDone, Step, Rest, linkVars, shbVars, IInv, ActiveInv
<1> QED
  BY <1>1, <1>10, <1>4, <1>5, <1>6, <1>7, <1>8, <1>9 DEF IInv

(* The recovery data is reset. *)
LEMMA InsertEnd_Inv ==
    ASSUME IInv, WindowsClosed, InsertEnd
    PROVE  IInv'
<1> USE QueueAssumption DEF Srqs, Stages, InsertStages, RemoveStages, RecoverStages
<1>1. TypeOK'
  BY DEF InsertEnd, Step, Rest, linkVars, shbVars, IInv, TypeOK, ShbInv,
       InsertInv, RemoveInv, RecoverInv, Undo
<1>2. Forward \in [Srqs -> Srqs] /\ Backward \in [Srqs -> Srqs]
  BY LinksType DEF IInv
<1>3. Forward' = Forward /\ Backward' = Backward
  BY <1>1 DEF InsertEnd, Step, Rest, linkVars, shbVars, IInv, TypeOK, ShbInv,
       InsertInv, RemoveInv, RecoverInv, Forward, Backward, Undo
<1>4. WellLinked'
  BY <1>1, <1>2, <1>3 DEF InsertEnd, Step, Rest, linkVars, shbVars, IInv,
       TypeOK, WellLinked
<1>5. ShbInv'
  BY <1>1, <1>2, <1>3 DEF InsertEnd, Step, Rest, linkVars, shbVars, IInv,
       TypeOK, ShbInv, InsertInv, RemoveInv, RecoverInv, Undo, WindowsClosed
<1>6. InsertInv'
  BY <1>1, <1>2, <1>3 DEF InsertEnd, Step, Rest, linkVars, shbVars, IInv,
       TypeOK, ShbInv, InsertInv
<1>7. RemoveInv'
  BY <1>1, <1>2, <1>3 DEF InsertEnd, Step, Rest, linkVars, shbVars, IInv,
       TypeOK, ShbInv, RemoveInv, SelfLink
<1>8. RecoverInv'
  BY <1>1, <1>2, <1>3 DEF InsertEnd, Step, Rest, linkVars, shbVars, IInv,
       TypeOK, ShbInv, RecoverInv, Undo
<1>9. PurgeInv'
  BY <1>1, <1>2, <1>3 DEF InsertEnd, Step, Rest, linkVars, shbVars, IInv,
       TypeOK, ShbInv, InsertInv, RemoveInv, RecoverInv, PurgeInv, SelfLink,
       WindowsClosed
<1>10. ActiveInv'
  BY DEF InsertEnd, Step, Rest, linkVars, shbVars, IInv, ActiveInv
<1> QED
  BY <1>1, <1>10, <1>4, <1>5, <1>6, <1>7, <1>8, <1>9 DEF IInv

(* The removal takes effect: acquire() would now complete it. *)
LEMMA RemoveNode_Inv ==
    ASSUME IInv, WindowsClosed, RemoveNode
    PROVE  IInv'
<1> USE QueueAssumption DEF Srqs, Stages, InsertStages, RemoveStages, RecoverStages
<1>1. TypeOK'
  BY DEF RemoveNode, Step, Rest, linkVars, shbVars, IInv, TypeOK, ShbInv,
       InsertInv, RemoveInv, RecoverInv, Undo
<1>2. Forward \in [Srqs -> Srqs] /\ Backward \in [Srqs -> Srqs]
  BY LinksType DEF IInv
<1>3. /\ node \in Nodes
     /\ Forward' = [srq_forward EXCEPT ![srq_backward[node]] = srq_forward[node], ![node] = node]
     /\ Backward' = [srq_backward EXCEPT ![srq_forward[node]] = srq_backward[node], ![node] = node]
  BY <1>1 DEF RemoveNode, Step, linkVars, IInv, TypeOK, RemoveInv, Forward,
       Backward
<1>a. ASSUME shb_remove_node = node \/ (shb_remove_node = NoSrq /\ node \notin queued)
      PROVE  /\ \A x \in Srqs : Forward'[x] = Forward[x] /\ Backward'[x] = Backward[x]
             /\ node \notin queued
  <2>1. CASE shb_remove_node = node
    BY <1>3, <2>1 DEF IInv, TypeOK, ShbInv, Forward, Backward
  <2>2. CASE shb_remove_node = NoSrq /\ node \notin queued
    <3>1. Forward = srq_forward /\ Backward = srq_backward /\ srq_forward[node] = node /\ srq_backward[node] = node
      BY <2>2, <1>3 DEF RemoveNode, Step, IInv, TypeOK, ShbInv, RemoveInv,
           SelfLink, Forward, Backward, Undo
    <3> QED
      BY <3>1, <2>2, <1>3 DEF IInv, TypeOK
  <2> QED
    BY <1>a, <2>1, <2>2
<1>b. ASSUME shb_remove_node = NoSrq, node \in queued
      PROVE  /\ Forward = srq_forward /\ Backward = srq_backward
             /\ \A x \in Heads \cup queued : srq_forward[x] \in Heads \cup queued /\ srq_backward[srq_forward[x]] = x /\ srq_backward[x] \in Heads \cup queued /\ srq_forward[srq_backward[x]] = x
  <2>1. Forward = srq_forward /\ Backward = srq_backward
    BY <1>b DEF RemoveNode, Step, IInv, ShbInv, Forward, Backward, Undo
  <2> QED
    BY <2>1 DEF IInv, WellLinked
<1>c. shb_remove_node = node \/ (shb_remove_node = NoSrq /\ node \notin queued) \/ (shb_remove_node = NoSrq /\ node \in queued)
  BY DEF RemoveNode, Step, IInv, RemoveInv
<1>4. WellLinked'
  <2>1. CASE shb_remove_node = node \/ (shb_remove_node = NoSrq /\ node \notin queued)
    <3>1. queued' = queued
      BY <1>a, <2>1 DEF RemoveNode
    <3> QED
      BY <1>a, <2>1, <3>1, <1>2 DEF IInv, TypeOK, WellLinked
  <2>2. CASE shb_remove_node = NoSrq /\ node \in queued
    <3> DEFINE Q == Heads \cup queued
               p == srq_backward[node]
               s == srq_forward[node]
    <3>1. \A x \in Q : srq_forward[x] \in Q /\ srq_backward[srq_forward[x]] = x /\ srq_backward[x] \in Q /\ srq_forward[srq_backward[x]] = x
      BY <2>2, <1>b
    <3>2. queued' = queued \ {node} /\ node \in Q /\ node \notin Heads /\ Q \subseteq Srqs
      BY <2>2, <1>3 DEF RemoveNode, IInv, TypeOK
    <3>3. \A x \in Q : x # node => Forward'[x] = IF x = p THEN s ELSE srq_forward[x]
      BY <1>3, <3>2 DEF IInv, TypeOK
    <3>4. \A x \in Q : x # node => Backward'[x] = IF x = s THEN p ELSE srq_backward[x]
      BY <1>3, <3>2 DEF IInv, TypeOK
    <3>5. p \in Q /\ s \in Q /\ srq_forward[p] = node /\ srq_backward[s] = node
      BY <3>1, <3>2
    <3> HIDE DEF p, s, Q
    <3>6. \A x \in Q : x # node => (x # p => srq_forward[x] # node) /\ (x # s => srq_backward[x] # node)
      BY <3>1, <3>5
    <3>6a. (p = node) <=> (s = node)
      BY <3>1, <3>2, <3>5
    <3>7. \A x \in Q : x # node => Forward'[x] \in Q \ {node} /\ Backward'[Forward'[x]] = x
      BY <3>1, <3>3, <3>4, <3>5, <3>6, <3>6a
    <3>8. \A x \in Q : x # node => Backward'[x] \in Q \ {node} /\ Forward'[Backward'[x]] = x
      BY <3>1, <3>3, <3>4, <3>5, <3>6, <3>6a
    <3>9. Heads \cup queued' = Q \ {node}
      BY <3>2 DEF Q
    <3> QED
      BY <3>7, <3>8, <3>9 DEF WellLinked
  <2> QED
    BY <1>c, <2>1, <2>2
<1>5. ShbInv'
  <2>1. /\ node \notin queued'
        /\ srq_forward[node] = node <=> srq_backward[node] = node
        /\ srq_forward[node] # node => srq_forward[node] \in Heads \cup queued' /\ srq_backward[node] \in Heads \cup queued'
    <3>1. CASE shb_remove_node = node
      BY <3>1, <1>3 DEF RemoveNode, IInv, TypeOK, ShbInv
    <3>2. CASE shb_remove_node = NoSrq /\ node \notin queued
      BY <3>2, <1>3 DEF RemoveNode, Step, IInv, TypeOK, ShbInv, RemoveInv,
           SelfLink, Forward, Backward, Undo
    <3>3. CASE shb_remove_node = NoSrq /\ node \in queued
      BY <3>3, <1>3, <1>b DEF RemoveNode
    <3> QED
      BY <1>c, <3>1, <3>2, <3>3
  <2> QED
    BY <1>1, <1>3, <2>1 DEF RemoveNode, Step, linkVars, IInv, TypeOK, ShbInv
<1>6. InsertInv'
  BY <1>1, <1>2, <1>3 DEF RemoveNode, Step, Rest, linkVars, shbVars, IInv,
       TypeOK, ShbInv, InsertInv
<1>7. RemoveInv'
  BY <1>1, <1>2, <1>3 DEF RemoveNode, Step, Rest, linkVars, shbVars, IInv,
       TypeOK, ShbInv, RemoveInv, SelfLink
<1>8. RecoverInv'
  BY <1>1, <1>2, <1>3 DEF RemoveNode, Step, Rest, linkVars, shbVars, IInv,
       TypeOK, ShbInv, RecoverInv, Undo
<1>9. PurgeInv'
  <2>1. \A x \in purge : x \in queued' \/ SelfLink(x)'
    <3> SUFFICES ASSUME NEW x \in purge PROVE x \in queued' \/ SelfLink(x)'
      OBVIOUS
    <3>1. CASE x = node
      BY <3>1, <1>3 DEF SelfLink, IInv, TypeOK
    <3>2. CASE x # node /\ x \in queued
      BY <3>2 DEF RemoveNode
    <3>3. CASE x # node /\ x \notin queued
      <4>1. SelfLink(x) /\ x \in Nodes
        BY <3>3 DEF RemoveNode, Step, IInv, TypeOK, PurgeInv
      <4>2. CASE shb_remove_node = node \/ (shb_remove_node = NoSrq /\ node \notin queued)
        BY <4>1, <4>2, <1>a DEF SelfLink
      <4>3. CASE shb_remove_node = NoSrq /\ node \in queued
        <5>1. x # srq_forward[node] /\ x # srq_backward[node]
          BY <4>1, <4>3, <3>3, <1>b
        <5> QED
          BY <5>1, <4>1, <4>3, <3>3, <1>3, <1>b DEF SelfLink, IInv, TypeOK
      <4> QED
        BY <1>c, <4>2, <4>3
    <3> QED
      BY <3>1, <3>2, <3>3
  <2> QED
    BY <2>1 DEF RemoveNode, Step, IInv, PurgeInv
<1>10. ActiveInv'
  BY DEF RemoveNode, Step, Rest, linkVars, shbVars, IInv, ActiveInv
<1> QED
  BY <1>1, <1>10, <1>4, <1>5, <1>6, <1>7, <1>8, <1>9 DEF IInv

(* The first store of the removal is what acquire() would do. *)
LEMMA RemoveNext_Inv ==
    ASSUME IInv, WindowsClosed, RemoveNext
    PROVE  IInv'
<1> USE QueueAssumption DEF Srqs, Stages, InsertStages, RemoveStages, RecoverStages
<1>1. TypeOK'
  BY DEF RemoveNext, Step, Rest, linkVars, shbVars, IInv, TypeOK, ShbInv,
       InsertInv, RemoveInv, RecoverInv, Undo
<1>2. Forward \in [Srqs -> Srqs] /\ Backward \in [Srqs -> Srqs]
  BY LinksType DEF IInv
<1>3. \A x \in Srqs : Forward'[x] = Forward[x] /\ Backward'[x] = Backward[x]
  <2>1. node \in Nodes /\ shb_remove_node = node /\ shb_remove_node' = node /\ node # NoSrq
    BY DEF RemoveNext, Step, shbVars, IInv, TypeOK, RemoveInv
  <2>2. srq_backward'[node] = srq_backward[node] /\ srq_forward' = srq_forward
    BY <2>1 DEF RemoveNext, IInv, TypeOK
  <2>3. /\ Forward = [srq_forward EXCEPT ![srq_backward[node]] = srq_forward[node], ![node] = node]
        /\ Backward = [srq_backward EXCEPT ![srq_forward[node]] = srq_backward[node], ![node] = node]
    BY <2>1 DEF Forward, Backward
  <2>4. /\ Forward' = [srq_forward EXCEPT ![srq_backward[node]] = srq_forward[node], ![node] = node]
        /\ Backward' = [srq_backward' EXCEPT ![srq_forward[node]] = srq_backward[node], ![node] = node]
    BY <2>1, <2>2 DEF Forward, Backward
  <2> QED
    BY <2>1, <2>3, <2>4 DEF RemoveNext, IInv, TypeOK
<1>4. WellLinked'
  BY <1>1, <1>2, <1>3 DEF RemoveNext, Step, Rest, linkVars, shbVars, IInv,
       TypeOK, WellLinked
<1>5. ShbInv'
  BY <1>1, <1>2, <1>3 DEF RemoveNext, Step, Rest, linkVars, shbVars, IInv,
       TypeOK, ShbInv, InsertInv, RemoveInv, RecoverInv, Undo, WindowsClosed
<1>6. InsertInv'
  BY <1>1, <1>2, <1>3 DEF RemoveNext, Step, Rest, linkVars, shbVars, IInv,
       TypeOK, ShbInv, InsertInv
<1>7. RemoveInv'
  BY <1>1, <1>2, <1>3 DEF RemoveNext, Step, Rest, linkVars, shbVars, IInv,
       TypeOK, ShbInv, RemoveInv, SelfLink
<1>8. RecoverInv'
  BY <1>1, <1>2, <1>3 DEF RemoveNext, Step, Rest, linkVars, shbVars, IInv,
       TypeOK, ShbInv, RecoverInv, Undo
<1>9. PurgeInv'
  BY <1>1, <1>2, <1>3 DEF RemoveNext, Step, Rest, linkVars, shbVars, IInv,
       TypeOK, ShbInv, InsertInv, RemoveInv, RecoverInv, PurgeInv, SelfLink,
       WindowsClosed
<1>10. ActiveInv'
  BY DEF RemoveNext, Step, Rest, linkVars, shbVars, IInv, ActiveInv
<1> QED
  BY <1>1, <1>10, <1>4, <1>5, <1>6, <1>7, <1>8, <1>9 DEF IInv

(* So is the second. *)
LEMMA RemovePrior_Inv ==
    ASSUME IInv, WindowsClosed, RemovePrior
    PROVE  IInv'
<1> USE QueueAssumption DEF Srqs, Stages, InsertStages, RemoveStages, RecoverStages
<1>1. TypeOK'
  BY DEF RemovePrior, Step, Rest, linkVars, shbVars, IInv, TypeOK, ShbInv,
       InsertInv, RemoveInv, RecoverInv, Undo
<1>2. Forward \in [Srqs -> Srqs] /\ Backward \in [Srqs -> Srqs]
  BY LinksType DEF IInv
<1>3. \A x \in Srqs : Forward'[x] = Forward[x] /\ Backward'[x] = Backward[x]
  <2>1. node \in Nodes /\ shb_remove_node = node /\ shb_remove_node' = node /\ node # NoSrq
    BY DEF RemovePrior, Step, shbVars, IInv, TypeOK, RemoveInv
  <2>2. srq_forward'[node] = srq_forward[node] /\ srq_backward' = srq_backward
    BY <2>1 DEF RemovePrior, IInv, TypeOK
  <2>3. /\ Forward = [srq_forward EXCEPT ![srq_backward[node]] = srq_forward[node], ![node] = node]
        /\ Backward = [srq_backward EXCEPT ![srq_forward[node]] = srq_backward[node], ![node] = node]
    BY <2>1 DEF Forward, Backward
  <2>4. /\ Forward' = [srq_forward' EXCEPT ![srq_backward[node]] = srq_forward[node], ![node] = node]
        /\ Backward' = [srq_backward EXCEPT ![srq_forward[node]] = srq_backward[node], ![node] = node]
    BY <2>1, <2>2 DEF Forward, Backward
  <2> QED
    BY <2>1, <2>3, <2>4 DEF RemovePrior, IInv, TypeOK
<1>4. WellLinked'
  BY <1>1, <1>2, <1>3 DEF RemovePrior, Step, Rest, linkVars, shbVars, IInv,
       TypeOK, WellLinked
<1>5. ShbInv'
  BY <1>1, <1>2, <1>3 DEF RemovePrior, Step, Rest, linkVars, shbVars, IInv,
       TypeOK, ShbInv, InsertInv, RemoveInv, RecoverInv, Undo, WindowsClosed
<1>6. InsertInv'
  BY <1>1, <1>2, <1>3 DEF RemovePrior, Step, Rest, linkVars, shbVars, IInv,
       TypeOK, ShbInv, InsertInv
<1>7. RemoveInv'
  BY <1>1, <1>2, <1>3 DEF RemovePrior, Step, Rest, linkVars, shbVars, IInv,
       TypeOK, ShbInv, RemoveInv, SelfLink
<1>8. RecoverInv'
  BY <1>1, <1>2, <1>3 DEF RemovePrior, Step, Rest, linkVars, shbVars, IInv,
       TypeOK, ShbInv, RecoverInv, Undo
<1>9. PurgeInv'
  BY <1>1, <1>2, <1>3 DEF RemovePrior, Step, Rest, linkVars, shbVars, IInv,
       TypeOK, ShbInv, InsertInv, RemoveInv, RecoverInv, PurgeInv, SelfLink,
       WindowsClosed
<1>10. ActiveInv'
  BY DEF RemovePrior, Step, Rest, linkVars, shbVars, IInv, ActiveInv
<1> QED
  BY <1>1, <1>10, <1>4, <1>5, <1>6, <1>7, <1>8, <1>9 DEF IInv

(* Both stores are done: nothing is left to complete. *)
LEMMA RemoveDone_Inv ==
    ASSUME IInv, WindowsClosed, RemoveDone
    PROVE  IInv'
<1> USE QueueAssumption DEF Srqs, Stages, InsertStages, RemoveStages, RecoverStages
<1>1. TypeOK'
  BY DEF RemoveDone, Step, Rest, linkVars, shbVars, IInv, TypeOK, ShbInv,
       InsertInv, RemoveInv, RecoverInv, Undo
<1>2. Forward \in [Srqs -> Srqs] /\ Backward \in [Srqs -> Srqs]
  BY LinksType DEF IInv
<1>3. \A x \in Srqs : x # node => Forward'[x] = Forward[x] /\ Backward'[x] = Backward[x]
  <2>1. node \in Nodes /\ shb_remove_node = node /\ node # NoSrq /\ shb_insert_prior = NoSrq
    BY DEF RemoveDone, Step, IInv, TypeOK, ShbInv, RemoveInv
  <2>2. /\ Forward = [srq_forward EXCEPT ![srq_backward[node]] = srq_forward[node], ![node] = node]
        /\ Backward = [srq_backward EXCEPT ![srq_forward[node]] = srq_backward[node], ![node] = node]
    BY <2>1 DEF Forward, Backward
  <2>3. Forward' = srq_forward /\ Backward' = srq_backward
    BY <2>1 DEF RemoveDone, linkVars, Forward, Backward, Undo
  <2>4. srq_backward[srq_forward[node]] = srq_backward[node] /\ srq_forward[srq_backward[node]] = srq_forward[node]
    BY DEF RemoveDone, Step, IInv, RemoveInv
  <2> QED
    BY <2>1, <2>2, <2>3, <2>4 DEF IInv, TypeOK
<1>4. WellLinked'
  <2>1. node \notin Heads \cup queued
    BY DEF RemoveDone, Step, IInv, TypeOK, ShbInv, RemoveInv
  <2> QED
    BY <1>1, <1>2, <1>3, <2>1 DEF RemoveDone, Rest, IInv, TypeOK, WellLinked
<1>5. ShbInv'
  BY <1>1, <1>2, <1>3 DEF RemoveDone, Step, Rest, linkVars, shbVars, IInv,
       TypeOK, ShbInv, InsertInv, RemoveInv, RecoverInv, Undo, WindowsClosed
<1>6. InsertInv'
  BY <1>1, <1>2, <1>3 DEF RemoveDone, Step, Rest, linkVars, shbVars, IInv,
       TypeOK, ShbInv, InsertInv
<1>7. RemoveInv'
  BY <1>1, <1>2, <1>3 DEF RemoveDone, Step, Rest, linkVars, shbVars, IInv,
       TypeOK, ShbInv, RemoveInv, SelfLink
<1>8. RecoverInv'
  BY <1>1, <1>2, <1>3 DEF RemoveDone, Step, Rest, linkVars, shbVars, IInv,
       TypeOK, ShbInv, RecoverInv, Undo
<1>9. PurgeInv'
  BY <1>1, <1>2, <1>3 DEF RemoveDone, Step, Rest, linkVars, shbVars, IInv,
       TypeOK, ShbInv, InsertInv, RemoveInv, RecoverInv, PurgeInv, SelfLink,
       WindowsClosed
<1>10. ActiveInv'
  BY DEF RemoveDone, Step, Rest, linkVars, shbVars, IInv, ActiveInv
<1> QED
  BY <1>1, <1>10, <1>4, <1>5, <1>6, <1>7, <1>8, <1>9 DEF IInv

(* The links of a removed node concern nobody. *)
LEMMA RemoveSelf_Inv ==
    ASSUME IInv, WindowsClosed, RemoveSelf
    PROVE  IInv'
<1> USE QueueAssumption DEF Srqs, Stages, InsertStages, RemoveStages, RecoverStages
<1>1. TypeOK'
  BY DEF RemoveSelf, SelfLinked, Step, Rest, linkVars, shbVars, IInv, TypeOK,
       ShbInv, InsertInv, RemoveInv, RecoverInv, Undo
<1>2. Forward \in [Srqs -> Srqs] /\ Backward \in [Srqs -> Srqs]
  BY LinksType DEF IInv
<1>3. \A x \in Srqs : x # node => Forward'[x] = Forward[x] /\ Backward'[x] = Backward[x]
  <2>1. node \in Nodes /\ ~ Undo /\ ~ Undo' /\ shb_remove_node = NoSrq /\ shb_remove_node' = NoSrq
    BY DEF RemoveSelf, Step, shbVars, IInv, ShbInv, RemoveInv, Undo
  <2> QED
    BY <2>1 DEF RemoveSelf, SelfLinked, Forward, Backward, IInv, TypeOK
<1>4. WellLinked'
  <2>1. node \notin Heads \cup queued
    BY DEF RemoveSelf, Step, IInv, TypeOK, ShbInv, RemoveInv
  <2> QED
    BY <1>1, <1>2, <1>3, <2>1 DEF RemoveSelf, Rest, IInv, TypeOK, WellLinked
<1>5. ShbInv'
  BY <1>1, <1>2, <1>3 DEF RemoveSelf, SelfLinked, Step, Rest, linkVars,
       shbVars, IInv, TypeOK, ShbInv, InsertInv, RemoveInv, RecoverInv, Undo,
       WindowsClosed
<1>6. InsertInv'
  BY <1>1, <1>2, <1>3 DEF RemoveSelf, SelfLinked, Step, Rest, linkVars,
       shbVars, IInv, TypeOK, ShbInv, InsertInv
<1>7. RemoveInv'
  BY <1>1, <1>2, <1>3 DEF RemoveSelf, SelfLinked, Step, Rest, linkVars,
       shbVars, IInv, TypeOK, ShbInv, RemoveInv, SelfLink
<1>8. RecoverInv'
  BY <1>1, <1>2, <1>3 DEF RemoveSelf, SelfLinked, Step, Rest, linkVars,
       shbVars, IInv, TypeOK, ShbInv, RecoverInv, Undo
<1>9. PurgeInv'
  BY <1>1, <1>2, <1>3 DEF RemoveSelf, SelfLinked, Step, Rest, linkVars,
       shbVars, IInv, TypeOK, ShbInv, InsertInv, RemoveInv, RecoverInv,
       PurgeInv, SelfLink, WindowsClosed
<1>10. ActiveInv'
  BY DEF RemoveSelf, SelfLinked, Step, Rest, linkVars, shbVars, IInv, ActiveInv
<1> QED
  BY <1>1, <1>10, <1>4, <1>5, <1>6, <1>7, <1>8, <1>9 DEF IInv

(* Both links of the removed node are its own now. *)
LEMMA RemoveInit_Inv ==
    ASSUME IInv, WindowsClosed, RemoveInit
    PROVE  IInv'
<1> USE QueueAssumption DEF Srqs, Stages, InsertStages, RemoveStages, RecoverStages
<1>1. TypeOK'
  BY DEF RemoveInit, SelfLinked, Step, Rest, linkVars, shbVars, IInv, TypeOK,
       ShbInv, InsertInv, RemoveInv, RecoverInv, Undo
<1>2. Forward \in [Srqs -> Srqs] /\ Backward \in [Srqs -> Srqs]
  BY LinksType DEF IInv
<1>3. \A x \in Srqs : x # node => Forward'[x] = Forward[x] /\ Backward'[x] = Backward[x]
  <2>1. node \in Nodes /\ ~ Undo /\ ~ Undo' /\ shb_remove_node = NoSrq /\ shb_remove_node' = NoSrq
    BY DEF RemoveInit, Step, shbVars, IInv, ShbInv, RemoveInv, Undo
  <2> QED
    BY <2>1 DEF RemoveInit, SelfLinked, Forward, Backward, IInv, TypeOK
<1>a. SelfLink(node)' /\ node' = node
  <2>1. node \in Nodes /\ ~ Undo' /\ shb_remove_node' = NoSrq /\ srq_backward[node] = node
    BY DEF RemoveInit, Step, shbVars, IInv, ShbInv, RemoveInv, Undo
  <2> QED
    BY <2>1 DEF RemoveInit, SelfLinked, SelfLink, Forward, Backward, IInv,
         TypeOK
<1>4. WellLinked'
  <2>1. node \notin Heads \cup queued
    BY DEF RemoveInit, Step, IInv, TypeOK, ShbInv, RemoveInv
  <2> QED
    BY <1>1, <1>2, <1>3, <2>1 DEF RemoveInit, Rest, IInv, TypeOK, WellLinked
<1>5. ShbInv'
  BY <1>1, <1>2, <1>3 DEF RemoveInit, SelfLinked, Step, Rest, linkVars,
       shbVars, IInv, TypeOK, ShbInv, InsertInv, RemoveInv, RecoverInv, Undo,
       WindowsClosed
<1>6. InsertInv'
  BY <1>1, <1>2, <1>3 DEF RemoveInit, SelfLinked, Step, Rest, linkVars,
       shbVars, IInv, TypeOK, ShbInv, InsertInv
<1>7. RemoveInv'
  BY <1>1, <1>2, <1>3 DEF RemoveInit, SelfLinked, Step, Rest, linkVars,
       shbVars, IInv, TypeOK, ShbInv, RemoveInv, SelfLink
<1>8. RecoverInv'
  BY <1>1, <1>2, <1>3 DEF RemoveInit, SelfLinked, Step, Rest, linkVars,
       shbVars, IInv, TypeOK, ShbInv, RecoverInv, Undo
<1>9. PurgeInv'
  <2>1. \A x \in purge : x \in queued \/ SelfLink(x)'
    BY <1>3, <1>a DEF IInv, TypeOK, PurgeInv, SelfLink
  <2> QED
    BY <1>a, <2>1 DEF RemoveInit, Step, Rest, IInv, PurgeInv
<1>10. ActiveInv'
  BY DEF RemoveInit, SelfLinked, Step, Rest, linkVars, shbVars, IInv, ActiveInv
<1> QED
  BY <1>1, <1>10, <1>4, <1>5, <1>6, <1>7, <1>8, <1>9 DEF IInv

(* Taking the mutex changes no link. *)
LEMMA Acquire_Inv ==
    ASSUME IInv, WindowsClosed, Acquire
    PROVE  IInv'
<1> USE QueueAssumption DEF Srqs, Stages, InsertStages, RemoveStages, RecoverStages
<1>1. TypeOK'
  BY DEF Acquire, Step, Rest, linkVars, shbVars, IInv, TypeOK, ShbInv,
       InsertInv, RemoveInv, RecoverInv, Undo
<1>2. Forward \in [Srqs -> Srqs] /\ Backward \in [Srqs -> Srqs]
  BY LinksType DEF IInv
<1>3. Forward' = Forward /\ Backward' = Backward
  BY <1>1 DEF Acquire, Step, Rest, linkVars, shbVars, IInv, TypeOK, ShbInv,
       InsertInv, RemoveInv, RecoverInv, Forward, Backward, Undo
<1>4. WellLinked'
  BY <1>1, <1>2, <1>3 DEF Acquire, Step, Rest, linkVars, shbVars, IInv, TypeOK,
       WellLinked
<1>5. ShbInv'
  BY <1>1, <1>2, <1>3 DEF Acquire, Step, Rest, linkVars, shbVars, IInv, TypeOK,
       ShbInv, InsertInv, RemoveInv, RecoverInv, Undo, WindowsClosed
<1>6. InsertInv'
  BY <1>1, <1>2, <1>3 DEF Acquire, Step, Rest, linkVars, shbVars, IInv, TypeOK,
       ShbInv, InsertInv
<1>7. RemoveInv'
  BY <1>1, <1>2, <1>3 DEF Acquire, Step, Rest, linkVars, shbVars, IInv, TypeOK,
       ShbInv, RemoveInv, SelfLink
<1>8. RecoverInv'
  BY <1>1, <1>2, <1>3 DEF Acquire, Step, Rest, linkVars, shbVars, IInv, TypeOK,
       ShbInv, RecoverInv, Undo
<1>9. PurgeInv'
  BY <1>1, <1>2, <1>3 DEF Acquire, Step, Rest, linkVars, shbVars, IInv, TypeOK,
       ShbInv, InsertInv, RemoveInv, RecoverInv, PurgeInv, SelfLink,
       WindowsClosed
<1>10. ActiveInv'
  BY DEF Acquire, Step, Rest, linkVars, shbVars, IInv, ActiveInv
<1> QED
  BY <1>1, <1>10, <1>4, <1>5, <1>6, <1>7, <1>8, <1>9 DEF IInv

(* Giving back the mutex changes no link. *)
LEMMA ReleaseMutex_Inv ==
    ASSUME IInv, WindowsClosed, ReleaseMutex
    PROVE  IInv'
<1> USE QueueAssumption DEF Srqs, Stages, InsertStages, RemoveStages, RecoverStages
<1>1. TypeOK'
  BY DEF ReleaseMutex, Step, Rest, linkVars, shbVars, IInv, TypeOK, ShbInv,
       InsertInv, RemoveInv, RecoverInv, Undo
<1>2. Forward \in [Srqs -> Srqs] /\ Backward \in [Srqs -> Srqs]
  BY LinksType DEF IInv
<1>3. Forward' = Forward /\ Backward' = Backward
  BY <1>1 DEF ReleaseMutex, Step, Rest, linkVars, shbVars, IInv, TypeOK,
       ShbInv, InsertInv, RemoveInv, RecoverInv, Forward, Backward, Undo
<1>4. WellLinked'
  BY <1>1, <1>2, <1>3 DEF ReleaseMutex, Step, Rest, linkVars, shbVars, IInv,
       TypeOK, WellLinked
<1>5. ShbInv'
  BY <1>1, <1>2, <1>3 DEF ReleaseMutex, Step, Rest, linkVars, shbVars, IInv,
       TypeOK, ShbInv, InsertInv, RemoveInv, RecoverInv, Undo, WindowsClosed
<1>6. InsertInv'
  BY <1>1, <1>2, <1>3 DEF ReleaseMutex, Step, Rest, linkVars, shbVars, IInv,
       TypeOK, ShbInv, InsertInv
<1>7. RemoveInv'
  BY <1>1, <1>2, <1>3 DEF ReleaseMutex, Step, Rest, linkVars, shbVars, IInv,
       TypeOK, ShbInv, RemoveInv, SelfLink
<1>8. RecoverInv'
  BY <1>1, <1>2, <1>3 DEF ReleaseMutex, Step, Rest, linkVars, shbVars, IInv,
       TypeOK, ShbInv, RecoverInv, Undo
<1>9. PurgeInv'
  BY <1>1, <1>2, <1>3 DEF ReleaseMutex, Step, Rest, linkVars, shbVars, IInv,
       TypeOK, ShbInv, InsertInv, RemoveInv, RecoverInv, PurgeInv, SelfLink,
       WindowsClosed
<1>10. ActiveInv'
  BY DEF ReleaseMutex, Step, Rest, linkVars, shbVars, IInv, ActiveInv
<1> QED
  BY <1>1, <1>10, <1>4, <1>5, <1>6, <1>7, <1>8, <1>9 DEF IInv

(* A death changes no link; what it leaves can be removed again. *)
LEMMA Die_Inv ==
    ASSUME IInv, WindowsClosed, Die
    PROVE  IInv'
<1> USE QueueAssumption DEF Srqs, Stages, InsertStages, RemoveStages, RecoverStages
<1>1. TypeOK'
  BY DEF Die, Step, Rest, linkVars, shbVars, IInv, TypeOK, ShbInv, InsertInv,
       RemoveInv, RecoverInv, Undo
<1>2. Forward \in [Srqs -> Srqs] /\ Backward \in [Srqs -> Srqs]
  BY LinksType DEF IInv
<1>3. Forward' = Forward /\ Backward' = Backward
  BY <1>1 DEF Die, Step, Rest, linkVars, shbVars, IInv, TypeOK, ShbInv,
       InsertInv, RemoveInv, RecoverInv, Forward, Backward, Undo
<1>4. WellLinked'
  BY <1>1, <1>2, <1>3 DEF Die, Step, Rest, linkVars, shbVars, IInv, TypeOK,
       WellLinked
<1>5. ShbInv'
  <2>1. pc # "ins_end" /\ pc # "rec_prior" /\ pc # "free"
    BY DEF Die, WindowsClosed
  <2>2. lhb_active_owner
    BY <2>1 DEF IInv, ActiveInv
  <2> QED
    BY <2>1, <2>2 DEF Die, linkVars, shbVars, IInv, ShbInv
<1>6. InsertInv'
  BY <1>1, <1>2, <1>3 DEF Die, Step, Rest, linkVars, shbVars, IInv, TypeOK,
       ShbInv, InsertInv
<1>7. RemoveInv'
  BY <1>1, <1>2, <1>3 DEF Die, Step, Rest, linkVars, shbVars, IInv, TypeOK,
       ShbInv, RemoveInv, SelfLink
<1>8. RecoverInv'
  BY <1>1, <1>2, <1>3 DEF Die, Step, Rest, linkVars, shbVars, IInv, TypeOK,
       ShbInv, RecoverInv, Undo
<1>9. PurgeInv'
  <2>1. purge' = purge \cup ({node} \cap Owned) /\ queued' = queued
    BY DEF Die
  <2>2. \A x : SelfLink(x) => SelfLink(x)'
    BY <1>3 DEF SelfLink
  <2>3. pc' = "free" /\ purge' \subseteq Owned
    BY <2>1 DEF Die, IInv, PurgeInv
  <2>4. node \in Owned => node \in queued \/ SelfLink(node)
    <3> SUFFICES ASSUME node \in Owned
                 PROVE  node \in queued \/ SelfLink(node)
      OBVIOUS
    <3>1. pc \in {"in", "rem_node", "rem_next", "rem_prior", "rem_done"}
      BY DEF Die, WindowsClosed
    <3>2. CASE pc = "in"
      BY <3>2 DEF IInv, PurgeInv
    <3>3. CASE pc = "rem_node"
      BY <3>3 DEF IInv, RemoveInv
    <3>4. CASE pc \in {"rem_next", "rem_prior", "rem_done"}
      BY <3>4 DEF IInv, TypeOK, RemoveInv, SelfLink, Forward, Backward
    <3> QED
      BY <3>1, <3>2, <3>3, <3>4
  <2>5. \A x \in purge : x \in queued \/ SelfLink(x)
    <3> SUFFICES ASSUME NEW x \in purge, x \notin queued, ~ SelfLink(x)
                 PROVE  FALSE
      OBVIOUS
    <3>1. pc \in {"rem_self", "rem_init"} /\ x = node /\ x \in Owned
      BY DEF IInv, PurgeInv
    <3> QED
      BY <3>1 DEF Die, WindowsClosed
  <2> QED
    BY <2>1, <2>2, <2>3, <2>4, <2>5 DEF PurgeInv
<1>10. ActiveInv'
  BY DEF Die, Step, Rest, linkVars, shbVars, IInv, ActiveInv
<1> QED
  BY <1>1, <1>10, <1>4, <1>5, <1>6, <1>7, <1>8, <1>9 DEF IInv

(* An unfinished removal is started again, an insertion is undone. *)
LEMMA Recover_Inv ==
    ASSUME IInv, WindowsClosed, Recover
    PROVE  IInv'
<1> USE QueueAssumption DEF Srqs, Stages, InsertStages, RemoveStages, RecoverStages
<1>1. TypeOK'
  BY DEF Recover, InsertUnfinished, Step, Rest, linkVars, shbVars, IInv,
       TypeOK, ShbInv, InsertInv, RemoveInv, RecoverInv, Undo
<1>2. Forward \in [Srqs -> Srqs] /\ Backward \in [Srqs -> Srqs]
  BY LinksType DEF IInv
<1>3. Forward' = Forward /\ Backward' = Backward
  BY <1>1 DEF Recover, InsertUnfinished, Step, Rest, linkVars, shbVars, IInv,
       TypeOK, ShbInv, InsertInv, RemoveInv, RecoverInv, Forward, Backward,
       Undo
<1>4. WellLinked'
  BY <1>1, <1>2, <1>3 DEF Recover, InsertUnfinished, Step, Rest, linkVars,
       shbVars, IInv, TypeOK, WellLinked
<1>5. ShbInv'
  BY <1>1, <1>2, <1>3 DEF Recover, InsertUnfinished, Step, Rest, linkVars,
       shbVars, IInv, TypeOK, ShbInv, InsertInv, RemoveInv, RecoverInv, Undo,
       WindowsClosed
<1>6. InsertInv'
  BY <1>1, <1>2, <1>3 DEF Recover, InsertUnfinished, Step, Rest, linkVars,
       shbVars, IInv, TypeOK, ShbInv, InsertInv
<1>7. RemoveInv'
  <2>1. CASE shb_remove_node # NoSrq
    <3>1. pc' = "rem_node" /\ node' = shb_remove_node /\ shb_remove_node' = shb_remove_node /\ node' \in Nodes
      BY <2>1 DEF Recover, shbVars, IInv, TypeOK
    <3>2. Forward[shb_remove_node] = shb_remove_node /\ Backward[shb_remove_node] = shb_remove_node
      BY <2>1 DEF Forward, Backward, IInv, TypeOK
    <3>3. SelfLink(node)'
      BY <3>1, <3>2, <1>3 DEF SelfLink
    <3> QED
      BY <3>1, <3>3 DEF RemoveInv
  <2>2. CASE shb_remove_node = NoSrq
    BY <2>2 DEF Recover, RemoveInv
  <2> QED
    BY <2>1, <2>2
<1>8. RecoverInv'
  BY <1>1, <1>2, <1>3 DEF Recover, InsertUnfinished, Step, Rest, linkVars,
       shbVars, IInv, TypeOK, ShbInv, RecoverInv, Undo
<1>9. PurgeInv'
  BY <1>1, <1>2, <1>3 DEF Recover, InsertUnfinished, Step, Rest, linkVars,
       shbVars, IInv, TypeOK, ShbInv, InsertInv, RemoveInv, RecoverInv,
       PurgeInv, SelfLink, WindowsClosed
<1>10. ActiveInv'
  BY DEF Recover, InsertUnfinished, Step, Rest, linkVars, shbVars, IInv,
       ActiveInv
<1> QED
  BY <1>1, <1>10, <1>4, <1>5, <1>6, <1>7, <1>8, <1>9 DEF IInv

(* The first store of the undoing. *)
LEMMA RecoverTail_Inv ==
    ASSUME IInv, WindowsClosed, RecoverTail
    PROVE  IInv'
<1> USE QueueAssumption DEF Srqs, Stages, InsertStages, RemoveStages, RecoverStages
<1>1. TypeOK'
  BY DEF RecoverTail, Step, Rest, linkVars, shbVars, IInv, TypeOK, ShbInv,
       InsertInv, RemoveInv, RecoverInv, Undo
<1>2. Forward \in [Srqs -> Srqs] /\ Backward \in [Srqs -> Srqs]
  BY LinksType DEF IInv
<1>3. \A x \in Srqs : Forward'[x] = Forward[x] /\ Backward'[x] = Backward[x]
  <2>1. Undo /\ Undo' /\ shb_insert_que \in Heads /\ shb_insert_prior \in Srqs
    BY DEF RecoverTail, Step, shbVars, IInv, TypeOK, RecoverInv, Undo
  <2>2. shb_remove_node = NoSrq /\ shb_remove_node' = NoSrq
    BY <2>1 DEF Undo
  <2> QED
    BY <2>1, <2>2 DEF RecoverTail, shbVars, Forward, Backward, IInv, TypeOK
<1>4. WellLinked'
  BY <1>1, <1>2, <1>3 DEF RecoverTail, Step, Rest, linkVars, shbVars, IInv,
       TypeOK, WellLinked
<1>5. ShbInv'
  BY <1>1, <1>2, <1>3 DEF RecoverTail, Step, Rest, linkVars, shbVars, IInv,
       TypeOK, ShbInv, InsertInv, RemoveInv, RecoverInv, Undo, WindowsClosed
<1>6. InsertInv'
  BY <1>1, <1>2, <1>3 DEF RecoverTail, Step, Rest, linkVars, shbVars, IInv,
       TypeOK, ShbInv, InsertInv
<1>7. RemoveInv'
  BY <1>1, <1>2, <1>3 DEF RecoverTail, Step, Rest, linkVars, shbVars, IInv,
       TypeOK, ShbInv, RemoveInv, SelfLink
<1>8. RecoverInv'
  BY <1>1, <1>2, <1>3 DEF RecoverTail, Step, Rest, linkVars, shbVars, IInv,
       TypeOK, ShbInv, RecoverInv, Undo
<1>9. PurgeInv'
  BY <1>1, <1>2, <1>3 DEF RecoverTail, Step, Rest, linkVars, shbVars, IInv,
       TypeOK, ShbInv, InsertInv, RemoveInv, RecoverInv, PurgeInv, SelfLink,
       WindowsClosed
<1>10. ActiveInv'
  BY DEF RecoverTail, Step, Rest, linkVars, shbVars, IInv, ActiveInv
<1> QED
  BY <1>1, <1>10, <1>4, <1>5, <1>6, <1>7, <1>8, <1>9 DEF IInv

(* The second store of the undoing. *)
LEMMA RecoverLink_Inv ==
    ASSUME IInv, WindowsClosed, RecoverLink
    PROVE  IInv'
<1> USE QueueAssumption DEF Srqs, Stages, InsertStages, RemoveStages, RecoverStages
<1>1. TypeOK'
  BY DEF RecoverLink, Step, Rest, linkVars, shbVars, IInv, TypeOK, ShbInv,
       InsertInv, RemoveInv, RecoverInv, Undo
<1>2. Forward \in [Srqs -> Srqs] /\ Backward \in [Srqs -> Srqs]
  BY LinksType DEF IInv
<1>3. \A x \in Srqs : Forward'[x] = Forward[x] /\ Backward'[x] = Backward[x]
  <2>1. Undo /\ Undo' /\ shb_insert_que \in Heads /\ shb_insert_prior \in Srqs
    BY DEF RecoverLink, Step, shbVars, IInv, TypeOK, RecoverInv, Undo
  <2>2. shb_remove_node = NoSrq /\ shb_remove_node' = NoSrq
    BY <2>1 DEF Undo
  <2> QED
    BY <2>1, <2>2 DEF RecoverLink, shbVars, Forward, Backward, IInv, TypeOK
<1>4. WellLinked'
  BY <1>1, <1>2, <1>3 DEF RecoverLink, Step, Rest, linkVars, shbVars, IInv,
       TypeOK, WellLinked
<1>5. ShbInv'
  BY <1>1, <1>2, <1>3 DEF RecoverLink, Step, Rest, linkVars, shbVars, IInv,
       TypeOK, ShbInv, InsertInv, RemoveInv, RecoverInv, Undo, WindowsClosed
<1>6. InsertInv'
  BY <1>1, <1>2, <1>3 DEF RecoverLink, Step, Rest, linkVars, shbVars, IInv,
       TypeOK, ShbInv, InsertInv
<1>7. RemoveInv'
  BY <1>1, <1>2, <1>3 DEF RecoverLink, Step, Rest, linkVars, shbVars, IInv,
       TypeOK, ShbInv, RemoveInv, SelfLink
<1>8. RecoverInv'
  BY <1>1, <1>2, <1>3 DEF RecoverLink, Step, Rest, linkVars, shbVars, IInv,
       TypeOK, ShbInv, RecoverInv, Undo
<1>9. PurgeInv'
  BY <1>1, <1>2, <1>3 DEF RecoverLink, Step, Rest, linkVars, shbVars, IInv,
       TypeOK, ShbInv, InsertInv, RemoveInv, RecoverInv, PurgeInv, SelfLink,
       WindowsClosed
<1>10. ActiveInv'
  BY DEF RecoverLink, Step, Rest, linkVars, shbVars, IInv, ActiveInv
<1> QED
  BY <1>1, <1>10, <1>4, <1>5, <1>6, <1>7, <1>8, <1>9 DEF IInv

(* The insertion is undone. *)
LEMMA RecoverQue_Inv ==
    ASSUME IInv, WindowsClosed, RecoverQue
    PROVE  IInv'
<1> USE QueueAssumption DEF Srqs, Stages, InsertStages, RemoveStages, RecoverStages
<1>1. TypeOK'
  BY DEF RecoverQue, Step, Rest, linkVars, shbVars, IInv, TypeOK, ShbInv,
       InsertInv, RemoveInv, RecoverInv, Undo
<1>2. Forward \in [Srqs -> Srqs] /\ Backward \in [Srqs -> Srqs]
  BY LinksType DEF IInv
<1>3. Forward' = Forward /\ Backward' = Backward
  BY <1>1 DEF RecoverQue, Step, Rest, linkVars, shbVars, IInv, TypeOK, ShbInv,
       InsertInv, RemoveInv, RecoverInv, Forward, Backward, Undo
<1>4. WellLinked'
  BY <1>1, <1>2, <1>3 DEF RecoverQue, Step, Rest, linkVars, shbVars, IInv,
       TypeOK, WellLinked
<1>5. ShbInv'
  BY <1>1, <1>2, <1>3 DEF RecoverQue, Step, Rest, linkVars, shbVars, IInv,
       TypeOK, ShbInv, InsertInv, RemoveInv, RecoverInv, Undo, WindowsClosed
<1>6. InsertInv'
  BY <1>1, <1>2, <1>3 DEF RecoverQue, Step, Rest, linkVars, shbVars, IInv,
       TypeOK, ShbInv, InsertInv
<1>7. RemoveInv'
  BY <1>1, <1>2, <1>3 DEF RecoverQue, Step, Rest, linkVars, shbVars, IInv,
       TypeOK, ShbInv, RemoveInv, SelfLink
<1>8. RecoverInv'
  BY <1>1, <1>2, <1>3 DEF RecoverQue, Step, Rest, linkVars, shbVars, IInv,
       TypeOK, ShbInv, RecoverInv, Undo
<1>9. PurgeInv'
  BY <1>1, <1>2, <1>3 DEF RecoverQue, Step, Rest, linkVars, shbVars, IInv,
       TypeOK, ShbInv, InsertInv, RemoveInv, RecoverInv, PurgeInv, SelfLink,
       WindowsClosed
<1>10. ActiveInv'
  BY DEF RecoverQue, Step, Rest, linkVars, shbVars, IInv, ActiveInv
<1> QED
  BY <1>1, <1>10, <1>4, <1>5, <1>6, <1>7, <1>8, <1>9 DEF IInv

(* The recovery data is reset. *)
LEMMA RecoverPrior_Inv ==
    ASSUME IInv, WindowsClosed, RecoverPrior
    PROVE  IInv'
<1> USE QueueAssumption DEF Srqs, Stages, InsertStages, RemoveStages, RecoverStages
<1>1. TypeOK'
  BY DEF RecoverPrior, Step, Rest, linkVars, shbVars, IInv, TypeOK, ShbInv,
       InsertInv, RemoveInv, RecoverInv, Undo
<1>2. Forward \in [Srqs -> Srqs] /\ Backward \in [Srqs -> Srqs]
  BY LinksType DEF IInv
<1>3. Forward' = Forward /\ Backward' = Backward
  BY <1>1 DEF RecoverPrior, Step, Rest, linkVars, shbVars, IInv, TypeOK,
       ShbInv, InsertInv, RemoveInv, RecoverInv, Forward, Backward, Undo
<1>4. WellLinked'
  BY <1>1, <1>2, <1>3 DEF RecoverPrior, Step, Rest, linkVars, shbVars, IInv,
       TypeOK, WellLinked
<1>5. ShbInv'
  BY <1>1, <1>2, <1>3 DEF RecoverPrior, Step, Rest, linkVars, shbVars, IInv,
       TypeOK, ShbInv, InsertInv, RemoveInv, RecoverInv, Undo, WindowsClosed
<1>6. InsertInv'
  BY <1>1, <1>2, <1>3 DEF RecoverPrior, Step, Rest, linkVars, shbVars, IInv,
       TypeOK, ShbInv, InsertInv
<1>7. RemoveInv'
  BY <1>1, <1>2, <1>3 DEF RecoverPrior, Step, Rest, linkVars, shbVars, IInv,
       TypeOK, ShbInv, RemoveInv, SelfLink
<1>8. RecoverInv'
  BY <1>1, <1>2, <1>3 DEF RecoverPrior, Step, Rest, linkVars, shbVars, IInv,
       TypeOK, ShbInv, RecoverInv, Undo
<1>9. PurgeInv'
  BY <1>1, <1>2, <1>3 DEF RecoverPrior, Step, Rest, linkVars, shbVars, IInv,
       TypeOK, ShbInv, InsertInv, RemoveInv, RecoverInv, PurgeInv, SelfLink,
       WindowsClosed
<1>10. ActiveInv'
  BY DEF RecoverPrior, Step, Rest, linkVars, shbVars, IInv, ActiveInv
<1> QED
  BY <1>1, <1>10, <1>4, <1>5, <1>6, <1>7, <1>8, <1>9 DEF IInv

(* The initial queues are empty and no work is unfinished. *)
LEMMA InitIInv == Init => IInv
<1> SUFFICES ASSUME Init PROVE IInv
  OBVIOUS
<1> USE QueueAssumption DEF Init, Stages, InsertStages, RemoveStages, RecoverStages
<1>1. Forward = [x \in Srqs |-> x] /\ Backward = [x \in Srqs |-> x]
  BY DEF Forward, Backward, Undo
<1>2. TypeOK
  <2>1. srq_forward \in [Srqs -> Srqs] /\ srq_backward \in [Srqs -> Srqs]
    OBVIOUS
  <2>2. crashes \in 0 .. MaxCrashes
    OBVIOUS
  <2>3. queued \in SUBSET Nodes /\ purge \in SUBSET Nodes
    OBVIOUS
  <2> QED
    BY <2>1, <2>2, <2>3 DEF TypeOK
<1>3. WellLinked
  BY <1>1 DEF WellLinked, Srqs
<1>4. ShbInv /\ ActiveInv /\ PurgeInv
  BY DEF ShbInv, ActiveInv, PurgeInv
<1>5. InsertInv /\ RemoveInv /\ RecoverInv
  BY DEF InsertInv, RemoveInv, RecoverInv
<1> QED
  BY <1>2, <1>3, <1>4, <1>5 DEF IInv

(* The invariant only depends on the variables. *)
LEMMA StutterIInv == IInv /\ UNCHANGED vars => IInv'
<1> SUFFICES ASSUME IInv, UNCHANGED vars PROVE IInv'
  OBVIOUS
<1> USE DEF IInv, vars, linkVars, shbVars
<1>1. Forward' = Forward /\ Backward' = Backward
  BY DEF Forward, Backward, Undo
<1>2. TypeOK' /\ ShbInv' /\ ActiveInv'
  BY DEF TypeOK, ShbInv, ActiveInv
<1>3. WellLinked'
  BY <1>1 DEF WellLinked
<1>4. InsertInv' /\ RecoverInv'
  BY DEF InsertInv, RecoverInv, Undo
<1>5. RemoveInv' /\ PurgeInv'
  BY <1>1 DEF RemoveInv, PurgeInv, SelfLink
<1> QED
  BY <1>2, <1>3, <1>4, <1>5

(* Every step preserves the invariant. *)
LEMMA NextIInv == ASSUME WindowsClosed PROVE IInv /\ [Next]_vars => IInv'
<1> SUFFICES ASSUME IInv, [Next]_vars PROVE IInv'
  OBVIOUS
<1>1. CASE UNCHANGED vars
  BY <1>1, StutterIInv
<1>2. CASE \E n \in Nodes : (\E h \in Heads : InsertTail(h, n)) \/ RemoveQue(n) \/ RemoveAgain(n)
  BY <1>2, InsertTail_Inv, RemoveQue_Inv, RemoveAgain_Inv
<1>3. CASE InsertQue \/ InsertPrior \/ InsertForward \/ InsertBackward \/ InsertLink \/ InsertLast \/ InsertDone \/ InsertEnd
  BY <1>3, InsertQue_Inv, InsertPrior_Inv, InsertForward_Inv,
       InsertBackward_Inv, InsertLink_Inv, InsertLast_Inv, InsertDone_Inv,
       InsertEnd_Inv
<1>4. CASE RemoveNode \/ RemoveNext \/ RemovePrior \/ RemoveDone \/ RemoveSelf \/ RemoveInit
  BY <1>4, RemoveNode_Inv, RemoveNext_Inv, RemovePrior_Inv, RemoveDone_Inv,
       RemoveSelf_Inv, RemoveInit_Inv
<1>5. CASE Acquire \/ ReleaseMutex \/ Die \/ Recover \/ RecoverTail \/ RecoverLink \/ RecoverQue \/ RecoverPrior
  BY <1>5, Acquire_Inv, ReleaseMutex_Inv, Die_Inv, Recover_Inv,
       RecoverTail_Inv, RecoverLink_Inv, RecoverQue_Inv, RecoverPrior_Inv
<1> QED
  BY <1>1, <1>2, <1>3, <1>4, <1>5 DEF Next

(* insert_tail, remove_que and acquire() keep the inductive invariant, for *)
(* any number of headers, nodes and deaths.                                *)
THEOREM QueueInvariance == ASSUME WindowsClosed PROVE Spec => []IInv
<1>1. IInv /\ [Next]_vars => IInv'
  BY NextIInv
<1> QED
  BY <1>1, InitIInv, PTL DEF Spec

(* Whatever store a process dies before, outside the windows, the next     *)
(* process into the table finds or restores well-formed queues.            *)
THEOREM QueuesStayLinked == ASSUME WindowsClosed PROVE Spec => []WellLinked
<1>1. IInv => WellLinked
  BY DEF IInv
<1> QED
  BY <1>1, QueueInvariance, PTL
=============================================================================

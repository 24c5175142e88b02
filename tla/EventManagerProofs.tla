------------------------- MODULE EventManagerProofs -------------------------
(***************************************************************************)
(* What EventManager checks on small tables, proved for every number of    *)
(* processes, sessions, events and requests: the types, that event blocks  *)
(* are exact, that counts are, and that no wakeup is lost.                 *)
(*                                                                         *)
(* The inductive invariant is IInv of EventManager.  BlocksExact alone is  *)
(* not inductive: a call may find its session gone, so CallsFit says that  *)
(* nobody but its own process touches it.  ExactCounts needs CountsKept:   *)
(* an event is not forgotten because the session itself has an interest in *)
(* it, and not because some session has.  NoLostWakeup needs to know that  *)
(* a process whose count is up has still to release the table.             *)
(*                                                                         *)
(* First the ways the table changes (TableInv), then one lemma for each    *)
(* action, then the theorems.                                              *)
(***************************************************************************)
EXTENDS EventManager, FiniteSetTheorems, WellFoundedInduction, TLAPS

(* The types of the table with its history, and of the threads. *)
Flags == [wakeup : BOOLEAN, pending : BOOLEAN]
TableType ==
    /\ PartialFcn(evh_events, Event, Nat)
    /\ PartialFcn(evh_majors, Major, Int)
    /\ evh_request_id \in Nat
    /\ DOMAIN requests \subseteq 1 .. evh_request_id
    /\ \A r \in DOMAIN requests :
          requests[r].ses \in Session /\ PartialFcn(requests[r].need, Event, Nat)
    /\ PartialFcn(ses_interests, Session, SUBSET Event)
    /\ PartialFcn(evh_processes, Proc, Flags)
    /\ told \in [Session -> [Event -> Nat]]
    /\ posted \in [Event -> Nat] /\ seen \in [Session -> [Event -> Nat]]

ThreadType ==
    /\ mutex \in Proc \cup {NoProc}
    /\ alive \subseteq Proc
    /\ acquire_count \in [Proc -> 0 .. 1]
    /\ at \in [Proc -> {"run", "acquire", "release"}]
    /\ op \in [Proc -> Ops]
    /\ signalled \in [Proc -> BOOLEAN]
    /\ handler \in [Proc -> {"none", "acquire", "release", "ast"}]
    /\ scan \in [Proc -> Session \cup {0}]

TableInv == TableType /\ BlocksExact /\ CountsKept

(* A set of naturals that is not empty has a least element. *)
LEMMA LeastNat ==
    ASSUME NEW T \in SUBSET Nat, T # {}
    PROVE  Least(T) \in T /\ \A y \in T : Least(T) <= y
<1> DEFINE R == OpToRel(<, Nat)
<1>1. IsWellFoundedOn(R, Nat)
  BY NatLessThanWellFounded
<1>2. \A x, y \in Nat : x < y => <<x, y>> \in R
  BY DEF OpToRel
<1> HIDE DEF R
<1>3. PICK x \in T : \A y \in T : ~ (<<y, x>> \in R)
  BY <1>1, WFMin
<1>4. \A y \in T : ~ (y < x)
  BY <1>2, <1>3
<1>5. \A y \in T : x <= y
  BY <1>4
<1> QED
  BY <1>5 DEF Least

(* The forms of what a process does next. *)
LEMMA OpForms ==
    ASSUME NEW o \in Ops
    PROVE  /\ o.kind \in {"create_process", "create_session", "que"} =>
                /\ o.ses \in Session /\ o.events \in EventBlocks
                /\ \A k \in {"create_session", "que"} :
                      LET n == [o EXCEPT !.kind = k]
                      IN  n \in Ops /\ n.kind = k /\ n.ses = o.ses
           /\ o.kind = "delete_session" => o.ses \in Session
           /\ o.kind = "post" =>
                /\ o.events \in SUBSET Event /\ o.count \in Counts
                /\ \A rest \in SUBSET Event :
                      LET n == [o EXCEPT !.events = rest]
                      IN  n \in Ops /\ n.kind = "post"
           /\ o.kind = "kill" => o.proc \in Proc
BY DEF Ops

(* The calls a process may make have their type. *)
LEMMA CallForms ==
    /\ \A k \in {"none", "reacquire", "deliver", "exit", "exited"} : [kind |-> k] \in Ops
    /\ \A k \in {"create_process", "create_session", "que"}, s \in Session, b \in EventBlocks :
          [kind |-> k, ses |-> s, events |-> b] \in Ops
    /\ \A s \in Session : [kind |-> "delete_session", ses |-> s] \in Ops
    /\ \A r \in RequestIds : [kind |-> "cancel", req |-> r] \in Ops
    /\ \A E \in SUBSET Event, n \in Counts : [kind |-> "post", events |-> E, count |-> n] \in Ops
    /\ \A q \in Proc : [kind |-> "kill", proc |-> q] \in Ops
BY DEF Ops

(* The events under one major event can be counted. *)
LEMMA MajorFinite ==
    ASSUME NEW S \in SUBSET Event, NEW m
    PROVE  /\ IsFiniteSet(OfMajor(S, m)) /\ Cardinality(OfMajor(S, m)) \in Nat
           /\ Cardinality(OfMajor(S, m)) = 0 <=> OfMajor(S, m) = {}
<1>1. IsFiniteSet(Event)
  BY EventAssumption
<1>2. OfMajor(S, m) \in SUBSET Event
  BY DEF OfMajor
<1>3. IsFiniteSet(OfMajor(S, m))
  BY <1>1, <1>2, FS_Subset
<1> QED
  BY <1>3, FS_CardinalityType, FS_EmptySet

(* Disjoint sets of events are counted apart. *)
LEMMA MajorSum ==
    ASSUME NEW S \in SUBSET Event, NEW T \in SUBSET Event, S \cap T = {}, NEW m
    PROVE  Cardinality(OfMajor(S \cup T, m))
             = Cardinality(OfMajor(S, m)) + Cardinality(OfMajor(T, m))
<1> DEFINE A == OfMajor(S, m)
           B == OfMajor(T, m)
<1>1. OfMajor(S \cup T, m) = A \cup B /\ A \cap B = {}
  BY DEF OfMajor
<1>2. /\ IsFiniteSet(A) /\ Cardinality(A) \in Nat
      /\ IsFiniteSet(B) /\ Cardinality(B) \in Nat
  BY MajorFinite
<1> HIDE DEF A, B
<1>3. Cardinality(A \cup B) = Cardinality(A) + Cardinality(B) - Cardinality(A \cap B)
  BY <1>2, FS_Union
<1>4. Cardinality(A \cap B) = 0
  BY <1>1, FS_EmptySet
<1>5. Cardinality(OfMajor(S \cup T, m)) = Cardinality(A \cup B)
  BY <1>1, Zenon
<1>6. Cardinality(OfMajor(S \cup T, m)) = Cardinality(A) + Cardinality(B)
  BY <1>2, <1>3, <1>4, <1>5
<1> QED
  BY <1>6 DEF A, B

-----------------------------------------------------------------------------
(* The table. *)

(* Major events are exact. *)
MajorsExact ==
    /\ DOMAIN evh_majors = {Parent[e] : e \in DOMAIN evh_events}
    /\ \A m \in DOMAIN evh_majors :
          evh_majors[m] = Cardinality(OfMajor(DOMAIN evh_events, m))

(* delete_event() keeps the count of the database's events, and takes the  *)
(* database with the last of them.                                         *)
LEMMA DeleteEvents ==
    ASSUME TableType, MajorsExact, NEW dead \in SUBSET DOMAIN evh_events,
           delete_events(dead)
    PROVE  /\ DOMAIN evh_events' = DOMAIN evh_events \ dead
           /\ \A e \in DOMAIN evh_events' : evh_events'[e] = evh_events[e]
           /\ PartialFcn(evh_events, Event, Nat)' /\ PartialFcn(evh_majors, Major, Int)'
           /\ MajorsExact'
<1> DEFINE D == DOMAIN evh_events
           left(m) == evh_majors[m] - Cardinality(OfMajor(dead, m))
           M == {n \in DOMAIN evh_majors : OfMajor(dead, n) = {} \/ left(n) # 0}
<1>1. /\ evh_events' = [e \in D \ dead |-> evh_events[e]]
      /\ evh_majors' = [m \in M |-> left(m)]
  BY DEF delete_events, Without
<1>2. D \in SUBSET Event /\ DOMAIN evh_majors \in SUBSET Major
  BY DEF TableType, PartialFcn
<1>3. ASSUME NEW m \in DOMAIN evh_majors
      PROVE  /\ left(m) = Cardinality(OfMajor(D \ dead, m)) /\ left(m) \in Nat
             /\ m \in M <=> OfMajor(D \ dead, m) # {}
  <2>1. evh_majors[m] = Cardinality(OfMajor(D, m))
    BY DEF MajorsExact
  <2>2. Cardinality(OfMajor(D \ dead, m)) = left(m)
    <3>1. (D \ dead) \cup dead = D /\ (D \ dead) \cap dead = {}
      OBVIOUS
    <3>2. D \ dead \in SUBSET Event /\ dead \in SUBSET Event
      BY <1>2
    <3>3. /\ Cardinality(OfMajor(D \ dead, m)) \in Nat
          /\ Cardinality(OfMajor(dead, m)) \in Nat
      BY <3>2, MajorFinite
    <3>4. Cardinality(OfMajor((D \ dead) \cup dead, m))
            = Cardinality(OfMajor(D \ dead, m)) + Cardinality(OfMajor(dead, m))
      BY <3>1, <3>2, MajorSum
    <3> QED
      BY <2>1, <3>1, <3>3, <3>4
  <2>3. /\ Cardinality(OfMajor(D \ dead, m)) \in Nat
        /\ Cardinality(OfMajor(D \ dead, m)) = 0 <=> OfMajor(D \ dead, m) = {}
    BY <1>2, MajorFinite
  <2>4. \E e \in D : Parent[e] = m
    BY DEF MajorsExact
  <2>5. OfMajor(dead, m) = {} => OfMajor(D \ dead, m) # {}
    BY <2>4 DEF OfMajor
  <2> HIDE DEF left
  <2>6. m \in M <=> OfMajor(D \ dead, m) # {}
    BY <2>2, <2>3, <2>5
  <2> QED
    BY <2>2, <2>3, <2>6
<1>4. DOMAIN evh_events' = D \ dead /\ DOMAIN evh_majors' = M
  BY <1>1
<1>5. \A e \in D \ dead : evh_events'[e] = evh_events[e]
  BY <1>1
<1>6. M = {Parent[e] : e \in D \ dead}
  <2>1. ASSUME NEW e \in D \ dead PROVE Parent[e] \in M
    <3>1. Parent[e] \in DOMAIN evh_majors
      BY DEF MajorsExact
    <3>2. e \in OfMajor(D \ dead, Parent[e])
      BY DEF OfMajor
    <3> QED
      BY <1>3, <3>1, <3>2
  <2>2. ASSUME NEW m \in M PROVE \E e \in D \ dead : m = Parent[e]
    BY <1>3 DEF OfMajor
  <2> QED
    BY <2>1, <2>2
<1>7. ASSUME NEW m \in M
      PROVE  evh_majors'[m] = Cardinality(OfMajor(D \ dead, m)) /\ evh_majors'[m] \in Int
  <2>1. evh_majors'[m] = left(m)
    BY <1>1
  <2> QED
    BY <1>3, <2>1
<1>8. PartialFcn(evh_events, Event, Nat)'
  BY <1>1, <1>2, <1>4 DEF TableType, PartialFcn
<1>9. PartialFcn(evh_majors, Major, Int)'
  BY <1>1, <1>2, <1>3, <1>4 DEF PartialFcn
<1> QED
  BY <1>4, <1>5, <1>6, <1>7, <1>8, <1>9 DEF MajorsExact

(* make_event() counts the new events under their databases. *)
LEMMA MakeEvents ==
    ASSUME TableType, MajorsExact, NEW new \in SUBSET Event,
           new \cap DOMAIN evh_events = {}, make_events(new)
    PROVE  /\ DOMAIN evh_events' = DOMAIN evh_events \cup new
           /\ \A e \in DOMAIN evh_events : evh_events'[e] = evh_events[e]
           /\ \A e \in new : evh_events'[e] = 0
           /\ PartialFcn(evh_events, Event, Nat)' /\ PartialFcn(evh_majors, Major, Int)'
           /\ MajorsExact'
<1> DEFINE D == DOMAIN evh_events
           DM == DOMAIN evh_majors
           M == DM \cup {Parent[e] : e \in new}
           count(m) == (IF m \in DM THEN evh_majors[m] ELSE 0) + Cardinality(OfMajor(new, m))
<1>1. /\ evh_events' = [e \in D \cup new |-> IF e \in new THEN 0 ELSE evh_events[e]]
      /\ evh_majors' = [m \in M |-> count(m)]
  BY DEF make_events
<1>2. D \in SUBSET Event /\ DM \in SUBSET Major
  BY DEF TableType, PartialFcn
<1>3. ASSUME NEW m \in M
      PROVE  count(m) = Cardinality(OfMajor(D \cup new, m)) /\ count(m) \in Nat
  <2>1. (IF m \in DM THEN evh_majors[m] ELSE 0) = Cardinality(OfMajor(D, m))
    <3>1. CASE m \in DM
      BY <3>1 DEF MajorsExact
    <3>2. CASE m \notin DM
      <4>1. OfMajor(D, m) = {}
        BY <3>2 DEF MajorsExact, OfMajor
      <4> QED
        BY <1>2, <3>2, <4>1, MajorFinite
    <3> QED
      BY <3>1, <3>2
  <2>2. Cardinality(OfMajor(D, m)) \in Nat /\ Cardinality(OfMajor(new, m)) \in Nat
    BY <1>2, MajorFinite
  <2>3. D \in SUBSET Event /\ D \cap new = {}
    BY <1>2
  <2> HIDE DEF D, DM
  <2>4. Cardinality(OfMajor(D \cup new, m))
          = Cardinality(OfMajor(D, m)) + Cardinality(OfMajor(new, m))
    BY <2>3, MajorSum
  <2> QED
    BY <2>1, <2>2, <2>4
<1> HIDE DEF count
<1>4. DOMAIN evh_events' = D \cup new /\ DOMAIN evh_majors' = M
  BY <1>1
<1>5. M = {Parent[e] : e \in D \cup new}
  BY DEF MajorsExact
<1>6. M \in SUBSET Major
  BY <1>2, EventAssumption
<1>7. PartialFcn(evh_events, Event, Nat)'
  BY <1>1, <1>2, <1>4 DEF TableType, PartialFcn
<1>8. PartialFcn(evh_majors, Major, Int)'
  BY <1>1, <1>3, <1>4, <1>6 DEF PartialFcn
<1>9. \A m \in M : evh_majors'[m] = Cardinality(OfMajor(D \cup new, m))
  BY <1>1, <1>3
<1> QED
  BY <1>1, <1>4, <1>5, <1>7, <1>8, <1>9 DEF MajorsExact

(* BlocksExact in parts, before and after a step. *)
LEMMA BlocksParts ==
    BlocksExact <=>
       /\ MajorsExact
       /\ DOMAIN evh_events = {e \in Event : Interested(e, {})}
       /\ \A r \in DOMAIN requests : requests[r].ses \in sessions
       /\ \A s \in sessions : Owner[s] \in DOMAIN evh_processes
BY DEF BlocksExact, MajorsExact

LEMMA BlocksPartsPrime ==
    BlocksExact' <=>
       /\ MajorsExact'
       /\ DOMAIN evh_events' = {e \in Event : Interested(e, {})'}
       /\ \A r \in DOMAIN requests' : requests'[r].ses \in sessions'
       /\ \A s \in sessions' : Owner[s] \in DOMAIN evh_processes'
BY DEF BlocksExact, MajorsExact

(* Somebody is interested in an event exactly if some session knows it. *)
LEMMA InterestedKnows ==
    ASSUME TableInv, NEW e \in Event
    PROVE  Interested(e, {}) <=> \E s \in sessions : Knows(s, e)
BY DEF TableInv, BlocksExact, Interested, Knows, HistoryOf, RequestsOf, sessions

(* delete_session(): what is left knows what it knew. *)
LEMMA DeleteSessions ==
    ASSUME TableInv, NEW gone \in SUBSET sessions, delete_sessions(gone),
           evh_request_id' = evh_request_id,
           PartialFcn(evh_processes, Proc, Flags)',
           \A s \in sessions \ gone : Owner[s] \in DOMAIN evh_processes'
    PROVE  /\ TableInv'
           /\ sessions' = sessions \ gone
           /\ \A r \in DOMAIN requests' :
                 /\ r \in DOMAIN requests /\ requests'[r] = requests[r]
                 /\ requests[r].ses \notin gone
                 /\ request_completed(r)' <=> request_completed(r)
<1> DEFINE R == {r \in DOMAIN requests : requests[r].ses \notin gone}
           D == DOMAIN evh_events
<1>1. /\ ses_interests' = [s \in sessions \ gone |-> ses_interests[s]]
      /\ sessions' = sessions \ gone
  BY DEF delete_sessions, Without, sessions
<1>2. DOMAIN requests' = R /\ \A r \in R : requests'[r] = requests[r]
  <2>1. \A r \in DOMAIN requests :
           r \in UNION {RequestsOf(s) : s \in gone} <=> requests[r].ses \in gone
    BY DEF RequestsOf
  <2> QED
    BY <2>1 DEF delete_sessions, Without
<1>3. ASSUME NEW e \in Event
      PROVE  Interested(e, {})' <=> Interested(e, gone)
  BY <1>1, <1>2 DEF Interested, Events, sessions
<1>4. D = {e \in Event : Interested(e, {})} /\ MajorsExact
  BY BlocksParts DEF TableInv
<1>5. ASSUME NEW e \in Event
      PROVE  e \in Unloved(gone) <=> e \in D /\ ~ Interested(e, gone)
  <2>1. ASSUME NEW s \in gone, e \in HistoryOf(s) PROVE Interested(e, {})
    BY <2>1 DEF HistoryOf, RequestsOf, Interested, sessions
  <2>2. ASSUME Interested(e, {}), ~ Interested(e, gone)
        PROVE  \E s \in gone : e \in HistoryOf(s)
    BY <2>2 DEF HistoryOf, RequestsOf, Interested, sessions
  <2> QED
    BY <1>4, <2>1, <2>2 DEF Unloved
<1>6. Unloved(gone) \in SUBSET D
  <2>1. \A s \in gone : HistoryOf(s) \subseteq Event
    BY DEF TableInv, TableType, PartialFcn, HistoryOf, RequestsOf, Events, sessions
  <2> QED
    BY <1>5, <2>1 DEF Unloved
<1>7. /\ DOMAIN evh_events' = D \ Unloved(gone)
      /\ \A e \in DOMAIN evh_events' : evh_events'[e] = evh_events[e]
      /\ PartialFcn(evh_events, Event, Nat)' /\ PartialFcn(evh_majors, Major, Int)'
      /\ MajorsExact'
  BY <1>4, <1>6, DeleteEvents DEF TableInv, delete_sessions
<1>8. DOMAIN evh_events' = {e \in Event : Interested(e, {})'}
  <2>1. \A e \in Event : Interested(e, gone) => Interested(e, {})
    BY DEF Interested
  <2> QED
    BY <1>3, <1>4, <1>5, <1>7, <2>1
<1>9. BlocksExact'
  <2>1. \A r \in DOMAIN requests' : requests'[r].ses \in sessions'
    BY <1>1, <1>2 DEF TableInv, BlocksExact
  <2>2. \A s \in sessions' : Owner[s] \in DOMAIN evh_processes'
    BY <1>1
  <2> QED
    BY <1>7, <1>8, <2>1, <2>2, BlocksPartsPrime
<1>10. /\ \A s \in gone : told'[s] = [e \in Event |-> 0] /\ seen'[s] = [e \in Event |-> 0]
       /\ \A s \in Session \ gone : told'[s] = told[s] /\ seen'[s] = seen[s]
       /\ posted' = posted
       /\ told' \in [Session -> [Event -> Nat]] /\ seen' \in [Session -> [Event -> Nat]]
  <2>1. gone \subseteq Session
    BY DEF TableInv, TableType, PartialFcn, sessions
  <2> QED
    BY <2>1 DEF delete_sessions, Forget, TableInv, TableType
<1>11. TableType'
  <2>1. PartialFcn(ses_interests, Session, SUBSET Event)'
    BY <1>1 DEF TableInv, TableType, PartialFcn, sessions
  <2>2. /\ DOMAIN requests' \subseteq 1 .. evh_request_id'
        /\ \A r \in DOMAIN requests' :
              requests'[r].ses \in Session /\ PartialFcn(requests'[r].need, Event, Nat)
    BY <1>2 DEF TableInv, TableType
  <2> QED
    BY <1>7, <1>10, <2>1, <2>2 DEF TableInv, TableType
<1>12. CountsKept'
  <2> SUFFICES ASSUME NEW s \in Session, NEW e \in Event, told'[s][e] # 0
               PROVE  /\ s \in sessions' /\ Knows(s, e)'
                      /\ evh_events'[e] + 1 - told'[s][e] = posted'[e] - seen'[s][e]
    BY DEF CountsKept
  <2>1. s \notin gone /\ told'[s] = told[s] /\ seen'[s] = seen[s]
    BY <1>10
  <2>2. /\ s \in sessions /\ Knows(s, e)
        /\ evh_events[e] + 1 - told[s][e] = posted[e] - seen[s][e]
    BY <2>1 DEF TableInv, CountsKept
  <2>3. Interested(e, gone)
    BY <2>1, <2>2 DEF Knows, HistoryOf, RequestsOf, Interested
  <2>4. e \in DOMAIN evh_events'
    BY <1>3, <1>8, <2>3
  <2>5. Knows(s, e)'
    BY <1>1, <1>2, <2>1, <2>2 DEF Knows, HistoryOf, RequestsOf, Events
  <2> QED
    BY <1>1, <1>7, <1>10, <2>1, <2>2, <2>4, <2>5
<1>13. ASSUME NEW r \in DOMAIN requests'
       PROVE  request_completed(r)' <=> request_completed(r)
  <2>1. r \in R /\ requests'[r] = requests[r]
    BY <1>2
  <2>2. DOMAIN requests[r].need \subseteq Event
    BY <2>1 DEF TableInv, TableType, PartialFcn
  <2>3. \A e \in DOMAIN requests[r].need : Interested(e, gone)
    BY <2>1 DEF Interested, Events
  <2>4. \A e \in DOMAIN requests[r].need : evh_events'[e] = evh_events[e]
    BY <1>3, <1>7, <1>8, <2>2, <2>3
  <2> QED
    BY <2>1, <2>4 DEF request_completed, Events
<1> QED
  BY <1>1, <1>2, <1>9, <1>11, <1>12, <1>13 DEF TableInv

(* delete_request(): the session knows what it knew, also when the client  *)
(* was told the counts of the request's events.                            *)
LEMMA DeleteRequest ==
    ASSUME TableInv, NEW r \in DOMAIN requests, delete_request(r),
           UNCHANGED <<evh_events, evh_majors, evh_request_id, posted>>,
           PartialFcn(evh_processes, Proc, Flags)', DOMAIN evh_processes' = DOMAIN evh_processes,
           told' \in [Session -> [Event -> Nat]], seen' \in [Session -> [Event -> Nat]],
           \A s \in Session, e \in Event :
              \/ told'[s][e] = told[s][e] /\ seen'[s][e] = seen[s][e]
              \/ /\ s = requests[r].ses /\ e \in Events(r)
                 /\ told'[s][e] = evh_events[e] + 1 /\ seen'[s][e] = posted[e]
    PROVE  /\ TableInv' /\ sessions' = sessions
           /\ DOMAIN requests' = DOMAIN requests \ {r}
           /\ \A x \in DOMAIN requests' :
                 /\ requests'[x] = requests[x]
                 /\ request_completed(x)' <=> request_completed(x)
<1> DEFINE t == requests[r].ses
<1>1. t \in sessions /\ t \in Session
  BY DEF TableInv, TableType, BlocksExact
<1>2. /\ DOMAIN requests' = DOMAIN requests \ {r}
      /\ \A x \in DOMAIN requests' : requests'[x] = requests[x]
  BY DEF delete_request, Without
<1>3. /\ sessions' = sessions
      /\ ses_interests'[t] = ses_interests[t] \cup Events(r)
      /\ \A s \in sessions \ {t} : ses_interests'[s] = ses_interests[s]
  BY <1>1 DEF delete_request, Kept, sessions, TableInv, TableType, PartialFcn
<1>4. Events(r) \subseteq Event
  BY DEF TableInv, TableType, PartialFcn, Events
<1>5. PartialFcn(ses_interests, Session, SUBSET Event)'
  BY <1>1, <1>4 DEF delete_request, Kept, sessions, TableInv, TableType, PartialFcn
<1>6. ASSUME NEW s \in sessions, NEW e \in Event
      PROVE  Knows(s, e)' <=> Knows(s, e)
  BY <1>2, <1>3 DEF Knows, HistoryOf, RequestsOf, Events
<1>7. ASSUME NEW e \in Event
      PROVE  Interested(e, {})' <=> Interested(e, {})
  <2>1. ASSUME Interested(e, {}) PROVE Interested(e, {})'
    BY <1>1, <1>2, <1>3, <2>1 DEF Interested, Events
  <2>2. ASSUME Interested(e, {})' PROVE Interested(e, {})
    BY <1>1, <1>2, <1>3, <2>2 DEF Interested, Events
  <2> QED
    BY <2>1, <2>2
<1>8. BlocksExact'
  <2>1. MajorsExact'
    BY BlocksParts DEF TableInv, MajorsExact
  <2>2. DOMAIN evh_events' = {e \in Event : Interested(e, {})'}
    BY <1>7, BlocksParts DEF TableInv
  <2> QED
    BY <1>2, <1>3, <2>1, <2>2, BlocksPartsPrime DEF TableInv, BlocksExact
<1>9. TableType'
  BY <1>2, <1>5 DEF TableInv, TableType
<1>10. CountsKept'
  <2> SUFFICES ASSUME NEW s \in Session, NEW e \in Event, told'[s][e] # 0
               PROVE  /\ s \in sessions' /\ Knows(s, e)'
                      /\ evh_events'[e] + 1 - told'[s][e] = posted'[e] - seen'[s][e]
    BY DEF CountsKept
  <2>1. CASE told'[s][e] = told[s][e] /\ seen'[s][e] = seen[s][e]
    BY <1>3, <1>6, <2>1 DEF TableInv, CountsKept
  <2>2. CASE /\ s = t /\ e \in Events(r)
             /\ told'[s][e] = evh_events[e] + 1 /\ seen'[s][e] = posted[e]
    <3>1. Knows(s, e)
      BY <2>2 DEF Knows, HistoryOf, RequestsOf
    <3>2. e \in DOMAIN evh_events
      BY <1>1, <2>2, <3>1, InterestedKnows DEF TableInv, BlocksExact
    <3>3. evh_events[e] \in Nat /\ posted[e] \in Nat
      BY <3>2 DEF TableInv, TableType, PartialFcn
    <3> QED
      BY <1>1, <1>3, <1>6, <2>2, <3>1, <3>3
  <2> QED
    BY <2>1, <2>2
<1>11. \A x \in DOMAIN requests' : request_completed(x)' <=> request_completed(x)
  BY <1>2 DEF request_completed, Events
<1> QED
  BY <1>2, <1>3, <1>8, <1>9, <1>10, <1>11 DEF TableInv

(* Nothing of the table changes but flags of processes. *)
LEMMA TableFrame ==
    ASSUME TableInv,
           UNCHANGED <<evh_events, evh_majors, evh_request_id, requests, ses_interests, history>>,
           PartialFcn(evh_processes, Proc, Flags)', DOMAIN evh_processes' = DOMAIN evh_processes
    PROVE  /\ TableInv' /\ sessions' = sessions
           /\ \A r \in DOMAIN requests : request_completed(r)' <=> request_completed(r)
<1>1. TableType'
  BY DEF TableInv, TableType, history
<1>2. \A e \in Event : Interested(e, {})' <=> Interested(e, {})
  BY DEF Interested, Events, sessions
<1>3. BlocksExact'
  BY <1>2, BlocksParts, BlocksPartsPrime DEF TableInv, MajorsExact, sessions
<1>4. CountsKept'
  BY DEF TableInv, CountsKept, history, Knows, HistoryOf, RequestsOf, Events, sessions
<1> QED
  BY <1>1, <1>3, <1>4 DEF TableInv, request_completed, Events, sessions

(* EVENT_create_session(): a session that knows nothing. *)
LEMMA CreateSession ==
    ASSUME TableInv, NEW s \in Session \ sessions, Owner[s] \in DOMAIN evh_processes,
           ses_interests' = [t \in sessions \cup {s} |-> IF t = s THEN {} ELSE ses_interests[t]],
           UNCHANGED <<evh_events, evh_majors, evh_request_id, requests, evh_processes, history>>
    PROVE  /\ TableInv' /\ sessions' = sessions \cup {s}
           /\ \A r \in DOMAIN requests : request_completed(r)' <=> request_completed(r)
<1>1. /\ sessions' = sessions \cup {s} /\ ses_interests'[s] = {}
      /\ \A t \in sessions : ses_interests'[t] = ses_interests[t]
  BY DEF sessions
<1>2. PartialFcn(ses_interests, Session, SUBSET Event)'
  BY DEF TableInv, TableType, PartialFcn, sessions
<1>3. TableType'
  BY <1>2 DEF TableInv, TableType, history
<1>4. \A e \in Event : Interested(e, {})' <=> Interested(e, {})
  BY <1>1 DEF Interested, Events
<1>5. BlocksExact'
  BY <1>1, <1>4, BlocksParts, BlocksPartsPrime DEF TableInv, MajorsExact
<1>6. CountsKept'
  BY <1>1 DEF TableInv, CountsKept, history, Knows, HistoryOf, RequestsOf, Events
<1> QED
  BY <1>1, <1>3, <1>5, <1>6 DEF TableInv, request_completed, Events

(* What EVENT_que() does to the table but for the flags of its process. *)
Queued(s, events, n) ==
    /\ evh_request_id' = n
    /\ requests' = [q \in DOMAIN requests \cup {n} |->
                       IF q = n THEN [ses |-> s, need |-> [e \in events |-> told[s][e]]]
                       ELSE requests[q]]
    /\ ses_interests' = [ses_interests EXCEPT ![s] = @ \ events]
    /\ make_events(events \ DOMAIN evh_events)
    /\ UNCHANGED history

(* Such a request is satisfied from the start. *)
Reached(s, events) == \E e \in events : told[s][e] <= evh_events'[e]

(* EVENT_que(): the session knows the events of its new request; the       *)
(* counts it was told for those it knew before are still good.             *)
LEMMA QueRequest ==
    ASSUME TableInv, NEW s \in sessions, NEW events \in SUBSET Event,
           NEW n \in Nat, n = evh_request_id + 1, Queued(s, events, n),
           PartialFcn(evh_processes, Proc, Flags)', DOMAIN evh_processes' = DOMAIN evh_processes
    PROVE  /\ TableInv' /\ sessions' = sessions
           /\ DOMAIN requests' = DOMAIN requests \cup {n}
           /\ n \notin DOMAIN requests
           /\ requests'[n].ses = s
           /\ request_completed(n)' <=> Reached(s, events)
           /\ \A r \in DOMAIN requests :
                 /\ requests'[r] = requests[r]
                 /\ request_completed(r)' <=> request_completed(r)
<1> DEFINE D == DOMAIN evh_events
           new == events \ D
           request == [ses |-> s, need |-> [e \in events |-> told[s][e]]]
<1> USE DEF Queued
<1>1. s \in Session
  BY DEF TableInv, TableType, PartialFcn, sessions
<1>2. n \notin DOMAIN requests
  BY DEF TableInv, TableType
<1>3. /\ DOMAIN requests' = DOMAIN requests \cup {n} /\ requests'[n] = request
      /\ \A r \in DOMAIN requests : requests'[r] = requests[r]
  BY <1>2
<1>4. /\ sessions' = sessions /\ ses_interests'[s] = ses_interests[s] \ events
      /\ \A t \in sessions \ {s} : ses_interests'[t] = ses_interests[t]
      /\ PartialFcn(ses_interests, Session, SUBSET Event)'
  BY DEF TableInv, TableType, PartialFcn, sessions
<1>5. MajorsExact /\ D = {e \in Event : Interested(e, {})}
  BY BlocksParts DEF TableInv
<1>6. /\ DOMAIN evh_events' = D \cup new
      /\ \A e \in D : evh_events'[e] = evh_events[e]
      /\ PartialFcn(evh_events, Event, Nat)' /\ PartialFcn(evh_majors, Major, Int)'
      /\ MajorsExact'
  BY <1>5, MakeEvents DEF TableInv
<1>7. ASSUME NEW t \in sessions, NEW e \in Event
      PROVE  Knows(t, e)' <=> Knows(t, e) \/ (t = s /\ e \in events)
  <2>1. Events(n)' = events
    BY <1>3 DEF Events
  <2>2. \A r \in DOMAIN requests : Events(r)' = Events(r)
    BY <1>3 DEF Events
  <2>3. RequestsOf(t)' = IF t = s THEN RequestsOf(t) \cup {n} ELSE RequestsOf(t)
    BY <1>2, <1>3 DEF RequestsOf
  <2>4. RequestsOf(t) \subseteq DOMAIN requests
    BY DEF RequestsOf
  <2> QED
    BY <1>2, <1>4, <2>1, <2>2, <2>3, <2>4 DEF Knows, HistoryOf
<1>8. TableType'
  <2>1. request.ses \in Session /\ PartialFcn(request.need, Event, Nat)
    BY <1>1 DEF PartialFcn, TableInv, TableType
  <2>2. \A r \in DOMAIN requests' :
           requests'[r].ses \in Session /\ PartialFcn(requests'[r].need, Event, Nat)
    BY <1>3, <2>1 DEF TableInv, TableType
  <2>3. evh_request_id' \in Nat /\ DOMAIN requests' \subseteq 1 .. evh_request_id'
    BY <1>3 DEF TableInv, TableType
  <2> QED
    BY <1>4, <1>6, <2>2, <2>3 DEF TableInv, TableType, history
<1>9. BlocksExact'
  <2>1. \A r \in DOMAIN requests' : requests'[r].ses \in sessions'
    BY <1>3, <1>4 DEF TableInv, BlocksExact
  <2>2. \A t \in sessions' : Owner[t] \in DOMAIN evh_processes'
    BY <1>4 DEF TableInv, BlocksExact
  <2>3. ASSUME NEW e \in Event
        PROVE  Interested(e, {})' <=> \E t \in sessions' : Knows(t, e)'
    <3>1. ASSUME NEW r \in DOMAIN requests', e \in Events(r)'
          PROVE  \E t \in sessions' : Knows(t, e)'
      <4>1. PICK t \in sessions' : t = requests'[r].ses
        BY <2>1
      <4>2. r \in RequestsOf(t)'
        BY <4>1 DEF RequestsOf
      <4>3. Knows(t, e)'
        BY <3>1, <4>2 DEF Knows, HistoryOf
      <4> QED
        BY <4>3
    <3>2. ASSUME NEW t \in sessions', e \in ses_interests'[t]
          PROVE  Knows(t, e)'
      BY <3>2 DEF Knows, HistoryOf
    <3>3. ASSUME NEW t \in sessions', Knows(t, e)'
          PROVE  Interested(e, {})'
      <4>1. \/ e \in ses_interests'[t]
            \/ \E r \in RequestsOf(t)' : e \in Events(r)'
        BY <3>3 DEF Knows, HistoryOf
      <4>2. RequestsOf(t)' \subseteq DOMAIN requests'
        BY DEF RequestsOf
      <4> QED
        BY <4>1, <4>2 DEF Interested
    <3> QED
      BY <3>1, <3>2, <3>3 DEF Interested
  <2>4. ASSUME NEW e \in Event
        PROVE  Interested(e, {})' <=> Interested(e, {}) \/ e \in events
    BY <1>4, <1>7, <2>3, InterestedKnows
  <2>5. DOMAIN evh_events' = {e \in Event : Interested(e, {})'}
    BY <1>5, <1>6, <2>4
  <2> QED
    BY <1>6, <2>1, <2>2, <2>5, BlocksPartsPrime
<1>10. CountsKept'
  <2> SUFFICES ASSUME NEW t \in Session, NEW e \in Event, told'[t][e] # 0
               PROVE  /\ t \in sessions' /\ Knows(t, e)'
                      /\ evh_events'[e] + 1 - told'[t][e] = posted'[e] - seen'[t][e]
    BY DEF CountsKept
  <2>1. /\ t \in sessions /\ Knows(t, e)
        /\ evh_events[e] + 1 - told[t][e] = posted[e] - seen[t][e]
    BY DEF TableInv, CountsKept, history
  <2>2. e \in D
    BY <1>5, <2>1, InterestedKnows
  <2> QED
    BY <1>4, <1>6, <1>7, <2>1, <2>2 DEF history
<1>11. ASSUME NEW r \in DOMAIN requests
       PROVE  request_completed(r)' <=> request_completed(r)
  <2>1. Events(r) \subseteq Event
    BY DEF TableInv, TableType, PartialFcn, Events
  <2>2. Events(r) \subseteq D
    BY <1>5, <2>1 DEF Interested
  <2> QED
    BY <1>3, <1>6, <2>2 DEF request_completed, Events
<1>12. request_completed(n)' <=> Reached(s, events)
  BY <1>3 DEF request_completed, Events, Reached
<1> QED
  BY <1>2, <1>3, <1>4, <1>8, <1>9, <1>10, <1>11, <1>12 DEF TableInv

(* EVENT_post(): the count of a known event rises with its occurrences. *)
LEMMA PostEvent ==
    ASSUME TableInv, NEW e \in Event, NEW n \in Nat,
           posted' = [posted EXCEPT ![e] = @ + n],
           IF e \in DOMAIN evh_events
           THEN evh_events' = [evh_events EXCEPT ![e] = evh_events[e] + n]
           ELSE evh_events' = evh_events,
           PartialFcn(evh_processes, Proc, Flags)', DOMAIN evh_processes' = DOMAIN evh_processes,
           UNCHANGED <<evh_majors, evh_request_id, requests, ses_interests, told, seen>>
    PROVE  /\ TableInv' /\ sessions' = sessions
           /\ \A r \in DOMAIN requests :
                 request_completed(r)' =>
                    \/ request_completed(r)
                    \/ e \in DOMAIN evh_events /\ r \in Satisfied(e, evh_events[e] + n)
<1>1. /\ DOMAIN evh_events' = DOMAIN evh_events
      /\ \A x \in DOMAIN evh_events :
            evh_events'[x] = IF x = e THEN evh_events[x] + n ELSE evh_events[x]
      /\ PartialFcn(evh_events, Event, Nat)'
  BY DEF TableInv, TableType, PartialFcn
<1>2. posted' \in [Event -> Nat]
  BY DEF TableInv, TableType
<1>3. TableType'
  BY <1>1, <1>2 DEF TableInv, TableType
<1>4. \A x \in Event : Interested(x, {})' <=> Interested(x, {})
  BY DEF Interested, Events, sessions
<1>5. BlocksExact'
  <2>1. MajorsExact'
    BY <1>1, BlocksParts DEF TableInv, MajorsExact
  <2> QED
    BY <1>1, <1>4, <2>1, BlocksParts, BlocksPartsPrime DEF TableInv, sessions
<1>6. CountsKept'
  <2> SUFFICES ASSUME NEW s \in Session, NEW x \in Event, told'[s][x] # 0
               PROVE  /\ s \in sessions' /\ Knows(s, x)'
                      /\ evh_events'[x] + 1 - told'[s][x] = posted'[x] - seen'[s][x]
    BY DEF CountsKept
  <2>1. /\ s \in sessions /\ Knows(s, x)
        /\ evh_events[x] + 1 - told[s][x] = posted[x] - seen[s][x]
    BY DEF TableInv, CountsKept
  <2>2. x \in DOMAIN evh_events
    BY <2>1, InterestedKnows DEF TableInv, BlocksExact
  <2>3. s \in sessions' /\ Knows(s, x)'
    BY <2>1 DEF Knows, HistoryOf, RequestsOf, Events, sessions
  <2>4. /\ evh_events[x] \in Nat /\ posted[x] \in Nat
        /\ told[s][x] \in Nat /\ seen[s][x] \in Nat
    BY <2>2 DEF TableInv, TableType, PartialFcn
  <2>5. posted'[x] = IF x = e THEN posted[x] + n ELSE posted[x]
    BY DEF TableInv, TableType
  <2> QED
    BY <1>1, <2>1, <2>2, <2>3, <2>4, <2>5
<1>7. ASSUME NEW r \in DOMAIN requests, request_completed(r)'
      PROVE  \/ request_completed(r)
             \/ e \in DOMAIN evh_events /\ r \in Satisfied(e, evh_events[e] + n)
  <2>1. PICK x \in Events(r) : requests[r].need[x] <= evh_events'[x]
    BY <1>7 DEF request_completed, Events
  <2>2. CASE x = e /\ e \in DOMAIN evh_events
    BY <1>1, <2>1, <2>2 DEF Satisfied
  <2>3. CASE x # e \/ e \notin DOMAIN evh_events
    <3>1. x \in Event
      BY <2>1 DEF TableInv, TableType, PartialFcn, Events
    <3>2. x \in DOMAIN evh_events
      BY <2>1, <3>1 DEF TableInv, BlocksExact, Interested
    <3>3. evh_events'[x] = evh_events[x]
      BY <1>1, <2>3, <3>2
    <3> QED
      BY <2>1, <3>3 DEF request_completed
  <2> QED
    BY <2>2, <2>3
<1> QED
  BY <1>3, <1>5, <1>6, <1>7 DEF TableInv, sessions

-----------------------------------------------------------------------------
(* The parts of the invariant. *)

QueuingProcs == {q \in alive : Queuing(q)}

LEMMA QueuingFinite ==
    ASSUME ThreadType
    PROVE  /\ IsFiniteSet(QueuingProcs) /\ Cardinality(QueuingProcs) \in Nat
           /\ QueuingProcs \in SUBSET Proc
<1>1. QueuingProcs \in SUBSET Proc /\ IsFiniteSet(Proc)
  BY EventAssumption DEF QueuingProcs, ThreadType
<1>2. IsFiniteSet(QueuingProcs)
  BY <1>1, FS_Subset
<1> QED
  BY <1>1, <1>2, FS_CardinalityType

LEMMA IInvParts ==
    IInv <=> /\ TableInv /\ ThreadType /\ NumbersLeft
             /\ ThreadsCounted /\ CallsFit /\ NoLostWakeup
<1>1. ASSUME IInv
      PROVE  TableInv /\ ThreadType
  BY <1>1 DEF IInv, TypeOK, NumbersLeft, TableInv, TableType, ThreadType, Flags, RequestIds
<1>2. ASSUME TableInv, ThreadType, NumbersLeft
      PROVE  TypeOK
  <2>1. evh_request_id \in Nat /\ evh_request_id + Cardinality(QueuingProcs) <= MaxRequests
    BY <1>2 DEF TableInv, TableType, NumbersLeft, QueuingProcs
  <2>2. Cardinality(QueuingProcs) \in Nat /\ MaxRequests \in Nat
    BY <1>2, QueuingFinite, EventAssumption
  <2>3. evh_request_id \in 0 .. MaxRequests
    BY <2>1, <2>2
  <2>4. DOMAIN requests \subseteq RequestIds
    BY <1>2, <2>2, <2>3 DEF TableInv, TableType, RequestIds
  <2> QED
    BY <1>2, <2>3, <2>4 DEF TypeOK, TableInv, TableType, ThreadType, Flags
<1> QED
  BY <1>1, <1>2 DEF IInv, TableInv

LEMMA IInvPrime ==
    ASSUME TableInv', ThreadType', NumbersLeft', ThreadsCounted', CallsFit', NoLostWakeup'
    PROVE  IInv'
BY IInvParts, PTL

(* No call of EVENT_que() begins. *)
LEMMA NumbersKept ==
    ASSUME IInv, TableInv', ThreadType', evh_request_id' = evh_request_id,
           \A q \in alive' : Queuing(q)' => q \in alive /\ Queuing(q)
    PROVE  NumbersLeft'
<1>1. QueuingProcs' \in SUBSET QueuingProcs
  BY DEF QueuingProcs
<1>2. IsFiniteSet(QueuingProcs) /\ Cardinality(QueuingProcs) \in Nat
  BY IInvParts, QueuingFinite
<1>3. Cardinality(QueuingProcs') \in Nat /\ Cardinality(QueuingProcs') <= Cardinality(QueuingProcs)
  BY <1>1, <1>2, FS_Subset, FS_CardinalityType
<1>4. evh_request_id \in Nat /\ MaxRequests \in Nat
  BY IInvParts, EventAssumption DEF TableInv, TableType
<1>5. evh_request_id + Cardinality(QueuingProcs) <= MaxRequests
  BY IInvParts DEF NumbersLeft, QueuingProcs
<1>6. evh_request_id' + Cardinality(QueuingProcs') <= MaxRequests
  BY <1>2, <1>3, <1>4, <1>5
<1> QED
  BY <1>6 DEF NumbersLeft, QueuingProcs, TableInv, TableType

(* One process changes what it does, others keep their block and sessions. *)
LEMMA OthersFit ==
    ASSUME IInv, NEW p \in Proc, alive' \subseteq alive,
           \A q \in alive' \ {p} : /\ op'[q] = op[q]
                                   /\ q \in DOMAIN evh_processes' <=> q \in DOMAIN evh_processes,
           \A s \in Session : Owner[s] \in alive' \ {p} => (s \in sessions' <=> s \in sessions),
           p \in alive' => Fits(p)'
    PROVE  CallsFit'
<1> SUFFICES ASSUME NEW q \in alive', q # p
             PROVE  Fits(q)'
  BY DEF CallsFit
<1>1. Fits(q) /\ op[q] \in Ops /\ op'[q] = op[q]
  BY IInvParts DEF CallsFit, ThreadType
<1>2. Queuing(q) \/ op[q].kind = "delete_session" => op[q].ses \in Session
  BY <1>1, OpForms DEF Queuing
<1>3. /\ Queuing(q)' <=> Queuing(q)
      /\ Queuing(q) \/ op[q].kind = "delete_session" => 
            (op[q].ses \in sessions' <=> op[q].ses \in sessions)
  BY <1>1, <1>2 DEF Queuing, Fits
<1> QED
  BY <1>1, <1>3 DEF Fits, Queuing

(* No request is satisfied that was not, and who was tended to still is. *)
LEMMA WakeupsKept ==
    ASSUME IInv, TableInv', alive' \subseteq alive,
           \A r \in DOMAIN requests' :
              /\ r \in DOMAIN requests /\ requests'[r] = requests[r]
              /\ request_completed(r)' => request_completed(r),
           \A s \in sessions' :
              Owner[s] \in alive' /\ Tended(Owner[s], s) => Tended(Owner[s], s)'
    PROVE  NoLostWakeup'
<1> SUFFICES ASSUME NEW r \in DOMAIN requests', NEW s, s = requests'[r].ses,
                    Owner[s] \in alive', request_completed(r)'
             PROVE  Tended(Owner[s], s)'
  BY DEF NoLostWakeup
<1>1. s \in sessions'
  BY DEF TableInv, BlocksExact
<1>2. r \in DOMAIN requests /\ s = requests[r].ses /\ request_completed(r)
  OBVIOUS
<1>3. Tended(Owner[s], s)
  BY <1>2, IInvParts DEF NoLostWakeup
<1> QED
  BY <1>1, <1>3

-----------------------------------------------------------------------------
(* The sections: what Acquired() does around them. *)

InSection(p) ==
    /\ Runs(p) /\ at[p] = "acquire" /\ mutex = NoProc
    /\ mutex' = p
    /\ acquire_count' = [acquire_count EXCEPT ![p] = @ - 1]
    /\ at' = [at EXCEPT ![p] = "release"]
    /\ UNCHANGED <<alive, signalled, handler, scan>>

LEMMA SectionThreads ==
    ASSUME IInv, NEW p \in Proc, InSection(p), NEW o \in Ops, Continue(p, o)
    PROVE  /\ ThreadType' /\ ThreadsCounted'
           /\ op'[p] = o /\ \A q \in Proc \ {p} : op'[q] = op[q]
           /\ p \in alive
<1>1. ThreadType /\ ThreadsCounted
  BY IInvParts
<1>2. acquire_count[p] = 1 /\ handler[p] = "none"
  BY <1>1 DEF ThreadsCounted, InSection, Runs
<1>3. acquire_count' \in [Proc -> 0 .. 1]
  BY <1>1, <1>2 DEF ThreadType, InSection
<1>4. ThreadType'
  BY <1>1, <1>3 DEF ThreadType, InSection, Continue
<1>5. ThreadsCounted'
  BY <1>1, <1>2 DEF ThreadType, ThreadsCounted, InSection
<1> QED
  BY <1>1, <1>4, <1>5 DEF ThreadType, Continue, InSection, Runs

(* A section that takes no mark away: who was tended to still is. *)
LEMMA SectionTends ==
    ASSUME IInv, NEW p \in Proc, InSection(p), NEW o \in Ops, Continue(p, o),
           op[p].kind # "kill", Delivering(p) => Delivering(p)' \/ Woken = {},
           NEW x \in DOMAIN evh_processes,
           evh_processes[x].wakeup => evh_processes'[x].wakeup,
           evh_processes[x].pending => evh_processes'[x].pending,
           NEW s, Tended(x, s)
    PROVE  Tended(x, s)'
<1>1. ThreadType /\ PartialFcn(evh_processes, Proc, Flags)
  BY IInvParts DEF TableInv, TableType
<1>2. x \in Proc
  BY <1>1 DEF PartialFcn
<1>3. /\ handler'[x] = handler[x] /\ scan'[x] = scan[x] /\ signalled'[x] = signalled[x]
      /\ at[x] # "run" => at'[x] # "run"
  BY <1>1, <1>2 DEF InSection, ThreadType
<1>4. KillEntrusted(x) => KillEntrusted(x)'
  BY <1>1 DEF KillEntrusted, Continue, ThreadType
<1>5. evh_processes[x].wakeup /\ WakeupEntrusted => WakeupEntrusted'
  <2>1. \A q \in Proc \ {p} : Delivering(q)' <=> Delivering(q)
    BY <1>1 DEF Delivering, Continue, ThreadType
  <2>2. evh_processes[x].wakeup => Woken # {}
    BY DEF Woken
  <2> QED
    BY <2>1, <2>2 DEF WakeupEntrusted
<1> QED
  BY <1>3, <1>4, <1>5 DEF Tended

(* The flags of a process without a block to look for. *)
LEMMA NewFlags == [wakeup |-> FALSE, pending |-> FALSE] \in Flags /\ [wakeup |-> FALSE, pending |-> TRUE] \in Flags
BY DEF Flags

LEMMA create_process_Inv ==
    ASSUME IInv, NEW p \in Proc, InSection(p), create_process(p)
    PROVE  IInv'
<1> DEFINE gone == {q \in DOMAIN evh_processes : q # p /\ q \notin alive}
           S == SessionsOfAll(gone)
           o == [op[p] EXCEPT !.kind = "create_session"]
           Blocks == (DOMAIN evh_processes \cup {p}) \ gone
<1>1. TableInv /\ ThreadType /\ Fits(p) /\ p \in alive
  BY IInvParts DEF CallsFit, InSection, Runs
<1>2. op[p].kind = "create_process" /\ p \notin DOMAIN evh_processes /\ Owner[op[p].ses] = p
  BY <1>1 DEF create_process, Fits, Queuing
<1>3. o \in Ops /\ o.kind = "create_session" /\ o.ses = op[p].ses /\ o.ses \in Session
  BY <1>1, <1>2, OpForms DEF ThreadType
<1>4. Continue(p, o)
  BY DEF create_process
<1>5. ThreadType' /\ ThreadsCounted' /\ op'[p] = o /\ \A q \in Proc \ {p} : op'[q] = op[q]
  BY <1>3, <1>4, SectionThreads
<1>6. /\ evh_processes' = [q \in Blocks |-> IF q = p THEN [wakeup |-> FALSE, pending |-> FALSE]
                                            ELSE evh_processes[q]]
      /\ delete_sessions(S) /\ evh_request_id' = evh_request_id
  BY DEF create_process
<1>7. PartialFcn(evh_processes, Proc, Flags)' /\ DOMAIN evh_processes' = Blocks
  BY <1>1, <1>6, NewFlags DEF TableInv, TableType, PartialFcn
<1>8. S \in SUBSET sessions /\ \A s \in sessions : s \in S <=> Owner[s] \in gone
  BY DEF SessionsOfAll, SessionsOf
<1>9. \A s \in sessions : Owner[s] \in DOMAIN evh_processes /\ Owner[s] # p
  BY <1>1, <1>2 DEF TableInv, BlocksExact
<1>10. \A s \in sessions \ S : Owner[s] \in DOMAIN evh_processes'
  BY <1>7, <1>8, <1>9
<1> HIDE DEF S, o
<1>11. /\ TableInv' /\ sessions' = sessions \ S
       /\ \A r \in DOMAIN requests' :
             /\ r \in DOMAIN requests /\ requests'[r] = requests[r]
             /\ request_completed(r)' <=> request_completed(r)
  BY <1>1, <1>6, <1>7, <1>8, <1>10, DeleteSessions
<1>12. alive' = alive
  BY DEF InSection
<1>13. NumbersLeft'
  BY <1>1, <1>2, <1>3, <1>5, <1>6, <1>11, <1>12, NumbersKept DEF Queuing, ThreadType
<1>14. CallsFit'
  <2>1. \A q \in alive \ {p} : q \in DOMAIN evh_processes' <=> q \in DOMAIN evh_processes
    BY <1>7
  <2>2. \A s \in Session : Owner[s] \in alive \ {p} => (s \in sessions' <=> s \in sessions)
    BY <1>8, <1>11
  <2>3. Fits(p)'
    BY <1>2, <1>3, <1>5, <1>7, <1>9, <1>11 DEF Fits, Queuing
  <2> QED
    BY <1>1, <1>5, <1>12, <2>1, <2>2, <2>3, OthersFit DEF ThreadType
<1>15. NoLostWakeup'
  <2>1. ASSUME NEW s \in sessions', Tended(Owner[s], s), Owner[s] \in alive'
        PROVE  Tended(Owner[s], s)'
    <3>1. Owner[s] \in DOMAIN evh_processes /\ evh_processes'[Owner[s]] = evh_processes[Owner[s]]
      BY <1>6, <1>8, <1>9, <1>11
    <3> QED
      BY <1>2, <1>3, <1>4, <2>1, <3>1, SectionTends DEF Delivering
  <2> QED
    BY <1>11, <1>12, <2>1, WakeupsKept
<1> QED
  BY <1>5, <1>11, <1>13, <1>14, <1>15, IInvPrime

LEMMA create_session_Inv ==
    ASSUME IInv, NEW p \in Proc, InSection(p), create_session(p)
    PROVE  IInv'
<1> DEFINE s == op[p].ses
           o == [op[p] EXCEPT !.kind = "que"]
<1>1. TableInv /\ ThreadType /\ Fits(p) /\ p \in alive
  BY IInvParts DEF CallsFit, InSection, Runs
<1>2. /\ op[p].kind = "create_session" /\ Owner[s] = p
      /\ p \in DOMAIN evh_processes /\ s \notin sessions
  BY <1>1 DEF create_session, Fits, Queuing
<1>3. o \in Ops /\ o.kind = "que" /\ o.ses = s /\ s \in Session
  BY <1>1, <1>2, OpForms DEF ThreadType
<1>4. Continue(p, o)
  BY DEF create_session
<1>5. ThreadType' /\ ThreadsCounted' /\ op'[p] = o /\ \A q \in Proc \ {p} : op'[q] = op[q]
  BY <1>3, <1>4, SectionThreads
<1>6. /\ TableInv' /\ sessions' = sessions \cup {s}
      /\ \A r \in DOMAIN requests : request_completed(r)' <=> request_completed(r)
  BY <1>1, <1>2, <1>3, CreateSession DEF create_session
<1>7. /\ alive' = alive /\ requests' = requests /\ evh_processes' = evh_processes
      /\ evh_request_id' = evh_request_id
  BY DEF InSection, create_session
<1> HIDE DEF o
<1>8. NumbersLeft'
  BY <1>1, <1>2, <1>3, <1>5, <1>6, <1>7, NumbersKept DEF Queuing, ThreadType
<1>9. Fits(p)'
  BY <1>2, <1>3, <1>5, <1>6, <1>7 DEF Fits, Queuing
<1>10. CallsFit'
  BY <1>1, <1>2, <1>5, <1>6, <1>7, <1>9, OthersFit DEF ThreadType
<1>11. NoLostWakeup'
  <2>1. ASSUME NEW t \in sessions', Tended(Owner[t], t)
        PROVE  Tended(Owner[t], t)'
    <3>1. Owner[t] \in DOMAIN evh_processes
      BY <1>6, <1>7 DEF TableInv, BlocksExact
    <3> QED
      BY <1>2, <1>3, <1>4, <1>7, <2>1, <3>1, SectionTends DEF Delivering
  <2> QED
    BY <1>6, <1>7, <2>1, WakeupsKept
<1> QED
  BY <1>5, <1>6, <1>8, <1>10, <1>11, IInvPrime

(* A process marked in its own section will look when it releases. *)
LEMMA SectionMarks ==
    ASSUME IInv, NEW p \in Proc, InSection(p), NEW s,
           evh_processes'[p] = [wakeup |-> FALSE, pending |-> TRUE]
    PROVE  Tended(p, s)'
<1>1. at'[p] # "run"
  BY IInvParts DEF InSection, ThreadType
<1> QED
  BY <1>1 DEF Tended

LEMMA que_Inv ==
    ASSUME IInv, NEW p \in Proc, InSection(p), que(p)
    PROVE  IInv'
<1> DEFINE marked == [wakeup |-> FALSE, pending |-> TRUE]
<1>1. TableInv /\ ThreadType /\ Fits(p) /\ p \in alive /\ NumbersLeft
  BY IInvParts DEF CallsFit, InSection, Runs
<1>2. PICK s \in Session : s = op[p].ses /\ Owner[s] = p /\ s \in sessions
  BY <1>1, OpForms DEF que, Fits, Queuing, ThreadType
<1>3. PICK n \in Nat : n = evh_request_id + 1
  BY <1>1 DEF TableInv, TableType
<1>4. op[p].kind = "que" /\ op[p].events \in SUBSET Event
  BY <1>1, OpForms, EventAssumption DEF que, ThreadType
<1> PICK events \in SUBSET Event : events = op[p].events
  BY <1>4
<1> DEFINE flag == Reached(s, events)
<1>5. /\ evh_request_id' = n
      /\ requests' = [q \in DOMAIN requests \cup {n} |->
                         IF q = n THEN [ses |-> s, need |-> [e \in events |-> told[s][e]]]
                         ELSE requests[q]]
      /\ ses_interests' = [ses_interests EXCEPT ![s] = @ \ events]
      /\ make_events(events \ DOMAIN evh_events)
      /\ UNCHANGED history
      /\ evh_processes' = IF flag THEN [evh_processes EXCEPT ![p] = marked] ELSE evh_processes
      /\ Continue(p, IF flag THEN [kind |-> "reacquire"] ELSE NoOp)
  BY <1>2, <1>3 DEF que, Reached
<1>6. p \in DOMAIN evh_processes
  BY <1>1, <1>2 DEF TableInv, BlocksExact
<1>7. PartialFcn(evh_processes, Proc, Flags)' /\ DOMAIN evh_processes' = DOMAIN evh_processes
  BY <1>1, <1>5, NewFlags DEF TableInv, TableType, PartialFcn
<1>8. /\ TableInv' /\ sessions' = sessions
      /\ DOMAIN requests' = DOMAIN requests \cup {n} /\ n \notin DOMAIN requests
      /\ requests'[n].ses = s /\ (request_completed(n)' <=> flag)
      /\ \A r \in DOMAIN requests :
            requests'[r] = requests[r] /\ (request_completed(r)' <=> request_completed(r))
  <2>1. Queued(s, events, n)
    BY <1>5 DEF Queued
  <2>2. evh_request_id \in Nat
    BY <1>1 DEF TableInv, TableType
  <2>3. s \in sessions /\ n = evh_request_id + 1
    BY <1>2, <1>3
  <2> QED
    BY <1>1, <1>7, <2>1, <2>2, <2>3, QueRequest
<1>9. PICK o \in Ops : Continue(p, o) /\ o.kind \in {"reacquire", "none"}
  BY <1>5, CallForms DEF NoOp
<1>10. ThreadType' /\ ThreadsCounted' /\ op'[p] = o /\ \A q \in Proc \ {p} : op'[q] = op[q]
  BY <1>9, SectionThreads
<1>11. alive' = alive
  BY DEF InSection
<1>12. NumbersLeft'
  <2>1. QueuingProcs' = QueuingProcs \ {p} /\ p \in QueuingProcs
    BY <1>1, <1>4, <1>9, <1>10, <1>11 DEF QueuingProcs, Queuing, ThreadType
  <2>2. IsFiniteSet(QueuingProcs) /\ Cardinality(QueuingProcs) \in Nat
    BY <1>1, QueuingFinite
  <2>3. Cardinality(QueuingProcs \ {p}) = Cardinality(QueuingProcs) - 1
    BY <2>1, <2>2, FS_RemoveElement
  <2>4. Cardinality(QueuingProcs') = Cardinality(QueuingProcs \ {p})
    BY <2>1, Zenon
  <2>5. evh_request_id + Cardinality(QueuingProcs) <= MaxRequests /\ evh_request_id \in Nat
    BY <1>1 DEF NumbersLeft, QueuingProcs, TableInv, TableType
  <2>6. evh_request_id' + Cardinality(QueuingProcs') <= MaxRequests
    BY <1>3, <1>5, <2>2, <2>3, <2>4, <2>5, EventAssumption
  <2> QED
    BY <1>8, <2>6 DEF NumbersLeft, QueuingProcs, TableInv, TableType
<1>13. CallsFit'
  <2>1. Fits(p)'
    BY <1>9, <1>10 DEF Fits, Queuing
  <2> QED
    BY <1>1, <1>7, <1>8, <1>10, <1>11, <2>1, OthersFit DEF ThreadType
<1>14. NoLostWakeup'
  <2> SUFFICES ASSUME NEW r \in DOMAIN requests', NEW t, t = requests'[r].ses,
                      Owner[t] \in alive', request_completed(r)'
               PROVE  Tended(Owner[t], t)'
    BY DEF NoLostWakeup
  <2>1. t \in sessions
    BY <1>8 DEF TableInv, BlocksExact
  <2>2. CASE flag /\ Owner[t] = p
    <3>1. evh_processes'[p] = marked
      BY <1>1, <1>5, <1>6, <2>2 DEF TableInv, TableType, PartialFcn
    <3> QED
      BY <2>2, <3>1, SectionMarks
  <2>3. CASE ~ (flag /\ Owner[t] = p)
    <3>1. r \in DOMAIN requests /\ requests[r].ses = t /\ request_completed(r)
      BY <1>2, <1>8, <2>3
    <3>2. Tended(Owner[t], t)
      BY <1>11, <3>1, IInvParts DEF NoLostWakeup
    <3>3. Owner[t] \in DOMAIN evh_processes
      BY <1>1, <2>1 DEF TableInv, BlocksExact
    <3>4. evh_processes'[Owner[t]] = evh_processes[Owner[t]]
      BY <1>1, <1>5, <2>3, <3>3 DEF TableInv, TableType, PartialFcn
    <3> QED
      BY <1>4, <1>9, <3>2, <3>3, <3>4, SectionTends DEF Delivering
  <2> QED
    BY <2>2, <2>3
<1> QED
  BY <1>8, <1>10, <1>12, <1>13, <1>14, IInvPrime

(* A section that only takes sessions of its own process away, or none,    *)
(* and requests, and does not begin anything.                              *)
LEMMA ShrinkingSection ==
    ASSUME IInv, NEW p \in Proc, InSection(p), NEW o \in Ops, Continue(p, o),
           o.kind \in {"none", "exited"}, op[p].kind # "kill",
           Delivering(p) => Woken = {},
           TableInv', evh_request_id' = evh_request_id,
           sessions' \subseteq sessions,
           \A s \in sessions : Owner[s] # p => s \in sessions',
           \A q \in DOMAIN evh_processes : q # p =>
              q \in DOMAIN evh_processes' /\ evh_processes'[q] = evh_processes[q],
           DOMAIN evh_processes' \subseteq DOMAIN evh_processes,
           p \in DOMAIN evh_processes' => evh_processes'[p] = evh_processes[p],
           \A r \in DOMAIN requests' :
              /\ r \in DOMAIN requests /\ requests'[r] = requests[r]
              /\ request_completed(r)' <=> request_completed(r)
    PROVE  IInv'
<1>1. ThreadType /\ ThreadType' /\ ThreadsCounted' /\ alive' = alive
  BY IInvParts, SectionThreads DEF InSection
<1>2. op'[p] = o /\ \A q \in Proc \ {p} : op'[q] = op[q]
  BY SectionThreads
<1>3. NumbersLeft'
  BY <1>1, <1>2, NumbersKept DEF Queuing, ThreadType
<1>4. Fits(p)'
  BY <1>2 DEF Fits, Queuing
<1>5. CallsFit'
  BY <1>1, <1>2, <1>4, OthersFit DEF ThreadType
<1>6. NoLostWakeup'
  <2>1. ASSUME NEW s \in sessions', Tended(Owner[s], s)
        PROVE  Tended(Owner[s], s)'
    <3>1. Owner[s] \in DOMAIN evh_processes' /\ Owner[s] \in DOMAIN evh_processes
      BY DEF TableInv, BlocksExact
    <3>2. evh_processes'[Owner[s]] = evh_processes[Owner[s]]
      BY <3>1
    <3> QED
      BY <2>1, <3>1, <3>2, SectionTends
  <2> QED
    BY <1>1, <2>1, WakeupsKept
<1> QED
  BY <1>1, <1>3, <1>5, <1>6, IInvPrime

LEMMA NoOpForm == NoOp \in Ops /\ NoOp.kind = "none"
BY CallForms DEF NoOp

LEMMA reacquire_Inv ==
    ASSUME IInv, NEW p \in Proc, InSection(p), reacquire(p)
    PROVE  IInv'
<1>1. TableInv
  BY IInvParts
<1>2. /\ TableInv' /\ sessions' = sessions
      /\ \A r \in DOMAIN requests : request_completed(r)' <=> request_completed(r)
  BY <1>1, TableFrame DEF reacquire, table, TableInv, TableType
<1> QED
  BY <1>2, NoOpForm, ShrinkingSection DEF reacquire, table, Delivering

LEMMA all_posted_Inv ==
    ASSUME IInv, NEW p \in Proc, InSection(p), all_posted(p)
    PROVE  IInv'
<1>1. TableInv
  BY IInvParts
<1>2. /\ TableInv' /\ sessions' = sessions
      /\ \A r \in DOMAIN requests : request_completed(r)' <=> request_completed(r)
  BY <1>1, TableFrame DEF all_posted, table, TableInv, TableType
<1> QED
  BY <1>2, NoOpForm, ShrinkingSection DEF all_posted, table

LEMMA cancel_Inv ==
    ASSUME IInv, NEW p \in Proc, InSection(p), cancel(p)
    PROVE  IInv'
<1>1. TableInv
  BY IInvParts
<1>2. PICK r \in RequestIds : r = op[p].req
  BY IInvParts DEF cancel, ThreadType, Ops
<1>3. /\ UNCHANGED <<evh_events, evh_majors, evh_request_id, evh_processes, history>>
      /\ Continue(p, NoOp) /\ op[p].kind = "cancel"
  BY DEF cancel
<1>4. /\ TableInv' /\ sessions' = sessions
      /\ \A x \in DOMAIN requests' :
            /\ x \in DOMAIN requests /\ requests'[x] = requests[x]
            /\ request_completed(x)' <=> request_completed(x)
  <2>1. CASE r \in DOMAIN requests /\ Owner[requests[r].ses] = p
    <3>1. delete_request(r)
      BY <1>2, <2>1 DEF cancel
    <3>2. /\ UNCHANGED <<evh_events, evh_majors, evh_request_id, posted, told, seen, evh_processes>>
          /\ PartialFcn(evh_processes, Proc, Flags)' /\ DOMAIN evh_processes' = DOMAIN evh_processes
          /\ told' \in [Session -> [Event -> Nat]] /\ seen' \in [Session -> [Event -> Nat]]
      BY <1>1, <1>3 DEF history, TableInv, TableType
    <3> QED
      BY <1>1, <2>1, <3>1, <3>2, DeleteRequest
  <2>2. CASE ~ (r \in DOMAIN requests /\ Owner[requests[r].ses] = p)
    <3>1. UNCHANGED <<requests, ses_interests>>
      BY <1>2, <2>2 DEF cancel
    <3> QED
      BY <1>1, <1>3, <3>1, TableFrame DEF TableInv, TableType
  <2> QED
    BY <2>1, <2>2
<1> QED
  BY <1>3, <1>4, NoOpForm, ShrinkingSection DEF Delivering

LEMMA delete_session_Inv ==
    ASSUME IInv, NEW p \in Proc, InSection(p), delete_session(p)
    PROVE  IInv'
<1>1. TableInv /\ Fits(p)
  BY IInvParts DEF CallsFit, InSection, Runs
<1>2. /\ delete_sessions({op[p].ses}) /\ UNCHANGED <<evh_request_id, evh_processes>>
      /\ Continue(p, NoOp) /\ op[p].kind = "delete_session"
  BY DEF delete_session
<1>3. op[p].ses \in sessions /\ Owner[op[p].ses] = p
  BY <1>1, <1>2 DEF Fits
<1>4. /\ TableInv' /\ sessions' = sessions \ {op[p].ses}
      /\ \A r \in DOMAIN requests' :
            /\ r \in DOMAIN requests /\ requests'[r] = requests[r]
            /\ request_completed(r)' <=> request_completed(r)
  <2>1. PartialFcn(evh_processes, Proc, Flags)'
    BY <1>1, <1>2 DEF TableInv, TableType
  <2>2. \A s \in sessions : Owner[s] \in DOMAIN evh_processes'
    BY <1>1, <1>2 DEF TableInv, BlocksExact
  <2> QED
    BY <1>1, <1>2, <1>3, <2>1, <2>2, DeleteSessions
<1> QED
  BY <1>2, <1>3, <1>4, NoOpForm, ShrinkingSection DEF Delivering

LEMMA exit_handler_Inv ==
    ASSUME IInv, NEW p \in Proc, InSection(p), exit_handler(p)
    PROVE  IInv'
<1>1. TableInv
  BY IInvParts
<1>2. /\ delete_sessions(SessionsOf(p)) /\ evh_request_id' = evh_request_id
      /\ evh_processes' = [q \in DOMAIN evh_processes \ {p} |-> evh_processes[q]]
      /\ Continue(p, [kind |-> "exited"]) /\ op[p].kind = "exit"
  BY DEF exit_handler, Without
<1>3. SessionsOf(p) \in SUBSET sessions /\ \A s \in sessions : s \in SessionsOf(p) <=> Owner[s] = p
  BY DEF SessionsOf
<1>4. /\ TableInv' /\ sessions' = sessions \ SessionsOf(p)
      /\ \A r \in DOMAIN requests' :
            /\ r \in DOMAIN requests /\ requests'[r] = requests[r]
            /\ request_completed(r)' <=> request_completed(r)
  <2>1. PartialFcn(evh_processes, Proc, Flags)'
    BY <1>1, <1>2 DEF TableInv, TableType, PartialFcn
  <2>2. \A s \in sessions \ SessionsOf(p) : Owner[s] \in DOMAIN evh_processes'
    BY <1>1, <1>2, <1>3 DEF TableInv, BlocksExact
  <2> QED
    BY <1>1, <1>2, <1>3, <2>1, <2>2, DeleteSessions
<1>5. [kind |-> "exited"] \in Ops /\ [kind |-> "exited"].kind = "exited"
  BY CallForms
<1> QED
  BY <1>2, <1>3, <1>4, <1>5, ShrinkingSection DEF Delivering

LEMMA post_Inv ==
    ASSUME IInv, NEW p \in Proc, InSection(p), NEW e \in Event, post(p, e)
    PROVE  IInv'
<1> DEFINE wake == {Owner[requests[r].ses] : r \in Satisfied(e, Raised(p, e))}
           rest == op[p].events \ {e}
           next == IF rest = {} THEN [kind |-> "deliver"] ELSE [op[p] EXCEPT !.events = rest]
<1>1. TableInv /\ ThreadType
  BY IInvParts
<1>2. op[p].kind = "post" /\ op[p].events \in SUBSET Event /\ op[p].count \in Nat
  BY <1>1, OpForms, EventAssumption DEF post, ThreadType
<1>3. PICK o \in Ops : o = next /\ o.kind \in {"post", "deliver"}
  <2>1. CASE rest = {}
    BY <2>1, CallForms
  <2>2. CASE rest # {}
    <3>1. PICK E \in SUBSET Event : E = rest
      BY <1>2
    <3>2. PICK o \in Ops : o = op[p]
      BY <1>1 DEF ThreadType
    <3>3. o.kind = "post" /\ next = [o EXCEPT !.events = E]
      BY <1>2, <2>2, <3>1, <3>2
    <3>4. [o EXCEPT !.events = E] \in Ops /\ [o EXCEPT !.events = E].kind = "post"
      BY <3>3, OpForms
    <3> QED
      BY <3>3, <3>4
  <2> QED
    BY <2>1, <2>2
<1>4. PICK n \in Nat : n = op[p].count
  BY <1>2
<1>5. /\ Continue(p, o)
      /\ posted' = [posted EXCEPT ![e] = @ + n]
      /\ UNCHANGED <<evh_majors, evh_request_id, requests, ses_interests, told, seen>>
  BY <1>3, <1>4 DEF post
<1>6. /\ e \in DOMAIN evh_events =>
            /\ evh_events' = [evh_events EXCEPT ![e] = evh_events[e] + n]
            /\ evh_processes' = [q \in DOMAIN evh_processes |->
                  [evh_processes[q] EXCEPT !.wakeup = @ \/ q \in wake]]
      /\ e \notin DOMAIN evh_events => UNCHANGED <<evh_events, evh_processes>>
  BY <1>4 DEF post, Raised
<1>7. /\ DOMAIN evh_processes' = DOMAIN evh_processes
      /\ PartialFcn(evh_processes, Proc, Flags)'
      /\ \A q \in DOMAIN evh_processes :
            /\ evh_processes[q].pending => evh_processes'[q].pending
            /\ evh_processes[q].wakeup => evh_processes'[q].wakeup
            /\ e \in DOMAIN evh_events /\ q \in wake => evh_processes'[q].wakeup
  <2>1. PartialFcn(evh_processes, Proc, Flags)
    BY <1>1 DEF TableInv, TableType
  <2>2. CASE e \notin DOMAIN evh_events
    BY <1>6, <2>1, <2>2
  <2>3. CASE e \in DOMAIN evh_events
    <3>1. ASSUME NEW q \in DOMAIN evh_processes
          PROVE  /\ evh_processes'[q] \in Flags
                 /\ evh_processes[q].pending => evh_processes'[q].pending
                 /\ evh_processes[q].wakeup => evh_processes'[q].wakeup
                 /\ q \in wake => evh_processes'[q].wakeup
      <4>1. evh_processes'[q] = [evh_processes[q] EXCEPT !.wakeup = @ \/ q \in wake]
        BY <1>6, <2>3
      <4>2. evh_processes[q] \in Flags
        BY <2>1 DEF PartialFcn
      <4> HIDE DEF wake
      <4> QED
        BY <4>1, <4>2 DEF Flags
    <3>2. DOMAIN evh_processes' = DOMAIN evh_processes
      BY <1>6, <2>3
    <3>3. PartialFcn(evh_processes, Proc, Flags)'
      BY <1>6, <2>1, <2>3, <3>1, <3>2 DEF PartialFcn
    <3> QED
      BY <3>1, <3>2, <3>3
  <2> QED
    BY <2>2, <2>3
<1>8. /\ TableInv' /\ sessions' = sessions
      /\ \A r \in DOMAIN requests :
            request_completed(r)' =>
               \/ request_completed(r)
               \/ e \in DOMAIN evh_events /\ r \in Satisfied(e, evh_events[e] + n)
  BY <1>1, <1>5, <1>6, <1>7, PostEvent
<1>9. ThreadType' /\ ThreadsCounted' /\ op'[p] = o /\ \A q \in Proc \ {p} : op'[q] = op[q]
  BY <1>5, SectionThreads
<1>10. alive' = alive
  BY DEF InSection
<1>11. NumbersLeft'
  BY <1>1, <1>3, <1>5, <1>8, <1>9, <1>10, NumbersKept DEF Queuing, ThreadType
<1>12. CallsFit'
  <2>1. Fits(p)'
    BY <1>3, <1>9 DEF Fits, Queuing
  <2> QED
    BY <1>1, <1>7, <1>8, <1>9, <1>10, <2>1, OthersFit DEF ThreadType
<1>13. NoLostWakeup'
  <2> SUFFICES ASSUME NEW r \in DOMAIN requests', NEW t, t = requests'[r].ses,
                      Owner[t] \in alive', request_completed(r)'
               PROVE  Tended(Owner[t], t)'
    BY DEF NoLostWakeup
  <2>1. r \in DOMAIN requests /\ t = requests[r].ses /\ Owner[t] \in DOMAIN evh_processes
    BY <1>1, <1>5 DEF TableInv, BlocksExact
  <2>2. Delivering(p)' /\ WakeupEntrusted'
    BY <1>3, <1>9 DEF Delivering, WakeupEntrusted
  <2>3. CASE e \in DOMAIN evh_events /\ r \in Satisfied(e, evh_events[e] + n)
    <3>1. Owner[t] \in wake
      BY <1>4, <2>1, <2>3 DEF Raised
    <3>2. evh_processes'[Owner[t]].wakeup
      BY <1>7, <2>1, <2>3, <3>1
    <3> QED
      BY <2>2, <3>2 DEF Tended
  <2>4. CASE request_completed(r)
    <3>1. Tended(Owner[t], t)
      BY <1>10, <2>1, <2>4, IInvParts DEF NoLostWakeup
    <3>2. op[p].kind # "kill"
      BY <1>2
    <3> QED
      BY <1>5, <1>7, <2>1, <2>2, <3>1, <3>2, SectionTends
  <2> QED
    BY <1>8, <2>1, <2>3, <2>4
<1> QED
  BY <1>8, <1>9, <1>11, <1>12, <1>13, IInvPrime

LEMMA post_process_Inv ==
    ASSUME IInv, NEW p \in Proc, InSection(p), NEW q \in Proc, post_process(p, q)
    PROVE  IInv'
<1> DEFINE marked == [wakeup |-> FALSE, pending |-> TRUE]
<1>1. TableInv /\ ThreadType
  BY IInvParts
<1>2. PICK o \in Ops : /\ o = IF q = p THEN op[p] ELSE [kind |-> "kill", proc |-> q]
                       /\ o.kind \in {"deliver", "kill"}
  BY <1>1, CallForms DEF post_process, ThreadType
<1>3. /\ op[p].kind = "deliver" /\ Continue(p, o) /\ q \in DOMAIN evh_processes
      /\ evh_processes' = [evh_processes EXCEPT ![q] = marked]
      /\ UNCHANGED <<evh_events, evh_majors, evh_request_id, requests, ses_interests, history>>
  BY <1>2 DEF post_process, Woken
<1>4. /\ PartialFcn(evh_processes, Proc, Flags)' /\ DOMAIN evh_processes' = DOMAIN evh_processes
      /\ evh_processes'[q] = marked
      /\ \A x \in DOMAIN evh_processes \ {q} : evh_processes'[x] = evh_processes[x]
  BY <1>1, <1>3, NewFlags DEF TableInv, TableType, PartialFcn
<1>5. /\ TableInv' /\ sessions' = sessions
      /\ \A r \in DOMAIN requests : request_completed(r)' <=> request_completed(r)
  BY <1>1, <1>3, <1>4, TableFrame
<1>6. ThreadType' /\ ThreadsCounted' /\ op'[p] = o /\ \A x \in Proc \ {p} : op'[x] = op[x]
  BY <1>3, SectionThreads
<1>7. alive' = alive
  BY DEF InSection
<1>8. NumbersLeft'
  BY <1>1, <1>2, <1>3, <1>5, <1>6, <1>7, NumbersKept DEF Queuing, ThreadType
<1>9. CallsFit'
  <2>1. Fits(p)'
    BY <1>2, <1>6 DEF Fits, Queuing
  <2> QED
    BY <1>1, <1>4, <1>5, <1>6, <1>7, <2>1, OthersFit DEF ThreadType
<1>10. NoLostWakeup'
  <2>1. ASSUME NEW s \in sessions', Tended(Owner[s], s)
        PROVE  Tended(Owner[s], s)'
    <3>1. Owner[s] \in DOMAIN evh_processes
      BY <1>1, <1>5 DEF TableInv, BlocksExact
    <3>2. CASE Owner[s] = q /\ q = p
      BY <1>4, <3>2, SectionMarks
    <3>3. CASE Owner[s] = q /\ q # p
      <4>1. KillEntrusted(q)'
        BY <1>2, <1>6, <3>3 DEF KillEntrusted
      <4> QED
        BY <1>4, <3>3, <4>1 DEF Tended
    <3>4. CASE Owner[s] # q
      <4>1. Delivering(p)' /\ op[p].kind # "kill"
        BY <1>2, <1>3, <1>6 DEF Delivering
      <4>2. evh_processes'[Owner[s]] = evh_processes[Owner[s]]
        BY <1>4, <3>1, <3>4
      <4> QED
        BY <1>3, <2>1, <3>1, <4>1, <4>2, SectionTends
    <3> QED
      BY <3>2, <3>3, <3>4
  <2> QED
    BY <1>3, <1>5, <1>7, <2>1, WakeupsKept
<1> QED
  BY <1>5, <1>6, <1>8, <1>9, <1>10, IInvPrime

(* Every section of the table keeps the invariant. *)
LEMMA Acquired_Inv ==
    ASSUME IInv, NEW p \in Proc, Acquired(p)
    PROVE  IInv'
<1>1. InSection(p) /\ Section(p)
  BY DEF Acquired, InSection
<1> QED
  BY <1>1, create_process_Inv, create_session_Inv, que_Inv, reacquire_Inv, cancel_Inv,
     delete_session_Inv, exit_handler_Inv, all_posted_Inv, post_Inv, post_process_Inv
     DEF Section


-----------------------------------------------------------------------------
(* The steps outside of the sections leave the table alone. *)

(* A process that is marked pending will look at its sessions. *)
Roused(p) == signalled[p] \/ at[p] # "run" \/ handler[p] # "none" \/ KillEntrusted(p)

(* A step of the thread or the handler of one process that leaves the      *)
(* table alone.                                                            *)
LEMMA OutsideStep ==
    ASSUME IInv, NEW p \in Proc, UNCHANGED <<table, history>>, alive' \subseteq alive,
           ThreadType', ThreadsCounted', NumbersLeft',
           p \in alive' => Fits(p)',
           \A q \in Proc \ {p} : op'[q] = op[q],
           Delivering(p) => Delivering(p)',
           \A x \in alive' :
              /\ x \in DOMAIN evh_processes /\ evh_processes[x].pending /\ Roused(x) => Roused(x)'
              /\ handler[x] # "none" /\ scan[x] # 0 => handler'[x] # "none" /\ scan'[x] = scan[x]
    PROVE  IInv'
<1>1. TableInv /\ ThreadType
  BY IInvParts
<1>2. /\ TableInv' /\ sessions' = sessions
      /\ \A r \in DOMAIN requests : request_completed(r)' <=> request_completed(r)
  <2>1. PartialFcn(evh_processes, Proc, Flags)'
    BY <1>1 DEF TableInv, TableType, table
  <2> QED
    BY <1>1, <2>1, TableFrame DEF table
<1>3. CallsFit'
  BY <1>1, <1>2, OthersFit DEF ThreadType, table
<1>4. NoLostWakeup'
  <2>1. ASSUME NEW s \in sessions', Owner[s] \in alive', Tended(Owner[s], s)
        PROVE  Tended(Owner[s], s)'
    <3>1. Owner[s] \in DOMAIN evh_processes /\ evh_processes' = evh_processes
      BY <1>1, <1>2 DEF TableInv, BlocksExact, table
    <3>2. WakeupEntrusted => WakeupEntrusted'
      BY DEF WakeupEntrusted, Delivering
    <3>3. CASE evh_processes[Owner[s]].wakeup /\ WakeupEntrusted
      BY <3>1, <3>2, <3>3 DEF Tended
    <3>4. CASE evh_processes[Owner[s]].pending /\ Roused(Owner[s])
      BY <2>1, <3>1, <3>4 DEF Tended, Roused
    <3>5. CASE handler[Owner[s]] # "none" /\ scan[Owner[s]] # 0 /\ scan[Owner[s]] <= s
      BY <2>1, <3>5 DEF Tended
    <3> QED
      BY <2>1, <3>3, <3>4, <3>5 DEF Tended, Roused
  <2>2. \A r \in DOMAIN requests' :
           /\ r \in DOMAIN requests /\ requests'[r] = requests[r]
           /\ request_completed(r)' => request_completed(r)
    BY <1>2 DEF table
  <2> QED
    BY <1>2, <2>1, <2>2, WakeupsKept
<1> QED
  BY <1>2, <1>3, <1>4, IInvPrime

(* A call begins: its process waits for the semaphore. *)
LEMMA CallBegins ==
    ASSUME IInv, NEW p \in Proc, NEW o \in Ops, Calls(p, o), NumbersLeft', Fits(p)'
    PROVE  IInv'
<1>1. TableInv /\ ThreadType /\ ThreadsCounted
  BY IInvParts
<1>2. /\ p \in alive /\ handler[p] = "none" /\ at[p] = "run" /\ op[p] = NoOp
      /\ op' = [op EXCEPT ![p] = o]
      /\ acquire_count' = [acquire_count EXCEPT ![p] = acquire_count[p] + 1]
      /\ at' = [at EXCEPT ![p] = "acquire"]
      /\ UNCHANGED <<mutex, table, alive, signalled, handler, scan, history>>
  BY DEF Calls, Idle, Runs, Continue
<1>3. acquire_count[p] = 0
  BY <1>1, <1>2 DEF ThreadsCounted
<1>4. ThreadType' /\ ThreadsCounted'
  <2>1. ThreadType'
    BY <1>1, <1>2, <1>3 DEF ThreadType
  <2>2. ThreadsCounted'
    BY <1>1, <1>2, <1>3 DEF ThreadsCounted, ThreadType
  <2> QED
    BY <2>1, <2>2
<1>5. op'[p] = o /\ \A q \in Proc \ {p} : op'[q] = op[q]
  BY <1>1, <1>2 DEF ThreadType
<1>6. ~ Delivering(p) /\ op[p].kind # "kill"
  BY <1>2, NoOpForm DEF Delivering
<1>7. \A x \in alive : Roused(x) => Roused(x)'
  <2>1. \A x \in alive : KillEntrusted(x) => KillEntrusted(x)'
    BY <1>5, <1>6 DEF KillEntrusted
  <2> QED
    BY <1>1, <1>2, <2>1 DEF Roused, ThreadType
<1> QED
  BY <1>2, <1>4, <1>5, <1>6, <1>7, OutsideStep

LEMMA Call_Inv ==
    ASSUME IInv, NEW p \in Proc, Call(p)
    PROVE  IInv'
<1>1. TableInv /\ ThreadType /\ NumbersLeft
  BY IInvParts
<1>2. ASSUME NEW o \in Ops, Calls(p, o),
             o.kind \notin {"create_process", "create_session", "que"}
      PROVE  NumbersLeft' /\ op'[p] = o /\ ~ Queuing(p)'
  <2>1. /\ op'[p] = o /\ \A q \in Proc \ {p} : op'[q] = op[q]
        /\ alive' = alive /\ UNCHANGED <<table, history>>
    BY <1>1, <1>2 DEF Calls, Continue, ThreadType
  <2>2. \A q \in alive' : Queuing(q)' => q \in alive /\ Queuing(q)
    BY <1>1, <1>2, <2>1 DEF Queuing, ThreadType
  <2>3. 
    /\ evh_request_id' = evh_request_id /\ requests' = requests
    /\ {q \in alive' : Queuing(q)'} \in SUBSET QueuingProcs
    BY <2>1, <2>2 DEF table, QueuingProcs
  <2>4. Cardinality({q \in alive' : Queuing(q)'}) \in Nat
        /\ Cardinality({q \in alive' : Queuing(q)'}) <= Cardinality(QueuingProcs)
    BY <1>1, <2>3, QueuingFinite, FS_Subset, FS_CardinalityType
  <2>5. NumbersLeft'
    BY <1>1, <2>3, <2>4, QueuingFinite, EventAssumption
       DEF NumbersLeft, QueuingProcs, TableInv, TableType
  <2> QED
    BY <1>2, <2>1, <2>5 DEF Queuing
<1>3. ASSUME NEW s \in Session, NEW events \in EventBlocks, CallQue(p, s, events)
      PROVE  IInv'
  <2> DEFINE kind == IF s \in sessions THEN "que"
                     ELSE IF p \in DOMAIN evh_processes THEN "create_session"
                     ELSE "create_process"
  <2>1. PICK o \in Ops :
           /\ Calls(p, o) /\ o.kind = kind /\ o.ses = s
    BY <1>3, CallForms DEF CallQue
  <2>2. /\ op'[p] = o /\ \A q \in Proc \ {p} : op'[q] = op[q]
        /\ alive' = alive /\ UNCHANGED <<table, history>>
        /\ p \in alive /\ op[p] = NoOp
    BY <1>1, <2>1 DEF Calls, Continue, ThreadType, Idle, Runs
  <2>3. {q \in alive' : Queuing(q)'} = QueuingProcs \cup {p} /\ p \notin QueuingProcs
    <3>1. ~ Queuing(p) /\ Queuing(p)'
      BY <2>1, <2>2, NoOpForm DEF Queuing
    <3>2. \A q \in Proc \ {p} : Queuing(q)' <=> Queuing(q)
      BY <2>2 DEF Queuing
    <3> QED
      BY <1>1, <2>2, <3>1, <3>2 DEF QueuingProcs, ThreadType
  <2>4. Cardinality({q \in alive' : Queuing(q)'}) = Cardinality(QueuingProcs) + 1
    <3>1. Cardinality(QueuingProcs \cup {p}) = Cardinality(QueuingProcs) + 1
      BY <1>1, <2>3, QueuingFinite, FS_AddElement
    <3> QED
      BY <2>3, <3>1, Zenon
  <2>5. NumbersLeft'
    <3>1. evh_request_id + Cardinality(QueuingProcs) < MaxRequests
      BY <1>3 DEF CallQue, QueuingProcs
    <3>2. evh_request_id' = evh_request_id /\ requests' = requests
      BY <2>2 DEF table
    <3> QED
      BY <1>1, <2>4, <3>1, <3>2, QueuingFinite, EventAssumption
         DEF NumbersLeft, TableInv, TableType
  <2>6. Fits(p)'
    <3>1. Owner[s] = p
      BY <1>3 DEF CallQue
    <3>2. evh_processes' = evh_processes /\ sessions' = sessions
      BY <2>2 DEF table, sessions
    <3>3. s \in sessions => p \in DOMAIN evh_processes
      BY <1>1, <3>1 DEF TableInv, BlocksExact
    <3> QED
      BY <2>1, <2>2, <3>1, <3>2, <3>3 DEF Fits
  <2> QED
    BY <2>1, <2>5, <2>6, CallBegins
<1>4. ASSUME NEW r \in RequestIds, CallCancel(p, r)
      PROVE  IInv'
  <2>1. PICK o \in Ops : Calls(p, o) /\ o.kind = "cancel"
    BY <1>4, CallForms DEF CallCancel
  <2>2. Fits(p)' /\ NumbersLeft'
    BY <1>2, <2>1 DEF Fits
  <2> QED
    BY <2>1, <2>2, CallBegins
<1>5. ASSUME NEW s \in Session, CallDelete(p, s)
      PROVE  IInv'
  <2>1. PICK o \in Ops : Calls(p, o) /\ o.kind = "delete_session" /\ o.ses = s
    BY <1>5, CallForms DEF CallDelete
  <2>2. Owner[s] = p /\ s \in sessions'
    BY <1>5, <2>1 DEF CallDelete, SessionsOf, Calls, table, sessions
  <2>3. Fits(p)' /\ NumbersLeft'
    BY <1>2, <2>1, <2>2 DEF Fits
  <2> QED
    BY <2>1, <2>3, CallBegins
<1>6. ASSUME NEW events \in Postings, NEW n \in Counts, CallPost(p, events, n)
      PROVE  IInv'
  <2>1. PICK o \in Ops : Calls(p, o) /\ o.kind = "post"
    BY <1>6, CallForms, EventAssumption DEF CallPost
  <2>2. Fits(p)' /\ NumbersLeft'
    BY <1>2, <2>1 DEF Fits
  <2> QED
    BY <2>1, <2>2, CallBegins
<1>7. ASSUME CallExit(p)
      PROVE  IInv'
  <2>1. PICK o \in Ops : Calls(p, o) /\ o.kind = "exit"
    BY <1>7, CallForms DEF CallExit
  <2>2. Fits(p)' /\ NumbersLeft'
    BY <1>2, <2>1 DEF Fits
  <2> QED
    BY <2>1, <2>2, CallBegins
<1> QED
  BY <1>3, <1>4, <1>5, <1>6, <1>7 DEF Call


(* A step that leaves the table and what the processes do next alone. *)
LEMMA SameCalls ==
    ASSUME IInv, UNCHANGED <<table, history, op>>, alive' \subseteq alive,
           ThreadType', ThreadsCounted',
           \A x \in alive' :
              /\ x \in DOMAIN evh_processes /\ evh_processes[x].pending /\ Roused(x) => Roused(x)'
              /\ handler[x] # "none" /\ scan[x] # 0 => handler'[x] # "none" /\ scan'[x] = scan[x],
           NEW p \in Proc
    PROVE  IInv'
<1>1. TableInv /\ ThreadType /\ CallsFit
  BY IInvParts
<1>2. TableInv'
  <2>1. PartialFcn(evh_processes, Proc, Flags)'
    BY <1>1 DEF TableInv, TableType, table
  <2> QED
    BY <1>1, <2>1, TableFrame DEF table
<1>3. NumbersLeft'
  BY <1>2, NumbersKept DEF table, Queuing
<1>4. p \in alive' => Fits(p)'
  BY <1>1 DEF CallsFit, Fits, Queuing, table, sessions
<1>5. Delivering(p) => Delivering(p)'
  BY DEF Delivering
<1> QED
  BY <1>3, <1>4, <1>5, OutsideStep

LEMMA acquire_Inv ==
    ASSUME IInv, NEW p \in Proc, acquire(p)
    PROVE  IInv'
<1>1. ThreadType /\ ThreadsCounted
  BY IInvParts
<1>2. /\ p \in alive /\ handler[p] = "none" /\ at[p] = "run"
      /\ acquire_count' = [acquire_count EXCEPT ![p] = acquire_count[p] + 1]
      /\ at' = [at EXCEPT ![p] = "acquire"]
      /\ UNCHANGED <<mutex, table, alive, op, signalled, handler, scan, history>>
  BY DEF acquire, Runs
<1>3. acquire_count[p] = 0
  BY <1>1, <1>2 DEF ThreadsCounted
<1>4. ThreadType' /\ ThreadsCounted'
  <2>1. ThreadType'
    BY <1>1, <1>2, <1>3 DEF ThreadType
  <2>2. ThreadsCounted'
    BY <1>1, <1>2, <1>3 DEF ThreadsCounted, ThreadType
  <2> QED
    BY <2>1, <2>2
<1>5. \A x \in alive : Roused(x) => Roused(x)'
  BY <1>1, <1>2 DEF Roused, KillEntrusted, ThreadType
<1> QED
  BY <1>2, <1>4, <1>5, SameCalls

(* EnterHandler(), when the count is down. *)
LEMMA EnterCounted ==
    ASSUME ThreadType, ThreadsCounted, NEW p \in Proc, acquire_count[p] = 0, EnterHandler(p),
           at' \in [Proc -> {"run", "acquire", "release"}],
           \A q \in Proc \ {p} : at'[q] = at[q], at'[p] # "acquire",
           mutex' \in Proc \cup {NoProc}, alive' \subseteq Proc, UNCHANGED <<op, scan>>
    PROVE  ThreadType' /\ ThreadsCounted' /\ handler'[p] # "none"
<1>1. /\ signalled' = [signalled EXCEPT ![p] = FALSE]
      /\ acquire_count' = [acquire_count EXCEPT ![p] = acquire_count[p] + 1]
      /\ handler' = [handler EXCEPT ![p] = "acquire"]
  BY DEF EnterHandler
<1>2. ThreadType'
  BY <1>1 DEF ThreadType
<1>3. ThreadsCounted'
  BY <1>1 DEF ThreadsCounted, ThreadType
<1> QED
  BY <1>1, <1>2, <1>3 DEF ThreadType

LEMMA release_Inv ==
    ASSUME IInv, NEW p \in Proc, release(p)
    PROVE  IInv'
<1>1. ThreadType /\ ThreadsCounted /\ TableInv
  BY IInvParts
<1>2. /\ p \in alive /\ handler[p] = "none" /\ at[p] = "release"
      /\ mutex' = NoProc /\ at' = [at EXCEPT ![p] = "run"]
      /\ alive' = IF op[p].kind = "exited" THEN alive \ {p} ELSE alive
      /\ UNCHANGED <<table, op, scan, history>>
  BY DEF release, Runs
<1>3. /\ acquire_count[p] = 0 /\ alive' \subseteq alive /\ at'[p] = "run"
      /\ at' \in [Proc -> {"run", "acquire", "release"}]
      /\ \A q \in Proc \ {p} : at'[q] = at[q]
  BY <1>1, <1>2 DEF ThreadsCounted, ThreadType
<1>4. CASE Pending(p)
  <2>1. EnterHandler(p)
    BY <1>4 DEF release
  <2>2. ThreadType' /\ ThreadsCounted' /\ handler'[p] # "none"
    BY <1>1, <1>2, <1>3, <2>1, EnterCounted DEF ThreadType
  <2>3. \A x \in Proc \ {p} : signalled'[x] = signalled[x] /\ handler'[x] = handler[x]
    BY <1>1, <2>1 DEF EnterHandler, ThreadType
  <2>4. \A x \in Proc : Roused(x) => Roused(x)'
    BY <1>2, <1>3, <2>2, <2>3 DEF Roused, KillEntrusted
  <2>5. \A x \in alive' : handler[x] # "none" => handler'[x] # "none" /\ scan'[x] = scan[x]
    BY <1>1, <1>2, <1>3, <2>3 DEF ThreadType
  <2> QED
    BY <1>1, <1>2, <1>3, <2>2, <2>4, <2>5, SameCalls DEF ThreadType
<1>5. CASE ~ Pending(p)
  <2>1. UNCHANGED <<signalled, acquire_count, handler>>
    BY <1>5 DEF release
  <2>2. ThreadType' /\ ThreadsCounted'
    <3>1. ThreadType'
      BY <1>1, <1>2, <1>3, <2>1 DEF ThreadType
    <3>2. ThreadsCounted'
      BY <1>1, <1>2, <1>3, <2>1 DEF ThreadType, ThreadsCounted
    <3> QED
      BY <3>1, <3>2
  <2>3. \A x \in Proc \ {p} : Roused(x) => Roused(x)'
    BY <1>2, <1>3, <2>1 DEF Roused, KillEntrusted
  <2>4. ~ (p \in DOMAIN evh_processes /\ evh_processes[p].pending)
    BY <1>5 DEF Pending
  <2> QED
    BY <1>1, <1>2, <1>3, <2>1, <2>2, <2>3, <2>4, SameCalls DEF ThreadType
<1> QED
  BY <1>4, <1>5

(* ISC_kill(): the signal takes over from the process that sends it. *)
LEMMA ISC_kill_Inv ==
    ASSUME IInv, NEW p \in Proc, ISC_kill(p)
    PROVE  IInv'
<1> DEFINE o == [kind |-> "deliver"]
<1>1. ThreadType /\ ThreadsCounted /\ TableInv
  BY IInvParts
<1>2. PICK q \in Proc : q = op[p].proc
  BY <1>1, OpForms DEF ISC_kill, ThreadType
<1>3. /\ p \in alive /\ op[p].kind = "kill"
      /\ signalled' = [signalled EXCEPT ![q] = signalled[q] \/ q \in alive]
      /\ op' = [op EXCEPT ![p] = o]
      /\ UNCHANGED <<mutex, table, alive, acquire_count, at, handler, scan, history>>
  BY <1>2 DEF ISC_kill, Runs, Continue
<1>4. o \in Ops /\ o.kind = "deliver"
  BY CallForms
<1> HIDE DEF o
<1>5. op'[p] = o /\ \A x \in Proc \ {p} : op'[x] = op[x]
  BY <1>1, <1>3 DEF ThreadType
<1>6. /\ \A x \in Proc \ {q} : signalled'[x] = signalled[x]
      /\ q \in alive => signalled'[q]
      /\ signalled' \in [Proc -> BOOLEAN]
  BY <1>1, <1>3 DEF ThreadType
<1>7. ThreadType'
  <2>1. op' \in [Proc -> Ops]
    BY <1>1, <1>3, <1>4 DEF ThreadType
  <2> QED
    BY <1>1, <1>3, <1>6, <2>1 DEF ThreadType
<1>8. ThreadsCounted'
  BY <1>1, <1>3 DEF ThreadsCounted
<1>9. \A x \in alive : Roused(x) => Roused(x)'
  <2>1. ASSUME NEW x \in alive, KillEntrusted(x)
        PROVE  KillEntrusted(x)' \/ signalled'[x]
    <3>1. PICK y \in Proc : op[y] = [kind |-> "kill", proc |-> x]
      BY <2>1 DEF KillEntrusted
    <3>2. CASE y = p
      BY <1>2, <1>6, <3>1, <3>2
    <3>3. CASE y # p
      BY <1>5, <3>1, <3>3 DEF KillEntrusted
    <3> QED
      BY <3>2, <3>3
  <2> QED
    BY <1>1, <1>3, <1>6, <2>1 DEF Roused, ThreadType
<1>10. NumbersLeft'
  <2>1. TableInv'
    <3>1. PartialFcn(evh_processes, Proc, Flags)'
      BY <1>1, <1>3 DEF TableInv, TableType, table
    <3> QED
      BY <1>1, <1>3, <3>1, TableFrame DEF table
  <2>2. \A x \in alive' : Queuing(x)' => x \in alive /\ Queuing(x)
    BY <1>1, <1>3, <1>4, <1>5 DEF Queuing, ThreadType
  <2> QED
    BY <1>3, <1>7, <2>1, <2>2, NumbersKept DEF table
<1>11. Fits(p)' /\ Delivering(p)'
  BY <1>4, <1>5 DEF Fits, Queuing, Delivering
<1> QED
  BY <1>3, <1>5, <1>7, <1>8, <1>9, <1>10, <1>11, OutsideStep

-----------------------------------------------------------------------------
(* The signal handler. *)

(* The signal is dropped only if the thread waits for the semaphore, and   *)
(* will find the mark when it releases the table.                          *)
LEMMA HandleSignal_Inv ==
    ASSUME IInv, NEW p \in Proc, HandleSignal(p)
    PROVE  IInv'
<1>1. ThreadType /\ ThreadsCounted /\ TableInv
  BY IInvParts
<1>2. /\ p \in alive /\ handler[p] = "none"
      /\ UNCHANGED <<mutex, table, alive, at, op, scan, history>>
  BY DEF HandleSignal, Runs
<1>3. CASE acquire_count[p] = 0
  <2>1. EnterHandler(p)
    BY <1>3 DEF HandleSignal
  <2>2. at[p] # "acquire"
    BY <1>1, <1>3 DEF ThreadsCounted
  <2>3. ThreadType' /\ ThreadsCounted' /\ handler'[p] # "none"
    BY <1>1, <1>2, <1>3, <2>1, <2>2, EnterCounted DEF ThreadType
  <2>4. \A x \in Proc \ {p} : signalled'[x] = signalled[x] /\ handler'[x] = handler[x]
    BY <1>1, <2>1 DEF EnterHandler, ThreadType
  <2>5. \A x \in Proc : Roused(x) => Roused(x)'
    BY <1>2, <2>3, <2>4 DEF Roused, KillEntrusted
  <2>6. \A x \in alive' : handler[x] # "none" => handler'[x] # "none" /\ scan'[x] = scan[x]
    BY <1>1, <1>2, <2>4 DEF ThreadType
  <2> QED
    BY <1>1, <1>2, <2>3, <2>5, <2>6, SameCalls DEF ThreadType
<1>4. CASE acquire_count[p] # 0
  <2>1. /\ signalled' = [signalled EXCEPT ![p] = FALSE]
        /\ UNCHANGED <<acquire_count, handler>>
    BY <1>4 DEF HandleSignal
  <2>2. at[p] # "run"
    BY <1>1, <1>2, <1>4 DEF ThreadsCounted
  <2>3. ThreadType' /\ ThreadsCounted'
    <3>1. ThreadType'
      BY <1>1, <1>2, <2>1 DEF ThreadType
    <3>2. ThreadsCounted'
      BY <1>1, <1>2, <2>1 DEF ThreadsCounted
    <3> QED
      BY <3>1, <3>2
  <2>4. \A x \in Proc : Roused(x) => Roused(x)'
    BY <1>1, <1>2, <2>1, <2>2 DEF Roused, KillEntrusted, ThreadType
  <2> QED
    BY <1>1, <1>2, <2>1, <2>3, <2>4, SameCalls DEF ThreadType
<1> QED
  BY <1>3, <1>4

LEMMA deliver_release_Inv ==
    ASSUME IInv, NEW p \in Proc, deliver_release(p)
    PROVE  IInv'
<1>1. ThreadType /\ ThreadsCounted /\ TableInv
  BY IInvParts
<1>2. /\ p \in alive /\ handler[p] = "release" /\ mutex' = NoProc
      /\ UNCHANGED <<table, alive, at, op, scan, history>>
  BY DEF deliver_release
<1>3. acquire_count[p] = 0 /\ at[p] # "acquire"
  BY <1>1, <1>2 DEF ThreadsCounted
<1>4. CASE scan[p] = 0 /\ (signalled[p] \/ Pending(p))
  <2>1. EnterHandler(p)
    BY <1>4 DEF deliver_release
  <2>2. ThreadType' /\ ThreadsCounted' /\ handler'[p] # "none"
    BY <1>1, <1>2, <1>3, <2>1, EnterCounted DEF ThreadType
  <2>3. \A x \in Proc \ {p} : signalled'[x] = signalled[x] /\ handler'[x] = handler[x]
    BY <1>1, <2>1 DEF EnterHandler, ThreadType
  <2>4. \A x \in Proc : Roused(x) => Roused(x)'
    BY <1>2, <2>2, <2>3 DEF Roused, KillEntrusted
  <2>5. \A x \in alive' : handler[x] # "none" => handler'[x] # "none" /\ scan'[x] = scan[x]
    BY <1>1, <1>2, <2>2, <2>3 DEF ThreadType
  <2> QED
    BY <1>1, <1>2, <2>2, <2>4, <2>5, SameCalls DEF ThreadType
<1>5. CASE ~ (scan[p] = 0 /\ (signalled[p] \/ Pending(p)))
  <2> DEFINE h == IF scan[p] = 0 THEN "none" ELSE "ast"
  <2>1. /\ signalled' = [signalled EXCEPT ![p] = signalled[p] \/ Pending(p)]
        /\ handler' = [handler EXCEPT ![p] = h]
        /\ UNCHANGED acquire_count
    BY <1>5 DEF deliver_release
  <2>2. /\ handler'[p] = h /\ \A x \in Proc \ {p} : handler'[x] = handler[x]
        /\ \A x \in Proc \ {p} : signalled'[x] = signalled[x]
        /\ handler' \in [Proc -> {"none", "acquire", "release", "ast"}]
    BY <1>1, <2>1 DEF ThreadType
  <2>3. signalled' \in [Proc -> BOOLEAN]
    <3>1. Pending(p) \in BOOLEAN
      BY <1>1 DEF Pending, TableInv, TableType, PartialFcn, Flags
    <3>2. PICK b \in BOOLEAN : b = (signalled[p] \/ Pending(p))
      OBVIOUS
    <3>3. signalled' = [signalled EXCEPT ![p] = b]
      BY <2>1, <3>2
    <3> QED
      BY <1>1, <3>3 DEF ThreadType
  <2>4. ThreadType' /\ ThreadsCounted'
    <3>1. ThreadType'
      BY <1>1, <1>2, <2>1, <2>2, <2>3 DEF ThreadType
    <3>2. ThreadsCounted'
      BY <1>1, <1>2, <1>3, <2>1, <2>2 DEF ThreadsCounted, ThreadType
    <3> QED
      BY <3>1, <3>2
  <2>5. \A x \in Proc \ {p} : Roused(x) => Roused(x)'
    BY <1>2, <2>2 DEF Roused, KillEntrusted
  <2>6. Pending(p) => scan[p] # 0 /\ Roused(p)'
    BY <1>5, <2>2 DEF Roused
  <2>7. \A x \in alive' : handler[x] # "none" /\ scan[x] # 0 =>
              handler'[x] # "none" /\ scan'[x] = scan[x]
    BY <1>1, <1>2, <2>2 DEF ThreadType
  <2> QED
    BY <1>1, <1>2, <2>4, <2>5, <2>6, <2>7, SameCalls DEF ThreadType, Pending
<1> QED
  BY <1>4, <1>5

LEMMA ast_returns_Inv ==
    ASSUME IInv, NEW p \in Proc, ast_returns(p)
    PROVE  IInv'
<1>1. ThreadType /\ ThreadsCounted
  BY IInvParts
<1>2. /\ p \in alive /\ handler[p] = "ast"
      /\ acquire_count' = [acquire_count EXCEPT ![p] = acquire_count[p] + 1]
      /\ handler' = [handler EXCEPT ![p] = "acquire"]
      /\ UNCHANGED <<mutex, table, alive, at, op, signalled, scan, history>>
  BY DEF ast_returns
<1>3. acquire_count[p] = 0 /\ at[p] # "acquire"
  BY <1>1, <1>2 DEF ThreadsCounted
<1>4. ThreadType' /\ ThreadsCounted'
  <2>1. ThreadType'
    BY <1>1, <1>2, <1>3 DEF ThreadType
  <2>2. ThreadsCounted'
    BY <1>1, <1>2, <1>3 DEF ThreadsCounted, ThreadType
  <2> QED
    BY <2>1, <2>2
<1>5. \A x \in alive : /\ Roused(x) => Roused(x)'
                       /\ handler[x] # "none" => handler'[x] # "none" /\ scan'[x] = scan[x]
  BY <1>1, <1>2 DEF Roused, KillEntrusted, ThreadType
<1> QED
  BY <1>2, <1>4, <1>5, SameCalls


(* A process dies: its marks do not matter, and what it had to deliver is  *)
(* still entrusted to it.                                                  *)
LEMMA Crash_Inv ==
    ASSUME IInv, NEW p \in Proc, Crash(p)
    PROVE  IInv'
<1>1. ThreadType /\ ThreadsCounted /\ TableInv
  BY IInvParts
<1>2. PICK o \in Ops : /\ o = IF Delivering(p) THEN op[p] ELSE NoOp
                       /\ o.kind = "none" \/ (o = op[p] /\ Delivering(p))
  BY <1>1, NoOpForm DEF ThreadType
<1>3. /\ alive' = alive \ {p}
      /\ mutex' = IF mutex = p THEN NoProc ELSE mutex
      /\ acquire_count' = [acquire_count EXCEPT ![p] = 0]
      /\ signalled' = [signalled EXCEPT ![p] = FALSE]
      /\ handler' = [handler EXCEPT ![p] = "none"]
      /\ scan' = [scan EXCEPT ![p] = 0]
      /\ at' = [at EXCEPT ![p] = "run"]
      /\ op' = [op EXCEPT ![p] = o]
      /\ UNCHANGED <<table, history>>
  BY <1>2 DEF Crash
<1>4. ThreadType'
  BY <1>1, <1>3 DEF ThreadType
<1>5. ThreadsCounted'
  BY <1>1, <1>3 DEF ThreadsCounted, ThreadType
<1>6. op'[p] = o /\ \A q \in Proc \ {p} : op'[q] = op[q]
  BY <1>1, <1>3 DEF ThreadType
<1>7. Delivering(p) => Delivering(p)'
  BY <1>2, <1>6 DEF Delivering
<1>8. \A x \in Proc \ {p} : Roused(x) => Roused(x)'
  <2>1. ASSUME NEW x \in Proc, KillEntrusted(x)
        PROVE  KillEntrusted(x)'
    <3>1. PICK y \in Proc : op[y] = [kind |-> "kill", proc |-> x]
      BY <2>1 DEF KillEntrusted
    <3>2. CASE y = p
      <4>1. Delivering(p)
        BY <3>1, <3>2 DEF Delivering
      <4>2. op'[p] = op[p]
        BY <1>2, <1>6, <4>1
      <4> QED
        BY <3>1, <3>2, <4>2 DEF KillEntrusted
    <3>3. CASE y # p
      BY <1>6, <3>1, <3>3 DEF KillEntrusted
    <3> QED
      BY <3>2, <3>3
  <2> QED
    BY <1>1, <1>3, <2>1 DEF Roused, ThreadType
<1>9. \A x \in alive' : handler'[x] = handler[x] /\ scan'[x] = scan[x]
  BY <1>1, <1>3 DEF ThreadType
<1>10. NumbersLeft'
  <2>1. TableInv'
    <3>1. PartialFcn(evh_processes, Proc, Flags)'
      BY <1>1, <1>3 DEF TableInv, TableType, table
    <3> QED
      BY <1>1, <1>3, <3>1, TableFrame DEF table
  <2>2. \A x \in alive' : Queuing(x)' => x \in alive /\ Queuing(x)
    BY <1>1, <1>3, <1>6 DEF Queuing, ThreadType
  <2> QED
    BY <1>3, <1>4, <2>1, <2>2, NumbersKept DEF table
<1> QED
  BY <1>1, <1>3, <1>4, <1>5, <1>6, <1>7, <1>8, <1>9, <1>10, OutsideStep DEF ThreadType

(* deliver(): the handler is never past a session it has still to tend to, *)
(* unless its process was marked again meanwhile.                          *)
LEMMA deliver_Inv ==
    ASSUME IInv, NEW p \in Proc, deliver(p)
    PROVE  IInv'
<1>1. TableInv /\ ThreadType /\ ThreadsCounted
  BY IInvParts
<1>2. /\ p \in alive /\ handler[p] = "acquire" /\ mutex' = p
      /\ acquire_count' = [acquire_count EXCEPT ![p] = acquire_count[p] - 1]
      /\ handler' = [handler EXCEPT ![p] = "release"]
      /\ evh_processes' = [evh_processes EXCEPT ![p].pending = @ /\ scan[p] # 0]
      /\ UNCHANGED <<evh_events, evh_majors, evh_request_id, alive, at, op, signalled, posted>>
  BY DEF deliver
<1>3. acquire_count[p] = 1 /\ at[p] # "acquire"
  BY <1>1, <1>2 DEF ThreadsCounted
<1>4. /\ handler'[p] = "release" /\ \A q \in Proc \ {p} : handler'[q] = handler[q]
      /\ handler' \in [Proc -> {"none", "acquire", "release", "ast"}]
      /\ acquire_count'[p] = 0 /\ \A q \in Proc \ {p} : acquire_count'[q] = acquire_count[q]
      /\ acquire_count' \in [Proc -> 0 .. 1]
  BY <1>1, <1>2, <1>3 DEF ThreadType
<1>5. /\ PartialFcn(evh_processes, Proc, Flags)' /\ DOMAIN evh_processes' = DOMAIN evh_processes
      /\ \A q \in DOMAIN evh_processes \ {p} : evh_processes'[q] = evh_processes[q]
      /\ p \in DOMAIN evh_processes =>
            /\ evh_processes'[p].wakeup = evh_processes[p].wakeup
            /\ scan[p] # 0 => evh_processes'[p].pending = evh_processes[p].pending
  <2>1. PartialFcn(evh_processes, Proc, Flags)
    BY <1>1 DEF TableInv, TableType
  <2>2. CASE p \notin DOMAIN evh_processes
    <3>1. evh_processes' = evh_processes
      BY <1>2, <2>1, <2>2 DEF PartialFcn
    <3> QED
      BY <2>1, <2>2, <3>1
  <2>3. CASE p \in DOMAIN evh_processes
    <3>1. PICK f \in Flags : f = evh_processes[p]
      BY <2>1, <2>3 DEF PartialFcn
    <3>2. PICK g \in Flags : /\ g = [f EXCEPT !.pending = f.pending /\ scan[p] # 0]
                             /\ g.wakeup = f.wakeup
                             /\ scan[p] # 0 => g.pending = f.pending
      <4>1. CASE scan[p] # 0
        <5>1. [f EXCEPT !.pending = f.pending /\ scan[p] # 0] = f
          BY <4>1 DEF Flags
        <5> QED
          BY <5>1
      <4>2. CASE scan[p] = 0
        <5>1. [f EXCEPT !.pending = f.pending /\ scan[p] # 0] = [f EXCEPT !.pending = FALSE]
          BY <4>2
        <5>2. [f EXCEPT !.pending = FALSE] \in Flags
              /\ [f EXCEPT !.pending = FALSE].wakeup = f.wakeup
          BY DEF Flags
        <5> QED
          BY <4>2, <5>1, <5>2
      <4> QED
        BY <4>1, <4>2
    <3>3. evh_processes' = [evh_processes EXCEPT ![p] = g]
      BY <1>2, <2>3, <3>1, <3>2
    <3> QED
      BY <2>1, <2>3, <3>1, <3>2, <3>3 DEF PartialFcn
  <2> QED
    BY <2>2, <2>3
<1>6. PICK s \in Session \cup {0} :
         /\ scan' = [scan EXCEPT ![p] = s]
         /\ TableInv' /\ sessions' = sessions
         /\ \A r \in DOMAIN requests' :
               /\ r \in DOMAIN requests /\ requests'[r] = requests[r]
               /\ request_completed(r)' => request_completed(r)
         /\ \A t \in Ready(p) : s # 0 /\ s <= t
  <2>1. CASE Ready(p) = {}
    <3>1. scan' = [scan EXCEPT ![p] = 0] /\ UNCHANGED <<requests, ses_interests, told, seen>>
      BY <2>1 DEF deliver
    <3>2. /\ TableInv' /\ sessions' = sessions
          /\ \A r \in DOMAIN requests : request_completed(r)' <=> request_completed(r)
      BY <1>1, <1>2, <1>5, <3>1, TableFrame DEF history
    <3> QED
      BY <2>1, <3>1, <3>2
  <2>2. CASE Ready(p) # {}
    <3>1. Ready(p) \in SUBSET Session /\ Ready(p) \in SUBSET Nat
      BY <1>1, EventAssumption DEF Ready, SessionsOf, sessions, TableInv, TableType, PartialFcn
    <3>2. PICK s \in Session : s = Least(Ready(p))
      BY <2>2, <3>1, LeastNat
    <3>3. s \in Ready(p) /\ \A t \in Ready(p) : s <= t
      BY <2>2, <3>1, <3>2, LeastNat
    <3> DEFINE done == {q \in RequestsOf(s) : request_completed(q)}
    <3>4. done \in SUBSET DOMAIN requests /\ done \in SUBSET Nat /\ done # {}
      BY <1>1, <3>3 DEF Ready, RequestsOf, TableInv, TableType
    <3>5. PICK r \in DOMAIN requests : r = Least(done) /\ requests[r].ses = s
      BY <3>4, LeastNat DEF RequestsOf
    <3>6. /\ scan' = [scan EXCEPT ![p] = s] /\ delete_request(r)
          /\ told' = [told EXCEPT ![s] =
                [e \in Event |-> IF e \in Events(r) THEN evh_events[e] + 1 ELSE told[s][e]]]
          /\ seen' = [seen EXCEPT ![s] =
                [e \in Event |-> IF e \in Events(r) THEN posted[e] ELSE seen[s][e]]]
      BY <2>2, <3>2, <3>5 DEF deliver, deliver_request
    <3> HIDE DEF done
    <3>7. \A e \in Events(r) : e \in DOMAIN evh_events /\ evh_events[e] \in Nat
      BY <1>1 DEF TableInv, TableType, BlocksExact, Interested, Events, PartialFcn
    <3>8. /\ told \in [Session -> [Event -> Nat]] /\ seen \in [Session -> [Event -> Nat]]
          /\ posted \in [Event -> Nat]
      BY <1>1 DEF TableInv, TableType
    <3>9. told' \in [Session -> [Event -> Nat]] /\ seen' \in [Session -> [Event -> Nat]]
      <4>1. [e \in Event |-> IF e \in Events(r) THEN evh_events[e] + 1 ELSE told[s][e]]
               \in [Event -> Nat]
        BY <3>7, <3>8
      <4>2. [e \in Event |-> IF e \in Events(r) THEN posted[e] ELSE seen[s][e]]
               \in [Event -> Nat]
        BY <3>8
      <4> QED
        BY <3>6, <3>8, <4>1, <4>2
    <3>10. \A t \in Session, e \in Event :
              \/ told'[t][e] = told[t][e] /\ seen'[t][e] = seen[t][e]
              \/ /\ t = requests[r].ses /\ e \in Events(r)
                 /\ told'[t][e] = evh_events[e] + 1 /\ seen'[t][e] = posted[e]
      BY <3>5, <3>6, <3>8
    <3>11. /\ TableInv' /\ sessions' = sessions
           /\ DOMAIN requests' = DOMAIN requests \ {r}
           /\ \A x \in DOMAIN requests' :
                 /\ requests'[x] = requests[x]
                 /\ request_completed(x)' <=> request_completed(x)
      BY <1>1, <1>2, <1>5, <3>6, <3>9, <3>10, DeleteRequest
    <3>12. s # 0
      BY EventAssumption
    <3> QED
      BY <3>3, <3>6, <3>11, <3>12
  <2> QED
    BY <2>1, <2>2
<1>7. /\ scan'[p] = s /\ \A q \in Proc \ {p} : scan'[q] = scan[q]
      /\ scan' \in [Proc -> Session \cup {0}]
  BY <1>1, <1>6 DEF ThreadType
<1>8. ThreadType' /\ ThreadsCounted'
  <2>1. ThreadType'
    BY <1>1, <1>2, <1>4, <1>7 DEF ThreadType
  <2>2. ThreadsCounted'
    BY <1>1, <1>2, <1>3, <1>4, <1>7 DEF ThreadsCounted
  <2> QED
    BY <2>1, <2>2
<1>9. NumbersLeft'
  BY <1>2, <1>6, <1>8, NumbersKept DEF Queuing
<1>10. CallsFit'
  <2>1. Fits(p)'
    <3>1. Fits(p)
      BY <1>2, IInvParts DEF CallsFit
    <3> QED
      BY <1>2, <1>5, <1>6, <3>1 DEF Fits, Queuing
  <2> QED
    BY <1>1, <1>2, <1>5, <1>6, <2>1, OthersFit DEF ThreadType
<1>11. NoLostWakeup'
  <2> SUFFICES ASSUME NEW r \in DOMAIN requests', NEW t, t = requests'[r].ses,
                      Owner[t] \in alive', request_completed(r)'
               PROVE  Tended(Owner[t], t)'
    BY DEF NoLostWakeup
  <2>1. /\ r \in DOMAIN requests /\ t = requests[r].ses /\ request_completed(r)
        /\ t \in sessions /\ t \in Session /\ Owner[t] \in DOMAIN evh_processes
        /\ Owner[t] \in alive /\ Owner[t] \in Proc
    BY <1>1, <1>2, <1>6 DEF TableInv, TableType, BlocksExact, ThreadType
  <2>2. Tended(Owner[t], t)
    BY <2>1, IInvParts DEF NoLostWakeup
  <2>3. WakeupEntrusted' = WakeupEntrusted /\ \A x : KillEntrusted(x)' = KillEntrusted(x)
    BY <1>2 DEF WakeupEntrusted, Delivering, KillEntrusted
  <2>4. CASE Owner[t] # p
    BY <1>2, <1>4, <1>5, <1>7, <2>1, <2>2, <2>3, <2>4 DEF Tended
  <2>5. CASE Owner[t] = p /\ t \in Ready(p)
    <3>1. s # 0 /\ s <= t
      BY <1>6, <2>5
    <3> QED
      BY <1>4, <1>7, <2>5, <3>1 DEF Tended
  <2>6. CASE Owner[t] = p /\ t \notin Ready(p)
    <3>1. ~ (t >= scan[p])
      BY <2>1, <2>6 DEF Ready, SessionsOf, RequestsOf
    <3>2. t \in Nat /\ scan[p] \in Nat
      BY <1>1, <2>1, EventAssumption DEF ThreadType
    <3>3. scan[p] # 0 /\ ~ (scan[p] <= t)
      BY <3>1, <3>2
    <3> QED
      BY <1>4, <1>5, <2>1, <2>2, <2>3, <2>6, <3>3 DEF Tended
  <2> QED
    BY <2>4, <2>5, <2>6
<1> QED
  BY <1>6, <1>8, <1>9, <1>10, <1>11, IInvPrime

-----------------------------------------------------------------------------
(* The theorems. *)

LEMMA InitIInv == Init => IInv
<1> SUFFICES ASSUME Init PROVE IInv
  OBVIOUS
<1>1. TableInv
  <2>1. TableType
    BY EventAssumption DEF Init, TableType, PartialFcn
  <2>2. BlocksExact
    BY DEF Init, BlocksExact, Interested, sessions
  <2>3. CountsKept
    BY DEF Init, CountsKept
  <2> QED
    BY <2>1, <2>2, <2>3 DEF TableInv
<1>2. ThreadType
  BY NoOpForm DEF Init, ThreadType
<1>3. NumbersLeft
  <2>1. {q \in alive : Queuing(q)} = {}
    BY NoOpForm DEF Init, Queuing
  <2>2. Cardinality({q \in alive : Queuing(q)}) = 0
    BY <2>1, FS_EmptySet, Zenon
  <2> QED
    BY <2>2, EventAssumption DEF Init, NumbersLeft
<1>4. ThreadsCounted
  BY DEF Init, ThreadsCounted
<1>5. CallsFit
  BY NoOpForm DEF Init, CallsFit, Fits, Queuing
<1>6. NoLostWakeup
  BY DEF Init, NoLostWakeup
<1> QED
  BY <1>1, <1>2, <1>3, <1>4, <1>5, <1>6, IInvParts

LEMMA NextIInv == IInv /\ [Next]_vars => IInv'
<1> SUFFICES ASSUME IInv, [Next]_vars
             PROVE  IInv'
  OBVIOUS
<1>1. ASSUME NEW p \in Proc, Call(p) \/ Thread(p) \/ Handler(p) \/ Crash(p)
      PROVE  IInv'
  BY <1>1, Call_Inv, acquire_Inv, Acquired_Inv, release_Inv, ISC_kill_Inv, HandleSignal_Inv,
     deliver_Inv, deliver_release_Inv, ast_returns_Inv, Crash_Inv DEF Thread, Handler
<1>2. CASE UNCHANGED vars
  <2>1. TypeOK' /\ ThreadsCounted'
    BY <1>2 DEF vars, table, threads, history, IInv, TypeOK, ThreadsCounted, PartialFcn
  <2>2. BlocksExact'
    BY <1>2 DEF vars, table, IInv, BlocksExact, Interested, Events, sessions
  <2>3. CountsKept'
    BY <1>2 DEF vars, table, history, IInv, CountsKept, Knows, HistoryOf, RequestsOf, Events, sessions
  <2>4. NumbersLeft'
    BY <1>2 DEF vars, table, threads, IInv, NumbersLeft, Queuing
  <2>5. CallsFit'
    BY <1>2 DEF vars, table, threads, IInv, CallsFit, Fits, Queuing, sessions
  <2>6. NoLostWakeup'
    BY <1>2 DEF vars, table, threads, IInv, NoLostWakeup, Tended, WakeupEntrusted, KillEntrusted,
       Delivering, request_completed, Events
  <2> QED
    BY <2>1, <2>2, <2>3, <2>4, <2>5, <2>6 DEF IInv
<1> QED
  BY <1>1, <1>2 DEF Next

(* The inductive invariant holds in every reachable state of the tables,   *)
(* threads, signals and handlers of event.cpp.                             *)
THEOREM Invariance == Spec => []IInv
BY InitIInv, NextIInv, PTL DEF Spec

(* The table of events, the threads and the handlers have their types,     *)
(* whatever the processes do and whichever of them die: request numbers    *)
(* stay below the bound, and acquire_count is never above one or below     *)
(* zero, although thread and handler both count.                           *)
THEOREM TypeCorrect == Spec => []TypeOK
BY Invariance, PTL DEF IInv

(* An event block is there exactly as long as somebody is interested in    *)
(* the event, and its database counts it: delete_session(),                *)
(* delete_process() and probe_processes() neither leave an interest that   *)
(* points nowhere nor an event nobody knows.                               *)
THEOREM EventBlocksAreExact == Spec => []BlocksExact
BY Invariance, PTL DEF IInv

(* The occurrences a client computes from two counts it is told are those  *)
(* there were: while its session lives, delete_request() keeps the         *)
(* interest that keeps the event and its count.                            *)
THEOREM CountsAreExact == Spec => []ExactCounts
<1>1. IInv => ExactCounts
  <2> SUFFICES ASSUME IInv, NEW s \in sessions, NEW e \in Event, told[s][e] # 0
               PROVE  /\ e \in DOMAIN evh_events
                      /\ evh_events[e] + 1 - told[s][e] = posted[e] - seen[s][e]
    BY DEF ExactCounts
  <2>1. TableInv
    BY IInvParts
  <2>2. s \in Session
    BY <2>1 DEF TableInv, TableType, PartialFcn, sessions
  <2>3. Knows(s, e) /\ evh_events[e] + 1 - told[s][e] = posted[e] - seen[s][e]
    BY <2>1, <2>2 DEF TableInv, CountsKept
  <2>4. e \in DOMAIN evh_events
    BY <2>1, <2>3, InterestedKnows DEF TableInv, BlocksExact
  <2> QED
    BY <2>3, <2>4
<1> QED
  BY <1>1, Invariance, PTL

(* However EVENT_que(), EVENT_post(), EVENT_deliver(), the signals and the *)
(* handlers of the processes interleave, a live process with a satisfied   *)
(* request is marked, signalled or under way to look at it.                *)
THEOREM WakeupsAreKept == Spec => []NoLostWakeup
BY Invariance, PTL DEF IInv

=============================================================================

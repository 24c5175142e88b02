-------------------------- MODULE LockTableProofs --------------------------
(***************************************************************************)
(* What LockTable checks on small tables, proved for every table.          *)
(*                                                                         *)
(* The inductive invariant IInv (LockTable) has five parts.  The counters  *)
(* alone are not inductive: that a decrement finds something to decrement  *)
(* needs the queues to be exact, that a grant is compatible needs the      *)
(* counters, that a request is not counted as pending twice needs to know  *)
(* where its owner waits (WaitInv), and that the request a section is      *)
(* about is still the one it started with needs SecInv.                    *)
(*                                                                         *)
(* BlockageInv keeps the walk of post_blockage on the queue of its lock    *)
(* when an owner on that queue is found dead and purged; it needs          *)
(* BlockagesFit, which the theorems assume.                                *)
(*                                                                         *)
(* First come facts on levels and queues, then one lemma for each way the  *)
(* table changes, then one for each action, then the theorems.             *)
(***************************************************************************)
EXTENDS LockTable, FiniteSetTheorems, WellFoundedInduction, TLAPS

(* The lock levels of lock.h as numbers.                                   *)
LEMMA LevelsFact ==
    /\ LCK_none = 0 /\ LCK_null = 1 /\ LCK_SR = 2 /\ LCK_PR = 3
    /\ LCK_SW = 4 /\ LCK_PW = 5 /\ LCK_EX = 6
    /\ States = 0 .. 6 /\ Granted = 1 .. 6
BY DEF LCK_none, LCK_null, LCK_SR, LCK_PR, LCK_SW, LCK_PW, LCK_EX, States, Granted

(* The compatibility matrix of lock.cpp is symmetric.                      *)
LEMMA CompatibleSymmetric ==
    ASSUME NEW a \in States, NEW b \in States
    PROVE  COMPATIBLE(a, b) <=> COMPATIBLE(b, a)
BY LevelsFact DEF COMPATIBLE, CompatibleWith

(* A level that is compatible with the strongest level held on a lock is   *)
(* compatible with every weaker level held beside it: why grant_or_que,    *)
(* convert and post_pending may look at lock_state alone. It is no         *)
(* consequence of the order of the levels (PR < SW, and PR is not          *)
(* compatible with SW).                                                    *)
LEMMA CompatibleBelow ==
    ASSUME NEW a \in States, NEW top \in States, NEW k \in States,
           k <= top, COMPATIBLE(a, top), COMPATIBLE(top, k)
    PROVE  COMPATIBLE(a, k)
BY LevelsFact DEF COMPATIBLE, CompatibleWith

(* A request that holds nothing is in nobody's way.                        *)
LEMMA CompatibleNone ==
    ASSUME NEW a \in States
    PROVE  COMPATIBLE(a, LCK_none) /\ COMPATIBLE(LCK_none, a)
BY LevelsFact DEF COMPATIBLE, CompatibleWith

(* A set of levels has a highest one: the CHOOSE of lock_state and of      *)
(* LOCK_downgrade is defined.                                              *)
LEMMA MaxExists ==
    ASSUME NEW S \in SUBSET States, S # {}
    PROVE  \E m \in S : \A k \in S : k <= m
<1>1. S \subseteq 0 .. 6
  BY LevelsFact
<1>2. CASE 6 \in S
  BY <1>1, <1>2
<1>3. CASE 6 \notin S /\ 5 \in S
  BY <1>1, <1>3
<1>4. CASE 6 \notin S /\ 5 \notin S /\ 4 \in S
  BY <1>1, <1>4
<1>5. CASE S \subseteq 0 .. 3 /\ 3 \in S
  BY <1>5
<1>6. CASE S \subseteq 0 .. 2 /\ 2 \in S
  BY <1>6
<1>7. CASE S \subseteq 0 .. 1 /\ 1 \in S
  BY <1>7
<1>8. CASE S \subseteq 0 .. 0
  <2>1. PICK x \in S : TRUE
    OBVIOUS
  <2> QED BY <1>8, <2>1
<1>9. S \subseteq 0 .. 3 \/ 4 \in S \/ 5 \in S \/ 6 \in S
  BY <1>1
<1>10. S \subseteq 0 .. 3 => (S \subseteq 0 .. 1 \/ (2 \in S /\ S \subseteq 0 .. 2) \/ 3 \in S)
  OBVIOUS
<1>11. S \subseteq 0 .. 1 => (S \subseteq 0 .. 0 \/ 1 \in S)
  OBVIOUS
<1> QED BY <1>2, <1>3, <1>4, <1>5, <1>6, <1>7, <1>8, <1>9, <1>10, <1>11

(* lock_state() returns the strongest level with a positive count,         *)
(* LCK_none if there is none.                                              *)
LEMMA LockStateMax ==
    ASSUME NEW c \in [Granted -> Nat]
    PROVE  /\ lock_state(c) \in States
           /\ \A m \in Granted : c[m] > 0 => m <= lock_state(c)
           /\ lock_state(c) # LCK_none =>
                 lock_state(c) \in Granted /\ c[lock_state(c)] > 0
<1> DEFINE held == {m \in Granted : c[m] > 0}
<1>1. CASE held = {}
  BY <1>1, LevelsFact DEF lock_state
<1>2. CASE held # {}
  <2>1. held \in SUBSET States
    BY LevelsFact
  <2>2. \E m \in held : \A k \in held : k <= m
    BY <2>1, <1>2, MaxExists
  <2>3. lock_state(c) \in held /\ \A k \in held : k <= lock_state(c)
    BY <2>2, <1>2 DEF lock_state
  <2> QED BY <2>3, LevelsFact
<1> QED BY <1>1, <1>2

(* A set of naturals has a smallest element: post_pending's walk finds a   *)
(* next pending request whenever one is ahead.                             *)
LEMMA MinExists ==
    ASSUME NEW S \in SUBSET Nat, S # {}
    PROVE  \E m \in S : \A k \in S : m <= k
<1>1. \E m \in S : \A k \in S : ~ (<<k, m>> \in OpToRel(<, Nat))
  BY WFMin, NatLessThanWellFounded
<1>2. \A k, m \in Nat : k < m => <<k, m>> \in OpToRel(<, Nat)
  BY DEF OpToRel
<1>3. PICK m \in S : \A k \in S : ~ (<<k, m>> \in OpToRel(<, Nat))
  BY <1>1
<1>4. \A k \in S : ~ (k < m)
  BY <1>2, <1>3, Zenon
<1>5. m \in Nat /\ \A k \in S : k \in Nat
  OBVIOUS
<1> QED BY <1>4, <1>5

(* lock_state depends only on which levels are held *)
LEMMA LockStateSame ==
    ASSUME NEW c \in [Granted -> Nat], NEW d \in [Granted -> Nat],
           \A m \in Granted : c[m] > 0 <=> d[m] > 0
    PROVE  lock_state(c) = lock_state(d)
BY LockStateMax, LevelsFact

-----------------------------------------------------------------------------

(* remove_que takes one request off a queue and keeps the others.          *)
LEMMA WithoutFacts ==
    ASSUME NEW q \in Seq(Requests), NEW r \in Members(q), Injective(q)
    PROVE  /\ Without(q, r) \in Seq(Requests)
           /\ Len(Without(q, r)) = Len(q) - 1
           /\ Members(Without(q, r)) = Members(q) \ {r}
           /\ Injective(Without(q, r))
<1> DEFINE p == Position(q, r)
           w == Without(q, r)
<1>1. p \in 1 .. Len(q) /\ q[p] = r
  BY DEF Members, Position
<1>2. Len(q) \in Nat
  OBVIOUS
<1>3. w = [i \in 1 .. Len(q) - 1 |-> IF i < p THEN q[i] ELSE q[i + 1]]
  BY DEF Without
<1> HIDE DEF p, w
<1>4. /\ w \in Seq(Requests) /\ Len(w) = Len(q) - 1
      /\ \A i \in 1 .. Len(q) - 1 : w[i] = IF i < p THEN q[i] ELSE q[i + 1]
  BY <1>1, <1>2, <1>3
<1>5. Injective(w)
  BY <1>1, <1>2, <1>4 DEF Injective
<1>6. Members(w) \subseteq Members(q) \ {r}
  BY <1>1, <1>2, <1>4 DEF Members, Injective
<1>7. ASSUME NEW x \in Members(q) \ {r} PROVE x \in Members(w)
  <2>1. PICK i \in 1 .. Len(q) : q[i] = x
    BY <1>7 DEF Members
  <2>2. i # p
    BY <2>1, <1>7, <1>1
  <2>3. CASE i < p
    <3>1. i \in 1 .. Len(w) /\ w[i] = x
      BY <2>1, <2>3, <1>1, <1>2, <1>4
    <3> QED BY <3>1 DEF Members
  <2>4. CASE i > p
    <3>1. i - 1 \in 1 .. Len(w) /\ w[i - 1] = x
      BY <2>1, <2>4, <1>1, <1>2, <1>4
    <3> QED BY <3>1 DEF Members
  <2> QED BY <2>2, <2>3, <2>4, <1>1
<1> QED BY <1>4, <1>5, <1>6, <1>7 DEF w

(* insert_tail adds one request to a queue.                                *)
LEMMA AppendFacts ==
    ASSUME NEW q \in Seq(Requests), NEW r \in Requests, r \notin Members(q),
           Injective(q)
    PROVE  /\ Append(q, r) \in Seq(Requests)
           /\ Members(Append(q, r)) = Members(q) \cup {r}
           /\ Injective(Append(q, r))
<1> DEFINE w == Append(q, r)
<1>1. /\ w \in Seq(Requests) /\ Len(w) = Len(q) + 1 /\ Len(q) \in Nat
      /\ w[Len(q) + 1] = r
      /\ \A i \in 1 .. Len(q) : w[i] = q[i]
  OBVIOUS
<1> HIDE DEF w
<1>2. Injective(w)
  BY <1>1 DEF Injective, Members
<1>3. Members(w) = Members(q) \cup {r}
  <2>1. ASSUME NEW x \in Members(w) PROVE x \in Members(q) \cup {r}
    BY <1>1, <2>1 DEF Members
  <2>2. ASSUME NEW x \in Members(q) PROVE x \in Members(w)
    <3>1. PICK i \in 1 .. Len(q) : q[i] = x
      BY <2>2 DEF Members
    <3>2. i \in 1 .. Len(w) /\ w[i] = x
      BY <1>1, <3>1
    <3> QED BY <3>2 DEF Members
  <2>3. r \in Members(w)
    <3>1. Len(q) + 1 \in 1 .. Len(w)
      BY <1>1
    <3> QED BY <1>1, <3>1 DEF Members
  <2> QED BY <2>1, <2>2, <2>3
<1> QED BY <1>1, <1>2, <1>3 DEF w

(* blocking_action2 takes the first request off a queue of blocks.         *)
LEMMA TailFacts ==
    ASSUME NEW q \in Seq(Requests), q # <<>>, Injective(q)
    PROVE  /\ Tail(q) \in Seq(Requests)
           /\ Head(q) \in Members(q)
           /\ Members(Tail(q)) = Members(q) \ {Head(q)}
           /\ Injective(Tail(q))
<1> DEFINE w == Tail(q)
<1>1. /\ w \in Seq(Requests) /\ Len(w) = Len(q) - 1 /\ Len(q) \in Nat \ {0}
      /\ Head(q) = q[1]
      /\ \A i \in 1 .. Len(q) - 1 : w[i] = q[i + 1]
  OBVIOUS
<1> HIDE DEF w
<1>2. Injective(w)
  BY <1>1 DEF Injective
<1>3. Members(w) = Members(q) \ {Head(q)}
  <2>1. ASSUME NEW x \in Members(w) PROVE x \in Members(q) \ {Head(q)}
    BY <1>1, <2>1 DEF Members, Injective
  <2>2. ASSUME NEW x \in Members(q), x # Head(q) PROVE x \in Members(w)
    <3>1. PICK i \in 1 .. Len(q) : q[i] = x
      BY <2>2 DEF Members
    <3>2. i - 1 \in 1 .. Len(w) /\ w[i - 1] = x
      BY <1>1, <3>1, <2>2
    <3> QED BY <3>2 DEF Members
  <2> QED BY <2>1, <2>2
<1>4. Head(q) \in Members(q)
  BY <1>1 DEF Members
<1> QED BY <1>1, <1>2, <1>3, <1>4 DEF w

(* A queue is empty when nobody is in it.                                  *)
LEMMA MembersFacts ==
    ASSUME NEW q \in Seq(Requests)
    PROVE  /\ Members(q) \subseteq Requests
           /\ q = <<>> <=> Members(q) = {}
           /\ q # <<>> => q[1] \in Requests
<1>1. Len(q) \in Nat /\ \A i \in 1 .. Len(q) : q[i] \in Requests
  OBVIOUS
<1>2. q # <<>> => Len(q) > 0 
  OBVIOUS
<1>3. q # <<>> => q[1] \in Members(q)
  BY <1>1, <1>2 DEF Members
<1>4. Members(<<>>) = {}
  BY DEF Members
<1> QED BY <1>1, <1>2, <1>3, <1>4 DEF Members

-----------------------------------------------------------------------------
(* Counting the requests of a lock. *)

HeldAt(l, m) == {r \in RequestsOf(l) : lrq_state[r] = m}
WaitingAt(l) == {r \in RequestsOf(l) : Pending(r)}

(* There are finitely many request blocks.                                 *)
LEMMA FiniteRequests ==
    ASSUME NEW S \in SUBSET Requests
    PROVE  IsFiniteSet(S) /\ Cardinality(S) \in Nat
BY ConstantsAssumption, FS_Subset, FS_CardinalityType

(* The sets that are counted are sets of request blocks.                   *)
LEMMA HeldFinite ==
    ASSUME NEW l, NEW m
    PROVE  /\ HeldAt(l, m) \in SUBSET Requests
           /\ WaitingAt(l) \in SUBSET Requests
BY DEF HeldAt, WaitingAt, RequestsOf

(* CountsExact in terms of these sets *)
LEMMA CountsExactSets ==
    CountsExact <=>
        \A l \in Locks :
            /\ \A m \in Granted : lbl_counts[l][m] = Cardinality(HeldAt(l, m))
            /\ lbl_pending_lrq_count[l] = Cardinality(WaitingAt(l))
            /\ lbl_state[l] = lock_state(lbl_counts[l])
BY DEF CountsExact, HeldAt, WaitingAt

(* The counts convert() and release_request work with, those of the lock   *)
(* minus what the request itself holds, count the other requests.          *)
LEMMA CountsWithoutFacts ==
    ASSUME TypeOK, CountsExact, NEW r \in Requests, lrq_lock[r] \in Locks
    PROVE  /\ CountsWithout(r) \in [Granted -> Nat]
           /\ \A m \in Granted : CountsWithout(r)[m] =
                 Cardinality(HeldAt(lrq_lock[r], m) \ {r})
<1> DEFINE l == lrq_lock[r]
           S(m) == HeldAt(l, m)
<1>1. /\ \A m \in Granted : lbl_counts[l][m] = Cardinality(S(m))
      /\ lbl_counts[l] \in [Granted -> Nat]
      /\ lrq_state[r] \in States
  BY CountsExactSets DEF TypeOK
<1>2. ASSUME NEW m \in Granted
      PROVE  Cardinality(S(m) \ {r}) =
                IF r \in S(m) THEN Cardinality(S(m)) - 1 ELSE Cardinality(S(m))
  <2>1. IsFiniteSet(S(m))
    BY HeldFinite, FiniteRequests
  <2> QED BY <2>1, FS_RemoveElement
<1>3. ASSUME NEW m \in Granted PROVE Cardinality(S(m) \ {r}) \in Nat
  BY HeldFinite, FiniteRequests
<1>4. \A m : r \in S(m) <=> lrq_state[r] = m
  BY DEF HeldAt, RequestsOf
<1> HIDE DEF S, l
<1>5. CASE lrq_state[r] = LCK_none
  <2>1. CountsWithout(r) = lbl_counts[l]
    BY <1>5 DEF CountsWithout, l
  <2>2. \A m \in Granted : r \notin S(m)
    BY <1>4, <1>5, LevelsFact
  <2> QED BY <1>1, <1>2, <2>1, <2>2 DEF S, l
<1>6. CASE lrq_state[r] # LCK_none
  <2>1. CountsWithout(r) = [lbl_counts[l] EXCEPT ![lrq_state[r]] = @ - 1]
    BY <1>6 DEF CountsWithout, l
  <2>2. lrq_state[r] \in Granted
    BY <1>1, <1>6, LevelsFact
  <2>3. \A m \in Granted : CountsWithout(r)[m] = Cardinality(S(m) \ {r})
    BY <1>1, <1>2, <1>4, <2>1, <2>2
  <2>4. CountsWithout(r) \in [Granted -> Nat]
    BY <1>1, <2>1, <2>2, <2>3, <1>3
  <2> QED BY <2>3, <2>4 DEF S, l
<1> QED BY <1>5, <1>6

(* What fits the strongest level the others hold fits all of them. *)
LEMMA CompatibleWithOthers ==
    ASSUME TypeOK, CountsExact, GrantedCompatible,
           NEW r \in Requests, lrq_lock[r] \in Locks, NEW m \in States,
           COMPATIBLE(m, lock_state(CountsWithout(r))),
           NEW s \in Requests, s # r, lrq_lock[s] = lrq_lock[r]
    PROVE  COMPATIBLE(m, lrq_state[s])
<1> DEFINE l == lrq_lock[r]
           c == CountsWithout(r)
           top == lock_state(c)
           k == lrq_state[s]
<1>1. k \in States
  BY DEF TypeOK
<1>2. c \in [Granted -> Nat]
      /\ \A n \in Granted : c[n] = Cardinality(HeldAt(l, n) \ {r})
  BY CountsWithoutFacts
<1>3. /\ top \in States
      /\ \A n \in Granted : c[n] > 0 => n <= top
      /\ top # LCK_none => top \in Granted /\ c[top] > 0
  BY <1>2, LockStateMax
<1>4. CASE k = LCK_none
  BY <1>4, CompatibleNone
<1>5. CASE k # LCK_none
  <2>1. k \in Granted
    BY <1>1, <1>5, LevelsFact
  <2>2. s \in HeldAt(l, k) \ {r}
    BY DEF HeldAt, RequestsOf
  <2>3. c[k] > 0
    <3>1. HeldAt(l, k) \ {r} \in SUBSET Requests
      BY HeldFinite
    <3>2. Cardinality(HeldAt(l, k) \ {r}) # 0
      BY <2>2, <3>1, FiniteRequests, FS_EmptySet
    <3> QED BY <3>1, <3>2, <1>2, <2>1, FiniteRequests
  <2>4. k <= top /\ top # LCK_none /\ top \in Granted /\ c[top] > 0
    BY <2>1, <2>3, <1>3, LevelsFact
  <2>5. PICK t \in HeldAt(l, top) \ {r} : TRUE
    <3>1. Cardinality(HeldAt(l, top) \ {r}) # 0
      BY <2>4, <1>2
    <3> QED BY <3>1, FS_EmptySet
  <2>6. t \in Requests /\ lrq_lock[t] = l /\ lrq_state[t] = top
    BY <2>5 DEF HeldAt, RequestsOf
  <2>7. COMPATIBLE(top, k) \/ k = top
    <3>1. l # NoLock
      BY ConstantsAssumption
    <3> QED BY <2>6, <3>1 DEF GrantedCompatible
  <2> HIDE DEF top, k, c
  <2>8. COMPATIBLE(m, top)
    BY DEF top, c
  <2> QED BY <1>1, <1>3, <2>4, <2>7, <2>8, CompatibleBelow DEF k
<1> QED BY <1>4, <1>5

-----------------------------------------------------------------------------
(* The steps that change the table. *)

TableTypes ==
    /\ lbl_requests \in [Locks -> Seq(Requests)]
    /\ lbl_counts \in [Locks -> [Granted -> Nat]]
    /\ lbl_state \in [Locks -> States]
    /\ lbl_pending_lrq_count \in [Locks -> Nat]
    /\ lrq_owner \in [Requests -> Owners \cup {NoOwner}]
    /\ lrq_lock \in [Requests -> Locks \cup {NoLock}]
    /\ lrq_requested \in [Requests -> States]
    /\ lrq_state \in [Requests -> States]
    /\ lrq_flags \in [Requests -> SUBSET LrqFlags]
    /\ lrq_ast_routine \in [Requests -> BOOLEAN]
    /\ lhb_owners \in SUBSET Owners
    /\ own_blocks \in [Owners -> Seq(Requests)]

SoundTable ==
    TableTypes /\ QueueInv /\ RequestInv /\ CountsExact /\ GrantedCompatible

(* What the invariant says about the table.                                *)
LEMMA TableSound == TableInv => SoundTable
BY DEF TableInv, SoundTable, TypeOK, TableTypes

(* A lock whose requests keep their levels and their pending flags keeps   *)
(* its counts.                                                             *)
LEMMA SameCounts ==
    ASSUME TypeOK, CountsExact, NEW l \in Locks,
           \A s \in Requests : /\ lrq_lock'[s] = l <=> lrq_lock[s] = l
                               /\ lrq_lock[s] = l => /\ lrq_state'[s] = lrq_state[s]
                                                     /\ Pending(s)' <=> Pending(s)
    PROVE  /\ \A m : HeldAt(l, m)' = HeldAt(l, m)
           /\ WaitingAt(l)' = WaitingAt(l)
<1>1. ASSUME NEW m PROVE HeldAt(l, m)' = HeldAt(l, m)
  BY DEF HeldAt, RequestsOf
<1>2. WaitingAt(l)' = WaitingAt(l)
  BY DEF WaitingAt, RequestsOf
<1> QED BY <1>1, <1>2

(* grant() keeps the table sound when the level asked for is compatible    *)
(* with the strongest level the OTHER requests of the lock hold.           *)
LEMMA GrantStep ==
    ASSUME TableInv, NEW r \in Requests, lrq_lock[r] \in Locks,
           lrq_requested[r] \in Granted,
           COMPATIBLE(lrq_requested[r], lock_state(CountsWithout(r))),
           Grant(r, CountsWithout(r)),
           UNCHANGED <<lbl_requests, lrq_owner, lrq_lock, lrq_requested,
                       lrq_ast_routine, lhb_owners, own_blocks>>
    PROVE  SoundTable'
<1> DEFINE l == lrq_lock[r]
           m == lrq_requested[r]
           c == CountsWithout(r)
           new == [c EXCEPT ![m] = @ + 1]
<1> USE DEF TableInv
<1>1. c \in [Granted -> Nat]
      /\ \A n \in Granted : c[n] = Cardinality(HeldAt(l, n) \ {r})
  BY CountsWithoutFacts
<1>2. /\ lbl_counts' = [lbl_counts EXCEPT ![l] = new]
      /\ lbl_state' = [lbl_state EXCEPT ![l] = lock_state(new)]
      /\ lrq_state' = [lrq_state EXCEPT ![r] = m]
      /\ lrq_flags' = [lrq_flags EXCEPT ![r] = @ \ {"pending"}]
      /\ lbl_pending_lrq_count' =
            [lbl_pending_lrq_count EXCEPT ![l] = PendingAfterGrant(r)]
  BY DEF Grant
<1>3. new \in [Granted -> Nat] /\ lock_state(new) \in States
  <2>1. new \in [Granted -> Nat]
    BY <1>1
  <2> QED BY <2>1, LockStateMax
<1>4. Cardinality(WaitingAt(l)') = PendingAfterGrant(r)
  <2>1. WaitingAt(l)' = WaitingAt(l) \ {r}
    BY <1>2 DEF WaitingAt, RequestsOf, Pending, TypeOK
  <2>2. Cardinality(WaitingAt(l) \ {r}) =
            IF r \in WaitingAt(l) THEN Cardinality(WaitingAt(l)) - 1
            ELSE Cardinality(WaitingAt(l))
    BY HeldFinite, FiniteRequests, FS_RemoveElement
  <2>3. r \in WaitingAt(l) <=> Pending(r)
    BY DEF WaitingAt, RequestsOf
  <2> QED BY <2>1, <2>2, <2>3, CountsExactSets DEF PendingAfterGrant
<1>5. TableTypes'
  <2>1. PendingAfterGrant(r) \in Nat
    <3>1. WaitingAt(l)' \in SUBSET Requests
      BY DEF WaitingAt, RequestsOf
    <3> QED BY <1>4, <3>1, FiniteRequests
  <2>2. m \in States
    BY LevelsFact
  <2> HIDE DEF l, m, new
  <2> QED BY <1>2, <1>3, <2>1, <2>2 DEF TypeOK, TableTypes
<1>6. QueueInv'
  BY <1>2 DEF QueueInv, TypeOK, RequestsOf
<1>7. RequestInv'
  BY <1>2, ConstantsAssumption DEF RequestInv, TypeOK, Pending
<1>8. CountsExact'
  <2>1. ASSUME NEW k \in Locks
        PROVE  /\ \A n \in Granted : lbl_counts'[k][n] = Cardinality(HeldAt(k, n)')
               /\ lbl_pending_lrq_count'[k] = Cardinality(WaitingAt(k)')
               /\ lbl_state'[k] = lock_state(lbl_counts'[k])
    <3>1. CASE k = l
      <4>1. lbl_counts'[k] = new /\ lbl_state'[k] = lock_state(new)
            /\ lbl_pending_lrq_count'[k] = PendingAfterGrant(r)
        BY <3>1, <1>2 DEF TypeOK
      <4>2. ASSUME NEW n \in Granted PROVE new[n] = Cardinality(HeldAt(l, n)')
        <5>0. HeldAt(l, n) \ {r} \in SUBSET Requests
          BY HeldFinite
        <5>1. CASE n = m
          <6>1. HeldAt(l, n)' = (HeldAt(l, n) \ {r}) \cup {r}
            BY <1>2, <5>1 DEF HeldAt, RequestsOf, TypeOK
          <6>2. Cardinality((HeldAt(l, n) \ {r}) \cup {r}) = c[n] + 1
            BY <5>0, <1>1, FiniteRequests, FS_AddElement
          <6> QED BY <6>1, <6>2, <5>1, <1>1
        <5>2. CASE n # m
          <6>1. HeldAt(l, n)' = HeldAt(l, n) \ {r}
            BY <1>2, <5>2 DEF HeldAt, RequestsOf, TypeOK
          <6> QED BY <6>1, <5>2, <1>1
        <5> QED BY <5>1, <5>2
      <4> QED BY <3>1, <4>1, <4>2, <1>4
    <3>2. CASE k # l
      <4>1. /\ lbl_counts'[k] = lbl_counts[k] /\ lbl_state'[k] = lbl_state[k]
            /\ lbl_pending_lrq_count'[k] = lbl_pending_lrq_count[k]
        BY <3>2, <1>2 DEF TypeOK
      <4>2. \A s \in Requests : /\ lrq_lock'[s] = k <=> lrq_lock[s] = k
                                /\ lrq_lock[s] = k => /\ lrq_state'[s] = lrq_state[s]
                                                      /\ Pending(s)' <=> Pending(s)
        BY <3>2, <1>2 DEF TypeOK, Pending
      <4>3. /\ \A n : HeldAt(k, n)' = HeldAt(k, n)
            /\ WaitingAt(k)' = WaitingAt(k)
        BY <4>2, SameCounts
      <4> QED BY <4>1, <4>3, CountsExactSets
    <3> QED BY <3>1, <3>2
  <2> QED BY <2>1 DEF CountsExact, HeldAt, WaitingAt
<1>9. GrantedCompatible'
  <2>1. m \in States
    BY LevelsFact
  <2>2. ASSUME NEW s \in Requests, s # r, lrq_lock[s] = lrq_lock[r]
        PROVE  COMPATIBLE(m, lrq_state[s]) /\ COMPATIBLE(lrq_state[s], m)
    <3>1. COMPATIBLE(m, lrq_state[s])
      BY <2>1, <2>2, CompatibleWithOthers
    <3> QED BY <3>1, <2>1, CompatibleSymmetric DEF TypeOK
  <2> QED BY <2>2, <1>2 DEF GrantedCompatible, TypeOK
<1> QED BY <1>5, <1>6, <1>7, <1>8, <1>9 DEF SoundTable

(* release_request() keeps the table sound, also when it frees the lock,   *)
(* and recomputes the lock's state when it has to.                         *)
LEMMA ReleaseStep ==
    ASSUME TableInv, NEW r \in Requests, lrq_lock[r] \in Locks, NEW after,
           ReleaseRequest(r, after), UNCHANGED lhb_owners
    PROVE  SoundTable'
<1>0. PICK l \in Locks : l = lrq_lock[r]
  OBVIOUS
<1> DEFINE o == lrq_owner[r]
           q == Without(lbl_requests[l], r)
           c == CountsWithout(r)
           m == lrq_state[r]
<1> USE DEF TableInv
<1>1. c \in [Granted -> Nat]
      /\ \A n \in Granted : c[n] = Cardinality(HeldAt(l, n) \ {r})
  BY <1>0, CountsWithoutFacts
<1>2. /\ lbl_requests' = [lbl_requests EXCEPT ![l] = q]
      /\ lrq_owner' = [lrq_owner EXCEPT ![r] = NoOwner]
      /\ lrq_lock' = [lrq_lock EXCEPT ![r] = NoLock]
      /\ lrq_requested' = [lrq_requested EXCEPT ![r] = LCK_none]
      /\ lrq_state' = [lrq_state EXCEPT ![r] = LCK_none]
      /\ lrq_flags' = [lrq_flags EXCEPT ![r] = {}]
      /\ lrq_ast_routine' = [lrq_ast_routine EXCEPT ![r] = FALSE]
      /\ own_blocks' = [own_blocks EXCEPT ![o] = BlocksWithout(r)]
      /\ lbl_pending_lrq_count' =
            [lbl_pending_lrq_count EXCEPT ![l] = IF Pending(r) THEN @ - 1 ELSE @]
      /\ q = <<>> => /\ lbl_counts' = [lbl_counts EXCEPT ![l] = ZeroCounts]
                     /\ lbl_state' = [lbl_state EXCEPT ![l] = LCK_none]
      /\ q # <<>> => /\ lbl_counts' = [lbl_counts EXCEPT ![l] = c]
                     /\ lbl_state' = [lbl_state EXCEPT ![l] =
                           IF m # LCK_none /\ c[m] = 0 THEN lock_state(c) ELSE @]
  BY <1>0, Zenon DEF ReleaseRequest
<1>3. /\ o \in Owners /\ o # NoOwner /\ m \in States
      /\ lbl_requests[l] \in Seq(Requests) /\ own_blocks[o] \in Seq(Requests)
      /\ lbl_counts[l] \in [Granted -> Nat] /\ lbl_state[l] = lock_state(lbl_counts[l])
      /\ lbl_state[l] \in States
  BY ConstantsAssumption DEF TypeOK, RequestInv, CountsExact
<1>4. /\ Injective(lbl_requests[l]) /\ Members(lbl_requests[l]) = RequestsOf(l)
      /\ r \in Members(lbl_requests[l])
  BY <1>0 DEF QueueInv, RequestsOf
<1>5. /\ q \in Seq(Requests) /\ Injective(q)
      /\ Members(q) = RequestsOf(l) \ {r}
  BY <1>3, <1>4, WithoutFacts
<1>6. /\ BlocksWithout(r) \in Seq(Requests)
      /\ Injective(BlocksWithout(r))
      /\ Members(BlocksWithout(r)) = Members(own_blocks[o]) \ {r}
  <2>1. CASE "blocking" \in lrq_flags[r]
    <3>1. r \in Members(own_blocks[o]) /\ Injective(own_blocks[o])
      BY <2>1, <1>3 DEF QueueInv
    <3> QED BY <2>1, <3>1, <1>3, WithoutFacts DEF BlocksWithout
  <2>2. CASE "blocking" \notin lrq_flags[r]
    <3>1. r \notin Members(own_blocks[o]) /\ Injective(own_blocks[o])
      BY <2>2, <1>3, ConstantsAssumption DEF QueueInv, RequestInv
    <3> QED BY <2>2, <3>1, <1>3 DEF BlocksWithout
  <2> QED BY <2>1, <2>2
<1>7. RequestsOf(l)' = RequestsOf(l) \ {r}
  BY <1>0, <1>2, ConstantsAssumption DEF RequestsOf, TypeOK
<1>8. \A n : HeldAt(l, n)' = HeldAt(l, n) \ {r}
  <2> SUFFICES ASSUME NEW n PROVE HeldAt(l, n)' = HeldAt(l, n) \ {r}
    OBVIOUS
  <2> QED BY <1>2, <1>7 DEF HeldAt, TypeOK, RequestsOf
<1>9. /\ lbl_pending_lrq_count'[l] = Cardinality(WaitingAt(l)')
      /\ lbl_pending_lrq_count' \in [Locks -> Nat]
  <2>1. WaitingAt(l)' = WaitingAt(l) \ {r}
    BY <1>2, <1>7 DEF WaitingAt, Pending, TypeOK, RequestsOf
  <2>2. Cardinality(WaitingAt(l) \ {r}) =
            IF r \in WaitingAt(l) THEN Cardinality(WaitingAt(l)) - 1
            ELSE Cardinality(WaitingAt(l))
    BY HeldFinite, FiniteRequests, FS_RemoveElement
  <2>3. r \in WaitingAt(l) <=> Pending(r)
    BY <1>0 DEF WaitingAt, RequestsOf
  <2>4. WaitingAt(l) \ {r} \in SUBSET Requests
    BY HeldFinite
  <2>5. Cardinality(WaitingAt(l) \ {r}) \in Nat
    BY <2>4, FiniteRequests
  <2>6. lbl_pending_lrq_count'[l] = Cardinality(WaitingAt(l) \ {r})
    BY <2>2, <2>3, CountsExactSets, <1>2 DEF TypeOK
  <2> QED BY <2>1, <2>5, <2>6, <1>2 DEF TypeOK
<1>10. /\ lbl_counts'[l] \in [Granted -> Nat]
       /\ \A n \in Granted : lbl_counts'[l][n] = Cardinality(HeldAt(l, n)')
       /\ lbl_state'[l] = lock_state(lbl_counts'[l])
  <2>1. CASE q = <<>>
    <3>1. lbl_counts'[l] = ZeroCounts /\ lbl_state'[l] = LCK_none
      BY <2>1, <1>2 DEF TypeOK
    <3>2. ZeroCounts \in [Granted -> Nat] /\ \A n \in Granted : ZeroCounts[n] = 0
      BY DEF ZeroCounts
    <3>3. lock_state(ZeroCounts) = LCK_none
      BY <3>2, LockStateMax
    <3>4. \A n : HeldAt(l, n)' = {}
      <4>1. RequestsOf(l) \ {r} = {}
        BY <2>1, <1>5, MembersFacts
      <4> QED BY <4>1, <1>8 DEF HeldAt
    <3> QED BY <3>1, <3>2, <3>3, <3>4, FS_EmptySet
  <2>2. CASE q # <<>>
    <3>1. /\ lbl_counts'[l] = c
          /\ lbl_state'[l] = IF m # LCK_none /\ c[m] = 0 THEN lock_state(c)
                             ELSE lbl_state[l]
      BY <2>2, <1>2 DEF TypeOK
    <3>2. lbl_state'[l] = lock_state(c)
      <4>1. CASE m # LCK_none /\ c[m] = 0
        BY <4>1, <3>1
      <4>2. CASE m = LCK_none
        BY <4>2, <3>1, <1>0, <1>3 DEF CountsWithout
      <4>3. CASE m # LCK_none /\ c[m] # 0
        <5>1. m \in Granted
          BY <4>3, <1>3, LevelsFact
        <5>2. c = [lbl_counts[l] EXCEPT ![m] = @ - 1]
          BY <1>0, <4>3 DEF CountsWithout
        <5> HIDE DEF c, m
        <5>3. \A n \in Granted : c[n] > 0 <=> lbl_counts[l][n] > 0
          BY <5>1, <5>2, <4>3, <1>1, <1>3
        <5>4. lock_state(c) = lock_state(lbl_counts[l])
          BY <5>3, <1>1, <1>3, LockStateSame
        <5> QED BY <5>4, <4>3, <3>1, <1>3
      <4> QED BY <4>1, <4>2, <4>3
    <3> QED BY <3>1, <3>2, <1>1, <1>8
  <2> QED BY <2>1, <2>2
<1>11. TableTypes'
  <2>1. lbl_state'[l] \in States
    BY <1>10, LockStateMax
  <2>2. lbl_counts' \in [Locks -> [Granted -> Nat]] /\ lbl_state' \in [Locks -> States]
    <3>1. CASE q = <<>>
      BY <3>1, <1>2, <1>10, <2>1 DEF TypeOK
    <3>2. CASE q # <<>>
      BY <3>2, <1>2, <1>10, <2>1 DEF TypeOK
    <3> QED BY <3>1, <3>2
  <2>3. LCK_none \in States
    BY LevelsFact
  <2> HIDE DEF q, c, m, o
  <2> QED BY <1>2, <1>3, <1>5, <1>6, <1>9, <2>2, <2>3 DEF TypeOK, TableTypes
<1>12. QueueInv'
  <2>1. ASSUME NEW k \in Locks
        PROVE  /\ Injective(lbl_requests'[k])
               /\ Members(lbl_requests'[k]) = RequestsOf(k)'
    <3>1. CASE k = l
      BY <3>1, <1>2, <1>5, <1>7 DEF TypeOK
    <3>2. CASE k # l
      <4>1. lbl_requests'[k] = lbl_requests[k]
        BY <1>0, <3>2, <1>2 DEF TypeOK
      <4>2. RequestsOf(k)' = RequestsOf(k)
        BY <1>0, <3>2, <1>2, ConstantsAssumption DEF RequestsOf, TypeOK
      <4> QED BY <4>1, <4>2 DEF QueueInv
    <3> QED BY <3>1, <3>2
  <2>2. ASSUME NEW u \in Owners
        PROVE  /\ Injective(own_blocks'[u])
               /\ \A s \in Requests : s \in Members(own_blocks'[u]) <=>
                     /\ lrq_owner'[s] = u
                     /\ "blocking" \in lrq_flags'[s] \/ "repost" \in lrq_flags'[s]
    <3>1. \A s \in Requests : s # r => lrq_owner'[s] = lrq_owner[s]
                                       /\ lrq_flags'[s] = lrq_flags[s]
      BY <1>2 DEF TypeOK
    <3>2. lrq_owner'[r] # u /\ lrq_flags'[r] = {}
      BY <1>2, ConstantsAssumption DEF TypeOK
    <3>3. CASE u = o
      <4>1. own_blocks'[u] = BlocksWithout(r)
        BY <3>3, <1>2, <1>3 DEF TypeOK
      <4> QED BY <4>1, <3>1, <3>2, <3>3, <1>6 DEF QueueInv
    <3>4. CASE u # o
      <4>1. own_blocks'[u] = own_blocks[u]
        BY <3>4, <1>2, <1>3 DEF TypeOK
      <4>2. r \notin Members(own_blocks[u])
        BY <3>4 DEF QueueInv
      <4> QED BY <4>1, <4>2, <3>1, <3>2 DEF QueueInv
    <3> QED BY <3>3, <3>4
  <2> QED BY <2>1, <2>2 DEF QueueInv
<1>13. RequestInv'
  BY <1>2, ConstantsAssumption DEF RequestInv, TypeOK, Pending
<1>14. CountsExact'
  <2>1. ASSUME NEW k \in Locks
        PROVE  /\ \A n \in Granted : lbl_counts'[k][n] = Cardinality(HeldAt(k, n)')
               /\ lbl_pending_lrq_count'[k] = Cardinality(WaitingAt(k)')
               /\ lbl_state'[k] = lock_state(lbl_counts'[k])
    <3>1. CASE k = l
      BY <3>1, <1>9, <1>10
    <3>2. CASE k # l
      <4>1. /\ lbl_counts'[k] = lbl_counts[k] /\ lbl_state'[k] = lbl_state[k]
            /\ lbl_pending_lrq_count'[k] = lbl_pending_lrq_count[k]
        BY <1>0, <3>2, <1>2 DEF TypeOK
      <4>2. \A s \in Requests : /\ lrq_lock'[s] = k <=> lrq_lock[s] = k
                                /\ lrq_lock[s] = k => /\ lrq_state'[s] = lrq_state[s]
                                                      /\ Pending(s)' <=> Pending(s)
        BY <1>0, <3>2, <1>2, ConstantsAssumption DEF TypeOK, Pending
      <4>3. /\ \A n : HeldAt(k, n)' = HeldAt(k, n)
            /\ WaitingAt(k)' = WaitingAt(k)
        BY <4>2, SameCounts
      <4> QED BY <4>1, <4>3, CountsExactSets
    <3> QED BY <3>1, <3>2
  <2> QED BY <2>1 DEF CountsExact, HeldAt, WaitingAt
<1>15. GrantedCompatible'
  BY <1>2, ConstantsAssumption DEF GrantedCompatible, TypeOK
<1> QED BY <1>11, <1>12, <1>13, <1>14, <1>15 DEF SoundTable

(* If no counted set changes, exact counts stay exact.                     *)
LEMMA CountsFrame ==
    ASSUME CountsExact,
           UNCHANGED <<lbl_counts, lbl_state, lbl_pending_lrq_count>>,
           \A l \in Locks : /\ \A m \in Granted : HeldAt(l, m)' = HeldAt(l, m)
                            /\ WaitingAt(l)' = WaitingAt(l)
    PROVE  CountsExact'
BY CountsExactSets DEF CountsExact, HeldAt, WaitingAt

(* Nothing in the table that counts or queues depend on changes. *)
LEMMA LevelsFrame ==
    ASSUME TableInv,
           UNCHANGED <<lbl_requests, lbl_counts, lbl_state,
                       lbl_pending_lrq_count, lrq_lock, lrq_state>>,
           \A s \in Requests : Pending(s)' <=> Pending(s)
    PROVE  CountsExact' /\ GrantedCompatible'
<1> USE DEF TableInv
<1>1. ASSUME NEW l \in Locks
      PROVE  /\ \A m \in Granted : HeldAt(l, m)' = HeldAt(l, m)
             /\ WaitingAt(l)' = WaitingAt(l)
  BY SameCounts
<1>2. CountsExact'
  BY <1>1, CountsFrame
<1> QED BY <1>2 DEF GrantedCompatible

(* A step that leaves the table alone keeps it sound.                      *)
LEMMA TableFrame ==
    ASSUME TableInv, UNCHANGED <<lblVars, lrqVars, lhb_owners, own_blocks>>
    PROVE  SoundTable'
<1> USE DEF TableInv, lblVars, lrqVars
<1>1. CountsExact' /\ GrantedCompatible'
  BY LevelsFrame DEF Pending
<1>2. TableTypes'
  BY DEF TypeOK, TableTypes
<1>3. QueueInv' /\ RequestInv'
  BY DEF QueueInv, RequestInv, RequestsOf, Pending
<1> QED BY <1>1, <1>2, <1>3 DEF SoundTable

(* convert() and LOCK_downgrade set or reset the level asked for. *)
LEMMA RequestedStep ==
    ASSUME TableInv, NEW r \in Requests, ~ Pending(r), NEW m \in States,
           lrq_requested' = [lrq_requested EXCEPT ![r] = m],
           \/ UNCHANGED lrq_flags
           \/ lrq_flags' = [lrq_flags EXCEPT ![r] = @ \ {"blocking_seen"}],
           UNCHANGED <<lblVars, lrq_owner, lrq_lock, lrq_state,
                       lrq_ast_routine, lhb_owners, own_blocks>>
    PROVE  SoundTable'
<1> USE DEF TableInv, lblVars
<1>1. \A s \in Requests :
        /\ "pending" \in lrq_flags'[s] <=> "pending" \in lrq_flags[s]
        /\ "blocking" \in lrq_flags'[s] <=> "blocking" \in lrq_flags[s]
        /\ "repost" \in lrq_flags'[s] <=> "repost" \in lrq_flags[s]
        /\ lrq_flags[s] = {} => lrq_flags'[s] = {}
  <2>1. CASE lrq_flags' = lrq_flags
    BY <2>1
  <2>2. CASE lrq_flags' = [lrq_flags EXCEPT ![r] = @ \ {"blocking_seen"}]
    <3>1. \A s \in Requests :
             lrq_flags'[s] \in {lrq_flags[s], lrq_flags[s] \ {"blocking_seen"}}
      BY <2>2 DEF TypeOK
    <3> QED BY <3>1
  <2> QED BY <2>1, <2>2
<1>2. CountsExact' /\ GrantedCompatible'
  BY <1>1, LevelsFrame DEF Pending
<1>3. TableTypes'
  BY DEF TypeOK, TableTypes
<1>4. QueueInv'
  BY <1>1 DEF QueueInv, RequestsOf
<1>5. RequestInv'
  BY <1>1 DEF RequestInv, Pending, TypeOK
<1> QED BY <1>2, <1>3, <1>4, <1>5 DEF SoundTable

(* LOCK_enq puts a new request, which holds nothing yet, on the queue of   *)
(* its lock.                                                               *)
LEMMA InsertStep ==
    ASSUME TableInv, NEW o \in lhb_owners, NEW r \in FreeRequests,
           op[o].lock \in Locks, op[o].level \in Granted, op[o].ast \in BOOLEAN,
           EnqInsert(o, r)
    PROVE  SoundTable'
<1>0. PICK l \in Locks : l = op[o].lock
  OBVIOUS
<1> USE DEF TableInv
<1>1. /\ lrq_owner' = [lrq_owner EXCEPT ![r] = o]
      /\ lrq_lock' = [lrq_lock EXCEPT ![r] = l]
      /\ lrq_requested' = [lrq_requested EXCEPT ![r] = op[o].level]
      /\ lrq_state' = [lrq_state EXCEPT ![r] = LCK_none]
      /\ lrq_flags' = [lrq_flags EXCEPT ![r] = {}]
      /\ lrq_ast_routine' = [lrq_ast_routine EXCEPT ![r] = op[o].ast]
      /\ lbl_requests' = [lbl_requests EXCEPT ![l] = Append(@, r)]
      /\ UNCHANGED <<lbl_counts, lbl_state, lbl_pending_lrq_count, lhb_owners,
                     own_blocks>>
  BY <1>0 DEF EnqInsert, ownVars
<1>2. /\ r \in Requests /\ lrq_owner[r] = NoOwner /\ lrq_lock[r] = NoLock
      /\ lrq_flags[r] = {} /\ lrq_state[r] = LCK_none /\ o \in Owners
      /\ lbl_requests[l] \in Seq(Requests) /\ r \notin RequestsOf(l)
      /\ l # NoLock /\ o # NoOwner
  BY ConstantsAssumption DEF FreeRequests, RequestInv, TypeOK, RequestsOf
<1>3. \A s \in Requests : s # r =>
        /\ lrq_lock'[s] = lrq_lock[s] /\ lrq_state'[s] = lrq_state[s]
        /\ lrq_flags'[s] = lrq_flags[s] /\ lrq_owner'[s] = lrq_owner[s]
        /\ lrq_requested'[s] = lrq_requested[s]
  BY <1>1 DEF TypeOK
<1>4. /\ lrq_lock'[r] = l /\ lrq_state'[r] = LCK_none /\ lrq_flags'[r] = {}
      /\ lrq_owner'[r] = o
  BY <1>1, <1>2 DEF TypeOK
<1>5. ASSUME NEW k \in Locks
      PROVE  /\ \A m \in Granted : HeldAt(k, m)' = HeldAt(k, m)
             /\ WaitingAt(k)' = WaitingAt(k)
  <2>1. ASSUME NEW m \in Granted PROVE HeldAt(k, m)' = HeldAt(k, m)
    <3>1. m # LCK_none
      BY LevelsFact
    <3> QED BY <3>1, <1>2, <1>3, <1>4 DEF HeldAt, RequestsOf
  <2>2. WaitingAt(k)' = WaitingAt(k)
    BY <1>2, <1>3, <1>4 DEF WaitingAt, RequestsOf, Pending
  <2> QED BY <2>1, <2>2
<1>6. CountsExact'
  BY <1>1, <1>5, CountsFrame
<1>7. Append(lbl_requests[l], r) \in Seq(Requests)
      /\ Injective(Append(lbl_requests[l], r))
      /\ Members(Append(lbl_requests[l], r)) = RequestsOf(l) \cup {r}
  BY <1>2, AppendFacts DEF QueueInv
<1>8. QueueInv'
  <2>1. ASSUME NEW k \in Locks
        PROVE  /\ Injective(lbl_requests'[k])
               /\ Members(lbl_requests'[k]) = RequestsOf(k)'
    <3>1. CASE k = l
      <4>1. RequestsOf(k)' = RequestsOf(l) \cup {r}
        BY <3>1, <1>2, <1>3, <1>4 DEF RequestsOf
      <4> QED BY <4>1, <3>1, <1>1, <1>7 DEF TypeOK
    <3>2. CASE k # l
      <4>1. lbl_requests'[k] = lbl_requests[k]
        BY <3>2, <1>1 DEF TypeOK
      <4>2. RequestsOf(k)' = RequestsOf(k)
        BY <3>2, <1>2, <1>3, <1>4, ConstantsAssumption DEF RequestsOf
      <4> QED BY <4>1, <4>2 DEF QueueInv
    <3> QED BY <3>1, <3>2
  <2>2. ASSUME NEW u \in Owners
        PROVE  /\ Injective(own_blocks'[u])
               /\ \A s \in Requests : s \in Members(own_blocks'[u]) <=>
                     /\ lrq_owner'[s] = u
                     /\ "blocking" \in lrq_flags'[s] \/ "repost" \in lrq_flags'[s]
    BY <1>1, <1>2, <1>3, <1>4 DEF QueueInv
  <2> QED BY <2>1, <2>2 DEF QueueInv
<1>9. RequestInv'
  BY <1>1, <1>2, <1>3, <1>4 DEF RequestInv, Pending
<1>10. TableTypes'
  <2>1. op[o].level \in States /\ LCK_none \in States
    BY LevelsFact
  <2> QED BY <1>1, <1>2, <1>7, <2>1 DEF TypeOK, TableTypes
<1>11. GrantedCompatible'
  <2>1. lrq_state'[r] = LCK_none /\ \A s \in Requests : lrq_state'[s] \in States
    BY <1>4, <1>10 DEF TableTypes
  <2> QED BY <1>3, <2>1, CompatibleNone DEF GrantedCompatible
<1> QED BY <1>6, <1>8, <1>9, <1>10, <1>11 DEF SoundTable

(* wait_for_request marks the request pending and, with the grant order    *)
(* option, moves it to the tail of the queue.                              *)
LEMMA WaitStepTable ==
    ASSUME TableInv, NEW o \in Owners, NEW r \in Requests, lrq_lock[r] \in Locks,
           lrq_requested[r] \in Granted, ~ Pending(r), BeginWait(o, r),
           UNCHANGED <<lbl_counts, lbl_state, lrq_owner, lrq_lock,
                       lrq_requested, lrq_state, lrq_ast_routine, lhb_owners,
                       own_blocks>>
    PROVE  SoundTable'
<1>0. PICK l \in Locks : l = lrq_lock[r]
  OBVIOUS
<1> USE DEF TableInv
<1> DEFINE q == IF LOCK_ordering /\ lrq_state[r] = LCK_none
                THEN Append(Without(lbl_requests[l], r), r)
                ELSE lbl_requests[l]
<1>1. /\ lrq_flags' =
            [lrq_flags EXCEPT ![r] = (@ \ {"rejected"}) \cup {"pending"}]
      /\ lbl_pending_lrq_count' = [lbl_pending_lrq_count EXCEPT ![l] = @ + 1]
      /\ lbl_requests' = [lbl_requests EXCEPT ![l] = q]
  BY <1>0, Zenon DEF BeginWait
<1>2. /\ lbl_requests[l] \in Seq(Requests) /\ Injective(lbl_requests[l])
      /\ Members(lbl_requests[l]) = RequestsOf(l) /\ r \in RequestsOf(l)
  BY <1>0 DEF TypeOK, QueueInv, RequestsOf
<1>3. q \in Seq(Requests) /\ Injective(q) /\ Members(q) = RequestsOf(l)
  <2> DEFINE w == Without(lbl_requests[l], r)
  <2>1. w \in Seq(Requests) /\ Injective(w) /\ Members(w) = RequestsOf(l) \ {r}
    BY <1>2, WithoutFacts
  <2> HIDE DEF w
  <2>2. /\ Append(w, r) \in Seq(Requests) /\ Injective(Append(w, r))
        /\ Members(Append(w, r)) = RequestsOf(l)
    <3>1. r \notin Members(w)
      BY <2>1
    <3>2. Members(w) \cup {r} = RequestsOf(l)
      BY <1>2, <2>1
    <3> QED BY <2>1, <3>1, <3>2, AppendFacts
  <2> QED BY <1>2, <2>2 DEF w
<1> HIDE DEF q
<1>4. \A s \in Requests :
        /\ s # r => lrq_flags'[s] = lrq_flags[s]
        /\ "blocking" \in lrq_flags'[s] <=> "blocking" \in lrq_flags[s]
        /\ "repost" \in lrq_flags'[s] <=> "repost" \in lrq_flags[s]
  BY <1>1 DEF TypeOK
<1>5. "pending" \in lrq_flags'[r]
  BY <1>1 DEF TypeOK
<1>6. TableTypes'
  BY <1>1, <1>3 DEF TypeOK, TableTypes, LrqFlags
<1>7. QueueInv'
  BY <1>1, <1>3, <1>4 DEF QueueInv, RequestsOf, TypeOK
<1>8. RequestInv'
  BY <1>0, <1>1, <1>4, ConstantsAssumption DEF RequestInv, Pending
<1>9. CountsExact'
  <2>1. ASSUME NEW k \in Locks
        PROVE  /\ \A n \in Granted : lbl_counts'[k][n] = Cardinality(HeldAt(k, n)')
               /\ lbl_pending_lrq_count'[k] = Cardinality(WaitingAt(k)')
               /\ lbl_state'[k] = lock_state(lbl_counts'[k])
    <3>1. \A n : HeldAt(k, n)' = HeldAt(k, n)
      BY DEF HeldAt, RequestsOf
    <3>2. lbl_pending_lrq_count'[k] = Cardinality(WaitingAt(k)')
      <4>1. CASE k = l
        <5>1. WaitingAt(k)' = WaitingAt(k) \cup {r} /\ r \notin WaitingAt(k)
          BY <4>1, <1>0, <1>4, <1>5 DEF WaitingAt, RequestsOf, Pending
        <5>2. IsFiniteSet(WaitingAt(k))
          BY HeldFinite, FiniteRequests
        <5>3. Cardinality(WaitingAt(k) \cup {r}) = Cardinality(WaitingAt(k)) + 1
          BY <5>1, <5>2, FS_AddElement
        <5> QED BY <5>1, <5>3, <4>1, <1>1, CountsExactSets DEF TypeOK
      <4>2. CASE k # l
        <5>1. WaitingAt(k)' = WaitingAt(k)
          BY <4>2, <1>0, <1>4 DEF WaitingAt, RequestsOf, Pending
        <5> QED BY <5>1, <4>2, <1>1, CountsExactSets DEF TypeOK
      <4> QED BY <4>1, <4>2
    <3> QED BY <3>1, <3>2, CountsExactSets
  <2> QED BY <2>1 DEF CountsExact, HeldAt, WaitingAt
<1>10. GrantedCompatible'
  BY DEF GrantedCompatible
<1> QED BY <1>6, <1>7, <1>8, <1>9, <1>10 DEF SoundTable

(* A pending request is rejected, by its owner or by a deadlock scan. *)
LEMMA RejectStep ==
    ASSUME TableInv, NEW r \in Requests, Pending(r),
           lrq_flags' =
              [lrq_flags EXCEPT ![r] = (@ \ {"pending"}) \cup {"rejected"}],
           lbl_pending_lrq_count' =
              [lbl_pending_lrq_count EXCEPT ![lrq_lock[r]] = @ - 1],
           UNCHANGED <<lbl_requests, lbl_counts, lbl_state, lrq_owner, lrq_lock,
                       lrq_requested, lrq_state, lrq_ast_routine, lhb_owners,
                       own_blocks>>
    PROVE  SoundTable'
<1> USE DEF TableInv
<1>0. PICK l \in Locks : l = lrq_lock[r]
  BY DEF RequestInv, TypeOK
<1>1. \A s \in Requests :
        /\ s # r => lrq_flags'[s] = lrq_flags[s]
        /\ "blocking" \in lrq_flags'[s] <=> "blocking" \in lrq_flags[s]
        /\ "repost" \in lrq_flags'[s] <=> "repost" \in lrq_flags[s]
  BY DEF TypeOK
<1>2. "pending" \notin lrq_flags'[r]
  BY DEF TypeOK
<1>3. ASSUME NEW k \in Locks
      PROVE  /\ \A n \in Granted : lbl_counts'[k][n] = Cardinality(HeldAt(k, n)')
             /\ lbl_pending_lrq_count'[k] = Cardinality(WaitingAt(k)')
             /\ lbl_pending_lrq_count'[k] \in Nat
             /\ lbl_state'[k] = lock_state(lbl_counts'[k])
  <2>1. \A n : HeldAt(k, n)' = HeldAt(k, n)
    BY DEF HeldAt, RequestsOf
  <2>2. /\ lbl_pending_lrq_count'[k] = Cardinality(WaitingAt(k)')
        /\ lbl_pending_lrq_count'[k] \in Nat
    <3>1. CASE k = l
      <4>1. WaitingAt(k)' = WaitingAt(k) \ {r} /\ r \in WaitingAt(k)
        BY <3>1, <1>0, <1>1, <1>2 DEF WaitingAt, RequestsOf, Pending
      <4>2. WaitingAt(k) \in SUBSET Requests /\ WaitingAt(k) \ {r} \in SUBSET Requests
        BY HeldFinite
      <4>3. Cardinality(WaitingAt(k) \ {r}) = Cardinality(WaitingAt(k)) - 1
            /\ Cardinality(WaitingAt(k) \ {r}) \in Nat
        BY <4>1, <4>2, FiniteRequests, FS_RemoveElement
      <4> QED BY <4>1, <4>3, <3>1, <1>0, CountsExactSets DEF TypeOK
    <3>2. CASE k # l
      <4>1. WaitingAt(k)' = WaitingAt(k)
        BY <3>2, <1>0, <1>1 DEF WaitingAt, RequestsOf, Pending
      <4> QED BY <4>1, <3>2, <1>0, CountsExactSets DEF TypeOK
    <3> QED BY <3>1, <3>2
  <2> QED BY <2>1, <2>2, CountsExactSets
<1>4. CountsExact'
  BY <1>3 DEF CountsExact, HeldAt, WaitingAt
<1>5. TableTypes'
  <2>1. lbl_pending_lrq_count' \in [Locks -> Nat]
    BY <1>0, <1>3 DEF TypeOK
  <2> QED BY <2>1 DEF TypeOK, TableTypes, LrqFlags
<1>6. QueueInv'
  BY <1>1 DEF QueueInv, RequestsOf, TypeOK
<1>7. RequestInv'
  BY <1>0, <1>1, <1>2, ConstantsAssumption DEF RequestInv, Pending
<1>8. GrantedCompatible'
  BY DEF GrantedCompatible
<1> QED BY <1>4, <1>5, <1>6, <1>7, <1>8 DEF SoundTable

(* post_blockage puts a request on its owner's queue of blocks. *)
LEMMA BlockStep ==
    ASSUME TableInv, NEW b \in Requests, lrq_lock[b] # NoLock,
           lrq_flags' = [lrq_flags EXCEPT ![b] = @ \cup {"blocking"}],
           own_blocks' = [own_blocks EXCEPT ![lrq_owner[b]] =
                 IF "blocking" \in lrq_flags[b] THEN @ ELSE Append(@, b)],
           UNCHANGED <<lblVars, lrq_owner, lrq_lock, lrq_requested, lrq_state,
                       lrq_ast_routine, lhb_owners>>
    PROVE  SoundTable'
<1> USE DEF TableInv, lblVars
<1>0. PICK v \in Owners : v = lrq_owner[b]
  BY DEF RequestInv, TypeOK
<1> DEFINE w == IF "blocking" \in lrq_flags[b] THEN own_blocks[v]
                ELSE Append(own_blocks[v], b)
<1>1. own_blocks' = [own_blocks EXCEPT ![v] = w]
  BY <1>0
<1>2. own_blocks[v] \in Seq(Requests) /\ Injective(own_blocks[v])
  BY DEF TypeOK, QueueInv
<1>3. /\ w \in Seq(Requests) /\ Injective(w)
      /\ Members(w) = Members(own_blocks[v]) \cup {b}
  <2>1. CASE "blocking" \in lrq_flags[b]
    <3>1. b \in Members(own_blocks[v])
      BY <2>1, <1>0 DEF QueueInv
    <3> QED BY <2>1, <3>1, <1>2
  <2>2. CASE "blocking" \notin lrq_flags[b]
    <3>1. b \notin Members(own_blocks[v])
      BY <2>2, <1>0 DEF QueueInv, RequestInv
    <3> QED BY <2>2, <3>1, <1>2, AppendFacts
  <2> QED BY <2>1, <2>2
<1> HIDE DEF w
<1>4. \A s \in Requests :
        /\ s # b => lrq_flags'[s] = lrq_flags[s]
        /\ "pending" \in lrq_flags'[s] <=> "pending" \in lrq_flags[s]
        /\ "repost" \in lrq_flags'[s] <=> "repost" \in lrq_flags[s]
  BY DEF TypeOK
<1>5. "blocking" \in lrq_flags'[b]
  BY DEF TypeOK
<1>6. CountsExact' /\ GrantedCompatible'
  BY <1>4, LevelsFrame DEF Pending
<1>7. TableTypes'
  BY <1>1, <1>3 DEF TypeOK, TableTypes, LrqFlags
<1>8. QueueInv'
  <2>1. ASSUME NEW u \in Owners
        PROVE  /\ Injective(own_blocks'[u])
               /\ \A s \in Requests : s \in Members(own_blocks'[u]) <=>
                     /\ lrq_owner'[s] = u
                     /\ "blocking" \in lrq_flags'[s] \/ "repost" \in lrq_flags'[s]
    <3>1. CASE u = v
      <4>1. own_blocks'[u] = w
        BY <3>1, <1>1 DEF TypeOK
      <4>2. \A s \in Requests : s \in Members(own_blocks[v]) <=>
               /\ lrq_owner[s] = v
               /\ "blocking" \in lrq_flags[s] \/ "repost" \in lrq_flags[s]
        BY DEF QueueInv
      <4>3. lrq_owner'[b] = v
        BY <1>0
      <4>4. \A s \in Requests : s \in Members(w) <=>
               /\ lrq_owner'[s] = v
               /\ "blocking" \in lrq_flags'[s] \/ "repost" \in lrq_flags'[s]
        BY <4>2, <4>3, <1>3, <1>4, <1>5
      <4> QED BY <4>1, <4>4, <3>1, <1>3
    <3>2. CASE u # v
      <4>1. own_blocks'[u] = own_blocks[u]
        BY <3>2, <1>1 DEF TypeOK
      <4> QED BY <4>1, <3>2, <1>0, <1>4, <1>5 DEF QueueInv
    <3> QED BY <3>1, <3>2
  <2> QED BY <2>1 DEF QueueInv, RequestsOf
<1>9. RequestInv'
  BY <1>0, <1>4, <1>5, ConstantsAssumption DEF RequestInv, Pending
<1> QED BY <1>6, <1>7, <1>8, <1>9 DEF SoundTable

(* blocking_action2 takes the first block off the queue. *)
LEMMA AstStep ==
    ASSUME TableInv, NEW o \in Owners, AstNext(o)
    PROVE  SoundTable'
<1> USE DEF TableInv, lblVars
<1>0. PICK r \in Requests : r = Head(own_blocks[o])
  BY TailFacts, MembersFacts DEF AstNext, TypeOK, QueueInv
<1>1. PICK repost \in BOOLEAN : repost = ("blocking" \notin lrq_flags[r])
  OBVIOUS
<1>2. /\ own_blocks[o] # <<>>
      /\ own_blocks' = [own_blocks EXCEPT ![o] = Tail(@)]
      /\ lrq_flags' = [lrq_flags EXCEPT ![r] = IF repost THEN {}
            ELSE (@ \ {"blocking"}) \cup {"blocking_seen"}]
      /\ lrq_owner' = [lrq_owner EXCEPT ![r] = IF repost THEN NoOwner ELSE @]
      /\ lrq_ast_routine' =
            [lrq_ast_routine EXCEPT ![r] = IF repost THEN FALSE ELSE @]
      /\ UNCHANGED <<lblVars, lrq_lock, lrq_requested, lrq_state, lhb_owners>>
  BY <1>0, <1>1 DEF AstNext
<1>3. /\ own_blocks[o] \in Seq(Requests) /\ Injective(own_blocks[o])
      /\ Tail(own_blocks[o]) \in Seq(Requests) /\ Injective(Tail(own_blocks[o]))
      /\ Members(Tail(own_blocks[o])) = Members(own_blocks[o]) \ {r}
      /\ r \in Members(own_blocks[o])
  BY <1>0, <1>2, TailFacts DEF TypeOK, QueueInv
<1>4. /\ lrq_owner[r] = o
      /\ repost => /\ "repost" \in lrq_flags[r]
                   /\ lrq_lock[r] = NoLock /\ ~ Pending(r)
      /\ ~ repost => lrq_lock[r] # NoLock /\ "repost" \notin lrq_flags[r]
  BY <1>1, <1>3 DEF QueueInv, RequestInv
<1>5. \A s \in Requests :
        /\ s # r => lrq_flags'[s] = lrq_flags[s] /\ lrq_owner'[s] = lrq_owner[s]
        /\ "pending" \in lrq_flags'[s] <=> "pending" \in lrq_flags[s]
  BY <1>2, <1>4 DEF TypeOK, Pending
<1>6. /\ "blocking" \notin lrq_flags'[r] /\ "repost" \notin lrq_flags'[r]
      /\ repost => lrq_flags'[r] = {} /\ lrq_owner'[r] = NoOwner
      /\ ~ repost => lrq_owner'[r] = o
  BY <1>2, <1>4 DEF TypeOK
<1>7. CountsExact' /\ GrantedCompatible'
  BY <1>2, <1>5, LevelsFrame DEF Pending
<1>8. TableTypes'
  BY <1>2, <1>3, <1>4 DEF TypeOK, TableTypes, LrqFlags
<1>9. QueueInv'
  <2>1. ASSUME NEW u \in Owners
        PROVE  /\ Injective(own_blocks'[u])
               /\ \A s \in Requests : s \in Members(own_blocks'[u]) <=>
                     /\ lrq_owner'[s] = u
                     /\ "blocking" \in lrq_flags'[s] \/ "repost" \in lrq_flags'[s]
    <3>1. CASE u = o
      <4>1. own_blocks'[u] = Tail(own_blocks[o])
        BY <3>1, <1>2 DEF TypeOK
      <4> QED BY <4>1, <3>1, <1>3, <1>5, <1>6 DEF QueueInv
    <3>2. CASE u # o
      <4>1. own_blocks'[u] = own_blocks[u]
        BY <3>2, <1>2 DEF TypeOK
      <4> QED BY <4>1, <3>2, <1>4, <1>5, <1>6 DEF QueueInv
    <3> QED BY <3>1, <3>2
  <2> QED BY <1>2, <2>1 DEF QueueInv, RequestsOf
<1>10. RequestInv'
  BY <1>2, <1>4, <1>5, <1>6 DEF RequestInv, Pending
<1> QED BY <1>7, <1>8, <1>9, <1>10 DEF SoundTable

(* LOCK_re_post queues a block of its own for the owner.                   *)
LEMMA RepostStep ==
    ASSUME TableInv, NEW o \in lhb_owners, NEW r \in FreeRequests,
           lrq_owner' = [lrq_owner EXCEPT ![r] = o],
           lrq_flags' = [lrq_flags EXCEPT ![r] = {"repost"}],
           lrq_ast_routine' = [lrq_ast_routine EXCEPT ![r] = TRUE],
           own_blocks' = [own_blocks EXCEPT ![o] = Append(@, r)],
           UNCHANGED <<lblVars, lrq_lock, lrq_requested, lrq_state, lhb_owners>>
    PROVE  SoundTable'
<1> USE DEF TableInv, lblVars
<1>1. /\ o \in Owners /\ o # NoOwner /\ r \in Requests /\ lrq_owner[r] = NoOwner
      /\ lrq_flags[r] = {} /\ lrq_lock[r] = NoLock
      /\ own_blocks[o] \in Seq(Requests) /\ Injective(own_blocks[o])
  BY ConstantsAssumption DEF TypeOK, FreeRequests, RequestInv, QueueInv
<1>2. r \notin Members(own_blocks[o])
  BY <1>1 DEF QueueInv
<1>3. /\ Append(own_blocks[o], r) \in Seq(Requests)
      /\ Injective(Append(own_blocks[o], r))
      /\ Members(Append(own_blocks[o], r)) = Members(own_blocks[o]) \cup {r}
  BY <1>1, <1>2, AppendFacts
<1>4. \A s \in Requests : s # r =>
        lrq_flags'[s] = lrq_flags[s] /\ lrq_owner'[s] = lrq_owner[s]
  BY DEF TypeOK
<1>5. lrq_flags'[r] = {"repost"} /\ lrq_owner'[r] = o
  BY <1>1 DEF TypeOK
<1>6. CountsExact' /\ GrantedCompatible'
  BY <1>1, <1>4, <1>5, LevelsFrame DEF Pending
<1>7. TableTypes'
  BY <1>1, <1>3 DEF TypeOK, TableTypes, LrqFlags
<1>8. QueueInv'
  <2>1. ASSUME NEW u \in Owners
        PROVE  /\ Injective(own_blocks'[u])
               /\ \A s \in Requests : s \in Members(own_blocks'[u]) <=>
                     /\ lrq_owner'[s] = u
                     /\ "blocking" \in lrq_flags'[s] \/ "repost" \in lrq_flags'[s]
    <3>1. CASE u = o
      <4>1. own_blocks'[u] = Append(own_blocks[o], r)
        BY <3>1, <1>1 DEF TypeOK
      <4> QED BY <4>1, <3>1, <1>3, <1>4, <1>5 DEF QueueInv
    <3>2. CASE u # o
      <4>1. own_blocks'[u] = own_blocks[u]
        BY <3>2, <1>1 DEF TypeOK
      <4> QED BY <4>1, <3>2, <1>1, <1>4, <1>5 DEF QueueInv
    <3> QED BY <3>1, <3>2
  <2> QED BY <2>1 DEF QueueInv, RequestsOf
<1>9. RequestInv'
  BY <1>1, <1>4, <1>5 DEF RequestInv, Pending
<1> QED BY <1>6, <1>7, <1>8, <1>9 DEF SoundTable

(* An owner without requests takes its reposts with it. *)
LEMMA PurgeStep ==
    ASSUME TableInv, NEW o, sec.victim \in Owners, PurgeOwner(o)
    PROVE  SoundTable' /\ \A r \in Requests : lrq_owner'[r] # sec.victim
<1> USE DEF TableInv, lblVars
<1>0. PICK v \in Owners : v = sec.victim
  OBVIOUS
<1> DEFINE left == Members(own_blocks[v])
<1>1. /\ own_requests(v) = {}
      /\ lrq_owner' = [r \in Requests |->
            IF r \in left THEN NoOwner ELSE lrq_owner[r]]
      /\ lrq_flags' = [r \in Requests |->
            IF r \in left THEN {} ELSE lrq_flags[r]]
      /\ lrq_ast_routine' = [r \in Requests |->
            r \notin left /\ lrq_ast_routine[r]]
      /\ own_blocks' = [own_blocks EXCEPT ![v] = <<>>]
      /\ lhb_owners' = lhb_owners \ {v}
      /\ UNCHANGED <<lblVars, lrq_lock, lrq_requested, lrq_state>>
  BY <1>0 DEF PurgeOwner
<1>2. \A r \in Requests : r \in left <=> lrq_owner[r] = v
  BY <1>1, ConstantsAssumption DEF QueueInv, RequestInv, own_requests
<1>3. \A r \in left : lrq_owner[r] = v /\ lrq_lock[r] = NoLock /\ ~ Pending(r)
  <2>1. left \subseteq Requests
    BY MembersFacts DEF TypeOK
  <2> QED BY <1>1, <1>2, <2>1 DEF own_requests, RequestInv
<1>4. v # NoOwner
  BY ConstantsAssumption
<1> HIDE DEF left
<1>5. CountsExact' /\ GrantedCompatible'
  BY <1>1, <1>3, LevelsFrame DEF Pending
<1>6. TableTypes'
  <2>1. <<>> \in Seq(Requests)
    OBVIOUS
  <2> QED BY <1>1, <2>1 DEF TypeOK, TableTypes
<1>7. QueueInv'
  <2>1. ASSUME NEW u \in Owners
        PROVE  /\ Injective(own_blocks'[u])
               /\ \A s \in Requests : s \in Members(own_blocks'[u]) <=>
                     /\ lrq_owner'[s] = u
                     /\ "blocking" \in lrq_flags'[s] \/ "repost" \in lrq_flags'[s]
    <3>1. CASE u = v
      <4>1. own_blocks'[u] = <<>>
        BY <3>1, <1>1 DEF TypeOK
      <4>2. Injective(<<>>) /\ Members(<<>>) = {}
        BY DEF Injective, Members
      <4> QED BY <4>1, <4>2, <3>1, <1>1, <1>2, <1>4
    <3>2. CASE u # v
      <4>1. own_blocks'[u] = own_blocks[u]
        BY <3>2, <1>1 DEF TypeOK
      <4>2. u # NoOwner
        BY ConstantsAssumption
      <4> QED BY <4>1, <4>2, <3>2, <1>1, <1>2 DEF QueueInv
    <3> QED BY <3>1, <3>2
  <2> QED BY <1>1, <2>1 DEF QueueInv, RequestsOf
<1>8. RequestInv'
  BY <1>1, <1>2, <1>3 DEF RequestInv, Pending
<1>9. \A r \in Requests : lrq_owner'[r] # v
  BY <1>1, <1>2, <1>4
<1> QED BY <1>0, <1>5, <1>6, <1>7, <1>8, <1>9 DEF SoundTable

(* init_owner_block makes an owner that has no request. *)
LEMMA CreateStep ==
    ASSUME TableInv, NEW o \in Owners, o \notin lhb_owners, CreateOwner(o)
    PROVE  SoundTable'
<1> USE DEF TableInv
<1>1. /\ lhb_owners' = lhb_owners \cup {o}
      /\ own_blocks' = [own_blocks EXCEPT ![o] = <<>>]
      /\ UNCHANGED <<lblVars, lrqVars>>
  BY DEF CreateOwner
<1>2. \A r \in Requests : lrq_owner[r] # o
  BY ConstantsAssumption DEF RequestInv
<1>3. own_blocks[o] = <<>>
  <2>1. own_blocks[o] \in Seq(Requests)
    BY DEF TypeOK
  <2>2. Members(own_blocks[o]) = {}
    BY <2>1, <1>2, MembersFacts DEF QueueInv
  <2> QED BY <2>1, <2>2, MembersFacts
<1>4. own_blocks' = own_blocks
  BY <1>1, <1>3 DEF TypeOK
<1> USE DEF lblVars, lrqVars
<1>5. CountsExact' /\ GrantedCompatible'
  BY <1>1, LevelsFrame DEF Pending
<1>6. TableTypes' /\ QueueInv' /\ RequestInv'
  BY <1>1, <1>4 DEF TypeOK, TableTypes, QueueInv, RequestInv, RequestsOf, Pending
<1> QED BY <1>5, <1>6 DEF SoundTable

-----------------------------------------------------------------------------
(* Every step preserves the invariant. *)

RestTypes ==
    /\ own_pending_request \in [Owners -> Requests \cup {NoReq}]
    /\ own_flags \in [Owners -> SUBSET OwnFlags]
    /\ own_signaled \in [Owners -> BOOLEAN]
    /\ own_semaphore \in [Owners -> BOOLEAN]
    /\ lhb_active_owner \in Owners \cup {NoOwner}
    /\ own_hung \in [Owners -> BOOLEAN]
    /\ sec \in Secs
    /\ alive \in SUBSET Owners
    /\ sigpend \in SUBSET Owners
    /\ pc \in [Owners -> Pcs]
    /\ ast \in [Owners -> Asts]
    /\ op \in [Owners -> Ops]
    /\ lck_physical \in [Requests -> States]
    /\ crashes \in 0 .. MaxCrashes

(* The invariant: a sound table, well-typed owners and processes, waiters  *)
(* and section.                                                            *)
LEMMA IInvParts ==
    IInv <=> SoundTable /\ RestTypes /\ WaitInv /\ SecInv
BY DEF IInv, TableInv, SoundTable, TypeOK, TableTypes, RestTypes

(* The same for the next state.                                            *)
LEMMA IInvPrime ==
    (SoundTable' /\ RestTypes' /\ WaitInv' /\ SecInv') => IInv'
BY DEF IInv, TableInv, SoundTable, TypeOK, TableTypes, RestTypes

(* post_wakeup only sets the wakeup flag.                                  *)
LEMMA PostWakeupType ==
    ASSUME NEW f \in [Owners -> SUBSET OwnFlags], NEW o
    PROVE  post_wakeup(f, o) \in [Owners -> SUBSET OwnFlags]
BY DEF post_wakeup, OwnFlags

(* The sections and operations the actions build are of the right form. *)
LEMMA SecForms ==
    ASSUME sec \in Secs
    PROVE  /\ NoSec \in Secs /\ Release \in Secs
           /\ \A st \in Stages : At(st) \in Secs
           /\ \A l \in Locks, a \in {"release", "enq", "reset", "purge"} :
                 PostPending(l, a) \in Secs
           /\ \A v \in Owners, a \in {"unlock", "create", "block", "probe"} :
                 Purge(v, a) \in Secs
<1>1. NoSec \in Secs
  BY DEF NoSec, Secs, Stages
<1>2. Release \in Secs
  BY <1>1 DEF Release, Secs, Stages
<1>3. ASSUME NEW st \in Stages PROVE At(st) \in Secs
  BY DEF At, Secs
<1>4. ASSUME NEW l \in Locks, NEW a \in {"release", "enq", "reset", "purge"}
      PROVE  PostPending(l, a) \in Secs
  <2>1. 1 \in Nat \ {0} /\ "post" \in Stages
    BY DEF Stages
  <2> QED BY <2>1 DEF PostPending, Secs
<1>5. ASSUME NEW v \in Owners, NEW a \in {"unlock", "create", "block", "probe"}
      PROVE  Purge(v, a) \in Secs
  BY DEF Purge, Secs, Stages
<1> QED BY <1>1, <1>2, <1>3, <1>4, <1>5

(* post_pending looks at a position of the queue, at a pending request. *)
LEMMA NextPendingFacts ==
    ASSUME IInv, sec.at = "post", PendingAhead # {}
    PROVE  /\ NextPending \in Nat
           /\ lbl_requests[sec.lock][NextPending] \in Requests
           /\ Pending(lbl_requests[sec.lock][NextPending])
           /\ lrq_lock[lbl_requests[sec.lock][NextPending]] = sec.lock
           /\ sec.lock \in Locks
<1> USE IInvParts
<1>1. sec.lock \in Locks /\ sec.pos \in Nat \ {0}
  BY DEF SecInv, RestTypes, Secs
<1>2. lbl_requests[sec.lock] \in Seq(Requests)
  BY <1>1 DEF SoundTable, TableTypes
<1>3. PendingAhead \in SUBSET Nat
  BY <1>1, <1>2 DEF PendingAhead
<1>4. NextPending \in PendingAhead
  BY <1>3, MinExists DEF NextPending
<1>6. NextPending \in 1 .. Len(lbl_requests[sec.lock])
  BY <1>1, <1>2, <1>4 DEF PendingAhead
<1>7. lbl_requests[sec.lock][NextPending] \in Members(lbl_requests[sec.lock])
  BY <1>6 DEF Members
<1>8. lbl_requests[sec.lock][NextPending] \in RequestsOf(sec.lock)
  BY <1>1, <1>7 DEF SoundTable, QueueInv
<1> QED BY <1>1, <1>3, <1>4, <1>8 DEF PendingAhead, RequestsOf

(* A process outside the lock manager has no operation under way.          *)
LEMMA NoOpForm == NoOp \in Ops /\ NoOp.req = NoReq
BY LevelsFact DEF NoOp, Ops

(* The invariant is preserved by release().                                *)
LEMMA ReleaseTable_Inv ==
    ASSUME IInv, NEW o \in Owners, ReleaseTable(o)
    PROVE  IInv'
<1> USE IInvParts, ConstantsAssumption
<1>1. SoundTable'
  BY TableFrame DEF ReleaseTable, IInv, ownVars
<1>2. RestTypes'
  <2>1. sec' \in Secs
    BY SecForms DEF ReleaseTable, RestTypes, Stages
  <2> QED BY <2>1 DEF ReleaseTable, procVars, RestTypes
<1>3. WaitInv'
  BY DEF ReleaseTable, lblVars, lrqVars, ownVars, secVars, procVars, At, RestTypes, WaitInv, SecInv, Purging, Pending, Secs, Ops
<1>4. SecInv'
  <2>1. sec' \in {At("ast"), At("unlock")} /\ UNCHANGED <<lrqVars, lhb_owners,
                                                          lhb_active_owner, own_hung,
                                                          procVars>>
    BY DEF ReleaseTable
  <2>2. UNCHANGED <<lrqVars, lhb_owners, lhb_active_owner, own_hung, procVars>>
    BY DEF ReleaseTable
  <2>3. sec.at = "release"
    BY DEF ReleaseTable
  <2>4. CASE sec' = At("ast")
    BY <2>2, <2>3, <2>4 DEF At, lrqVars, procVars, RestTypes, WaitInv, SecInv, Purging, Pending, Secs, Ops
  <2>5. CASE sec' = At("unlock")
    BY <2>2, <2>3, <2>5 DEF At, lrqVars, procVars, RestTypes, WaitInv, SecInv, Purging, Pending, Secs, Ops
  <2> QED BY <2>1, <2>4, <2>5
<1> QED BY <1>1, <1>2, <1>3, <1>4, IInvPrime

(* The invariant is preserved by release_mutex().                          *)
LEMMA ReleaseMutex_Inv ==
    ASSUME IInv, NEW o \in Owners, ReleaseMutex(o)
    PROVE  IInv'
<1> USE IInvParts, ConstantsAssumption
<1>1. SoundTable'
  BY TableFrame DEF ReleaseMutex, IInv, ownVars
<1>2. RestTypes'
  BY DEF ReleaseMutex, lblVars, lrqVars, ownVars, secVars, procVars, NoSec, RestTypes, Secs, Stages, Pcs, Asts, Ops
<1>3. WaitInv'
  BY DEF ReleaseMutex, lblVars, lrqVars, ownVars, secVars, procVars, NoSec, RestTypes, WaitInv, SecInv, Purging, Pending, Secs, Ops
<1>4. SecInv'
  BY DEF ReleaseMutex, lblVars, lrqVars, ownVars, secVars, procVars, NoSec, RestTypes, WaitInv, SecInv, Purging, Pending, Secs, Ops
<1> QED BY <1>1, <1>2, <1>3, <1>4, IInvPrime

(* The invariant is preserved by post_pending leaving a request pending.   *)
LEMMA PostRefused_Inv ==
    ASSUME IInv, NEW o \in Owners, PostRefused(o)
    PROVE  IInv'
<1> USE IInvParts, ConstantsAssumption
<1>1. SoundTable'
  BY TableFrame DEF PostRefused, IInv, ownVars
<1>2. RestTypes'
  <2>1. own_flags' \in [Owners -> SUBSET OwnFlags]
    BY PostWakeupType DEF PostRefused, RestTypes
  <2>2. sec' \in Secs
    <3>1. sec.posted \in Stages /\ NextPending \in Nat
      BY NextPendingFacts DEF PostRefused, RestTypes, Secs, Stages
    <3>2. At(sec.posted) \in Secs /\ [sec EXCEPT !.pos = NextPending + 1] \in Secs
      BY <3>1 DEF RestTypes, At, Secs
    <3> QED BY <3>2 DEF PostRefused
  <2> QED BY <2>1, <2>2 DEF PostRefused, procVars, RestTypes
<1>3. WaitInv'
  BY DEF PostRefused, lblVars, lrqVars, ownVars, secVars, procVars, At, RestTypes, WaitInv, SecInv, Purging, Pending, Secs, Ops
<1>4. SecInv'
  BY DEF PostRefused, lblVars, lrqVars, ownVars, secVars, procVars, At, RestTypes, WaitInv, SecInv, Purging, Pending, Secs, Ops
<1> QED BY <1>1, <1>2, <1>3, <1>4, IInvPrime

(* The invariant is preserved by the end of post_pending.                  *)
LEMMA PostDone_Inv ==
    ASSUME IInv, NEW o \in Owners, PostDone(o)
    PROVE  IInv'
<1> USE IInvParts, ConstantsAssumption
<1>1. SoundTable'
  BY TableFrame DEF PostDone, IInv, ownVars
<1>2. RestTypes'
  BY DEF PostDone, lblVars, lrqVars, ownVars, secVars, procVars, At, RestTypes, Secs, Stages, Pcs, Asts, Ops
<1>3. WaitInv'
  BY DEF PostDone, lblVars, lrqVars, ownVars, secVars, procVars, At, RestTypes, WaitInv, SecInv, Purging, Pending, Secs, Ops
<1>4. SecInv'
  BY DEF PostDone, lblVars, lrqVars, ownVars, secVars, procVars, At, RestTypes, WaitInv, SecInv, Purging, Pending, Secs, Ops
<1> QED BY <1>1, <1>2, <1>3, <1>4, IInvPrime

(* The invariant is preserved by LOCK_enq failing for want of a block.     *)
LEMMA EnqOutOfRoom_Inv ==
    ASSUME IInv, NEW o \in Owners, EnqOutOfRoom(o)
    PROVE  IInv'
<1> USE IInvParts, ConstantsAssumption
<1>1. SoundTable'
  BY TableFrame DEF EnqOutOfRoom, IInv, ownVars
<1>2. RestTypes'
  BY SecForms, NoOpForm DEF EnqOutOfRoom, ownVars, RestTypes
<1>3. WaitInv'
  BY DEF EnqOutOfRoom, lblVars, lrqVars, ownVars, secVars, procVars, Release, NoSec, NoOp, RestTypes, WaitInv, SecInv, Purging, Pending, Secs, Ops
<1>4. SecInv'
  BY DEF EnqOutOfRoom, lblVars, lrqVars, ownVars, secVars, procVars, Release, NoSec, NoOp, RestTypes, WaitInv, SecInv, Purging, Pending, Secs, Ops
<1> QED BY <1>1, <1>2, <1>3, <1>4, IInvPrime

(* The invariant is preserved by the end of post_blockage.                 *)
LEMMA PostBlockDone_Inv ==
    ASSUME IInv, NEW o \in Owners, PostBlockDone(o)
    PROVE  IInv'
<1> USE IInvParts, ConstantsAssumption
<1>1. SoundTable'
  BY TableFrame DEF PostBlockDone, IInv, ownVars
<1>2. RestTypes'
  BY DEF PostBlockDone, lblVars, lrqVars, ownVars, secVars, procVars, At, RestTypes, Secs, Stages, Pcs, Asts, Ops
<1>3. WaitInv'
  BY DEF PostBlockDone, lblVars, lrqVars, ownVars, secVars, procVars, At, RestTypes, WaitInv, SecInv, Purging, Pending, Secs, Ops
<1>4. SecInv'
  BY DEF PostBlockDone, lblVars, lrqVars, ownVars, secVars, procVars, At, RestTypes, WaitInv, SecInv, Purging, Pending, Secs, Ops
<1> QED BY <1>1, <1>2, <1>3, <1>4, IInvPrime

(* The invariant is preserved by probe_owners finding a dead owner.        *)
LEMMA ProbeOwner_Inv ==
    ASSUME IInv, NEW o \in Owners, NEW v \in Owners, ProbeOwner(o, v)
    PROVE  IInv'
<1> USE IInvParts, ConstantsAssumption
<1>1. SoundTable'
  BY TableFrame DEF ProbeOwner, IInv, ownVars
<1>2. RestTypes'
  BY DEF ProbeOwner, lblVars, lrqVars, ownVars, secVars, procVars, Purge, DeadOwners, RestTypes, Secs, Stages, Pcs, Asts, Ops
<1>3. WaitInv'
  BY DEF ProbeOwner, lblVars, lrqVars, ownVars, secVars, procVars, Purge, DeadOwners, RestTypes, WaitInv, SecInv, Purging, Pending, Secs, Ops
<1>4. SecInv'
  BY DEF ProbeOwner, lblVars, lrqVars, ownVars, secVars, procVars, Purge, DeadOwners, RestTypes, WaitInv, SecInv, Purging, Pending, Secs, Ops
<1> QED BY <1>1, <1>2, <1>3, <1>4, IInvPrime

(* The invariant is preserved by the end of probe_owners.                  *)
LEMMA ProbeDone_Inv ==
    ASSUME IInv, NEW o \in Owners, ProbeDone(o)
    PROVE  IInv'
<1> USE IInvParts, ConstantsAssumption
<1>1. SoundTable'
  BY TableFrame DEF ProbeDone, IInv, ownVars
<1>2. RestTypes'
  BY DEF ProbeDone, lblVars, lrqVars, ownVars, secVars, procVars, At, RestTypes, Secs, Stages, Pcs, Asts, Ops
<1>3. WaitInv'
  BY DEF ProbeDone, lblVars, lrqVars, ownVars, secVars, procVars, At, RestTypes, WaitInv, SecInv, Purging, Pending, Secs, Ops
<1>4. SecInv'
  BY DEF ProbeDone, lblVars, lrqVars, ownVars, secVars, procVars, At, RestTypes, WaitInv, SecInv, Purging, Pending, Secs, Ops
<1> QED BY <1>1, <1>2, <1>3, <1>4, IInvPrime

(* The invariant is preserved by wait_for_request after probe_owners.      *)
LEMMA Probed_Inv ==
    ASSUME IInv, NEW o \in Owners, Probed(o)
    PROVE  IInv'
<1> USE IInvParts, ConstantsAssumption
<1>1. SoundTable'
  BY TableFrame DEF Probed, IInv, ownVars
<1>2. RestTypes'
  BY SecForms DEF Probed, ownVars, RestTypes, Stages, Pcs
<1>3. WaitInv'
  <2>1. CASE Pending(sec.req)
    BY <2>1 DEF Probed, lblVars, lrqVars, ownVars, secVars, procVars, At, RestTypes, WaitInv, SecInv, Purging, Pending, Secs, Ops
  <2>2. CASE ~ Pending(sec.req)
    BY <2>2 DEF Probed, lblVars, lrqVars, ownVars, secVars, procVars, Release, NoSec, RestTypes, WaitInv, SecInv, Purging, Pending, Secs, Ops
  <2> QED BY <2>1, <2>2
<1>4. SecInv'
  <2>1. CASE Pending(sec.req)
    BY <2>1 DEF Probed, lblVars, lrqVars, ownVars, secVars, procVars, At, RestTypes, WaitInv, SecInv, Purging, Pending, Secs, Ops
  <2>2. CASE ~ Pending(sec.req)
    BY <2>2 DEF Probed, lblVars, lrqVars, ownVars, secVars, procVars, Release, NoSec, RestTypes, WaitInv, SecInv, Purging, Pending, Secs, Ops
  <2> QED BY <2>1, <2>2
<1> QED BY <1>1, <1>2, <1>3, <1>4, IInvPrime

(* The invariant is preserved by the waiting loop seeing its request       *)
(* resolved.                                                               *)
LEMMA WaitOver_Inv ==
    ASSUME IInv, NEW o \in Owners, WaitOver(o)
    PROVE  IInv'
<1> USE IInvParts, ConstantsAssumption
<1>1. SoundTable'
  BY TableFrame DEF WaitOver, IInv, ownVars
<1>2. RestTypes'
  BY DEF WaitOver, lblVars, lrqVars, ownVars, secVars, procVars, Main, RestTypes, Secs, Stages, Pcs, Asts, Ops
<1>3. WaitInv'
  BY DEF WaitOver, lblVars, lrqVars, ownVars, secVars, procVars, Main, RestTypes, WaitInv, SecInv, Purging, Pending, Secs, Ops
<1>4. SecInv'
  BY DEF WaitOver, lblVars, lrqVars, ownVars, secVars, procVars, Main, RestTypes, WaitInv, SecInv, Purging, Pending, Secs, Ops
<1> QED BY <1>1, <1>2, <1>3, <1>4, IInvPrime

(* The invariant is preserved by the waiting loop waking up.               *)
LEMMA WaitWoken_Inv ==
    ASSUME IInv, NEW o \in Owners, WaitWoken(o)
    PROVE  IInv'
<1> USE IInvParts, ConstantsAssumption
<1>1. SoundTable'
  BY TableFrame DEF WaitWoken, IInv, ownVars
<1>2. RestTypes'
  BY DEF WaitWoken, lblVars, lrqVars, ownVars, secVars, procVars, Main, RestTypes, Secs, Stages, Pcs, Asts, Ops
<1>3. WaitInv'
  BY DEF WaitWoken, lblVars, lrqVars, ownVars, secVars, procVars, Main, RestTypes, WaitInv, SecInv, Purging, Pending, Secs, Ops
<1>4. SecInv'
  BY DEF WaitWoken, lblVars, lrqVars, ownVars, secVars, procVars, Main, RestTypes, WaitInv, SecInv, Purging, Pending, Secs, Ops
<1> QED BY <1>1, <1>2, <1>3, <1>4, IInvPrime

(* The invariant is preserved by wait_for_request returning.               *)
LEMMA WaitReturns_Inv ==
    ASSUME IInv, NEW o \in Owners, WaitReturns(o)
    PROVE  IInv'
<1> USE IInvParts, ConstantsAssumption
<1>1. SoundTable'
  BY TableFrame DEF WaitReturns, IInv, ownVars
<1>2. RestTypes'
  <2>1. op[o].level \in States
    BY DEF RestTypes, Ops
  <2> QED BY <2>1, NoOpForm DEF WaitReturns, secVars, RestTypes, Pcs
<1>3. WaitInv'
  BY DEF WaitReturns, lblVars, lrqVars, ownVars, secVars, procVars, Main, Rejected, NoOp, RestTypes, WaitInv, SecInv, Purging, Pending, Secs, Ops
<1>4. SecInv'
  BY DEF WaitReturns, lblVars, lrqVars, ownVars, secVars, procVars, Main, Rejected, NoOp, RestTypes, WaitInv, SecInv, Purging, Pending, Secs, Ops
<1> QED BY <1>1, <1>2, <1>3, <1>4, IInvPrime

(* The invariant is preserved by a woken waiter whose request was          *)
(* resolved.                                                               *)
LEMMA WokenResolved_Inv ==
    ASSUME IInv, NEW o \in Owners, WokenResolved(o)
    PROVE  IInv'
<1> USE IInvParts, ConstantsAssumption
<1>1. SoundTable'
  BY TableFrame DEF WokenResolved, IInv, ownVars
<1>2. RestTypes'
  BY DEF WokenResolved, lblVars, lrqVars, ownVars, secVars, procVars, Woken, Main, acquire, Release, NoSec, RestTypes, Secs, Stages, Pcs, Asts, Ops
<1>3. WaitInv'
  BY DEF WokenResolved, lblVars, lrqVars, ownVars, secVars, procVars, Woken, Main, acquire, Release, NoSec, RestTypes, WaitInv, SecInv, Purging, Pending, Secs, Ops
<1>4. SecInv'
  BY DEF WokenResolved, lblVars, lrqVars, ownVars, secVars, procVars, Woken, Main, acquire, Release, NoSec, RestTypes, WaitInv, SecInv, Purging, Pending, Secs, Ops
<1> QED BY <1>1, <1>2, <1>3, <1>4, IInvPrime

(* The invariant is preserved by convert() after a rejection, which may    *)
(* post the requests it held up.                                           *)
LEMMA ConvertRejected_Inv ==
    ASSUME IInv, NEW o \in Owners, ConvertRejected(o)
    PROVE  IInv'
<1> USE IInvParts, ConstantsAssumption
<1>1. SoundTable'
  BY TableFrame DEF ConvertRejected, IInv, ownVars
<1>2. RestTypes'
  <2>1. sec' \in Secs
    <3>1. lrq_lock[op[o].req] \in Locks /\ op[o].req \in Requests
      BY DEF ConvertRejected, Main, WaitInv, SoundTable, TableTypes
    <3>2. PostPending(lrq_lock[op[o].req], "reset") \in Secs
      BY <3>1, SecForms DEF RestTypes
    <3> HIDE DEF PostPending
    <3> QED BY <3>1, <3>2 DEF ConvertRejected, Secs
  <2> QED BY <2>1, NoOpForm DEF ConvertRejected, ownVars, acquire, RestTypes, Pcs
<1>3. WaitInv'
  BY DEF ConvertRejected, lblVars, lrqVars, ownVars, secVars, procVars, Main, acquire, PostPending, NoOp, RestTypes, WaitInv, SecInv, Purging, Pending, Secs, Ops
<1>4. SecInv'
  <2>1. lrq_lock[op[o].req] \in Locks /\ op[o].req \in Requests /\ ~ Pending(op[o].req)
    BY DEF ConvertRejected, Main, WaitInv, SoundTable, TableTypes
  <2> QED BY <2>1 DEF ConvertRejected, lblVars, lrqVars, ownVars, secVars, procVars, Main, acquire, PostPending, RestTypes, WaitInv, SecInv, Purging, Pending, Secs, Ops
<1> QED BY <1>1, <1>2, <1>3, <1>4, IInvPrime

(* The invariant is preserved by blocking_action entering the table.       *)
LEMMA SignalHandled_Inv ==
    ASSUME IInv, NEW o \in Owners, SignalHandled(o)
    PROVE  IInv'
<1> USE IInvParts, ConstantsAssumption
<1>1. SoundTable'
  BY TableFrame DEF SignalHandled, IInv, ownVars
<1>2. RestTypes'
  BY DEF SignalHandled, lblVars, lrqVars, ownVars, secVars, procVars, acquire, At, RestTypes, Secs, Stages, Pcs, Asts, Ops
<1>3. WaitInv'
  BY DEF SignalHandled, lblVars, lrqVars, ownVars, secVars, procVars, acquire, At, RestTypes, WaitInv, SecInv, Purging, Pending, Secs, Ops
<1>4. SecInv'
  BY DEF SignalHandled, lblVars, lrqVars, ownVars, secVars, procVars, acquire, At, RestTypes, WaitInv, SecInv, Purging, Pending, Secs, Ops
<1> QED BY <1>1, <1>2, <1>3, <1>4, IInvPrime

(* The invariant is preserved by blocking_action clearing OWN_signaled     *)
(* without the table.                                                      *)
LEMMA SignalIgnored_Inv ==
    ASSUME IInv, NEW o \in Owners, SignalIgnored(o)
    PROVE  IInv'
<1> USE IInvParts, ConstantsAssumption
<1>1. SoundTable'
  BY TableFrame DEF SignalIgnored, IInv, ownVars
<1>2. RestTypes'
  BY DEF SignalIgnored, lblVars, lrqVars, ownVars, secVars, procVars, RestTypes, Secs, Stages, Pcs, Asts, Ops
<1>3. WaitInv'
  BY DEF SignalIgnored, lblVars, lrqVars, ownVars, secVars, procVars, RestTypes, WaitInv, SecInv, Purging, Pending, Secs, Ops
<1>4. SecInv'
  BY DEF SignalIgnored, lblVars, lrqVars, ownVars, secVars, procVars, RestTypes, WaitInv, SecInv, Purging, Pending, Secs, Ops
<1> QED BY <1>1, <1>2, <1>3, <1>4, IInvPrime

(* The invariant is preserved by acquire() beginning to wait for the       *)
(* table.                                                                  *)
LEMMA WaitForTable_Inv ==
    ASSUME IInv, NEW o \in Owners, WaitForTable(o)
    PROVE  IInv'
<1> USE IInvParts, ConstantsAssumption
<1>1. SoundTable'
  BY TableFrame DEF WaitForTable, IInv, ownVars
<1>2. RestTypes'
  BY DEF WaitForTable, lblVars, lrqVars, ownVars, secVars, procVars, RestTypes
<1>3. WaitInv'
  BY DEF WaitForTable, lblVars, lrqVars, ownVars, secVars, procVars, WaitInv, Purging, Pending
<1>4. SecInv'
  BY DEF WaitForTable, lblVars, lrqVars, ownVars, secVars, procVars, SecInv, Pending
<1> QED BY <1>1, <1>2, <1>3, <1>4, IInvPrime

(* The invariant is preserved by the return from an AST routine.           *)
LEMMA AstReturns_Inv ==
    ASSUME IInv, NEW o \in Owners, AstReturns(o)
    PROVE  IInv'
<1> USE IInvParts, ConstantsAssumption
<1>1. SoundTable'
  BY TableFrame DEF AstReturns, IInv, ownVars
<1>2. RestTypes'
  BY DEF AstReturns, lblVars, lrqVars, ownVars, secVars, procVars, acquire, At, RestTypes, Secs, Stages, Pcs, Asts, Ops
<1>3. WaitInv'
  BY DEF AstReturns, lblVars, lrqVars, ownVars, secVars, procVars, acquire, At, RestTypes, WaitInv, SecInv, Purging, Pending, Secs, Ops
<1>4. SecInv'
  BY DEF AstReturns, lblVars, lrqVars, ownVars, secVars, procVars, acquire, At, RestTypes, WaitInv, SecInv, Purging, Pending, Secs, Ops
<1> QED BY <1>1, <1>2, <1>3, <1>4, IInvPrime

(* The invariant is preserved by the end of blocking_action2.              *)
LEMMA AstDone_Inv ==
    ASSUME IInv, NEW o \in Owners, AstDone(o)
    PROVE  IInv'
<1> USE IInvParts, ConstantsAssumption
<1>1. SoundTable'
  BY TableFrame DEF AstDone, IInv, ownVars
<1>2. RestTypes'
  BY DEF AstDone, lblVars, lrqVars, ownVars, secVars, procVars, At, RestTypes, Secs, Stages, Pcs, Asts, Ops
<1>3. WaitInv'
  BY DEF AstDone, lblVars, lrqVars, ownVars, secVars, procVars, At, RestTypes, WaitInv, SecInv, Purging, Pending, Secs, Ops
<1>4. SecInv'
  BY DEF AstDone, lblVars, lrqVars, ownVars, secVars, procVars, At, RestTypes, WaitInv, SecInv, Purging, Pending, Secs, Ops
<1> QED BY <1>1, <1>2, <1>3, <1>4, IInvPrime

(* The invariant is preserved by LOCK_fini.                                *)
LEMMA LOCK_fini_Inv ==
    ASSUME IInv, NEW o \in Owners, LOCK_fini(o)
    PROVE  IInv'
<1> USE IInvParts, ConstantsAssumption
<1>1. SoundTable'
  BY TableFrame DEF LOCK_fini, IInv, ownVars
<1>2. RestTypes'
  BY DEF LOCK_fini, lblVars, lrqVars, ownVars, secVars, procVars, MayCall, acquire, Purge, RestTypes, Secs, Stages, Pcs, Asts, Ops
<1>3. WaitInv'
  BY DEF LOCK_fini, lblVars, lrqVars, ownVars, secVars, procVars, MayCall, acquire, Purge, RestTypes, WaitInv, SecInv, Purging, Pending, Secs, Ops
<1>4. SecInv'
  BY DEF LOCK_fini, lblVars, lrqVars, ownVars, secVars, procVars, MayCall, acquire, Purge, RestTypes, WaitInv, SecInv, Purging, Pending, Secs, Ops
<1> QED BY <1>1, <1>2, <1>3, <1>4, IInvPrime

(* The invariant is preserved by LOCK_init: what a dead instance of the    *)
(* owner left is purged first.                                             *)
LEMMA LOCK_init_Inv ==
    ASSUME IInv, NEW o \in Owners, LOCK_init(o)
    PROVE  IInv'
<1> USE IInvParts, ConstantsAssumption
<1>1. SoundTable'
  BY TableFrame DEF LOCK_init, IInv, ownVars
<1>2. RestTypes'
  BY SecForms DEF LOCK_init, acquire, ownVars, RestTypes, Stages
<1>3. WaitInv'
  <2>1. o \notin lhb_owners => \A r \in Requests : lrq_owner[r] # o
    BY DEF SoundTable, RequestInv
  <2>2. CASE o \in lhb_owners
    BY <2>2 DEF LOCK_init, lblVars, lrqVars, ownVars, secVars, procVars, acquire, Purge, RestTypes, WaitInv, SecInv, Purging, Pending, Secs, Ops
  <2>3. CASE o \notin lhb_owners
    BY <2>1, <2>3 DEF LOCK_init, lblVars, lrqVars, ownVars, secVars, procVars, acquire, At, RestTypes, WaitInv, SecInv, Purging, Pending, Secs, Ops
  <2> QED BY <2>2, <2>3
<1>4. SecInv'
  BY DEF LOCK_init, lblVars, lrqVars, ownVars, secVars, procVars, acquire, Purge, At, RestTypes, WaitInv, SecInv, Purging, Pending, Secs, Ops
<1> QED BY <1>1, <1>2, <1>3, <1>4, IInvPrime

(* The invariant is preserved by the death of a process.                   *)
LEMMA Crash_Inv ==
    ASSUME IInv, NEW o \in Owners, Crash(o)
    PROVE  IInv'
<1> USE IInvParts, ConstantsAssumption
<1>1. SoundTable'
  BY TableFrame DEF Crash, IInv, ownVars
<1>2. RestTypes'
  BY NoOpForm DEF Crash, ownVars, secVars, RestTypes, Pcs, Asts
<1>3. WaitInv'
  BY DEF Crash, lblVars, lrqVars, ownVars, secVars, procVars, NoOp, RestTypes, WaitInv, SecInv, Purging, Pending, Secs, Ops
<1>4. SecInv'
  BY DEF Crash, lblVars, lrqVars, ownVars, secVars, procVars, NoOp, RestTypes, WaitInv, SecInv, Purging, Pending, Secs, Ops
<1> QED BY <1>1, <1>2, <1>3, <1>4, IInvPrime

-----------------------------------------------------------------------------
(* What the invariant says about the requests an action names. *)

(* A pending request has a lock, an owner and a level it asks for.         *)
LEMMA PendingFacts ==
    ASSUME IInv, NEW r \in Requests, Pending(r)
    PROVE  /\ lrq_lock[r] \in Locks /\ lrq_requested[r] \in Granted
           /\ lrq_owner[r] \in Owners
BY IInvParts DEF SoundTable, TableTypes, RequestInv

(* A request an engine or AST may name in a call is granted or denied,     *)
(* never pending, and not the one its main thread waits for.               *)
LEMMA CallableFacts ==
    ASSUME IInv, NEW o \in Owners, MayCall(o), lhb_active_owner = NoOwner,
           NEW r \in Callable(o)
    PROVE  /\ r \in Requests /\ lrq_lock[r] \in Locks /\ lrq_owner[r] = o
           /\ ~ Pending(r) /\ sec.at = "free"
           /\ \A u \in Owners : pc[u] # "out" => op[u].req # r
BY IInvParts, ConstantsAssumption DEF Callable, own_requests, MayCall,
   SoundTable, TableTypes, WaitInv, SecInv, Purging

(* Posting a blockage again starts at the head of the queue.               *)
LEMMA RemindForm ==
    ASSUME IInv, NEW r \in Requests, lrq_lock[r] \in Locks
    PROVE  /\ Remind(r) \in Secs
           /\ Remind(r) = [sec EXCEPT !.at = "block", !.req = r,
                              !.next = First(lbl_requests[lrq_lock[r]])]
<1>1. lbl_requests[lrq_lock[r]] \in Seq(Requests)
  BY IInvParts DEF SoundTable, TableTypes
<1>2. First(lbl_requests[lrq_lock[r]]) \in Requests \cup {NoReq}
  BY <1>1, MembersFacts DEF First
<1>3. sec \in Secs
  BY IInvParts DEF RestTypes
<1> QED BY <1>2, <1>3 DEF Remind, Secs, Stages

(* What releasing a request does to the others and to the section. *)
Released(r, after) ==
    /\ \A s \in Requests : s # r =>
          /\ lrq_owner'[s] = lrq_owner[s] /\ lrq_lock'[s] = lrq_lock[s]
          /\ lrq_requested'[s] = lrq_requested[s]
          /\ lrq_state'[s] = lrq_state[s] /\ lrq_flags'[s] = lrq_flags[s]
    /\ lrq_flags'[r] = {}
    /\ lck_physical' \in [Requests -> States]
    /\ sec' \in Secs
    /\ sec'.at \in {after, "post"} /\ sec'.posted = after
    /\ sec'.at = "post" => sec'.lock \in Locks
    /\ sec'.req = sec.req /\ sec'.victim = sec.victim
    /\ sec'.purged = sec.purged /\ sec'.probed = sec.probed

(* release_request() touches no other request.                             *)
LEMMA ReleaseFields ==
    ASSUME IInv, NEW r \in Requests, lrq_lock[r] \in Locks,
           NEW after \in {"release", "enq", "purge"}, ReleaseRequest(r, after)
    PROVE  Released(r, after)
<1> USE DEF Released
<1> USE IInvParts
<1>1. TypeOK
  BY DEF IInv, TableInv
<1>2. /\ lrq_owner' = [lrq_owner EXCEPT ![r] = NoOwner]
      /\ lrq_lock' = [lrq_lock EXCEPT ![r] = NoLock]
      /\ lrq_requested' = [lrq_requested EXCEPT ![r] = LCK_none]
      /\ lrq_state' = [lrq_state EXCEPT ![r] = LCK_none]
      /\ lrq_flags' = [lrq_flags EXCEPT ![r] = {}]
      /\ lck_physical' = [lck_physical EXCEPT ![r] = LCK_none]
      /\ \/ sec' = [sec EXCEPT !.at = after, !.posted = after]
         \/ sec' = PostPending(lrq_lock[r], after)
  BY Zenon DEF ReleaseRequest
<1>3. sec \in Secs
  BY DEF RestTypes
<1>4. CASE sec' = [sec EXCEPT !.at = after, !.posted = after]
  <2>1. /\ sec' \in Secs
        /\ sec'.at = after /\ sec'.posted = after
        /\ sec'.req = sec.req /\ sec'.victim = sec.victim
        /\ sec'.purged = sec.purged /\ sec'.probed = sec.probed
    BY <1>3, <1>4 DEF Secs, Stages
  <2>2. sec'.at # "post"
    BY <2>1
  <2> QED BY <1>1, <1>2, <2>1, <2>2, LevelsFact DEF TypeOK
<1>5. CASE sec' = PostPending(lrq_lock[r], after)
  <2>1. sec' \in Secs
    BY <1>3, <1>5, SecForms
  <2>2. /\ sec'.at = "post" /\ sec'.posted = after
        /\ sec'.lock = lrq_lock[r]
        /\ sec'.req = sec.req /\ sec'.victim = sec.victim
        /\ sec'.purged = sec.purged /\ sec'.probed = sec.probed
    BY <1>3, <1>5 DEF Secs, PostPending
  <2> QED BY <1>1, <1>2, <2>1, <2>2, LevelsFact DEF TypeOK
<1> QED BY <1>2, <1>4, <1>5

(* The invariant is preserved by LOCK_deq.                                 *)
LEMMA LOCK_deq_Inv ==
    ASSUME IInv, NEW o \in Owners, NEW r \in Requests, LOCK_deq(o, r)
    PROVE  IInv'
<1> USE IInvParts, ConstantsAssumption
<1>5. /\ r \in Requests /\ lrq_lock[r] \in Locks /\ lrq_owner[r] = o
      /\ ~ Pending(r) /\ sec.at = "free"
      /\ \A u \in Owners : pc[u] # "out" => op[u].req # r
  BY CallableFacts DEF LOCK_deq, acquire
<1>6. Released(r, "release")
  BY <1>5, ReleaseFields DEF LOCK_deq
<1>7. /\ lhb_active_owner = NoOwner /\ lhb_active_owner' = o /\ o \in alive
      /\ UNCHANGED <<lhb_owners, alive, sigpend, pc, op>>
  BY DEF LOCK_deq, acquire, MayCall
<1>1. SoundTable'
  BY <1>5, ReleaseStep DEF LOCK_deq, IInv
<1>2. RestTypes'
  BY <1>6 DEF LOCK_deq, acquire, AfterCall, RestTypes, Asts, Released
<1>3. WaitInv'
  BY <1>5, <1>6, <1>7 DEF RestTypes, WaitInv, SecInv, Purging, Pending, Released
<1>4. SecInv'
  BY <1>5, <1>6, <1>7 DEF RestTypes, WaitInv, SecInv, Purging, Pending, Released
<1> QED BY <1>1, <1>2, <1>3, <1>4, IInvPrime

(* The invariant is preserved by grant_or_que denying a request.           *)
LEMMA QueDenied_Inv ==
    ASSUME IInv, NEW o \in Owners, QueDenied(o)
    PROVE  IInv'
<1> USE IInvParts, ConstantsAssumption
<1>5. /\ sec.req \in Requests /\ lrq_lock[sec.req] \in Locks
      /\ lrq_owner[sec.req] = o /\ ~ Pending(sec.req)
      /\ sec.at = "grant_or_que" /\ pc[o] = "out"
      /\ \A u \in Owners : pc[u] # "out" => op[u].req # sec.req
  BY DEF QueDenied, SecInv, SoundTable, TableTypes, WaitInv
<1>6. Released(sec.req, "release")
  BY <1>5, ReleaseFields DEF QueDenied
<1>7. /\ lhb_active_owner = o /\ lhb_active_owner' = o
      /\ op' = [op EXCEPT ![o] = NoOp]
      /\ UNCHANGED <<lhb_owners, alive, sigpend, pc>>
  BY DEF QueDenied
<1>1. SoundTable'
  BY <1>5, ReleaseStep DEF QueDenied, IInv
<1>2. RestTypes'
  BY <1>6, NoOpForm DEF QueDenied, RestTypes, Released
<1>3. WaitInv'
  BY <1>5, <1>6, <1>7 DEF RestTypes, WaitInv, SecInv, Purging, Pending, Released
<1>4. SecInv'
  BY <1>5, <1>6, <1>7 DEF RestTypes, WaitInv, SecInv, Purging, Pending, Released
<1> QED BY <1>1, <1>2, <1>3, <1>4, IInvPrime

(* The invariant is preserved by purge_owner releasing a request.          *)
LEMMA PurgeRequest_Inv ==
    ASSUME IInv, NEW o \in Owners, NEW r \in Requests, PurgeRequest(o, r)
    PROVE  IInv'
<1> USE IInvParts, ConstantsAssumption
<1>5. /\ r \in Requests /\ lrq_lock[r] \in Locks
      /\ lrq_owner[r] = sec.victim
      /\ sec.at = "purge" /\ sec.victim \in Owners /\ pc[sec.victim] = "out"
      /\ \A u \in Owners : pc[u] # "out" => op[u].req # r
  BY DEF PurgeRequest, own_requests, SecInv, SoundTable, TableTypes, WaitInv
<1>6. Released(r, "purge")
  BY <1>5, ReleaseFields DEF PurgeRequest
<1>7. /\ lhb_active_owner = o /\ lhb_active_owner' = o
      /\ UNCHANGED <<lhb_owners, alive, sigpend, pc, op>>
  BY DEF PurgeRequest
<1>1. SoundTable'
  BY <1>5, ReleaseStep DEF PurgeRequest, IInv
<1>2. RestTypes'
  BY <1>6 DEF PurgeRequest, RestTypes, Released
<1>3. WaitInv'
  BY <1>5, <1>6, <1>7 DEF RestTypes, WaitInv, SecInv, Purging, Pending, Released
<1>4. SecInv'
  BY <1>5, <1>6, <1>7 DEF RestTypes, WaitInv, SecInv, Purging, Pending, Released
<1> QED BY <1>1, <1>2, <1>3, <1>4, IInvPrime

(* The invariant is preserved by grant_or_que releasing a rejected         *)
(* request.                                                                *)
LEMMA EnqRejected_Inv ==
    ASSUME IInv, NEW o \in Owners, EnqRejected(o)
    PROVE  IInv'
<1> USE IInvParts, ConstantsAssumption
<1>5. /\ op[o].req \in Requests /\ lrq_lock[op[o].req] \in Locks
      /\ lrq_owner[op[o].req] = o /\ ~ Pending(op[o].req)
      /\ sec.at = "free" /\ pc[o] = "denied" /\ o \in alive
      /\ \A u \in Owners : u # o /\ pc[u] # "out" => op[u].req # op[o].req
  BY DEF EnqRejected, Main, acquire, SecInv, SoundTable, TableTypes, WaitInv
<1>6. Released(op[o].req, "release")
  BY <1>5, ReleaseFields DEF EnqRejected
<1>7. /\ lhb_active_owner = NoOwner /\ lhb_active_owner' = o
      /\ op' = [op EXCEPT ![o] = NoOp] /\ pc' = [pc EXCEPT ![o] = "out"]
      /\ UNCHANGED <<lhb_owners, alive, sigpend>>
  BY DEF EnqRejected, acquire
<1>1. SoundTable'
  BY <1>5, ReleaseStep DEF EnqRejected, IInv
<1>2. RestTypes'
  BY <1>6, NoOpForm DEF EnqRejected, acquire, RestTypes, Released, Pcs
<1>3. WaitInv'
  BY <1>5, <1>6, <1>7 DEF RestTypes, WaitInv, SecInv, Purging, Pending, Released
<1>4. SecInv'
  BY <1>5, <1>6, <1>7 DEF RestTypes, WaitInv, SecInv, Purging, Pending, Released
<1> QED BY <1>1, <1>2, <1>3, <1>4, IInvPrime

(* The invariant is preserved by LOCK_enq, with or without a prior request *)
(* to release.                                                             *)
LEMMA LOCK_enq_Inv ==
    ASSUME IInv, NEW o \in Owners, NEW l \in Locks, NEW m \in Levels, NEW w \in Waits,
           NEW a \in AstArgs, NEW p \in Requests \cup {NoReq},
           LOCK_enq(o, l, m, w, a, p)
    PROVE  IInv'
<1> USE IInvParts, ConstantsAssumption
<1>5. /\ lhb_active_owner = NoOwner /\ lhb_active_owner' = o
      /\ o \in alive /\ o \in lhb_owners /\ pc[o] = "out"
      /\ op' = [op EXCEPT ![o] = [kind |-> "enq", req |-> NoReq, lock |-> l,
                                  level |-> m, wait |-> w, ast |-> a]]
      /\ UNCHANGED <<lhb_owners, alive, sigpend, pc>>
  BY DEF LOCK_enq, acquire, MayCall, Asts
<1>6. \/ /\ p = NoReq /\ sec' = At("enq")
         /\ UNCHANGED <<lblVars, lrqVars, own_blocks, lhb_owners, lck_physical>>
      \/ /\ p # NoReq /\ p \in Callable(o) /\ ReleaseRequest(p, "enq")
         /\ UNCHANGED lhb_owners
  BY DEF LOCK_enq, Callable, own_requests
<1>7. p # NoReq =>
        /\ p \in Requests /\ lrq_lock[p] \in Locks /\ ~ Pending(p)
        /\ \A u \in Owners : pc[u] # "out" => op[u].req # p
        /\ Released(p, "enq")
  <2>1. MayCall(o)
    BY DEF LOCK_enq
  <2> QED BY <2>1, <1>5, <1>6, CallableFacts, ReleaseFields
<1>1. SoundTable'
  <2>1. CASE p = NoReq
    BY <2>1, <1>6, TableFrame DEF IInv
  <2>2. CASE p # NoReq
    BY <2>2, <1>6, <1>7, ReleaseStep DEF LOCK_enq, IInv
  <2> QED BY <2>1, <2>2
<1>2. RestTypes'
  <2>1. [kind |-> "enq", req |-> NoReq, lock |-> l, level |-> m, wait |-> w,
         ast |-> a] \in Ops
    BY LevelsFact DEF Ops, LCK_null, LCK_EX
  <2>2. sec' \in Secs /\ lck_physical' \in [Requests -> States]
    <3>1. CASE p = NoReq
      BY <3>1, <1>6, SecForms DEF RestTypes, Stages
    <3>2. CASE p # NoReq
      BY <3>2, <1>6, <1>7 DEF Released
    <3> QED BY <3>1, <3>2
  <2> QED BY <2>1, <2>2 DEF LOCK_enq, acquire, RestTypes
<1>3. WaitInv'
  <2>1. CASE p = NoReq
    BY <2>1, <1>5, <1>6 DEF RestTypes, WaitInv, SecInv, Purging, Pending, lrqVars, At
  <2>2. CASE p # NoReq
    BY <2>2, <1>5, <1>6, <1>7 DEF RestTypes, WaitInv, SecInv, Purging, Pending, Released
  <2> QED BY <2>1, <2>2
<1>4. SecInv'
  <2>1. op'[o].lock = l /\ op'[o].level = m /\ l \in Locks /\ m \in Granted
    BY <1>5, LevelsFact DEF RestTypes, LCK_null, LCK_EX
  <2>2. CASE p = NoReq
    BY <2>1, <2>2, <1>5, <1>6 DEF RestTypes, WaitInv, SecInv, Purging, Pending, lrqVars, At, Secs
  <2>3. CASE p # NoReq
    BY <2>1, <2>3, <1>5, <1>6, <1>7 DEF RestTypes, WaitInv, SecInv, Purging, Pending, Released
  <2> QED BY <2>2, <2>3
<1> QED BY <1>1, <1>2, <1>3, <1>4, IInvPrime

(* The level LOCK_downgrade computes is a lock level.                      *)
LEMMA DowngradedFacts ==
    ASSUME IInv, NEW r \in Requests
    PROVE  DowngradedState(r) \in States
<1> USE IInvParts
<1> DEFINE asked == {lrq_requested[p] : p \in {p \in Requests \ {r} :
                        lrq_lock[p] = lrq_lock[r] /\ Pending(p)}}
           fit == {m \in LCK_none .. lrq_state[r] : COMPATIBLE(PendingState(r), m)}
<1>1. asked \in SUBSET States
  BY DEF SoundTable, TableTypes
<1>2. PendingState(r) \in States
  <2>1. CASE asked = {}
    BY <2>1, LevelsFact DEF PendingState
  <2>2. CASE asked # {}
    <3>1. \E m \in asked : \A k \in asked : k <= m
      BY <1>1, <2>2, MaxExists
    <3>2. PendingState(r) = CHOOSE m \in asked : \A k \in asked : k <= m
      BY <2>2 DEF PendingState
    <3> HIDE DEF asked
    <3> QED BY <1>1, <3>1, <3>2
  <2> QED BY <2>1, <2>2
<1>3. lrq_state[r] \in States
  BY DEF SoundTable, TableTypes
<1>4. fit \in SUBSET States /\ LCK_none \in fit
  BY <1>2, <1>3, CompatibleNone, LevelsFact
<1>5. \E m \in fit : \A k \in fit : k <= m
  BY <1>4, MaxExists
<1>6. DowngradedState(r) = CHOOSE m \in fit : \A k \in fit : k <= m
  BY DEF DowngradedState
<1> HIDE DEF fit
<1> QED BY <1>4, <1>5, <1>6

(* The invariant is preserved by LOCK_downgrade.                           *)
LEMMA LOCK_downgrade_Inv ==
    ASSUME IInv, NEW o \in Owners, NEW r \in Requests, LOCK_downgrade(o, r)
    PROVE  IInv'
<1> USE IInvParts, ConstantsAssumption
<1> DEFINE Lower ==
        /\ DowngradedState(r) \notin {LCK_none, LCK_null}
        /\ lrq_requested' = [lrq_requested EXCEPT ![r] = DowngradedState(r)]
        /\ lrq_flags' = [lrq_flags EXCEPT ![r] = @ \ {"blocking_seen"}]
        /\ sec' = [NoSec EXCEPT !.at = "downgrade", !.req = r]
        /\ UNCHANGED <<lblVars, lrq_owner, lrq_lock, lrq_state,
                       lrq_ast_routine, own_blocks, lck_physical>>
<1>5. /\ r \in Requests /\ lrq_lock[r] \in Locks /\ lrq_owner[r] = o
      /\ ~ Pending(r) /\ sec.at = "free"
      /\ \A u \in Owners : pc[u] # "out" => op[u].req # r
  BY CallableFacts DEF LOCK_downgrade, acquire
<1>6. /\ lhb_active_owner = NoOwner /\ lhb_active_owner' = o /\ o \in alive
      /\ own_hung' \in [Owners -> BOOLEAN]
      /\ ast' \in [Owners -> Asts]
      /\ UNCHANGED <<lhb_owners, own_pending_request, own_flags, own_signaled,
                     own_semaphore, alive, sigpend, pc, op, crashes>>
  BY DEF LOCK_downgrade, acquire, MayCall, AfterCall, RestTypes, Asts
<1>7. ReleaseRequest(r, "release") \/ Lower
  BY DEF LOCK_downgrade
<1> HIDE DEF Lower
<1>1. SoundTable'
  <2>1. CASE ReleaseRequest(r, "release")
    BY <2>1, <1>5, <1>6, ReleaseStep DEF IInv
  <2>2. CASE Lower
    <3>1. DowngradedState(r) \in States
      BY DowngradedFacts
    <3> QED BY <2>2, <3>1, <1>5, <1>6, RequestedStep DEF IInv, Lower
  <2> QED BY <1>7, <2>1, <2>2
<1>2. RestTypes'
  <2>1. CASE ReleaseRequest(r, "release")
    <3>1. Released(r, "release")
      BY <2>1, <1>5, ReleaseFields
    <3> QED BY <3>1, <1>6 DEF Released, RestTypes
  <2>2. CASE Lower
    <3>0. NoSec \in Secs
      BY SecForms DEF RestTypes
    <3>1. sec' \in Secs
      BY <2>2, <3>0 DEF Lower, Secs, Stages
    <3> QED BY <2>2, <3>1, <1>6 DEF Lower, RestTypes
  <2> QED BY <1>7, <2>1, <2>2
<1>3. WaitInv'
  <2>1. CASE ReleaseRequest(r, "release")
    <3>1. Released(r, "release")
      BY <2>1, <1>5, ReleaseFields
    <3> QED BY <3>1, <1>5, <1>6 DEF Released, RestTypes, WaitInv, SecInv, Purging, Pending
  <2>2. CASE Lower
    BY <2>2, <1>5, <1>6 DEF Lower, NoSec, RestTypes, WaitInv, SecInv, Purging, Pending, SoundTable, TableTypes
  <2> QED BY <1>7, <2>1, <2>2
<1>4. SecInv'
  <2>1. CASE ReleaseRequest(r, "release")
    <3>1. Released(r, "release")
      BY <2>1, <1>5, ReleaseFields
    <3> QED BY <3>1, <1>5, <1>6 DEF Released, RestTypes, WaitInv, SecInv, Purging, Pending
  <2>2. CASE Lower
    <3>1. DowngradedState(r) \in Granted
      BY <2>2, DowngradedFacts, LevelsFact DEF Lower
    <3> QED BY <2>2, <3>1, <1>5, <1>6 DEF Lower, NoSec, RestTypes, WaitInv, SecInv, Purging, Pending, SoundTable, TableTypes
  <2> QED BY <1>7, <2>1, <2>2
<1> QED BY <1>1, <1>2, <1>3, <1>4, IInvPrime

(* The invariant is preserved by LOCK_convert.                             *)
LEMMA LOCK_convert_Inv ==
    ASSUME IInv, NEW o \in Owners, NEW r \in Requests, NEW m \in Levels, NEW w \in Waits,
           LOCK_convert(o, r, m, w)
    PROVE  IInv'
<1> USE IInvParts, ConstantsAssumption
<1>5. /\ r \in Requests /\ lrq_lock[r] \in Locks /\ lrq_owner[r] = o
      /\ ~ Pending(r) /\ sec.at = "free"
      /\ \A u \in Owners : pc[u] # "out" => op[u].req # r
  BY CallableFacts DEF LOCK_convert, acquire
<1>6. /\ lhb_active_owner = NoOwner /\ lhb_active_owner' = o /\ o \in alive
      /\ pc[o] = "out"
      /\ lrq_requested' = [lrq_requested EXCEPT ![r] = m]
      /\ lrq_flags' = [lrq_flags EXCEPT ![r] = @ \ {"blocking_seen"}]
      /\ own_hung' = [own_hung EXCEPT ![o] = FALSE]
      /\ op' = [op EXCEPT ![o] = [NoOp EXCEPT !.kind = "convert", !.req = r,
                                              !.level = m, !.wait = w]]
      /\ sec' = [NoSec EXCEPT !.at = "convert", !.req = r]
      /\ UNCHANGED <<lblVars, lrq_owner, lrq_lock, lrq_state, lrq_ast_routine,
                     lhb_owners, own_blocks, ownVars, alive, sigpend, pc, ast,
                     lck_physical, crashes>>
  BY DEF LOCK_convert, acquire, MayCall, ownVars
<1>7. m \in States /\ m \in Granted
  BY LevelsFact DEF LCK_null, LCK_EX
<1>1. SoundTable'
  BY <1>5, <1>6, <1>7, RequestedStep DEF IInv
<1>2. RestTypes'
  <2>0. NoSec \in Secs
    BY SecForms DEF RestTypes
  <2>1. sec' \in Secs
    BY <1>6, <2>0 DEF Secs, Stages
  <2>2. [NoOp EXCEPT !.kind = "convert", !.req = r, !.level = m, !.wait = w] \in Ops
    BY <1>7, LevelsFact DEF NoOp, Ops
  <2> QED BY <2>1, <2>2, <1>6 DEF RestTypes, ownVars
<1>3. WaitInv'
  BY <1>5, <1>6 DEF RestTypes, WaitInv, SecInv, Purging, Pending, NoSec, SoundTable, TableTypes
<1>4. SecInv'
  BY <1>5, <1>6, <1>7 DEF RestTypes, WaitInv, SecInv, Purging, Pending, NoSec, SoundTable, TableTypes
<1> QED BY <1>1, <1>2, <1>3, <1>4, IInvPrime

(* The invariant is preserved by convert() denying a request.              *)
LEMMA ConvertDenied_Inv ==
    ASSUME IInv, NEW o \in Owners, ConvertDenied(o)
    PROVE  IInv'
<1> USE IInvParts, ConstantsAssumption
<1>5. /\ sec.at \in {"convert", "downgrade"} /\ lhb_active_owner = o
      /\ sec.req \in Requests /\ ~ Pending(sec.req)
      /\ lrq_state[sec.req] \in States /\ lrq_requested[sec.req] \in States
  BY DEF ConvertDenied, SecInv, SoundTable, TableTypes
<1>6. /\ lrq_requested' = [lrq_requested EXCEPT ![sec.req] = lrq_state[sec.req]]
      /\ sec' = Release
      /\ UNCHANGED <<lblVars, lrq_owner, lrq_lock, lrq_state, lrq_flags,
                     lrq_ast_routine, lhb_owners, own_blocks, lhb_active_owner,
                     own_hung, alive, sigpend, pc>>
  BY DEF ConvertDenied, ownVars
<1>7. \/ op' = op
      \/ op' = [op EXCEPT ![o] = NoOp] /\ pc[o] = "out"
  BY DEF ConvertDenied, SecInv
<1>1. SoundTable'
  BY <1>5, <1>6, RequestedStep DEF IInv
<1>2. RestTypes'
  <2>1. Release \in Secs
    BY SecForms DEF RestTypes
  <2>2. lck_physical' \in [Requests -> States]
    BY <1>5 DEF ConvertDenied, RestTypes
  <2>3. op' \in [Owners -> Ops]
    BY NoOpForm DEF ConvertDenied, RestTypes
  <2> QED BY <2>1, <2>2, <2>3 DEF ConvertDenied, RestTypes, ownVars
<1>3. WaitInv'
  BY <1>5, <1>6, <1>7 DEF RestTypes, WaitInv, SecInv, Purging, Pending, Release, NoSec
<1>4. SecInv'
  BY <1>5, <1>6, <1>7 DEF RestTypes, WaitInv, SecInv, Purging, Pending, Release, NoSec
<1> QED BY <1>1, <1>2, <1>3, <1>4, IInvPrime

(* The invariant is preserved by convert() forgetting a rejected           *)
(* conversion.                                                             *)
LEMMA ConvertReset_Inv ==
    ASSUME IInv, NEW o \in Owners, ConvertReset(o)
    PROVE  IInv'
<1> USE IInvParts, ConstantsAssumption
<1>5. /\ sec.at = "reset" /\ lhb_active_owner = o
      /\ sec.req \in Requests /\ ~ Pending(sec.req)
      /\ lrq_state[sec.req] \in States
  BY DEF ConvertReset, SecInv, SoundTable, TableTypes
<1>6. /\ lrq_requested' = [lrq_requested EXCEPT ![sec.req] = lrq_state[sec.req]]
      /\ sec' = Release
      /\ UNCHANGED <<lblVars, lrq_owner, lrq_lock, lrq_state, lrq_flags,
                     lrq_ast_routine, lhb_owners, own_blocks, lhb_active_owner,
                     own_hung, alive, sigpend, pc, op>>
  BY DEF ConvertReset, ownVars, procVars
<1>1. SoundTable'
  BY <1>5, <1>6, RequestedStep DEF IInv
<1>2. RestTypes'
  BY SecForms DEF ConvertReset, RestTypes, ownVars, procVars
<1>3. WaitInv'
  BY <1>5, <1>6 DEF RestTypes, WaitInv, SecInv, Purging, Pending, Release, NoSec
<1>4. SecInv'
  BY <1>5, <1>6 DEF RestTypes, WaitInv, SecInv, Purging, Pending, Release, NoSec
<1> QED BY <1>1, <1>2, <1>3, <1>4, IInvPrime

(* The invariant is preserved by post_pending granting a request.          *)
LEMMA PostGrant_Inv ==
    ASSUME IInv, NEW o \in Owners, PostGrant(o)
    PROVE  IInv'
<1> USE IInvParts, ConstantsAssumption
<1>0. PICK r \in Requests : r = lbl_requests[sec.lock][NextPending]
  BY NextPendingFacts DEF PostGrant
<1>5. /\ sec.at = "post" /\ Pending(r) /\ lrq_lock[r] \in Locks
      /\ lrq_requested[r] \in Granted /\ NextPending \in Nat
  BY <1>0, NextPendingFacts, PendingFacts DEF PostGrant
<1>6. /\ Grantable(r) /\ Grant(r, CountsWithout(r))
      /\ sec' = AfterGrant(NextPending)
      /\ UNCHANGED <<lbl_requests, lrq_owner, lrq_lock, lrq_requested, lrq_ast_routine,
                     lhb_owners, own_blocks, own_pending_request, own_signaled,
                     own_semaphore, lhb_active_owner, own_hung, procVars>>
  BY <1>0 DEF PostGrant
<1>7. /\ \A s \in Requests : s # r => lrq_flags'[s] = lrq_flags[s]
      /\ "pending" \notin lrq_flags'[r]
      /\ own_flags' \in [Owners -> SUBSET OwnFlags]
  <2>1. lrq_flags' = [lrq_flags EXCEPT ![r] = @ \ {"pending"}]
        /\ own_flags' = post_wakeup(own_flags, lrq_owner[r])
    BY <1>6, Zenon DEF Grant
  <2> QED BY <2>1, <1>5, PostWakeupType DEF SoundTable, TableTypes, RestTypes
<1>1. SoundTable'
  <2>1. COMPATIBLE(lrq_requested[r], lock_state(CountsWithout(r)))
    <3>1. CASE lrq_state[r] # LCK_none
      BY <3>1, <1>6 DEF Grantable
    <3>2. CASE lrq_state[r] = LCK_none
      <4>1. CountsWithout(r) = lbl_counts[lrq_lock[r]]
        BY <3>2 DEF CountsWithout
      <4>2. lbl_state[lrq_lock[r]] = lock_state(lbl_counts[lrq_lock[r]])
        BY <1>5 DEF SoundTable, CountsExact
      <4> QED BY <3>2, <4>1, <4>2, <1>6 DEF Grantable
    <3> QED BY <3>1, <3>2
  <2> QED BY <2>1, <1>5, <1>6, GrantStep DEF IInv
<1>2. RestTypes'
  <2>1. sec' \in Secs
    BY <1>5, <1>6 DEF RestTypes, Secs, AfterGrant
  <2> QED BY <2>1, <1>6, <1>7 DEF RestTypes, procVars
<1>3. WaitInv'
  BY <1>5, <1>6, <1>7 DEF RestTypes, WaitInv, SecInv, Purging, Pending, AfterGrant, procVars, Secs
<1>4. SecInv'
  BY <1>5, <1>6, <1>7 DEF RestTypes, WaitInv, SecInv, Purging, Pending, AfterGrant, procVars, Secs
<1> QED BY <1>1, <1>2, <1>3, <1>4, IInvPrime

(* The invariant is preserved by grant_or_que granting a request.          *)
LEMMA QueGranted_Inv ==
    ASSUME IInv, NEW o \in Owners, QueGranted(o)
    PROVE  IInv'
<1> USE IInvParts, ConstantsAssumption
<1>0. PICK r \in Requests : r = sec.req
  BY DEF QueGranted, SecInv
<1>5. /\ sec.at = "grant_or_que" /\ lrq_lock[r] \in Locks
      /\ lhb_active_owner = o /\ lrq_requested[r] \in Granted
      /\ lrq_state[r] = LCK_none /\ pc[o] = "out"
  BY <1>0 DEF QueGranted, SecInv, SoundTable, TableTypes
<1>6. /\ GrantAtOnce(r) /\ Grant(r, lbl_counts[lrq_lock[r]])
      /\ lck_physical' = [lck_physical EXCEPT ![r] = op[o].level]
      /\ op' = [op EXCEPT ![o] = NoOp]
      /\ sec' = PostPending(lrq_lock[r], "release")
      /\ UNCHANGED <<lbl_requests, lrq_owner, lrq_lock, lrq_requested, lrq_ast_routine,
                     lhb_owners, own_blocks, own_pending_request, own_signaled,
                     own_semaphore, lhb_active_owner, own_hung, alive, sigpend, pc, ast,
                     crashes>>
  BY <1>0 DEF QueGranted
<1>7. /\ \A s \in Requests : s # r => lrq_flags'[s] = lrq_flags[s]
      /\ "pending" \notin lrq_flags'[r]
      /\ own_flags' \in [Owners -> SUBSET OwnFlags]
  <2>1. lrq_flags' = [lrq_flags EXCEPT ![r] = @ \ {"pending"}]
        /\ own_flags' = post_wakeup(own_flags, lrq_owner[r])
    BY <1>6, Zenon DEF Grant
  <2> QED BY <2>1, <1>5, PostWakeupType DEF SoundTable, TableTypes, RestTypes
<1>1. SoundTable'
  <2>1. CountsWithout(r) = lbl_counts[lrq_lock[r]]
    BY <1>5 DEF CountsWithout
  <2>2. lbl_state[lrq_lock[r]] = lock_state(lbl_counts[lrq_lock[r]])
    BY <1>5 DEF SoundTable, CountsExact
  <2>3. COMPATIBLE(lrq_requested[r], lock_state(CountsWithout(r)))
    BY <2>1, <2>2, <1>6 DEF GrantAtOnce
  <2> QED BY <2>1, <2>3, <1>5, <1>6, GrantStep DEF IInv
<1>2. RestTypes'
  <2>1. sec' \in Secs
    BY <1>5, <1>6, SecForms DEF RestTypes
  <2>2. op[o].level \in States
    BY DEF RestTypes, Ops
  <2> QED BY <2>1, <2>2, <1>6, <1>7, NoOpForm DEF RestTypes
<1>3. WaitInv'
  BY <1>5, <1>6, <1>7 DEF RestTypes, WaitInv, SecInv, Purging, Pending, PostPending, Secs
<1>4. SecInv'
  BY <1>5, <1>6, <1>7 DEF RestTypes, WaitInv, SecInv, Purging, Pending, PostPending, Secs
<1> QED BY <1>1, <1>2, <1>3, <1>4, IInvPrime

(* The invariant is preserved by convert() granting a request.             *)
LEMMA ConvertGranted_Inv ==
    ASSUME IInv, NEW o \in Owners, ConvertGranted(o)
    PROVE  IInv'
<1> USE IInvParts, ConstantsAssumption
<1>0. PICK r \in Requests : r = sec.req
  BY DEF ConvertGranted, SecInv
<1>5. /\ sec.at \in {"convert", "downgrade"} /\ lrq_lock[r] \in Locks
      /\ lhb_active_owner = o /\ lrq_requested[r] \in Granted
  BY <1>0 DEF ConvertGranted, SecInv, SoundTable, TableTypes
<1>6. /\ Convertible(r) /\ Grant(r, CountsWithout(r))
      /\ lck_physical' = [lck_physical EXCEPT ![r] = lrq_requested[r]]
      /\ op' = op \/ (pc[o] = "out" /\ op' = [op EXCEPT ![o] = NoOp])
      /\ sec' = PostPending(lrq_lock[r], "release")
      /\ UNCHANGED <<lbl_requests, lrq_owner, lrq_lock, lrq_requested, lrq_ast_routine,
                     lhb_owners, own_blocks, own_pending_request, own_signaled,
                     own_semaphore, lhb_active_owner, own_hung, alive, sigpend, pc, ast,
                     crashes>>
  BY <1>0 DEF ConvertGranted, SecInv
<1>7. /\ \A s \in Requests : s # r => lrq_flags'[s] = lrq_flags[s]
      /\ "pending" \notin lrq_flags'[r]
      /\ own_flags' \in [Owners -> SUBSET OwnFlags]
  <2>1. lrq_flags' = [lrq_flags EXCEPT ![r] = @ \ {"pending"}]
        /\ own_flags' = post_wakeup(own_flags, lrq_owner[r])
    BY <1>6, Zenon DEF Grant
  <2> QED BY <2>1, <1>5, PostWakeupType DEF SoundTable, TableTypes, RestTypes
<1>1. SoundTable'
  BY <1>5, <1>6, GrantStep DEF IInv, Convertible
<1>2. RestTypes'
  <2>1. sec' \in Secs
    BY <1>5, <1>6, SecForms DEF RestTypes
  <2>2. lrq_requested[r] \in States
    BY DEF SoundTable, TableTypes
  <2> QED BY <2>1, <2>2, <1>6, <1>7, NoOpForm DEF RestTypes
<1>3. WaitInv'
  BY <1>5, <1>6, <1>7 DEF RestTypes, WaitInv, SecInv, Purging, Pending, PostPending, Secs
<1>4. SecInv'
  BY <1>5, <1>6, <1>7 DEF RestTypes, WaitInv, SecInv, Purging, Pending, PostPending, Secs
<1> QED BY <1>1, <1>2, <1>3, <1>4, IInvPrime

(* What starting to wait does besides queueing the request. *)
LEMMA BeginWaitFields ==
    ASSUME IInv, NEW o \in Owners, NEW r \in Requests, lrq_lock[r] \in Locks,
           BeginWait(o, r)
    PROVE  /\ \A s \in Requests : s # r => lrq_flags'[s] = lrq_flags[s]
           /\ own_pending_request' = [own_pending_request EXCEPT ![o] = r]
           /\ own_flags' \in [Owners -> SUBSET OwnFlags]
           /\ own_semaphore' = [own_semaphore EXCEPT ![o] = TRUE]
           /\ op' \in [Owners -> Ops] /\ op'[o].req = r
           /\ \A u \in Owners : u # o => op'[u] = op[u]
           /\ pc' = [pc EXCEPT ![o] = "wait"]
           /\ sec' \in Secs /\ sec'.at = "block" /\ sec'.req = r
           /\ sec'.purged = sec.purged /\ sec'.probed = sec.probed
<1> USE IInvParts
<1>0. PICK l \in Locks : l = lrq_lock[r]
  OBVIOUS
<1> DEFINE q == IF LOCK_ordering /\ lrq_state[r] = LCK_none
                THEN Append(Without(lbl_requests[l], r), r)
                ELSE lbl_requests[l]
<1>1. /\ lrq_flags' =
            [lrq_flags EXCEPT ![r] = (@ \ {"rejected"}) \cup {"pending"}]
      /\ own_pending_request' = [own_pending_request EXCEPT ![o] = r]
      /\ own_flags' = [own_flags EXCEPT ![o] = FlagsAtWait(o)]
      /\ own_semaphore' = [own_semaphore EXCEPT ![o] = TRUE]
      /\ op' = [op EXCEPT ![o].req = r]
      /\ pc' = [pc EXCEPT ![o] = "wait"]
      /\ sec' = [sec EXCEPT !.at = "block", !.req = r, !.next = First(q)]
  BY <1>0, Zenon DEF BeginWait
<1>2. /\ lbl_requests[l] \in Seq(Requests) /\ Injective(lbl_requests[l])
      /\ r \in Members(lbl_requests[l])
  BY <1>0 DEF SoundTable, TableTypes, QueueInv, RequestsOf
<1>3. q \in Seq(Requests)
  <2>1. Without(lbl_requests[l], r) \in Seq(Requests)
    BY <1>2, WithoutFacts
  <2> QED BY <1>2, <2>1
<1>4. First(q) \in Requests \cup {NoReq}
  BY <1>3, MembersFacts DEF First
<1> HIDE DEF q
<1>5. /\ sec' \in Secs /\ sec'.at = "block" /\ sec'.req = r
      /\ sec'.purged = sec.purged /\ sec'.probed = sec.probed
  BY <1>1, <1>4 DEF RestTypes, Secs, Stages
<1>6. own_flags' \in [Owners -> SUBSET OwnFlags]
  BY <1>1 DEF FlagsAtWait, RestTypes
<1>7. /\ op' \in [Owners -> Ops] /\ op'[o].req = r
      /\ \A u \in Owners : u # o => op'[u] = op[u]
  <2>1. [op[o] EXCEPT !.req = r] \in Ops /\ [op[o] EXCEPT !.req = r].req = r
    BY DEF RestTypes, Ops
  <2>2. op' = [op EXCEPT ![o] = [op[o] EXCEPT !.req = r]]
    BY <1>1
  <2> QED BY <2>1, <2>2 DEF RestTypes
<1> QED BY <1>1, <1>5, <1>6, <1>7 DEF SoundTable, TableTypes

(* The invariant is preserved by grant_or_que queueing a request.          *)
LEMMA QueWaits_Inv ==
    ASSUME IInv, NEW o \in Owners, QueWaits(o)
    PROVE  IInv'
<1> USE IInvParts, ConstantsAssumption
<1>0. PICK r \in Requests : r = sec.req
  BY DEF QueWaits, SecInv
<1>5. /\ sec.at = "grant_or_que" /\ lrq_lock[r] \in Locks /\ lrq_owner[r] = o
      /\ lhb_active_owner = o /\ lrq_requested[r] \in Granted
      /\ ~ Pending(r) /\ pc[o] = "out" /\ o \in alive
      /\ lrq_lock[r] # NoLock
  BY <1>0 DEF QueWaits, SecInv, SoundTable, TableTypes
<1>6. /\ BeginWait(o, r)
      /\ UNCHANGED <<lbl_counts, lbl_state, lrq_owner, lrq_lock, lrq_requested,
                     lrq_state, lrq_ast_routine, lhb_owners, own_blocks, own_signaled,
                     lhb_active_owner, own_hung, alive, sigpend, ast, lck_physical,
                     crashes>>
  BY <1>0 DEF QueWaits
<1>7. /\ \A s \in Requests : s # r => lrq_flags'[s] = lrq_flags[s]
      /\ own_pending_request' = [own_pending_request EXCEPT ![o] = r]
      /\ own_flags' \in [Owners -> SUBSET OwnFlags]
      /\ own_semaphore' = [own_semaphore EXCEPT ![o] = TRUE]
      /\ op' \in [Owners -> Ops] /\ op'[o].req = r
      /\ \A u \in Owners : u # o => op'[u] = op[u]
      /\ pc' = [pc EXCEPT ![o] = "wait"]
      /\ sec' \in Secs /\ sec'.at = "block" /\ sec'.req = r
      /\ sec'.purged = sec.purged /\ sec'.probed = sec.probed
  BY <1>5, <1>6, BeginWaitFields
<1>1. SoundTable'
  BY <1>5, <1>6, WaitStepTable DEF IInv
<1>2. RestTypes'
  <2>1. pc' \in [Owners -> Pcs]
    BY <1>7 DEF RestTypes, Pcs
  <2> QED BY <2>1, <1>6, <1>7 DEF RestTypes
<1>3. WaitInv'
  BY <1>5, <1>6, <1>7 DEF RestTypes, WaitInv, SecInv, Purging, Pending
<1>4. SecInv'
  BY <1>5, <1>6, <1>7 DEF RestTypes, WaitInv, SecInv, Purging, Pending
<1> QED BY <1>1, <1>2, <1>3, <1>4, IInvPrime

(* The invariant is preserved by convert() queueing a request.             *)
LEMMA ConvertWaits_Inv ==
    ASSUME IInv, NEW o \in Owners, ConvertWaits(o)
    PROVE  IInv'
<1> USE IInvParts, ConstantsAssumption
<1>0. PICK r \in Requests : r = sec.req
  BY DEF ConvertWaits, SecInv
<1>5. /\ sec.at = "convert" /\ lrq_lock[r] \in Locks /\ lrq_owner[r] = o
      /\ lhb_active_owner = o /\ lrq_requested[r] \in Granted
      /\ ~ Pending(r) /\ pc[o] = "out" /\ o \in alive
      /\ lrq_lock[r] # NoLock
  BY <1>0 DEF ConvertWaits, SecInv, SoundTable, TableTypes
<1>6. /\ BeginWait(o, r)
      /\ UNCHANGED <<lbl_counts, lbl_state, lrq_owner, lrq_lock, lrq_requested,
                     lrq_state, lrq_ast_routine, lhb_owners, own_blocks, own_signaled,
                     lhb_active_owner, own_hung, alive, sigpend, ast, lck_physical,
                     crashes>>
  BY <1>0 DEF ConvertWaits
<1>7. /\ \A s \in Requests : s # r => lrq_flags'[s] = lrq_flags[s]
      /\ own_pending_request' = [own_pending_request EXCEPT ![o] = r]
      /\ own_flags' \in [Owners -> SUBSET OwnFlags]
      /\ own_semaphore' = [own_semaphore EXCEPT ![o] = TRUE]
      /\ op' \in [Owners -> Ops] /\ op'[o].req = r
      /\ \A u \in Owners : u # o => op'[u] = op[u]
      /\ pc' = [pc EXCEPT ![o] = "wait"]
      /\ sec' \in Secs /\ sec'.at = "block" /\ sec'.req = r
      /\ sec'.purged = sec.purged /\ sec'.probed = sec.probed
  BY <1>5, <1>6, BeginWaitFields
<1>1. SoundTable'
  BY <1>5, <1>6, WaitStepTable DEF IInv
<1>2. RestTypes'
  <2>1. pc' \in [Owners -> Pcs]
    BY <1>7 DEF RestTypes, Pcs
  <2> QED BY <2>1, <1>6, <1>7 DEF RestTypes
<1>3. WaitInv'
  BY <1>5, <1>6, <1>7 DEF RestTypes, WaitInv, SecInv, Purging, Pending
<1>4. SecInv'
  BY <1>5, <1>6, <1>7 DEF RestTypes, WaitInv, SecInv, Purging, Pending
<1> QED BY <1>1, <1>2, <1>3, <1>4, IInvPrime

(* The invariant is preserved by deadlock_scan rejecting a victim.         *)
LEMMA ScanVictim_Inv ==
    ASSUME IInv, NEW o \in Owners, NEW t \in Requests, ScanVictim(o, t)
    PROVE  IInv'
<1> USE IInvParts, ConstantsAssumption
<1>5. Pending(t) /\ sec.at = "scan" /\ lhb_active_owner = o
  BY DEF ScanVictim, Victims, Visited, PendingRequests
<1>6. /\ lrq_flags' =
            [lrq_flags EXCEPT ![t] = (@ \ {"pending"}) \cup {"rejected"}]
      /\ lbl_pending_lrq_count' =
            [lbl_pending_lrq_count EXCEPT ![lrq_lock[t]] = @ - 1]
      /\ sec' = Release
      /\ UNCHANGED <<lbl_requests, lbl_counts, lbl_state, lrq_owner, lrq_lock,
                     lrq_requested, lrq_state, lrq_ast_routine, lhb_owners, own_blocks,
                     own_signaled, own_semaphore, lhb_active_owner, own_hung, procVars>>
  BY DEF ScanVictim
<1>7. /\ \A s \in Requests : s # t => lrq_flags'[s] = lrq_flags[s]
      /\ "pending" \notin lrq_flags'[t]
  BY <1>6 DEF SoundTable, TableTypes
<1>1. SoundTable'
  BY <1>5, <1>6, RejectStep DEF IInv
<1>2. RestTypes'
  <2>1. own_flags' \in [Owners -> SUBSET OwnFlags]
    <3> DEFINE cleared == [own_flags EXCEPT ![lrq_owner[t]] = @ \ {"scanned"}]
    <3>1. cleared \in [Owners -> SUBSET OwnFlags]
      BY DEF RestTypes
    <3>2. own_flags' = cleared \/ own_flags' = post_wakeup(cleared, lrq_owner[t])
      BY DEF ScanVictim
    <3> HIDE DEF cleared
    <3> QED BY <3>1, <3>2, PostWakeupType
  <2>2. own_pending_request' \in [Owners -> Requests \cup {NoReq}]
    BY DEF ScanVictim, RestTypes
  <2> QED BY <2>1, <2>2, <1>6, SecForms DEF RestTypes, procVars
<1>3. WaitInv'
  BY <1>5, <1>6, <1>7 DEF RestTypes, WaitInv, SecInv, Purging, Pending, Release, NoSec, procVars
<1>4. SecInv'
  BY <1>5, <1>6, <1>7 DEF RestTypes, WaitInv, SecInv, Purging, Pending, Release, NoSec, procVars
<1> QED BY <1>1, <1>2, <1>3, <1>4, IInvPrime

(* The invariant is preserved by a waiter rejecting its own request at its *)
(* timeout.                                                                *)
LEMMA WokenTimedOut_Inv ==
    ASSUME IInv, NEW o \in Owners, WokenTimedOut(o)
    PROVE  IInv'
<1> USE IInvParts, ConstantsAssumption
<1>0. PICK r \in Requests : r = op[o].req
  BY DEF WokenTimedOut, Woken, Main, WaitInv
<1>5. /\ Pending(r) /\ lhb_active_owner = NoOwner /\ sec.at = "free"
      /\ o \in alive /\ pc[o] # "out"
  BY <1>0 DEF WokenTimedOut, Woken, Main, acquire, SecInv
<1>6. /\ lrq_flags' =
            [lrq_flags EXCEPT ![r] = (@ \ {"pending"}) \cup {"rejected"}]
      /\ lbl_pending_lrq_count' =
            [lbl_pending_lrq_count EXCEPT ![lrq_lock[r]] = @ - 1]
      /\ pc' = [pc EXCEPT ![o] = "resolved"]
      /\ sec' = Release /\ lhb_active_owner' = o
      /\ own_hung' = [own_hung EXCEPT ![o] = FALSE]
      /\ own_flags' = [own_flags EXCEPT ![o] = @ \ {"wakeup"}]
      /\ UNCHANGED <<lbl_requests, lbl_counts, lbl_state, lrq_owner, lrq_lock,
                     lrq_requested, lrq_state, lrq_ast_routine, lhb_owners,
                     own_blocks, own_pending_request, own_signaled,
                     own_semaphore, alive, sigpend, ast, op, lck_physical,
                     crashes>>
  BY <1>0 DEF WokenTimedOut, Woken, acquire
<1>7. /\ r = op[o].req
      /\ \A s \in Requests : s # r => lrq_flags'[s] = lrq_flags[s]
      /\ "pending" \notin lrq_flags'[r]
  BY <1>0, <1>6 DEF SoundTable, TableTypes
<1>1. SoundTable'
  BY <1>5, <1>6, RejectStep DEF IInv
<1>2. RestTypes'
  BY <1>5, <1>6, SecForms DEF RestTypes, Pcs
<1>3. WaitInv'
  BY <1>5, <1>6, <1>7 DEF RestTypes, WaitInv, SecInv, Purging, Pending, Release, NoSec
<1>4. SecInv'
  BY <1>5, <1>6, <1>7 DEF RestTypes, WaitInv, SecInv, Purging, Pending, Release, NoSec
<1> QED BY <1>1, <1>2, <1>3, <1>4, IInvPrime

(* The invariant is preserved by a deadlock scan without a victim.         *)
LEMMA ScanClear_Inv ==
    ASSUME IInv, NEW o \in Owners, ScanClear(o)
    PROVE  IInv'
<1> USE IInvParts, ConstantsAssumption
<1>5. /\ sec.at = "scan" /\ lhb_active_owner = o /\ sec.req \in Requests
      /\ Pending(sec.req) /\ lrq_lock[sec.req] \in Locks
  BY PendingFacts DEF ScanClear, SecInv
<1>6. /\ sec' \in Secs
      /\ sec' = [sec EXCEPT !.at = "block", !.req = sec.req,
                    !.next = First(lbl_requests[lrq_lock[sec.req]])]
  BY <1>5, RemindForm DEF ScanClear
<1>7. UNCHANGED <<lrq_owner, lrq_lock, lrq_requested, lrq_state, lrq_flags, lhb_owners,
                  lhb_active_owner, own_hung, alive, sigpend, pc, op>>
  BY DEF ScanClear, lrqVars, procVars
<1>1. SoundTable'
  BY TableFrame DEF ScanClear, IInv
<1>2. RestTypes'
  BY <1>6 DEF ScanClear, RestTypes, procVars, OwnFlags
<1>3. WaitInv'
  BY <1>5, <1>6, <1>7 DEF RestTypes, WaitInv, SecInv, Purging, Pending
<1>4. SecInv'
  BY <1>5, <1>6, <1>7 DEF RestTypes, WaitInv, SecInv, Purging, Pending, Secs
<1> QED BY <1>1, <1>2, <1>3, <1>4, IInvPrime

(* The invariant is preserved by a woken waiter whose request still waits. *)
LEMMA WokenPending_Inv ==
    ASSUME IInv, NEW o \in Owners, WokenPending(o)
    PROVE  IInv'
<1> USE IInvParts, ConstantsAssumption
<1>5. /\ lhb_active_owner = NoOwner /\ sec.at = "free" /\ o \in alive
      /\ pc[o] # "out" /\ op[o].req \in Requests
      /\ Pending(op[o].req) /\ lrq_lock[op[o].req] \in Locks
  BY PendingFacts DEF WokenPending, Woken, Main, acquire, WaitInv, SecInv
<1>6. /\ sec' \in Secs
      /\ sec' = IF pc[o] = "woke_event"
                THEN [sec EXCEPT !.at = "block", !.req = op[o].req,
                        !.next = First(lbl_requests[lrq_lock[op[o].req]])]
                ELSE [NoSec EXCEPT !.at = "probe", !.probed = "probed",
                                   !.req = op[o].req]
  <2>1. NoSec \in Secs
    BY SecForms DEF RestTypes
  <2>2. [NoSec EXCEPT !.at = "probe", !.probed = "probed", !.req = op[o].req] \in Secs
    BY <2>1, <1>5 DEF Secs, Stages
  <2> QED BY <2>2, <1>5, RemindForm DEF WokenPending
<1>7. /\ lhb_active_owner' = o /\ pc' = [pc EXCEPT ![o] = "wait"]
      /\ UNCHANGED <<lrq_owner, lrq_lock, lrq_requested, lrq_state, lrq_flags,
                     lhb_owners, alive, sigpend, op>>
  BY DEF WokenPending, Woken, acquire, lrqVars
<1>1. SoundTable'
  BY TableFrame DEF WokenPending, Woken, IInv
<1>2. RestTypes'
  BY <1>6 DEF WokenPending, Woken, acquire, RestTypes, Pcs
<1>3. WaitInv'
  BY <1>5, <1>6, <1>7 DEF RestTypes, WaitInv, SecInv, Purging, Pending
<1>4. SecInv'
  <2>1. CASE pc[o] = "woke_event"
    BY <2>1, <1>5, <1>6, <1>7 DEF RestTypes, WaitInv, SecInv, Purging, Pending, Secs
  <2>2. CASE pc[o] # "woke_event"
    BY <2>2, <1>5, <1>6, <1>7 DEF RestTypes, WaitInv, SecInv, Purging, Pending, NoSec
  <2> QED BY <2>1, <2>2
<1> QED BY <1>1, <1>2, <1>3, <1>4, IInvPrime

(* The invariant is preserved by LOCK_enq queueing a new request.          *)
LEMMA EnqInsert_Inv ==
    ASSUME IInv, NEW o \in Owners, NEW r \in Requests, EnqInsert(o, r)
    PROVE  IInv'
<1> USE IInvParts, ConstantsAssumption
<1>5. /\ sec.at = "enq" /\ lhb_active_owner = o /\ o \in lhb_owners
      /\ op[o].lock \in Locks /\ op[o].level \in Granted /\ pc[o] = "out"
      /\ r \in FreeRequests /\ lrq_owner[r] = NoOwner
  BY DEF EnqInsert, SecInv, FreeRequests
<1>6. /\ sec' = [sec EXCEPT !.at = "grant_or_que", !.req = r]
      /\ \A s \in Requests : s # r =>
            /\ lrq_owner'[s] = lrq_owner[s] /\ lrq_lock'[s] = lrq_lock[s]
            /\ lrq_flags'[s] = lrq_flags[s]
      /\ lrq_owner'[r] = o /\ lrq_lock'[r] = op[o].lock /\ lrq_flags'[r] = {}
      /\ lrq_requested'[r] = op[o].level /\ lrq_state'[r] = LCK_none
      /\ UNCHANGED <<lhb_owners, lhb_active_owner, own_hung, alive, sigpend, pc, op>>
  BY DEF EnqInsert, SoundTable, TableTypes, ownVars, procVars
<1>1. SoundTable'
  <2>1. op[o].ast \in BOOLEAN
    BY DEF RestTypes, Ops
  <2> QED BY <2>1, <1>5, InsertStep DEF IInv, EnqInsert
<1>2. RestTypes'
  <2>1. sec' \in Secs
    BY <1>6 DEF RestTypes, Secs, Stages
  <2> QED BY <2>1 DEF EnqInsert, RestTypes, ownVars, procVars
<1>3. WaitInv'
  BY <1>5, <1>6 DEF RestTypes, WaitInv, SecInv, Purging, Pending, Secs
<1>4. SecInv'
  BY <1>5, <1>6 DEF RestTypes, WaitInv, SecInv, Purging, Pending, Secs
<1> QED BY <1>1, <1>2, <1>3, <1>4, IInvPrime

(* The invariant is preserved by post_blockage reaching a request, also    *)
(* when its owner turns out to be dead.                                    *)
LEMMA PostBlock_Inv ==
    ASSUME IInv, NEW o \in Owners, PostBlock(o)
    PROVE  IInv'
<1> USE IInvParts, ConstantsAssumption
<1>0. PICK b \in Requests : b = sec.next
  BY DEF PostBlock, RestTypes, Secs
<1>5. /\ lrq_lock[b] # NoLock /\ lrq_lock[b] \in Locks /\ lrq_owner[b] \in Owners
      /\ sec.at = "block" /\ lhb_active_owner = o /\ sec.req \in Requests
  BY <1>0 DEF PostBlock, SoundTable, TableTypes, RequestInv, SecInv
<1>6. UNCHANGED <<lblVars, lrq_owner, lrq_lock, lrq_requested, lrq_state,
                  lrq_ast_routine, lhb_owners, own_pending_request, own_flags,
                  own_semaphore, lhb_active_owner, own_hung, alive, pc, ast, op,
                  lck_physical, crashes>>
  BY DEF PostBlock
<1>7. /\ Blocks(b, sec.req) =>
            /\ lrq_flags' = [lrq_flags EXCEPT ![b] = @ \cup {"blocking"}]
            /\ own_blocks' = [own_blocks EXCEPT ![lrq_owner[b]] =
                  IF "blocking" \in lrq_flags[b] THEN @ ELSE Append(@, b)]
      /\ ~ Blocks(b, sec.req) => UNCHANGED <<lrq_flags, own_blocks>>
  BY <1>0 DEF PostBlock
<1>8. /\ sec' \in Secs /\ sec'.req = sec.req /\ sec'.probed = sec.probed
      /\ \/ sec'.at = "block"
         \/ /\ sec'.at = "purge" /\ sec'.purged = "block"
            /\ sec'.victim \in Owners /\ sec'.victim \notin alive
      /\ sec'.purged \in {sec.purged, "block"}
  <2>1. PICK n \in Requests \cup {NoReq} : n = AfterBlock(b)
    <3> DEFINE q == lbl_requests[lrq_lock[b]]
    <3>1. q \in Seq(Requests) /\ b \in Members(q)
      BY <1>5 DEF SoundTable, TableTypes, QueueInv, RequestsOf
    <3>2. Following(q, b) \in Requests \cup {NoReq}
      <4>1. Position(q, b) \in 1 .. Len(q)
        BY <3>1 DEF Position, Members
      <4> HIDE DEF q
      <4> QED BY <4>1, <3>1 DEF Following
    <3> QED BY <3>2 DEF AfterBlock
  <2>2. [sec EXCEPT !.next = n] \in Secs /\ sec \in Secs
    BY DEF RestTypes, Secs
  <2>3. \/ sec' = [sec EXCEPT !.next = n]
        \/ /\ lrq_owner[b] \notin alive
           /\ sec' = [[sec EXCEPT !.next = n] EXCEPT !.at = "purge",
                         !.victim = lrq_owner[b], !.purged = "block"]
    BY <1>0, <2>1 DEF PostBlock, SignalFails
  <2>4. CASE sec' = [sec EXCEPT !.next = n]
    BY <2>2, <2>4, <1>5 DEF Secs
  <2>5. CASE /\ lrq_owner[b] \notin alive
             /\ sec' = [[sec EXCEPT !.next = n] EXCEPT !.at = "purge",
                           !.victim = lrq_owner[b], !.purged = "block"]
    BY <2>2, <2>5, <1>5 DEF Secs, Stages
  <2> QED BY <2>3, <2>4, <2>5
<1>9. /\ \/ own_signaled' = own_signaled
         \/ own_signaled' = [own_signaled EXCEPT ![lrq_owner[b]] = TRUE]
      /\ \/ sigpend' = sigpend
         \/ lrq_owner[b] \in alive /\ sigpend' = sigpend \cup {lrq_owner[b]}
  BY <1>0 DEF PostBlock, signal_owner, SignalFails
<1>1. SoundTable'
  <2>1. CASE Blocks(b, sec.req)
    BY <2>1, <1>5, <1>6, <1>7, BlockStep DEF IInv
  <2>2. CASE ~ Blocks(b, sec.req)
    BY <2>2, <1>6, <1>7, TableFrame DEF IInv, lblVars, lrqVars
  <2> QED BY <2>1, <2>2
<1>2. RestTypes'
  <2>1. /\ own_signaled' \in [Owners -> BOOLEAN]
        /\ sigpend' \in SUBSET Owners
    BY <1>5, <1>9 DEF RestTypes
  <2> QED BY <2>1, <1>6, <1>8 DEF RestTypes
<1>3. WaitInv'
  <2>1. \A s \in Requests : Pending(s)' <=> Pending(s)
    <3>1. CASE Blocks(b, sec.req)
      <4>1. lrq_flags' = [lrq_flags EXCEPT ![b] = @ \cup {"blocking"}]
        BY <3>1, <1>7
      <4>2. lrq_flags \in [Requests -> SUBSET LrqFlags]
        BY DEF SoundTable, TableTypes
      <4> QED BY <4>1, <4>2 DEF Pending
    <3>2. CASE ~ Blocks(b, sec.req)
      BY <3>2, <1>7 DEF Pending
    <3> QED BY <3>1, <3>2
  <2>2. sigpend' \subseteq alive
    BY <1>9 DEF WaitInv
  <2> QED BY <2>1, <2>2, <1>5, <1>6, <1>8 DEF RestTypes, WaitInv, SecInv, Purging
<1>4. SecInv'
  <2>1. \A s \in Requests : Pending(s)' <=> Pending(s)
    <3>1. CASE Blocks(b, sec.req)
      <4>1. lrq_flags' = [lrq_flags EXCEPT ![b] = @ \cup {"blocking"}]
        BY <3>1, <1>7
      <4>2. lrq_flags \in [Requests -> SUBSET LrqFlags]
        BY DEF SoundTable, TableTypes
      <4> QED BY <4>1, <4>2 DEF Pending
    <3>2. CASE ~ Blocks(b, sec.req)
      BY <3>2, <1>7 DEF Pending
    <3> QED BY <3>1, <3>2
  <2> QED BY <2>1, <1>5, <1>6, <1>8 DEF RestTypes, WaitInv, SecInv, Purging
<1> QED BY <1>1, <1>2, <1>3, <1>4, IInvPrime

(* The invariant is preserved by blocking_action2 taking a block.          *)
LEMMA AstNext_Inv ==
    ASSUME IInv, NEW o \in Owners, AstNext(o)
    PROVE  IInv'
<1> USE IInvParts, ConstantsAssumption
<1>5. /\ sec.at = "ast" /\ lhb_active_owner = o
      /\ \/ lhb_active_owner' = NoOwner /\ sec' = NoSec
         \/ UNCHANGED <<lhb_active_owner, own_hung, sec>>
      /\ UNCHANGED <<lrq_lock, lrq_requested, lrq_state, lhb_owners, alive,
                     sigpend, pc, op>>
  BY DEF AstNext, secVars
<1>0. PICK r \in Requests : r = Head(own_blocks[o])
  BY TailFacts, MembersFacts DEF AstNext, SoundTable, TableTypes, QueueInv
<1>8. r \in Members(own_blocks[o])
  BY <1>0, TailFacts DEF AstNext, SoundTable, TableTypes, QueueInv
<1>6. \A s \in Requests :
        /\ "pending" \in lrq_flags'[s] <=> "pending" \in lrq_flags[s]
        /\ Pending(s) => lrq_lock[s] # NoLock
  <2>1. "blocking" \notin lrq_flags[r] => ~ Pending(r)
    BY <1>8 DEF SoundTable, QueueInv, RequestInv
  <2> QED BY <2>1, <1>0 DEF AstNext, SoundTable, TableTypes, RequestInv, Pending
<1>7. \A s \in Requests : lrq_lock[s] # NoLock => lrq_owner'[s] = lrq_owner[s]
  <2>1. "blocking" \notin lrq_flags[r] => lrq_lock[r] = NoLock
    BY <1>8 DEF SoundTable, QueueInv, RequestInv
  <2> QED BY <2>1, <1>0 DEF AstNext, SoundTable, TableTypes
<1>1. SoundTable'
  BY AstStep DEF IInv
<1>2. RestTypes'
  BY SecForms DEF AstNext, RestTypes, Asts, secVars
<1>3. WaitInv'
  BY <1>5, <1>6, <1>7 DEF RestTypes, WaitInv, SecInv, Purging, Pending, NoSec
<1>4. SecInv'
  BY <1>5, <1>6, <1>7 DEF RestTypes, WaitInv, SecInv, Purging, Pending, NoSec
<1> QED BY <1>1, <1>2, <1>3, <1>4, IInvPrime

(* The invariant is preserved by LOCK_re_post.                             *)
LEMMA LOCK_re_post_Inv ==
    ASSUME IInv, NEW o \in Owners, LOCK_re_post(o)
    PROVE  IInv'
<1> USE IInvParts, ConstantsAssumption
<1> DEFINE Reposted(r) ==
        /\ lrq_owner' = [lrq_owner EXCEPT ![r] = o]
        /\ lrq_flags' = [lrq_flags EXCEPT ![r] = {"repost"}]
        /\ lrq_ast_routine' = [lrq_ast_routine EXCEPT ![r] = TRUE]
        /\ own_blocks' = [own_blocks EXCEPT ![o] = Append(@, r)]
        /\ UNCHANGED <<lrq_lock, lrq_requested, lrq_state>>
<1>5. /\ lhb_active_owner = NoOwner /\ lhb_active_owner' = o
      /\ o \in alive /\ o \in lhb_owners /\ sec.at = "free"
      /\ UNCHANGED <<lblVars, lhb_owners, alive, sigpend, pc, op>>
  BY DEF LOCK_re_post, MayCall, acquire, procVars, SecInv
<1>6. UNCHANGED <<lrqVars, own_blocks>> \/ \E r \in FreeRequests : Reposted(r)
  BY DEF LOCK_re_post
<1>7. \A s \in Requests :
        /\ lrq_lock'[s] = lrq_lock[s]
        /\ "pending" \in lrq_flags'[s] <=> "pending" \in lrq_flags[s]
        /\ lrq_lock[s] # NoLock => lrq_owner'[s] = lrq_owner[s]
  <2>1. \A r \in FreeRequests : lrq_lock[r] = NoLock /\ lrq_flags[r] = {} /\ r \in Requests
    BY DEF FreeRequests, SoundTable, RequestInv
  <2>2. CASE UNCHANGED <<lrqVars, own_blocks>>
    BY <2>2 DEF lrqVars
  <2>3. ASSUME NEW r \in FreeRequests, Reposted(r)
        PROVE  \A s \in Requests :
                 /\ lrq_lock'[s] = lrq_lock[s]
                 /\ "pending" \in lrq_flags'[s] <=> "pending" \in lrq_flags[s]
                 /\ lrq_lock[s] # NoLock => lrq_owner'[s] = lrq_owner[s]
    BY <2>1, <2>3 DEF SoundTable, TableTypes
  <2> QED BY <1>6, <2>2, <2>3
<1> HIDE DEF Reposted
<1>1. SoundTable'
  <2>1. CASE UNCHANGED <<lrqVars, own_blocks>>
    BY <2>1, <1>5, TableFrame DEF IInv
  <2>2. ASSUME NEW r \in FreeRequests, Reposted(r) PROVE SoundTable'
    BY <2>2, <1>5, RepostStep DEF IInv, Reposted
  <2> QED BY <1>6, <2>1, <2>2
<1>2. RestTypes'
  <2>1. sec' \in Secs
    BY SecForms DEF LOCK_re_post, RestTypes, Stages
  <2> QED BY <2>1 DEF LOCK_re_post, acquire, RestTypes, procVars
<1>3. WaitInv'
  <2>1. sec'.at \in {"release", "ast"}
    BY <1>5 DEF LOCK_re_post, Release, NoSec, At, RestTypes, Secs
  <2>2. \A r \in Requests : Pending(r) => lrq_lock[r] # NoLock
    BY DEF SoundTable, RequestInv
  <2> QED BY <2>1, <2>2, <1>5, <1>7 DEF RestTypes, WaitInv, SecInv, Purging, Pending
<1>4. SecInv'
  <2>1. sec'.at \in {"release", "ast"} /\ sec'.purged # "block" /\ sec'.probed # "probed"
    BY <1>5 DEF LOCK_re_post, Release, NoSec, At, RestTypes, Secs, SecInv
  <2> QED BY <2>1, <1>5 DEF SecInv
<1> QED BY <1>1, <1>2, <1>3, <1>4, IInvPrime

(* The invariant is preserved by the end of purge_owner.                   *)
LEMMA PurgeOwner_Inv ==
    ASSUME IInv, NEW o \in Owners, PurgeOwner(o)
    PROVE  IInv'
<1> USE IInvParts, ConstantsAssumption
<1>5. sec.at = "purge" /\ sec.victim \in Owners /\ lhb_active_owner = o
  BY DEF PurgeOwner, SecInv
<1>6. /\ \A r \in Requests : lrq_lock[r] # NoLock =>
            /\ lrq_owner[r] # sec.victim
            /\ lrq_owner'[r] = lrq_owner[r] /\ lrq_flags'[r] = lrq_flags[r]
      /\ \A r \in Requests : Pending(r)' => Pending(r)
  <2>1. own_requests(sec.victim) = {}
    BY DEF PurgeOwner
  <2>2. \A r \in Requests : r \in Members(own_blocks[sec.victim]) =>
           lrq_owner[r] = sec.victim
    BY <1>5 DEF SoundTable, QueueInv
  <2> QED BY <2>1, <2>2 DEF PurgeOwner, own_requests, Pending
<1>7. /\ sec' = At(sec.purged)
      /\ lhb_owners' = lhb_owners \ {sec.victim}
      /\ \A r \in Requests : Pending(r) => lrq_lock[r] # NoLock
      /\ UNCHANGED <<lrq_lock, lrq_requested, lrq_state, lhb_active_owner, own_hung,
                     alive, sigpend, pc, op>>
  BY DEF PurgeOwner, procVars, SoundTable, RequestInv
<1>1. SoundTable'
  BY <1>5, PurgeStep DEF IInv
<1>2. RestTypes'
  <2>1. sec' \in Secs
    <3>1. sec.purged \in Stages /\ sec \in Secs
      BY DEF RestTypes, Secs, Stages
    <3> QED BY <3>1, SecForms DEF PurgeOwner
  <2> QED BY <2>1 DEF PurgeOwner, RestTypes, procVars, OwnFlags
<1>3. WaitInv'
  BY <1>5, <1>6, <1>7 DEF RestTypes, WaitInv, SecInv, Purging, Pending, At, Secs
<1>4. SecInv'
  BY <1>5, <1>6, <1>7 DEF RestTypes, WaitInv, SecInv, Purging, Pending, At, Secs
<1> QED BY <1>1, <1>2, <1>3, <1>4, IInvPrime

(* The invariant is preserved by init_owner_block.                         *)
LEMMA CreateOwner_Inv ==
    ASSUME IInv, NEW o \in Owners, CreateOwner(o)
    PROVE  IInv'
<1> USE IInvParts, ConstantsAssumption
<1>1. SoundTable'
  <2>1. o \notin lhb_owners
    BY DEF CreateOwner, SecInv
  <2> QED BY <2>1, CreateStep DEF IInv
<1>2. RestTypes'
  <2>1. NoSec \in Secs
    BY SecForms DEF RestTypes
  <2>2. sec' \in Secs
    BY <2>1 DEF CreateOwner, Secs, Stages
  <2> QED BY <2>2 DEF CreateOwner, RestTypes, procVars, OwnFlags
<1>3. WaitInv'
  BY DEF CreateOwner, lrqVars, procVars, RestTypes, WaitInv, SecInv, Purging, Pending, NoSec
<1>4. SecInv'
  BY DEF CreateOwner, lrqVars, procVars, RestTypes, WaitInv, SecInv, Purging, Pending, NoSec
<1> QED BY <1>1, <1>2, <1>3, <1>4, IInvPrime

-----------------------------------------------------------------------------
(* The theorems. *)

(* The empty table LOCK_init makes satisfies the invariant.                *)
LEMMA InitIInv == Init => IInv
<1> SUFFICES ASSUME Init PROVE IInv
  OBVIOUS
<1> USE ConstantsAssumption DEF Init
<1>1. TypeOK
  <2>1. ZeroCounts \in [Granted -> Nat] /\ LCK_none \in States
    BY LevelsFact DEF ZeroCounts
  <2>2. NoSec \in Secs
    BY DEF NoSec, Secs, Stages
  <2>3. <<>> \in Seq(Requests)
    OBVIOUS
  <2> QED BY <2>1, <2>2, <2>3, NoOpForm DEF TypeOK, Pcs, Asts
<1>2. QueueInv
  <2>1. Injective(<<>>) /\ Members(<<>>) = {}
    BY DEF Injective, Members
  <2> QED BY <2>1 DEF QueueInv, RequestsOf
<1>3. RequestInv
  BY DEF RequestInv, Pending
<1>4. CountsExact
  <2>1. \A l \in Locks : RequestsOf(l) = {}
    BY DEF RequestsOf
  <2>2. ASSUME NEW l \in Locks
        PROVE  /\ \A m : {r \in RequestsOf(l) : lrq_state[r] = m} = {}
               /\ {r \in RequestsOf(l) : Pending(r)} = {}
    BY <2>1
  <2>3. ZeroCounts \in [Granted -> Nat] /\ \A m \in Granted : ZeroCounts[m] = 0
    BY DEF ZeroCounts
  <2>4. lock_state(ZeroCounts) = LCK_none
    BY <2>3, LockStateMax
  <2> QED BY <2>2, <2>3, <2>4, FS_EmptySet DEF CountsExact
<1>5. GrantedCompatible
  BY DEF GrantedCompatible
<1>6. WaitInv
  BY DEF WaitInv, Pending
<1>7. SecInv
  BY DEF SecInv, NoSec
<1> QED BY <1>1, <1>2, <1>3, <1>4, <1>5, <1>6, <1>7 DEF IInv, TableInv

(* A step that changes nothing preserves the invariant.                    *)
LEMMA StutterIInv == IInv /\ UNCHANGED vars => IInv'
<1> SUFFICES ASSUME IInv, UNCHANGED vars PROVE IInv'
  OBVIOUS
<1> USE IInvParts DEF vars
<1>1. SoundTable'
  BY TableFrame DEF IInv, ownVars
<1>2. RestTypes'
  BY DEF RestTypes, ownVars, secVars, procVars
<1>3. WaitInv' /\ SecInv'
  BY DEF WaitInv, SecInv, Purging, Pending, lrqVars, ownVars, secVars, procVars
<1> QED BY <1>1, <1>2, <1>3, IInvPrime

(* Every step of every process preserves the invariant.                    *)
LEMMA NextIInv == IInv /\ [Next]_vars => IInv'
<1> SUFFICES ASSUME IInv, Next PROVE IInv'
  BY StutterIInv
<1>1. PICK o \in Owners :
        \/ ClientCall(o) \/ Give(o)
        \/ SectionStep(o) \/ WaitStep(o)
        \/ SignalHandled(o) \/ SignalIgnored(o) \/ AstReturns(o)
        \/ WaitForTable(o) \/ Crash(o)
  BY DEF Next
<1>2. CASE ClientCall(o)
  BY <1>2, LOCK_enq_Inv, LOCK_convert_Inv, LOCK_re_post_Inv, LOCK_fini_Inv,
     LOCK_init_Inv DEF ClientCall
<1>3. CASE Give(o)
  BY <1>3, LOCK_deq_Inv, LOCK_downgrade_Inv DEF Give
<1>4. CASE SectionStep(o)
  BY <1>4, ReleaseTable_Inv, ReleaseMutex_Inv, PostGrant_Inv, PostRefused_Inv,
     PostDone_Inv, EnqOutOfRoom_Inv, QueGranted_Inv, QueWaits_Inv,
     QueDenied_Inv, ConvertGranted_Inv, ConvertWaits_Inv,
     ConvertDenied_Inv, ConvertReset_Inv, PostBlock_Inv,
     PostBlockDone_Inv, PurgeOwner_Inv,
     ProbeDone_Inv, Probed_Inv, ScanClear_Inv, AstNext_Inv,
     AstDone_Inv, CreateOwner_Inv, EnqInsert_Inv, PurgeRequest_Inv,
     ScanVictim_Inv, ProbeOwner_Inv DEF SectionStep
<1>5. CASE WaitStep(o)
  BY <1>5, WaitOver_Inv, WaitWoken_Inv, WaitReturns_Inv, WokenResolved_Inv,
     WokenTimedOut_Inv, WokenPending_Inv, EnqRejected_Inv,
     ConvertRejected_Inv DEF WaitStep
<1>6. CASE \/ SignalHandled(o) \/ SignalIgnored(o) \/ AstReturns(o)
           \/ WaitForTable(o) \/ Crash(o)
  BY <1>6, SignalHandled_Inv, SignalIgnored_Inv, AstReturns_Inv,
     WaitForTable_Inv, Crash_Inv
<1> QED BY <1>1, <1>2, <1>3, <1>4, <1>5, <1>6

-----------------------------------------------------------------------------
(* The walk of post_blockage stays on the queue of its lock.               *)

(* A step that puts no request on a lock. *)
FewerRequests ==
    \A r \in Requests : lrq_lock'[r] # NoLock =>
        lrq_lock'[r] = lrq_lock[r] /\ lrq_owner'[r] = lrq_owner[r]

(* A section that neither walks, nor scans, nor makes a request. *)
Quiet(s) ==
    /\ s.at \notin {"enq", "scan", "block"}
    /\ s.at = "purge" => s.purged # "block"
    /\ s.at = "post" => s.posted \in {"release", "reset"}

(* A step into such a section keeps the invariant.                         *)
LEMMA QuietKeepsWalk ==
    ASSUME BlockageInv, SurvivorsInv', FewerRequests, Quiet(sec')
    PROVE  BlockageInv'
<1>1. OneRequestInv'
  BY DEF BlockageInv, OneRequestInv, FewerRequests, Quiet
<1>2. ScanInv' /\ StaysInv'
  BY DEF ScanInv, StaysInv, Walking, WalkStopped, Quiet
<1> QED BY <1>1, <1>2 DEF BlockageInv

(* So does a step beside the section.                                      *)
LEMMA BesideKeepsWalk ==
    ASSUME BlockageInv, SurvivorsInv', IInv,
           \A u \in Owners : u = lhb_active_owner => op'[u] = op[u],
           UNCHANGED <<lrq_owner, lrq_lock, lhb_active_owner, sec>>
    PROVE  BlockageInv'
<1>1. OneRequestInv'
  <2>1. sec.at # "free" => lhb_active_owner \in Owners
    BY IInvParts DEF SecInv, RestTypes
  <2> QED BY <2>1 DEF BlockageInv, OneRequestInv, own_requests
<1>2. ScanInv' /\ StaysInv'
  BY DEF BlockageInv, ScanInv, StaysInv, Walking, WalkStopped
<1> QED BY <1>1, <1>2 DEF BlockageInv

(* A walk begins at the head of a lock's queue, for a request of the       *)
(* caller.                                                                 *)
LEMMA BegunWalk ==
    ASSUME BlockageInv, SurvivorsInv', IInv', FewerRequests,
           NEW r \in Requests, lrq_lock'[r] # NoLock,
           lrq_owner'[r] = lhb_active_owner',
           sec'.at = "block", sec'.req = r,
           sec'.next = First(lbl_requests'[lrq_lock'[r]])
    PROVE  BlockageInv'
<1>1. OneRequestInv'
  BY DEF BlockageInv, OneRequestInv, FewerRequests
<1>2. sec'.next # NoReq => lrq_lock'[sec'.next] = lrq_lock'[r]
  <2> DEFINE q == lbl_requests'[lrq_lock'[r]]
  <2>1. /\ lrq_lock'[r] \in Locks /\ q \in Seq(Requests)
        /\ \A s \in Members(q) : lrq_lock'[s] = lrq_lock'[r]
    BY DEF IInv, TableInv, TypeOK, QueueInv, RequestsOf
  <2>2. First(q) # NoReq => First(q) \in Members(q)
    BY <2>1 DEF First, Members
  <2> QED BY <2>1, <2>2
<1>3. ScanInv' /\ StaysInv'
  BY <1>2 DEF ScanInv, StaysInv, Walking, WalkStopped
<1> QED BY <1>1, <1>3 DEF BlockageInv

(* The steps of a purge keep the requests it must not touch.               *)
LEMMA PurgeKeepsWalk ==
    ASSUME BlockageInv, SurvivorsInv', FewerRequests, lhb_active_owner' = lhb_active_owner,
           sec'.purged = sec.purged, sec'.victim = sec.victim,
           sec'.req = sec.req, sec'.next = sec.next,
           WalkStopped => /\ lrq_lock'[sec.req] = lrq_lock[sec.req]
                          /\ lrq_owner'[sec.req] = lrq_owner[sec.req]
                          /\ sec.next # NoReq =>
                                /\ lrq_lock'[sec.next] = lrq_lock[sec.next]
                                /\ lrq_owner'[sec.next] = lrq_owner[sec.next],
           sec'.at \notin {"scan", "enq"}, Walking' => WalkStopped,
           sec'.at = "post" => sec'.posted # "enq"
    PROVE  BlockageInv'
<1>1. OneRequestInv'
  BY DEF BlockageInv, OneRequestInv, FewerRequests
<1>2. ScanInv'
  BY DEF ScanInv
<1>3. StaysInv'
  <2>1. WalkStopped' => Walking'
    BY DEF Walking
  <2> QED BY <2>1 DEF BlockageInv, StaysInv, Walking
<1> QED BY <1>1, <1>2, <1>3 DEF BlockageInv

(* No process dies unless the bound allows it.                             *)
LEMMA SurvivorsStep == IInv /\ SurvivorsInv /\ Next => SurvivorsInv'
<1> SUFFICES ASSUME IInv, SurvivorsInv, Next, MaxCrashes = 0 PROVE alive' = Owners
  BY DEF SurvivorsInv
<1>0. alive = Owners /\ crashes = 0
  BY IInvParts DEF SurvivorsInv, RestTypes
<1>1. PICK o \in Owners :
        \/ ClientCall(o) \/ Give(o)
        \/ SectionStep(o) \/ WaitStep(o)
        \/ SignalHandled(o) \/ SignalIgnored(o) \/ AstReturns(o)
        \/ WaitForTable(o) \/ Crash(o)
  BY DEF Next
<1>2. ~ Crash(o)
  BY <1>0 DEF Crash
<1>3. CASE ClientCall(o) \/ Give(o)
  BY <1>3, <1>0 DEF ClientCall, Give, LOCK_enq, LOCK_convert, LOCK_re_post,
     LOCK_fini, LOCK_init, LOCK_deq, LOCK_downgrade, procVars
<1>4. CASE SectionStep(o)
  BY <1>4, <1>0 DEF SectionStep, ReleaseTable, ReleaseMutex, PostGrant, PostRefused,
     PostDone, EnqOutOfRoom, EnqInsert, QueGranted, QueWaits, QueDenied,
     ConvertGranted, ConvertWaits, ConvertDenied, ConvertReset, PostBlock,
     PostBlockDone, PurgeRequest, PurgeOwner, ProbeOwner, ProbeDone, Probed,
     ScanClear, ScanVictim, AstNext, AstDone, CreateOwner, procVars
<1>5. CASE WaitStep(o)
  BY <1>5, <1>0 DEF WaitStep, WaitOver, WaitWoken, WaitReturns, WokenResolved,
     WokenTimedOut, WokenPending, EnqRejected, ConvertRejected
<1>6. CASE SignalHandled(o) \/ SignalIgnored(o) \/ AstReturns(o) \/ WaitForTable(o)
  BY <1>6, <1>0 DEF SignalHandled, SignalIgnored, AstReturns, WaitForTable, procVars
<1> QED BY <1>1, <1>2, <1>3, <1>4, <1>5, <1>6

(* The steps beside the section. *)
LEMMA Beside_Blockage ==
    ASSUME IInv, BlockageInv, SurvivorsInv', NEW o \in Owners,
           \/ WaitForTable(o) \/ WaitOver(o) \/ WaitWoken(o) \/ WaitReturns(o)
           \/ SignalIgnored(o) \/ Crash(o)
    PROVE  BlockageInv'
<1>1. UNCHANGED <<lrq_owner, lrq_lock, lhb_active_owner, sec>>
  BY DEF WaitForTable, WaitOver, WaitWoken, WaitReturns, SignalIgnored, Crash,
     lrqVars, secVars
<1>2. \A u \in Owners : u = lhb_active_owner => op'[u] = op[u]
  <2>1. op \in [Owners -> Ops]
    BY IInvParts DEF RestTypes
  <2>2. op' = op \/ (o # lhb_active_owner /\ op' = [op EXCEPT ![o] = NoOp])
    BY DEF WaitForTable, WaitOver, WaitWoken, WaitReturns, SignalIgnored, Crash,
       procVars
  <2> QED BY <2>1, <2>2
<1> QED BY <1>1, <1>2, BesideKeepsWalk

(* The steps of a section that leave the requests on their locks. *)
LEMMA Section_Blockage ==
    ASSUME IInv, BlockageInv, SurvivorsInv', NEW o \in Owners,
           \/ ReleaseTable(o) \/ ReleaseMutex(o) \/ EnqOutOfRoom(o)
           \/ QueGranted(o) \/ ConvertGranted(o) \/ ConvertDenied(o)
           \/ ConvertReset(o) \/ PostBlockDone(o) \/ ProbeDone(o)
           \/ AstDone(o) \/ CreateOwner(o)
           \/ \E v \in Owners : ProbeOwner(o, v)
           \/ \E r \in Requests : ScanVictim(o, r)
    PROVE  BlockageInv'
<1>1. FewerRequests
  BY DEF FewerRequests, lrqVars, ReleaseTable, ReleaseMutex, EnqOutOfRoom,
     QueGranted, ConvertGranted, ConvertDenied, ConvertReset, PostBlockDone,
     ProbeDone, AstDone, CreateOwner, ProbeOwner, ScanVictim
<1>2. sec \in Secs
  BY IInvParts DEF RestTypes
<1>3. Quiet(sec')
  <2>1. CASE \/ ReleaseTable(o) \/ ConvertDenied(o) \/ ConvertReset(o)
             \/ PostBlockDone(o) \/ AstDone(o)
             \/ \E r \in Requests : ScanVictim(o, r)
    <3>1. \/ \E st \in {"ast", "unlock", "release"} : sec' = At(st)
          \/ sec' = Release
      BY <2>1 DEF ReleaseTable, ConvertDenied, ConvertReset, PostBlockDone, AstDone,
         ScanVictim
    <3> QED BY <3>1, <1>2 DEF Quiet, At, Release, NoSec, Secs
  <2>4. CASE ReleaseMutex(o) \/ EnqOutOfRoom(o) \/ CreateOwner(o)
    BY <2>4 DEF ReleaseMutex, EnqOutOfRoom, CreateOwner, Quiet, Release, NoSec
  <2>2. CASE QueGranted(o) \/ ConvertGranted(o)
    BY <2>2, <1>2 DEF QueGranted, ConvertGranted, Quiet, PostPending, Secs
  <2>3. CASE ProbeDone(o) \/ \E v \in Owners : ProbeOwner(o, v)
    BY <2>3, <1>2 DEF ProbeDone, ProbeOwner, Quiet, At, Purge, Secs
  <2> QED BY <2>1, <2>2, <2>3, <2>4
<1> QED BY <1>1, <1>3, QuietKeepsWalk

(* The calls and handlers that leave the requests on their locks. *)
LEMMA Enter_Blockage ==
    ASSUME IInv, BlockageInv, SurvivorsInv', NEW o \in Owners,
           \/ LOCK_fini(o) \/ LOCK_init(o) \/ WokenResolved(o)
           \/ WokenTimedOut(o) \/ ConvertRejected(o) \/ SignalHandled(o)
           \/ AstReturns(o)
           \/ \E r \in Requests, m \in Levels, w \in Waits : LOCK_convert(o, r, m, w)
    PROVE  BlockageInv'
<1>1. FewerRequests
  BY DEF FewerRequests, lrqVars, LOCK_fini, LOCK_init, WokenResolved,
     WokenTimedOut, ConvertRejected, SignalHandled, AstReturns, LOCK_convert
<1>2. sec \in Secs
  BY IInvParts DEF RestTypes
<1>3. Quiet(sec')
  <2>1. CASE \/ WokenResolved(o) \/ WokenTimedOut(o) \/ SignalHandled(o) \/ AstReturns(o)
             \/ \E r \in Requests, m \in Levels, w \in Waits : LOCK_convert(o, r, m, w)
    BY <2>1, <1>2 DEF WokenResolved, WokenTimedOut, SignalHandled, AstReturns,
       LOCK_convert, Quiet, At, Release, NoSec, Secs
  <2>2. CASE LOCK_fini(o) \/ LOCK_init(o)
    BY <2>2, <1>2 DEF LOCK_fini, LOCK_init, Quiet, At, Purge, Secs
  <2>3. CASE ConvertRejected(o)
    <3>1. \E l : sec' = [PostPending(l, "reset") EXCEPT !.req = op[o].req]
      BY <2>3 DEF ConvertRejected
    <3> QED BY <3>1, <1>2 DEF Quiet, PostPending, Secs
  <2> QED BY <2>1, <2>2, <2>3
<1> QED BY <1>1, <1>3, QuietKeepsWalk

(* release_request() only takes a request away. *)
LEMMA ReleaseFewer ==
    ASSUME IInv, NEW r \in Requests, NEW after, ReleaseRequest(r, after)
    PROVE  /\ FewerRequests
           /\ \A s \in Requests : s # r =>
                 lrq_lock'[s] = lrq_lock[s] /\ lrq_owner'[s] = lrq_owner[s]
           /\ lrq_lock'[r] = NoLock
           /\ sec'.at \in {after, "post"} /\ sec'.posted = after
           /\ sec'.purged = sec.purged /\ sec'.victim = sec.victim
           /\ sec'.req = sec.req /\ sec'.next = sec.next
<1>1. /\ lrq_owner \in [Requests -> Owners \cup {NoOwner}]
      /\ lrq_lock \in [Requests -> Locks \cup {NoLock}]
      /\ sec \in Secs
  BY IInvParts DEF SoundTable, TableTypes, RestTypes
<1>2. /\ lrq_owner' = [lrq_owner EXCEPT ![r] = NoOwner]
      /\ lrq_lock' = [lrq_lock EXCEPT ![r] = NoLock]
      /\ \/ sec' = [sec EXCEPT !.at = after, !.posted = after]
         \/ sec' = PostPending(lrq_lock[r], after)
  BY Zenon DEF ReleaseRequest
<1>3. /\ sec'.at \in {after, "post"} /\ sec'.posted = after
      /\ sec'.purged = sec.purged /\ sec'.victim = sec.victim
      /\ sec'.req = sec.req /\ sec'.next = sec.next
  BY <1>1, <1>2 DEF PostPending, Secs
<1> QED BY <1>1, <1>2, <1>3 DEF FewerRequests

(* Calls that give up a request or lower its level. *)
LEMMA Give_Blockage ==
    ASSUME IInv, BlockageInv, SurvivorsInv', NEW o \in Owners,
           \/ QueDenied(o) \/ EnqRejected(o)
           \/ \E r \in Requests : LOCK_deq(o, r) \/ LOCK_downgrade(o, r)
    PROVE  BlockageInv'
<1>1. CASE \E r \in Requests : ReleaseRequest(r, "release")
  BY <1>1, ReleaseFewer, QuietKeepsWalk DEF Quiet
<1>2. CASE \E r \in Requests :
              /\ sec' = [NoSec EXCEPT !.at = "downgrade", !.req = r]
              /\ UNCHANGED <<lrq_owner, lrq_lock>>
  BY <1>2, QuietKeepsWalk DEF FewerRequests, Quiet, NoSec
<1>3. CASE QueDenied(o) \/ EnqRejected(o)
  <2>1. QueDenied(o) => sec.req \in Requests
    BY IInvParts DEF QueDenied, SecInv
  <2>2. EnqRejected(o) => op[o].req \in Requests
    BY IInvParts DEF EnqRejected, Main, WaitInv
  <2> QED BY <1>1, <1>3, <2>1, <2>2 DEF QueDenied, EnqRejected
<1> QED BY <1>1, <1>2, <1>3 DEF LOCK_deq, LOCK_downgrade

(* Blocking ASTs and reposts touch no request of a lock. *)
LEMMA Ast_Blockage ==
    ASSUME IInv, BlockageInv, SurvivorsInv', NEW o \in Owners,
           AstNext(o) \/ LOCK_re_post(o)
    PROVE  BlockageInv'
<1> USE IInvParts, ConstantsAssumption
<1>1. CASE AstNext(o)
  <2>0. PICK r \in Requests : r = Head(own_blocks[o]) /\ r \in Members(own_blocks[o])
    BY <1>1, TailFacts, MembersFacts DEF AstNext, SoundTable, TableTypes, QueueInv
  <2>1. "blocking" \notin lrq_flags[r] => lrq_lock[r] = NoLock
    BY <2>0 DEF SoundTable, QueueInv, RequestInv
  <2>2. FewerRequests
    BY <1>1, <2>0, <2>1 DEF AstNext, SoundTable, TableTypes, FewerRequests
  <2>3. Quiet(sec')
    BY <1>1 DEF AstNext, secVars, Quiet, NoSec
  <2> QED BY <2>2, <2>3, QuietKeepsWalk
<1>2. CASE LOCK_re_post(o)
  <2>1. \A r \in FreeRequests : r \in Requests /\ lrq_lock[r] = NoLock
    BY DEF FreeRequests, SoundTable, RequestInv
  <2>2. FewerRequests
    BY <1>2, <2>1 DEF LOCK_re_post, SoundTable, TableTypes, FewerRequests, lrqVars
  <2>3. Quiet(sec')
    BY <1>2 DEF LOCK_re_post, Quiet, At, Release, NoSec, RestTypes, Secs
  <2> QED BY <2>2, <2>3, QuietKeepsWalk
<1> QED BY <1>1, <1>2

(* Where the walk begins, and begins again. *)
LEMMA Walk_Blockage ==
    ASSUME IInv, IInv', BlockageInv, SurvivorsInv', NEW o \in Owners,
           QueWaits(o) \/ ConvertWaits(o) \/ ScanClear(o) \/ WokenPending(o)
    PROVE  BlockageInv'
<1> USE IInvParts, ConstantsAssumption
<1>0. FewerRequests /\ UNCHANGED <<lrq_owner, lrq_lock>>
  BY DEF FewerRequests, QueWaits, ConvertWaits, ScanClear, WokenPending, lrqVars
<1>1. sec \in Secs
  BY DEF RestTypes
<1>2. CASE QueWaits(o) \/ ConvertWaits(o)
  <2>1. /\ sec.req \in Requests /\ lrq_lock[sec.req] # NoLock
        /\ lrq_owner[sec.req] = o /\ lhb_active_owner = o /\ lhb_active_owner' = o
    BY <1>2 DEF QueWaits, ConvertWaits, SecInv
  <2>2. PICK q : /\ lbl_requests' = [lbl_requests EXCEPT ![lrq_lock[sec.req]] = q]
                 /\ sec' = [sec EXCEPT !.at = "block", !.req = sec.req, !.next = First(q)]
    BY <1>2 DEF QueWaits, ConvertWaits, BeginWait
  <2>3. lbl_requests \in [Locks -> Seq(Requests)] /\ lrq_lock[sec.req] \in Locks
    BY <2>1 DEF SoundTable, TableTypes
  <2>4. /\ sec'.at = "block" /\ sec'.req = sec.req
        /\ sec'.next = First(lbl_requests'[lrq_lock'[sec.req]])
    BY <1>0, <1>1, <2>2, <2>3 DEF Secs
  <2> QED BY <1>0, <2>1, <2>4, BegunWalk
<1>3. CASE ScanClear(o)
  <2>1. /\ sec.req \in Requests /\ lrq_owner[sec.req] = o /\ lhb_active_owner' = o
        /\ lrq_lock[sec.req] \in Locks
    BY <1>3, PendingFacts DEF ScanClear, SecInv, BlockageInv, ScanInv
  <2>2. sec' = [sec EXCEPT !.at = "block", !.req = sec.req,
                   !.next = First(lbl_requests[lrq_lock[sec.req]])]
        /\ UNCHANGED lbl_requests
    BY <1>3 DEF ScanClear, Remind, lblVars
  <2>3. /\ sec'.at = "block" /\ sec'.req = sec.req
        /\ sec'.next = First(lbl_requests'[lrq_lock'[sec.req]])
    BY <1>0, <1>1, <2>2 DEF Secs
  <2> QED BY <1>0, <2>1, <2>3, BegunWalk
<1>4. CASE WokenPending(o)
  <2>1. PICK r \in Requests : /\ r = op[o].req /\ lrq_owner[r] = o
                              /\ lrq_lock[r] # NoLock /\ lhb_active_owner' = o
    BY <1>4 DEF WokenPending, Woken, acquire, Main, WaitInv
  <2>2. CASE sec' = Remind(r)
    <3>1. sec' = [sec EXCEPT !.at = "block", !.req = r,
                     !.next = First(lbl_requests[lrq_lock[r]])]
          /\ UNCHANGED lbl_requests
      BY <1>4, <2>2 DEF WokenPending, Remind, lblVars
    <3>2. /\ sec'.at = "block" /\ sec'.req = r
          /\ sec'.next = First(lbl_requests'[lrq_lock'[r]])
      BY <1>0, <1>1, <3>1 DEF Secs
    <3> QED BY <1>0, <2>1, <3>2, BegunWalk
  <2>3. CASE sec' = [NoSec EXCEPT !.at = "probe", !.probed = "probed", !.req = r]
    <3>1. Quiet(sec')
      BY <2>3 DEF Quiet, NoSec
    <3> QED BY <1>0, <3>1, QuietKeepsWalk
  <2> QED BY <1>4, <2>1, <2>2, <2>3 DEF WokenPending
<1> QED BY <1>2, <1>3, <1>4

(* The owner that scans for a deadlock has come through wait_for_request. *)
LEMMA Probed_Blockage ==
    ASSUME IInv, BlockageInv, SurvivorsInv', NEW o \in Owners, Probed(o)
    PROVE  BlockageInv'
<1> USE IInvParts
<1>1. sec \in Secs /\ UNCHANGED <<lrq_owner, lrq_lock, lhb_active_owner, op>>
  BY DEF Probed, RestTypes, lrqVars
<1>2. sec.at = "probed" /\ lrq_owner[sec.req] = o /\ lhb_active_owner = o
  BY DEF Probed, SecInv, WaitInv
<1>3. CASE sec' = At("scan")
  <2>1. sec'.at = "scan" /\ sec'.req = sec.req
    BY <1>1, <1>3 DEF At, Secs
  <2>2. ScanInv' /\ StaysInv'
    BY <1>1, <1>2, <2>1 DEF ScanInv, StaysInv, Walking, WalkStopped
  <2>3. OneRequestInv'
    BY <1>1, <2>1 DEF BlockageInv, OneRequestInv
  <2> QED BY <2>2, <2>3 DEF BlockageInv
<1>4. CASE sec' = Release
  <2>1. FewerRequests /\ Quiet(sec')
    BY <1>1, <1>4 DEF FewerRequests, Quiet, Release, NoSec
  <2> QED BY <2>1, QuietKeepsWalk
<1> QED BY <1>3, <1>4 DEF Probed

(* post_pending changes no queue, whatever comes after it. *)
LEMMA Post_Blockage ==
    ASSUME IInv, BlockageInv, SurvivorsInv', NEW o \in Owners,
           PostGrant(o) \/ PostRefused(o) \/ PostDone(o)
    PROVE  BlockageInv'
<1> USE IInvParts
<1>1. /\ sec \in Secs /\ sec.at = "post"
      /\ UNCHANGED <<lrq_owner, lrq_lock, lhb_active_owner, op>>
  BY DEF PostGrant, PostRefused, PostDone, RestTypes, lrqVars, procVars
<1>2. \/ \E i \in Nat : sec' = [sec EXCEPT !.pos = i]
      \/ sec' = At(sec.posted)
  <2>1. CASE PostDone(o)
    BY <2>1 DEF PostDone
  <2>2. CASE PostGrant(o) \/ PostRefused(o)
    <3>1. PICK i : i = NextPending
      OBVIOUS
    <3>2. PendingAhead # {} /\ sec.pos \in Nat
      BY <2>2, <1>1 DEF PostGrant, PostRefused, Secs
    <3>3. i + 1 \in Nat
      BY <3>1, <3>2, <1>1, NextPendingFacts DEF RestTypes, SecInv
    <3> QED BY <2>2, <3>1, <3>3 DEF PostGrant, PostRefused, AfterGrant
  <2> QED BY <2>1, <2>2
<1>3. /\ sec'.purged = sec.purged /\ sec'.victim = sec.victim
      /\ sec'.req = sec.req /\ sec'.next = sec.next /\ sec'.posted = sec.posted
      /\ sec'.at \in {"post", sec.posted}
  BY <1>1, <1>2 DEF At, Secs
<1>4. CASE sec.posted = "enq"
  <2>1. OneRequestInv'
    BY <1>1, <1>3, <1>4 DEF BlockageInv, OneRequestInv, own_requests
  <2>2. ScanInv' /\ StaysInv'
    BY <1>3, <1>4 DEF ScanInv, StaysInv, Walking, WalkStopped
  <2> QED BY <2>1, <2>2 DEF BlockageInv
<1>5. CASE sec.posted # "enq"
  <2>1. sec.posted \in {"release", "reset", "purge"}
    BY <1>1, <1>5 DEF Secs
  <2>2. Walking' => WalkStopped
    BY <1>1, <1>3, <2>1 DEF Walking, WalkStopped
  <2>3. sec'.at \notin {"scan", "enq"} /\ (sec'.at = "post" => sec'.posted # "enq")
    BY <1>3, <2>1
  <2>4. FewerRequests
    BY <1>1 DEF FewerRequests
  <2> QED BY <1>1, <1>3, <2>2, <2>3, <2>4, PurgeKeepsWalk
<1> QED BY <1>4, <1>5

(* purge_owner() takes away requests of the victim only. *)
LEMMA Purge_Blockage ==
    ASSUME IInv, BlockageInv, SurvivorsInv', NEW o \in Owners,
           PurgeOwner(o) \/ \E r \in Requests : PurgeRequest(o, r)
    PROVE  BlockageInv'
<1> USE IInvParts
<1>1. /\ sec \in Secs /\ sec.at = "purge"
      /\ lhb_active_owner' = lhb_active_owner
  BY DEF PurgeOwner, PurgeRequest, RestTypes
<1>0. WalkStopped => /\ sec.req \in Requests
                     /\ sec.next # NoReq => sec.next \in Requests
                     /\ lrq_owner[sec.req] # sec.victim /\ lrq_lock[sec.req] # NoLock
                     /\ sec.next # NoReq => /\ lrq_owner[sec.next] # sec.victim
                                            /\ lrq_lock[sec.next] # NoLock
  <2>1. sec.next \in Requests \cup {NoReq}
    BY <1>1 DEF Secs
  <2>2. WalkStopped => sec.req \in Requests
    BY DEF WalkStopped, SecInv
  <2> QED BY <2>1, <2>2 DEF BlockageInv, StaysInv, Walking
<1>2. CASE PurgeOwner(o)
  <2>1. \A r \in Requests : lrq_owner'[r] # lrq_owner[r] =>
           lrq_owner[r] = sec.victim /\ lrq_lock[r] = NoLock
    <3>1. sec.victim \in Owners
      BY <1>1 DEF SecInv
    <3>2. own_requests(sec.victim) = {}
      BY <1>2 DEF PurgeOwner
    <3>3. \A r \in Requests : r \in Members(own_blocks[sec.victim]) =>
             lrq_owner[r] = sec.victim
      BY <3>1 DEF SoundTable, QueueInv
    <3> QED BY <1>2, <3>2, <3>3 DEF PurgeOwner, own_requests
  <2>2. lrq_lock' = lrq_lock /\ sec' = At(sec.purged)
    BY <1>2 DEF PurgeOwner
  <2>3. FewerRequests
    BY <2>1, <2>2 DEF FewerRequests
  <2>4. /\ sec'.purged = sec.purged /\ sec'.victim = sec.victim
        /\ sec'.req = sec.req /\ sec'.next = sec.next
        /\ sec'.at \in {"unlock", "create", "block", "probe"}
        /\ sec'.at = sec.purged
    BY <1>1, <2>2 DEF At, Secs
  <2>5. Walking' => WalkStopped
    BY <1>1, <2>4 DEF Walking, WalkStopped
  <2> QED BY <1>0, <1>1, <2>1, <2>2, <2>3, <2>4, <2>5, PurgeKeepsWalk
<1>3. CASE \E r \in Requests : PurgeRequest(o, r)
  <2>1. PICK r \in Requests : lrq_owner[r] = sec.victim /\ ReleaseRequest(r, "purge")
    BY <1>3 DEF PurgeRequest, own_requests
  <2>2. /\ FewerRequests
        /\ \A s \in Requests : s # r =>
              lrq_lock'[s] = lrq_lock[s] /\ lrq_owner'[s] = lrq_owner[s]
        /\ sec'.at \in {"purge", "post"} /\ sec'.posted = "purge"
        /\ sec'.purged = sec.purged /\ sec'.victim = sec.victim
        /\ sec'.req = sec.req /\ sec'.next = sec.next
    BY <2>1, ReleaseFewer
  <2>3. Walking' => WalkStopped
    BY <1>1, <2>2 DEF Walking, WalkStopped
  <2> QED BY <1>0, <1>1, <2>1, <2>2, <2>3, PurgeKeepsWalk
<1> QED BY <1>2, <1>3

(* What follows a request of a queue is another request of that queue. *)
LEMMA FollowingFacts ==
    ASSUME NEW q \in Seq(Requests), Injective(q), NEW b \in Members(q)
    PROVE  Following(q, b) # NoReq =>
              Following(q, b) \in Members(q) /\ Following(q, b) # b
<1>1. Position(q, b) \in 1 .. Len(q) /\ q[Position(q, b)] = b
  BY DEF Position, Members
<1> QED BY <1>1 DEF Following, Members, Injective

(* post_blockage() goes on with a request that the purge of the owner it   *)
(* has found dead will not free: that owner has no other for the lock.     *)
LEMMA PostBlock_Blockage ==
    ASSUME BlockagesFit, IInv, BlockageInv, SurvivorsInv', NEW o \in Owners, PostBlock(o)
    PROVE  BlockageInv'
<1> USE IInvParts, ConstantsAssumption
<1>0. PICK b \in Requests : b = sec.next
  BY DEF PostBlock, RestTypes, Secs
<1>1. /\ sec \in Secs /\ sec.at = "block" /\ lhb_active_owner = o
      /\ UNCHANGED <<lrq_owner, lrq_lock, lhb_active_owner, op, alive>>
  BY DEF PostBlock, RestTypes
<1>2. /\ lrq_owner[sec.req] = o /\ lrq_lock[sec.req] # NoLock
      /\ lrq_lock[b] = lrq_lock[sec.req] /\ lrq_owner[b] \in Owners
      /\ lrq_lock[b] \in Locks
  BY <1>0, <1>1, ConstantsAssumption
     DEF BlockageInv, StaysInv, Walking, SoundTable, TableTypes, RequestInv, SecInv
<1>3. PICK n : /\ n = AfterBlock(b)
               /\ n # NoReq => n \in Requests /\ lrq_lock[n] = lrq_lock[b] /\ n # b
  <2> DEFINE q == lbl_requests[lrq_lock[b]]
  <2>1. q \in Seq(Requests) /\ Injective(q) /\ b \in Members(q)
        /\ \A s \in Members(q) : s \in Requests /\ lrq_lock[s] = lrq_lock[b]
    BY <1>2 DEF SoundTable, TableTypes, QueueInv, RequestsOf
  <2>2. AfterBlock(b) \in {NoReq, Following(q, b)}
    BY DEF AfterBlock
  <2> HIDE DEF q
  <2> QED BY <2>1, <2>2, FollowingFacts
<1>4. \/ sec' = [sec EXCEPT !.next = n]
      \/ /\ lrq_owner[b] \notin alive /\ lrq_owner[b] # o
         /\ sec' = [[sec EXCEPT !.next = n] EXCEPT !.at = "purge",
                       !.victim = lrq_owner[b], !.purged = "block"]
  BY <1>0, <1>3 DEF PostBlock, SignalFails
<1>5. OneRequestInv' /\ ScanInv'
  <2>1. sec'.at \in {"block", "purge"}
    BY <1>1, <1>4 DEF Secs
  <2> QED BY <1>1, <2>1 DEF BlockageInv, OneRequestInv, ScanInv
<1>6. StaysInv'
  <2>1. CASE sec' = [sec EXCEPT !.next = n]
    <3>1. sec'.at = "block" /\ sec'.req = sec.req /\ sec'.next = n
      BY <1>1, <2>1 DEF Secs
    <3> QED BY <1>1, <1>2, <1>3, <3>1 DEF StaysInv, WalkStopped
  <2>2. CASE /\ lrq_owner[b] \notin alive /\ lrq_owner[b] # o
             /\ sec' = [[sec EXCEPT !.next = n] EXCEPT !.at = "purge",
                           !.victim = lrq_owner[b], !.purged = "block"]
    <3>1. sec'.victim = lrq_owner[b] /\ sec'.req = sec.req /\ sec'.next = n
      BY <1>1, <2>2 DEF Secs
    <3>2. "dup" \notin Calls
      BY <1>2, <2>2 DEF BlockagesFit, BlockageInv, SurvivorsInv
    <3>3. n # NoReq => lrq_owner[n] # lrq_owner[b]
      BY <1>2, <1>3, <3>2 DEF BlockageInv, OneRequestInv
    <3> QED BY <1>1, <1>2, <1>3, <2>2, <3>1, <3>3 DEF StaysInv
  <2> QED BY <1>4, <2>1, <2>2
<1> QED BY <1>5, <1>6 DEF BlockageInv

(* LOCK_enq() asks for a lock its owner has no request for, or gives up    *)
(* the request it has.                                                     *)
LEMMA LOCK_enq_Blockage ==
    ASSUME IInv, BlockageInv, SurvivorsInv', NEW o \in Owners, NEW l \in Locks,
           NEW m \in Levels, NEW w \in Waits, NEW a \in AstArgs,
           NEW p \in Requests \cup {NoReq}, LOCK_enq(o, l, m, w, a, p)
    PROVE  BlockageInv'
<1> USE IInvParts, ConstantsAssumption
<1>1. /\ sec \in Secs /\ op \in [Owners -> Ops] /\ sec.at = "free"
      /\ lhb_active_owner' = o
      /\ op'[o].lock = l
  BY DEF RestTypes, LOCK_enq, acquire, SecInv
<1>2. "dup" \notin Calls => \A r \in own_requests(o) : lrq_lock[r] # l \/ r = p
  BY DEF LOCK_enq
<1>3. CASE p = NoReq /\ sec' = At("enq") /\ UNCHANGED lrqVars
  <2>1. sec'.at = "enq"
    BY <1>1, <1>3 DEF At, Secs
  <2>2. OneRequestInv'
    BY <1>1, <1>2, <1>3, <2>1 DEF BlockageInv, OneRequestInv, own_requests, lrqVars
  <2>3. ScanInv' /\ StaysInv'
    BY <2>1 DEF ScanInv, StaysInv, Walking, WalkStopped
  <2> QED BY <2>2, <2>3 DEF BlockageInv
<1>4. CASE p \in Callable(o) /\ ReleaseRequest(p, "enq")
  <2>1. p \in Requests
    BY <1>4 DEF Callable, own_requests
  <2>2. /\ FewerRequests /\ lrq_lock'[p] = NoLock
        /\ sec'.at \in {"enq", "post"} /\ sec'.posted = "enq"
    BY <1>4, <2>1, ReleaseFewer
  <2>3. \A r \in Requests : lrq_lock'[r] # NoLock =>
           r # p /\ lrq_lock'[r] = lrq_lock[r] /\ lrq_owner'[r] = lrq_owner[r]
    BY <2>2 DEF FewerRequests
  <2>4. OneRequestInv'
    BY <1>1, <1>2, <2>3 DEF BlockageInv, OneRequestInv, own_requests
  <2>5. ScanInv' /\ StaysInv'
    BY <2>2 DEF ScanInv, StaysInv, Walking, WalkStopped
  <2> QED BY <2>4, <2>5 DEF BlockageInv
<1> QED BY <1>3, <1>4 DEF LOCK_enq

(* The request made for it is the only one its owner has for the lock. *)
LEMMA EnqInsert_Blockage ==
    ASSUME IInv, BlockageInv, SurvivorsInv', NEW o \in Owners, NEW r \in Requests,
           EnqInsert(o, r)
    PROVE  BlockageInv'
<1> USE IInvParts
<1>1. /\ sec \in Secs /\ sec.at = "enq" /\ lhb_active_owner = o
      /\ lrq_owner \in [Requests -> Owners \cup {NoOwner}]
      /\ lrq_lock \in [Requests -> Locks \cup {NoLock}]
      /\ lrq_owner' = [lrq_owner EXCEPT ![r] = o]
      /\ lrq_lock' = [lrq_lock EXCEPT ![r] = op[o].lock]
      /\ sec' = [sec EXCEPT !.at = "grant_or_que", !.req = r]
  BY DEF EnqInsert, RestTypes, SoundTable, TableTypes
<1>2. sec'.at = "grant_or_que"
  BY <1>1 DEF Secs
<1>3. OneRequestInv'
  <2>1. "dup" \notin Calls =>
           \A s \in Requests : lrq_lock[s] = op[o].lock /\ lrq_lock[s] # NoLock => lrq_owner[s] # o
    BY <1>1 DEF BlockageInv, OneRequestInv, own_requests
  <2> QED BY <1>1, <1>2, <2>1 DEF BlockageInv, OneRequestInv
<1>4. ScanInv' /\ StaysInv'
  BY <1>2 DEF ScanInv, StaysInv, Walking, WalkStopped
<1> QED BY <1>3, <1>4 DEF BlockageInv

(* Every step of every process preserves the invariant.                    *)
LEMMA NextBlockage ==
    BlockagesFit /\ IInv /\ BlockageInv /\ [Next]_vars => BlockageInv'
<1> SUFFICES ASSUME BlockagesFit, IInv, BlockageInv, [Next]_vars PROVE BlockageInv'
  OBVIOUS
<1>0. CASE UNCHANGED vars
  BY <1>0 DEF vars, lrqVars, secVars, procVars, BlockageInv, SurvivorsInv, OneRequestInv,
     own_requests, ScanInv, StaysInv, Walking, WalkStopped
<1>1. CASE Next
  <2>1. IInv' /\ SurvivorsInv'
    BY <1>1, NextIInv, SurvivorsStep DEF BlockageInv
  <2>2. PICK o \in Owners :
          \/ ClientCall(o) \/ Give(o)
          \/ SectionStep(o) \/ WaitStep(o)
          \/ SignalHandled(o) \/ SignalIgnored(o) \/ AstReturns(o)
          \/ WaitForTable(o) \/ Crash(o)
    BY <1>1 DEF Next
  <2>3. CASE ClientCall(o) \/ Give(o)
    BY <2>1, <2>3, LOCK_enq_Blockage, Enter_Blockage, Ast_Blockage, Give_Blockage
       DEF ClientCall, Give
  <2>4. CASE SectionStep(o)
    BY <2>1, <2>4, Section_Blockage, Give_Blockage, Ast_Blockage, Walk_Blockage,
       Probed_Blockage, Post_Blockage, Purge_Blockage, PostBlock_Blockage,
       EnqInsert_Blockage DEF SectionStep
  <2>5. CASE WaitStep(o)
    BY <2>1, <2>5, Beside_Blockage, Enter_Blockage, Give_Blockage, Walk_Blockage
       DEF WaitStep
  <2>6. CASE \/ SignalHandled(o) \/ SignalIgnored(o) \/ AstReturns(o)
             \/ WaitForTable(o) \/ Crash(o)
    BY <2>1, <2>6, Beside_Blockage, Enter_Blockage
  <2> QED BY <2>2, <2>3, <2>4, <2>5, <2>6
<1> QED BY <1>0, <1>1

(* It holds in the empty table. *)
LEMMA InitBlockage == Init => BlockageInv
BY ConstantsAssumption DEF Init, BlockageInv, SurvivorsInv, OneRequestInv, own_requests,
   ScanInv, StaysInv, Walking, WalkStopped, NoSec

(* The inductive invariant holds in every reachable state, for any number  *)
(* of owners, locks and requests and for both values of the grant order    *)
(* option, if the engine never asks twice for a lock or nobody dies        *)
(* (BlockagesFit).  Else a walk of post_blockage may leave the lock: what  *)
(* the code does then StrayWalk has, and nothing is proved about it.       *)
THEOREM Invariance ==
    ASSUME BlockagesFit
    PROVE  Spec => [](IInv /\ BlockageInv)
<1>1. Init => IInv /\ BlockageInv
  BY InitIInv, InitBlockage
<1>2. IInv /\ BlockageInv /\ [Next]_vars => (IInv /\ BlockageInv)'
  BY NextIInv, NextBlockage
<1> QED BY <1>1, <1>2, PTL DEF Spec

(* post_blockage never goes on with a request that purge_owner has freed,  *)
(* although the request was remembered before the purge: the owner that    *)
(* was purged had no other request for the lock.                           *)
THEOREM BlockagesStay ==
    ASSUME BlockagesFit
    PROVE  Spec => []BlockageStaysOnLock
<1>1. IInv /\ BlockageInv => BlockageStaysOnLock
  BY DEF BlockageInv, StaysInv, Walking, BlockageStaysOnLock
<1>2. Spec => [](IInv /\ BlockageInv)
  BY Invariance
<1> QED BY <1>1, <1>2, PTL

(* Every block of the lock table is always well formed; in particular      *)
(* lbl_counts and lbl_pending_lrq_count never go below zero, whatever      *)
(* mixture of grant, convert, release_request, rejection and purge_owner   *)
(* decrements them (the CHECKs of validate_lock).                          *)
THEOREM TypeCorrect ==
    ASSUME BlockagesFit
    PROVE  Spec => []TypeOK
<1>1. IInv => TypeOK
  BY DEF IInv, TableInv
<1>2. Spec => [](IInv /\ BlockageInv)
  BY Invariance
<1> QED BY <1>1, <1>2, PTL

(* The counters of every lock block equal the number of requests that hold *)
(* each level, and that wait, after every step of grant, release_request,  *)
(* wait_for_request, deadlock_scan and purge_owner, and lbl_state is what  *)
(* lock_state computes from them.                                          *)
THEOREM CountsAreExact ==
    ASSUME BlockagesFit
    PROVE  Spec => []CountsExact
<1>1. IInv => CountsExact
  BY DEF IInv, TableInv
<1>2. Spec => [](IInv /\ BlockageInv)
  BY Invariance
<1> QED BY <1>1, <1>2, PTL

(* No two requests ever hold incompatible levels of one lock: mutual       *)
(* exclusion, although grant_or_que, convert and post_pending decide on    *)
(* counters and on the strongest level only.                               *)
THEOREM GrantsAreCompatible ==
    ASSUME BlockagesFit
    PROVE  Spec => []GrantedCompatible
<1>1. IInv => GrantedCompatible
  BY DEF IInv, TableInv
<1>2. Spec => [](IInv /\ BlockageInv)
  BY Invariance
<1> QED BY <1>1, <1>2, PTL

(* A queue without repetition is as long as the set of its members.        *)
LEMMA QueueLength ==
    ASSUME NEW q \in Seq(Requests), Injective(q)
    PROVE  Cardinality(Members(q)) = Len(q)
<1>1. q \in [1 .. Len(q) -> Members(q)]
  BY DEF Members
<1>2. q \in Bijection(1 .. Len(q), Members(q))
  BY <1>1 DEF Bijection, Injection, Surjection, Injective, Members, IsInjective
<1>3. Len(q) \in Nat
  OBVIOUS
<1>4. IsFiniteSet(1 .. Len(q)) /\ Cardinality(1 .. Len(q)) = Len(q)
  BY <1>3, FS_Interval
<1>5. ExistsBijection(1 .. Len(q), Members(q))
  BY <1>2 DEF ExistsBijection
<1> QED BY <1>4, <1>5, FS_Bijection

(* A request is on the queue of its lock exactly once and on the queue of  *)
(* blocks of its owner exactly when it is marked as blocking or as a       *)
(* repost; no request outlives its owner in the table (validate_request,   *)
(* validate_owner).                                                        *)
THEOREM QueuesAreExact ==
    ASSUME BlockagesFit
    PROVE  Spec => []QueuesExact
<1>1. IInv => QueuesExact
  <2> SUFFICES ASSUME IInv PROVE QueuesExact
    OBVIOUS
  <2> USE IInvParts DEF SoundTable
  <2>1. ASSUME NEW l \in Locks
        PROVE  /\ Members(lbl_requests[l]) = RequestsOf(l)
               /\ Cardinality(RequestsOf(l)) = Len(lbl_requests[l])
    BY QueueLength DEF QueueInv, TableTypes
  <2>2. ASSUME NEW o \in Owners
        PROVE  Members(own_blocks[o]) = {r \in Requests :
                  lrq_owner[r] = o /\ lrq_flags[r] \cap {"blocking", "repost"} # {}}
    <3>1. Members(own_blocks[o]) \subseteq Requests
      BY MembersFacts DEF TableTypes
    <3> QED BY <3>1 DEF QueueInv
  <2>3. \A r \in Requests : lrq_owner[r] # NoOwner => lrq_owner[r] \in lhb_owners
    BY DEF RequestInv
  <2> QED BY <2>1, <2>2, <2>3 DEF QueuesExact
<1>2. Spec => [](IInv /\ BlockageInv)
  BY Invariance
<1> QED BY <1>1, <1>2, PTL

=============================================================================

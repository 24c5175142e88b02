--------------------------- MODULE LockDataProofs ---------------------------
(***************************************************************************)
(* The data queue of every lock series is exact, and the queries that stop *)
(* at its first or last lock of a root return the smallest or largest data *)
(* under that root.                                                        *)
(***************************************************************************)
EXTENDS LockData, FiniteSetTheorems, WellFoundedInduction, TLAPS

-----------------------------------------------------------------------------
(* Queues. *)

(* A set of naturals that is not empty has a least element. *)
LEMMA LeastNat ==
    ASSUME NEW T \in SUBSET Nat, T # {}
    PROVE  \E x \in T : \A y \in T : x <= y
<1> DEFINE R == OpToRel(<, Nat)
<1>1. IsWellFoundedOn(R, Nat)
  BY NatLessThanWellFounded
<1>2. \A x, y \in Nat : x < y => <<x, y>> \in R
  BY DEF OpToRel
<1> HIDE DEF R
<1>3. \E x \in T : \A y \in T : ~ (<<y, x>> \in R)
  BY <1>1, WFMin
<1>4. PICK x \in T : \A y \in T : ~ (<<y, x>> \in R)
  BY <1>3
<1>5. \A y \in T : ~ (y < x)
  BY <1>2, <1>4
<1> QED
  BY <1>5

(* So has a bounded one a greatest. *)
LEMMA GreatestNat ==
    ASSUME NEW n \in Nat, NEW T \in SUBSET (1 .. n), T # {}
    PROVE  \E x \in T : \A y \in T : y <= x
<1> DEFINE U == {n - x : x \in T}
<1>1. U \in SUBSET Nat /\ U # {}
  <2>1. \A x \in T : n - x \in Nat
    OBVIOUS
  <2> QED
    BY <2>1
<1> HIDE DEF U
<1>2. PICK u \in U : \A v \in U : u <= v
  BY <1>1, LeastNat
<1>3. PICK x \in T : u = n - x
  BY DEF U
<1>4. \A y \in T : n - y \in U
  BY DEF U
<1>5. \A y \in T : y <= x
  BY <1>2, <1>3, <1>4
<1> QED
  BY <1>5

(* What is left of a queue without its element at p. *)
LEMMA WithoutSeq ==
    ASSUME NEW S, NEW q \in Seq(S), NEW p \in 1 .. Len(q)
    PROVE  /\ Without(q, p) \in Seq(S)
           /\ Len(Without(q, p)) = Len(q) - 1
           /\ \A i \in 1 .. Len(q) - 1 :
                 Without(q, p)[i] = IF i < p THEN q[i] ELSE q[i + 1]
<1>1. \A i \in 1 .. Len(q) : q[i] \in S
  OBVIOUS
<1>2. Len(q) - 1 \in Nat
  OBVIOUS
<1>3. Without(q, p) \in [1 .. Len(q) - 1 -> S]
  BY <1>1 DEF Without
<1> QED
  BY <1>2, <1>3 DEF Without

(* remove_que() takes away one element and keeps the order of the others. *)
LEMMA RemoveQue ==
    ASSUME NEW q \in Seq(Blocks), NEW l \in Blocks, NEW names,
           NEW data \in [Blocks -> Int],
           Once(q), Ordered(q, names, data)
    PROVE  LET r == remove_que(q, l)
           IN  /\ r \in Seq(Blocks) /\ Once(r) /\ Ordered(r, names, data)
               /\ Members(r) = Members(q) \ {l}
<1> DEFINE r == remove_que(q, l)
<1>1. CASE l \notin Members(q)
  <2>1. r = q
    BY <1>1 DEF remove_que
  <2> QED
    BY <1>1, <2>1
<1>2. CASE l \in Members(q)
  <2> DEFINE p == CHOOSE i \in 1 .. Len(q) : q[i] = l
  <2>1. p \in 1 .. Len(q) /\ q[p] = l
    BY <1>2 DEF Members
  <2>2. r = Without(q, p)
    BY <1>2 DEF remove_que
  <2> HIDE DEF p, r
  <2>3. /\ r \in Seq(Blocks) /\ Len(r) = Len(q) - 1
        /\ \A i \in 1 .. Len(r) : r[i] = IF i < p THEN q[i] ELSE q[i + 1]
    BY <2>1, <2>2, WithoutSeq
  <2>a. ASSUME NEW i \in 1 .. Len(r)
        PROVE  \E k \in 1 .. Len(q) : /\ r[i] = q[k] /\ k # p
                                      /\ (i < p /\ k = i) \/ (i >= p /\ k = i + 1)
    <3>1. CASE i < p
      BY <2>1, <2>3, <3>1
    <3>2. CASE i >= p
      <4>1. p \in Int /\ Len(q) \in Nat /\ ~ (i < p) /\ i \in 1 .. Len(q) - 1
        BY <2>1, <2>3, <3>2
      <4>2. r[i] = q[i + 1]
        BY <2>3, <4>1
      <4>3. i + 1 \in 1 .. Len(q) /\ i + 1 # p
        BY <3>2, <4>1
      <4> QED
        BY <3>2, <4>2, <4>3
    <3> QED
      BY <2>1, <3>1, <3>2
  <2>4. Once(r)
    <3> SUFFICES ASSUME NEW i \in 1 .. Len(r), NEW j \in 1 .. Len(r), r[i] = r[j]
                 PROVE  i = j
      BY DEF Once
    <3>1. PICK k \in 1 .. Len(q) : r[i] = q[k] /\ ((i < p /\ k = i) \/ (i >= p /\ k = i + 1))
      BY <2>a
    <3>2. PICK m \in 1 .. Len(q) : r[j] = q[m] /\ ((j < p /\ m = j) \/ (j >= p /\ m = j + 1))
      BY <2>a
    <3>3. k = m
      BY <3>1, <3>2 DEF Once
    <3> QED
      BY <2>1, <3>1, <3>2, <3>3
  <2>5. Ordered(r, names, data)
    <3> SUFFICES ASSUME NEW i \in 1 .. Len(r), NEW j \in 1 .. Len(r), i < j,
                        names[r[i]].parent = names[r[j]].parent
                 PROVE  data[r[i]] <= data[r[j]]
      BY DEF Ordered
    <3>1. PICK k \in 1 .. Len(q) : r[i] = q[k] /\ ((i < p /\ k = i) \/ (i >= p /\ k = i + 1))
      BY <2>a
    <3>2. PICK m \in 1 .. Len(q) : r[j] = q[m] /\ ((j < p /\ m = j) \/ (j >= p /\ m = j + 1))
      BY <2>a
    <3>3. k < m
      BY <2>1, <3>1, <3>2
    <3> QED
      BY <3>1, <3>2, <3>3 DEF Ordered
  <2>6. \A x : x \in Members(r) => x \in Members(q) \ {l}
    <3>1. \A i \in 1 .. Len(r) : r[i] \in Members(q) /\ r[i] # l
      BY <2>1, <2>a DEF Members, Once
    <3> QED
      BY <3>1 DEF Members
  <2>7. ASSUME NEW x \in Members(q) \ {l} PROVE x \in Members(r)
    <3>1. PICK i \in 1 .. Len(q) : x = q[i] /\ i # p
      BY <2>1, <2>7 DEF Members
    <3>2. CASE i < p
      <4>1. i \in 1 .. Len(r)
        BY <2>1, <2>3, <3>1, <3>2
      <4>2. r[i] = x
        BY <2>3, <3>1, <3>2, <4>1
      <4> QED
        BY <4>1, <4>2 DEF Members
    <3>3. CASE i > p
      <4>1. i - 1 \in 1 .. Len(r) /\ ~ (i - 1 < p)
        BY <2>1, <2>3, <3>1, <3>3
      <4>2. r[i - 1] = x
        BY <2>3, <3>1, <4>1
      <4> QED
        BY <4>1, <4>2 DEF Members
    <3> QED
      BY <2>1, <3>1, <3>2, <3>3
  <2>8. Members(r) = Members(q) \ {l}
    BY <2>6, <2>7
  <2> QED
    BY <2>3, <2>4, <2>5, <2>8 DEF r
<1> QED
  BY <1>1, <1>2

(* The walk of insert_data_que() finds a place. *)
LEMMA PlaceExists ==
    ASSUME NEW q \in Seq(Blocks), NEW l \in Blocks, NEW names, NEW data
    PROVE  LET p == Place(q, names, data, l)
           IN  /\ p \in 1 .. Len(q) + 1
               /\ p = Len(q) + 1 \/ StopsAt(q, p, names, data, l)
               /\ \A i \in 1 .. p - 1 : ~ StopsAt(q, i, names, data, l)
<1> DEFINE T == {i \in 1 .. Len(q) + 1 :
                    i = Len(q) + 1 \/ StopsAt(q, i, names, data, l)}
<1>1. T \in SUBSET Nat /\ T # {}
  <2>1. Len(q) + 1 \in T
    OBVIOUS
  <2> QED
    BY <2>1
<1> HIDE DEF T
<1>2. PICK x \in T : \A y \in T : x <= y
  BY <1>1, LeastNat
<1>3. /\ x \in 1 .. Len(q) + 1
      /\ x = Len(q) + 1 \/ StopsAt(q, x, names, data, l)
  BY <1>2 DEF T
<1>4. \A i \in 1 .. x - 1 : ~ StopsAt(q, i, names, data, l)
  BY <1>2, <1>3 DEF T
<1> QED
  BY <1>3, <1>4 DEF Place

(* insert_data_que() keeps the order of the locks of each root. *)
LEMMA InsertQue ==
    ASSUME NEW q \in Seq(Blocks), NEW l \in Blocks, NEW names,
           NEW data \in [Blocks -> Int],
           Once(q), Ordered(q, names, data), l \notin Members(q)
    PROVE  LET r == Before(q, Place(q, names, data, l), l)
           IN  /\ r \in Seq(Blocks) /\ Once(r) /\ Ordered(r, names, data)
               /\ Members(r) = Members(q) \cup {l}
<1> DEFINE p == Place(q, names, data, l)
           r == Before(q, p, l)
<1>1. /\ p \in 1 .. Len(q) + 1
      /\ p = Len(q) + 1 \/ StopsAt(q, p, names, data, l)
      /\ \A i \in 1 .. p - 1 : ~ StopsAt(q, i, names, data, l)
  BY PlaceExists
<1> HIDE DEF p
<1>c. p \in 1 .. Len(q) + 1
  BY <1>1
<1>2. /\ r \in Seq(Blocks) /\ Len(r) = Len(q) + 1
      /\ \A i \in 1 .. Len(q) + 1 :
            r[i] = IF i < p THEN q[i] ELSE IF i = p THEN l ELSE q[i - 1]
  <2>1. \A i \in 1 .. Len(q) : q[i] \in Blocks
    OBVIOUS
  <2>2. Len(q) + 1 \in Nat
    OBVIOUS
  <2>3. r \in [1 .. Len(q) + 1 -> Blocks]
    BY <1>c, <2>1 DEF Before
  <2>4. r \in Seq(Blocks) /\ Len(r) = Len(q) + 1
    BY <2>2, <2>3
  <2> QED
    BY <2>4 DEF Before
<1> HIDE DEF r
<1>0. Len(q) \in Nat /\ p \in Int /\ r[p] = l /\ p \in 1 .. Len(r)
  <2>1. Len(q) \in Nat /\ p \in Int
    BY <1>c
  <2>2. r[p] = l
    BY <1>c, <1>2, <2>1
  <2>3. p \in 1 .. Len(r)
    BY <1>c, <1>2
  <2> QED
    BY <2>1, <2>2, <2>3
<1>a. ASSUME NEW i \in 1 .. Len(r), i # p
      PROVE  \E k \in 1 .. Len(q) : /\ r[i] = q[k]
                                    /\ (i < p /\ k = i) \/ (i > p /\ k = i - 1)
  <2>1. CASE i < p
    BY <1>0, <1>1, <1>2, <2>1
  <2>2. CASE i > p
    <3>1. i - 1 \in 1 .. Len(q) /\ r[i] = q[i - 1]
      BY <1>0, <1>1, <1>2, <2>2
    <3> QED
      BY <2>2, <3>1
  <2> QED
    BY <1>0, <1>a, <2>1, <2>2
<1>3. Once(r)
  <2> SUFFICES ASSUME NEW i \in 1 .. Len(r), NEW j \in 1 .. Len(r), r[i] = r[j]
               PROVE  i = j
    BY DEF Once
  <2>1. \A k \in 1 .. Len(r) : k # p => r[k] # l
    BY <1>a DEF Members
  <2>2. CASE i = p \/ j = p
    BY <1>0, <2>1, <2>2
  <2>3. CASE i # p /\ j # p
    <3>1. PICK k \in 1 .. Len(q) : r[i] = q[k] /\ ((i < p /\ k = i) \/ (i > p /\ k = i - 1))
      BY <1>a, <2>3
    <3>2. PICK m \in 1 .. Len(q) : r[j] = q[m] /\ ((j < p /\ m = j) \/ (j > p /\ m = j - 1))
      BY <1>a, <2>3
    <3>3. k = m
      BY <3>1, <3>2 DEF Once
    <3> QED
      BY <1>0, <3>1, <3>2, <3>3
  <2> QED
    BY <2>2, <2>3
<1>4. Ordered(r, names, data)
  <2> SUFFICES ASSUME NEW i \in 1 .. Len(r), NEW j \in 1 .. Len(r), i < j,
                      names[r[i]].parent = names[r[j]].parent
               PROVE  data[r[i]] <= data[r[j]]
    BY DEF Ordered
  <2>0. \A k \in 1 .. Len(q) : q[k] \in Blocks
    OBVIOUS
  <2>1. CASE i # p /\ j # p
    <3>1. PICK k \in 1 .. Len(q) : r[i] = q[k] /\ ((i < p /\ k = i) \/ (i > p /\ k = i - 1))
      BY <1>a, <2>1
    <3>2. PICK m \in 1 .. Len(q) : r[j] = q[m] /\ ((j < p /\ m = j) \/ (j > p /\ m = j - 1))
      BY <1>a, <2>1
    <3>3. k < m
      BY <1>0, <3>1, <3>2
    <3> QED
      BY <3>1, <3>2, <3>3 DEF Ordered
  <2>2. CASE j = p
    <3>1. r[i] = q[i] /\ r[j] = l /\ i \in 1 .. Len(q) /\ i \in 1 .. p - 1
      BY <1>0, <1>1, <1>2, <2>2
    <3>2. ~ (data[l] <= data[q[i]])
      BY <1>1, <3>1 DEF StopsAt
    <3> QED
      BY <2>0, <3>1, <3>2
  <2>3. CASE i = p
    <3>1. r[i] = l /\ r[j] = q[j - 1] /\ j - 1 \in 1 .. Len(q) /\ p <= j - 1 /\ p \in 1 .. Len(q)
      BY <1>1, <1>2, <2>3
    <3>2. names[q[p]].parent = names[l].parent /\ data[l] <= data[q[p]]
      BY <1>1, <3>1 DEF StopsAt
    <3>3. data[q[p]] <= data[q[j - 1]]
      <4>1. CASE p = j - 1
        BY <4>1, <3>1, <2>0
      <4>2. CASE p < j - 1
        <5>1. names[q[p]].parent = names[q[j - 1]].parent
          BY <3>1, <3>2
        <5> QED
          BY <4>2, <5>1, <3>1 DEF Ordered
      <4> QED
        BY <3>1, <4>1, <4>2
    <3> QED
      BY <2>0, <3>1, <3>2, <3>3
  <2> QED
    BY <2>1, <2>2, <2>3
<1>5. \A x : x \in Members(r) => x \in Members(q) \cup {l}
  <2>1. \A i \in 1 .. Len(r) : i # p => r[i] \in Members(q)
    BY <1>a DEF Members
  <2> QED
    BY <1>0, <2>1 DEF Members
<1>6. ASSUME NEW x \in Members(q) \cup {l} PROVE x \in Members(r)
  <2>1. CASE x = l
    BY <1>0, <2>1 DEF Members
  <2>2. CASE x \in Members(q)
    <3>1. PICK i \in 1 .. Len(q) : x = q[i]
      BY <2>2 DEF Members
    <3>2. CASE i < p
      <4>1. i \in 1 .. Len(r) /\ r[i] = x
        BY <1>1, <1>2, <3>1, <3>2
      <4> QED
        BY <4>1 DEF Members
    <3>3. CASE i >= p
      <4>1. i + 1 \in 1 .. Len(r) /\ r[i + 1] = x
        BY <1>1, <1>2, <3>1, <3>3
      <4> QED
        BY <4>1 DEF Members
    <3> QED
      BY <1>1, <3>1, <3>2, <3>3
  <2> QED
    BY <2>1, <2>2
<1>7. Members(r) = Members(q) \cup {l}
  BY <1>5, <1>6
<1> QED
  BY <1>2, <1>3, <1>4, <1>7 DEF r, p

(* The order depends on the names and data of the locks on the queue only. *)
LEMMA OrderedFrame ==
    ASSUME NEW q \in Seq(Blocks), NEW names, NEW data, NEW names2, NEW data2,
           Ordered(q, names, data),
           \A l \in Members(q) : names2[l] = names[l] /\ data2[l] = data[l]
    PROVE  Ordered(q, names2, data2)
BY DEF Ordered, Members
-----------------------------------------------------------------------------
(* Steps. *)

(* All queues are exact, but for the lock l, which is on none. *)
ExactBut(queues, names, data, l) ==
    /\ queues \in [QueuedSeries -> Seq(Blocks)]
    /\ \A s \in QueuedSeries :
          /\ Once(queues[s])
          /\ Ordered(queues[s], names, data)
          /\ Members(queues[s]) =
                {x \in Blocks : OnQueue(x, s, names, data)} \ {l}

(* All queues are exact. *)
Exact(queues, names, data) ==
    /\ queues \in [QueuedSeries -> Seq(Blocks)]
    /\ \A s \in QueuedSeries :
          /\ Once(queues[s])
          /\ Ordered(queues[s], names, data)
          /\ Members(queues[s]) = {x \in Blocks : OnQueue(x, s, names, data)}

(* remove_que(&lock->lbl_lhb_data) *)
LEMMA RemovedExact ==
    ASSUME IInv, NEW l \in Blocks, Used(l)
    PROVE  ExactBut(Removed(l), lbl_name, lbl_data, l)
<1> DEFINE s0 == lbl_name[l].series
<1>0. lbl_data \in [Blocks -> Int] /\ lhb_data \in [QueuedSeries -> Seq(Blocks)]
  BY DataAssumption DEF IInv, TypeOK
<1>1. ASSUME NEW s \in QueuedSeries
      PROVE  LET r == remove_que(lhb_data[s], l)
             IN  /\ r \in Seq(Blocks) /\ Once(r) /\ Ordered(r, lbl_name, lbl_data)
                 /\ Members(r) = Members(lhb_data[s]) \ {l}
  <2>1. Once(lhb_data[s]) /\ Ordered(lhb_data[s], lbl_name, lbl_data)
    BY DEF IInv, QueueExact
  <2> QED
    BY <1>0, <2>1, RemoveQue
<1>2. \A s \in QueuedSeries : Removed(l)[s] =
         IF s = s0 THEN remove_que(lhb_data[s], l) ELSE lhb_data[s]
  BY <1>0 DEF Removed
<1>3. Removed(l) \in [QueuedSeries -> Seq(Blocks)]
  BY <1>0, <1>1 DEF Removed
<1>4. ASSUME NEW s \in QueuedSeries
      PROVE  /\ Once(Removed(l)[s]) /\ Ordered(Removed(l)[s], lbl_name, lbl_data)
             /\ Members(Removed(l)[s]) =
                   {x \in Blocks : OnQueue(x, s, lbl_name, lbl_data)} \ {l}
  <2>1. /\ Once(lhb_data[s]) /\ Ordered(lhb_data[s], lbl_name, lbl_data)
        /\ Members(lhb_data[s]) = {x \in Blocks : OnQueue(x, s, lbl_name, lbl_data)}
    BY DEF IInv, QueueExact
  <2>2. CASE s = s0
    BY <1>1, <1>2, <2>1, <2>2
  <2>3. CASE s # s0
    <3>1. ~ OnQueue(l, s, lbl_name, lbl_data)
      BY <2>3 DEF OnQueue
    <3> QED
      BY <1>2, <2>1, <2>3, <3>1
  <2> QED
    BY <2>2, <2>3
<1> QED
  BY <1>3, <1>4 DEF ExactBut

(* insert_data_que() puts the lock on its queue, if it belongs on one. *)
LEMMA InsertExact ==
    ASSUME NEW queues, NEW names, NEW data \in [Blocks -> Int],
           NEW l \in Blocks, names[l] # NoName,
           ExactBut(queues, names, data, l),
           NEW r, r = insert_data_que(queues, names, data, l)
    PROVE  Exact(r, names, data)
<1> DEFINE s0 == names[l].series
           Good(s) == /\ Once(r[s]) /\ Ordered(r[s], names, data)
                      /\ Members(r[s]) = {x \in Blocks : OnQueue(x, s, names, data)}
<1>1. CASE ~ Queueable(names, data, l)
  <2>1. r = queues
    BY <1>1 DEF insert_data_que
  <2>2. \A s : ~ OnQueue(l, s, names, data)
    BY <1>1 DEF OnQueue
  <2> QED
    BY <2>1, <2>2 DEF ExactBut, Exact
<1>2. CASE Queueable(names, data, l)
  <2>1. s0 \in QueuedSeries
    BY <1>2 DEF Queueable
  <2> DEFINE q == queues[s0]
             b == Before(q, Place(q, names, data, l), l)
  <2>2. q \in Seq(Blocks) /\ Once(q) /\ Ordered(q, names, data) /\ l \notin Members(q)
    BY <2>1 DEF ExactBut
  <2>3. /\ b \in Seq(Blocks) /\ Once(b) /\ Ordered(b, names, data)
        /\ Members(b) = Members(q) \cup {l}
    BY <2>2, InsertQue
  <2>4. r = [queues EXCEPT ![s0] = b]
    BY <1>2, <2>1 DEF insert_data_que, ExactBut
  <2> HIDE DEF b
  <2>5. r \in [QueuedSeries -> Seq(Blocks)]
    BY <2>1, <2>3, <2>4 DEF ExactBut
  <2>6. OnQueue(l, s0, names, data) /\ \A s : s # s0 => ~ OnQueue(l, s, names, data)
    BY <1>2 DEF OnQueue
  <2>7. ASSUME NEW s \in QueuedSeries PROVE Good(s)
    <3>1. CASE s = s0
      <4>1. r[s] = b
        BY <2>1, <2>4, <3>1 DEF ExactBut
      <4>2. Members(q) = {x \in Blocks : OnQueue(x, s0, names, data)} \ {l}
        BY <2>1 DEF ExactBut
      <4> QED
        BY <2>3, <2>6, <3>1, <4>1, <4>2
    <3>2. CASE s # s0
      <4>1. r[s] = queues[s]
        BY <2>4, <3>2 DEF ExactBut
      <4> QED
        BY <2>6, <3>2, <4>1 DEF ExactBut
    <3> QED
      BY <3>1, <3>2
  <2> QED
    BY <2>5, <2>7 DEF Exact
<1> QED
  BY <1>1, <1>2

(* The data and the name of a lock that is on no queue do not matter. *)
LEMMA ExactButFrame ==
    ASSUME NEW queues, NEW names, NEW data, NEW names2, NEW data2, NEW l,
           ExactBut(queues, names, data, l),
           \A x \in Blocks : x # l => names2[x] = names[x] /\ data2[x] = data[x]
    PROVE  ExactBut(queues, names2, data2, l)
<1>1. \A x \in Blocks, s \in QueuedSeries :
         x # l => (OnQueue(x, s, names2, data2) <=> OnQueue(x, s, names, data))
  BY DEF OnQueue, Queueable
<1>2. ASSUME NEW s \in QueuedSeries
      PROVE  /\ Ordered(queues[s], names2, data2)
             /\ Members(queues[s]) =
                   {x \in Blocks : OnQueue(x, s, names2, data2)} \ {l}
  <2>1. /\ Ordered(queues[s], names, data) /\ queues[s] \in Seq(Blocks)
        /\ Members(queues[s]) = {x \in Blocks : OnQueue(x, s, names, data)} \ {l}
    BY DEF ExactBut
  <2>2. \A x \in Members(queues[s]) : names2[x] = names[x] /\ data2[x] = data[x]
    BY <2>1
  <2>3. Ordered(queues[s], names2, data2)
    BY <2>1, <2>2, OrderedFrame
  <2> QED
    BY <1>1, <2>1, <2>3
<1> QED
  BY <1>2 DEF ExactBut

(* Writing the data of a lock moves it to its new place. *)
LEMMA SetDataExact ==
    ASSUME IInv, NEW l \in Blocks, Used(l), NEW d \in Data,
           SetData(l, d), lbl_name' = lbl_name
    PROVE  /\ lbl_data' \in [Blocks -> Data]
           /\ lhb_data' \in [QueuedSeries -> Seq(Blocks)]
           /\ QueueExact'
<1>1. lbl_data' = [lbl_data EXCEPT ![l] = d] /\ lbl_data' \in [Blocks -> Data]
  BY DEF SetData, IInv, TypeOK
<1>2. lbl_data' \in [Blocks -> Int]
  BY <1>1, DataAssumption
<1>3. ExactBut(Removed(l), lbl_name, lbl_data, l)
  BY RemovedExact
<1>4. \A x \in Blocks : x # l => lbl_name[x] = lbl_name[x] /\ lbl_data'[x] = lbl_data[x]
  BY <1>1 DEF IInv, TypeOK
<1>5. ExactBut(Removed(l), lbl_name, lbl_data', l)
  BY <1>3, <1>4, ExactButFrame
<1>6. lhb_data' = insert_data_que(Removed(l), lbl_name, lbl_data', l)
  BY DEF SetData
<1>7. lbl_name[l] # NoName
  BY DEF Used
<1>8. Exact(lhb_data', lbl_name', lbl_data')
  BY <1>2, <1>5, <1>6, <1>7, InsertExact
<1>9. QueueExact' /\ lhb_data' \in [QueuedSeries -> Seq(Blocks)]
  BY <1>8 DEF QueueExact, Exact
<1> QED
  BY <1>1, <1>9

(* grant() *)
LEMMA GrantExact ==
    ASSUME IInv, NEW l \in Blocks, Used(l), NEW d \in Data,
           Grant(l, d), lbl_name' = lbl_name
    PROVE  /\ lbl_data' \in [Blocks -> Data]
           /\ lhb_data' \in [QueuedSeries -> Seq(Blocks)]
           /\ QueueExact'
<1>1. CASE d # 0
  BY <1>1, SetDataExact DEF Grant
<1>2. CASE d = 0
  BY <1>2 DEF Grant, IInv, TypeOK, QueueExact
<1> QED
  BY <1>1, <1>2

(* The queues do not depend on anything but names and data. *)
LEMMA QueueFrame ==
    ASSUME QueueExact, UNCHANGED <<lbl_name, lbl_data, lhb_data>>
    PROVE  QueueExact'
BY DEF QueueExact

(* Names are kept when the number of requests stays positive. *)
LEMMA NamesFrame ==
    ASSUME IInv, NEW l \in Blocks, Used(l), lbl_name' = lbl_name,
           granted' \in [Blocks -> Nat], lrq_data' \in [Blocks -> Seq(Data)],
           granted'[l] + Len(lrq_data'[l]) > 0,
           \A x \in Blocks : x # l => /\ granted'[x] = granted[x]
                                      /\ lrq_data'[x] = lrq_data[x]
    PROVE  NamesExact'
BY DEF IInv, NamesExact, Used, find_lock

(* A request that has gone leaves the queue of pending requests typed. *)
LEMMA PendingWithout ==
    ASSUME TypeOK, NEW l \in Blocks, NEW i \in 1 .. Len(lrq_data[l]),
           lrq_data' = [lrq_data EXCEPT ![l] = Without(@, i)]
    PROVE  /\ lrq_data' \in [Blocks -> Seq(Data)]
           /\ Len(lrq_data'[l]) = Len(lrq_data[l]) - 1
           /\ lrq_data[l][i] \in Data
<1>1. lrq_data[l] \in Seq(Data)
  BY DEF TypeOK
<1>2. Without(lrq_data[l], i) \in Seq(Data) /\ Len(Without(lrq_data[l], i)) = Len(lrq_data[l]) - 1
  BY <1>1, WithoutSeq
<1> QED
  BY <1>1, <1>2 DEF TypeOK

(* A new lock goes to its place in the queue. *)
LEMMA EnqNew_Inv ==
    ASSUME IInv, NEW l \in Blocks, NEW name \in Names, NEW d \in Data,
           EnqNew(l, name, d)
    PROVE  IInv'
<1>1. /\ lbl_name' = [lbl_name EXCEPT ![l] = name] /\ lbl_name' \in [Blocks -> Names \cup {NoName}]
      /\ lbl_data' = [lbl_data EXCEPT ![l] = d] /\ lbl_data' \in [Blocks -> Data]
      /\ granted' = [granted EXCEPT ![l] = 1] /\ granted' \in [Blocks -> Nat]
      /\ lrq_data' = lrq_data /\ lrq_data \in [Blocks -> Seq(Data)]
  BY DEF EnqNew, IInv, TypeOK
<1>2. lbl_data' \in [Blocks -> Int] /\ name # NoName
  BY <1>1, DataAssumption
<1>3. lbl_name[l] = NoName
  BY DEF EnqNew, Used
<1>4. ExactBut(lhb_data, lbl_name, lbl_data, l)
  <2>1. \A s : ~ OnQueue(l, s, lbl_name, lbl_data)
    BY <1>3 DEF OnQueue
  <2> QED
    BY <2>1 DEF ExactBut, IInv, TypeOK, QueueExact
<1>5. \A x \in Blocks : x # l => lbl_name'[x] = lbl_name[x] /\ lbl_data'[x] = lbl_data[x]
  BY <1>1 DEF IInv, TypeOK
<1>6. ExactBut(lhb_data, lbl_name', lbl_data', l)
  BY <1>4, <1>5, ExactButFrame
<1>7. lhb_data' = insert_data_que(lhb_data, lbl_name', lbl_data', l)
  BY DEF EnqNew
<1>8. lbl_name'[l] # NoName
  BY <1>1, <1>2 DEF IInv, TypeOK
<1>9. Exact(lhb_data', lbl_name', lbl_data')
  BY <1>2, <1>6, <1>7, <1>8, InsertExact
<1>10. QueueExact' /\ lhb_data' \in [QueuedSeries -> Seq(Blocks)]
  BY <1>9 DEF QueueExact, Exact
<1>11. NamesExact'
  <2>1. \A x \in Blocks : lbl_name[x] # name
    BY DEF EnqNew, find_lock
  <2>2. granted'[l] + Len(lrq_data'[l]) > 0
    BY <1>1
  <2>3. \A x \in Blocks : x # l => granted'[x] = granted[x]
    BY <1>1 DEF IInv, TypeOK
  <2>4. ASSUME NEW x \in Blocks, Used(x)' PROVE find_lock(lbl_name[x])' = {x}
    <3>1. CASE x = l
      BY <1>1, <2>1, <3>1 DEF find_lock, IInv, TypeOK
    <3>2. CASE x # l
      <4>1. Used(x) /\ lbl_name'[x] = lbl_name[x] /\ lbl_name[x] # name
        BY <1>5, <2>1, <2>4, <3>2 DEF Used
      <4>2. {y \in Blocks : lbl_name[y] = lbl_name[x]} = {x}
        BY <4>1 DEF IInv, NamesExact, find_lock
      <4> QED
        BY <1>1, <1>5, <3>2, <4>1, <4>2 DEF find_lock, IInv, TypeOK
    <3> QED
      BY <3>1, <3>2
  <2>5. ASSUME NEW x \in Blocks PROVE Used(x)' <=> granted'[x] + Len(lrq_data'[x]) > 0
    BY <1>1, <1>5, <1>8, <2>2, <2>3 DEF IInv, NamesExact, Used
  <2> QED
    BY <2>4, <2>5 DEF NamesExact
<1> QED
  BY <1>1, <1>10, <1>11 DEF IInv, TypeOK

(* A further request of a lock is granted ... *)
LEMMA EnqGranted_Inv ==
    ASSUME IInv, NEW l \in Blocks, NEW d \in Data, EnqGranted(l, d)
    PROVE  IInv'
<1>1. Used(l) /\ Grant(l, d) /\ lbl_name' = lbl_name /\ lrq_data' = lrq_data
  BY DEF EnqGranted
<1>2. granted' = [granted EXCEPT ![l] = @ + 1] /\ granted' \in [Blocks -> Nat]
  BY DEF EnqGranted, IInv, TypeOK
<1>3. /\ lbl_data' \in [Blocks -> Data]
      /\ lhb_data' \in [QueuedSeries -> Seq(Blocks)] /\ QueueExact'
  BY <1>1, GrantExact
<1>4. granted'[l] + Len(lrq_data'[l]) > 0
  BY <1>1, <1>2 DEF IInv, TypeOK
<1>5. NamesExact'
  BY <1>1, <1>2, <1>4, NamesFrame DEF IInv, TypeOK
<1> QED
  BY <1>1, <1>2, <1>3, <1>5 DEF IInv, TypeOK

(* ... or waits. *)
LEMMA EnqWaits_Inv ==
    ASSUME IInv, NEW l \in Blocks, NEW d \in Data, EnqWaits(l, d)
    PROVE  IInv'
<1>1. Used(l) /\ UNCHANGED <<lbl_name, lbl_data, granted, lhb_data>>
  BY DEF EnqWaits
<1>2. /\ lrq_data' \in [Blocks -> Seq(Data)]
      /\ Len(lrq_data'[l]) = Len(lrq_data[l]) + 1
      /\ \A x \in Blocks : x # l => lrq_data'[x] = lrq_data[x]
  <2>1. lrq_data[l] \in Seq(Data) /\ lrq_data' = [lrq_data EXCEPT ![l] = Append(lrq_data[l], d)]
    BY DEF EnqWaits, IInv, TypeOK
  <2> QED
    BY <2>1 DEF IInv, TypeOK
<1>3. granted'[l] + Len(lrq_data'[l]) > 0
  BY <1>1, <1>2 DEF IInv, TypeOK
<1>4. NamesExact'
  BY <1>1, <1>2, <1>3, NamesFrame DEF IInv, TypeOK
<1> QED
  BY <1>1, <1>2, <1>4, QueueFrame DEF IInv, TypeOK

(* A pending request is granted, with the data it brought. *)
LEMMA PostPending_Inv ==
    ASSUME IInv, NEW l \in Blocks, NEW i \in 1 .. MaxRequests, PostPending(l, i)
    PROVE  IInv'
<1>1. /\ i \in 1 .. Len(lrq_data[l]) /\ Grant(l, lrq_data[l][i])
      /\ lbl_name' = lbl_name /\ lrq_data' = [lrq_data EXCEPT ![l] = Without(@, i)]
  BY DEF PostPending
<1>2. granted' = [granted EXCEPT ![l] = @ + 1] /\ granted' \in [Blocks -> Nat]
  BY DEF PostPending, IInv, TypeOK
<1>3. /\ lrq_data' \in [Blocks -> Seq(Data)] /\ lrq_data[l][i] \in Data
      /\ Len(lrq_data'[l]) = Len(lrq_data[l]) - 1
  BY <1>1, PendingWithout DEF IInv
<1>4. Used(l)
  BY <1>1 DEF IInv, TypeOK, NamesExact
<1>5. /\ lbl_data' \in [Blocks -> Data]
      /\ lhb_data' \in [QueuedSeries -> Seq(Blocks)] /\ QueueExact'
  BY <1>1, <1>3, <1>4, GrantExact
<1>6. granted'[l] + Len(lrq_data'[l]) > 0
  BY <1>1, <1>2, <1>3 DEF IInv, TypeOK
<1>7. \A x \in Blocks : x # l => granted'[x] = granted[x] /\ lrq_data'[x] = lrq_data[x]
  BY <1>1, <1>2 DEF IInv, TypeOK
<1>8. NamesExact'
  BY <1>1, <1>2, <1>3, <1>4, <1>6, <1>7, NamesFrame
<1> QED
  BY <1>1, <1>2, <1>3, <1>5, <1>8 DEF IInv, TypeOK

(* The data of a held lock is written. *)
LEMMA WriteData_Inv ==
    ASSUME IInv, NEW l \in Blocks, NEW d \in Data, LOCK_write_data(l, d)
    PROVE  IInv'
<1>1. SetData(l, d) /\ UNCHANGED <<lbl_name, granted, lrq_data>> /\ granted[l] > 0
  BY DEF LOCK_write_data
<1>2. Used(l)
  BY <1>1 DEF IInv, TypeOK, NamesExact
<1>3. /\ lbl_data' \in [Blocks -> Data]
      /\ lhb_data' \in [QueuedSeries -> Seq(Blocks)] /\ QueueExact'
  BY <1>1, <1>2, SetDataExact
<1>4. NamesExact'
  BY <1>1 DEF IInv, NamesExact, Used, find_lock
<1> QED
  BY <1>1, <1>3, <1>4 DEF IInv, TypeOK

(* A block that is freed is on no queue. *)
LEMMA FreeExact ==
    ASSUME IInv, NEW l \in Blocks, Used(l), lbl_data' = lbl_data,
           granted' \in [Blocks -> Nat], lrq_data' \in [Blocks -> Seq(Data)],
           \A x \in Blocks : x # l => /\ granted'[x] = granted[x]
                                      /\ lrq_data'[x] = lrq_data[x],
           FreeIfUnused(l)
    PROVE  IInv'
<1>1. CASE granted'[l] = 0 /\ lrq_data'[l] = <<>>
  <2>1. lhb_data' = Removed(l) /\ lbl_name' = [lbl_name EXCEPT ![l] = NoName]
    BY <1>1 DEF FreeIfUnused
  <2>2. /\ lbl_name' \in [Blocks -> Names \cup {NoName}] /\ lbl_name'[l] = NoName
        /\ \A x \in Blocks : x # l => lbl_name'[x] = lbl_name[x]
    BY <2>1 DEF IInv, TypeOK
  <2>3. ExactBut(Removed(l), lbl_name, lbl_data, l)
    BY RemovedExact
  <2>4. ExactBut(lhb_data', lbl_name', lbl_data, l)
    BY <2>1, <2>2, <2>3, ExactButFrame
  <2>5. \A s : ~ OnQueue(l, s, lbl_name', lbl_data)
    BY <2>2 DEF OnQueue
  <2>6. QueueExact' /\ lhb_data' \in [QueuedSeries -> Seq(Blocks)]
    BY <2>4, <2>5 DEF ExactBut, QueueExact
  <2>7. NamesExact'
    <3>1. granted'[l] + Len(lrq_data'[l]) = 0
      BY <1>1
    <3>2. ASSUME NEW x \in Blocks, Used(x)' PROVE find_lock(lbl_name[x])' = {x}
      <4>1. x # l /\ Used(x) /\ lbl_name'[x] = lbl_name[x]
        BY <2>2, <3>2 DEF Used
      <4>2. {y \in Blocks : lbl_name[y] = lbl_name[x]} = {x}
        BY <4>1 DEF IInv, NamesExact, find_lock
      <4> QED
        BY <2>2, <4>1, <4>2 DEF find_lock, Used
    <3>3. ASSUME NEW x \in Blocks PROVE Used(x)' <=> granted'[x] + Len(lrq_data'[x]) > 0
      <4>1. CASE x = l
        BY <2>2, <3>1, <4>1 DEF Used
      <4>2. CASE x # l
        BY <2>2, <4>2 DEF IInv, NamesExact, Used
      <4> QED
        BY <4>1, <4>2
    <3> QED
      BY <3>2, <3>3 DEF NamesExact
  <2> QED
    BY <2>2, <2>6, <2>7 DEF IInv, TypeOK
<1>2. CASE ~ (granted'[l] = 0 /\ lrq_data'[l] = <<>>)
  <2>1. UNCHANGED <<lhb_data, lbl_name>>
    BY <1>2 DEF FreeIfUnused
  <2>2. granted'[l] + Len(lrq_data'[l]) > 0
    <3>1. lrq_data'[l] \in Seq(Data) /\ granted'[l] \in Nat
      OBVIOUS
    <3>2. lrq_data'[l] # <<>> => Len(lrq_data'[l]) > 0
      BY <3>1
    <3> QED
      BY <1>2, <3>1, <3>2
  <2>3. NamesExact'
    BY <2>1, <2>2, NamesFrame
  <2> QED
    BY <2>1, <2>3, QueueFrame DEF IInv, TypeOK
<1> QED
  BY <1>1, <1>2

(* A request is released; the last one frees its lock. *)
LEMMA Deq_Inv ==
    ASSUME IInv, NEW l \in Blocks, LOCK_deq(l)
    PROVE  IInv'
<1>1. granted' = [granted EXCEPT ![l] = @ - 1] /\ granted[l] > 0
  BY DEF LOCK_deq
<1>2. granted' \in [Blocks -> Nat] /\ \A x \in Blocks : x # l => granted'[x] = granted[x]
  BY <1>1 DEF IInv, TypeOK
<1>3. Used(l)
  BY <1>1 DEF IInv, TypeOK, NamesExact
<1> QED
  BY <1>2, <1>3, FreeExact DEF LOCK_deq, IInv, TypeOK

(* So is a pending one that is given up. *)
LEMMA Rejected_Inv ==
    ASSUME IInv, NEW l \in Blocks, NEW i \in 1 .. MaxRequests, Rejected(l, i)
    PROVE  IInv'
<1>1. i \in 1 .. Len(lrq_data[l]) /\ lrq_data' = [lrq_data EXCEPT ![l] = Without(@, i)]
  BY DEF Rejected
<1>2. lrq_data' \in [Blocks -> Seq(Data)]
  BY <1>1, PendingWithout DEF IInv
<1>3. \A x \in Blocks : x # l => lrq_data'[x] = lrq_data[x]
  BY <1>1 DEF IInv, TypeOK
<1>4. Used(l)
  BY <1>1 DEF IInv, TypeOK, NamesExact
<1> QED
  BY <1>2, <1>3, <1>4, FreeExact DEF Rejected, IInv, TypeOK

-----------------------------------------------------------------------------
(* Theorems. *)

(* Initially there are no locks. *)
LEMMA InitIInv == Init => IInv
<1> SUFFICES ASSUME Init PROVE IInv
  OBVIOUS
<1>1. TypeOK
  BY DataAssumption DEF Init, TypeOK
<1>2. NamesExact
  BY DEF Init, NamesExact, Used
<1>3. QueueExact
  BY DEF Init, QueueExact, Once, Ordered, Members, OnQueue
<1> QED
  BY <1>1, <1>2, <1>3 DEF IInv

(* Every operation preserves the invariant. *)
LEMMA NextIInv == IInv /\ [Next]_vars => IInv'
<1> SUFFICES ASSUME IInv, [Next]_vars PROVE IInv'
  OBVIOUS
<1>1. CASE UNCHANGED vars
  BY <1>1 DEF vars, IInv, TypeOK, NamesExact, QueueExact, Used, find_lock
<1>2. CASE Next
  <2>1. PICK l \in Blocks :
           \/ \E d \in Data :
                 \/ \E name \in Names : EnqNew(l, name, d)
                 \/ EnqGranted(l, d) \/ EnqWaits(l, d) \/ LOCK_write_data(l, d)
           \/ LOCK_deq(l)
           \/ \E i \in 1 .. MaxRequests : PostPending(l, i) \/ Rejected(l, i)
    BY <1>2 DEF Next
  <2> QED
    BY <2>1, EnqNew_Inv, EnqGranted_Inv, EnqWaits_Inv, WriteData_Inv, Deq_Inv,
       PostPending_Inv, Rejected_Inv
<1> QED
  BY <1>1, <1>2

(* The queues and names of the lock data stay exact. *)
THEOREM DataInvariance == Spec => []IInv
<1> QED
  BY InitIInv, NextIInv, PTL DEF Spec

(* What LOCK_read_data2 returns for the name of a lock is its data. *)
LEMMA ReadData ==
    ASSUME IInv, NEW l \in Blocks, Used(l)
    PROVE  LOCK_read_data2(lbl_name[l]) = lbl_data[l]
<1>1. find_lock(lbl_name[l]) = {l}
  BY DEF IInv, NamesExact
<1>2. (CHOOSE x \in {l} : TRUE) = l
  OBVIOUS
<1> QED
  BY <1>1, <1>2 DEF LOCK_read_data2

(* The walk of a query meets exactly the locks with data under the root. *)
LEMMA WalkExact ==
    ASSUME IInv, NEW root \in Roots, NEW s \in QueuedSeries
    PROVE  /\ \A i \in Walk(root, s) :
                 /\ i \in 1 .. Len(lhb_data[s]) /\ lhb_data[s][i] \in Blocks
                 /\ lbl_name[lhb_data[s][i]] \in Present(root, s)
                 /\ LOCK_read_data2(lbl_name[lhb_data[s][i]]) = lbl_data[lhb_data[s][i]]
           /\ \A n \in Present(root, s) : \E i \in Walk(root, s) :
                 /\ lbl_name[lhb_data[s][i]] = n
                 /\ LOCK_read_data2(n) = lbl_data[lhb_data[s][i]]
<1> DEFINE q == lhb_data[s]
<1>1. /\ q \in Seq(Blocks)
      /\ Members(q) = {l \in Blocks : OnQueue(l, s, lbl_name, lbl_data)}
  BY DEF IInv, TypeOK, QueueExact
<1>2. ASSUME NEW i \in Walk(root, s)
      PROVE  /\ i \in 1 .. Len(q) /\ q[i] \in Blocks
             /\ lbl_name[q[i]] \in Present(root, s)
             /\ LOCK_read_data2(lbl_name[q[i]]) = lbl_data[q[i]]
  <2>1. i \in 1 .. Len(q) /\ q[i] \in Blocks /\ lbl_name[q[i]].parent = root
    BY <1>1 DEF Walk
  <2>2. OnQueue(q[i], s, lbl_name, lbl_data)
    BY <1>1, <2>1 DEF Members
  <2>3. /\ Used(q[i]) /\ lbl_name[q[i]].series = s /\ lbl_data[q[i]] # 0
        /\ lbl_name[q[i]] \in Names
    BY <2>1, <2>2 DEF OnQueue, Queueable, Used, IInv, TypeOK
  <2>4. LOCK_read_data2(lbl_name[q[i]]) = lbl_data[q[i]]
    BY <2>1, <2>3, ReadData
  <2> QED
    BY <2>1, <2>3, <2>4 DEF Present
<1>3. ASSUME NEW n \in Present(root, s)
      PROVE  \E i \in Walk(root, s) :
                lbl_name[q[i]] = n /\ LOCK_read_data2(n) = lbl_data[q[i]]
  <2>1. n \in Names /\ n.parent = root /\ n.series = s /\ LOCK_read_data2(n) # 0
    BY DEF Present
  <2>2. PICK l \in Blocks : lbl_name[l] = n
    BY <2>1 DEF LOCK_read_data2, find_lock
  <2>3. Used(l)
    BY <2>1, <2>2, DataAssumption DEF Used
  <2>4. LOCK_read_data2(n) = lbl_data[l]
    BY <2>2, <2>3, ReadData
  <2>5. OnQueue(l, s, lbl_name, lbl_data)
    BY <2>1, <2>2, <2>3, <2>4, DataAssumption DEF OnQueue, Queueable, Used
  <2>6. PICK i \in 1 .. Len(q) : q[i] = l
    BY <1>1, <2>5 DEF Members
  <2> QED
    BY <2>1, <2>2, <2>4, <2>6 DEF Walk
<1> QED
  BY <1>2, <1>3

(* The first lock the walk meets has the smallest data, the last the       *)
(* largest.                                                                *)
LEMMA ExtremesFollow == IInv => ExtremesExact
<1> SUFFICES ASSUME IInv, NEW root \in Roots, NEW s \in QueuedSeries
             PROVE  IF Present(root, s) = {}
                    THEN QueryMin(root, s) = 0 /\ QueryMax(root, s) = 0
                    ELSE /\ \E n \in Present(root, s) : QueryMin(root, s) = LOCK_read_data2(n)
                         /\ \E n \in Present(root, s) : QueryMax(root, s) = LOCK_read_data2(n)
                         /\ \A n \in Present(root, s) :
                               /\ QueryMin(root, s) <= LOCK_read_data2(n)
                               /\ LOCK_read_data2(n) <= QueryMax(root, s)
  BY DEF ExtremesExact
<1> DEFINE q == lhb_data[s]
           W == Walk(root, s)
<1>1. /\ \A i \in W : /\ i \in 1 .. Len(q) /\ q[i] \in Blocks
                       /\ lbl_name[q[i]] \in Present(root, s)
                       /\ LOCK_read_data2(lbl_name[q[i]]) = lbl_data[q[i]]
      /\ \A n \in Present(root, s) : \E i \in W : LOCK_read_data2(n) = lbl_data[q[i]]
  BY WalkExact
<1>2. q \in Seq(Blocks) /\ Len(q) \in Nat /\ lbl_data \in [Blocks -> Int]
  <2>1. q \in Seq(Blocks) /\ lbl_data \in [Blocks -> Data]
    BY DEF IInv, TypeOK
  <2>2. Data \subseteq Int
    BY DataAssumption
  <2>3. lbl_data \in [Blocks -> Int]
    BY <2>1, <2>2
  <2>4. Len(q) \in Nat
    BY <2>1
  <2> QED
    BY <2>1, <2>3, <2>4
<1>3. \A i, j \in W : i <= j => lbl_data[q[i]] <= lbl_data[q[j]]
  <2>1. \A i, j \in W : i < j => lbl_data[q[i]] <= lbl_data[q[j]]
    BY <1>1 DEF IInv, QueueExact, Ordered, Walk
  <2>2. \A i \in W : lbl_data[q[i]] \in Int
    BY <1>1, <1>2
  <2> QED
    BY <1>1, <1>2, <2>1, <2>2
<1>4. CASE W = {}
  BY <1>1, <1>4 DEF QueryMin, QueryMax
<1>5. CASE W # {}
  <2> DEFINE first == CHOOSE i \in W : \A j \in W : i <= j
             last == CHOOSE i \in W : \A j \in W : j <= i
  <2>1. first \in W /\ \A j \in W : first <= j
    <3>1. W \in SUBSET Nat
      BY <1>1, <1>2
    <3>2. \E i \in W : \A j \in W : i <= j
      BY <1>5, <3>1, LeastNat
    <3> QED
      BY <3>2
  <2>2. last \in W /\ \A j \in W : j <= last
    <3>1. W \in SUBSET (1 .. Len(q))
      BY <1>1
    <3>2. \E i \in W : \A j \in W : j <= i
      BY <1>2, <1>5, <3>1, GreatestNat
    <3> QED
      BY <3>2
  <2>3. QueryMin(root, s) = lbl_data[q[first]] /\ QueryMax(root, s) = lbl_data[q[last]]
    BY <1>5 DEF QueryMin, QueryMax
  <2> HIDE DEF first, last, W
  <2>4. \A j \in W : lbl_data[q[first]] <= lbl_data[q[j]] /\ lbl_data[q[j]] <= lbl_data[q[last]]
    BY <1>3, <2>1, <2>2
  <2>5. Present(root, s) # {}
    BY <1>1, <2>1
  <2> QED
    BY <1>1, <2>1, <2>2, <2>3, <2>4, <2>5
<1> QED
  BY <1>4, <1>5

(* LOCK_query_data returns the true minimum and maximum of the lock data   *)
(* under a root, for any number of locks, roots and requests.              *)
THEOREM ExtremesAreExact == Spec => []ExtremesExact
<1> QED
  BY DataInvariance, ExtremesFollow, PTL

(* The walk meets every lock with data under the root once: its places and *)
(* the names with data are as many.                                        *)
LEMMA CountFollows == IInv => CountExact
<1> SUFFICES ASSUME IInv, NEW root \in Roots, NEW s \in QueuedSeries
             PROVE  /\ QueryCnt(root, s) = Cardinality(Present(root, s))
                    /\ QueryAny(root, s) = 1 <=> Present(root, s) # {}
  BY DEF CountExact
<1> DEFINE q == lhb_data[s]
           W == Walk(root, s)
           f == [i \in W |-> lbl_name[q[i]]]
<1>1. /\ \A i \in W : i \in 1 .. Len(q) /\ q[i] \in Blocks /\ f[i] \in Present(root, s)
      /\ \A n \in Present(root, s) : \E i \in W : f[i] = n
  BY WalkExact
<1>2. q \in Seq(Blocks) /\ Once(q)
  BY DEF IInv, TypeOK, QueueExact
<1>3. ASSUME NEW i \in W, NEW j \in W, f[i] = f[j]
      PROVE  i = j
  <2>1. q[i] \in Blocks /\ q[j] \in Blocks /\ lbl_name[q[i]] = lbl_name[q[j]]
    BY <1>1, <1>3
  <2>2. OnQueue(q[i], s, lbl_name, lbl_data)
    BY <1>1 DEF IInv, QueueExact, Members
  <2>3. find_lock(lbl_name[q[i]]) = {q[i]}
    BY <2>1, <2>2 DEF IInv, NamesExact, Used, OnQueue
  <2>4. q[j] = q[i]
    BY <2>1, <2>3 DEF find_lock
  <2> QED
    BY <1>1, <1>2, <2>4 DEF Once
<1>4. IsFiniteSet(W)
  <2>1. IsFiniteSet(1 .. Len(q))
    BY <1>2, FS_Interval
  <2>2. W \in SUBSET (1 .. Len(q))
    BY <1>1
  <2> QED
    BY <2>1, <2>2, FS_Subset
<1>5. f \in [W -> Present(root, s)]
  BY <1>1
<1> HIDE DEF f, W
<1>6. ExistsBijection(W, Present(root, s))
  BY <1>1, <1>3, <1>5 DEF ExistsBijection, Bijection, Injection, Surjection, IsInjective
<1>7. Cardinality(W) = Cardinality(Present(root, s))
  BY <1>4, <1>6, FS_Bijection
<1>8. W = {} <=> Present(root, s) = {}
  BY <1>1
<1> QED
  BY <1>7, <1>8 DEF QueryCnt, QueryAny, W

(* LOCK_query_data counts the locks with data under a root exactly, and    *)
(* TRA_active_transactions says yes exactly if there is one.               *)
THEOREM QueryCountsAreExact == Spec => []CountExact
<1> QED
  BY DataInvariance, CountFollows, PTL
=============================================================================

------------------------ MODULE RecordVersionsProofs ------------------------
(***************************************************************************)
(* What RecordVersions checks of a record's versions on small instances,   *)
(* proved for every number of processes, places, transactions, reads and   *)
(* deaths: each stored version is in the record's chain or in the hands of *)
(* one process, whatever updates, undos, backouts, purges and expunges     *)
(* meet at the record.                                                     *)
(***************************************************************************)
EXTENDS RecordVersions, SequenceTheorems, WellFoundedInduction, TLAPS

-----------------------------------------------------------------------------
(* Chains. *)

Versions == [Place -> Version]

(* The places behind s when the record is stored as f. *)
ChainIn(f, s) ==
    {t \in Slot : \A C \in SUBSET Place :
                    /\ s \in C
                    /\ \A u \in C : f[u].back # None => f[u].back \in C
                    => t \in C}

(* The chain of the record as it is stored. *)
LEMMA ChainIs ==
    ASSUME NEW s
    PROVE  Chain(s) = ChainIn(ver, s)
BY DEF Chain, ChainIn

(* Chains are of places for back versions. *)
LEMMA ChainSlots ==
    ASSUME NEW f, NEW s
    PROVE  ChainIn(f, s) \subseteq Slot
BY DEF ChainIn

(* A chain has the place it starts from. *)
LEMMA ChainSelf ==
    ASSUME NEW f, NEW s \in Slot
    PROVE  s \in ChainIn(f, s)
BY DEF ChainIn

(* A chain has the back version of each of its members. *)
LEMMA ChainNext ==
    ASSUME NEW f \in Versions, NEW s \in Place,
           NEW t \in ChainIn(f, s) \cup {s}, f[t].back # None
    PROVE  f[t].back \in ChainIn(f, s)
<1>1. t \in Place /\ f[t].back \in Slot
  BY DEF ChainIn, Versions, Version, Place
<1>2. CASE t = s
  BY <1>1, <1>2 DEF ChainIn
<1>3. CASE t \in ChainIn(f, s)
  BY <1>1, <1>3 DEF ChainIn
<1> QED
  BY <1>2, <1>3

(* A chain is in every set closed under the back pointers. *)
LEMMA ChainLeast ==
    ASSUME NEW f \in Versions, NEW s \in Place, NEW C \in SUBSET Place, s \in C,
           \A u \in C : f[u].back # None => f[u].back \in C
    PROVE  ChainIn(f, s) \subseteq C
BY DEF ChainIn

(* A chain is its first place and the chain behind. *)
LEMMA ChainSplit ==
    ASSUME NEW f \in Versions, NEW s \in Place
    PROVE  /\ f[s].back = None => ChainIn(f, s) = {s} \cap Slot
           /\ f[s].back # None =>
                ChainIn(f, s) = ({s} \cap Slot) \cup ChainIn(f, f[s].back)
<1>1. ASSUME f[s].back = None
      PROVE  ChainIn(f, s) = {s} \cap Slot
  <2>1. ChainIn(f, s) \subseteq {s}
    <3>1. {s} \in SUBSET Place /\ \A u \in {s} : f[u].back # None => f[u].back \in {s}
      BY <1>1
    <3> QED
      BY <3>1, ChainLeast
  <2> QED
    BY <2>1, ChainSelf, ChainSlots
<1>2. ASSUME f[s].back # None
      PROVE  ChainIn(f, s) = ({s} \cap Slot) \cup ChainIn(f, f[s].back)
  <2> DEFINE b == f[s].back
             D == {s} \cup ChainIn(f, b)
  <2>1. b \in Slot /\ b \in Place /\ b \in ChainIn(f, b)
    BY <1>2, ChainSelf DEF Versions, Version, Place
  <2>2. ChainIn(f, s) \subseteq D
    <3>1. D \in SUBSET Place
      BY ChainSlots DEF Place
    <3>2. \A u \in D : f[u].back # None => f[u].back \in D
      BY <2>1, ChainNext
    <3>3. s \in D
      OBVIOUS
    <3> HIDE DEF D
    <3> QED
      BY <3>1, <3>2, <3>3, ChainLeast
  <2>3. ChainIn(f, b) \subseteq ChainIn(f, s)
    <3> DEFINE E == {s} \cup ChainIn(f, s)
    <3>1. E \in SUBSET Place /\ b \in E
      BY <1>2, ChainSlots, ChainNext DEF Place
    <3>2. \A u \in E : f[u].back # None => f[u].back \in E
      BY ChainNext
    <3>3. ChainIn(f, b) \subseteq E
      BY <2>1, <3>1, <3>2, ChainLeast
    <3>4. s \in Slot => s \in ChainIn(f, s)
      BY ChainSelf
    <3> QED
      BY <3>3, <3>4, ChainSlots
  <2> QED
    BY <2>2, <2>3, ChainSelf, ChainSlots
<1> QED
  BY <1>1, <1>2

(* A chain is what its members' back pointers are. *)
LEMMA ChainSame ==
    ASSUME NEW f \in Versions, NEW g \in Versions, NEW s \in Place,
           \A u \in ChainIn(f, s) \cup {s} : g[u].back = f[u].back
    PROVE  ChainIn(g, s) = ChainIn(f, s)
<1> DEFINE D == ChainIn(f, s) \cup {s}
           E == ChainIn(g, s) \cup {s}
<1>1. D \in SUBSET Place /\ E \in SUBSET Place
  BY ChainSlots DEF Place
<1>2. \A u \in D : g[u].back # None => g[u].back \in D
  BY ChainNext
<1>3. ChainIn(g, s) \subseteq D
  BY <1>1, <1>2, ChainLeast
<1>4. \A u \in E : f[u].back # None => f[u].back \in E
  BY <1>3, ChainNext
<1>5. ChainIn(f, s) \subseteq E
  BY <1>1, <1>4, ChainLeast
<1>6. s \in Slot => s \in ChainIn(f, s) /\ s \in ChainIn(g, s)
  BY ChainSelf
<1> QED
  BY <1>3, <1>5, <1>6, ChainSlots

(* Every version behind another one is older. *)
Falling(f, s) ==
    \A t \in ChainIn(f, s) \cup {s} : f[t].back # None => f[f[t].back].tra < f[t].tra

(* Where versions get older, none is behind itself. *)
LEMMA ChainFalls ==
    ASSUME NEW f \in Versions, NEW s \in Place, Falling(f, s), f[s].back # None
    PROVE  /\ \A t \in ChainIn(f, f[s].back) : f[t].tra < f[s].tra
           /\ s \notin ChainIn(f, f[s].back)
           /\ Falling(f, f[s].back)
<1> DEFINE b == f[s].back
           D == {t \in ChainIn(f, s) : f[t].tra < f[s].tra}
<1>1. b \in ChainIn(f, s) /\ b \in Place /\ b \in D
  BY ChainNext, ChainSlots DEF Falling, Place
<1>2. D \in SUBSET Place
  BY ChainSlots DEF Place
<1>3. ASSUME NEW u \in D, f[u].back # None
      PROVE  f[u].back \in D
  <2>1. f[u].back \in ChainIn(f, s) /\ f[f[u].back].tra < f[u].tra
    BY <1>3, ChainNext DEF Falling
  <2>2. f[f[u].back].tra \in Int /\ f[u].tra \in Int /\ f[s].tra \in Int
    BY <1>2, <2>1, ChainSlots DEF Versions, Version, Place
  <2> QED
    BY <2>1, <2>2
<1>4. ChainIn(f, b) \subseteq D
  BY <1>1, <1>2, <1>3, ChainLeast
<1>5. s \notin D
  BY DEF Versions, Version
<1> QED
  BY <1>1, <1>4, <1>5 DEF Falling

(* What is stored elsewhere does not matter to a chain. *)
LEMMA ChainOutside ==
    ASSUME NEW f \in Versions, NEW g \in Versions, NEW s \in Place, NEW t,
           t \notin ChainIn(f, s) \cup {s},
           \A u \in Place \ {t} : g[u] = f[u]
    PROVE  /\ ChainIn(g, s) = ChainIn(f, s)
           /\ \A u \in ChainIn(f, s) \cup {s} : g[u] = f[u]
<1>1. \A u \in ChainIn(f, s) \cup {s} : g[u] = f[u]
  BY ChainSlots DEF Place
<1> QED
  BY <1>1, ChainSame

-----------------------------------------------------------------------------
(* Numbers, locks and snapshots. *)

(* Ended transactions stay ended, and no old one gets its lock back. *)
EndsStay ==
    /\ \A t \in Tra : tip[t] # "active" => tip'[t] = tip[t]
    /\ \A t \in Tra : t <= hdr.next /\ lck[t] = 0 => lck'[t] = 0
    /\ hdr'.next \in Int /\ hdr.next <= hdr'.next

(* Who is over and gone stays so. *)
LEMMA GoneStays ==
    ASSUME Typed, EndsStay, NEW n \in Int, n <= hdr.next + 1
    PROVE  /\ Gone(n) => Gone(n)'
           /\ Over(n) => Over(n)'
<1>1. \A t \in Tra : t < n => t <= hdr.next
  BY DEF Tra, Typed
<1> QED
  BY <1>1 DEF EndsStay, Gone, Over

(* Who is over is gone. *)
LEMMA OverGone ==
    ASSUME NEW n, Over(n)
    PROVE  Gone(n)
BY DEF Over, Gone

(* The larger of two bounds that both hold holds. *)
LEMMA LargerGone ==
    ASSUME NEW m \in Int, NEW n \in Int
    PROVE  /\ Larger(m, n) \in {m, n} /\ Smaller(m, n) \in {m, n}
           /\ Larger(m, n) >= m /\ Larger(m, n) >= n
           /\ Smaller(m, n) <= m /\ Smaller(m, n) <= n
           /\ Gone(m) /\ Gone(n) => Gone(Larger(m, n))
           /\ Over(m) /\ Over(n) => Over(Larger(m, n))
           /\ Gone(m) => Gone(Smaller(m, n))
           /\ Gone(n) => Gone(Smaller(m, n))
BY DEF Larger, Smaller, Gone, Over, Tra

(* The types of the fields of what a process keeps of its transaction. *)
LEMMA TraFields ==
    ASSUME Typed, NEW p \in Proc
    PROVE  /\ tra[p].number \in 0 .. MaxTra /\ tra[p].oldest \in 0 .. MaxTra
           /\ tra[p].active \in 0 .. MaxTra /\ tra[p].oldest_active \in 0 .. MaxTra
           /\ tra[p].tra_oldest_active \in 0 .. MaxTra
           /\ tra[p].oldest_snapshot \in 0 .. MaxTra
           /\ tra[p].cleanup \in BOOLEAN /\ tra[p].states \in [Tra -> State]
           /\ dbb[p] \in Oldest /\ dbb[p].oldest \in 0 .. MaxTra
           /\ dbb[p].oldest_active \in 0 .. MaxTra /\ dbb[p].oldest_snapshot \in 0 .. MaxTra
           /\ hdr.next \in Tra /\ hdr.oldest \in 0 .. MaxTra
           /\ hdr.oldest_active \in 0 .. MaxTra /\ hdr.oldest_snapshot \in 0 .. MaxTra
           /\ at[p] \in Doing
BY DEF Typed, Oldest

(* A process that neither gets nor changes numbers keeps what holds of them,
   whatever others end. *)
LEMMA NumbersStay ==
    ASSUME Typed, EndsStay, NEW q \in Proc, NumbersOf(q), OldestOf(q), SnapshotOf(q),
           Remembered(dbb[q]),
           at'[q] = at[q] \/ (Ready(q) /\ at[q] # "release" /\
                              at'[q] \in Doing \ {"idle", "inventory", "scan", "query",
                                                  "settle", "release"}),
           tra'[q] = tra[q], dbb'[q] = dbb[q],
           \A t \in Tra : t <= hdr.next /\ lck[t] # 0 /\ Active(q) /\ t = tra[q].number =>
              lck'[t] # 0 /\ (tip'[t] = "active" <=> tip[t] = "active"),
           \A r \in Proc \ {q} : Active(r)' => 
              (Active(r) /\ tra'[r].number = tra[r].number) \/ tra'[r].number > hdr.next
    PROVE  NumbersOf(q)' /\ OldestOf(q)' /\ SnapshotOf(q)' /\ Remembered(dbb[q])'
<1>1. /\ tra[q].oldest \in Int /\ tra[q].active \in Int /\ tra[q].oldest_active \in Int
      /\ tra[q].tra_oldest_active \in Int /\ tra[q].oldest_snapshot \in Int
      /\ tra[q].number \in Int /\ hdr.next \in Int
      /\ dbb[q].oldest \in Int /\ dbb[q].oldest_active \in Int
      /\ dbb[q].oldest_snapshot \in Int
  BY TraFields DEF Tra
<1>2. (Active(q)' <=> Active(q)) /\ (Ready(q)' <=> Ready(q)) /\ (Settling(q)' <=> Settling(q))
      /\ (InSnapshot(q)' <=> InSnapshot(q)) /\ (at'[q] = "release" <=> at[q] = "release")
      /\ (at'[q] \in {"query", "settle"} <=> at[q] \in {"query", "settle"})
  BY DEF Active, Ready, Settling, InSnapshot, Doing
<1>3. NumbersOf(q)'
  <2>1. hdr.next <= hdr'.next /\ hdr'.next \in Int
    BY DEF EndsStay
  <2> QED
    BY <1>1, <1>2, <2>1 DEF NumbersOf, EndsStay
<1>4. OldestOf(q)'
  <2>1. \A n \in Int : n <= hdr.next + 1 => (Gone(n) => Gone(n)') /\ (Over(n) => Over(n)')
    BY GoneStays
  <2>2. Active(q) => tra[q].number <= hdr.next
    BY DEF NumbersOf
  <2> QED
    BY <1>1, <1>2, <2>1, <2>2 DEF OldestOf, Settling, Active, Ready
<1>5. SnapshotOf(q)'
  BY <1>2 DEF SnapshotOf, EndsStay
<1>6. Remembered(dbb[q])'
  <2>1. \A n \in Int : n <= hdr.next + 1 => (Gone(n) => Gone(n)') /\ (Over(n) => Over(n)')
    BY GoneStays
  <2>2. hdr.next <= hdr'.next /\ hdr'.next \in Int
    BY DEF EndsStay
  <2> QED
    BY <1>1, <2>1, <2>2 DEF Remembered
<1> QED
  BY <1>3, <1>4, <1>5, <1>6

(* What holds of all numbers, locks and snapshots. *)
TraInv == NumbersInv /\ OldestInv /\ SnapshotInv

(* Process p is the only one that a step is of. *)
Alone(p) ==
    \A q \in Proc \ {p} : /\ at'[q] = at[q] /\ tra'[q] = tra[q] /\ dbb'[q] = dbb[q]
                          /\ rpb'[q] = rpb[q] /\ req'[q] = req[q]

(* The others' numbers, snapshots and oldest transactions stay true. *)
LEMMA OthersNumbers ==
    ASSUME Typed, TraInv, EndsStay, NEW p \in Proc, Alone(p),
           \A q \in Proc \ {p} : Active(q) =>
             /\ lck'[tra[q].number] = lck[tra[q].number]
             /\ tip'[tra[q].number] = tip[tra[q].number],
           Active(p)' => (Active(p) /\ tra'[p].number = tra[p].number)
                         \/ tra'[p].number > hdr.next
    PROVE  \A q \in Proc \ {p} : /\ NumbersOf(q)' /\ OldestOf(q)' /\ SnapshotOf(q)'
                                 /\ Remembered(dbb[q])'
<1> SUFFICES ASSUME NEW q \in Proc \ {p}
             PROVE  /\ NumbersOf(q)' /\ OldestOf(q)' /\ SnapshotOf(q)'
                    /\ Remembered(dbb[q])'
  OBVIOUS
<1>1. NumbersOf(q) /\ OldestOf(q) /\ SnapshotOf(q) /\ Remembered(dbb[q])
  BY DEF TraInv, NumbersInv, OldestInv, SnapshotInv
<1>2. at'[q] = at[q] /\ tra'[q] = tra[q] /\ dbb'[q] = dbb[q]
  BY DEF Alone
<1>3. \A t \in Tra : t <= hdr.next /\ lck[t] # 0 /\ Active(q) /\ t = tra[q].number =>
              lck'[t] # 0 /\ (tip'[t] = "active" <=> tip[t] = "active")
  OBVIOUS
<1>4. \A r \in Proc \ {q} : Active(r)' =>
              (Active(r) /\ tra'[r].number = tra[r].number) \/ tra'[r].number > hdr.next
  BY DEF Alone, Active
<1> QED
  BY <1>1, <1>2, <1>3, <1>4, NumbersStay

(* What a process does that has its snapshot and is not about to end. *)
Busy == Doing \ {"idle", "inventory", "scan", "query", "settle", "release"}

(* An action that leaves numbers, locks and snapshots alone keeps them true. *)
LEMMA CalmNumbers ==
    ASSUME Typed, TraInv, NEW p \in Proc, Alone(p), UNCHANGED <<hdr, tip, lck, dbb, tra>>,
           at[p] \in Busy, at'[p] \in Busy
    PROVE  TraInv' /\ EndsStay
<1>1. EndsStay
  BY DEF EndsStay, Typed, Tra
<1>2. \A q \in Proc \ {p} : /\ NumbersOf(q)' /\ OldestOf(q)' /\ SnapshotOf(q)'
                            /\ Remembered(dbb[q])'
  BY <1>1, OthersNumbers DEF Active, Busy
<1>3. NumbersOf(p)' /\ OldestOf(p)' /\ SnapshotOf(p)' /\ Remembered(dbb[p])'
  <2>1. NumbersOf(p) /\ OldestOf(p) /\ SnapshotOf(p) /\ Remembered(dbb[p])
    BY DEF TraInv, NumbersInv, OldestInv, SnapshotInv
  <2>2. \A r \in Proc \ {p} : Active(r)' =>
              (Active(r) /\ tra'[r].number = tra[r].number) \/ tra'[r].number > hdr.next
    BY DEF Alone, Active
  <2>3. Ready(p) /\ at[p] # "release"
    BY DEF Ready, Busy
  <2>4. at'[p] \in Doing \ {"idle", "inventory", "scan", "query", "settle", "release"}
    BY DEF Busy
  <2> QED
    BY <1>1, <2>1, <2>2, <2>3, <2>4, NumbersStay
<1>4. Remembered(hdr)'
  BY DEF TraInv, OldestInv, Remembered, Over, Gone
<1> QED
  BY <1>1, <1>2, <1>3, <1>4 DEF TraInv, NumbersInv, OldestInv, SnapshotInv

(* Nothing is a version, and no request a request. *)
LEMMA NoTypes ==
    ASSUME VersionsAssumption
    PROVE  /\ NoVersion \in Version /\ NoRequest \in Request
           /\ NoRpb \in [v : Version, slot : Place \cup {None}]
           /\ NoDbb \in Oldest
           /\ NoTra \in [number : 0 .. MaxTra, oldest : 0 .. MaxTra, active : 0 .. MaxTra,
                       oldest_active : 0 .. MaxTra, tra_oldest_active : 0 .. MaxTra,
                       oldest_snapshot : 0 .. MaxTra, cleanup : BOOLEAN,
                       states : [Tra -> State]]
<1>1. MaxTra \in Nat
  BY DEF VersionsAssumption
<1>2. NoVersion \in Version
  BY <1>1 DEF NoVersion, Version
<1>3. NoRequest \in Request
  BY <1>1, <1>2 DEF NoRequest, Request
<1>4. NoRpb \in [v : Version, slot : Place \cup {None}]
  BY <1>2 DEF NoRpb
<1> QED
  BY <1>1, <1>2, <1>3, <1>4 DEF NoDbb, NoTra, Oldest, State

(* A set of naturals that is not empty has a least element. *)
LEMMA LeastNat ==
    ASSUME NEW T \in SUBSET Nat, T # {}
    PROVE  \E x \in T : \A y \in T : x <= y
<1> DEFINE R == OpToRel(<, Nat)
<1>1. IsWellFoundedOn(R, Nat)
  BY NatLessThanWellFounded
<1>2. \A x, y \in Nat : x < y => <<x, y>> \in R
  BY DEF OpToRel
<1> HIDE DEF R
<1>3. \E x \in T : \A y \in T : ~ (<<y, x>> \in R)
  BY <1>1, WFMin
<1>4. PICK x \in T : \A y \in T : ~ (<<y, x>> \in R)
  BY <1>3
<1>5. \A y \in T : ~ (y < x)
  BY <1>2, <1>4
<1> QED
  BY <1>5

(* The least member is a member. *)
LEMMA MinIs ==
    ASSUME NEW T \in SUBSET Nat, T # {}
    PROVE  Min(T) \in T /\ \A y \in T : Min(T) <= y
<1>1. \E x \in T : \A y \in T : x =< y
  BY LeastNat
<1> QED
  BY <1>1 DEF Min

(* A set of naturals that has a bound has a greatest element. *)
LEMMA MaxIs ==
    ASSUME NEW n \in Nat, NEW T \in SUBSET (0 .. n), T # {}
    PROVE  Max(T) \in T /\ \A y \in T : Max(T) >= y
<1> DEFINE S == {n - y : y \in T}
<1>1. S \in SUBSET Nat /\ S # {}
  <2>1. \A y \in T : y \in Int /\ 0 <= y /\ y <= n
    OBVIOUS
  <2>2. \A y \in T : n - y \in Nat
    BY <2>1
  <2>3. PICK t \in T : TRUE
    OBVIOUS
  <2>4. n - t \in S
    BY <2>3
  <2> QED
    BY <2>2, <2>4
<1>2. PICK x \in S : \A y \in S : x <= y
  BY <1>1, LeastNat
<1>3. PICK m \in T : x = n - m
  BY <1>2
<1>4. \A y \in T : m >= y
  <2> TAKE y \in T
  <2>1. n - y \in S
    OBVIOUS
  <2>2. n - m <= n - y
    BY <1>2, <1>3, <2>1
  <2>3. y \in Int /\ m \in Int
    OBVIOUS
  <2> QED
    BY <2>2, <2>3
<1>5. \E m1 \in T : \A y \in T : m1 >= y
  BY <1>4
<1> QED
  BY <1>5 DEF Max

-----------------------------------------------------------------------------
(* The actions that change numbers, locks and snapshots. *)

(* TRA_start takes a number nobody has. *)
LEMMA StartNumbers ==
    ASSUME VersionsAssumption, Typed, TraInv, NEW p \in Proc, TRA_start(p)
    PROVE  /\ Typed' /\ TraInv' /\ EndsStay /\ Alone(p)
           /\ hdr'.next = hdr.next + 1 /\ tra'[p].number = hdr'.next
<1>0. PICK h : h = bump_transaction_id(p)
  OBVIOUS
<1>a. PICK act : act = Larger(h.oldest_active, h.oldest)
  OBVIOUS
<1>1. /\ hdr' = h /\ lck' = [lck EXCEPT ![h.next] = act]
      /\ tra' = [tra EXCEPT ![p] =
                   [number |-> h.next, oldest |-> h.oldest, active |-> act,
                    oldest_active |-> h.next, tra_oldest_active |-> h.next,
                    oldest_snapshot |-> h.oldest_snapshot,
                    cleanup |-> h.next % TRA_ACTIVE_CLEANUP = 0,
                    states |-> [t \in Tra |-> "active"]]]
      /\ at' = [at EXCEPT ![p] = "inventory"] /\ req' = [req EXCEPT ![p] = NoRequest]
      /\ UNCHANGED <<tip, dbb, ver, rpb, log, crashes>>
      /\ at[p] = "idle" /\ hdr.next < MaxTra
  BY <1>0, <1>a DEF TRA_start
<1>2. Remembered(hdr) /\ Remembered(dbb[p]) /\ hdr.oldest > 0
  BY DEF TraInv, OldestInv
<1>3. /\ h = [next |-> hdr.next + 1,
              oldest |-> Larger(dbb[p].oldest, hdr.oldest),
              oldest_active |-> Larger(dbb[p].oldest_active, hdr.oldest_active),
              oldest_snapshot |-> Larger(dbb[p].oldest_snapshot, hdr.oldest_snapshot)]
  BY <1>0 DEF bump_transaction_id
<1>4. /\ h.next = hdr.next + 1 /\ h.next \in Tra /\ h.next \in Int
      /\ h.oldest \in 0 .. MaxTra /\ h.oldest <= hdr.next /\ Over(h.oldest) /\ h.oldest > 0
      /\ h.oldest_active \in 0 .. MaxTra /\ h.oldest_active <= hdr.next /\ Gone(h.oldest_active)
      /\ h.oldest_snapshot \in 0 .. MaxTra /\ h.oldest_snapshot <= hdr.next
      /\ Gone(h.oldest_snapshot)
      /\ hdr.next \in Tra /\ hdr.next \in Int
  <2>1. MaxTra \in Nat
    BY DEF VersionsAssumption
  <2>2. /\ h.next = hdr.next + 1 /\ h.oldest = Larger(dbb[p].oldest, hdr.oldest)
        /\ h.oldest_active = Larger(dbb[p].oldest_active, hdr.oldest_active)
        /\ h.oldest_snapshot = Larger(dbb[p].oldest_snapshot, hdr.oldest_snapshot)
    BY <1>3
  <2>3. hdr.next \in Tra /\ h.next \in Tra /\ h.next \in Int
    BY <1>1, <2>1, <2>2, TraFields DEF Tra
  <2>4. h.oldest \in 0 .. MaxTra /\ h.oldest <= hdr.next /\ Over(h.oldest) /\ h.oldest > 0
    <3>1. dbb[p].oldest \in 0 .. MaxTra /\ hdr.oldest \in 0 .. MaxTra
      BY TraFields
    <3>2. /\ h.oldest \in {dbb[p].oldest, hdr.oldest} /\ h.oldest >= hdr.oldest
          /\ Over(h.oldest)
      BY <1>2, <2>2, <3>1, LargerGone DEF Remembered
    <3> QED
      BY <1>2, <3>1, <3>2 DEF Remembered
  <2>5. /\ h.oldest_active \in 0 .. MaxTra /\ h.oldest_active <= hdr.next
        /\ Gone(h.oldest_active)
    <3>1. dbb[p].oldest_active \in 0 .. MaxTra /\ hdr.oldest_active \in 0 .. MaxTra
      BY TraFields
    <3>2. h.oldest_active \in {dbb[p].oldest_active, hdr.oldest_active}
      BY <2>2, <3>1, LargerGone
    <3> QED
      BY <1>2, <2>2, <3>1, <3>2, LargerGone DEF Remembered
  <2>6. /\ h.oldest_snapshot \in 0 .. MaxTra /\ h.oldest_snapshot <= hdr.next
        /\ Gone(h.oldest_snapshot)
    <3>1. dbb[p].oldest_snapshot \in 0 .. MaxTra /\ hdr.oldest_snapshot \in 0 .. MaxTra
      BY TraFields
    <3>2. h.oldest_snapshot \in {dbb[p].oldest_snapshot, hdr.oldest_snapshot}
      BY <2>2, <3>1, LargerGone
    <3> QED
      BY <1>2, <2>2, <3>1, <3>2, LargerGone DEF Remembered
  <2> QED
    BY <2>2, <2>3, <2>4, <2>5, <2>6 DEF Tra
<1>5. act \in 0 .. MaxTra /\ act <= hdr.next /\ Gone(act) /\ act > 0
  <2>1. Gone(h.oldest)
    BY <1>4, OverGone
  <2>2. h.oldest_active \in Int /\ h.oldest \in Int
    BY <1>4
  <2>3. act \in {h.oldest_active, h.oldest} /\ act >= h.oldest /\ Gone(act)
    BY <1>a, <1>4, <2>1, <2>2, LargerGone
  <2> QED
    BY <1>4, <2>2, <2>3
<1>6. Typed'
  <2>1. MaxTra \in Nat
    BY DEF VersionsAssumption
  <2>2. hdr' \in [next : Tra, oldest : 0 .. MaxTra, oldest_active : 0 .. MaxTra,
              oldest_snapshot : 0 .. MaxTra]
    BY <1>1, <1>3, <1>4
  <2>3. lck' \in [Tra -> 0 .. MaxTra]
    BY <1>1, <1>5 DEF Typed
  <2>4. [number |-> h.next, oldest |-> h.oldest, active |-> act,
                    oldest_active |-> h.next, tra_oldest_active |-> h.next,
                    oldest_snapshot |-> h.oldest_snapshot,
                    cleanup |-> h.next % TRA_ACTIVE_CLEANUP = 0,
                    states |-> [t \in Tra |-> "active"]]
        \in [number : 0 .. MaxTra, oldest : 0 .. MaxTra, active : 0 .. MaxTra,
                       oldest_active : 0 .. MaxTra, tra_oldest_active : 0 .. MaxTra,
                       oldest_snapshot : 0 .. MaxTra, cleanup : BOOLEAN,
                       states : [Tra -> State]]
    <3>1. h.next \in 0 .. MaxTra
      BY <1>4, <2>1 DEF Tra
    <3>2. [t \in Tra |-> "active"] \in [Tra -> State]
      BY DEF State
    <3>3. (h.next % TRA_ACTIVE_CLEANUP = 0) \in BOOLEAN
      OBVIOUS
    <3> QED
      BY <1>4, <1>5, <3>1, <3>2, <3>3
  <2>5. tra' \in [Proc -> [number : 0 .. MaxTra, oldest : 0 .. MaxTra, active : 0 .. MaxTra,
                       oldest_active : 0 .. MaxTra, tra_oldest_active : 0 .. MaxTra,
                       oldest_snapshot : 0 .. MaxTra, cleanup : BOOLEAN,
                       states : [Tra -> State]]]
    BY <1>1, <2>4 DEF Typed
  <2>6. at' \in [Proc -> Doing]
    BY <1>1 DEF Typed, Doing
  <2>7. NoRequest \in Request
    BY NoTypes
  <2>8. req' \in [Proc -> Request]
    BY <1>1, <2>7 DEF Typed
  <2> QED
    BY <1>1, <2>2, <2>3, <2>5, <2>6, <2>8 DEF Typed
<1>7. Alone(p)
  BY <1>1 DEF Alone, Typed
<1>8. /\ tra'[p].number = h.next /\ tra'[p].oldest = h.oldest /\ tra'[p].active = act
      /\ tra'[p].oldest_active = h.next /\ tra'[p].tra_oldest_active = h.next
      /\ tra'[p].oldest_snapshot = h.oldest_snapshot /\ at'[p] = "inventory"
  BY <1>1 DEF Typed
<1>b. /\ lck' = [lck EXCEPT ![h.next] = act] /\ lck \in [Tra -> 0 .. MaxTra]
      /\ lck'[h.next] = act /\ \A t \in Tra \ {h.next} : lck'[t] = lck[t]
  BY <1>1, <1>4 DEF Typed
<1>9. EndsStay
  <2>1. tip' = tip /\ hdr' = h
    BY <1>1
  <2> QED
    BY <1>b, <1>4, <2>1 DEF EndsStay
<1>10. \A q \in Proc \ {p} : /\ NumbersOf(q)' /\ OldestOf(q)' /\ SnapshotOf(q)'
                             /\ Remembered(dbb[q])'
  <2>1. \A q \in Proc \ {p} : Active(q) =>
             /\ lck'[tra[q].number] = lck[tra[q].number]
             /\ tip'[tra[q].number] = tip[tra[q].number]
    <3> TAKE q \in Proc \ {p}
    <3>1. Active(q) => tra[q].number \in Tra /\ tra[q].number <= hdr.next
      BY DEF TraInv, NumbersInv, NumbersOf
    <3>2. tip' = tip
      BY <1>1
    <3> QED
      BY <1>b, <1>4, <3>1, <3>2
  <2>2. tra'[p].number > hdr.next
    BY <1>4, <1>8 DEF Tra
  <2> QED
    BY <1>7, <1>9, <2>1, <2>2, OthersNumbers
<1>11. \A n \in Int : n <= hdr.next + 1 => (Gone(n) => Gone(n)') /\ (Over(n) => Over(n)')
  BY <1>9, GoneStays
<1>12. NumbersOf(p)'
  <2>1. \A q \in Proc \ {p} : Active(q)' => tra'[q].number # tra'[p].number
    <3> TAKE q \in Proc \ {p}
    <3>1. Active(q) => tra[q].number \in Tra /\ tra[q].number <= hdr.next
      BY DEF TraInv, NumbersInv, NumbersOf
    <3> QED
      BY <1>4, <1>7, <1>8, <3>1 DEF Alone, Active, Tra
  <2>2. tip'[h.next] = "active" /\ lck'[h.next] # 0
    <3>1. tip' = tip /\ \A t \in Tra : t > hdr.next => tip[t] = "active"
      BY <1>1 DEF TraInv, NumbersInv
    <3> QED
      BY <1>b, <1>4, <1>5, <3>1
  <2> QED
    BY <1>1, <1>4, <1>8, <2>1, <2>2 DEF NumbersOf
<1>13. OldestOf(p)'
  <2>1. Over(h.oldest)' /\ Gone(act)' /\ Gone(h.oldest_snapshot)'
    BY <1>4, <1>5, <1>11 DEF Tra
  <2> QED
    BY <1>4, <1>5, <1>8, <2>1 DEF OldestOf, Active, Settling, Ready, Tra
<1>14. SnapshotOf(p)'
  BY <1>8 DEF SnapshotOf, InSnapshot
<1>15. Remembered(dbb[p])' /\ Remembered(hdr)' /\ hdr'.oldest > 0
  <2>1. dbb' = dbb /\ hdr'.next = hdr.next + 1 /\ hdr.next \in Int
    BY <1>1, <1>4 DEF Tra
  <2>2. Remembered(dbb[p])'
    BY <1>2, <1>11, <2>1, TraFields DEF Remembered
  <2>3. Remembered(hdr)'
    BY <1>1, <1>4, <1>11, <2>1 DEF Remembered
  <2> QED
    BY <1>1, <1>4, <2>2, <2>3
<1>16. (\A t \in Tra : t > hdr'.next => tip'[t] = "active") /\ (\A t \in Tra : lck'[t] <= t)
  <2>1. /\ tip' = tip /\ hdr' = h
        /\ \A t \in Tra : t > hdr.next => tip[t] = "active"
        /\ \A t \in Tra : lck[t] <= t
    BY <1>1 DEF TraInv, NumbersInv
  <2> QED
    BY <1>b, <1>4, <1>5, <2>1 DEF Tra
<1>17. TraInv'
  BY <1>10, <1>12, <1>13, <1>14, <1>15, <1>16
     DEF TraInv, NumbersInv, OldestInv, SnapshotInv
<1> QED
  BY <1>1, <1>4, <1>6, <1>7, <1>8, <1>9, <1>17

(* The types of what is shared by all transactions. *)
LEMMA SharedFields ==
    ASSUME Typed
    PROVE  /\ hdr.next \in Tra /\ hdr.next \in Int /\ hdr.oldest \in Int
           /\ hdr.oldest_active \in Int /\ hdr.oldest_snapshot \in Int
           /\ tip \in [Tra -> State] /\ lck \in [Tra -> 0 .. MaxTra]
           /\ at \in [Proc -> Doing] /\ ver \in Versions
           /\ dbb \in [Proc -> Oldest]
BY DEF Typed, Versions, Tra

Transaction == [number : 0 .. MaxTra, oldest : 0 .. MaxTra, active : 0 .. MaxTra,
                oldest_active : 0 .. MaxTra, tra_oldest_active : 0 .. MaxTra,
                oldest_snapshot : 0 .. MaxTra, cleanup : BOOLEAN,
                states : [Tra -> State]]

(* What is typed when numbers, locks and snapshots change. *)
LEMMA TypedAgain ==
    ASSUME Typed, hdr' = hdr, tip' \in [Tra -> State], lck' \in [Tra -> 0 .. MaxTra],
           dbb' \in [Proc -> Oldest], tra' \in [Proc -> Transaction],
           at' \in [Proc -> Doing], req' \in [Proc -> Request],
           rpb' \in [Proc -> [v : Version, slot : Place \cup {None}]],
           UNCHANGED <<ver, log>>, crashes' \in Nat
    PROVE  Typed'
BY DEF Typed, Transaction

(* TRA_get_inventory takes the snapshot. *)
LEMMA InventoryNumbers ==
    ASSUME VersionsAssumption, Typed, TraInv, NEW p \in Proc, TRA_get_inventory(p)
    PROVE  Typed' /\ TraInv' /\ EndsStay /\ Alone(p)
<1>1. /\ at[p] = "inventory" /\ tra' = [tra EXCEPT ![p].states = tip]
      /\ at' = [at EXCEPT ![p] = "scan"]
      /\ UNCHANGED <<hdr, tip, lck, dbb, ver, rpb, req, log, crashes>>
  BY DEF TRA_get_inventory
<1>2. tra \in [Proc -> Transaction]
  BY DEF Typed, Transaction
<1>3. /\ tip \in [Tra -> State] /\ at \in [Proc -> Doing] /\ hdr.next \in Int
  BY SharedFields
<1>4. Typed'
  <2>1. tra' \in [Proc -> Transaction]
    BY <1>1, <1>2, <1>3 DEF Transaction
  <2>2. at' \in [Proc -> Doing]
    BY <1>1, <1>3 DEF Doing
  <2> QED
    BY <1>1, <2>1, <2>2 DEF Typed, Transaction
<1>5. Alone(p)
  BY <1>1, <1>2, <1>3 DEF Alone
<1>6. EndsStay
  BY <1>1, <1>3 DEF EndsStay
<1>7. /\ at'[p] = "scan" /\ tra'[p].states = tip /\ tra'[p].number = tra[p].number
      /\ tra'[p].oldest = tra[p].oldest /\ tra'[p].active = tra[p].active
      /\ tra'[p].oldest_active = tra[p].oldest_active
      /\ tra'[p].tra_oldest_active = tra[p].tra_oldest_active
      /\ tra'[p].oldest_snapshot = tra[p].oldest_snapshot
  BY <1>1, <1>2, <1>3 DEF Transaction
<1>8. \A q \in Proc \ {p} : /\ NumbersOf(q)' /\ OldestOf(q)' /\ SnapshotOf(q)'
                            /\ Remembered(dbb[q])'
  BY <1>1, <1>5, <1>6, <1>7, OthersNumbers DEF Active
<1>9. NumbersOf(p)'
  BY <1>1, <1>5, <1>7 DEF TraInv, NumbersInv, NumbersOf, Active, Alone
<1>10. OldestOf(p)'
  BY <1>1, <1>7 DEF TraInv, OldestInv, OldestOf, Active, Settling, Ready, Gone, Over
<1>11. SnapshotOf(p)'
  BY <1>1, <1>7 DEF SnapshotOf
<1>12. Remembered(hdr)' /\ Remembered(dbb[p])' /\ hdr'.oldest > 0
  BY <1>1 DEF TraInv, OldestInv, Remembered, Over, Gone
<1>13. (\A t \in Tra : t > hdr'.next => tip'[t] = "active") /\ (\A t \in Tra : lck'[t] <= t)
  BY <1>1 DEF TraInv, NumbersInv
<1> QED
  BY <1>4, <1>5, <1>6, <1>8, <1>9, <1>10, <1>11, <1>12, <1>13
     DEF TraInv, NumbersInv, OldestInv, SnapshotInv

(* The scan of a snapshot has nobody running before the first transaction it
   finds active, nor at all if it finds none. *)
LEMMA ScanFinds ==
    ASSUME VersionsAssumption, Typed, TraInv, NEW p \in Proc, at[p] = "scan",
           NEW actives, actives = {t \in tra[p].active .. tra[p].number - 1 :
                                     tra[p].states[t] = "active"}
    PROVE  /\ tra[p].number \in Tra /\ tra[p].number \in Int /\ tra[p].number <= hdr.next
           /\ actives = {} => Gone(tra[p].number)
           /\ actives # {} => /\ Min(actives) \in Tra /\ Min(actives) \in Int
                              /\ Min(actives) < tra[p].number
                              /\ Min(actives) >= tra[p].active
                              /\ Min(actives) \in actives
                              /\ Gone(Min(actives))
<1>1. OldestOf(p) /\ NumbersOf(p) /\ SnapshotOf(p)
  BY DEF TraInv, NumbersInv, OldestInv, SnapshotInv
<1>2. /\ tra[p].active > 0 /\ tra[p].active \in Int /\ Gone(tra[p].active)
      /\ tra[p].number \in Tra /\ tra[p].number <= hdr.next
      /\ \A t \in Tra : tra[p].states[t] # "active" => tip[t] = tra[p].states[t]
  BY <1>1, TraFields DEF OldestOf, NumbersOf, SnapshotOf, Settling, Active, InSnapshot
<1>3. MaxTra \in Nat /\ tra[p].number \in Int /\ tra[p].number <= MaxTra
  BY <1>2 DEF VersionsAssumption, Tra
<1>4. actives \in SUBSET Nat /\ actives \in SUBSET Tra
  BY <1>2, <1>3 DEF Tra
<1>5. ASSUME actives = {}
      PROVE  Gone(tra[p].number)
  BY <1>2, <1>3, <1>5 DEF Gone, Tra
<1>6. ASSUME actives # {}
      PROVE  /\ Min(actives) \in actives /\ Gone(Min(actives))
  <2>1. Min(actives) \in actives /\ \A t \in actives : Min(actives) <= t
    BY <1>4, <1>6, MinIs
  <2>2. \A t \in Tra : t < Min(actives) => t < tra[p].active \/ tra[p].states[t] # "active"
    BY <1>2, <1>3, <2>1 DEF Tra
  <2> QED
    BY <1>2, <2>1, <2>2 DEF Gone
<1>7. \A t \in actives : /\ t \in Tra /\ t \in Int /\ t < tra[p].number
                          /\ t >= tra[p].active
  BY <1>2, <1>3, <1>4
<1> QED
  BY <1>2, <1>3, <1>5, <1>6, <1>7

(* Scan passes dead transactions, or stops at the first that may run. *)
LEMMA ScanNumbers ==
    ASSUME VersionsAssumption, Typed, TraInv, NEW p \in Proc, Scan(p)
    PROVE  /\ Typed' /\ TraInv' /\ EndsStay /\ Alone(p)
           /\ \A t \in Tra : tip'[t] # tip[t] => lck[t] = 0 /\ tip'[t] = "dead"
           /\ at'[p] \in {"scan", "query", "settle"} /\ tra'[p].number = tra[p].number
           /\ UNCHANGED <<hdr, lck, dbb, ver, rpb, req, log, crashes>>
<1>x. PICK x : x = tra[p]
  OBVIOUS
<1>0. PICK actives : actives = {t \in x.active .. x.number - 1 : x.states[t] = "active"}
  OBVIOUS
<1>a. PICK first : first = Min(actives)
  OBVIOUS
<1>b. PICK needed : needed = Smaller(x.number, IF lck[first] = 0 THEN first ELSE lck[first])
  OBVIOUS
<1>1. /\ at[p] = "scan"
      /\ UNCHANGED <<hdr, lck, dbb, ver, rpb, req, log, crashes>>
      /\ \/ /\ actives = {}
            /\ at' = [at EXCEPT ![p] = "settle"]
            /\ UNCHANGED <<tra, tip>>
         \/ /\ actives # {} /\ lck[first] = 0
            /\ tip' = [tip EXCEPT ![first] = Settled(first)]
            /\ tra' = [tra EXCEPT ![p].states[first] = Settled(first),
                                  ![p].cleanup = Settled(first) # "committed",
                                  ![p].active = first + 1]
            /\ UNCHANGED at
         \/ /\ actives # {}
            /\ tra' = [tra EXCEPT ![p].oldest_active = first,
                                  ![p].tra_oldest_active = needed]
            /\ at' = [at EXCEPT ![p] = IF needed = x.oldest_snapshot
                                       THEN "settle" ELSE "query"]
            /\ UNCHANGED tip
  BY <1>x, <1>0, <1>a, <1>b DEF Scan
<1>2. /\ x.number \in Tra /\ x.number \in Int /\ x.number <= hdr.next
      /\ actives = {} => Gone(x.number)
      /\ actives # {} => /\ first \in Tra /\ first \in Int /\ first < x.number
                         /\ first >= x.active /\ first \in actives /\ Gone(first)
  <2>1. actives = {t \in tra[p].active .. tra[p].number - 1 : tra[p].states[t] = "active"}
    BY <1>x, <1>0
  <2>2. /\ tra[p].number \in Tra /\ tra[p].number \in Int /\ tra[p].number <= hdr.next
        /\ actives = {} => Gone(tra[p].number)
        /\ actives # {} => /\ Min(actives) \in Tra /\ Min(actives) \in Int
                           /\ Min(actives) < tra[p].number
                           /\ Min(actives) >= tra[p].active
                           /\ Min(actives) \in actives
                           /\ Gone(Min(actives))
    BY <1>1, <2>1, ScanFinds
  <2> QED
    BY <1>x, <1>a, <2>2
<1>3. /\ tip \in [Tra -> State] /\ lck \in [Tra -> 0 .. MaxTra] /\ at \in [Proc -> Doing]
      /\ hdr.next \in Int /\ tra \in [Proc -> Transaction] /\ MaxTra \in Nat
      /\ x.oldest \in Int /\ x.active \in Int /\ x.oldest_active \in Int
      /\ x.oldest_snapshot \in Int /\ x.tra_oldest_active \in Int
  <2>1. tra \in [Proc -> Transaction] /\ MaxTra \in Nat
    BY DEF Typed, Transaction, VersionsAssumption
  <2> QED
    BY <1>x, <2>1, SharedFields, TraFields
<1>4. /\ NumbersOf(p) /\ OldestOf(p) /\ SnapshotOf(p)
      /\ x.oldest <= x.number /\ x.oldest > 0 /\ Over(x.oldest) /\ x.tra_oldest_active <= x.number
      /\ x.active <= x.number /\ Gone(x.active) /\ x.active > 0
      /\ x.oldest_snapshot <= x.number /\ Gone(x.oldest_snapshot)
      /\ x.oldest_active <= x.number /\ x.oldest_active > 0
      /\ lck[x.number] # 0
  <2>1. NumbersOf(p) /\ OldestOf(p) /\ SnapshotOf(p)
    BY DEF TraInv, NumbersInv, OldestInv, SnapshotInv
  <2> QED
    BY <1>x, <1>1, <2>1 DEF NumbersOf, OldestOf, Settling, Active
<1>5. \A t \in Tra : Settled(t) \in State /\ Settled(t) # "active"
                     /\ (tip[t] # "active" => Settled(t) = tip[t])
                     /\ (Settled(t) # tip[t] => Settled(t) = "dead")
  BY <1>3 DEF Settled, State
<1>6. actives # {} => needed \in Int /\ needed <= first /\ needed \in 0 .. MaxTra /\ Gone(needed)
  <2> SUFFICES ASSUME actives # {}
               PROVE  needed \in Int /\ needed <= first /\ needed \in 0 .. MaxTra /\ Gone(needed)
    OBVIOUS
  <2>1. lck[first] \in 0 .. MaxTra /\ lck[first] <= first
    BY <1>2, <1>3 DEF TraInv, NumbersInv
  <2>2. first \in 0 .. MaxTra /\ x.number \in 0 .. MaxTra
    BY <1>2, <1>3 DEF Tra
  <2>3. needed <= first /\ needed \in 0 .. MaxTra
    BY <1>b, <2>1, <2>2 DEF Smaller
  <2> QED
    BY <1>2, <2>3 DEF Gone, Tra
<1>7. \A t \in Tra : tip'[t] # tip[t] => lck[t] = 0 /\ tip'[t] = "dead"
  BY <1>1, <1>2, <1>3, <1>5
<1>8. tip' \in [Tra -> State] /\ \A t \in Tra : tip[t] # "active" => tip'[t] = tip[t]
  BY <1>1, <1>2, <1>3, <1>5
<1>9. EndsStay
  BY <1>1, <1>3, <1>8 DEF EndsStay
<1>10. Typed'
  <2>1. at' \in [Proc -> Doing]
    BY <1>1, <1>3 DEF Doing
  <2>2. tra' \in [Proc -> Transaction]
    <3>1. CASE UNCHANGED tra
      BY <1>3, <3>1
    <3>2. CASE /\ actives # {}
               /\ tra' = [tra EXCEPT ![p].states[first] = Settled(first),
                                  ![p].cleanup = Settled(first) # "committed",
                                  ![p].active = first + 1]
      <4>1. first + 1 \in 0 .. MaxTra
        <5>1. first \in Tra /\ x.number \in Tra /\ first < x.number /\ MaxTra \in Nat
          BY <1>2, <1>3, <3>2
        <5> QED
          BY <5>1 DEF Tra
      <4> QED
        <5>1. /\ first \in Tra /\ Settled(first) \in State
              /\ (Settled(first) # "committed") \in BOOLEAN
          BY <1>2, <1>5, <3>2
        <5>2. tra[p].states \in [Tra -> State]
          BY <1>3 DEF Transaction
        <5>3. [tra[p] EXCEPT !.states = [tra[p].states EXCEPT ![first] = Settled(first)],
                             !.cleanup = Settled(first) # "committed",
                             !.active = first + 1] \in Transaction
          BY <1>3, <4>1, <5>1, <5>2 DEF Transaction
        <5> QED
          BY <1>3, <3>2, <5>3
    <3>3. CASE /\ actives # {}
               /\ tra' = [tra EXCEPT ![p].oldest_active = first,
                                  ![p].tra_oldest_active = needed]
      <4>1. first \in 0 .. MaxTra
        BY <1>2, <1>3, <3>3 DEF Tra
      <4> QED
        <5>1. PICK y : y = [tra[p] EXCEPT !.oldest_active = first,
                                          !.tra_oldest_active = needed]
          OBVIOUS
        <5>2. tra[p] \in Transaction /\ needed \in 0 .. MaxTra
          BY <1>3, <1>6, <3>3
        <5>3. y \in Transaction
          BY <4>1, <5>1, <5>2 DEF Transaction
        <5>4. tra' = [tra EXCEPT ![p] = y]
          BY <1>3, <3>3, <5>1
        <5> QED
          BY <1>3, <5>3, <5>4
    <3> QED
      BY <1>1, <3>1, <3>2, <3>3
  <2> QED
    BY <1>1, <1>8, <2>1, <2>2 DEF Typed, Transaction
<1>11. Alone(p)
  BY <1>1, <1>3 DEF Alone
<1>12. /\ tra'[p].number = x.number /\ tra'[p].oldest = x.oldest
       /\ tra'[p].oldest_snapshot = x.oldest_snapshot
       /\ at'[p] \in {"scan", "query", "settle"}
  BY <1>x, <1>1, <1>3 DEF Transaction
<1>13. \A q \in Proc \ {p} : /\ NumbersOf(q)' /\ OldestOf(q)' /\ SnapshotOf(q)'
                             /\ Remembered(dbb[q])'
  <2>1. \A q \in Proc \ {p} : Active(q) =>
             /\ lck'[tra[q].number] = lck[tra[q].number]
             /\ tip'[tra[q].number] = tip[tra[q].number]
    <3> TAKE q \in Proc \ {p}
    <3>1. Active(q) => tra[q].number \in Tra /\ lck[tra[q].number] # 0
      BY DEF TraInv, NumbersInv, NumbersOf
    <3> QED
      BY <1>1, <1>7, <3>1
  <2> QED
    BY <1>x, <1>1, <1>9, <1>11, <1>12, <2>1, OthersNumbers DEF Active
<1>14. NumbersOf(p)'
  <2>1. tip'[x.number] = tip[x.number]
    BY <1>2, <1>4, <1>7
  <2> QED
    BY <1>x, <1>1, <1>4, <1>11, <1>12, <2>1 DEF NumbersOf, Active, Alone
<1>15. \A n \in Int : n <= hdr.next + 1 => (Gone(n) => Gone(n)') /\ (Over(n) => Over(n)')
  BY <1>9, GoneStays
<1>16. OldestOf(p)'
  <2>1. Over(x.oldest)' /\ tra'[p].oldest = x.oldest
    BY <1>2, <1>3, <1>4, <1>12, <1>15
  <2>2. (x.oldest_snapshot <= x.number /\ Gone(x.oldest_snapshot)')
    BY <1>2, <1>3, <1>4, <1>15
  <2>3. Gone(x.active)'
    BY <1>2, <1>3, <1>4, <1>15
  <2>4. CASE actives = {} /\ at' = [at EXCEPT ![p] = "settle"] /\ UNCHANGED <<tra, tip>>
    <3>1. Gone(x.oldest_active) /\ Gone(x.tra_oldest_active)
      BY <1>2, <1>3, <1>4, <2>4 DEF Gone, Tra
    <3>2. Gone(x.oldest_active)' /\ Gone(x.tra_oldest_active)'
      BY <1>2, <1>3, <1>4, <1>15, <3>1
    <3>3. at'[p] = "settle" /\ tra'[p] = x
      BY <1>x, <1>3, <2>4
    <3> QED
      BY <1>4, <2>1, <2>2, <2>3, <3>2, <3>3 DEF OldestOf
  <2>5. CASE /\ actives # {} /\ lck[first] = 0
             /\ tip' = [tip EXCEPT ![first] = Settled(first)]
             /\ tra' = [tra EXCEPT ![p].states[first] = Settled(first),
                                  ![p].cleanup = Settled(first) # "committed",
                                  ![p].active = first + 1]
             /\ UNCHANGED at
    <3>1. /\ at'[p] = "scan" /\ tra'[p].active = first + 1
          /\ tra'[p].oldest_active = x.oldest_active
          /\ tra'[p].tra_oldest_active = x.tra_oldest_active
      BY <1>x, <1>1, <1>3, <2>5 DEF Transaction
    <3>2. Gone(first)' /\ tip'[first] # "active"
      BY <1>2, <1>3, <1>5, <1>15, <2>5
    <3>3. Gone(first + 1)'
      BY <1>2, <2>5, <3>2 DEF Gone, Tra
    <3>4. first + 1 <= x.number /\ first + 1 > 0
      BY <1>2, <1>3, <1>4, <2>5
    <3> QED
      BY <1>4, <1>12, <2>1, <2>2, <3>1, <3>3, <3>4 DEF OldestOf, Active, Settling, Ready
  <2>6. CASE /\ actives # {}
             /\ tra' = [tra EXCEPT ![p].oldest_active = first,
                                  ![p].tra_oldest_active = needed]
    <3>1. /\ tra'[p].active = x.active
          /\ tra'[p].oldest_active = first
          /\ tra'[p].tra_oldest_active = needed
      BY <1>x, <1>3, <2>6 DEF Transaction
    <3>2. Gone(first)' /\ Gone(needed)'
      BY <1>2, <1>3, <1>6, <1>15, <2>6
    <3>3. first <= x.number /\ first > 0 /\ needed <= x.number
      BY <1>2, <1>3, <1>4, <1>6, <2>6
    <3> QED
      BY <1>4, <1>12, <2>1, <2>2, <2>3, <3>1, <3>2, <3>3 DEF OldestOf, Active, Settling, Ready
  <2> QED
    BY <1>1, <2>4, <2>5, <2>6
<1>17. SnapshotOf(p)'
  <2> SUFFICES ASSUME NEW t \in Tra, tra'[p].states[t] # "active"
               PROVE  tip'[t] = tra'[p].states[t]
    BY DEF SnapshotOf
  <2>1. x.states[t] # "active" => tip[t] = x.states[t]
    BY <1>x, <1>1, <1>4 DEF SnapshotOf, InSnapshot
  <2>2. x.states[t] # "active" /\ tra'[p].states[t] = x.states[t] => tip'[t] = tra'[p].states[t]
    BY <1>8, <2>1
  <2>3. \/ tra'[p].states[t] = x.states[t]
        \/ t = first /\ tra'[p].states[t] = Settled(t) /\ tip'[t] = Settled(t)
    BY <1>x, <1>1, <1>2, <1>3 DEF Transaction
  <2> QED
    BY <2>2, <2>3
<1>18. Remembered(hdr)' /\ Remembered(dbb[p])' /\ hdr'.oldest > 0
  <2>1. Remembered(hdr) /\ Remembered(dbb[p]) /\ hdr.oldest > 0 /\ hdr' = hdr /\ dbb' = dbb
    BY <1>1 DEF TraInv, OldestInv
  <2>2. /\ dbb[p].oldest \in Int /\ dbb[p].oldest_active \in Int
        /\ dbb[p].oldest_snapshot \in Int /\ hdr.oldest \in Int
        /\ hdr.oldest_active \in Int /\ hdr.oldest_snapshot \in Int
    BY TraFields
  <2> QED
    BY <1>3, <1>15, <2>1, <2>2 DEF Remembered
<1>19. (\A t \in Tra : t > hdr'.next => tip'[t] = "active") /\ (\A t \in Tra : lck'[t] <= t)
  <2>1. \A t \in Tra : t > hdr.next => tip'[t] = tip[t]
    BY <1>1, <1>2, <1>3
  <2> QED
    BY <1>1, <2>1 DEF TraInv, NumbersInv
<1> QED
  BY <1>x, <1>1, <1>7, <1>9, <1>10, <1>11, <1>12, <1>13, <1>14, <1>16, <1>17, <1>18, <1>19
     DEF TraInv, NumbersInv, OldestInv, SnapshotInv

(* The types of what a process has read and wants. *)
LEMMA OwnFields ==
    ASSUME Typed, NEW p \in Proc
    PROVE  /\ rpb[p] \in [v : Version, slot : Place \cup {None}]
           /\ req[p] \in Request /\ tra[p] \in Transaction
           /\ rpb[p].v.tra \in 0 .. MaxTra
BY DEF Typed, Transaction, Version

(* A step of p that keeps the header page keeps what holds of all numbers,
   locks and snapshots if it does so for p. *)
LEMMA NumbersAgain ==
    ASSUME Typed, TraInv, EndsStay, NEW p \in Proc, Alone(p), hdr' = hdr,
           \A q \in Proc \ {p} : Active(q) =>
             /\ lck'[tra[q].number] = lck[tra[q].number]
             /\ tip'[tra[q].number] = tip[tra[q].number],
           Active(p)' => Active(p) /\ tra'[p].number = tra[p].number,
           NumbersOf(p)', OldestOf(p)', SnapshotOf(p)', Remembered(dbb[p])',
           \A t \in Tra : t > hdr.next => tip'[t] = tip[t],
           \A t \in Tra : lck'[t] = lck[t] \/ lck'[t] <= t
    PROVE  TraInv'
<1>1. \A q \in Proc \ {p} : /\ NumbersOf(q)' /\ OldestOf(q)' /\ SnapshotOf(q)'
                            /\ Remembered(dbb[q])'
  BY OthersNumbers
<1>2. \A n \in Int : n <= hdr.next + 1 => (Gone(n) => Gone(n)') /\ (Over(n) => Over(n)')
  BY GoneStays
<1>3. Remembered(hdr)' /\ hdr'.oldest > 0
  BY <1>2, SharedFields DEF TraInv, OldestInv, Remembered
<1>4. (\A t \in Tra : t > hdr'.next => tip'[t] = "active") /\ (\A t \in Tra : lck'[t] <= t)
  BY DEF TraInv, NumbersInv
<1> QED
  BY <1>1, <1>3, <1>4 DEF TraInv, NumbersInv, OldestInv, SnapshotInv

(* Query finds the least of all locks' data. *)
LEMMA QueryNumbers ==
    ASSUME VersionsAssumption, Typed, TraInv, NEW p \in Proc, Query(p)
    PROVE  Typed' /\ TraInv' /\ EndsStay /\ Alone(p)
<1>0. PICK least : least = LCK_query_data
  OBVIOUS
<1>a. PICK x : x = tra[p]
  OBVIOUS
<1>b. PICK n : n = Smaller(x.tra_oldest_active, least)
  OBVIOUS
<1>1. /\ at[p] = "query" /\ tra' = [tra EXCEPT ![p].tra_oldest_active = n]
      /\ at' = [at EXCEPT ![p] = "settle"]
      /\ UNCHANGED <<hdr, tip, lck, dbb, ver, rpb, req, log, crashes>>
  BY <1>0, <1>a, <1>b DEF Query
<1>2. /\ tip \in [Tra -> State] /\ at \in [Proc -> Doing] /\ hdr.next \in Int
      /\ lck \in [Tra -> 0 .. MaxTra] /\ MaxTra \in Nat /\ tra \in [Proc -> Transaction]
  BY SharedFields DEF Typed, Transaction, VersionsAssumption
<1>3. NumbersOf(p) /\ OldestOf(p) /\ SnapshotOf(p) /\ Remembered(dbb[p])
  BY DEF TraInv, NumbersInv, OldestInv, SnapshotInv
<1>4. least \in 0 .. MaxTra
  <2>1. PICK T : T = {lck[t] : t \in {u \in Tra : lck[u] # 0}}
    OBVIOUS
  <2>2. x.number \in Tra /\ lck[x.number] # 0
    BY <1>a, <1>1, <1>3 DEF NumbersOf, Active
  <2>3. T \in SUBSET (0 .. MaxTra) /\ T # {}
    <3>1. \A t \in Tra : lck[t] \in 0 .. MaxTra
      BY <1>2
    <3>2. T \in SUBSET (0 .. MaxTra)
      BY <2>1, <3>1
    <3>3. lck[x.number] \in T
      BY <2>1, <2>2
    <3> QED
      BY <3>2, <3>3
  <2>4. T \in SUBSET Nat
    BY <2>3
  <2> QED
    BY <1>0, <2>1, <2>3, <2>4, MinIs DEF LCK_query_data
<1>5. n \in 0 .. MaxTra /\ n <= x.tra_oldest_active /\ x.tra_oldest_active \in 0 .. MaxTra
  <2>1. x.tra_oldest_active \in 0 .. MaxTra
    BY <1>a, TraFields
  <2> QED
    BY <1>b, <1>4, <2>1 DEF Smaller
<1>6. Typed'
  <2>1. tra' \in [Proc -> Transaction]
    BY <1>1, <1>2, <1>5 DEF Transaction
  <2>2. at' \in [Proc -> Doing]
    BY <1>1, <1>2 DEF Doing
  <2> QED
    BY <1>1, <2>1, <2>2 DEF Typed, Transaction
<1>7. Alone(p)
  BY <1>1, <1>2 DEF Alone
<1>8. EndsStay
  BY <1>1, <1>2 DEF EndsStay
<1>9. /\ at'[p] = "settle" /\ tra'[p].number = x.number /\ tra'[p].states = x.states
      /\ tra'[p].oldest = x.oldest /\ tra'[p].active = x.active
      /\ tra'[p].oldest_active = x.oldest_active
      /\ tra'[p].tra_oldest_active = n
      /\ tra'[p].oldest_snapshot = x.oldest_snapshot
  BY <1>a, <1>1, <1>2 DEF Transaction
<1>10. NumbersOf(p)'
  BY <1>a, <1>1, <1>3, <1>7, <1>9 DEF NumbersOf, Active, Alone
<1>11. OldestOf(p)'
  <2>1. /\ x.oldest <= x.number /\ x.oldest > 0 /\ Over(x.oldest) /\ x.tra_oldest_active <= x.number
        /\ x.active <= x.number /\ Gone(x.active) /\ x.active > 0
        /\ x.oldest_snapshot <= x.number /\ Gone(x.oldest_snapshot)
        /\ x.oldest_active <= x.number /\ x.oldest_active > 0
        /\ Gone(x.oldest_active) /\ Gone(x.tra_oldest_active)
    BY <1>a, <1>1, <1>3 DEF OldestOf, Active, Settling
  <2>2. Gone(n) /\ n <= x.number
    <3>1. x.number \in 0 .. MaxTra
      BY <1>a, TraFields
    <3> QED
      BY <1>5, <2>1, <3>1 DEF Gone, Tra
  <2>3. /\ Over(x.oldest)' /\ Gone(x.active)' /\ Gone(x.oldest_snapshot)'
        /\ Gone(x.oldest_active)' /\ Gone(n)'
    BY <1>1, <2>1, <2>2 DEF Over, Gone
  <2> QED
    BY <1>9, <2>1, <2>2, <2>3 DEF OldestOf
<1>12. SnapshotOf(p)'
  BY <1>a, <1>1, <1>3, <1>9 DEF SnapshotOf, InSnapshot
<1>13. Remembered(dbb[p])'
  BY <1>1, <1>3 DEF Remembered, Over, Gone
<1>14. \A t \in Tra : lck'[t] = lck[t]
  BY <1>1
<1> QED
  BY <1>a, <1>1, <1>6, <1>7, <1>8, <1>9, <1>10, <1>11, <1>12, <1>13, <1>14, NumbersAgain
     DEF Active

(* What a transaction finds waiting lies within its snapshot. *)
LEMMA InterestingIs ==
    ASSUME VersionsAssumption, NEW x \in Transaction, x.number \in Tra, x.oldest <= x.number,
           Over(x.oldest), \A t \in Tra : x.states[t] # "active" => tip[t] = x.states[t],
           NEW n, n = Interesting(x)
    PROVE  n \in 1 .. x.number /\ Over(n - 1)
<1>0. PICK waiting : waiting = {t \in x.oldest .. x.number - 1 :
                                  t > 0 /\ x.states[t] # "committed"}
  OBVIOUS
<1>1. /\ n = IF waiting = {} THEN x.number ELSE Min(waiting)
      /\ x.oldest \in Int /\ x.number \in Int /\ x.oldest >= 0 /\ x.number > 0
      /\ MaxTra \in Nat /\ x.number <= MaxTra
  BY <1>0 DEF Interesting, Transaction, Tra, VersionsAssumption
<1>2. waiting \in SUBSET Nat
  BY <1>0, <1>1
<1>3. ASSUME waiting # {}
      PROVE  n \in waiting /\ \A t \in waiting : n <= t
  <2>1. Min(waiting) \in waiting /\ \A t \in waiting : Min(waiting) <= t
    BY <1>2, <1>3, MinIs
  <2>2. n = Min(waiting)
    BY <1>1, <1>3
  <2> QED
    BY <2>1, <2>2
<1>4. n \in 1 .. x.number
  BY <1>0, <1>1, <1>3
<1>5. \A t \in Tra : t < n - 1 => tip[t] = "committed"
  <2> TAKE t \in Tra
  <2> HAVE t < n - 1
  <2>1. CASE t < x.oldest
    BY <2>1 DEF Over
  <2>2. CASE ~(t < x.oldest)
    <3>1. t \in x.oldest .. x.number - 1 /\ t > 0
      BY <1>1, <1>4, <2>2 DEF Tra
    <3>2. t \notin waiting
      BY <1>0, <1>3, <1>4, <3>1
    <3> QED
      BY <1>0, <3>1, <3>2
  <2> QED
    BY <2>1, <2>2
<1> QED
  BY <1>4, <1>5 DEF Over

(* Settle: the lock says what the snapshot has found, and so does the
   process for its next transactions. *)
LEMMA SettleNumbers ==
    ASSUME VersionsAssumption, Typed, TraInv, NEW p \in Proc, Settle(p)
    PROVE  Typed' /\ TraInv' /\ EndsStay /\ Alone(p)
<1>a. PICK x : x = tra[p]
  OBVIOUS
<1>b. PICK n : n = Interesting(x)
  OBVIOUS
<1>c. PICK m : m = Larger(dbb[p].oldest_snapshot, x.tra_oldest_active)
  OBVIOUS
<1>1. /\ at[p] = "settle"
      /\ lck' = [lck EXCEPT ![x.number] = x.oldest_active]
      /\ dbb' = [dbb EXCEPT ![p] = [oldest |-> n - 1, oldest_active |-> x.oldest_active,
                                    oldest_snapshot |-> m]]
      /\ tra' = [tra EXCEPT ![p].active = 0, ![p].oldest_active = 0,
                            ![p].oldest_snapshot = 0, ![p].cleanup = FALSE]
      /\ at' = [at EXCEPT ![p] = "ready"]
      /\ UNCHANGED <<hdr, tip, ver, rpb, req, log, crashes>>
  BY <1>a, <1>b, <1>c DEF Settle
<1>2. /\ tip \in [Tra -> State] /\ at \in [Proc -> Doing] /\ hdr.next \in Int
      /\ lck \in [Tra -> 0 .. MaxTra] /\ MaxTra \in Nat /\ tra \in [Proc -> Transaction]
      /\ dbb \in [Proc -> Oldest] /\ hdr.next \in Tra
  BY SharedFields DEF Typed, Transaction, VersionsAssumption
<1>3. NumbersOf(p) /\ OldestOf(p) /\ SnapshotOf(p) /\ Remembered(dbb[p])
  BY DEF TraInv, NumbersInv, OldestInv, SnapshotInv
<1>4. /\ x.number \in Tra /\ x.number <= hdr.next /\ lck[x.number] # 0
      /\ x.oldest <= x.number /\ x.oldest > 0 /\ Over(x.oldest) /\ x.tra_oldest_active <= x.number
      /\ x.oldest_active <= x.number /\ x.oldest_active > 0
      /\ Gone(x.oldest_active) /\ Gone(x.tra_oldest_active)
      /\ \A t \in Tra : x.states[t] # "active" => tip[t] = x.states[t]
  BY <1>a, <1>1, <1>3 DEF NumbersOf, OldestOf, SnapshotOf, Active, Settling, InSnapshot
<1>5. /\ x \in Transaction /\ x.number \in 0 .. MaxTra /\ x.oldest \in 0 .. MaxTra
      /\ x.tra_oldest_active \in 0 .. MaxTra /\ x.oldest_active \in 0 .. MaxTra
      /\ dbb[p].oldest_snapshot \in 0 .. MaxTra
  BY <1>a, OwnFields, TraFields
<1>6. n \in 1 .. x.number /\ Over(n - 1) /\ n - 1 \in 0 .. MaxTra /\ n - 1 <= x.number
  <2>1. n \in 1 .. x.number /\ Over(n - 1)
    BY <1>b, <1>4, <1>5, InterestingIs
  <2> QED
    BY <1>2, <1>5, <2>1
<1>7. m \in 0 .. MaxTra /\ m <= hdr.next /\ Gone(m)
  <2>1. m \in {dbb[p].oldest_snapshot, x.tra_oldest_active}
    BY <1>c, <1>5, LargerGone
  <2>2. dbb[p].oldest_snapshot <= hdr.next /\ Gone(dbb[p].oldest_snapshot)
    BY <1>3 DEF Remembered
  <2> QED
    BY <1>2, <1>4, <1>5, <2>1, <2>2
<1>8. Typed'
  <2>1. lck' \in [Tra -> 0 .. MaxTra]
    BY <1>1, <1>2, <1>5
  <2>2. dbb' \in [Proc -> Oldest]
    BY <1>1, <1>2, <1>5, <1>6, <1>7 DEF Oldest
  <2>3. tra' \in [Proc -> Transaction]
    <3>1. 0 \in 0 .. MaxTra /\ FALSE \in BOOLEAN
      BY <1>2
    <3>2. [tra[p] EXCEPT !.active = 0, !.oldest_active = 0, !.oldest_snapshot = 0,
                         !.cleanup = FALSE] \in Transaction
      BY <1>2, <3>1 DEF Transaction
    <3> QED
      BY <1>1, <1>2, <3>2
  <2>4. at' \in [Proc -> Doing]
    BY <1>1, <1>2 DEF Doing
  <2> QED
    BY <1>1, <2>1, <2>2, <2>3, <2>4 DEF Typed, Transaction
<1>9. Alone(p)
  BY <1>1, <1>2 DEF Alone
<1>10. /\ lck'[x.number] = x.oldest_active
       /\ \A t \in Tra \ {x.number} : lck'[t] = lck[t]
  BY <1>1, <1>2, <1>4
<1>11. EndsStay
  BY <1>1, <1>2, <1>4, <1>10 DEF EndsStay
<1>12. /\ at'[p] = "ready" /\ tra'[p].number = x.number /\ tra'[p].states = x.states
       /\ tra'[p].oldest = x.oldest /\ tra'[p].tra_oldest_active = x.tra_oldest_active
       /\ dbb'[p].oldest = n - 1 /\ dbb'[p].oldest_active = x.oldest_active
       /\ dbb'[p].oldest_snapshot = m
  BY <1>a, <1>1, <1>2 DEF Transaction
<1>13. \A k \in Int : k <= hdr.next + 1 => (Gone(k) => Gone(k)') /\ (Over(k) => Over(k)')
  BY <1>11, GoneStays
<1>14. NumbersOf(p)'
  <2>1. tip'[x.number] = "active" /\ lck'[x.number] # 0
    BY <1>a, <1>1, <1>3, <1>4, <1>5, <1>10 DEF NumbersOf, Active
  <2>2. \A q \in Proc \ {p} : Active(q)' => tra'[q].number # x.number
    BY <1>a, <1>1, <1>3, <1>9 DEF NumbersOf, Active, Alone
  <2>3. x.number <= hdr'.next
    BY <1>1, <1>4
  <2> QED
    BY <1>4, <1>12, <2>1, <2>2, <2>3 DEF NumbersOf
<1>15. OldestOf(p)'
  <2>1. Over(x.oldest)' /\ Gone(x.tra_oldest_active)'
    BY <1>2, <1>4, <1>5, <1>13
  <2> QED
    BY <1>4, <1>12, <2>1 DEF OldestOf, Active, Settling, Ready
<1>16. SnapshotOf(p)'
  BY <1>1, <1>4, <1>12 DEF SnapshotOf
<1>17. Remembered(dbb[p])'
  <2>1. Over(n - 1)' /\ Gone(x.oldest_active)' /\ Gone(m)'
    BY <1>1, <1>2, <1>4, <1>5, <1>6, <1>7, <1>13
  <2>2. n - 1 <= hdr'.next /\ x.oldest_active <= hdr'.next /\ m <= hdr'.next
    BY <1>1, <1>2, <1>4, <1>5, <1>6, <1>7
  <2> QED
    BY <1>12, <2>1, <2>2 DEF Remembered
<1>18. \A t \in Tra : lck'[t] = lck[t] \/ lck'[t] <= t
  BY <1>4, <1>10
<1>19. \A q \in Proc \ {p} : Active(q) =>
             /\ lck'[tra[q].number] = lck[tra[q].number]
             /\ tip'[tra[q].number] = tip[tra[q].number]
  <2> TAKE q \in Proc \ {p}
  <2>1. Active(q) => tra[q].number \in Tra /\ tra[q].number # x.number
    BY <1>a, <1>1 DEF TraInv, NumbersInv, NumbersOf, Active
  <2> QED
    BY <1>1, <1>10, <2>1
<1> QED
  BY <1>a, <1>1, <1>8, <1>9, <1>11, <1>12, <1>14, <1>15, <1>16, <1>17, <1>18, <1>19, NumbersAgain
     DEF Active

(* TRA_wait settles a transaction that has no lock any more. *)
LEMMA WaitNumbers ==
    ASSUME VersionsAssumption, Typed, TraInv, NEW p \in Proc, TRA_wait(p),
           rpb[p].v.tra \in Tra, rpb[p].v.tra <= hdr.next
    PROVE  /\ Typed' /\ TraInv' /\ EndsStay /\ Alone(p)
           /\ \A t \in Tra : tip'[t] # tip[t] => lck[t] = 0 /\ tip'[t] = "dead"
           /\ \A t \in Tra : tra'[p].states[t] # tra[p].states[t] => tip'[t] = "dead"
           /\ tip'[rpb[p].v.tra] = Settled(rpb[p].v.tra)
<1>a. PICK t : t = rpb[p].v.tra
  OBVIOUS
<1>1. /\ at[p] = "wait" /\ lck[t] = 0
      /\ tip' = [tip EXCEPT ![t] = Settled(t)]
      /\ tra' = tra \/ (Settled(t) = "dead" /\ tra' = [tra EXCEPT ![p].states[t] = "dead"])
      /\ \E a \in {"write", "discard", "backout"} : at' = [at EXCEPT ![p] = a]
      /\ req' = [req EXCEPT ![p].conflict = t] \/ req' = [req EXCEPT ![p].ret = "write"]
      /\ UNCHANGED <<hdr, lck, dbb, ver, rpb, log, crashes>>
  BY <1>a DEF TRA_wait
<1>2. /\ tip \in [Tra -> State] /\ at \in [Proc -> Doing] /\ hdr.next \in Int
      /\ lck \in [Tra -> 0 .. MaxTra] /\ MaxTra \in Nat /\ tra \in [Proc -> Transaction]
      /\ req \in [Proc -> Request]
  BY SharedFields DEF Typed, Transaction, VersionsAssumption
<1>3. NumbersOf(p) /\ OldestOf(p) /\ SnapshotOf(p) /\ Remembered(dbb[p])
  BY DEF TraInv, NumbersInv, OldestInv, SnapshotInv
<1>4. /\ Settled(t) \in State /\ Settled(t) # "active"
      /\ (tip[t] # "active" => Settled(t) = tip[t])
      /\ (Settled(t) # tip[t] => Settled(t) = "dead")
  BY <1>a, <1>2 DEF Settled, State
<1>5. Typed'
  <2>1. tip' \in [Tra -> State]
    BY <1>1, <1>2, <1>4
  <2>2. tra' \in [Proc -> Transaction]
    <3>1. tra[p].states \in [Tra -> State] /\ "dead" \in State
      BY <1>2 DEF Transaction, State
    <3>2. [tra[p] EXCEPT !.states = [tra[p].states EXCEPT ![t] = "dead"]] \in Transaction
      BY <1>2, <3>1 DEF Transaction
    <3> QED
      BY <1>1, <1>2, <3>2
  <2>3. at' \in [Proc -> Doing]
    BY <1>1, <1>2 DEF Doing
  <2>4. req' \in [Proc -> Request]
    <3>1. t \in 0 .. MaxTra
      BY <1>a, <1>2 DEF Tra
    <3>2. [req[p] EXCEPT !.conflict = t] \in Request /\ [req[p] EXCEPT !.ret = "write"] \in Request
      BY <1>2, <3>1 DEF Request
    <3> QED
      BY <1>1, <1>2, <3>2
  <2> QED
    BY <1>1, <2>1, <2>2, <2>3, <2>4 DEF Typed, Transaction
<1>6. Alone(p)
  BY <1>1, <1>2 DEF Alone
<1>7. /\ tip'[t] = Settled(t) /\ \A u \in Tra \ {t} : tip'[u] = tip[u]
  BY <1>a, <1>1, <1>2
<1>8. /\ tra'[p].number = tra[p].number /\ tra'[p].oldest = tra[p].oldest
      /\ tra'[p].tra_oldest_active = tra[p].tra_oldest_active
      /\ \A u \in Tra : \/ tra'[p].states[u] = tra[p].states[u]
                        \/ u = t /\ Settled(t) = "dead" /\ tra'[p].states[u] = "dead"
  <2>1. CASE tra' = tra
    BY <2>1
  <2>2. CASE Settled(t) = "dead" /\ tra' = [tra EXCEPT ![p].states[t] = "dead"]
    BY <1>a, <1>2, <2>2 DEF Transaction
  <2> QED
    BY <1>1, <2>1, <2>2
<1>9. \A u \in Tra : tip'[u] # tip[u] => lck[u] = 0 /\ tip'[u] = "dead"
  BY <1>1, <1>4, <1>7
<1>10. EndsStay
  BY <1>1, <1>2, <1>4, <1>7 DEF EndsStay
<1>11. at[p] \in Busy /\ at'[p] \in Busy
  BY <1>1, <1>2 DEF Busy, Doing
<1>12. tra[p].number \in Tra /\ lck[tra[p].number] # 0
  BY <1>1, <1>3 DEF NumbersOf, Active
<1>13. NumbersOf(p)'
  <2>1. tip'[tra[p].number] = "active" /\ lck'[tra[p].number] # 0
    BY <1>1, <1>3, <1>9, <1>12 DEF NumbersOf, Active
  <2> QED
    BY <1>1, <1>3, <1>6, <1>8, <1>11, <2>1 DEF NumbersOf, Active, Alone, Busy
<1>14. \A n \in Int : n <= hdr.next + 1 => (Gone(n) => Gone(n)') /\ (Over(n) => Over(n)')
  BY <1>10, GoneStays
<1>15. OldestOf(p)'
  <2>1. /\ tra[p].oldest <= tra[p].number /\ tra[p].oldest > 0 /\ Over(tra[p].oldest)
        /\ tra[p].tra_oldest_active <= tra[p].number /\ Gone(tra[p].tra_oldest_active)
        /\ tra[p].number <= hdr.next
    BY <1>1, <1>3 DEF OldestOf, NumbersOf, Active, Ready
  <2>2. /\ tra[p].oldest \in Int /\ tra[p].tra_oldest_active \in Int /\ tra[p].number \in Int
    BY TraFields
  <2>3. PICK o, a : o = tra[p].oldest /\ a = tra[p].tra_oldest_active
    OBVIOUS
  <2>4. Over(o)' /\ Gone(a)'
    BY <1>2, <1>14, <2>1, <2>2, <2>3
  <2> QED
    BY <1>8, <1>11, <2>1, <2>3, <2>4 DEF OldestOf, Settling, Ready, Busy
<1>16. SnapshotOf(p)'
  <2> SUFFICES ASSUME NEW u \in Tra, tra'[p].states[u] # "active"
               PROVE  tip'[u] = tra'[p].states[u]
    BY DEF SnapshotOf
  <2>1. tra[p].states[u] # "active" => tip[u] = tra[p].states[u]
    BY <1>1, <1>3 DEF SnapshotOf, InSnapshot
  <2> QED
    BY <1>7, <1>8, <1>4, <2>1
<1>17. Remembered(dbb[p])'
  <2>1. PICK d : d = dbb[p]
    OBVIOUS
  <2>2. /\ d.oldest \in Int /\ d.oldest_active \in Int /\ d.oldest_snapshot \in Int
        /\ dbb'[p] = d /\ hdr'.next = hdr.next
    BY <1>1, <2>1, TraFields
  <2> QED
    BY <1>2, <1>3, <1>14, <2>1, <2>2 DEF Remembered
<1>18. \A q \in Proc \ {p} : Active(q) =>
             /\ lck'[tra[q].number] = lck[tra[q].number]
             /\ tip'[tra[q].number] = tip[tra[q].number]
  <2> TAKE q \in Proc \ {p}
  <2>1. Active(q) => tra[q].number \in Tra /\ lck[tra[q].number] # 0
    BY DEF TraInv, NumbersInv, NumbersOf
  <2> QED
    BY <1>1, <1>9, <2>1
<1>19. \A u \in Tra : u > hdr.next => tip'[u] = tip[u]
  <2> TAKE u \in Tra
  <2>1. t <= hdr.next /\ t \in Int /\ u \in Int
    BY <1>a DEF Tra
  <2> QED
    BY <1>2, <1>7, <2>1
<1>20. Active(p) /\ hdr' = hdr /\ \A u \in Tra : lck'[u] = lck[u]
  BY <1>1 DEF Active
<1>21. TraInv'
  BY <1>6, <1>8, <1>10, <1>13, <1>15, <1>16, <1>17, <1>18, <1>19, <1>20, NumbersAgain
<1> QED
  BY <1>a, <1>4, <1>5, <1>6, <1>7, <1>8, <1>9, <1>10, <1>21

(* TRA_set_state ends the transaction in the inventory. *)
LEMMA EndNumbers ==
    ASSUME VersionsAssumption, Typed, TraInv, NEW p \in Proc, at[p] \in Busy,
           NEW state \in {"committed", "dead"}, TRA_set_state(p, state),
           UNCHANGED <<hdr, lck, dbb, tra, ver, log, crashes>>
    PROVE  /\ Typed' /\ TraInv' /\ EndsStay /\ Alone(p)
           /\ tip' = [tip EXCEPT ![tra[p].number] = state]
           /\ tra[p].number \in Tra /\ tip[tra[p].number] = "active"
<1>a. PICK t : t = tra[p].number
  OBVIOUS
<1>1. /\ tip' = [tip EXCEPT ![t] = state] /\ at' = [at EXCEPT ![p] = "release"]
      /\ rpb' = [rpb EXCEPT ![p] = NoRpb] /\ req' = [req EXCEPT ![p] = NoRequest]
  BY <1>a DEF TRA_set_state
<1>2. /\ tip \in [Tra -> State] /\ at \in [Proc -> Doing] /\ hdr.next \in Int
      /\ req \in [Proc -> Request] /\ rpb \in [Proc -> [v : Version, slot : Place \cup {None}]]
  BY SharedFields DEF Typed
<1>3. NumbersOf(p) /\ OldestOf(p) /\ SnapshotOf(p) /\ Remembered(dbb[p])
  BY DEF TraInv, NumbersInv, OldestInv, SnapshotInv
<1>4. t \in Tra /\ t <= hdr.next /\ lck[t] # 0 /\ tip[t] = "active"
  BY <1>a, <1>3 DEF NumbersOf, Active, Busy
<1>5. /\ tip'[t] = state /\ \A u \in Tra \ {t} : tip'[u] = tip[u]
      /\ at'[p] = "release"
  BY <1>1, <1>2, <1>4
<1>6. Typed'
  <2>1. tip' \in [Tra -> State]
    BY <1>1, <1>2 DEF State
  <2>2. at' \in [Proc -> Doing]
    BY <1>1, <1>2 DEF Doing
  <2>3. rpb' \in [Proc -> [v : Version, slot : Place \cup {None}]] /\ req' \in [Proc -> Request]
    BY <1>1, <1>2, NoTypes
  <2> QED
    BY <2>1, <2>2, <2>3 DEF Typed
<1>7. Alone(p)
  BY <1>1, <1>2 DEF Alone
<1>8. EndsStay
  BY <1>2, <1>4, <1>5 DEF EndsStay
<1>9. NumbersOf(p)'
  BY <1>a, <1>3, <1>4, <1>5, <1>7 DEF NumbersOf, Active, Alone, Busy
<1>10. \A n \in Int : n <= hdr.next + 1 => (Gone(n) => Gone(n)') /\ (Over(n) => Over(n)')
  BY <1>8, GoneStays
<1>11. OldestOf(p)'
  <2>1. /\ tra[p].oldest <= tra[p].number /\ tra[p].oldest > 0 /\ Over(tra[p].oldest)
        /\ tra[p].tra_oldest_active <= tra[p].number /\ Gone(tra[p].tra_oldest_active)
    BY <1>3 DEF OldestOf, NumbersOf, Active, Ready, Busy
  <2>2. /\ tra[p].oldest \in Int /\ tra[p].tra_oldest_active \in Int /\ tra[p].number \in Int
    BY TraFields
  <2>3. PICK o, a : o = tra[p].oldest /\ a = tra[p].tra_oldest_active
    OBVIOUS
  <2>4. Over(o)' /\ Gone(a)'
    BY <1>a, <1>2, <1>4, <1>10, <2>1, <2>2, <2>3
  <2> QED
    BY <1>5, <2>1, <2>3, <2>4 DEF OldestOf, Settling, Ready
<1>12. SnapshotOf(p)'
  BY <1>5 DEF SnapshotOf, InSnapshot
<1>13. Remembered(dbb[p])'
  <2>1. PICK d : d = dbb[p]
    OBVIOUS
  <2>2. /\ d.oldest \in Int /\ d.oldest_active \in Int /\ d.oldest_snapshot \in Int
        /\ dbb'[p] = d /\ hdr'.next = hdr.next
    BY <2>1, TraFields
  <2> QED
    BY <1>2, <1>3, <1>10, <2>1, <2>2 DEF Remembered
<1>14. \A q \in Proc \ {p} : Active(q) =>
             /\ lck'[tra[q].number] = lck[tra[q].number]
             /\ tip'[tra[q].number] = tip[tra[q].number]
  <2> TAKE q \in Proc \ {p}
  <2>1. Active(q) => tra[q].number \in Tra /\ tra[q].number # t
    BY <1>a DEF TraInv, NumbersInv, NumbersOf, Active, Busy
  <2> QED
    BY <1>5, <2>1
<1>15. \A u \in Tra : u > hdr.next => tip'[u] = tip[u]
  <2> TAKE u \in Tra
  <2>1. t <= hdr.next /\ t \in Int /\ u \in Int
    BY <1>4 DEF Tra
  <2> QED
    BY <1>2, <1>5, <2>1
<1>16. Active(p) /\ hdr' = hdr /\ \A u \in Tra : lck'[u] = lck[u]
  BY DEF Active, Busy
<1>17. TraInv'
  BY <1>7, <1>8, <1>9, <1>11, <1>12, <1>13, <1>14, <1>15, <1>16, NumbersAgain
<1> QED
  BY <1>a, <1>1, <1>4, <1>6, <1>7, <1>8, <1>17

(* A process without a transaction has no lock. *)
LEMMA EndedNumbers ==
    ASSUME VersionsAssumption, Typed, TraInv, NEW p \in Proc, at[p] # "idle", Ended(p),
           dbb' = dbb \/ dbb' = [dbb EXCEPT ![p] = NoDbb], crashes' \in Nat,
           UNCHANGED <<hdr, tip, ver, log>>
    PROVE  Typed' /\ TraInv' /\ EndsStay /\ Alone(p)
<1>a. PICK t : t = tra[p].number
  OBVIOUS
<1>1. /\ lck' = [lck EXCEPT ![t] = 0] /\ tra' = [tra EXCEPT ![p] = NoTra]
      /\ rpb' = [rpb EXCEPT ![p] = NoRpb] /\ req' = [req EXCEPT ![p] = NoRequest]
      /\ at' = [at EXCEPT ![p] = "idle"]
  BY <1>a DEF Ended
<1>2. /\ tip \in [Tra -> State] /\ at \in [Proc -> Doing] /\ hdr.next \in Int
      /\ req \in [Proc -> Request] /\ rpb \in [Proc -> [v : Version, slot : Place \cup {None}]]
      /\ lck \in [Tra -> 0 .. MaxTra] /\ MaxTra \in Nat /\ tra \in [Proc -> Transaction]
      /\ dbb \in [Proc -> Oldest]
  BY SharedFields DEF Typed, Transaction, VersionsAssumption
<1>3. NumbersOf(p) /\ Remembered(dbb[p])
  BY DEF TraInv, NumbersInv, OldestInv
<1>4. t \in Tra /\ t <= hdr.next
  BY <1>a, <1>3 DEF NumbersOf, Active
<1>5. lck'[t] = 0 /\ \A u \in Tra \ {t} : lck'[u] = lck[u]
  BY <1>1, <1>2, <1>4
<1>6. Typed'
  <2>1. lck' \in [Tra -> 0 .. MaxTra]
    <3>1. 0 \in 0 .. MaxTra
      BY <1>2
    <3> QED
      BY <1>1, <1>2, <3>1
  <2>2. at' \in [Proc -> Doing]
    BY <1>1, <1>2 DEF Doing
  <2>3. rpb' \in [Proc -> [v : Version, slot : Place \cup {None}]] /\ req' \in [Proc -> Request]
    BY <1>1, <1>2, NoTypes
  <2>4. dbb' \in [Proc -> Oldest]
    BY <1>2, NoTypes
  <2>5. tra' \in [Proc -> Transaction]
    BY <1>1, <1>2, NoTypes DEF Transaction
  <2> QED
    BY <1>2, <2>1, <2>2, <2>3, <2>4, <2>5 DEF Typed, Transaction
<1>7. Alone(p)
  BY <1>1, <1>2 DEF Alone
<1>8. EndsStay
  BY <1>2, <1>5 DEF EndsStay
<1>9. at'[p] = "idle"
  BY <1>1, <1>2
<1>10. NumbersOf(p)' /\ SnapshotOf(p)' /\ OldestOf(p)'
  BY <1>9 DEF NumbersOf, SnapshotOf, OldestOf, Active, InSnapshot, Settling, Ready
<1>11. \A n \in Int : n <= hdr.next + 1 => (Gone(n) => Gone(n)') /\ (Over(n) => Over(n)')
  BY <1>8, GoneStays
<1>12. Remembered(dbb[p])'
  <2>1. PICK d : d = dbb'[p]
    OBVIOUS
  <2>2. \/ d = dbb[p]
        \/ d.oldest = 0 /\ d.oldest_active = 0 /\ d.oldest_snapshot = 0
    BY <1>2, <2>1 DEF NoDbb
  <2>3. \/ d = dbb[p] /\ d.oldest \in Int /\ d.oldest_active \in Int /\ d.oldest_snapshot \in Int
        \/ d.oldest = 0 /\ d.oldest_active = 0 /\ d.oldest_snapshot = 0
    BY <2>2, TraFields
  <2>4. hdr'.next = hdr.next /\ hdr.next > 0
    BY SharedFields DEF Tra
  <2>5. Over(0) /\ Gone(0)
    BY DEF Over, Gone, Tra
  <2> QED
    BY <1>2, <1>3, <1>11, <2>1, <2>3, <2>4, <2>5 DEF Remembered
<1>13. \A q \in Proc \ {p} : Active(q) =>
             /\ lck'[tra[q].number] = lck[tra[q].number]
             /\ tip'[tra[q].number] = tip[tra[q].number]
  <2> TAKE q \in Proc \ {p}
  <2>1. Active(q) => tra[q].number \in Tra /\ tra[q].number # t
    BY <1>a DEF TraInv, NumbersInv, NumbersOf, Active
  <2> QED
    BY <1>5, <2>1
<1>14. \A u \in Tra : lck'[u] = lck[u] \/ lck'[u] <= u
  BY <1>5 DEF Tra
<1>15. ~Active(p)' /\ hdr' = hdr /\ \A u \in Tra : tip'[u] = tip[u]
  BY <1>9 DEF Active
<1>16. TraInv'
  BY <1>7, <1>8, <1>10, <1>12, <1>13, <1>14, <1>15, NumbersAgain
<1> QED
  BY <1>6, <1>7, <1>8, <1>16

-----------------------------------------------------------------------------
(* Who knows of which place. *)

(* What a process in state a has in hand, and holds, when the record is
   stored as f, its back version is in place b and its request is r. *)
InHandIn(f, a, b, r) ==
    IF a = "backout_delete" THEN {b}
    ELSE IF a = "collect" /\ r.next # None THEN ChainIn(f, r.next) ELSE {}

HeldIn(f, a, b, r) == InHandIn(f, a, b, r) \cup ({r.temp} \ {None})

(* Before and after a step. *)
LEMMA HeldIs ==
    ASSUME NEW p
    PROVE  /\ InHand(p) = InHandIn(ver, at[p], rpb[p].v.back, req[p])
           /\ Held(p) = HeldIn(ver, at[p], rpb[p].v.back, req[p])
           /\ InHand(p)' = InHandIn(ver', at'[p], rpb'[p].v.back, req'[p])
           /\ Held(p)' = HeldIn(ver', at'[p], rpb'[p].v.back, req'[p])
<1>1. InHand(p) = InHandIn(ver, at[p], rpb[p].v.back, req[p])
  <2>1. Chain(req[p].next) = ChainIn(ver, req[p].next)
    BY DEF Chain, ChainIn
  <2> QED
    BY <2>1 DEF InHand, InHandIn
<1>2. InHand(p)' = InHandIn(ver', at'[p], rpb'[p].v.back, req'[p])
  <2>1. Chain(req[p].next)' = ChainIn(ver', req'[p].next)
    BY DEF Chain, ChainIn
  <2> QED
    BY <2>1 DEF InHand, InHandIn
<1> QED
  BY <1>1, <1>2 DEF Held, HeldIn

(* The record's chain before and after a step. *)
LEMMA RecordIs ==
    /\ Chain(Primary) = ChainIn(ver, Primary)
    /\ Chain(Primary)' = ChainIn(ver', Primary)
BY DEF Chain, ChainIn

(* Processes hold places for back versions. *)
LEMMA HeldSlots ==
    ASSUME NEW f \in Versions, NEW a, NEW b \in Slot \cup {None}, NEW r \in Request,
           a = "backout_delete" => b # None
    PROVE  HeldIn(f, a, b, r) \subseteq Slot
<1>1. ChainIn(f, r.next) \subseteq Slot
  BY ChainSlots
<1> QED
  BY <1>1 DEF HeldIn, InHandIn, Request

(* Who holds what is not written keeps it. *)
LEMMA HeldSame ==
    ASSUME NEW f \in Versions, NEW g \in Versions, NEW a, NEW b, NEW r \in Request,
           \A s \in HeldIn(f, a, b, r) : g[s] = f[s]
    PROVE  /\ HeldIn(g, a, b, r) = HeldIn(f, a, b, r)
           /\ InHandIn(g, a, b, r) = InHandIn(f, a, b, r)
<1>1. CASE a # "backout_delete" /\ a = "collect" /\ r.next # None
  <2>1. r.next \in Slot /\ r.next \in Place
    BY <1>1 DEF Request, Place
  <2>2. r.next \in ChainIn(f, r.next)
    BY <2>1, ChainSelf
  <2>3. \A u \in ChainIn(f, r.next) \cup {r.next} : g[u].back = f[u].back
    BY <1>1, <2>2 DEF HeldIn, InHandIn
  <2>4. ChainIn(g, r.next) = ChainIn(f, r.next)
    BY <2>1, <2>3, ChainSame
  <2> QED
    BY <1>1, <2>4 DEF HeldIn, InHandIn
<1>2. CASE ~(a # "backout_delete" /\ a = "collect" /\ r.next # None)
  BY <1>2 DEF HeldIn, InHandIn
<1> QED
  BY <1>1, <1>2

(* What a collector has in hand falls. *)
LEMMA InHandChain ==
    ASSUME NEW p \in Proc, at[p] = "collect", req[p].next # None
    PROVE  InHand(p) = Chain(req[p].next) /\ Chain(req[p].next) \subseteq Held(p)
BY DEF InHand, Held

(* What a step of process p may write, apart from the primary version. *)
Own(p) == Held(p) \cup Chain(Primary)

(* What others hold stays in their hands if p writes only what is its own or
   free, and takes nothing else. *)
LEMMA HandsApart ==
    ASSUME Typed, Typed', RequestInv, HandInv, NEW p \in Proc, Alone(p),
           \A s \in Slot : ver'[s] # ver[s] => s \in Own(p) \/ Free(s),
           \A s \in Own(p)' : s \in Own(p) \/ Free(s)
    PROVE  \A q \in Proc \ {p} :
             /\ Held(q)' = Held(q) /\ InHand(q)' = InHand(q)
             /\ \A s \in Held(q) : ver'[s] = ver[s] /\ s \in Slot
             /\ Held(q) \cap Own(p) = {} /\ Held(q)' \cap Own(p)' = {}
             /\ HandOf(q)'
<1>0. ver \in Versions /\ ver' \in Versions /\ \A q \in Proc : req[q] \in Request
  BY DEF Typed, Versions
<1> SUFFICES ASSUME NEW q \in Proc \ {p}
             PROVE  /\ Held(q)' = Held(q) /\ InHand(q)' = InHand(q)
                    /\ \A s \in Held(q) : ver'[s] = ver[s] /\ s \in Slot
                    /\ Held(q) \cap Own(p) = {} /\ Held(q)' \cap Own(p)' = {}
                    /\ HandOf(q)'
  OBVIOUS
<1>1. at'[q] = at[q] /\ rpb'[q] = rpb[q] /\ req'[q] = req[q]
  BY DEF Alone
<1>2. HandOf(q) /\ HandOf(p)
  BY DEF HandInv
<1>3. Held(q) \subseteq Slot
  <2>1. rpb[q].v.back \in Slot \cup {None}
    BY OwnFields DEF Version
  <2>2. at[q] = "backout_delete" => rpb[q].v.back # None
    BY DEF RequestInv, RequestOf
  <2> QED
    BY <1>0, <2>1, <2>2, HeldIs, HeldSlots
<1>4. Held(q) \cap Own(p) = {} /\ \A s \in Held(q) : ~Free(s)
  BY <1>2 DEF HandOf, Own
<1>5. \A s \in Held(q) : ver'[s] = ver[s]
  BY <1>3, <1>4
<1>6. Held(q)' = Held(q) /\ InHand(q)' = InHand(q)
  <2>1. PICK f, g, a, b, r : /\ f = ver /\ g = ver' /\ a = at[q] /\ b = rpb[q].v.back
                             /\ r = req[q]
    OBVIOUS
  <2>2. /\ InHand(q) = InHandIn(f, a, b, r) /\ Held(q) = HeldIn(f, a, b, r)
        /\ InHand(q)' = InHandIn(g, a, b, r) /\ Held(q)' = HeldIn(g, a, b, r)
    BY <1>1, <2>1, HeldIs
  <2>3. f \in Versions /\ g \in Versions /\ r \in Request
    BY <1>0, <2>1
  <2>4. \A s \in HeldIn(f, a, b, r) : g[s] = f[s]
    BY <1>5, <2>1, <2>2
  <2> QED
    BY <2>2, <2>3, <2>4, HeldSame
<1>7. Held(q)' \cap Own(p)' = {}
  BY <1>4, <1>6
<1>8. HandOf(q)'
  <2>1. Held(q)' \cap Chain(Primary)' = {}
    BY <1>7 DEF Own
  <2>2. \A s \in Held(q)' : ~Free(s)'
    BY <1>4, <1>5, <1>6 DEF Free
  <2>3. req'[q].temp \notin InHand(q)'
    BY <1>1, <1>2, <1>6 DEF HandOf
  <2>4. \A r \in Proc \ {q} : Held(q)' \cap Held(r)' = {}
    <3> TAKE r \in Proc \ {q}
    <3>1. CASE r = p
      BY <1>7, <3>1 DEF Own
    <3>2. CASE r # p
      <4>1. /\ at'[r] = at[r] /\ rpb'[r] = rpb[r] /\ req'[r] = req[r]
            /\ Held(r) \cap Own(p) = {} /\ \A s \in Held(r) : ~Free(s)
        BY <3>2 DEF Alone, HandInv, HandOf, Own
      <4>2. Held(r) \subseteq Slot
        <5>1. rpb[r].v.back \in Slot \cup {None}
          BY OwnFields DEF Version
        <5>2. at[r] = "backout_delete" => rpb[r].v.back # None
          BY DEF RequestInv, RequestOf
        <5> QED
          BY <1>0, <5>1, <5>2, HeldIs, HeldSlots
      <4>3. \A s \in Held(r) : ver'[s] = ver[s]
        BY <4>1, <4>2
      <4>4. Held(r)' = Held(r)
        <5>1. PICK f, g, a, b, n : /\ f = ver /\ g = ver' /\ a = at[r] /\ b = rpb[r].v.back
                                   /\ n = req[r]
          OBVIOUS
        <5>2. Held(r) = HeldIn(f, a, b, n) /\ Held(r)' = HeldIn(g, a, b, n)
          BY <4>1, <5>1, HeldIs
        <5>3. f \in Versions /\ g \in Versions /\ n \in Request
          BY <1>0, <5>1
        <5>4. \A s \in HeldIn(f, a, b, n) : g[s] = f[s]
          BY <4>3, <5>1, <5>2
        <5> QED
          BY <5>2, <5>3, <5>4, HeldSame
      <4> QED
        BY <1>2, <1>6, <4>4 DEF HandOf
    <3> QED
      BY <3>1, <3>2
  <2>5. ASSUME at'[q] = "collect", req'[q].next # None
        PROVE  \A s \in Chain(req[q].next)' : ver'[s].back # None =>
                 ver'[ver'[s].back].tra < ver'[s].tra
    <3>1. /\ InHand(q) = Chain(req[q].next) /\ Chain(req[q].next) \subseteq Held(q)
      BY <1>1, <2>5, InHandChain
    <3>2. InHand(q)' = Chain(req[q].next)'
      BY <2>5 DEF InHand
    <3>3. Chain(req[q].next)' = Chain(req[q].next)
      BY <1>6, <3>1, <3>2
    <3>4. \A s \in Chain(req[q].next) : ver[s].back # None =>
            ver[s].back \in Chain(req[q].next) /\ ver[ver[s].back].tra < ver[s].tra
      <4>1. PICK n : n = req[q].next
        OBVIOUS
      <4>2. n \in Place /\ Chain(n) = ChainIn(ver, n)
        BY <1>0, <1>1, <2>5, <4>1, ChainIs DEF Request, Place
      <4>3. \A s \in ChainIn(ver, n) : ver[s].back # None => ver[s].back \in ChainIn(ver, n)
        BY <1>0, <4>2, ChainNext
      <4> QED
        BY <1>1, <1>2, <2>5, <4>1, <4>2, <4>3 DEF HandOf
    <3>5. \A s \in Chain(req[q].next) : ver'[s] = ver[s]
      BY <1>5, <3>1
    <3> QED
      BY <3>3, <3>4, <3>5
  <2> QED
    BY <2>1, <2>2, <2>3, <2>4, <2>5 DEF HandOf
<1> QED
  BY <1>3, <1>4, <1>5, <1>6, <1>7, <1>8

(* A step of p that does right by its own places does right by all. *)
LEMMA PlacesKept ==
    ASSUME Typed, Typed', RequestInv, HandInv, NothingLeft, NEW p \in Proc, Alone(p),
           \A s \in Slot : ver'[s] # ver[s] => s \in Own(p) \/ Free(s),
           \A s \in Own(p)' : s \in Own(p) \/ Free(s),
           Held(p)' \cap Chain(Primary)' = {}, \A s \in Held(p)' : ~Free(s)',
           req'[p].temp \notin InHand(p)',
           at'[p] = "collect" /\ req'[p].next # None =>
             \A s \in Chain(req[p].next)' : ver'[s].back # None =>
               ver'[ver'[s].back].tra < ver'[s].tra,
           crashes' = 0 => /\ crashes = 0
                           /\ \A s \in Slot : ~Free(s)' /\ (s \in Own(p) \/ Free(s)) =>
                                s \in Own(p)'
    PROVE  HandInv' /\ NothingLeft'
<1>1. \A q \in Proc \ {p} :
             /\ Held(q)' = Held(q) /\ InHand(q)' = InHand(q)
             /\ \A s \in Held(q) : ver'[s] = ver[s] /\ s \in Slot
             /\ Held(q) \cap Own(p) = {} /\ Held(q)' \cap Own(p)' = {}
             /\ HandOf(q)'
  BY HandsApart
<1>2. HandOf(p)'
  <2>1. \A q \in Proc \ {p} : Held(p)' \cap Held(q)' = {}
    BY <1>1 DEF Own
  <2> QED
    BY <2>1 DEF HandOf
<1>3. HandInv'
  BY <1>1, <1>2 DEF HandInv
<1>4. NothingLeft'
  <2> SUFFICES ASSUME crashes' = 0, NEW s \in Slot, ~Free(s)'
               PROVE  s \in Chain(Primary)' \/ \E q \in Proc : s \in Held(q)'
    BY DEF NothingLeft
  <2>1. CASE s \in Own(p) \/ Free(s)
    <3>1. s \in Own(p)'
      BY <2>1
    <3> QED
      BY <3>1 DEF Own
  <2>2. CASE ~(s \in Own(p) \/ Free(s))
    <3>1. PICK q \in Proc \ {p} : s \in Held(q)
      BY <2>2 DEF NothingLeft, Own
    <3> QED
      BY <1>1, <3>1
  <2> QED
    BY <2>1, <2>2
<1> QED
  BY <1>3, <1>4

(* A step that stores nothing and takes nothing keeps all places. *)
LEMMA StillPlaces ==
    ASSUME Typed, Typed', RequestInv, ChainInv, HandInv, NothingLeft, EndsStay,
           NEW p \in Proc, Alone(p), UNCHANGED ver,
           at'[p] # "backout_delete", at'[p] # "collect" \/ req'[p].next = None,
           \/ at[p] # "backout_delete" /\ at[p] # "collect" /\ req'[p].temp = req[p].temp
           \/ at[p] = "collect" /\ req[p].next = None /\ req'[p].temp = req[p].temp
           \/ req'[p].temp = None /\ crashes' # 0,
           crashes' = 0 => crashes = 0
    PROVE  ChainInv' /\ HandInv' /\ NothingLeft'
<1>1. ChainInv'
  <2>1. Chain(Primary)' = Chain(Primary)
    BY RecordIs
  <2>2. \A s \in Chain(Primary) : ver[s].tra \in Tra
    <3>0. Chain(Primary) \subseteq Slot
      BY RecordIs, ChainSlots
    <3>1. Chain(Primary) \subseteq Place /\ ver \in [Place -> Version]
      BY <3>0 DEF Typed, Place
    <3>2. \A s \in Place : ver[s].tra \in 0 .. MaxTra
      BY <3>1 DEF Version
    <3> QED
      BY <3>1, <3>2 DEF ChainInv, Free, Tra
  <2> QED
    BY <2>1, <2>2 DEF ChainInv, Free, EndsStay
<1>2. Held(p)' = {req'[p].temp} \ {None} /\ InHand(p)' = {}
  BY DEF Held, InHand
<1>3. Chain(Primary)' = Chain(Primary)
  BY RecordIs
<1>4. Held(p)' \subseteq Held(p) /\ (crashes' = 0 => Held(p)' = Held(p))
  BY <1>2 DEF Held, InHand
<1>5. HandOf(p)
  BY DEF HandInv
<1>6. /\ Held(p)' \cap Chain(Primary)' = {}
      /\ \A s \in Held(p)' : ~Free(s)'
      /\ req'[p].temp \notin InHand(p)'
  BY <1>2, <1>3, <1>4, <1>5 DEF HandOf, Free
<1>7. HandInv' /\ NothingLeft'
  <2>1. \A s \in Slot : ver'[s] # ver[s] => s \in Own(p) \/ Free(s)
    OBVIOUS
  <2>2. \A s \in Own(p)' : s \in Own(p) \/ Free(s)
    BY <1>3, <1>4 DEF Own
  <2>3. crashes' = 0 => /\ crashes = 0
                        /\ \A s \in Slot : ~Free(s)' /\ (s \in Own(p) \/ Free(s)) =>
                             s \in Own(p)'
    BY <1>3, <1>4 DEF Own, Free
  <2> QED
    BY <1>6, <2>1, <2>2, <2>3, PlacesKept
<1> QED
  BY <1>1, <1>7

(* A step leaves transactions fresh that are so, but that of an updater. *)
LEMMA FreshKept ==
    ASSUME Typed, TraInv, FreshInv, NEW p \in Proc, Alone(p), hdr' = hdr,
           Active(p), at'[p] \in Busy \cup {"idle", "release"},
           at'[p] \in Busy => /\ at[p] \in Busy /\ tra'[p].number = tra[p].number
                              /\ req'[p].wrote = req[p].wrote \/ req'[p].wrote,
           \A t \in Tra : Fresh(t) /\ (t # tra[p].number \/ ~req'[p].wrote) => Fresh(t)'
    PROVE  FreshInv'
<1>1. \A t \in Tra : t > hdr'.next => Fresh(t)'
  <2> TAKE t \in Tra
  <2> HAVE t > hdr'.next
  <2>1. tra[p].number <= hdr.next /\ tra[p].number \in Int /\ hdr.next \in Int /\ t \in Int
    BY SharedFields, TraFields DEF TraInv, NumbersInv, NumbersOf, Active, Busy, Tra
  <2> QED
    BY <2>1 DEF FreshInv
<1>2. ASSUME NEW q \in Proc, Active(q)', at'[q] # "release", ~req'[q].wrote
      PROVE  Fresh(tra[q].number)'
  <2>1. CASE q # p
    <3>1. /\ tra'[q] = tra[q] /\ Active(q) /\ at[q] # "release" /\ ~req[q].wrote
          /\ Active(p)
      BY <1>2, <2>1 DEF Alone, Active, Busy
    <3>2. tra[q].number \in Tra /\ tra[q].number # tra[p].number /\ Fresh(tra[q].number)
      BY <2>1, <3>1 DEF FreshInv, TraInv, NumbersInv, NumbersOf
    <3>3. PICK t \in Tra : t = tra[q].number
      BY <3>2
    <3>4. Fresh(t)'
      BY <3>2, <3>3
    <3> QED
      BY <3>1, <3>3, <3>4
  <2>2. CASE q = p
    <3>1. at'[p] \in Busy /\ tra'[p].number = tra[p].number
      BY <1>2, <2>2 DEF Busy, Active
    <3>2. Fresh(tra[p].number) /\ tra[p].number \in Tra
      BY <1>2, <2>2, <3>1 DEF FreshInv, TraInv, NumbersInv, NumbersOf, Busy, Active
    <3>3. PICK t \in Tra : t = tra[p].number
      BY <3>2
    <3>4. Fresh(t)'
      BY <1>2, <2>2, <3>2, <3>3
    <3> QED
      BY <2>2, <3>1, <3>3, <3>4
  <2> QED
    BY <2>1, <2>2
<1> QED
  BY <1>1, <1>2 DEF FreshInv

(* A transaction that runs is active for all others. *)
LEMMA RunningActive ==
    ASSUME Typed, TraInv, NEW p \in Proc, Active(p), at[p] # "release",
           NEW q \in Proc \ {p}, InSnapshot(q)
    PROVE  /\ TRA_snapshot_state(q, tra[p].number) = "active"
           /\ Ready(q) => ~(tra[p].number < tra[q].tra_oldest_active)
           /\ tra[p].number # tra[q].number
           /\ tra[p].number \in Tra /\ tip[tra[p].number] = "active"
<1>1. /\ NumbersOf(p) /\ OldestOf(q) /\ SnapshotOf(q) /\ NumbersOf(q) /\ Active(q)
  BY DEF TraInv, NumbersInv, OldestInv, SnapshotInv, InSnapshot, Active
<1>2. /\ tra[p].number \in Tra /\ tip[tra[p].number] = "active" /\ lck[tra[p].number] # 0
      /\ tra[p].number # tra[q].number
  BY <1>1 DEF NumbersOf
<1>3. ~(tra[p].number < tra[q].oldest)
  BY <1>1, <1>2 DEF OldestOf, Over
<1>4. tra[q].states[tra[p].number] = "active"
  BY <1>1, <1>2 DEF SnapshotOf
<1>5. TRA_snapshot_state(q, tra[p].number) = "active"
  BY <1>2, <1>3, <1>4 DEF TRA_snapshot_state
<1>6. Ready(q) => ~(tra[p].number < tra[q].tra_oldest_active)
  BY <1>1, <1>2 DEF OldestOf, Gone
<1> QED
  BY <1>2, <1>5, <1>6

(* Who looks at a record that is not touched goes on as before. *)
LEMMA OthersStill ==
    ASSUME Typed, EndsStay, NEW p \in Proc, Alone(p), NEW q \in Proc \ {p},
           ver'[Primary] = ver[Primary], log' = log,
           \A s \in Chain(Primary) : ver'[s] = ver[s],
           ReaderOf(q), ActOf(q)
    PROVE  ReaderOf(q)' /\ ActOf(q)'
<1>1. /\ at'[q] = at[q] /\ rpb'[q] = rpb[q] /\ req'[q] = req[q] /\ tra'[q] = tra[q]
  BY DEF Alone
<1>2. \A t : TRA_snapshot_state(q, t)' = TRA_snapshot_state(q, t)
  BY <1>1 DEF TRA_snapshot_state
<1>3. ReaderOf(q)'
  BY <1>1, <1>2 DEF ReaderOf, Free
<1>4. ActOf(q)'
  <2>1. /\ \A t \in Tra : tip[t] # "active" => tip'[t] = tip[t]
        /\ \A t \in 0 .. MaxTra : t # 0 => t \in Tra
        /\ rpb[q].v.tra \in 0 .. MaxTra /\ ver[Primary].tra \in 0 .. MaxTra
    BY OwnFields, SharedFields DEF EndsStay, Tra, Versions, Version, Place
  <2>2. /\ at[q] = "backout_write" /\ ~Free(Primary) /\ Same(q) /\ rpb[q].v.back # None =>
             rpb[q].v.back \in Chain(Primary)
    <3>1. ver \in Versions /\ Chain(Primary) = ChainIn(ver, Primary) /\ Primary \in Place
      BY RecordIs, SharedFields DEF Place
    <3> QED
      BY <3>1, ChainNext DEF Same
  <2>3. /\ Free(Primary)' <=> Free(Primary)
        /\ ~Free(Primary) => ver[Primary].tra # 0
        /\ Same(q)' <=> Same(q)
        /\ Collectable(q, ver[Primary])' <=> Collectable(q, ver[Primary])
    BY <1>1 DEF Free, Same, Collectable
  <2>4. at[q] = "ready" /\ ~req[q].wrote /\ req[q].answer > 0 =>
           /\ rpb[q].v.tra # 0 /\ tip'[rpb[q].v.tra] = "committed"
           /\ rpb[q].v.tra < tra[q].number /\ ~rpb[q].v.deleted
           /\ ver[Primary].tra = rpb[q].v.tra => ~ver[Primary].deleted
    BY <2>1 DEF ActOf
  <2>5. /\ at[q] = "purge" => rpb[q].v.tra # 0 /\ tip'[rpb[q].v.tra] = "committed"
        /\ at[q] = "expunge" /\ ~Free(Primary) /\ Collectable(q, ver[Primary]) =>
             tip'[ver[Primary].tra] = "committed"
        /\ at[q] = "wait" => rpb[q].v.tra # 0
        /\ at[q] \in {"backout", "backout_write"} /\ ~req[q].wrote =>
             rpb[q].v.tra # 0 /\ tip'[rpb[q].v.tra] = "dead"
    BY <2>1, <2>3 DEF ActOf
  <2>6. at[q] = "backout_write" /\ ~Free(Primary) /\ Same(q) /\ rpb[q].v.back # None =>
           req[q].old = ver'[rpb[q].v.back]
    BY <2>2 DEF ActOf
  <2>7. /\ at[q] \in {"backout", "backout_write"} /\ req[q].wrote => rpb[q].v = ver[Primary]
        /\ req[q].wrote /\ at[q] \in {"ready", "look", "backout", "backout_write"} =>
             ver[Primary].tra = tra[q].number
        /\ req[q].wrote /\ at[q] = "look" => rpb[q].slot = Primary
    BY DEF ActOf
  <2> QED
    BY <1>1, <2>3, <2>4, <2>5, <2>6, <2>7 DEF ActOf
<1> QED
  BY <1>3, <1>4

(* How a running process may change the primary version: not under a reader,
   not that of another running transaction; and afterwards it is gone, its
   own, or of a committed transaction and not newly deleted. *)
Moves(p) ==
    /\ ~Free(Primary) => ~Latched(Primary)
    /\ Free(Primary) \/ tip[ver[Primary].tra] # "active" \/ ver[Primary].tra = tra[p].number
    /\ \/ Free(Primary)'
       \/ ver'[Primary].tra = tra[p].number
       \/ /\ ver'[Primary].tra # 0 /\ tip[ver'[Primary].tra] = "committed"
          /\ \/ ~ver'[Primary].deleted
             \/ /\ ver'[Primary].tra = ver[Primary].tra
                /\ ver'[Primary].deleted = ver[Primary].deleted

(* Who looks at a record that changes so is not misled. *)
LEMMA OthersMoved ==
    ASSUME Typed, Typed', TraInv, RequestInv, NEW p \in Proc, Alone(p),
           UNCHANGED <<hdr, tip, lck, dbb, tra>>, at[p] \in Busy,
           NEW q \in Proc \ {p}, Moves(p), ReaderOf(q), ActOf(q)
    PROVE  ReaderOf(q)' /\ ActOf(q)'
<1>1. /\ at'[q] = at[q] /\ rpb'[q] = rpb[q] /\ req'[q] = req[q] /\ tra' = tra /\ tip' = tip
  BY DEF Alone
<1>2. \A t : TRA_snapshot_state(q, t)' = TRA_snapshot_state(q, t)
  BY <1>1 DEF TRA_snapshot_state
<1>3. /\ rpb[q].v.tra \in 0 .. MaxTra /\ ver[Primary].tra \in 0 .. MaxTra
      /\ ver'[Primary].tra \in 0 .. MaxTra /\ at[q] \in Doing
      /\ \A t \in 0 .. MaxTra : t # 0 => t \in Tra
  <2>1. ver' \in Versions
    BY DEF Typed, Versions
  <2> QED
    BY <2>1, OwnFields, SharedFields DEF Versions, Version, Place, Tra
<1>4. Active(p) /\ at[p] # "release"
  BY DEF Active, Busy
<1>5. PICK n : n = tra[p].number
  OBVIOUS
<1>6. InSnapshot(q) => /\ TRA_snapshot_state(q, n) = "active"
                       /\ Ready(q) => ~(n < tra[q].tra_oldest_active)
                       /\ n # tra[q].number /\ n \in Tra /\ tip[n] = "active"
  BY <1>4, <1>5, RunningActive
<1>7. ReaderOf(q)'
  <2> SUFFICES ASSUME at[q] \in {"look", "regain"}
               PROVE  ReaderOf(q)'
    BY <1>1 DEF ReaderOf
  <2>1. InSnapshot(q)
    BY DEF InSnapshot
  <2>2. rpb[q].slot = Primary => at[q] # "look"
    BY DEF Moves, ReaderOf, Latched, Free
  <2>3. rpb[q].slot # Primary /\ ~Free(Primary)' /\ ver'[Primary].deleted =>
             TRA_snapshot_state(q, ver'[Primary].tra) \notin {"us", "committed"}
    BY <1>5, <1>6, <2>1 DEF Moves, ReaderOf, Free
  <2> QED
    BY <1>1, <1>2, <2>2, <2>3 DEF ReaderOf
<1>8. req[q].wrote /\ (at[q] \in {"ready", "look"} \/ at[q] \in {"backout", "backout_write"}) => FALSE
  <2> SUFFICES ASSUME req[q].wrote, at[q] \in {"ready", "look", "backout", "backout_write"}
               PROVE  FALSE
    OBVIOUS
  <2>1. ver[Primary].tra = tra[q].number
    BY DEF ActOf
  <2>2. NumbersOf(q) /\ NumbersOf(p) /\ Active(q)
    BY DEF TraInv, NumbersInv, Active
  <2>3. tra[q].number \in Tra /\ tip[tra[q].number] = "active" /\ tra[q].number # tra[p].number
    BY <1>4, <2>2 DEF NumbersOf
  <2>4. tra[q].number # 0
    BY <2>3 DEF Tra
  <2> QED
    BY <2>1, <2>3, <2>4 DEF Moves, Free
<1>9. ActOf(q)'
  <2>1. at[q] = "ready" /\ ~req[q].wrote /\ req[q].answer > 0 =>
           (ver'[Primary].tra = rpb[q].v.tra => ~ver'[Primary].deleted)
    BY <1>5, <1>6 DEF ActOf, Moves, Free, InSnapshot
  <2>2. at[q] = "expunge" /\ ~Free(Primary)' /\ Collectable(q, ver[Primary])' =>
           tip[ver'[Primary].tra] = "committed"
    <3> SUFFICES ASSUME at[q] = "expunge", ~Free(Primary)', Collectable(q, ver[Primary])'
                 PROVE  tip[ver'[Primary].tra] = "committed"
      OBVIOUS
    <3>1. ver'[Primary].tra # n
      BY <1>1, <1>6 DEF InSnapshot, Ready, Collectable
    <3> QED
      BY <1>5, <3>1 DEF Moves
  <2>3. at[q] = "backout_write" /\ ~Free(Primary)' /\ Same(q)' /\ ~req[q].wrote => FALSE
    <3> SUFFICES ASSUME at[q] = "backout_write", ~Free(Primary)', Same(q)', ~req[q].wrote
                 PROVE  FALSE
      OBVIOUS
    <3>1. ver'[Primary].tra = rpb[q].v.tra
      BY <1>1 DEF Same
    <3>2. rpb[q].v.tra # 0 /\ tip[rpb[q].v.tra] = "dead"
      BY DEF ActOf
    <3> QED
      BY <1>5, <1>6, <3>1, <3>2 DEF Moves, InSnapshot, Free
  <2>4. (at[q] = "ready" /\ ~req[q].wrote /\ req[q].answer > 0 =>
           /\ rpb[q].v.tra # 0 /\ tip[rpb[q].v.tra] = "committed" /\ rpb[q].v.tra < tra[q].number
           /\ ~rpb[q].v.deleted)
        /\ (at[q] = "purge" => rpb[q].v.tra # 0 /\ tip[rpb[q].v.tra] = "committed")
        /\ (at[q] = "wait" => rpb[q].v.tra # 0)
        /\ (at[q] \in {"backout", "backout_write"} /\ ~req[q].wrote =>
              rpb[q].v.tra # 0 /\ tip[rpb[q].v.tra] = "dead")
    BY DEF ActOf
  <2> QED
    BY <1>1, <1>8, <2>1, <2>2, <2>3, <2>4 DEF ActOf
<1> QED
  BY <1>7, <1>9

-----------------------------------------------------------------------------
(* What a step of one process has to keep. *)

(* A step of a running process that changes the record. *)
LEMMA MoveStep ==
    ASSUME VersionsAssumption, IInv, NEW p \in Proc, Alone(p), Typed',
           UNCHANGED <<hdr, tip, lck, dbb, tra, crashes>>,
           at[p] \in Busy, at'[p] \in Busy,
           req'[p].wrote = req[p].wrote \/ req'[p].wrote,
           \A t \in Tra : Fresh(t) /\ (t # tra[p].number \/ ~req'[p].wrote) => Fresh(t)',
           \A s \in Slot : ver'[s] # ver[s] => s \in Own(p) \/ Free(s),
           \A s \in Own(p)' : s \in Own(p) \/ Free(s),
           Held(p)' \cap Chain(Primary)' = {}, \A s \in Held(p)' : ~Free(s)',
           req'[p].temp \notin InHand(p)',
           at'[p] = "collect" /\ req'[p].next # None =>
             \A s \in Chain(req[p].next)' : ver'[s].back # None =>
               ver'[ver'[s].back].tra < ver'[s].tra,
           \A s \in Slot : ~Free(s)' /\ (s \in Own(p) \/ Free(s)) => s \in Own(p)',
           \/ /\ ver'[Primary] = ver[Primary] /\ \A s \in Chain(Primary) : ver'[s] = ver[s]
              /\ log' = log
           \/ Moves(p),
           ChainInv', RequestOf(p)', ReaderOf(p)', ActOf(p)'
    PROVE  IInv'
<1>1. Typed /\ TraInv /\ FreshInv /\ RequestInv /\ HandInv /\ NothingLeft
  BY DEF IInv, TraInv
<1>2. TraInv' /\ EndsStay
  BY <1>1, CalmNumbers
<1>3. FreshInv'
  <2>1. Active(p) /\ at'[p] \in Busy \cup {"idle", "release"} /\ tra'[p].number = tra[p].number
    BY DEF Active, Busy
  <2> QED
    BY <1>1, <2>1, FreshKept
<1>4. RequestInv'
  <2>1. \A q \in Proc \ {p} : RequestOf(q)'
    BY <1>1 DEF RequestInv, RequestOf, Alone, Settling
  <2> QED
    BY <2>1 DEF RequestInv
<1>5. HandInv' /\ NothingLeft'
  BY <1>1, PlacesKept
<1>6. \A q \in Proc \ {p} : ReaderOf(q)' /\ ActOf(q)'
  <2> TAKE q \in Proc \ {p}
  <2>1. ReaderOf(q) /\ ActOf(q)
    BY DEF IInv, ReaderInv, ActInv
  <2>2. CASE /\ ver'[Primary] = ver[Primary] /\ \A s \in Chain(Primary) : ver'[s] = ver[s]
             /\ log' = log
    BY <1>1, <1>2, <2>1, <2>2, OthersStill
  <2>3. CASE Moves(p)
    BY <1>1, <2>1, <2>3, OthersMoved
  <2> QED
    BY <2>2, <2>3
<1> QED
  BY <1>2, <1>3, <1>4, <1>5, <1>6 DEF IInv, TraInv, ReaderInv, ActInv

(* A step of a process that does not change the record. *)
LEMMA StillStep ==
    ASSUME VersionsAssumption, IInv, NEW p \in Proc, Alone(p), Typed', TraInv', EndsStay,
           UNCHANGED <<hdr, ver, log>>, Active(p), at'[p] \in Busy \cup {"idle", "release"},
           at'[p] \in Busy => /\ at[p] \in Busy /\ tra'[p].number = tra[p].number
                              /\ req'[p].wrote = req[p].wrote \/ req'[p].wrote,
           \A t \in Tra : Fresh(t) => rpb'[p].v.tra # t /\ req'[p].old.tra # t,
           at'[p] # "backout_delete", at'[p] # "collect" \/ req'[p].next = None,
           \/ at[p] # "backout_delete" /\ at[p] # "collect" /\ req'[p].temp = req[p].temp
           \/ at[p] = "collect" /\ req[p].next = None /\ req'[p].temp = req[p].temp
           \/ req'[p].temp = None /\ crashes' # 0,
           crashes' = 0 => crashes = 0,
           RequestOf(p)', ReaderOf(p)', ActOf(p)'
    PROVE  IInv'
<1>1. Typed /\ TraInv /\ FreshInv /\ RequestInv /\ ChainInv /\ HandInv /\ NothingLeft
  BY DEF IInv, TraInv
<1>2. FreshInv'
  <2>1. \A t \in Tra : Fresh(t) => Fresh(t)'
    BY DEF Fresh, Alone
  <2> QED
    BY <1>1, <2>1, FreshKept
<1>3. RequestInv'
  <2>1. \A q \in Proc \ {p} : RequestOf(q)'
    BY <1>1 DEF RequestInv, RequestOf, Alone, Settling
  <2> QED
    BY <2>1 DEF RequestInv
<1>4. ChainInv' /\ HandInv' /\ NothingLeft'
  BY <1>1, StillPlaces
<1>5. \A q \in Proc \ {p} : ReaderOf(q)' /\ ActOf(q)'
  <2> TAKE q \in Proc \ {p}
  <2>1. ReaderOf(q) /\ ActOf(q)
    BY DEF IInv, ReaderInv, ActInv
  <2> QED
    BY <1>1, <2>1, OthersStill
<1> QED
  BY <1>2, <1>3, <1>4, <1>5 DEF IInv, TraInv, ReaderInv, ActInv

(* A step of a process that starts its transaction. *)
LEMMA StartingStep ==
    ASSUME VersionsAssumption, IInv, NEW p \in Proc, Alone(p), Typed', TraInv', EndsStay,
           UNCHANGED <<ver, rpb, log, crashes>>, req'[p] = NoRequest,
           at[p] \in {"idle", "inventory", "scan", "query", "settle"},
           at'[p] \in {"inventory", "scan", "query", "settle", "ready"},
           hdr'.next >= hdr.next,
           \/ Active(p) /\ tra'[p].number = tra[p].number
           \/ tra'[p].number = hdr'.next /\ hdr'.next > hdr.next /\ hdr'.next \in Tra
    PROVE  IInv'
<1>1. Typed /\ TraInv /\ FreshInv /\ RequestInv /\ ChainInv /\ HandInv /\ NothingLeft
  BY DEF IInv, TraInv
<1>2. /\ NoRequest.temp = None /\ NoRequest.old.tra = 0 /\ NoRequest.wrote = FALSE
      /\ NoRequest.answer = -1 /\ NoRequest.next = None
  BY DEF NoRequest, NoVersion
<1>3. \A t \in Tra : Fresh(t) => Fresh(t)'
  BY <1>2 DEF Fresh, Alone, Tra
<1>4. req[p].temp = None
  BY <1>1 DEF RequestInv, RequestOf
<1>5. FreshInv'
  <2>1. \A t \in Tra : t > hdr'.next => Fresh(t)'
    <3>1. hdr.next \in Int /\ hdr'.next \in Int
      BY <1>1, SharedFields DEF EndsStay
    <3> QED
      BY <1>1, <1>3, <3>1 DEF FreshInv, Tra
  <2>2. ASSUME NEW q \in Proc, Active(q)', at'[q] # "release", ~req'[q].wrote
        PROVE  Fresh(tra[q].number)'
    <3>1. CASE q # p \/ (Active(p) /\ tra'[p].number = tra[p].number)
      <4>1. tra'[q].number = tra[q].number /\ Active(q) /\ at[q] # "release" /\ ~req[q].wrote
        <5>1. CASE q # p
          BY <2>2, <5>1 DEF Alone, Active
        <5>2. CASE q = p
          BY <3>1, <5>2, <1>1, <1>2 DEF Active, RequestInv, RequestOf, Settling
        <5> QED
          BY <5>1, <5>2
      <4>2. PICK t \in Tra : t = tra[q].number
        BY <1>1, <4>1 DEF TraInv, NumbersInv, NumbersOf
      <4>3. Fresh(t)'
        BY <1>1, <1>3, <4>1, <4>2 DEF FreshInv
      <4> QED
        BY <4>1, <4>2, <4>3
    <3>2. CASE q = p /\ tra'[p].number = hdr'.next /\ hdr'.next > hdr.next /\ hdr'.next \in Tra
      <4>1. PICK t \in Tra : t = hdr'.next
        BY <3>2
      <4>2. Fresh(t)'
        BY <1>1, <1>3, <3>2, <4>1 DEF FreshInv
      <4> QED
        BY <3>2, <4>1, <4>2
    <3> QED
      BY <3>1, <3>2
  <2> QED
    BY <2>1, <2>2 DEF FreshInv
<1>6. RequestInv'
  <2>1. \A q \in Proc \ {p} : RequestOf(q)'
    BY <1>1 DEF RequestInv, RequestOf, Alone, Settling
  <2>2. RequestOf(p)'
    BY <1>2 DEF RequestOf, Settling
  <2> QED
    BY <2>1, <2>2 DEF RequestInv
<1>7. ChainInv' /\ HandInv' /\ NothingLeft'
  BY <1>1, <1>2, <1>4, StillPlaces
<1>8. \A q \in Proc \ {p} : ReaderOf(q)' /\ ActOf(q)'
  <2> TAKE q \in Proc \ {p}
  <2>1. ReaderOf(q) /\ ActOf(q)
    BY DEF IInv, ReaderInv, ActInv
  <2> QED
    BY <1>1, <2>1, OthersStill
<1>9. ReaderOf(p)' /\ ActOf(p)'
  BY <1>2 DEF ReaderOf, ActOf
<1> QED
  BY <1>5, <1>6, <1>7, <1>8, <1>9 DEF IInv, TraInv, ReaderInv, ActInv

-----------------------------------------------------------------------------
(* Every action keeps what holds. *)

(* Starting a transaction. *)
LEMMA StartingKeeps ==
    ASSUME VersionsAssumption, IInv, NEW p \in Proc,
           \/ TRA_start(p) \/ TRA_get_inventory(p) \/ Scan(p) \/ Query(p) \/ Settle(p)
    PROVE  IInv'
<1>1. Typed /\ TraInv /\ RequestOf(p)
  BY DEF IInv, TraInv, RequestInv
<1>2. at \in [Proc -> Doing] /\ hdr.next \in Int /\ tra \in [Proc -> Transaction]
      /\ req \in [Proc -> Request]
  BY <1>1, SharedFields DEF Typed, Transaction
<1>3. CASE TRA_start(p)
  <2>1. /\ Typed' /\ TraInv' /\ EndsStay /\ Alone(p)
        /\ hdr'.next = hdr.next + 1 /\ tra'[p].number = hdr'.next
    BY <1>1, <1>3, StartNumbers
  <2>2. /\ req'[p] = NoRequest /\ at[p] = "idle" /\ at'[p] = "inventory"
        /\ UNCHANGED <<ver, rpb, log, crashes>>
    BY <1>2, <1>3 DEF TRA_start
  <2>3. hdr'.next \in Tra
    BY <2>1 DEF Typed
  <2>4. hdr'.next >= hdr.next /\ hdr'.next > hdr.next
    BY <1>2, <2>1
  <2> QED
    BY <2>1, <2>2, <2>3, <2>4, StartingStep
<1>4. CASE TRA_get_inventory(p)
  <2>1. Typed' /\ TraInv' /\ EndsStay /\ Alone(p)
    BY <1>1, <1>4, InventoryNumbers
  <2>2. /\ at[p] = "inventory" /\ at'[p] = "scan" /\ tra'[p].number = tra[p].number
        /\ UNCHANGED <<hdr, req, ver, rpb, log, crashes>>
    BY <1>2, <1>4 DEF TRA_get_inventory, Transaction
  <2>3. req'[p] = NoRequest /\ Active(p) /\ hdr'.next >= hdr.next
    BY <1>1, <1>2, <2>2 DEF RequestOf, Settling, Active
  <2> QED
    BY <2>1, <2>2, <2>3, StartingStep
<1>5. CASE Scan(p)
  <2>1. Typed' /\ TraInv' /\ EndsStay /\ Alone(p)
    BY <1>1, <1>5, ScanNumbers
  <2>2. /\ at[p] = "scan" /\ at'[p] \in {"scan", "query", "settle"}
        /\ tra'[p].number = tra[p].number
        /\ UNCHANGED <<hdr, req, ver, rpb, log, crashes>>
    BY <1>1, <1>5, ScanNumbers DEF Scan
  <2>3. req'[p] = NoRequest /\ Active(p) /\ hdr'.next >= hdr.next
    BY <1>1, <1>2, <2>2 DEF RequestOf, Settling, Active
  <2> QED
    BY <2>1, <2>2, <2>3, StartingStep
<1>6. CASE Query(p)
  <2>1. Typed' /\ TraInv' /\ EndsStay /\ Alone(p)
    BY <1>1, <1>6, QueryNumbers
  <2>2. /\ at[p] = "query" /\ at'[p] = "settle" /\ tra'[p].number = tra[p].number
        /\ UNCHANGED <<hdr, req, ver, rpb, log, crashes>>
    BY <1>2, <1>6 DEF Query, Transaction
  <2>3. req'[p] = NoRequest /\ Active(p) /\ hdr'.next >= hdr.next
    BY <1>1, <1>2, <2>2 DEF RequestOf, Settling, Active
  <2> QED
    BY <2>1, <2>2, <2>3, StartingStep
<1>7. CASE Settle(p)
  <2>1. Typed' /\ TraInv' /\ EndsStay /\ Alone(p)
    BY <1>1, <1>7, SettleNumbers
  <2>2. /\ at[p] = "settle" /\ at'[p] = "ready" /\ tra'[p].number = tra[p].number
        /\ UNCHANGED <<hdr, req, ver, rpb, log, crashes>>
    BY <1>2, <1>7 DEF Settle, Transaction
  <2>3. req'[p] = NoRequest /\ Active(p) /\ hdr'.next >= hdr.next
    BY <1>1, <1>2, <2>2 DEF RequestOf, Settling, Active
  <2> QED
    BY <2>1, <2>2, <2>3, StartingStep
<1> QED
  BY <1>3, <1>4, <1>5, <1>6, <1>7

(* Ending a transaction, or dying. *)
LEMMA EndingKeeps ==
    ASSUME VersionsAssumption, IInv, NEW p \in Proc,
           \/ TRA_commit(p) \/ Undone(p) \/ TRA_release_transaction(p) \/ Crash(p)
           \/ /\ at[p] = "ready" /\ UNCHANGED <<hdr, lck, dbb, tra, ver, log, crashes>>
              /\ \E state \in {"dead", "committed"} : TRA_set_state(p, state)
    PROVE  IInv'
<1>1. Typed /\ TraInv /\ RequestOf(p)
  BY DEF IInv, TraInv, RequestInv
<1>2. /\ at \in [Proc -> Doing] /\ req \in [Proc -> Request] /\ crashes \in Nat
      /\ rpb \in [Proc -> [v : Version, slot : Place \cup {None}]]
      /\ tra \in [Proc -> Transaction]
  BY <1>1 DEF Typed, Transaction
<1>3. /\ NoRequest.temp = None /\ NoRequest.old.tra = 0 /\ NoRequest.wrote = FALSE
      /\ NoRequest.answer = -1 /\ NoRequest.next = None /\ NoRpb.v.tra = 0
  BY DEF NoRequest, NoVersion, NoRpb
<1>4. ASSUME at'[p] \in {"idle", "release"}, req'[p] = NoRequest, rpb'[p] = NoRpb
      PROVE  /\ RequestOf(p)' /\ ReaderOf(p)' /\ ActOf(p)'
             /\ \A t \in Tra : Fresh(t) => rpb'[p].v.tra # t /\ req'[p].old.tra # t
             /\ at'[p] \in Busy \cup {"idle", "release"} /\ at'[p] \notin Busy
             /\ at'[p] # "backout_delete" /\ at'[p] # "collect" /\ req'[p].temp = None
  BY <1>3, <1>4 DEF RequestOf, ReaderOf, ActOf, Settling, Tra, Busy
<1>5. ASSUME at[p] \in {"ready", "undone"}, NEW state \in {"dead", "committed"},
             TRA_set_state(p, state), UNCHANGED <<hdr, lck, dbb, tra, ver, log, crashes>>
      PROVE  IInv'
  <2>1. at[p] \in Busy
    BY <1>2, <1>5 DEF Busy, Doing
  <2>2. Typed' /\ TraInv' /\ EndsStay /\ Alone(p)
    BY <1>1, <1>5, <2>1, EndNumbers
  <2>3. at'[p] = "release" /\ req'[p] = NoRequest /\ rpb'[p] = NoRpb
    BY <1>2, <1>5 DEF TRA_set_state
  <2>4. req[p].temp = None /\ at[p] # "backout_delete" /\ at[p] # "collect" /\ Active(p)
    BY <1>1, <1>5 DEF RequestOf, Active
  <2> QED
    BY <1>4, <1>5, <2>2, <2>3, <2>4, StillStep
<1>6. CASE TRA_commit(p)
  BY <1>5, <1>6 DEF TRA_commit
<1>7. CASE Undone(p)
  BY <1>5, <1>7 DEF Undone
<1>8. CASE TRA_release_transaction(p)
  <2>1. Ended(p) /\ at[p] = "release" /\ UNCHANGED <<hdr, tip, dbb, ver, log, crashes>>
    BY <1>8 DEF TRA_release_transaction
  <2>2. Typed' /\ TraInv' /\ EndsStay /\ Alone(p)
    BY <1>1, <1>2, <2>1, EndedNumbers
  <2>3. at'[p] = "idle" /\ req'[p] = NoRequest /\ rpb'[p] = NoRpb
    BY <1>2, <2>1 DEF Ended
  <2>4. req[p].temp = None /\ at[p] # "backout_delete" /\ at[p] # "collect" /\ Active(p)
    BY <1>1, <2>1 DEF RequestOf, Active
  <2> QED
    BY <1>4, <2>1, <2>2, <2>3, <2>4, StillStep
<1>9. CASE Crash(p)
  <2>1. /\ Ended(p) /\ at[p] # "idle" /\ UNCHANGED <<hdr, tip, ver, log>>
        /\ dbb' = [dbb EXCEPT ![p] = NoDbb] /\ crashes' = crashes + 1
    BY <1>9 DEF Crash
  <2>2. crashes' \in Nat /\ crashes' # 0
    BY <1>2, <2>1
  <2>3. Typed' /\ TraInv' /\ EndsStay /\ Alone(p)
    BY <1>1, <1>2, <2>1, <2>2, EndedNumbers
  <2>4. at'[p] = "idle" /\ req'[p] = NoRequest /\ rpb'[p] = NoRpb
    BY <1>2, <2>1 DEF Ended
  <2>5. Active(p)
    BY <2>1 DEF Active
  <2> QED
    BY <1>4, <2>1, <2>2, <2>3, <2>4, <2>5, StillStep
<1> QED
  BY <1>5, <1>6, <1>7, <1>8, <1>9

(* The types after a step that changes only the record and what one process
   does, has read and wants. *)
LEMMA CalmTyped ==
    ASSUME Typed, NEW p \in Proc,
           at' \in [Proc -> Doing], \A q \in Proc \ {p} : at'[q] = at[q],
           rpb' \in [Proc -> [v : Version, slot : Place \cup {None}]],
           \A q \in Proc \ {p} : rpb'[q] = rpb[q],
           req' \in [Proc -> Request], \A q \in Proc \ {p} : req'[q] = req[q],
           ver' \in Versions,
           log' \in Seq([tra : Tra, read : -1 .. MaxTra, deleted : BOOLEAN]),
           UNCHANGED <<hdr, tip, lck, dbb, tra, crashes>>
    PROVE  Typed' /\ Alone(p)
BY DEF Typed, Alone, Versions

(* A step of a running process that changes neither the record nor what
   anybody knows of transactions. *)
LEMMA CalmStep ==
    ASSUME VersionsAssumption, IInv, NEW p \in Proc, Typed', Alone(p),
           UNCHANGED <<hdr, tip, lck, dbb, tra, ver, log, crashes>>,
           at[p] \in Busy, at'[p] \in Busy,
           req'[p].wrote = req[p].wrote \/ req'[p].wrote,
           \A t \in Tra : Fresh(t) => rpb'[p].v.tra # t /\ req'[p].old.tra # t,
           at'[p] # "backout_delete", at'[p] # "collect" \/ req'[p].next = None,
           at[p] # "backout_delete", at[p] # "collect" \/ req[p].next = None,
           req'[p].temp = req[p].temp,
           RequestOf(p)', ReaderOf(p)', ActOf(p)'
    PROVE  IInv'
<1>1. Typed /\ TraInv
  BY DEF IInv, TraInv
<1>2. TraInv' /\ EndsStay
  BY <1>1, CalmNumbers
<1>3. Active(p) /\ at'[p] \in Busy \cup {"idle", "release"}
  BY DEF Active, Busy
<1> QED
  BY <1>2, <1>3, StillStep

(* What is read is of nobody who has not written. *)
LEMMA ReadFresh ==
    ASSUME NEW p \in Proc, NEW t \in Tra, Fresh(t)
    PROVE  /\ rpb[p].v.tra # t /\ req[p].old.tra # t /\ NoVersion.tra # t
           /\ \A s \in Place : ver[s].tra # t
BY DEF Fresh, NoVersion, Tra

(* A request answers. *)
LEMMA AnswerKeeps ==
    ASSUME VersionsAssumption, IInv, NEW p \in Proc, Typed', Alone(p),
           UNCHANGED <<hdr, tip, lck, dbb, tra, ver, log, crashes>>,
           at[p] \in {"ready", "get", "look", "regain", "expunge", "collect"},
           at[p] = "collect" => req[p].next = None,
           at'[p] = "ready", rpb'[p] = rpb[p],
           req'[p].temp = None, req'[p].next = None, req'[p].old = NoVersion,
           req'[p].wrote = req[p].wrote,
           ~req[p].wrote /\ req'[p].answer > 0 =>
             /\ rpb[p].v.tra # 0 /\ tip[rpb[p].v.tra] = "committed"
             /\ rpb[p].v.tra < tra[p].number /\ ~rpb[p].v.deleted
             /\ ver[Primary].tra = rpb[p].v.tra => ~ver[Primary].deleted
    PROVE  IInv'
<1>1. Typed /\ TraInv /\ RequestOf(p) /\ ActOf(p)
  BY DEF IInv, TraInv, RequestInv, ActInv
<1>2. at[p] \in Busy /\ at'[p] \in Busy
  BY <1>1, TraFields DEF Busy, Doing
<1>3. req[p].temp = None
  BY <1>1 DEF RequestOf
<1>4. \A t \in Tra : Fresh(t) => rpb'[p].v.tra # t /\ req'[p].old.tra # t
  BY ReadFresh
<1>5. RequestOf(p)' /\ ReaderOf(p)'
  BY DEF RequestOf, ReaderOf, Settling
<1>6. ActOf(p)'
  <2>1. req[p].wrote => /\ at[p] \in {"ready", "look"} /\ ver[Primary].tra = tra[p].number
                        /\ \E i \in DOMAIN log : log[i].tra = tra[p].number
    BY <1>1 DEF RequestOf, ActOf
  <2> QED
    BY <2>1 DEF ActOf
<1> QED
  BY <1>2, <1>3, <1>4, <1>5, <1>6, CalmStep

(* What an answer leaves of a request. *)
LEMMA AnswerIs ==
    ASSUME VersionsAssumption, NEW r \in Request, NEW n \in -1 .. MaxTra
    PROVE  /\ Answer(r, n) \in Request
           /\ Answer(r, n).temp = None /\ Answer(r, n).next = None
           /\ Answer(r, n).old = NoVersion /\ Answer(r, n).wrote = r.wrote
           /\ Answer(r, n).answer = n
<1>1. NoRequest \in Request /\ r.reads \in Nat /\ r.wrote \in BOOLEAN
  BY NoTypes DEF Request
<1> QED
  BY <1>1 DEF Answer, NoRequest, Request

(* The primary version is fetched, if there is a record. *)
LEMMA GetKeeps ==
    ASSUME VersionsAssumption, IInv, NEW p \in Proc, Read(p) \/ ReadAgain(p)
    PROVE  IInv'
<1>1. Typed /\ TraInv /\ RequestOf(p) /\ ActOf(p)
  BY DEF IInv, TraInv, RequestInv, ActInv
<1>2. /\ req[p] \in Request /\ rpb[p] \in [v : Version, slot : Place \cup {None}]
      /\ at[p] \in Doing /\ ver \in Versions /\ req[p].reads \in Nat
      /\ at \in [Proc -> Doing] /\ req \in [Proc -> Request]
      /\ rpb \in [Proc -> [v : Version, slot : Place \cup {None}]]
      /\ log \in Seq([tra : Tra, read : -1 .. MaxTra, deleted : BOOLEAN])
  BY <1>1, OwnFields, TraFields, SharedFields DEF Request, Typed
<1>3. PICK k \in Nat : /\ DPM_get(p, [req[p] EXCEPT !.reads = k])
                       /\ UNCHANGED <<hdr, tip, lck, dbb, tra, ver, log, crashes>>
                       /\ at[p] \in {"ready", "get"}
  <2>1. CASE Read(p)
    <3>1. req[p].reads + 1 \in Nat
      BY <1>2
    <3> QED
      BY <2>1, <3>1 DEF Read
  <2>2. CASE ReadAgain(p)
    <3>1. [req[p] EXCEPT !.reads = req[p].reads] = req[p]
      BY <1>2 DEF Request
    <3> QED
      BY <1>2, <2>2, <3>1 DEF ReadAgain
  <2> QED
    BY <2>1, <2>2
<1>4. PICK r : r = [req[p] EXCEPT !.reads = k]
  OBVIOUS
<1>5. /\ r \in Request /\ r.temp = req[p].temp /\ r.next = req[p].next
      /\ r.wrote = req[p].wrote /\ r.reads = k /\ r.old = req[p].old /\ r.ret = req[p].ret
  BY <1>2, <1>4 DEF Request
<1>6. CASE Free(Primary)
  <2>1. PICK n : n = Answer(r, 0)
    OBVIOUS
  <2>2. 0 \in -1 .. MaxTra
    BY DEF VersionsAssumption
  <2>3. /\ n \in Request /\ n.temp = None /\ n.next = None /\ n.old = NoVersion
        /\ n.wrote = req[p].wrote /\ n.answer = 0
    BY <1>5, <2>1, <2>2, AnswerIs
  <2>4. /\ at' = [at EXCEPT ![p] = "ready"] /\ rpb' = rpb /\ req' = [req EXCEPT ![p] = n]
    BY <1>3, <1>4, <1>6, <2>1 DEF DPM_get
  <2>5. /\ at' \in [Proc -> Doing] /\ at'[p] = "ready" /\ \A q \in Proc \ {p} : at'[q] = at[q]
        /\ req' \in [Proc -> Request] /\ req'[p] = n /\ \A q \in Proc \ {p} : req'[q] = req[q]
    BY <1>2, <2>3, <2>4 DEF Doing
  <2>6. Typed' /\ Alone(p)
    BY <1>1, <1>2, <1>3, <2>4, <2>5, CalmTyped
  <2> QED
    BY <1>3, <2>3, <2>4, <2>5, <2>6, AnswerKeeps
<1>7. CASE ~Free(Primary)
  <2>1. PICK b : b = [v |-> ver[Primary], slot |-> Primary]
    OBVIOUS
  <2>2. PICK n : n = [r EXCEPT !.answer = -1]
    OBVIOUS
  <2>3. /\ n \in Request /\ n.temp = req[p].temp /\ n.next = req[p].next /\ n.answer = -1
        /\ n.wrote = req[p].wrote /\ n.old = req[p].old /\ n.ret = req[p].ret
    <3>1. -1 \in -1 .. MaxTra
      BY DEF VersionsAssumption
    <3> QED
      BY <1>5, <2>2, <3>1 DEF Request
  <2>4. /\ b \in [v : Version, slot : Place \cup {None}] /\ b.v = ver[Primary]
        /\ b.slot = Primary /\ Primary # None /\ ver[Primary].tra # 0
    BY <1>2, <1>7, <2>1 DEF Versions, Place, Free, VersionsAssumption
  <2>5. /\ rpb' = [rpb EXCEPT ![p] = b] /\ at' = [at EXCEPT ![p] = "look"]
        /\ req' = [req EXCEPT ![p] = n]
    BY <1>3, <1>4, <1>7, <2>1, <2>2 DEF DPM_get
  <2>6. /\ at' \in [Proc -> Doing] /\ at'[p] = "look" /\ \A q \in Proc \ {p} : at'[q] = at[q]
        /\ req' \in [Proc -> Request] /\ req'[p] = n /\ \A q \in Proc \ {p} : req'[q] = req[q]
        /\ rpb' \in [Proc -> [v : Version, slot : Place \cup {None}]] /\ rpb'[p] = b
        /\ \A q \in Proc \ {p} : rpb'[q] = rpb[q]
    BY <1>2, <2>3, <2>4, <2>5 DEF Doing
  <2>7. Typed' /\ Alone(p)
    BY <1>1, <1>2, <1>3, <2>6, CalmTyped
  <2>8. at[p] \in Busy /\ at'[p] \in Busy
    BY <1>2, <1>3, <2>6 DEF Busy, Doing
  <2>9. \A t \in Tra : Fresh(t) => rpb'[p].v.tra # t /\ req'[p].old.tra # t
    <3>1. Primary \in Place
      BY DEF Place
    <3> QED
      BY <2>3, <2>4, <2>6, <3>1, ReadFresh
  <2>10. /\ req[p].temp = None
         /\ req[p].wrote => /\ ver[Primary].tra = tra[p].number
                            /\ \E i \in DOMAIN log : log[i].tra = tra[p].number
    BY <1>1, <1>3 DEF RequestOf, ActOf
  <2>11. RequestOf(p)' /\ ReaderOf(p)'
    BY <1>3, <2>3, <2>4, <2>6, <2>10 DEF RequestOf, ReaderOf, Settling
  <2>12. ActOf(p)'
    BY <1>3, <2>3, <2>4, <2>6, <2>10 DEF ActOf
  <2> QED
    BY <1>3, <2>3, <2>6, <2>7, <2>8, <2>9, <2>11, <2>12, CalmStep
<1> QED
  BY <1>6, <1>7

(* What a snapshot says of a transaction's end is true. *)
LEMMA SnapshotTrue ==
    ASSUME Typed, TraInv, NEW p \in Proc, InSnapshot(p), NEW t \in Tra
    PROVE  /\ TRA_snapshot_state(p, t) = "us" <=> t = tra[p].number
           /\ TRA_snapshot_state(p, t) = "committed" =>
                tip[t] = "committed" /\ t < tra[p].number
           /\ TRA_snapshot_state(p, t) = "dead" => tip[t] = "dead" /\ t < tra[p].number
           /\ TRA_snapshot_state(p, t) \in {"us", "committed", "active", "dead"}
<1>1. /\ NumbersOf(p) /\ OldestOf(p) /\ SnapshotOf(p) /\ Active(p)
  BY DEF TraInv, NumbersInv, OldestInv, SnapshotInv, InSnapshot, Active
<1>2. /\ tra[p].number \in Int /\ tra[p].oldest \in Int /\ t \in Int
      /\ tra[p].oldest <= tra[p].number /\ Over(tra[p].oldest)
      /\ tra[p].states[t] \in State
  <2>1. t \in Int /\ tra[p].number \in Int /\ tra[p].oldest \in Int
    BY TraFields DEF Tra
  <2>2. tra[p].states[t] \in State
    BY TraFields
  <2> QED
    BY <1>1, <2>1, <2>2 DEF OldestOf
<1>3. tra[p].states[t] # "active" => tip[t] = tra[p].states[t]
  BY <1>1 DEF SnapshotOf
<1>4. CASE t = tra[p].number
  BY <1>2, <1>4 DEF TRA_snapshot_state
<1>5. CASE t # tra[p].number /\ t < tra[p].oldest
  <2>1. TRA_snapshot_state(p, t) = "committed" /\ tip[t] = "committed" /\ t < tra[p].number
    BY <1>2, <1>5 DEF TRA_snapshot_state, Over
  <2> QED
    BY <1>5, <2>1
<1>6. CASE t # tra[p].number /\ ~(t < tra[p].oldest) /\ t > tra[p].number
  BY <1>6 DEF TRA_snapshot_state
<1>7. CASE t # tra[p].number /\ ~(t < tra[p].oldest) /\ ~(t > tra[p].number)
  <2>1. TRA_snapshot_state(p, t) = tra[p].states[t]
    BY <1>7 DEF TRA_snapshot_state
  <2>2. t < tra[p].number
    BY <1>2, <1>7
  <2> QED
    BY <1>2, <1>3, <1>7, <2>1, <2>2 DEF State
<1> QED
  BY <1>4, <1>5, <1>6, <1>7

(* A back version is fetched. *)
LEMMA FetchBackKeeps ==
    ASSUME VersionsAssumption, IInv, NEW p \in Proc, NEW s \in Slot,
           at[p] \in {"look", "regain"}, ~req[p].wrote, DPM_fetch_back(p, s),
           ~Free(Primary) /\ ver[Primary].deleted =>
             TRA_snapshot_state(p, ver[Primary].tra) \notin {"us", "committed"},
           UNCHANGED <<hdr, tip, lck, dbb, tra, ver, log, crashes>>
    PROVE  IInv'
<1>1. Typed /\ TraInv /\ RequestOf(p) /\ ChainInv
  BY DEF IInv, TraInv, RequestInv
<1>2. /\ req[p] \in Request /\ at[p] \in Doing /\ ver \in Versions
      /\ at \in [Proc -> Doing] /\ req \in [Proc -> Request]
      /\ rpb \in [Proc -> [v : Version, slot : Place \cup {None}]]
      /\ log \in Seq([tra : Tra, read : -1 .. MaxTra, deleted : BOOLEAN])
  BY <1>1, OwnFields, TraFields, SharedFields DEF Typed
<1>3. PICK b : b = [v |-> ver[s], slot |-> s]
  OBVIOUS
<1>4. PICK a : a = IF Free(s) THEN "bugcheck" ELSE "look"
  OBVIOUS
<1>5. /\ at' = [at EXCEPT ![p] = a] /\ rpb' = [rpb EXCEPT ![p] = b] /\ req' = req
  BY <1>3, <1>4 DEF DPM_fetch_back
<1>6. /\ b \in [v : Version, slot : Place \cup {None}] /\ b.v = ver[s] /\ b.slot = s
      /\ s # Primary /\ s # None /\ s \in Place
  BY <1>2, <1>3 DEF Versions, Place, VersionsAssumption
<1>7. /\ at' \in [Proc -> Doing] /\ at'[p] = a /\ \A q \in Proc \ {p} : at'[q] = at[q]
      /\ rpb' \in [Proc -> [v : Version, slot : Place \cup {None}]] /\ rpb'[p] = b
      /\ \A q \in Proc \ {p} : rpb'[q] = rpb[q]
  BY <1>2, <1>4, <1>5, <1>6 DEF Doing
<1>8. Typed' /\ Alone(p)
  BY <1>1, <1>2, <1>5, <1>7, CalmTyped
<1>9. at[p] \in Busy /\ at'[p] \in Busy
  BY <1>2, <1>4, <1>7 DEF Busy, Doing
<1>10. \A t \in Tra : Fresh(t) => rpb'[p].v.tra # t /\ req'[p].old.tra # t
  BY <1>5, <1>6, <1>7, ReadFresh
<1>11. req[p].temp = None
  BY <1>1 DEF RequestOf
<1>12. RequestOf(p)' /\ ActOf(p)'
  BY <1>4, <1>5, <1>7, <1>11 DEF RequestOf, ActOf, Settling
<1>13. ReaderOf(p)'
  <2> SUFFICES ASSUME a = "look"
               PROVE  ReaderOf(p)'
    BY <1>4, <1>7 DEF ReaderOf
  <2>1. ver[s].tra # 0 /\ ~ver[s].deleted
    BY <1>1, <1>4 DEF Free, ChainInv
  <2>2. TRA_snapshot_state(p, ver[Primary].tra)' = TRA_snapshot_state(p, ver[Primary].tra)
    BY DEF TRA_snapshot_state
  <2>3. Free(Primary)' <=> Free(Primary)
    BY DEF Free
  <2> QED
    BY <1>6, <1>7, <2>1, <2>2, <2>3 DEF ReaderOf
<1> QED
  BY <1>4, <1>5, <1>7, <1>8, <1>9, <1>10, <1>11, <1>12, <1>13, CalmStep

(* A process goes on with the request and the version it has. *)
LEMMA GoOnKeeps ==
    ASSUME VersionsAssumption, IInv, NEW p \in Proc,
           UNCHANGED <<hdr, tip, lck, dbb, tra, ver, log, crashes, rpb>>,
           at' \in [Proc -> Doing], \A q \in Proc \ {p} : at'[q] = at[q],
           req' \in [Proc -> Request], \A q \in Proc \ {p} : req'[q] = req[q],
           at[p] \in Busy, at'[p] \in Busy,
           req'[p].wrote = req[p].wrote, req'[p].temp = req[p].temp,
           req'[p].old \in {req[p].old, NoVersion} \cup {ver[s] : s \in Place},
           at'[p] # "backout_delete", at'[p] # "collect" \/ req'[p].next = None,
           at[p] # "backout_delete", at[p] # "collect" \/ req[p].next = None,
           RequestOf(p)', ReaderOf(p)', ActOf(p)'
    PROVE  IInv'
<1>1. Typed
  BY DEF IInv
<1>2. /\ rpb \in [Proc -> [v : Version, slot : Place \cup {None}]] /\ ver \in Versions
      /\ log \in Seq([tra : Tra, read : -1 .. MaxTra, deleted : BOOLEAN])
  BY <1>1 DEF Typed, Versions
<1>3. Typed' /\ Alone(p)
  BY <1>1, <1>2, CalmTyped
<1>4. \A t \in Tra : Fresh(t) => rpb'[p].v.tra # t /\ req'[p].old.tra # t
  BY ReadFresh
<1> QED
  BY <1>3, <1>4, CalmStep

(* A reader looks at a version. *)
LEMMA ChaseKeeps ==
    ASSUME VersionsAssumption, IInv, NEW p \in Proc, VIO_chase_record_version(p)
    PROVE  IInv'
<1>v. PICK v : v = rpb[p].v
  OBVIOUS
<1>s. PICK state : state = TRA_snapshot_state(p, v.tra)
  OBVIOUS
<1>1. Typed /\ TraInv /\ RequestOf(p) /\ ActOf(p) /\ ReaderOf(p) /\ FreshInv /\ at[p] = "look"
  BY DEF IInv, TraInv, RequestInv, ActInv, ReaderInv, VIO_chase_record_version
<1>2. /\ req[p] \in Request /\ ver \in Versions /\ rpb[p] \in [v : Version, slot : Place \cup {None}]
      /\ at \in [Proc -> Doing] /\ req \in [Proc -> Request]
      /\ rpb \in [Proc -> [v : Version, slot : Place \cup {None}]]
      /\ log \in Seq([tra : Tra, read : -1 .. MaxTra, deleted : BOOLEAN])
      /\ MaxTra \in Nat /\ v \in Version /\ v.tra \in 0 .. MaxTra /\ v.back \in Slot \cup {None}
  BY <1>1, <1>v, OwnFields, SharedFields DEF Typed, VersionsAssumption, Version
<1>3. v.tra # 0 /\ v.tra \in Tra
  BY <1>1, <1>2, <1>v DEF ReaderOf, Tra
<1>4. InSnapshot(p) /\ Active(p) /\ at[p] # "release" /\ at[p] \in Busy /\ tra[p].number \in Tra
  <2>1. NumbersOf(p)
    BY <1>1 DEF TraInv, NumbersInv
  <2> QED
    BY <1>1, <2>1 DEF InSnapshot, Active, Busy, Doing, NumbersOf
<1>5. /\ state = "us" <=> v.tra = tra[p].number
      /\ state = "committed" => tip[v.tra] = "committed" /\ v.tra < tra[p].number
      /\ state = "dead" => tip[v.tra] = "dead" /\ v.tra < tra[p].number
      /\ state \in {"us", "committed", "active", "dead"}
  BY <1>1, <1>3, <1>4, <1>s, SnapshotTrue
<1>6. state = "us" <=> req[p].wrote
  <2>1. ASSUME ~req[p].wrote
        PROVE  v.tra # tra[p].number
    <3>1. Fresh(tra[p].number)
      BY <1>1, <1>4, <2>1 DEF FreshInv
    <3> QED
      BY <1>v, <3>1 DEF Fresh
  <2>2. ASSUME req[p].wrote
        PROVE  v.tra = tra[p].number
    BY <1>1, <1>v, <2>2 DEF ActOf, ReaderOf
  <2> QED
    BY <1>5, <2>1, <2>2
<1>7. req[p].temp = None
  BY <1>1 DEF RequestOf
<1>8. /\ UNCHANGED <<hdr, tip, lck, dbb, tra, ver, log, crashes>>
      /\ \/ /\ state = "us"
            /\ Answers(p, IF v.deleted THEN 0 ELSE v.tra) /\ UNCHANGED rpb
         \/ /\ state = "committed" /\ v.deleted
            /\ at' = [at EXCEPT ![p] = "expunge"] /\ UNCHANGED <<req, rpb>>
         \/ /\ state \in {"committed", "active"} /\ Answers(p, 0) /\ UNCHANGED rpb
         \/ /\ state = "committed" /\ ~v.deleted
            /\ at' = [at EXCEPT ![p] = "purge"] /\ UNCHANGED <<req, rpb>>
         \/ /\ state = "committed" /\ ~v.deleted
            /\ Answers(p, v.tra) /\ UNCHANGED rpb
         \/ /\ state = "dead" /\ rpb[p].slot = Primary
            /\ at' = [at EXCEPT ![p] = "backout"]
            /\ req' = [req EXCEPT ![p].ret = "get"]
            /\ UNCHANGED rpb
         \/ /\ state = "active" /\ v.back # None
            /\ at' = [at EXCEPT ![p] = "regain"] /\ UNCHANGED <<req, rpb>>
         \/ /\ state = "active" /\ v.back # None /\ DPM_fetch_back(p, v.back)
  BY <1>v, <1>s DEF VIO_chase_record_version
<1>9. ASSUME NEW n \in 0 .. MaxTra, Answers(p, n), UNCHANGED rpb,
             ~req[p].wrote /\ n > 0 =>
               /\ v.tra # 0 /\ tip[v.tra] = "committed" /\ v.tra < tra[p].number /\ ~v.deleted
               /\ ver[Primary].tra = v.tra => ~ver[Primary].deleted
      PROVE  IInv'
  <2>1. PICK r : r = Answer(req[p], n)
    OBVIOUS
  <2>2. n \in -1 .. MaxTra
    BY <1>2
  <2>3. /\ r \in Request /\ r.temp = None /\ r.next = None /\ r.old = NoVersion
        /\ r.wrote = req[p].wrote /\ r.answer = n
    BY <1>2, <2>1, <2>2, AnswerIs
  <2>4. at' = [at EXCEPT ![p] = "ready"] /\ req' = [req EXCEPT ![p] = r]
    BY <1>9, <2>1 DEF Answers
  <2>5. /\ at' \in [Proc -> Doing] /\ at'[p] = "ready" /\ \A q \in Proc \ {p} : at'[q] = at[q]
        /\ req' \in [Proc -> Request] /\ req'[p] = r /\ \A q \in Proc \ {p} : req'[q] = req[q]
    BY <1>2, <2>3, <2>4 DEF Doing
  <2>6. Typed' /\ Alone(p)
    BY <1>1, <1>2, <1>8, <1>9, <2>5, CalmTyped
  <2>7. ~req[p].wrote /\ req'[p].answer > 0 =>
             /\ rpb[p].v.tra # 0 /\ tip[rpb[p].v.tra] = "committed"
             /\ rpb[p].v.tra < tra[p].number /\ ~rpb[p].v.deleted
             /\ ver[Primary].tra = rpb[p].v.tra => ~ver[Primary].deleted
    BY <1>v, <1>9, <2>3, <2>5
  <2> QED
    BY <1>1, <1>8, <1>9, <2>3, <2>5, <2>6, <2>7, AnswerKeeps
<1>10. ASSUME NEW a \in {"expunge", "purge", "regain"}, at' = [at EXCEPT ![p] = a],
              UNCHANGED <<req, rpb>>, ~req[p].wrote,
              a = "expunge" => state = "committed" /\ v.deleted,
              a = "purge" => state = "committed",
              a = "regain" => state = "active" /\ v.back # None
       PROVE  IInv'
  <2>1. at' \in [Proc -> Doing] /\ at'[p] = a /\ \A q \in Proc \ {p} : at'[q] = at[q]
    BY <1>2, <1>10 DEF Doing
  <2>2. at'[p] \in Busy
    BY <2>1 DEF Busy, Doing
  <2>3. RequestOf(p)'
    BY <1>7, <1>10, <2>1 DEF RequestOf, Settling
  <2>4. ReaderOf(p)'
    <3>1. TRA_snapshot_state(p, ver[Primary].tra)' = TRA_snapshot_state(p, ver[Primary].tra)
          /\ TRA_snapshot_state(p, rpb[p].v.tra)' = TRA_snapshot_state(p, rpb[p].v.tra)
      BY <1>8, <1>10 DEF TRA_snapshot_state
    <3>2. Free(Primary)' <=> Free(Primary)
      BY <1>8 DEF Free
    <3> QED
      BY <1>v, <1>s, <1>1, <1>8, <1>10, <2>1, <3>1, <3>2 DEF ReaderOf
  <2>5. ActOf(p)'
    <3>1. a = "expunge" => v = ver[Primary]
      BY <1>v, <1>1, <1>10 DEF ReaderOf
    <3> QED
      BY <1>v, <1>3, <1>5, <1>8, <1>10, <2>1, <3>1 DEF ActOf
  <2> QED
    BY <1>1, <1>2, <1>4, <1>8, <1>10, <2>1, <2>2, <2>3, <2>4, <2>5, GoOnKeeps
<1>11. CASE state = "us" /\ Answers(p, IF v.deleted THEN 0 ELSE v.tra) /\ UNCHANGED rpb
  <2>1. PICK n : n = IF v.deleted THEN 0 ELSE v.tra
    OBVIOUS
  <2>2. n \in 0 .. MaxTra /\ Answers(p, n)
    BY <1>2, <1>11, <2>1
  <2> QED
    BY <1>6, <1>9, <1>11, <2>2
<1>12. CASE state \in {"committed", "active"} /\ Answers(p, 0) /\ UNCHANGED rpb
  <2>1. 0 \in 0 .. MaxTra /\ ~(0 > 0)
    BY <1>2
  <2> QED
    BY <1>9, <1>12, <2>1
<1>13. CASE state = "committed" /\ ~v.deleted /\ Answers(p, v.tra) /\ UNCHANGED rpb
  <2>1. v.tra # 0 /\ tip[v.tra] = "committed" /\ v.tra < tra[p].number
    BY <1>3, <1>5, <1>13
  <2>2. ver[Primary].tra = v.tra => ~ver[Primary].deleted
    BY <1>1, <1>3, <1>v, <1>s, <1>13 DEF ReaderOf, Free
  <2> QED
    BY <1>2, <1>9, <1>13, <2>1, <2>2
<1>14. CASE /\ state = "dead" /\ rpb[p].slot = Primary
            /\ at' = [at EXCEPT ![p] = "backout"]
            /\ req' = [req EXCEPT ![p].ret = "get"] /\ UNCHANGED rpb
  <2>1. at' \in [Proc -> Doing] /\ at'[p] = "backout" /\ \A q \in Proc \ {p} : at'[q] = at[q]
    BY <1>2, <1>14 DEF Doing
  <2>2. PICK r : r = [req[p] EXCEPT !.ret = "get"]
    OBVIOUS
  <2>3. /\ r \in Request /\ r.temp = None /\ r.wrote = req[p].wrote /\ r.old = req[p].old
        /\ r.ret = "get"
    BY <1>2, <1>7, <2>2 DEF Request
  <2>4. /\ req' \in [Proc -> Request] /\ req'[p] = r /\ \A q \in Proc \ {p} : req'[q] = req[q]
    BY <1>2, <1>14, <2>2, <2>3
  <2>5. at'[p] \in Busy
    BY <2>1 DEF Busy, Doing
  <2>6. ~req[p].wrote
    BY <1>6, <1>14
  <2>7. RequestOf(p)' /\ ReaderOf(p)'
    BY <2>1, <2>3, <2>4, <2>6 DEF RequestOf, ReaderOf, Settling
  <2>8. ActOf(p)'
    BY <1>v, <1>3, <1>5, <1>8, <1>14, <2>1, <2>3, <2>4, <2>6 DEF ActOf
  <2> QED
    BY <1>1, <1>4, <1>7, <1>8, <1>14, <2>1, <2>3, <2>4, <2>5, <2>7, <2>8, GoOnKeeps
<1>15. CASE state = "active" /\ v.back # None /\ DPM_fetch_back(p, v.back)
  <2>1. v.back \in Slot /\ ~req[p].wrote
    BY <1>2, <1>6, <1>15
  <2>2. ~Free(Primary) /\ ver[Primary].deleted =>
             TRA_snapshot_state(p, ver[Primary].tra) \notin {"us", "committed"}
    BY <1>1, <1>v, <1>s, <1>15 DEF ReaderOf
  <2> QED
    BY <1>1, <1>8, <1>15, <2>1, <2>2, FetchBackKeeps
<1> QED
  BY <1>6, <1>8, <1>10, <1>11, <1>12, <1>13, <1>14, <1>15

(* A reader regains the page of the version it had. *)
LEMMA RegainKeeps ==
    ASSUME VersionsAssumption, IInv, NEW p \in Proc, Regain(p)
    PROVE  IInv'
<1>v. PICK v : v = rpb[p].v
  OBVIOUS
<1>1. Typed /\ RequestOf(p) /\ ReaderOf(p) /\ at[p] = "regain"
  BY DEF IInv, RequestInv, ReaderInv, Regain
<1>2. /\ req[p] \in Request /\ ver \in Versions /\ rpb[p] \in [v : Version, slot : Place \cup {None}]
      /\ at \in [Proc -> Doing] /\ req \in [Proc -> Request]
      /\ rpb \in [Proc -> [v : Version, slot : Place \cup {None}]]
      /\ log \in Seq([tra : Tra, read : -1 .. MaxTra, deleted : BOOLEAN])
      /\ MaxTra \in Nat /\ v.back \in Slot \cup {None}
      /\ ver[Primary].back \in Slot \cup {None}
  BY <1>1, <1>v, OwnFields, SharedFields
     DEF Typed, VersionsAssumption, Version, Versions, Place
<1>3. /\ v.tra # 0 /\ v.back # None /\ rpb[p].slot # None
      /\ TRA_snapshot_state(p, v.tra) = "active"
      /\ ~req[p].wrote /\ req[p].temp = None
      /\ rpb[p].slot # Primary /\ ~Free(Primary) /\ ver[Primary].deleted =>
           TRA_snapshot_state(p, ver[Primary].tra) \notin {"us", "committed"}
  BY <1>1, <1>v DEF ReaderOf, RequestOf
<1>4. /\ UNCHANGED <<hdr, tip, lck, dbb, tra, ver, log, crashes>>
      /\ \/ at' = [at EXCEPT ![p] = "get"] /\ UNCHANGED <<rpb, req>>
         \/ Answers(p, 0) /\ UNCHANGED rpb
         \/ rpb[p].slot # Primary /\ DPM_fetch_back(p, v.back)
         \/ /\ rpb[p].slot = Primary /\ ver[Primary].tra = v.tra /\ ver[Primary].back # None
            /\ DPM_fetch_back(p, ver[Primary].back)
  BY <1>v DEF Regain
<1>5. at[p] \in Busy
  BY <1>1 DEF Busy, Doing
<1>6. CASE at' = [at EXCEPT ![p] = "get"] /\ UNCHANGED <<rpb, req>>
  <2>1. at' \in [Proc -> Doing] /\ at'[p] = "get" /\ \A q \in Proc \ {p} : at'[q] = at[q]
    BY <1>2, <1>6 DEF Doing
  <2>2. at'[p] \in Busy
    BY <2>1 DEF Busy, Doing
  <2>3. RequestOf(p)' /\ ReaderOf(p)' /\ ActOf(p)'
    BY <1>3, <1>6, <2>1 DEF RequestOf, ReaderOf, ActOf, Settling
  <2> QED
    BY <1>1, <1>2, <1>4, <1>5, <1>6, <2>1, <2>2, <2>3, GoOnKeeps
<1>7. CASE Answers(p, 0) /\ UNCHANGED rpb
  <2>1. PICK r : r = Answer(req[p], 0)
    OBVIOUS
  <2>2. 0 \in -1 .. MaxTra
    BY <1>2
  <2>3. /\ r \in Request /\ r.temp = None /\ r.next = None /\ r.old = NoVersion
        /\ r.wrote = req[p].wrote /\ r.answer = 0
    BY <1>2, <2>1, <2>2, AnswerIs
  <2>4. at' = [at EXCEPT ![p] = "ready"] /\ req' = [req EXCEPT ![p] = r]
    BY <1>7, <2>1 DEF Answers
  <2>5. /\ at' \in [Proc -> Doing] /\ at'[p] = "ready" /\ \A q \in Proc \ {p} : at'[q] = at[q]
        /\ req' \in [Proc -> Request] /\ req'[p] = r /\ \A q \in Proc \ {p} : req'[q] = req[q]
    BY <1>2, <2>3, <2>4 DEF Doing
  <2>6. Typed' /\ Alone(p)
    BY <1>1, <1>2, <1>4, <1>7, <2>5, CalmTyped
  <2> QED
    BY <1>1, <1>4, <1>7, <2>3, <2>5, <2>6, AnswerKeeps
<1>8. CASE rpb[p].slot # Primary /\ DPM_fetch_back(p, v.back)
  <2>1. v.back \in Slot
    BY <1>2, <1>3
  <2> QED
    BY <1>1, <1>3, <1>4, <1>8, <2>1, FetchBackKeeps
<1>9. CASE /\ rpb[p].slot = Primary /\ ver[Primary].tra = v.tra /\ ver[Primary].back # None
           /\ DPM_fetch_back(p, ver[Primary].back)
  <2>1. PICK s \in Slot : s = ver[Primary].back
    BY <1>2, <1>9
  <2>2. TRA_snapshot_state(p, ver[Primary].tra) = "active"
    BY <1>3, <1>9
  <2> QED
    BY <1>1, <1>3, <1>4, <1>9, <2>1, <2>2, FetchBackKeeps
<1> QED
  BY <1>4, <1>6, <1>7, <1>8, <1>9

(* An updater waits for the transaction that wrote the record, or may not. *)
LEMMA WaitKeeps ==
    ASSUME VersionsAssumption, IInv, NEW p \in Proc, TRA_wait(p) \/ WaitDenied(p)
    PROVE  IInv'
<1>1. Typed /\ TraInv /\ RequestOf(p) /\ ActOf(p) /\ FreshInv /\ at[p] = "wait"
  BY DEF IInv, TraInv, RequestInv, ActInv, TRA_wait, WaitDenied
<1>2. /\ at \in [Proc -> Doing] /\ req \in [Proc -> Request] /\ req[p] \in Request
  BY <1>1, OwnFields DEF Typed
<1>3. req[p].temp # None /\ ~req[p].wrote /\ req[p].answer > 0 /\ req[p].kind # "none"
  BY <1>1 DEF RequestOf
<1>4. at[p] \in Busy /\ Active(p)
  BY <1>1 DEF Busy, Doing, Active
<1>5. CASE WaitDenied(p)
  <2>1. /\ at' = [at EXCEPT ![p] = "discard"]
        /\ UNCHANGED <<hdr, tip, lck, dbb, tra, ver, rpb, req, log, crashes>>
    BY <1>5 DEF WaitDenied
  <2>2. at' \in [Proc -> Doing] /\ at'[p] = "discard" /\ \A q \in Proc \ {p} : at'[q] = at[q]
    BY <1>2, <2>1 DEF Doing
  <2>3. at'[p] \in Busy
    BY <2>2 DEF Busy, Doing
  <2>4. RequestOf(p)' /\ ReaderOf(p)' /\ ActOf(p)'
    BY <1>3, <2>1, <2>2 DEF RequestOf, ReaderOf, ActOf, Settling
  <2> QED
    BY <1>1, <1>2, <1>4, <2>1, <2>2, <2>3, <2>4, GoOnKeeps
<1>6. CASE TRA_wait(p)
  <2>t. PICK t : t = rpb[p].v.tra
    OBVIOUS
  <2>1. t \in Tra /\ t <= hdr.next
    <3>1. t # 0 /\ t \in 0 .. MaxTra /\ hdr.next \in Int
      BY <1>1, <2>t, OwnFields, SharedFields DEF ActOf
    <3>2. t \in Tra /\ t \in Int
      BY <3>1 DEF Tra
    <3>3. ~(t > hdr.next)
      BY <1>1, <2>t, <3>2 DEF FreshInv, Fresh
    <3> QED
      BY <3>1, <3>2, <3>3
  <2>2. /\ Typed' /\ TraInv' /\ EndsStay /\ Alone(p) /\ tip'[t] = Settled(t)
    BY <1>1, <1>6, <2>t, <2>1, WaitNumbers
  <2>3. /\ UNCHANGED <<hdr, lck, dbb, ver, rpb, log, crashes>>
        /\ \/ /\ Settled(t) = "committed"
              /\ at' = [at EXCEPT ![p] = IF req[p].conflict # t THEN "write" ELSE "discard"]
              /\ req' = [req EXCEPT ![p].conflict = t]
           \/ /\ Settled(t) = "dead" /\ at' = [at EXCEPT ![p] = "backout"]
              /\ req' = [req EXCEPT ![p].ret = "write"]
    BY <1>6, <2>t DEF TRA_wait
  <2>4. /\ at'[p] \in {"write", "discard", "backout"}
        /\ at'[p] = "backout" => Settled(t) = "dead" /\ req'[p].ret = "write"
    BY <1>2, <2>3 DEF Request
  <2>5. /\ req'[p].temp = req[p].temp /\ req'[p].wrote = req[p].wrote
        /\ req'[p].old = req[p].old /\ req'[p].answer = req[p].answer
        /\ req'[p].kind = req[p].kind
    BY <1>2, <2>3 DEF Request
  <2>6. at'[p] \in Busy
    BY <2>4 DEF Busy, Doing
  <2>7. tra'[p].number = tra[p].number
    <3>1. tra \in [Proc -> Transaction]
      BY <1>1 DEF Typed, Transaction
    <3>2. tra' = tra \/ tra' = [tra EXCEPT ![p].states[t] = "dead"]
      BY <1>6, <2>t DEF TRA_wait
    <3> QED
      BY <3>1, <3>2 DEF Transaction
  <2>8. RequestOf(p)' /\ ReaderOf(p)'
    BY <1>3, <2>4, <2>5 DEF RequestOf, ReaderOf, Settling
  <2>9. ActOf(p)'
    <3>1. t # 0
      BY <2>1 DEF Tra
    <3>2. rpb'[p].v.tra = t
      BY <2>t, <2>3
    <3> QED
      BY <1>3, <2>2, <2>4, <2>5, <3>1, <3>2 DEF ActOf
  <2>10. \A u \in Tra : Fresh(u) => rpb'[p].v.tra # u /\ req'[p].old.tra # u
    BY <2>3, <2>5, ReadFresh
  <2> QED
    BY <1>1, <1>4, <2>2, <2>3, <2>4, <2>5, <2>6, <2>7, <2>8, <2>9, <2>10, StillStep
<1> QED
  BY <1>5, <1>6

(* A rollback ends the transaction or undoes its update. *)
LEMMA RollbackKeeps ==
    ASSUME VersionsAssumption, IInv, NEW p \in Proc, TRA_rollback(p)
    PROVE  IInv'
<1>1. Typed /\ TraInv /\ RequestOf(p) /\ ActOf(p) /\ at[p] = "ready"
  BY DEF IInv, TraInv, RequestInv, ActInv, TRA_rollback
<1>2. /\ at \in [Proc -> Doing] /\ req \in [Proc -> Request] /\ req[p] \in Request
      /\ rpb \in [Proc -> [v : Version, slot : Place \cup {None}]] /\ ver \in Versions
      /\ log \in Seq([tra : Tra, read : -1 .. MaxTra, deleted : BOOLEAN])
  BY <1>1, OwnFields DEF Typed, Versions
<1>3. CASE /\ \E state \in {"dead"} \cup (IF req[p].wrote THEN {} ELSE {"committed"}) :
                 TRA_set_state(p, state)
           /\ UNCHANGED <<hdr, lck, dbb, tra, ver, log, crashes>>
  <2>1. \E state \in {"dead", "committed"} : TRA_set_state(p, state)
    BY <1>3
  <2> QED
    BY <1>1, <1>3, <2>1, EndingKeeps
<1>4. CASE /\ req[p].wrote
           /\ rpb' = [rpb EXCEPT ![p] = [v |-> ver[Primary], slot |-> Primary]]
           /\ req' = [req EXCEPT ![p].ret = "undone"]
           /\ at' = [at EXCEPT ![p] = IF ver[Primary].tra = tra[p].number
                                      THEN "backout" ELSE "bugcheck"]
           /\ UNCHANGED <<hdr, tip, lck, dbb, tra, ver, log, crashes>>
  <2>1. /\ ver[Primary].tra = tra[p].number /\ req[p].temp = None
        /\ \E i \in DOMAIN log : log[i].tra = tra[p].number
    BY <1>1, <1>4 DEF ActOf, RequestOf
  <2>2. at' \in [Proc -> Doing] /\ at'[p] = "backout" /\ \A q \in Proc \ {p} : at'[q] = at[q]
    BY <1>2, <1>4, <2>1 DEF Doing
  <2>3. PICK b : b = [v |-> ver[Primary], slot |-> Primary]
    OBVIOUS
  <2>4. PICK r : r = [req[p] EXCEPT !.ret = "undone"]
    OBVIOUS
  <2>5. b \in [v : Version, slot : Place \cup {None}] /\ b.v = ver[Primary] /\ Primary \in Place
    BY <1>2, <2>3 DEF Versions, Place
  <2>6. /\ r \in Request /\ r.temp = None /\ r.wrote = req[p].wrote /\ r.old = req[p].old
        /\ r.ret = "undone"
    BY <1>2, <2>1, <2>4 DEF Request
  <2>7. /\ rpb' \in [Proc -> [v : Version, slot : Place \cup {None}]] /\ rpb'[p] = b
        /\ \A q \in Proc \ {p} : rpb'[q] = rpb[q]
    BY <1>2, <1>4, <2>3, <2>5
  <2>8. /\ req' \in [Proc -> Request] /\ req'[p] = r /\ \A q \in Proc \ {p} : req'[q] = req[q]
    BY <1>2, <1>4, <2>4, <2>6
  <2>9. Typed' /\ Alone(p)
    BY <1>1, <1>2, <1>4, <2>2, <2>7, <2>8, CalmTyped
  <2>10. at[p] \in Busy /\ at'[p] \in Busy
    BY <1>1, <2>2 DEF Busy, Doing
  <2>11. \A u \in Tra : Fresh(u) => rpb'[p].v.tra # u /\ req'[p].old.tra # u
    BY <2>5, <2>6, <2>7, <2>8, ReadFresh
  <2>12. RequestOf(p)' /\ ReaderOf(p)' /\ ActOf(p)'
    <3>1. RequestOf(p)'
      BY <1>4, <2>1, <2>2, <2>6, <2>8 DEF RequestOf, Settling
    <3>2. ReaderOf(p)' /\ ActOf(p)'
      BY <1>4, <2>1, <2>2, <2>5, <2>6, <2>7, <2>8 DEF ReaderOf, ActOf
    <3> QED
      BY <3>1, <3>2
  <2> QED
    BY <1>1, <1>4, <2>1, <2>2, <2>6, <2>8, <2>9, <2>10, <2>11, <2>12, CalmStep
<1> QED
  BY <1>3, <1>4 DEF TRA_rollback

(* A backout reads the version behind the record. *)
LEMMA BackoutReadKeeps ==
    ASSUME VersionsAssumption, IInv, NEW p \in Proc, BackoutRead(p)
    PROVE  IInv'
<1>b. PICK b : b = rpb[p].v.back
  OBVIOUS
<1>1. Typed /\ RequestOf(p) /\ ActOf(p) /\ at[p] = "backout"
  BY DEF IInv, RequestInv, ActInv, BackoutRead
<1>2. /\ at \in [Proc -> Doing] /\ req \in [Proc -> Request] /\ req[p] \in Request
      /\ ver \in Versions /\ b \in Slot \cup {None} /\ rpb[p].v \in Version
  BY <1>1, <1>b, OwnFields DEF Typed, Versions, Version
<1>3. /\ req[p].ret = IF req[p].wrote THEN "undone"
                      ELSE IF req[p].temp = None THEN "get" ELSE "write"
      /\ req[p].temp # None => ~req[p].wrote /\ req[p].answer > 0 /\ req[p].kind # "none"
      /\ ~req[p].wrote => rpb[p].v.tra # 0 /\ tip[rpb[p].v.tra] = "dead"
      /\ req[p].wrote => /\ rpb[p].v = ver[Primary] /\ ver[Primary].tra = tra[p].number
                         /\ \E i \in DOMAIN log : log[i].tra = tra[p].number
  BY <1>1 DEF RequestOf, ActOf
<1>4. /\ UNCHANGED <<hdr, tip, lck, dbb, tra, ver, rpb, log, crashes>>
      /\ \/ at' = [at EXCEPT ![p] = req[p].ret] /\ UNCHANGED req
         \/ /\ req' = [req EXCEPT ![p].old = IF b = None THEN NoVersion ELSE ver[b]]
            /\ at' = [at EXCEPT ![p] = IF b # None /\ Free(b) THEN "bugcheck"
                                       ELSE "backout_write"]
  BY <1>b DEF BackoutRead
<1>5. at[p] \in Busy
  BY <1>1 DEF Busy, Doing
<1>6. CASE at' = [at EXCEPT ![p] = req[p].ret] /\ UNCHANGED req
  <2>1. /\ at' \in [Proc -> Doing] /\ at'[p] = req[p].ret
        /\ \A q \in Proc \ {p} : at'[q] = at[q]
    BY <1>2, <1>3, <1>6 DEF Doing
  <2>2. at'[p] \in Busy
    BY <1>3, <2>1 DEF Busy, Doing
  <2>3. RequestOf(p)' /\ ReaderOf(p)' /\ ActOf(p)'
    BY <1>3, <1>6, <2>1 DEF RequestOf, ReaderOf, ActOf, Settling
  <2> QED
    BY <1>1, <1>2, <1>3, <1>4, <1>5, <1>6, <2>1, <2>2, <2>3, GoOnKeeps
<1>7. CASE /\ req' = [req EXCEPT ![p].old = IF b = None THEN NoVersion ELSE ver[b]]
           /\ at' = [at EXCEPT ![p] = IF b # None /\ Free(b) THEN "bugcheck"
                                      ELSE "backout_write"]
  <2>1. /\ at' \in [Proc -> Doing] /\ at'[p] \in {"bugcheck", "backout_write"}
        /\ \A q \in Proc \ {p} : at'[q] = at[q]
    BY <1>2, <1>7 DEF Doing
  <2>2. PICK o : o = IF b = None THEN NoVersion ELSE ver[b]
    OBVIOUS
  <2>3. o \in Version /\ o \in {NoVersion} \cup {ver[s] : s \in Place}
    BY <1>2, <2>2, NoTypes DEF Versions, Place
  <2>4. PICK r : r = [req[p] EXCEPT !.old = o]
    OBVIOUS
  <2>5. /\ r \in Request /\ r.temp = req[p].temp /\ r.wrote = req[p].wrote /\ r.old = o
        /\ r.ret = req[p].ret /\ r.answer = req[p].answer /\ r.kind = req[p].kind
    BY <1>2, <2>3, <2>4 DEF Request
  <2>6. /\ req' \in [Proc -> Request] /\ req'[p] = r /\ \A q \in Proc \ {p} : req'[q] = req[q]
    BY <1>2, <1>7, <2>2, <2>4, <2>5
  <2>7. at'[p] \in Busy
    BY <2>1 DEF Busy, Doing
  <2>8. RequestOf(p)' /\ ReaderOf(p)'
    BY <1>3, <2>1, <2>5, <2>6 DEF RequestOf, ReaderOf, Settling
  <2>9. ActOf(p)'
    BY <1>b, <1>3, <1>4, <2>1, <2>2, <2>5, <2>6 DEF ActOf
  <2> QED
    BY <1>1, <1>2, <1>4, <1>5, <2>1, <2>3, <2>5, <2>6, <2>7, <2>8, <2>9, GoOnKeeps
<1> QED
  BY <1>4, <1>6, <1>7

-----------------------------------------------------------------------------
(* The actions that change the record. *)

(* The record's chain is the chain of what is behind the primary version. *)
LEMMA RecordChain ==
    ASSUME VersionsAssumption, NEW f \in Versions
    PROVE  /\ Primary \in Place /\ Primary \notin Slot /\ None \notin Place
           /\ f[Primary].back \in Slot \cup {None}
           /\ f[Primary].back = None => ChainIn(f, Primary) = {}
           /\ f[Primary].back # None => ChainIn(f, Primary) = ChainIn(f, f[Primary].back)
<1>1. Primary \in Place /\ Primary \notin Slot /\ None \notin Place
  BY DEF Place, VersionsAssumption
<1>2. f[Primary].back \in Slot \cup {None}
  BY <1>1 DEF Versions, Version
<1>3. {Primary} \cap Slot = {}
  BY <1>1
<1>4. /\ f[Primary].back = None => ChainIn(f, Primary) = {Primary} \cap Slot
      /\ f[Primary].back # None =>
           ChainIn(f, Primary) = ({Primary} \cap Slot) \cup ChainIn(f, f[Primary].back)
  BY <1>1, ChainSplit
<1> QED
  BY <1>1, <1>2, <1>3, <1>4

(* A chain of places for back versions does not depend on the primary one. *)
LEMMA ChainBehind ==
    ASSUME VersionsAssumption, NEW f \in Versions, NEW g \in Versions, NEW b \in Slot,
           \A s \in Slot : g[s] = f[s]
    PROVE  ChainIn(g, b) = ChainIn(f, b)
<1>1. b \in Place /\ ChainIn(f, b) \cup {b} \subseteq Slot
  BY ChainSlots DEF Place
<1> QED
  BY <1>1, ChainSame

(* What the invariant says of the record, stored as ver. *)
LEMMA RecordFalls ==
    ASSUME ChainInv
    PROVE  Falling(ver, Primary)
BY RecordIs DEF ChainInv, Falling

(* p has cut off the chain that starts at b, and goes on to collect it. *)
CutOff(p, b, x, r) ==
    /\ at' = [at EXCEPT ![p] = "collect"]
    /\ req' = [req EXCEPT ![p] = r]
    /\ r = [req[p] EXCEPT !.next = b, !.ret = x]
    /\ UNCHANGED <<hdr, tip, lck, dbb, tra, rpb, log, crashes>>

(* The chain is cut off and in the hands of a collector; the primary version
   stays or goes. *)
LEMMA CutKeeps ==
    ASSUME VersionsAssumption, IInv, NEW p \in Proc, at[p] \in {"purge", "expunge"},
           ~Latched(Primary), ~Free(Primary), tip[ver[Primary].tra] = "committed",
           NEW b, b = ver[Primary].back,
           ver' \in Versions, \A s \in Slot : ver'[s] = ver[s],
           \/ ver'[Primary] = NoVersion
           \/ /\ ver'[Primary].tra = ver[Primary].tra /\ ver'[Primary].back = None
              /\ ver'[Primary].deleted = ver[Primary].deleted,
           NEW r, NEW x \in {"get", "gone"}, CutOff(p, b, x, r)
    PROVE  IInv'
<1> USE DEF CutOff
<1>1. Typed /\ RequestOf(p) /\ ActOf(p) /\ ChainInv /\ HandInv
  BY DEF IInv, RequestInv, ActInv
<1>2. /\ at \in [Proc -> Doing] /\ req \in [Proc -> Request] /\ req[p] \in Request
      /\ rpb \in [Proc -> [v : Version, slot : Place \cup {None}]]
      /\ log \in Seq([tra : Tra, read : -1 .. MaxTra, deleted : BOOLEAN])
      /\ ver \in Versions /\ ver \in [Place -> Version] /\ b \in Slot \cup {None}
  BY <1>1, OwnFields, RecordChain DEF Typed, Versions
<1>3. req[p].temp = None /\ ~req[p].wrote
  BY <1>1 DEF RequestOf
<1>4. /\ at' \in [Proc -> Doing] /\ at'[p] = "collect" /\ \A q \in Proc \ {p} : at'[q] = at[q]
      /\ at[p] \in Busy /\ at'[p] \in Busy
  BY <1>2 DEF Doing, Busy
<1>5. /\ r \in Request /\ r.temp = None /\ r.wrote = req[p].wrote /\ r.old = req[p].old
      /\ r.ret = x /\ r.next = b
  BY <1>2, <1>3 DEF Request
<1>6. /\ req' \in [Proc -> Request] /\ req'[p] = r /\ \A q \in Proc \ {p} : req'[q] = req[q]
  BY <1>2, <1>5
<1>7. Typed' /\ Alone(p)
  BY <1>1, <1>2, <1>4, <1>6, CalmTyped
<1>8. ver'[Primary].back = None /\ (ver'[Primary].tra = 0 \/ ver'[Primary].tra = ver[Primary].tra)
  BY DEF NoVersion
<1>9. Chain(Primary)' = {}
  <2>1. PICK g : g = ver'
    OBVIOUS
  <2>2. ChainIn(g, Primary) = {}
    BY <1>8, <2>1, RecordChain
  <2> QED
    BY <2>1, <2>2, RecordIs
<1>10. /\ Held(p)' = Chain(Primary) /\ InHand(p)' \subseteq Slot
       /\ b # None => ChainIn(ver', b) = Chain(Primary)
  <2>1. /\ InHand(p)' = InHandIn(ver', "collect", rpb'[p].v.back, r)
        /\ Held(p)' = HeldIn(ver', "collect", rpb'[p].v.back, r)
    BY <1>4, <1>6, HeldIs
  <2>2. CASE b = None
    <3>1. Chain(Primary) = {}
      BY <1>2, <2>2, RecordIs, RecordChain
    <3>2. InHandIn(ver', "collect", rpb'[p].v.back, r) = {}
      BY <1>5, <2>2 DEF InHandIn
    <3> QED
      BY <1>5, <2>1, <2>2, <3>1, <3>2 DEF HeldIn
  <2>3. CASE b # None
    <3>1. ChainIn(ver', b) = ChainIn(ver, b)
      BY <1>2, <2>3, ChainBehind
    <3>2. Chain(Primary) = ChainIn(ver, b)
      BY <1>2, <2>3, RecordIs, RecordChain
    <3>3. InHandIn(ver', "collect", rpb'[p].v.back, r) = ChainIn(ver', b)
      BY <1>5, <2>3 DEF InHandIn
    <3> QED
      BY <1>5, <2>1, <3>1, <3>2, <3>3, ChainSlots DEF HeldIn
  <2> QED
    BY <2>2, <2>3
<1>11. Held(p) = {}
  BY <1>3, HeldIs DEF HeldIn, InHandIn
<1>12. \A t \in Tra : Fresh(t) => Fresh(t)'
  <2>1. \A s \in Place : ver'[s].tra = 0 \/ ver'[s].tra = ver[s].tra
    BY <1>8 DEF Place
  <2>2. \A q \in Proc : rpb'[q].v.tra = rpb[q].v.tra /\ req'[q].old.tra = req[q].old.tra
    BY <1>5, <1>6
  <2>3. \A t \in Tra : t # 0
    BY DEF Tra
  <2> QED
    BY <2>1, <2>2, <2>3 DEF Fresh
<1>13. \A s \in Chain(Primary) : s \in Slot /\ ~Free(s) /\ ~Free(s)'
  BY <1>1, RecordIs, ChainSlots DEF ChainInv, Free
<1>14. req'[p].next # None =>
         \A s \in Chain(req[p].next)' : ver'[s].back # None =>
           ver'[ver'[s].back].tra < ver'[s].tra
  <2> SUFFICES ASSUME b # None
               PROVE  \A s \in Chain(req[p].next)' : ver'[s].back # None =>
                        ver'[ver'[s].back].tra < ver'[s].tra
    BY <1>5, <1>6
  <2>1. Chain(req[p].next)' = Chain(Primary)
    BY <1>5, <1>6, <1>10 DEF Chain, ChainIn
  <2>2. \A s \in Chain(Primary) : ver[s].back # None =>
           ver[ver[s].back].tra < ver[s].tra /\ ver[s].back \in Slot
    BY <1>1, <1>2, RecordIs, ChainSlots DEF ChainInv, Version, Place
  <2> QED
    BY <1>13, <2>1, <2>2
<1>15. Moves(p)
  <2>1. \/ Free(Primary)'
        \/ /\ ver'[Primary].tra = ver[Primary].tra
           /\ ver'[Primary].deleted = ver[Primary].deleted
    BY DEF Free, NoVersion
  <2> QED
    BY <2>1 DEF Moves, Free
<1>16. ChainInv'
  <2>1. (Free(Primary)' => ver'[Primary] = NoVersion) /\ \A s \in Slot : Free(s)' <=> Free(s)
    BY DEF Free
  <2> QED
    BY <1>1, <1>8, <1>9, <2>1 DEF ChainInv, Place
<1>17. RequestOf(p)' /\ ReaderOf(p)' /\ ActOf(p)'
  BY <1>3, <1>4, <1>5, <1>6 DEF RequestOf, ReaderOf, ActOf, Settling
<1>18. /\ Held(p)' \cap Chain(Primary)' = {} /\ \A s \in Held(p)' : ~Free(s)'
       /\ req'[p].temp \notin InHand(p)'
       /\ Own(p) = Chain(Primary) /\ Own(p)' = Chain(Primary)
  BY <1>5, <1>6, <1>9, <1>10, <1>11, <1>13 DEF Own, VersionsAssumption
<1>19. /\ \A s \in Slot : ver'[s] # ver[s] => s \in Own(p) \/ Free(s)
       /\ \A s \in Own(p)' : s \in Own(p) \/ Free(s)
       /\ \A s \in Slot : ~Free(s)' /\ (s \in Own(p) \/ Free(s)) => s \in Own(p)'
       /\ req'[p].wrote = req[p].wrote
  BY <1>5, <1>6, <1>18 DEF Free
<1> QED
  BY <1>4, <1>7, <1>12, <1>14, <1>15, <1>16, <1>17, <1>18, <1>19, MoveStep

(* purge cuts the chain off, unless the record changed. *)
LEMMA PurgeKeeps ==
    ASSUME VersionsAssumption, IInv, NEW p \in Proc, purge(p)
    PROVE  IInv'
<1>b. PICK b : b = rpb[p].v.back
  OBVIOUS
<1>1. Typed /\ RequestOf(p) /\ ActOf(p) /\ at[p] = "purge" /\ ~Latched(Primary)
  BY DEF IInv, RequestInv, ActInv, purge
<1>2. at \in [Proc -> Doing] /\ req \in [Proc -> Request] /\ ver \in [Place -> Version]
      /\ req[p] \in Request
  BY <1>1 DEF Typed
<1>3. /\ req[p].temp = None /\ ~req[p].wrote
      /\ rpb[p].v.tra # 0 /\ tip[rpb[p].v.tra] = "committed"
  BY <1>1 DEF RequestOf, ActOf
<1>4. at[p] \in Busy
  BY <1>1 DEF Busy, Doing
<1>5. CASE /\ at' = [at EXCEPT ![p] = "get"]
           /\ UNCHANGED <<hdr, tip, lck, dbb, tra, rpb, log, crashes, ver, req>>
  <2>1. at' \in [Proc -> Doing] /\ at'[p] = "get" /\ \A q \in Proc \ {p} : at'[q] = at[q]
    BY <1>2, <1>5 DEF Doing
  <2>2. at'[p] \in Busy
    BY <2>1 DEF Busy, Doing
  <2>3. RequestOf(p)' /\ ReaderOf(p)' /\ ActOf(p)'
    BY <1>3, <1>5, <2>1 DEF RequestOf, ReaderOf, ActOf, Settling
  <2> QED
    BY <1>1, <1>2, <1>4, <1>5, <2>1, <2>2, <2>3, GoOnKeeps
<1>6. CASE /\ ~Free(Primary) /\ Same(p) /\ ver[Primary].back # None
           /\ ver' = [ver EXCEPT ![Primary].back = None, ![Primary].delta = FALSE]
           /\ req' = [req EXCEPT ![p].next = b, ![p].ret = "get"]
           /\ at' = [at EXCEPT ![p] = "collect"]
           /\ UNCHANGED <<hdr, tip, lck, dbb, tra, rpb, log, crashes>>
  <2>1. PICK r : r = [req[p] EXCEPT !.next = b, !.ret = "get"]
    OBVIOUS
  <2>2. req' = [req EXCEPT ![p] = r]
    BY <1>2, <1>6, <2>1
  <2>3. Primary \in Place /\ Primary \notin Slot
    BY RecordChain DEF Place, VersionsAssumption
  <2>4. [ver[Primary] EXCEPT !.back = None, !.delta = FALSE] \in Version
        /\ ver[Primary] \in Version
    BY <1>2, <2>3 DEF Version
  <2>5. /\ ver' \in Versions /\ \A s \in Slot : ver'[s] = ver[s]
        /\ ver'[Primary] = [ver[Primary] EXCEPT !.back = None, !.delta = FALSE]
    BY <1>2, <1>6, <2>3, <2>4 DEF Versions, Place
  <2>6. /\ ver'[Primary].tra = ver[Primary].tra /\ ver'[Primary].back = None
        /\ ver'[Primary].deleted = ver[Primary].deleted
    BY <2>4, <2>5 DEF Version
  <2>7. b = ver[Primary].back /\ tip[ver[Primary].tra] = "committed"
    BY <1>b, <1>3, <1>6 DEF Same
  <2>8. at[p] \in {"purge", "expunge"} /\ "get" \in {"get", "gone"}
    BY <1>1
  <2> QED
    <3>1. ~Free(Primary) /\ CutOff(p, b, "get", r)
      BY <1>6, <2>1, <2>2 DEF CutOff
    <3> QED
      BY <1>1, <2>5, <2>6, <2>7, <2>8, <3>1, CutKeeps
<1> QED
  BY <1>b, <1>5, <1>6 DEF purge

(* expunge cuts the chain off and takes the primary version away. *)
LEMMA ExpungeKeeps ==
    ASSUME VersionsAssumption, IInv, NEW p \in Proc, expunge(p)
    PROVE  IInv'
<1>b. PICK b : b = ver[Primary].back
  OBVIOUS
<1>1. Typed /\ RequestOf(p) /\ ActOf(p) /\ at[p] = "expunge" /\ ~Latched(Primary)
  BY DEF IInv, RequestInv, ActInv, expunge
<1>2. /\ at \in [Proc -> Doing] /\ req \in [Proc -> Request] /\ ver \in [Place -> Version]
      /\ req[p] \in Request /\ rpb \in [Proc -> [v : Version, slot : Place \cup {None}]]
      /\ log \in Seq([tra : Tra, read : -1 .. MaxTra, deleted : BOOLEAN])
      /\ ver \in Versions /\ MaxTra \in Nat
  BY <1>1 DEF Typed, Versions, VersionsAssumption
<1>3. CASE Answers(p, 0) /\ UNCHANGED <<hdr, tip, lck, dbb, tra, rpb, log, crashes, ver>>
  <2>1. PICK r : r = Answer(req[p], 0)
    OBVIOUS
  <2>2. 0 \in -1 .. MaxTra
    BY <1>2
  <2>3. /\ r \in Request /\ r.temp = None /\ r.next = None /\ r.old = NoVersion
        /\ r.wrote = req[p].wrote /\ r.answer = 0
    BY <1>2, <2>1, <2>2, AnswerIs
  <2>4. at' = [at EXCEPT ![p] = "ready"] /\ req' = [req EXCEPT ![p] = r]
    BY <1>3, <2>1 DEF Answers
  <2>5. /\ at' \in [Proc -> Doing] /\ at'[p] = "ready" /\ \A q \in Proc \ {p} : at'[q] = at[q]
        /\ req' \in [Proc -> Request] /\ req'[p] = r /\ \A q \in Proc \ {p} : req'[q] = req[q]
    BY <1>2, <2>3, <2>4 DEF Doing
  <2>6. Typed' /\ Alone(p)
    BY <1>1, <1>2, <1>3, <2>5, CalmTyped
  <2> QED
    BY <1>1, <1>3, <2>3, <2>5, <2>6, AnswerKeeps
<1>4. CASE /\ ~Free(Primary) /\ Collectable(p, ver[Primary])
           /\ ver' = [ver EXCEPT ![Primary] = NoVersion]
           /\ req' = [req EXCEPT ![p].next = b, ![p].ret = "gone"]
           /\ at' = [at EXCEPT ![p] = "collect"]
           /\ UNCHANGED <<hdr, tip, lck, dbb, tra, rpb, log, crashes>>
  <2>1. PICK r : r = [req[p] EXCEPT !.next = b, !.ret = "gone"]
    OBVIOUS
  <2>2. req' = [req EXCEPT ![p] = r]
    BY <1>2, <1>4, <2>1
  <2>3. Primary \in Place /\ Primary \notin Slot
    BY RecordChain DEF Place, VersionsAssumption
  <2>4. /\ ver' \in Versions /\ \A s \in Slot : ver'[s] = ver[s]
        /\ ver'[Primary] = NoVersion
    BY <1>2, <1>4, <2>3, NoTypes DEF Versions, Place
  <2>5. tip[ver[Primary].tra] = "committed"
    BY <1>1, <1>4 DEF ActOf
  <2>6. at[p] \in {"purge", "expunge"} /\ "gone" \in {"get", "gone"}
    BY <1>1
  <2> QED
    <3>1. ~Free(Primary) /\ CutOff(p, b, "gone", r)
      BY <1>4, <2>1, <2>2 DEF CutOff
    <3> QED
      BY <1>b, <1>1, <2>4, <2>5, <2>6, <3>1, CutKeeps
<1> QED
  BY <1>b, <1>3, <1>4 DEF expunge


(* A step that changes one place apart from the record's chain: it stores a
   version there that it then holds, or frees one that it held. *)
LEMMA SlotStep ==
    ASSUME VersionsAssumption, IInv, NEW p \in Proc, Alone(p), Typed',
           UNCHANGED <<hdr, tip, lck, dbb, tra, log, crashes>>,
           at[p] \in Busy, at'[p] \in Busy, req'[p].wrote = req[p].wrote,
           NEW s \in Slot, s \in Held(p) \/ Free(s),
           ver' \in Versions, \A u \in Place \ {s} : ver'[u] = ver[u],
           \/ ver'[s] = NoVersion /\ Held(p)' = Held(p) \ {s}
           \/ ver'[s].tra # 0 /\ ~ver'[s].deleted /\ Held(p)' = Held(p) \cup {s},
           \A t \in Tra : Fresh(t) =>
             ver'[s].tra # t /\ rpb'[p].v.tra # t /\ req'[p].old.tra # t,
           req'[p].temp \notin InHand(p)',
           at'[p] = "collect" /\ req'[p].next # None =>
             \A u \in Chain(req[p].next)' : ver'[u].back # None =>
               ver'[ver'[u].back].tra < ver'[u].tra,
           RequestOf(p)', ReaderOf(p)', ActOf(p)'
    PROVE  IInv'
<1>1. Typed /\ ChainInv /\ HandOf(p) /\ ver \in Versions
  BY DEF IInv, HandInv, Typed, Versions
<1>2. Primary \in Place /\ Primary \notin Slot /\ s \in Place /\ Slot \subseteq Place
  BY RecordChain DEF Place, VersionsAssumption
<1>3. s \notin Chain(Primary) \cup {Primary}
  BY <1>1, <1>2 DEF HandOf, ChainInv
<1>4. /\ Chain(Primary)' = Chain(Primary)
      /\ \A u \in Chain(Primary) \cup {Primary} : ver'[u] = ver[u]
  BY <1>1, <1>2, <1>3, RecordIs, ChainOutside
<1>5. \A u \in Slot : u # s => (Free(u)' <=> Free(u))
  BY <1>2 DEF Free
<1>6. ver'[s] = NoVersion <=> Free(s)'
  BY DEF Free, NoVersion
<1>7. /\ \A u \in Slot : ver'[u] # ver[u] => u \in Own(p) \/ Free(u)
      /\ \A u \in Own(p)' : u \in Own(p) \/ Free(u)
      /\ \A u \in Slot : ~Free(u)' /\ (u \in Own(p) \/ Free(u)) => u \in Own(p)'
      /\ Held(p)' \cap Chain(Primary)' = {}
  BY <1>1, <1>2, <1>3, <1>4, <1>5, <1>6 DEF Own, HandOf
<1>8. \A u \in Held(p)' : ~Free(u)'
  <2> TAKE u \in Held(p)'
  <2>1. Held(p) \subseteq Slot
    BY <1>1, OwnFields, HeldIs, HeldSlots DEF IInv, RequestInv, RequestOf, Version
  <2>2. u = s \/ (u \in Held(p) /\ u # s)
    OBVIOUS
  <2> QED
    BY <1>1, <1>5, <1>6, <2>1, <2>2 DEF HandOf, NoVersion, Free
<1>9. ChainInv'
  <2>1. \A u \in Chain(Primary) \cup {Primary} : ver[u].back # None =>
           ver[u].back \in Chain(Primary)
    BY <1>1, <1>2, RecordIs, ChainNext
  <2>2. \A u \in Chain(Primary)' \cup {Primary} : ver'[u].back # None =>
           ver'[ver'[u].back].tra < ver'[u].tra
    BY <1>1, <1>4, <2>1 DEF ChainInv
  <2>3. \A u \in Chain(Primary)' : ~Free(u)' /\ tip'[ver'[u].tra] = "committed"
    BY <1>1, <1>4 DEF ChainInv, Free
  <2>4. \A u \in Place : u # s => ver'[u] = ver[u]
    OBVIOUS
  <2>5. \A u \in Place : Free(u)' => ver'[u] = NoVersion
    BY <1>1, <1>6, <2>4 DEF ChainInv, Free
  <2>6. ~ver'[s].deleted
    BY DEF NoVersion
  <2>7. \A u \in Slot : ~ver'[u].deleted
    BY <1>1, <1>2, <2>4, <2>6 DEF ChainInv
  <2> QED
    BY <2>2, <2>3, <2>5, <2>7 DEF ChainInv
<1>10. \A t \in Tra : Fresh(t) => Fresh(t)'
  <2>1. \A u \in Place : u # s => ver'[u] = ver[u]
    OBVIOUS
  <2> QED
    BY <2>1 DEF Fresh, Alone
<1> QED
  BY <1>4, <1>7, <1>8, <1>9, <1>10, MoveStep


(* garbage_collect frees the next version it has in hand, or has none left. *)
LEMMA CollectKeeps ==
    ASSUME VersionsAssumption, IInv, NEW p \in Proc, garbage_collect(p)
    PROVE  IInv'
<1>s. PICK s : s = req[p].next
  OBVIOUS
<1>1. Typed /\ RequestOf(p) /\ ActOf(p) /\ HandOf(p) /\ at[p] = "collect"
  BY DEF IInv, RequestInv, ActInv, HandInv, garbage_collect
<1>2. /\ at \in [Proc -> Doing] /\ req \in [Proc -> Request] /\ ver \in [Place -> Version]
      /\ req[p] \in Request /\ rpb \in [Proc -> [v : Version, slot : Place \cup {None}]]
      /\ log \in Seq([tra : Tra, read : -1 .. MaxTra, deleted : BOOLEAN])
      /\ ver \in Versions /\ MaxTra \in Nat /\ s \in Slot \cup {None}
  BY <1>s, <1>1 DEF Typed, Versions, VersionsAssumption, Request
<1>3. /\ req[p].temp = None /\ ~req[p].wrote /\ req[p].ret \in {"get", "gone"}
      /\ at[p] \in Busy
  BY <1>1 DEF RequestOf, Busy, Doing
<1>4. CASE s # None
  <2>b. PICK b : b = ver[s].back
    OBVIOUS
  <2>1. s \in Slot /\ s \in Place /\ b \in Slot \cup {None} /\ None \notin Slot
    BY <1>2, <1>4, <2>b DEF Place, Version, VersionsAssumption
  <2>2. Chain(s) = ChainIn(ver, s) /\ s \in Chain(s)
    BY <2>1, ChainIs, ChainSelf
  <2>3. Held(p) = Chain(s)
    BY <1>s, <1>1, <1>3, <1>4, <2>2, HeldIs DEF HeldIn, InHandIn
  <2>4. ~Free(s)
    BY <1>1, <2>2, <2>3 DEF HandOf
  <2>5. Falling(ver, s)
    BY <1>s, <1>1, <1>4, <2>2 DEF HandOf, Falling
  <2>6. PICK r : r = [req[p] EXCEPT !.next = b]
    OBVIOUS
  <2>7. /\ r \in Request /\ r.temp = None /\ r.wrote = req[p].wrote /\ r.old = req[p].old
        /\ r.ret = req[p].ret /\ r.next = b
    BY <1>2, <1>3, <2>1, <2>6 DEF Request
  <2>8. /\ ver' = [ver EXCEPT ![s] = NoVersion]
        /\ req' = [req EXCEPT ![p] = r] /\ at' = [at EXCEPT ![p] = "collect"]
        /\ UNCHANGED <<hdr, tip, lck, dbb, tra, rpb, log, crashes>>
    BY <1>s, <1>2, <1>4, <2>b, <2>4, <2>6 DEF garbage_collect
  <2>9. /\ at' \in [Proc -> Doing] /\ at'[p] = "collect" /\ \A q \in Proc \ {p} : at'[q] = at[q]
        /\ req' \in [Proc -> Request] /\ req'[p] = r /\ \A q \in Proc \ {p} : req'[q] = req[q]
    BY <1>2, <2>7, <2>8 DEF Doing
  <2>10. /\ ver' \in Versions /\ ver'[s] = NoVersion /\ \A u \in Place \ {s} : ver'[u] = ver[u]
    BY <1>2, <2>1, <2>8, NoTypes DEF Versions
  <2>11. Typed' /\ Alone(p)
    BY <1>1, <1>2, <2>8, <2>9, <2>10, CalmTyped
  <2>12. /\ Held(p)' = Held(p) \ {s} /\ req'[p].temp \notin InHand(p)'
         /\ b # None => /\ ChainIn(ver', b) = ChainIn(ver, b)
                        /\ \A u \in ChainIn(ver, b) : ver'[u] = ver[u]
    <3>1. /\ InHand(p)' = InHandIn(ver', "collect", rpb'[p].v.back, r)
          /\ Held(p)' = HeldIn(ver', "collect", rpb'[p].v.back, r)
      BY <2>9, HeldIs
    <3>2. CASE b = None
      <4>1. ver[s].back = None /\ {s} \cap Slot = {s}
        BY <2>b, <2>1, <3>2
      <4>2. ChainIn(ver, s) = {s} \cap Slot
        BY <1>2, <2>1, <4>1, ChainSplit
      <4> QED
        BY <2>2, <2>3, <2>7, <2>9, <3>1, <3>2, <4>1, <4>2 DEF HeldIn, InHandIn
    <3>3. CASE b # None
      <4>1. ChainIn(ver, s) = {s} \cup ChainIn(ver, b) /\ s \notin ChainIn(ver, b)
        BY <1>2, <2>b, <2>1, <2>5, <3>3, ChainSplit, ChainFalls
      <4>2. s \notin ChainIn(ver, b) \cup {b}
        BY <2>1, <3>3, <4>1, ChainSelf
      <4>3. /\ ChainIn(ver', b) = ChainIn(ver, b)
            /\ \A u \in ChainIn(ver, b) : ver'[u] = ver[u]
        BY <1>2, <2>1, <2>10, <3>3, <4>2, ChainOutside DEF Place
      <4>4. InHandIn(ver', "collect", rpb'[p].v.back, r) = ChainIn(ver', b)
        BY <2>7, <3>3 DEF InHandIn
      <4>5. None \notin ChainIn(ver', b)
        BY <2>1, ChainSlots
      <4> QED
        BY <2>2, <2>3, <2>7, <2>9, <3>1, <4>1, <4>3, <4>4, <4>5 DEF HeldIn
    <3> QED
      BY <3>2, <3>3
  <2>13. req'[p].next # None =>
           \A u \in Chain(req[p].next)' : ver'[u].back # None =>
             ver'[ver'[u].back].tra < ver'[u].tra
    <3> SUFFICES ASSUME b # None
                 PROVE  \A u \in ChainIn(ver, b) : ver'[u].back # None =>
                          ver'[ver'[u].back].tra < ver'[u].tra
      BY <2>7, <2>9, <2>12 DEF Chain, ChainIn
    <3>1. Falling(ver, b)
      BY <1>2, <2>b, <2>1, <2>5, ChainFalls
    <3>2. \A u \in ChainIn(ver, b) : ver[u].back # None => ver[u].back \in ChainIn(ver, b)
      BY <1>2, <2>1, ChainNext DEF Place
    <3> QED
      BY <2>12, <3>1, <3>2 DEF Falling
  <2>14. RequestOf(p)' /\ ReaderOf(p)' /\ ActOf(p)'
    BY <1>3, <2>7, <2>9 DEF RequestOf, ReaderOf, ActOf, Settling
  <2>15. \A t \in Tra : Fresh(t) =>
           ver'[s].tra # t /\ rpb'[p].v.tra # t /\ req'[p].old.tra # t
    BY <2>7, <2>8, <2>9, <2>10 DEF Fresh, NoVersion, Tra
  <2>16. at'[p] \in Busy /\ req'[p].wrote = req[p].wrote /\ s \in Held(p)
    BY <1>1, <1>3, <2>2, <2>3, <2>7, <2>9
  <2> QED
    BY <1>3, <2>1, <2>16, <2>8, <2>9, <2>10, <2>11, <2>12, <2>13, <2>14, <2>15,
       SlotStep
<1>5. CASE s = None /\ Answers(p, 0) /\ UNCHANGED <<hdr, tip, lck, dbb, tra, rpb, log, crashes, ver>>
  <2>1. PICK r : r = Answer(req[p], 0)
    OBVIOUS
  <2>2. 0 \in -1 .. MaxTra
    BY <1>2
  <2>3. /\ r \in Request /\ r.temp = None /\ r.next = None /\ r.old = NoVersion
        /\ r.wrote = req[p].wrote /\ r.answer = 0
    BY <1>2, <2>1, <2>2, AnswerIs
  <2>4. at' = [at EXCEPT ![p] = "ready"] /\ req' = [req EXCEPT ![p] = r]
    BY <1>5, <2>1 DEF Answers
  <2>5. /\ at' \in [Proc -> Doing] /\ at'[p] = "ready" /\ \A q \in Proc \ {p} : at'[q] = at[q]
        /\ req' \in [Proc -> Request] /\ req'[p] = r /\ \A q \in Proc \ {p} : req'[q] = req[q]
    BY <1>2, <2>3, <2>4 DEF Doing
  <2>6. Typed' /\ Alone(p)
    BY <1>1, <1>2, <1>5, <2>5, CalmTyped
  <2>7. req[p].next = None /\ ~(req'[p].answer > 0)
    BY <1>s, <1>5, <2>3, <2>5
  <2> QED
    BY <1>1, <1>5, <2>3, <2>5, <2>6, <2>7, AnswerKeeps
<1>6. CASE s = None /\ at' = [at EXCEPT ![p] = "get"]
           /\ UNCHANGED <<hdr, tip, lck, dbb, tra, rpb, log, crashes, ver, req>>
  <2>1. at' \in [Proc -> Doing] /\ at'[p] = "get" /\ \A q \in Proc \ {p} : at'[q] = at[q]
    BY <1>2, <1>6 DEF Doing
  <2>2. at'[p] \in Busy
    BY <2>1 DEF Busy, Doing
  <2>3. RequestOf(p)' /\ ReaderOf(p)' /\ ActOf(p)'
    BY <1>3, <1>6, <2>1 DEF RequestOf, ReaderOf, ActOf, Settling
  <2> QED
    BY <1>s, <1>1, <1>2, <1>3, <1>6, <2>1, <2>2, <2>3, GoOnKeeps
<1> QED
  BY <1>s, <1>4, <1>5, <1>6 DEF garbage_collect


(* An update that fails frees the copy it stored. *)
LEMMA DiscardKeeps ==
    ASSUME VersionsAssumption, IInv, NEW p \in Proc, Discard(p)
    PROVE  IInv'
<1>s. PICK s : s = req[p].temp
  OBVIOUS
<1>1. Typed /\ RequestOf(p) /\ HandOf(p) /\ at[p] = "discard"
  BY DEF IInv, RequestInv, HandInv, Discard
<1>2. /\ at \in [Proc -> Doing] /\ req \in [Proc -> Request] /\ ver \in [Place -> Version]
      /\ req[p] \in Request /\ rpb \in [Proc -> [v : Version, slot : Place \cup {None}]]
      /\ log \in Seq([tra : Tra, read : -1 .. MaxTra, deleted : BOOLEAN])
      /\ ver \in Versions /\ MaxTra \in Nat /\ s \in Slot \cup {None}
  BY <1>s, <1>1 DEF Typed, Versions, VersionsAssumption, Request
<1>3. /\ s # None /\ ~req[p].wrote /\ at[p] \in Busy /\ s \in Slot /\ s \in Place
  BY <1>s, <1>1, <1>2 DEF RequestOf, Busy, Doing, Place
<1>4. Held(p) = {s}
  BY <1>s, <1>1, <1>3, HeldIs DEF HeldIn, InHandIn
<1>5. ~Free(s)
  BY <1>1, <1>4 DEF HandOf
<1>6. -1 \in -1 .. MaxTra
  BY <1>2
<1>7. PICK r : r = Answer(req[p], -1)
  OBVIOUS
<1>8. /\ r \in Request /\ r.temp = None /\ r.next = None /\ r.old = NoVersion
      /\ ~r.wrote /\ r.answer = -1
  BY <1>2, <1>3, <1>6, <1>7, AnswerIs
<1>9. /\ ver' = [ver EXCEPT ![s] = NoVersion]
      /\ req' = [req EXCEPT ![p] = r] /\ at' = [at EXCEPT ![p] = "ready"]
      /\ UNCHANGED <<hdr, tip, lck, dbb, tra, rpb, log, crashes>>
  BY <1>s, <1>5, <1>7 DEF Discard
<1>10. /\ at' \in [Proc -> Doing] /\ at'[p] = "ready" /\ \A q \in Proc \ {p} : at'[q] = at[q]
       /\ req' \in [Proc -> Request] /\ req'[p] = r /\ \A q \in Proc \ {p} : req'[q] = req[q]
  BY <1>2, <1>8, <1>9 DEF Doing
<1>11. /\ ver' \in Versions /\ ver'[s] = NoVersion /\ \A u \in Place \ {s} : ver'[u] = ver[u]
  BY <1>2, <1>3, <1>9, NoTypes DEF Versions
<1>12. Typed' /\ Alone(p)
  BY <1>1, <1>2, <1>9, <1>10, <1>11, CalmTyped
<1>13. Held(p)' = Held(p) \ {s} /\ req'[p].temp \notin InHand(p)'
  <2>1. /\ InHand(p)' = InHandIn(ver', "ready", rpb'[p].v.back, r)
        /\ Held(p)' = HeldIn(ver', "ready", rpb'[p].v.back, r)
    BY <1>10, HeldIs
  <2> QED
    BY <1>4, <1>8, <2>1 DEF HeldIn, InHandIn
<1>14. RequestOf(p)' /\ ReaderOf(p)' /\ ActOf(p)'
  BY <1>8, <1>10 DEF RequestOf, ReaderOf, ActOf, Settling
<1>15. \A t \in Tra : Fresh(t) =>
         ver'[s].tra # t /\ rpb'[p].v.tra # t /\ req'[p].old.tra # t
  BY <1>8, <1>9, <1>10, <1>11 DEF Fresh, NoVersion, Tra
<1>16. at'[p] \in Busy /\ req'[p].wrote = req[p].wrote /\ at'[p] # "collect"
  BY <1>3, <1>8, <1>10, <1>2 DEF Busy, Doing, Request
<1> QED
  BY <1>3, <1>4, <1>9, <1>11, <1>12, <1>13, <1>14, <1>15, <1>16, SlotStep

(* An undo frees the old version's copy. *)
LEMMA BackoutDeleteKeeps ==
    ASSUME VersionsAssumption, IInv, NEW p \in Proc, BackoutDelete(p)
    PROVE  IInv'
<1>b. PICK b : b = rpb[p].v.back
  OBVIOUS
<1>a. PICK a : a = req[p].ret
  OBVIOUS
<1>1. Typed /\ RequestOf(p) /\ HandOf(p) /\ at[p] = "backout_delete"
  BY DEF IInv, RequestInv, HandInv, BackoutDelete
<1>2. /\ at \in [Proc -> Doing] /\ req \in [Proc -> Request] /\ ver \in [Place -> Version]
      /\ req[p] \in Request /\ rpb \in [Proc -> [v : Version, slot : Place \cup {None}]]
      /\ log \in Seq([tra : Tra, read : -1 .. MaxTra, deleted : BOOLEAN])
      /\ ver \in Versions /\ b \in Slot \cup {None}
  BY <1>b, <1>1 DEF Typed, Versions, Version
<1>3. /\ b # None /\ at[p] \in Busy /\ b \in Slot /\ b \in Place
      /\ a = IF req[p].wrote THEN "undone" ELSE IF req[p].temp = None THEN "get" ELSE "write"
      /\ req[p].wrote => req[p].temp = None
  BY <1>a, <1>b, <1>1, <1>2 DEF RequestOf, Busy, Doing, Place
<1>4. Held(p) = {b} \cup ({req[p].temp} \ {None}) /\ req[p].temp # b
  <2>1. InHand(p) = {b} /\ Held(p) = HeldIn(ver, "backout_delete", b, req[p])
    BY <1>b, <1>1, HeldIs DEF InHandIn
  <2> QED
    BY <1>1, <2>1 DEF HeldIn, InHandIn, HandOf
<1>5. ~Free(b)
  BY <1>1, <1>4 DEF HandOf
<1>6. /\ ver' = [ver EXCEPT ![b] = NoVersion] /\ at' = [at EXCEPT ![p] = a]
      /\ UNCHANGED <<hdr, tip, lck, dbb, tra, rpb, req, log, crashes>>
  BY <1>a, <1>b, <1>5 DEF BackoutDelete
<1>7. /\ at' \in [Proc -> Doing] /\ at'[p] = a /\ \A q \in Proc \ {p} : at'[q] = at[q]
      /\ at'[p] \in Busy
  BY <1>2, <1>3, <1>6 DEF Doing, Busy
<1>8. /\ ver' \in Versions /\ ver'[b] = NoVersion /\ \A u \in Place \ {b} : ver'[u] = ver[u]
  BY <1>2, <1>3, <1>6, NoTypes DEF Versions
<1>9. Typed' /\ Alone(p)
  BY <1>1, <1>2, <1>6, <1>7, <1>8, CalmTyped
<1>10. Held(p)' = Held(p) \ {b} /\ req'[p].temp \notin InHand(p)'
  <2>1. /\ InHand(p)' = InHandIn(ver', a, rpb'[p].v.back, req[p])
        /\ Held(p)' = HeldIn(ver', a, rpb'[p].v.back, req[p])
    BY <1>6, <1>7, HeldIs
  <2> QED
    BY <1>3, <1>4, <1>6, <2>1 DEF HeldIn, InHandIn
<1>11. RequestOf(p)' /\ ReaderOf(p)' /\ ActOf(p)'
  <2>1. RequestOf(p)'
    BY <1>1, <1>3, <1>6, <1>7 DEF RequestOf, Settling
  <2>2. ReaderOf(p)' /\ ActOf(p)'
    BY <1>3, <1>6, <1>7 DEF ReaderOf, ActOf
  <2> QED
    BY <2>1, <2>2
<1>12. \A t \in Tra : Fresh(t) =>
         ver'[b].tra # t /\ rpb'[p].v.tra # t /\ req'[p].old.tra # t
  BY <1>6, <1>8 DEF Fresh, NoVersion, Tra
<1>13. req'[p].wrote = req[p].wrote /\ at'[p] # "collect" /\ b \in Held(p)
  BY <1>3, <1>4, <1>6, <1>7
<1> QED
  BY <1>3, <1>6, <1>7, <1>8, <1>9, <1>10, <1>11, <1>12, <1>13, SlotStep

(* What VIO_modify and VIO_erase store, and what they note of it. *)
UpdateNow(p, k) == IF k = "erase" /\ ~Free(Primary)
                   THEN [v |-> ver[Primary], slot |-> Primary] ELSE rpb[p]
UpdateCopy(p, now) == [now.v EXCEPT !.deleted = FALSE, !.delta = rpb[p].v.delta]
UpdateRequest(p, s, k, d) ==
    [req[p] EXCEPT !.kind = k, !.temp = s, !.delta = d, !.conflict = 0]

(* They store one copy in a free place. *)
LEMMA UpdateParts ==
    ASSUME NEW p \in Proc, Update(p)
    PROVE  \E s \in Slot, k \in {"modify", "erase"}, d \in BOOLEAN :
             /\ Free(s)
             /\ rpb' = [rpb EXCEPT ![p] = UpdateNow(p, k)]
             /\ ver' = [ver EXCEPT ![s] = UpdateCopy(p, UpdateNow(p, k))]
             /\ req' = [req EXCEPT ![p] = UpdateRequest(p, s, k, d)]
<1>1. PICK s \in Slot, k \in {"modify", "erase"}, d \in BOOLEAN :
        LET again == k = "erase" /\ ~Free(Primary)
            now == IF again THEN [v |-> ver[Primary], slot |-> Primary] ELSE rpb[p]
        IN  /\ Free(s) /\ (k = "erase" => ~d /\ ~Latched(Primary))
            /\ rpb' = [rpb EXCEPT ![p] = now]
            /\ ver' = [ver EXCEPT ![s] = [now.v EXCEPT !.deleted = FALSE,
                                                       !.delta = rpb[p].v.delta]]
            /\ req' = [req EXCEPT ![p].kind = k, ![p].temp = s, ![p].delta = d,
                                  ![p].conflict = 0]
  BY Zenon DEF Update
<1>2. rpb' = [rpb EXCEPT ![p] = UpdateNow(p, k)]
  BY <1>1, Zenon DEF UpdateNow
<1>3. ver' = [ver EXCEPT ![s] = UpdateCopy(p, UpdateNow(p, k))]
  BY <1>1, Zenon DEF UpdateNow, UpdateCopy
<1>4. req' = [req EXCEPT ![p] = UpdateRequest(p, s, k, d)]
  BY <1>1 DEF UpdateRequest
<1>5. Free(s)
  BY <1>1, Zenon
<1> QED
  BY <1>2, <1>3, <1>4, <1>5

(* An update stores a copy of the version it read in a free place. *)
LEMMA UpdateKeeps ==
    ASSUME VersionsAssumption, IInv, NEW p \in Proc, Update(p)
    PROVE  IInv'
<1>1. Typed /\ RequestOf(p) /\ ActOf(p) /\ CanUpdate(p) /\ at[p] = "ready" /\ ~req[p].wrote
  BY DEF IInv, RequestInv, ActInv, Update, CanUpdate
<1>2. /\ at \in [Proc -> Doing] /\ req \in [Proc -> Request] /\ ver \in [Place -> Version]
      /\ req[p] \in Request /\ rpb \in [Proc -> [v : Version, slot : Place \cup {None}]]
      /\ log \in Seq([tra : Tra, read : -1 .. MaxTra, deleted : BOOLEAN])
      /\ ver \in Versions /\ MaxTra \in Nat /\ rpb[p] \in [v : Version, slot : Place \cup {None}]
  BY <1>1 DEF Typed, Versions, VersionsAssumption
<1>3. /\ req[p].temp = None /\ at[p] \in Busy /\ req[p].answer > 0 /\ rpb[p].v.tra # 0
  BY <1>1 DEF RequestOf, Busy, Doing, CanUpdate, ActOf
<1>4. PICK s \in Slot, k \in {"modify", "erase"}, d \in BOOLEAN,
           now \in {[v |-> ver[Primary], slot |-> Primary], rpb[p]} :
        /\ Free(s) /\ (now = rpb[p] \/ ~Free(Primary))
        /\ rpb' = [rpb EXCEPT ![p] = now]
        /\ ver' = [ver EXCEPT ![s] = UpdateCopy(p, now)]
        /\ req' = [req EXCEPT ![p] = UpdateRequest(p, s, k, d)]
  <2>1. PICK s \in Slot, k \in {"modify", "erase"}, d \in BOOLEAN :
          /\ Free(s)
          /\ rpb' = [rpb EXCEPT ![p] = UpdateNow(p, k)]
          /\ ver' = [ver EXCEPT ![s] = UpdateCopy(p, UpdateNow(p, k))]
          /\ req' = [req EXCEPT ![p] = UpdateRequest(p, s, k, d)]
    BY UpdateParts
  <2>2. /\ UpdateNow(p, k) \in {[v |-> ver[Primary], slot |-> Primary], rpb[p]}
        /\ UpdateNow(p, k) = rpb[p] \/ ~Free(Primary)
    BY DEF UpdateNow
  <2> QED
    BY <2>1, <2>2
<1>5. at' = [at EXCEPT ![p] = "write"] /\ UNCHANGED <<hdr, tip, lck, dbb, tra, log, crashes>>
  BY DEF Update
<1>6. /\ Primary \in Place /\ s \in Place /\ s # None /\ s \in Slot
      /\ ver[Primary] \in Version /\ 0 \in 0 .. MaxTra
  BY <1>2, RecordChain DEF Place, VersionsAssumption
<1>7. /\ now \in [v : Version, slot : Place \cup {None}] /\ now.v \in Version
      /\ now.v.tra # 0 /\ now.v \in {ver[Primary], rpb[p].v}
  BY <1>2, <1>3, <1>4, <1>6 DEF Free
<1>8. PICK c : c = UpdateCopy(p, now)
  OBVIOUS
<1>9. c \in Version /\ c.tra = now.v.tra /\ ~c.deleted
  BY <1>2, <1>7, <1>8 DEF Version, UpdateCopy
<1>10. PICK r : r = UpdateRequest(p, s, k, d)
  OBVIOUS
<1>11. /\ r \in Request /\ r.temp = s /\ r.old = req[p].old /\ r.answer = req[p].answer
       /\ ~r.wrote /\ r.kind # "none"
  BY <1>1, <1>2, <1>6, <1>10 DEF Request, UpdateRequest
<1>12. /\ at' \in [Proc -> Doing] /\ at'[p] = "write" /\ \A q \in Proc \ {p} : at'[q] = at[q]
       /\ at'[p] \in Busy
  BY <1>2, <1>5 DEF Doing, Busy
<1>13. req' = [req EXCEPT ![p] = r]
  BY <1>2, <1>4, <1>10
<1>14. req' \in [Proc -> Request] /\ req'[p] = r /\ \A q \in Proc \ {p} : req'[q] = req[q]
  BY <1>2, <1>11, <1>13
<1>15. /\ rpb' \in [Proc -> [v : Version, slot : Place \cup {None}]] /\ rpb'[p] = now
       /\ \A q \in Proc \ {p} : rpb'[q] = rpb[q]
  BY <1>2, <1>4, <1>7
<1>16. /\ ver' \in Versions /\ ver'[s] = c /\ \A u \in Place \ {s} : ver'[u] = ver[u]
  BY <1>2, <1>4, <1>6, <1>8, <1>9 DEF Versions
<1>17. Typed' /\ Alone(p)
  BY <1>1, <1>2, <1>5, <1>12, <1>14, <1>15, <1>16, CalmTyped
<1>18. Held(p) = {} /\ Held(p)' = {s} /\ req'[p].temp \notin InHand(p)'
  <2>1. /\ Held(p) = HeldIn(ver, "ready", rpb[p].v.back, req[p])
        /\ InHand(p)' = InHandIn(ver', "write", rpb'[p].v.back, r)
        /\ Held(p)' = HeldIn(ver', "write", rpb'[p].v.back, r)
    BY <1>1, <1>12, <1>14, HeldIs
  <2> QED
    BY <1>3, <1>6, <1>11, <2>1 DEF HeldIn, InHandIn
<1>19. RequestOf(p)' /\ ReaderOf(p)' /\ ActOf(p)'
  BY <1>3, <1>6, <1>11, <1>12, <1>14 DEF RequestOf, ReaderOf, ActOf, Settling
<1>20. \A t \in Tra : Fresh(t) =>
         ver'[s].tra # t /\ rpb'[p].v.tra # t /\ req'[p].old.tra # t
  BY <1>6, <1>7, <1>9, <1>11, <1>14, <1>15, <1>16 DEF Fresh
<1>21. /\ ver'[s].tra # 0 /\ ~ver'[s].deleted /\ Held(p)' = Held(p) \cup {s}
       /\ req'[p].wrote = req[p].wrote /\ at'[p] # "collect"
  BY <1>1, <1>2, <1>7, <1>9, <1>11, <1>12, <1>14, <1>16, <1>18 DEF Request
<1> QED
  BY <1>3, <1>4, <1>5, <1>6, <1>12, <1>16, <1>17, <1>18, <1>19, <1>20, <1>21, SlotStep


(* The other updates move up when one is removed. *)
LEMMA Removed ==
    ASSUME NEW S, NEW h \in Seq(S), NEW i \in DOMAIN h, NEW g, g = RemoveAt(h, i)
    PROVE  /\ g \in Seq(S)
           /\ \A j \in DOMAIN g : j \in Int /\ j + 1 \in DOMAIN h /\ j \in DOMAIN h
                                  /\ g[j] = IF j < i THEN h[j] ELSE h[j + 1]
           /\ \A j \in DOMAIN h : /\ j \in Int
                                  /\ j < i => j \in DOMAIN g /\ g[j] = h[j]
                                  /\ j > i => j - 1 \in DOMAIN g /\ g[j - 1] = h[j]
<1>1. i \in 1 .. Len(h) /\ Len(h) \in Nat /\ DOMAIN h = 1 .. Len(h)
  OBVIOUS
<1>2. PICK a \in Seq(S) : /\ a = SubSeq(h, 1, i - 1) /\ Len(a) = i - 1
                          /\ \A j \in 1 .. i - 1 : a[j] = h[j]
  <2>1. PICK m : m = i - 1
    OBVIOUS
  <2>2. m \in Nat /\ \A j \in 1 .. m : h[j] \in S /\ 1 + j - 1 = j
    BY <1>1, <2>1
  <2>3. /\ SubSeq(h, 1, m) \in Seq(S) /\ Len(SubSeq(h, 1, m)) = IF 1 <= m THEN m - 1 + 1 ELSE 0
        /\ \A j \in 1 .. m - 1 + 1 : SubSeq(h, 1, m)[j] = h[1 + j - 1]
    BY <2>2, SubSeqProperties
  <2>4. Len(SubSeq(h, 1, m)) = m /\ m - 1 + 1 = m
    BY <2>2, <2>3
  <2> QED
    BY <2>1, <2>2, <2>3, <2>4
<1>3. PICK b \in Seq(S) : /\ b = SubSeq(h, i + 1, Len(h)) /\ Len(b) = Len(h) - i
                          /\ \A j \in 1 .. Len(h) - i : b[j] = h[i + j]
  <2>1. PICK m, n : m = i + 1 /\ n = Len(h)
    OBVIOUS
  <2>2. /\ m \in Nat /\ n \in Nat /\ \A j \in m .. n : h[j] \in S
        /\ n - m + 1 = Len(h) - i /\ i <= n /\ i \in Nat
        /\ \A j \in 1 .. n - m + 1 : m + j - 1 = i + j
    BY <1>1, <2>1
  <2>3. /\ SubSeq(h, m, n) \in Seq(S) /\ Len(SubSeq(h, m, n)) = IF m <= n THEN n - m + 1 ELSE 0
        /\ \A j \in 1 .. n - m + 1 : SubSeq(h, m, n)[j] = h[m + j - 1]
    BY <2>2, SubSeqProperties
  <2>4. Len(SubSeq(h, m, n)) = Len(h) - i
    BY <2>1, <2>2, <2>3
  <2> QED
    <3>1. \A j \in 1 .. Len(h) - i : SubSeq(h, m, n)[j] = h[i + j]
      BY <2>2, <2>3
    <3>2. SubSeq(h, m, n) = SubSeq(h, i + 1, Len(h))
      BY <2>1
    <3> QED
      BY <2>3, <2>4, <3>1, <3>2
<1>4. g = a \o b
  BY <1>2, <1>3 DEF RemoveAt
<1>5. /\ g \in Seq(S) /\ Len(g) = Len(h) - 1 /\ DOMAIN g = 1 .. Len(h) - 1
      /\ \A j \in 1 .. Len(h) - 1 : g[j] = IF j <= i - 1 THEN a[j] ELSE b[j - (i - 1)]
  <2>1. /\ a \o b \in Seq(S) /\ Len(a \o b) = Len(a) + Len(b)
        /\ \A j \in 1 .. Len(a) + Len(b) :
             (a \o b)[j] = IF j <= Len(a) THEN a[j] ELSE b[j - Len(a)]
    BY ConcatProperties
  <2>2. Len(a) + Len(b) = Len(h) - 1 /\ Len(a) = i - 1
    <3>1. \A x, y, k, l \in Int : x = k - 1 /\ y = l - k => x + y = l - 1
      OBVIOUS
    <3>2. Len(a) = i - 1 /\ Len(b) = Len(h) - i /\ i \in Int /\ Len(h) \in Int
      BY <1>1, <1>2, <1>3
    <3>3. Len(a) \in Int /\ Len(b) \in Int
      BY <1>1, <3>2
    <3> QED
      BY <3>1, <3>2, <3>3
  <2>3. DOMAIN (a \o b) = 1 .. Len(a \o b)
    BY <2>1
  <2> QED
    BY <1>4, <2>1, <2>2, <2>3
<1>6. \A j \in 1 .. Len(h) - 1 : g[j] = IF j < i THEN h[j] ELSE h[j + 1]
  <2> TAKE j \in 1 .. Len(h) - 1
  <2>1. CASE j < i
    BY <1>1, <1>2, <1>5, <2>1
  <2>2. CASE ~(j < i)
    <3>1. PICK k : k = j - (i - 1)
      OBVIOUS
    <3>2. k \in 1 .. Len(h) - i /\ i + k = j + 1 /\ ~(j <= i - 1)
      BY <1>1, <2>2, <3>1
    <3>3. b[k] = h[i + k] /\ g[j] = b[k]
      BY <1>3, <1>5, <3>1, <3>2
    <3> QED
      BY <2>2, <3>2, <3>3
  <2> QED
    BY <2>1, <2>2
<1>7. ASSUME NEW j \in DOMAIN h
      PROVE  /\ j \in Int
             /\ j < i => j \in DOMAIN g /\ g[j] = h[j]
             /\ j > i => j - 1 \in DOMAIN g /\ g[j - 1] = h[j]
  <2>1. j < i => j \in 1 .. Len(h) - 1
    BY <1>1
  <2>2. ASSUME j > i
        PROVE  j - 1 \in DOMAIN g /\ g[j - 1] = h[j]
    <3>1. PICK k : k = j - 1
      OBVIOUS
    <3>2. k \in 1 .. Len(h) - 1 /\ ~(k < i) /\ k + 1 = j
      BY <1>1, <2>2, <3>1
    <3>3. g[k] = h[k + 1]
      BY <1>6, <3>2
    <3> QED
      BY <1>5, <3>1, <3>2, <3>3
  <2> QED
    BY <1>1, <1>5, <1>6, <2>1, <2>2
<1>8. \A j \in DOMAIN g : j \in Int /\ j + 1 \in DOMAIN h /\ j \in DOMAIN h
                          /\ g[j] = IF j < i THEN h[j] ELSE h[j + 1]
  BY <1>1, <1>5, <1>6
<1> QED
  BY <1>5, <1>7, <1>8

(* An undone update leaves the history; the others stay. *)
LEMMA LogLess ==
    ASSUME NEW S, NEW h \in Seq(S), NEW i \in DOMAIN h
    PROVE  /\ RemoveAt(h, i) \in Seq(S)
           /\ \A j \in DOMAIN RemoveAt(h, i) : \E k \in DOMAIN h : RemoveAt(h, i)[j] = h[k]
<1>1. PICK g : g = RemoveAt(h, i)
  OBVIOUS
<1>2. /\ g \in Seq(S)
      /\ \A j \in DOMAIN g : /\ j \in DOMAIN h /\ j + 1 \in DOMAIN h
                            /\ g[j] = IF j < i THEN h[j] ELSE h[j + 1]
  BY <1>1, Removed
<1> QED
  BY <1>1, <1>2

(* The primary version gives way to the version behind it. *)
LEMMA Forward ==
    ASSUME VersionsAssumption, ver \in Versions, ver' \in Versions, ChainInv, tip' = tip,
           NEW b \in Slot, b = ver[Primary].back, ver'[Primary] = ver[b],
           ver'[b] \in {ver[b], NoVersion}, \A s \in Slot \ {b} : ver'[s] = ver[s]
    PROVE  /\ b \in Chain(Primary) /\ Chain(Primary)' = Chain(Primary) \ {b} /\ ChainInv'
           /\ ~Free(b) /\ tip[ver[b].tra] = "committed" /\ ~ver[b].deleted
<1>1. Primary \in Place /\ Primary \notin Slot /\ b \in Place /\ b # None /\ None \notin Slot
  BY RecordChain DEF Place, VersionsAssumption
<1>2. Chain(Primary) = ChainIn(ver, b) /\ b \in Chain(Primary)
  BY <1>1, RecordIs, RecordChain, ChainSelf
<1>3. ~Free(b) /\ tip[ver[b].tra] = "committed" /\ ~ver[b].deleted
  BY <1>2 DEF ChainInv
<1>4. Falling(ver, b)
  BY <1>1, RecordFalls, ChainFalls
<1>c. PICK c : c = ver[b].back
  OBVIOUS
<1>5. c \in Slot \cup {None} /\ ver'[Primary].back = c
  BY <1>c, <1>1 DEF Versions, Version
<1>6. CASE c = None
  <2>1. ver[b].back = None /\ {b} \cap Slot = {b}
    BY <1>c, <1>6
  <2>2. ChainIn(ver, b) = {b} \cap Slot
    BY <1>1, <2>1, ChainSplit
  <2>3. ChainIn(ver', Primary) = {}
    BY <1>5, <1>6, RecordChain
  <2>4. Chain(Primary)' = {} /\ Chain(Primary) = {b}
    BY <1>2, <2>1, <2>2, <2>3, RecordIs
  <2>5. ver'[Primary].tra = ver[b].tra /\ ver'[Primary].back = None
    BY <1>5, <1>6
  <2>6. \A s \in Slot : ver'[s] = ver[s] \/ ver'[s] = NoVersion
    OBVIOUS
  <2>7. ChainInv'
    <3>1. \A s \in Place : Free(s)' => ver'[s] = NoVersion
      BY <1>3, <2>6 DEF ChainInv, Free, Place
    <3>2. \A s \in Slot : ~ver'[s].deleted
      BY <2>6 DEF ChainInv, NoVersion
    <3> QED
      BY <2>4, <2>5, <3>1, <3>2 DEF ChainInv
  <2> QED
    BY <1>3, <2>4, <2>7
<1>7. CASE c # None
  <2>1. ChainIn(ver, b) = {b} \cup ChainIn(ver, c) /\ b \notin ChainIn(ver, c)
    BY <1>c, <1>1, <1>4, <1>7, ChainSplit, ChainFalls
  <2>2. b \notin ChainIn(ver, c) \cup {c} /\ c \in Slot /\ c \in Place /\ c \in ChainIn(ver, c)
    BY <1>5, <1>7, <2>1, ChainSelf DEF Place
  <2>3. ChainIn(ver, c) \subseteq Slot
    BY ChainSlots
  <2>4. \A u \in ChainIn(ver, c) \cup {c} : ver'[u] = ver[u]
    BY <2>2, <2>3
  <2>5. ChainIn(ver', c) = ChainIn(ver, c)
    BY <2>2, <2>4, ChainSame
  <2>6. ChainIn(ver', Primary) = ChainIn(ver', c)
    BY <1>5, <1>7, RecordChain
  <2>7. Chain(Primary)' = ChainIn(ver, c) /\ Chain(Primary) = {b} \cup ChainIn(ver, c)
    BY <1>2, <2>1, <2>5, <2>6, RecordIs
  <2>8. \A u \in ChainIn(ver, c) : ver[u].back # None => ver[u].back \in ChainIn(ver, c)
    BY <2>2, ChainNext
  <2>9. ver[c].tra < ver[b].tra
    BY <1>c, <1>2, <1>7 DEF ChainInv
  <2>10. \A s \in Slot : ver'[s] = ver[s] \/ ver'[s] = NoVersion
    OBVIOUS
  <2>11. \A u \in Chain(Primary)' \cup {Primary} : ver'[u].back # None =>
             ver'[ver'[u].back].tra < ver'[u].tra
    BY <1>5, <2>2, <2>4, <2>7, <2>8, <2>9 DEF ChainInv
  <2>12. \A u \in Chain(Primary)' : ~Free(u)' /\ tip'[ver'[u].tra] = "committed"
    BY <2>4, <2>7 DEF ChainInv, Free
  <2>13. \A s \in Place : Free(s)' => ver'[s] = NoVersion
    BY <1>3, <2>10 DEF ChainInv, Free, Place
  <2>14. \A s \in Slot : ~ver'[s].deleted
    BY <2>10 DEF ChainInv, NoVersion
  <2>15. ChainInv'
    BY <2>11, <2>12, <2>13, <2>14 DEF ChainInv
  <2> QED
    BY <1>3, <2>1, <2>7, <2>15
<1> QED
  BY <1>6, <1>7


(* A backout puts the version behind the record in its place. *)
LEMMA BackoutWriteKeeps ==
    ASSUME VersionsAssumption, IInv, NEW p \in Proc, BackoutWrite(p)
    PROVE  IInv'
<1>b. PICK b : b = rpb[p].v.back
  OBVIOUS
<1>a. PICK a : a = req[p].ret
  OBVIOUS
<1>r. PICK r : r = [req[p] EXCEPT !.old = NoVersion]
  OBVIOUS
<1>1. Typed /\ RequestOf(p) /\ ActOf(p) /\ HandOf(p) /\ ChainInv /\ at[p] = "backout_write"
  BY DEF IInv, RequestInv, ActInv, HandInv, BackoutWrite
<1>2. /\ at \in [Proc -> Doing] /\ req \in [Proc -> Request] /\ req[p] \in Request
      /\ rpb \in [Proc -> [v : Version, slot : Place \cup {None}]] /\ ver \in [Place -> Version]
      /\ log \in Seq([tra : Tra, read : -1 .. MaxTra, deleted : BOOLEAN])
      /\ ver \in Versions /\ b \in Slot \cup {None} /\ NoVersion \in Version
  BY <1>1, <1>b, OwnFields, NoTypes DEF Typed, Versions, Version
<1>3. /\ a = IF req[p].wrote THEN "undone" ELSE IF req[p].temp = None THEN "get" ELSE "write"
      /\ req[p].temp # None => ~req[p].wrote /\ req[p].answer > 0 /\ req[p].kind # "none"
      /\ ~req[p].wrote => rpb[p].v.tra # 0 /\ tip[rpb[p].v.tra] = "dead"
      /\ req[p].wrote => /\ rpb[p].v = ver[Primary] /\ ver[Primary].tra = tra[p].number
                         /\ \E i \in DOMAIN log : log[i].tra = tra[p].number
      /\ at[p] \in Busy /\ a \in Busy /\ a \in Doing /\ a # "backout_delete" /\ a # "collect"
  BY <1>1, <1>a DEF RequestOf, ActOf, Busy, Doing
<1>4. /\ r \in Request /\ r.temp = req[p].temp /\ r.wrote = req[p].wrote /\ r.old = NoVersion
      /\ r.ret = a /\ r.answer = req[p].answer /\ r.kind = req[p].kind
  BY <1>2, <1>a, <1>r DEF Request
<1>5. /\ req' = [req EXCEPT ![p] = r] /\ UNCHANGED <<hdr, tip, lck, dbb, tra, rpb, crashes>>
      /\ ~Latched(Primary)
  BY <1>2, <1>r DEF BackoutWrite
<1>6. /\ req' \in [Proc -> Request] /\ req'[p] = r /\ \A q \in Proc \ {p} : req'[q] = req[q]
  BY <1>2, <1>4, <1>5
<1>7. CASE at' = [at EXCEPT ![p] = a] /\ UNCHANGED <<ver, log>>
  <2>1. /\ at' \in [Proc -> Doing] /\ at'[p] = a /\ \A q \in Proc \ {p} : at'[q] = at[q]
    BY <1>2, <1>3, <1>7
  <2>2. RequestOf(p)' /\ ReaderOf(p)' /\ ActOf(p)'
    BY <1>3, <1>4, <1>6, <2>1 DEF RequestOf, ReaderOf, ActOf, Settling
  <2> QED
    BY <1>1, <1>3, <1>4, <1>5, <1>6, <1>7, <2>1, <2>2, GoOnKeeps
<1>8. CASE /\ ~Free(Primary) /\ Same(p)
           /\ \/ /\ b = None
                 /\ ver' = [ver EXCEPT ![Primary] = NoVersion]
                 /\ at' = [at EXCEPT ![p] = a]
              \/ /\ b # None
                 /\ ver' = [ver EXCEPT ![Primary] = req[p].old]
                 /\ at' = [at EXCEPT ![p] = "backout_delete"]
              \/ /\ b # None
                 /\ ver' = [ver EXCEPT ![Primary] = ver[b], ![b] = NoVersion]
                 /\ at' = [at EXCEPT ![p] = a]
           /\ log' = IF a = "undone" THEN RemoveAt(log, UpdateOf(tra[p].number)) ELSE log
  <2>1. /\ log' \in Seq([tra : Tra, read : -1 .. MaxTra, deleted : BOOLEAN])
        /\ \A j \in DOMAIN log' : \E k \in DOMAIN log : log'[j] = log[k]
    <3>1. CASE a = "undone"
      <4>1. \E i \in DOMAIN log : log[i].tra = tra[p].number
        BY <1>3, <3>1
      <4>2. UpdateOf(tra[p].number) \in DOMAIN log
        BY <4>1 DEF UpdateOf
      <4>3. PICK i \in DOMAIN log : i = UpdateOf(tra[p].number)
        BY <4>2
      <4> QED
        BY <1>2, <1>8, <3>1, <4>3, LogLess
    <3>2. CASE a # "undone"
      BY <1>2, <1>8, <3>2
    <3> QED
      BY <3>1, <3>2
  <2>2. /\ at' \in [Proc -> Doing] /\ at'[p] \in {a, "backout_delete"}
        /\ at'[p] \in Busy /\ \A q \in Proc \ {p} : at'[q] = at[q]
        /\ b = None => at'[p] = a
    BY <1>2, <1>3, <1>8 DEF Busy, Doing
  <2>3. b = ver[Primary].back /\ ver[Primary].tra = rpb[p].v.tra
    BY <1>b, <1>8 DEF Same
  <2>4. b # None => b \in Slot /\ b \in Place /\ b # Primary /\ req[p].old = ver[b]
    BY <1>b, <1>1, <1>2, <1>8 DEF ActOf, Place, VersionsAssumption
  <2>5. /\ Primary \in Place /\ Primary \notin Slot
        /\ Slot \subseteq Place /\ \A s \in Place : s = Primary \/ s \in Slot
    BY RecordChain DEF Place, VersionsAssumption
  <2>6. /\ ver' \in Versions
        /\ b = None => ver'[Primary] = NoVersion /\ \A s \in Slot : ver'[s] = ver[s]
        /\ b # None => /\ ver'[Primary] = ver[b] /\ \A s \in Slot \ {b} : ver'[s] = ver[s]
                       /\ \/ ver'[b] = ver[b] /\ at'[p] = "backout_delete"
                          \/ ver'[b] = NoVersion /\ at'[p] = a
    BY <1>2, <1>8, <2>4, <2>5 DEF Versions
  <2>7. Typed' /\ Alone(p)
    BY <1>1, <1>2, <1>5, <1>6, <2>1, <2>2, <2>6, CalmTyped
  <2>8. /\ ChainInv'
        /\ b = None => Chain(Primary)' = {} /\ Chain(Primary) = {}
        /\ b # None => /\ b \in Chain(Primary) /\ Chain(Primary)' = Chain(Primary) \ {b}
                       /\ ~Free(b) /\ tip[ver[b].tra] = "committed" /\ ~ver[b].deleted
    <3>1. CASE b # None
      <4>1. ver'[b] \in {ver[b], NoVersion}
        BY <2>6, <3>1
      <4> QED
        BY <1>1, <1>2, <1>5, <2>3, <2>4, <2>6, <3>1, <4>1, Forward
    <3>2. CASE b = None
      <4>1. ver'[Primary].back = None
        BY <2>6, <3>2 DEF NoVersion
      <4>2. Chain(Primary)' = {} /\ Chain(Primary) = {}
        BY <1>2, <2>3, <2>6, <3>2, <4>1, RecordIs, RecordChain
      <4>3. (\A s \in Place : Free(s)' => ver'[s] = NoVersion) /\ \A s \in Slot : ~ver'[s].deleted
        BY <1>1, <2>5, <2>6, <3>2 DEF ChainInv, Free
      <4> QED
        BY <3>2, <4>1, <4>2, <4>3 DEF ChainInv
    <3> QED
      BY <3>1, <3>2
  <2>9. /\ Held(p) = {req[p].temp} \ {None} /\ Held(p) \cap Chain(Primary) = {}
        /\ Held(p)' = ({req[p].temp} \ {None}) \cup
                      (IF at'[p] = "backout_delete" THEN {b} ELSE {})
        /\ req'[p].temp \notin InHand(p)' /\ \A s \in Held(p) : ~Free(s)
        /\ Held(p) \subseteq Slot
    <3>1. /\ Held(p) = HeldIn(ver, "backout_write", b, req[p])
          /\ InHand(p)' = InHandIn(ver', at'[p], rpb'[p].v.back, r)
          /\ Held(p)' = HeldIn(ver', at'[p], rpb'[p].v.back, r) /\ rpb'[p].v.back = b
      BY <1>b, <1>1, <1>5, <1>6, HeldIs
    <3>2. Held(p) = {req[p].temp} \ {None} /\ Held(p) \subseteq Slot
      BY <1>2, <3>1 DEF HeldIn, InHandIn, Request
    <3>3. Held(p) \cap Chain(Primary) = {} /\ \A s \in Held(p) : ~Free(s)
      BY <1>1 DEF HandOf
    <3>4. InHand(p)' = IF at'[p] = "backout_delete" THEN {b} ELSE {}
      BY <1>3, <2>2, <3>1 DEF InHandIn
    <3>5. Held(p)' = InHand(p)' \cup ({req[p].temp} \ {None})
      BY <1>4, <3>1 DEF HeldIn
    <3>6. req[p].temp \notin InHand(p)'
      <4> SUFFICES ASSUME at'[p] = "backout_delete"
                   PROVE  req[p].temp # b
        BY <3>4
      <4>1. b # None
        BY <1>3, <2>2
      <4> QED
        BY <2>8, <3>2, <3>3, <4>1
    <3> QED
      BY <1>4, <1>6, <3>2, <3>3, <3>4, <3>5, <3>6
  <2>10. /\ \A s \in Slot : ver'[s] # ver[s] => s \in Own(p)
         /\ \A s \in Own(p)' : s \in Own(p)
         /\ \A s \in Slot : ~Free(s)' /\ (s \in Own(p) \/ Free(s)) => s \in Own(p)'
         /\ Held(p)' \cap Chain(Primary)' = {}
         /\ \A s \in Held(p)' : ~Free(s)'
    <3>1. CASE b = None
      <4>1. at'[p] # "backout_delete" /\ Held(p)' = Held(p)
        BY <1>3, <2>2, <2>9, <3>1
      <4>2. \A s \in Slot : Free(s)' <=> Free(s)
        BY <2>6, <3>1 DEF Free
      <4> QED
        BY <2>6, <2>8, <2>9, <3>1, <4>1, <4>2 DEF Own
    <3>2. CASE b # None /\ ver'[b] = ver[b] /\ at'[p] = "backout_delete"
      <4>1. \A s \in Slot : Free(s)' <=> Free(s)
        BY <2>6, <3>2 DEF Free
      <4>2. Held(p)' = Held(p) \cup {b}
        BY <2>9, <3>2
      <4> QED
        BY <2>4, <2>6, <2>8, <2>9, <3>2, <4>1, <4>2 DEF Own
    <3>3. CASE b # None /\ ver'[b] = NoVersion /\ at'[p] = a
      <4>1. Free(b)' /\ \A s \in Slot : s # b => (Free(s)' <=> Free(s))
        BY <2>6, <3>3 DEF Free, NoVersion
      <4>2. Held(p)' = Held(p) /\ b \notin Held(p)
        BY <1>3, <2>8, <2>9, <3>3
      <4> QED
        BY <2>4, <2>6, <2>8, <2>9, <3>3, <4>1, <4>2 DEF Own
    <3> QED
      BY <2>6, <3>1, <3>2, <3>3
  <2>11. \A t \in Tra : Fresh(t) => Fresh(t)'
    <3>1. \A s \in Place : ver'[s].tra = 0 \/ \E u \in Place : ver'[s] = ver[u]
      <4> TAKE s \in Place
      <4>1. ver'[s] = NoVersion \/ ver'[s] = ver[s] \/ (b # None /\ ver'[s] = ver[b])
        BY <2>4, <2>5, <2>6
      <4> QED
        BY <2>4, <4>1 DEF NoVersion
    <3>2. \A q \in Proc : rpb'[q].v.tra = rpb[q].v.tra /\ req'[q].old.tra \in {0, req[q].old.tra}
      BY <1>4, <1>5, <1>6 DEF NoVersion
    <3>3. \A t \in Tra : t # 0
      BY DEF Tra
    <3> QED
      BY <2>1, <3>1, <3>2, <3>3 DEF Fresh
  <2>12. Moves(p)
    <3>1. Free(Primary) \/ tip[ver[Primary].tra] # "active" \/ ver[Primary].tra = tra[p].number
      BY <1>3, <2>3
    <3>2. \/ Free(Primary)'
          \/ ver'[Primary].tra # 0 /\ tip[ver'[Primary].tra] = "committed" /\ ~ver'[Primary].deleted
      BY <2>6, <2>8 DEF Free, NoVersion
    <3> QED
      BY <1>5, <3>1, <3>2 DEF Moves
  <2>13. RequestOf(p)' /\ ReaderOf(p)' /\ ActOf(p)'
    <3>1. at'[p] = "backout_delete" => b # None /\ rpb'[p].v.back = b
      BY <1>b, <1>3, <1>5, <2>2
    <3>2. RequestOf(p)'
      BY <1>3, <1>4, <1>6, <2>2, <3>1 DEF RequestOf, Settling
    <3>3. ReaderOf(p)' /\ ActOf(p)'
      BY <1>3, <1>4, <1>6, <2>2 DEF ReaderOf, ActOf
    <3> QED
      BY <3>2, <3>3
  <2>14. at'[p] # "collect" /\ req'[p].wrote = req[p].wrote
    BY <1>3, <1>4, <1>6, <2>2
  <2> QED
    BY <1>3, <1>5, <2>2, <2>7, <2>8, <2>9, <2>10, <2>11, <2>12, <2>13, <2>14, MoveStep
<1> QED
  BY <1>a, <1>b, <1>7, <1>8 DEF BackoutWrite


(* A request that has written. *)
Written == [NoRequest EXCEPT !.wrote = TRUE]

(* What a running transaction writes with its number is of the right type, *)
LEMMA WriteTypes ==
    ASSUME VersionsAssumption, IInv, NEW p \in Proc, at[p] \in Busy
    PROVE  /\ Written \in Request /\ Written.temp = None /\ Written.next = None
           /\ Written.old = NoVersion /\ Written.wrote /\ Written.answer = -1
           /\ tra[p].number \in Tra /\ tra[p].number # 0 /\ tra[p].number \in 0 .. MaxTra
<1>1. NumbersOf(p) /\ Active(p)
  BY DEF IInv, NumbersInv, Active, Busy
<1>2. /\ Written \in Request /\ Written.temp = None /\ Written.next = None
      /\ Written.old = NoVersion /\ Written.wrote /\ Written.answer = -1
  <2>1. 0 \in 0 .. MaxTra /\ -1 \in -1 .. MaxTra /\ NoVersion \in Version
    BY NoTypes DEF VersionsAssumption
  <2> QED
    BY <2>1 DEF Written, NoRequest, Request
<1>3. tra[p].number \in Tra /\ tra[p].number # 0 /\ tra[p].number \in 0 .. MaxTra
  BY <1>1 DEF NumbersOf, Tra
<1> QED
  BY <1>2, <1>3

(* and so is the history with one more update. *)
LEMMA LogMore ==
    ASSUME Typed, NEW t \in Tra, NEW n \in -1 .. MaxTra, NEW d \in BOOLEAN,
           log' = Append(log, [tra |-> t, read |-> n, deleted |-> d])
    PROVE  /\ log' \in Seq([tra : Tra, read : -1 .. MaxTra, deleted : BOOLEAN])
           /\ \E i \in DOMAIN log' : log'[i].tra = t
           /\ \A i \in DOMAIN log' : log'[i].tra = t \/ \E k \in DOMAIN log : log'[i] = log[k]
<1>1. PICK e \in [tra : Tra, read : -1 .. MaxTra, deleted : BOOLEAN] :
         e = [tra |-> t, read |-> n, deleted |-> d]
  OBVIOUS
<1>2. PICK h : h = log'
  OBVIOUS
<1>3. /\ log \in Seq([tra : Tra, read : -1 .. MaxTra, deleted : BOOLEAN])
      /\ e.tra = t /\ h = Append(log, e)
  BY <1>1, <1>2 DEF Typed
<1>4. /\ h \in Seq([tra : Tra, read : -1 .. MaxTra, deleted : BOOLEAN])
      /\ Len(h) = Len(log) + 1 /\ \A i \in 1 .. Len(log) : h[i] = log[i]
      /\ h[Len(log) + 1] = e
  BY <1>3, AppendProperties
<1>5. DOMAIN h = 1 .. Len(log) + 1 /\ DOMAIN log = 1 .. Len(log) /\ Len(log) \in Nat
  BY <1>3, <1>4
<1>6. h[Len(log) + 1].tra = t /\ Len(log) + 1 \in DOMAIN h
  BY <1>3, <1>4, <1>5
<1>7. \A i \in DOMAIN h : i = Len(log) + 1 \/ (i \in DOMAIN log /\ h[i] = log[i])
  BY <1>4, <1>5
<1> QED
  BY <1>2, <1>4, <1>6, <1>7

(* VIO_store: a new record where there is none. *)
LEMMA StoreKeeps ==
    ASSUME VersionsAssumption, IInv, NEW p \in Proc, VIO_store(p)
    PROVE  IInv'
<1>1. /\ Typed /\ RequestOf(p) /\ HandOf(p) /\ ChainInv /\ at[p] = "ready" /\ ~req[p].wrote
      /\ Free(Primary)
  BY DEF IInv, RequestInv, HandInv, VIO_store
<1>2. /\ at \in [Proc -> Doing] /\ req \in [Proc -> Request] /\ req[p] \in Request
      /\ rpb \in [Proc -> [v : Version, slot : Place \cup {None}]] /\ ver \in [Place -> Version]
      /\ ver \in Versions /\ 0 \in -1 .. MaxTra
  BY <1>1, OwnFields DEF Typed, Versions, VersionsAssumption
<1>3. req[p].temp = None /\ at[p] \in Busy
  BY <1>1 DEF RequestOf, Busy, Doing
<1>n. PICK n : n = tra[p].number
  OBVIOUS
<1>w. PICK w : w = [NoVersion EXCEPT !.tra = n]
  OBVIOUS
<1>4. /\ n \in Tra /\ n # 0 /\ n \in 0 .. MaxTra /\ Written \in Request /\ Written.temp = None
      /\ Written.next = None /\ Written.old = NoVersion /\ Written.wrote
      /\ log' \in Seq([tra : Tra, read : -1 .. MaxTra, deleted : BOOLEAN])
      /\ \E i \in DOMAIN log' : log'[i].tra = n
      /\ \A i \in DOMAIN log' : log'[i].tra = n \/ \E k \in DOMAIN log : log'[i] = log[k]
  <2>1. /\ Written \in Request /\ Written.temp = None /\ Written.next = None
        /\ Written.old = NoVersion /\ Written.wrote
        /\ n \in Tra /\ n # 0 /\ n \in 0 .. MaxTra
    BY <1>n, <1>3, WriteTypes
  <2>2. log' = Append(log, [tra |-> n, read |-> 0, deleted |-> FALSE]) /\ FALSE \in BOOLEAN
    BY <1>n DEF VIO_store
  <2>3. /\ log' \in Seq([tra : Tra, read : -1 .. MaxTra, deleted : BOOLEAN])
        /\ \E i \in DOMAIN log' : log'[i].tra = n
        /\ \A i \in DOMAIN log' : log'[i].tra = n \/ \E k \in DOMAIN log : log'[i] = log[k]
    BY <1>1, <1>2, <2>1, <2>2, LogMore
  <2> QED
    BY <2>1, <2>3
<1>5. w \in Version /\ w.tra = n /\ w.back = None /\ ~w.deleted
  BY <1>w, <1>4, NoTypes DEF NoVersion, Version
<1>6. /\ UNCHANGED <<hdr, tip, lck, dbb, tra, at, rpb, crashes>>
      /\ ver' = [ver EXCEPT ![Primary] = w] /\ req' = [req EXCEPT ![p] = Written]
  BY <1>n, <1>w DEF VIO_store, Written
<1>7. /\ req' \in [Proc -> Request] /\ req'[p] = Written
      /\ \A q \in Proc \ {p} : req'[q] = req[q]
  BY <1>2, <1>4, <1>6
<1>8. /\ Primary \in Place /\ Primary \notin Slot
      /\ Slot \subseteq Place /\ \A s \in Place : s = Primary \/ s \in Slot
  BY RecordChain DEF Place, VersionsAssumption
<1>9. ver' \in Versions /\ ver'[Primary] = w /\ \A s \in Slot : ver'[s] = ver[s]
  BY <1>2, <1>5, <1>6, <1>8 DEF Versions
<1>10. Typed' /\ Alone(p)
  BY <1>1, <1>2, <1>4, <1>6, <1>7, <1>9, CalmTyped
<1>11. Chain(Primary) = {} /\ Chain(Primary)' = {}
  <2>1. ver[Primary].back = None
    BY <1>1, <1>8 DEF ChainInv, NoVersion
  <2> QED
    BY <1>2, <1>5, <1>9, <2>1, RecordIs, RecordChain
<1>12. Held(p) = {} /\ Held(p)' = {} /\ InHand(p)' = {}
  <2>1. /\ Held(p) = HeldIn(ver, "ready", rpb[p].v.back, req[p])
        /\ InHand(p)' = InHandIn(ver', "ready", rpb'[p].v.back, Written)
        /\ Held(p)' = HeldIn(ver', "ready", rpb'[p].v.back, Written)
    BY <1>1, <1>6, <1>7, HeldIs
  <2> QED
    BY <1>3, <1>4, <2>1 DEF HeldIn, InHandIn
<1>13. \A s \in Slot : Free(s)' <=> Free(s)
  BY <1>9 DEF Free
<1>14. ChainInv'
  BY <1>1, <1>4, <1>5, <1>8, <1>9, <1>11 DEF ChainInv, Free
<1>15. \A t \in Tra : Fresh(t) /\ t # n => Fresh(t)'
  <2>1. \A s \in Place : ver'[s].tra = n \/ ver'[s].tra = ver[s].tra
    BY <1>5, <1>8, <1>9
  <2>2. \A q \in Proc : rpb'[q].v.tra = rpb[q].v.tra /\ req'[q].old.tra \in {0, req[q].old.tra}
    BY <1>4, <1>6, <1>7 DEF NoVersion
  <2>3. \A t \in Tra : t # 0
    BY DEF Tra
  <2> TAKE t \in Tra
  <2>4. Fresh(t) /\ t # n => \A s \in Place : ver'[s].tra # t
    BY <2>1 DEF Fresh
  <2>5. Fresh(t) /\ t # n => \A q \in Proc : rpb'[q].v.tra # t /\ req'[q].old.tra # t
    BY <2>2, <2>3 DEF Fresh
  <2>6. Fresh(t) /\ t # n => \A i \in DOMAIN log' : log'[i].tra # t
    BY <1>4 DEF Fresh
  <2> QED
    BY <2>4, <2>5, <2>6 DEF Fresh
<1>16. Moves(p)
  BY <1>n, <1>1, <1>5, <1>9 DEF Moves
<1>17. RequestOf(p)' /\ ReaderOf(p)' /\ ActOf(p)'
  <2>1. RequestOf(p)' /\ ReaderOf(p)'
    BY <1>1, <1>4, <1>6, <1>7 DEF RequestOf, ReaderOf, Settling
  <2>2. ver'[Primary].tra = tra'[p].number /\ \E i \in DOMAIN log' : log'[i].tra = tra'[p].number
    BY <1>n, <1>4, <1>5, <1>6, <1>9
  <2>3. ActOf(p)'
    BY <1>1, <1>4, <1>6, <1>7, <2>2 DEF ActOf
  <2> QED
    BY <2>1, <2>3
<1>18. req'[p].wrote /\ at'[p] = at[p] /\ at'[p] # "collect" /\ req'[p].temp \notin InHand(p)'
  BY <1>1, <1>4, <1>6, <1>7, <1>12
<1>19. /\ \A s \in Slot : ver'[s] # ver[s] => s \in Own(p) \/ Free(s)
       /\ \A s \in Own(p)' : s \in Own(p) \/ Free(s)
       /\ \A s \in Slot : ~Free(s)' /\ (s \in Own(p) \/ Free(s)) => s \in Own(p)'
  BY <1>9, <1>11, <1>12, <1>13 DEF Own
<1> QED
  BY <1>n, <1>3, <1>6, <1>10, <1>11, <1>12, <1>14, <1>15, <1>16, <1>17, <1>18, <1>19, MoveStep


(* A new version goes in front of the primary one, which moves to a place
   that is free or was held for it. *)
LEMMA ReplacedKeeps ==
    ASSUME VersionsAssumption, IInv, NEW p \in Proc, NEW s \in Slot, NEW kind,
           NEW delta \in BOOLEAN, NEW old, old = ver[Primary],
           Replaced(p, s, old, kind, delta), at[p] \in {"ready", "write"}, ~req[p].wrote,
           ~Latched(Primary), ~Free(Primary), ~ver[Primary].deleted,
           tip[ver[Primary].tra] = "committed", ver[Primary].tra < tra[p].number,
           (Free(s) /\ req[p].temp = None) \/ s = req[p].temp,
           rpb' \in [Proc -> [v : Version, slot : Place \cup {None}]],
           \A q \in Proc \ {p} : rpb'[q] = rpb[q],
           rpb'[p].v \in {rpb[p].v} \cup {ver[u] : u \in Place},
           UNCHANGED <<hdr, tip, lck, dbb, tra, crashes>>
    PROVE  IInv'
<1>1. Typed /\ RequestOf(p) /\ HandOf(p) /\ ChainInv
  BY DEF IInv, RequestInv, HandInv
<1>2. /\ at \in [Proc -> Doing] /\ req \in [Proc -> Request] /\ req[p] \in Request
      /\ ver \in [Place -> Version] /\ ver \in Versions /\ at[p] \in Busy
      /\ req[p].answer \in -1 .. MaxTra
  BY <1>1, OwnFields DEF Typed, Versions, Busy, Doing, Request
<1>n. PICK n : n = tra[p].number
  OBVIOUS
<1>d. PICK d \in BOOLEAN : d = (kind = "erase")
  OBVIOUS
<1>w. PICK w : w = [tra |-> n, back |-> s, deleted |-> d, delta |-> delta]
  OBVIOUS
<1>3. /\ n \in Tra /\ n # 0 /\ n \in 0 .. MaxTra /\ Written \in Request /\ Written.temp = None
      /\ Written.next = None /\ Written.old = NoVersion /\ Written.wrote
  BY <1>2, <1>n, WriteTypes
<1>4. /\ log' \in Seq([tra : Tra, read : -1 .. MaxTra, deleted : BOOLEAN])
      /\ \E i \in DOMAIN log' : log'[i].tra = n
      /\ \A i \in DOMAIN log' : log'[i].tra = n \/ \E k \in DOMAIN log : log'[i] = log[k]
  <2>1. log' = Append(log, [tra |-> n, read |-> req[p].answer, deleted |-> d])
    BY <1>n, <1>d DEF Replaced
  <2> QED
    BY <1>1, <1>2, <1>3, <2>1, LogMore
<1>5. w \in Version /\ w.tra = n /\ w.back = s /\ s # None
  BY <1>w, <1>3 DEF Version, VersionsAssumption
<1>6. /\ Primary \in Place /\ Primary \notin Slot /\ s \in Place /\ s # Primary
      /\ Slot \subseteq Place /\ \A u \in Place : u = Primary \/ u \in Slot
  BY RecordChain DEF Place, VersionsAssumption
<1>7. /\ ver' = [ver EXCEPT ![s] = ver[Primary], ![Primary] = w]
      /\ req' = [req EXCEPT ![p] = Written] /\ at' = [at EXCEPT ![p] = "ready"]
  BY <1>n, <1>d, <1>w DEF Replaced, Written
<1>8. /\ at' \in [Proc -> Doing] /\ at'[p] = "ready" /\ \A q \in Proc \ {p} : at'[q] = at[q]
      /\ req' \in [Proc -> Request] /\ req'[p] = Written
      /\ \A q \in Proc \ {p} : req'[q] = req[q]
  BY <1>2, <1>3, <1>7 DEF Doing
<1>9. /\ ver' \in Versions /\ ver'[Primary] = w /\ ver'[s] = ver[Primary]
      /\ \A u \in Slot \ {s} : ver'[u] = ver[u]
  BY <1>2, <1>5, <1>6, <1>7 DEF Versions
<1>10. Typed' /\ Alone(p)
  BY <1>1, <1>4, <1>8, <1>9, CalmTyped
<1>11. /\ Held(p) = {req[p].temp} \ {None} /\ Held(p)' = {} /\ InHand(p)' = {}
  <2>1. /\ Held(p) = HeldIn(ver, at[p], rpb[p].v.back, req[p])
        /\ InHand(p)' = InHandIn(ver', "ready", rpb'[p].v.back, Written)
        /\ Held(p)' = HeldIn(ver', "ready", rpb'[p].v.back, Written)
    BY <1>8, HeldIs
  <2> QED
    BY <1>3, <2>1 DEF HeldIn, InHandIn
<1>12. /\ s \notin Chain(Primary)
       /\ Held(p) \subseteq {s} /\ (Free(s) \/ s \in Held(p))
  BY <1>1, <1>5, <1>11 DEF HandOf, ChainInv
<1>13. /\ Chain(Primary)' = {s} \cup Chain(Primary)
       /\ \A u \in Chain(Primary) : ver'[u] = ver[u] /\ u \in Slot
       /\ ver[Primary].back # None => ver[Primary].back \in Chain(Primary)
  <2>b. PICK b : b = ver[Primary].back
    OBVIOUS
  <2>1. /\ b \in Slot \cup {None} /\ ver'[Primary].back = s /\ ver'[s].back = b
    BY <1>2, <1>5, <1>6, <1>9, <2>b, RecordChain
  <2>2. Chain(Primary)' = ChainIn(ver', s) /\ Chain(Primary) \subseteq Slot
    BY <1>5, <1>9, <2>1, RecordIs, RecordChain, ChainSlots
  <2>3. \A u \in Chain(Primary) : ver'[u] = ver[u]
    BY <1>9, <1>12, <2>2
  <2>4. CASE b = None
    <3>1. ChainIn(ver', s) = {s} \cap Slot
      BY <1>6, <1>9, <2>1, <2>4, ChainSplit
    <3>2. Chain(Primary) = {}
      BY <1>2, <2>b, <2>4, RecordIs, RecordChain
    <3> QED
      BY <2>b, <2>2, <2>3, <2>4, <3>1, <3>2
  <2>5. CASE b # None
    <3>1. ChainIn(ver', s) = ({s} \cap Slot) \cup ChainIn(ver', b)
      BY <1>6, <1>9, <2>1, <2>5, ChainSplit
    <3>2. Chain(Primary) = ChainIn(ver, b) /\ b \in Place /\ b \in ChainIn(ver, b)
      BY <1>2, <2>b, <2>1, <2>5, RecordIs, RecordChain, ChainSelf DEF Place
    <3>3. \A u \in ChainIn(ver, b) \cup {b} : ver'[u].back = ver[u].back
      BY <2>3, <3>2
    <3>4. ChainIn(ver', b) = ChainIn(ver, b)
      BY <1>2, <1>9, <3>2, <3>3, ChainSame
    <3> QED
      BY <2>b, <2>2, <2>3, <3>1, <3>2, <3>4
  <2> QED
    BY <2>4, <2>5
<1>14. ChainInv'
  <2>1. \A u \in Place : Free(u)' => ver'[u] = NoVersion
    BY <1>1, <1>3, <1>5, <1>6, <1>9 DEF ChainInv, Free
  <2>2. \A u \in Slot : ~ver'[u].deleted
    BY <1>1, <1>9 DEF ChainInv
  <2>3. \A u \in Chain(Primary)' : ~Free(u)' /\ tip'[ver'[u].tra] = "committed"
    BY <1>1, <1>9, <1>13 DEF ChainInv, Free
  <2>4. \A u \in Chain(Primary) \cup {Primary} : ver[u].back # None =>
           ver[u].back \in Chain(Primary) /\ ver[ver[u].back].tra < ver[u].tra
    BY <1>1, <1>2, <1>6, RecordIs, ChainNext DEF ChainInv
  <2>5. \A u \in Chain(Primary)' \cup {Primary} : ver'[u].back # None =>
           ver'[ver'[u].back].tra < ver'[u].tra
    BY <1>n, <1>5, <1>9, <1>13, <2>4
  <2> QED
    BY <2>1, <2>2, <2>3, <2>5 DEF ChainInv
<1>15. \A t \in Tra : Fresh(t) /\ t # n => Fresh(t)'
  <2>1. \A u \in Place : ver'[u].tra = n \/ \E x \in Place : ver'[u].tra = ver[x].tra
    BY <1>5, <1>6, <1>9
  <2>2. /\ \A q \in Proc \ {p} : rpb'[q].v.tra = rpb[q].v.tra
        /\ rpb'[p].v.tra = rpb[p].v.tra \/ \E x \in Place : rpb'[p].v.tra = ver[x].tra
        /\ \A q \in Proc : req'[q].old.tra \in {0, req[q].old.tra}
    BY <1>3, <1>8 DEF NoVersion
  <2>3. \A t \in Tra : t # 0
    BY DEF Tra
  <2> TAKE t \in Tra
  <2>4. Fresh(t) /\ t # n => \A u \in Place : ver'[u].tra # t
    BY <2>1 DEF Fresh
  <2>5. Fresh(t) /\ t # n => \A q \in Proc : rpb'[q].v.tra # t /\ req'[q].old.tra # t
    BY <2>2, <2>3 DEF Fresh
  <2>6. Fresh(t) /\ t # n => \A i \in DOMAIN log' : log'[i].tra # t
    BY <1>4 DEF Fresh
  <2> QED
    BY <2>4, <2>5, <2>6 DEF Fresh
<1>16. Moves(p)
  BY <1>n, <1>5, <1>9 DEF Moves
<1>17. RequestOf(p)' /\ ReaderOf(p)' /\ ActOf(p)'
  <2>1. RequestOf(p)' /\ ReaderOf(p)'
    BY <1>3, <1>8 DEF RequestOf, ReaderOf, Settling
  <2>2. ver'[Primary].tra = tra'[p].number /\ \E i \in DOMAIN log' : log'[i].tra = tra'[p].number
    BY <1>n, <1>4, <1>5, <1>9
  <2>3. ActOf(p)'
    BY <1>3, <1>8, <2>2 DEF ActOf
  <2> QED
    BY <2>1, <2>3
<1>18. /\ req'[p].wrote /\ at'[p] \in Busy /\ at'[p] # "collect"
       /\ req'[p].temp \notin InHand(p)'
  BY <1>3, <1>8, <1>11 DEF Busy, Doing
<1>19. /\ \A u \in Slot : ver'[u] # ver[u] => u \in Own(p) \/ Free(u)
       /\ \A u \in Own(p)' : u \in Own(p) \/ Free(u)
       /\ \A u \in Slot : ~Free(u)' /\ (u \in Own(p) \/ Free(u)) => u \in Own(p)'
       /\ Held(p)' \cap Chain(Primary)' = {} /\ \A u \in Held(p)' : ~Free(u)'
  <2>1. \A u \in Slot : u # s => (Free(u)' <=> Free(u))
    BY <1>9 DEF Free
  <2> QED
    BY <1>9, <1>11, <1>12, <1>13, <2>1 DEF Own
<1> QED
  BY <1>n, <1>2, <1>10, <1>14, <1>15, <1>16, <1>17, <1>18, <1>19, MoveStep


(* DPM_chain: the stub of an erased record goes on the record's own page. *)
LEMMA ChainUpdateKeeps ==
    ASSUME VersionsAssumption, IInv, NEW p \in Proc, DPM_chain(p)
    PROVE  IInv'
<1>1. Typed /\ RequestOf(p) /\ ActOf(p) /\ at[p] = "ready" /\ ~req[p].wrote /\ req[p].answer > 0
  BY DEF IInv, RequestInv, ActInv, DPM_chain, CanUpdate
<1>2. rpb \in [Proc -> [v : Version, slot : Place \cup {None}]] /\ FALSE \in BOOLEAN
  BY <1>1 DEF Typed
<1>3. /\ rpb[p].v.tra # 0 /\ tip[rpb[p].v.tra] = "committed" /\ rpb[p].v.tra < tra[p].number
      /\ ver[Primary].tra = rpb[p].v.tra => ~ver[Primary].deleted
      /\ req[p].temp = None
  BY <1>1 DEF ActOf, RequestOf
<1>4. ver[Primary].tra = rpb[p].v.tra /\ ~Latched(Primary) /\ ~Free(Primary)
  BY DEF DPM_chain, Same
<1>5. PICK s \in Slot : Free(s) /\ Replaced(p, s, ver[Primary], "erase", FALSE)
  BY DEF DPM_chain
<1>6. UNCHANGED <<hdr, tip, lck, dbb, tra, rpb, crashes>>
  BY DEF DPM_chain
<1> QED
  BY <1>1, <1>2, <1>3, <1>4, <1>5, <1>6, ReplacedKeeps

(* What prepare_update may do, case by case. *)
LEMMA PrepareCases ==
    ASSUME VersionsAssumption, IInv, NEW p \in Proc, prepare_update(p)
    PROVE  LET state == TRA_snapshot_state(p, ver[Primary].tra)
           IN  \/ /\ ~Free(Primary) /\ at' = [at EXCEPT ![p] = "wait"]
                  /\ UNCHANGED <<ver, req, log>>
               \/ /\ at' = [at EXCEPT ![p] = "bugcheck"]
                  /\ UNCHANGED <<ver, req, log>>
               \/ /\ ~Free(Primary) /\ state = "dead"
                  /\ at' = [at EXCEPT ![p] = "backout"]
                  /\ req' = [req EXCEPT ![p].ret = "write"]
                  /\ UNCHANGED <<ver, log>>
               \/ /\ ~Free(Primary) /\ at' = [at EXCEPT ![p] = "discard"]
                  /\ UNCHANGED <<ver, req, log>>
               \/ /\ ~Free(Primary) /\ state = "committed" /\ ~ver[Primary].deleted
                  /\ Matches(p)
                  /\ Replaced(p, req[p].temp, ver[req[p].temp], req[p].kind, req[p].delta)
               \/ /\ ~Free(Primary) /\ state = "committed" /\ ~ver[Primary].deleted
                  /\ ver' = [ver EXCEPT ![req[p].temp] = ver[Primary]]
                  /\ UNCHANGED <<at, req, log>>
<1>s. PICK state : state = TRA_snapshot_state(p, ver[Primary].tra)
  OBVIOUS
<1>1. /\ Typed /\ TraInv /\ RequestOf(p) /\ FreshInv /\ ChainInv /\ at[p] = "write"
      /\ OldestOf(p)
  BY DEF IInv, TraInv, RequestInv, OldestInv, prepare_update
<1>2. ~req[p].wrote /\ Active(p) /\ InSnapshot(p) /\ at[p] # "release"
  BY <1>1 DEF RequestOf, Active, InSnapshot
<1>3. CASE Free(Primary)
  <2>1. ver[Primary] = NoVersion /\ ver[Primary].tra = 0 /\ ~ver[Primary].deleted
    <3>1. ver[Primary] = NoVersion
      BY <1>1, <1>3 DEF ChainInv, Place
    <3> QED
      BY <3>1 DEF NoVersion
  <2>2. tra[p].oldest > 0 /\ tra[p].number >= tra[p].oldest
        /\ tra[p].number \in Int /\ tra[p].oldest \in Int
    BY <1>1, <1>2, TraFields DEF OldestOf
  <2>3. state = "committed"
    BY <1>s, <2>1, <2>2 DEF TRA_snapshot_state
  <2> QED
    BY <1>s, <1>3, <2>1, <2>3 DEF prepare_update
<1>4. CASE ~Free(Primary)
  <2>1. ver[Primary].tra \in Tra /\ ver[Primary].tra # tra[p].number
    <3>1. Primary \in Place /\ ver \in Versions
      BY <1>1, SharedFields DEF Place
    <3>2. ver[Primary].tra \in 0 .. MaxTra /\ ver[Primary].tra # 0
      BY <1>4, <3>1 DEF Versions, Version, Free
    <3>3. Fresh(tra[p].number)
      BY <1>1, <1>2 DEF FreshInv
    <3> QED
      BY <3>1, <3>2, <3>3 DEF Fresh, Tra
  <2>2. state \in {"committed", "active", "dead"}
    BY <1>s, <1>1, <1>2, <2>1, SnapshotTrue
  <2>3. CASE state = "active"
    BY <1>s, <1>4, <2>3 DEF prepare_update
  <2>4. CASE state = "dead"
    BY <1>s, <1>4, <2>4 DEF prepare_update
  <2>5. CASE state = "committed" /\ ver[Primary].deleted
    <3>1. req[p].temp \in Slot
      BY <1>1, OwnFields DEF RequestOf, Request
    <3>2. ~Matches(p)
      BY <1>1, <2>5, <3>1 DEF ChainInv, Matches
    <3> QED
      BY <1>s, <1>4, <2>5, <3>2 DEF prepare_update
  <2>6. CASE state = "committed" /\ ~ver[Primary].deleted
    BY <1>s, <1>4, <2>6 DEF prepare_update
  <2> QED
    BY <2>2, <2>3, <2>4, <2>5, <2>6
<1> QED
  BY <1>3, <1>4


(* prepare_update looks at the record that is to be updated. *)
LEMMA PrepareKeeps ==
    ASSUME VersionsAssumption, IInv, NEW p \in Proc, prepare_update(p)
    PROVE  IInv'
<1>1. /\ Typed /\ TraInv /\ RequestOf(p) /\ HandOf(p) /\ ChainInv /\ at[p] = "write"
      /\ ~Latched(Primary)
  BY DEF IInv, TraInv, RequestInv, HandInv, prepare_update
<1>s. PICK s : s = req[p].temp
  OBVIOUS
<1>b. PICK b : b = [v |-> ver[Primary], slot |-> Primary]
  OBVIOUS
<1>2. /\ at \in [Proc -> Doing] /\ req \in [Proc -> Request] /\ req[p] \in Request
      /\ rpb \in [Proc -> [v : Version, slot : Place \cup {None}]]
      /\ log \in Seq([tra : Tra, read : -1 .. MaxTra, deleted : BOOLEAN])
      /\ ver \in [Place -> Version] /\ ver \in Versions
  BY <1>1, OwnFields DEF Typed, Versions
<1>3. /\ s \in Slot /\ s \in Place /\ s # None /\ ~req[p].wrote /\ req[p].answer > 0
      /\ req[p].kind # "none" /\ at[p] \in Busy /\ InSnapshot(p) /\ req[p].delta \in BOOLEAN
      /\ Primary \in Place /\ Primary # s
  BY <1>1, <1>2, <1>s DEF RequestOf, Request, Place, Busy, Doing, InSnapshot, VersionsAssumption
<1>4. /\ b \in [v : Version, slot : Place \cup {None}] /\ b.v = ver[Primary] /\ b.slot = Primary
  BY <1>b, <1>2, <1>3
<1>5. /\ rpb' = [rpb EXCEPT ![p] = b] /\ UNCHANGED <<hdr, tip, lck, dbb, tra, crashes>>
  BY <1>b DEF prepare_update
<1>6. /\ rpb' \in [Proc -> [v : Version, slot : Place \cup {None}]] /\ rpb'[p] = b
      /\ \A q \in Proc \ {p} : rpb'[q] = rpb[q]
  BY <1>2, <1>4, <1>5
<1>7. CASE /\ ~Free(Primary) \/ at' = [at EXCEPT ![p] = "bugcheck"]
           /\ \/ at' = [at EXCEPT ![p] = "wait"] \/ at' = [at EXCEPT ![p] = "bugcheck"]
              \/ at' = [at EXCEPT ![p] = "discard"]
           /\ UNCHANGED <<ver, req, log>>
  <2>1. /\ at' \in [Proc -> Doing] /\ at'[p] \in {"wait", "bugcheck", "discard"}
        /\ \A q \in Proc \ {p} : at'[q] = at[q]
        /\ at'[p] # "bugcheck" => ~Free(Primary)
    BY <1>2, <1>7 DEF Doing
  <2>2. Typed' /\ Alone(p)
    BY <1>1, <1>2, <1>5, <1>6, <1>7, <2>1, CalmTyped
  <2>3. at'[p] \in Busy
    BY <2>1 DEF Busy, Doing
  <2>4. \A t \in Tra : Fresh(t) => rpb'[p].v.tra # t /\ req'[p].old.tra # t
    BY <1>3, <1>4, <1>6, <1>7, ReadFresh
  <2>5. RequestOf(p)' /\ ReaderOf(p)' /\ ActOf(p)'
    <3>1. RequestOf(p)'
      BY <1>s, <1>3, <1>7, <2>1 DEF RequestOf, Settling
    <3>2. ReaderOf(p)'
      BY <2>1 DEF ReaderOf
    <3>3. at'[p] = "wait" => rpb'[p].v.tra # 0
      BY <1>4, <1>6, <2>1 DEF Free
    <3>4. ActOf(p)'
      BY <1>3, <1>7, <2>1, <3>3 DEF ActOf
    <3> QED
      BY <3>1, <3>2, <3>4
  <2>6. /\ at'[p] # "backout_delete" /\ at'[p] # "collect" /\ at[p] # "backout_delete"
        /\ at[p] # "collect" /\ req'[p].temp = req[p].temp /\ req'[p].wrote = req[p].wrote
    BY <1>1, <1>7, <2>1
  <2> QED
    BY <1>3, <1>5, <1>7, <2>2, <2>3, <2>4, <2>5, <2>6, CalmStep
<1>8. CASE /\ ~Free(Primary) /\ TRA_snapshot_state(p, ver[Primary].tra) = "dead"
           /\ at' = [at EXCEPT ![p] = "backout"]
           /\ req' = [req EXCEPT ![p].ret = "write"]
           /\ UNCHANGED <<ver, log>>
  <2>r. PICK r : r = [req[p] EXCEPT !.ret = "write"]
    OBVIOUS
  <2>1. /\ at' \in [Proc -> Doing] /\ at'[p] = "backout" /\ \A q \in Proc \ {p} : at'[q] = at[q]
    BY <1>2, <1>8 DEF Doing
  <2>2. /\ r \in Request /\ r.temp = s /\ ~r.wrote /\ r.old = req[p].old /\ r.ret = "write"
        /\ r.answer = req[p].answer /\ r.kind = req[p].kind /\ r.wrote = req[p].wrote
    BY <1>s, <1>2, <1>3, <2>r DEF Request
  <2>3. /\ req' \in [Proc -> Request] /\ req'[p] = r /\ \A q \in Proc \ {p} : req'[q] = req[q]
    BY <1>2, <1>8, <2>r, <2>2
  <2>4. Typed' /\ Alone(p)
    BY <1>1, <1>2, <1>5, <1>6, <1>8, <2>1, <2>3, CalmTyped
  <2>5. at'[p] \in Busy
    BY <2>1 DEF Busy, Doing
  <2>6. \A t \in Tra : Fresh(t) => rpb'[p].v.tra # t /\ req'[p].old.tra # t
    BY <1>3, <1>4, <1>6, <2>2, <2>3, ReadFresh
  <2>7. ver[Primary].tra # 0 /\ tip[ver[Primary].tra] = "dead"
    <3>1. ver[Primary].tra # 0 /\ ver[Primary].tra \in Tra
      BY <1>2, <1>3, <1>8 DEF Free, Version, Tra
    <3> QED
      BY <1>1, <1>3, <1>8, <3>1, SnapshotTrue
  <2>8. RequestOf(p)' /\ ReaderOf(p)' /\ ActOf(p)'
    BY <1>3, <1>4, <1>5, <1>6, <2>1, <2>2, <2>3, <2>7 DEF RequestOf, ReaderOf, ActOf, Settling
  <2>9. /\ at'[p] # "backout_delete" /\ at'[p] # "collect" /\ at[p] # "backout_delete"
        /\ at[p] # "collect" /\ req'[p].temp = req[p].temp /\ req'[p].wrote = req[p].wrote
    BY <1>s, <1>1, <2>1, <2>2, <2>3
  <2> QED
    BY <1>3, <1>5, <1>8, <2>4, <2>5, <2>6, <2>8, <2>9, CalmStep
<1>9. ~Free(Primary) /\ TRA_snapshot_state(p, ver[Primary].tra) = "committed" =>
        tip[ver[Primary].tra] = "committed" /\ ver[Primary].tra < tra[p].number
  <2>1. ~Free(Primary) => ver[Primary].tra \in Tra
    BY <1>2, <1>3 DEF Free, Version, Tra
  <2> QED
    BY <1>1, <1>3, <2>1, SnapshotTrue
<1>10. CASE /\ ~Free(Primary) /\ TRA_snapshot_state(p, ver[Primary].tra) = "committed"
            /\ ~ver[Primary].deleted /\ Matches(p)
            /\ Replaced(p, s, ver[s], req[p].kind, req[p].delta)
  <2>1. ver[s] = ver[Primary]
    BY <1>s, <1>10 DEF Matches
  <2>2. rpb'[p].v \in {rpb[p].v} \cup {ver[u] : u \in Place}
    BY <1>3, <1>4, <1>6
  <2> QED
    BY <1>s, <1>1, <1>3, <1>5, <1>6, <1>9, <1>10, <2>1, <2>2, ReplacedKeeps
<1>11. CASE /\ ~Free(Primary) /\ TRA_snapshot_state(p, ver[Primary].tra) = "committed"
            /\ ~ver[Primary].deleted /\ ver' = [ver EXCEPT ![s] = ver[Primary]]
            /\ UNCHANGED <<at, req, log>>
  <2>1. /\ ver' \in Versions /\ ver'[s] = ver[Primary] /\ \A u \in Place \ {s} : ver'[u] = ver[u]
    BY <1>2, <1>3, <1>11 DEF Versions
  <2>2. Typed' /\ Alone(p)
    BY <1>1, <1>2, <1>5, <1>6, <1>11, <2>1, CalmTyped
  <2>3. Held(p) = {s} /\ Held(p)' = {s} /\ req'[p].temp \notin InHand(p)'
    <3>1. /\ Held(p) = HeldIn(ver, "write", rpb[p].v.back, req[p])
          /\ InHand(p)' = InHandIn(ver', "write", rpb'[p].v.back, req[p])
          /\ Held(p)' = HeldIn(ver', "write", rpb'[p].v.back, req[p])
      BY <1>1, <1>11, HeldIs
    <3> QED
      BY <1>s, <1>3, <1>11, <3>1 DEF HeldIn, InHandIn
  <2>4. RequestOf(p)' /\ ReaderOf(p)' /\ ActOf(p)'
    BY <1>s, <1>1, <1>3, <1>11 DEF RequestOf, ReaderOf, ActOf, Settling
  <2>5. \A t \in Tra : Fresh(t) =>
           ver'[s].tra # t /\ rpb'[p].v.tra # t /\ req'[p].old.tra # t
    BY <1>3, <1>4, <1>6, <1>11, <2>1, ReadFresh
  <2>6. /\ ver'[s].tra # 0 /\ ~ver'[s].deleted /\ Held(p)' = Held(p) \cup {s}
        /\ req'[p].wrote = req[p].wrote /\ at'[p] \in Busy /\ at'[p] # "collect"
        /\ s \in Held(p)
    BY <1>1, <1>3, <1>11, <2>1, <2>3 DEF Free
  <2> QED
    BY <1>3, <1>5, <1>11, <2>1, <2>2, <2>3, <2>4, <2>5, <2>6, SlotStep
<1> QED
  BY <1>s, <1>7, <1>8, <1>10, <1>11, PrepareCases


-----------------------------------------------------------------------------
(* The invariant. *)

(* It holds at the start. *)
LEMMA InitInvariant ==
    ASSUME VersionsAssumption, Init
    PROVE  IInv
<1>1. PICK f \in Firsts :
        /\ ver = [s \in Place |-> IF s = Primary THEN [NoVersion EXCEPT !.tra = f]
                                                 ELSE NoVersion]
        /\ log = IF f = 0 THEN <<>> ELSE <<[tra |-> f, read |-> 0, deleted |-> FALSE]>>
  BY DEF Init
<1>2. /\ Started \in Nat /\ Started >= 3 /\ MaxTra \in Nat /\ Started <= MaxTra
      /\ f \in 0 .. Started /\ f \in 0 .. MaxTra /\ 0 \in 0 .. MaxTra /\ Started \in Tra
      /\ -1 \in -1 .. MaxTra /\ NoVersion \in Version
  BY NoTypes DEF VersionsAssumption, Tra
<1>3. /\ hdr = [next |-> Started, oldest |-> Started - 2,
                oldest_active |-> Started - 1, oldest_snapshot |-> Started - 1]
      /\ tip = [t \in Tra |-> IF t <= Started THEN "committed" ELSE "active"]
      /\ lck = [t \in Tra |-> 0] /\ dbb = [p \in Proc |-> NoDbb]
      /\ tra = [p \in Proc |-> NoTra] /\ at = [p \in Proc |-> "idle"]
      /\ rpb = [p \in Proc |-> NoRpb] /\ req = [p \in Proc |-> NoRequest] /\ crashes = 0
  BY DEF Init
<1>w. PICK w : w = [NoVersion EXCEPT !.tra = f]
  OBVIOUS
<1>4. w \in Version /\ w.tra = f /\ w.back = None /\ ~w.deleted /\ (f = 0 => w = NoVersion)
  BY <1>w, <1>2 DEF NoVersion, Version
<1>5. /\ Primary \in Place /\ Primary \notin Slot /\ \A s \in Place : s = Primary \/ s \in Slot
  BY DEF Place, VersionsAssumption
<1>6. /\ ver \in [Place -> Version] /\ ver \in Versions /\ ver[Primary] = w
      /\ \A s \in Slot : ver[s] = NoVersion
  <2>1. ver = [s \in Place |-> IF s = Primary THEN w ELSE NoVersion]
    BY <1>1, <1>w
  <2> QED
    BY <1>2, <1>4, <1>5, <2>1 DEF Versions, Place
<1>7. /\ log \in Seq([tra : Tra, read : -1 .. MaxTra, deleted : BOOLEAN])
      /\ \A i \in DOMAIN log : log[i].tra = f
  <2>1. CASE f = 0
    BY <1>1, <2>1
  <2>2. CASE f # 0
    <3>1. f \in Tra /\ 0 \in -1 .. MaxTra
      BY <1>2, <2>2 DEF Tra
    <3>2. PICK e \in [tra : Tra, read : -1 .. MaxTra, deleted : BOOLEAN] :
            e = [tra |-> f, read |-> 0, deleted |-> FALSE]
      BY <3>1
    <3>3. log = <<e>> /\ e.tra = f
      BY <1>1, <2>2, <3>2
    <3> QED
      BY <3>3
  <2> QED
    BY <2>1, <2>2
<1>8. Typed
  <2>1. hdr \in [next : Tra, oldest : 0 .. MaxTra, oldest_active : 0 .. MaxTra,
                 oldest_snapshot : 0 .. MaxTra]
    BY <1>2, <1>3
  <2>2. tip \in [Tra -> State] /\ lck \in [Tra -> 0 .. MaxTra] /\ dbb \in [Proc -> Oldest]
    BY <1>2, <1>3 DEF State, NoDbb, Oldest
  <2>3. tra \in [Proc -> [number : 0 .. MaxTra, oldest : 0 .. MaxTra, active : 0 .. MaxTra,
                       oldest_active : 0 .. MaxTra, tra_oldest_active : 0 .. MaxTra,
                       oldest_snapshot : 0 .. MaxTra, cleanup : BOOLEAN,
                       states : [Tra -> State]]]
    BY <1>2, <1>3 DEF State, NoTra
  <2>4. rpb \in [Proc -> [v : Version, slot : Place \cup {None}]]
    BY <1>2, <1>3 DEF NoRpb
  <2>5. req \in [Proc -> Request]
    BY <1>2, <1>3 DEF NoRequest, Request
  <2>6. at \in [Proc -> Doing] /\ crashes \in Nat
    BY <1>3 DEF Doing
  <2> QED
    BY <1>6, <1>7, <2>1, <2>2, <2>3, <2>4, <2>5, <2>6 DEF Typed
<1>9. NumbersInv
  <2>1. \A t \in Tra : t > hdr.next => tip[t] = "active"
    BY <1>2, <1>3 DEF Tra
  <2>2. \A t \in Tra : lck[t] <= t
    BY <1>3 DEF Tra
  <2> QED
    BY <1>3, <2>1, <2>2 DEF NumbersInv, NumbersOf, Active
<1>10. OldestInv
  <2>1. \A t \in Tra : t <= Started => tip[t] = "committed"
    BY <1>3
  <2>2. Remembered(hdr) /\ hdr.oldest > 0
    BY <1>2, <1>3, <2>1 DEF Remembered, Over, Gone, Tra
  <2>3. \A p \in Proc : Remembered(dbb[p])
    BY <1>2, <1>3, <2>1 DEF Remembered, Over, Gone, Tra, NoDbb
  <2>4. \A p \in Proc : OldestOf(p)
    BY <1>3 DEF OldestOf, Active, Settling, Ready
  <2> QED
    BY <2>2, <2>3, <2>4 DEF OldestInv
<1>11. SnapshotInv
  BY <1>3 DEF SnapshotInv, SnapshotOf, InSnapshot
<1>12. FreshInv
  <2>1. \A t \in Tra : t > hdr.next => t # f /\ t # 0
    BY <1>2, <1>3 DEF Tra
  <2>2. \A s \in Place : ver[s].tra \in {0, f}
    BY <1>4, <1>5, <1>6 DEF NoVersion
  <2>3. \A p \in Proc : rpb[p].v.tra = 0 /\ req[p].old.tra = 0
    BY <1>3 DEF NoRpb, NoRequest, NoVersion
  <2> QED
    BY <1>3, <1>7, <2>1, <2>2, <2>3 DEF FreshInv, Fresh, Active
<1>13. RequestInv
  BY <1>3 DEF RequestInv, RequestOf, NoRequest, Settling
<1>14. Chain(Primary) = {}
  BY <1>4, <1>6, RecordIs, RecordChain
<1>15. ChainInv
  <2>1. \A s \in Place : Free(s) => ver[s] = NoVersion
    BY <1>4, <1>5, <1>6 DEF Free
  <2>2. \A s \in Slot : ~ver[s].deleted
    BY <1>6 DEF NoVersion
  <2> QED
    BY <1>4, <1>6, <1>14, <2>1, <2>2 DEF ChainInv
<1>16. \A p \in Proc : Held(p) = {} /\ InHand(p) = {} /\ at[p] = "idle"
  <2> TAKE p \in Proc
  <2>1. at[p] = "idle" /\ req[p] = NoRequest
    BY <1>3
  <2>2. Held(p) = HeldIn(ver, "idle", rpb[p].v.back, NoRequest) /\ NoRequest.temp = None
        /\ InHand(p) = InHandIn(ver, "idle", rpb[p].v.back, NoRequest)
    BY <2>1, HeldIs DEF NoRequest
  <2> QED
    BY <2>1, <2>2 DEF HeldIn, InHandIn
<1>17. HandInv /\ ReaderInv /\ ActInv
  <2>1. HandInv
    BY <1>16 DEF HandInv, HandOf
  <2>2. ReaderInv
    BY <1>16 DEF ReaderInv, ReaderOf
  <2>3. ActInv
    BY <1>3 DEF ActInv, ActOf, NoRequest
  <2> QED
    BY <2>1, <2>2, <2>3
<1>18. NothingLeft
  BY <1>6 DEF NothingLeft, Free, NoVersion
<1> QED
  BY <1>8, <1>9, <1>10, <1>11, <1>12, <1>13, <1>15, <1>17, <1>18 DEF IInv

(* A step that changes nothing. *)
LEMMA StutterKeeps ==
    ASSUME IInv, UNCHANGED vars
    PROVE  IInv'
<1>1. /\ hdr' = hdr /\ tip' = tip /\ lck' = lck /\ dbb' = dbb /\ tra' = tra /\ ver' = ver
      /\ at' = at /\ rpb' = rpb /\ req' = req /\ log' = log /\ crashes' = crashes
  BY DEF vars
<1>2. Typed'
  BY <1>1 DEF IInv, Typed
<1>3. \A p \in Proc : /\ Active(p)' <=> Active(p)
                      /\ InSnapshot(p)' <=> InSnapshot(p)
                      /\ Settling(p)' <=> Settling(p)
                      /\ Ready(p)' <=> Ready(p)
  BY <1>1 DEF Active, InSnapshot, Settling, Ready
<1>4. NumbersInv' /\ OldestInv' /\ SnapshotInv'
  BY <1>1, <1>3 DEF IInv, NumbersInv, NumbersOf, OldestInv, OldestOf, Remembered, Over, Gone,
                    SnapshotInv, SnapshotOf
<1>5. FreshInv' /\ RequestInv'
  BY <1>1, <1>3 DEF IInv, FreshInv, Fresh, RequestInv, RequestOf
<1>6. \A s : Chain(s)' = Chain(s) /\ (Free(s)' <=> Free(s))
  BY <1>1 DEF Chain, Free
<1>7. \A p \in Proc : Held(p)' = Held(p) /\ InHand(p)' = InHand(p)
  BY <1>1, HeldIs
<1>8. ChainInv' /\ HandInv' /\ NothingLeft'
  BY <1>1, <1>6, <1>7 DEF IInv, ChainInv, HandInv, HandOf, NothingLeft
<1>9. ReaderInv' /\ ActInv'
  BY <1>1, <1>6 DEF IInv, ReaderInv, ReaderOf, ActInv, ActOf, TRA_snapshot_state, Same, Collectable
<1> QED
  BY <1>2, <1>4, <1>5, <1>8, <1>9 DEF IInv

(* Every step keeps it. *)
LEMMA NextKeeps ==
    ASSUME VersionsAssumption, IInv, [Next]_vars
    PROVE  IInv'
<1>1. CASE UNCHANGED vars
  BY <1>1, StutterKeeps
<1>2. ASSUME NEW p \in Proc,
             \/ TRA_start(p) \/ TRA_get_inventory(p) \/ Scan(p) \/ Query(p) \/ Settle(p)
      PROVE  IInv'
  BY <1>2, StartingKeeps
<1>3. ASSUME NEW p \in Proc,
             \/ Read(p) \/ ReadAgain(p) \/ VIO_chase_record_version(p) \/ Regain(p)
      PROVE  IInv'
  BY <1>3, GetKeeps, ChaseKeeps, RegainKeeps
<1>4. ASSUME NEW p \in Proc, purge(p) \/ expunge(p) \/ garbage_collect(p)
      PROVE  IInv'
  BY <1>4, PurgeKeeps, ExpungeKeeps, CollectKeeps
<1>5. ASSUME NEW p \in Proc, BackoutRead(p) \/ BackoutWrite(p) \/ BackoutDelete(p)
      PROVE  IInv'
  BY <1>5, BackoutReadKeeps, BackoutWriteKeeps, BackoutDeleteKeeps
<1>6. ASSUME NEW p \in Proc, VIO_store(p) \/ DPM_chain(p) \/ Update(p) \/ prepare_update(p)
      PROVE  IInv'
  BY <1>6, StoreKeeps, ChainUpdateKeeps, UpdateKeeps, PrepareKeeps
<1>7. ASSUME NEW p \in Proc, TRA_wait(p) \/ WaitDenied(p) \/ Discard(p)
      PROVE  IInv'
  BY <1>7, WaitKeeps, DiscardKeeps
<1>8. ASSUME NEW p \in Proc,
             \/ TRA_commit(p) \/ TRA_rollback(p) \/ Undone(p)
             \/ TRA_release_transaction(p) \/ Crash(p)
      PROVE  IInv'
  BY <1>8, EndingKeeps, RollbackKeeps
<1> QED
  BY <1>1, <1>2, <1>3, <1>4, <1>5, <1>6, <1>7, <1>8 DEF Next

(* In every reachable state numbers, snapshots, requests, the chain and what
   processes have in hand go together, however many transactions start at a
   time and whoever dies. *)
THEOREM Invariance ==
    Spec => []IInv
<1>1. Init => IInv
  BY VersionsAssumption, InitInvariant
<1>2. IInv /\ [Next]_vars => IInv'
  BY VersionsAssumption, NextKeeps
<1> QED
  BY <1>1, <1>2, PTL DEF Spec

(* No version is lost, freed twice or in two hands: what VersionsKept says of
   updates, conflicts, undos, backouts and garbage collection holds for any
   number of processes, places and transactions. *)
THEOREM VersionsAreKept ==
    Spec => []VersionsKept
<1>1. IInv => VersionsKept
  <2> SUFFICES ASSUME IInv
               PROVE  VersionsKept
    OBVIOUS
  <2> DEFINE chain == IF Free(Primary) THEN {} ELSE Chain(Primary)
  <2>1. Typed /\ ChainInv /\ HandInv /\ NothingLeft
    BY DEF IInv
  <2>2. chain = Chain(Primary)
    <3> SUFFICES ASSUME Free(Primary)
                 PROVE  Chain(Primary) = {}
      OBVIOUS
    <3>1. ver[Primary].back = None
      BY <2>1 DEF ChainInv, NoVersion, Place
    <3> QED
      BY <2>1, <3>1, VersionsAssumption, RecordIs, RecordChain DEF Typed, Versions
  <2>3. \A s \in chain : ~Free(s) /\ tip[ver[s].tra] # "dead"
    BY <2>1, <2>2 DEF ChainInv
  <2>4. \A p \in Proc : /\ Held(p) \cap chain = {}
                        /\ \A s \in Held(p) : ~Free(s)
                        /\ \A q \in Proc \ {p} : Held(p) \cap Held(q) = {}
    BY <2>1, <2>2 DEF HandInv, HandOf
  <2>5. crashes = 0 => \A s \in Slot : ~Free(s) => s \in chain \/ \E p \in Proc : s \in Held(p)
    BY <2>1, <2>2 DEF NothingLeft
  <2> QED
    BY <2>3, <2>4, <2>5 DEF VersionsKept
<1> QED
  BY <1>1, Invariance, PTL
=============================================================================

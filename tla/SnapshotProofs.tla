---------------------------- MODULE SnapshotProofs ----------------------------
(***************************************************************************)
(* What a transaction reads and overwrites, proved for every number of     *)
(* processes, places, transactions, reads and deaths, if transactions      *)
(* start one at a time: a read answers with the version of the snapshot,   *)
(* no update is overwritten unseen, and no process meets a record it       *)
(* cannot explain.                                                         *)
(***************************************************************************)
EXTENDS RecordVersionsProofs, FiniteSetTheorems

-----------------------------------------------------------------------------
(* What is old enough. *)

(* A transaction ends in the inventory while it has its lock; one without a
   lock can only be found dead. *)
TipFalls ==
    \A t \in Tra : tip'[t] # tip[t] => tip[t] = "active" /\ (lck[t] # 0 \/ tip'[t] = "dead")

(* Who was seen by all is seen by all. *)
SeenStay == \A t \in Tra : t <= hdr.next /\ SeenByAll(t) => SeenByAll(t)'

(* Below a bound nobody runs below, nobody commits. *)
LEMMA NoneCommits ==
    ASSUME TipFalls, NEW n, Gone(n), NEW t \in Tra, t < n, tip'[t] = "committed"
    PROVE  tip[t] = "committed"
BY DEF TipFalls, Gone

(* What a snapshot is known to have it keeps. *)
LEMMA KnownStays ==
    ASSUME Typed, EndsStay, TipFalls, NEW q \in Proc, NEW n \in Int, n <= hdr.next + 1,
           Known(q, n),
           \A t \in Tra : tip[t] = "committed" => tra'[q].states[t] = tra[q].states[t]
    PROVE  Known(q, n)'
<1>1. Gone(n) /\ Gone(n)'
  BY GoneStays DEF Known
<1>2. \A t \in Tra : t < n /\ tip'[t] = "committed" => tip[t] = "committed"
  BY <1>1, NoneCommits
<1> QED
  BY <1>1, <1>2 DEF Known

(* What is safe stays so. *)
LEMMA SafeStays ==
    ASSUME Typed, EndsStay, TipFalls, SeenStay, NEW n \in Int, n <= hdr.next + 1,
           Gone(n), Safe(n)
    PROVE  Safe(n)'
<1>1. \A t \in Tra : t < n /\ tip'[t] = "committed" => tip[t] = "committed"
  BY NoneCommits
<1>2. \A t \in Tra : t < n => t <= hdr.next
  BY SharedFields DEF Tra
<1> QED
  BY <1>1, <1>2 DEF Safe, SeenStay

(* What holds below a bound holds below a smaller one. *)
LEMMA SafeBelow ==
    ASSUME NEW m \in Int, NEW n \in Int, m <= n
    PROVE  /\ Safe(n) => Safe(m)
           /\ \A p \in Proc : Known(p, n) => Known(p, m)
BY DEF Safe, Known, Gone, Tra

(* A transaction committed that a snapshot is known to have. *)
LEMMA KnownState ==
    ASSUME Typed, NEW p \in Proc, NEW n \in Int, Known(p, n), n <= tra[p].number,
           NEW t \in Tra, t < n, tip[t] = "committed"
    PROVE  TRA_snapshot_state(p, t) = "committed"
<1>1. tra[p].number \in Int /\ tra[p].oldest \in Int /\ t \in Int
  BY TraFields DEF Tra
<1>2. t # tra[p].number /\ ~(t > tra[p].number) /\ tra[p].states[t] = "committed"
  BY <1>1 DEF Known
<1> QED
  BY <1>2 DEF TRA_snapshot_state

(* A step of p leaves what all see to all if it leaves it to p. *)
LEMMA SeenStays ==
    ASSUME EndsStay, NEW p \in Proc, Alone(p),
           \A t \in Tra : t <= hdr.next /\ SeenByAll(t) /\ InSnapshot(p)' =>
              TRA_snapshot_state(p, t)' = "committed"
    PROVE  SeenStay
<1> SUFFICES ASSUME NEW t \in Tra, t <= hdr.next, SeenByAll(t)
             PROVE  SeenByAll(t)'
  BY DEF SeenStay
<1>1. tip'[t] = "committed"
  BY DEF EndsStay, SeenByAll
<1>2. ASSUME NEW q \in Proc \ {p}, InSnapshot(q)'
      PROVE  TRA_snapshot_state(q, t)' = "committed"
  <2>1. InSnapshot(q) /\ tra'[q] = tra[q]
    BY <1>2 DEF Alone, InSnapshot
  <2>2. TRA_snapshot_state(q, t) = "committed"
    BY <2>1 DEF SeenByAll
  <2> QED
    BY <2>1, <2>2 DEF TRA_snapshot_state
<1> QED
  BY <1>1, <1>2 DEF SeenByAll

(* A snapshot that changes only where a transaction has died. *)
LEMMA SeenOwn ==
    ASSUME NEW p \in Proc, tra'[p].number = tra[p].number, tra'[p].oldest = tra[p].oldest,
           NEW t \in Tra, tra'[p].states[t] = tra[p].states[t]
    PROVE  TRA_snapshot_state(p, t)' = TRA_snapshot_state(p, t)
BY DEF TRA_snapshot_state

-----------------------------------------------------------------------------
(* Starting transactions. *)

(* Who starts or runs is not told more by the step of another process. *)
LEMMA OthersStart ==
    ASSUME Typed, TraInv, EndsStay, TipFalls, SeenStay, NEW p \in Proc, Alone(p),
           NEW q \in Proc \ {p}, StartOf(q),
           Active(q) => lck'[tra[q].number] = lck[tra[q].number],
           Settling(q) => /\ hdr'.next = hdr.next /\ ~Settling(p)'
                          /\ Running(p)' => Running(p) /\ tra'[p].number = tra[p].number
    PROVE  StartOf(q)'
<1>x. PICK x, d : x = tra[q] /\ d = dbb[q]
  OBVIOUS
<1>1. at'[q] = at[q] /\ tra'[q] = x /\ dbb'[q] = d
  BY <1>x DEF Alone
<1>2. /\ x.oldest_snapshot \in Int /\ x.active \in Int /\ x.oldest_active \in Int
      /\ x.tra_oldest_active \in Int /\ x.number \in Int /\ d.oldest_snapshot \in Int
      /\ hdr.next \in Int
  BY <1>x, TraFields DEF Tra
<1>3. NumbersOf(q) /\ OldestOf(q) /\ Remembered(d)
  BY <1>x DEF TraInv, NumbersInv, OldestInv
<1>4. /\ d.oldest_snapshot <= hdr.next /\ Gone(d.oldest_snapshot)
      /\ Active(q) => x.number <= hdr.next /\ x.tra_oldest_active <= x.number /\ x.number \in Tra
      /\ Settling(q) => /\ x.active <= x.number /\ Gone(x.active)
                        /\ x.oldest_snapshot <= x.number /\ Gone(x.oldest_snapshot)
                        /\ x.oldest_active <= x.number
      /\ at[q] \in {"query", "settle"} \/ Ready(q) => Gone(x.tra_oldest_active)
      /\ lck \in [Tra -> 0 .. MaxTra] /\ \A t \in Tra : lck[t] <= t
  BY <1>x, <1>3, SharedFields DEF Remembered, NumbersOf, OldestOf, TraInv, NumbersInv
<1>5. \A n \in Int : n <= hdr.next /\ Gone(n) /\ Safe(n) => Safe(n)'
  BY <1>2, SafeStays
<1>6. \A n \in Int : n <= hdr.next /\ Known(q, n) => Known(q, n)'
  BY <1>x, <1>1, <1>2, KnownStays
<1>7. Settling(q)' => /\ x.number = hdr'.next /\ Safe(x.oldest_snapshot)'
                      /\ \A r \in Proc : Settling(r)' => r = q
  <2> SUFFICES ASSUME Settling(q)
               PROVE  /\ x.number = hdr'.next /\ Safe(x.oldest_snapshot)'
                      /\ \A r \in Proc : Settling(r)' => r = q
    BY <1>1 DEF Settling
  <2>1. Active(q)
    BY DEF Active, Settling
  <2>2. x.number = hdr'.next /\ Safe(x.oldest_snapshot)'
    BY <1>x, <1>2, <1>4, <1>5, <2>1 DEF StartOf
  <2>3. \A r \in Proc \ {p} : Settling(r)' => Settling(r)
    BY DEF Alone, Settling
  <2> QED
    BY <2>2, <2>3 DEF StartOf
<1>8. at'[q] = "scan" => /\ Known(q, x.active)'
                         /\ \A r \in Proc : Running(r)' => x.states[tra'[r].number] = "active"
  <2> SUFFICES ASSUME at[q] = "scan"
               PROVE  /\ Known(q, x.active)'
                      /\ \A r \in Proc : Running(r)' => x.states[tra'[r].number] = "active"
    BY <1>1
  <2>1. Settling(q) /\ Active(q)
    BY DEF Settling, Active
  <2>2. Known(q, x.active)'
    BY <1>x, <1>2, <1>4, <1>6, <2>1 DEF StartOf
  <2>3. \A r \in Proc : Running(r)' => Running(r) /\ tra'[r].number = tra[r].number
    BY <2>1 DEF Alone, Running, Ready
  <2> QED
    BY <1>x, <2>2, <2>3 DEF StartOf
<1>9. at'[q] \in {"query", "settle"} => Known(q, x.oldest_active)'
  BY <1>x, <1>1, <1>2, <1>4, <1>6 DEF StartOf, Settling, Active
<1>10. at'[q] = "query" => x.tra_oldest_active <= x.oldest_active
  BY <1>x, <1>1 DEF StartOf
<1>11. Running(q)' => Known(q, lck[x.number])'
  <2> SUFFICES ASSUME Running(q)
               PROVE  Known(q, lck[x.number])'
    BY <1>1 DEF Running, Ready
  <2>0. PICK n : n = lck[x.number]
    OBVIOUS
  <2>1. Active(q) /\ lck'[x.number] = n /\ Known(q, n)
    BY <1>x, <2>0 DEF Running, Ready, Active, StartOf
  <2>2. n \in Int /\ n <= hdr.next
    BY <1>2, <1>4, <2>0, <2>1
  <2>3. Known(q, n)'
    BY <1>6, <2>1, <2>2
  <2> QED
    BY <2>1, <2>3
<1>12. at'[q] = "settle" \/ Ready(q)' => Safe(x.tra_oldest_active)'
  BY <1>x, <1>1, <1>2, <1>4, <1>5 DEF StartOf, Ready, Active
<1>13. Safe(d.oldest_snapshot)'
  BY <1>x, <1>2, <1>4, <1>5 DEF StartOf
<1> QED
  BY <1>1, <1>7, <1>8, <1>9, <1>10, <1>11, <1>12, <1>13 DEF StartOf

(* A process runs on, ends its transaction or dies. *)
LEMMA RunStart ==
    ASSUME Typed, TraInv, StartInv, EndsStay, TipFalls, NEW p \in Proc, Alone(p), hdr' = hdr,
           Active(p), at'[p] \in Busy \cup {"idle", "release"},
           \A q \in Proc : at'[q] # "idle" /\ Active(q) =>
              lck'[tra[q].number] = lck[tra[q].number],
           at'[p] # "idle" =>
             /\ Running(p) \/ (Ready(p) /\ at'[p] = "release")
             /\ dbb'[p] = dbb[p] /\ tra'[p].number = tra[p].number
             /\ tra'[p].oldest = tra[p].oldest
             /\ tra'[p].tra_oldest_active = tra[p].tra_oldest_active
             /\ \A t \in Tra : tip[t] = "committed" => tra'[p].states[t] = tra[p].states[t],
           dbb'[p] \in {dbb[p], NoDbb}
    PROVE  StartInv' /\ SeenStay
<1>x. PICK x, d : x = tra[p] /\ d = dbb[p]
  OBVIOUS
<1>1. SeenStay
  <2>1. ASSUME NEW t \in Tra, SeenByAll(t), InSnapshot(p)'
        PROVE  TRA_snapshot_state(p, t)' = "committed"
    <3>1. at'[p] # "idle" /\ at'[p] # "release" /\ Running(p) /\ tip[t] = "committed"
      BY <2>1 DEF InSnapshot, SeenByAll
    <3>2. TRA_snapshot_state(p, t) = "committed"
      BY <2>1, <3>1 DEF SeenByAll, Running, Ready, InSnapshot
    <3> QED
      BY <3>1, <3>2, SeenOwn
  <2> QED
    BY <2>1, SeenStays
<1>2. /\ hdr.next \in Int /\ hdr.oldest_snapshot \in Int /\ x.number \in Int
      /\ x.tra_oldest_active \in Int /\ d.oldest_snapshot \in Int
      /\ lck \in [Tra -> 0 .. MaxTra]
  BY <1>x, TraFields, SharedFields
<1>3. /\ NumbersOf(p) /\ OldestOf(p) /\ Remembered(d) /\ Remembered(hdr) /\ StartOf(p)
      /\ \A t \in Tra : lck[t] <= t
  BY <1>x DEF TraInv, NumbersInv, OldestInv, StartInv
<1>4. \A n \in Int : n <= hdr.next /\ Gone(n) /\ Safe(n) => Safe(n)'
  BY <1>1, <1>2, SafeStays
<1>5. Safe(hdr.oldest_snapshot)'
  <2>1. PICK n : n = hdr.oldest_snapshot
    OBVIOUS
  <2>2. Safe(n)'
    BY <1>2, <1>3, <1>4, <2>1 DEF StartInv, Remembered
  <2> QED
    BY <2>1, <2>2
<1>6. ASSUME NEW q \in Proc \ {p}
      PROVE  StartOf(q)'
  <2>1. StartOf(q) /\ (Settling(p)' => FALSE)
    BY DEF StartInv, Settling, Busy
  <2>2. Active(q) => lck'[tra[q].number] = lck[tra[q].number]
    BY DEF Alone, Active
  <2>3. Running(p)' => Running(p) /\ tra'[p].number = tra[p].number
    BY DEF Running, Ready
  <2> QED
    BY <1>1, <2>1, <2>2, <2>3, OthersStart
<1>7. StartOf(p)'
  <2>1. ~Settling(p)' /\ at'[p] \notin {"scan", "query", "settle"}
    BY DEF Settling, Busy
  <2>2. Running(p)' => Known(p, lck[tra[p].number])'
    <3> SUFFICES ASSUME Running(p)'
                 PROVE  Known(p, lck[tra[p].number])'
      OBVIOUS
    <3>0. PICK n : n = lck[x.number]
      OBVIOUS
    <3>1. Running(p) /\ at'[p] # "idle"
      BY DEF Running, Ready
    <3>2. Known(p, n) /\ x.number \in Tra /\ x.number <= hdr.next /\ lck'[tra'[p].number] = n
      BY <1>x, <1>3, <3>0, <3>1 DEF StartOf, NumbersOf
    <3>3. n \in Int /\ n <= hdr.next + 1
      <4>1. n \in Int /\ n <= x.number
        BY <1>2, <1>3, <3>0, <3>2
      <4> QED
        BY <1>2, <3>2, <4>1
    <3>4. Known(p, n)'
      BY <1>x, <3>1, <3>2, <3>3, KnownStays
    <3> QED
      BY <3>2, <3>4
  <2>3. Ready(p)' => Safe(tra[p].tra_oldest_active)'
    <3> SUFFICES ASSUME Ready(p)'
                 PROVE  Safe(tra[p].tra_oldest_active)'
      OBVIOUS
    <3>0. PICK n : n = x.tra_oldest_active
      OBVIOUS
    <3>1. Ready(p) /\ tra'[p].tra_oldest_active = n
      BY <1>x, <3>0 DEF Running, Ready
    <3>2. Safe(n) /\ Gone(n) /\ n <= hdr.next /\ n \in Int
      BY <1>x, <1>2, <1>3, <3>0, <3>1 DEF StartOf, OldestOf, NumbersOf
    <3>3. Safe(n)'
      BY <1>4, <3>2
    <3> QED
      BY <3>1, <3>3
  <2>4. Safe(dbb[p].oldest_snapshot)'
    <3>1. CASE dbb'[p] = d
      <4>0. PICK n : n = d.oldest_snapshot
        OBVIOUS
      <4>1. Safe(n)'
        BY <1>x, <1>2, <1>3, <1>4, <4>0 DEF StartOf, Remembered
      <4> QED
        BY <3>1, <4>0, <4>1
    <3>2. CASE dbb'[p] = NoDbb
      BY <3>2 DEF NoDbb, Safe, Tra
    <3> QED
      BY <1>x, <3>1, <3>2
  <2> QED
    BY <2>1, <2>2, <2>3, <2>4 DEF StartOf
<1> QED
  BY <1>1, <1>5, <1>6, <1>7 DEF StartInv

(* Nobody else starts when a transaction starts. *)
LEMMA NoneStarting ==
    ASSUME VersionsAssumption, StartsApart, StartInv, NEW p \in Proc, TRA_start(p)
    PROVE  \A q \in Proc : ~Settling(q)
<1> SUFFICES ASSUME NEW q \in Proc, Settling(q)
             PROVE  FALSE
  OBVIOUS
<1>1. \A r \in Proc : Settling(r) => r = q
  BY DEF StartInv, StartOf
<1>2. Starting = {q}
  BY <1>1 DEF Starting, Settling
<1>3. Cardinality(Starting) = 1
  BY <1>2, FS_Singleton
<1>4. Cardinality(Starting) < MaxStarting
  BY DEF TRA_start
<1> QED
  BY <1>3, <1>4 DEF VersionsAssumption, StartsApart

(* Who has a snapshot while p starts runs, and p's snapshot may not have it. *)
LEMMA WhoElse ==
    ASSUME Typed, TraInv, StartInv, NEW p \in Proc, Settling(p),
           NEW q \in Proc \ {p}, InSnapshot(q)
    PROVE  /\ Running(q) /\ tra[q].number \in Tra /\ tra[q].number < tra[p].number
           /\ Known(q, lck[tra[q].number]) /\ lck[tra[q].number] # 0
           /\ lck[tra[q].number] <= tra[q].number
           /\ tip[tra[q].number] = "active"
           /\ tra[q].number >= tra[p].active
<1>1. ~Settling(q) /\ Running(q) /\ Active(q) /\ Active(p) /\ at[q] # "release"
  BY DEF StartInv, StartOf, Settling, InSnapshot, Running, Ready, Active
<1>2. NumbersOf(q) /\ NumbersOf(p) /\ OldestOf(p) /\ StartOf(p) /\ StartOf(q)
  BY DEF TraInv, NumbersInv, OldestInv, StartInv
<1>3. /\ tra[q].number \in Tra /\ tra[q].number <= hdr.next /\ lck[tra[q].number] # 0
      /\ tip[tra[q].number] = "active" /\ tra[q].number # tra[p].number
      /\ lck[tra[q].number] <= tra[q].number
  BY <1>1, <1>2 DEF NumbersOf, TraInv, NumbersInv
<1>4. tra[p].number = hdr.next /\ Known(q, lck[tra[q].number])
  BY <1>1, <1>2 DEF StartOf
<1>a. tra[p].active \in Int /\ tra[q].number \in Int /\ hdr.next \in Int
  BY TraFields DEF Tra
<1>b. Gone(tra[p].active)
  BY <1>2 DEF OldestOf
<1>5. Gone(tra[p].active) /\ tra[p].active \in Int /\ tra[q].number \in Int /\ hdr.next \in Int
  BY <1>a, <1>b
<1>6. tra[q].number >= tra[p].active
  BY <1>3, <1>5 DEF Gone
<1> QED
  BY <1>1, <1>3, <1>4, <1>5, <1>6

(* TRA_start. *)
LEMMA StartBegins ==
    ASSUME VersionsAssumption, StartsApart, Typed, TraInv, StartInv, NEW p \in Proc, TRA_start(p)
    PROVE  StartInv' /\ SeenStay /\ TipFalls
<1>1. Typed' /\ TraInv' /\ EndsStay /\ Alone(p)
      /\ hdr'.next = hdr.next + 1 /\ tra'[p].number = hdr'.next
  BY StartNumbers
<1>x. PICK h, a : h = bump_transaction_id(p) /\ a = Larger(h.oldest_active, h.oldest)
  OBVIOUS
<1>y. PICK y : y = [number |-> h.next, oldest |-> h.oldest, active |-> a,
                    oldest_active |-> h.next, tra_oldest_active |-> h.next,
                    oldest_snapshot |-> h.oldest_snapshot,
                    cleanup |-> h.next % TRA_ACTIVE_CLEANUP = 0,
                    states |-> [t \in Tra |-> "active"]]
  OBVIOUS
<1>2. /\ at[p] = "idle" /\ hdr' = h /\ at' = [at EXCEPT ![p] = "inventory"]
      /\ lck' = [lck EXCEPT ![h.next] = a] /\ tra' = [tra EXCEPT ![p] = y]
      /\ y.oldest_snapshot = h.oldest_snapshot
      /\ UNCHANGED <<tip, dbb>>
  <2>1. y.oldest_snapshot = h.oldest_snapshot
    BY <1>y
  <2> QED
    BY <1>x, <1>y, <2>1 DEF TRA_start
<1>3. at \in [Proc -> Doing] /\ tra \in [Proc -> Transaction] /\ hdr.next \in Int
      /\ lck \in [Tra -> 0 .. MaxTra]
  BY SharedFields DEF Typed, Transaction
<1>4. TipFalls
  BY <1>2 DEF TipFalls
<1>5. at'[p] = "inventory"
  BY <1>2, <1>3
<1>6. SeenStay
  BY <1>1, <1>5, SeenStays DEF InSnapshot
<1>7. \A q \in Proc : ~Settling(q)
  BY NoneStarting
<1>8. ASSUME NEW q \in Proc \ {p}
      PROVE  StartOf(q)'
  <2>1. StartOf(q) /\ NumbersOf(q) /\ ~Settling(q)
    BY <1>7 DEF StartInv, TraInv, NumbersInv
  <2>2. Active(q) => tra[q].number \in Tra /\ tra[q].number <= hdr.next
    BY <2>1 DEF NumbersOf
  <2>3. h.next = hdr.next + 1
    BY <1>1, <1>2
  <2>4. Active(q) => tra[q].number # h.next
    BY <1>3, <2>2, <2>3 DEF Tra
  <2>5. Active(q) => lck'[tra[q].number] = lck[tra[q].number]
    BY <1>2, <1>3, <2>2, <2>4
  <2> QED
    BY <1>1, <1>4, <1>6, <2>1, <2>5, OthersStart
<1>9. PICK m, n : m = dbb[p].oldest_snapshot /\ n = hdr.oldest_snapshot
  OBVIOUS
<1>10. /\ m \in Int /\ n \in Int /\ m <= hdr.next /\ n <= hdr.next
       /\ Gone(m) /\ Gone(n) /\ Safe(m) /\ Safe(n)
  BY <1>9, TraFields DEF TraInv, OldestInv, Remembered, StartInv, StartOf
<1>11. Safe(m)' /\ Safe(n)'
  BY <1>1, <1>3, <1>4, <1>6, <1>10, SafeStays
<1>12. PICK k : k = Larger(m, n)
  OBVIOUS
<1>13. Safe(k)'
  BY <1>11, <1>12 DEF Larger
<1>14. hdr'.oldest_snapshot = k /\ tra'[p].oldest_snapshot = k /\ dbb'[p].oldest_snapshot = m
  <2>1. h.oldest_snapshot = k
    BY <1>x, <1>9, <1>12 DEF bump_transaction_id
  <2> QED
    BY <1>2, <1>3, <1>9, <2>1
<1>15. StartOf(p)'
  <2>1. \A q \in Proc : Settling(q)' => q = p
    BY <1>1, <1>7 DEF Alone, Settling
  <2> QED
    BY <1>1, <1>5, <1>11, <1>13, <1>14, <2>1 DEF StartOf, Settling, Running, Ready
<1> QED
  BY <1>4, <1>6, <1>8, <1>13, <1>14, <1>15 DEF StartInv

(* TRA_get_inventory. *)
LEMMA InventoryStart ==
    ASSUME VersionsAssumption, Typed, TraInv, StartInv, NEW p \in Proc, TRA_get_inventory(p)
    PROVE  StartInv' /\ SeenStay /\ TipFalls
<1>1. Typed' /\ TraInv' /\ EndsStay /\ Alone(p)
  BY InventoryNumbers
<1>x. PICK x : x = tra[p]
  OBVIOUS
<1>2. /\ at[p] = "inventory" /\ tra' = [tra EXCEPT ![p].states = tip]
      /\ at' = [at EXCEPT ![p] = "scan"]
      /\ UNCHANGED <<hdr, tip, lck, dbb>>
  BY DEF TRA_get_inventory
<1>3. at \in [Proc -> Doing] /\ tra \in [Proc -> Transaction] /\ hdr.next \in Int
      /\ x.number \in Int /\ x.oldest \in Int /\ x.active \in Int /\ x.oldest_snapshot \in Int
  BY <1>x, SharedFields, TraFields DEF Typed, Transaction
<1>4. TipFalls
  BY <1>2 DEF TipFalls
<1>5. /\ at'[p] = "scan" /\ tra'[p].states = tip /\ tra'[p].number = x.number
      /\ tra'[p].oldest = x.oldest /\ tra'[p].active = x.active
      /\ tra'[p].oldest_snapshot = x.oldest_snapshot
  BY <1>x, <1>2, <1>3 DEF Transaction
<1>6. /\ Settling(p) /\ Active(p) /\ StartOf(p) /\ NumbersOf(p) /\ OldestOf(p) /\ Remembered(hdr)
      /\ Remembered(dbb[p]) /\ Safe(hdr.oldest_snapshot)
  BY <1>2 DEF Settling, Active, StartInv, TraInv, NumbersInv, OldestInv
<1>7. /\ x.number = hdr.next /\ x.number \in Tra /\ tip[x.number] = "active"
      /\ x.oldest <= x.number /\ x.active <= x.number /\ Gone(x.active)
      /\ x.oldest_snapshot <= x.number /\ Gone(x.oldest_snapshot) /\ Safe(x.oldest_snapshot)
  BY <1>x, <1>2, <1>6 DEF StartOf, NumbersOf, OldestOf
<1>8. SeenStay
  <2>1. ASSUME NEW t \in Tra, t <= hdr.next, SeenByAll(t)
        PROVE  TRA_snapshot_state(p, t)' = "committed"
    <3>1. tip[t] = "committed" /\ t # x.number /\ ~(t > x.number)
      BY <1>3, <1>7, <2>1 DEF SeenByAll, Tra
    <3> QED
      BY <1>5, <3>1 DEF TRA_snapshot_state
  <2> QED
    BY <1>1, <2>1, SeenStays
<1>9. ASSUME NEW q \in Proc \ {p}
      PROVE  StartOf(q)'
  <2>1. StartOf(q) /\ ~Settling(q)
    BY <1>6 DEF StartInv, StartOf
  <2> QED
    BY <1>1, <1>2, <1>4, <1>8, <2>1, OthersStart
<1>10. \A n \in Int : n <= hdr.next /\ Gone(n) /\ Safe(n) => Safe(n)'
  BY <1>1, <1>3, <1>4, <1>8, SafeStays
<1>11. Safe(hdr.oldest_snapshot)' /\ Safe(dbb[p].oldest_snapshot)'
  <2>1. PICK m, n : m = dbb[p].oldest_snapshot /\ n = hdr.oldest_snapshot
    OBVIOUS
  <2>2. m \in Int /\ n \in Int /\ m = dbb'[p].oldest_snapshot /\ n = hdr'.oldest_snapshot
    BY <1>2, <2>1, TraFields
  <2>3. Safe(m)' /\ Safe(n)'
    BY <1>6, <1>10, <2>1, <2>2 DEF Remembered, StartOf
  <2> QED
    BY <2>2, <2>3
<1>12. StartOf(p)'
  <2>1. Settling(p)' /\ \A q \in Proc : Settling(q)' => q = p
    BY <1>1, <1>5, <1>6 DEF StartOf, Alone, Settling
  <2>2. Safe(x.oldest_snapshot)' /\ x.number = hdr'.next
    BY <1>2, <1>3, <1>7, <1>10
  <2>3. Known(p, x.active)'
    BY <1>2, <1>5, <1>7 DEF Known, Gone
  <2>4. ASSUME NEW q \in Proc, Running(q)'
        PROVE  tip[tra'[q].number] = "active"
    <3>1. q # p /\ InSnapshot(q) /\ tra'[q] = tra[q]
      BY <1>1, <1>5, <2>4 DEF Alone, Running, Ready, InSnapshot
    <3> QED
      BY <1>6, <3>1, WhoElse
  <2> QED
    BY <1>5, <1>11, <2>1, <2>2, <2>3, <2>4 DEF StartOf, Running, Ready
<1> QED
  BY <1>4, <1>8, <1>9, <1>11, <1>12 DEF StartInv

(* What holds below the numbers of others and of its own snapshot is safe. *)
LEMMA SafeWhileStarting ==
    ASSUME Typed, TraInv, StartInv, NEW p \in Proc, Settling(p), NEW n \in Int,
           Known(p, n), n <= tra[p].number,
           \A q \in Proc \ {p} : InSnapshot(q) => n <= lck[tra[q].number]
    PROVE  Safe(n)
<1> SUFFICES ASSUME NEW t \in Tra, t < n, tip[t] = "committed",
                    NEW q \in Proc, InSnapshot(q)
             PROVE  TRA_snapshot_state(q, t) = "committed"
  BY DEF Safe, SeenByAll
<1>1. CASE q = p
  BY <1>1, KnownState
<1>2. CASE q # p
  <2>1. /\ Known(q, lck[tra[q].number]) /\ tra[q].number \in Tra
        /\ lck[tra[q].number] <= tra[q].number
    BY <1>2, WhoElse
  <2>2. lck[tra[q].number] \in Int /\ t \in Int
    BY <2>1, SharedFields DEF Tra
  <2>3. t < lck[tra[q].number]
    BY <1>2, <2>2
  <2> QED
    BY <2>1, <2>2, <2>3, KnownState
<1> QED
  BY <1>1, <1>2

(* Scan. *)
LEMMA ScanStart ==
    ASSUME VersionsAssumption, Typed, TraInv, StartInv, NEW p \in Proc, Scan(p)
    PROVE  StartInv' /\ SeenStay /\ TipFalls
<1>x. PICK x : x = tra[p]
  OBVIOUS
<1>0. PICK actives : actives = {t \in x.active .. x.number - 1 : x.states[t] = "active"}
  OBVIOUS
<1>a. PICK first : first = Min(actives)
  OBVIOUS
<1>b. PICK needed : needed = Smaller(x.number, IF lck[first] = 0 THEN first ELSE lck[first])
  OBVIOUS
<1>1. /\ at[p] = "scan"
      /\ \/ /\ actives = {}
            /\ at' = [at EXCEPT ![p] = "settle"]
            /\ UNCHANGED <<tra, tip>>
         \/ /\ actives # {} /\ lck[first] = 0
            /\ tip' = [tip EXCEPT ![first] = Settled(first)]
            /\ tra' = [tra EXCEPT ![p].states[first] = Settled(first),
                                  ![p].cleanup = Settled(first) # "committed",
                                  ![p].active = first + 1]
            /\ UNCHANGED at
         \/ /\ actives # {}
            /\ tra' = [tra EXCEPT ![p].oldest_active = first,
                                  ![p].tra_oldest_active = needed]
            /\ at' = [at EXCEPT ![p] = IF needed = x.oldest_snapshot
                                       THEN "settle" ELSE "query"]
            /\ UNCHANGED tip
  <2> DEFINE X == tra[p]
             A == {t \in X.active .. X.number - 1 : X.states[t] = "active"}
             F == Min(A)
             N == Smaller(X.number, IF lck[F] = 0 THEN F ELSE lck[F])
  <2>1. /\ at[p] = "scan"
        /\ \/ /\ A = {}
              /\ at' = [at EXCEPT ![p] = "settle"]
              /\ UNCHANGED <<tra, tip>>
           \/ /\ A # {} /\ lck[F] = 0 /\ X.cleanup
              /\ tip' = [tip EXCEPT ![F] = Settled(F)]
              /\ tra' = [tra EXCEPT ![p].states[F] = Settled(F),
                                    ![p].cleanup = Settled(F) # "committed",
                                    ![p].active = F + 1]
              /\ UNCHANGED at
           \/ /\ A # {} /\ ~(lck[F] = 0 /\ X.cleanup)
              /\ tra' = [tra EXCEPT ![p].oldest_active = F,
                                    ![p].tra_oldest_active = N]
              /\ at' = [at EXCEPT ![p] = IF N = X.oldest_snapshot
                                         THEN "settle" ELSE "query"]
              /\ UNCHANGED tip
    BY DEF Scan
  <2>2. x = X /\ actives = A
    BY <1>x, <1>0
  <2>3. first = F
    BY <1>a, <2>2
  <2>4. needed = N
    BY <1>b, <2>2, <2>3
  <2> HIDE DEF X, A, F, N
  <2> QED
    BY <2>1, <2>2, <2>3, <2>4
<1>2. /\ Typed' /\ TraInv' /\ EndsStay /\ Alone(p)
      /\ \A t \in Tra : tip'[t] # tip[t] => lck[t] = 0 /\ tip'[t] = "dead"
      /\ tra'[p].number = tra[p].number /\ UNCHANGED <<hdr, lck, dbb>>
      /\ at'[p] \in {"scan", "query", "settle"}
  BY ScanNumbers
<1>3. /\ at \in [Proc -> Doing] /\ tra \in [Proc -> Transaction] /\ hdr.next \in Int
      /\ tip \in [Tra -> State] /\ lck \in [Tra -> 0 .. MaxTra]
      /\ x.number \in Int /\ x.oldest \in Int /\ x.active \in Int /\ x.oldest_snapshot \in Int
      /\ x.oldest_active \in Int /\ x.tra_oldest_active \in Int
  <2>1. tra \in [Proc -> Transaction]
    BY DEF Typed, Transaction
  <2>2. /\ x.number \in Int /\ x.oldest \in Int /\ x.active \in Int /\ x.oldest_snapshot \in Int
        /\ x.oldest_active \in Int /\ x.tra_oldest_active \in Int
    BY <1>x, TraFields
  <2> QED
    BY <2>1, <2>2, SharedFields
<1>4. /\ x.number \in Tra /\ x.number <= hdr.next
      /\ actives = {} => Gone(x.number)
      /\ actives # {} => /\ first \in Tra /\ first \in Int /\ first < x.number
                         /\ first >= x.active /\ first \in actives /\ Gone(first)
  <2>1. actives = {t \in tra[p].active .. tra[p].number - 1 : tra[p].states[t] = "active"}
    BY <1>x, <1>0
  <2>2. /\ tra[p].number \in Tra /\ tra[p].number <= hdr.next
        /\ actives = {} => Gone(tra[p].number)
        /\ actives # {} => /\ Min(actives) \in Tra /\ Min(actives) \in Int
                           /\ Min(actives) < tra[p].number
                           /\ Min(actives) >= tra[p].active
                           /\ Min(actives) \in actives /\ Gone(Min(actives))
    BY <1>1, <2>1, ScanFinds
  <2> QED
    BY <1>x, <1>a, <2>2
<1>5. TipFalls
  BY <1>2 DEF TipFalls, EndsStay
<1>6. /\ Settling(p) /\ Active(p) /\ InSnapshot(p) /\ StartOf(p) /\ OldestOf(p) /\ SnapshotOf(p)
      /\ Remembered(hdr) /\ Remembered(dbb[p]) /\ Safe(hdr.oldest_snapshot)
  BY <1>1 DEF Settling, Active, InSnapshot, StartInv, TraInv, OldestInv, SnapshotInv
<1>7. /\ x.number = hdr.next /\ Safe(x.oldest_snapshot) /\ Known(p, x.active)
      /\ \A q \in Proc : Running(q) => x.states[tra[q].number] = "active"
      /\ x.oldest_snapshot <= x.number /\ Gone(x.oldest_snapshot)
      /\ x.active <= x.number /\ x.oldest_active <= x.number /\ x.tra_oldest_active <= x.number
      /\ \A t \in Tra : x.states[t] # "active" => tip[t] = x.states[t]
      /\ \A q \in Proc : Settling(q) => q = p
  BY <1>x, <1>1, <1>6 DEF StartOf, OldestOf, SnapshotOf
<1>8. \A t \in Tra : \/ tra'[p].states[t] = x.states[t]
                     \/ /\ t = first /\ lck[t] = 0 /\ x.states[t] = "active"
                        /\ tra'[p].states[t] = tip'[t]
  <2> TAKE t \in Tra
  <2>1. CASE actives # {} /\ lck[first] = 0 /\ tip' = [tip EXCEPT ![first] = Settled(first)]
             /\ tra' = [tra EXCEPT ![p].states[first] = Settled(first),
                                  ![p].cleanup = Settled(first) # "committed",
                                  ![p].active = first + 1]
    BY <1>x, <1>0, <1>3, <1>4, <2>1 DEF Transaction
  <2>2. CASE tra' = tra
    BY <1>x, <2>2
  <2>3. CASE tra' = [tra EXCEPT ![p].oldest_active = first, ![p].tra_oldest_active = needed]
    BY <1>x, <1>3, <2>3 DEF Transaction
  <2> QED
    BY <1>1, <2>1, <2>2, <2>3
<1>9. tra'[p].oldest = x.oldest /\ tra'[p].oldest_snapshot = x.oldest_snapshot
  BY <1>x, <1>1, <1>3 DEF Transaction
<1>10. SeenStay
  <2>1. ASSUME NEW t \in Tra, SeenByAll(t)
        PROVE  TRA_snapshot_state(p, t)' = "committed"
    <3>1. tip[t] = "committed" /\ tip'[t] = "committed" /\ TRA_snapshot_state(p, t) = "committed"
      BY <1>2, <1>6, <2>1 DEF SeenByAll, EndsStay
    <3>2. CASE tra'[p].states[t] = x.states[t]
      BY <1>x, <1>2, <1>9, <3>1, <3>2, SeenOwn
    <3>3. CASE x.states[t] = "active" /\ tra'[p].states[t] = tip'[t]
      <4>1. t # x.number /\ ~(t > x.number)
        BY <1>x, <1>3, <1>6, <3>1, SnapshotTrue DEF Tra
      <4> QED
        BY <1>x, <1>2, <1>9, <3>1, <3>3, <4>1 DEF TRA_snapshot_state
    <3> QED
      BY <1>8, <3>2, <3>3
  <2> QED
    BY <1>2, <2>1, SeenStays
<1>11. ASSUME NEW q \in Proc \ {p}
       PROVE  StartOf(q)'
  <2>1. StartOf(q) /\ ~Settling(q)
    BY <1>7 DEF StartInv
  <2> QED
    BY <1>2, <1>5, <1>10, <2>1, OthersStart
<1>12. \A n \in Int : n <= hdr.next /\ Gone(n) /\ Safe(n) => Safe(n)'
  BY <1>2, <1>3, <1>5, <1>10, SafeStays
<1>13. Safe(hdr.oldest_snapshot)' /\ Safe(dbb[p].oldest_snapshot)'
  <2>1. PICK m, n : m = dbb[p].oldest_snapshot /\ n = hdr.oldest_snapshot
    OBVIOUS
  <2>2. m \in Int /\ n \in Int /\ m = dbb'[p].oldest_snapshot /\ n = hdr'.oldest_snapshot
    BY <1>2, <2>1, TraFields
  <2>3. Safe(m)' /\ Safe(n)'
    BY <1>6, <1>12, <2>1, <2>2 DEF Remembered, StartOf
  <2> QED
    BY <2>2, <2>3
<1>14. Settling(p)' /\ (\A q \in Proc : Settling(q)' => q = p) /\ Safe(x.oldest_snapshot)'
       /\ ~Running(p)' /\ ~Ready(p)' /\ x.number = hdr'.next
  BY <1>2, <1>3, <1>7, <1>12 DEF Alone, Settling, Running, Ready
<1>15. \A n \in Int : n <= x.number /\ Gone(n) /\ (\A t \in Tra : t < n => t \notin actives)
                        => Known(p, n)
  <2> TAKE n \in Int
  <2> HAVE n <= x.number /\ Gone(n) /\ (\A t \in Tra : t < n => t \notin actives)
  <2>1. ASSUME NEW t \in Tra, t < n, tip[t] = "committed"
        PROVE  x.states[t] = "committed"
    <3>1. CASE t < x.active
      BY <1>x, <1>7, <2>1, <3>1 DEF Known
    <3>2. CASE ~(t < x.active)
      <4>1. t \in x.active .. x.number - 1
        BY <1>3, <2>1, <3>2 DEF Tra
      <4> QED
        BY <1>0, <1>7, <2>1, <4>1
    <3> QED
      BY <3>1, <3>2
  <2> QED
    BY <1>x, <2>1 DEF Known
<1>16. CASE actives = {} /\ at' = [at EXCEPT ![p] = "settle"] /\ UNCHANGED <<tra, tip>>
  <2>1. Known(p, x.number)
    BY <1>3, <1>4, <1>15, <1>16
  <2>2. \A q \in Proc \ {p} : ~InSnapshot(q)
    <3> SUFFICES ASSUME NEW q \in Proc \ {p}, InSnapshot(q)
                 PROVE  FALSE
      OBVIOUS
    <3>1. /\ Running(q) /\ tra[q].number \in Tra /\ tra[q].number < x.number
          /\ tra[q].number >= x.active
      BY <1>x, <1>6, WhoElse
    <3>2. tra[q].number \in x.active .. x.number - 1
      BY <1>3, <3>1 DEF Tra
    <3> QED
      BY <1>0, <1>7, <1>16, <3>1, <3>2
  <2>3. Safe(x.number)
    BY <1>x, <1>3, <1>6, <2>1, <2>2, SafeWhileStarting
  <2>4. Known(p, x.oldest_active) /\ Safe(x.tra_oldest_active)
    BY <1>3, <1>7, <2>1, <2>3, SafeBelow
  <2>5. Known(p, x.oldest_active)' /\ Safe(x.tra_oldest_active)'
    <3>1. Gone(x.tra_oldest_active)
      BY <1>3, <1>4, <1>7, <1>16 DEF Gone, Tra
    <3>2. Safe(x.tra_oldest_active)'
      BY <1>3, <1>7, <1>12, <2>4, <3>1
    <3> QED
      BY <1>2, <1>16, <2>4, <3>2 DEF Known, Gone
  <2>6. at'[p] = "settle" /\ tra'[p] = x
    BY <1>x, <1>3, <1>16
  <2> QED
    BY <1>5, <1>10, <1>11, <1>13, <1>14, <2>5, <2>6 DEF StartInv, StartOf
<1>17. CASE /\ actives # {} /\ lck[first] = 0
            /\ tip' = [tip EXCEPT ![first] = Settled(first)]
            /\ tra' = [tra EXCEPT ![p].states[first] = Settled(first),
                                  ![p].cleanup = Settled(first) # "committed",
                                  ![p].active = first + 1]
            /\ UNCHANGED at
  <2>1. at'[p] = "scan" /\ tra'[p].active = first + 1
    BY <1>x, <1>1, <1>3, <1>17 DEF Transaction
  <2>a. first \in Tra /\ first \in Int /\ first < x.number
    BY <1>4, <1>17
  <2>2. ASSUME NEW q \in Proc, Running(q)'
        PROVE  tra'[p].states[tra'[q].number] = "active"
    <3>1. q # p /\ InSnapshot(q) /\ tra'[q] = tra[q]
      BY <1>2, <1>14, <2>2 DEF Alone, Running, Ready, InSnapshot
    <3>2. Running(q) /\ lck[tra[q].number] # 0 /\ tra[q].number \in Tra
      BY <1>6, <3>1, WhoElse
    <3> QED
      BY <1>7, <1>8, <1>17, <3>1, <3>2
  <2>3. Known(p, first + 1)'
    <3>1. Gone(first + 1)'
      <4>1. OldestOf(p)'
        BY <1>2 DEF TraInv, OldestInv
      <4>2. Gone(tra[p].active)'
        BY <1>14, <4>1 DEF OldestOf
      <4> QED
        BY <2>1, <4>2
    <3>2. ASSUME NEW t \in Tra, t < first + 1, tip'[t] = "committed"
          PROVE  tra'[p].states[t] = "committed"
      <4>1. CASE tra'[p].states[t] = tip'[t]
        BY <3>2, <4>1
      <4>2. CASE t # first /\ tra'[p].states[t] = x.states[t]
        <5>1. tip[t] = "committed"
          BY <1>2, <3>2
        <5>2. t < first /\ first \in Int /\ \A u \in actives : first <= u
          <6>1. actives \in SUBSET Nat /\ actives # {}
            <7>1. x.active > 0
              BY <1>x, <1>6 DEF OldestOf
            <7> QED
              BY <1>0, <1>3, <1>17, <7>1
          <6> QED
            BY <1>a, <1>4, <1>17, <3>2, <4>2, <6>1, MinIs DEF Tra
        <5>3. t \notin actives
          BY <5>2 DEF Tra
        <5>4. CASE t < x.active
          BY <1>x, <1>7, <4>2, <5>1, <5>4 DEF Known
        <5>5. CASE ~(t < x.active)
          <6>1. t \in x.active .. x.number - 1
            BY <1>3, <2>a, <5>2, <5>5 DEF Tra
          <6> QED
            BY <1>0, <1>7, <4>2, <5>1, <5>3, <6>1
        <5> QED
          BY <5>4, <5>5
      <4>3. t = first => tra'[p].states[t] = tip'[t]
        BY <1>x, <1>3, <1>4, <1>17 DEF Transaction
      <4> QED
        BY <1>8, <4>1, <4>2, <4>3
    <3> QED
      BY <3>1, <3>2 DEF Known
  <2> QED
    BY <1>x, <1>2, <1>5, <1>9, <1>10, <1>11, <1>13, <1>14, <2>1, <2>2, <2>3 DEF StartInv, StartOf
<1>18. CASE /\ actives # {}
            /\ tra' = [tra EXCEPT ![p].oldest_active = first,
                                  ![p].tra_oldest_active = needed]
            /\ at' = [at EXCEPT ![p] = IF needed = x.oldest_snapshot
                                       THEN "settle" ELSE "query"]
            /\ UNCHANGED tip
  <2>1. /\ at'[p] = (IF needed = x.oldest_snapshot THEN "settle" ELSE "query")
        /\ tra'[p].oldest_active = first /\ tra'[p].tra_oldest_active = needed
        /\ tra'[p].states = x.states
    BY <1>x, <1>3, <1>18 DEF Transaction
  <2>2. \A u \in actives : first <= u
    <3>1. actives \in SUBSET Nat /\ actives # {}
      <4>1. x.active > 0
        BY <1>x, <1>6 DEF OldestOf
      <4> QED
        BY <1>0, <1>3, <1>18, <4>1
    <3> QED
      BY <1>a, <3>1, MinIs
  <2>3. Known(p, first)
    <3>1. \A t \in Tra : t < first => t \notin actives
      BY <1>4, <1>18, <2>2 DEF Tra
    <3> QED
      BY <1>3, <1>4, <1>15, <1>18, <3>1
  <2>4. Known(p, first)'
    BY <1>x, <1>2, <1>18, <2>1, <2>3 DEF Known, Gone
  <2>5. needed <= first
    <3>1. lck[first] \in 0 .. MaxTra /\ lck[first] <= first
      BY <1>3, <1>4, <1>18 DEF TraInv, NumbersInv
    <3> QED
      BY <1>b, <1>3, <1>4, <1>18, <3>1 DEF Smaller
  <2>6. at'[p] = "settle" => Safe(needed)'
    BY <1>14, <2>1
  <2> QED
    BY <1>x, <1>2, <1>5, <1>9, <1>10, <1>11, <1>13, <1>14, <2>1, <2>4, <2>5, <2>6
       DEF StartInv, StartOf
<1> QED
  BY <1>1, <1>16, <1>17, <1>18

(* Query. *)
LEMMA QueryStart ==
    ASSUME VersionsAssumption, Typed, TraInv, StartInv, NEW p \in Proc, Query(p)
    PROVE  StartInv' /\ SeenStay /\ TipFalls
<1>0. PICK least : least = LCK_query_data
  OBVIOUS
<1>x. PICK x : x = tra[p]
  OBVIOUS
<1>b. PICK n : n = Smaller(x.tra_oldest_active, least)
  OBVIOUS
<1>1. /\ at[p] = "query" /\ tra' = [tra EXCEPT ![p].tra_oldest_active = n]
      /\ at' = [at EXCEPT ![p] = "settle"]
      /\ UNCHANGED <<hdr, tip, lck, dbb>>
  BY <1>0, <1>x, <1>b DEF Query
<1>2. Typed' /\ TraInv' /\ EndsStay /\ Alone(p)
  BY QueryNumbers
<1>3. /\ at \in [Proc -> Doing] /\ tra \in [Proc -> Transaction] /\ hdr.next \in Int
      /\ lck \in [Tra -> 0 .. MaxTra] /\ x.number \in Int /\ x.oldest_snapshot \in Int
      /\ x.oldest_active \in Int /\ x.tra_oldest_active \in Int
  <2>1. tra \in [Proc -> Transaction]
    BY DEF Typed, Transaction
  <2>2. /\ x.number \in Int /\ x.oldest_snapshot \in Int
        /\ x.oldest_active \in Int /\ x.tra_oldest_active \in Int
    BY <1>x, TraFields
  <2> QED
    BY <2>1, <2>2, SharedFields
<1>4. TipFalls
  BY <1>1 DEF TipFalls
<1>5. /\ at'[p] = "settle" /\ tra'[p].number = x.number /\ tra'[p].states = x.states
      /\ tra'[p].oldest = x.oldest /\ tra'[p].oldest_active = x.oldest_active
      /\ tra'[p].tra_oldest_active = n /\ tra'[p].oldest_snapshot = x.oldest_snapshot
  BY <1>x, <1>1, <1>3 DEF Transaction
<1>6. /\ Settling(p) /\ Active(p) /\ InSnapshot(p) /\ StartOf(p) /\ OldestOf(p) /\ NumbersOf(p)
      /\ Remembered(hdr) /\ Remembered(dbb[p]) /\ Safe(hdr.oldest_snapshot)
  BY <1>1 DEF Settling, Active, InSnapshot, StartInv, TraInv, OldestInv, NumbersInv
<1>7. /\ x.number = hdr.next /\ Safe(x.oldest_snapshot) /\ Known(p, x.oldest_active)
      /\ x.oldest_snapshot <= x.number /\ Gone(x.oldest_snapshot)
      /\ x.oldest_active <= x.number /\ x.tra_oldest_active <= x.oldest_active
      /\ Gone(x.tra_oldest_active)
      /\ x.number \in Tra /\ lck[x.number] # 0
      /\ \A q \in Proc : Settling(q) => q = p
  BY <1>x, <1>1, <1>6 DEF StartOf, OldestOf, NumbersOf
<1>8. least \in Int /\ \A t \in Tra : lck[t] # 0 => least <= lck[t]
  <2>1. PICK T : T = {lck[t] : t \in {u \in Tra : lck[u] # 0}}
    OBVIOUS
  <2>2. T \in SUBSET Nat
    <3>1. \A t \in Tra : lck[t] \in Nat
      BY <1>3
    <3> QED
      BY <2>1, <3>1
  <2>3. T # {}
    BY <1>7, <2>1
  <2>4. Min(T) \in T /\ \A y \in T : Min(T) <= y
    BY <2>2, <2>3, MinIs
  <2>5. \A t \in Tra : lck[t] # 0 => lck[t] \in T
    BY <2>1
  <2>6. least = Min(T)
    BY <1>0, <2>1 DEF LCK_query_data
  <2>7. least \in T /\ \A y \in T : least <= y
    BY <2>4, <2>6
  <2>8. least \in Int
    BY <2>2, <2>7
  <2> QED
    BY <2>5, <2>7, <2>8
<1>9. n \in Int /\ n <= x.tra_oldest_active /\ n <= least
  BY <1>b, <1>3, <1>8 DEF Smaller
<1>10. Known(p, n) /\ n <= x.number /\ n <= hdr.next
  BY <1>3, <1>7, <1>9, SafeBelow
<1>11. Safe(n)
  <2>1. ASSUME NEW q \in Proc \ {p}, InSnapshot(q)
        PROVE  n <= lck[tra[q].number]
    <3>1. tra[q].number \in Tra /\ lck[tra[q].number] # 0
      BY <1>6, <2>1, WhoElse
    <3>2. lck[tra[q].number] \in Int
      BY <1>3, <3>1
    <3> QED
      BY <1>8, <1>9, <3>1, <3>2
  <2> QED
    BY <1>x, <1>6, <1>9, <1>10, <2>1, SafeWhileStarting
<1>12. SeenStay
  <2>1. ASSUME NEW t \in Tra, SeenByAll(t)
        PROVE  TRA_snapshot_state(p, t)' = "committed"
    <3>1. TRA_snapshot_state(p, t) = "committed"
      BY <1>6, <2>1 DEF SeenByAll
    <3> QED
      BY <1>x, <1>5, <3>1, SeenOwn
  <2> QED
    BY <1>2, <2>1, SeenStays
<1>13. ASSUME NEW q \in Proc \ {p}
       PROVE  StartOf(q)'
  <2>1. StartOf(q) /\ ~Settling(q)
    BY <1>7 DEF StartInv
  <2> QED
    BY <1>1, <1>2, <1>4, <1>12, <2>1, OthersStart
<1>14. \A m \in Int : m <= hdr.next /\ Gone(m) /\ Safe(m) => Safe(m)'
  BY <1>2, <1>3, <1>4, <1>12, SafeStays
<1>15. Safe(hdr.oldest_snapshot)' /\ Safe(dbb[p].oldest_snapshot)'
  <2>1. PICK m, k : m = dbb[p].oldest_snapshot /\ k = hdr.oldest_snapshot
    OBVIOUS
  <2>2. m \in Int /\ k \in Int /\ m = dbb'[p].oldest_snapshot /\ k = hdr'.oldest_snapshot
    BY <1>1, <2>1, TraFields
  <2>3. Safe(m)' /\ Safe(k)'
    BY <1>6, <1>14, <2>1, <2>2 DEF Remembered, StartOf
  <2> QED
    BY <2>2, <2>3
<1>16. StartOf(p)'
  <2>1. (\A q \in Proc : Settling(q)' => q = p) /\ Safe(x.oldest_snapshot)'
        /\ ~Running(p)' /\ ~Ready(p)' /\ x.number = hdr'.next
    BY <1>1, <1>2, <1>3, <1>5, <1>7, <1>14 DEF Alone, Settling, Running, Ready
  <2>2. Known(p, x.oldest_active)'
    BY <1>x, <1>1, <1>5, <1>7 DEF Known, Gone
  <2>3. Safe(n)'
    BY <1>9, <1>10, <1>11, <1>14 DEF Known
  <2> QED
    BY <1>5, <1>15, <2>1, <2>2, <2>3 DEF StartOf
<1> QED
  BY <1>4, <1>12, <1>13, <1>15, <1>16 DEF StartInv

(* Settle. *)
LEMMA SettleStart ==
    ASSUME VersionsAssumption, Typed, TraInv, StartInv, NEW p \in Proc, Settle(p)
    PROVE  StartInv' /\ SeenStay /\ TipFalls
<1>x. PICK x : x = tra[p]
  OBVIOUS
<1>c. PICK d, m : d = dbb[p].oldest_snapshot /\ m = Larger(d, x.tra_oldest_active)
  OBVIOUS
<1>1. /\ at[p] = "settle"
      /\ lck' = [lck EXCEPT ![x.number] = x.oldest_active]
      /\ dbb' = [dbb EXCEPT ![p] = [oldest |-> Interesting(x) - 1,
                                    oldest_active |-> x.oldest_active,
                                    oldest_snapshot |-> m]]
      /\ tra' = [tra EXCEPT ![p].active = 0, ![p].oldest_active = 0,
                            ![p].oldest_snapshot = 0, ![p].cleanup = FALSE]
      /\ at' = [at EXCEPT ![p] = "ready"]
      /\ UNCHANGED <<hdr, tip>>
  BY <1>x, <1>c DEF Settle
<1>2. Typed' /\ TraInv' /\ EndsStay /\ Alone(p)
  BY SettleNumbers
<1>3. /\ at \in [Proc -> Doing] /\ tra \in [Proc -> Transaction] /\ hdr.next \in Int
      /\ lck \in [Tra -> 0 .. MaxTra] /\ dbb \in [Proc -> Oldest]
      /\ x.number \in Int /\ x.oldest_active \in Int /\ x.tra_oldest_active \in Int
      /\ d \in Int
  <2>1. tra \in [Proc -> Transaction]
    BY DEF Typed, Transaction
  <2>2. x.number \in Int /\ x.oldest_active \in Int /\ x.tra_oldest_active \in Int /\ d \in Int
    BY <1>x, <1>c, TraFields
  <2> QED
    BY <2>1, <2>2, SharedFields
<1>4. TipFalls
  BY <1>1 DEF TipFalls
<1>5. /\ at'[p] = "ready" /\ tra'[p].number = x.number /\ tra'[p].states = x.states
      /\ tra'[p].oldest = x.oldest /\ tra'[p].tra_oldest_active = x.tra_oldest_active
      /\ dbb'[p].oldest_snapshot = m
  BY <1>x, <1>1, <1>3 DEF Transaction
<1>6. /\ Settling(p) /\ Active(p) /\ InSnapshot(p) /\ StartOf(p) /\ OldestOf(p) /\ NumbersOf(p)
      /\ Remembered(hdr) /\ Remembered(dbb[p]) /\ Safe(hdr.oldest_snapshot)
  BY <1>1 DEF Settling, Active, InSnapshot, StartInv, TraInv, OldestInv, NumbersInv
<1>7. /\ x.number = hdr.next /\ Known(p, x.oldest_active) /\ Safe(x.tra_oldest_active) /\ Safe(d)
      /\ x.tra_oldest_active <= x.number /\ Gone(x.tra_oldest_active)
      /\ d <= hdr.next /\ Gone(d) /\ x.number \in Tra
      /\ \A q \in Proc : Settling(q) => q = p
  BY <1>x, <1>c, <1>1, <1>6 DEF StartOf, OldestOf, NumbersOf, Remembered
<1>8. lck'[x.number] = x.oldest_active /\ \A t \in Tra \ {x.number} : lck'[t] = lck[t]
  BY <1>1, <1>3, <1>7
<1>9. SeenStay
  <2>1. ASSUME NEW t \in Tra, SeenByAll(t)
        PROVE  TRA_snapshot_state(p, t)' = "committed"
    <3>1. TRA_snapshot_state(p, t) = "committed"
      BY <1>6, <2>1 DEF SeenByAll
    <3> QED
      BY <1>x, <1>5, <3>1, SeenOwn
  <2> QED
    BY <1>2, <2>1, SeenStays
<1>10. ASSUME NEW q \in Proc \ {p}
       PROVE  StartOf(q)'
  <2>1. StartOf(q) /\ ~Settling(q)
    BY <1>7 DEF StartInv
  <2>2. Active(q) => tra[q].number \in Tra /\ tra[q].number # x.number
    BY <1>x, <1>6 DEF NumbersOf, TraInv, NumbersInv
  <2>3. Active(q) => lck'[tra[q].number] = lck[tra[q].number]
    BY <1>8, <2>2
  <2> QED
    BY <1>1, <1>2, <1>4, <1>9, <2>1, <2>3, OthersStart
<1>11. \A k \in Int : k <= hdr.next /\ Gone(k) /\ Safe(k) => Safe(k)'
  BY <1>2, <1>3, <1>4, <1>9, SafeStays
<1>12. Safe(hdr.oldest_snapshot)'
  <2>1. PICK k : k = hdr.oldest_snapshot
    OBVIOUS
  <2>2. k \in Int /\ k = hdr'.oldest_snapshot
    BY <1>1, <2>1, TraFields
  <2>3. Safe(k)'
    BY <1>6, <1>11, <2>1, <2>2 DEF Remembered
  <2> QED
    BY <2>2, <2>3
<1>13. Safe(x.tra_oldest_active)' /\ Safe(m)'
  <2>1. Safe(x.tra_oldest_active)' /\ Safe(d)'
    BY <1>3, <1>7, <1>11
  <2> QED
    BY <1>c, <2>1 DEF Larger
<1>14. StartOf(p)'
  <2>1. ~Settling(p)' /\ at'[p] \notin {"scan", "query", "settle"}
    BY <1>5 DEF Settling
  <2>2. Known(p, x.oldest_active)'
    <3>1. \A t \in Tra : tip[t] = "committed" => tra'[p].states[t] = tra[p].states[t]
      BY <1>x, <1>5
    <3>2. x.oldest_active <= hdr.next + 1
      <4>1. x.oldest_active <= x.number
        BY <1>x, <1>6 DEF OldestOf
      <4> QED
        BY <1>3, <1>7, <4>1
    <3> QED
      BY <1>2, <1>3, <1>4, <1>7, <3>1, <3>2, KnownStays
  <2>3. Known(p, lck[tra[p].number])'
    BY <1>5, <1>8, <2>2
  <2> QED
    BY <1>5, <1>13, <2>1, <2>3 DEF StartOf
<1> QED
  BY <1>4, <1>9, <1>10, <1>12, <1>14 DEF StartInv

-----------------------------------------------------------------------------
(* What a step of process p is to others and to all numbers. *)

StepOf(p) == EndsStay /\ TipFalls /\ SeenStay /\ Alone(p)

(* The actions that leave numbers, locks and snapshots alone. *)
CalmAction(p) ==
    \/ Read(p) \/ ReadAgain(p) \/ VIO_chase_record_version(p) \/ Regain(p)
    \/ purge(p) \/ expunge(p) \/ garbage_collect(p)
    \/ BackoutRead(p) \/ BackoutWrite(p) \/ BackoutDelete(p)
    \/ VIO_store(p) \/ DPM_chain(p) \/ Update(p) \/ prepare_update(p)
    \/ WaitDenied(p) \/ Discard(p)
    \/ (TRA_rollback(p) /\ at'[p] # "release")

(* What a process with its snapshot does next it does with its snapshot. *)
Onward(p) ==
    /\ at[p] \in Busy
    /\ at' = at \/ \E a \in Busy \cup {"none", "gone"} : at' = [at EXCEPT ![p] = a]
    /\ rpb' = rpb \/ \E v : rpb' = [rpb EXCEPT ![p] = v]
    /\ req' = req \/ \E r : req' = [req EXCEPT ![p] = r]
    /\ UNCHANGED <<hdr, tip, lck, dbb, tra, crashes>>

(* Doing so is doing nothing to others. *)
LEMMA OnwardCalm ==
    ASSUME Typed, Typed', NEW p \in Proc, Onward(p)
    PROVE  /\ Alone(p) /\ UNCHANGED <<hdr, tip, lck, dbb, tra, crashes>>
           /\ at[p] \in Busy /\ at'[p] \in Busy
<1>1. /\ at \in [Proc -> Doing] /\ DOMAIN rpb = Proc /\ DOMAIN req = Proc /\ at'[p] \in Doing
  BY DEF Typed
<1>2. at'[p] = at[p] \/ at'[p] \in Busy \cup {"none", "gone"}
  BY <1>1 DEF Onward
<1>3. at[p] \in Busy /\ at'[p] \in Busy
  BY <1>1, <1>2 DEF Onward, Doing
<1>4. \A q \in Proc \ {p} : at'[q] = at[q] /\ rpb'[q] = rpb[q] /\ req'[q] = req[q]
  BY <1>1 DEF Onward
<1> QED
  BY <1>3, <1>4 DEF Onward, Alone

(* Every such action is one. *)
LEMMA CalmOnward ==
    ASSUME VersionsAssumption, IInv, NEW p \in Proc, CalmAction(p)
    PROVE  Onward(p)
<1>1. /\ req[p].ret \in {"get", "none", "gone", "write", "undone"}
      /\ {"ready", "get", "look", "regain", "purge", "expunge", "collect", "backout",
          "backout_write", "backout_delete", "write", "wait", "discard", "undone",
          "bugcheck"} \subseteq Busy
  BY OwnFields DEF IInv, Request, Busy, Doing
<1>2. CASE Read(p)
  BY <1>1, <1>2 DEF Read, DPM_get, Onward
<1>3. CASE ReadAgain(p)
  BY <1>1, <1>3 DEF ReadAgain, DPM_get, Onward
<1>4. CASE VIO_chase_record_version(p)
  BY <1>1, <1>4 DEF VIO_chase_record_version, DPM_fetch_back, Answers, Onward
<1>5. CASE Regain(p)
  BY <1>1, <1>5 DEF Regain, DPM_fetch_back, Answers, Onward
<1>6. CASE purge(p)
  BY <1>1, <1>6 DEF purge, Onward
<1>7. CASE expunge(p)
  BY <1>1, <1>7 DEF expunge, Answers, Onward
<1>8. CASE garbage_collect(p)
  BY <1>1, <1>8 DEF garbage_collect, Answers, Onward
<1>9. CASE BackoutRead(p)
  BY <1>1, <1>9 DEF BackoutRead, Onward
<1>10. CASE BackoutWrite(p)
  BY <1>1, <1>10 DEF BackoutWrite, Onward
<1>11. CASE BackoutDelete(p)
  BY <1>1, <1>11 DEF BackoutDelete, Onward
<1>12. CASE VIO_store(p)
  BY <1>1, <1>12 DEF VIO_store, Onward
<1>13. CASE DPM_chain(p)
  BY <1>1, <1>13 DEF DPM_chain, CanUpdate, Replaced, Onward
<1>14. CASE Update(p)
  <2>1. /\ at[p] = "ready" /\ at' = [at EXCEPT ![p] = "write"]
        /\ UNCHANGED <<hdr, tip, lck, dbb, tra, crashes>>
    BY <1>14 DEF Update, CanUpdate
  <2>2. /\ \E v : rpb' = [rpb EXCEPT ![p] = v]
        /\ \E r : req' = [req EXCEPT ![p] = r]
    BY <1>14, UpdateParts
  <2> QED
    BY <1>1, <2>1, <2>2 DEF Onward
<1>15. CASE prepare_update(p)
  BY <1>1, <1>15, PrepareCases DEF prepare_update, Replaced, Onward
<1>16. CASE WaitDenied(p)
  BY <1>1, <1>16 DEF WaitDenied, Onward
<1>17. CASE Discard(p)
  BY <1>1, <1>17 DEF Discard, Onward
<1>18. CASE TRA_rollback(p) /\ at'[p] # "release"
  <2>1. at \in [Proc -> Doing]
    BY DEF IInv, Typed
  <2> QED
    BY <1>1, <1>18, <2>1 DEF TRA_rollback, TRA_set_state, Onward
<1> QED
  BY <1>2, <1>3, <1>4, <1>5, <1>6, <1>7, <1>8, <1>9, <1>10, <1>11, <1>12, <1>13, <1>14,
     <1>15, <1>16, <1>17, <1>18 DEF CalmAction

(* An action that leaves numbers, locks and snapshots alone. *)
LEMMA CalmStart ==
    ASSUME VersionsAssumption, IInv, IInv', StartInv, NEW p \in Proc, CalmAction(p)
    PROVE  StartInv' /\ StepOf(p)
<1>1. Typed /\ TraInv /\ Typed'
  BY DEF IInv, TraInv
<1>2. Alone(p) /\ UNCHANGED <<hdr, tip, lck, dbb, tra, crashes>>
      /\ at[p] \in Busy /\ at'[p] \in Busy
  BY <1>1, CalmOnward, OnwardCalm
<1>3. EndsStay
  BY <1>1, <1>2, CalmNumbers
<1>4. TipFalls
  BY <1>2 DEF TipFalls
<1>5. Active(p) /\ Running(p)
  BY <1>2 DEF Active, Running, Ready, Busy
<1>6. StartInv' /\ SeenStay
  BY <1>1, <1>2, <1>3, <1>4, <1>5, RunStart
<1> QED
  BY <1>2, <1>3, <1>4, <1>6 DEF StepOf

(* TRA_wait finds a transaction dead at most. *)
LEMMA WaitStart ==
    ASSUME VersionsAssumption, IInv, IInv', StartInv, NEW p \in Proc, TRA_wait(p)
    PROVE  /\ StartInv' /\ StepOf(p)
           /\ \A t \in Tra : tip'[t] # tip[t] => lck[t] = 0 /\ tip'[t] = "dead"
           /\ \A t \in Tra : tra'[p].states[t] # tra[p].states[t] => tip'[t] = "dead"
<1>1. Typed /\ TraInv /\ Typed' /\ FreshInv /\ ActOf(p) /\ at[p] = "wait"
  BY DEF IInv, TraInv, ActInv, TRA_wait
<1>2. rpb[p].v.tra \in Tra /\ rpb[p].v.tra <= hdr.next
  <2>1. rpb[p].v.tra \in Tra
    BY <1>1, OwnFields DEF ActOf, Tra
  <2>2. ~Fresh(rpb[p].v.tra)
    BY DEF Fresh
  <2>3. rpb[p].v.tra \in Int /\ hdr.next \in Int
    BY <1>1, <2>1, SharedFields DEF Tra
  <2> QED
    BY <1>1, <2>1, <2>2, <2>3 DEF FreshInv
<1>3. /\ EndsStay /\ Alone(p)
      /\ \A t \in Tra : tip'[t] # tip[t] => lck[t] = 0 /\ tip'[t] = "dead"
      /\ \A t \in Tra : tra'[p].states[t] # tra[p].states[t] => tip'[t] = "dead"
  BY <1>1, <1>2, WaitNumbers
<1>4. /\ hdr' = hdr /\ lck' = lck /\ dbb' = dbb /\ at'[p] \in {"write", "discard", "backout"}
      /\ tra' = tra \/ \E s : tra' = [tra EXCEPT ![p].states = s]
  <2>1. at \in [Proc -> Doing]
    BY <1>1, SharedFields
  <2> QED
    BY <2>1 DEF TRA_wait
<1>5. /\ tra'[p].number = tra[p].number /\ tra'[p].oldest = tra[p].oldest
      /\ tra'[p].tra_oldest_active = tra[p].tra_oldest_active
  <2>1. tra \in [Proc -> Transaction]
    BY <1>1 DEF Typed, Transaction
  <2> QED
    BY <1>4, <2>1 DEF Transaction
<1>6. TipFalls
  <2>1. \A t \in Tra : tip'[t] # tip[t] => tip[t] = "active"
    BY <1>3 DEF EndsStay
  <2> QED
    BY <1>3, <2>1 DEF TipFalls
<1>7. \A t \in Tra : tip[t] = "committed" => tra'[p].states[t] = tra[p].states[t]
  BY <1>3 DEF EndsStay
<1>8. Active(p) /\ Running(p) /\ at'[p] \in Busy
  BY <1>1, <1>4 DEF Active, Running, Ready, Busy, Doing
<1>9. StartInv' /\ SeenStay
  BY <1>1, <1>3, <1>4, <1>5, <1>6, <1>7, <1>8, RunStart
<1> QED
  BY <1>3, <1>6, <1>9 DEF StepOf

(* A transaction ends in the inventory. *)
EndAction(p) ==
    /\ at[p] \in Busy /\ \E state \in {"committed", "dead"} : TRA_set_state(p, state)
    /\ UNCHANGED <<hdr, lck, dbb, tra, ver, log, crashes>>

(* It started before it ended. *)
LEMMA EndStart ==
    ASSUME VersionsAssumption, IInv, IInv', StartInv, NEW p \in Proc, EndAction(p)
    PROVE  StartInv' /\ StepOf(p)
<1>1. Typed /\ TraInv /\ Typed' /\ at[p] \in Busy
  BY DEF IInv, TraInv, EndAction
<1>2. PICK state \in {"committed", "dead"} : TRA_set_state(p, state)
  BY DEF EndAction
<1>3. UNCHANGED <<hdr, lck, dbb, tra, ver, log, crashes>>
  BY DEF EndAction
<1>4. /\ EndsStay /\ Alone(p) /\ tip' = [tip EXCEPT ![tra[p].number] = state]
      /\ tra[p].number \in Tra /\ tip[tra[p].number] = "active"
  BY <1>1, <1>2, <1>3, EndNumbers
<1>5. NumbersOf(p) /\ Active(p) /\ Running(p) /\ Ready(p)
  BY <1>1 DEF TraInv, NumbersInv, Active, Running, Ready, Busy
<1>6. TipFalls
  <2>1. lck[tra[p].number] # 0
    BY <1>5 DEF NumbersOf
  <2>2. \A t \in Tra \ {tra[p].number} : tip'[t] = tip[t]
    BY <1>1, <1>4, SharedFields
  <2> QED
    BY <1>4, <2>1, <2>2 DEF TipFalls
<1>7. at'[p] = "release"
  <2>1. at \in [Proc -> Doing]
    BY <1>1, SharedFields
  <2> QED
    BY <1>2, <2>1 DEF TRA_set_state
<1>8. StartInv' /\ SeenStay
  BY <1>1, <1>3, <1>4, <1>5, <1>6, <1>7, RunStart
<1> QED
  BY <1>4, <1>6, <1>8 DEF StepOf

(* A process has no transaction any more. *)
LEMMA EndedStart ==
    ASSUME VersionsAssumption, IInv, IInv', StartInv, NEW p \in Proc,
           TRA_release_transaction(p) \/ Crash(p)
    PROVE  StartInv' /\ StepOf(p)
<1>1. Typed /\ TraInv /\ Typed' /\ crashes \in Nat /\ crashes' \in Nat
  BY DEF IInv, TraInv, Typed
<1>2. /\ at[p] # "idle" /\ Ended(p) /\ UNCHANGED <<hdr, tip, ver, log>>
      /\ dbb' = dbb \/ dbb' = [dbb EXCEPT ![p] = NoDbb]
  BY DEF TRA_release_transaction, Crash
<1>3. EndsStay /\ Alone(p)
  BY <1>1, <1>2, EndedNumbers
<1>4. TipFalls
  BY <1>2 DEF TipFalls
<1>5. Active(p) /\ at'[p] = "idle" /\ dbb'[p] \in {dbb[p], NoDbb}
  <2>1. at \in [Proc -> Doing] /\ dbb \in [Proc -> Oldest]
    BY <1>1, SharedFields
  <2> QED
    BY <1>2, <2>1 DEF Ended, Active
<1>6. \A q \in Proc : at'[q] # "idle" /\ Active(q) => lck'[tra[q].number] = lck[tra[q].number]
  <2> TAKE q \in Proc
  <2> HAVE at'[q] # "idle" /\ Active(q)
  <2>1. q # p
    BY <1>5
  <2>2. tra[q].number \in Tra /\ tra[q].number # tra[p].number
    BY <1>1, <1>5, <2>1 DEF TraInv, NumbersInv, NumbersOf
  <2>3. lck' = [lck EXCEPT ![tra[p].number] = 0] /\ lck \in [Tra -> 0 .. MaxTra]
    BY <1>1, <1>2, SharedFields DEF Ended
  <2> QED
    BY <2>2, <2>3
<1>7. StartInv' /\ SeenStay
  BY <1>1, <1>2, <1>3, <1>4, <1>5, <1>6, RunStart
<1> QED
  BY <1>3, <1>4, <1>7 DEF StepOf

(* The actions of TRA_start. *)
StartAction(p) ==
    TRA_start(p) \/ TRA_get_inventory(p) \/ Scan(p) \/ Query(p) \/ Settle(p)

(* A start finds what is old enough, since no other transaction starts
   meanwhile. *)
LEMMA StartingStart ==
    ASSUME VersionsAssumption, StartsApart, IInv, StartInv, NEW p \in Proc, StartAction(p)
    PROVE  StartInv' /\ StepOf(p)
<1>1. Typed /\ TraInv
  BY DEF IInv, TraInv
<1>2. EndsStay /\ Alone(p)
  BY <1>1, StartNumbers, InventoryNumbers, ScanNumbers, QueryNumbers, SettleNumbers
     DEF StartAction
<1>3. StartInv' /\ SeenStay /\ TipFalls
  BY <1>1, StartBegins, InventoryStart, ScanStart, QueryStart, SettleStart DEF StartAction
<1> QED
  BY <1>2, <1>3 DEF StepOf

(* Every step is of one of these kinds. *)
LEMMA StepKinds ==
    ASSUME VersionsAssumption, IInv, Next
    PROVE  \E p \in Proc :
             \/ StartAction(p) \/ CalmAction(p) \/ TRA_wait(p) \/ EndAction(p)
             \/ TRA_release_transaction(p) \/ Crash(p)
<1> SUFFICES ASSUME NEW p \in Proc,
                    \/ TRA_commit(p) \/ TRA_rollback(p) \/ Undone(p)
             PROVE  CalmAction(p) \/ EndAction(p)
  BY DEF Next, StartAction, CalmAction
<1>1. at \in [Proc -> Doing]
  BY DEF IInv, Typed
<1>2. "ready" \in Busy /\ "undone" \in Busy /\ "release" \in Doing
  BY DEF Busy, Doing
<1> QED
  BY <1>1, <1>2 DEF TRA_commit, TRA_rollback, Undone, CalmAction, EndAction, TRA_set_state

(* Every step keeps what holds of starting transactions. *)
LEMMA StartKeeps ==
    ASSUME VersionsAssumption, StartsApart, IInv, IInv', StartInv, [Next]_vars
    PROVE  StartInv'
<1>1. CASE UNCHANGED vars
  <2>1. /\ hdr' = hdr /\ tip' = tip /\ lck' = lck /\ dbb' = dbb /\ tra' = tra /\ at' = at
    BY <1>1 DEF vars
  <2>2. \A p \in Proc, t \in Tra : TRA_snapshot_state(p, t)' = TRA_snapshot_state(p, t)
    BY <2>1 DEF TRA_snapshot_state
  <2>3. \A n : (Safe(n)' <=> Safe(n)) /\ (Gone(n)' <=> Gone(n))
    BY <2>1, <2>2 DEF Safe, Gone, SeenByAll, InSnapshot
  <2>4. \A p \in Proc : /\ Settling(p)' <=> Settling(p)
                        /\ Running(p)' <=> Running(p)
                        /\ Ready(p)' <=> Ready(p)
    BY <2>1 DEF Settling, Running, Ready
  <2>5. \A p \in Proc : \A n : Known(p, n)' <=> Known(p, n)
    BY <2>1, <2>3 DEF Known
  <2>6. ASSUME NEW p \in Proc
        PROVE  StartOf(p)'
    <3>1. PICK x, d, l : x = tra[p] /\ d = dbb[p].oldest_snapshot /\ l = lck[tra[p].number]
      OBVIOUS
    <3>2. x = tra'[p] /\ d = dbb'[p].oldest_snapshot /\ l = lck'[tra'[p].number]
      BY <2>1, <3>1
    <3>3. StartOf(p)
      BY DEF StartInv
    <3>4. Safe(d)' /\ (Running(p) => Known(p, l)')
      BY <2>3, <2>5, <3>1, <3>3 DEF StartOf
    <3> QED
      BY <2>1, <2>3, <2>4, <2>5, <3>1, <3>2, <3>3, <3>4 DEF StartOf
  <2>7. Safe(hdr.oldest_snapshot)'
    <3>1. PICK n : n = hdr.oldest_snapshot
      OBVIOUS
    <3>2. Safe(n)' /\ n = hdr'.oldest_snapshot
      BY <2>1, <2>3, <3>1 DEF StartInv
    <3> QED
      BY <3>2
  <2> QED
    BY <2>6, <2>7 DEF StartInv
<1>2. CASE Next
  BY <1>2, StepKinds, StartingStart, CalmStart, WaitStart, EndStart, EndedStart
<1> QED
  BY <1>1, <1>2

(* At the beginning nobody runs. *)
LEMMA InitStart ==
    ASSUME Init
    PROVE  StartInv
<1>1. \A p \in Proc : /\ at[p] = "idle" /\ dbb[p].oldest_snapshot = 0
                      /\ ~Settling(p) /\ ~Running(p) /\ ~Ready(p) /\ ~InSnapshot(p)
  BY DEF Init, NoDbb, Settling, Running, Ready, InSnapshot
<1>2. \A n : Safe(n)
  BY <1>1 DEF Safe, SeenByAll
<1> QED
  BY <1>1, <1>2 DEF StartInv, StartOf

(* If transactions start one at a time, what TRA_start takes for the oldest
   snapshot that is needed is: a version that purge or expunge may collect is
   one that every snapshot, also of the transaction about to start, has as
   committed. *)
THEOREM StartsAreSafe ==
    StartsApart => (Spec => []StartInv)
<1> SUFFICES ASSUME StartsApart
             PROVE  Spec => []StartInv
  OBVIOUS
<1>1. Init => IInv /\ StartInv
  BY VersionsAssumption, InitInvariant, InitStart
<1>2. IInv /\ StartInv /\ [Next]_vars => (IInv /\ StartInv)'
  BY VersionsAssumption, NextKeeps, StartKeeps
<1> QED
  BY <1>1, <1>2, PTL DEF Spec

-----------------------------------------------------------------------------
(* The history. *)

Updates == [tra : Tra, read : -1 .. MaxTra, deleted : BOOLEAN]

(* The history is a sequence of updates. *)
LEMMA LogIs ==
    ASSUME Typed
    PROVE  /\ log \in Seq(Updates) /\ Len(log) \in Nat /\ DOMAIN log = 1 .. Len(log)
           /\ \A i \in DOMAIN log : /\ i \in Int /\ log[i].tra \in Tra /\ log[i].tra # 0
                                    /\ log[i].deleted \in BOOLEAN
<1>1. log \in Seq(Updates)
  BY DEF Typed, Updates
<1>2. Len(log) \in Nat /\ DOMAIN log = 1 .. Len(log) /\ \A i \in DOMAIN log : log[i] \in Updates
  BY <1>1
<1>3. \A i \in DOMAIN log : i \in Int
  BY <1>2
<1>4. \A u \in Updates : u.tra \in Tra /\ u.tra # 0 /\ u.deleted \in BOOLEAN
  BY DEF Updates, Tra
<1> QED
  BY <1>1, <1>2, <1>3, <1>4

(* Of some updates one is the last. *)
LEMMA LargestIs ==
    ASSUME Typed, NEW T \in SUBSET DOMAIN log, T # {}
    PROVE  Max(T) \in T /\ \A k \in T : k <= Max(T)
<1>1. Len(log) \in Nat /\ T \subseteq 0 .. Len(log)
  BY LogIs
<1>2. Max(T) \in T /\ \A k \in T : Max(T) >= k
  BY <1>1, MaxIs
<1> QED
  BY <1>1, <1>2

(* What the last of some updates shows. *)
LEMMA ShownIs ==
    ASSUME Typed, NEW T \in SUBSET DOMAIN log, NEW m \in T, \A k \in T : k <= m
    PROVE  Shown(T) = IF log[m].deleted THEN 0 ELSE log[m].tra
<1>1. Max(T) \in T /\ \A k \in T : k <= Max(T)
  BY LargestIs
<1>2. Max(T) \in Int /\ m \in Int /\ Max(T) <= m /\ m <= Max(T)
  BY <1>1, LogIs
<1>3. Max(T) = m /\ T # {}
  BY <1>2
<1> QED
  BY <1>3 DEF Shown

(* What a set of updates shows if the history is h. *)
ShownIn(h, T) == IF T = {} \/ h[Max(T)].deleted THEN 0 ELSE h[Max(T)].tra

(* Before and after a step. *)
LEMMA ShownPrimed ==
    /\ \A T : Shown(T) = ShownIn(log, T) /\ Shown(T)' = ShownIn(log', T)
    /\ \A p \in Proc : /\ Expected(p) = ShownIn(log, Visible(p))
                       /\ Expected(p)' = ShownIn(log', Visible(p)')
    /\ \A i : /\ Shown(KeptBefore(i)) = ShownIn(log, KeptBefore(i))
              /\ Shown(KeptBefore(i))' = ShownIn(log', KeptBefore(i)')
<1>1. \A T : Shown(T) = ShownIn(log, T) /\ Shown(T)' = ShownIn(log', T)
  BY DEF Shown, ShownIn
<1>2. \A p \in Proc : /\ Expected(p) = ShownIn(log, Visible(p))
                      /\ Expected(p)' = ShownIn(log', Visible(p)')
  BY DEF Expected, Shown, ShownIn
<1>3. \A i : /\ Shown(KeptBefore(i)) = ShownIn(log, KeptBefore(i))
             /\ Shown(KeptBefore(i))' = ShownIn(log', KeptBefore(i)')
  BY DEF Shown, ShownIn
<1> QED
  BY <1>1, <1>2, <1>3

(* Updates that stay show the same. *)
LEMMA ShownSame ==
    ASSUME Typed, NEW T \in SUBSET DOMAIN log, NEW h, \A k \in T : h[k] = log[k]
    PROVE  ShownIn(h, T) = ShownIn(log, T)
<1>1. CASE T = {}
  BY <1>1 DEF ShownIn
<1>2. CASE T # {}
  <2>1. Max(T) \in T
    BY <1>2, LargestIs
  <2> QED
    BY <2>1 DEF ShownIn
<1> QED
  BY <1>1, <1>2

(* A snapshot shows updates that are kept. *)
LEMMA VisibleKept ==
    ASSUME Typed, TraInv, NEW p \in Proc, InSnapshot(p)
    PROVE  /\ Visible(p) \subseteq Kept /\ Kept \subseteq DOMAIN log
           /\ \A i \in Visible(p) : TRA_snapshot_state(p, log[i].tra) \in {"us", "committed"}
<1>1. NumbersOf(p) /\ Active(p) /\ at[p] # "release"
  BY DEF TraInv, NumbersInv, InSnapshot, Active
<1>2. tip[tra[p].number] = "active"
  BY <1>1 DEF NumbersOf
<1>3. ASSUME NEW i \in Visible(p)
      PROVE  i \in Kept
  <2>1. i \in DOMAIN log /\ log[i].tra \in Tra
        /\ TRA_snapshot_state(p, log[i].tra) \in {"us", "committed"}
    BY <1>3, LogIs DEF Visible
  <2>2. tip[log[i].tra] \in {"active", "committed"}
    BY <1>2, <2>1, SnapshotTrue
  <2> QED
    BY <2>1, <2>2 DEF Kept
<1> QED
  BY <1>3 DEF Visible, Kept

(* If nothing that anybody could look for is before update i, a snapshot that
   shows none from i on shows none at all. *)
LEMMA NothingSeen ==
    ASSUME Typed, TraInv, NEW p \in Proc, InSnapshot(p), NEW i,
           NothingBefore(i), Visible(p) \subseteq KeptBefore(i)
    PROVE  Expected(p) = 0
<1>1. KeptBefore(i) \subseteq Kept /\ Kept \subseteq DOMAIN log /\ Visible(p) \subseteq DOMAIN log
  BY DEF KeptBefore, Kept, Visible
<1>2. CASE Visible(p) = {}
  BY <1>2 DEF Expected, Shown
<1>3. CASE Visible(p) # {}
  <2>1. KeptBefore(i) # {} /\ KeptBefore(i) \subseteq DOMAIN log
    BY <1>1, <1>3
  <2>2. PICK k \in KeptBefore(i) : \A j \in KeptBefore(i) : j <= k
    BY <2>1, LargestIs
  <2>3. k \in DOMAIN log /\ log[k].deleted /\ SeenByAll(log[k].tra)
    BY <2>1, <2>2 DEF NothingBefore, LastBefore
  <2>4. k \in Visible(p)
    BY <2>3 DEF SeenByAll, Visible
  <2>5. \A j \in Visible(p) : j <= k
    BY <2>2
  <2>6. Shown(Visible(p)) = IF log[k].deleted THEN 0 ELSE log[k].tra
    BY <1>1, <2>4, <2>5, ShownIs
  <2> QED
    BY <2>3, <2>6 DEF Expected
<1> QED
  BY <1>2, <1>3

(* Where there is no record, there is none for any snapshot. *)
LEMMA FreeShows ==
    ASSUME Typed, TraInv, HistoryInv, NEW p \in Proc, InSnapshot(p), Free(Primary)
    PROVE  Expected(p) = 0
<1>1. NothingBefore(Len(log) + 1)
  BY DEF HistoryInv
<1>2. Visible(p) \subseteq KeptBefore(Len(log) + 1)
  <2>1. Visible(p) \subseteq Kept /\ Kept \subseteq DOMAIN log
    BY VisibleKept
  <2>2. \A k \in DOMAIN log : k < Len(log) + 1
    BY LogIs
  <2> QED
    BY <2>1, <2>2 DEF KeptBefore
<1> QED
  BY <1>1, <1>2, NothingSeen

(* Process p sees none of the updates kept after update i. *)
LastIndex(p, i) == \A k \in DOMAIN log : i < k => k \notin Visible(p)

(* Nor does it after all it does not see before. *)
LEMMA SeesNone ==
    ASSUME Typed, TraInv, NEW p \in Proc, InSnapshot(p), NEW i \in DOMAIN log,
           LastIndex(p, i), TRA_snapshot_state(p, log[i].tra) \notin {"us", "committed"}
    PROVE  /\ Visible(p) \subseteq KeptBefore(i)
           /\ \A j : LastBefore(i, j) => LastIndex(p, j)
<1>1. Visible(p) \subseteq KeptBefore(i)
  <2> SUFFICES ASSUME NEW k \in Visible(p)
               PROVE  k \in KeptBefore(i)
    OBVIOUS
  <2>1. k \in Kept /\ k \in DOMAIN log /\ k # i
    BY VisibleKept DEF Visible
  <2>2. k \in Int /\ i \in Int
    BY <2>1, LogIs
  <2>3. ~(i < k)
    BY <2>1 DEF LastIndex
  <2> QED
    BY <2>1, <2>2, <2>3 DEF KeptBefore
<1>2. ASSUME NEW j, LastBefore(i, j), NEW k \in DOMAIN log, j < k
      PROVE  k \notin Visible(p)
  <2>1. j \in DOMAIN log /\ \A m \in KeptBefore(i) : m <= j
    BY <1>2 DEF LastBefore, KeptBefore, Kept
  <2>2. j \in Int /\ k \in Int
    BY <2>1, LogIs
  <2>3. k \notin KeptBefore(i)
    BY <1>2, <2>1, <2>2
  <2> QED
    BY <1>1, <2>3
<1> QED
  BY <1>1, <1>2 DEF LastIndex

(* The snapshot shows the last update it has. *)
LEMMA SeesLast ==
    ASSUME Typed, TraInv, NEW p \in Proc, InSnapshot(p), NEW i \in DOMAIN log,
           LastIndex(p, i), TRA_snapshot_state(p, log[i].tra) \in {"us", "committed"}
    PROVE  Expected(p) = IF log[i].deleted THEN 0 ELSE log[i].tra
<1>1. i \in Visible(p) /\ Visible(p) \subseteq DOMAIN log
  BY DEF Visible
<1>2. \A k \in Visible(p) : k <= i
  BY <1>1, LogIs DEF LastIndex
<1> QED
  BY <1>1, <1>2, ShownIs DEF Expected

-----------------------------------------------------------------------------
(* What a reader finds. *)

(* Whose snapshot and what history stays, sees the same. *)
LEMMA StillSees ==
    ASSUME log' = log, NEW p \in Proc, tra'[p] = tra[p]
    PROVE  /\ Visible(p)' = Visible(p) /\ Expected(p)' = Expected(p)
           /\ \A t : /\ LastSeen(p, t)' <=> LastSeen(p, t)
                     /\ TRA_snapshot_state(p, t)' = TRA_snapshot_state(p, t)
<1>1. \A t : TRA_snapshot_state(p, t)' = TRA_snapshot_state(p, t)
  BY DEF TRA_snapshot_state
<1>2. Visible(p)' = Visible(p)
  BY <1>1 DEF Visible
<1>3. Expected(p)' = Expected(p)
  BY <1>2, ShownPrimed
<1>4. \A t : LastSeen(p, t)' <=> LastSeen(p, t)
  BY <1>2 DEF LastSeen
<1> QED
  BY <1>1, <1>2, <1>3, <1>4

(* The places of the record, and what is behind them. *)
LEMMA RecordPlaces ==
    ASSUME VersionsAssumption, IInv, NEW u \in Chain(Primary) \cup {Primary}
    PROVE  /\ u \in Place /\ ver[u] \in Version /\ Chain(Primary) \subseteq Slot
           /\ Primary \notin Slot /\ None \notin Slot
           /\ ver[u].back # None => ver[u].back \in Chain(Primary)
           /\ u # Primary \/ ~Free(Primary) => ver[u].tra # 0 /\ ver[u].tra \in Tra
           /\ u \in Chain(Primary) => /\ ~Free(Primary) /\ ~Free(u) /\ ~ver[u].deleted
                                      /\ tip[ver[u].tra] = "committed"
<1>1. ver \in Versions /\ ver \in [Place -> Version] /\ ChainInv
  BY DEF IInv, Typed, Versions
<1>2. /\ Primary \in Place /\ Primary \notin Slot /\ None \notin Slot
      /\ Chain(Primary) \subseteq Slot /\ u \in Place /\ ver[u] \in Version
  BY <1>1, RecordIs, RecordChain, ChainSlots DEF Place, VersionsAssumption
<1>3. ver[u].back # None => ver[u].back \in Chain(Primary)
  BY <1>1, <1>2, RecordIs, ChainNext
<1>4. u \in Chain(Primary) => /\ ~Free(u) /\ ~ver[u].deleted
                              /\ tip[ver[u].tra] = "committed"
  BY <1>1, <1>2 DEF ChainInv
<1>5. Chain(Primary) # {} => ~Free(Primary)
  <2> SUFFICES ASSUME Free(Primary)
               PROVE  Chain(Primary) = {}
    OBVIOUS
  <2>1. ver[Primary].back = None
    BY <1>1, <1>2 DEF ChainInv, NoVersion
  <2> QED
    BY <1>1, <2>1, RecordIs, RecordChain
<1>6. u # Primary \/ ~Free(Primary) => ver[u].tra # 0 /\ ver[u].tra \in Tra
  BY <1>2, <1>4 DEF Free, Version, Tra
<1> QED
  BY <1>2, <1>3, <1>4, <1>5, <1>6

(* The primary version is the last update that is kept. *)
LEMMA PrimaryIndex ==
    ASSUME Typed, TraInv, HistoryInv, ~Free(Primary)
    PROVE  \E i \in DOMAIN log :
             /\ Stored(Primary, i) /\ log[i].tra = ver[Primary].tra
             /\ log[i].deleted = ver[Primary].deleted /\ \A k \in Kept : k <= i
             /\ \A p \in Proc : InSnapshot(p) => LastIndex(p, i)
<1>1. PICK i \in DOMAIN log : Stored(Primary, i) /\ \A k \in Kept : k <= i
  BY DEF HistoryInv
<1>2. ASSUME NEW p \in Proc, InSnapshot(p)
      PROVE  LastIndex(p, i)
  <2>1. Visible(p) \subseteq Kept
    BY <1>2, VisibleKept
  <2>2. \A k \in DOMAIN log : i < k => k \notin Kept
    BY <1>1, LogIs
  <2> QED
    BY <2>1, <2>2 DEF LastIndex
<1> QED
  BY <1>1, <1>2 DEF Stored, Is

(* An update has one place in the history. *)
LEMMA LastSeenIndex ==
    ASSUME HistoryInv, NEW p \in Proc, NEW i \in DOMAIN log
    PROVE  LastSeen(p, log[i].tra) <=> LastIndex(p, i)
<1>1. \A j \in DOMAIN log : log[j].tra = log[i].tra => j = i
  BY DEF HistoryInv
<1> QED
  BY <1>1 DEF LastSeen, LastIndex

(* A reader at the end of the chain. *)
LEMMA EndOfWalk ==
    ASSUME Typed, TraInv, HistoryInv, NEW p \in Proc, InSnapshot(p),
           NEW u, NEW i \in DOMAIN log, Stored(u, i), LastIndex(p, i),
           TRA_snapshot_state(p, ver[u].tra) = "active", ver[u].back = None
    PROVE  Expected(p) = 0
<1>1. log[i].tra = ver[u].tra
  BY DEF Stored, Is
<1>2. NothingBefore(i)
  BY DEF Stored, SeenByAll
<1>3. Visible(p) \subseteq KeptBefore(i)
  BY <1>1, SeesNone
<1> QED
  BY <1>2, <1>3, NothingSeen

(* A reader goes on to the version behind. *)
LEMMA FetchBackWalk ==
    ASSUME VersionsAssumption, IInv, HistoryInv, NEW p \in Proc, at[p] \in {"look", "regain"},
           NEW u \in Chain(Primary) \cup {Primary}, NEW i \in DOMAIN log,
           Stored(u, i), LastIndex(p, i), TRA_snapshot_state(p, ver[u].tra) = "active",
           NEW s, s = ver[u].back, s # None, DPM_fetch_back(p, s),
           UNCHANGED <<hdr, tip, lck, dbb, tra, ver, log, crashes>>
    PROVE  at'[p] = "look" /\ WalkOf(p)' /\ AnswerOf(p)'
<1>1. Typed /\ TraInv /\ ChainInv /\ RequestOf(p) /\ HandInv
  BY DEF IInv, TraInv, RequestInv
<1>2. s \in Chain(Primary) /\ s \in Slot /\ s # Primary
  BY RecordPlaces
<1>3. ~Free(s) /\ ~ver[s].deleted /\ tip[ver[s].tra] = "committed"
  BY <1>2, RecordPlaces
<1>4. InSnapshot(p) /\ at \in [Proc -> Doing]
      /\ rpb \in [Proc -> [v : Version, slot : Place \cup {None}]]
  BY <1>1 DEF InSnapshot, Typed
<1>5. PICK j \in DOMAIN log : LastBefore(i, j) /\ Is(s, j)
  BY DEF Stored
<1>6. LastIndex(p, j)
  <2>1. log[i].tra = ver[u].tra
    BY DEF Stored, Is
  <2> QED
    BY <1>1, <1>4, <1>5, <2>1, SeesNone
<1>7. PICK b : b = [v |-> ver[s], slot |-> s]
  OBVIOUS
<1>8. at'[p] = "look" /\ rpb'[p] = b /\ req' = req /\ b.v = ver[s] /\ b.slot = s
  BY <1>3, <1>4, <1>7 DEF DPM_fetch_back
<1>9. req[p].temp = None
  BY <1>1 DEF RequestOf
<1>10. AnswerOf(p)'
  BY <1>8, <1>9 DEF AnswerOf
<1>11. WalkOf(p)'
  <2>1. LastSeen(p, ver[s].tra)
    BY <1>5, <1>6, LastSeenIndex DEF Is
  <2>2. PICK t : t = ver[s].tra
    OBVIOUS
  <2>3. rpb'[p].v.tra = t /\ LastSeen(p, t)'
    BY <1>8, <2>1, <2>2, StillSees
  <2>4. tip'[t] = "committed" /\ \E k \in DOMAIN log' : log'[k].tra = t /\ ~log'[k].deleted
    BY <1>3, <1>5, <2>2 DEF Is
  <2>5. \A q \in Proc : req[q].temp # s
    <3> SUFFICES ASSUME NEW q \in Proc, req[q].temp = s
                 PROVE  FALSE
      OBVIOUS
    <3>1. s # None
      BY <1>2, RecordPlaces
    <3>2. s \in Held(q) /\ Held(q) \cap Chain(Primary) = {}
      BY <1>1, <3>1 DEF Held, HandInv, HandOf
    <3> QED
      BY <1>2, <3>2
  <2>6. ~Free(rpb[p].slot)' /\ rpb'[p].v = ver'[rpb'[p].slot]
        /\ \A q \in Proc : req'[q].temp # rpb'[p].slot
    BY <1>3, <1>8, <2>5 DEF Free
  <2>7. \E v \in Chain(Primary)' \cup {Primary} :
          ver'[v].tra = rpb'[p].v.tra /\ ver'[v].back = rpb'[p].v.back
    BY <1>2, <1>8, RecordIs
  <2> QED
    BY <2>3, <2>4, <2>6, <2>7 DEF WalkOf
<1> QED
  BY <1>8, <1>10, <1>11

(* A stored version of the record is an update. *)
LEMMA StoredPlace ==
    ASSUME VersionsAssumption, IInv, HistoryInv, NEW u \in Chain(Primary) \cup {Primary},
           ver[u].tra # 0
    PROVE  \E i \in DOMAIN log : Stored(u, i) /\ log[i].tra = ver[u].tra
<1>1. u \in Chain(Primary) => \E i \in DOMAIN log : Stored(u, i)
  BY DEF HistoryInv
<1>2. u = Primary => \E i \in DOMAIN log : Stored(u, i)
  BY DEF HistoryInv, Free
<1> QED
  BY <1>1, <1>2 DEF Stored, Is

(* The update a reader has in hand. *)
LEMMA ReaderIndex ==
    ASSUME VersionsAssumption, IInv, HistoryInv, NEW p \in Proc, WalkOf(p),
           at[p] = "look" \/ (at[p] = "regain" /\ rpb[p].slot # Primary)
    PROVE  \E i \in DOMAIN log :
             /\ log[i].tra = rpb[p].v.tra /\ log[i].deleted = rpb[p].v.deleted
             /\ LastIndex(p, i)
             /\ TRA_snapshot_state(p, rpb[p].v.tra) = "active" =>
                  \E u \in Chain(Primary) \cup {Primary} :
                    /\ ver[u].tra = rpb[p].v.tra /\ ver[u].back = rpb[p].v.back
                    /\ Stored(u, i)
<1>1. Typed /\ TraInv /\ ReaderOf(p) /\ InSnapshot(p)
  BY DEF IInv, TraInv, ReaderInv, InSnapshot
<1>2. rpb[p].v.tra # 0
  BY <1>1 DEF ReaderOf
<1>3. CASE rpb[p].slot = Primary
  <2>1. rpb[p].v = ver[Primary]
    BY <1>1, <1>3 DEF ReaderOf
  <2>2. ~Free(Primary)
    BY <1>2, <2>1 DEF Free
  <2> QED
    BY <1>1, <2>1, <2>2, PrimaryIndex
<1>4. CASE rpb[p].slot # Primary
  <2>1. /\ ~rpb[p].v.deleted /\ LastSeen(p, rpb[p].v.tra)
        /\ TRA_snapshot_state(p, rpb[p].v.tra) = "active" =>
             \E u \in Chain(Primary) \cup {Primary} :
               ver[u].tra = rpb[p].v.tra /\ ver[u].back = rpb[p].v.back
    BY <1>1, <1>4 DEF ReaderOf, WalkOf
  <2>2. PICK i \in DOMAIN log : log[i].tra = rpb[p].v.tra /\ ~log[i].deleted
    BY <1>4 DEF WalkOf
  <2>3. LastIndex(p, i)
    BY <2>1, <2>2, LastSeenIndex
  <2>4. ASSUME NEW u \in Chain(Primary) \cup {Primary}, ver[u].tra = rpb[p].v.tra
        PROVE  Stored(u, i)
    <3>1. PICK k \in DOMAIN log : Stored(u, k) /\ log[k].tra = ver[u].tra
      BY <1>2, <2>4, StoredPlace
    <3>2. k = i
      BY <2>2, <2>4, <3>1 DEF HistoryInv
    <3> QED
      BY <3>1, <3>2
  <2>5. log[i].deleted = rpb[p].v.deleted
    <3>1. rpb[p].v.deleted \in BOOLEAN
      BY <1>1, OwnFields DEF Version
    <3>2. log[i].deleted \in BOOLEAN
      BY <1>1, LogIs
    <3> QED
      BY <2>1, <2>2, <3>1, <3>2
  <2> QED
    BY <2>1, <2>2, <2>3, <2>4, <2>5
<1> QED
  BY <1>3, <1>4

(* A request answers what the snapshot shows. *)
LEMMA AnswerOwn ==
    ASSUME NEW p \in Proc, Expected(p)' = Expected(p), at'[p] = "ready", rpb'[p] = rpb[p],
           req'[p].answer = -1 \/ req'[p].answer = Expected(p),
           req'[p].answer > 0 => rpb[p].v.tra = req'[p].answer
    PROVE  WalkOf(p)' /\ AnswerOf(p)'
BY DEF WalkOf, AnswerOf

(* A process does something else with what it has read. *)
LEMMA QuietOwn ==
    ASSUME NEW p \in Proc, AnswerOf(p),
           at'[p] \notin {"look", "regain", "ready", "purge", "expunge"},
           ~(at'[p] = "collect" /\ req'[p].ret = "gone"),
           \/ req'[p].temp = None
           \/ /\ Expected(p)' = Expected(p) /\ req'[p].answer = req[p].answer
              /\ at[p] = "ready" \/ req[p].temp # None
    PROVE  WalkOf(p)' /\ AnswerOf(p)'
BY DEF WalkOf, AnswerOf

(* The primary version is fetched, if there is a record. *)
LEMMA GetOwn ==
    ASSUME VersionsAssumption, IInv, HistoryInv, NEW p \in Proc, Read(p) \/ ReadAgain(p)
    PROVE  WalkOf(p)' /\ AnswerOf(p)' /\ at'[p] # "bugcheck"
<1>1. Typed /\ TraInv /\ RequestOf(p) /\ at[p] \in {"ready", "get"}
  BY DEF IInv, TraInv, RequestInv, Read, ReadAgain
<1>2. /\ at \in [Proc -> Doing] /\ req \in [Proc -> Request] /\ req[p] \in Request
      /\ rpb \in [Proc -> [v : Version, slot : Place \cup {None}]]
  BY <1>1, OwnFields DEF Typed
<1>3. PICK r : /\ DPM_get(p, r) /\ (r = req[p] \/ r = [req[p] EXCEPT !.reads = @ + 1])
               /\ UNCHANGED <<hdr, tip, lck, dbb, tra, ver, log, crashes>>
  BY DEF Read, ReadAgain
<1>4. r.temp = None /\ InSnapshot(p)
  BY <1>1, <1>2, <1>3 DEF RequestOf, Request, InSnapshot
<1>5. Expected(p)' = Expected(p)
  BY <1>3, StillSees
<1>6. CASE Free(Primary)
  <2>1. at'[p] = "ready" /\ rpb' = rpb /\ req'[p] = Answer(r, 0)
    BY <1>2, <1>3, <1>6 DEF DPM_get
  <2>2. Answer(r, 0).answer = 0
    BY DEF Answer, NoRequest
  <2>3. Expected(p) = 0
    BY <1>1, <1>4, <1>6, FreeShows
  <2> QED
    BY <1>5, <2>1, <2>2, <2>3, AnswerOwn
<1>7. CASE ~Free(Primary)
  <2>1. /\ at'[p] = "look" /\ rpb'[p] = [v |-> ver[Primary], slot |-> Primary]
        /\ req'[p] = [r EXCEPT !.answer = -1]
    BY <1>2, <1>3, <1>7 DEF DPM_get
  <2>2. req'[p].temp = None
    BY <1>2, <1>3, <1>4, <2>1 DEF Request
  <2> QED
    BY <2>1, <2>2 DEF WalkOf, AnswerOf
<1> QED
  BY <1>6, <1>7

(* A reader looks at a version. *)
LEMMA ChaseOwn ==
    ASSUME VersionsAssumption, IInv, HistoryInv, NEW p \in Proc, WalkOf(p), AnswerOf(p),
           VIO_chase_record_version(p)
    PROVE  WalkOf(p)' /\ AnswerOf(p)' /\ at'[p] # "bugcheck"
<1>v. PICK v : v = rpb[p].v
  OBVIOUS
<1>s. PICK state : state = TRA_snapshot_state(p, v.tra)
  OBVIOUS
<1>1. /\ Typed /\ TraInv /\ RequestOf(p) /\ ReaderOf(p) /\ at[p] = "look" /\ InSnapshot(p)
      /\ UNCHANGED <<hdr, tip, lck, dbb, tra, ver, log, crashes>>
  BY DEF IInv, TraInv, RequestInv, ReaderInv, VIO_chase_record_version, InSnapshot
<1>2. /\ at \in [Proc -> Doing] /\ req \in [Proc -> Request] /\ req[p].temp = None
      /\ v.tra # 0
  BY <1>1, <1>v DEF Typed, RequestOf, ReaderOf
<1>3. PICK i \in DOMAIN log :
        /\ log[i].tra = v.tra /\ log[i].deleted = v.deleted /\ LastIndex(p, i)
        /\ state = "active" =>
             \E u \in Chain(Primary) \cup {Primary} :
               ver[u].tra = v.tra /\ ver[u].back = v.back /\ Stored(u, i)
  BY <1>v, <1>s, <1>1, ReaderIndex
<1>4. Expected(p)' = Expected(p)
  BY <1>1, StillSees
<1>5. state \in {"us", "committed"} => Expected(p) = IF v.deleted THEN 0 ELSE v.tra
  BY <1>s, <1>1, <1>3, SeesLast
<1>6. \A n : Answer(req[p], n).answer = n
  BY DEF Answer, NoRequest
<1>7. ASSUME NEW n, Answers(p, n), UNCHANGED rpb, n = Expected(p), n = 0 \/ v.tra = n
      PROVE  WalkOf(p)' /\ AnswerOf(p)' /\ at'[p] # "bugcheck"
  <2>1. at'[p] = "ready" /\ req'[p].answer = n
    BY <1>2, <1>6, <1>7 DEF Answers
  <2> QED
    BY <1>v, <1>4, <1>7, <2>1, AnswerOwn
<1>8. CASE state = "us" /\ Answers(p, IF v.deleted THEN 0 ELSE v.tra) /\ UNCHANGED rpb
  BY <1>5, <1>7, <1>8
<1>9. CASE /\ state = "committed" /\ v.deleted
           /\ at' = [at EXCEPT ![p] = "expunge"] /\ UNCHANGED <<req, rpb>>
  <2>1. Expected(p)' = 0 /\ at'[p] = "expunge"
    BY <1>2, <1>4, <1>5, <1>9
  <2> QED
    BY <1>2, <1>9, <2>1 DEF WalkOf, AnswerOf
<1>10. CASE state = "committed" /\ v.deleted /\ Answers(p, 0) /\ UNCHANGED rpb
  BY <1>5, <1>7, <1>10
<1>11. CASE /\ state = "committed" /\ Collectable(p, v)
            /\ at' = [at EXCEPT ![p] = "purge"] /\ UNCHANGED <<req, rpb>>
  <2>1. at'[p] = "purge" /\ rpb'[p].v = v /\ Collectable(p, v)'
    BY <1>v, <1>1, <1>2, <1>11 DEF Collectable
  <2> QED
    BY <1>2, <1>11, <2>1 DEF WalkOf, AnswerOf
<1>12. CASE state = "committed" /\ ~v.deleted /\ Answers(p, v.tra) /\ UNCHANGED rpb
  BY <1>5, <1>7, <1>12
<1>13. CASE /\ at' = [at EXCEPT ![p] = "backout"]
            /\ req' = [req EXCEPT ![p].ret = "get"]
  <2>1. at'[p] = "backout" /\ req'[p].temp = None
    BY <1>2, <1>13 DEF Request
  <2> QED
    BY <1>4, <2>1, QuietOwn
<1>14. CASE state = "active" /\ v.back = None /\ Answers(p, 0) /\ UNCHANGED rpb
  <2>1. PICK u \in Chain(Primary) \cup {Primary} :
          ver[u].tra = v.tra /\ ver[u].back = None /\ Stored(u, i)
    BY <1>3, <1>14
  <2>2. Expected(p) = 0
    BY <1>s, <1>1, <1>3, <1>14, <2>1, EndOfWalk
  <2> QED
    BY <1>7, <1>14, <2>2
<1>15. CASE at' = [at EXCEPT ![p] = "regain"] /\ UNCHANGED <<req, rpb>>
  <2>1. at'[p] = "regain" /\ req'[p].temp = None
    BY <1>2, <1>15
  <2>2. AnswerOf(p)'
    BY <2>1 DEF AnswerOf
  <2>3. WalkOf(p)'
    <3>1. Chain(Primary)' = Chain(Primary)
      BY <1>1, RecordIs
    <3>2. LastSeen(p, v.tra)' <=> LastSeen(p, v.tra)
      BY <1>1, StillSees
    <3>3. TRA_snapshot_state(p, v.tra)' = TRA_snapshot_state(p, v.tra)
      BY <1>1, StillSees
    <3> QED
      BY <1>v, <1>1, <1>15, <2>1, <3>1, <3>2, <3>3 DEF WalkOf
  <2> QED
    BY <2>1, <2>2, <2>3
<1>16. CASE state = "active" /\ v.back # None /\ DPM_fetch_back(p, v.back)
  <2>1. PICK u \in Chain(Primary) \cup {Primary} :
          ver[u].tra = v.tra /\ ver[u].back = v.back /\ Stored(u, i)
    BY <1>3, <1>16
  <2> QED
    BY <1>s, <1>1, <1>3, <1>16, <2>1, FetchBackWalk
<1>17. \/ state = "us" /\ Answers(p, IF v.deleted THEN 0 ELSE v.tra) /\ UNCHANGED rpb
       \/ /\ state = "committed" /\ v.deleted
          /\ at' = [at EXCEPT ![p] = "expunge"] /\ UNCHANGED <<req, rpb>>
       \/ state = "committed" /\ v.deleted /\ Answers(p, 0) /\ UNCHANGED rpb
       \/ /\ state = "committed" /\ Collectable(p, v)
          /\ at' = [at EXCEPT ![p] = "purge"] /\ UNCHANGED <<req, rpb>>
       \/ state = "committed" /\ ~v.deleted /\ Answers(p, v.tra) /\ UNCHANGED rpb
       \/ at' = [at EXCEPT ![p] = "backout"] /\ req' = [req EXCEPT ![p].ret = "get"]
       \/ state = "active" /\ v.back = None /\ Answers(p, 0) /\ UNCHANGED rpb
       \/ at' = [at EXCEPT ![p] = "regain"] /\ UNCHANGED <<req, rpb>>
       \/ state = "active" /\ v.back # None /\ DPM_fetch_back(p, v.back)
  BY <1>v, <1>s DEF VIO_chase_record_version
<1> QED
  BY <1>8, <1>9, <1>10, <1>11, <1>12, <1>13, <1>14, <1>15, <1>16, <1>17

(* A reader regains the page of the version it had. *)
LEMMA RegainOwn ==
    ASSUME VersionsAssumption, IInv, HistoryInv, NEW p \in Proc, WalkOf(p), AnswerOf(p),
           Regain(p)
    PROVE  WalkOf(p)' /\ AnswerOf(p)' /\ at'[p] # "bugcheck"
<1>v. PICK v : v = rpb[p].v
  OBVIOUS
<1>1. /\ Typed /\ TraInv /\ RequestOf(p) /\ ReaderOf(p) /\ at[p] = "regain" /\ InSnapshot(p)
      /\ UNCHANGED <<hdr, tip, lck, dbb, tra, ver, log, crashes>>
  BY DEF IInv, TraInv, RequestInv, ReaderInv, Regain, InSnapshot
<1>2. /\ at \in [Proc -> Doing] /\ req \in [Proc -> Request] /\ req[p].temp = None
      /\ v.tra # 0 /\ TRA_snapshot_state(p, v.tra) = "active" /\ v.back # None
  BY <1>1, <1>v DEF Typed, RequestOf, ReaderOf
<1>3. \/ at' = [at EXCEPT ![p] = "get"] /\ UNCHANGED <<rpb, req>>
      \/ /\ rpb[p].slot = Primary /\ ver[Primary].tra = v.tra /\ ver[Primary].back = None
         /\ Answers(p, 0) /\ UNCHANGED rpb
      \/ rpb[p].slot # Primary /\ DPM_fetch_back(p, v.back)
      \/ /\ rpb[p].slot = Primary /\ ver[Primary].tra = v.tra /\ ver[Primary].back # None
         /\ DPM_fetch_back(p, ver[Primary].back)
  BY <1>v DEF Regain
<1>4. Expected(p)' = Expected(p)
  BY <1>1, StillSees
<1>5. CASE at' = [at EXCEPT ![p] = "get"] /\ UNCHANGED <<rpb, req>>
  <2>1. at'[p] = "get" /\ req'[p].temp = None
    BY <1>2, <1>5
  <2> QED
    BY <1>4, <2>1, QuietOwn
<1>6. ver[Primary].tra = v.tra =>
        \E i \in DOMAIN log : Stored(Primary, i) /\ LastIndex(p, i)
              /\ TRA_snapshot_state(p, ver[Primary].tra) = "active"
  BY <1>1, <1>2, PrimaryIndex DEF Free
<1>7. CASE /\ ver[Primary].tra = v.tra /\ ver[Primary].back = None
           /\ Answers(p, 0) /\ UNCHANGED rpb
  <2>1. Expected(p) = 0
    BY <1>1, <1>6, <1>7, EndOfWalk
  <2>2. at'[p] = "ready" /\ req'[p].answer = 0
    BY <1>2, <1>7 DEF Answers, Answer, NoRequest
  <2> QED
    BY <1>4, <1>7, <2>1, <2>2, AnswerOwn
<1>8. CASE rpb[p].slot # Primary /\ DPM_fetch_back(p, v.back)
  <2>1. PICK i \in DOMAIN log, u \in Chain(Primary) \cup {Primary} :
          /\ LastIndex(p, i) /\ Stored(u, i)
          /\ ver[u].tra = v.tra /\ ver[u].back = v.back
    BY <1>v, <1>1, <1>2, <1>8, ReaderIndex
  <2> QED
    BY <1>1, <1>2, <1>8, <2>1, FetchBackWalk
<1>9. CASE /\ ver[Primary].tra = v.tra /\ ver[Primary].back # None
           /\ DPM_fetch_back(p, ver[Primary].back)
  BY <1>1, <1>6, <1>9, FetchBackWalk
<1> QED
  BY <1>3, <1>5, <1>7, <1>8, <1>9


(* A process purges the record it has read. *)
LEMMA PurgeOwn ==
    ASSUME VersionsAssumption, IInv, NEW p \in Proc, AnswerOf(p), purge(p)
    PROVE  WalkOf(p)' /\ AnswerOf(p)' /\ at'[p] # "bugcheck"
<1>1. /\ RequestOf(p) /\ at[p] = "purge" /\ at \in [Proc -> Doing]
      /\ req \in [Proc -> Request] /\ req[p] \in Request
  BY OwnFields DEF IInv, RequestInv, purge, Typed
<1>2. req[p].temp = None
  BY <1>1 DEF RequestOf
<1>3. \/ at'[p] = "collect" /\ req'[p] = [req[p] EXCEPT !.next = rpb[p].v.back, !.ret = "get"]
      \/ at'[p] = "get" /\ req' = req
  BY <1>1 DEF purge
<1>4. req'[p].temp = None /\ ~(at'[p] = "collect" /\ req'[p].ret = "gone")
  BY <1>1, <1>2, <1>3 DEF Request
<1> QED
  BY <1>3, <1>4, QuietOwn

(* A process expunges the record it has read. *)
LEMMA ExpungeOwn ==
    ASSUME VersionsAssumption, IInv, NEW p \in Proc, AnswerOf(p), expunge(p)
    PROVE  WalkOf(p)' /\ AnswerOf(p)' /\ at'[p] # "bugcheck"
<1>1. /\ RequestOf(p) /\ at[p] = "expunge" /\ at \in [Proc -> Doing]
      /\ req \in [Proc -> Request] /\ req[p] \in Request
      /\ UNCHANGED <<hdr, tip, lck, dbb, tra, rpb, log, crashes>>
  BY OwnFields DEF IInv, RequestInv, expunge, Typed
<1>2. req[p].temp = None /\ Expected(p) = 0 /\ Expected(p)' = Expected(p)
  BY <1>1, StillSees DEF RequestOf, AnswerOf
<1>3. CASE Answers(p, 0)
  <2>1. at'[p] = "ready" /\ req'[p].answer = 0
    BY <1>1, <1>3 DEF Answers, Answer, NoRequest
  <2> QED
    BY <1>1, <1>2, <2>1, AnswerOwn
<1>4. CASE ~Answers(p, 0)
  <2>1. /\ at'[p] = "collect"
        /\ req'[p] = [req[p] EXCEPT !.next = ver[Primary].back, !.ret = "gone"]
    BY <1>1, <1>4 DEF expunge
  <2>2. req'[p].temp = None
    BY <1>1, <1>2, <2>1 DEF Request
  <2> QED
    BY <1>2, <2>1, <2>2 DEF WalkOf, AnswerOf
<1> QED
  BY <1>3, <1>4

(* A process deletes one of the versions it collects. *)
LEMMA CollectOwn ==
    ASSUME VersionsAssumption, IInv, NEW p \in Proc, AnswerOf(p), garbage_collect(p)
    PROVE  WalkOf(p)' /\ AnswerOf(p)' /\ at'[p] # "bugcheck"
<1>s. PICK s : s = req[p].next
  OBVIOUS
<1>1. /\ RequestOf(p) /\ HandOf(p) /\ at[p] = "collect" /\ at \in [Proc -> Doing]
      /\ req \in [Proc -> Request] /\ req[p] \in Request
      /\ UNCHANGED <<hdr, tip, lck, dbb, tra, rpb, log, crashes>>
  BY OwnFields DEF IInv, RequestInv, HandInv, garbage_collect, Typed
<1>2. req[p].temp = None /\ Expected(p)' = Expected(p) /\ req[p].ret \in {"get", "gone"}
      /\ s \in Slot \cup {None} /\ (req[p].ret = "gone" => Expected(p) = 0)
  BY <1>s, <1>1, StillSees DEF RequestOf, AnswerOf, Request
<1>3. CASE s # None
  <2>1. s \in Held(p)
    BY <1>s, <1>1, <1>2, <1>3, InHandChain, ChainIs, ChainSelf
  <2>2. ~Free(s)
    BY <1>1, <2>1 DEF HandOf
  <2>3. at'[p] = "collect" /\ req'[p] = [req[p] EXCEPT !.next = ver[s].back]
    BY <1>s, <1>1, <1>3, <2>2 DEF garbage_collect
  <2>4. req'[p].temp = None /\ req'[p].ret = req[p].ret
    BY <1>1, <1>2, <2>3 DEF Request
  <2> QED
    BY <1>2, <2>3, <2>4 DEF WalkOf, AnswerOf
<1>4. CASE s = None /\ req[p].ret = "gone"
  <2>1. at'[p] = "ready" /\ req'[p].answer = 0
    BY <1>s, <1>1, <1>4 DEF garbage_collect, Answers, Answer, NoRequest
  <2> QED
    BY <1>1, <1>2, <1>4, <2>1, AnswerOwn
<1>5. CASE s = None /\ req[p].ret # "gone"
  <2>1. at'[p] = "get" /\ req' = req
    BY <1>s, <1>1, <1>5 DEF garbage_collect
  <2> QED
    BY <1>2, <2>1, QuietOwn
<1> QED
  BY <1>3, <1>4, <1>5

(* A process that backs out goes on with its request. *)
LEMMA BackingOwn ==
    ASSUME VersionsAssumption, IInv, NEW p \in Proc, AnswerOf(p),
           at[p] \in {"backout", "backout_write", "backout_delete"},
           at'[p] \in {"backout", "backout_write", "backout_delete", req[p].ret},
           req[p].temp # None => log' = log,
           tra' = tra, req'[p].temp = req[p].temp, req'[p].answer = req[p].answer
    PROVE  WalkOf(p)' /\ AnswerOf(p)' /\ at'[p] # "bugcheck"
<1>1. req[p].ret \in {"undone", "get", "write"}
  BY DEF IInv, RequestInv, RequestOf
<1>2. req[p].temp # None => Expected(p)' = Expected(p)
  BY StillSees
<1> QED
  BY <1>1, <1>2, QuietOwn

(* A process reads the version it backs out. *)
LEMMA BackoutReadOwn ==
    ASSUME VersionsAssumption, IInv, NEW p \in Proc, AnswerOf(p), BackoutRead(p)
    PROVE  WalkOf(p)' /\ AnswerOf(p)' /\ at'[p] # "bugcheck"
<1>b. PICK b : b = rpb[p].v.back
  OBVIOUS
<1>1. /\ at[p] = "backout" /\ at \in [Proc -> Doing] /\ tra' = tra /\ log' = log
      /\ req \in [Proc -> Request] /\ req[p] \in Request
  BY OwnFields DEF IInv, BackoutRead, Typed
<1>2. CASE Free(Primary) \/ ~Same(p)
  <2>1. at'[p] = req[p].ret /\ req' = req
    BY <1>1, <1>2 DEF BackoutRead
  <2> QED
    BY <1>1, <2>1, BackingOwn
<1>3. CASE ~Free(Primary) /\ Same(p)
  <2>1. b # None => ~Free(b)
    BY <1>b, <1>3, RecordPlaces DEF Same
  <2>2. at'[p] = "backout_write" /\ \E o : req'[p] = [req[p] EXCEPT !.old = o]
    BY <1>b, <1>1, <1>3, <2>1 DEF BackoutRead
  <2>3. req'[p].temp = req[p].temp /\ req'[p].answer = req[p].answer
    BY <1>1, <2>2 DEF Request
  <2> QED
    BY <1>1, <2>2, <2>3, BackingOwn
<1> QED
  BY <1>2, <1>3

(* A process puts the old version back. *)
LEMMA BackoutWriteOwn ==
    ASSUME VersionsAssumption, IInv, NEW p \in Proc, AnswerOf(p), BackoutWrite(p)
    PROVE  WalkOf(p)' /\ AnswerOf(p)' /\ at'[p] # "bugcheck"
<1>1. /\ at[p] = "backout_write" /\ at \in [Proc -> Doing] /\ tra' = tra
      /\ req \in [Proc -> Request] /\ req[p] \in Request
      /\ req'[p] = [req[p] EXCEPT !.old = NoVersion]
      /\ RequestOf(p)
  BY OwnFields DEF IInv, RequestInv, BackoutWrite, Typed
<1>2. at'[p] \in {"backout_delete", req[p].ret}
  BY <1>1 DEF BackoutWrite
<1>3. req[p].temp # None => req[p].ret # "undone"
  BY <1>1 DEF RequestOf
<1>4. req[p].temp # None => log' = log
  BY <1>3 DEF BackoutWrite
<1>5. req'[p].temp = req[p].temp /\ req'[p].answer = req[p].answer
  BY <1>1 DEF Request
<1> QED
  BY <1>1, <1>2, <1>4, <1>5, BackingOwn

(* A process deletes the old copy of a version it brought forward. *)
LEMMA BackoutDeleteOwn ==
    ASSUME VersionsAssumption, IInv, NEW p \in Proc, AnswerOf(p), BackoutDelete(p)
    PROVE  WalkOf(p)' /\ AnswerOf(p)' /\ at'[p] # "bugcheck"
<1>b. PICK b : b = rpb[p].v.back
  OBVIOUS
<1>1. /\ at[p] = "backout_delete" /\ at \in [Proc -> Doing] /\ tra' = tra /\ log' = log
      /\ req' = req /\ HandOf(p)
  BY DEF IInv, HandInv, BackoutDelete, Typed
<1>2. b \in Held(p)
  BY <1>b, <1>1 DEF Held, InHand
<1>3. ~Free(b)
  BY <1>1, <1>2 DEF HandOf
<1>4. at'[p] = req[p].ret
  BY <1>b, <1>1, <1>3 DEF BackoutDelete
<1> QED
  BY <1>1, <1>4, BackingOwn


(* A process has updated the record. *)
LEMMA WrittenOwn ==
    ASSUME NEW p \in Proc, at'[p] = "ready", req'[p] = Written
    PROVE  WalkOf(p)' /\ AnswerOf(p)' /\ at'[p] # "bugcheck"
<1>1. req'[p].answer = -1
  BY DEF Written, NoRequest
<1> QED
  BY <1>1 DEF WalkOf, AnswerOf

(* A process stores what it has read. *)
LEMMA UpdateOwn ==
    ASSUME VersionsAssumption, IInv, NEW p \in Proc, AnswerOf(p), Update(p)
    PROVE  WalkOf(p)' /\ AnswerOf(p)' /\ at'[p] # "bugcheck"
<1>1. /\ at[p] = "ready" /\ at \in [Proc -> Doing] /\ tra' = tra /\ log' = log
      /\ req \in [Proc -> Request] /\ req[p] \in Request
  BY OwnFields DEF IInv, Update, CanUpdate, Typed
<1>2. at'[p] = "write"
  BY <1>1 DEF Update
<1>3. req'[p].answer = req[p].answer
  <2>1. PICK s \in Slot, k \in {"modify", "erase"}, d \in BOOLEAN :
          req' = [req EXCEPT ![p] = UpdateRequest(p, s, k, d)]
    BY UpdateParts
  <2> QED
    BY <1>1, <2>1 DEF Request, UpdateRequest
<1>4. Expected(p)' = Expected(p)
  BY <1>1, StillSees
<1> QED
  BY <1>1, <1>2, <1>3, <1>4, QuietOwn

(* A process tries to put its update in place. *)
LEMMA PrepareOwn ==
    ASSUME VersionsAssumption, IInv, HistoryInv, NEW p \in Proc, AnswerOf(p),
           prepare_update(p)
    PROVE  WalkOf(p)' /\ AnswerOf(p)' /\ at'[p] # "bugcheck"
<1>1. /\ Typed /\ TraInv /\ RequestOf(p) /\ at[p] = "write" /\ InSnapshot(p)
      /\ at \in [Proc -> Doing] /\ req \in [Proc -> Request] /\ req[p] \in Request
      /\ tra' = tra
  BY OwnFields DEF IInv, TraInv, RequestInv, prepare_update, Typed, InSnapshot
<1>2. req[p].temp # None /\ req[p].answer > 0 /\ req[p].answer = Expected(p)
  <2>1. req[p].temp # None /\ req[p].answer > 0
    BY <1>1 DEF RequestOf
  <2> QED
    BY <1>1, <2>1 DEF AnswerOf, Request
<1>3. ~Free(Primary)
  BY <1>1, <1>2, FreeShows
<1>4. at'[p] # "bugcheck"
  BY <1>1, <1>3 DEF prepare_update, Replaced
<1>5. \/ /\ at'[p] \in {"wait", "discard"} \/ at' = at
         /\ UNCHANGED <<req, log>>
      \/ /\ at'[p] = "backout" /\ log' = log
         /\ req' = [req EXCEPT ![p].ret = "write"]
      \/ \E s, old, kind, d : Replaced(p, s, old, kind, d)
  BY <1>1, <1>4, PrepareCases
<1>6. CASE \E s, old, kind, d : Replaced(p, s, old, kind, d)
  <2>1. at'[p] = "ready" /\ req'[p] = Written
    BY <1>1, <1>6 DEF Replaced, Written
  <2> QED
    BY <2>1, WrittenOwn
<1>7. CASE (at'[p] \in {"wait", "discard"} \/ at' = at) /\ UNCHANGED <<req, log>>
  <2>1. Expected(p)' = Expected(p)
    BY <1>1, <1>7, StillSees
  <2> QED
    BY <1>1, <1>2, <1>7, <2>1, QuietOwn
<1>8. CASE at'[p] = "backout" /\ log' = log /\ req' = [req EXCEPT ![p].ret = "write"]
  <2>1. req'[p].answer = req[p].answer
    BY <1>1, <1>8 DEF Request
  <2>2. Expected(p)' = Expected(p)
    BY <1>1, <1>8, StillSees
  <2> QED
    BY <1>1, <1>2, <1>8, <2>1, <2>2, QuietOwn
<1> QED
  BY <1>5, <1>6, <1>7, <1>8

(* A process gives its update up. *)
LEMMA DiscardOwn ==
    ASSUME VersionsAssumption, IInv, NEW p \in Proc, AnswerOf(p),
           Discard(p) \/ WaitDenied(p)
    PROVE  WalkOf(p)' /\ AnswerOf(p)' /\ at'[p] # "bugcheck"
<1>1. /\ RequestOf(p) /\ HandOf(p) /\ at \in [Proc -> Doing] /\ tra' = tra /\ log' = log
      /\ req \in [Proc -> Request] /\ req[p] \in Request /\ rpb' = rpb
  BY OwnFields DEF IInv, RequestInv, HandInv, Discard, WaitDenied, Typed
<1>2. Expected(p)' = Expected(p)
  BY <1>1, StillSees
<1>3. CASE Discard(p)
  <2>1. req[p].temp # None
    BY <1>1, <1>3 DEF RequestOf, Discard
  <2>2. ~Free(req[p].temp)
    BY <1>1, <2>1 DEF HandOf, Held
  <2>3. at'[p] = "ready" /\ req'[p].answer = -1
    BY <1>1, <1>3, <2>2 DEF Discard, Answer, NoRequest
  <2> QED
    BY <1>1, <1>2, <2>3, AnswerOwn
<1>4. CASE WaitDenied(p)
  <2>1. at'[p] = "discard" /\ req' = req /\ at[p] = "wait"
    BY <1>1, <1>4 DEF WaitDenied
  <2>2. req[p].temp # None
    BY <1>1, <2>1 DEF RequestOf
  <2> QED
    BY <1>2, <2>1, <2>2, QuietOwn
<1> QED
  BY <1>3, <1>4

(* A process begins to undo its update. *)
LEMMA RollbackOwn ==
    ASSUME VersionsAssumption, IInv, NEW p \in Proc, AnswerOf(p),
           TRA_rollback(p), at'[p] # "release"
    PROVE  WalkOf(p)' /\ AnswerOf(p)' /\ at'[p] # "bugcheck"
<1>1. /\ RequestOf(p) /\ ActOf(p) /\ at \in [Proc -> Doing] /\ at[p] = "ready"
      /\ req \in [Proc -> Request] /\ req[p] \in Request
  BY OwnFields DEF IInv, RequestInv, ActInv, TRA_rollback, Typed
<1>2. /\ req[p].wrote /\ req' = [req EXCEPT ![p].ret = "undone"]
      /\ at' = [at EXCEPT ![p] = IF ver[Primary].tra = tra[p].number
                                 THEN "backout" ELSE "bugcheck"]
  BY <1>1 DEF TRA_rollback, TRA_set_state
<1>3. ver[Primary].tra = tra[p].number
  BY <1>1, <1>2 DEF ActOf
<1>4. at'[p] = "backout" /\ req'[p].temp = None
  BY <1>1, <1>2, <1>3 DEF RequestOf, Request
<1> QED
  BY <1>4, QuietOwn

(* What any action does that leaves numbers, locks and snapshots alone. *)
LEMMA CalmOwn ==
    ASSUME VersionsAssumption, IInv, HistoryInv, NEW p \in Proc, WalkOf(p), AnswerOf(p),
           CalmAction(p)
    PROVE  WalkOf(p)' /\ AnswerOf(p)' /\ at'[p] # "bugcheck"
<1>1. at \in [Proc -> Doing] /\ req \in [Proc -> Request]
  BY DEF IInv, Typed
<1>2. CASE VIO_store(p)
  <2>1. at'[p] = "ready" /\ req'[p] = Written
    BY <1>1, <1>2 DEF VIO_store, Written
  <2> QED
    BY <2>1, WrittenOwn
<1>3. CASE DPM_chain(p)
  <2>1. at'[p] = "ready" /\ req'[p] = Written
    BY <1>1, <1>3 DEF DPM_chain, Replaced, Written
  <2> QED
    BY <2>1, WrittenOwn
<1> QED
  BY <1>2, <1>3, GetOwn, ChaseOwn, RegainOwn, PurgeOwn, ExpungeOwn, CollectOwn,
     BackoutReadOwn, BackoutWriteOwn, BackoutDeleteOwn, UpdateOwn, PrepareOwn, DiscardOwn,
     RollbackOwn DEF CalmAction

(* Who waits sees what it has seen: the transaction it waited for is dead to
   it at most. *)
LEMMA WaitSees ==
    ASSUME VersionsAssumption, IInv, IInv', StartInv, NEW p \in Proc, TRA_wait(p)
    PROVE  /\ \A t \in Tra : TRA_snapshot_state(p, t)' = TRA_snapshot_state(p, t)
                             \/ /\ TRA_snapshot_state(p, t) \notin {"us", "committed"}
                                /\ TRA_snapshot_state(p, t)' \notin {"us", "committed"}
           /\ Visible(p)' = Visible(p) /\ Expected(p)' = Expected(p)
<1>1. /\ Typed /\ TraInv /\ SnapshotOf(p)' /\ OldestOf(p) /\ at[p] = "wait" /\ log' = log
      /\ InSnapshot(p) /\ InSnapshot(p)' /\ EndsStay
      /\ at'[p] \in {"write", "discard", "backout"}
      /\ tra' = tra \/ \E s : tra' = [tra EXCEPT ![p].states = s]
  <2>1. at \in [Proc -> Doing] /\ at[p] = "wait"
    BY DEF IInv, Typed, TRA_wait
  <2>2. at'[p] \in {"write", "discard", "backout"}
    BY <2>1 DEF TRA_wait
  <2>3. EndsStay
    BY WaitStart DEF StepOf
  <2> QED
    BY <2>1, <2>2, <2>3 DEF IInv, TraInv, SnapshotInv, OldestInv, TRA_wait, InSnapshot
<1>2. tra'[p].number = tra[p].number /\ tra'[p].oldest = tra[p].oldest
  <2>1. tra \in [Proc -> Transaction]
    BY <1>1 DEF Typed, Transaction
  <2> QED
    BY <1>1, <2>1 DEF Transaction
<1>3. \A t \in Tra : tra'[p].states[t] # tra[p].states[t] => tip'[t] = "dead"
  BY WaitStart
<1>4. ASSUME NEW t \in Tra
      PROVE  \/ TRA_snapshot_state(p, t)' = TRA_snapshot_state(p, t)
             \/ /\ TRA_snapshot_state(p, t) \notin {"us", "committed"}
                /\ TRA_snapshot_state(p, t)' \notin {"us", "committed"}
  <2>1. CASE \/ tra'[p].states[t] = tra[p].states[t] \/ t = tra[p].number
             \/ t < tra[p].oldest \/ t > tra[p].number
    BY <1>2, <2>1 DEF TRA_snapshot_state
  <2>2. CASE /\ tra'[p].states[t] # tra[p].states[t] /\ t # tra[p].number
             /\ ~(t < tra[p].oldest) /\ ~(t > tra[p].number)
    <3>1. tip'[t] = "dead"
      BY <1>3, <2>2
    <3>2. tip[t] # "committed"
      BY <1>1, <3>1 DEF EndsStay
    <3>3. TRA_snapshot_state(p, t) \notin {"us", "committed"}
      BY <1>1, <2>2, <3>2, SnapshotTrue
    <3>4. tra'[p].states[t] # "committed" /\ tra'[p].states[t] # "us"
      <4>1. tra'[p].states[t] # "active" => tip'[t] = tra'[p].states[t]
        BY <1>1 DEF SnapshotOf
      <4> QED
        BY <3>1, <4>1
    <3>5. TRA_snapshot_state(p, t)' \notin {"us", "committed"}
      BY <1>2, <2>2, <3>4 DEF TRA_snapshot_state
    <3> QED
      BY <3>3, <3>5
  <2> QED
    BY <2>1, <2>2
<1>5. Visible(p)' = Visible(p)
  <2>1. DOMAIN log' = DOMAIN log /\ \A i \in DOMAIN log : log'[i] = log[i] /\ log[i].tra \in Tra
    BY <1>1, LogIs
  <2>2. \A i \in DOMAIN log :
          TRA_snapshot_state(p, log[i].tra)' \in {"us", "committed"}
            <=> TRA_snapshot_state(p, log[i].tra) \in {"us", "committed"}
    <3> TAKE i \in DOMAIN log
    <3>1. PICK t \in Tra : t = log[i].tra
      BY <2>1
    <3>2. log'[i].tra = t
      BY <2>1, <3>1
    <3> QED
      BY <1>4, <3>1, <3>2
  <2> QED
    BY <2>1, <2>2 DEF Visible
<1>6. Expected(p)' = Expected(p)
  BY <1>1, <1>5, ShownPrimed
<1> QED
  BY <1>4, <1>5, <1>6

(* A process waits for the transaction that wrote the record. *)
LEMMA WaitOwn ==
    ASSUME VersionsAssumption, IInv, IInv', StartInv, NEW p \in Proc, AnswerOf(p),
           TRA_wait(p)
    PROVE  WalkOf(p)' /\ AnswerOf(p)' /\ at'[p] # "bugcheck"
<1>1. Expected(p)' = Expected(p)
  BY WaitSees
<1>2. /\ RequestOf(p) /\ at \in [Proc -> Doing] /\ req \in [Proc -> Request] /\ at[p] = "wait"
      /\ req[p] \in Request
  BY OwnFields DEF IInv, RequestInv, Typed, TRA_wait
<1>3. /\ req[p].temp # None /\ at'[p] \in {"write", "discard", "backout"}
      /\ \/ \E c : req' = [req EXCEPT ![p].conflict = c]
         \/ req' = [req EXCEPT ![p].ret = "write"]
  BY <1>2 DEF RequestOf, TRA_wait
<1>4. req'[p].answer = req[p].answer
  BY <1>2, <1>3 DEF Request
<1> QED
  BY <1>1, <1>3, <1>4, QuietOwn

(* A process that starts or ends a transaction has read nothing. *)
LEMMA RestOwn ==
    ASSUME VersionsAssumption, IInv, IInv', NEW p \in Proc,
           \/ StartAction(p) \/ EndAction(p) \/ TRA_release_transaction(p) \/ Crash(p)
    PROVE  WalkOf(p)' /\ AnswerOf(p)' /\ at'[p] # "bugcheck"
<1>1. at \in [Proc -> Doing] /\ req \in [Proc -> Request]
  BY DEF IInv, Typed
<1>2. at'[p] \in {"idle", "inventory", "scan", "query", "settle", "ready", "release"}
      /\ req'[p] = NoRequest
  <2>1. CASE EndAction(p)
    BY <1>1, <2>1 DEF EndAction, TRA_set_state
  <2>2. CASE TRA_release_transaction(p) \/ Crash(p)
    BY <1>1, <2>2 DEF TRA_release_transaction, Crash, Ended
  <2>3. CASE TRA_start(p)
    BY <1>1, <2>3 DEF TRA_start
  <2>4. CASE TRA_get_inventory(p) \/ Scan(p) \/ Query(p) \/ Settle(p)
    <3>1. req[p] = NoRequest
      BY <2>4 DEF IInv, RequestInv, RequestOf, Settling, TRA_get_inventory, Scan, Query,
                  Settle
    <3>2. req' = req /\ at'[p] \in {"scan", "query", "settle", "ready"}
      BY <1>1, <2>4 DEF TRA_get_inventory, Scan, Query, Settle
    <3> QED
      BY <3>1, <3>2
  <2> QED
    BY <2>1, <2>2, <2>3, <2>4 DEF StartAction
<1>3. req'[p].answer = -1 /\ req'[p].temp = None
  BY <1>2 DEF NoRequest
<1> QED
  BY <1>2, <1>3 DEF WalkOf, AnswerOf


-----------------------------------------------------------------------------
(* What a step does to the history. *)

(* What was kept before update i stays. *)
BeforeSame(i) ==
    KeptBefore(i)' = KeptBefore(i) /\ \A k \in KeptBefore(i) : log'[k] = log[k]

(* Who updated the record has a number that was given. *)
LEMMA LoggedOld ==
    ASSUME IInv
    PROVE  \A i \in DOMAIN log : log[i].tra \in Tra /\ log[i].tra <= hdr.next
<1> SUFFICES ASSUME NEW i \in DOMAIN log
             PROVE  log[i].tra \in Tra /\ log[i].tra <= hdr.next
  OBVIOUS
<1>1. log[i].tra \in Tra /\ hdr.next \in Int
  BY LogIs, SharedFields DEF IInv
<1>2. ~Fresh(log[i].tra)
  BY DEF Fresh
<1>3. ~(log[i].tra > hdr.next)
  BY <1>1, <1>2 DEF IInv, FreshInv
<1> QED
  BY <1>1, <1>3 DEF Tra

(* What is behind update i stays what it is. *)
LEMMA BeforeStays ==
    ASSUME IInv, SeenStay, NEW i, BeforeSame(i)
    PROVE  /\ \A k : LastBefore(i, k)' <=> LastBefore(i, k)
           /\ NothingBefore(i) => NothingBefore(i)'
           /\ Shown(KeptBefore(i))' = Shown(KeptBefore(i))
<1>1. \A k : LastBefore(i, k)' <=> LastBefore(i, k)
  BY DEF LastBefore, BeforeSame
<1>2. ASSUME NothingBefore(i)
      PROVE  NothingBefore(i)'
  <2> SUFFICES ASSUME NEW k \in DOMAIN log', LastBefore(i, k)'
               PROVE  (log[k].deleted /\ SeenByAll(log[k].tra))'
    BY DEF NothingBefore
  <2>1. LastBefore(i, k) /\ k \in KeptBefore(i) /\ k \in DOMAIN log /\ log'[k] = log[k]
    BY <1>1 DEF LastBefore, BeforeSame, KeptBefore, Kept
  <2>2. log[k].deleted /\ SeenByAll(log[k].tra)
    BY <1>2, <2>1 DEF NothingBefore
  <2>3. PICK t \in Tra : t = log[k].tra /\ t <= hdr.next
    BY <2>1, LoggedOld
  <2>4. SeenByAll(t)' /\ log'[k].tra = t
    BY <2>1, <2>2, <2>3 DEF SeenStay
  <2> QED
    BY <2>1, <2>2, <2>4
<1>3. Shown(KeptBefore(i))' = Shown(KeptBefore(i))
  <2>1. KeptBefore(i) \subseteq DOMAIN log
    BY DEF KeptBefore, Kept
  <2>2. ShownIn(log', KeptBefore(i)) = ShownIn(log, KeptBefore(i))
    BY <2>1, ShownSame DEF IInv, BeforeSame
  <2> QED
    BY <2>2, ShownPrimed DEF BeforeSame
<1> QED
  BY <1>1, <1>2, <1>3

(* A version, perhaps in another place, stays the version of its update. *)
LEMMA StoredStays ==
    ASSUME IInv, SeenStay, NEW s \in Place, NEW u \in Place, NEW i \in DOMAIN log,
           Stored(s, i), i \in DOMAIN log', log'[i] = log[i], BeforeSame(i),
           ver'[u] = ver[s],
           ver[s].back # None => ver'[ver[s].back] = ver[ver[s].back]
    PROVE  Stored(u, i)'
<1>1. Is(s, i) /\ Is(u, i)'
  BY DEF Stored, Is
<1>2. ASSUME ver[s].back = None
      PROVE  NothingBefore(i)' \/ SeenByAll(ver[u].tra)'
  <2>1. CASE NothingBefore(i)
    BY <2>1, BeforeStays
  <2>2. CASE SeenByAll(ver[s].tra)
    <3>1. PICK t \in Tra : t = ver[s].tra /\ t <= hdr.next
      BY <1>1, LoggedOld DEF Is
    <3>2. SeenByAll(t)' /\ ver'[u].tra = t
      BY <2>2, <3>1 DEF SeenStay
    <3> QED
      BY <3>2
  <2> QED
    BY <1>2, <2>1, <2>2 DEF Stored
<1>3. ASSUME ver[s].back # None
      PROVE  \E k \in DOMAIN log' : LastBefore(i, k)' /\ Is(ver[u].back, k)'
  <2>1. PICK k \in DOMAIN log : LastBefore(i, k) /\ Is(ver[s].back, k)
    BY <1>3 DEF Stored
  <2>2. LastBefore(i, k)' /\ k \in DOMAIN log' /\ log'[k] = log[k]
    BY <2>1, BeforeStays DEF LastBefore, BeforeSame, KeptBefore, Kept
  <2>3. PICK b : b = ver[s].back
    OBVIOUS
  <2>4. Is(b, k)' /\ ver'[u].back = b
    BY <1>3, <2>1, <2>2, <2>3 DEF Is
  <2>5. Is(ver[u].back, k)'
    BY <2>4
  <2> QED
    BY <2>2, <2>5
<1> QED
  BY <1>1, <1>2, <1>3 DEF Stored

(* Process q sees the same updates, at the same places in the history. *)
SameView(q) ==
    /\ Visible(q)' = Visible(q)
    /\ \A k \in Visible(q) :
         /\ log'[k] = log[k]
         /\ \A i \in DOMAIN log' : i < k => i \in DOMAIN log /\ log'[i] = log[i]

(* The committed versions that process q does not see stay in the record. *)
PlacesStay(q) ==
    \A s \in Chain(Primary) \cup {Primary} :
      ~Free(s) /\ tip[ver[s].tra] = "committed"
        /\ TRA_snapshot_state(q, ver[s].tra) = "active" =>
      \E u \in Chain(Primary)' \cup {Primary} :
        ver'[u].tra = ver[s].tra /\ ver'[u].back = ver[s].back

(* The story goes on: the record's chain stays the end of the history, no
   update gets lost, no other process sees the past change. *)
GoesOn(p) ==
    /\ HistoryInv' /\ NoLostUpdate'
    /\ \A i \in DOMAIN log : tip[log[i].tra] = "committed" =>
         \E j \in DOMAIN log' : log'[j] = log[i]
    /\ \A q \in Proc \ {p} : InSnapshot(q) => SameView(q) /\ PlacesStay(q)

(* The versions of the record are updates that are kept. *)
LEMMA ChainIndex ==
    ASSUME VersionsAssumption, IInv, HistoryInv, NEW s \in Chain(Primary)
    PROVE  \E i \in DOMAIN log : /\ Stored(s, i) /\ log[i].tra = ver[s].tra /\ i \in Kept
                                 /\ tip[ver[s].tra] = "committed"
<1>1. PICK i \in DOMAIN log : Stored(s, i)
  BY DEF HistoryInv
<1>2. tip[ver[s].tra] = "committed"
  BY RecordPlaces
<1> QED
  BY <1>1, <1>2 DEF Stored, Is, Kept

(* The chain changes where its versions do. *)
LEMMA SameChain ==
    ASSUME VersionsAssumption, IInv, IInv', ver'[Primary].back = ver[Primary].back,
           \A s \in Chain(Primary) : ver'[s] = ver[s]
    PROVE  Chain(Primary)' = Chain(Primary)
<1>1. ver \in Versions /\ ver' \in Versions /\ Primary \in Place
  BY DEF IInv, Typed, Versions, Place
<1>2. \A u \in ChainIn(ver, Primary) \cup {Primary} : ver'[u].back = ver[u].back
  BY RecordIs
<1>3. ChainIn(ver', Primary) = ChainIn(ver, Primary)
  BY <1>1, <1>2, ChainSame
<1> QED
  BY <1>3, RecordIs

(* The record stays as it is. *)
LEMMA UntouchedGoesOn ==
    ASSUME VersionsAssumption, IInv, IInv', HistoryInv, NoLostUpdate, NEW p \in Proc,
           StepOf(p), log' = log, ver'[Primary] = ver[Primary],
           \A s \in Chain(Primary) : ver'[s] = ver[s]
    PROVE  GoesOn(p)
<1>1. /\ Typed /\ TraInv /\ TipFalls /\ SeenStay /\ Alone(p) /\ EndsStay
      /\ Chain(Primary)' = Chain(Primary)
  BY SameChain DEF IInv, TraInv, StepOf
<1>2. /\ Kept' \subseteq Kept
      /\ \A i \in Kept : i \in Kept' \/ log[i].tra = ver[Primary].tra
  <2>1. \A i \in DOMAIN log : log[i].tra \in Tra
    BY <1>1, LogIs
  <2>2. \A i \in DOMAIN log : tip[log[i].tra] = "dead" => tip'[log[i].tra] = "dead"
    BY <1>1, <2>1 DEF TipFalls
  <2>3. \A i \in DOMAIN log : tip[log[i].tra] = "committed" => tip'[log[i].tra] = "committed"
    BY <1>1, <2>1 DEF TipFalls
  <2>4. \A i \in Kept : tip[log[i].tra] = "committed" \/ log[i].tra = ver[Primary].tra
    BY DEF HistoryInv
  <2> QED
    BY <2>2, <2>3, <2>4 DEF Kept
<1>3. \A i \in Kept' : i \in Kept /\ (tip'[log[i].tra] = "committed" \/ log[i].tra = ver[Primary].tra)
  <2>1. \A i \in Kept : tip[log[i].tra] = "committed" \/ log[i].tra = ver[Primary].tra
    BY DEF HistoryInv
  <2>2. \A i \in Kept : i \in DOMAIN log /\ log[i].tra \in Tra
    BY <1>1, LogIs DEF Kept
  <2> QED
    BY <1>1, <1>2, <2>1, <2>2 DEF TipFalls
<1>4. CASE Free(Primary)
  <2>1. Chain(Primary) = {} /\ Free(Primary)'
    BY <1>4, RecordPlaces DEF Free
  <2>2. Kept' = Kept
    BY <1>1, <1>2, <1>4, LogIs DEF Free, Kept
  <2>3. \A i : BeforeSame(i)
    BY <2>2 DEF BeforeSame, KeptBefore
  <2>4. NothingBefore(Len(log) + 1)'
    <3>1. PICK n : n = Len(log) + 1
      OBVIOUS
    <3>2. NothingBefore(n)
      BY <1>4, <3>1 DEF HistoryInv
    <3>3. NothingBefore(n)' /\ n = Len(log') + 1
      BY <1>1, <2>3, <3>1, <3>2, BeforeStays
    <3> QED
      BY <3>3
  <2>5. HistoryInv'
    BY <1>1, <1>3, <2>1, <2>4 DEF HistoryInv
  <2>6. NoLostUpdate'
    BY <1>1, <2>2, <2>3, BeforeStays DEF NoLostUpdate
  <2>7. \A q \in Proc \ {p} : InSnapshot(q) => SameView(q) /\ PlacesStay(q)
    BY <1>1, <1>4, <2>1, StillSees DEF SameView, PlacesStay, Alone
  <2> QED
    BY <2>5, <2>6, <2>7 DEF GoesOn
<1>5. CASE ~Free(Primary)
  <2>1. PICK n \in DOMAIN log : /\ Stored(Primary, n) /\ log[n].tra = ver[Primary].tra
                                /\ \A k \in Kept : k <= n
    BY <1>1, <1>5, PrimaryIndex
  <2>2. \A i \in Kept : i # n => i \in Kept'
    BY <1>2, <2>1 DEF HistoryInv, Kept
  <2>3. \A i \in DOMAIN log : i <= n => BeforeSame(i)
    <3> TAKE i \in DOMAIN log
    <3> HAVE i <= n
    <3>1. \A k \in Kept : k < i => k # n
      BY <1>1, LogIs DEF Kept
    <3>2. KeptBefore(i)' = KeptBefore(i)
      BY <1>2, <2>2, <3>1 DEF KeptBefore
    <3> QED
      BY <3>2 DEF BeforeSame
  <2>4. n <= n /\ Primary \in Place
    BY <1>1, LogIs DEF Place
  <2>5. Stored(Primary, n)' /\ ~Free(Primary)'
    <3>1. ver[Primary].back # None => ver'[ver[Primary].back] = ver[ver[Primary].back]
      BY RecordPlaces
    <3> QED
      BY <1>1, <1>5, <2>1, <2>3, <2>4, <3>1, StoredStays DEF Free
  <2>6. \A s \in Chain(Primary)' : \E i \in DOMAIN log' : Stored(s, i)'
    <3> SUFFICES ASSUME NEW s \in Chain(Primary)
                 PROVE  \E i \in DOMAIN log : Stored(s, i)'
      BY <1>1
    <3>1. PICK i \in DOMAIN log : Stored(s, i) /\ i \in Kept
      BY ChainIndex
    <3>2. s \in Place /\ (ver[s].back # None => ver'[ver[s].back] = ver[ver[s].back])
      BY RecordPlaces
    <3>3. BeforeSame(i)
      BY <2>1, <2>3, <3>1
    <3>4. Stored(s, i)'
      BY <1>1, <3>1, <3>2, <3>3, StoredStays
    <3> QED
      BY <3>4
  <2>7. HistoryInv'
    <3>1. \E i \in DOMAIN log' : Stored(Primary, i)' /\ \A k \in Kept' : k <= i
      BY <1>2, <2>1, <2>5
    <3> QED
      BY <1>3, <2>5, <2>6, <3>1 DEF HistoryInv
  <2>8. NoLostUpdate'
    <3> SUFFICES ASSUME NEW i \in Kept'
                 PROVE  log'[i].read = Shown(KeptBefore(i))'
      BY DEF NoLostUpdate
    <3>1. i \in Kept /\ i \in DOMAIN log /\ i <= n
      BY <1>2, <2>1 DEF Kept
    <3> QED
      BY <1>1, <2>3, <3>1, BeforeStays DEF NoLostUpdate
  <2>9. \A q \in Proc \ {p} : InSnapshot(q) => SameView(q) /\ PlacesStay(q)
    BY <1>1, StillSees DEF SameView, PlacesStay, Alone
  <2> QED
    BY <2>7, <2>8, <2>9 DEF GoesOn
<1> QED
  BY <1>4, <1>5


(* The record is cut where every snapshot has what it leaves as committed. *)
LEMMA CutGoesOn ==
    ASSUME VersionsAssumption, IInv, IInv', HistoryInv, NoLostUpdate, NEW p \in Proc,
           StepOf(p), Safe(tra[p].tra_oldest_active), log' = log, tip' = tip,
           ~Free(Primary), tip[ver[Primary].tra] = "committed",
           ver[Primary].tra < tra[p].tra_oldest_active,
           \/ ver'[Primary] = NoVersion /\ ver[Primary].deleted
           \/ /\ ver'[Primary].tra = ver[Primary].tra /\ ver'[Primary].back = None
              /\ ver'[Primary].deleted = ver[Primary].deleted
    PROVE  GoesOn(p)
<1>1. /\ Typed /\ TraInv /\ SeenStay /\ Alone(p) /\ ChainInv
      /\ ver \in Versions /\ ver' \in Versions
  BY DEF IInv, TraInv, StepOf, Typed, Versions
<1>2. /\ Chain(Primary)' = {} /\ Primary \in Place /\ ver[Primary].tra \in Tra
      /\ ver[Primary].tra # 0
  BY <1>1, RecordIs, RecordChain, RecordPlaces DEF NoVersion
<1>3. Kept' = Kept /\ \A i : BeforeSame(i)
  BY DEF Kept, KeptBefore, BeforeSame
<1>4. \A s \in Chain(Primary) \cup {Primary} :
        ver[s].tra \in Int /\ ver[s].tra <= ver[Primary].tra
  <2> TAKE s \in Chain(Primary) \cup {Primary}
  <2>1. ver[s].tra \in Int /\ ver[Primary].tra \in Int
    BY <1>1, <1>2, RecordPlaces DEF Tra
  <2>2. s # Primary => ver[s].tra < ver[Primary].tra
    BY <1>1, RecordIs, RecordChain, RecordFalls, ChainFalls
  <2> QED
    BY <2>1, <2>2
<1>5. \A s \in Chain(Primary) \cup {Primary} :
        tip[ver[s].tra] = "committed" /\ ~Free(s) => SeenByAll(ver[s].tra)
  <2> TAKE s \in Chain(Primary) \cup {Primary}
  <2> HAVE tip[ver[s].tra] = "committed" /\ ~Free(s)
  <2>1. ver[s].tra \in Tra
    BY <1>2, RecordPlaces
  <2>2. tra[p].tra_oldest_active \in Int
    BY <1>1, TraFields
  <2>3. ver[s].tra < tra[p].tra_oldest_active
    BY <1>2, <1>4, <2>1, <2>2 DEF Tra
  <2> QED
    BY <2>1, <2>3 DEF Safe
<1>6. PICK n \in DOMAIN log :
        /\ Stored(Primary, n) /\ log[n].tra = ver[Primary].tra
        /\ log[n].deleted = ver[Primary].deleted /\ \A k \in Kept : k <= n
  BY <1>1, PrimaryIndex
<1>7. PICK t \in Tra : t = ver[Primary].tra /\ t <= hdr.next
  BY <1>6, LoggedOld
<1>8. SeenByAll(t) /\ SeenByAll(t)'
  BY <1>1, <1>5, <1>7 DEF SeenStay
<1>9. ASSUME ver'[Primary] = NoVersion, ver[Primary].deleted
      PROVE  HistoryInv'
  <2>1. Free(Primary)'
    BY <1>9 DEF Free, NoVersion
  <2>2. n \in Kept
    BY <1>6 DEF Kept
  <2>3. NothingBefore(Len(log) + 1)'
    <3>1. PICK m : m = Len(log) + 1
      OBVIOUS
    <3>2. NothingBefore(m)
      <4> SUFFICES ASSUME NEW k \in DOMAIN log, LastBefore(m, k)
                   PROVE  log[k].deleted /\ SeenByAll(log[k].tra)
        BY DEF NothingBefore
      <4>1. n < m /\ n \in Int /\ k \in Int /\ k \in Kept
        BY <1>1, <3>1, LogIs DEF LastBefore, KeptBefore
      <4>2. n <= k
        BY <2>2, <4>1 DEF LastBefore, KeptBefore
      <4>3. k <= n
        BY <1>6, <4>1
      <4>4. k = n
        BY <4>1, <4>2, <4>3
      <4> QED
        BY <1>6, <1>7, <1>8, <1>9, <4>4
    <3>3. NothingBefore(m)' /\ m = Len(log') + 1
      BY <1>1, <1>3, <3>1, <3>2, BeforeStays
    <3> QED
      BY <3>3
  <2>4. \A i \in Kept : tip[log[i].tra] = "committed"
    <3> TAKE i \in Kept
    <3>1. tip[log[i].tra] = "committed" \/ log[i].tra = ver[Primary].tra
      BY DEF HistoryInv
    <3> QED
      BY <3>1
  <2> QED
    BY <1>2, <1>3, <2>1, <2>3, <2>4 DEF HistoryInv
<1>10. ASSUME ver'[Primary].tra = ver[Primary].tra, ver'[Primary].back = None,
              ver'[Primary].deleted = ver[Primary].deleted
       PROVE  HistoryInv'
  <2>1. Stored(Primary, n)' /\ ~Free(Primary)'
    <3>1. Is(Primary, n)' /\ SeenByAll(ver[Primary].tra)'
      BY <1>6, <1>7, <1>8, <1>10 DEF Is
    <3> QED
      BY <1>2, <1>10, <3>1 DEF Stored, Free
  <2>2. \E i \in DOMAIN log' : Stored(Primary, i)' /\ \A k \in Kept' : k <= i
    BY <1>3, <1>6, <2>1
  <2> QED
    BY <1>2, <1>3, <1>10, <2>1, <2>2 DEF HistoryInv
<1>11. NoLostUpdate'
  BY <1>1, <1>3, BeforeStays DEF NoLostUpdate
<1>12. \A q \in Proc \ {p} : InSnapshot(q) => SameView(q) /\ PlacesStay(q)
  <2> TAKE q \in Proc \ {p}
  <2> HAVE InSnapshot(q)
  <2>1. SameView(q)
    BY <1>1, StillSees DEF SameView, Alone
  <2>2. PlacesStay(q)
    <3>1. \A s \in Chain(Primary) \cup {Primary} :
            ~Free(s) /\ tip[ver[s].tra] = "committed" =>
              TRA_snapshot_state(q, ver[s].tra) = "committed"
      BY <1>5 DEF SeenByAll
    <3> QED
      BY <3>1 DEF PlacesStay
  <2> QED
    BY <2>1, <2>2
<1> QED
  BY <1>9, <1>10, <1>11, <1>12 DEF GoesOn

-----------------------------------------------------------------------------
(* An update that is backed out. *)


(* The last update that is kept is kept no more; those before it stay. *)
LastGone(p, n) ==
    /\ Kept' = KeptBefore(n)
    /\ \A i \in DOMAIN log : i < n => i \in DOMAIN log' /\ log'[i] = log[i]
    /\ \A i \in DOMAIN log' : i < n => i \in DOMAIN log /\ log'[i] = log[i]
    /\ \A i, j \in DOMAIN log' : log'[i].tra = log'[j].tra => i = j
    /\ \A i \in DOMAIN log : tip[log[i].tra] = "committed" =>
         \E j \in DOMAIN log' : log'[j] = log[i]
    /\ \A q \in Proc \ {p} : InSnapshot(q) => SameView(q)

(* It was by a transaction that died, *)
LEMMA DeadGone ==
    ASSUME Typed, HistoryInv, NEW p \in Proc, Alone(p), log' = log, tip' = tip,
           NEW n \in DOMAIN log, tip[log[n].tra] = "dead", \A k \in Kept : k <= n
    PROVE  LastGone(p, n)
<1>1. Kept' = KeptBefore(n)
  <2>1. n \notin Kept /\ \A k \in Kept : k \in Int /\ n \in Int
    BY LogIs DEF Kept
  <2>2. \A k \in Kept : k < n
    BY <2>1
  <2> QED
    BY <2>2 DEF Kept, KeptBefore
<1>2. \A q \in Proc \ {p} : SameView(q)
  BY StillSees DEF SameView, Alone
<1> QED
  BY <1>1, <1>2 DEF LastGone, HistoryInv

(* or process p undoes it. *)
LEMMA UndoneGone ==
    ASSUME Typed, TraInv, HistoryInv, NEW p \in Proc, Alone(p), tip' = tip,
           Active(p), at[p] # "release", NEW n \in DOMAIN log, log[n].tra = tra[p].number,
           \A k \in Kept : k <= n, log' = RemoveAt(log, UpdateOf(tra[p].number))
    PROVE  LastGone(p, n)
<1>1. \A i, j \in DOMAIN log : log[i].tra = log[j].tra => i = j
  BY DEF HistoryInv
<1>2. UpdateOf(tra[p].number) = n
  BY <1>1 DEF UpdateOf
<1>3. PICK h : h = log'
  OBVIOUS
<1>4. /\ \A j \in DOMAIN h : j \in Int /\ j + 1 \in DOMAIN log /\ j \in DOMAIN log
                             /\ h[j] = IF j < n THEN log[j] ELSE log[j + 1]
      /\ \A j \in DOMAIN log : /\ j \in Int
                               /\ j < n => j \in DOMAIN h /\ h[j] = log[j]
                               /\ j > n => j - 1 \in DOMAIN h /\ h[j - 1] = log[j]
      /\ n \in Int
  <2>1. log \in Seq(Updates) /\ h = RemoveAt(log, n) /\ n \in Int
    BY <1>2, <1>3, LogIs
  <2>2. /\ \A j \in DOMAIN h : j \in Int /\ j + 1 \in DOMAIN log /\ j \in DOMAIN log
                             /\ h[j] = IF j < n THEN log[j] ELSE log[j + 1]
        /\ \A j \in DOMAIN log : /\ j \in Int
                                 /\ j < n => j \in DOMAIN h /\ h[j] = log[j]
                                 /\ j > n => j - 1 \in DOMAIN h /\ h[j - 1] = log[j]
    BY <2>1, Removed
  <2> QED
    BY <2>1, <2>2
<1>5. \A j \in DOMAIN log : j > n => j \notin Kept
  BY <1>4
<1>6. Kept' = KeptBefore(n)
  <2>1. ASSUME NEW k \in Kept'
        PROVE  k \in KeptBefore(n)
    <3>1. k \in DOMAIN h /\ tip[h[k].tra] # "dead"
      BY <1>3, <2>1 DEF Kept
    <3>2. CASE k < n
      BY <1>4, <3>1, <3>2 DEF Kept, KeptBefore
    <3>3. CASE ~(k < n)
      <4>1. h[k] = log[k + 1] /\ k + 1 \in DOMAIN log /\ k + 1 > n
        BY <1>4, <3>1, <3>3
      <4>2. k + 1 \in Kept
        BY <3>1, <4>1 DEF Kept
      <4> QED
        BY <1>5, <4>1, <4>2
    <3> QED
      BY <3>2, <3>3
  <2>2. ASSUME NEW k \in KeptBefore(n)
        PROVE  k \in Kept'
    <3>1. k \in DOMAIN log /\ k < n /\ tip[log[k].tra] # "dead"
      BY <2>2 DEF KeptBefore, Kept
    <3>2. k \in DOMAIN h /\ h[k] = log[k]
      BY <1>4, <3>1
    <3> QED
      BY <1>3, <3>1, <3>2 DEF Kept
  <2> QED
    BY <2>1, <2>2
<1>7. \A i \in DOMAIN h : i < n => i \in DOMAIN log /\ h[i] = log[i]
  BY <1>4
<1>8. ASSUME NEW i \in DOMAIN h, NEW j \in DOMAIN h, h[i].tra = h[j].tra
      PROVE  i = j
  <2>1. i \in Int /\ j \in Int /\ n \in Int
    BY <1>4
  <2>2. PICK x \in DOMAIN log, y \in DOMAIN log :
          /\ h[i] = log[x] /\ h[j] = log[y]
          /\ x = (IF i < n THEN i ELSE i + 1) /\ y = (IF j < n THEN j ELSE j + 1)
    BY <1>4
  <2>3. x = y
    BY <1>1, <1>8, <2>2
  <2> QED
    BY <2>1, <2>2, <2>3
<1>9. ASSUME NEW i \in DOMAIN log, tip[log[i].tra] = "committed"
      PROVE  \E j \in DOMAIN h : h[j] = log[i]
  <2>1. tip[tra[p].number] = "active"
    BY DEF TraInv, NumbersInv, NumbersOf
  <2>2. i # n
    BY <1>9, <2>1
  <2>3. i < n \/ i > n
    BY <1>4, <2>2
  <2> QED
    BY <1>4, <2>3
<1>10. ASSUME NEW q \in Proc \ {p}, InSnapshot(q)
       PROVE  SameView(q)
  <2>1. \A t : TRA_snapshot_state(q, t)' = TRA_snapshot_state(q, t)
    BY DEF Alone, TRA_snapshot_state
  <2>2. n \notin Visible(q)
    <3>1. TRA_snapshot_state(q, tra[p].number) = "active"
      BY <1>10, RunningActive
    <3> QED
      BY <3>1 DEF Visible
  <2>3. \A k \in Visible(q) : k \in DOMAIN log /\ k \in Kept /\ k < n
    <3> TAKE k \in Visible(q)
    <3>1. k \in Kept /\ k \in DOMAIN log
      BY <1>10, VisibleKept DEF Visible
    <3>2. k \in Int /\ k <= n /\ k # n
      BY <1>4, <2>2, <3>1
    <3> QED
      BY <1>4, <3>1, <3>2
  <2>4. ASSUME NEW k \in Visible(q)
        PROVE  k \in Visible(q)'
    <3>1. k \in DOMAIN h /\ h[k] = log[k]
      BY <1>4, <2>3
    <3> QED
      BY <1>3, <2>1, <3>1 DEF Visible
  <2>5. ASSUME NEW k \in Visible(q)'
        PROVE  k \in Visible(q)
    <3>1. k \in DOMAIN h /\ TRA_snapshot_state(q, h[k].tra) \in {"us", "committed"}
      BY <1>3, <2>1 DEF Visible
    <3>2. CASE k < n
      BY <1>7, <3>1, <3>2 DEF Visible
    <3>3. CASE ~(k < n)
      <4>1. h[k] = log[k + 1] /\ k + 1 \in DOMAIN log /\ k \in Int
        BY <1>4, <3>1, <3>3
      <4>2. k + 1 \in Visible(q)
        BY <3>1, <4>1 DEF Visible
      <4>3. k + 1 < n
        BY <2>3, <4>2
      <4> QED
        BY <1>4, <3>3, <4>1, <4>3
    <3> QED
      BY <3>2, <3>3
  <2>6. \A k \in Visible(q) : h[k] = log[k]
    BY <1>4, <2>3
  <2>7. \A k \in Visible(q) : \A i \in DOMAIN h : i < k => i \in DOMAIN log /\ h[i] = log[i]
    <3> TAKE k \in Visible(q)
    <3> TAKE i \in DOMAIN h
    <3> HAVE i < k
    <3>1. i \in Int /\ k \in Int /\ k < n
      BY <1>4, <2>3
    <3>2. i < n
      BY <1>4, <3>1
    <3> QED
      BY <1>7, <3>2
  <2> QED
    BY <1>3, <2>4, <2>5, <2>6, <2>7 DEF SameView
<1> QED
  BY <1>3, <1>4, <1>6, <1>7, <1>8, <1>9, <1>10 DEF LastGone

(* The version of an update that does not count is replaced by the one behind
   it. *)
LEMMA BackoutGoesOn ==
    ASSUME VersionsAssumption, IInv, IInv', HistoryInv, NoLostUpdate, NEW p \in Proc,
           StepOf(p), tip' = tip, ~Free(Primary), tip[ver[Primary].tra] # "committed",
           NEW n \in DOMAIN log, Stored(Primary, n), LastGone(p, n),
           NEW b, b = ver[Primary].back,
           \/ b = None /\ ver'[Primary] = NoVersion
           \/ b # None /\ ver'[Primary] = ver[b] /\ ver'[b] \in {ver[b], NoVersion},
           \A s \in Slot \ {b} : ver'[s] = ver[s]
    PROVE  GoesOn(p)
<1>1. /\ Typed /\ TraInv /\ SeenStay /\ Alone(p) /\ ChainInv
      /\ ver \in Versions /\ ver' \in Versions /\ Primary \in Place
      /\ log[n].tra = ver[Primary].tra
  BY DEF IInv, TraInv, StepOf, Typed, Versions, Place, Stored, Is
<1>2. \A i, j \in DOMAIN log : log[i].tra = log[j].tra => i = j
  BY DEF HistoryInv
<1>3. \A i \in DOMAIN log : i <= n => BeforeSame(i)
  <2> TAKE i \in DOMAIN log
  <2> HAVE i <= n
  <2>1. \A k \in Kept : k < i => k < n
    BY <1>1, LogIs DEF Kept
  <2>2. KeptBefore(i)' = KeptBefore(i)
    BY <1>1, <2>1, LogIs DEF LastGone, KeptBefore, Kept
  <2>3. \A k \in KeptBefore(i) : k \in DOMAIN log /\ k < n
    BY <2>1 DEF KeptBefore, Kept
  <2> QED
    BY <2>2, <2>3 DEF BeforeSame, LastGone
<1>4. n \in Int /\ BeforeSame(n)
  BY <1>1, <1>3, LogIs
<1>5. \A i \in Kept' : /\ i \in Kept /\ i < n /\ i \in DOMAIN log /\ log'[i] = log[i]
                       /\ tip[log[i].tra] = "committed"
  <2> TAKE i \in Kept'
  <2>1. i \in Kept /\ i < n /\ i \in DOMAIN log
    BY DEF LastGone, KeptBefore, Kept
  <2>2. i # n /\ log[i].tra # ver[Primary].tra
    BY <1>1, <1>2, <1>4, <2>1
  <2> QED
    BY <2>1, <2>2 DEF LastGone, HistoryInv
<1>6. NoLostUpdate'
  <2> SUFFICES ASSUME NEW i \in Kept'
               PROVE  log'[i].read = Shown(KeptBefore(i))'
    BY DEF NoLostUpdate
  <2>1. BeforeSame(i) /\ log[i].read = Shown(KeptBefore(i)) /\ log'[i] = log[i]
    BY <1>1, <1>3, <1>4, <1>5, LogIs DEF NoLostUpdate
  <2> QED
    BY <1>1, <2>1, BeforeStays
<1>7. /\ \A i, j \in DOMAIN log' : log'[i].tra = log'[j].tra => i = j
      /\ \A i \in Kept' : tip'[log'[i].tra] = "committed"
      /\ \A k \in Kept' : k < n
  BY <1>5 DEF LastGone
<1>8. \A s \in Chain(Primary) : \E i \in DOMAIN log : Stored(s, i) /\ i < n /\ i \in Kept
  <2> TAKE s \in Chain(Primary)
  <2>1. PICK i \in DOMAIN log : /\ Stored(s, i) /\ log[i].tra = ver[s].tra /\ i \in Kept
                                /\ tip[ver[s].tra] = "committed"
    BY ChainIndex
  <2>2. i # n
    BY <1>1, <2>1
  <2>3. \E k \in DOMAIN log : Stored(Primary, k) /\ \A m \in Kept : m <= k
    BY DEF HistoryInv
  <2>4. i <= n
    BY <1>1, <1>2, <2>1, <2>3 DEF Stored, Is
  <2> QED
    BY <1>1, <1>4, <2>1, <2>2, <2>4, LogIs
<1>9. CASE b = None /\ ver'[Primary] = NoVersion
  <2>1. Free(Primary)' /\ Chain(Primary)' = {} /\ Chain(Primary) = {}
    <3>1. ver'[Primary].back = None /\ ver'[Primary].tra = 0
      BY <1>9 DEF NoVersion
    <3>2. ChainIn(ver', Primary) = {} /\ ChainIn(ver, Primary) = {}
      BY <1>1, <1>9, <3>1, RecordChain
    <3> QED
      BY <3>1, <3>2, RecordIs DEF Free
  <2>2. NothingBefore(n)
    BY <1>9 DEF Stored, SeenByAll
  <2>3. NothingBefore(n)'
    BY <1>1, <1>4, <2>2, BeforeStays
  <2>4. NothingBefore(Len(log) + 1)'
    <3> SUFFICES ASSUME NEW k \in DOMAIN log', LastBefore(Len(log) + 1, k)'
                 PROVE  (log[k].deleted /\ SeenByAll(log[k].tra))'
      BY DEF NothingBefore
    <3>1. k \in Kept' /\ (\A j \in KeptBefore(Len(log) + 1)' : j <= k)
      BY DEF LastBefore, KeptBefore
    <3>2. \A j \in Kept' : j < Len(log') + 1
      <4>1. \A j \in DOMAIN log' : j < Len(log') + 1
        <5>1. PICK h : h = log'
          OBVIOUS
        <5>2. h \in Seq([tra : Tra, read : -1 .. MaxTra, deleted : BOOLEAN])
          BY <5>1 DEF IInv, Typed
        <5>3. \A j \in DOMAIN h : j < Len(h) + 1
          BY <5>2
        <5> QED
          BY <5>1, <5>3
      <4> QED
        BY <4>1 DEF Kept
    <3>3. k < n /\ \A j \in KeptBefore(n)' : j <= k
      BY <1>7, <3>1, <3>2 DEF KeptBefore
    <3>4. LastBefore(n, k)'
      BY <3>1, <3>3 DEF LastBefore, KeptBefore
    <3> QED
      BY <2>3, <3>4 DEF NothingBefore
  <2>5. HistoryInv'
    BY <1>7, <2>1, <2>4 DEF HistoryInv
  <2>6. \A q \in Proc \ {p} : PlacesStay(q)
    BY <2>1 DEF PlacesStay
  <2> QED
    BY <1>6, <2>5, <2>6 DEF GoesOn, LastGone
<1>10. CASE b # None /\ ver'[Primary] = ver[b] /\ ver'[b] \in {ver[b], NoVersion}
  <2>1. b \in Slot
    BY <1>1, <1>10, RecordChain
  <2>2. /\ b \in Chain(Primary) /\ Chain(Primary)' = Chain(Primary) \ {b}
        /\ ~Free(b)
    BY <1>1, <1>10, <2>1, Forward
  <2>3. PICK m \in DOMAIN log : LastBefore(n, m) /\ Is(b, m)
    BY <1>10 DEF Stored
  <2>4. PICK i \in DOMAIN log : Stored(b, i) /\ i < n /\ i \in Kept
    BY <1>8, <2>2
  <2>5. i = m
    BY <1>2, <2>3, <2>4 DEF Stored, Is
  <2>6. \A s \in Chain(Primary) : /\ ver[s].back # None => /\ ver[s].back \in Chain(Primary)
                                                          /\ ver[s].back # b
                                  /\ s \in Place /\ s # Primary /\ s \in Slot
    <3> TAKE s \in Chain(Primary)
    <3>1. ver[s].back # None => ver[s].back \in Chain(Primary)
      BY RecordPlaces
    <3>2. Chain(Primary) = ChainIn(ver, b) /\ Falling(ver, Primary)
      BY <1>1, <1>10, RecordIs, RecordChain, RecordFalls
    <3>3. Falling(ver, b)
      BY <1>1, <1>10, <3>2, ChainFalls
    <3>4. b \in Place /\ s \in ChainIn(ver, b)
      BY <2>1, <3>2 DEF Place
    <3>5. ver[s].back # None => ver[s].back # b
      <4> SUFFICES ASSUME ver[s].back = b
                   PROVE  FALSE
        BY <1>10
      <4>0. b # None
        BY <1>10
      <4>1. ver[b].tra < ver[s].tra
        BY <3>3, <3>4, <4>0 DEF Falling
      <4>2. ver[b].tra \in Int /\ ver[s].tra \in Int
        BY <2>2, RecordPlaces DEF Tra
      <4>3. s # b
        BY <4>1, <4>2
      <4>4. ver[s].tra < ver[b].tra
        <5>1. ver[b].back # None
          BY <1>1, <3>4, <4>3, ChainSplit
        <5>2. s \in ChainIn(ver, ver[b].back)
          BY <1>1, <3>4, <4>3, <5>1, ChainSplit
        <5> QED
          BY <1>1, <3>3, <3>4, <5>1, <5>2, ChainFalls
      <4> QED
        BY <4>1, <4>2, <4>4
    <3>6. s \in Place /\ s # Primary /\ s \in Slot
      BY RecordPlaces DEF Place
    <3> QED
      BY <3>1, <3>5, <3>6
  <2>7. ASSUME NEW s \in Chain(Primary), NEW j \in DOMAIN log, Stored(s, j), j < n,
               NEW u \in Place, ver'[u] = ver[s]
        PROVE  Stored(u, j)'
    <3>1. ver[s].back # None => ver'[ver[s].back] = ver[ver[s].back]
      BY <2>6, <2>7
    <3>2. s \in Place /\ BeforeSame(j) /\ j \in DOMAIN log' /\ log'[j] = log[j]
      BY <1>1, <1>3, <1>4, <2>6, <2>7, LogIs DEF LastGone
    <3> QED
      BY <1>1, <2>7, <3>1, <3>2, StoredStays
  <2>8. Stored(Primary, m)' /\ m \in DOMAIN log' /\ ~Free(Primary)'
    BY <1>1, <1>10, <2>2, <2>4, <2>5, <2>7 DEF LastGone, Free
  <2>9. \A k \in Kept' : k <= m
    BY <2>3 DEF LastBefore, LastGone
  <2>10. \A s \in Chain(Primary)' : \E j \in DOMAIN log' : Stored(s, j)'
    <3> SUFFICES ASSUME NEW s \in Chain(Primary), s # b
                 PROVE  \E j \in DOMAIN log' : Stored(s, j)'
      BY <2>2
    <3>1. PICK j \in DOMAIN log : Stored(s, j) /\ j < n
      BY <1>8
    <3>2. ver'[s] = ver[s] /\ s \in Place
      BY <2>6
    <3>3. Stored(s, j)' /\ j \in DOMAIN log'
      BY <2>7, <3>1, <3>2 DEF LastGone
    <3> QED
      BY <3>3
  <2>11. HistoryInv'
    BY <1>7, <2>8, <2>9, <2>10 DEF HistoryInv
  <2>12. \A q \in Proc \ {p} : PlacesStay(q)
    <3> SUFFICES ASSUME NEW s \in Chain(Primary)
                 PROVE  \E u \in Chain(Primary)' \cup {Primary} :
                          ver'[u].tra = ver[s].tra /\ ver'[u].back = ver[s].back
      BY DEF PlacesStay
    <3>1. s # b => ver'[s] = ver[s] /\ s \in Chain(Primary)'
      BY <2>2, <2>6
    <3>2. s = b => ver'[Primary] = ver[s]
      BY <1>10
    <3> QED
      BY <3>1, <3>2
  <2> QED
    BY <1>6, <2>11, <2>12 DEF GoesOn, LastGone
<1> QED
  BY <1>9, <1>10


-----------------------------------------------------------------------------
(* An update more. *)

(* The history gets longer; nobody else sees the update. *)
LEMMA Appended ==
    ASSUME IInv, HistoryInv, NEW p \in Proc, Alone(p), tip' = tip, Active(p),
           at[p] # "release", ~req[p].wrote,
           NEW u \in Updates, u.tra = tra[p].number, log' = Append(log, u),
           NEW n, n = Len(log) + 1
    PROVE  /\ n \in DOMAIN log' /\ log'[n] = u /\ n \in Int /\ n \notin DOMAIN log
           /\ \A i \in DOMAIN log : i \in DOMAIN log' /\ log'[i] = log[i] /\ i < n
           /\ \A i \in DOMAIN log' : i = n \/ i \in DOMAIN log
           /\ Kept' = Kept \cup {n} /\ KeptBefore(n) = Kept
           /\ \A i \in DOMAIN log' : BeforeSame(i)
           /\ \A i, j \in DOMAIN log' : log'[i].tra = log'[j].tra => i = j
           /\ \A q \in Proc \ {p} : InSnapshot(q) => SameView(q)
<1>1. Typed /\ TraInv /\ FreshInv
  BY DEF IInv, TraInv
<1>2. PICK h : h = log'
  OBVIOUS
<1>3. log \in Seq(Updates) /\ Len(log) \in Nat /\ DOMAIN log = 1 .. Len(log)
  BY <1>1, LogIs
<1>4. /\ DOMAIN h = 1 .. Len(log) + 1 /\ h[Len(log) + 1] = u
      /\ \A i \in 1 .. Len(log) : h[i] = log[i]
  BY <1>2, <1>3, AppendProperties
<1>5. /\ n \in DOMAIN h /\ h[n] = u /\ n \in Int /\ n \notin DOMAIN log
      /\ \A i \in DOMAIN log : i \in DOMAIN h /\ h[i] = log[i] /\ i < n
      /\ \A i \in DOMAIN h : i = n \/ i \in DOMAIN log
      /\ \A i \in DOMAIN h : i <= n /\ i \in Int
  BY <1>3, <1>4
<1>6. tip[u.tra] = "active" /\ \A i \in DOMAIN log : log[i].tra # u.tra
  BY <1>1 DEF TraInv, NumbersInv, NumbersOf, FreshInv, Fresh
<1>7. Kept' = Kept \cup {n}
  BY <1>2, <1>5, <1>6 DEF Kept
<1>8. KeptBefore(n) = Kept
  BY <1>5 DEF KeptBefore, Kept
<1>9. ASSUME NEW i \in DOMAIN h
      PROVE  BeforeSame(i)
  <2>1. ~(n < i)
    BY <1>5
  <2>2. KeptBefore(i)' = KeptBefore(i)
    BY <1>5, <1>7, <1>9 DEF KeptBefore
  <2>3. \A k \in KeptBefore(i) : h[k] = log[k]
    BY <1>5 DEF KeptBefore, Kept
  <2> QED
    BY <1>2, <2>2, <2>3 DEF BeforeSame
<1>10. \A i, j \in DOMAIN log : log[i].tra = log[j].tra => i = j
  BY DEF HistoryInv
<1>11. \A i, j \in DOMAIN h : h[i].tra = h[j].tra => i = j
  BY <1>5, <1>6, <1>10
<1>12. ASSUME NEW q \in Proc \ {p}, InSnapshot(q)
       PROVE  SameView(q)
  <2>1. \A t : TRA_snapshot_state(q, t)' = TRA_snapshot_state(q, t)
    BY DEF Alone, TRA_snapshot_state
  <2>2. TRA_snapshot_state(q, u.tra) = "active"
    BY <1>1, <1>12, RunningActive
  <2>3. Visible(q)' = Visible(q)
    BY <1>2, <1>5, <2>1, <2>2 DEF Visible
  <2>4. \A k \in Visible(q) : h[k] = log[k] /\ k \in DOMAIN log
    BY <1>5 DEF Visible
  <2>5. \A k \in Visible(q) : \A i \in DOMAIN h : i < k => i \in DOMAIN log /\ h[i] = log[i]
    <3> TAKE k \in Visible(q)
    <3> TAKE i \in DOMAIN h
    <3> HAVE i < k
    <3>1. i \in Int /\ k \in Int /\ k < n
      BY <1>3, <1>5, <2>4
    <3>2. i # n
      BY <1>5, <3>1
    <3> QED
      BY <1>5, <3>2
  <2> QED
    BY <1>2, <2>3, <2>4, <2>5 DEF SameView
<1> QED
  BY <1>2, <1>5, <1>7, <1>8, <1>9, <1>11, <1>12

(* A new record. *)
LEMMA StoreGoesOn ==
    ASSUME VersionsAssumption, IInv, IInv', HistoryInv, NoLostUpdate, NEW p \in Proc,
           StepOf(p), VIO_store(p)
    PROVE  GoesOn(p)
<1>1. /\ Typed /\ TraInv /\ SeenStay /\ Alone(p) /\ tip' = tip /\ Active(p) /\ at[p] = "ready"
      /\ ver \in Versions /\ ver' \in Versions /\ Primary \in Place /\ ~req[p].wrote
      /\ Free(Primary)
  BY DEF IInv, TraInv, StepOf, VIO_store, Active, Typed, Versions, Place
<1>2. tra[p].number \in Tra /\ tra[p].number # 0
  BY <1>1, WriteTypes DEF Busy, Doing
<1>3. PICK u \in Updates : u = [tra |-> tra[p].number, read |-> 0, deleted |-> FALSE]
  <2>1. 0 \in -1 .. MaxTra
    BY VersionsAssumption
  <2> QED
    BY <1>2, <2>1 DEF Updates
<1>4. u.tra = tra[p].number /\ u.read = 0 /\ u.deleted = FALSE /\ log' = Append(log, u)
  BY <1>3 DEF VIO_store
<1>5. PICK n : n = Len(log) + 1
  OBVIOUS
<1>6. /\ n \in DOMAIN log' /\ log'[n] = u /\ n \in Int /\ n \notin DOMAIN log
      /\ \A i \in DOMAIN log : i \in DOMAIN log' /\ log'[i] = log[i] /\ i < n
      /\ \A i \in DOMAIN log' : i = n \/ i \in DOMAIN log
      /\ Kept' = Kept \cup {n} /\ KeptBefore(n) = Kept
      /\ \A i \in DOMAIN log' : BeforeSame(i)
      /\ \A i, j \in DOMAIN log' : log'[i].tra = log'[j].tra => i = j
      /\ \A q \in Proc \ {p} : InSnapshot(q) => SameView(q)
  BY <1>1, <1>4, <1>5, Appended
<1>7. NothingBefore(n)
  BY <1>1, <1>5 DEF HistoryInv
<1>8. \A i \in Kept : tip[log[i].tra] = "committed" /\ i \in DOMAIN log
  <2> TAKE i \in Kept
  <2>1. i \in DOMAIN log /\ log[i].tra # 0
    BY <1>1, LogIs DEF Kept
  <2> QED
    BY <1>1, <2>1 DEF HistoryInv, Free
<1>9. /\ ver'[Primary].tra = u.tra /\ ver'[Primary].back = None
      /\ ver'[Primary].deleted = FALSE /\ u.tra # 0
  BY <1>1, <1>2, <1>4 DEF VIO_store, Versions, Version, NoVersion
<1>10. Chain(Primary)' = {} /\ Chain(Primary) = {} /\ ~Free(Primary)'
  BY <1>1, <1>9, RecordIs, RecordChain, RecordPlaces DEF Free
<1>11. Stored(Primary, n)'
  <2>1. Is(Primary, n)'
    BY <1>4, <1>6, <1>9 DEF Is
  <2>2. NothingBefore(n)'
    BY <1>1, <1>6, <1>7, BeforeStays
  <2> QED
    BY <1>9, <2>1, <2>2 DEF Stored
<1>12. HistoryInv'
  <2>1. \A i \in Kept' : tip'[log'[i].tra] = "committed" \/ log'[i].tra = ver'[Primary].tra
    BY <1>1, <1>6, <1>8, <1>9
  <2>2. \A k \in Kept' : k <= n
    <3> TAKE k \in Kept'
    <3>1. k \in DOMAIN log => k < n /\ k \in Int
      BY <1>1, <1>6, LogIs
    <3> QED
      BY <1>6, <1>8, <3>1
  <2> QED
    BY <1>6, <1>10, <1>11, <2>1, <2>2 DEF HistoryInv
<1>13. Shown(Kept) = 0
  <2>1. CASE Kept = {}
    BY <2>1 DEF Shown
  <2>2. CASE Kept # {}
    <3>1. PICK k \in Kept : \A j \in Kept : j <= k
      BY <1>1, <2>2, LargestIs DEF Kept
    <3>2. log[k].deleted
      BY <1>6, <1>7, <1>8, <3>1 DEF NothingBefore, LastBefore
    <3> QED
      BY <1>1, <3>1, <3>2, ShownIs DEF Kept
  <2> QED
    BY <2>1, <2>2
<1>14. NoLostUpdate'
  <2> SUFFICES ASSUME NEW i \in Kept'
               PROVE  log'[i].read = Shown(KeptBefore(i))'
    BY DEF NoLostUpdate
  <2>1. i \in DOMAIN log'
    BY DEF Kept
  <2>2. Shown(KeptBefore(i))' = Shown(KeptBefore(i))
    BY <1>1, <1>6, <2>1, BeforeStays
  <2>3. CASE i = n
    BY <1>4, <1>6, <1>13, <2>2, <2>3
  <2>4. CASE i \in Kept
    BY <1>6, <1>8, <2>2, <2>4 DEF NoLostUpdate
  <2> QED
    BY <1>6, <2>3, <2>4
<1>15. \A q : PlacesStay(q)
  BY <1>1, <1>10 DEF PlacesStay
<1> QED
  BY <1>6, <1>12, <1>14, <1>15 DEF GoesOn

(* A new version in front of the old one. *)
LEMMA ReplacedGoesOn ==
    ASSUME VersionsAssumption, IInv, IInv', HistoryInv, NoLostUpdate, NEW p \in Proc,
           StepOf(p), NEW s \in Slot, NEW kind, NEW delta, NEW old, old = ver[Primary],
           Replaced(p, s, old, kind, delta), at[p] \in {"ready", "write"}, ~req[p].wrote,
           tip' = tip, s \notin Chain(Primary),
           ~Free(Primary), ~ver[Primary].deleted, tip[ver[Primary].tra] = "committed",
           req[p].answer = ver[Primary].tra
    PROVE  GoesOn(p)
<1>1. /\ Typed /\ TraInv /\ SeenStay /\ Alone(p) /\ Active(p) /\ at[p] # "release"
      /\ ver \in Versions /\ ver' \in Versions /\ Primary \in Place /\ s \in Place
      /\ s # Primary /\ s # None /\ at[p] \in Busy
  BY DEF IInv, TraInv, StepOf, Active, Typed, Versions, Place, VersionsAssumption, Busy, Doing
<1>2. tra[p].number \in Tra /\ tra[p].number # 0 /\ req[p].answer \in -1 .. MaxTra
  BY <1>1, WriteTypes, OwnFields DEF Request
<1>e. PICK erased \in BOOLEAN : erased = (kind = "erase")
  OBVIOUS
<1>3. PICK u \in Updates : u = [tra |-> tra[p].number, read |-> req[p].answer,
                                deleted |-> erased]
  BY <1>2 DEF Updates
<1>4. /\ u.tra = tra[p].number /\ u.read = ver[Primary].tra /\ u.deleted = erased
      /\ log' = Append(log, u)
  BY <1>e, <1>3 DEF Replaced
<1>5. PICK n : n = Len(log) + 1
  OBVIOUS
<1>6. /\ n \in DOMAIN log' /\ log'[n] = u /\ n \in Int /\ n \notin DOMAIN log
      /\ \A i \in DOMAIN log : i \in DOMAIN log' /\ log'[i] = log[i] /\ i < n
      /\ \A i \in DOMAIN log' : i = n \/ i \in DOMAIN log
      /\ Kept' = Kept \cup {n} /\ KeptBefore(n) = Kept
      /\ \A i \in DOMAIN log' : BeforeSame(i)
      /\ \A i, j \in DOMAIN log' : log'[i].tra = log'[j].tra => i = j
      /\ \A q \in Proc \ {p} : InSnapshot(q) => SameView(q)
  BY <1>1, <1>4, <1>5, Appended
<1>7. PICK new : new = [tra |-> tra[p].number, back |-> s, deleted |-> erased,
                        delta |-> delta]
  OBVIOUS
<1>8. /\ ver'[Primary] = new /\ ver'[s] = ver[Primary]
      /\ \A t \in Place \ {s, Primary} : ver'[t] = ver[t]
  BY <1>e, <1>1, <1>7 DEF Replaced, Versions
<1>9. /\ ver'[Primary].tra = u.tra /\ ver'[Primary].back = s
      /\ ver'[Primary].deleted = u.deleted
  BY <1>4, <1>7, <1>8
<1>10. \A t \in Chain(Primary) : ver'[t] = ver[t] /\ t \in Place
  <2> TAKE t \in Chain(Primary)
  <2>1. t \in Place /\ t # Primary /\ t # s
    BY RecordPlaces DEF Place
  <2> QED
    BY <1>8, <2>1
<1>11. Chain(Primary)' = Chain(Primary) \cup {s}
  <2>1. Chain(Primary)' = ChainIn(ver', s)
    BY <1>1, <1>9, RecordIs, RecordChain
  <2>2. PICK b : b = ver[Primary].back
    OBVIOUS
  <2>3. ver'[s].back = b
    BY <1>8, <2>2
  <2>4. CASE b = None
    <3>1. ChainIn(ver', s) = {s} /\ Chain(Primary) = {}
      <4>1. ChainIn(ver', s) = {s} \cap Slot
        BY <1>1, <2>3, <2>4, ChainSplit
      <4>2. Chain(Primary) = {}
        BY <1>1, <2>2, <2>4, RecordIs, RecordChain
      <4> QED
        BY <4>1, <4>2
    <3> QED
      BY <2>1, <3>1
  <2>5. CASE b # None
    <3>1. Chain(Primary) = ChainIn(ver, b) /\ b \in Slot /\ b \in Place
      BY <1>1, <2>2, <2>5, RecordIs, RecordChain DEF Place
    <3>2. ChainIn(ver', s) = {s} \cup ChainIn(ver', b)
      BY <1>1, <2>3, <2>5, ChainSplit
    <3>3. ChainIn(ver', b) = ChainIn(ver, b)
      <4>1. \A t \in ChainIn(ver, b) \cup {b} : ver'[t].back = ver[t].back
        BY <1>10, <3>1, ChainSelf
      <4> QED
        BY <1>1, <3>1, <4>1, ChainSame
    <3> QED
      BY <2>1, <3>1, <3>2, <3>3
  <2> QED
    BY <2>4, <2>5
<1>12. PICK m \in DOMAIN log :
         /\ Stored(Primary, m) /\ log[m].tra = ver[Primary].tra
         /\ log[m].deleted = ver[Primary].deleted /\ \A k \in Kept : k <= m
  BY <1>1, PrimaryIndex
<1>13. m \in Kept /\ m \in DOMAIN log'
  BY <1>6, <1>12 DEF Kept
<1>14. Stored(s, m)'
  <2>1. ver[Primary].back # None => ver'[ver[Primary].back] = ver[ver[Primary].back]
    BY <1>10, RecordPlaces
  <2> QED
    BY <1>1, <1>6, <1>8, <1>12, <1>13, <2>1, StoredStays
<1>15. Stored(Primary, n)'
  <2>1. Is(Primary, n)'
    BY <1>6, <1>9 DEF Is
  <2>2. Is(s, m)'
    BY <1>14 DEF Stored
  <2>3. KeptBefore(n)' = Kept
    BY <1>6 DEF BeforeSame
  <2>4. LastBefore(n, m)'
    BY <1>12, <1>13, <2>3 DEF LastBefore
  <2>5. Is(ver[Primary].back, m)'
    BY <1>9, <2>2
  <2> QED
    BY <1>1, <1>9, <1>13, <2>1, <2>4, <2>5 DEF Stored
<1>16. HistoryInv'
  <2>1. \A i \in Kept' : tip'[log'[i].tra] = "committed" \/ log'[i].tra = ver'[Primary].tra
    <3> TAKE i \in Kept'
    <3>1. i \in Kept => /\ i \in DOMAIN log
                        /\ tip[log[i].tra] = "committed" \/ log[i].tra = ver[Primary].tra
      BY DEF HistoryInv, Kept
    <3> QED
      BY <1>6, <1>9, <3>1
  <2>2. \A k \in Kept' : k <= n
    <3> TAKE k \in Kept'
    <3>1. k \in Kept => k < n /\ k \in Int
      BY <1>1, <1>6, LogIs DEF Kept
    <3> QED
      BY <1>6, <3>1
  <2>3. \A t \in Chain(Primary)' : \E i \in DOMAIN log' : Stored(t, i)'
    <3> TAKE t \in Chain(Primary)'
    <3>1. CASE t = s
      BY <1>13, <1>14, <3>1
    <3>2. CASE t \in Chain(Primary)
      <4>1. PICK i \in DOMAIN log : Stored(t, i)
        BY <3>2, ChainIndex
      <4>2. ver[t].back # None => ver'[ver[t].back] = ver[ver[t].back]
        BY <1>10, <3>2, RecordPlaces
      <4>3. Stored(t, i)' /\ i \in DOMAIN log'
        BY <1>1, <1>6, <1>10, <3>2, <4>1, <4>2, StoredStays
      <4> QED
        BY <4>3
    <3> QED
      BY <1>11, <3>1, <3>2
  <2>4. ~Free(Primary)'
    BY <1>2, <1>4, <1>9 DEF Free
  <2> QED
    BY <1>6, <1>15, <2>1, <2>2, <2>3, <2>4 DEF HistoryInv
<1>17. Shown(Kept) = ver[Primary].tra
  BY <1>1, <1>12, <1>13, ShownIs DEF Kept
<1>18. NoLostUpdate'
  <2> SUFFICES ASSUME NEW i \in Kept'
               PROVE  log'[i].read = Shown(KeptBefore(i))'
    BY DEF NoLostUpdate
  <2>1. i \in DOMAIN log'
    BY DEF Kept
  <2>2. Shown(KeptBefore(i))' = Shown(KeptBefore(i))
    BY <1>1, <1>6, <2>1, BeforeStays
  <2>3. CASE i = n
    BY <1>4, <1>6, <1>17, <2>2, <2>3
  <2>4. CASE i \in Kept
    BY <1>6, <2>2, <2>4 DEF NoLostUpdate, Kept
  <2> QED
    BY <1>6, <2>3, <2>4
<1>19. \A q : PlacesStay(q)
  <2> TAKE q
  <2> SUFFICES ASSUME NEW t \in Chain(Primary) \cup {Primary}
               PROVE  \E v \in Chain(Primary)' \cup {Primary} :
                        ver'[v].tra = ver[t].tra /\ ver'[v].back = ver[t].back
    BY DEF PlacesStay
  <2>1. CASE t = Primary
    BY <1>8, <1>11, <2>1
  <2>2. CASE t \in Chain(Primary)
    BY <1>10, <1>11, <2>2
  <2> QED
    BY <2>1, <2>2
<1> QED
  BY <1>6, <1>16, <1>18, <1>19 DEF GoesOn


-----------------------------------------------------------------------------
(* What each action does to the history. *)

(* What a process has in hand is not in the record. *)
LEMMA HeldApart ==
    ASSUME VersionsAssumption, IInv, NEW p \in Proc, NEW s \in Held(p)
    PROVE  s \in Slot /\ s # Primary /\ s \notin Chain(Primary)
<1>1. Typed /\ HandOf(p) /\ RequestOf(p) /\ ver \in Versions
  BY DEF IInv, HandInv, RequestInv, Typed, Versions
<1>2. rpb[p].v.back \in Slot \cup {None} /\ req[p] \in Request
  BY <1>1, OwnFields DEF Version
<1>3. at[p] = "backout_delete" => rpb[p].v.back # None
  BY <1>1 DEF RequestOf
<1>4. Held(p) \subseteq Slot
  BY <1>1, <1>2, <1>3, HeldIs, HeldSlots
<1> QED
  BY <1>1, <1>4 DEF HandOf, VersionsAssumption

(* A process purges, *)
LEMMA PurgeGoesOn ==
    ASSUME VersionsAssumption, IInv, IInv', StartInv, HistoryInv, NoLostUpdate,
           NEW p \in Proc, StepOf(p), AnswerOf(p), purge(p)
    PROVE  GoesOn(p)
<1>1. /\ at[p] = "purge" /\ UNCHANGED <<hdr, tip, lck, dbb, tra, rpb, log, crashes>>
      /\ ver \in Versions /\ Primary \in Place
  BY DEF IInv, purge, Typed, Versions, Place
<1>2. CASE ver' = ver
  BY <1>1, <1>2, UntouchedGoesOn
<1>3. CASE ver' # ver
  <2>1. /\ ~Free(Primary) /\ Same(p)
        /\ ver' = [ver EXCEPT ![Primary].back = None, ![Primary].delta = FALSE]
    BY <1>3 DEF purge
  <2>2. Collectable(p, rpb[p].v) /\ tip[rpb[p].v.tra] = "committed"
    BY <1>1 DEF AnswerOf, IInv, ActInv, ActOf
  <2>3. Safe(tra[p].tra_oldest_active)
    BY <1>1 DEF StartInv, StartOf, Ready
  <2>4. tip[ver[Primary].tra] = "committed" /\ ver[Primary].tra < tra[p].tra_oldest_active
    BY <2>1, <2>2 DEF Same, Collectable
  <2>5. /\ ver'[Primary].tra = ver[Primary].tra /\ ver'[Primary].back = None
        /\ ver'[Primary].deleted = ver[Primary].deleted
    BY <1>1, <2>1 DEF Versions, Version
  <2> QED
    BY <1>1, <2>1, <2>3, <2>4, <2>5, CutGoesOn
<1> QED
  BY <1>2, <1>3

(* expunges, *)
LEMMA ExpungeGoesOn ==
    ASSUME VersionsAssumption, IInv, IInv', StartInv, HistoryInv, NoLostUpdate,
           NEW p \in Proc, StepOf(p), expunge(p)
    PROVE  GoesOn(p)
<1>1. /\ at[p] = "expunge" /\ UNCHANGED <<hdr, tip, lck, dbb, tra, rpb, log, crashes>>
      /\ ver \in Versions /\ Primary \in Place
  BY DEF IInv, expunge, Typed, Versions, Place
<1>2. CASE ver' = ver
  BY <1>1, <1>2, UntouchedGoesOn
<1>3. CASE ver' # ver
  <2>1. /\ ~Free(Primary) /\ ver[Primary].deleted /\ Collectable(p, ver[Primary])
        /\ ver' = [ver EXCEPT ![Primary] = NoVersion]
    BY <1>3 DEF expunge
  <2>2. Safe(tra[p].tra_oldest_active)
    BY <1>1 DEF StartInv, StartOf, Ready
  <2>3. tip[ver[Primary].tra] = "committed" /\ ver[Primary].tra < tra[p].tra_oldest_active
    BY <1>1, <2>1 DEF IInv, ActInv, ActOf, Collectable
  <2>4. ver'[Primary] = NoVersion
    BY <1>1, <2>1 DEF Versions
  <2> QED
    BY <1>1, <2>1, <2>2, <2>3, <2>4, CutGoesOn
<1> QED
  BY <1>2, <1>3

(* changes a place that is not the record's, *)
LEMMA ElsewhereGoesOn ==
    ASSUME VersionsAssumption, IInv, IInv', HistoryInv, NoLostUpdate,
           NEW p \in Proc, StepOf(p), log' = log, NEW s \in Slot, s \in Held(p) \/ Free(s),
           NEW w, ver' = [ver EXCEPT ![s] = w]
    PROVE  GoesOn(p)
<1>1. s # Primary /\ s \notin Chain(Primary)
  BY HeldApart, RecordPlaces DEF VersionsAssumption
<1>2. /\ ver \in Versions /\ Primary \in Place /\ Chain(Primary) \subseteq Place
  BY RecordPlaces DEF IInv, Typed, Versions, Place
<1>3. ver'[Primary] = ver[Primary] /\ \A t \in Chain(Primary) : ver'[t] = ver[t]
  BY <1>1, <1>2 DEF Versions
<1> QED
  BY <1>3, UntouchedGoesOn

(* puts an old version back, *)
LEMMA BackoutWriteGoesOn ==
    ASSUME VersionsAssumption, IInv, IInv', HistoryInv, NoLostUpdate,
           NEW p \in Proc, StepOf(p), BackoutWrite(p)
    PROVE  GoesOn(p)
<1>1. /\ at[p] = "backout_write" /\ UNCHANGED <<hdr, tip, lck, dbb, tra, rpb, crashes>>
      /\ ver \in Versions /\ Primary \in Place /\ Typed /\ TraInv /\ Alone(p)
      /\ Active(p) /\ RequestOf(p) /\ ActOf(p)
  BY DEF IInv, BackoutWrite, Typed, Versions, Place, TraInv, StepOf, Active, RequestInv,
         ActInv
<1>2. CASE ver' = ver /\ log' = log
  BY <1>2, UntouchedGoesOn
<1>b. PICK b : b = rpb[p].v.back
  OBVIOUS
<1>3. CASE ~(ver' = ver /\ log' = log)
  <2>1. /\ ~Free(Primary) /\ Same(p)
        /\ \/ b = None /\ ver' = [ver EXCEPT ![Primary] = NoVersion]
           \/ b # None /\ ver' = [ver EXCEPT ![Primary] = req[p].old]
           \/ b # None /\ ver' = [ver EXCEPT ![Primary] = ver[b], ![b] = NoVersion]
        /\ log' = IF req[p].ret = "undone" THEN RemoveAt(log, UpdateOf(tra[p].number))
                  ELSE log
    BY <1>b, <1>3 DEF BackoutWrite
  <2>2. b = ver[Primary].back /\ ver[Primary].tra = rpb[p].v.tra
        /\ (b # None => req[p].old = ver[b])
    BY <1>b, <1>1, <2>1 DEF Same, ActOf
  <2>3. b # None => b \in Slot /\ b # Primary
    BY <2>2, RecordPlaces
  <2>4. /\ \/ b = None /\ ver'[Primary] = NoVersion
           \/ b # None /\ ver'[Primary] = ver[b] /\ ver'[b] \in {ver[b], NoVersion}
        /\ \A s \in Slot \ {b} : ver'[s] = ver[s]
    <3>1. \A s \in Slot : s \in Place /\ s # Primary
      BY DEF Place, VersionsAssumption
    <3> QED
      BY <1>1, <2>1, <2>2, <2>3, <3>1 DEF Versions
  <2>5. PICK n \in DOMAIN log : /\ Stored(Primary, n) /\ log[n].tra = ver[Primary].tra
                                /\ \A k \in Kept : k <= n
    BY <1>1, <2>1, PrimaryIndex
  <2>6. CASE req[p].wrote
    <3>1. ver[Primary].tra = tra[p].number /\ req[p].ret = "undone"
      BY <1>1, <2>6 DEF ActOf, RequestOf
    <3>2. tip[ver[Primary].tra] = "active"
      BY <1>1, <3>1 DEF TraInv, NumbersInv, NumbersOf
    <3>3. LastGone(p, n)
      BY <1>1, <2>1, <2>5, <3>1, UndoneGone
    <3> QED
      BY <1>1, <2>1, <2>2, <2>4, <2>5, <3>2, <3>3, BackoutGoesOn
  <2>7. CASE ~req[p].wrote
    <3>1. tip[ver[Primary].tra] = "dead" /\ log' = log
      BY <1>1, <2>1, <2>2, <2>7 DEF ActOf, RequestOf
    <3>2. LastGone(p, n)
      BY <1>1, <2>5, <3>1, DeadGone
    <3> QED
      BY <1>1, <2>1, <2>2, <2>4, <2>5, <3>1, <3>2, BackoutGoesOn
  <2> QED
    BY <2>6, <2>7
<1> QED
  BY <1>2, <1>3

(* erases the record on its own page, *)
LEMMA ChainUpdateGoesOn ==
    ASSUME VersionsAssumption, IInv, IInv', HistoryInv, NoLostUpdate,
           NEW p \in Proc, StepOf(p), AnswerOf(p), DPM_chain(p)
    PROVE  GoesOn(p)
<1>1. /\ at[p] = "ready" /\ ~req[p].wrote /\ req[p].answer > 0 /\ tip' = tip
      /\ ~Free(Primary) /\ Same(p)
  BY DEF DPM_chain, CanUpdate
<1>2. PICK s \in Slot : Free(s) /\ Replaced(p, s, ver[Primary], "erase", FALSE)
  BY DEF DPM_chain
<1>3. rpb[p].v.tra = req[p].answer /\ ver[Primary].tra = rpb[p].v.tra
  BY <1>1 DEF AnswerOf, Same
<1>4. tip[ver[Primary].tra] = "committed" /\ ~ver[Primary].deleted
  BY <1>1, <1>3 DEF IInv, ActInv, ActOf
<1>5. s \notin Chain(Primary)
  BY <1>2, RecordPlaces
<1> QED
  BY <1>1, <1>2, <1>3, <1>4, <1>5, ReplacedGoesOn

(* or tries to put its update in place. *)
LEMMA PrepareGoesOn ==
    ASSUME VersionsAssumption, IInv, IInv', HistoryInv, NoLostUpdate,
           NEW p \in Proc, StepOf(p), AnswerOf(p), prepare_update(p)
    PROVE  GoesOn(p)
<1>1. /\ at[p] = "write" /\ tip' = tip /\ Typed /\ TraInv /\ RequestOf(p) /\ InSnapshot(p)
      /\ req[p] \in Request
  BY OwnFields DEF prepare_update, IInv, TraInv, RequestInv, InSnapshot
<1>2. /\ req[p].temp # None /\ req[p].temp \in Slot /\ ~req[p].wrote
      /\ req[p].answer = Expected(p)
  <2>1. req[p].temp # None /\ ~req[p].wrote /\ req[p].answer > 0
    BY <1>1 DEF RequestOf
  <2> QED
    BY <1>1, <2>1 DEF AnswerOf, Request
<1>3. req[p].temp \in Held(p)
  BY <1>2 DEF Held
<1>4. CASE UNCHANGED <<ver, log>>
  BY <1>4, UntouchedGoesOn
<1>5. CASE ver' = [ver EXCEPT ![req[p].temp] = ver[Primary]] /\ log' = log
  BY <1>2, <1>3, <1>5, ElsewhereGoesOn
<1>6. CASE /\ ~Free(Primary) /\ TRA_snapshot_state(p, ver[Primary].tra) = "committed"
           /\ ~ver[Primary].deleted /\ Matches(p)
           /\ Replaced(p, req[p].temp, ver[req[p].temp], req[p].kind, req[p].delta)
  <2>1. ver[req[p].temp] = ver[Primary] /\ req[p].temp \notin Chain(Primary)
    BY <1>3, <1>6, HeldApart DEF Matches
  <2>2. ver[Primary].tra \in Tra
    BY <1>6, RecordPlaces
  <2>3. tip[ver[Primary].tra] = "committed"
    BY <1>1, <1>6, <2>2, SnapshotTrue
  <2>4. PICK n \in DOMAIN log : /\ log[n].tra = ver[Primary].tra
                                /\ log[n].deleted = ver[Primary].deleted
                                /\ LastIndex(p, n)
    BY <1>1, <1>6, PrimaryIndex
  <2>5. Expected(p) = ver[Primary].tra
    BY <1>1, <1>6, <2>4, SeesLast
  <2> QED
    BY <1>1, <1>2, <1>6, <2>1, <2>3, <2>5, ReplacedGoesOn
<1>7. \/ UNCHANGED <<ver, log>>
      \/ ver' = [ver EXCEPT ![req[p].temp] = ver[Primary]] /\ log' = log
      \/ /\ ~Free(Primary) /\ TRA_snapshot_state(p, ver[Primary].tra) = "committed"
         /\ ~ver[Primary].deleted /\ Matches(p)
         /\ Replaced(p, req[p].temp, ver[req[p].temp], req[p].kind, req[p].delta)
  BY PrepareCases
<1> QED
  BY <1>4, <1>5, <1>6, <1>7

(* Whatever an action does that leaves numbers, locks and snapshots alone. *)
LEMMA CalmGoesOn ==
    ASSUME VersionsAssumption, IInv, IInv', StartInv, HistoryInv, NoLostUpdate,
           NEW p \in Proc, StepOf(p), AnswerOf(p), CalmAction(p)
    PROVE  GoesOn(p)
<1>1. /\ req[p] \in Request /\ rpb[p].v.back \in Slot \cup {None} /\ RequestOf(p)
  BY OwnFields DEF IInv, RequestInv, Version
<1>2. CASE \/ Read(p) \/ ReadAgain(p) \/ VIO_chase_record_version(p) \/ Regain(p)
           \/ BackoutRead(p) \/ WaitDenied(p) \/ TRA_rollback(p)
  <2>1. ver' = ver /\ log' = log
    BY <1>2 DEF Read, ReadAgain, VIO_chase_record_version, Regain, BackoutRead, WaitDenied,
                TRA_rollback
  <2> QED
    BY <2>1, UntouchedGoesOn
<1>3. CASE garbage_collect(p)
  <2>1. CASE req[p].next # None
    <3>1. req[p].next \in Slot /\ at[p] = "collect"
      BY <1>1, <1>3, <2>1 DEF Request, garbage_collect
    <3>2. req[p].next \in Held(p)
      BY <2>1, <3>1, InHandChain, ChainIs, ChainSelf
    <3> QED
      BY <1>3, <2>1, <3>1, <3>2, ElsewhereGoesOn DEF garbage_collect
  <2>2. CASE req[p].next = None
    BY <1>3, <2>2, UntouchedGoesOn DEF garbage_collect
  <2> QED
    BY <2>1, <2>2
<1>4. CASE BackoutDelete(p)
  <2>1. rpb[p].v.back \in Held(p) /\ rpb[p].v.back \in Slot
    BY <1>1, <1>4 DEF BackoutDelete, Held, InHand, RequestOf
  <2> QED
    BY <1>4, <2>1, ElsewhereGoesOn DEF BackoutDelete
<1>5. CASE Discard(p)
  <2>1. req[p].temp \in Held(p) /\ req[p].temp \in Slot
    BY <1>1, <1>5 DEF Discard, Held, RequestOf, Request
  <2> QED
    BY <1>5, <2>1, ElsewhereGoesOn DEF Discard
<1>6. CASE Update(p)
  <2>1. PICK s \in Slot : Free(s) /\ (\E w : ver' = [ver EXCEPT ![s] = w]) /\ log' = log
    BY <1>6 DEF Update
  <2> QED
    BY <2>1, ElsewhereGoesOn
<1> QED
  BY <1>2, <1>3, <1>4, <1>5, <1>6, PurgeGoesOn, ExpungeGoesOn, BackoutWriteGoesOn,
     ChainUpdateGoesOn, PrepareGoesOn, StoreGoesOn DEF CalmAction


-----------------------------------------------------------------------------
(* What a step of one process is to a reader. *)

(* The page a reader looks at keeps what it has; nobody takes it for a copy of
   what it updates. *)
Apart(p) ==
    /\ \A s \in Slot : ver'[s] # ver[s] => ~Latched(s) \/ Free(s) \/ s = req[p].temp
    /\ req'[p].temp \in {None, req[p].temp} \/ Free(req'[p].temp)

(* The other processes go on as if nothing had happened. *)
LEMMA OthersRead ==
    ASSUME VersionsAssumption, IInv, NEW p \in Proc, StepOf(p), GoesOn(p), Apart(p),
           NEW q \in Proc \ {p}, WalkOf(q), AnswerOf(q), at[q] # "bugcheck"
    PROVE  WalkOf(q)' /\ AnswerOf(q)' /\ at'[q] # "bugcheck"
<1>1. /\ Typed /\ TraInv /\ EndsStay /\ RequestOf(q) /\ ReaderOf(q)
      /\ at'[q] = at[q] /\ tra'[q] = tra[q] /\ rpb'[q] = rpb[q] /\ req'[q] = req[q]
  BY DEF IInv, TraInv, StepOf, Alone, RequestInv, ReaderInv
<1>2. \A t : TRA_snapshot_state(q, t)' = TRA_snapshot_state(q, t)
  BY <1>1 DEF TRA_snapshot_state
<1>3. InSnapshot(q) => SameView(q) /\ PlacesStay(q)
  BY DEF GoesOn
<1>4. InSnapshot(q) => Expected(q)' = Expected(q)
  <2> HAVE InSnapshot(q)
  <2>1. Visible(q)' = Visible(q) /\ \A k \in Visible(q) : log'[k] = log[k]
    BY <1>3 DEF SameView
  <2>2. Visible(q) \subseteq DOMAIN log
    BY DEF Visible
  <2>3. ShownIn(log', Visible(q)) = ShownIn(log, Visible(q))
    BY <1>1, <2>1, <2>2, ShownSame
  <2> QED
    BY <2>1, <2>3, ShownPrimed
<1>5. AnswerOf(q)'
  <2>1. req[q].temp # None => InSnapshot(q)
    BY <1>1 DEF RequestOf, InSnapshot
  <2>2. at[q] \in {"ready", "purge", "expunge", "collect"} => InSnapshot(q)
    BY DEF InSnapshot
  <2>3. at'[q] = "purge" => Collectable(q, rpb[q].v)'
    BY <1>1 DEF AnswerOf, Collectable
  <2> QED
    BY <1>1, <1>4, <2>1, <2>2, <2>3 DEF AnswerOf
<1>6. WalkOf(q)'
  <2> SUFFICES ASSUME at[q] \in {"look", "regain"}, rpb[q].slot # Primary
               PROVE  WalkOf(q)'
    BY <1>1 DEF WalkOf
  <2>1. InSnapshot(q) /\ SameView(q) /\ PlacesStay(q)
    BY <1>3 DEF InSnapshot
  <2>2. PICK v : v = rpb[q].v
    OBVIOUS
  <2>3. PICK s : s = rpb[q].slot
    OBVIOUS
  <2>4. /\ tip[v.tra] = "committed" /\ v.tra # 0 /\ v.tra \in Tra
        /\ s \in Slot
    <3>1. v.tra \in 0 .. MaxTra /\ s \in Place \cup {None}
      BY <1>1, <2>2, <2>3, OwnFields
    <3>2. v.tra # 0 /\ s # None /\ s # Primary /\ tip[v.tra] = "committed"
      BY <1>1, <2>2, <2>3 DEF ReaderOf, WalkOf
    <3> QED
      BY <3>1, <3>2 DEF Place, Tra
  <2>5. tip'[v.tra] = "committed"
    BY <1>1, <2>4 DEF EndsStay
  <2>6. \E i \in DOMAIN log' : log'[i].tra = v.tra /\ ~log'[i].deleted
    <3>1. PICK i \in DOMAIN log : log[i].tra = v.tra /\ ~log[i].deleted
      BY <2>2 DEF WalkOf
    <3> QED
      BY <2>4, <3>1 DEF GoesOn
  <2>7. LastSeen(q, v.tra)'
    <3> SUFFICES ASSUME NEW i \in DOMAIN log', NEW k \in DOMAIN log', log'[i].tra = v.tra,
                        i < k, k \in Visible(q)'
                 PROVE  FALSE
      BY DEF LastSeen
    <3>1. k \in Visible(q) /\ k \in DOMAIN log /\ i \in DOMAIN log /\ log[i].tra = v.tra
      BY <2>1 DEF SameView, Visible
    <3> QED
      BY <2>2, <3>1 DEF WalkOf, LastSeen
  <2>8. at[q] = "look" => /\ ~Free(s)' /\ v = ver'[s]
                          /\ \A r \in Proc : req'[r].temp # s
    <3> HAVE at[q] = "look"
    <3>1. ~Free(s) /\ v = ver[s] /\ \A r \in Proc : req[r].temp # s
      BY <2>2, <2>3 DEF WalkOf
    <3>2. Latched(s)
      BY <2>3 DEF Latched
    <3>3. ver'[s] = ver[s]
      BY <2>4, <3>1, <3>2 DEF Apart
    <3>4. req'[p].temp # s
      BY <2>4, <3>1 DEF Apart, VersionsAssumption
    <3>5. \A r \in Proc \ {p} : req'[r].temp = req[r].temp
      BY DEF StepOf, Alone
    <3> QED
      BY <3>1, <3>3, <3>4, <3>5 DEF Free
  <2>9. TRA_snapshot_state(q, v.tra)' = "active" =>
          \E u \in Chain(Primary)' \cup {Primary} :
            ver'[u].tra = v.tra /\ ver'[u].back = v.back
    <3> HAVE TRA_snapshot_state(q, v.tra)' = "active"
    <3>1. PICK u \in Chain(Primary) \cup {Primary} :
            ver[u].tra = v.tra /\ ver[u].back = v.back
      BY <1>2, <2>2 DEF WalkOf
    <3>2. ~Free(u) /\ tip[ver[u].tra] = "committed"
            /\ TRA_snapshot_state(q, ver[u].tra) = "active"
      BY <1>2, <2>4, <3>1 DEF Free
    <3>3. PICK w \in Chain(Primary)' \cup {Primary} :
            ver'[w].tra = ver[u].tra /\ ver'[w].back = ver[u].back
      BY <2>1, <3>2 DEF PlacesStay
    <3> QED
      BY <3>1, <3>3
  <2>10. ~Free(rpb[q].slot)' <=> ~Free(s)'
    BY <1>1, <2>3 DEF Free
  <2> QED
    BY <1>1, <2>2, <2>3, <2>5, <2>6, <2>7, <2>8, <2>9, <2>10 DEF WalkOf
<1> QED
  BY <1>1, <1>5, <1>6

(* An action that changes no place, and stores nothing, is apart. *)
LEMMA QuietApart ==
    ASSUME NEW p \in Proc, ver' = ver, req'[p].temp \in {None, req[p].temp}
    PROVE  Apart(p)
BY DEF Apart

(* So is one that changes the primary version alone, or one more place. *)
LEMMA PlaceApart ==
    ASSUME VersionsAssumption, NEW p \in Proc, ver \in Versions, NEW s \in Place, NEW w,
           ver' = [ver EXCEPT ![s] = w],
           s = Primary \/ ~Latched(s) \/ Free(s) \/ s = req[p].temp,
           req'[p].temp \in {None, req[p].temp} \/ Free(req'[p].temp)
    PROVE  Apart(p)
<1>1. \A u \in Slot : ver'[u] # ver[u] => u = s /\ s # Primary
  BY DEF Versions, Place, VersionsAssumption
<1> QED
  BY <1>1 DEF Apart

(* Every action is. *)
LEMMA CalmApart ==
    ASSUME VersionsAssumption, IInv, NEW p \in Proc, CalmAction(p)
    PROVE  Apart(p)
<1>1. /\ ver \in Versions /\ req \in [Proc -> Request] /\ req[p] \in Request
      /\ Primary \in Place /\ Slot \subseteq Place /\ RequestOf(p)
      /\ rpb[p].v.back \in Slot \cup {None}
  BY OwnFields DEF IInv, RequestInv, Typed, Versions, Place, Version
<1>2. \A r, n : Answer(r, n).temp = None
  BY DEF Answer, NoRequest
<1>3. Written.temp = None
  BY DEF Written, NoRequest
<1>4. ASSUME UNCHANGED req
      PROVE  req'[p].temp \in {None, req[p].temp}
  BY <1>4
<1>5. ASSUME NEW n, Answers(p, n)
      PROVE  req'[p].temp \in {None, req[p].temp}
  BY <1>1, <1>2, <1>5 DEF Answers
<1>6. CASE Read(p) \/ ReadAgain(p)
  <2>1. PICK r : DPM_get(p, r) /\ ver' = ver
                   /\ (r = req[p] \/ r = [req[p] EXCEPT !.reads = @ + 1])
    BY <1>6 DEF Read, ReadAgain
  <2>2. r.temp = req[p].temp /\ [r EXCEPT !.answer = -1].temp = r.temp
    BY <1>1, <2>1 DEF Request
  <2>3. req'[p].temp \in {None, req[p].temp}
    <3>1. req'[p] = Answer(r, 0) \/ req'[p] = [r EXCEPT !.answer = -1]
      BY <1>1, <2>1 DEF DPM_get
    <3> QED
      BY <1>2, <2>2, <3>1
  <2> QED
    BY <2>1, <2>3, QuietApart
<1>7. CASE VIO_chase_record_version(p)
  <2>1. \/ UNCHANGED req
        \/ \E n : Answers(p, n)
        \/ req' = [req EXCEPT ![p].ret = "get"]
    BY <1>7 DEF VIO_chase_record_version, DPM_fetch_back
  <2>2. req'[p].temp \in {None, req[p].temp} /\ ver' = ver
    BY <1>1, <1>5, <1>7, <2>1 DEF Request, VIO_chase_record_version
  <2> QED
    BY <2>2, QuietApart
<1>8. CASE Regain(p)
  <2>1. (UNCHANGED req \/ Answers(p, 0)) /\ ver' = ver
    BY <1>8 DEF Regain, DPM_fetch_back
  <2> QED
    BY <1>5, <2>1, QuietApart
<1>9. CASE purge(p)
  <2>1. \/ UNCHANGED <<ver, req>>
        \/ /\ ver' = [ver EXCEPT ![Primary].back = None, ![Primary].delta = FALSE]
           /\ req' = [req EXCEPT ![p].next = rpb[p].v.back, ![p].ret = "get"]
    BY <1>9 DEF purge
  <2>2. req'[p].temp \in {None, req[p].temp}
    BY <1>1, <2>1 DEF Request
  <2>3. \E w : ver' = [ver EXCEPT ![Primary] = w]
    BY <1>1, <2>1 DEF Versions, Version
  <2> QED
    BY <1>1, <2>2, <2>3, PlaceApart
<1>10. CASE expunge(p)
  <2>1. \/ Answers(p, 0) /\ UNCHANGED ver
        \/ /\ ver' = [ver EXCEPT ![Primary] = NoVersion]
           /\ req' = [req EXCEPT ![p].next = ver[Primary].back, ![p].ret = "gone"]
    BY <1>10 DEF expunge
  <2>2. req'[p].temp \in {None, req[p].temp}
    BY <1>1, <1>5, <2>1 DEF Request
  <2> QED
    BY <1>1, <2>1, <2>2, PlaceApart, QuietApart
<1>11. CASE garbage_collect(p)
  <2>1. \/ /\ UNCHANGED ver
           /\ Answers(p, 0) \/ UNCHANGED req
        \/ /\ req[p].next # None /\ ~Latched(req[p].next)
           /\ ver' = [ver EXCEPT ![req[p].next] = NoVersion]
           /\ req' = [req EXCEPT ![p].next = ver[req[p].next].back]
    BY <1>11 DEF garbage_collect
  <2>2. req'[p].temp \in {None, req[p].temp} /\ (req[p].next # None => req[p].next \in Place)
    BY <1>1, <1>5, <2>1 DEF Request
  <2> QED
    BY <1>1, <2>1, <2>2, PlaceApart, QuietApart
<1>12. CASE BackoutRead(p)
  <2>1. /\ ver' = ver
        /\ UNCHANGED req \/ \E o : req' = [req EXCEPT ![p].old = o]
    BY <1>12 DEF BackoutRead
  <2>2. req'[p].temp \in {None, req[p].temp}
    BY <1>1, <2>1 DEF Request
  <2> QED
    BY <2>1, <2>2, QuietApart
<1>13. CASE BackoutWrite(p)
  <2>b. PICK b : b = rpb[p].v.back
    OBVIOUS
  <2>1. /\ \/ ver' = ver \/ \E w : ver' = [ver EXCEPT ![Primary] = w]
           \/ /\ b # None /\ ~Latched(b)
              /\ ver' = [ver EXCEPT ![Primary] = ver[b], ![b] = NoVersion]
        /\ req' = [req EXCEPT ![p].old = NoVersion]
    BY <2>b, <1>13 DEF BackoutWrite
  <2>2. req'[p].temp \in {None, req[p].temp}
    BY <1>1, <2>1 DEF Request
  <2>3. \A u \in Slot : ver'[u] # ver[u] => ~Latched(u)
    <3>1. \A u \in Slot : u # Primary
      BY DEF VersionsAssumption
    <3> QED
      BY <1>1, <2>1, <3>1 DEF Versions
  <2> QED
    BY <2>2, <2>3 DEF Apart
<1>14. CASE BackoutDelete(p)
  <2>1. rpb[p].v.back \in Place
    BY <1>1, <1>14 DEF RequestOf, BackoutDelete
  <2> QED
    BY <1>1, <1>14, <2>1, PlaceApart DEF BackoutDelete
<1>15. CASE VIO_store(p)
  <2>1. req'[p].temp = None /\ \E w : ver' = [ver EXCEPT ![Primary] = w]
    BY <1>1, <1>3, <1>15 DEF VIO_store, Written
  <2> QED
    BY <1>1, <2>1, PlaceApart
<1>16. ASSUME NEW s \in Slot, NEW old, NEW kind, NEW d, Replaced(p, s, old, kind, d),
              Free(s) \/ s = req[p].temp
       PROVE  Apart(p)
  <2>1. req'[p].temp = None
    BY <1>1, <1>3, <1>16 DEF Replaced, Written
  <2>2. \A u \in Slot : ver'[u] # ver[u] => u = s
    BY <1>1, <1>16 DEF Replaced, Versions, VersionsAssumption
  <2> QED
    BY <1>16, <2>1, <2>2 DEF Apart
<1>17. CASE DPM_chain(p)
  BY <1>16, <1>17 DEF DPM_chain
<1>18. CASE Update(p)
  <2>1. PICK s \in Slot, k \in {"modify", "erase"}, d \in BOOLEAN :
          /\ Free(s) /\ \E w : ver' = [ver EXCEPT ![s] = w]
          /\ req' = [req EXCEPT ![p] = UpdateRequest(p, s, k, d)]
    BY <1>18, UpdateParts
  <2>2. req'[p].temp = s
    BY <1>1, <2>1 DEF Request, UpdateRequest
  <2> QED
    BY <1>1, <2>1, <2>2, PlaceApart
<1>19. CASE prepare_update(p)
  <2>1. req[p].temp \in Slot
    BY <1>1, <1>19 DEF RequestOf, prepare_update, Request
  <2>2. \/ UNCHANGED <<ver, req>>
        \/ req' = [req EXCEPT ![p].ret = "write"] /\ UNCHANGED ver
        \/ Replaced(p, req[p].temp, ver[req[p].temp], req[p].kind, req[p].delta)
        \/ ver' = [ver EXCEPT ![req[p].temp] = ver[Primary]] /\ UNCHANGED req
    BY <1>19, PrepareCases
  <2>3. CASE UNCHANGED <<ver, req>>
    BY <2>3, QuietApart
  <2>4. CASE req' = [req EXCEPT ![p].ret = "write"] /\ UNCHANGED ver
    <3>1. req'[p].temp = req[p].temp
      BY <1>1, <2>4 DEF Request
    <3> QED
      BY <2>4, <3>1, QuietApart
  <2>5. CASE Replaced(p, req[p].temp, ver[req[p].temp], req[p].kind, req[p].delta)
    BY <1>16, <2>1, <2>5
  <2>6. CASE ver' = [ver EXCEPT ![req[p].temp] = ver[Primary]] /\ UNCHANGED req
    BY <1>1, <2>1, <2>6, PlaceApart
  <2> QED
    BY <2>2, <2>3, <2>4, <2>5, <2>6
<1>20. CASE WaitDenied(p)
  BY <1>20, QuietApart DEF WaitDenied
<1>21. CASE Discard(p)
  <2>1. req[p].temp \in Slot /\ req'[p].temp = None
    BY <1>1, <1>2, <1>21 DEF RequestOf, Discard, Request
  <2> QED
    BY <1>1, <1>21, <2>1, PlaceApart DEF Discard
<1>22. CASE TRA_rollback(p) /\ at'[p] # "release"
  <2>1. /\ ver' = ver
        /\ req' = [req EXCEPT ![p].ret = "undone"] \/ req' = [req EXCEPT ![p] = NoRequest]
    BY <1>22 DEF TRA_rollback, TRA_set_state
  <2>2. req'[p].temp \in {None, req[p].temp}
    BY <1>1, <2>1 DEF Request, NoRequest
  <2> QED
    BY <2>1, <2>2, QuietApart
<1> QED
  BY <1>6, <1>7, <1>8, <1>9, <1>10, <1>11, <1>12, <1>13, <1>14, <1>15, <1>17, <1>18,
     <1>19, <1>20, <1>21, <1>22 DEF CalmAction


-----------------------------------------------------------------------------
(* What holds of the history. *)

(* The chain, the readers, the answers and the updates. *)
StoryInv == HistoryInv /\ WalkInv /\ AnswerInv /\ NoLostUpdate /\ NoBugcheck

(* A step of which each kind is known keeps all of it. *)
LEMMA StoryStep ==
    ASSUME VersionsAssumption, IInv, StoryInv, NEW p \in Proc, StepOf(p), GoesOn(p), Apart(p),
           WalkOf(p)', AnswerOf(p)', at'[p] # "bugcheck"
    PROVE  StoryInv'
<1>1. \A q \in Proc : WalkOf(q)' /\ AnswerOf(q)' /\ at'[q] # "bugcheck"
  <2> TAKE q \in Proc
  <2>1. CASE q = p
    BY <2>1
  <2>2. CASE q # p
    BY <2>2, OthersRead DEF StoryInv, WalkInv, AnswerInv, NoBugcheck
  <2> QED
    BY <2>1, <2>2
<1> QED
  BY <1>1 DEF StoryInv, WalkInv, AnswerInv, NoBugcheck, GoesOn

(* Starting, waiting and ending leave the record alone. *)
LEMMA RestStep ==
    ASSUME VersionsAssumption, IInv, IInv', StartInv, StoryInv, NEW p \in Proc, StepOf(p),
           \/ StartAction(p) \/ TRA_wait(p) \/ EndAction(p)
           \/ TRA_release_transaction(p) \/ Crash(p)
    PROVE  StoryInv'
<1>1. AnswerOf(p) /\ HistoryInv /\ NoLostUpdate
  BY DEF StoryInv, AnswerInv
<1>2. WalkOf(p)' /\ AnswerOf(p)' /\ at'[p] # "bugcheck"
  BY <1>1, WaitOwn, RestOwn
<1>3. ver' = ver /\ log' = log
  <2>1. CASE TRA_wait(p) \/ EndAction(p) \/ TRA_release_transaction(p) \/ Crash(p)
    BY <2>1 DEF TRA_wait, EndAction, TRA_release_transaction, Crash
  <2>2. CASE StartAction(p)
    BY <2>2 DEF StartAction, TRA_start, TRA_get_inventory, Scan, Query, Settle
  <2> QED
    BY <2>1, <2>2
<1>4. GoesOn(p)
  BY <1>1, <1>3, UntouchedGoesOn
<1>5. req'[p].temp \in {None, req[p].temp}
  <2>1. /\ req \in [Proc -> Request] /\ req[p] \in Request /\ NoRequest.temp = None
    BY OwnFields DEF IInv, Typed, NoRequest
  <2>2. CASE TRA_wait(p)
    <3>1. \/ \E c : req' = [req EXCEPT ![p].conflict = c]
          \/ req' = [req EXCEPT ![p].ret = "write"]
      BY <2>2 DEF TRA_wait
    <3> QED
      BY <2>1, <3>1 DEF Request
  <2>3. CASE ~TRA_wait(p)
    <3>1. req' = req \/ req'[p] = NoRequest
      BY <2>1, <2>3 DEF EndAction, TRA_set_state, TRA_release_transaction, Crash, Ended,
                    StartAction, TRA_start, TRA_get_inventory, Scan, Query, Settle
    <3> QED
      BY <2>1, <3>1
  <2> QED
    BY <2>2, <2>3
<1> QED
  BY <1>2, <1>3, <1>4, <1>5, QuietApart, StoryStep

(* Every step keeps it. *)
LEMMA StoryKeeps ==
    ASSUME VersionsAssumption, StartsApart, IInv, IInv', StartInv, StoryInv, [Next]_vars
    PROVE  StoryInv'
<1>1. CASE UNCHANGED vars
  <2>1. UNCHANGED <<hdr, tip, lck, dbb, tra, ver, at, rpb, req, log, crashes>>
    BY <1>1 DEF vars
  <2>2. Chain(Primary)' = Chain(Primary)
    BY <2>1, RecordIs
  <2>3. \A t : SeenByAll(t)' <=> SeenByAll(t)
    BY <2>1 DEF SeenByAll, InSnapshot, TRA_snapshot_state
  <2>4. Kept' = Kept
    BY <2>1 DEF Kept
  <2>5. \A i : BeforeSame(i)
    BY <2>1, <2>4 DEF BeforeSame, KeptBefore
  <2>6. SeenStay /\ \A s \in Proc : \A t : LastSeen(s, t)' <=> LastSeen(s, t)
    BY <2>1, <2>3, StillSees DEF SeenStay
  <2>7. HistoryInv'
    <3>1. \A s, i : Stored(s, i) => Stored(s, i)'
      <4> SUFFICES ASSUME NEW s, NEW i, Stored(s, i)
                   PROVE  Stored(s, i)'
        OBVIOUS
      <4>1. Is(s, i)' /\ \A k : Is(ver[s].back, k) => Is(ver[s].back, k)'
        BY <2>1 DEF Stored, Is
      <4>2. NothingBefore(i) => NothingBefore(i)'
        BY <2>5, <2>6, BeforeStays
      <4>3. \A k : LastBefore(i, k) => LastBefore(i, k)'
        BY <2>5, <2>6, BeforeStays
      <4>4. SeenByAll(ver[s].tra) => SeenByAll(ver[s].tra)'
        <5>1. PICK t : t = ver[s].tra
          OBVIOUS
        <5>2. SeenByAll(t) => SeenByAll(t)'
          BY <2>3
        <5> QED
          BY <2>1, <5>1, <5>2
      <4> QED
        BY <2>1, <4>1, <4>2, <4>3, <4>4 DEF Stored
    <3>2. NothingBefore(Len(log) + 1) => NothingBefore(Len(log) + 1)'
      <4>1. PICK n : n = Len(log) + 1
        OBVIOUS
      <4>2. NothingBefore(n) => NothingBefore(n)'
        BY <2>5, <2>6, BeforeStays
      <4> QED
        BY <2>1, <4>1, <4>2
    <3> QED
      BY <2>1, <2>2, <2>4, <3>1, <3>2 DEF StoryInv, HistoryInv, Free
  <2>8. NoLostUpdate'
    BY <2>1, <2>4, <2>5, <2>6, BeforeStays DEF StoryInv, NoLostUpdate
  <2>9. \A q \in Proc : WalkOf(q)' /\ AnswerOf(q)'
    <3> TAKE q \in Proc
    <3>1. /\ Expected(q)' = Expected(q)
          /\ \A t : TRA_snapshot_state(q, t)' = TRA_snapshot_state(q, t)
      BY <2>1, StillSees
    <3>2. AnswerOf(q)'
      BY <2>1, <3>1 DEF StoryInv, AnswerInv, AnswerOf, Collectable
    <3>3. WalkOf(q)'
      <4>1. PICK v : v = rpb[q].v
        OBVIOUS
      <4>2. LastSeen(q, v.tra)' <=> LastSeen(q, v.tra)
        BY <2>6
      <4>3. TRA_snapshot_state(q, v.tra)' = TRA_snapshot_state(q, v.tra)
        BY <3>1
      <4>4. WalkOf(q)
        BY DEF StoryInv, WalkInv
      <4> QED
        BY <2>1, <2>2, <4>1, <4>2, <4>3, <4>4 DEF WalkOf, Free
    <3> QED
      BY <3>2, <3>3
  <2> QED
    BY <2>1, <2>7, <2>8, <2>9 DEF StoryInv, WalkInv, AnswerInv, NoBugcheck
<1>2. CASE Next
  <2>1. PICK p \in Proc :
          \/ StartAction(p) \/ CalmAction(p) \/ TRA_wait(p) \/ EndAction(p)
          \/ TRA_release_transaction(p) \/ Crash(p)
    BY <1>2, StepKinds
  <2>2. StepOf(p)
    BY <2>1, StartingStart, CalmStart, WaitStart, EndStart, EndedStart
  <2>3. CASE CalmAction(p)
    <3>1. HistoryInv /\ NoLostUpdate /\ WalkOf(p) /\ AnswerOf(p)
      BY DEF StoryInv, WalkInv, AnswerInv
    <3>2. WalkOf(p)' /\ AnswerOf(p)' /\ at'[p] # "bugcheck"
      BY <2>3, <3>1, CalmOwn
    <3>3. GoesOn(p)
      BY <2>2, <2>3, <3>1, CalmGoesOn
    <3>4. Apart(p)
      BY <2>3, CalmApart
    <3> QED
      BY <2>2, <3>2, <3>3, <3>4, StoryStep
  <2>4. CASE ~CalmAction(p)
    BY <2>1, <2>2, <2>4, RestStep
  <2> QED
    BY <2>3, <2>4
<1> QED
  BY <1>1, <1>2

(* At the beginning the record is what its only update made it. *)
LEMMA InitStory ==
    ASSUME VersionsAssumption, Init
    PROVE  StoryInv
<1>1. PICK f \in Firsts :
        /\ ver = [s \in Place |-> IF s = Primary THEN [NoVersion EXCEPT !.tra = f]
                                  ELSE NoVersion]
        /\ log = IF f = 0 THEN <<>> ELSE <<[tra |-> f, read |-> 0, deleted |-> FALSE]>>
  BY DEF Init
<1>2. /\ Primary \in Place /\ ver[Primary].tra = f /\ ver[Primary].back = None
      /\ ver[Primary].deleted = FALSE
  BY <1>1 DEF Place, NoVersion
<1>3. IInv /\ Typed /\ ver \in Versions
  BY InitInvariant DEF IInv, Typed, Versions
<1>4. Chain(Primary) = {}
  BY <1>2, <1>3, RecordIs, RecordChain
<1>5. \A q \in Proc : at[q] = "idle" /\ req[q] = NoRequest /\ ~InSnapshot(q)
  BY DEF Init, InSnapshot
<1>6. \A q \in Proc : WalkOf(q) /\ AnswerOf(q) /\ at[q] # "bugcheck"
  BY <1>5 DEF WalkOf, AnswerOf, NoRequest
<1>7. CASE f = 0
  <2>1. DOMAIN log = {}
    BY <1>1, <1>7
  <2>2. Kept = {} /\ Free(Primary)
    BY <1>2, <1>7, <2>1 DEF Kept, Free
  <2>3. HistoryInv /\ NoLostUpdate
    BY <1>4, <2>1, <2>2 DEF HistoryInv, NothingBefore, NoLostUpdate
  <2> QED
    BY <1>6, <2>3 DEF StoryInv, WalkInv, AnswerInv, NoBugcheck
<1>8. CASE f # 0
  <2>1. PICK u : u = [tra |-> f, read |-> 0, deleted |-> FALSE]
    OBVIOUS
  <2>2. u.tra = f /\ u.read = 0 /\ u.deleted = FALSE
    BY <2>1
  <2>3. log = <<u>> /\ DOMAIN log = {1} /\ log[1] = u
    <3>1. log = <<u>>
      BY <1>1, <1>8, <2>1
    <3>2. DOMAIN <<u>> = 1 .. 1 /\ <<u>>[1] = u
      OBVIOUS
    <3>3. \A i : i \in 1 .. 1 <=> i = 1
      OBVIOUS
    <3> QED
      BY <3>1, <3>2, <3>3
  <2>4. tip[f] = "committed"
    BY <1>8 DEF Init, VersionsAssumption, Tra
  <2>5. Kept = {1} /\ KeptBefore(1) = {}
    BY <2>2, <2>3, <2>4 DEF Kept, KeptBefore
  <2>6. Stored(Primary, 1)
    BY <1>2, <2>2, <2>3, <2>5 DEF Stored, Is, NothingBefore, LastBefore
  <2>7. HistoryInv
    BY <1>2, <1>4, <1>8, <2>2, <2>3, <2>4, <2>5, <2>6 DEF HistoryInv, Free
  <2>8. NoLostUpdate
    BY <2>2, <2>3, <2>5 DEF NoLostUpdate, Shown
  <2> QED
    BY <1>6, <2>7, <2>8 DEF StoryInv, WalkInv, AnswerInv, NoBugcheck
<1> QED
  BY <1>7, <1>8

(* If transactions start one at a time, all that SInv says holds: the record's
   chain is the end of the history, a reader finds its way in it, a process
   that updates has read what its snapshot shows. *)
THEOREM StoryInvariance ==
    StartsApart => (Spec => []SInv)
<1> SUFFICES ASSUME StartsApart
             PROVE  Spec => []SInv
  OBVIOUS
<1>1. Init => SInv
  BY VersionsAssumption, InitInvariant, InitStart, InitStory DEF SInv, StoryInv
<1>2. SInv /\ [Next]_vars => SInv'
  BY VersionsAssumption, NextKeeps, StartKeeps, StoryKeeps DEF SInv, StoryInv
<1> QED
  BY <1>1, <1>2, PTL DEF Spec

(* If transactions start one at a time, a read answers with the version of the
   snapshot, whatever other transactions update, delete, undo, back out, purge
   and expunge: VIO_chase_record_version finds what TRA_start promised, and
   tra_oldest_active keeps purge and expunge from what is still to be read. *)
THEOREM ReadsAreSnapshots ==
    StartsApart => (Spec => []SnapshotRead)
<1> SUFFICES ASSUME StartsApart
             PROVE  Spec => []SnapshotRead
  OBVIOUS
<1>1. SInv => SnapshotRead
  BY DEF SInv, AnswerInv, AnswerOf, SnapshotRead
<1> QED
  BY <1>1, StoryInvariance, PTL

(* If transactions start one at a time, of two transactions that update the
   record and do not die the second has read what the first wrote:
   prepare_update and DPM_chain let no update be overwritten unseen. *)
THEOREM NoUpdateIsLost ==
    StartsApart => (Spec => []NoLostUpdate)
<1> SUFFICES ASSUME StartsApart
             PROVE  Spec => []NoLostUpdate
  OBVIOUS
<1>1. SInv => NoLostUpdate
  BY DEF SInv
<1> QED
  BY <1>1, StoryInvariance, PTL

(* If transactions start one at a time, every variable has its type, a running
   transaction holds its lock, and no process runs into a bugcheck: no version
   a back pointer leads to has disappeared. *)
THEOREM NoVersionDisappears ==
    StartsApart => (Spec => []TypeOK)
<1> SUFFICES ASSUME StartsApart
             PROVE  Spec => []TypeOK
  OBVIOUS
<1>1. ASSUME SInv
      PROVE  TypeOK
  <2>1. Typed /\ NumbersInv /\ NoBugcheck
    BY <1>1 DEF SInv, IInv
  <2>2. \A p \in Proc : at[p] # "idle" => lck[tra[p].number] # 0
    BY <2>1 DEF NumbersInv, NumbersOf, Active
  <2>3. \A s \in Place : ver[s] \in [tra : 0 .. MaxTra, back : Slot \cup {None},
                                    deleted : BOOLEAN, delta : BOOLEAN]
    BY <2>1 DEF Typed, Version
  <2>4. /\ at \in [Proc -> Doing] /\ tip \in [Tra -> State] /\ lck \in [Tra -> 0 .. MaxTra]
        /\ hdr \in [next : Tra, oldest : 0 .. MaxTra, oldest_active : 0 .. MaxTra,
                    oldest_snapshot : 0 .. MaxTra]
    BY <2>1 DEF Typed
  <2>5. at \in [Proc -> Doing \ {"bugcheck"}]
    BY <2>1, <2>4 DEF NoBugcheck
  <2>6. Doing \ {"bugcheck"} =
          {"idle", "inventory", "scan", "query", "settle", "ready",
           "get", "look", "regain", "purge", "expunge", "collect",
           "backout", "backout_write", "backout_delete", "write",
           "wait", "discard", "undone", "release"}
    BY DEF Doing
  <2> QED
    BY <2>2, <2>3, <2>4, <2>5, <2>6 DEF TypeOK
<1>2. SInv => TypeOK
  BY <1>1
<1> QED
  BY <1>2, StoryInvariance, PTL
=============================================================================

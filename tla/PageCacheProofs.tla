-------------------------- MODULE PageCacheProofs --------------------------
(***************************************************************************)
(* What PageCache checks on small caches, proved for every number of       *)
(* processes, pages and transactions: the types with the use counts, that  *)
(* caches are coherent, that the precedence graph has no cycle, that a     *)
(* committed transaction is in the file, and that no page is written past  *)
(* a precedence block in force.                                            *)
(***************************************************************************)
EXTENDS PageCache, SequenceTheorems, WellFoundedInduction, TLAPS

USE DEF Asking

(* A buffer before it is known that its use count does not drop below      *)
(* zero; D is the set of changes made so far.                              *)
Raw(D) == [data : SUBSET D, flags : SUBSET Flag, transactions : SUBSET Tra,
           use : Int, lock : {LCK_none, LCK_read, LCK_write}]
Caches(D) == [Page -> Raw(D)]

-----------------------------------------------------------------------------
(* The operators on the buffers of one process. *)

(* Only the flags of page pg change. *)
Flagged(b, c, pg, fs) ==
    /\ c[pg].flags = fs
    /\ \A x \in Page : /\ c[x].data = b[x].data /\ c[x].transactions = b[x].transactions
                       /\ c[x].use = b[x].use /\ c[x].lock = b[x].lock
                       /\ x # pg => c[x].flags = b[x].flags

LEMMA SetFlags ==
    ASSUME NEW D, NEW b \in Caches(D), NEW pg \in Page, NEW fs \in SUBSET Flag
    PROVE  /\ Set(b, pg, fs) \in Caches(D)
           /\ Flagged(b, Set(b, pg, fs), pg, b[pg].flags \cup fs)
<1>1. b[pg] \in Raw(D) /\ [b[pg] EXCEPT !.flags = b[pg].flags \cup fs] \in Raw(D)
  BY DEF Caches, Raw
<1>2. Set(b, pg, fs) = [b EXCEPT ![pg] = [b[pg] EXCEPT !.flags = b[pg].flags \cup fs]]
  BY DEF Set
<1> QED
  BY <1>1, <1>2 DEF Caches, Raw, Flagged

LEMMA ClearFlags ==
    ASSUME NEW D, NEW b \in Caches(D), NEW pg \in Page, NEW fs
    PROVE  /\ Clear(b, pg, fs) \in Caches(D)
           /\ Flagged(b, Clear(b, pg, fs), pg, b[pg].flags \ fs)
<1>1. b[pg] \in Raw(D) /\ [b[pg] EXCEPT !.flags = b[pg].flags \ fs] \in Raw(D)
  BY DEF Caches, Raw
<1>2. Clear(b, pg, fs) = [b EXCEPT ![pg] = [b[pg] EXCEPT !.flags = b[pg].flags \ fs]]
  BY DEF Clear
<1> QED
  BY <1>1, <1>2 DEF Caches, Raw, Flagged

(* Only the use count of page pg changes. *)
Counted(b, c, pg, n) ==
    /\ c[pg].use = n
    /\ \A x \in Page : /\ c[x].data = b[x].data /\ c[x].transactions = b[x].transactions
                       /\ c[x].flags = b[x].flags /\ c[x].lock = b[x].lock
                       /\ x # pg => c[x].use = b[x].use

LEMMA LatchCounts ==
    ASSUME NEW D, NEW b \in Caches(D), NEW pg \in Page
    PROVE  /\ latch_bdb(b, pg) \in Caches(D) /\ release_bdb(b, pg) \in Caches(D)
           /\ Counted(b, latch_bdb(b, pg), pg, b[pg].use + 1)
           /\ Counted(b, release_bdb(b, pg), pg, b[pg].use - 1)
<1>1. /\ b[pg] \in Raw(D) /\ [b[pg] EXCEPT !.use = b[pg].use + 1] \in Raw(D)
      /\ [b[pg] EXCEPT !.use = b[pg].use - 1] \in Raw(D)
  BY DEF Caches, Raw
<1>2. /\ latch_bdb(b, pg) = [b EXCEPT ![pg] = [b[pg] EXCEPT !.use = b[pg].use + 1]]
      /\ release_bdb(b, pg) = [b EXCEPT ![pg] = [b[pg] EXCEPT !.use = b[pg].use - 1]]
  BY DEF latch_bdb, release_bdb
<1> QED
  BY <1>1, <1>2 DEF Caches, Raw, Counted

(* The page is clean, and has the level l. *)
Leveled(b, c, pg, l) ==
    /\ c[pg].lock = l
    /\ \A x \in Page : /\ c[x].data = b[x].data /\ c[x].transactions = b[x].transactions
                       /\ c[x].flags = b[x].flags /\ c[x].use = b[x].use
                       /\ x # pg => c[x].lock = b[x].lock

LEMMA LockLevels ==
    ASSUME NEW D, NEW b \in Caches(D), NEW pg \in Page,
           NEW l \in {LCK_none, LCK_read, LCK_write}
    PROVE  /\ [b EXCEPT ![pg].lock = l] \in Caches(D)
           /\ Leveled(b, [b EXCEPT ![pg].lock = l], pg, l)
<1>1. b[pg] \in Raw(D) /\ [b[pg] EXCEPT !.lock = l] \in Raw(D)
  BY DEF Caches, Raw
<1>2. [b EXCEPT ![pg].lock = l] = [b EXCEPT ![pg] = [b[pg] EXCEPT !.lock = l]]
  OBVIOUS
<1> QED
  BY <1>1, <1>2 DEF Caches, Raw, Leveled

(* write_page() leaves a clean buffer that no transaction has changed. *)
LEMMA WritePageEffect ==
    ASSUME NEW D, NEW b \in Caches(D), NEW pg \in Page
    PROVE  LET c == write_page(b, pg) IN
           /\ c \in Caches(D)
           /\ c[pg].flags = b[pg].flags \ {"dirty", "must_write"} /\ c[pg].transactions = {}
           /\ c[pg].data = b[pg].data /\ c[pg].use = b[pg].use /\ c[pg].lock = b[pg].lock
           /\ \A x \in Page \ {pg} : c[x] = b[x]
<1> DEFINE n == [b[pg] EXCEPT !.flags = b[pg].flags \ {"dirty", "must_write"},
                              !.transactions = {}]
<1>1. b[pg] \in Raw(D) /\ n \in Raw(D)
  BY DEF Caches, Raw
<1>2. write_page(b, pg) = [b EXCEPT ![pg] = n]
  BY DEF write_page
<1> QED
  BY <1>1, <1>2 DEF Caches, Raw

(* LCK_downgrade never raises a level. *)
LEMMA Downgrades ==
    ASSUME NEW p, NEW pg, NEW held \in {LCK_none, LCK_read, LCK_write}
    PROVE  /\ LCK_downgrade(p, pg, held) \in {LCK_none, LCK_read, LCK_write}
           /\ LCK_downgrade(p, pg, held) <= held
<1> DEFINE wanted == {main[q].level : q \in {r \in Proc \ {p} : Waits(r) /\ main[r].page = pg}}
           Good(l) == \A v \in wanted : Compatible(l, v)
           P(l) == Good(l) /\ \A m \in 0 .. held : Good(m) => m <= l
<1>1. Good(0)
  BY DEF Compatible, LCK_none
<1> HIDE DEF Good, wanted
<1>2. \E l \in 0 .. held : P(l)
  <2>1. held \in {0, 1, 2}
    BY DEF LCK_none, LCK_read, LCK_write
  <2>2. CASE held = 0
    BY <1>1, <2>2
  <2>3. CASE held = 1
    BY <1>1, <2>3
  <2>4. CASE held = 2
    BY <1>1, <2>4
  <2> QED
    BY <2>1, <2>2, <2>3, <2>4
<1>3. LCK_downgrade(p, pg, held) = CHOOSE l \in 0 .. held : P(l)
  BY DEF LCK_downgrade, Good, wanted
<1> HIDE DEF P
<1>4. LCK_downgrade(p, pg, held) \in 0 .. held
  BY <1>2, <1>3
<1> QED
  BY <1>4 DEF LCK_none, LCK_read, LCK_write

(* A stack or a list of frames, with and without its last element. *)
LEMMA SeqEnds ==
    ASSUME NEW T, NEW s \in Seq(T)
    PROVE  /\ Len(s) \in Nat /\ DOMAIN s = 1 .. Len(s)
           /\ s = <<>> <=> Len(s) = 0
           /\ \A x \in T : /\ Append(s, x) \in Seq(T) /\ Append(s, x) # <<>>
                           /\ Len(Append(s, x)) = Len(s) + 1
                           /\ Append(s, x)[Len(s) + 1] = x
                           /\ \A i \in 1 .. Len(s) : Append(s, x)[i] = s[i]
           /\ s # <<>> => LET f == SubSeq(s, 1, Len(s) - 1) IN
                          /\ f \in Seq(T) /\ Len(f) = Len(s) - 1 /\ DOMAIN f = 1 .. Len(s) - 1
                          /\ \A i \in 1 .. Len(s) - 1 : f[i] = s[i]
                          /\ s[Len(s)] \in T /\ s[1] \in T
                          /\ \A x \in T : LET g == [s EXCEPT ![Len(s)] = x] IN
                                /\ g \in Seq(T) /\ Len(g) = Len(s) /\ g[Len(s)] = x
                                /\ DOMAIN g = DOMAIN s /\ g # <<>>
                                /\ \A i \in 1 .. Len(s) - 1 : g[i] = s[i]
<1>1. Len(s) \in Nat /\ DOMAIN s = 1 .. Len(s) /\ (s = <<>> <=> Len(s) = 0)
  OBVIOUS
<1>2. \A x \in T : /\ Append(s, x) \in Seq(T) /\ Append(s, x) # <<>>
                   /\ Len(Append(s, x)) = Len(s) + 1
                   /\ Append(s, x)[Len(s) + 1] = x
                   /\ \A i \in 1 .. Len(s) : Append(s, x)[i] = s[i]
  OBVIOUS
<1>3. ASSUME s # <<>>
      PROVE  LET f == SubSeq(s, 1, Len(s) - 1) IN
             /\ f \in Seq(T) /\ Len(f) = Len(s) - 1 /\ DOMAIN f = 1 .. Len(s) - 1
             /\ \A i \in 1 .. Len(s) - 1 : f[i] = s[i]
  <2> DEFINE n == Len(s) - 1
  <2>1. n \in Nat /\ \A i \in 1 .. n : s[i] \in T
    BY <1>1, <1>3
  <2>2. /\ SubSeq(s, 1, n) \in Seq(T)
        /\ Len(SubSeq(s, 1, n)) = IF 1 <= n THEN n - 1 + 1 ELSE 0
        /\ \A i \in 1 .. n - 1 + 1 : SubSeq(s, 1, n)[i] = s[1 + i - 1]
    BY <2>1, SubSeqProperties, 1 \in Int, n \in Int
  <2> DEFINE f == SubSeq(s, 1, n)
  <2> HIDE DEF f
  <2>3. f \in Seq(T) /\ Len(f) = n
    <3>1. Len(f) = IF 1 <= n THEN n - 1 + 1 ELSE 0
      BY <2>2 DEF f
    <3>2. f \in Seq(T)
      BY <2>2 DEF f
    <3> HIDE DEF n
    <3> QED
      BY <2>1, <3>1, <3>2
  <2>4. \A i \in 1 .. n : f[i] = s[i]
    BY <2>1, <2>2 DEF f
  <2>5. DOMAIN f = 1 .. n
    BY <2>3
  <2> QED
    BY <2>3, <2>4, <2>5 DEF f
<1>4. ASSUME s # <<>>, NEW x \in T
      PROVE  LET g == [s EXCEPT ![Len(s)] = x] IN
             /\ g \in Seq(T) /\ Len(g) = Len(s) /\ g[Len(s)] = x
             /\ DOMAIN g = DOMAIN s /\ g # <<>>
             /\ \A i \in 1 .. Len(s) - 1 : g[i] = s[i]
  BY <1>4
<1>5. s # <<>> => s[Len(s)] \in T /\ s[1] \in T
  OBVIOUS
<1> QED
  BY <1>1, <1>2, <1>3, <1>4, <1>5


-----------------------------------------------------------------------------
(* One step of one process: its buffers, windows, main thread, stack and   *)
(* frames become b, w, m, s and a, and nobody else's change.               *)

Moves(p, b, w, m, s, a) ==
    /\ bdb' = [bdb EXCEPT ![p] = b] /\ windows' = [windows EXCEPT ![p] = w]
    /\ main' = [main EXCEPT ![p] = m] /\ stack' = [stack EXCEPT ![p] = s]
    /\ ast' = [ast EXCEPT ![p] = a]

(* The type invariant of what is not in Moves. *)
RestOK ==
    /\ disk \in [Page -> SUBSET DOMAIN changes]
    /\ changes \in Seq([page : Page, tra : Tra, needs : SUBSET DOMAIN changes])
    /\ lost \subseteq DOMAIN changes
    /\ tra_invalidated \subseteq Tra /\ committing \subseteq Tra /\ committed \subseteq Tra
    /\ pre \in [Proc -> SUBSET (Page \X Page)]
    /\ cleared \in [Proc -> SUBSET (Page \X Page)]
    /\ posted \in [Proc -> SUBSET Page]
    /\ refers \in [Proc -> [Page -> SUBSET DOMAIN changes]]
    /\ alive \subseteq Proc

LEMMA TypeParts ==
    /\ TypeOK <=> /\ RestOK /\ bdb \in [Proc -> [Page -> Buffer]]
                  /\ windows \in [Proc -> SUBSET Page] /\ stack \in [Proc -> Seq(Page)]
    /\ \A p \in Proc : bdb \in [Proc -> [Page -> Buffer]] => bdb[p] \in Caches(DOMAIN changes)
<1>1. {tra_invalidated, committing, committed} \subseteq SUBSET Tra
      <=> tra_invalidated \subseteq Tra /\ committing \subseteq Tra /\ committed \subseteq Tra
  BY Zenon
<1>2. Buffer \subseteq Raw(DOMAIN changes)
  BY DEF Buffer, Raw
<1> QED
  BY <1>1, <1>2 DEF TypeOK, RestOK, Caches

(* The use count is a sum of zeros and ones. *)
LEMMA LatchesNat ==
    ASSUME NEW w, NEW m, NEW s, NEW a, NEW pg
    PROVE  Latches(w, m, s, a, pg) \in Nat
  BY DEF Latches, One

LEMMA TypesKept ==
    ASSUME TypeOK, ThreadsOK, LocalInv, NEW p \in Proc,
           NEW b \in Caches(DOMAIN changes'), NEW w \in SUBSET Page, NEW m \in Threads(p),
           NEW s \in Seq(Page), NEW a \in Seq(Frames),
           Moves(p, b, w, m, s, a), Local(b, w, m, s, a), RestOK',
           DOMAIN changes \subseteq DOMAIN changes'
    PROVE  TypeOK' /\ ThreadsOK' /\ LocalInv'
<1>1. b \in [Page -> Buffer']
  <2>1. ASSUME NEW x \in Page PROVE b[x] \in Buffer'
    <3>1. b[x] \in Raw(DOMAIN changes')
      BY DEF Caches
    <3>2. b[x].use \in Nat
      BY LatchesNat DEF Local, LatchesExact
    <3> QED
      BY <3>1, <3>2 DEF Buffer, Raw
  <2> QED
    BY <2>1 DEF Caches
<1>2. Buffer \subseteq Buffer'
  BY DEF Buffer
<1>3. bdb' \in [Proc -> [Page -> Buffer']]
  <2>1. \A q \in Proc : bdb[q] \in [Page -> Buffer']
    BY <1>2, TypeParts
  <2> QED
    BY <1>1, <2>1, TypeParts DEF Moves
<1>4. TypeOK'
  <2>1. windows' \in [Proc -> SUBSET Page] /\ stack' \in [Proc -> Seq(Page)]
    BY TypeParts DEF Moves
  <2>2. {tra_invalidated, committing, committed}' \subseteq SUBSET Tra
    BY DEF RestOK
  <2> QED
    BY <1>3, <2>1, <2>2 DEF TypeOK, RestOK
<1>5. ThreadsOK'
  BY DEF Moves, ThreadsOK, Threads
<1>6. LocalInv'
  <2>1. ASSUME NEW q \in Proc
        PROVE  Local(bdb'[q], windows'[q], main'[q], stack'[q], ast'[q])
    <3>1. CASE q = p
      <4>1. bdb'[p] = b /\ windows'[p] = w /\ main'[p] = m /\ stack'[p] = s /\ ast'[p] = a
        BY TypeParts DEF Moves, ThreadsOK
      <4> QED
        BY <3>1, <4>1
    <3>2. CASE q # p
      <4>1. /\ bdb'[q] = bdb[q] /\ windows'[q] = windows[q] /\ main'[q] = main[q]
            /\ stack'[q] = stack[q] /\ ast'[q] = ast[q]
        BY <3>2, TypeParts DEF Moves, ThreadsOK
      <4> QED
        BY <4>1 DEF LocalInv
    <3> QED
      BY <3>1, <3>2
  <2> QED
    BY <2>1 DEF LocalInv
<1> QED
  BY <1>4, <1>5, <1>6

(* What the step does to page pg in the cache of p keeps the caches       *)
(* coherent: only a page that was dirty is written, and no lock is taken  *)
(* that another process is in the way of.                                 *)
PageKept(p, b, pg) ==
    /\ "dirty" \in b[pg].flags => b[pg].lock = LCK_write /\ disk'[pg] \subseteq b[pg].data
    /\ b[pg].lock # LCK_none /\ "dirty" \notin b[pg].flags => b[pg].data = disk'[pg]
    /\ disk'[pg] = disk[pg] \/ Has(bdb[p], pg, "dirty")
    /\ \A q \in Proc : q # p => Compatible(b[pg].lock, bdb[q][pg].lock)

LEMMA CacheKept ==
    ASSUME TypeOK, Coherent, LocksCompatible, NothingOverwritten, NEW p \in Proc,
           NEW b, bdb' = [bdb EXCEPT ![p] = b], \A pg \in Page : PageKept(p, b, pg)
    PROVE  Coherent' /\ LocksCompatible' /\ NothingOverwritten'
<1>1. bdb'[p] = b /\ \A q \in Proc : q # p => bdb'[q] = bdb[q]
  BY TypeParts
<1>2. ASSUME NEW q \in Proc, NEW pg \in Page, q # p
      PROVE  disk'[pg] = disk[pg] \/ bdb[q][pg].lock = LCK_none
  <2>1. PageKept(p, b, pg)
    OBVIOUS
  <2>2. CASE Has(bdb[p], pg, "dirty")
    <3>1. bdb[p][pg].lock = LCK_write
      BY <2>2 DEF Coherent, Has
    <3>2. Compatible(bdb[p][pg].lock, bdb[q][pg].lock)
      BY <1>2 DEF LocksCompatible
    <3> QED
      BY <3>1, <3>2 DEF Compatible, LCK_none, LCK_read, LCK_write
  <2> QED
    BY <2>1, <2>2 DEF PageKept
<1>3. ASSUME NEW q \in Proc, NEW pg \in Page, q # p
      PROVE  "dirty" \in bdb[q][pg].flags => disk'[pg] = disk[pg]
  BY <1>2, <1>3 DEF Coherent, LCK_none, LCK_write
<1>4. ASSUME NEW q \in Proc, NEW pg \in Page
      PROVE  LET c == bdb'[q][pg] IN
             /\ "dirty" \in c.flags => c.lock = LCK_write /\ disk'[pg] \subseteq c.data
             /\ c.lock # LCK_none /\ "dirty" \notin c.flags => c.data = disk'[pg]
  <2>1. CASE q = p
    BY <1>1, <2>1 DEF PageKept
  <2>2. CASE q # p
    BY <1>1, <1>2, <1>3, <2>2 DEF Coherent, NothingOverwritten, Has
  <2> QED
    BY <2>1, <2>2
<1>5. LocksCompatible'
  <2>1. ASSUME NEW q \in Proc, NEW r \in Proc, q # r, NEW pg \in Page
        PROVE  Compatible(bdb'[q][pg].lock, bdb'[r][pg].lock)
    <3>1. CASE q = p
      BY <1>1, <2>1, <3>1 DEF PageKept
    <3>2. CASE r = p
      <4>1. Compatible(b[pg].lock, bdb[q][pg].lock)
        BY <2>1, <3>2 DEF PageKept
      <4> QED
        BY <1>1, <2>1, <3>2, <4>1 DEF Compatible
    <3>3. CASE q # p /\ r # p
      BY <1>1, <2>1, <3>3 DEF LocksCompatible
    <3> QED
      BY <3>1, <3>2, <3>3
  <2> QED
    BY <2>1 DEF LocksCompatible
<1>6. Coherent'
  BY <1>4 DEF Coherent
<1>7. NothingOverwritten'
  BY <1>4 DEF NothingOverwritten, Has
<1> QED
  BY <1>5, <1>6, <1>7

(* What a change is. *)
LEMMA ChangeType ==
    ASSUME TypeOK, NEW c \in DOMAIN changes
    PROVE  /\ changes[c].page \in Page /\ changes[c].tra \in Tra
           /\ changes[c].needs \subseteq DOMAIN changes
<1> DEFINE T == [page : Page, tra : Tra, needs : SUBSET DOMAIN changes]
<1>1. changes \in Seq(T)
  BY DEF TypeOK
<1> HIDE DEF T
<1>2. changes[c] \in T
  BY <1>1
<1> QED
  BY <1>2 DEF T

(* No change is lost from page pg of process p: the page stays dirty, is  *)
(* written, or the transactions that changed it are invalidated.          *)
BufferKept(p, b, pg) ==
    Has(bdb[p], pg, "dirty") =>
        \/ /\ "dirty" \in b[pg].flags /\ bdb[p][pg].data \subseteq b[pg].data
           /\ bdb[p][pg].transactions \subseteq b[pg].transactions
        \/ bdb[p][pg].data \subseteq disk'[pg]
        \/ bdb[p][pg].transactions \subseteq tra_invalidated'

LEMMA ChangesStay ==
    ASSUME TypeOK, ChangesKept, Durable, NEW p \in Proc,
           NEW b, bdb' = [bdb EXCEPT ![p] = b],
           changes' = changes, alive' \subseteq alive, committed' = committed,
           tra_invalidated \subseteq tra_invalidated',
           \A pg \in Page : disk[pg] \subseteq disk'[pg],
           p \in alive' => \A pg \in Page : BufferKept(p, b, pg)
    PROVE  ChangesKept' /\ Durable'
<1>1. bdb'[p] = b /\ \A q \in Proc : q # p => bdb'[q] = bdb[q]
  BY TypeParts
<1>2. ASSUME NEW c \in DOMAIN changes
      PROVE  /\ changes[c].page \in Page
             /\ OnDisk(c) => c \in disk'[changes[c].page]
  <2>1. changes[c].page \in Page
    BY ChangeType
  <2> QED
    BY <2>1 DEF OnDisk
<1>3. alive \subseteq Proc
  BY DEF TypeOK
<1>4. ASSUME NEW q \in alive', NEW c \in DOMAIN changes, changes[c].tra \in TraOf[q],
             c \notin disk'[changes[c].page], changes[c].tra \notin tra_invalidated'
      PROVE  /\ "dirty" \in bdb'[q][changes[c].page].flags
             /\ c \in bdb'[q][changes[c].page].data
             /\ changes[c].tra \in bdb'[q][changes[c].page].transactions
  <2>1. /\ "dirty" \in bdb[q][changes[c].page].flags
        /\ c \in bdb[q][changes[c].page].data
        /\ changes[c].tra \in bdb[q][changes[c].page].transactions
    BY <1>2, <1>4 DEF ChangesKept, OnDisk
  <2>2. CASE q = p
    <3>1. BufferKept(p, b, changes[c].page)
      BY <1>2, <1>4, <2>2
    <3> QED
      BY <1>1, <1>4, <2>1, <2>2, <3>1 DEF BufferKept, Has
  <2>3. CASE q # p
    BY <1>1, <1>3, <2>1, <2>3
  <2> QED
    BY <2>2, <2>3
<1>5. ChangesKept'
  BY <1>4 DEF ChangesKept, OnDisk
<1>6. Durable'
  BY <1>2 DEF Durable, OnDisk
<1> QED
  BY <1>5, <1>6


(* Blocks are only freed: no page gets above another. *)
LEMMA AboveShrinks ==
    ASSUME TypeOK, NEW p \in Proc, NEW e \in SUBSET pre[p], pre' = [pre EXCEPT ![p] = e],
           NEW q \in Proc, NEW pg \in Page
    PROVE  Higher(q, pg)' \subseteq Higher(q, pg) /\ Above(q, pg)' \subseteq Above(q, pg)
<1>1. pre'[q] \subseteq pre[q]
  BY DEF TypeOK
<1>2. ASSUME NEW x \in Page PROVE Higher(q, x)' \subseteq Higher(q, x)
  BY <1>1 DEF Higher
<1>3. ASSUME NEW a \in Above(q, pg)' PROVE a \in Above(q, pg)
  <2>1. a \in Page
    BY <1>3 DEF Above
  <2>2. ASSUME NEW S \in SUBSET Page, \A x \in S \cup {pg} : Higher(q, x) \subseteq S
        PROVE  a \in S
    <3>1. \A x \in S \cup {pg} : Higher(q, x)' \subseteq S
      BY <1>2, <2>2
    <3>2. \A U \in SUBSET Page : (\A x \in U \cup {pg} : Higher(q, x)' \subseteq U) => a \in U
      BY <1>3 DEF Above
    <3> QED
      BY <3>1, <3>2
  <2> QED
    BY <2>1, <2>2 DEF Above
<1> QED
  BY <1>2, <1>3

(* PrecedenceFits in the next state, of the thread k of each process. *)
LEMMA FitsFromThreads ==
    ASSUME main' \in [Proc -> Main],
           \A q \in Proc, k \in Main :
               main'[q] = k /\ k.at = "precedence" =>
                   /\ k.high # k.page
                   /\ \/ stack'[q] # <<>> /\ stack'[q][1] = k.page
                      \/ k.page \notin Above(q, k.high)'
    PROVE  PrecedenceFits'
  BY DEF PrecedenceFits, related, Above, Higher

LEMMA OrderKept ==
    ASSUME TypeOK, ThreadsOK, PrecedenceAcyclic, PrecedenceFits, NEW p \in Proc,
           NEW b, NEW w, NEW m, NEW s, NEW a, Moves(p, b, w, m, s, a), m \in Main,
           NEW e \in SUBSET pre[p], pre' = [pre EXCEPT ![p] = e],
           m.at = "precedence" => \/ m = main[p] /\ s = stack[p]
                                  \/ /\ m.high # m.page
                                     /\ \/ s # <<>> /\ s[1] = m.page
                                        \/ m.page \notin Above(p, m.high)'
    PROVE  PrecedenceAcyclic' /\ PrecedenceFits'
<1>1. \A q \in Proc, pg \in Page : /\ Higher(q, pg)' \subseteq Higher(q, pg)
                                   /\ Above(q, pg)' \subseteq Above(q, pg)
  BY AboveShrinks
<1>2. PrecedenceAcyclic'
  <2>1. ASSUME NEW q \in Proc, NEW S \in SUBSET Page, S # {}
        PROVE  \E pg \in S : Higher(q, pg)' \cap S = {}
    <3>1. PICK pg \in S : Higher(q, pg) \cap S = {}
      BY <2>1 DEF PrecedenceAcyclic
    <3>2. Higher(q, pg)' \subseteq Higher(q, pg)
      BY <1>1
    <3> QED
      BY <3>1, <3>2
  <2> QED
    BY <2>1 DEF PrecedenceAcyclic
<1>3. PrecedenceFits'
  <2>1. ASSUME NEW q \in Proc, NEW k \in Main, main'[q] = k, k.at = "precedence"
        PROVE  /\ k.high # k.page
               /\ \/ stack'[q] # <<>> /\ stack'[q][1] = k.page
                  \/ k.page \notin Above(q, k.high)'
    <3>1. CASE main'[q] = main[q] /\ stack'[q] = stack[q]
      <4>1. main[q] = k /\ k.high \in Page
        BY <2>1, <3>1 DEF Main
      <4>2. Above(q, k.high)' \subseteq Above(q, k.high)
        BY <1>1, <4>1
      <4>3. /\ k.high # k.page
            /\ \/ stack[q] # <<>> /\ stack[q][1] = k.page
               \/ k.page \notin Above(q, k.high)
        BY <2>1, <4>1 DEF PrecedenceFits, related
      <4> QED
        BY <3>1, <4>2, <4>3
    <3>2. CASE q # p
      <4>1. main'[q] = main[q] /\ stack'[q] = stack[q]
        BY <3>2 DEF Moves, TypeOK, ThreadsOK
      <4> QED
        BY <3>1, <4>1
    <3>3. CASE q = p
      <4>1. m = k /\ stack'[q] = s
        BY <2>1, <3>3 DEF Moves, TypeOK, ThreadsOK
      <4> QED
        BY <2>1, <3>1, <3>3, <4>1
    <3> QED
      BY <3>2, <3>3
  <2>2. main' \in [Proc -> Main]
    BY DEF Moves, ThreadsOK
  <2> QED
    BY <2>1, <2>2, FitsFromThreads
<1> QED
  BY <1>2, <1>3

(* The frames of the others have seen what they had seen. *)
LEMMA SeenKept ==
    ASSUME TypeOK, ThreadsOK, HigherSeen, NEW p \in Proc,
           NEW b, NEW w, NEW m, NEW s, Moves(p, b, w, m, s, <<>>),
           NEW e, pre' = [pre EXCEPT ![p] = e]
    PROVE  HigherSeen'
<1>1. ASSUME NEW q \in Proc, NEW i \in DOMAIN ast'[q]
      PROVE  LET f == ast'[q][i] IN
             f.phase # "lower" /\ ~f.invalid /\ ~f.in_use =>
                \A hi \in Page : <<hi, f.page>> \in pre'[q] =>
                    \/ hi \in f.todo \/ "dirty" \notin bdb'[q][hi].flags
                    \/ f.phase = "called" /\ f.at = hi
  <2>1. q # p
    BY <1>1 DEF Moves, ThreadsOK
  <2>2. ast'[q] = ast[q] /\ pre'[q] = pre[q] /\ bdb'[q] = bdb[q]
    BY <2>1 DEF Moves, ThreadsOK, TypeOK
  <2> QED
    BY <1>1, <2>2 DEF HigherSeen, Higher, Has
<1> QED
  BY <1>1 DEF HigherSeen, Higher, Has

(* The step changes no contents, no lock and no dirtiness. *)
Same(b, c) ==
    \A x \in Page : /\ c[x].data = b[x].data /\ c[x].transactions = b[x].transactions
                    /\ c[x].lock = b[x].lock
                    /\ "dirty" \in c[x].flags <=> "dirty" \in b[x].flags

(* A step of the main thread. *)
LEMMA CalmStep ==
    ASSUME IInv, NEW p \in Proc,
           NEW b \in Caches(DOMAIN changes), NEW w \in SUBSET Page, NEW m \in Threads(p),
           NEW s \in Seq(Page), Moves(p, b, w, m, s, <<>>), Local(b, w, m, s, <<>>),
           \A pg \in Page : PageKept(p, b, pg) /\ disk[pg] \subseteq disk'[pg],
           p \in alive' => \A pg \in Page : BufferKept(p, b, pg),
           NEW e, pre' = [pre EXCEPT ![p] = e], PrecedenceAcyclic', PrecedenceFits',
           changes' = changes, tra_invalidated \subseteq tra_invalidated',
           committed' = committed, alive' \subseteq alive, RestOK'
    PROVE  IInv'
<1>1. /\ TypeOK /\ ThreadsOK /\ LocalInv /\ HigherSeen /\ Coherent /\ LocksCompatible
      /\ NothingOverwritten /\ ChangesKept /\ Durable
  BY DEF IInv
<1>2. bdb' = [bdb EXCEPT ![p] = b]
  BY DEF Moves
<1>3. TypeOK' /\ ThreadsOK' /\ LocalInv'
  <2>1. <<>> \in Seq(Frames)
    OBVIOUS
  <2> QED
    BY <1>1, <2>1, TypesKept
<1>4. HigherSeen'
  BY <1>1, SeenKept
<1>5. Coherent' /\ LocksCompatible' /\ NothingOverwritten'
  BY <1>1, <1>2, CacheKept
<1>6. ChangesKept' /\ Durable'
  BY <1>1, <1>2, ChangesStay
<1> QED
  BY <1>3, <1>4, <1>5, <1>6 DEF IInv

(* One that only latches, asks for a lock, sets flags or frees blocks. *)
LEMMA QuietStep ==
    ASSUME IInv, NEW p \in Proc,
           NEW b \in Caches(DOMAIN changes), NEW w \in SUBSET Page, NEW m \in Threads(p),
           NEW s \in Seq(Page), Moves(p, b, w, m, s, <<>>), Local(b, w, m, s, <<>>),
           Same(bdb[p], b), NEW e \in SUBSET pre[p], pre' = [pre EXCEPT ![p] = e],
           m.at = "precedence" => \/ m = main[p] /\ s = stack[p]
                                  \/ /\ m.high # m.page
                                     /\ \/ s # <<>> /\ s[1] = m.page
                                        \/ m.page \notin Above(p, m.high)',
           disk' = disk, changes' = changes, tra_invalidated' = tra_invalidated,
           committed' = committed, alive' \subseteq alive, RestOK'
    PROVE  IInv'
<1>1. /\ TypeOK /\ ThreadsOK /\ PrecedenceAcyclic /\ PrecedenceFits
      /\ Coherent /\ LocksCompatible /\ NothingOverwritten
  BY DEF IInv
<1>2. PrecedenceAcyclic' /\ PrecedenceFits'
  <2>1. m \in Main
    BY DEF Threads
  <2> QED
    BY <1>1, <2>1, OrderKept
<1>3. ASSUME NEW pg \in Page
      PROVE  PageKept(p, b, pg) /\ BufferKept(p, b, pg) /\ disk[pg] \subseteq disk'[pg]
  BY <1>1 DEF PageKept, BufferKept, Same, Coherent, LocksCompatible, NothingOverwritten, Has
<1> QED
  BY <1>2, <1>3, CalmStep


-----------------------------------------------------------------------------
(* The main thread, which runs only when no signal is being handled.       *)

(* What is known of a process between two steps. *)
LEMMA Steady ==
    ASSUME IInv, NEW p \in Proc
    PROVE  /\ TypeOK /\ RestOK /\ ThreadsOK /\ bdb[p] \in Caches(DOMAIN changes)
           /\ windows[p] \in SUBSET Page /\ main[p] \in Threads(p) /\ main[p] \in Main
           /\ stack[p] \in Seq(Page) /\ ast[p] \in Seq(Frames)
           /\ Local(bdb[p], windows[p], main[p], stack[p], ast[p])
           /\ \A x \in Page : "dirty" \in bdb[p][x].flags => bdb[p][x].lock = LCK_write
<1>1. TypeOK /\ ThreadsOK /\ LocalInv /\ Coherent
  BY DEF IInv
<1> QED
  BY <1>1, TypeParts DEF ThreadsOK, LocalInv, Coherent

(* Local, when there are no frames. *)
Latched(b, w, m, s) ==
    \A pg \in Page :
        b[pg].use = One(pg \in w) + One(s # <<>> /\ s[Len(s)] = pg) + One(pg \in Latching(m))

LEMMA LocalCalm ==
    ASSUME NEW b, NEW w, NEW m, NEW s
    PROVE  Local(b, w, m, s, <<>>) <=>
            /\ Latched(b, w, m, s) /\ WindowsLocked(b, w) /\ WaitFits(b, w, m, s)
            /\ ReuseFits(b, w, m, s) /\ FlushFits(b, m, s)
<1>1. FramePages(<<>>) = {}
  BY DEF FramePages
<1>2. FramesApart(b, w, m, s, <<>>)
  BY DEF FramesApart
<1>3. LatchesExact(b, w, m, s, <<>>) <=> Latched(b, w, m, s)
  BY <1>1 DEF LatchesExact, Latched, Latches, One
<1> QED
  BY <1>2, <1>3 DEF Local

(* The parts of the state a step of p leaves alone, as Moves has them. *)
LEMMA MovesFrom ==
    ASSUME IInv, NEW p \in Proc, NEW b, NEW w, NEW m, NEW s, NEW a,
           bdb' = [bdb EXCEPT ![p] = b] \/ (UNCHANGED bdb /\ b = bdb[p]),
           windows' = [windows EXCEPT ![p] = w] \/ (UNCHANGED windows /\ w = windows[p]),
           main' = [main EXCEPT ![p] = m] \/ (UNCHANGED main /\ m = main[p]),
           stack' = [stack EXCEPT ![p] = s] \/ (UNCHANGED stack /\ s = stack[p]),
           ast' = [ast EXCEPT ![p] = a] \/ (UNCHANGED ast /\ a = ast[p])
    PROVE  Moves(p, b, w, m, s, a)
<1>1. TypeOK /\ ThreadsOK
  BY DEF IInv
<1>2. bdb' = [bdb EXCEPT ![p] = b]
  BY <1>1 DEF TypeOK
<1>3. windows' = [windows EXCEPT ![p] = w] /\ stack' = [stack EXCEPT ![p] = s]
  BY <1>1 DEF TypeOK
<1>4. main' = [main EXCEPT ![p] = m] /\ ast' = [ast EXCEPT ![p] = a]
  BY <1>1 DEF ThreadsOK
<1> QED
  BY <1>2, <1>3, <1>4 DEF Moves

LEMMA SamePre ==
    ASSUME TypeOK, NEW p \in Proc, UNCHANGED pre
    PROVE  pre' = [pre EXCEPT ![p] = pre[p]] /\ pre[p] \in SUBSET pre[p]
  BY DEF TypeOK

(* lock_buffer(): the page is latched by the window or by the request. *)
LEMMA Locking ==
    ASSUME NEW D, NEW b \in Caches(D), NEW w \in SUBSET Page, NEW pg \in Page, pg \notin w,
           Latched(b, w \cup {pg}, Idle, <<>>), WindowsLocked(b, w),
           "dirty" \in b[pg].flags => b[pg].lock = LCK_write,
           NEW p, NEW m, NEW at \in {"wait", "convert"}
    PROVE  /\ b[pg].lock >= lock_type(b, pg) /\ m = Idle =>
                m \in Threads(p) /\ Local(b, w \cup {pg}, m, <<>>, <<>>)
           /\ ~(b[pg].lock >= lock_type(b, pg)) /\
              m = [at |-> at, page |-> pg, level |-> lock_type(b, pg)] =>
                m \in Threads(p) /\ Local(b, w, m, <<>>, <<>>)
<1>1. b[pg].lock \in {LCK_none, LCK_read, LCK_write} /\ b[pg].use \in Int
  BY DEF Caches, Raw
<1>2. ASSUME b[pg].lock >= lock_type(b, pg), m = Idle
      PROVE  m \in Threads(p) /\ Local(b, w \cup {pg}, m, <<>>, <<>>)
  <2>1. WindowsLocked(b, w \cup {pg})
    BY <1>1, <1>2 DEF WindowsLocked, Has, lock_type, LCK_none, LCK_read, LCK_write
  <2>2. m.at = "idle" /\ m \in Threads(p)
    BY <1>2 DEF Idle, Main, Threads
  <2> QED
    BY <1>2, <2>1, <2>2, LocalCalm DEF WaitFits, ReuseFits, FlushFits
<1>3. ASSUME ~(b[pg].lock >= lock_type(b, pg)),
             m = [at |-> at, page |-> pg, level |-> lock_type(b, pg)]
      PROVE  m \in Threads(p) /\ Local(b, w, m, <<>>, <<>>)
  <2>1. lock_type(b, pg) \in {LCK_read, LCK_write} /\ b[pg].lock < lock_type(b, pg)
    BY <1>1, <1>3 DEF lock_type, LCK_none, LCK_read, LCK_write
  <2>2. m.at \in {"wait", "convert"} /\ m.page = pg /\ m.level = lock_type(b, pg)
    BY <1>3
  <2>3. m \in Threads(p)
    BY <1>3, <2>1 DEF Main, Threads
  <2>4. Latched(b, w, m, <<>>)
    BY <2>2 DEF Latched, Latching, One, Idle
  <2>5. WaitFits(b, w, m, <<>>)
    BY <1>1, <2>1, <2>2 DEF WaitFits, Has, lock_type, LCK_none, LCK_read, LCK_write
  <2> QED
    BY <2>2, <2>3, <2>4, <2>5, LocalCalm DEF ReuseFits, FlushFits
<1> QED
  BY <1>2, <1>3


(* The threads lock_buffer() can leave: w and m. *)
LockedBy(p, b, w, m) ==
    /\ w \in SUBSET Page /\ m \in Threads(p) /\ m.at # "precedence"
    /\ Local(b, w, m, <<>>, <<>>)
    /\ windows' = [windows EXCEPT ![p] = w] \/ (UNCHANGED windows /\ w = windows[p])
    /\ main' = [main EXCEPT ![p] = m]

LEMMA LockBuffer ==
    ASSUME TypeOK, NEW p \in Proc, NEW D, NEW b \in Caches(D), NEW pg \in Page,
           windows[p] \in SUBSET Page, pg \notin windows[p],
           Latched(b, windows[p] \cup {pg}, Idle, <<>>), WindowsLocked(b, windows[p]),
           "dirty" \in b[pg].flags => b[pg].lock = LCK_write, lock_buffer(p, b, pg)
    PROVE  \E w, m : LockedBy(p, b, w, m)
<1>1. CASE b[pg].lock >= lock_type(b, pg)
  <2>1. PICK w : w = windows[p] \cup {pg}
    OBVIOUS
  <2>2. Idle \in Threads(p) /\ Local(b, w, Idle, <<>>, <<>>)
    BY <1>1, <2>1, Locking
  <2>3. windows' = [windows EXCEPT ![p] = w] /\ main' = [main EXCEPT ![p] = Idle]
    BY <1>1, <2>1 DEF lock_buffer
  <2>4. Idle.at # "precedence" /\ w \in SUBSET Page
    BY <2>1 DEF Idle
  <2>5. LockedBy(p, b, w, Idle)
    BY <2>2, <2>3, <2>4 DEF LockedBy
  <2> QED
    BY <2>5
<1>2. CASE ~(b[pg].lock >= lock_type(b, pg))
  <2>1. PICK w : w = windows[p]
    OBVIOUS
  <2>2. PICK at \in {"wait", "convert"} : at = IF b[pg].lock = LCK_none THEN "wait" ELSE "convert"
    OBVIOUS
  <2> DEFINE m == [at |-> at, page |-> pg, level |-> lock_type(b, pg)]
  <2>3. m \in Threads(p) /\ Local(b, w, m, <<>>, <<>>)
    BY <1>2, <2>1, <2>2, Locking
  <2>4. UNCHANGED windows /\ main' = [main EXCEPT ![p] = m]
    BY <1>2, <2>2, Zenon DEF lock_buffer
  <2>5. m.at # "precedence"
    BY <2>2
  <2>6. LockedBy(p, b, w, m)
    BY <2>1, <2>3, <2>4, <2>5 DEF LockedBy
  <2> QED
    BY <2>6
<1> QED
  BY <1>1, <1>2

LEMMA GetBufferStep ==
    ASSUME IInv, NEW p \in Proc, NEW pg \in Page, NEW level \in {LCK_read, LCK_write},
           get_buffer(p, pg, level)
    PROVE  IInv'
<1> DEFINE D == DOMAIN changes
<1> USE Steady
<1>1. /\ ast[p] = <<>> /\ stack[p] = <<>> /\ main[p] = Idle /\ pg \notin windows[p]
  BY DEF get_buffer, CanFetch, Ready, Calm
<1>2. FetchFlags(level) \in SUBSET Flag /\ "dirty" \notin FetchFlags(level)
  BY DEF FetchFlags, Flag
<1>3. PICK c : c = Set(bdb[p], pg, FetchFlags(level))
  OBVIOUS
<1>4. c \in Caches(D) /\ Flagged(bdb[p], c, pg, bdb[p][pg].flags \cup FetchFlags(level))
  BY <1>2, <1>3, SetFlags
<1>5. PICK b : b = latch_bdb(c, pg)
  OBVIOUS
<1>6. b \in Caches(D) /\ Counted(c, b, pg, c[pg].use + 1)
  BY <1>4, <1>5, LatchCounts
<1>7. Same(bdb[p], b)
  BY <1>2, <1>4, <1>6 DEF Same, Flagged, Counted
<1>8. Local(bdb[p], windows[p], Idle, <<>>, <<>>)
  BY <1>1
<1>9. Latched(bdb[p], windows[p], Idle, <<>>) /\ WindowsLocked(bdb[p], windows[p])
  BY <1>8, LocalCalm
<1>10. Latched(b, windows[p] \cup {pg}, Idle, <<>>)
  BY <1>1, <1>4, <1>6, <1>9 DEF Latched, Flagged, Counted, One, Latching, Idle
<1>11. WindowsLocked(b, windows[p])
  BY <1>1, <1>4, <1>6, <1>9 DEF WindowsLocked, Flagged, Counted, Has
<1>12. "dirty" \in b[pg].flags => b[pg].lock = LCK_write
  BY <1>7 DEF Same
<1>13. lock_buffer(p, b, pg)
  BY <1>3, <1>5 DEF get_buffer
<1>14. PICK w, m : LockedBy(p, b, w, m)
  BY <1>1, <1>6, <1>10, <1>11, <1>12, <1>13, LockBuffer
<1>15. Moves(p, b, w, m, <<>>, <<>>)
  BY <1>1, <1>13, <1>14, MovesFrom DEF lock_buffer, get_buffer, LockedBy
<1>16. pre' = [pre EXCEPT ![p] = pre[p]] /\ pre[p] \in SUBSET pre[p]
  BY SamePre DEF get_buffer
<1>17. /\ disk' = disk /\ changes' = changes /\ tra_invalidated' = tra_invalidated
       /\ committed' = committed /\ alive' \subseteq alive /\ RestOK'
  BY DEF get_buffer, file, RestOK
<1>18. <<>> \in Seq(Page)
  OBVIOUS
<1> QED
  BY <1>6, <1>7, <1>14, <1>15, <1>16, <1>17, <1>18, QuietStep DEF LockedBy


LEMMA GetOldestStep ==
    ASSUME IInv, NEW p \in Proc, NEW pg \in Page, NEW level \in {LCK_read, LCK_write},
           NEW oldest \in Page, get_buffer_oldest(p, pg, level, oldest)
    PROVE  IInv'
<1> DEFINE D == DOMAIN changes
<1> USE Steady
<1>1. /\ ast[p] = <<>> /\ stack[p] = <<>> /\ main[p] = Idle /\ pg \notin windows[p]
      /\ bdb[p][oldest].use = 0 /\ oldest # pg
  BY DEF get_buffer_oldest, CanFetch, Ready, Calm, Cached
<1>2. PICK c : c = latch_bdb(bdb[p], oldest)
  OBVIOUS
<1>3. c \in Caches(D) /\ Counted(bdb[p], c, oldest, bdb[p][oldest].use + 1)
  BY <1>2, LatchCounts
<1>4. PICK d : d = latch_bdb(c, oldest)
  OBVIOUS
<1>5. d \in Caches(D) /\ Counted(c, d, oldest, c[oldest].use + 1)
  BY <1>3, <1>4, LatchCounts
<1>6. PICK m : m = [at |-> "reuse", page |-> oldest, next |-> pg, level |-> level]
  OBVIOUS
<1>7. /\ m \in Threads(p) /\ m.at = "reuse" /\ m.page = oldest /\ m.next = pg
  BY <1>6 DEF Main, Threads
<1>8. Latched(bdb[p], windows[p], Idle, <<>>) /\ WindowsLocked(bdb[p], windows[p])
  BY <1>1, LocalCalm
<1>9. oldest \notin windows[p]
  BY <1>1, <1>8 DEF Latched, One
<1>10. PICK b, s : /\ bdb' = [bdb EXCEPT ![p] = b]
                   /\ stack' = [stack EXCEPT ![p] = s] \/ (UNCHANGED stack /\ s = stack[p])
                   /\ \/ b = d /\ s = <<oldest>>
                      \/ b = c /\ s = <<>> /\ ~Has(c, oldest, "dirty")
  BY <1>1, <1>2, <1>4, Zenon DEF get_buffer_oldest
<1>11. /\ s \in Seq(Page) /\ b \in Caches(D)
       /\ s # <<>> => Len(s) = 1 /\ s[1] = oldest
  <2>1. <<>> \in Seq(Page) /\ <<oldest>> \in Seq(Page)
    OBVIOUS
  <2>2. Len(<<oldest>>) = 1 /\ <<oldest>>[1] = oldest
    OBVIOUS
  <2> QED
    BY <1>3, <1>5, <1>10, <2>1, <2>2, Zenon
<1>12. Same(bdb[p], b)
  BY <1>3, <1>5, <1>10 DEF Same, Counted
<1>13. Local(b, windows[p], m, s, <<>>)
  <2>1. Latched(b, windows[p], m, s)
    <3>1. CASE b = d /\ s = <<oldest>>
      <4>1. s # <<>> /\ s[Len(s)] = oldest
        BY <3>1
      <4> HIDE <3>1
      <4>2. b = d
        BY <3>1
      <4> QED
        BY <1>1, <1>3, <1>5, <1>7, <1>8, <1>9, <4>1, <4>2 DEF Latched, Counted, One, Latching, Idle
    <3>2. CASE b = c /\ s = <<>>
      BY <1>1, <1>3, <1>7, <1>8, <1>9, <3>2 DEF Latched, Counted, One, Latching, Idle
    <3> QED
      BY <1>10, <3>1, <3>2
  <2>2. WindowsLocked(b, windows[p])
    BY <1>3, <1>5, <1>8, <1>10 DEF WindowsLocked, Counted, Has
  <2>3. ReuseFits(b, windows[p], m, s)
    BY <1>1, <1>7, <1>9, <1>10, <1>11 DEF ReuseFits
  <2> QED
    BY <1>7, <2>1, <2>2, <2>3, LocalCalm DEF WaitFits, FlushFits
<1>14. Moves(p, b, windows[p], m, s, <<>>)
  BY <1>1, <1>6, <1>10, MovesFrom DEF get_buffer_oldest
<1>15. pre' = [pre EXCEPT ![p] = pre[p]] /\ pre[p] \in SUBSET pre[p]
  BY SamePre DEF get_buffer_oldest
<1>16. /\ disk' = disk /\ changes' = changes /\ tra_invalidated' = tra_invalidated
       /\ committed' = committed /\ alive' \subseteq alive /\ RestOK'
  BY DEF get_buffer_oldest, file, RestOK
<1> QED
  BY <1>7, <1>11, <1>12, <1>13, <1>14, <1>15, <1>16, QuietStep

(* A buffer without a lock holds nothing that another could miss. *)
LEMMA FreeCompatible ==
    ASSUME NEW l
    PROVE  Compatible(LCK_none, l)
  BY DEF Compatible

LEMMA ReuseStep ==
    ASSUME IInv, NEW p \in Proc, Reuse(p)
    PROVE  IInv'
<1> DEFINE D == DOMAIN changes
<1> USE Steady
<1>1. ast[p] = <<>> /\ stack[p] = <<>> /\ main[p].at = "reuse"
  BY DEF Reuse, Ready, Calm
<1>2. PICK old, next, level : /\ old = main[p].page /\ next = main[p].next /\ level = main[p].level
                              /\ old \in Page /\ next \in Page
  BY <1>1 DEF Main
<1>3. Local(bdb[p], windows[p], main[p], <<>>, <<>>)
  BY <1>1
<1>4. /\ Latched(bdb[p], windows[p], main[p], <<>>) /\ WindowsLocked(bdb[p], windows[p])
      /\ ReuseFits(bdb[p], windows[p], main[p], <<>>)
  BY <1>3, LocalCalm
<1>5. /\ old \notin windows[p] /\ next \notin windows[p] /\ old # next
      /\ "dirty" \notin bdb[p][old].flags
  BY <1>1, <1>2, <1>4 DEF ReuseFits, Has
<1> DEFINE fs == FetchFlags(level) \cup (bdb[p][old].flags \cap {"blocking"})
<1>6. fs \in SUBSET Flag /\ "dirty" \notin fs
  BY DEF FetchFlags, Flag
<1> HIDE DEF fs
<1>7. PICK b0 : b0 = [bdb[p] EXCEPT ![old] = Empty]
  OBVIOUS
<1>8. b0 \in Caches(D) /\ b0[old] = Empty /\ \A x \in Page : x # old => b0[x] = bdb[p][x]
  BY <1>2, <1>7 DEF Caches, Raw, Empty, LCK_none
<1>9. PICK c : c = Set(b0, next, fs)
  OBVIOUS
<1>10. c \in Caches(D) /\ Flagged(b0, c, next, b0[next].flags \cup fs)
  BY <1>2, <1>6, <1>8, <1>9, SetFlags
<1>11. PICK b : b = latch_bdb(c, next)
  OBVIOUS
<1>12. b \in Caches(D) /\ Counted(c, b, next, c[next].use + 1)
  BY <1>2, <1>10, <1>11, LatchCounts
<1>13. /\ b[old].lock = LCK_none /\ "dirty" \notin b[old].flags /\ b[old].use = 0
       /\ b[old].data = {} /\ b[old].transactions = {}
  BY <1>2, <1>5, <1>8, <1>10, <1>12 DEF Flagged, Counted, Empty
<1>14. ASSUME NEW x \in Page, x # old
       PROVE  /\ b[x].data = bdb[p][x].data /\ b[x].transactions = bdb[p][x].transactions
              /\ b[x].lock = bdb[p][x].lock
              /\ "dirty" \in b[x].flags <=> "dirty" \in bdb[p][x].flags
              /\ x # next => b[x].flags = bdb[p][x].flags /\ b[x].use = bdb[p][x].use
              /\ x = next => b[x].use = bdb[p][x].use + 1
  BY <1>2, <1>6, <1>8, <1>10, <1>12, <1>14 DEF Flagged, Counted
<1>15. Latched(b, windows[p] \cup {next}, Idle, <<>>)
  <2>1. ASSUME NEW x \in Page PROVE b[x].use = One(x \in windows[p] \cup {next})
    <3>1. bdb[p][x].use = One(x \in windows[p]) + One(x = old)
      BY <1>1, <1>2, <1>4 DEF Latched, Latching, One
    <3> QED
      BY <1>2, <1>5, <1>13, <1>14, <3>1 DEF One
  <2> QED
    BY <2>1 DEF Latched, Latching, One, Idle
<1>16. WindowsLocked(b, windows[p])
  BY <1>4, <1>5, <1>14 DEF WindowsLocked, Has
<1>17. "dirty" \in b[next].flags => b[next].lock = LCK_write
  BY <1>2, <1>5, <1>14
<1>18. lock_buffer(p, b, next)
  BY <1>2, <1>7, <1>9, <1>11 DEF Reuse, fs
<1>19. PICK w, m : LockedBy(p, b, w, m)
  BY <1>2, <1>5, <1>12, <1>15, <1>16, <1>17, <1>18, LockBuffer
<1>20. Moves(p, b, w, m, <<>>, <<>>)
  BY <1>1, <1>18, <1>19, MovesFrom DEF lock_buffer, Reuse, LockedBy
<1>21. PICK e : e = {x \in pre[p] : old \notin {x[1], x[2]}}
  OBVIOUS
<1>22. e \in SUBSET pre[p] /\ pre' = [pre EXCEPT ![p] = e]
  BY <1>2, <1>21 DEF Reuse
<1>23. PrecedenceAcyclic' /\ PrecedenceFits'
  <2>1. PrecedenceAcyclic /\ PrecedenceFits
    BY DEF IInv
  <2>2. m \in Main /\ m.at # "precedence"
    BY <1>19 DEF LockedBy, Threads
  <2> QED
    BY <1>20, <1>22, <2>1, <2>2, OrderKept
<1>24. /\ disk' = disk /\ changes' = changes /\ tra_invalidated' = tra_invalidated
       /\ committed' = committed /\ alive' = alive
  BY DEF Reuse, file
<1>25. RestOK'
  <2>1. posted' \in [Proc -> SUBSET Page]
    BY DEF Reuse, RestOK, RePost, Lower
  <2>2. cleared' \in [Proc -> SUBSET (Page \X Page)] /\ pre' \in [Proc -> SUBSET (Page \X Page)]
    BY DEF Reuse, RestOK
  <2> QED
    BY <1>24, <2>1, <2>2 DEF Reuse, RestOK, file
<1>26. ASSUME NEW x \in Page
       PROVE  PageKept(p, b, x) /\ BufferKept(p, b, x) /\ disk[x] \subseteq disk'[x]
  <2>1. Coherent /\ LocksCompatible /\ NothingOverwritten
    BY DEF IInv
  <2>2. CASE x = old
    BY <1>5, <1>13, <1>24, <2>2, FreeCompatible DEF PageKept, BufferKept, Has
  <2>3. CASE x # old
    BY <1>14, <1>24, <2>1, <2>3
       DEF PageKept, BufferKept, Has, Coherent, LocksCompatible, NothingOverwritten
  <2> QED
    BY <2>2, <2>3
<1>27. <<>> \in Seq(Page)
  OBVIOUS
<1> QED
  BY <1>12, <1>19, <1>20, <1>22, <1>23, <1>24, <1>25, <1>26, <1>27, CalmStep DEF LockedBy


(* The thread that asks for a lock has latched its page. *)
LEMMA Waiting ==
    ASSUME IInv, NEW p \in Proc, Ready(p), main[p].at \in Asking, NEW pg, pg = main[p].page,
           NEW level, level = main[p].level
    PROVE  /\ ast[p] = <<>> /\ stack[p] = <<>> /\ pg \in Page /\ level \in {LCK_read, LCK_write}
           /\ Local(bdb[p], windows[p], main[p], <<>>, <<>>)
           /\ Latched(bdb[p], windows[p] \cup {pg}, Idle, <<>>)
           /\ WindowsLocked(bdb[p], windows[p]) /\ pg \notin windows[p]
           /\ "dirty" \notin bdb[p][pg].flags /\ bdb[p][pg].lock < level
           /\ "writer" \in bdb[p][pg].flags => level = LCK_write
<1> USE Steady
<1>1. ast[p] = <<>> /\ stack[p] = <<>> /\ main[p].at \in Asking
  BY DEF Ready, Calm
<1>2. pg \in Page /\ level \in {LCK_read, LCK_write}
  BY <1>1 DEF Main
<1>3. Local(bdb[p], windows[p], main[p], <<>>, <<>>)
  BY <1>1
<1>4. /\ Latched(bdb[p], windows[p], main[p], <<>>) /\ WindowsLocked(bdb[p], windows[p])
      /\ WaitFits(bdb[p], windows[p], main[p], <<>>)
  BY <1>3, LocalCalm
<1>5. /\ pg \notin windows[p] /\ "dirty" \notin bdb[p][pg].flags /\ bdb[p][pg].lock < level
      /\ "writer" \in bdb[p][pg].flags => level = LCK_write
  BY <1>1, <1>4 DEF WaitFits, Has
<1>6. Latched(bdb[p], windows[p] \cup {pg}, Idle, <<>>)
  BY <1>1, <1>2, <1>4, <1>5 DEF Latched, Latching, One, Idle
<1> QED
  BY <1>1, <1>2, <1>3, <1>4, <1>5, <1>6

LEMMA GrantedStep ==
    ASSUME IInv, NEW p \in Proc, Granted(p)
    PROVE  IInv'
<1> DEFINE D == DOMAIN changes
<1> USE Steady
<1>1. Ready(p) /\ main[p].at \in Asking
  BY DEF Granted
<1>2. PICK pg, level : pg = main[p].page /\ level = main[p].level
  OBVIOUS
<1>3. /\ ast[p] = <<>> /\ stack[p] = <<>> /\ pg \in Page /\ level \in {LCK_read, LCK_write}
      /\ Latched(bdb[p], windows[p] \cup {pg}, Idle, <<>>)
      /\ WindowsLocked(bdb[p], windows[p]) /\ pg \notin windows[p]
      /\ "dirty" \notin bdb[p][pg].flags /\ bdb[p][pg].lock < level
      /\ "writer" \in bdb[p][pg].flags => level = LCK_write
  BY <1>1, <1>2, Waiting
<1>4. PICK c : c = [bdb[p] EXCEPT ![pg].lock = level]
  OBVIOUS
<1>5. c \in Caches(D) /\ Leveled(bdb[p], c, pg, level)
  <2>1. level \in {LCK_none, LCK_read, LCK_write} /\ pg \in Page /\ bdb[p] \in Caches(D)
    BY <1>3
  <2>2. PICK n : n = [bdb[p][pg] EXCEPT !.lock = level]
    OBVIOUS
  <2>3. bdb[p][pg] \in Raw(D) /\ n \in Raw(D)
    BY <2>1, <2>2 DEF Caches, Raw
  <2>4. c = [bdb[p] EXCEPT ![pg] = n]
    BY <1>4, <2>2
  <2> QED
    BY <2>1, <2>2, <2>3, <2>4 DEF Caches, Raw, Leveled
<1>6. PICK d : d = Clear(c, pg, {"not_valid"})
  OBVIOUS
<1>7. d \in Caches(D) /\ Flagged(c, d, pg, c[pg].flags \ {"not_valid"})
  BY <1>3, <1>5, <1>6, ClearFlags
<1>8. PICK f : f = [d EXCEPT ![pg].data = disk[pg]]
  OBVIOUS
<1>9. /\ f \in Caches(D) /\ f[pg].data = disk[pg] /\ f[pg].flags = d[pg].flags
      /\ f[pg].transactions = d[pg].transactions /\ f[pg].use = d[pg].use /\ f[pg].lock = d[pg].lock
      /\ \A x \in Page : x # pg => f[x] = d[x]
  <2>1. disk[pg] \in SUBSET D /\ d[pg] \in Raw(D)
    BY <1>3, <1>7 DEF RestOK, Caches
  <2>2. [d[pg] EXCEPT !.data = disk[pg]] \in Raw(D)
    BY <2>1 DEF Raw
  <2>3. f = [d EXCEPT ![pg] = [d[pg] EXCEPT !.data = disk[pg]]]
    BY <1>8
  <2> QED
    BY <1>3, <1>7, <2>1, <2>2, <2>3 DEF Caches, Raw
<1>10. PICK b : /\ bdb' = [bdb EXCEPT ![p] = b]
                /\ \/ bdb[p][pg].lock >= LCK_read /\ b = c
                   \/ ~(bdb[p][pg].lock >= LCK_read) /\ b = f
  BY <1>2, <1>4, <1>6, <1>8, Zenon DEF Granted
<1>11. ASSUME NEW x \in Page
       PROVE  /\ b[x].use = bdb[p][x].use
              /\ x # pg => /\ b[x].data = bdb[p][x].data /\ b[x].flags = bdb[p][x].flags
                           /\ b[x].transactions = bdb[p][x].transactions
                           /\ b[x].lock = bdb[p][x].lock
  BY <1>5, <1>7, <1>9, <1>10 DEF Leveled, Flagged
<1>12. /\ b \in Caches(D) /\ b[pg].lock = level /\ "dirty" \notin b[pg].flags
       /\ "writer" \in b[pg].flags => level = LCK_write
       /\ b[pg].data = disk[pg]
  <2>1. bdb[p][pg].lock >= LCK_read => bdb[p][pg].data = disk[pg]
    <3>1. Coherent
      BY DEF IInv
    <3>2. bdb[p][pg].lock >= LCK_read => bdb[p][pg].lock # LCK_none
      BY DEF LCK_none, LCK_read
    <3> QED
      BY <1>3, <3>1, <3>2 DEF Coherent
  <2> QED
    BY <1>3, <1>5, <1>7, <1>9, <1>10, <2>1 DEF Leveled, Flagged
<1>13. PICK w : w = windows[p] \cup {pg}
  OBVIOUS
<1>14. Local(b, w, Idle, <<>>, <<>>)
  <2>1. Latched(b, w, Idle, <<>>)
    BY <1>3, <1>11, <1>13 DEF Latched
  <2>2. WindowsLocked(b, w)
    BY <1>3, <1>11, <1>12, <1>13 DEF WindowsLocked, Has
  <2>3. Idle.at = "idle"
    BY DEF Idle
  <2> QED
    BY <2>1, <2>2, <2>3, LocalCalm DEF WaitFits, ReuseFits, FlushFits
<1>15. Idle \in Threads(p) /\ Idle \in Main /\ Idle.at # "precedence"
  BY DEF Idle, Main, Threads
<1>16. Moves(p, b, w, Idle, <<>>, <<>>)
  BY <1>2, <1>3, <1>10, <1>13, MovesFrom DEF Granted
<1>17. pre' = [pre EXCEPT ![p] = pre[p]] /\ pre[p] \in SUBSET pre[p]
  BY SamePre DEF Granted
<1>18. PrecedenceAcyclic' /\ PrecedenceFits'
  <2>1. PrecedenceAcyclic /\ PrecedenceFits
    BY DEF IInv
  <2> QED
    BY <1>15, <1>16, <1>17, <2>1, OrderKept
<1>19. /\ disk' = disk /\ changes' = changes /\ tra_invalidated' = tra_invalidated
       /\ committed' = committed /\ alive' = alive /\ RestOK'
  BY DEF Granted, file, RestOK
<1>20. ASSUME NEW x \in Page
       PROVE  PageKept(p, b, x) /\ BufferKept(p, b, x) /\ disk[x] \subseteq disk'[x]
  <2>1. Coherent /\ LocksCompatible /\ NothingOverwritten
    BY DEF IInv
  <2>2. CASE x = pg
    <3>1. \A q \in Proc : q # p => Compatible(level, bdb[q][pg].lock)
      BY <1>2 DEF Granted, Conflicts
    <3> QED
      BY <1>3, <1>12, <1>19, <2>2, <3>1 DEF PageKept, BufferKept, Has
  <2>3. CASE x # pg
    BY <1>11, <1>19, <2>1, <2>3
       DEF PageKept, BufferKept, Has, Coherent, LocksCompatible, NothingOverwritten
  <2> QED
    BY <2>2, <2>3
<1>21. <<>> \in Seq(Page) /\ w \in SUBSET Page
  BY <1>3, <1>13
<1> QED
  BY <1>12, <1>14, <1>15, <1>16, <1>17, <1>18, <1>19, <1>20, <1>21, CalmStep

(* The thread goes on asking, with the lock it has or without it. *)
LEMMA AsksAgain ==
    ASSUME IInv, NEW p \in Proc, ConversionDenied(p) \/ Reseize(p)
    PROVE  IInv'
<1> DEFINE D == DOMAIN changes
<1> USE Steady
<1>1. Ready(p) /\ main[p].at \in Asking
  BY DEF ConversionDenied, Reseize
<1>2. PICK pg, level : pg = main[p].page /\ level = main[p].level
  OBVIOUS
<1>3. /\ ast[p] = <<>> /\ stack[p] = <<>> /\ pg \in Page /\ level \in {LCK_read, LCK_write}
      /\ Local(bdb[p], windows[p], main[p], <<>>, <<>>)
      /\ pg \notin windows[p]
      /\ "dirty" \notin bdb[p][pg].flags /\ bdb[p][pg].lock < level
  BY <1>1, <1>2, Waiting
<1>4. PICK b : /\ bdb' = [bdb EXCEPT ![p] = b]
               /\ b = bdb[p] \/ b = [bdb[p] EXCEPT ![pg].lock = LCK_none]
  <2>1. bdb \in [Proc -> [Page -> Buffer]]
    BY TypeParts
  <2>2. CASE ConversionDenied(p)
    <3>1. bdb' = bdb
      BY <2>2 DEF ConversionDenied, cache
    <3> QED
      BY <2>1, <3>1
  <2>3. CASE Reseize(p)
    BY <1>2, <2>1, <2>3 DEF Reseize
  <2> QED
    BY <2>2, <2>3
<1>5. /\ b \in Caches(D)
      /\ b[pg].lock = bdb[p][pg].lock \/ b[pg].lock = LCK_none
      /\ \A x \in Page : /\ b[x].data = bdb[p][x].data /\ b[x].flags = bdb[p][x].flags
                         /\ b[x].transactions = bdb[p][x].transactions /\ b[x].use = bdb[p][x].use
                         /\ x # pg => b[x].lock = bdb[p][x].lock
  <2>1. bdb[p] \in Caches(D)
    OBVIOUS
  <2>2. CASE b = [bdb[p] EXCEPT ![pg].lock = LCK_none]
    <3>1. b \in Caches(D) /\ Leveled(bdb[p], b, pg, LCK_none)
      BY <1>3, <2>1, <2>2, LockLevels
    <3> QED
      BY <3>1 DEF Leveled
  <2>3. CASE b = bdb[p]
    BY <2>1, <2>3
  <2> QED
    BY <1>4, <2>2, <2>3
<1>6. PICK w, m : w = windows[p] /\ m = main'[p]
  OBVIOUS
<1>7. PICK at \in Asking : main' = [main EXCEPT ![p].at = at]
  BY DEF ConversionDenied, Reseize
<1>8. m \in Threads(p) /\ m.at \in Asking /\ m.page = pg /\ m.level = level
  <2>1. main[p] \in [at : Asking, page : Page, level : {LCK_read, LCK_write}]
    BY <1>1 DEF Main
  <2>2. m = [main[p] EXCEPT !.at = at]
    BY <1>6, <1>7 DEF ThreadsOK
  <2> QED
    BY <1>2, <1>7, <2>1, <2>2 DEF Threads, Main
<1>9. Local(b, w, m, <<>>, <<>>)
  <2>1. /\ Latched(bdb[p], w, main[p], <<>>) /\ WindowsLocked(bdb[p], w)
        /\ WaitFits(bdb[p], w, main[p], <<>>)
    BY <1>3, <1>6, LocalCalm
  <2>2. Latched(b, w, m, <<>>)
    BY <1>1, <1>2, <1>5, <1>8, <2>1 DEF Latched, Latching
  <2>3. WindowsLocked(b, w)
    BY <1>3, <1>5, <1>6, <2>1 DEF WindowsLocked, Has
  <2>4. WaitFits(b, w, m, <<>>)
    BY <1>1, <1>2, <1>3, <1>5, <1>8, <2>1 DEF WaitFits, Has, LCK_none, LCK_read, LCK_write
  <2> QED
    BY <1>8, <2>2, <2>3, <2>4, LocalCalm DEF ReuseFits, FlushFits
<1>10. Moves(p, b, w, m, <<>>, <<>>)
  <2>1. main' = [main EXCEPT ![p] = m]
    BY <1>6, <1>7
  <2> QED
    BY <1>3, <1>4, <1>6, <2>1, MovesFrom DEF ConversionDenied, Reseize
<1>11. pre' = [pre EXCEPT ![p] = pre[p]] /\ pre[p] \in SUBSET pre[p]
  BY SamePre DEF ConversionDenied, Reseize, cache
<1>12. PrecedenceAcyclic' /\ PrecedenceFits'
  <2>1. PrecedenceAcyclic /\ PrecedenceFits /\ m.at # "precedence" /\ m \in Main
    BY <1>8 DEF IInv, Threads
  <2> QED
    BY <1>10, <1>11, <2>1, OrderKept
<1>13. /\ disk' = disk /\ changes' = changes /\ tra_invalidated' = tra_invalidated
       /\ committed' = committed /\ alive' = alive /\ RestOK'
  BY DEF ConversionDenied, Reseize, file, cache, RestOK
<1>14. ASSUME NEW x \in Page
       PROVE  PageKept(p, b, x) /\ BufferKept(p, b, x) /\ disk[x] \subseteq disk'[x]
  <2>1. Coherent /\ LocksCompatible /\ NothingOverwritten
    BY DEF IInv
  <2>2. CASE x = pg /\ b[pg].lock = LCK_none
    BY <1>3, <1>5, <1>13, <2>2, FreeCompatible DEF PageKept, BufferKept, Has
  <2>3. CASE x # pg \/ b[pg].lock = bdb[p][pg].lock
    BY <1>5, <1>13, <2>1, <2>3
       DEF PageKept, BufferKept, Has, Coherent, LocksCompatible, NothingOverwritten
  <2> QED
    BY <1>5, <2>2, <2>3
<1>15. <<>> \in Seq(Page) /\ w \in SUBSET Page
  BY <1>6 DEF RestOK
<1> QED
  BY <1>5, <1>8, <1>9, <1>10, <1>11, <1>12, <1>13, <1>14, <1>15, CalmStep


(* A process that is gone holds no lock and keeps nothing. *)
LEMMA GoneStep ==
    ASSUME IInv, NEW p \in Proc, Gone(p)
    PROVE  IInv'
<1> DEFINE D == DOMAIN changes
<1> USE Steady
<1>1. PICK b : b = [x \in Page |-> Empty]
  OBVIOUS
<1>2. /\ b \in Caches(D)
      /\ \A x \in Page : /\ b[x].flags = {} /\ b[x].use = 0 /\ b[x].lock = LCK_none
  BY <1>1 DEF Caches, Raw, Empty
<1>3. Idle \in Threads(p) /\ Idle \in Main /\ Idle.at = "idle"
  BY DEF Idle, Main, Threads
<1>4. Local(b, {}, Idle, <<>>, <<>>)
  <2>1. Latched(b, {}, Idle, <<>>)
    BY <1>2 DEF Latched, Latching, One, Idle
  <2>2. WindowsLocked(b, {})
    BY DEF WindowsLocked
  <2> QED
    BY <1>3, <2>1, <2>2, LocalCalm DEF WaitFits, ReuseFits, FlushFits
<1>5. Moves(p, b, {}, Idle, <<>>, <<>>)
  BY <1>1, MovesFrom DEF Gone
<1>6. pre' = [pre EXCEPT ![p] = {}] /\ {} \in SUBSET pre[p]
  BY DEF Gone
<1>7. PrecedenceAcyclic' /\ PrecedenceFits'
  <2>1. PrecedenceAcyclic /\ PrecedenceFits
    BY DEF IInv
  <2> QED
    BY <1>3, <1>5, <1>6, <2>1, OrderKept
<1>8. /\ disk' = disk /\ changes' = changes /\ tra_invalidated' = tra_invalidated
      /\ committed' = committed /\ alive' \subseteq alive /\ p \notin alive'
  BY DEF Gone
<1>9. RestOK'
  BY DEF Gone, RestOK
<1>10. ASSUME NEW x \in Page PROVE PageKept(p, b, x) /\ disk[x] \subseteq disk'[x]
  BY <1>2, <1>8, FreeCompatible DEF PageKept
<1>11. <<>> \in Seq(Page) /\ {} \in SUBSET Page
  OBVIOUS
<1> QED
  BY <1>2, <1>3, <1>4, <1>5, <1>6, <1>7, <1>8, <1>9, <1>10, <1>11, CalmStep

(* What CCH_unwind does to a buffer. *)
LEMMA Dropped ==
    ASSUME NEW D, NEW r \in Raw(D), NEW n,
           n = [r EXCEPT !.flags = r.flags \ {"writer"}, !.use = 0]
    PROVE  /\ n.data = r.data /\ n.transactions = r.transactions
           /\ n.lock = r.lock /\ n.use = 0 /\ n.flags = r.flags \ {"writer"}
           /\ n \in Raw(D)
<1>1. PICK fs : fs = r.flags \ {"writer"}
  OBVIOUS
<1>2. fs \in SUBSET Flag
  BY <1>1 DEF Raw
<1>3. PICK k : k = [r EXCEPT !.flags = fs]
  OBVIOUS
<1>4. /\ k \in Raw(D) /\ k.data = r.data /\ k.transactions = r.transactions
      /\ k.lock = r.lock /\ k.flags = fs
  BY <1>2, <1>3 DEF Raw
<1>5. PICK z \in Int : z = 0
  OBVIOUS
<1>6. /\ n \in Raw(D) /\ n.data = k.data /\ n.transactions = k.transactions
      /\ n.lock = k.lock /\ n.flags = k.flags /\ n.use = z
  <2>1. n = [k EXCEPT !.use = 0]
    BY <1>1, <1>3
  <2>2. n = [k EXCEPT !.use = z]
    BY <1>5, <2>1
  <2> HIDE <1>5
  <2> QED
    BY <1>4, <2>2 DEF Raw
<1> QED
  BY <1>1, <1>4, <1>5, <1>6

LEMMA UnwindStep ==
    ASSUME IInv, NEW p \in Proc, Calm(p), Unwind(p, bdb[p])
    PROVE  IInv'
<1> DEFINE D == DOMAIN changes
           inUse == {pg \in Page : bdb[p][pg].use > 0}
<1> USE Steady
<1>1. CASE Gone(p)
  BY <1>1, GoneStep
<1>2. CASE ~Gone(p)
  <2>1. ast[p] = <<>>
    BY DEF Calm
  <2>2. PICK b : b = [pg \in Page |->
                        [bdb[p][pg] EXCEPT !.flags = bdb[p][pg].flags \ {"writer"}, !.use = 0]]
    OBVIOUS
  <2>3. /\ bdb' = [bdb EXCEPT ![p] = b]
        /\ posted' = [posted EXCEPT ![p] = @ \cup RePost(bdb[p], inUse)]
        /\ windows' = [windows EXCEPT ![p] = {}]
        /\ refers' = [refers EXCEPT ![p] = [pg \in Page |-> {}]]
        /\ main' = [main EXCEPT ![p] = Idle]
        /\ stack' = [stack EXCEPT ![p] = <<>>]
        /\ committing' = committing \ TraOf[p]
        /\ UNCHANGED <<disk, changes, lost, tra_invalidated, committed, pre, cleared, ast, alive, fetches>>
    BY <1>2, <2>2, Zenon DEF Unwind
  <2>4. ASSUME NEW x \in Page
        PROVE  /\ b[x].data = bdb[p][x].data /\ b[x].transactions = bdb[p][x].transactions
               /\ b[x].lock = bdb[p][x].lock /\ b[x].use = 0 /\ b[x] \in Raw(D)
               /\ "dirty" \in b[x].flags <=> "dirty" \in bdb[p][x].flags
    <3>1. PICK r \in Raw(D) : bdb[p][x] = r
      BY DEF Caches
    <3>2. b[x] = [r EXCEPT !.flags = r.flags \ {"writer"}, !.use = 0]
      BY <2>2, <3>1
    <3>3. /\ b[x].data = r.data /\ b[x].transactions = r.transactions
          /\ b[x].lock = r.lock /\ b[x].use = 0 /\ b[x].flags = r.flags \ {"writer"}
          /\ b[x] \in Raw(D)
      BY <3>2, Dropped
    <3> QED
      BY <3>1, <3>3
  <2>5. b \in Caches(D) /\ Same(bdb[p], b)
    BY <2>2, <2>4 DEF Caches, Same
  <2>6. Idle \in Threads(p) /\ Idle.at = "idle"
    BY DEF Idle, Main, Threads
  <2>7. Local(b, {}, Idle, <<>>, <<>>)
    <3>1. Latched(b, {}, Idle, <<>>)
      BY <2>4 DEF Latched, Latching, One, Idle
    <3>2. WindowsLocked(b, {})
      BY DEF WindowsLocked
    <3> QED
      BY <2>6, <3>1, <3>2, LocalCalm DEF WaitFits, ReuseFits, FlushFits
  <2>8. Moves(p, b, {}, Idle, <<>>, <<>>)
    BY <2>1, <2>3, MovesFrom
  <2>9. pre' = [pre EXCEPT ![p] = pre[p]] /\ pre[p] \in SUBSET pre[p]
    BY <2>3, SamePre
  <2>10. RestOK'
    <3>1. posted' \in [Proc -> SUBSET Page]
      BY <2>3 DEF RestOK, RePost
    <3>2. refers' \in [Proc -> [Page -> SUBSET DOMAIN changes]]
      BY <2>3 DEF RestOK
    <3>3. committing' \subseteq Tra
      BY <2>3 DEF RestOK
    <3> QED
      BY <2>3, <3>1, <3>2, <3>3 DEF RestOK
  <2>11. <<>> \in Seq(Page) /\ {} \in SUBSET Page
    OBVIOUS
  <2>12. /\ disk' = disk /\ changes' = changes /\ tra_invalidated' = tra_invalidated
         /\ committed' = committed /\ alive' \subseteq alive
    BY <2>3
  <2> QED
    BY <2>5, <2>6, <2>7, <2>8, <2>9, <2>10, <2>11, <2>12, QuietStep
<1> QED
  BY <1>1, <1>2


(* write_buffer() runs in a thread that does not wait for a lock. *)
LEMMA Writes ==
    ASSUME IInv, NEW p \in Proc, Writing(p), NEW s, s = stack[p]
    PROVE  /\ ast[p] = <<>> /\ s \in Seq(Page) /\ s # <<>> /\ Len(s) \in Nat /\ Len(s) >= 1
           /\ Top(p) = s[Len(s)] /\ Top(p) \in Page /\ s[1] \in Page
           /\ Latched(bdb[p], windows[p], main[p], s) /\ WindowsLocked(bdb[p], windows[p])
           /\ ReuseFits(bdb[p], windows[p], main[p], s) /\ FlushFits(bdb[p], main[p], s)
           /\ main[p].at \notin Asking
<1> USE Steady
<1>1. ast[p] = <<>> /\ s # <<>> /\ s \in Seq(Page)
  BY DEF Writing, Calm
<1>2. Len(s) \in Nat /\ Len(s) >= 1 /\ s[Len(s)] \in Page /\ s[1] \in Page
  BY <1>1
<1>3. Local(bdb[p], windows[p], main[p], s, <<>>)
  BY <1>1
<1>4. /\ Latched(bdb[p], windows[p], main[p], s) /\ WindowsLocked(bdb[p], windows[p])
      /\ ReuseFits(bdb[p], windows[p], main[p], s) /\ FlushFits(bdb[p], main[p], s)
      /\ WaitFits(bdb[p], windows[p], main[p], s)
  BY <1>3, LocalCalm
<1>5. main[p].at \notin Asking
  BY <1>1, <1>4 DEF WaitFits
<1> QED
  BY <1>1, <1>2, <1>4, <1>5 DEF Top

(* The stack after a return. *)
Pop(s) == SubSeq(s, 1, Len(s) - 1)
Pops(s, f) ==
    /\ f \in Seq(Page)
    /\ Len(s) = 1 => f = <<>>
    /\ Len(s) # 1 => Len(s) > 1 /\ f # <<>> /\ f[1] = s[1] /\ f[Len(f)] = s[Len(s) - 1]
    /\ Len(s) # 1 => s[Len(s) - 1] \in Page

LEMMA Popped ==
    ASSUME NEW s \in Seq(Page), s # <<>>, NEW f, f = Pop(s)
    PROVE  Pops(s, f)
<1> USE DEF Pop
<1>1. /\ f \in Seq(Page) /\ Len(f) = Len(s) - 1 /\ Len(s) \in Nat /\ Len(s) # 0
      /\ \A i \in 1 .. Len(s) - 1 : f[i] = s[i]
  BY SeqEnds
<1>2. f = <<>> <=> Len(f) = 0
  BY <1>1, SeqEnds
<1>3. Len(s) > 1 => s[Len(s) - 1] \in Page
  BY <1>1
<1> QED
  BY <1>1, <1>2, <1>3 DEF Pops

(* The page at the top is written, or was clean: c is what write_page()    *)
(* leaves, b the buffers when write_buffer() has returned.                 *)
WrittenTop(p, c) ==
    /\ \A x \in Page : c[x].use = bdb[p][x].use /\ c[x].lock = bdb[p][x].lock
    /\ \A x \in Page : x # Top(p) => c[x] = bdb[p][x]
    /\ "dirty" \notin c[Top(p)].flags
    /\ "writer" \in c[Top(p)].flags => "writer" \in bdb[p][Top(p)].flags

Returned(p, c, b, s) ==
    /\ bdb' = [bdb EXCEPT ![p] = b] /\ stack' = [stack EXCEPT ![p] = s]
    /\ b \in Caches(DOMAIN changes) /\ s \in Seq(Page)
    /\ Local(b, windows[p], main[p], s, <<>>)
    /\ \A x \in Page : /\ b[x].data = c[x].data /\ b[x].flags = c[x].flags
                       /\ b[x].transactions = c[x].transactions
                       /\ b[x].lock = c[x].lock
    /\ \/ s # <<>> /\ s[1] = stack[p][1]
       \/ Top(p) = stack[p][1]

LEMMA ReturnsLocal ==
    ASSUME IInv, NEW p \in Proc, Writing(p), NEW c \in Caches(DOMAIN changes),
           WrittenTop(p, c), Returns(p, c)
    PROVE  \E b, s : Returned(p, c, b, s)
<1> DEFINE D == DOMAIN changes
<1> USE Steady
<1>1. PICK s : s = stack[p]
  OBVIOUS
<1>2. PICK t : t = Top(p)
  OBVIOUS
<1>3. /\ ast[p] = <<>> /\ s \in Seq(Page) /\ s # <<>> /\ Len(s) \in Nat /\ Len(s) >= 1
      /\ t = s[Len(s)] /\ t \in Page /\ s[1] \in Page
      /\ Latched(bdb[p], windows[p], main[p], s) /\ WindowsLocked(bdb[p], windows[p])
      /\ ReuseFits(bdb[p], windows[p], main[p], s) /\ FlushFits(bdb[p], main[p], s)
      /\ main[p].at \notin Asking
  BY <1>1, <1>2, Writes
<1>4. PICK d : d = release_bdb(c, t)
  OBVIOUS
<1>5. d \in Caches(D) /\ Counted(c, d, t, c[t].use - 1)
  BY <1>3, <1>4, LatchCounts
<1>6. PICK f : f = Pop(s)
  OBVIOUS
<1>7. Pops(s, f)
  BY <1>3, <1>6, Popped
<1>8. PICK b : b = IF Len(s) > 1 THEN latch_bdb(d, s[Len(s) - 1]) ELSE d
  OBVIOUS
<1>9. bdb' = [bdb EXCEPT ![p] = b]
  BY <1>1, <1>2, <1>4, <1>8 DEF Returns
<1>10. stack' = [stack EXCEPT ![p] = f]
  BY <1>1, <1>6 DEF Returns, Pop
<1>11. /\ b \in Caches(D)
       /\ Len(s) > 1 => Counted(d, b, s[Len(s) - 1], d[s[Len(s) - 1]].use + 1)
       /\ ~(Len(s) > 1) => b = d
  <2>1. CASE Len(s) > 1
    <3>1. PICK y \in Page : y = s[Len(s) - 1]
      BY <1>3, <1>7, <2>1 DEF Pops
    <3>2. b = latch_bdb(d, y)
      BY <1>8, <2>1, <3>1
    <3>3. b \in Caches(D) /\ Counted(d, b, y, d[y].use + 1)
      BY <1>5, <3>2, LatchCounts
    <3> QED
      BY <2>1, <3>1, <3>3
  <2>2. CASE ~(Len(s) > 1)
    BY <1>5, <1>8, <2>2
  <2> QED
    BY <2>1, <2>2
<1>12. ASSUME NEW x \in Page
       PROVE  /\ b[x].data = c[x].data /\ b[x].flags = c[x].flags
              /\ b[x].transactions = c[x].transactions /\ b[x].lock = c[x].lock
              /\ bdb[p][x].use \in Int
              /\ b[x].use = bdb[p][x].use - One(x = t) + One(Len(s) > 1 /\ x = s[Len(s) - 1])
  <2>1. bdb[p][x].use \in Int /\ c[x].use = bdb[p][x].use
    BY DEF Caches, Raw, WrittenTop
  <2>2. /\ d[x].data = c[x].data /\ d[x].flags = c[x].flags
        /\ d[x].transactions = c[x].transactions /\ d[x].lock = c[x].lock
        /\ d[x].use = bdb[p][x].use - One(x = t)
    BY <1>5, <2>1 DEF Counted, One
  <2>3. CASE Len(s) > 1
    BY <1>11, <2>1, <2>2, <2>3 DEF Counted, One
  <2>4. CASE ~(Len(s) > 1)
    BY <1>11, <2>1, <2>2, <2>4 DEF One
  <2> QED
    BY <2>3, <2>4
<1>13. Latched(b, windows[p], main[p], f)
  <2>1. ASSUME NEW x \in Page
        PROVE  b[x].use = One(x \in windows[p]) + One(f # <<>> /\ f[Len(f)] = x)
                            + One(x \in Latching(main[p]))
    <3>1. bdb[p][x].use = One(x \in windows[p]) + One(t = x) + One(x \in Latching(main[p]))
      BY <1>3 DEF Latched
    <3>2. One(f # <<>> /\ f[Len(f)] = x) = One(Len(s) > 1 /\ x = s[Len(s) - 1])
      <4>1. (f # <<>> /\ f[Len(f)] = x) <=> (Len(s) > 1 /\ x = s[Len(s) - 1])
        BY <1>3, <1>7 DEF Pops
      <4> QED
        BY <4>1 DEF One
    <3>3. One(x = t) = One(t = x) /\ One(t = x) \in Int /\ One(x \in windows[p]) \in Int
      BY DEF One
    <3>4. /\ One(x \in Latching(main[p])) \in Int
          /\ One(Len(s) > 1 /\ x = s[Len(s) - 1]) \in Int
      BY DEF One
    <3> QED
      BY <1>12, <3>1, <3>2, <3>3, <3>4
  <2> QED
    BY <2>1 DEF Latched
<1>14. WindowsLocked(b, windows[p])
  BY <1>2, <1>3, <1>12 DEF WindowsLocked, WrittenTop, Has
<1>15. ReuseFits(b, windows[p], main[p], f)
  <2>1. CASE main[p].at = "reuse"
    <3>1. s[1] = main[p].page
      BY <1>3, <2>1 DEF ReuseFits
    <3>2. CASE f = <<>>
      <4>1. t = main[p].page
        BY <1>3, <1>7, <3>1, <3>2 DEF Pops
      <4> QED
        BY <1>2, <1>3, <1>12, <2>1, <3>2, <4>1 DEF ReuseFits, WrittenTop, Has
    <3>3. CASE f # <<>>
      BY <1>3, <1>7, <2>1, <3>1, <3>3 DEF ReuseFits, Pops
    <3> QED
      BY <3>2, <3>3
  <2>2. CASE main[p].at # "reuse"
    BY <2>2 DEF ReuseFits
  <2> QED
    BY <2>1, <2>2
<1>16. FlushFits(b, main[p], f)
  <2>1. ASSUME main[p].at = "flush", NEW x \in main[p].seen, "dirty" \in b[x].flags,
               main[p].tra \in b[x].transactions
        PROVE  f # <<>> /\ f[1] = x
    <3>1. x \in Page
      BY <2>1 DEF Main
    <3>2. x # t /\ c[x] = bdb[p][x]
      BY <1>2, <1>12, <2>1, <3>1 DEF WrittenTop
    <3>3. s[1] = x
      BY <1>3, <1>12, <2>1, <3>1, <3>2 DEF FlushFits, Has
    <3>4. Len(s) > 1
      BY <1>3, <3>2, <3>3
    <3> QED
      BY <1>3, <1>7, <3>3, <3>4 DEF Pops
  <2> QED
    BY <2>1 DEF FlushFits, Has
<1>17. Local(b, windows[p], main[p], f, <<>>)
  BY <1>3, <1>13, <1>14, <1>15, <1>16, LocalCalm DEF WaitFits
<1>18. (f # <<>> /\ f[1] = stack[p][1]) \/ Top(p) = stack[p][1]
  BY <1>1, <1>2, <1>3, <1>7 DEF Pops
<1>19. Returned(p, c, b, f)
  BY <1>7, <1>9, <1>10, <1>11, <1>12, <1>17, <1>18 DEF Returned, Pops
<1> QED
  BY <1>19


(* A page with no block below it is above none. *)
LEMMA NothingBelow ==
    ASSUME NEW p \in Proc, NEW low \in Page, NEW high \in Page, high # low,
           \A e \in pre'[p] : e[1] # low
    PROVE  low \notin Above(p, high)'
<1> DEFINE S == Page \ {low}
<1>1. ASSUME NEW x \in S \cup {high} PROVE Higher(p, x)' \subseteq S
  <2>1. ASSUME NEW hi \in Page, <<hi, x>> \in pre'[p] PROVE hi # low
    <3>1. <<hi, x>>[1] = hi
      OBVIOUS
    <3> QED
      BY <2>1, <3>1
  <2> QED
    BY <2>1 DEF Higher
<1>2. S \in SUBSET Page /\ low \notin S
  OBVIOUS
<1> HIDE DEF S
<1>3. ASSUME low \in Above(p, high)' PROVE FALSE
  <2>1. \A U \in SUBSET Page : (\A x \in U \cup {high} : Higher(p, x)' \subseteq U) => low \in U
    BY <1>3 DEF Above
  <2> QED
    BY <1>1, <1>2, <2>1
<1> QED
  BY <1>3

(* clear_precedence() at the end of write_buffer(): once the page that a   *)
(* block is to be inserted below has been written, it is above nothing.    *)
LEMMA ReturnsOrder ==
    ASSUME IInv, NEW p \in Proc, Writing(p), NEW c, NEW b, NEW s, Returned(p, c, b, s),
           clear_precedence(p, Top(p)), UNCHANGED <<main, windows, ast>>,
           NEW w, w = windows[p], NEW m, m = main[p]
    PROVE  /\ Moves(p, b, w, m, s, <<>>)
           /\ \E e \in SUBSET pre[p] : pre' = [pre EXCEPT ![p] = e]
           /\ PrecedenceAcyclic' /\ PrecedenceFits'
<1> USE Steady
<1>1. ast[p] = <<>>
  BY DEF Writing, Calm
<1>2. Moves(p, b, w, m, s, <<>>)
  BY <1>1, MovesFrom DEF Returned
<1>3. PICK t : t = Top(p)
  OBVIOUS
<1>4. PICK e : e = {x \in pre[p] : x[1] # t}
  OBVIOUS
<1>5. e \in SUBSET pre[p] /\ pre' = [pre EXCEPT ![p] = e]
  BY <1>3, <1>4 DEF clear_precedence
<1>6. pre'[p] = e
  BY <1>5 DEF TypeOK
<1>7. PrecedenceAcyclic /\ PrecedenceFits /\ m \in Main
  BY DEF IInv
<1>8. ASSUME m.at = "precedence"
      PROVE  \/ m = main[p] /\ s = stack[p]
             \/ /\ m.high # m.page
                /\ \/ s # <<>> /\ s[1] = m.page
                   \/ m.page \notin Above(p, m.high)'
  <2>1. m.page \in Page /\ m.high \in Page
    BY <1>7, <1>8 DEF Main
  <2>2. m.high # m.page
    BY <1>7, <1>8 DEF PrecedenceFits
  <2>3. CASE stack[p] # <<>> /\ stack[p][1] = m.page
    <3>1. CASE t = m.page
      <4>1. \A x \in pre'[p] : x[1] # m.page
        BY <1>4, <1>6, <3>1
      <4> QED
        BY <2>1, <2>2, <4>1, NothingBelow
    <3>2. CASE t # m.page
      BY <1>3, <2>2, <2>3, <3>2 DEF Returned
    <3> QED
      BY <3>1, <3>2
  <2>4. CASE ~related(p, m.high, m.page)
    <3>1. Above(p, m.high)' \subseteq Above(p, m.high)
      BY <1>5, <2>1, AboveShrinks
    <3> QED
      BY <2>2, <2>4, <3>1 DEF related
  <2> QED
    BY <1>7, <1>8, <2>3, <2>4 DEF PrecedenceFits
<1>9. PrecedenceAcyclic' /\ PrecedenceFits'
  BY <1>2, <1>5, <1>7, <1>8, OrderKept
<1> QED
  BY <1>2, <1>5, <1>9


LEMMA ReturnsRest ==
    ASSUME IInv, NEW p \in Proc, Writing(p), NEW c, Returns(p, c)
    PROVE  /\ pre' \in [Proc -> SUBSET (Page \X Page)]
           /\ cleared' \in [Proc -> SUBSET (Page \X Page)]
           /\ posted' \in [Proc -> SUBSET Page]
           /\ clear_precedence(p, Top(p))
<1> USE Steady
<1>1. Top(p) \in Page
  <2>1. PICK s : s = stack[p]
    OBVIOUS
  <2> QED
    BY <2>1, Writes
<1>2. clear_precedence(p, Top(p))
  BY DEF Returns
<1>3. PICK d, t : d = release_bdb(c, Top(p)) /\ t = Top(p)
  OBVIOUS
<1>4. posted' = [posted EXCEPT ![p] =
            posted[p] \cup RePostFree(d, {t}) \cup RePost(d, Lower(p, t))]
  BY <1>3 DEF Returns
<1>5. RePostFree(d, {t}) \subseteq Page /\ RePost(d, Lower(p, t)) \subseteq Page
  BY <1>1, <1>3 DEF RePostFree, RePost, Lower
<1>6. posted' \in [Proc -> SUBSET Page]
  BY <1>4, <1>5 DEF RestOK
<1>7. /\ pre' \in [Proc -> SUBSET (Page \X Page)]
      /\ cleared' \in [Proc -> SUBSET (Page \X Page)]
  BY <1>2 DEF clear_precedence, RestOK
<1> QED
  BY <1>2, <1>6, <1>7

LEMMA WriteCleanStep ==
    ASSUME IInv, NEW p \in Proc, WriteClean(p)
    PROVE  IInv'
<1> USE Steady
<1>1. Writing(p) /\ "dirty" \notin bdb[p][Top(p)].flags /\ Returns(p, bdb[p])
  BY DEF WriteClean
<1>2. PICK c \in Caches(DOMAIN changes) : c = bdb[p]
  OBVIOUS
<1>3. WrittenTop(p, c) /\ Returns(p, c)
  BY <1>1, <1>2 DEF WrittenTop
<1>4. PICK b, s : Returned(p, c, b, s)
  BY <1>1, <1>3, ReturnsLocal
<1>5. PICK w, m : w = windows[p] /\ m = main[p]
  OBVIOUS
<1>6. clear_precedence(p, Top(p))
  BY <1>1, <1>3, ReturnsRest
<1>7. /\ Moves(p, b, w, m, s, <<>>)
      /\ \E e \in SUBSET pre[p] : pre' = [pre EXCEPT ![p] = e]
      /\ PrecedenceAcyclic' /\ PrecedenceFits'
  BY <1>1, <1>4, <1>5, <1>6, ReturnsOrder DEF WriteClean
<1>8. PICK e \in SUBSET pre[p] : pre' = [pre EXCEPT ![p] = e]
  BY <1>7
<1>9. /\ disk' = disk /\ changes' = changes /\ tra_invalidated' = tra_invalidated
      /\ committed' = committed /\ alive' = alive
  BY DEF WriteClean, file
<1>10. RestOK'
  BY <1>1, <1>3, ReturnsRest DEF WriteClean, file, RestOK
<1>11. ASSUME NEW x \in Page
       PROVE  PageKept(p, b, x) /\ BufferKept(p, b, x) /\ disk[x] \subseteq disk'[x]
  <2>1. Coherent /\ LocksCompatible /\ NothingOverwritten
    BY DEF IInv
  <2> QED
    BY <1>2, <1>4, <1>9, <2>1
       DEF Returned, PageKept, BufferKept, Has, Coherent, LocksCompatible, NothingOverwritten
<1>12. b \in Caches(DOMAIN changes) /\ s \in Seq(Page) /\ Local(b, w, m, s, <<>>)
  BY <1>4, <1>5 DEF Returned
<1> QED
  BY <1>5, <1>7, <1>8, <1>9, <1>10, <1>11, <1>12, CalmStep

LEMMA WritePageStep ==
    ASSUME IInv, NEW p \in Proc, WritePage(p)
    PROVE  IInv' /\ WritesInOrder
<1> USE Steady
<1>1. /\ Writing(p) /\ "dirty" \in bdb[p][Top(p)].flags
      /\ Returns(p, write_page(bdb[p], Top(p)))
  BY DEF WritePage, WriteAll, WriteDirty, Has
<1>2. PICK t \in Page : t = Top(p)
  <2>1. PICK s : s = stack[p]
    OBVIOUS
  <2> QED
    BY <1>1, <2>1, Writes
<1>3. PICK c : c = write_page(bdb[p], t)
  OBVIOUS
<1>4. /\ c \in Caches(DOMAIN changes)
      /\ c[t].flags = bdb[p][t].flags \ {"dirty", "must_write"} /\ c[t].transactions = {}
      /\ c[t].data = bdb[p][t].data /\ c[t].use = bdb[p][t].use /\ c[t].lock = bdb[p][t].lock
      /\ \A x \in Page \ {t} : c[x] = bdb[p][x]
  BY <1>3, WritePageEffect
<1>5. WrittenTop(p, c) /\ Returns(p, c)
  BY <1>1, <1>2, <1>3, <1>4 DEF WrittenTop
<1>6. PICK b, s : Returned(p, c, b, s)
  BY <1>1, <1>4, <1>5, ReturnsLocal
<1>7. PICK w, m : w = windows[p] /\ m = main[p]
  OBVIOUS
<1>8. clear_precedence(p, Top(p))
  BY <1>1, <1>5, ReturnsRest
<1>9. /\ Moves(p, b, w, m, s, <<>>)
      /\ \E e \in SUBSET pre[p] : pre' = [pre EXCEPT ![p] = e]
      /\ PrecedenceAcyclic' /\ PrecedenceFits'
  BY <1>1, <1>6, <1>7, <1>8, ReturnsOrder DEF WritePage
<1>10. PICK e \in SUBSET pre[p] : pre' = [pre EXCEPT ![p] = e]
  BY <1>9
<1>11. /\ changes' = changes /\ tra_invalidated' = tra_invalidated
       /\ committed' = committed /\ alive' = alive
  BY DEF WritePage
<1>12. disk' = [disk EXCEPT ![t] = bdb[p][t].data] /\ bdb[p][t].data \subseteq DOMAIN changes
  BY <1>2 DEF WritePage, Caches, Raw
<1>13. disk'[t] = bdb[p][t].data /\ \A x \in Page : x # t => disk'[x] = disk[x]
  BY <1>12 DEF RestOK
<1>14. RestOK'
  <2>1. disk' \in [Page -> SUBSET DOMAIN changes]
    BY <1>12 DEF RestOK
  <2>2. /\ pre' \in [Proc -> SUBSET (Page \X Page)]
        /\ cleared' \in [Proc -> SUBSET (Page \X Page)]
        /\ posted' \in [Proc -> SUBSET Page]
    BY <1>1, <1>5, ReturnsRest
  <2> QED
    BY <1>11, <2>1, <2>2 DEF WritePage, RestOK
<1>15. ASSUME NEW x \in Page
       PROVE  PageKept(p, b, x) /\ BufferKept(p, b, x) /\ disk[x] \subseteq disk'[x]
  <2>1. Coherent /\ LocksCompatible /\ NothingOverwritten
    BY DEF IInv
  <2>2. /\ b[x].data = c[x].data /\ b[x].flags = c[x].flags
        /\ b[x].transactions = c[x].transactions /\ b[x].lock = c[x].lock
    BY <1>6 DEF Returned
  <2>3. CASE x = t
    BY <1>1, <1>2, <1>4, <1>13, <2>1, <2>2, <2>3
       DEF PageKept, BufferKept, Has, LocksCompatible, NothingOverwritten
  <2>4. CASE x # t
    BY <1>4, <1>13, <2>1, <2>2, <2>4
       DEF PageKept, BufferKept, Has, Coherent, LocksCompatible, NothingOverwritten
  <2> QED
    BY <2>3, <2>4
<1>16. b \in Caches(DOMAIN changes) /\ s \in Seq(Page) /\ Local(b, w, m, s, <<>>)
  BY <1>6, <1>7 DEF Returned
<1>17. IInv'
  BY <1>7, <1>9, <1>10, <1>11, <1>14, <1>15, <1>16, CalmStep
<1>18. WritesInOrder
  <2>1. \A hi \in Higher(p, t) : FALSE
    BY <1>2 DEF WritePage, WriteAll, Higher
  <2> QED
    BY <1>1, <1>2, <1>13, <2>1 DEF WritesInOrder, Has
<1> QED
  BY <1>17, <1>18

LEMMA WriteHigherStep ==
    ASSUME IInv, NEW p \in Proc, WriteHigher(p)
    PROVE  IInv'
<1> DEFINE D == DOMAIN changes
<1> USE Steady
<1>1. Writing(p)
  BY DEF WriteHigher, WriteDirty
<1>2. PICK s, t : s = stack[p] /\ t = Top(p)
  OBVIOUS
<1>3. /\ ast[p] = <<>> /\ s \in Seq(Page) /\ s # <<>> /\ Len(s) \in Nat /\ Len(s) >= 1
      /\ t = s[Len(s)] /\ t \in Page
      /\ Latched(bdb[p], windows[p], main[p], s) /\ WindowsLocked(bdb[p], windows[p])
      /\ ReuseFits(bdb[p], windows[p], main[p], s) /\ FlushFits(bdb[p], main[p], s)
      /\ main[p].at \notin Asking
  BY <1>1, <1>2, Writes
<1>4. PICK hi \in Page : /\ stack' = [stack EXCEPT ![p] = Append(s, hi)]
                         /\ bdb' = [bdb EXCEPT ![p] = latch_bdb(release_bdb(bdb[p], t), hi)]
  BY <1>2 DEF WriteHigher, Higher
<1>5. PICK c : c = release_bdb(bdb[p], t)
  OBVIOUS
<1>6. c \in Caches(D) /\ Counted(bdb[p], c, t, bdb[p][t].use - 1)
  BY <1>3, <1>5, LatchCounts
<1>7. PICK b : b = latch_bdb(c, hi)
  OBVIOUS
<1>8. b \in Caches(D) /\ Counted(c, b, hi, c[hi].use + 1)
  BY <1>6, <1>7, LatchCounts
<1>9. PICK f : f = Append(s, hi)
  OBVIOUS
<1>10. /\ f \in Seq(Page) /\ f # <<>> /\ Len(f) = Len(s) + 1 /\ f[Len(s) + 1] = hi
       /\ \A i \in 1 .. Len(s) : f[i] = s[i]
  BY <1>3, <1>9, SeqEnds
<1>11. f[Len(f)] = hi /\ f[1] = s[1]
  BY <1>3, <1>10
<1>12. Same(bdb[p], b)
  BY <1>6, <1>8 DEF Same, Counted
<1>13. Latched(b, windows[p], main[p], f)
  <2>1. ASSUME NEW x \in Page
        PROVE  b[x].use = One(x \in windows[p]) + One(f # <<>> /\ f[Len(f)] = x)
                            + One(x \in Latching(main[p]))
    <3>1. bdb[p][x].use = One(x \in windows[p]) + One(t = x) + One(x \in Latching(main[p]))
      BY <1>3 DEF Latched
    <3>2. One(f # <<>> /\ f[Len(f)] = x) = One(hi = x)
      BY <1>10, <1>11 DEF One
    <3>3. bdb[p][x].use \in Int
      BY DEF Caches, Raw
    <3>4. b[x].use = bdb[p][x].use - One(t = x) + One(hi = x)
      BY <1>6, <1>8, <3>3 DEF Counted, One
    <3>5. One(x \in windows[p]) \in Int /\ One(t = x) \in Int /\ One(x \in Latching(main[p])) \in Int
          /\ One(hi = x) \in Int
      BY DEF One
    <3> QED
      BY <3>1, <3>2, <3>3, <3>4, <3>5
  <2> QED
    BY <2>1 DEF Latched
<1>14. Local(b, windows[p], main[p], f, <<>>)
  <2>1. WindowsLocked(b, windows[p])
    <3>1. \A x \in Page : b[x].flags = bdb[p][x].flags /\ b[x].lock = bdb[p][x].lock
      BY <1>6, <1>8 DEF Counted
    <3> QED
      BY <1>3, <3>1 DEF WindowsLocked, Has
  <2>2. ReuseFits(b, windows[p], main[p], f)
    BY <1>3, <1>10, <1>11 DEF ReuseFits
  <2>3. FlushFits(b, main[p], f)
    <3>1. main[p].at = "flush" => main[p].seen \subseteq Page
      BY DEF Main
    <3> QED
      BY <1>3, <1>10, <1>11, <1>12, <3>1 DEF FlushFits, Same, Has
  <2> QED
    BY <1>3, <1>13, <2>1, <2>2, <2>3, LocalCalm DEF WaitFits
<1>15. PICK w, m : w = windows[p] /\ m = main[p]
  OBVIOUS
<1>16. Moves(p, b, w, m, f, <<>>)
  BY <1>3, <1>4, <1>5, <1>7, <1>9, <1>15, MovesFrom DEF WriteHigher
<1>17. pre' = [pre EXCEPT ![p] = pre[p]] /\ pre[p] \in SUBSET pre[p]
  BY SamePre DEF WriteHigher
<1>18. ASSUME m.at = "precedence"
       PROVE  /\ m.high # m.page
              /\ \/ f # <<>> /\ f[1] = m.page
                 \/ m.page \notin Above(p, m.high)'
  <2>1. PrecedenceFits /\ m.high \in Page
    BY <1>15, <1>18 DEF IInv, Main
  <2>2. Above(p, m.high)' \subseteq Above(p, m.high)
    BY <1>17, <2>1, AboveShrinks
  <2> QED
    BY <1>2, <1>10, <1>11, <1>15, <1>18, <2>1, <2>2 DEF PrecedenceFits, related
<1>19. /\ disk' = disk /\ changes' = changes /\ tra_invalidated' = tra_invalidated
       /\ committed' = committed /\ alive' \subseteq alive /\ RestOK'
  BY DEF WriteHigher, file, RestOK
<1> QED
  BY <1>8, <1>10, <1>12, <1>14, <1>15, <1>16, <1>17, <1>18, <1>19, QuietStep

LEMMA WriteUnlinkStep ==
    ASSUME IInv, NEW p \in Proc, WriteUnlink(p)
    PROVE  IInv'
<1> USE Steady
<1>1. ast[p] = <<>>
  BY DEF WriteUnlink, WriteDirty, Writing, Calm
<1>2. PICK b, w, m, s : b = bdb[p] /\ w = windows[p] /\ m = main[p] /\ s = stack[p]
  OBVIOUS
<1>3. Moves(p, b, w, m, s, <<>>)
  BY <1>1, <1>2, MovesFrom DEF WriteUnlink
<1>4. pre' = [pre EXCEPT ![p] = pre[p]] /\ pre[p] \in SUBSET pre[p]
  BY SamePre DEF WriteUnlink
<1>5. /\ disk' = disk /\ changes' = changes /\ tra_invalidated' = tra_invalidated
      /\ committed' = committed /\ alive' \subseteq alive /\ RestOK'
  BY DEF WriteUnlink, file, RestOK
<1>6. Same(bdb[p], b)
  BY <1>2 DEF Same
<1> QED
  BY <1>1, <1>2, <1>3, <1>4, <1>5, <1>6, QuietStep


(* write_buffer() is entered for page pg. *)
LEMMA Pushes ==
    ASSUME NEW D, NEW c \in Caches(D), NEW w, NEW m, NEW pg \in Page, Latched(c, w, m, <<>>),
           NEW b, b = latch_bdb(c, pg), NEW s, s = <<pg>>
    PROVE  /\ b \in Caches(D) /\ Latched(b, w, m, s) /\ Counted(c, b, pg, c[pg].use + 1)
           /\ s \in Seq(Page) /\ s # <<>> /\ s[1] = pg
<1>1. b \in Caches(D) /\ Counted(c, b, pg, c[pg].use + 1)
  BY LatchCounts
<1>2. s \in Seq(Page) /\ s # <<>> /\ s[1] = pg /\ s[Len(s)] = pg
  OBVIOUS
<1>3. Latched(b, w, m, s)
  <2>1. ASSUME NEW x \in Page
        PROVE  b[x].use = One(x \in w) + One(s # <<>> /\ s[Len(s)] = x) + One(x \in Latching(m))
    <3>1. c[x].use = One(x \in w) + One(x \in Latching(m))
      BY DEF Latched, One
    <3>2. One(s # <<>> /\ s[Len(s)] = x) = One(pg = x)
      BY <1>2 DEF One
    <3>3. c[x].use \in Int /\ b[x].use = c[x].use + One(pg = x)
      BY <1>1 DEF Caches, Raw, Counted, One
    <3>4. One(x \in w) \in Int /\ One(pg = x) \in Int /\ One(x \in Latching(m)) \in Int
      BY DEF One
    <3> QED
      BY <3>1, <3>2, <3>3, <3>4
  <2> QED
    BY <2>1 DEF Latched
<1> QED
  BY <1>1, <1>2, <1>3

(* The thread that is outside every call holds what its windows hold. *)
LEMMA Resting ==
    ASSUME IInv, NEW p \in Proc, Ready(p), main[p] = Idle
    PROVE  /\ ast[p] = <<>> /\ stack[p] = <<>> /\ Local(bdb[p], windows[p], Idle, <<>>, <<>>)
           /\ Latched(bdb[p], windows[p], Idle, <<>>) /\ WindowsLocked(bdb[p], windows[p])
<1> USE Steady
<1>1. ast[p] = <<>> /\ stack[p] = <<>>
  BY DEF Ready, Calm
<1>2. Local(bdb[p], windows[p], Idle, <<>>, <<>>)
  BY <1>1
<1> QED
  BY <1>1, <1>2, LocalCalm

(* The ways out of check_precedence(): nothing to do, the higher page is   *)
(* written, the lower page is written, or a block is inserted.             *)
LEMMA CheckPrecedenceStep ==
    ASSUME IInv, NEW p \in Proc, NEW low \in Page, NEW high \in Page,
           check_precedence(p, low, high)
    PROVE  IInv'
<1> DEFINE D == DOMAIN changes
<1> USE Steady
<1>1. Ready(p) /\ main[p] = Idle /\ high # low
  BY DEF check_precedence, Held
<1>2. /\ ast[p] = <<>> /\ stack[p] = <<>> /\ Local(bdb[p], windows[p], Idle, <<>>, <<>>)
      /\ Latched(bdb[p], windows[p], Idle, <<>>) /\ WindowsLocked(bdb[p], windows[p])
  BY <1>1, Resting
<1>3. /\ disk' = disk /\ changes' = changes /\ tra_invalidated' = tra_invalidated
      /\ committed' = committed /\ alive' \subseteq alive /\ RestOK'
  <2>1. refers' \in [Proc -> [Page -> SUBSET D]]
    <3>1. Made(p, high) \subseteq D /\ refers \in [Proc -> [Page -> SUBSET D]]
      BY DEF Made, RestOK
    <3>2. refers' = [refers EXCEPT ![p] = [refers[p] EXCEPT ![low] = refers[p][low] \cup Made(p, high)]]
      BY DEF check_precedence
    <3>3. [refers[p] EXCEPT ![low] = refers[p][low] \cup Made(p, high)] \in [Page -> SUBSET D]
      BY <3>1
    <3> QED
      BY <3>1, <3>2, <3>3
  <2> QED
    BY <2>1 DEF check_precedence, file, RestOK
<1>4. UNCHANGED windows /\ UNCHANGED ast
  BY DEF check_precedence
<1>5. pre' = [pre EXCEPT ![p] = pre[p]] /\ pre[p] \in SUBSET pre[p]
  BY SamePre DEF check_precedence
<1>6. PICK n : n = [at |-> "precedence", page |-> low, high |-> high]
  OBVIOUS
<1>7. /\ n \in Threads(p) /\ n.at = "precedence" /\ n.page = low /\ n.high = high
      /\ Latching(n) = {} /\ Latching(Idle) = {}
  BY <1>6 DEF Threads, Main, Latching, Idle
<1>8. Idle \in Threads(p) /\ Idle.at = "idle"
  BY DEF Idle, Threads, Main
<1>9. Latched(bdb[p], windows[p], n, <<>>)
  BY <1>2, <1>7 DEF Latched
<1>10. Same(bdb[p], bdb[p])
  BY DEF Same
<1>11. PICK w : w = windows[p]
  OBVIOUS
<1>12. CASE UNCHANGED <<bdb, main, stack>>
  <2>1. PICK b : b = bdb[p]
    OBVIOUS
  <2>2. Moves(p, b, w, Idle, <<>>, <<>>)
    BY <1>1, <1>2, <1>4, <1>11, <1>12, <2>1, MovesFrom
  <2>3. <<>> \in Seq(Page)
    OBVIOUS
  <2> QED
    BY <1>2, <1>3, <1>5, <1>8, <1>10, <1>11, <2>1, <2>2, <2>3, QuietStep
<1>13. ASSUME bdb' = [bdb EXCEPT ![p] = latch_bdb(bdb[p], high)],
              stack' = [stack EXCEPT ![p] = <<high>>], UNCHANGED main
       PROVE  IInv'
  <2>1. PICK b, s : b = latch_bdb(bdb[p], high) /\ s = <<high>>
    OBVIOUS
  <2>2. /\ b \in Caches(D) /\ Latched(b, w, Idle, s)
        /\ Counted(bdb[p], b, high, bdb[p][high].use + 1) /\ s \in Seq(Page)
    BY <1>2, <1>11, <2>1, Pushes
  <2>3. Same(bdb[p], b)
    BY <2>2 DEF Same, Counted
  <2>4. WindowsLocked(b, w)
    BY <1>2, <1>11, <2>2 DEF WindowsLocked, Counted, Has
  <2>5. Local(b, w, Idle, s, <<>>)
    BY <1>8, <2>2, <2>4, LocalCalm DEF WaitFits, ReuseFits, FlushFits
  <2>6. Moves(p, b, w, Idle, s, <<>>)
    BY <1>1, <1>2, <1>4, <1>11, <1>13, <2>1, MovesFrom
  <2> QED
    BY <1>3, <1>5, <1>8, <1>11, <2>2, <2>3, <2>5, <2>6, QuietStep
<1>14. ASSUME bdb' = [bdb EXCEPT ![p] = latch_bdb(bdb[p], low)],
              stack' = [stack EXCEPT ![p] = <<low>>], main' = [main EXCEPT ![p] = n]
       PROVE  IInv'
  <2>1. PICK b, s : b = latch_bdb(bdb[p], low) /\ s = <<low>>
    OBVIOUS
  <2>2. /\ b \in Caches(D) /\ Latched(b, w, n, s)
        /\ Counted(bdb[p], b, low, bdb[p][low].use + 1) /\ s \in Seq(Page)
        /\ s # <<>> /\ s[1] = low
    BY <1>9, <1>11, <2>1, Pushes
  <2>3. Same(bdb[p], b)
    BY <2>2 DEF Same, Counted
  <2>4. WindowsLocked(b, w)
    BY <1>2, <1>11, <2>2 DEF WindowsLocked, Counted, Has
  <2>5. Local(b, w, n, s, <<>>)
    BY <1>7, <2>2, <2>4, LocalCalm DEF WaitFits, ReuseFits, FlushFits
  <2>6. Moves(p, b, w, n, s, <<>>)
    BY <1>2, <1>4, <1>11, <1>14, <2>1, MovesFrom
  <2>7. n.high # n.page /\ s # <<>> /\ s[1] = n.page /\ w \in SUBSET Page /\ n \in Threads(p)
    BY <1>1, <1>7, <1>11, <2>2
  <2>8. b \in Caches(DOMAIN changes) /\ s \in Seq(Page)
    BY <2>2
  <2>9. n.at = "precedence" => \/ n = main[p] /\ s = stack[p]
                               \/ /\ n.high # n.page
                                  /\ \/ s # <<>> /\ s[1] = n.page
                                     \/ n.page \notin Above(p, n.high)'
    BY <2>7
  <2>10. n \in Threads(p) /\ w \in SUBSET Page
    BY <2>7
  <2> HIDE Steady
  <2> QED
    BY <1>3, <1>5, <2>3, <2>5, <2>6, <2>8, <2>9, <2>10, QuietStep
<1>15. ASSUME ~ClosesCycle(p, low, high), main' = [main EXCEPT ![p] = n], UNCHANGED <<bdb, stack>>
       PROVE  IInv'
  <2>1. PICK b : b = bdb[p]
    OBVIOUS
  <2>2. Local(b, w, n, <<>>, <<>>)
    BY <1>2, <1>7, <1>9, <1>11, <2>1, LocalCalm DEF WaitFits, ReuseFits, FlushFits
  <2>3. Moves(p, b, w, n, <<>>, <<>>)
    BY <1>2, <1>4, <1>11, <1>15, <2>1, MovesFrom
  <2>4. n.page \notin Above(p, n.high)'
    <3>1. Above(p, high)' \subseteq Above(p, high)
      BY <1>5, AboveShrinks
    <3>2. low \notin Above(p, high)
      BY <1>15 DEF ClosesCycle, related
    <3>3. low \notin Above(p, high)'
      BY <3>1, <3>2
    <3> QED
      BY <1>7, <3>3
  <2>5. <<>> \in Seq(Page) /\ n.high # n.page
    BY <1>1, <1>7
  <2> QED
    BY <1>3, <1>5, <1>7, <1>10, <1>11, <2>1, <2>2, <2>3, <2>4, <2>5, QuietStep
<1>16. \/ UNCHANGED <<bdb, main, stack>>
       \/ /\ bdb' = [bdb EXCEPT ![p] = latch_bdb(bdb[p], high)]
          /\ stack' = [stack EXCEPT ![p] = <<high>>] /\ UNCHANGED main
       \/ /\ bdb' = [bdb EXCEPT ![p] = latch_bdb(bdb[p], low)]
          /\ stack' = [stack EXCEPT ![p] = <<low>>] /\ main' = [main EXCEPT ![p] = n]
       \/ /\ ~ClosesCycle(p, low, high)
          /\ main' = [main EXCEPT ![p] = n] /\ UNCHANGED <<bdb, stack>>
  BY <1>6, Zenon DEF check_precedence
<1> QED
  BY <1>12, <1>13, <1>14, <1>15, <1>16


(* Whatever is above a page above pg is above pg. *)
LEMMA AboveClosed ==
    ASSUME NEW p, NEW pg \in Page, NEW x \in {pg} \cup Above(p, pg)
    PROVE  Higher(p, x) \subseteq Above(p, pg)
<1>1. ASSUME NEW h \in Higher(p, x), NEW S \in SUBSET Page,
             \A y \in S \cup {pg} : Higher(p, y) \subseteq S
      PROVE  h \in S
  <2>1. x \in S \cup {pg}
    BY <1>1 DEF Above
  <2> QED
    BY <1>1, <2>1
<1>2. Higher(p, x) \subseteq Page
  BY DEF Higher
<1> QED
  BY <1>1, <1>2 DEF Above

(* The new block closes no cycle: low is not above high. *)
LEMMA InsertAcyclic ==
    ASSUME TypeOK, PrecedenceAcyclic, NEW p \in Proc, NEW low \in Page, NEW high \in Page,
           low # high, low \notin Above(p, high),
           pre' = [pre EXCEPT ![p] = pre[p] \cup {<<high, low>>}]
    PROVE  PrecedenceAcyclic'
<1>1. pre'[p] = pre[p] \cup {<<high, low>>} /\ \A q \in Proc : q # p => pre'[q] = pre[q]
  BY DEF TypeOK
<1>2. \A x \in Page : x # low => Higher(p, x)' = Higher(p, x)
  BY <1>1 DEF Higher
<1>3. Higher(p, low)' = Higher(p, low) \cup {high}
  BY <1>1 DEF Higher
<1>4. ASSUME NEW S \in SUBSET Page, S # {}
      PROVE  \E pg \in S : Higher(p, pg)' \cap S = {}
  <2>1. PICK pg \in S : Higher(p, pg) \cap S = {}
    BY <1>4 DEF PrecedenceAcyclic
  <2>2. CASE pg # low
    BY <1>2, <2>1, <2>2
  <2>3. CASE pg = low /\ high \notin S
    BY <1>3, <2>1, <2>3
  <2>4. CASE pg = low /\ high \in S
    <3>1. PICK U : U = ({high} \cup Above(p, high)) \cap S
      OBVIOUS
    <3>2. U \in SUBSET Page /\ high \in U /\ low \notin U
      BY <2>4, <3>1
    <3>3. PICK x \in U : Higher(p, x) \cap U = {}
      BY <3>2 DEF PrecedenceAcyclic
    <3>4. Higher(p, x) \subseteq Above(p, high)
      BY <3>1, AboveClosed
    <3>5. Higher(p, x) \cap S = {}
      BY <3>1, <3>3, <3>4
    <3>6. x # low /\ x \in S /\ x \in Page
      BY <3>1, <3>2
    <3> QED
      BY <1>2, <3>5, <3>6
  <2> QED
    BY <2>2, <2>3, <2>4
<1>5. ASSUME NEW q \in Proc, q # p, NEW S \in SUBSET Page, S # {}
      PROVE  \E pg \in S : Higher(q, pg)' \cap S = {}
  <2>1. PICK pg \in S : Higher(q, pg) \cap S = {}
    BY <1>5 DEF PrecedenceAcyclic
  <2>2. Higher(q, pg)' = Higher(q, pg)
    BY <1>1, <1>5 DEF Higher
  <2> QED
    BY <2>1, <2>2
<1> QED
  BY <1>4, <1>5 DEF PrecedenceAcyclic

LEMMA InsertPrecedenceStep ==
    ASSUME IInv, NEW p \in Proc, InsertPrecedence(p)
    PROVE  IInv'
<1> USE Steady
<1>1. ast[p] = <<>> /\ stack[p] = <<>> /\ main[p].at = "precedence"
  BY DEF InsertPrecedence, Ready, Calm
<1>2. PICK low \in Page, high \in Page : low = main[p].page /\ high = main[p].high
  BY <1>1 DEF Main
<1>3. PrecedenceAcyclic /\ PrecedenceFits
  BY DEF IInv
<1>4. low # high /\ low \notin Above(p, high)
  BY <1>1, <1>2, <1>3 DEF PrecedenceFits, related
<1>5. PICK e : e = pre[p] \cup {<<high, low>>}
  OBVIOUS
<1>6. pre' = [pre EXCEPT ![p] = e] /\ pre' = [pre EXCEPT ![p] = pre[p] \cup {<<high, low>>}]
  BY <1>2, <1>5 DEF InsertPrecedence
<1>7. PrecedenceAcyclic'
  BY <1>2, <1>3, <1>4, <1>6, InsertAcyclic
<1>8. main' = [main EXCEPT ![p] = Idle] /\ UNCHANGED <<bdb, windows, stack, ast>>
  BY DEF InsertPrecedence
<1>9. PrecedenceFits'
  <2>1. ASSUME NEW q \in Proc, NEW k \in Main, main'[q] = k, k.at = "precedence"
        PROVE  /\ k.high # k.page
               /\ \/ stack'[q] # <<>> /\ stack'[q][1] = k.page
                  \/ k.page \notin Above(q, k.high)'
    <3>1. q # p
      BY <1>8, <2>1 DEF ThreadsOK, Idle
    <3>2. main[q] = k /\ pre'[q] = pre[q] /\ stack' = stack
      BY <1>6, <1>8, <2>1, <3>1 DEF ThreadsOK, TypeOK
    <3>3. Above(q, k.high)' = Above(q, k.high)
      BY <3>2 DEF Above, Higher
    <3> QED
      BY <1>3, <2>1, <3>2, <3>3 DEF PrecedenceFits, related
  <2>2. main' \in [Proc -> Main]
    BY <1>8 DEF ThreadsOK, Idle, Main
  <2> QED
    BY <2>1, <2>2, FitsFromThreads
<1>10. PICK b, w, s : b = bdb[p] /\ w = windows[p] /\ s = stack[p]
  OBVIOUS
<1>11. Idle \in Threads(p) /\ Idle.at = "idle"
  BY DEF Idle, Threads, Main
<1>12. Local(b, w, Idle, s, <<>>)
  <2>1. Local(b, w, main[p], s, <<>>)
    BY <1>1, <1>10
  <2>2. Latched(b, w, main[p], s) /\ WindowsLocked(b, w)
    BY <2>1, LocalCalm
  <2>3. Latched(b, w, Idle, s)
    BY <1>1, <2>2 DEF Latched, Latching, Idle
  <2> QED
    BY <1>11, <2>2, <2>3, LocalCalm DEF WaitFits, ReuseFits, FlushFits
<1>13. Moves(p, b, w, Idle, s, <<>>)
  BY <1>1, <1>8, <1>10, MovesFrom
<1>14. /\ disk' = disk /\ changes' = changes /\ tra_invalidated' = tra_invalidated
       /\ committed' = committed /\ alive' = alive
  BY DEF InsertPrecedence, file
<1>15. RestOK'
  <2>1. e \in SUBSET (Page \X Page)
    BY <1>5 DEF RestOK
  <2> QED
    BY <1>6, <2>1 DEF InsertPrecedence, file, RestOK
<1>16. ASSUME NEW x \in Page
       PROVE  PageKept(p, b, x) /\ BufferKept(p, b, x) /\ disk[x] \subseteq disk'[x]
  <2>1. Coherent /\ LocksCompatible /\ NothingOverwritten
    BY DEF IInv
  <2> QED
    BY <1>10, <1>14, <2>1
       DEF PageKept, BufferKept, Has, Coherent, LocksCompatible, NothingOverwritten
<1> QED
  BY <1>6, <1>7, <1>9, <1>10, <1>11, <1>12, <1>13, <1>14, <1>15, <1>16, CalmStep


LEMMA UnlatchedRest ==
    ASSUME TypeOK, NEW p \in Proc, NEW b, NEW pg \in Page, Unlatched(p, b, pg)
    PROVE  posted' \in [Proc -> SUBSET Page]
<1>1. RePostFree(release_bdb(b, pg), {pg}) \subseteq Page
  BY DEF RePostFree, RePost
<1> QED
  BY <1>1 DEF Unlatched, TypeOK

LEMMA ReleaseStep ==
    ASSUME IInv, NEW p \in Proc, NEW pg \in Page, CCH_release(p, pg)
    PROVE  IInv'
<1> DEFINE D == DOMAIN changes
<1> USE Steady
<1>1. Ready(p) /\ main[p] = Idle /\ pg \in windows[p]
  BY DEF CCH_release
<1>2. /\ ast[p] = <<>> /\ stack[p] = <<>> /\ Latched(bdb[p], windows[p], Idle, <<>>)
      /\ WindowsLocked(bdb[p], windows[p])
  BY <1>1, Resting
<1>3. PICK c : c = Clear(bdb[p], pg, {"writer", "marked"})
  OBVIOUS
<1>4. c \in Caches(D) /\ Flagged(bdb[p], c, pg, bdb[p][pg].flags \ {"writer", "marked"})
  BY <1>3, ClearFlags
<1>5. PICK w : w = windows[p] \ {pg}
  OBVIOUS
<1>6. w \in SUBSET Page /\ windows' = [windows EXCEPT ![p] = w]
  BY <1>5 DEF CCH_release
<1>7. \A x \in Page : c[x].use = One(x \in w) + One(x = pg) /\ c[x].use \in Int
  <2>1. ASSUME NEW x \in Page PROVE c[x].use = One(x \in w) + One(x = pg) /\ c[x].use \in Int
    <3>1. c[x].use = One(x \in windows[p])
      BY <1>2, <1>4 DEF Latched, Latching, Idle, One, Flagged
    <3> QED
      BY <1>1, <1>5, <3>1 DEF One
  <2> QED
    BY <2>1
<1>8. WindowsLocked(c, w)
  BY <1>2, <1>4, <1>5 DEF WindowsLocked, Flagged, Has
<1>9. Same(bdb[p], c)
  BY <1>4 DEF Same, Flagged
<1>10. pre' = [pre EXCEPT ![p] = pre[p]] /\ pre[p] \in SUBSET pre[p]
  BY SamePre DEF CCH_release
<1>11. refers' \in [Proc -> [Page -> SUBSET D]]
  <2>1. refers' = [refers EXCEPT ![p] = [refers[p] EXCEPT ![pg] = {}]]
    BY DEF CCH_release
  <2>2. [refers[p] EXCEPT ![pg] = {}] \in [Page -> SUBSET D]
    BY DEF RestOK
  <2> QED
    BY <2>1, <2>2 DEF RestOK
<1>12. /\ disk' = disk /\ changes' = changes /\ tra_invalidated' = tra_invalidated
       /\ committed' = committed /\ alive' \subseteq alive
  BY DEF CCH_release, file
<1>13. posted' \in [Proc -> SUBSET Page] => RestOK'
  BY <1>11 DEF CCH_release, file, RestOK
<1>14. ASSUME bdb' = [bdb EXCEPT ![p] = latch_bdb(c, pg)], stack' = [stack EXCEPT ![p] = <<pg>>],
              main' = [main EXCEPT ![p] = [at |-> "release", page |-> pg]], UNCHANGED posted
       PROVE  IInv'
  <2>1. PICK b, s, m : b = latch_bdb(c, pg) /\ s = <<pg>> /\ m = [at |-> "release", page |-> pg]
    OBVIOUS
  <2>2. m \in Threads(p) /\ m.at = "release" /\ Latching(m) = {pg}
    BY <2>1 DEF Threads, Main, Latching
  <2>3. Latched(c, w, m, <<>>)
    BY <1>7, <2>2 DEF Latched, One
  <2>4. /\ b \in Caches(D) /\ Latched(b, w, m, s) /\ Counted(c, b, pg, c[pg].use + 1)
        /\ s \in Seq(Page) /\ s # <<>> /\ s[1] = pg
    BY <1>4, <2>1, <2>3, Pushes
  <2>5. Same(bdb[p], b)
    BY <1>9, <2>4 DEF Same, Counted
  <2>6. WindowsLocked(b, w)
    BY <1>6, <1>8, <2>4 DEF WindowsLocked, Counted, Has
  <2>7. Local(b, w, m, s, <<>>)
    BY <2>2, <2>4, <2>6, LocalCalm DEF WaitFits, ReuseFits, FlushFits
  <2>8. Moves(p, b, w, m, s, <<>>)
    BY <1>2, <1>6, <1>14, <2>1, MovesFrom DEF CCH_release
  <2>9. RestOK' /\ m.at # "precedence"
    BY <1>13, <1>14, <2>2 DEF RestOK
  <2> QED
    BY <1>6, <1>10, <1>12, <2>2, <2>4, <2>5, <2>7, <2>8, <2>9, QuietStep
<1>15. ASSUME Unlatched(p, c, pg), UNCHANGED <<stack, main>>
       PROVE  IInv'
  <2>1. PICK b : b = release_bdb(c, pg)
    OBVIOUS
  <2>2. b \in Caches(D) /\ Counted(c, b, pg, c[pg].use - 1)
    BY <1>4, <2>1, LatchCounts
  <2>3. Same(bdb[p], b)
    BY <1>9, <2>2 DEF Same, Counted
  <2>4. Idle \in Threads(p) /\ Idle.at = "idle" /\ Latching(Idle) = {}
    BY DEF Threads, Main, Latching, Idle
  <2>5. Latched(b, w, Idle, <<>>)
    BY <1>7, <2>2, <2>4 DEF Latched, Counted, One
  <2>6. WindowsLocked(b, w)
    BY <1>6, <1>8, <2>2 DEF WindowsLocked, Counted, Has
  <2>7. Local(b, w, Idle, <<>>, <<>>)
    BY <2>4, <2>5, <2>6, LocalCalm DEF WaitFits, ReuseFits, FlushFits
  <2>8. bdb' = [bdb EXCEPT ![p] = b]
    BY <1>15, <2>1 DEF Unlatched
  <2>9. Moves(p, b, w, Idle, <<>>, <<>>)
    BY <1>1, <1>2, <1>6, <1>15, <2>8, MovesFrom DEF CCH_release
  <2>10. RestOK' /\ <<>> \in Seq(Page)
    BY <1>13, <1>15, UnlatchedRest
  <2> QED
    BY <1>6, <1>10, <1>12, <2>2, <2>3, <2>4, <2>7, <2>9, <2>10, QuietStep
<1>16. \/ /\ bdb' = [bdb EXCEPT ![p] = latch_bdb(c, pg)] /\ stack' = [stack EXCEPT ![p] = <<pg>>]
          /\ main' = [main EXCEPT ![p] = [at |-> "release", page |-> pg]] /\ UNCHANGED posted
       \/ Unlatched(p, c, pg) /\ UNCHANGED <<stack, main>>
  BY <1>3, Zenon DEF CCH_release
<1> QED
  BY <1>14, <1>15, <1>16

LEMMA ReleasedStep ==
    ASSUME IInv, NEW p \in Proc, Released(p)
    PROVE  IInv'
<1> DEFINE D == DOMAIN changes
<1> USE Steady
<1>1. ast[p] = <<>> /\ stack[p] = <<>> /\ main[p].at = "release"
  BY DEF Released, Ready, Calm
<1>2. PICK pg \in Page : pg = main[p].page
  BY <1>1 DEF Main
<1>3. Local(bdb[p], windows[p], main[p], <<>>, <<>>)
  BY <1>1
<1>4. Latched(bdb[p], windows[p], main[p], <<>>) /\ WindowsLocked(bdb[p], windows[p])
  BY <1>3, LocalCalm
<1>5. PICK b : b = release_bdb(bdb[p], pg)
  OBVIOUS
<1>6. b \in Caches(D) /\ Counted(bdb[p], b, pg, bdb[p][pg].use - 1)
  BY <1>5, LatchCounts
<1>7. Same(bdb[p], b)
  BY <1>6 DEF Same, Counted
<1>8. Idle \in Threads(p) /\ Idle.at = "idle" /\ Latching(Idle) = {} /\ Latching(main[p]) = {pg}
  BY <1>1, <1>2 DEF Threads, Main, Latching, Idle
<1>9. Latched(b, windows[p], Idle, <<>>)
  <2>1. ASSUME NEW x \in Page
        PROVE  b[x].use = One(x \in windows[p]) + One(FALSE) + One(x \in {})
    <3>1. bdb[p][x].use = One(x \in windows[p]) + One(x = pg)
      BY <1>4, <1>8 DEF Latched, One
    <3> QED
      BY <1>6, <3>1 DEF Counted, One
  <2> QED
    BY <1>8, <2>1 DEF Latched, One
<1>10. WindowsLocked(b, windows[p])
  BY <1>4, <1>6 DEF WindowsLocked, Counted, Has
<1>11. PICK w : w = windows[p]
  OBVIOUS
<1>12. Local(b, w, Idle, <<>>, <<>>)
  BY <1>8, <1>9, <1>10, <1>11, LocalCalm DEF WaitFits, ReuseFits, FlushFits
<1>13. bdb' = [bdb EXCEPT ![p] = b]
  BY <1>2, <1>5 DEF Released, Unlatched
<1>14. Moves(p, b, w, Idle, <<>>, <<>>)
  BY <1>1, <1>11, <1>13, MovesFrom DEF Released
<1>15. RestOK' /\ <<>> \in Seq(Page)
  <2>1. posted' \in [Proc -> SUBSET Page]
    BY <1>2, UnlatchedRest DEF Released
  <2>2. RestOK'
    BY <2>1 DEF Released, RestOK, file
  <2>3. <<>> \in Seq(Page)
    OBVIOUS
  <2> QED
    BY <2>2, <2>3
<1>16. pre' = [pre EXCEPT ![p] = pre[p]] /\ pre[p] \in SUBSET pre[p]
  BY SamePre DEF Released
<1>17. /\ disk' = disk /\ changes' = changes /\ tra_invalidated' = tra_invalidated
       /\ committed' = committed /\ alive' \subseteq alive
  BY DEF Released, file
<1> QED
  BY <1>6, <1>7, <1>8, <1>11, <1>12, <1>14, <1>15, <1>16, <1>17, QuietStep


LEMMA CommitStep ==
    ASSUME IInv, NEW p \in Proc, NEW t \in Tra, TRA_commit(p, t)
    PROVE  IInv'
<1> USE Steady
<1>1. Ready(p) /\ main[p] = Idle /\ t \in TraOf[p]
  BY DEF TRA_commit
<1>2. /\ ast[p] = <<>> /\ stack[p] = <<>> /\ Latched(bdb[p], windows[p], Idle, <<>>)
      /\ WindowsLocked(bdb[p], windows[p])
  BY <1>1, Resting
<1>3. PICK b, w, m : /\ b = bdb[p] /\ w = windows[p]
                     /\ m = [at |-> "flush", tra |-> t, seen |-> {}]
  OBVIOUS
<1>4. m \in Threads(p) /\ m.at = "flush" /\ m.seen = {} /\ Latching(m) = {} /\ Latching(Idle) = {}
  BY <1>1, <1>3 DEF Threads, Main, Latching, Idle
<1>5. Latched(b, w, m, <<>>)
  BY <1>2, <1>3, <1>4 DEF Latched
<1>6. Local(b, w, m, <<>>, <<>>)
  BY <1>2, <1>3, <1>4, <1>5, LocalCalm DEF WaitFits, ReuseFits, FlushFits
<1>7. Moves(p, b, w, m, <<>>, <<>>)
  BY <1>2, <1>3, MovesFrom DEF TRA_commit, cache
<1>8. pre' = [pre EXCEPT ![p] = pre[p]] /\ pre[p] \in SUBSET pre[p]
  BY SamePre DEF TRA_commit, cache
<1>9. /\ disk' = disk /\ changes' = changes /\ tra_invalidated' = tra_invalidated
      /\ committed' = committed /\ alive' \subseteq alive /\ RestOK'
  BY DEF TRA_commit, cache, RestOK
<1>10. Same(bdb[p], b) /\ <<>> \in Seq(Page)
  BY <1>3 DEF Same
<1> QED
  BY <1>3, <1>4, <1>6, <1>7, <1>8, <1>9, <1>10, QuietStep

(* A set of naturals that is not empty has a least element. *)
LEMMA LeastNat ==
    ASSUME NEW T \in SUBSET Nat, T # {}
    PROVE  \E x \in T : \A y \in T : x <= y
<1> DEFINE R == OpToRel(<, Nat)
<1>1. IsWellFoundedOn(R, Nat)
  BY NatLessThanWellFounded
<1>2. \A x, y \in Nat : x < y => <<x, y>> \in R
  BY DEF OpToRel
<1> HIDE DEF R
<1>3. PICK x \in T : \A y \in T : ~ (<<y, x>> \in R)
  BY <1>1, WFMin
<1>4. \A y \in T : ~ (y < x)
  BY <1>2, <1>3
<1> QED
  BY <1>4

LEMMA FlushStep ==
    ASSUME IInv, NEW p \in Proc, btc_flush(p)
    PROVE  IInv'
<1> DEFINE D == DOMAIN changes
<1> USE Steady
<1>1. ast[p] = <<>> /\ stack[p] = <<>> /\ main[p].at = "flush" /\ Unseen(p) # {}
  BY DEF btc_flush, Ready, Calm
<1>2. Local(bdb[p], windows[p], main[p], <<>>, <<>>)
  BY <1>1
<1>3. /\ Latched(bdb[p], windows[p], main[p], <<>>) /\ WindowsLocked(bdb[p], windows[p])
      /\ FlushFits(bdb[p], main[p], <<>>)
  BY <1>2, LocalCalm
<1>4. PICK pg : pg = CHOOSE x \in Unseen(p) : \A y \in Unseen(p) : x <= y
  OBVIOUS
<1>5. pg \in Unseen(p) /\ \A y \in Unseen(p) : pg <= y
  <2>1. Unseen(p) \in SUBSET Nat
    BY PageCacheAssumption DEF Unseen
  <2>2. \E x \in Unseen(p) : \A y \in Unseen(p) : x <= y
    BY <1>1, <2>1, LeastNat
  <2> QED
    BY <1>4, <2>2
<1>6. pg \in Page /\ pg \in Nat
  BY <1>5, PageCacheAssumption DEF Unseen
<1>7. PICK m : m = [main[p] EXCEPT !.seen = {x \in Page : x <= pg}]
  OBVIOUS
<1>8. main' = [main EXCEPT ![p] = m]
  BY <1>4, <1>7 DEF btc_flush
<1>9. /\ m \in Threads(p) /\ m.at = "flush" /\ m.tra = main[p].tra
      /\ m.seen = {x \in Page : x <= pg} /\ Latching(m) = {} /\ Latching(main[p]) = {}
  <2>1. PICK k \in Threads(p) : k = main[p]
    OBVIOUS
  <2>2. k.at = "flush" /\ k \in [at : {"flush"}, tra : Tra, seen : SUBSET Page] /\ k.tra \in TraOf[p]
    BY <1>1, <2>1 DEF Threads, Main
  <2>3. m = [k EXCEPT !.seen = {x \in Page : x <= pg}]
    BY <1>7, <2>1
  <2>4. /\ m \in [at : {"flush"}, tra : Tra, seen : SUBSET Page] /\ m.at = "flush" /\ m.tra = k.tra
        /\ m.seen = {x \in Page : x <= pg}
    BY <2>2, <2>3
  <2>5. m \in Main
    BY <2>4 DEF Main
  <2> QED
    BY <2>1, <2>2, <2>4, <2>5 DEF Threads, Latching
<1>10. Latched(bdb[p], windows[p], m, <<>>)
  BY <1>3, <1>9 DEF Latched
<1>11. ASSUME NEW x \in m.seen, x # pg
       PROVE  ~(Has(bdb[p], x, "dirty") /\ m.tra \in bdb[p][x].transactions)
  <2>1. x \in Page /\ x <= pg /\ x \in Nat
    BY <1>9, <1>11, PageCacheAssumption
  <2>2. x \notin Unseen(p)
    BY <1>5, <1>6, <1>11, <2>1
  <2>3. ASSUME x \in main[p].seen
        PROVE  ~(Has(bdb[p], x, "dirty") /\ m.tra \in bdb[p][x].transactions)
    BY <1>1, <1>3, <1>9, <2>3 DEF FlushFits
  <2> QED
    BY <2>1, <2>2, <2>3 DEF Unseen
<1>12. /\ disk' = disk /\ changes' = changes /\ tra_invalidated' = tra_invalidated
       /\ committed' = committed /\ alive' \subseteq alive /\ RestOK'
  BY DEF btc_flush, file, RestOK
<1>13. pre' = [pre EXCEPT ![p] = pre[p]] /\ pre[p] \in SUBSET pre[p]
  BY SamePre DEF btc_flush
<1>14. PICK w : w = windows[p]
  OBVIOUS
<1>15. CASE Flushed(p, pg)
  <2>1. PICK b, s : b = latch_bdb(bdb[p], pg) /\ s = <<pg>>
    OBVIOUS
  <2>2. bdb' = [bdb EXCEPT ![p] = b] /\ stack' = [stack EXCEPT ![p] = s]
    BY <1>4, <1>15, <2>1 DEF btc_flush
  <2>3. /\ b \in Caches(D) /\ Latched(b, w, m, s) /\ Counted(bdb[p], b, pg, bdb[p][pg].use + 1)
        /\ s \in Seq(Page) /\ s # <<>> /\ s[1] = pg
    BY <1>6, <1>10, <1>14, <2>1, Pushes
  <2>4. Same(bdb[p], b)
    BY <2>3 DEF Same, Counted
  <2>5. WindowsLocked(b, w)
    BY <1>3, <1>14, <2>3 DEF WindowsLocked, Counted, Has
  <2>6. FlushFits(b, m, s)
    BY <1>9, <1>11, <2>3, <2>4 DEF FlushFits, Same, Has
  <2>7. Local(b, w, m, s, <<>>)
    BY <1>9, <2>3, <2>5, <2>6, LocalCalm DEF WaitFits, ReuseFits
  <2>8. Moves(p, b, w, m, s, <<>>)
    BY <1>1, <1>8, <1>14, <2>2, MovesFrom DEF btc_flush
  <2> QED
    BY <1>9, <1>12, <1>13, <1>14, <2>3, <2>4, <2>7, <2>8, QuietStep
<1>16. CASE ~Flushed(p, pg)
  <2>1. PICK b : b = bdb[p]
    OBVIOUS
  <2>2. UNCHANGED <<bdb, stack>>
    BY <1>4, <1>16 DEF btc_flush
  <2>3. m.tra \notin bdb[p][pg].transactions
    BY <1>9, <1>16 DEF Flushed
  <2>4. FlushFits(b, m, <<>>)
    BY <1>9, <1>11, <2>1, <2>3 DEF FlushFits
  <2>5. Local(b, w, m, <<>>, <<>>)
    BY <1>3, <1>9, <1>10, <1>14, <2>1, <2>4, LocalCalm DEF WaitFits, ReuseFits
  <2>6. Moves(p, b, w, m, <<>>, <<>>)
    BY <1>1, <1>8, <1>14, <2>1, <2>2, MovesFrom DEF btc_flush
  <2>7. Same(bdb[p], b) /\ <<>> \in Seq(Page)
    BY <2>1 DEF Same
  <2> QED
    BY <1>9, <1>12, <1>13, <1>14, <2>1, <2>5, <2>6, <2>7, QuietStep
<1> QED
  BY <1>15, <1>16

(* The commit is durable: the flush has left no page dirty that the        *)
(* transaction changed, and what is in no dirty page is in the file.       *)
LEMMA SetStateStep ==
    ASSUME IInv, NEW p \in Proc, TRA_set_state(p)
    PROVE  IInv'
<1> USE Steady
<1>1. /\ ast[p] = <<>> /\ stack[p] = <<>> /\ main[p].at = "flush" /\ Unseen(p) = {} /\ p \in alive
  BY DEF TRA_set_state, Ready, Calm
<1>2. PICK t : t = main[p].tra
  OBVIOUS
<1>3. t \in Tra /\ t \in TraOf[p]
  BY <1>1, <1>2 DEF Threads, Main
<1>4. Local(bdb[p], windows[p], main[p], <<>>, <<>>)
  BY <1>1
<1>5. /\ Latched(bdb[p], windows[p], main[p], <<>>) /\ WindowsLocked(bdb[p], windows[p])
      /\ FlushFits(bdb[p], main[p], <<>>)
  BY <1>4, LocalCalm
<1>6. ASSUME NEW x \in Page, "dirty" \in bdb[p][x].flags PROVE t \notin bdb[p][x].transactions
  <2>1. x \in main[p].seen
    BY <1>1, <1>6 DEF Unseen, Has
  <2> QED
    BY <1>1, <1>2, <1>5, <1>6, <2>1 DEF FlushFits, Has
<1>7. UNCHANGED <<disk, changes, lost, tra_invalidated, bdb, pre, cleared, posted, windows,
                  refers, stack, ast, alive>>
      /\ committed' = committed \cup {t} /\ main' = [main EXCEPT ![p] = Idle]
      /\ committing' = committing \ {t}
  BY <1>2 DEF TRA_set_state, cache
<1>8. PICK b, w : b = bdb[p] /\ w = windows[p]
  OBVIOUS
<1>9. /\ Idle \in Threads(p) /\ Idle \in Main /\ Idle.at = "idle" /\ Latching(Idle) = {}
      /\ Latching(main[p]) = {}
  BY <1>1 DEF Threads, Main, Latching, Idle
<1>10. Latched(b, w, Idle, <<>>)
  BY <1>5, <1>8, <1>9 DEF Latched
<1>11. Local(b, w, Idle, <<>>, <<>>)
  BY <1>5, <1>8, <1>9, <1>10, LocalCalm DEF WaitFits, ReuseFits, FlushFits
<1>12. Moves(p, b, w, Idle, <<>>, <<>>)
  BY <1>1, <1>7, <1>8, MovesFrom
<1>13. RestOK'
  BY <1>3, <1>7 DEF RestOK
<1>14. TypeOK' /\ ThreadsOK' /\ LocalInv'
  <2>1. LocalInv /\ DOMAIN changes \subseteq DOMAIN changes' /\ b \in Caches(DOMAIN changes')
    BY <1>7, <1>8 DEF IInv
  <2>2. <<>> \in Seq(Page) /\ <<>> \in Seq(Frames)
    OBVIOUS
  <2> QED
    BY <1>8, <1>9, <1>11, <1>12, <1>13, <2>1, <2>2, TypesKept
<1>15. pre' = [pre EXCEPT ![p] = pre[p]] /\ pre[p] \in SUBSET pre[p]
  BY <1>7, SamePre
<1>16. PrecedenceAcyclic' /\ PrecedenceFits' /\ HigherSeen'
  <2>1. PrecedenceAcyclic /\ PrecedenceFits /\ HigherSeen
    BY DEF IInv
  <2>2. PrecedenceAcyclic' /\ PrecedenceFits'
    BY <1>9, <1>12, <1>15, <2>1, OrderKept
  <2> QED
    BY <1>12, <1>15, <2>1, <2>2, SeenKept
<1>17. Coherent' /\ LocksCompatible' /\ NothingOverwritten' /\ ChangesKept'
  BY <1>7 DEF IInv, Coherent, LocksCompatible, NothingOverwritten, ChangesKept, OnDisk, Has
<1>18. Durable'
  <2>1. ASSUME NEW c \in DOMAIN changes, changes[c].tra \in committed \cup {t},
               changes[c].tra \notin tra_invalidated
        PROVE  OnDisk(c)
    <3>1. CASE changes[c].tra \in committed
      BY <2>1, <3>1 DEF IInv, Durable
    <3>2. CASE changes[c].tra = t
      <4>1. changes[c].page \in Page
        BY ChangeType
      <4> QED
        BY <1>1, <1>3, <1>6, <2>1, <3>2, <4>1 DEF IInv, ChangesKept
    <3> QED
      BY <2>1, <3>1, <3>2
  <2> QED
    BY <1>7, <2>1 DEF Durable, OnDisk
<1> QED
  BY <1>14, <1>16, <1>17, <1>18 DEF IInv


(* The list of changes grows by n. *)
LEMMA ChangeMade ==
    ASSUME TypeOK, NEW n, n.page \in Page, n.tra \in Tra, n.needs \subseteq DOMAIN changes,
           n = [page |-> n.page, tra |-> n.tra, needs |-> n.needs],
           changes' = Append(changes, n), NEW k, k = Len(changes) + 1
    PROVE  /\ DOMAIN changes' = DOMAIN changes \cup {k} /\ k \notin DOMAIN changes
           /\ changes'[k] = n /\ \A c \in DOMAIN changes : changes'[c] = changes[c]
           /\ changes' \in Seq([page : Page, tra : Tra, needs : SUBSET DOMAIN changes'])
<1> DEFINE T(D) == [page : Page, tra : Tra, needs : SUBSET D]
<1>1. changes \in Seq(T(DOMAIN changes))
  BY DEF TypeOK
<1>2. Len(changes) \in Nat /\ DOMAIN changes = 1 .. Len(changes)
  BY <1>1
<1>3. n \in T(DOMAIN changes)
  OBVIOUS
<1> HIDE DEF T
<1>4. /\ changes' \in Seq(T(DOMAIN changes)) /\ Len(changes') = Len(changes) + 1
      /\ changes'[Len(changes) + 1] = n
      /\ \A i \in 1 .. Len(changes) : changes'[i] = changes[i]
  BY <1>1, <1>3, SeqEnds
<1>5. DOMAIN changes' = 1 .. Len(changes) + 1
  BY <1>4
<1>6. DOMAIN changes \subseteq DOMAIN changes'
  BY <1>2, <1>5
<1>7. T(DOMAIN changes) \subseteq T(DOMAIN changes')
  BY <1>6 DEF T
<1>8. changes' \in Seq(T(DOMAIN changes'))
  <2>1. \A i \in 1 .. Len(changes') : changes'[i] \in T(DOMAIN changes')
    BY <1>4, <1>7
  <2> QED
    BY <1>4, <2>1
<1> QED
  BY <1>2, <1>4, <1>5, <1>8 DEF T

LEMMA MarkStep ==
    ASSUME IInv, NEW p \in Proc, NEW pg \in Page, NEW t \in Tra,
           NEW flags \in SUBSET {"must_write"}, CCH_mark(p, pg, t, flags)
    PROVE  IInv'
<1> USE Steady
<1>1. /\ Ready(p) /\ main[p] = Idle /\ pg \in windows[p] /\ "writer" \in bdb[p][pg].flags
      /\ t \in TraOf[p] /\ t \notin committed
  BY DEF CCH_mark, Held, Has
<1>2. /\ ast[p] = <<>> /\ stack[p] = <<>> /\ Latched(bdb[p], windows[p], Idle, <<>>)
      /\ WindowsLocked(bdb[p], windows[p])
  BY <1>1, Resting
<1>3. PICK n : n = [page |-> pg, tra |-> t, needs |-> refers[p][pg]]
  OBVIOUS
<1>4. PICK k : k = Len(changes) + 1
  OBVIOUS
<1>5. /\ DOMAIN changes' = DOMAIN changes \cup {k} /\ k \notin DOMAIN changes
      /\ changes'[k] = n /\ \A c \in DOMAIN changes : changes'[c] = changes[c]
      /\ changes' \in Seq([page : Page, tra : Tra, needs : SUBSET DOMAIN changes'])
  <2>1. changes' = Append(changes, n)
    BY <1>3 DEF CCH_mark
  <2>2. n.page = pg /\ n.tra = t /\ n.needs = refers[p][pg] /\ refers[p][pg] \subseteq DOMAIN changes
    BY <1>3 DEF RestOK
  <2>3. n = [page |-> n.page, tra |-> n.tra, needs |-> n.needs]
    BY <1>3
  <2> QED
    BY <1>4, <2>1, <2>2, <2>3, ChangeMade
<1> DEFINE D == DOMAIN changes'
<1>6. bdb[p] \in Caches(D)
  BY <1>5 DEF Caches, Raw
<1>7. PICK c : c = Set(bdb[p], pg, {"dirty", "marked"} \cup flags)
  OBVIOUS
<1>8. PICK fs : fs = {"dirty", "marked"} \cup flags
  OBVIOUS
<1>9. fs \in SUBSET Flag /\ "dirty" \in fs /\ "writer" \notin fs
  BY <1>8 DEF Flag
<1>10. c \in Caches(D) /\ Flagged(bdb[p], c, pg, bdb[p][pg].flags \cup fs)
  BY <1>6, <1>7, <1>8, <1>9, SetFlags
<1>11. PICK b : b = [Set(bdb[p], pg, {"dirty", "marked"} \cup flags) EXCEPT
                          ![pg].data = @ \cup {Len(changes) + 1}, ![pg].transactions = @ \cup {t}]
  OBVIOUS
<1>12. bdb' = [bdb EXCEPT ![p] = b]
  <2>1. bdb' = [bdb EXCEPT ![p] =
            [Set(bdb[p], pg, {"dirty", "marked"} \cup flags) EXCEPT
                ![pg].data = @ \cup {Len(changes) + 1}, ![pg].transactions = @ \cup {t}]]
    BY Zenon DEF CCH_mark
  <2> QED
    BY <1>11, <2>1
<1>13. /\ b \in Caches(D) /\ b[pg].flags = c[pg].flags /\ b[pg].use = c[pg].use
       /\ b[pg].lock = c[pg].lock /\ b[pg].data = c[pg].data \cup {k}
       /\ b[pg].transactions = c[pg].transactions \cup {t}
       /\ \A x \in Page : x # pg => b[x] = c[x]
  <2>1. PICK r : r = [c[pg] EXCEPT !.data = c[pg].data \cup {k},
                                   !.transactions = c[pg].transactions \cup {t}]
    OBVIOUS
  <2>2. c[pg] \in Raw(D) /\ r \in Raw(D)
    <3>1. c[pg] \in Raw(D) /\ k \in D
      BY <1>5, <1>10 DEF Caches
    <3> QED
      BY <2>1, <3>1 DEF Raw
  <2>3. b = [c EXCEPT ![pg] = r]
    <3>1. b = [c EXCEPT ![pg].data = @ \cup {k}, ![pg].transactions = @ \cup {t}]
      BY <1>4, <1>7, <1>11
    <3>2. c \in Caches(D)
      BY <1>10
    <3> QED
      BY <2>1, <3>1, <3>2 DEF Caches, Raw
  <2> HIDE DEF D
  <2> QED
    BY <1>10, <2>1, <2>2, <2>3 DEF Caches, Raw
<1>14. PICK w : w = windows[p]
  OBVIOUS
<1>15. Idle \in Threads(p) /\ Idle \in Main /\ Idle.at = "idle"
  BY DEF Threads, Main, Idle
<1>16. ASSUME NEW x \in Page
       PROVE  /\ b[x].use = bdb[p][x].use /\ b[x].lock = bdb[p][x].lock
              /\ "writer" \in b[x].flags <=> "writer" \in bdb[p][x].flags
              /\ bdb[p][x].data \subseteq b[x].data /\ bdb[p][x].transactions \subseteq b[x].transactions
              /\ x # pg => b[x].data = bdb[p][x].data
              /\ x # pg => ("dirty" \in b[x].flags <=> "dirty" \in bdb[p][x].flags)
              /\ x = pg => "dirty" \in b[x].flags
  BY <1>9, <1>10, <1>13 DEF Flagged
<1>17. Local(b, w, Idle, <<>>, <<>>)
  <2>1. Latched(b, w, Idle, <<>>)
    BY <1>2, <1>14, <1>16 DEF Latched
  <2>2. WindowsLocked(b, w)
    BY <1>2, <1>14, <1>16 DEF WindowsLocked, Has
  <2> QED
    BY <1>15, <2>1, <2>2, LocalCalm DEF WaitFits, ReuseFits, FlushFits
<1>18. Moves(p, b, w, Idle, <<>>, <<>>)
  BY <1>1, <1>2, <1>12, <1>14, MovesFrom DEF CCH_mark
<1>19. UNCHANGED <<disk, lost, tra_invalidated, committing, committed, pre, cleared, posted,
                   refers, alive>>
  BY DEF CCH_mark
<1>20. RestOK'
  <2>1. DOMAIN changes \subseteq DOMAIN changes'
    BY <1>5
  <2> QED
    BY <1>5, <1>19, <2>1 DEF RestOK
<1>21. TypeOK' /\ ThreadsOK' /\ LocalInv'
  <2>1. LocalInv /\ DOMAIN changes \subseteq DOMAIN changes'
    BY <1>5 DEF IInv
  <2>2. <<>> \in Seq(Page) /\ <<>> \in Seq(Frames)
    OBVIOUS
  <2> QED
    BY <1>13, <1>14, <1>15, <1>17, <1>18, <1>20, <2>1, <2>2, TypesKept
<1>22. PrecedenceAcyclic' /\ PrecedenceFits' /\ HigherSeen'
  <2>1. PrecedenceAcyclic /\ PrecedenceFits /\ HigherSeen
    BY DEF IInv
  <2>2. pre' = [pre EXCEPT ![p] = pre[p]] /\ pre[p] \in SUBSET pre[p]
    BY <1>19, SamePre
  <2>3. PrecedenceAcyclic' /\ PrecedenceFits'
    BY <1>15, <1>18, <2>1, <2>2, OrderKept
  <2> QED
    BY <1>18, <2>1, <2>2, <2>3, SeenKept
<1>23. Coherent' /\ LocksCompatible' /\ NothingOverwritten'
  <2>1. Coherent /\ LocksCompatible /\ NothingOverwritten
    BY DEF IInv
  <2>2. ASSUME NEW x \in Page PROVE PageKept(p, b, x)
    <3>1. CASE x = pg
      <4>1. bdb[p][pg].lock = LCK_write
        BY <1>1, <1>2 DEF WindowsLocked, Has
      <4>2. disk[pg] \subseteq bdb[p][pg].data
        <5>1. LCK_write # LCK_none
          BY DEF LCK_write, LCK_none
        <5> QED
          BY <2>1, <4>1, <5>1 DEF Coherent, NothingOverwritten, Has
      <4> QED
        BY <1>16, <1>19, <2>1, <3>1, <4>1, <4>2 DEF PageKept, LocksCompatible
    <3>2. CASE x # pg
      BY <1>16, <1>19, <2>1, <3>2
         DEF PageKept, Coherent, LocksCompatible, NothingOverwritten, Has
    <3> QED
      BY <3>1, <3>2
  <2> QED
    BY <1>12, <2>1, <2>2, CacheKept
<1>24. bdb'[p] = b /\ \A q \in Proc : q # p => bdb'[q] = bdb[q]
  BY <1>12, TypeParts
<1>25. ChangesKept'
  <2>1. ASSUME NEW q \in alive', NEW x \in DOMAIN changes', changes'[x].tra \in TraOf[q],
               x \notin disk'[changes'[x].page], changes'[x].tra \notin tra_invalidated'
        PROVE  /\ "dirty" \in bdb'[q][changes'[x].page].flags
               /\ x \in bdb'[q][changes'[x].page].data
               /\ changes'[x].tra \in bdb'[q][changes'[x].page].transactions
    <3>1. q \in Proc
      BY <1>19 DEF TypeOK
    <3>2. CASE x = k
      <4>1. changes'[x].page = pg /\ changes'[x].tra = t
        BY <1>3, <1>5, <3>2
      <4>2. q = p
        BY <1>1, <2>1, <3>1, <4>1, PageCacheAssumption
      <4> QED
        BY <1>13, <1>16, <1>24, <3>2, <4>1, <4>2
    <3>3. CASE x # k
      <4>1. x \in DOMAIN changes /\ changes'[x] = changes[x]
        BY <1>5, <3>3
      <4>2. changes[x].page \in Page
        BY <4>1, ChangeType
      <4>3. /\ "dirty" \in bdb[q][changes[x].page].flags
            /\ x \in bdb[q][changes[x].page].data
            /\ changes[x].tra \in bdb[q][changes[x].page].transactions
        BY <1>19, <2>1, <4>1 DEF IInv, ChangesKept, OnDisk
      <4>4. CASE q = p
        BY <1>16, <1>24, <4>1, <4>2, <4>3, <4>4
      <4>5. CASE q # p
        BY <1>24, <3>1, <4>1, <4>3, <4>5
      <4> QED
        BY <4>4, <4>5
    <3> QED
      BY <3>2, <3>3
  <2> QED
    BY <2>1 DEF ChangesKept, OnDisk
<1>26. Durable'
  <2>1. ASSUME NEW x \in DOMAIN changes', changes'[x].tra \in committed \ tra_invalidated
        PROVE  x \in disk[changes'[x].page]
    <3>1. x # k
      BY <1>1, <1>3, <1>5, <2>1
    <3>2. x \in DOMAIN changes /\ changes'[x] = changes[x]
      BY <1>5, <3>1
    <3> QED
      BY <2>1, <3>2 DEF IInv, Durable, OnDisk
  <2> QED
    BY <1>19, <2>1 DEF Durable, OnDisk
<1> QED
  BY <1>21, <1>22, <1>23, <1>25, <1>26 DEF IInv

LEMMA PostStep ==
    ASSUME IInv, NEW p \in Proc, NEW q \in Proc, post_blockage(p, q)
    PROVE  IInv'
<1> USE Steady
<1>1. main[p].page \in Page
  BY DEF post_blockage, Waits, Main
<1>2. posted' \in [Proc -> SUBSET Page]
  BY <1>1 DEF post_blockage, RestOK
<1>3. TypeOK'
  BY <1>2 DEF post_blockage, file, TypeOK, Buffer
<1>4. /\ ThreadsOK' /\ Coherent' /\ LocksCompatible' /\ NothingOverwritten' /\ LocalInv'
  BY DEF IInv, post_blockage, file, ThreadsOK, Coherent, LocksCompatible, NothingOverwritten,
         LocalInv, Has
<1>5. HigherSeen' /\ PrecedenceAcyclic' /\ ChangesKept' /\ Durable'
  BY DEF IInv, post_blockage, file, HigherSeen, PrecedenceAcyclic, ChangesKept, Durable,
         Higher, OnDisk, Has
<1>6. PrecedenceFits'
  BY DEF IInv, post_blockage, PrecedenceFits, related, Above, Higher
<1> QED
  BY <1>3, <1>4, <1>5, <1>6 DEF IInv


-----------------------------------------------------------------------------
(* The signal handler: it changes its frames and, of the main thread's     *)
(* state, nothing but what is in the buffers.                              *)

(* What HigherSeen says of one frame, of a process with the buffers b and  *)
(* the blocks e.                                                           *)
FrameSeen(b, e, f) ==
    f.phase # "lower" /\ ~f.invalid /\ ~f.in_use =>
        \A hi \in Page : <<hi, f.page>> \in e =>
            \/ hi \in f.todo \/ "dirty" \notin b[hi].flags
            \/ f.phase = "called" /\ f.at = hi

LEMMA FramesSeen ==
    ASSUME HigherSeen, NEW p \in Proc, NEW i \in DOMAIN ast[p]
    PROVE  FrameSeen(bdb[p], pre[p], ast[p][i])
  BY DEF HigherSeen, FrameSeen, Higher, Has

LEMMA AstSeen ==
    ASSUME TypeOK, ThreadsOK, HigherSeen, NEW p \in Proc, NEW b, NEW a, NEW e,
           bdb' = [bdb EXCEPT ![p] = b], ast' = [ast EXCEPT ![p] = a],
           pre' = [pre EXCEPT ![p] = e], \A i \in DOMAIN a : FrameSeen(b, e, a[i])
    PROVE  HigherSeen'
<1>1. ASSUME NEW q \in Proc, NEW i \in DOMAIN ast'[q]
      PROVE  FrameSeen(bdb'[q], pre'[q], ast'[q][i])
  <2>1. CASE q = p
    <3>1. bdb'[p] = b /\ pre'[p] = e /\ ast'[p] = a
      BY DEF TypeOK, ThreadsOK
    <3> QED
      BY <1>1, <2>1, <3>1
  <2>2. CASE q # p
    <3>1. bdb'[q] = bdb[q] /\ pre'[q] = pre[q] /\ ast'[q] = ast[q]
      BY <2>2 DEF TypeOK, ThreadsOK
    <3>2. i \in DOMAIN ast[q]
      BY <1>1, <3>1
    <3>3. FrameSeen(bdb[q], pre[q], ast[q][i])
      BY <3>2, FramesSeen
    <3> QED
      BY <3>1, <3>3
  <2> QED
    BY <2>1, <2>2
<1> QED
  BY <1>1 DEF HigherSeen, FrameSeen, Higher, Has

LEMMA AstKept ==
    ASSUME IInv, NEW p \in Proc, NEW b \in Caches(DOMAIN changes), NEW a \in Seq(Frames),
           bdb' = [bdb EXCEPT ![p] = b], ast' = [ast EXCEPT ![p] = a],
           Local(b, windows[p], main[p], stack[p], a),
           \A pg \in Page : PageKept(p, b, pg) /\ BufferKept(p, b, pg) /\ disk[pg] \subseteq disk'[pg],
           NEW e \in SUBSET pre[p], pre' = [pre EXCEPT ![p] = e],
           \A i \in DOMAIN a : FrameSeen(b, e, a[i]),
           UNCHANGED astLeaves, tra_invalidated \subseteq tra_invalidated', RestOK'
    PROVE  IInv'
<1>1. /\ TypeOK /\ ThreadsOK /\ LocalInv /\ HigherSeen /\ Coherent /\ LocksCompatible
      /\ NothingOverwritten /\ ChangesKept /\ Durable /\ PrecedenceAcyclic /\ PrecedenceFits
  BY DEF IInv
<1>2. PICK w, m, s : w = windows[p] /\ m = main[p] /\ s = stack[p]
  OBVIOUS
<1>3. /\ changes' = changes /\ committed' = committed /\ alive' = alive
      /\ windows' = windows /\ main' = main /\ stack' = stack
  BY DEF astLeaves
<1>4. Moves(p, b, w, m, s, a)
  BY <1>2, <1>3, MovesFrom
<1>5. w \in SUBSET Page /\ m \in Threads(p) /\ m \in Main /\ s \in Seq(Page)
  BY <1>2, Steady
<1>6. TypeOK' /\ ThreadsOK' /\ LocalInv'
  <2>1. Local(b, w, m, s, a)
    BY <1>2
  <2> QED
    BY <1>1, <1>3, <1>4, <1>5, <2>1, TypesKept
<1>7. PrecedenceAcyclic' /\ PrecedenceFits'
  BY <1>1, <1>2, <1>4, <1>5, OrderKept
<1>8. HigherSeen'
  BY <1>1, AstSeen
<1>9. Coherent' /\ LocksCompatible' /\ NothingOverwritten'
  BY <1>1, CacheKept
<1>10. ChangesKept' /\ Durable'
  BY <1>1, <1>3, ChangesStay
<1> QED
  BY <1>6, <1>7, <1>8, <1>9, <1>10 DEF IInv

(* The handler never makes a page dirty, and lowers only locks of pages    *)
(* nobody holds.                                                           *)
Milder(b, c, w) ==
    \A x \in Page : /\ "dirty" \in c[x].flags => "dirty" \in b[x].flags
                    /\ c[x].transactions \subseteq b[x].transactions
                    /\ "writer" \in c[x].flags <=> "writer" \in b[x].flags
                    /\ c[x].lock <= b[x].lock /\ (x \in w => c[x].lock = b[x].lock)

LEMMA AstLocal ==
    ASSUME IInv, NEW p \in Proc, NEW b \in Caches(DOMAIN changes), NEW a,
           Milder(bdb[p], b, windows[p]),
           LatchesExact(b, windows[p], main[p], stack[p], a),
           FramesApart(b, windows[p], main[p], stack[p], a)
    PROVE  Local(b, windows[p], main[p], stack[p], a)
<1> USE Steady
<1>1. /\ WindowsLocked(bdb[p], windows[p]) /\ WaitFits(bdb[p], windows[p], main[p], stack[p])
      /\ ReuseFits(bdb[p], windows[p], main[p], stack[p]) /\ FlushFits(bdb[p], main[p], stack[p])
  BY DEF Local
<1>2. WindowsLocked(b, windows[p])
  BY <1>1 DEF WindowsLocked, Milder, Has
<1>3. WaitFits(b, windows[p], main[p], stack[p])
  <2>1. ASSUME main[p].at \in Asking
        PROVE  /\ stack[p] = <<>> /\ main[p].page \notin windows[p]
               /\ ~Has(b, main[p].page, "dirty") /\ b[main[p].page].lock < main[p].level
               /\ Has(b, main[p].page, "writer") => main[p].level = LCK_write
    <3>1. main[p].page \in Page /\ main[p].level \in {LCK_read, LCK_write}
      BY <2>1 DEF Main
    <3>2. /\ b[main[p].page].lock \in {LCK_none, LCK_read, LCK_write}
          /\ bdb[p][main[p].page].lock \in {LCK_none, LCK_read, LCK_write}
      BY <3>1 DEF Caches, Raw
    <3>3. /\ stack[p] = <<>> /\ main[p].page \notin windows[p]
          /\ "dirty" \notin bdb[p][main[p].page].flags
          /\ bdb[p][main[p].page].lock < main[p].level
          /\ "writer" \in bdb[p][main[p].page].flags => main[p].level = LCK_write
      BY <1>1, <2>1 DEF WaitFits, Has
    <3>4. b[main[p].page].lock <= bdb[p][main[p].page].lock
      BY <3>1 DEF Milder
    <3>5. b[main[p].page].lock < main[p].level
      BY <3>1, <3>2, <3>3, <3>4 DEF LCK_none, LCK_read, LCK_write
    <3>6. /\ "dirty" \notin b[main[p].page].flags
          /\ "writer" \in b[main[p].page].flags => main[p].level = LCK_write
      BY <3>1, <3>3 DEF Milder
    <3> QED
      BY <3>3, <3>5, <3>6 DEF Has
  <2> QED
    BY <2>1 DEF WaitFits
<1>4. ReuseFits(b, windows[p], main[p], stack[p])
  <2>1. ASSUME main[p].at = "reuse" PROVE main[p].page \in Page
    BY <2>1 DEF Main
  <2> QED
    BY <1>1, <2>1 DEF ReuseFits, Milder, Has
<1>5. FlushFits(b, main[p], stack[p])
  <2>1. ASSUME main[p].at = "flush" PROVE main[p].seen \subseteq Page
    BY <2>1 DEF Main
  <2> QED
    BY <1>1, <2>1 DEF FlushFits, Milder, Has
<1> QED
  BY <1>2, <1>3, <1>4, <1>5 DEF Local

(* A lower lock is in nobody's way that the higher one was not.            *)
LEMMA LowerCompatible ==
    ASSUME NEW l \in {LCK_none, LCK_read, LCK_write}, NEW h \in {LCK_none, LCK_read, LCK_write},
           NEW o, l <= h, Compatible(h, o)
    PROVE  Compatible(l, o)
  BY DEF Compatible, LCK_none, LCK_read, LCK_write

(* A step of the handler that writes nothing and gives nothing up.         *)
Quieter(b, c, w) ==
    \A x \in Page : /\ c[x].data = b[x].data /\ c[x].transactions = b[x].transactions
                    /\ "dirty" \in c[x].flags <=> "dirty" \in b[x].flags
                    /\ "writer" \in c[x].flags <=> "writer" \in b[x].flags
                    /\ c[x].lock <= b[x].lock
                    /\ "dirty" \in b[x].flags \/ x \in w => c[x].lock = b[x].lock

LEMMA AstQuiet ==
    ASSUME IInv, NEW p \in Proc, NEW b \in Caches(DOMAIN changes), NEW a \in Seq(Frames),
           bdb' = [bdb EXCEPT ![p] = b], ast' = [ast EXCEPT ![p] = a],
           Quieter(bdb[p], b, windows[p]),
           LatchesExact(b, windows[p], main[p], stack[p], a),
           FramesApart(b, windows[p], main[p], stack[p], a),
           NEW e \in SUBSET pre[p], pre' = [pre EXCEPT ![p] = e],
           \A i \in DOMAIN a : FrameSeen(b, e, a[i]),
           UNCHANGED <<astLeaves, disk, tra_invalidated>>, RestOK'
    PROVE  IInv'
<1> USE Steady
<1>1. Milder(bdb[p], b, windows[p])
  BY DEF Milder, Quieter
<1>2. Local(b, windows[p], main[p], stack[p], a)
  BY <1>1, AstLocal
<1>3. ASSUME NEW x \in Page
      PROVE  PageKept(p, b, x) /\ BufferKept(p, b, x) /\ disk[x] \subseteq disk'[x]
  <2>1. Coherent /\ LocksCompatible /\ NothingOverwritten
    BY DEF IInv
  <2>2. /\ b[x].lock \in {LCK_none, LCK_read, LCK_write}
        /\ bdb[p][x].lock \in {LCK_none, LCK_read, LCK_write}
        /\ b[x].lock <= bdb[p][x].lock
    BY DEF Caches, Raw, Quieter
  <2>3. \A q \in Proc : q # p => Compatible(b[x].lock, bdb[q][x].lock)
    BY <2>1, <2>2, LowerCompatible DEF LocksCompatible
  <2>4. b[x].lock # LCK_none => bdb[p][x].lock # LCK_none
    BY <2>2 DEF LCK_none, LCK_read, LCK_write
  <2> QED
    BY <2>1, <2>3, <2>4 DEF PageKept, BufferKept, Quieter, Coherent, NothingOverwritten, Has
<1>4. UNCHANGED astLeaves /\ tra_invalidated \subseteq tra_invalidated'
  OBVIOUS
<1> QED
  BY <1>2, <1>3, <1>4, AstKept


-----------------------------------------------------------------------------
(* The lists of frames.                                                    *)

(* g is a with its last frame replaced by f, h is a without it, k is a     *)
(* with one more.                                                          *)
Replaced(a, g, f) ==
    /\ g \in Seq(Frames) /\ DOMAIN g = DOMAIN a /\ Len(a) \in DOMAIN a /\ g[Len(a)] = f
    /\ \A i \in DOMAIN a : i # Len(a) => g[i] = a[i]
Shortened(a, h) ==
    /\ h \in Seq(Frames) /\ DOMAIN h = DOMAIN a \ {Len(a)} /\ Len(a) \in DOMAIN a
    /\ \A i \in DOMAIN h : h[i] = a[i]
Grown(a, k, f) ==
    /\ k \in Seq(Frames) /\ DOMAIN k = DOMAIN a \cup {Len(a) + 1} /\ Len(a) + 1 \notin DOMAIN a
    /\ k[Len(a) + 1] = f /\ \A i \in DOMAIN a : k[i] = a[i]

LEMMA FrameLists ==
    ASSUME NEW a \in Seq(Frames), NEW f \in Frames
    PROVE  /\ a # <<>> => Replaced(a, [a EXCEPT ![Len(a)] = f], f)
           /\ a # <<>> => Shortened(a, SubSeq(a, 1, Len(a) - 1))
           /\ Grown(a, Append(a, f), f)
<1>1. /\ Len(a) \in Nat /\ DOMAIN a = 1 .. Len(a) /\ (a = <<>> <=> Len(a) = 0)
  BY SeqEnds
<1>2. /\ Append(a, f) \in Seq(Frames) /\ Len(Append(a, f)) = Len(a) + 1
      /\ Append(a, f)[Len(a) + 1] = f /\ \A i \in 1 .. Len(a) : Append(a, f)[i] = a[i]
  BY SeqEnds
<1>3. ASSUME a # <<>>
      PROVE  LET g == [a EXCEPT ![Len(a)] = f] IN
             /\ g \in Seq(Frames) /\ g[Len(a)] = f /\ DOMAIN g = DOMAIN a
             /\ \A i \in 1 .. Len(a) - 1 : g[i] = a[i]
  BY <1>3, SeqEnds
<1>4. ASSUME a # <<>>
      PROVE  LET h == SubSeq(a, 1, Len(a) - 1) IN
             /\ h \in Seq(Frames) /\ DOMAIN h = 1 .. Len(a) - 1
             /\ \A i \in 1 .. Len(a) - 1 : h[i] = a[i]
  BY <1>4, SeqEnds
<1>5. DOMAIN Append(a, f) = 1 .. Len(a) + 1
  BY <1>2
<1>6. Grown(a, Append(a, f), f)
  BY <1>1, <1>2, <1>5 DEF Grown
<1>7. a # <<>> => Replaced(a, [a EXCEPT ![Len(a)] = f], f)
  <2>1. ASSUME a # <<>> PROVE Replaced(a, [a EXCEPT ![Len(a)] = f], f)
    <3>1. PICK g : g = [a EXCEPT ![Len(a)] = f]
      OBVIOUS
    <3>2. /\ g \in Seq(Frames) /\ g[Len(a)] = f /\ DOMAIN g = DOMAIN a
          /\ \A i \in 1 .. Len(a) - 1 : g[i] = a[i]
      BY <1>3, <2>1, <3>1
    <3>3. \A i \in DOMAIN a : i # Len(a) => i \in 1 .. Len(a) - 1
      BY <1>1
    <3>4. Len(a) \in DOMAIN a
      BY <1>1, <2>1
    <3>5. Replaced(a, g, f)
      BY <3>2, <3>3, <3>4 DEF Replaced
    <3> QED
      BY <3>1, <3>5
  <2> QED
    BY <2>1
<1>8. a # <<>> => Shortened(a, SubSeq(a, 1, Len(a) - 1))
  BY <1>1, <1>4 DEF Shortened
<1> QED
  BY <1>6, <1>7, <1>8

(* The frame under way is one of those LocalInv and HigherSeen speak of.   *)
LEMMA AstFrame ==
    ASSUME IInv, NEW p \in Proc, InAst(p), NEW a, a = ast[p], NEW f, f = F(p)
    PROVE  /\ a \in Seq(Frames) /\ a # <<>> /\ f \in Frames /\ f = a[Len(a)]
           /\ Len(a) \in DOMAIN a /\ f.page \in Page
           /\ LatchesExact(bdb[p], windows[p], main[p], stack[p], a)
           /\ FramesApart(bdb[p], windows[p], main[p], stack[p], a)
           /\ \A i \in DOMAIN a : FrameSeen(bdb[p], pre[p], a[i]) /\ a[i] \in Frames
           /\ f.page \notin windows[p]
<1> USE Steady
<1>1. a \in Seq(Frames) /\ a # <<>>
  BY DEF InAst
<1>2. f = a[Len(a)] /\ f \in Frames /\ Len(a) \in DOMAIN a
  <2>1. Len(a) \in Nat /\ DOMAIN a = 1 .. Len(a) /\ Len(a) # 0
    BY <1>1
  <2> QED
    BY <1>1, <2>1 DEF F
<1>3. /\ LatchesExact(bdb[p], windows[p], main[p], stack[p], a)
      /\ FramesApart(bdb[p], windows[p], main[p], stack[p], a)
  BY DEF Local
<1>4. \A i \in DOMAIN a : FrameSeen(bdb[p], pre[p], a[i]) /\ a[i] \in Frames
  <2>1. HigherSeen
    BY DEF IInv
  <2> QED
    BY <1>1, <2>1, FramesSeen
<1>5. f.page \in Page
  BY <1>2 DEF Frames
<1>6. f.page \notin windows[p]
  BY <1>2, <1>3 DEF FramesApart
<1> QED
  BY <1>1, <1>2, <1>3, <1>4, <1>5, <1>6

(* A frame is replaced by another of the same page.                        *)
LEMMA FrameReplaced ==
    ASSUME NEW b, NEW c, NEW w, NEW m, NEW s, NEW a, NEW g, NEW f, Replaced(a, g, f),
           f.page = a[Len(a)].page, \A i \in DOMAIN a : a[i].page \in Page,
           LatchesExact(b, w, m, s, a), FramesApart(b, w, m, s, a),
           \A x \in Page : c[x].use = b[x].use,
           \A x \in Page : x # f.page => ("dirty" \in c[x].flags <=> "dirty" \in b[x].flags),
           f.phase # "lower" => "dirty" \in c[f.page].flags
    PROVE  LatchesExact(c, w, m, s, g) /\ FramesApart(c, w, m, s, g)
<1>1. FramePages(g) = FramePages(a)
  <2>1. \A i \in DOMAIN a : g[i].page = a[i].page
    BY DEF Replaced
  <2> QED
    BY <2>1 DEF FramePages, Replaced
<1>2. LatchesExact(c, w, m, s, g)
  BY <1>1 DEF LatchesExact, Latches
<1>3. FramesApart(c, w, m, s, g)
  <2>1. \A i \in DOMAIN a : g[i].page = a[i].page
    BY DEF Replaced
  <2>2. \A i, j \in DOMAIN g : g[i].page = g[j].page => i = j
    BY <2>1 DEF Replaced, FramesApart
  <2>3. ASSUME NEW i \in DOMAIN g
        PROVE  /\ g[i].page \notin w \cup Latching(m)
               /\ s # <<>> => s[Len(s)] # g[i].page
               /\ g[i].phase # "lower" => Has(c, g[i].page, "dirty")
    <3>1. i \in DOMAIN a
      BY DEF Replaced
    <3>2. CASE i = Len(a)
      BY <2>1, <3>1, <3>2 DEF Replaced, FramesApart, Has
    <3>3. CASE i # Len(a)
      <4>1. g[i] = a[i] /\ a[i].page # f.page
        BY <3>1, <3>3 DEF Replaced, FramesApart
      <4> QED
        BY <3>1, <4>1 DEF FramesApart, Has
    <3> QED
      BY <3>2, <3>3
  <2> QED
    BY <2>2, <2>3 DEF FramesApart
<1> QED
  BY <1>2, <1>3

(* The last call returns, and releases its page.                           *)
LEMMA FrameGone ==
    ASSUME NEW b, NEW c, NEW w, NEW m, NEW s, NEW a, NEW h, Shortened(a, h),
           \A i \in DOMAIN a : a[i].page \in Page,
           LatchesExact(b, w, m, s, a), FramesApart(b, w, m, s, a),
           \A x \in Page : x # a[Len(a)].page => c[x].use = b[x].use,
           c[a[Len(a)].page].use = b[a[Len(a)].page].use - 1,
           \A x \in Page : "dirty" \in c[x].flags <=> "dirty" \in b[x].flags
    PROVE  LatchesExact(c, w, m, s, h) /\ FramesApart(c, w, m, s, h)
<1>1. PICK t : t = a[Len(a)].page
  OBVIOUS
<1>2. t \in Page /\ t \in FramePages(a)
  BY <1>1 DEF Shortened, FramePages
<1>3. FramePages(h) = FramePages(a) \ {t}
  BY <1>1 DEF FramePages, Shortened, FramesApart
<1>4. LatchesExact(c, w, m, s, h)
  <2>1. ASSUME NEW x \in Page PROVE c[x].use = Latches(w, m, s, h, x)
    <3>1. b[x].use = Latches(w, m, s, a, x)
      BY DEF LatchesExact
    <3>2. x # t => c[x].use = Latches(w, m, s, h, x)
      BY <1>1, <1>3, <3>1 DEF Latches
    <3>3. x = t => c[x].use = Latches(w, m, s, h, x)
      <4>1. t \notin FramePages(h)
        BY <1>3
      <4> QED
        BY <1>1, <1>2, <3>1, <4>1 DEF Latches, One
    <3> QED
      BY <3>2, <3>3
  <2> QED
    BY <2>1 DEF LatchesExact
<1>5. FramesApart(c, w, m, s, h)
  BY DEF FramesApart, Shortened, Has
<1> QED
  BY <1>4, <1>5

(* A call begins, of a page that nobody used.                              *)
LEMMA FrameAdded ==
    ASSUME NEW b, NEW c, NEW w, NEW m, NEW s, NEW a, NEW k, NEW f, Grown(a, k, f),
           f.page \in Page, \A i \in DOMAIN a : a[i].page \in Page,
           LatchesExact(b, w, m, s, a), FramesApart(b, w, m, s, a),
           b[f.page].use = 0, c[f.page].use = b[f.page].use + 1,
           \A x \in Page : x # f.page => c[x].use = b[x].use,
           \A x \in Page : "dirty" \in c[x].flags <=> "dirty" \in b[x].flags,
           "dirty" \in c[f.page].flags
    PROVE  LatchesExact(c, w, m, s, k) /\ FramesApart(c, w, m, s, k)
<1>1. PICK t : t = f.page
  OBVIOUS
<1>2. FramePages(k) = FramePages(a) \cup {t}
  BY <1>1 DEF FramePages, Grown
<1>3. /\ t \notin w /\ t \notin Latching(m) /\ (s # <<>> => s[Len(s)] # t)
      /\ t \notin FramePages(a)
  <2>1. Latches(w, m, s, a, t) = 0
    BY <1>1 DEF LatchesExact
  <2> QED
    BY <2>1 DEF Latches, One
<1>4. LatchesExact(c, w, m, s, k)
  <2>1. ASSUME NEW x \in Page PROVE c[x].use = Latches(w, m, s, k, x)
    <3>1. b[x].use = Latches(w, m, s, a, x)
      BY DEF LatchesExact
    <3>2. x # t => c[x].use = Latches(w, m, s, k, x)
      BY <1>1, <1>2, <3>1 DEF Latches
    <3>3. x = t => c[x].use = Latches(w, m, s, k, x)
      BY <1>1, <1>2, <1>3, <3>1 DEF Latches, One
    <3> QED
      BY <3>2, <3>3
  <2> QED
    BY <2>1 DEF LatchesExact
<1>5. \A i \in DOMAIN a : k[i] = a[i] /\ a[i].page # t
  BY <1>3 DEF Grown, FramePages
<1>6. FramesApart(c, w, m, s, k)
  <2>1. ASSUME NEW i \in DOMAIN k, NEW j \in DOMAIN k, k[i].page = k[j].page
        PROVE  i = j
    BY <1>1, <1>5, <2>1 DEF Grown, FramesApart
  <2>2. ASSUME NEW i \in DOMAIN k
        PROVE  /\ k[i].page \notin w \cup Latching(m)
               /\ s # <<>> => s[Len(s)] # k[i].page
               /\ k[i].phase # "lower" => Has(c, k[i].page, "dirty")
    BY <1>1, <1>3, <1>5 DEF Grown, FramesApart, Has
  <2> QED
    BY <2>1, <2>2 DEF FramesApart
<1> QED
  BY <1>4, <1>6


(* A call of down_grade() for page pg, by a process whose buffers and      *)
(* frames are b and s: it marks the page, gives its lock up, or begins.    *)
LEMMA DownGradeStep ==
    ASSUME IInv, NEW p \in Proc, NEW pg \in Page,
           NEW b \in Caches(DOMAIN changes), NEW s \in Seq(Frames),
           Quieter(bdb[p], b, windows[p]),
           LatchesExact(b, windows[p], main[p], stack[p], s),
           FramesApart(b, windows[p], main[p], stack[p], s),
           NEW e \in SUBSET pre[p], pre' = [pre EXCEPT ![p] = e],
           \A i \in DOMAIN s : FrameSeen(b, e, s[i]) /\ s[i] \in Frames,
           DownGrade(p, b, s, pg),
           UNCHANGED <<astLeaves, disk, tra_invalidated>>, RestOK'
    PROVE  IInv'
<1> DEFINE D == DOMAIN changes
<1> USE Steady
<1>0. UNCHANGED <<astLeaves, disk, tra_invalidated>> /\ RestOK'
  OBVIOUS
<1>1. \A i \in DOMAIN s : s[i].page \in Page
  BY DEF Frames
<1>2. b[pg].use = 0 => pg \notin windows[p]
  <2>1. b[pg].use = Latches(windows[p], main[p], stack[p], s, pg)
    BY DEF LatchesExact
  <2> QED
    BY <2>1 DEF Latches, One
<1>3. CASE b[pg].use # 0
  <2>1. PICK c : c = Set(b, pg, {"blocking"})
    OBVIOUS
  <2>2. bdb' = [bdb EXCEPT ![p] = c] /\ ast' = [ast EXCEPT ![p] = s]
    BY <1>3, <2>1 DEF DownGrade, down_grade
  <2>3. {"blocking"} \in SUBSET Flag
    BY DEF Flag
  <2>4. c \in Caches(D) /\ Flagged(b, c, pg, b[pg].flags \cup {"blocking"})
    BY <2>1, <2>3, SetFlags
  <2>5. /\ \A x \in Page : c[x].use = b[x].use
        /\ \A x \in Page : "dirty" \in c[x].flags <=> "dirty" \in b[x].flags
    BY <2>4 DEF Flagged
  <2>6. Quieter(bdb[p], c, windows[p])
    BY <2>4 DEF Flagged, Quieter
  <2>7. LatchesExact(c, windows[p], main[p], stack[p], s)
    BY <2>5 DEF LatchesExact
  <2>8. FramesApart(c, windows[p], main[p], stack[p], s)
    BY <1>1, <2>5 DEF FramesApart, Has
  <2>9. \A i \in DOMAIN s : FrameSeen(c, e, s[i])
    BY <2>5 DEF FrameSeen
  <2> QED
    BY <1>0, <2>2, <2>4, <2>6, <2>7, <2>8, <2>9, AstQuiet
<1>4. CASE b[pg].use = 0 /\ "dirty" \notin b[pg].flags
  <2>1. PICK d : d = Clear(b, pg, {"blocking"})
    OBVIOUS
  <2>2. d \in Caches(D) /\ Flagged(b, d, pg, b[pg].flags \ {"blocking"})
    BY <2>1, ClearFlags
  <2>3. b[pg].lock \in {LCK_none, LCK_read, LCK_write} /\ d[pg].lock = b[pg].lock
    BY <2>2 DEF Caches, Raw, Flagged
  <2>4. PICK l : l = LCK_downgrade(p, pg, b[pg].lock)
    OBVIOUS
  <2>5. l \in {LCK_none, LCK_read, LCK_write} /\ l <= b[pg].lock
    BY <2>3, <2>4, Downgrades
  <2>6. PICK c : c = [d EXCEPT ![pg].lock = l]
    OBVIOUS
  <2>7. c \in Caches(D) /\ Leveled(d, c, pg, l)
    <3>1. PICK r : r = [d[pg] EXCEPT !.lock = l]
      OBVIOUS
    <3>2. c = [d EXCEPT ![pg] = r]
      BY <2>6, <3>1
    <3> HIDE DEF D
    <3>3. d[pg] \in Raw(D)
      BY <2>2 DEF Caches
    <3>4. r \in Raw(D)
      BY <2>5, <3>1, <3>3 DEF Raw
    <3> QED
      BY <2>2, <3>1, <3>2, <3>3, <3>4 DEF Caches, Raw, Leveled
  <2>8. bdb' = [bdb EXCEPT ![p] = c] /\ ast' = [ast EXCEPT ![p] = s]
    <3>1. down_grade(p, b, s, pg) =
             <<[d EXCEPT ![pg].lock = LCK_downgrade(p, pg, d[pg].lock)], s>>
      BY <1>4, <2>1 DEF down_grade, Has
    <3>2. down_grade(p, b, s, pg) = <<c, s>>
      BY <2>3, <2>4, <2>6, <3>1
    <3> QED
      BY <3>2 DEF DownGrade
  <2>9. /\ \A x \in Page : c[x].use = b[x].use
        /\ \A x \in Page : "dirty" \in c[x].flags <=> "dirty" \in b[x].flags
    BY <2>2, <2>7 DEF Flagged, Leveled
  <2>10. Quieter(bdb[p], c, windows[p])
    <3>1. ASSUME NEW x \in Page
          PROVE  /\ c[x].lock <= bdb[p][x].lock
                 /\ "dirty" \in bdb[p][x].flags \/ x \in windows[p] => c[x].lock = bdb[p][x].lock
      <4>1. /\ bdb[p][x].lock \in {LCK_none, LCK_read, LCK_write}
            /\ b[x].lock \in {LCK_none, LCK_read, LCK_write} /\ b[x].lock <= bdb[p][x].lock
            /\ "dirty" \in bdb[p][x].flags \/ x \in windows[p] => b[x].lock = bdb[p][x].lock
            /\ "dirty" \in bdb[p][x].flags => "dirty" \in b[x].flags
        BY DEF Caches, Raw, Quieter
      <4>2. CASE x = pg
        BY <1>2, <1>4, <2>5, <2>7, <4>1, <4>2 DEF Leveled, LCK_none, LCK_read, LCK_write
      <4>3. CASE x # pg
        BY <2>2, <2>7, <4>1, <4>3 DEF Leveled, Flagged
      <4> QED
        BY <4>2, <4>3
    <3>2. ASSUME NEW x \in Page
          PROVE  /\ c[x].data = b[x].data /\ c[x].transactions = b[x].transactions
                 /\ "writer" \in c[x].flags <=> "writer" \in b[x].flags
      BY <2>2, <2>7 DEF Flagged, Leveled
    <3> QED
      BY <2>9, <3>1, <3>2 DEF Quieter
  <2>11. LatchesExact(c, windows[p], main[p], stack[p], s)
    BY <2>9 DEF LatchesExact
  <2>12. FramesApart(c, windows[p], main[p], stack[p], s)
    BY <1>1, <2>9 DEF FramesApart, Has
  <2>13. \A i \in DOMAIN s : FrameSeen(c, e, s[i])
    BY <2>9 DEF FrameSeen
  <2> QED
    BY <1>0, <2>7, <2>8, <2>10, <2>11, <2>12, <2>13, AstQuiet
<1>5. CASE b[pg].use = 0 /\ "dirty" \in b[pg].flags
  <2>1. PICK d : d = Set(b, pg, {"blocking"})
    OBVIOUS
  <2>2. {"blocking"} \in SUBSET Flag
    BY DEF Flag
  <2>3. d \in Caches(D) /\ Flagged(b, d, pg, b[pg].flags \cup {"blocking"})
    BY <2>1, <2>2, SetFlags
  <2>4. PICK c : c = latch_bdb(d, pg)
    OBVIOUS
  <2>5. c \in Caches(D) /\ Counted(d, c, pg, d[pg].use + 1)
    BY <2>3, <2>4, LatchCounts
  <2>6. PICK f : f = Frame(p, b, pg)
    OBVIOUS
  <2>7. f \in Frames /\ f.page = pg /\ f.phase = "higher" /\ f.todo = Higher(p, pg)
    <3>1. Higher(p, pg) \subseteq Page
      BY DEF Higher
    <3>2. Has(b, pg, "not_valid") \in BOOLEAN
      BY DEF Has
    <3> QED
      BY <2>6, <3>1, <3>2 DEF Frame, Frames
  <2>8. PICK k : k = Append(s, f)
    OBVIOUS
  <2>9. Grown(s, k, f)
    BY <2>7, <2>8, FrameLists
  <2>10. bdb' = [bdb EXCEPT ![p] = c] /\ ast' = [ast EXCEPT ![p] = k]
    <3>1. down_grade(p, b, s, pg) = <<c, k>>
      BY <1>5, <2>1, <2>4, <2>6, <2>8 DEF down_grade, Has
    <3> QED
      BY <3>1 DEF DownGrade
  <2>11. /\ c[pg].use = b[pg].use + 1 /\ \A x \in Page : x # pg => c[x].use = b[x].use
         /\ \A x \in Page : "dirty" \in c[x].flags <=> "dirty" \in b[x].flags
    BY <2>3, <2>5 DEF Flagged, Counted
  <2>12. /\ LatchesExact(c, windows[p], main[p], stack[p], k)
         /\ FramesApart(c, windows[p], main[p], stack[p], k)
    BY <1>1, <1>5, <2>7, <2>9, <2>11, FrameAdded
  <2>13. Quieter(bdb[p], c, windows[p])
    BY <2>3, <2>5 DEF Flagged, Counted, Quieter
  <2>14. ASSUME NEW i \in DOMAIN k PROVE FrameSeen(c, e, k[i])
    <3>1. CASE i \in DOMAIN s
      BY <2>9, <2>11, <3>1 DEF FrameSeen, Grown
    <3>2. CASE i = Len(s) + 1
      BY <2>7, <2>9, <3>2 DEF FrameSeen, Grown, Higher
    <3> QED
      BY <2>9, <3>1, <3>2 DEF Grown
  <2>15. k \in Seq(Frames)
    BY <2>9 DEF Grown
  <2> QED
    BY <1>0, <2>5, <2>10, <2>12, <2>13, <2>14, <2>15, AstQuiet
<1> QED
  BY <1>3, <1>4, <1>5

LEMMA BlockingStep ==
    ASSUME IInv, NEW p \in Proc, NEW pg \in Page, blocking_ast_bdb(p, pg)
    PROVE  IInv'
<1> USE Steady
<1>1. ast[p] = <<>>
  BY DEF blocking_ast_bdb, Calm
<1>2. PICK b : b = bdb[p]
  OBVIOUS
<1>3. PICK s : s = ast[p]
  OBVIOUS
<1>4. b \in Caches(DOMAIN changes) /\ s \in Seq(Frames)
  BY <1>2, <1>3
<1>5. Quieter(bdb[p], b, windows[p])
  <2>1. \A x \in Page : b[x].lock <= bdb[p][x].lock
    BY <1>2 DEF Caches, Raw, LCK_none, LCK_read, LCK_write
  <2> QED
    BY <1>2, <2>1 DEF Quieter
<1>6. /\ LatchesExact(b, windows[p], main[p], stack[p], s)
      /\ FramesApart(b, windows[p], main[p], stack[p], s)
  BY <1>2, <1>3 DEF Local
<1>7. PICK e : e = pre[p]
  OBVIOUS
<1>8. pre' = [pre EXCEPT ![p] = e] /\ e \in SUBSET pre[p]
  BY <1>7, SamePre DEF blocking_ast_bdb
<1>9. \A i \in DOMAIN s : FrameSeen(b, e, s[i]) /\ s[i] \in Frames
  BY <1>1, <1>3
<1>10. DownGrade(p, b, s, pg)
  BY <1>1, <1>2, <1>3 DEF blocking_ast_bdb
<1>11. UNCHANGED <<astLeaves, disk, tra_invalidated>>
  BY DEF blocking_ast_bdb
<1>12. RestOK'
  <2>1. posted' \in [Proc -> SUBSET Page]
    BY DEF blocking_ast_bdb, RestOK
  <2> QED
    BY <2>1 DEF blocking_ast_bdb, RestOK, astLeaves
<1> QED
  BY <1>4, <1>5, <1>6, <1>8, <1>9, <1>10, <1>11, <1>12, DownGradeStep


(* The call under way has gone on to the frame f of the same page.         *)
LEMMA TurnFacts ==
    ASSUME IInv, NEW p \in Proc, InAst(p), NEW f \in Frames, f.page = F(p).page,
           NEW b, Quieter(bdb[p], b, windows[p]), \A x \in Page : b[x].use = bdb[p][x].use,
           f.phase # "lower" => "dirty" \in b[f.page].flags,
           NEW e \in SUBSET pre[p], FrameSeen(b, e, f), NEW s, s = SetF(p, f)
    PROVE  /\ s \in Seq(Frames)
           /\ LatchesExact(b, windows[p], main[p], stack[p], s)
           /\ FramesApart(b, windows[p], main[p], stack[p], s)
           /\ \A i \in DOMAIN s : FrameSeen(b, e, s[i]) /\ s[i] \in Frames
<1>1. PICK a, o : a = ast[p] /\ o = F(p)
  OBVIOUS
<1>2. /\ a \in Seq(Frames) /\ a # <<>> /\ o \in Frames /\ o = a[Len(a)]
      /\ LatchesExact(bdb[p], windows[p], main[p], stack[p], a)
      /\ FramesApart(bdb[p], windows[p], main[p], stack[p], a)
      /\ \A i \in DOMAIN a : FrameSeen(bdb[p], pre[p], a[i]) /\ a[i] \in Frames
  BY <1>1, AstFrame
<1>3. Replaced(a, s, f)
  <2>1. s = [a EXCEPT ![Len(a)] = f]
    BY <1>1 DEF SetF
  <2> QED
    BY <1>2, <2>1, FrameLists
<1>4. f.page = a[Len(a)].page /\ \A i \in DOMAIN a : a[i].page \in Page
  BY <1>1, <1>2 DEF Frames
<1>5. \A x \in Page : "dirty" \in b[x].flags <=> "dirty" \in bdb[p][x].flags
  BY DEF Quieter
<1>6. /\ LatchesExact(b, windows[p], main[p], stack[p], s)
      /\ FramesApart(b, windows[p], main[p], stack[p], s)
  BY <1>2, <1>3, <1>4, <1>5, FrameReplaced
<1>7. ASSUME NEW i \in DOMAIN s PROVE FrameSeen(b, e, s[i]) /\ s[i] \in Frames
  <2>1. i \in DOMAIN a
    BY <1>3 DEF Replaced
  <2>2. CASE i = Len(a)
    BY <1>3, <2>2 DEF Replaced
  <2>3. CASE i # Len(a)
    BY <1>2, <1>3, <1>5, <2>1, <2>3 DEF Replaced, FrameSeen
  <2> QED
    BY <2>2, <2>3
<1> QED
  BY <1>3, <1>6, <1>7 DEF Replaced

(* The buffers as they are.                                               *)
LEMMA NothingQuieter ==
    ASSUME IInv, NEW p \in Proc
    PROVE  Quieter(bdb[p], bdb[p], windows[p])
<1>1. bdb[p] \in Caches(DOMAIN changes)
  BY Steady
<1>2. \A x \in Page : bdb[p][x].lock \in {LCK_none, LCK_read, LCK_write}
  BY <1>1 DEF Caches, Raw
<1> QED
  BY <1>2 DEF Quieter, LCK_none, LCK_read, LCK_write

(* The step changes nothing but the frame, the flags of clean pages and    *)
(* the blocks.                                                             *)
LEMMA TurnStep ==
    ASSUME IInv, NEW p \in Proc, InAst(p), NEW f \in Frames, f.page = F(p).page,
           NEW b \in Caches(DOMAIN changes), Quieter(bdb[p], b, windows[p]),
           \A x \in Page : b[x].use = bdb[p][x].use,
           f.phase # "lower" => "dirty" \in b[f.page].flags,
           NEW e \in SUBSET pre[p], FrameSeen(b, e, f),
           bdb' = [bdb EXCEPT ![p] = b] \/ (UNCHANGED bdb /\ b = bdb[p]),
           ast' = [ast EXCEPT ![p] = SetF(p, f)],
           pre' = [pre EXCEPT ![p] = e] \/ (UNCHANGED pre /\ e = pre[p]),
           UNCHANGED <<astLeaves, disk, tra_invalidated>>, RestOK'
    PROVE  IInv'
<1> USE Steady
<1>1. PICK s : s = SetF(p, f)
  OBVIOUS
<1>2. /\ s \in Seq(Frames)
      /\ LatchesExact(b, windows[p], main[p], stack[p], s)
      /\ FramesApart(b, windows[p], main[p], stack[p], s)
      /\ \A i \in DOMAIN s : FrameSeen(b, e, s[i]) /\ s[i] \in Frames
  BY <1>1, TurnFacts
<1>3. bdb' = [bdb EXCEPT ![p] = b] /\ pre' = [pre EXCEPT ![p] = e]
  BY DEF TypeOK
<1>4. ast' = [ast EXCEPT ![p] = s] /\ UNCHANGED <<astLeaves, disk, tra_invalidated>>
  BY <1>1
<1> QED
  BY <1>2, <1>3, <1>4, AstQuiet

LEMMA AstHigherStep ==
    ASSUME IInv, NEW p \in Proc, NEW hi \in Page, AstHigher(p, hi)
    PROVE  IInv'
<1> USE Steady
<1>1. InAst(p) /\ F(p).phase = "higher" /\ hi \in F(p).todo
  BY DEF AstHigher
<1>2. PICK a, o : a = ast[p] /\ o = F(p)
  OBVIOUS
<1>3. /\ a \in Seq(Frames) /\ a # <<>> /\ o \in Frames /\ o = a[Len(a)]
      /\ Len(a) \in DOMAIN a /\ o.page \in Page
      /\ FramesApart(bdb[p], windows[p], main[p], stack[p], a)
      /\ \A i \in DOMAIN a : FrameSeen(bdb[p], pre[p], a[i]) /\ a[i] \in Frames
  BY <1>1, <1>2, AstFrame
<1>4. FrameSeen(bdb[p], pre[p], o) /\ o.phase = "higher" /\ "dirty" \in bdb[p][o.page].flags
  BY <1>1, <1>2, <1>3 DEF FramesApart, Has
<1>5. PICK f : f = [o EXCEPT !.todo = o.todo \ {hi}]
  OBVIOUS
<1>6. /\ f \in Frames /\ f.page = o.page /\ f.phase = "higher" /\ f.invalid = o.invalid
      /\ f.in_use = o.in_use /\ f.todo = o.todo \ {hi} /\ f.at = o.at
  BY <1>3, <1>4, <1>5 DEF Frames
<1>7. PICK g : g = [f EXCEPT !.phase = "called", !.at = hi]
  OBVIOUS
<1>8. /\ g \in Frames /\ g.page = o.page /\ g.phase = "called" /\ g.at = hi
      /\ g.invalid = o.invalid /\ g.in_use = o.in_use /\ g.todo = o.todo \ {hi}
  BY <1>6, <1>7 DEF Frames
<1>9. PICK b : b = bdb[p]
  OBVIOUS
<1>10. /\ b \in Caches(DOMAIN changes) /\ Quieter(bdb[p], b, windows[p])
       /\ \A x \in Page : b[x].use = bdb[p][x].use
       /\ "dirty" \in b[o.page].flags
  BY <1>4, <1>9, NothingQuieter
<1>11. UNCHANGED <<astLeaves, disk, tra_invalidated>>
  BY DEF AstHigher
<1>12. RestOK'
  <2>1. \/ UNCHANGED <<pre, cleared>>
        \/ /\ pre' = [pre EXCEPT ![p] = @ \ {<<hi, o.page>>}]
           /\ cleared' = [cleared EXCEPT ![p] = @ \cup {<<hi, o.page>>}]
    BY <1>2 DEF AstHigher
  <2>2. pre' \in [Proc -> SUBSET (Page \X Page)]
    BY <2>1 DEF RestOK
  <2>3. cleared' \in [Proc -> SUBSET (Page \X Page)]
    <3>1. cleared[p] \cup {<<hi, o.page>>} \in SUBSET (Page \X Page)
      BY <1>3 DEF RestOK
    <3> QED
      BY <2>1, <3>1 DEF RestOK
  <2> QED
    BY <2>2, <2>3 DEF RestOK, AstHigher, astLeaves
<1>13. CASE /\ <<hi, o.page>> \in pre[p] /\ o.invalid
            /\ pre' = [pre EXCEPT ![p] = @ \ {<<hi, o.page>>}]
            /\ ast' = [ast EXCEPT ![p] = SetF(p, f)] /\ UNCHANGED bdb
  <2>1. PICK e : e = pre[p] \ {<<hi, o.page>>}
    OBVIOUS
  <2>2. e \in SUBSET pre[p] /\ pre' = [pre EXCEPT ![p] = e]
    BY <1>13, <2>1
  <2>3. FrameSeen(b, e, f)
    BY <1>6, <1>13 DEF FrameSeen
  <2> QED
    BY <1>1, <1>2, <1>6, <1>9, <1>10, <1>11, <1>12, <1>13, <2>2, <2>3, TurnStep
<1>14. PICK e : e = pre[p] /\ e \in SUBSET pre[p]
  OBVIOUS
<1>15. CASE /\ <<hi, o.page>> \in pre[p] /\ ~o.invalid
            /\ DownGrade(p, bdb[p], SetF(p, g), hi) /\ UNCHANGED pre
  <2>1. FrameSeen(b, e, g)
    BY <1>4, <1>8, <1>9, <1>14 DEF FrameSeen
  <2>2. PICK s : s = SetF(p, g)
    OBVIOUS
  <2>3. /\ s \in Seq(Frames)
        /\ LatchesExact(b, windows[p], main[p], stack[p], s)
        /\ FramesApart(b, windows[p], main[p], stack[p], s)
        /\ \A i \in DOMAIN s : FrameSeen(b, e, s[i]) /\ s[i] \in Frames
    BY <1>1, <1>2, <1>8, <1>10, <1>14, <2>1, <2>2, TurnFacts
  <2>4. DownGrade(p, b, s, hi)
    BY <1>9, <1>15, <2>2
  <2>5. pre' = [pre EXCEPT ![p] = e]
    BY <1>14, <1>15, SamePre
  <2> QED
    BY <1>10, <1>11, <1>12, <1>14, <2>3, <2>4, <2>5, DownGradeStep
<1>16. CASE /\ \/ <<hi, o.page>> \notin pre[p]
               \/ ~o.invalid /\ ~Has(bdb[p], hi, "dirty")
            /\ ast' = [ast EXCEPT ![p] = SetF(p, f)] /\ UNCHANGED <<bdb, pre>>
  <2>1. FrameSeen(b, e, f)
    BY <1>4, <1>6, <1>9, <1>14, <1>16 DEF FrameSeen, Has
  <2> QED
    BY <1>1, <1>2, <1>6, <1>9, <1>10, <1>11, <1>12, <1>14, <1>16, <2>1, TurnStep
<1>17. \/ /\ <<hi, o.page>> \in pre[p] /\ o.invalid
          /\ pre' = [pre EXCEPT ![p] = @ \ {<<hi, o.page>>}]
          /\ ast' = [ast EXCEPT ![p] = SetF(p, f)] /\ UNCHANGED bdb
       \/ /\ <<hi, o.page>> \in pre[p] /\ ~o.invalid
          /\ DownGrade(p, bdb[p], SetF(p, g), hi) /\ UNCHANGED pre
       \/ /\ \/ <<hi, o.page>> \notin pre[p]
             \/ ~o.invalid /\ ~Has(bdb[p], hi, "dirty")
          /\ ast' = [ast EXCEPT ![p] = SetF(p, f)] /\ UNCHANGED <<bdb, pre>>
  BY <1>2, <1>5, <1>7, Zenon DEF AstHigher
<1> QED
  BY <1>13, <1>15, <1>16, <1>17


LEMMA AstCalledStep ==
    ASSUME IInv, NEW p \in Proc, AstCalled(p)
    PROVE  IInv'
<1> USE Steady
<1>1. InAst(p) /\ F(p).phase = "called"
  BY DEF AstCalled
<1>2. PICK a, o : a = ast[p] /\ o = F(p)
  OBVIOUS
<1>3. /\ a \in Seq(Frames) /\ a # <<>> /\ o \in Frames /\ o = a[Len(a)]
      /\ Len(a) \in DOMAIN a /\ o.page \in Page
      /\ FramesApart(bdb[p], windows[p], main[p], stack[p], a)
      /\ \A i \in DOMAIN a : FrameSeen(bdb[p], pre[p], a[i]) /\ a[i] \in Frames
  BY <1>1, <1>2, AstFrame
<1>4. FrameSeen(bdb[p], pre[p], o) /\ o.phase = "called" /\ "dirty" \in bdb[p][o.page].flags
  BY <1>1, <1>2, <1>3 DEF FramesApart, Has
<1>4a. \A x, g : Has(bdb[p], x, g) \in BOOLEAN
  BY DEF Has
<1>5. PICK bad \in BOOLEAN : bad = Has(bdb[p], o.at, "not_valid")
  BY <1>4a
<1>6. PICK left \in BOOLEAN : left = Has(bdb[p], o.at, "dirty")
  BY <1>4a
<1>7. PICK first \in Page :
        ast' = [ast EXCEPT ![p] = SetF(p,
            [o EXCEPT !.phase = "higher", !.invalid = @ \/ bad, !.in_use = ~bad /\ (@ \/ left),
                      !.todo = IF bad THEN Higher(p, o.page) \ {first} ELSE @])]
  BY <1>2, <1>5, <1>6 DEF AstCalled
<1>8. PICK todo \in SUBSET Page : todo = IF bad THEN Higher(p, o.page) \ {first} ELSE o.todo
  BY <1>3 DEF Higher, Frames
<1>9. PICK iv, iu \in BOOLEAN : iv = (o.invalid \/ bad) /\ iu = (~bad /\ (o.in_use \/ left))
  OBVIOUS
<1>9a. PICK f : f = [o EXCEPT !.phase = "higher", !.invalid = iv, !.in_use = iu, !.todo = todo]
  OBVIOUS
<1>10. /\ f \in Frames /\ f.page = o.page /\ f.phase = "higher" /\ f.todo = todo
       /\ f.invalid = iv /\ f.in_use = iu
  BY <1>3, <1>9a DEF Frames
<1>11. ast' = [ast EXCEPT ![p] = SetF(p, f)]
  BY <1>7, <1>8, <1>9, <1>9a
<1>12. /\ ~f.invalid => f.todo = o.todo /\ ~o.invalid /\ ~bad
       /\ ~f.invalid /\ ~f.in_use => ~o.in_use /\ ~left
  BY <1>8, <1>9, <1>10
<1>13. PICK b, e : b = bdb[p] /\ e = pre[p]
  OBVIOUS
<1>14. FrameSeen(b, e, f)
  BY <1>4, <1>6, <1>10, <1>12, <1>13 DEF FrameSeen, Has
<1>15. /\ b \in Caches(DOMAIN changes) /\ Quieter(bdb[p], b, windows[p])
       /\ \A x \in Page : b[x].use = bdb[p][x].use
       /\ "dirty" \in b[f.page].flags /\ e \in SUBSET pre[p]
  BY <1>4, <1>10, <1>13, NothingQuieter
<1>16. UNCHANGED <<astLeaves, disk, tra_invalidated>> /\ UNCHANGED <<bdb, pre>>
  BY DEF AstCalled
<1>17. RestOK'
  BY DEF AstCalled, RestOK, astLeaves
<1> QED
  BY <1>1, <1>2, <1>10, <1>11, <1>13, <1>14, <1>15, <1>16, <1>17, TurnStep

(* A call that returns releases its page.                                  *)
LEMMA LeaveStep ==
    ASSUME IInv, NEW p \in Proc, InAst(p), NEW c \in Caches(DOMAIN changes),
           NEW f, f = F(p), c = bdb[p] \/ c = Clear(bdb[p], f.page, {"not_valid"}),
           bdb' = [bdb EXCEPT ![p] = release_bdb(c, f.page)],
           ast' = [ast EXCEPT ![p] = Callers(p)],
           UNCHANGED <<astLeaves, disk, tra_invalidated, pre>>, RestOK'
    PROVE  IInv'
<1> DEFINE D == DOMAIN changes
<1> USE Steady
<1>1. PICK a : a = ast[p]
  OBVIOUS
<1>2. /\ a \in Seq(Frames) /\ a # <<>> /\ f \in Frames /\ f = a[Len(a)]
      /\ Len(a) \in DOMAIN a /\ f.page \in Page
      /\ LatchesExact(bdb[p], windows[p], main[p], stack[p], a)
      /\ FramesApart(bdb[p], windows[p], main[p], stack[p], a)
      /\ \A i \in DOMAIN a : FrameSeen(bdb[p], pre[p], a[i]) /\ a[i] \in Frames
  BY <1>1, AstFrame
<1>3. Flagged(bdb[p], c, f.page, c[f.page].flags)
      /\ (c[f.page].flags = bdb[p][f.page].flags \/ c[f.page].flags = bdb[p][f.page].flags \ {"not_valid"})
  BY <1>2, ClearFlags DEF Flagged
<1>4. PICK b : b = release_bdb(c, f.page)
  OBVIOUS
<1>5. b \in Caches(D) /\ Counted(c, b, f.page, c[f.page].use - 1)
  BY <1>2, <1>4, LatchCounts
<1>6. PICK h : h = Callers(p)
  OBVIOUS
<1>7. Shortened(a, h)
  BY <1>1, <1>2, <1>6, FrameLists DEF Callers
<1>8. /\ \A x \in Page : x # a[Len(a)].page => b[x].use = bdb[p][x].use
      /\ b[a[Len(a)].page].use = bdb[p][a[Len(a)].page].use - 1
      /\ \A x \in Page : "dirty" \in b[x].flags <=> "dirty" \in bdb[p][x].flags
  <2>1. ASSUME NEW x \in Page
        PROVE  c[x].use = bdb[p][x].use /\ ("dirty" \in c[x].flags <=> "dirty" \in bdb[p][x].flags)
    BY <1>3 DEF Flagged
  <2>2. \A x \in Page : x # f.page => b[x].use = c[x].use
    BY <1>5 DEF Counted
  <2>3. b[f.page].use = c[f.page].use - 1 /\ \A x \in Page : b[x].flags = c[x].flags
    BY <1>5 DEF Counted
  <2> QED
    BY <1>2, <2>1, <2>2, <2>3
<1>9. \A i \in DOMAIN a : a[i].page \in Page
  BY <1>2 DEF Frames
<1>10. /\ LatchesExact(b, windows[p], main[p], stack[p], h)
       /\ FramesApart(b, windows[p], main[p], stack[p], h)
  <2>1. PICK d, w, m, s : /\ d = bdb[p] /\ w = windows[p] /\ m = main[p] /\ s = stack[p]
    OBVIOUS
  <2>2. LatchesExact(d, w, m, s, a) /\ FramesApart(d, w, m, s, a)
    BY <1>2, <2>1
  <2>3. /\ \A x \in Page : x # a[Len(a)].page => b[x].use = d[x].use
        /\ b[a[Len(a)].page].use = d[a[Len(a)].page].use - 1
        /\ \A x \in Page : "dirty" \in b[x].flags <=> "dirty" \in d[x].flags
    BY <1>8, <2>1
  <2>4. LatchesExact(b, w, m, s, h) /\ FramesApart(b, w, m, s, h)
    BY <1>7, <1>9, <2>2, <2>3, FrameGone
  <2> QED
    BY <2>1, <2>4
<1>11. Quieter(bdb[p], b, windows[p])
  <2>1. Quieter(bdb[p], bdb[p], windows[p])
    BY NothingQuieter
  <2> QED
    BY <1>3, <1>5, <2>1 DEF Quieter, Flagged, Counted
<1>12. PICK e : e = pre[p] /\ e \in SUBSET pre[p]
  OBVIOUS
<1>13. \A i \in DOMAIN h : FrameSeen(b, e, h[i])
  BY <1>2, <1>7, <1>8, <1>12 DEF Shortened, FrameSeen
<1>14. bdb' = [bdb EXCEPT ![p] = b] /\ ast' = [ast EXCEPT ![p] = h] /\ h \in Seq(Frames)
  BY <1>4, <1>6, <1>7 DEF Shortened
<1>15. pre' = [pre EXCEPT ![p] = e]
  BY <1>12, SamePre
<1> QED
  BY <1>5, <1>10, <1>11, <1>12, <1>13, <1>14, <1>15, AstQuiet

LEMMA AstDeferredStep ==
    ASSUME IInv, NEW p \in Proc, AstDeferred(p)
    PROVE  IInv'
<1> USE Steady
<1>1. PICK f, c : f = F(p) /\ c = bdb[p] /\ c \in Caches(DOMAIN changes)
  OBVIOUS
<1>2. bdb' = [bdb EXCEPT ![p] = release_bdb(c, f.page)] /\ InAst(p)
  BY <1>1 DEF AstDeferred, AstWritable
<1>3. RestOK'
  BY DEF AstDeferred, RestOK, astLeaves
<1> QED
  BY <1>1, <1>2, <1>3, LeaveStep DEF AstDeferred

LEMMA AstReturnsStep ==
    ASSUME IInv, NEW p \in Proc, AstReturns(p)
    PROVE  IInv'
<1> USE Steady
<1>1. InAst(p)
  BY DEF AstReturns
<1>2. PICK f, c : f = F(p) /\ c = Clear(bdb[p], f.page, {"not_valid"})
  OBVIOUS
<1>3. c \in Caches(DOMAIN changes)
  BY <1>1, <1>2, AstFrame, ClearFlags
<1>4. bdb' = [bdb EXCEPT ![p] = release_bdb(c, f.page)]
  BY <1>2 DEF AstReturns
<1>5. RestOK'
  BY DEF AstReturns, RestOK, astLeaves
<1> QED
  BY <1>1, <1>2, <1>3, <1>4, <1>5, LeaveStep DEF AstReturns


(* The page of the call is written, or given up: in both cases it is clean *)
(* and its lock lower, and the loop over the pages below it begins.        *)
GivenUp(p, x, b) ==
    /\ b \in Caches(DOMAIN changes)
    /\ "dirty" \notin b[x].flags /\ b[x].transactions = {}
    /\ "writer" \in b[x].flags <=> "writer" \in bdb[p][x].flags
    /\ b[x].lock <= bdb[p][x].lock /\ b[x].use = bdb[p][x].use
    /\ b[x].lock # LCK_none => b[x].data = disk'[x]
    /\ \A y \in Page : y # x => b[y] = bdb[p][y] /\ disk'[y] = disk[y]
    /\ disk[x] \subseteq disk'[x] /\ BufferKept(p, b, x)

LEMMA LoopsStep ==
    ASSUME IInv, NEW p \in Proc, InAst(p), F(p).phase = "higher", NEW x, x = F(p).page,
           NEW b, GivenUp(p, x, b), bdb' = [bdb EXCEPT ![p] = b], AstLoops(p),
           UNCHANGED <<astLeaves, pre>>, tra_invalidated \subseteq tra_invalidated', RestOK'
    PROVE  IInv'
<1> USE Steady
<1>1. PICK a, o : a = ast[p] /\ o = F(p)
  OBVIOUS
<1>2. /\ a \in Seq(Frames) /\ a # <<>> /\ o \in Frames /\ o = a[Len(a)]
      /\ Len(a) \in DOMAIN a /\ o.page \in Page /\ x = o.page
      /\ LatchesExact(bdb[p], windows[p], main[p], stack[p], a)
      /\ FramesApart(bdb[p], windows[p], main[p], stack[p], a)
      /\ \A i \in DOMAIN a : FrameSeen(bdb[p], pre[p], a[i]) /\ a[i] \in Frames
      /\ x \notin windows[p]
  <2>1. /\ a \in Seq(Frames) /\ a # <<>> /\ o \in Frames /\ o = a[Len(a)]
        /\ Len(a) \in DOMAIN a /\ o.page \in Page
        /\ LatchesExact(bdb[p], windows[p], main[p], stack[p], a)
        /\ FramesApart(bdb[p], windows[p], main[p], stack[p], a)
        /\ \A i \in DOMAIN a : FrameSeen(bdb[p], pre[p], a[i]) /\ a[i] \in Frames
        /\ o.page \notin windows[p]
    <3> HIDE Steady
    <3> QED
      BY <1>1, AstFrame
  <2>2. x = o.page
    BY <1>1
  <2> QED
    BY <2>1, <2>2
<1>3. "dirty" \in bdb[p][x].flags
  BY <1>1, <1>2 DEF FramesApart, Has
<1>4. PICK todo \in SUBSET Page : todo = AllLower(p, o.page)
  BY DEF AllLower
<1>5. PICK f : f = [o EXCEPT !.phase = "lower", !.todo = todo]
  OBVIOUS
<1>6. f \in Frames /\ f.page = o.page /\ f.phase = "lower"
  BY <1>2, <1>5 DEF Frames
<1>7. PICK g : g = [a EXCEPT ![Len(a)] = f]
  OBVIOUS
<1>8. Replaced(a, g, f) /\ g \in Seq(Frames)
  BY <1>2, <1>6, <1>7, FrameLists DEF Replaced
<1>9. ast' = [ast EXCEPT ![p] = g]
  BY <1>1, <1>4, <1>5, <1>7 DEF AstLoops, SetF
<1>10. /\ \A y \in Page : b[y].use = bdb[p][y].use
       /\ \A y \in Page : "dirty" \in b[y].flags => "dirty" \in bdb[p][y].flags
       /\ \A y \in Page : y # x => ("dirty" \in b[y].flags <=> "dirty" \in bdb[p][y].flags)
  <2>1. ASSUME NEW y \in Page
        PROVE  /\ b[y].use = bdb[p][y].use
               /\ "dirty" \in b[y].flags => "dirty" \in bdb[p][y].flags
               /\ y # x => ("dirty" \in b[y].flags <=> "dirty" \in bdb[p][y].flags)
    BY <1>3 DEF GivenUp
  <2> QED
    BY <2>1
<1>11. /\ LatchesExact(b, windows[p], main[p], stack[p], g)
       /\ FramesApart(b, windows[p], main[p], stack[p], g)
  <2>1. PICK d, w, m, s : /\ d = bdb[p] /\ w = windows[p] /\ m = main[p] /\ s = stack[p]
    OBVIOUS
  <2>2. LatchesExact(d, w, m, s, a) /\ FramesApart(d, w, m, s, a)
    BY <1>2, <2>1
  <2>3. f.page = a[Len(a)].page /\ \A i \in DOMAIN a : a[i].page \in Page
    BY <1>2, <1>6 DEF Frames
  <2>4. /\ \A y \in Page : b[y].use = d[y].use
        /\ \A y \in Page : y # f.page => ("dirty" \in b[y].flags <=> "dirty" \in d[y].flags)
    BY <1>2, <1>6, <1>10, <2>1
  <2>5. LatchesExact(b, w, m, s, g) /\ FramesApart(b, w, m, s, g)
    BY <1>6, <1>8, <2>2, <2>3, <2>4, FrameReplaced
  <2> QED
    BY <2>1, <2>5
<1>12. \A y \in Page : /\ b[y].lock \in {LCK_none, LCK_read, LCK_write}
                       /\ bdb[p][y].lock \in {LCK_none, LCK_read, LCK_write}
                       /\ b[y].lock <= bdb[p][y].lock
  <2>1. \A y \in Page : /\ b[y].lock \in {LCK_none, LCK_read, LCK_write}
                        /\ bdb[p][y].lock \in {LCK_none, LCK_read, LCK_write}
    BY DEF Caches, Raw, GivenUp
  <2> QED
    BY <2>1 DEF GivenUp, LCK_none, LCK_read, LCK_write
<1>13. Milder(bdb[p], b, windows[p])
  BY <1>2, <1>10, <1>12 DEF Milder, GivenUp
<1>14. b \in Caches(DOMAIN changes) /\ Local(b, windows[p], main[p], stack[p], g)
  <2>1. b \in Caches(DOMAIN changes)
    BY DEF GivenUp
  <2> QED
    BY <1>11, <1>13, <2>1, AstLocal
<1>15. ASSUME NEW y \in Page
       PROVE  PageKept(p, b, y) /\ BufferKept(p, b, y) /\ disk[y] \subseteq disk'[y]
  <2>1. Coherent /\ LocksCompatible /\ NothingOverwritten
    BY DEF IInv
  <2>2. \A q \in Proc : q # p => Compatible(b[y].lock, bdb[q][y].lock)
    BY <1>12, <2>1, LowerCompatible DEF LocksCompatible
  <2>3. CASE y = x
    BY <1>3, <2>2, <2>3 DEF PageKept, GivenUp, Has
  <2>4. CASE y # x
    BY <2>1, <2>2, <2>4 DEF PageKept, GivenUp, BufferKept, Coherent, NothingOverwritten, Has
  <2> QED
    BY <2>3, <2>4
<1>16. PICK e : e = pre[p] /\ e \in SUBSET pre[p]
  OBVIOUS
<1>17. pre' = [pre EXCEPT ![p] = e]
  BY <1>16, SamePre
<1>18. ASSUME NEW i \in DOMAIN g PROVE FrameSeen(b, e, g[i])
  <2>1. CASE i = Len(a)
    BY <1>6, <1>8, <2>1 DEF Replaced, FrameSeen
  <2>2. CASE i # Len(a)
    <3>1. i \in DOMAIN a /\ g[i] = a[i] /\ FrameSeen(bdb[p], pre[p], a[i])
      BY <1>2, <1>8, <2>2 DEF Replaced
    <3> QED
      BY <1>10, <1>16, <3>1 DEF FrameSeen
  <2> QED
    BY <2>1, <2>2
<1>19. UNCHANGED astLeaves
  OBVIOUS
<1> QED
  BY <1>8, <1>9, <1>14, <1>15, <1>16, <1>17, <1>18, <1>19, AstKept

LEMMA AstWritesStep ==
    ASSUME IInv, NEW p \in Proc, AstWrites(p)
    PROVE  IInv' /\ WritesInOrder
<1> DEFINE D == DOMAIN changes
<1> USE Steady
<1>1. InAst(p) /\ F(p).phase = "higher" /\ F(p).todo = {} /\ ~F(p).in_use /\ ~F(p).invalid
  BY DEF AstWrites, AstWritable
<1>2. PICK a, o, x : a = ast[p] /\ o = F(p) /\ x = F(p).page
  OBVIOUS
<1>3. /\ x \in Page /\ FrameSeen(bdb[p], pre[p], o) /\ "dirty" \in bdb[p][x].flags
  <2>1. /\ o = a[Len(a)] /\ Len(a) \in DOMAIN a /\ o.page \in Page
        /\ FramesApart(bdb[p], windows[p], main[p], stack[p], a)
        /\ \A i \in DOMAIN a : FrameSeen(bdb[p], pre[p], a[i]) /\ a[i] \in Frames
    BY <1>1, <1>2, AstFrame
  <2> QED
    BY <1>1, <1>2, <2>1 DEF FramesApart, Has
<1>4. PICK c : c = write_page(bdb[p], x)
  OBVIOUS
<1>5. /\ c \in Caches(D)
      /\ c[x].flags = bdb[p][x].flags \ {"dirty", "must_write"} /\ c[x].transactions = {}
      /\ c[x].data = bdb[p][x].data /\ c[x].use = bdb[p][x].use /\ c[x].lock = bdb[p][x].lock
      /\ \A y \in Page \ {x} : c[y] = bdb[p][y]
  BY <1>3, <1>4, WritePageEffect
<1>6. PICK n : n = [c[x] EXCEPT !.flags = c[x].flags \ {"blocking"}]
  OBVIOUS
<1>7. c[x] \in Raw(D)
  BY <1>3, <1>5 DEF Caches
<1>8. PICK d : d = Clear(c, x, {"blocking"})
  OBVIOUS
<1>9. d = [c EXCEPT ![x] = n]
  BY <1>6, <1>8 DEF Clear
<1>10. PICK l : l = LCK_downgrade(p, x, bdb[p][x].lock)
  OBVIOUS
<1>11. l \in {LCK_none, LCK_read, LCK_write} /\ l <= bdb[p][x].lock
  <2>1. bdb[p][x].lock \in {LCK_none, LCK_read, LCK_write}
    BY <1>3 DEF Caches, Raw
  <2> QED
    BY <1>10, <2>1, Downgrades
<1>12. PICK r : r = [n EXCEPT !.lock = l]
  OBVIOUS
<1>13. PICK b : b = [c EXCEPT ![x] = r]
  OBVIOUS
<1> HIDE DEF D
<1>14. /\ r \in Raw(D) /\ n \in Raw(D) /\ r.flags = c[x].flags \ {"blocking"}
       /\ r.transactions = c[x].transactions
       /\ r.data = c[x].data /\ r.use = c[x].use /\ r.lock = l /\ n.lock = c[x].lock
  BY <1>6, <1>7, <1>11, <1>12 DEF Raw
<1>15. b \in Caches(D) /\ b[x] = r /\ \A y \in Page : y # x => b[y] = bdb[p][y]
  BY <1>3, <1>5, <1>13, <1>14 DEF Caches
<1>16. bdb' = [bdb EXCEPT ![p] = b]
  <2>1. bdb' = [bdb EXCEPT ![p] = [d EXCEPT ![x].lock = LCK_downgrade(p, x, d[x].lock)]]
    BY <1>2, <1>4, <1>8 DEF AstWrites
  <2>2. d[x] = n /\ d[x].lock = bdb[p][x].lock
    BY <1>3, <1>5, <1>9, <1>14 DEF Caches
  <2>3. [d EXCEPT ![x].lock = l] = b
    BY <1>3, <1>5, <1>9, <1>12, <1>13, <2>2 DEF Caches
  <2> QED
    BY <1>10, <2>1, <2>2, <2>3
<1>17. disk' = [disk EXCEPT ![x] = bdb[p][x].data] /\ AstLoops(p)
  BY <1>2 DEF AstWrites
<1>18. UNCHANGED <<astLeaves, lost, tra_invalidated, pre, cleared, posted>>
  BY DEF AstWrites
<1>19. /\ disk'[x] = bdb[p][x].data /\ \A y \in Page : y # x => disk'[y] = disk[y]
       /\ disk' \in [Page -> SUBSET D]
  <2>1. bdb[p][x].data \in SUBSET D
    BY <1>3 DEF Caches, Raw, D
  <2> QED
    BY <1>3, <1>17, <2>1 DEF RestOK, D
<1>20. disk[x] \subseteq disk'[x]
  BY <1>3, <1>19 DEF IInv, NothingOverwritten, Has
<1>21. RestOK'
  BY <1>18, <1>19 DEF RestOK, astLeaves, D
<1>22. IInv'
  <2>1. /\ "dirty" \notin b[x].flags /\ b[x].transactions = {}
        /\ "writer" \in b[x].flags <=> "writer" \in bdb[p][x].flags
        /\ b[x].lock <= bdb[p][x].lock /\ b[x].use = bdb[p][x].use /\ b[x].data = disk'[x]
    BY <1>5, <1>11, <1>14, <1>15, <1>19
  <2>2. BufferKept(p, b, x)
    BY <1>19 DEF BufferKept
  <2>3. b \in Caches(DOMAIN changes)
    BY <1>15 DEF D
  <2>4. \A y \in Page : y # x => b[y] = bdb[p][y] /\ disk'[y] = disk[y]
    BY <1>15, <1>19
  <2>5. GivenUp(p, x, b)
    BY <1>20, <2>1, <2>2, <2>3, <2>4 DEF GivenUp
  <2>6. UNCHANGED <<astLeaves, pre>> /\ tra_invalidated \subseteq tra_invalidated'
    BY <1>18
  <2>7. InAst(p) /\ F(p).phase = "higher" /\ x = F(p).page /\ AstLoops(p)
    BY <1>1, <1>2, <1>17
  <2> QED
    BY <1>16, <1>21, <2>5, <2>6, <2>7, LoopsStep
<1>23. \A hi \in Higher(p, x) : "dirty" \notin bdb[p][hi].flags
  BY <1>1, <1>2, <1>3 DEF FrameSeen, Higher
<1>24. WritesInOrder
  BY <1>3, <1>19, <1>23 DEF WritesInOrder, Has
<1> QED
  BY <1>22, <1>24


LEMMA AstInvalidatesStep ==
    ASSUME IInv, NEW p \in Proc, AstInvalidates(p)
    PROVE  IInv'
<1> DEFINE D == DOMAIN changes
<1> USE Steady
<1>1. InAst(p) /\ F(p).phase = "higher"
  BY DEF AstInvalidates, AstWritable
<1>2. PICK x : x = F(p).page
  OBVIOUS
<1>3. x \in Page
  BY <1>1, <1>2, AstFrame
<1>4. PICK c : c = Set(bdb[p], x, {"not_valid"})
  OBVIOUS
<1>5. c \in Caches(D) /\ Flagged(bdb[p], c, x, bdb[p][x].flags \cup {"not_valid"})
  <2>1. {"not_valid"} \in SUBSET Flag
    BY DEF Flag
  <2> QED
    BY <1>3, <1>4, <2>1, SetFlags
<1>6. PICK d : d = Clear(c, x, {"dirty", "blocking"})
  OBVIOUS
<1>7. d \in Caches(D) /\ Flagged(c, d, x, c[x].flags \ {"dirty", "blocking"})
  BY <1>3, <1>5, <1>6, ClearFlags
<1>8. PICK r : r = [d[x] EXCEPT !.transactions = {}, !.lock = LCK_none]
  OBVIOUS
<1>9. PICK b : b = [d EXCEPT ![x] = r]
  OBVIOUS
<1>10. bdb' = [bdb EXCEPT ![p] = b]
  <2>1. bdb' = [bdb EXCEPT ![p] = [d EXCEPT ![x].transactions = {}, ![x].lock = LCK_none]]
    BY <1>2, <1>4, <1>6 DEF AstInvalidates
  <2>2. [d EXCEPT ![x].transactions = {}, ![x].lock = LCK_none] = b
    BY <1>3, <1>7, <1>8, <1>9 DEF Caches
  <2> QED
    BY <2>1, <2>2
<1>11. bdb[p] \in Caches(D)
  OBVIOUS
<1> HIDE DEF D
<1>12. d[x] \in Raw(D)
  BY <1>3, <1>7 DEF Caches
<1>13. /\ r \in Raw(D) /\ r.flags = d[x].flags /\ r.transactions = {} /\ r.lock = LCK_none
       /\ r.data = d[x].data /\ r.use = d[x].use
  BY <1>8, <1>12 DEF Raw
<1>14. b \in Caches(D) /\ b[x] = r /\ \A y \in Page : y # x => b[y] = d[y]
  BY <1>3, <1>7, <1>9, <1>13 DEF Caches
<1>15. ASSUME NEW y \in Page, y # x PROVE b[y] = bdb[p][y]
  <2>1. c[y] = bdb[p][y] /\ d[y] = c[y]
    BY <1>3, <1>4, <1>6, <1>11, <1>15 DEF Set, Clear, Caches
  <2> QED
    BY <1>14, <1>15, <2>1
<1>16. UNCHANGED <<astLeaves, disk, pre, cleared, posted>> /\ AstLoops(p)
  BY DEF AstInvalidates
<1>17. /\ lost' = lost \cup (bdb[p][x].data \ disk[x])
       /\ tra_invalidated' = tra_invalidated \cup bdb[p][x].transactions
  BY <1>2 DEF AstInvalidates
<1>18. bdb[p][x].data \subseteq D /\ bdb[p][x].transactions \subseteq Tra
  BY <1>3, <1>11 DEF Caches, Raw
<1>19. RestOK'
  BY <1>16, <1>17, <1>18 DEF RestOK, astLeaves, D
<1>20. GivenUp(p, x, b)
  <2>1. /\ b[x].flags = (bdb[p][x].flags \cup {"not_valid"}) \ {"dirty", "blocking"}
        /\ b[x].use = bdb[p][x].use /\ b[x].transactions = {} /\ b[x].lock = LCK_none
    BY <1>3, <1>5, <1>7, <1>13, <1>14 DEF Flagged
  <2>2. LCK_none <= bdb[p][x].lock
    <3>1. bdb[p][x].lock \in {LCK_none, LCK_read, LCK_write}
      BY <1>3, <1>11 DEF Caches, Raw
    <3> QED
      BY <3>1 DEF LCK_none, LCK_read, LCK_write
  <2>3. BufferKept(p, b, x)
    BY <1>17 DEF BufferKept
  <2> QED
    BY <1>14, <1>15, <1>16, <2>1, <2>2, <2>3 DEF GivenUp, D
<1> QED
  BY <1>1, <1>2, <1>10, <1>16, <1>17, <1>19, <1>20, LoopsStep

LEMMA AstLowerStep ==
    ASSUME IInv, NEW p \in Proc, NEW lo \in Page, AstLower(p, lo)
    PROVE  IInv'
<1> DEFINE D == DOMAIN changes
<1> USE Steady
<1>1. InAst(p) /\ F(p).phase = "lower" /\ lo \in F(p).todo
  BY DEF AstLower
<1>2. PICK o : o = F(p)
  OBVIOUS
<1>3. o \in Frames /\ o.page \in Page
  BY <1>1, <1>2, AstFrame
<1>4. PICK f : f = [o EXCEPT !.todo = o.todo \ {lo}]
  OBVIOUS
<1>5. f \in Frames /\ f.page = F(p).page /\ f.phase = "lower"
  BY <1>1, <1>2, <1>3, <1>4 DEF Frames
<1>6. PICK b : b = IF Has(bdb[p], o.page, "not_valid") THEN Set(bdb[p], lo, {"not_valid"}) ELSE bdb[p]
  OBVIOUS
<1>7. /\ b \in Caches(D) /\ Quieter(bdb[p], b, windows[p])
      /\ \A x \in Page : b[x].use = bdb[p][x].use
  <2>1. Quieter(bdb[p], bdb[p], windows[p])
    BY NothingQuieter
  <2>2. CASE b = bdb[p]
    BY <2>1, <2>2
  <2>3. CASE b = Set(bdb[p], lo, {"not_valid"})
    <3>1. {"not_valid"} \in SUBSET Flag
      BY DEF Flag
    <3>2. b \in Caches(D) /\ Flagged(bdb[p], b, lo, bdb[p][lo].flags \cup {"not_valid"})
      BY <2>3, <3>1, SetFlags
    <3> QED
      BY <2>1, <3>2 DEF Quieter, Flagged
  <2> QED
    BY <1>6, <2>2, <2>3
<1>8. PICK e : e = pre[p] \ {<<o.page, lo>>}
  OBVIOUS
<1>9. e \in SUBSET pre[p] /\ pre' = [pre EXCEPT ![p] = e]
  BY <1>2, <1>8 DEF AstLower
<1>10. FrameSeen(b, e, f)
  BY <1>5 DEF FrameSeen
<1>11. UNCHANGED <<astLeaves, disk, tra_invalidated>>
  BY DEF AstLower
<1>12. RestOK'
  <2>1. pre' \in [Proc -> SUBSET (Page \X Page)]
    BY <1>9 DEF RestOK
  <2>2. cleared' \in [Proc -> SUBSET (Page \X Page)]
    <3>1. cleared[p] \cup {<<o.page, lo>>} \in SUBSET (Page \X Page)
      BY <1>3 DEF RestOK
    <3>2. cleared' = [cleared EXCEPT ![p] = cleared[p] \cup {<<o.page, lo>>}]
      BY <1>2 DEF AstLower
    <3> QED
      BY <3>1, <3>2 DEF RestOK
  <2> QED
    BY <2>1, <2>2 DEF RestOK, AstLower, astLeaves
<1>13. \/ DownGrade(p, b, SetF(p, f), lo)
       \/ bdb' = [bdb EXCEPT ![p] = b] /\ ast' = [ast EXCEPT ![p] = SetF(p, f)]
  BY <1>2, <1>4, <1>6, Zenon DEF AstLower
<1>14. CASE DownGrade(p, b, SetF(p, f), lo)
  <2>1. PICK s : s = SetF(p, f)
    OBVIOUS
  <2>2. /\ s \in Seq(Frames)
        /\ LatchesExact(b, windows[p], main[p], stack[p], s)
        /\ FramesApart(b, windows[p], main[p], stack[p], s)
        /\ \A i \in DOMAIN s : FrameSeen(b, e, s[i]) /\ s[i] \in Frames
    BY <1>1, <1>5, <1>7, <1>9, <1>10, <2>1, TurnFacts
  <2>3. DownGrade(p, b, s, lo)
    BY <1>14, <2>1
  <2> QED
    BY <1>7, <1>9, <1>11, <1>12, <2>2, <2>3, DownGradeStep
<1>15. CASE bdb' = [bdb EXCEPT ![p] = b] /\ ast' = [ast EXCEPT ![p] = SetF(p, f)]
  BY <1>1, <1>5, <1>7, <1>9, <1>10, <1>11, <1>12, <1>15, TurnStep
<1> QED
  BY <1>13, <1>14, <1>15


-----------------------------------------------------------------------------
(* The initial state and every step.                                       *)

LEMMA Start ==
    ASSUME Init
    PROVE  IInv
<1>1. /\ disk = [pg \in Page |-> {}] /\ changes = <<>> /\ DOMAIN changes = {}
      /\ bdb = [p \in Proc |-> [pg \in Page |-> Empty]]
      /\ pre = [p \in Proc |-> {}] /\ windows = [p \in Proc |-> {}]
      /\ main = [p \in Proc |-> Idle] /\ stack = [p \in Proc |-> <<>>]
      /\ ast = [p \in Proc |-> <<>>]
  BY DEF Init
<1>2. Empty \in Buffer
  BY DEF Empty, Buffer, LCK_none
<1>3. TypeOK
  <2>1. bdb \in [Proc -> [Page -> Buffer]]
    BY <1>1, <1>2
  <2>2. changes \in Seq([page : Page, tra : Tra, needs : SUBSET DOMAIN changes])
    BY <1>1
  <2>3. stack \in [Proc -> Seq(Page)]
    BY <1>1
  <2> QED
    BY <2>1, <2>2, <2>3 DEF Init, TypeOK
<1>4. ThreadsOK
  BY <1>1 DEF ThreadsOK, Main, Threads, Idle
<1>5. /\ Empty.flags = {} /\ Empty.use = 0 /\ Empty.lock = LCK_none
  BY DEF Empty
<1>6. Coherent /\ LocksCompatible /\ NothingOverwritten
  BY <1>1, <1>5 DEF Coherent, LocksCompatible, NothingOverwritten, Compatible, Has
<1>7. LocalInv
  <2>1. PICK b : b = [pg \in Page |-> Empty]
    OBVIOUS
  <2>2. Local(b, {}, Idle, <<>>, <<>>)
    <3>1. Idle.at = "idle"
      BY DEF Idle
    <3>2. Latched(b, {}, Idle, <<>>)
      BY <1>5, <2>1, <3>1 DEF Latched, Latching, One
    <3>3. WindowsLocked(b, {})
      BY DEF WindowsLocked
    <3> QED
      BY <3>1, <3>2, <3>3, LocalCalm DEF WaitFits, ReuseFits, FlushFits
  <2> QED
    BY <1>1, <2>1, <2>2 DEF LocalInv
<1>8. HigherSeen /\ PrecedenceFits
  BY <1>1 DEF HigherSeen, PrecedenceFits, Idle
<1>9. PrecedenceAcyclic
  BY <1>1 DEF PrecedenceAcyclic, Higher
<1>10. ChangesKept /\ Durable
  BY <1>1 DEF ChangesKept, Durable
<1> QED
  BY <1>3, <1>4, <1>6, <1>7, <1>8, <1>9, <1>10 DEF IInv

LEMMA MainKept ==
    ASSUME IInv, NEW p \in Proc, MainStep(p)
    PROVE  IInv' /\ disk' = disk
<1>1. CASE \E pg \in Page, level \in {LCK_read, LCK_write} : get_buffer(p, pg, level)
  BY <1>1, GetBufferStep DEF get_buffer, file
<1>2. CASE \E pg \in Page, level \in {LCK_read, LCK_write}, oldest \in Page :
             get_buffer_oldest(p, pg, level, oldest)
  BY <1>2, GetOldestStep DEF get_buffer_oldest, file
<1>3. CASE Reuse(p)
  BY <1>3, ReuseStep DEF Reuse, file
<1>4. CASE Granted(p)
  BY <1>4, GrantedStep DEF Granted, file
<1>5. CASE ReadFails(p) \/ LockDenied(p)
  <2>1. Unwind(p, bdb[p]) /\ Calm(p)
    BY <1>5 DEF ReadFails, LockDenied, Ready
  <2>2. disk' = disk
    BY <2>1, Zenon DEF Unwind, Gone
  <2> QED
    BY <2>1, <2>2, UnwindStep
<1>6. CASE ConversionDenied(p) \/ Reseize(p)
  BY <1>6, AsksAgain DEF ConversionDenied, Reseize, file
<1>7. CASE \E low, high \in Page : check_precedence(p, low, high)
  BY <1>7, CheckPrecedenceStep DEF check_precedence, file
<1>8. CASE InsertPrecedence(p)
  BY <1>8, InsertPrecedenceStep DEF InsertPrecedence, file
<1>9. CASE \E pg \in Page, t \in Tra, flags \in SUBSET {"must_write"} : CCH_mark(p, pg, t, flags)
  <2>1. PICK pg \in Page, t \in Tra, flags \in SUBSET {"must_write"} : CCH_mark(p, pg, t, flags)
    BY <1>9
  <2>2. disk' = disk
    BY <2>1, Zenon DEF CCH_mark
  <2>3. IInv'
    BY <2>1, MarkStep
  <2> QED
    BY <2>2, <2>3
<1>10. CASE \E pg \in Page : CCH_release(p, pg)
  BY <1>10, ReleaseStep DEF CCH_release, file
<1>11. CASE Released(p)
  BY <1>11, ReleasedStep DEF Released, file
<1>12. CASE \E t \in Tra : TRA_commit(p, t)
  BY <1>12, CommitStep DEF TRA_commit
<1>13. CASE btc_flush(p)
  BY <1>13, FlushStep DEF btc_flush, file
<1>14. CASE TRA_set_state(p)
  BY <1>14, SetStateStep DEF TRA_set_state
<1> QED
  BY <1>1, <1>2, <1>3, <1>4, <1>5, <1>6, <1>7, <1>8, <1>9, <1>10, <1>11, <1>12, <1>13, <1>14
     DEF MainStep

LEMMA WriteKept ==
    ASSUME IInv, NEW p \in Proc, WriteStep(p)
    PROVE  IInv' /\ WritesInOrder
<1>1. disk' = disk => WritesInOrder
  BY DEF WritesInOrder
<1>2. CASE WriteClean(p)
  <2>1. disk' = disk
    BY <1>2 DEF WriteClean, file
  <2> QED
    BY <1>1, <1>2, <2>1, WriteCleanStep
<1>3. CASE WriteHigher(p)
  <2>1. disk' = disk
    BY <1>3 DEF WriteHigher, file
  <2> QED
    BY <1>1, <1>3, <2>1, WriteHigherStep
<1>4. CASE WriteUnlink(p)
  <2>1. disk' = disk
    BY <1>4 DEF WriteUnlink, file
  <2> QED
    BY <1>1, <1>4, <2>1, WriteUnlinkStep
<1>5. CASE WritePage(p)
  BY <1>5, WritePageStep
<1>6. CASE WriteFails(p)
  <2>1. Unwind(p, bdb[p]) /\ Calm(p)
    BY <1>6 DEF WriteFails, WriteAll, WriteDirty, Writing
  <2>2. disk' = disk
    BY <2>1, Zenon DEF Unwind, Gone
  <2> QED
    BY <1>1, <2>1, <2>2, UnwindStep
<1> QED
  BY <1>2, <1>3, <1>4, <1>5, <1>6 DEF WriteStep

LEMMA HandlerKept ==
    ASSUME IInv, NEW p \in Proc, AstStep(p)
    PROVE  IInv' /\ WritesInOrder
<1>1. disk' = disk => WritesInOrder
  BY DEF WritesInOrder
<1>2. ASSUME NEW pg \in Page, blocking_ast_bdb(p, pg) PROVE IInv' /\ disk' = disk
  BY <1>2, BlockingStep DEF blocking_ast_bdb
<1>3. ASSUME NEW pg \in Page, AstHigher(p, pg) PROVE IInv' /\ disk' = disk
  BY <1>3, AstHigherStep DEF AstHigher
<1>4. ASSUME NEW pg \in Page, AstLower(p, pg) PROVE IInv' /\ disk' = disk
  BY <1>4, AstLowerStep DEF AstLower
<1>5. CASE AstCalled(p)
  BY <1>1, <1>5, AstCalledStep DEF AstCalled
<1>6. CASE AstDeferred(p)
  BY <1>1, <1>6, AstDeferredStep DEF AstDeferred
<1>7. CASE AstWrites(p)
  BY <1>7, AstWritesStep
<1>8. CASE AstInvalidates(p)
  BY <1>1, <1>8, AstInvalidatesStep DEF AstInvalidates
<1>9. CASE AstReturns(p)
  BY <1>1, <1>9, AstReturnsStep DEF AstReturns
<1> QED
  BY <1>1, <1>2, <1>3, <1>4, <1>5, <1>6, <1>7, <1>8, <1>9 DEF AstStep

LEMMA StepKept ==
    ASSUME IInv, [Next]_vars
    PROVE  IInv' /\ WritesInOrder
<1>1. disk' = disk => WritesInOrder
  BY DEF WritesInOrder
<1>2. ASSUME NEW p \in Proc, MainStep(p) PROVE IInv' /\ WritesInOrder
  BY <1>1, <1>2, MainKept
<1>3. ASSUME NEW p \in Proc, Crash(p) PROVE IInv' /\ WritesInOrder
  <2>1. Gone(p) /\ disk' = disk
    BY <1>3 DEF Crash, Gone
  <2> QED
    BY <1>1, <2>1, GoneStep
<1>4. ASSUME NEW p \in Proc, NEW q \in Proc, post_blockage(p, q) PROVE IInv' /\ WritesInOrder
  <2>1. disk' = disk
    BY <1>4 DEF post_blockage, file
  <2> QED
    BY <1>1, <1>4, <2>1, PostStep
<1>5. CASE UNCHANGED vars
  <2>1. /\ UNCHANGED <<disk, changes, lost, tra_invalidated, committing, committed>>
        /\ UNCHANGED <<bdb, pre, cleared, posted>>
        /\ UNCHANGED <<windows, refers, main, stack, ast, alive>>
    BY <1>5 DEF vars, file, cache
  <2>2. TypeOK' /\ ThreadsOK'
    BY <2>1 DEF IInv, TypeOK, Buffer, ThreadsOK
  <2>3. /\ Coherent' /\ LocksCompatible' /\ NothingOverwritten' /\ LocalInv' /\ HigherSeen'
        /\ PrecedenceAcyclic' /\ ChangesKept' /\ Durable'
    BY <2>1 DEF IInv, Coherent, LocksCompatible, NothingOverwritten, LocalInv, HigherSeen,
                PrecedenceAcyclic, ChangesKept, Durable, Higher, OnDisk, Has
  <2>4. PrecedenceFits'
    BY <2>1 DEF IInv, PrecedenceFits, related, Above, Higher
  <2> QED
    BY <1>1, <2>1, <2>2, <2>3, <2>4 DEF IInv
<1> QED
  BY <1>2, <1>3, <1>4, <1>5, WriteKept, HandlerKept DEF Next


-----------------------------------------------------------------------------
(* The theorems.                                                           *)

(* The inductive invariant: the lock levels of the processes fit together, *)
(* every latch has an owner, every buffer that is dirty has what the file  *)
(* has, and every change is in the file or in a dirty buffer of the        *)
(* process that made it, after every step of every thread and handler.     *)
THEOREM Invariance == Spec => []IInv
<1>1. Init => IInv
  BY Start
<1>2. IInv /\ [Next]_vars => IInv'
  BY StepKept
<1> QED
  BY <1>1, <1>2, PTL DEF Spec

(* Every component of the state keeps its type; release_bdb() and          *)
(* CCH_unwind never release a latch that was not taken (bugcheck 209).     *)
THEOREM TypeCorrect == Spec => []TypeOK
<1>1. IInv => TypeOK
  BY DEF IInv
<1> QED
  BY <1>1, Invariance, PTL

(* Whatever lock_buffer(), down_grade(), a denied conversion or a reused   *)
(* buffer do, a dirty buffer has the write lock of its page, and a clean   *)
(* one with a lock is what the file holds.                                 *)
THEOREM CachesAreCoherent == Spec => []Coherent
<1>1. IInv => Coherent
  BY DEF IInv
<1> QED
  BY <1>1, Invariance, PTL

(* check_precedence() never closes a cycle of precedence blocks, also when *)
(* the lower page is written between its test and the insertion.           *)
THEOREM PrecedenceHasNoCycle == Spec => []PrecedenceAcyclic
<1>1. IInv => PrecedenceAcyclic
  BY DEF IInv
<1> QED
  BY <1>1, Invariance, PTL

(* TRA_commit marks a transaction committed only after btc_flush() has     *)
(* left everything the transaction changed in the file.                    *)
THEOREM CommitsAreDurable == Spec => []Durable
<1>1. IInv => Durable
  BY DEF IInv
<1> QED
  BY <1>1, Invariance, PTL

(* Neither write_buffer() nor down_grade() writes a page while a page      *)
(* above it by a precedence block in force is dirty.                       *)
THEOREM WritesAreCareful == Spec => CarefulWrite
<1>1. IInv /\ [Next]_vars => [WritesInOrder]_vars
  BY StepKept
<1> QED
  BY <1>1, Invariance, PTL DEF Spec, CarefulWrite
=============================================================================

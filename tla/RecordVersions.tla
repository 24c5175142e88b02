--------------------------- MODULE RecordVersions ---------------------------
(***************************************************************************)
(* Snapshot transactions over one record of a table: how TRA_start         *)
(* (tra.cpp) numbers a transaction, takes its snapshot and works out which *)
(* old versions somebody may still need, and how vio.cpp keeps the chain   *)
(* of versions: a reader chases it, backing out dead versions and purging  *)
(* old ones on its way, an updater stores the old version elsewhere and    *)
(* replaces the primary one, a rollback undoes its update.                 *)
(*                                                                         *)
(* The processes of a Classic server share the header page, the            *)
(* transaction inventory, the transaction locks and the record's storage;  *)
(* a step is what a process does while it holds one page.  A transaction   *)
(* is of the concurrency kind and updates the record at most once.  A      *)
(* version's data is the number of the transaction that wrote it; "delta"  *)
(* says that its back version is kept as differences, so that a reader has *)
(* to let go of the page to follow it.                                     *)
(***************************************************************************)
EXTENDS Integers, Sequences, FiniteSets, FiniteSetsExt, SequencesExt

CONSTANTS
  Proc,                \* server processes, with one transaction at a time
  Slot,                \* storage for back versions: places on data pages
  Primary,             \* where the record's number leads to
  None,                \* no page: the end of the chain
  Firsts,              \* who may have stored the record; 0: nobody yet
  Started,             \* transactions 1..Started have run and committed
  MaxTra,              \* bound: the highest transaction number
  MaxStarting,         \* bound: transactions inside TRA_start at one time
  MaxReads,            \* bound: reads by one transaction, and after its update
  MaxCrashes,          \* bound: processes that die
  TRA_ACTIVE_CLEANUP   \* every so many starts look for dead transactions

ASSUME VersionsAssumption ==
  /\ Primary \notin Slot /\ None \notin Slot \cup {Primary}
  /\ Started \in Nat /\ Firsts \subseteq 0 .. Started /\ Started >= 3
  /\ MaxTra \in Nat /\ Started <= MaxTra
  /\ MaxStarting \in Nat /\ MaxReads \in Nat /\ MaxCrashes \in Nat
  /\ TRA_ACTIVE_CLEANUP \in Nat \ {0}

VARIABLES
  hdr,      \* the header page
  tip,      \* the transaction inventory: what became of every transaction
  lck,      \* data of every transaction's lock; 0: the lock is not held
  dbb,      \* every process's own idea of the oldest transactions
  tra,      \* every process's transaction
  ver,      \* the record: its versions by the place they are stored in
  at,       \* what every process does next
  rpb,      \* the version a process has read, and where
  req,      \* the rest of a process's request
  log,      \* history: the updates of the record, in order
  crashes

vars == <<hdr, tip, lck, dbb, tra, ver, at, rpb, req, log, crashes>>

Tra == 1 .. MaxTra
State == {"active", "committed", "dead"}
Place == Slot \cup {Primary}

NoVersion == [tra |-> 0, back |-> None, deleted |-> FALSE, delta |-> FALSE]

(* A version that holds nothing: its place on the page is free. *)
Free(s) == ver[s].tra = 0

NoRpb == [v |-> NoVersion, slot |-> None]

NoRequest == [kind |-> "none", temp |-> None, delta |-> FALSE, conflict |-> 0,
              next |-> None, old |-> NoVersion, ret |-> "none",
              reads |-> 0, wrote |-> FALSE, answer |-> -1]

NoTra == [number |-> 0, oldest |-> 0, active |-> 0, oldest_active |-> 0,
          tra_oldest_active |-> 0, oldest_snapshot |-> 0, cleanup |-> FALSE,
          states |-> [t \in Tra |-> "active"]]

NoDbb == [oldest |-> 0, oldest_active |-> 0, oldest_snapshot |-> 0]

Init ==
  /\ hdr = [next |-> Started, oldest |-> Started - 2,
            oldest_active |-> Started - 1, oldest_snapshot |-> Started - 1]
  /\ tip = [t \in Tra |-> IF t <= Started THEN "committed" ELSE "active"]
  /\ lck = [t \in Tra |-> 0]
  /\ dbb = [p \in Proc |-> NoDbb]
  /\ tra = [p \in Proc |-> NoTra]
  /\ at = [p \in Proc |-> "idle"]
  /\ rpb = [p \in Proc |-> NoRpb]
  /\ req = [p \in Proc |-> NoRequest]
  /\ \E f \in Firsts :
       /\ ver = [s \in Place |-> IF s = Primary THEN [NoVersion EXCEPT !.tra = f]
                                                ELSE NoVersion]
       /\ log = IF f = 0 THEN <<>> ELSE <<[tra |-> f, read |-> 0, deleted |-> FALSE]>>
  /\ crashes = 0

Larger(a, b) == IF a > b THEN a ELSE b
Smaller(a, b) == IF a < b THEN a ELSE b

(***************************************************************************)
(* Starting a transaction.                                                 *)
(***************************************************************************)
Starting == {p \in Proc : at[p] \in {"inventory", "scan", "query", "settle"}}

(* The header page while bump_transaction_id holds it. *)
bump_transaction_id(p) ==
  [next |-> hdr.next + 1,
   oldest |-> Larger(dbb[p].oldest, hdr.oldest),
   oldest_active |-> Larger(dbb[p].oldest_active, hdr.oldest_active),
   oldest_snapshot |-> Larger(dbb[p].oldest_snapshot, hdr.oldest_snapshot)]

(* The number is taken, and the transaction's lock with the header's oldest
   active transaction as its data, before the header page is let go. *)
TRA_start(p) ==
  LET h == bump_transaction_id(p)
      active == Larger(h.oldest_active, h.oldest)
  IN  /\ at[p] = "idle" /\ hdr.next < MaxTra
      /\ Cardinality(Starting) < MaxStarting
      /\ hdr' = h
      /\ lck' = [lck EXCEPT ![h.next] = active]
      /\ tra' = [tra EXCEPT ![p] =
                   [number |-> h.next, oldest |-> h.oldest, active |-> active,
                    oldest_active |-> h.next, tra_oldest_active |-> h.next,
                    oldest_snapshot |-> h.oldest_snapshot,
                    cleanup |-> h.next % TRA_ACTIVE_CLEANUP = 0,
                    states |-> [t \in Tra |-> "active"]]]
      /\ at' = [at EXCEPT ![p] = "inventory"]
      /\ req' = [req EXCEPT ![p] = NoRequest]
      /\ UNCHANGED <<tip, dbb, ver, rpb, log, crashes>>

TRA_get_inventory(p) ==
  /\ at[p] = "inventory"
  /\ tra' = [tra EXCEPT ![p].states = tip]
  /\ at' = [at EXCEPT ![p] = "scan"]
  /\ UNCHANGED <<hdr, tip, lck, dbb, ver, rpb, req, log, crashes>>

(* What TRA_wait leaves in the inventory once the transaction's lock is free:
   one still marked active is declared dead. *)
Settled(t) == IF tip[t] = "active" THEN "dead" ELSE tip[t]

(* The first transaction the snapshot has as active.  One without a lock has
   ended or died; only a start that cleans up looks what became of it. *)
Scan(p) ==
  LET x == tra[p]
      actives == {t \in x.active .. x.number - 1 : x.states[t] = "active"}
      first == Min(actives)
      data == IF lck[first] = 0 THEN first ELSE lck[first]
      needed == Smaller(x.number, data)
  IN  /\ at[p] = "scan"
      /\ \/ /\ actives = {}
            /\ at' = [at EXCEPT ![p] = "settle"]
            /\ UNCHANGED <<tra, tip>>
         \/ /\ actives # {} /\ lck[first] = 0 /\ x.cleanup
            /\ tip' = [tip EXCEPT ![first] = Settled(first)]
            /\ tra' = [tra EXCEPT ![p].states[first] = Settled(first),
                                  ![p].cleanup = Settled(first) # "committed",
                                  ![p].active = first + 1]
            /\ UNCHANGED at
         \/ /\ actives # {} /\ ~(lck[first] = 0 /\ x.cleanup)
            /\ tra' = [tra EXCEPT ![p].oldest_active = first,
                                  ![p].tra_oldest_active = needed]
            /\ at' = [at EXCEPT ![p] = IF needed = x.oldest_snapshot
                                       THEN "settle" ELSE "query"]
            /\ UNCHANGED tip
      /\ UNCHANGED <<hdr, lck, dbb, ver, rpb, req, log, crashes>>

(* The least data of all the transaction locks. *)
LCK_query_data == Min({lck[t] : t \in {u \in Tra : lck[u] # 0}})

Query(p) ==
  /\ at[p] = "query"
  /\ tra' = [tra EXCEPT ![p].tra_oldest_active = Smaller(@, LCK_query_data)]
  /\ at' = [at EXCEPT ![p] = "settle"]
  /\ UNCHANGED <<hdr, tip, lck, dbb, ver, rpb, req, log, crashes>>

(* The oldest transaction of the snapshot that is not committed. *)
Interesting(x) ==
  LET waiting == {t \in x.oldest .. x.number - 1 :
                     t > 0 /\ x.states[t] # "committed"}
  IN  IF waiting = {} THEN x.number ELSE Min(waiting)

(* Mutant: the lock gets the value of the transaction before. *)
Settle_stale(p) ==
  LET x == tra[p]
  IN  /\ at[p] = "settle"
      /\ lck' = [lck EXCEPT ![x.number] = dbb[p].oldest_active]
      /\ dbb' = [dbb EXCEPT ![p] =
                   [oldest |-> Interesting(x) - 1,
                    oldest_active |-> x.oldest_active,
                    oldest_snapshot |-> Larger(@.oldest_snapshot,
                                               x.tra_oldest_active)]]
      /\ tra' = [tra EXCEPT ![p].active = 0, ![p].oldest_active = 0,
                            ![p].oldest_snapshot = 0, ![p].cleanup = FALSE]
      /\ at' = [at EXCEPT ![p] = "ready"]
      /\ UNCHANGED <<hdr, tip, ver, rpb, req, log, crashes>>

Settle(p) ==
  LET x == tra[p]
  IN  /\ at[p] = "settle"
      /\ lck' = [lck EXCEPT ![x.number] = x.oldest_active]
      /\ dbb' = [dbb EXCEPT ![p] =
                   [oldest |-> Interesting(x) - 1,
                    oldest_active |-> x.oldest_active,
                    oldest_snapshot |-> Larger(@.oldest_snapshot,
                                               x.tra_oldest_active)]]
      /\ tra' = [tra EXCEPT ![p].active = 0, ![p].oldest_active = 0,
                            ![p].oldest_snapshot = 0, ![p].cleanup = FALSE]
      /\ at' = [at EXCEPT ![p] = "ready"]
      /\ UNCHANGED <<hdr, tip, ver, rpb, req, log, crashes>>

(* The state of transaction t in process p's snapshot. *)
TRA_snapshot_state(p, t) ==
  CASE t = tra[p].number -> "us"
    [] t < tra[p].oldest -> "committed"
    [] t > tra[p].number -> "active"
    [] OTHER             -> tra[p].states[t]

(***************************************************************************)
(* Reading.                                                                *)
(***************************************************************************)
(* A reader keeps the page of the version it looks at; nobody writes there. *)
Latched(s) == \E q \in Proc : at[q] = "look" /\ rpb[q].slot = s

(* A request ends; t is the transaction whose version it found, 0 when there
   is no record for this transaction, -1 when it did not read. *)
Answer(r, t) == [NoRequest EXCEPT !.reads = r.reads, !.wrote = r.wrote, !.answer = t]

Answers(p, t) ==
  /\ at' = [at EXCEPT ![p] = "ready"]
  /\ req' = [req EXCEPT ![p] = Answer(@, t)]

(* The primary version, with its page, if there still is a record. *)
DPM_get(p, r) ==
  IF Free(Primary)
  THEN /\ at' = [at EXCEPT ![p] = "ready"]
       /\ req' = [req EXCEPT ![p] = Answer(r, 0)]
       /\ UNCHANGED rpb
  ELSE /\ rpb' = [rpb EXCEPT ![p] = [v |-> ver[Primary], slot |-> Primary]]
       /\ at' = [at EXCEPT ![p] = "look"]
       /\ req' = [req EXCEPT ![p] = [r EXCEPT !.answer = -1]]

Read(p) ==
  /\ at[p] = "ready" /\ req[p].reads < MaxReads
  /\ DPM_get(p, [req[p] EXCEPT !.reads = @ + 1])
  /\ UNCHANGED <<hdr, tip, lck, dbb, tra, ver, log, crashes>>

(* The chase starts again at the primary version. *)
ReadAgain(p) ==
  /\ at[p] = "get"
  /\ DPM_get(p, req[p])
  /\ UNCHANGED <<hdr, tip, lck, dbb, tra, ver, log, crashes>>

(* The back version is fetched before the page in hand is let go. *)
DPM_fetch_back(p, s) ==
  /\ at' = [at EXCEPT ![p] = IF Free(s) THEN "bugcheck" ELSE "look"]
  /\ rpb' = [rpb EXCEPT ![p] = [v |-> ver[s], slot |-> s]]
  /\ UNCHANGED req

(* Mutant: the transaction's own number instead of its oldest active one. *)
Collectable_own(p, v) == v.tra < tra[p].number

Collectable(p, v) == v.tra < tra[p].tra_oldest_active

(* One version of the chain.  The case of a dead version behind another one
   is left out: VersionsKept shows that there is none. *)
VIO_chase_record_version(p) ==
  LET v == rpb[p].v
      chained == rpb[p].slot # Primary
      state == TRA_snapshot_state(p, v.tra)
  IN  /\ at[p] = "look"
      /\ \/ /\ state = "us"
            /\ Answers(p, IF v.deleted THEN 0 ELSE v.tra) /\ UNCHANGED rpb
         \/ /\ state = "committed" /\ v.deleted
            /\ IF Collectable(p, v)
               THEN /\ at' = [at EXCEPT ![p] = "expunge"]
                    /\ UNCHANGED <<req, rpb>>
               ELSE Answers(p, 0) /\ UNCHANGED rpb
         \/ /\ state = "committed" /\ ~v.deleted
            /\ IF Collectable(p, v) /\ v.back # None /\ ~chained
               THEN /\ at' = [at EXCEPT ![p] = "purge"]
                    /\ UNCHANGED <<req, rpb>>
               ELSE Answers(p, v.tra) /\ UNCHANGED rpb
         \/ /\ state = "dead" /\ ~chained
            /\ at' = [at EXCEPT ![p] = "backout"]
            /\ req' = [req EXCEPT ![p].ret = "get"]
            /\ UNCHANGED rpb
         \/ /\ state = "active"
            /\ CASE v.back = None -> Answers(p, 0) /\ UNCHANGED rpb
                 [] v.back # None /\ v.delta ->
                      /\ at' = [at EXCEPT ![p] = "regain"]
                      /\ UNCHANGED <<req, rpb>>
                 [] OTHER -> DPM_fetch_back(p, v.back)
      /\ UNCHANGED <<hdr, tip, lck, dbb, tra, ver, log, crashes>>

(* VIO_data gave the page up; the world may have changed since. *)
Regain(p) ==
  LET v == rpb[p].v
      here == ver[rpb[p].slot]
      again == /\ at' = [at EXCEPT ![p] = "get"]
               /\ UNCHANGED <<rpb, req>>
  IN  /\ at[p] = "regain"
      /\ IF rpb[p].slot # Primary
         THEN IF Free(v.back) THEN again ELSE DPM_fetch_back(p, v.back)
         ELSE CASE Free(Primary) \/ here.tra # v.tra -> again
                [] here.tra = v.tra /\ here.back = None ->
                     Answers(p, 0) /\ UNCHANGED rpb
                [] OTHER -> DPM_fetch_back(p, here.back)
      /\ UNCHANGED <<hdr, tip, lck, dbb, tra, ver, log, crashes>>

(* Mutant: nobody else cleans up the same record. *)
Same_always(p) == TRUE

(***************************************************************************)
(* Garbage collection.                                                     *)
(***************************************************************************)
(* The record is still the one that was read. *)
Same(p) ==
  /\ ver[Primary].tra = rpb[p].v.tra
  /\ ver[Primary].back = rpb[p].v.back

(* The back pointer goes first, then the versions it led to. *)
purge(p) ==
  /\ at[p] = "purge" /\ ~Latched(Primary)
  /\ IF ~Free(Primary) /\ Same(p) /\ ver[Primary].back # None
     THEN /\ ver' = [ver EXCEPT ![Primary].back = None, ![Primary].delta = FALSE]
          /\ req' = [req EXCEPT ![p].next = rpb[p].v.back, ![p].ret = "get"]
          /\ at' = [at EXCEPT ![p] = "collect"]
     ELSE /\ at' = [at EXCEPT ![p] = "get"]
          /\ UNCHANGED <<ver, req>>
  /\ UNCHANGED <<hdr, tip, lck, dbb, tra, rpb, log, crashes>>

(* A deleted record nobody sees any more goes with all its versions. *)
expunge(p) ==
  LET v == ver[Primary]
  IN  /\ at[p] = "expunge" /\ ~Latched(Primary)
      /\ IF Free(Primary) \/ ~v.deleted \/ ~Collectable(p, v)
         THEN /\ Answers(p, 0)
              /\ UNCHANGED ver
         ELSE /\ ver' = [ver EXCEPT ![Primary] = NoVersion]
              /\ req' = [req EXCEPT ![p].next = v.back, ![p].ret = "gone"]
              /\ at' = [at EXCEPT ![p] = "collect"]
      /\ UNCHANGED <<hdr, tip, lck, dbb, tra, rpb, log, crashes>>

(* One version of the chain after another is fetched and deleted. *)
garbage_collect(p) ==
  LET s == req[p].next
  IN  /\ at[p] = "collect"
      /\ IF s # None
         THEN /\ ~Latched(s)
              /\ ver' = [ver EXCEPT ![s] = NoVersion]
              /\ req' = [req EXCEPT ![p].next = ver[s].back]
              /\ at' = [at EXCEPT ![p] = IF Free(s) THEN "bugcheck" ELSE "collect"]
         ELSE /\ UNCHANGED ver
              /\ IF req[p].ret = "gone"
                 THEN Answers(p, 0)
                 ELSE /\ at' = [at EXCEPT ![p] = "get"]
                      /\ UNCHANGED req
      /\ UNCHANGED <<hdr, tip, lck, dbb, tra, rpb, log, crashes>>

(* Where the history has the update by transaction t. *)
UpdateOf(t) == CHOOSE i \in DOMAIN log : log[i].tra = t

(* VIO_backout reads the record and the version behind it, *)
BackoutRead(p) ==
  LET b == rpb[p].v.back
  IN  /\ at[p] = "backout"
      /\ IF Free(Primary) \/ ~Same(p)
         THEN /\ at' = [at EXCEPT ![p] = req[p].ret]
              /\ UNCHANGED req
         ELSE /\ req' = [req EXCEPT ![p].old = IF b = None THEN NoVersion ELSE ver[b]]
              /\ at' = [at EXCEPT ![p] = IF b # None /\ Free(b) THEN "bugcheck"
                                         ELSE "backout_write"]
      /\ UNCHANGED <<hdr, tip, lck, dbb, tra, ver, rpb, log, crashes>>

(* fetches the record again for write, and puts the old version in its place
   unless it changed; the old copy goes in the same step when it is on the
   same page. *)
BackoutWrite(p) ==
  LET b == rpb[p].v.back
      undone == req[p].ret = "undone"
  IN  /\ at[p] = "backout_write" /\ ~Latched(Primary)
      /\ \/ /\ Free(Primary) \/ ~Same(p)
            /\ at' = [at EXCEPT ![p] = req[p].ret]
            /\ UNCHANGED <<ver, log>>
         \/ /\ ~Free(Primary) /\ Same(p)
            /\ \/ /\ b = None
                  /\ ver' = [ver EXCEPT ![Primary] = NoVersion]
                  /\ at' = [at EXCEPT ![p] = req[p].ret]
               \/ /\ b # None
                  /\ ver' = [ver EXCEPT ![Primary] = req[p].old]
                  /\ at' = [at EXCEPT ![p] = "backout_delete"]
               \/ /\ b # None /\ ~ver[Primary].delta /\ ~Latched(b)
                  /\ ver' = [ver EXCEPT ![Primary] = ver[b], ![b] = NoVersion]
                  /\ at' = [at EXCEPT ![p] = req[p].ret]
            /\ log' = IF undone THEN RemoveAt(log, UpdateOf(tra[p].number)) ELSE log
      /\ req' = [req EXCEPT ![p].old = NoVersion]
      /\ UNCHANGED <<hdr, tip, lck, dbb, tra, rpb, crashes>>

BackoutDelete(p) ==
  LET b == rpb[p].v.back
  IN  /\ at[p] = "backout_delete" /\ ~Latched(b)
      /\ ver' = [ver EXCEPT ![b] = NoVersion]
      /\ at' = [at EXCEPT ![p] = IF Free(b) THEN "bugcheck" ELSE req[p].ret]
      /\ UNCHANGED <<hdr, tip, lck, dbb, tra, rpb, req, log, crashes>>

(***************************************************************************)
(* Updating the record just read.                                          *)
(***************************************************************************)
(* The new primary version, in front of the old one, now in place s. *)
Replaced(p, s, old, kind, delta) ==
  LET erased == kind = "erase"
  IN  /\ ver' = [ver EXCEPT ![s] = old,
                            ![Primary] = [tra |-> tra[p].number, back |-> s,
                                          deleted |-> erased, delta |-> delta]]
      /\ log' = Append(log, [tra |-> tra[p].number, read |-> req[p].answer,
                             deleted |-> erased])
      /\ req' = [req EXCEPT ![p] = [NoRequest EXCEPT !.wrote = TRUE]]
      /\ at' = [at EXCEPT ![p] = "ready"]

CanUpdate(p) ==
  /\ at[p] = "ready" /\ ~req[p].wrote
  /\ req[p].answer > 0

(* A new record, under a number that is free. *)
VIO_store(p) ==
  /\ at[p] = "ready" /\ ~req[p].wrote /\ Free(Primary)
  /\ ver' = [ver EXCEPT ![Primary] = [NoVersion EXCEPT !.tra = tra[p].number]]
  /\ log' = Append(log, [tra |-> tra[p].number, read |-> 0, deleted |-> FALSE])
  /\ req' = [req EXCEPT ![p] = [NoRequest EXCEPT !.wrote = TRUE]]
  /\ UNCHANGED <<hdr, tip, lck, dbb, tra, at, rpb, crashes>>

(* VIO_erase puts the stub on the record's own page if it has not changed. *)
DPM_chain(p) ==
  /\ CanUpdate(p) /\ ~Latched(Primary)
  /\ ~Free(Primary) /\ Same(p)
  /\ ver[Primary].delta => rpb[p].v.delta
  /\ \E s \in Slot :
       /\ Free(s)
       /\ Replaced(p, s, ver[Primary], "erase", FALSE)
  /\ UNCHANGED <<hdr, tip, lck, dbb, tra, rpb, crashes>>

(* VIO_modify and VIO_erase store the version they read somewhere else; a
   modified record's old version may be kept as differences.  VIO_erase has
   tried DPM_chain and looked at the record again. *)
Update(p) ==
  /\ CanUpdate(p)
  /\ \E s \in Slot, k \in {"modify", "erase"}, d \in BOOLEAN :
       LET again == k = "erase" /\ ~Free(Primary)
           now == IF again THEN [v |-> ver[Primary], slot |-> Primary] ELSE rpb[p]
       IN  /\ Free(s) /\ (k = "erase" => ~d /\ ~Latched(Primary))
           /\ rpb' = [rpb EXCEPT ![p] = now]
           /\ ver' = [ver EXCEPT ![s] = [now.v EXCEPT !.deleted = FALSE,
                                                      !.delta = rpb[p].v.delta]]
           /\ req' = [req EXCEPT ![p].kind = k, ![p].temp = s, ![p].delta = d,
                                 ![p].conflict = 0]
  /\ at' = [at EXCEPT ![p] = "write"]
  /\ UNCHANGED <<hdr, tip, lck, dbb, tra, log, crashes>>

(* The stored copy still describes the record as it is now. *)
Matches(p) ==
  /\ ver[Primary] = ver[req[p].temp]
  /\ rpb[p].slot = Primary /\ rpb[p].v.delta = ver[Primary].delta

prepare_update(p) ==
  LET v == ver[Primary]
      state == TRA_snapshot_state(p, v.tra)
  IN  /\ at[p] = "write" /\ ~Latched(Primary)
      /\ rpb' = [rpb EXCEPT ![p] = [v |-> v, slot |-> Primary]]
      /\ \/ /\ ~Free(Primary) /\ state = "active"
            /\ at' = [at EXCEPT ![p] = "wait"]
            /\ UNCHANGED <<ver, req, log>>
         \/ /\ Free(Primary) \/ state # "active"
            /\ CASE Free(Primary) ->
                      /\ at' = [at EXCEPT ![p] = "bugcheck"]
                      /\ UNCHANGED <<ver, req, log>>
                 [] state = "dead" ->
                      /\ at' = [at EXCEPT ![p] = "backout"]
                      /\ req' = [req EXCEPT ![p].ret = "write"]
                      /\ UNCHANGED <<ver, log>>
                 [] state = "committed" /\ v.deleted ->
                      /\ at' = [at EXCEPT ![p] = "discard"]
                      /\ UNCHANGED <<ver, req, log>>
                 [] ~Free(Primary) /\ state # "dead" /\ Matches(p) ->
                      Replaced(p, req[p].temp, ver[req[p].temp],
                               req[p].kind, req[p].delta)
                 [] OTHER ->
                      /\ ver' = [ver EXCEPT ![req[p].temp] = v]
                      /\ UNCHANGED <<at, req, log>>
      /\ UNCHANGED <<hdr, tip, lck, dbb, tra, crashes>>

(* Mutant: the snapshot takes over whatever state the wait ends with. *)
TRA_wait_adopts(p) ==
  LET t == rpb[p].v.tra
  IN  /\ at[p] = "wait" /\ lck[t] = 0
      /\ tip' = [tip EXCEPT ![t] = Settled(t)]
      /\ tra' = IF t > tra[p].number THEN tra
                ELSE [tra EXCEPT ![p].states[t] = Settled(t)]
      /\ at' = [at EXCEPT ![p] = IF Settled(t) = "dead" THEN "backout" ELSE "write"]
      /\ req' = [req EXCEPT ![p].ret = "write"]
      /\ UNCHANGED <<hdr, lck, dbb, ver, rpb, log, crashes>>

(* The lock of the transaction that wrote the record is free: it has ended.
   One that committed may have undone its update, so the record is looked at
   once more before the update fails. *)
TRA_wait(p) ==
  LET t == rpb[p].v.tra
      x == tra[p]
  IN  /\ at[p] = "wait" /\ lck[t] = 0
      /\ tip' = [tip EXCEPT ![t] = Settled(t)]
      /\ \/ /\ Settled(t) = "committed"
            /\ at' = [at EXCEPT ![p] = IF req[p].conflict # t THEN "write"
                                       ELSE "discard"]
            /\ req' = [req EXCEPT ![p].conflict = t]
            /\ UNCHANGED tra
         \/ /\ Settled(t) = "dead"
            /\ tra' = IF t > x.number THEN tra
                      ELSE [tra EXCEPT ![p].states[t] = "dead"]
            /\ at' = [at EXCEPT ![p] = "backout"]
            /\ req' = [req EXCEPT ![p].ret = "write"]
      /\ UNCHANGED <<hdr, lck, dbb, ver, rpb, log, crashes>>

(* A deadlock, or a transaction that does not wait. *)
WaitDenied(p) ==
  /\ at[p] = "wait" /\ lck[rpb[p].v.tra] # 0
  /\ at' = [at EXCEPT ![p] = "discard"]
  /\ UNCHANGED <<hdr, tip, lck, dbb, tra, ver, rpb, req, log, crashes>>

(* Mutant: the copy is forgotten. *)
Discard_keeps(p) ==
  /\ at[p] = "discard"
  /\ at' = [at EXCEPT ![p] = "ready"]
  /\ req' = [req EXCEPT ![p] = Answer(@, -1)]
  /\ UNCHANGED <<hdr, tip, lck, dbb, tra, ver, rpb, log, crashes>>

(* The update fails; the copy it stored is deleted. *)
Discard(p) ==
  LET s == req[p].temp
  IN  /\ at[p] = "discard"
      /\ at' = [at EXCEPT ![p] = IF Free(s) THEN "bugcheck" ELSE "ready"]
      /\ ver' = [ver EXCEPT ![s] = NoVersion]
      /\ req' = [req EXCEPT ![p] = Answer(@, -1)]
      /\ UNCHANGED <<hdr, tip, lck, dbb, tra, rpb, log, crashes>>

(***************************************************************************)
(* Ending a transaction.                                                   *)
(***************************************************************************)
TRA_set_state(p, state) ==
  /\ tip' = [tip EXCEPT ![tra[p].number] = state]
  /\ at' = [at EXCEPT ![p] = "release"]
  /\ rpb' = [rpb EXCEPT ![p] = NoRpb]
  /\ req' = [req EXCEPT ![p] = NoRequest]

TRA_commit(p) ==
  /\ at[p] = "ready"
  /\ TRA_set_state(p, "committed")
  /\ UNCHANGED <<hdr, lck, dbb, tra, ver, log, crashes>>

(* A small rollback undoes the update and counts as committed; a large one,
   one without a savepoint, or one that fails before it undoes anything,
   counts as dead and leaves the update to others. *)
TRA_rollback(p) ==
  /\ at[p] = "ready"
  /\ \/ \E state \in {"dead"} \cup (IF req[p].wrote THEN {} ELSE {"committed"}) :
             TRA_set_state(p, state)
     \/ /\ req[p].wrote
        /\ rpb' = [rpb EXCEPT ![p] = [v |-> ver[Primary], slot |-> Primary]]
        /\ req' = [req EXCEPT ![p].ret = "undone"]
        /\ at' = [at EXCEPT ![p] = IF ver[Primary].tra = tra[p].number
                                   THEN "backout" ELSE "bugcheck"]
        /\ UNCHANGED tip
  /\ UNCHANGED <<hdr, lck, dbb, tra, ver, log, crashes>>

(* The update is undone; the flush after it may fail, and then the
   transaction counts as dead. *)
Undone(p) ==
  /\ at[p] = "undone"
  /\ \E state \in {"committed", "dead"} : TRA_set_state(p, state)
  /\ UNCHANGED <<hdr, lck, dbb, tra, ver, log, crashes>>

(* The process has no transaction any more. *)
Ended(p) ==
  /\ lck' = [lck EXCEPT ![tra[p].number] = 0]
  /\ tra' = [tra EXCEPT ![p] = NoTra]
  /\ rpb' = [rpb EXCEPT ![p] = NoRpb]
  /\ req' = [req EXCEPT ![p] = NoRequest]
  /\ at' = [at EXCEPT ![p] = "idle"]

TRA_release_transaction(p) ==
  /\ at[p] = "release"
  /\ Ended(p)
  /\ UNCHANGED <<hdr, tip, dbb, ver, log, crashes>>

(* A process dies: its lock goes, its transaction stays marked active. *)
Crash(p) ==
  /\ at[p] \notin {"idle", "bugcheck"} /\ crashes < MaxCrashes
  /\ Ended(p)
  /\ dbb' = [dbb EXCEPT ![p] = NoDbb]
  /\ crashes' = crashes + 1
  /\ UNCHANGED <<hdr, tip, ver, log>>

Next ==
  \E p \in Proc :
    \/ TRA_start(p) \/ TRA_get_inventory(p) \/ Scan(p) \/ Query(p) \/ Settle(p)
    \/ Read(p) \/ ReadAgain(p) \/ VIO_chase_record_version(p) \/ Regain(p)
    \/ purge(p) \/ expunge(p) \/ garbage_collect(p)
    \/ BackoutRead(p) \/ BackoutWrite(p) \/ BackoutDelete(p)
    \/ VIO_store(p) \/ DPM_chain(p) \/ Update(p) \/ prepare_update(p)
    \/ TRA_wait(p) \/ WaitDenied(p) \/ Discard(p)
    \/ TRA_commit(p) \/ TRA_rollback(p) \/ Undone(p)
    \/ TRA_release_transaction(p) \/ Crash(p)

Spec == Init /\ [][Next]_vars

(***************************************************************************)
(* Properties.                                                             *)
(***************************************************************************)
(* Every variable has its type, no process has run into a bugcheck (record
   disappeared, wrong record version, cannot find record back version), and
   a transaction's lock is held as long as it runs. *)
TypeOK ==
  /\ hdr \in [next : Tra, oldest : 0 .. MaxTra, oldest_active : 0 .. MaxTra,
              oldest_snapshot : 0 .. MaxTra]
  /\ tip \in [Tra -> State]
  /\ lck \in [Tra -> 0 .. MaxTra]
  /\ \A s \in Place : ver[s] \in [tra : 0 .. MaxTra, back : Slot \cup {None},
                                 deleted : BOOLEAN, delta : BOOLEAN]
  /\ at \in [Proc -> {"idle", "inventory", "scan", "query", "settle", "ready",
                       "get", "look", "regain", "purge", "expunge", "collect",
                       "backout", "backout_write", "backout_delete", "write",
                       "wait", "discard", "undone", "release"}]
  /\ \A p \in Proc : at[p] # "idle" => lck[tra[p].number] # 0

(* What a reader finds that sees the last of a set of updates. *)
Shown(updates) ==
  IF updates = {} \/ log[Max(updates)].deleted THEN 0 ELSE log[Max(updates)].tra

(* The updates that the transaction of process p should see: those by itself
   or by a transaction its snapshot has as committed. *)
Visible(p) ==
  {i \in DOMAIN log : TRA_snapshot_state(p, log[i].tra) \in {"us", "committed"}}

Expected(p) == Shown(Visible(p))

(* Whatever other transactions update, delete, undo, back out, purge and
   expunge, a read answers with the version of the snapshot: garbage
   collection (purge, expunge, tra_oldest_active) never takes a version from
   under a running transaction. *)
SnapshotRead ==
  \A p \in Proc : at[p] = "ready" /\ req[p].answer >= 0 =>
                    req[p].answer = Expected(p)

(* The updates of transactions that did not die. *)
Kept == {i \in DOMAIN log : tip[log[i].tra] # "dead"}

KeptBefore(i) == {k \in Kept : k < i}

(* Of two transactions that update the record and do not die, the second has
   read what the first wrote: prepare_update lets no update be overwritten
   unseen. *)
NoLostUpdate == \A i \in Kept : log[i].read = Shown(KeptBefore(i))

(* The places behind place s, s included: the least set of places that
   contains s and the back pointer of each of its members. *)
Chain(s) ==
  {t \in Slot : \A C \in SUBSET Place :
                  /\ s \in C
                  /\ \A u \in C : ver[u].back # None => ver[u].back \in C
                  => t \in C}

(* The places process p alone knows of: the copy it stored for an update,
   what it is collecting, the old copy of a version it brought forward. *)
InHand(p) ==
  CASE at[p] = "backout_delete" -> {rpb[p].v.back}
    [] at[p] = "collect" /\ req[p].next # None -> Chain(req[p].next)
    [] OTHER -> {}

Held(p) == InHand(p) \cup ({req[p].temp} \ {None})

(* Every stored version is either in the record's chain or in the hands of
   one process that will free it or link it, and never of two: no update,
   conflict, undo, backout or collection leaves one behind or frees one
   twice.  A process that died may leave what it had in hand.  And a version
   behind another one is never that of a dead transaction: prepare_update
   backs it out first. *)
VersionsKept ==
  LET chain == IF Free(Primary) THEN {} ELSE Chain(Primary)
  IN  /\ \A s \in chain : ~Free(s) /\ tip[ver[s].tra] # "dead"
      /\ \A p \in Proc :
           /\ Held(p) \cap chain = {}
           /\ \A s \in Held(p) : ~Free(s)
           /\ \A q \in Proc \ {p} : Held(p) \cap Held(q) = {}
      /\ crashes = 0 =>
           \A s \in Slot : ~Free(s) =>
             s \in chain \/ \E p \in Proc : s \in Held(p)

(***************************************************************************)
(* What VersionsKept rests on.                                             *)
(***************************************************************************)
Version == [tra : 0 .. MaxTra, back : Slot \cup {None}, deleted : BOOLEAN,
            delta : BOOLEAN]

Oldest == [oldest : 0 .. MaxTra, oldest_active : 0 .. MaxTra,
           oldest_snapshot : 0 .. MaxTra]

Request == [kind : {"none", "modify", "erase"}, temp : Slot \cup {None},
            delta : BOOLEAN, conflict : 0 .. MaxTra, next : Slot \cup {None},
            old : Version, ret : {"none", "get", "gone", "write", "undone"},
            reads : Nat, wrote : BOOLEAN, answer : -1 .. MaxTra]

Doing == {"idle", "inventory", "scan", "query", "settle", "ready", "get",
          "look", "regain", "purge", "expunge", "collect", "backout",
          "backout_write", "backout_delete", "write", "wait", "discard",
          "undone", "release", "bugcheck"}

(* The types of all variables; a process may have run into a bugcheck. *)
Typed ==
  /\ hdr \in [next : Tra, oldest : 0 .. MaxTra, oldest_active : 0 .. MaxTra,
              oldest_snapshot : 0 .. MaxTra]
  /\ tip \in [Tra -> State]
  /\ lck \in [Tra -> 0 .. MaxTra]
  /\ dbb \in [Proc -> Oldest]
  /\ tra \in [Proc -> [number : 0 .. MaxTra, oldest : 0 .. MaxTra, active : 0 .. MaxTra,
                       oldest_active : 0 .. MaxTra, tra_oldest_active : 0 .. MaxTra,
                       oldest_snapshot : 0 .. MaxTra, cleanup : BOOLEAN,
                       states : [Tra -> State]]]
  /\ ver \in [Place -> Version]
  /\ at \in [Proc -> Doing]
  /\ rpb \in [Proc -> [v : Version, slot : Place \cup {None}]]
  /\ req \in [Proc -> Request]
  /\ log \in Seq([tra : Tra, read : -1 .. MaxTra, deleted : BOOLEAN])
  /\ crashes \in Nat

(* A process has a transaction, its number, its snapshot. *)
Active(p) == at[p] # "idle"
InSnapshot(p) == at[p] \notin {"idle", "inventory", "release"}
Settling(p) == at[p] \in {"inventory", "scan", "query", "settle"}
Ready(p) == at[p] \notin {"idle", "inventory", "scan", "query", "settle"}

(* Every transaction has a number and a lock of its own, and stays active in
   the inventory until its process ends it. *)
NumbersOf(p) ==
  Active(p) =>
    /\ tra[p].number \in Tra /\ tra[p].number <= hdr.next
    /\ lck[tra[p].number] # 0
    /\ tip[tra[p].number] = "active" <=> at[p] # "release"
    /\ \A q \in Proc \ {p} : Active(q) => tra[q].number # tra[p].number

NumbersInv ==
  /\ \A t \in Tra : t > hdr.next => tip[t] = "active"
  /\ \A t \in Tra : lck[t] <= t
  /\ \A p \in Proc : NumbersOf(p)

(* Everybody below n has committed; nobody below n runs. *)
Over(n) == \A t \in Tra : t < n => tip[t] = "committed"
Gone(n) == \A t \in Tra : t < n => tip[t] # "active" \/ lck[t] = 0

(* What the header page and the processes remember of the oldest
   transactions is true, if not up to date. *)
Remembered(d) ==
  /\ d.oldest <= hdr.next /\ Over(d.oldest)
  /\ d.oldest_active <= hdr.next /\ Gone(d.oldest_active)
  /\ d.oldest_snapshot <= hdr.next /\ Gone(d.oldest_snapshot)

OldestOf(p) ==
  LET x == tra[p]
  IN  /\ Active(p) => /\ x.oldest <= x.number /\ x.oldest > 0 /\ Over(x.oldest)
                     /\ x.tra_oldest_active <= x.number
      /\ Settling(p) =>
           /\ x.active <= x.number /\ Gone(x.active) /\ x.active > 0
           /\ x.oldest_snapshot <= x.number /\ Gone(x.oldest_snapshot)
           /\ x.oldest_active <= x.number /\ x.oldest_active > 0
      /\ at[p] \in {"query", "settle"} => Gone(x.oldest_active)
      /\ at[p] \in {"query", "settle"} \/ Ready(p) => Gone(x.tra_oldest_active)

OldestInv ==
  /\ hdr.oldest > 0 /\ Remembered(hdr)
  /\ \A p \in Proc : Remembered(dbb[p]) /\ OldestOf(p)

(* A snapshot is as the inventory was; where it has not seen an end, the
   transaction may have ended since. *)
SnapshotOf(p) ==
  InSnapshot(p) => \A t \in Tra : tra[p].states[t] # "active" => tip[t] = tra[p].states[t]

SnapshotInv == \A p \in Proc : SnapshotOf(p)

(* Nobody has stored, read or kept anything of transaction t. *)
Fresh(t) ==
  /\ \A s \in Place : ver[s].tra # t
  /\ \A p \in Proc : rpb[p].v.tra # t /\ req[p].old.tra # t
  /\ \A i \in DOMAIN log : log[i].tra # t

FreshInv ==
  /\ \A t \in Tra : t > hdr.next => Fresh(t)
  /\ \A p \in Proc : Active(p) /\ at[p] # "release" /\ ~req[p].wrote =>
       Fresh(tra[p].number)

(* What goes with what a process does next. *)
RequestOf(p) ==
  LET backing == at[p] \in {"backout", "backout_write", "backout_delete"}
  IN  /\ Settling(p) => req[p] = NoRequest
      /\ req[p].temp # None =>
           /\ at[p] \in {"write", "wait", "discard", "bugcheck"} \/ backing
           /\ ~req[p].wrote /\ req[p].answer > 0 /\ req[p].kind # "none"
      /\ at[p] \in {"write", "wait", "discard"} => req[p].temp # None
      /\ backing => req[p].ret = IF req[p].wrote THEN "undone"
                                 ELSE IF req[p].temp = None THEN "get" ELSE "write"
      /\ at[p] = "backout_delete" => rpb[p].v.back # None
      /\ at[p] = "collect" => req[p].ret \in {"get", "gone"}
      /\ req[p].wrote => at[p] \in {"ready", "look", "undone", "bugcheck"} \/ backing
      /\ at[p] = "undone" => req[p].wrote

RequestInv == \A p \in Proc : RequestOf(p)

(* The record: a place is free entirely; versions behind the primary one are
   of committed transactions, each older than the one before. *)
ChainInv ==
  /\ \A s \in Place : Free(s) => ver[s] = NoVersion
  /\ \A s \in Slot : ~ver[s].deleted
  /\ \A s \in Chain(Primary) : ~Free(s) /\ tip[ver[s].tra] = "committed"
  /\ \A s \in Chain(Primary) \cup {Primary} : ver[s].back # None =>
       ver[ver[s].back].tra < ver[s].tra

(* What a process has in hand is stored, in nobody else's hands and not in
   the record's chain. *)
HandOf(p) ==
  /\ Held(p) \cap Chain(Primary) = {}
  /\ \A s \in Held(p) : ~Free(s)
  /\ req[p].temp \notin InHand(p)
  /\ \A q \in Proc \ {p} : Held(p) \cap Held(q) = {}
  /\ at[p] = "collect" /\ req[p].next # None =>
       \A s \in Chain(req[p].next) : ver[s].back # None =>
         ver[ver[s].back].tra < ver[s].tra

HandInv == \A p \in Proc : HandOf(p)

(* A reader at the primary version keeps it; one further on has left nothing
   behind that it may read as a deleted record. *)
ReaderOf(p) ==
  at[p] \in {"look", "regain"} =>
    /\ rpb[p].v.tra # 0 /\ rpb[p].slot # None
    /\ at[p] = "regain" => /\ rpb[p].v.back # None
                           /\ TRA_snapshot_state(p, rpb[p].v.tra) = "active"
    /\ IF rpb[p].slot = Primary
       THEN at[p] = "look" => rpb[p].v = ver[Primary]
       ELSE /\ ~rpb[p].v.deleted
            /\ ~Free(Primary) /\ ver[Primary].deleted =>
                 TRA_snapshot_state(p, ver[Primary].tra) \notin {"us", "committed"}

ReaderInv == \A p \in Proc : ReaderOf(p)

(* What a process has read is what it acts upon. *)
ActOf(p) ==
  LET v == rpb[p].v
      backing == at[p] \in {"backout", "backout_write"}
  IN  /\ at[p] = "ready" /\ ~req[p].wrote /\ req[p].answer > 0 =>
           /\ v.tra # 0 /\ tip[v.tra] = "committed" /\ v.tra < tra[p].number
           /\ ~v.deleted
           /\ ver[Primary].tra = v.tra => ~ver[Primary].deleted
      /\ at[p] = "purge" => v.tra # 0 /\ tip[v.tra] = "committed"
      /\ at[p] = "expunge" /\ ~Free(Primary) /\ Collectable(p, ver[Primary]) =>
           tip[ver[Primary].tra] = "committed"
      /\ at[p] = "wait" => v.tra # 0
      /\ backing /\ ~req[p].wrote => v.tra # 0 /\ tip[v.tra] = "dead"
      /\ backing /\ req[p].wrote => v = ver[Primary]
      /\ at[p] = "backout_write" /\ ~Free(Primary) /\ Same(p) /\ v.back # None =>
           req[p].old = ver[v.back]
      /\ req[p].wrote /\ (at[p] \in {"ready", "look"} \/ backing) =>
           /\ ver[Primary].tra = tra[p].number
           /\ \E i \in DOMAIN log : log[i].tra = tra[p].number
      /\ req[p].wrote /\ at[p] = "look" => rpb[p].slot = Primary

ActInv == \A p \in Proc : ActOf(p)

(* Nothing is left behind while nobody dies. *)
NothingLeft ==
  crashes = 0 => \A s \in Slot : ~Free(s) =>
                   s \in Chain(Primary) \/ \E p \in Proc : s \in Held(p)

IInv ==
  /\ Typed /\ NumbersInv /\ OldestInv /\ SnapshotInv /\ FreshInv /\ RequestInv
  /\ ChainInv /\ HandInv /\ ReaderInv /\ ActInv /\ NothingLeft

(***************************************************************************)
(* What SnapshotRead rests on, if transactions start one at a time.        *)
(***************************************************************************)
StartsApart == MaxStarting <= 1

(* A process whose transaction has its snapshot and has not ended. *)
Running(p) == Ready(p) /\ at[p] # "release"

(* A transaction that committed and that every snapshot has as committed. *)
SeenByAll(t) ==
  /\ tip[t] = "committed"
  /\ \A p \in Proc : InSnapshot(p) => TRA_snapshot_state(p, t) = "committed"

(* Who committed and is older than n is seen by all. *)
Safe(n) == \A t \in Tra : t < n /\ tip[t] = "committed" => SeenByAll(t)

(* Nobody below n runs, and process p's snapshot has who committed there. *)
Known(p, n) ==
  /\ Gone(n)
  /\ \A t \in Tra : t < n /\ tip[t] = "committed" => tra[p].states[t] = "committed"

(* Only one process starts a transaction, which is the youngest.  It has those
   that run as active, each of which holds the oldest it has as active in its
   lock; and nothing below the oldest snapshot is needed. *)
StartOf(p) ==
  LET x == tra[p]
  IN  /\ Settling(p) => /\ x.number = hdr.next /\ Safe(x.oldest_snapshot)
                        /\ \A q \in Proc : Settling(q) => q = p
      /\ at[p] = "scan" =>
           /\ Known(p, x.active)
           /\ \A q \in Proc : Running(q) => x.states[tra[q].number] = "active"
      /\ at[p] \in {"query", "settle"} => Known(p, x.oldest_active)
      /\ at[p] = "query" => x.tra_oldest_active <= x.oldest_active
      /\ Running(p) => Known(p, lck[x.number])
      /\ at[p] = "settle" \/ Ready(p) => Safe(x.tra_oldest_active)
      /\ Safe(dbb[p].oldest_snapshot)

StartInv == Safe(hdr.oldest_snapshot) /\ \A p \in Proc : StartOf(p)

(* The version stored in place s is of the history's update i. *)
Is(s, i) == log[i].tra = ver[s].tra /\ log[i].deleted = ver[s].deleted

(* Update k is the last kept before update i. *)
LastBefore(i, k) == k \in KeptBefore(i) /\ \A j \in KeptBefore(i) : j <= k

(* Nothing that anybody could look for was before update i. *)
NothingBefore(i) ==
  \A k \in DOMAIN log : LastBefore(i, k) => log[k].deleted /\ SeenByAll(log[k].tra)

(* The version in place s is update i; what is behind it is the update kept
   before, unless nobody looks for that one. *)
Stored(s, i) ==
  /\ Is(s, i)
  /\ ver[s].back = None => NothingBefore(i) \/ SeenByAll(ver[s].tra)
  /\ ver[s].back # None => \E k \in DOMAIN log : LastBefore(i, k) /\ Is(ver[s].back, k)

(* The record's chain is the end of the history, as far as anybody may look
   for it. *)
HistoryInv ==
  /\ \A i, j \in DOMAIN log : log[i].tra = log[j].tra => i = j
  /\ \A i \in Kept : tip[log[i].tra] = "committed" \/ log[i].tra = ver[Primary].tra
  /\ IF Free(Primary)
     THEN NothingBefore(Len(log) + 1)
     ELSE \E i \in DOMAIN log : Stored(Primary, i) /\ \A k \in Kept : k <= i
  /\ \A s \in Chain(Primary) : \E i \in DOMAIN log : Stored(s, i)

(* Process p sees none of the updates kept after the one by transaction t. *)
LastSeen(p, t) == \A i, k \in DOMAIN log : log[i].tra = t /\ i < k => k \notin Visible(p)

(* A reader has passed only what its snapshot does not have, and has still
   before it what it has not passed. *)
WalkOf(p) ==
  at[p] \in {"look", "regain"} /\ rpb[p].slot # Primary =>
    LET v == rpb[p].v
    IN  /\ tip[v.tra] = "committed"
        /\ \E i \in DOMAIN log : log[i].tra = v.tra /\ ~log[i].deleted
        /\ LastSeen(p, v.tra)
        /\ at[p] = "look" =>
             /\ ~Free(rpb[p].slot) /\ v = ver[rpb[p].slot]
             /\ \A q \in Proc : req[q].temp # rpb[p].slot
        /\ TRA_snapshot_state(p, v.tra) = "active" =>
             \E s \in Chain(Primary) \cup {Primary} :
               ver[s].tra = v.tra /\ ver[s].back = v.back

WalkInv == \A p \in Proc : WalkOf(p)

(* A process that writes has read what its snapshot shows, one that collects
   has found what nobody needs any more. *)
AnswerOf(p) ==
  /\ (at[p] = "ready" \/ req[p].temp # None) /\ req[p].answer >= 0 =>
       req[p].answer = Expected(p)
  /\ at[p] = "ready" /\ req[p].answer > 0 => rpb[p].v.tra = req[p].answer
  /\ at[p] = "purge" => Collectable(p, rpb[p].v)
  /\ at[p] = "expunge" \/ (at[p] = "collect" /\ req[p].ret = "gone") => Expected(p) = 0

AnswerInv == \A p \in Proc : AnswerOf(p)

NoBugcheck == \A p \in Proc : at[p] # "bugcheck"

SInv ==
  /\ IInv /\ StartInv /\ HistoryInv /\ WalkInv /\ AnswerInv /\ NoLostUpdate /\ NoBugcheck

=============================================================================

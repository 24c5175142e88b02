--------------------------- MODULE LockOrderProofs ---------------------------
(***************************************************************************)
(* The order of grants in the lock table, with the grant order option: a   *)
(* new request is never granted past an older waiter, and no section ends  *)
(* with a first waiter that could be granted.  Both rest on OrderInv of    *)
(* LockTable, which is inductive together with IInv.  And what the engine  *)
(* is told of its requests: it knows the level held (EngineInv, inductive  *)
(* with IInv again), and only it gives a level up.  Last, that the scans   *)
(* for deadlocks miss none (DeadlockInv, inductive with both).             *)
(*                                                                         *)
(* First what a step has to keep for a request, a section and a lock it    *)
(* does not work on; then one lemma for each action; then the theorems:    *)
(* for the order of grants, and in the same way for the engine and for     *)
(* deadlocks.  All theorems assume BlockagesFit, as those of               *)
(* LockTableProofs do.                                                     *)
(***************************************************************************)
EXTENDS LockTableProofs

-----------------------------------------------------------------------------
(* The parts of OrderInv: for a request, for the section, for the walk and *)
(* for a lock.                                                             *)

RequestOK(r) ==
    lrq_lock[r] # NoLock =>
        /\ lrq_state[r] = LCK_none =>
              \/ Abandoned(r)
              \/ sec.at = "grant_or_que" /\ sec.req = r
              \/ /\ WaitedFor(r) /\ op[lrq_owner[r]].kind = "enq"
                 /\ Pending(r) \/ "rejected" \in lrq_flags[r]
        /\ Pending(r) => lrq_requested[r] # lrq_state[r]
        /\ Dirty(r) => Abandoned(r) \/ WaitedFor(r) \/ Serving(r)

SectionOK ==
    /\ sec.at \in {"convert", "downgrade"} => lrq_state[sec.req] # LCK_none
    /\ (sec.at \in {"enq", "grant_or_que"} \/ (sec.at = "post" /\ sec.posted = "enq")) =>
          op[lhb_active_owner].kind = "enq"

(* OrderInv is the conjunction of its parts. *)
LEMMA OrderParts ==
    OrderInv <=> (\A r \in Requests : RequestOK(r)) /\ SectionOK /\ WalkInv /\ SettledInv
BY DEF OrderInv, NewcomerInv, RejectedInv, RequestOK, SectionOK

(* The same for the state after a step. *)
LEMMA OrderPartsPrime ==
    ASSUME \A r \in Requests : RequestOK(r)', SectionOK', WalkInv', SettledInv'
    PROVE  OrderInv'
BY DEF OrderInv, NewcomerInv, RejectedInv, RequestOK, SectionOK

(* The fields the order of grants depends on stay. *)
Untouched(s) ==
    /\ lrq_owner'[s] = lrq_owner[s] /\ lrq_lock'[s] = lrq_lock[s]
    /\ lrq_requested'[s] = lrq_requested[s] /\ lrq_state'[s] = lrq_state[s]
    /\ Pending(s)' <=> Pending(s)
    /\ "rejected" \in lrq_flags'[s] <=> "rejected" \in lrq_flags[s]

(* Who is responsible for a request stays so. *)
StillServed(s) ==
    /\ Abandoned(s) => Abandoned(s)'
    /\ WaitedFor(s) /\ (Pending(s) \/ "rejected" \in lrq_flags[s]) =>
          \/ Abandoned(s)'
          \/ WaitedFor(s)' /\ op'[lrq_owner[s]].kind = op[lrq_owner[s]].kind
    /\ Serving(s) => Serving(s)' /\ (sec.at = "grant_or_que" => sec'.at = "grant_or_que")

(* What holds of a request stays when neither it nor who serves it         *)
(* changes.                                                                *)
LEMMA RequestKept ==
    ASSUME NEW s \in Requests, RequestOK(s), Untouched(s), StillServed(s)
    PROVE  RequestOK(s)'
<1>1. Dirty(s)' <=> Dirty(s)
  BY DEF Untouched, Dirty
<1>2. sec.at = "grant_or_que" /\ sec.req = s => Serving(s)
  BY DEF Serving
<1>3. Serving(s)' => sec'.req = s
  BY DEF Serving
<1> QED
  BY <1>1, <1>2, <1>3 DEF RequestOK, Untouched, StillServed, Dirty

(* The queue, the counts and the requests of a lock stay. *)
SameLock(l) ==
    /\ lbl_requests'[l] = lbl_requests[l]
    /\ lbl_state'[l] = lbl_state[l] /\ lbl_counts'[l] = lbl_counts[l]
    /\ \A s \in Requests : lrq_lock'[s] = l <=> lrq_lock[s] = l
    /\ \A s \in Requests : lrq_lock[s] = l => Untouched(s)

(* A lock nobody works on stays settled. *)
LEMMA SettledKept ==
    ASSUME NEW l \in Locks, Settled(l), SameLock(l),
           sec.at = "post" /\ sec.lock = l => sec'.at = "post" /\ sec'.lock = l,
           \A s \in Requests : lrq_lock[s] = l /\ Dirty(s) /\ ~ Serving(s) => ~ Serving(s)'
    PROVE  Settled(l)'
<1>1. CASE sec.at = "post" /\ sec.lock = l
  BY <1>1 DEF Settled
<1>2. CASE ~ (sec.at = "post" /\ sec.lock = l)
  <2> SUFFICES ASSUME NEW r \in Requests, lrq_lock'[r] = l, FirstPending(l, r)'
               PROVE  \/ ~ Grantable(r)'
                      \/ \E s \in Requests : lrq_lock'[s] = l /\ Dirty(s)' /\ ~ Serving(s)'
    BY DEF Settled, RequestsOf
  <2>1. lrq_lock[r] = l /\ \A s \in Requests : lrq_lock[s] = l => Untouched(s)
    BY DEF SameLock
  <2>2. \A b \in Requests : Ahead(b, r)' <=> Ahead(b, r)
    BY <2>1 DEF Ahead, SameLock, Untouched
  <2>3. FirstPending(l, r)
    BY <2>1, <2>2 DEF FirstPending, RequestsOf, SameLock, Untouched
  <2>4. CountsWithout(r)' = CountsWithout(r)
    BY <2>1 DEF CountsWithout, SameLock, Untouched
  <2>5. Grantable(r)' <=> Grantable(r)
    <3>1. lock_state(CountsWithout(r))' = lock_state(CountsWithout(r))
      BY <2>4 DEF lock_state
    <3> QED
      BY <2>1, <3>1 DEF Grantable, SameLock, Untouched
  <2>6. \A s \in Requests : lrq_lock[s] = l => (Dirty(s)' <=> Dirty(s))
    BY <2>1 DEF Dirty, Untouched
  <2> QED
    BY <1>2, <2>1, <2>3, <2>5, <2>6 DEF Settled, RequestsOf, SameLock
<1> QED
  BY <1>1, <1>2

-----------------------------------------------------------------------------
(* Steps that leave the locks alone.                                       *)

(* No lock changes, and no request that has one. *)
SameTable ==
    /\ UNCHANGED <<lblVars, lrq_lock, lrq_requested, lrq_state>>
    /\ \A s \in Requests : lrq_lock[s] # NoLock => Untouched(s)

(* A step that leaves the locks and the levels alone preserves OrderInv. *)
LEMMA QuietStep ==
    ASSUME IInv, OrderInv, SameTable,
           \A s \in Requests : lrq_lock[s] # NoLock => StillServed(s),
           \A s \in Requests : Serving(s)' => Serving(s),
           SectionOK', WalkInv',
           sec.at = "post" => sec'.at = "post" /\ sec'.lock = sec.lock
    PROVE  OrderInv'
<1>1. /\ \A r \in Requests : RequestOK(r)
      /\ SettledInv
  BY OrderParts
<1>2. ASSUME NEW s \in Requests
      PROVE  RequestOK(s)'
  <2>1. CASE lrq_lock[s] = NoLock
    BY <2>1 DEF RequestOK, SameTable
  <2>2. CASE lrq_lock[s] # NoLock
    BY <1>1, <2>2, RequestKept DEF SameTable
  <2> QED
    BY <2>1, <2>2
<1>3. ASSUME NEW l \in Locks
      PROVE  SameLock(l)
  <2>1. l # NoLock
    BY ConstantsAssumption
  <2> QED
    BY <2>1 DEF SameLock, SameTable, lblVars
<1>4. SettledInv'
  <2> SUFFICES ASSUME LOCK_ordering, NEW l \in Locks
               PROVE  Settled(l)'
    BY DEF SettledInv
  <2> QED
    BY <1>1, <1>3, SettledKept DEF SettledInv
<1> QED
  BY <1>2, <1>4, OrderPartsPrime

(* Stages at which no request is being served. *)
Plain == {"free", "block", "purge", "create", "probe", "probed",
          "scan", "release", "unlock", "ast"}

(* Who waits for the request, or will purge it, goes on doing so. *)
Responsible(s) ==
    /\ Abandoned(s) => Abandoned(s)'
    /\ WaitedFor(s) /\ (Pending(s) \/ "rejected" \in lrq_flags[s]) =>
          \/ Abandoned(s)'
          \/ WaitedFor(s)' /\ op'[lrq_owner[s]].kind = op[lrq_owner[s]].kind

(* ... in particular one between stages that serve no request, *)
LEMMA PlainStep ==
    ASSUME IInv, OrderInv, SameTable,
           \A s \in Requests : lrq_lock[s] # NoLock => Responsible(s),
           sec.at \in Plain \cup {"enq"}, sec'.at \in Plain
    PROVE  OrderInv'
<1>1. \A s \in Requests : ~ Serving(s) /\ ~ Serving(s)'
  BY DEF Serving, Plain
<1>2. \A s \in Requests : lrq_lock[s] # NoLock => StillServed(s)
  BY <1>1 DEF Responsible, StillServed
<1>3. SectionOK' /\ WalkInv' /\ sec.at # "post"
  BY DEF SectionOK, WalkInv, Plain
<1> QED
  BY <1>1, <1>2, <1>3, QuietStep

(* ... and one taken while the section stands still. *)
LEMMA SameSection ==
    ASSUME IInv, OrderInv, SameTable,
           \A s \in Requests : lrq_lock[s] # NoLock => Responsible(s),
           sec' = sec, lhb_active_owner' = lhb_active_owner,
           lhb_active_owner # NoOwner => op'[lhb_active_owner] = op[lhb_active_owner]
    PROVE  OrderInv'
<1>1. \A s \in Requests : Serving(s)' <=> Serving(s)
  BY DEF Serving
<1>2. \A s \in Requests : lrq_lock[s] # NoLock => StillServed(s)
  BY <1>1 DEF Responsible, StillServed
<1>3. SectionOK'
  <2>1. lhb_active_owner = NoOwner => sec.at = "free"
    BY DEF IInv, SecInv
  <2>2. lrq_state' = lrq_state
    BY DEF SameTable
  <2>3. SectionOK
    BY OrderParts
  <2> QED
    BY <2>1, <2>2, <2>3 DEF SectionOK
<1>4. WalkInv'
  <2> SUFFICES ASSUME LOCK_ordering, sec.at = "post",
                      NEW i \in 1 .. Len(lbl_requests[sec.lock]), i < sec.pos
               PROVE  ~ Pending(lbl_requests[sec.lock][i])'
    BY DEF WalkInv, SameTable, lblVars
  <2>1. sec.lock \in Locks /\ sec.lock # NoLock
    BY ConstantsAssumption DEF IInv, SecInv
  <2> PICK r \in Requests : r = lbl_requests[sec.lock][i] /\ lrq_lock[r] = sec.lock
    <3>1. lbl_requests[sec.lock][i] \in Members(lbl_requests[sec.lock])
      BY DEF Members
    <3> QED
      BY <2>1, <3>1 DEF IInv, TableInv, QueueInv, RequestsOf
  <2>3. ~ Pending(r)
    BY OrderParts DEF WalkInv
  <2>4. Pending(r)' <=> Pending(r)
    BY <2>1 DEF SameTable, Untouched
  <2>5. lbl_requests'[sec'.lock][i] = r
    BY DEF SameTable, lblVars
  <2>6. ~ ("pending" \in lrq_flags'[r])
    BY <2>3, <2>4 DEF Pending
  <2> QED
    BY <2>5, <2>6 DEF Pending
<1> QED
  BY <1>1, <1>2, <1>3, <1>4, QuietStep

(* Leaving the blocks alone is more than enough. *)
LEMMA TableSame ==
    ASSUME UNCHANGED <<lblVars, lrqVars>>
    PROVE  SameTable
BY DEF SameTable, Untouched, Pending, lrqVars

(* A request whose owner neither dies nor moves. *)
LEMMA Bystander ==
    ASSUME NEW s \in Requests, lrq_owner'[s] = lrq_owner[s],
           lrq_owner[s] \in alive' => lrq_owner[s] \in alive,
           Purging(lrq_owner[s]) => Purging(lrq_owner[s])',
           pc[lrq_owner[s]] # "out" => pc'[lrq_owner[s]] # "out",
           pc[lrq_owner[s]] # "out" => op'[lrq_owner[s]] = op[lrq_owner[s]]
    PROVE  Responsible(s)
BY DEF Responsible, Abandoned, WaitedFor, Purging

(* The waiting loop, ASTs and deaths, while a section may run. *)
LEMMA Outside_Order ==
    ASSUME IInv, OrderInv, NEW o \in Owners,
           WaitOver(o) \/ WaitWoken(o) \/ SignalIgnored(o) \/ WaitForTable(o)
    PROVE  OrderInv'
<1>1. UNCHANGED <<lblVars, lrqVars, lhb_active_owner, sec, alive, op>>
  BY DEF WaitOver, WaitWoken, SignalIgnored, WaitForTable, secVars, procVars
<1>2. \A u \in Owners : pc[u] # "out" => pc'[u] # "out"
  BY DEF WaitOver, WaitWoken, SignalIgnored, WaitForTable, procVars, IInv, TableInv,
     TypeOK
<1>3. SameTable
  BY <1>1, TableSame
<1>4. ASSUME NEW s \in Requests, lrq_lock[s] # NoLock
      PROVE  Responsible(s)
  <2>1. lrq_owner[s] \in Owners
    BY <1>4 DEF IInv, TableInv, TypeOK, RequestInv
  <2> QED
    BY <1>1, <1>2, <2>1, Bystander DEF lrqVars, secVars, Purging
<1> QED
  BY <1>1, <1>3, <1>4, SameSection DEF secVars

(* A granted request is not waited for any more, a rejected one still is. *)
LEMMA WaitReturns_Order ==
    ASSUME IInv, OrderInv, NEW o \in Owners, WaitReturns(o)
    PROVE  OrderInv'
<1>1. UNCHANGED <<lblVars, lrqVars, secVars, alive>> /\ lhb_active_owner # o
      /\ pc[o] = "resolved"
  BY DEF WaitReturns, Main
<1>2. \A u \in Owners \ {o} : pc'[u] = pc[u] /\ op'[u] = op[u]
  BY DEF WaitReturns, IInv, TableInv, TypeOK
<1>3. \/ pc'[o] # "out" /\ op'[o] = op[o]
      \/ "rejected" \notin lrq_flags[op[o].req]
  BY DEF WaitReturns, Rejected, IInv, TableInv, TypeOK
<1>4. ~ Pending(op[o].req)
  BY <1>1 DEF IInv, WaitInv
<1>5. ASSUME NEW s \in Requests, lrq_lock[s] # NoLock
      PROVE  Responsible(s)
  <2>1. lrq_owner[s] \in Owners
    BY <1>5 DEF IInv, TableInv, TypeOK, RequestInv
  <2>2. CASE lrq_owner[s] # o
    BY <1>1, <1>2, <2>1, <2>2, Bystander DEF lrqVars, secVars, Purging
  <2>3. CASE lrq_owner[s] = o
    BY <1>1, <1>3, <1>4, <2>3 DEF Responsible, Abandoned, WaitedFor, Purging, lrqVars, secVars
  <2> QED
    BY <2>2, <2>3
<1>6. SameTable
  BY <1>1, TableSame
<1>7. lhb_active_owner # NoOwner => op'[lhb_active_owner] = op[lhb_active_owner]
  BY <1>1, <1>2 DEF IInv, TableInv, TypeOK
<1> QED
  BY <1>1, <1>5, <1>6, <1>7, SameSection DEF secVars

(* The requests of a process that dies are abandoned. *)
LEMMA Crash_Order ==
    ASSUME IInv, OrderInv, NEW o \in Owners, Crash(o)
    PROVE  OrderInv'
<1>1. UNCHANGED <<lblVars, lrqVars, secVars>> /\ lhb_active_owner # o
      /\ alive' = alive \ {o}
  BY DEF Crash
<1>2. \A u \in Owners \ {o} : pc'[u] = pc[u] /\ op'[u] = op[u]
  BY DEF Crash, IInv, TableInv, TypeOK
<1>3. ASSUME NEW s \in Requests, lrq_lock[s] # NoLock
      PROVE  Responsible(s)
  <2>1. lrq_owner[s] \in Owners
    BY <1>3 DEF IInv, TableInv, TypeOK, RequestInv
  <2>2. CASE lrq_owner[s] # o
    BY <1>1, <1>2, <2>1, <2>2, Bystander DEF lrqVars, secVars, Purging
  <2>3. CASE lrq_owner[s] = o
    BY <1>1, <2>3 DEF Responsible, Abandoned, lrqVars
  <2> QED
    BY <2>2, <2>3
<1>6. SameTable
  BY <1>1, TableSame
<1>7. lhb_active_owner # NoOwner => op'[lhb_active_owner] = op[lhb_active_owner]
  BY <1>1, <1>2 DEF IInv, TableInv, TypeOK
<1> QED
  BY <1>1, <1>3, <1>6, <1>7, SameSection DEF secVars

(* A section that does nothing to the table. *)
LEMMA CalmSection ==
    ASSUME IInv, OrderInv, UNCHANGED <<lblVars, lrqVars, alive>>,
           \A u \in Owners : pc[u] # "out" => pc'[u] # "out" /\ op'[u] = op[u],
           sec.at \in (Plain \cup {"enq"}) \ {"purge"}, sec'.at \in Plain
    PROVE  OrderInv'
<1>1. SameTable
  BY TableSame
<1>2. ASSUME NEW s \in Requests, lrq_lock[s] # NoLock
      PROVE  Responsible(s)
  <2>1. lrq_owner[s] \in Owners
    BY <1>2 DEF IInv, TableInv, TypeOK, RequestInv
  <2>2. ~ Purging(lrq_owner[s])
    BY DEF Purging, Plain
  <2> QED
    BY <2>1, <2>2, Bystander DEF lrqVars
<1> QED
  BY <1>1, <1>2, PlainStep

(* Nobody in the table: no section. *)
LEMMA FreeTable ==
    ASSUME IInv, lhb_active_owner = NoOwner
    PROVE  sec.at = "free"
BY DEF IInv, SecInv

(* The stages between the work. *)
LEMMA Calm_Order ==
    ASSUME IInv, OrderInv, NEW o \in Owners,
           \/ ReleaseTable(o) \/ ReleaseMutex(o) \/ EnqOutOfRoom(o)
           \/ PostBlockDone(o) \/ ProbeDone(o)
           \/ \E v \in Owners : ProbeOwner(o, v)
           \/ AstDone(o) \/ ScanClear(o) \/ CreateOwner(o) \/ Probed(o)
    PROVE  OrderInv'
<1>1. sec \in Secs /\ pc \in [Owners -> Pcs] /\ op \in [Owners -> Ops]
  BY DEF IInv, TableInv, TypeOK
<1>2. UNCHANGED <<lblVars, lrqVars, alive>>
  BY DEF ReleaseTable, ReleaseMutex, EnqOutOfRoom, PostBlockDone,
         ProbeDone, ProbeOwner, AstDone, ScanClear, CreateOwner, Probed, procVars
<1>3. sec.at \in (Plain \cup {"enq"}) \ {"purge"}
  BY DEF ReleaseTable, ReleaseMutex, EnqOutOfRoom, PostBlockDone,
         ProbeDone, ProbeOwner, AstDone, ScanClear, CreateOwner, Probed, Plain
<1>4. sec'.at \in Plain
  <2>1. CASE ReleaseTable(o) \/ ReleaseMutex(o) \/ EnqOutOfRoom(o)
             \/ PostBlockDone(o) \/ AstDone(o)
    BY <1>1, <2>1 DEF ReleaseTable, ReleaseMutex, EnqOutOfRoom,
         PostBlockDone, AstDone, Plain, At, Release, NoSec, Secs
  <2>2. CASE ProbeDone(o) \/ \E v \in Owners : ProbeOwner(o, v)
    BY <1>1, <2>2 DEF ProbeDone, ProbeOwner, Plain, At, Purge, Secs
  <2>3. CASE ScanClear(o)
    BY <1>1, <2>3 DEF ScanClear, Remind, Plain, Secs
  <2>4. CASE CreateOwner(o)
    BY <2>4 DEF CreateOwner, NoSec, Plain
  <2>5. CASE Probed(o)
    BY <1>1, <2>5 DEF Probed, Plain, At, Release, NoSec, Secs
  <2> QED
    BY <2>1, <2>2, <2>3, <2>4, <2>5
<1>5. \A u \in Owners : pc[u] # "out" => pc'[u] # "out" /\ op'[u] = op[u]
  <2>1. CASE EnqOutOfRoom(o)
    BY <1>1, <2>1 DEF EnqOutOfRoom, IInv, SecInv
  <2>2. CASE Probed(o)
    BY <1>1, <2>2 DEF Probed
  <2>3. CASE ~ EnqOutOfRoom(o) /\ ~ Probed(o)
    BY <2>3 DEF ReleaseTable, ReleaseMutex, PostBlockDone,
         ProbeDone, ProbeOwner, AstDone, ScanClear, CreateOwner, procVars
  <2> QED
    BY <2>1, <2>2, <2>3
<1> QED
  BY <1>2, <1>3, <1>4, <1>5, CalmSection

(* Entering the table, or leaving the lock manager. *)
LEMMA Enters_Order ==
    ASSUME IInv, OrderInv, NEW o \in Owners,
           \/ WokenResolved(o) \/ WokenPending(o) \/ SignalHandled(o)
           \/ AstReturns(o) \/ LOCK_fini(o)
    PROVE  OrderInv'
<1>1. sec \in Secs /\ pc \in [Owners -> Pcs] /\ op \in [Owners -> Ops]
  BY DEF IInv, TableInv, TypeOK
<1>2. UNCHANGED <<lblVars, lrqVars, alive, op>>
  BY DEF WokenResolved, WokenPending, SignalHandled, AstReturns, LOCK_fini
<1>3. sec.at = "free"
  BY FreeTable DEF WokenResolved, WokenPending, SignalHandled, AstReturns, LOCK_fini, Woken, acquire
<1>4. sec'.at \in Plain
  <2>1. CASE WokenPending(o)
    <3>1. Remind(op[o].req).at = "block"
      BY <1>1 DEF Remind, Secs
    <3>2. [NoSec EXCEPT !.at = "probe", !.probed = "probed", !.req = op[o].req].at = "probe"
      BY DEF NoSec
    <3> QED
      BY <2>1, <3>1, <3>2 DEF WokenPending, Plain
  <2>2. CASE WokenResolved(o)
    BY <2>2 DEF WokenResolved, Release, NoSec, Plain
  <2>3. CASE SignalHandled(o) \/ AstReturns(o) \/ LOCK_fini(o)
    BY <1>1, <2>3 DEF SignalHandled, AstReturns, LOCK_fini, At, Purge, Plain, Secs
  <2> QED
    BY <2>1, <2>2, <2>3
<1>5. \A u \in Owners : pc[u] # "out" => pc'[u] # "out" /\ op'[u] = op[u]
  BY <1>1, <1>2 DEF WokenResolved, WokenPending, SignalHandled, AstReturns, LOCK_fini
<1> QED
  BY <1>2, <1>3, <1>4, <1>5, CalmSection DEF Plain

(* A process that comes back finds none of its requests, or purges them. *)
LEMMA LOCK_init_Order ==
    ASSUME IInv, OrderInv, NEW o \in Owners, LOCK_init(o)
    PROVE  OrderInv'
<1>1. sec \in Secs /\ UNCHANGED <<lblVars, lrqVars, op, pc>>
      /\ alive' = alive \cup {o} /\ sec.at = "free"
  BY FreeTable DEF LOCK_init, acquire, IInv, TableInv, TypeOK
<1>2. SameTable
  BY <1>1, TableSame
<1>3. sec'.at \in Plain
  BY <1>1 DEF LOCK_init, Purge, At, Plain, Secs
<1>4. ASSUME NEW s \in Requests, lrq_lock[s] # NoLock
      PROVE  Responsible(s)
  <2>1. lrq_owner[s] \in Owners /\ lrq_owner[s] \in lhb_owners
    BY <1>4 DEF IInv, TableInv, TypeOK, RequestInv
  <2>2. ~ Purging(lrq_owner[s])
    BY <1>1 DEF Purging
  <2>3. CASE lrq_owner[s] # o
    BY <1>1, <2>1, <2>2, <2>3, Bystander DEF lrqVars
  <2>4. CASE lrq_owner[s] = o
    <3>1. Purging(o)'
      BY <1>1, <2>1, <2>4 DEF Purging, LOCK_init, Purge, Secs
    <3> QED
      BY <1>1, <2>4, <3>1 DEF Responsible, Abandoned, lrqVars, Purging
  <2> QED
    BY <2>3, <2>4
<1> QED
  BY <1>1, <1>2, <1>3, <1>4, PlainStep DEF Plain

(* The blocking ASTs, and the end of a purge. *)
LEMMA CalmTable ==
    ASSUME IInv, OrderInv, SameTable, UNCHANGED <<alive, pc, op>>,
           \A s \in Requests : lrq_lock[s] # NoLock => ~ Purging(lrq_owner[s]),
           sec.at \in Plain, sec'.at \in Plain
    PROVE  OrderInv'
<1>1. ASSUME NEW s \in Requests, lrq_lock[s] # NoLock
      PROVE  Responsible(s)
  BY <1>1, Bystander DEF SameTable, Untouched
<1> QED
  BY <1>1, PlainStep

(* An owner's queue of blocks holds its own requests, or its reposts. *)
LEMMA BlocksOwned ==
    ASSUME IInv, NEW o \in Owners, NEW r \in Members(own_blocks[o])
    PROVE  /\ r \in Requests /\ lrq_owner[r] = o
           /\ "blocking" \notin lrq_flags[r] => lrq_lock[r] = NoLock
<1>1. own_blocks[o] \in Seq(Requests)
  BY DEF IInv, TableInv, TypeOK
<1>2. r \in Requests
  BY <1>1, MembersFacts
<1> QED
  BY <1>2 DEF IInv, TableInv, QueueInv, RequestInv

(* blocking_action2() takes a block off the queue. *)
LEMMA AstNext_Table ==
    ASSUME IInv, NEW o \in Owners, AstNext(o)
    PROVE  SameTable
<1> PICK r : r = Head(own_blocks[o])
  OBVIOUS
<1>1. r \in Members(own_blocks[o])
  <2>1. own_blocks[o] \in Seq(Requests) /\ own_blocks[o] # <<>> /\ Injective(own_blocks[o])
    BY DEF AstNext, IInv, TableInv, TypeOK, QueueInv
  <2> QED
    BY <2>1, TailFacts
<1>2. r \in Requests /\ ("blocking" \notin lrq_flags[r] => lrq_lock[r] = NoLock)
  BY <1>1, BlocksOwned
<1>3. UNCHANGED <<lblVars, lrq_lock, lrq_requested, lrq_state>>
  BY DEF AstNext
<1>4. ASSUME NEW s \in Requests, lrq_lock[s] # NoLock
      PROVE  Untouched(s)
  <2>1. CASE s = r
    BY <1>2, <1>3, <1>4, <2>1 DEF AstNext, Untouched, Pending, IInv, TableInv, TypeOK
  <2>2. CASE s # r
    BY <1>3, <2>2 DEF AstNext, Untouched, Pending, IInv, TableInv, TypeOK
  <2> QED
    BY <2>1, <2>2
<1> QED
  BY <1>3, <1>4 DEF SameTable

(* It leaves the order of grants alone. *)
LEMMA AstNext_Order ==
    ASSUME IInv, OrderInv, NEW o \in Owners, AstNext(o)
    PROVE  OrderInv'
<1>1. sec.at = "ast" /\ sec'.at \in {"ast", "free"} /\ UNCHANGED <<alive, pc, op>>
  BY DEF AstNext, NoSec, secVars
<1> QED
  BY <1>1, AstNext_Table, CalmTable DEF Plain, Purging

(* post_blockage() marks a request as blocking. *)
LEMMA PostBlock_Table ==
    ASSUME IInv, NEW o \in Owners, PostBlock(o)
    PROVE  SameTable
<1>1. UNCHANGED <<lblVars, lrq_owner, lrq_lock, lrq_requested, lrq_state>>
  BY DEF PostBlock
<1>2. \A s \in Requests : /\ "pending" \in lrq_flags'[s] <=> "pending" \in lrq_flags[s]
                          /\ "rejected" \in lrq_flags'[s] <=> "rejected" \in lrq_flags[s]
  <2> PICK b : b = sec.next
    OBVIOUS
  <2>1. \/ UNCHANGED lrq_flags
        \/ lrq_flags' = [lrq_flags EXCEPT ![b] = @ \cup {"blocking"}]
    BY DEF PostBlock
  <2>2. lrq_flags \in [Requests -> SUBSET LrqFlags]
    BY DEF IInv, TableInv, TypeOK
  <2> QED
    BY <2>1, <2>2
<1> QED
  BY <1>1, <1>2 DEF SameTable, Untouched, Pending

(* It leaves the order of grants alone. *)
LEMMA PostBlock_Order ==
    ASSUME IInv, OrderInv, NEW o \in Owners, PostBlock(o)
    PROVE  OrderInv'
<1>1. sec.at = "block" /\ sec \in Secs /\ UNCHANGED <<alive, pc, op>>
  BY DEF PostBlock, IInv, TableInv, TypeOK
<1>2. sec'.at \in {"block", "purge"}
  BY <1>1 DEF PostBlock, Secs
<1> QED
  BY <1>1, <1>2, PostBlock_Table, CalmTable DEF Plain, Purging

(* A repost has no lock. *)
LEMMA LOCK_re_post_Table ==
    ASSUME IInv, NEW o \in Owners, LOCK_re_post(o)
    PROVE  SameTable
<1>1. UNCHANGED <<lblVars, lrq_lock, lrq_requested, lrq_state>>
  BY DEF LOCK_re_post, lrqVars
<1>2. ASSUME NEW s \in Requests, lrq_lock[s] # NoLock
      PROVE  Untouched(s)
  <2>1. s \notin FreeRequests
    BY <1>2 DEF FreeRequests, IInv, TableInv, RequestInv
  <2> QED
    BY <1>1, <2>1 DEF LOCK_re_post, lrqVars, Untouched, Pending, IInv, TableInv, TypeOK, FreeRequests
<1> QED
  BY <1>1, <1>2 DEF SameTable

(* It leaves the order of grants alone. *)
LEMMA LOCK_re_post_Order ==
    ASSUME IInv, OrderInv, NEW o \in Owners, LOCK_re_post(o)
    PROVE  OrderInv'
<1>1. UNCHANGED <<alive, pc, op>> /\ sec.at = "free" /\ sec \in Secs
  BY FreeTable DEF LOCK_re_post, acquire, procVars, IInv, TableInv, TypeOK
<1>2. sec'.at \in {"release", "ast"}
  BY <1>1 DEF LOCK_re_post, At, Release, NoSec, Secs
<1> QED
  BY <1>1, <1>2, LOCK_re_post_Table, CalmTable DEF Plain, Purging

(* The end of purge_owner(): only reposts are left. *)
LEMMA PurgeOwner_Table ==
    ASSUME IInv, NEW o \in Owners, PurgeOwner(o)
    PROVE  SameTable /\ \A s \in Requests : lrq_lock[s] # NoLock => lrq_owner[s] # sec.victim
<1> PICK v : v = sec.victim
  OBVIOUS
<1>1. v \in Owners
  BY DEF PurgeOwner, IInv, SecInv
<1>2. ASSUME NEW s \in Requests, lrq_lock[s] # NoLock
      PROVE  lrq_owner[s] # v /\ s \notin Members(own_blocks[v])
  <2>1. lrq_owner[s] # v
    BY <1>2 DEF PurgeOwner, own_requests
  <2> QED
    BY <1>1, <2>1, BlocksOwned
<1> QED
  BY <1>2 DEF PurgeOwner, SameTable, Untouched, Pending

(* It leaves the order of grants alone. *)
LEMMA PurgeOwner_Order ==
    ASSUME IInv, OrderInv, NEW o \in Owners, PurgeOwner(o)
    PROVE  OrderInv'
<1>1. sec.at = "purge" /\ sec \in Secs
  BY DEF PurgeOwner, IInv, TableInv, TypeOK
<1>2. sec'.at \in Plain /\ UNCHANGED <<alive, pc, op>>
  BY <1>1 DEF PurgeOwner, At, Plain, Secs, procVars
<1> QED
  BY <1>1, <1>2, PurgeOwner_Table, CalmTable DEF Plain, Purging

-----------------------------------------------------------------------------
(* post_pending.                                                           *)

(* The request the walk comes to next is the first waiter of the lock. *)
LEMMA FirstWaiter ==
    ASSUME IInv, OrderInv, LOCK_ordering, sec.at = "post",
           NEW q, q = lbl_requests[sec.lock]
    PROVE  /\ sec.lock \in Locks /\ q \in Seq(Requests)
           /\ PendingAhead = {} => \A j \in 1 .. Len(q) : ~ Pending(q[j])
           /\ PendingAhead # {} =>
                 /\ NextPending \in 1 .. Len(q) /\ Pending(q[NextPending])
                 /\ \A j \in 1 .. Len(q) : Pending(q[j]) => NextPending <= j
<1>1. sec.lock \in Locks /\ sec \in Secs
  BY DEF IInv, SecInv, TableInv, TypeOK
<1>2. q \in Seq(Requests)
  BY <1>1 DEF IInv, TableInv, TypeOK
<1>3. sec.pos \in Nat \ {0} /\ Len(q) \in Nat
  BY <1>1, <1>2 DEF Secs
<1>4. \A j \in 1 .. Len(q) : Pending(q[j]) => j \in PendingAhead
  BY <1>3, OrderParts DEF WalkInv, PendingAhead
<1>5. PendingAhead \in SUBSET Nat /\ PendingAhead \subseteq 1 .. Len(q)
      /\ \A j \in PendingAhead : Pending(q[j])
  BY <1>3 DEF PendingAhead
<1>6. ASSUME PendingAhead # {}
      PROVE  NextPending \in PendingAhead /\ \A j \in PendingAhead : NextPending <= j
  BY <1>5, <1>6, MinExists DEF NextPending
<1> QED
  BY <1>1, <1>2, <1>4, <1>5, <1>6

(* A request of a lock is somewhere in its queue. *)
LEMMA QueueMember ==
    ASSUME IInv, NEW l \in Locks, NEW r \in Requests
    PROVE  lrq_lock[r] = l <=> \E i \in 1 .. Len(lbl_requests[l]) : lbl_requests[l][i] = r
BY DEF IInv, TableInv, QueueInv, RequestsOf, Members

(* The count of pending requests is zero: nobody waits. *)
LEMMA NobodyWaits ==
    ASSUME IInv, NEW l \in Locks, lbl_pending_lrq_count[l] = 0,
           NEW r \in Requests, lrq_lock[r] = l
    PROVE  ~ Pending(r)
<1>1. Cardinality(WaitingAt(l)) = 0
  BY CountsExactSets DEF IInv, TableInv
<1>2. IsFiniteSet(WaitingAt(l))
  BY HeldFinite, FiniteRequests
<1> QED
  BY <1>1, <1>2, FS_EmptySet DEF WaitingAt, RequestsOf

(* The walk goes on, or ends, without a grant. *)
LEMMA WalkServes ==
    ASSUME IInv, OrderInv, SameTable, UNCHANGED <<alive, pc, op, lrq_owner,
                                                  lhb_active_owner, own_hung>>,
           sec.at = "post", sec' = At(sec.posted) \/ sec' = [sec EXCEPT !.pos = sec'.pos]
    PROVE  /\ \A s \in Requests : RequestOK(s)'
           /\ SectionOK'
           /\ \A s \in Requests : Serving(s)' => Serving(s)
<1>1. sec \in Secs
  BY DEF IInv, TableInv, TypeOK
<1>2. /\ sec'.at \in {sec.posted, "post"} /\ sec'.posted = sec.posted
      /\ sec'.req = sec.req /\ sec'.victim = sec.victim
      /\ sec.posted \in {"release", "enq", "reset", "purge"}
  BY <1>1 DEF At, Secs
<1>3. \A s \in Requests : Serving(s)' <=> Serving(s)
  BY <1>2 DEF Serving
<1>4. \A u \in Owners : Purging(u) => Purging(u)'
  BY <1>2 DEF Purging
<1>5. ASSUME NEW s \in Requests
      PROVE  RequestOK(s)'
  <2>1. CASE lrq_lock[s] = NoLock
    BY <2>1 DEF RequestOK, SameTable
  <2>2. CASE lrq_lock[s] # NoLock
    <3>1. lrq_owner[s] \in Owners
      BY <2>2 DEF IInv, TableInv, TypeOK, RequestInv
    <3>2. Responsible(s)
      BY <1>4, <3>1, Bystander
    <3>3. StillServed(s)
      BY <1>3, <3>2 DEF StillServed, Responsible
    <3> QED
      BY <2>2, <3>3, OrderParts, RequestKept DEF SameTable
  <2> QED
    BY <2>1, <2>2
<1>6. SectionOK'
  BY <1>2, OrderParts DEF SectionOK
<1> QED
  BY <1>3, <1>5, <1>6

(* post_pending() refuses the first waiter, or finds none: the lock is     *)
(* settled.                                                                *)
LEMMA WalkEnds ==
    ASSUME IInv, OrderInv, NEW o \in Owners, PostRefused(o) \/ PostDone(o)
    PROVE  OrderInv'
<1>1. UNCHANGED <<lblVars, lrqVars, alive, pc, op, lrq_owner, lhb_active_owner,
                  own_hung>>
      /\ sec.at = "post" /\ sec \in Secs
  BY DEF PostRefused, PostDone, IInv, TableInv, TypeOK, procVars, lrqVars
<1>2. SameTable
  BY <1>1, TableSame
<1>3. \/ sec' = At(sec.posted)
      \/ ~ LOCK_ordering /\ sec' = [sec EXCEPT !.pos = sec'.pos]
  BY <1>1 DEF PostRefused, PostDone, Secs
<1>4. /\ \A s \in Requests : RequestOK(s)'
      /\ SectionOK'
      /\ \A s \in Requests : Serving(s)' => Serving(s)
  BY <1>1, <1>2, <1>3, WalkServes
<1>5. LOCK_ordering => sec'.at # "post"
  BY <1>1, <1>3 DEF At, Secs
<1>6. WalkInv'
  BY <1>5 DEF WalkInv
<1>7. SettledInv'
  <2> SUFFICES ASSUME LOCK_ordering, NEW l \in Locks
               PROVE  Settled(l)'
    BY DEF SettledInv
  <2>1. CASE l # sec.lock
    <3>1. SameLock(l) /\ l # NoLock
      BY <1>2, ConstantsAssumption DEF SameLock, SameTable, lblVars
    <3> QED
      BY <1>4, <2>1, <3>1, OrderParts, SettledKept DEF SettledInv
  <2>2. CASE l = sec.lock
    <3> SUFFICES ASSUME NEW r \in Requests, lrq_lock[r] = l, FirstPending(l, r)'
                 PROVE  ~ Grantable(r)'
      BY <1>1 DEF Settled, RequestsOf, lrqVars
    <3> PICK q : q = lbl_requests[l]
      OBVIOUS
    <3>1. Pending(r) /\ \A b \in Requests : lrq_lock[b] = l /\ Ahead(b, r) => ~ Pending(b)
      BY <1>1 DEF FirstPending, RequestsOf, Ahead, Pending, lblVars, lrqVars
    <3> PICK j \in 1 .. Len(q) : q[j] = r
      BY QueueMember
    <3>2. PendingAhead # {}
      BY <1>1, <2>2, <3>1, FirstWaiter
    <3>3. lbl_pending_lrq_count[l] # 0
      BY <3>1, NobodyWaits
    <3> PICK i : i = NextPending
      OBVIOUS
    <3>4. i \in 1 .. Len(q) /\ Pending(q[i]) /\ i <= j
      BY <1>1, <2>2, <3>1, <3>2, FirstWaiter
    <3>5. q[i] = r
      <4>1. lrq_lock[q[i]] = l /\ q[i] \in Requests
        BY <3>4 DEF IInv, TableInv, QueueInv, Members, RequestsOf
      <4>2. i # j => Ahead(q[i], r)
        BY <3>4 DEF Ahead
      <4> QED
        BY <3>1, <3>4, <4>1, <4>2
    <3>6. ~ Grantable(r)
      BY <2>2, <3>2, <3>3, <3>5 DEF PostRefused, PostDone
    <3> QED
      BY <1>1, <3>6 DEF Grantable, CountsWithout, lock_state, lblVars, lrqVars
  <2> QED
    BY <2>1, <2>2
<1> QED
  BY <1>4, <1>6, <1>7, OrderPartsPrime

-----------------------------------------------------------------------------
(* Steps that work on one request.                                         *)

(* The other requests and locks are as before; the request and its lock    *)
(* fit.                                                                    *)
LEMMA WorksOn ==
    ASSUME IInv, OrderInv, NEW r \in Requests, NEW k \in Locks \cup {NoLock},
           \A s \in Requests : s # r => Untouched(s),
           \A s \in Requests : s # r /\ lrq_lock[s] # NoLock => StillServed(s),
           \A s \in Requests : s # r => (Serving(s)' => Serving(s)),
           RequestOK(r)', SectionOK', WalkInv',
           lrq_lock[r] \in {k, NoLock}, lrq_lock'[r] \in {k, NoLock},
           \A l \in Locks \ {k} : /\ lbl_requests'[l] = lbl_requests[l]
                                  /\ lbl_state'[l] = lbl_state[l]
                                  /\ lbl_counts'[l] = lbl_counts[l],
           sec.at = "post" => sec.lock = k,
           k \in Locks /\ LOCK_ordering => Settled(k)'
    PROVE  OrderInv'
<1>1. /\ \A s \in Requests : RequestOK(s)
      /\ SettledInv
  BY OrderParts
<1>2. ASSUME NEW s \in Requests
      PROVE  RequestOK(s)'
  <2>1. CASE s = r
    BY <2>1
  <2>2. CASE s # r /\ lrq_lock[s] = NoLock
    BY <2>2 DEF RequestOK, Untouched
  <2>3. CASE s # r /\ lrq_lock[s] # NoLock
    BY <1>1, <2>3, RequestKept
  <2> QED
    BY <2>1, <2>2, <2>3
<1>3. SettledInv'
  <2> SUFFICES ASSUME LOCK_ordering, NEW l \in Locks
               PROVE  Settled(l)'
    BY DEF SettledInv
  <2>1. CASE l = k
    BY <2>1
  <2>2. CASE l # k
    <3>1. l # NoLock
      BY ConstantsAssumption
    <3>2. \A s \in Requests : lrq_lock[s] = l => s # r
      BY <2>2, <3>1
    <3>3. SameLock(l)
      BY <2>2, <3>1, <3>2 DEF SameLock, Untouched
    <3>4. Settled(l)
      BY <1>1 DEF SettledInv
    <3> QED
      BY <2>2, <3>2, <3>3, <3>4, SettledKept
  <2> QED
    BY <2>1, <2>2
<1> QED
  BY <1>2, <1>3, OrderPartsPrime

(* A lock stays settled when one of its requests, which did not wait,      *)
(* changes, comes or moves to the tail.                                    *)
LEMMA SettledBut ==
    ASSUME NEW k \in Locks, Settled(k), sec.at # "post", NEW r \in Requests,
           \A s \in Requests : s # r => Untouched(s),
           lbl_state'[k] = lbl_state[k], lbl_counts'[k] = lbl_counts[k],
           \A a, b \in Requests : a # r /\ b # r /\ lrq_lock[b] = k /\ Ahead(a, b) => Ahead(a, b)',
           lrq_lock[r] = k => ~ Pending(r),
           FirstPending(k, r)' => ~ Grantable(r)',
           \A s \in Requests : lrq_lock[s] = k /\ Dirty(s) /\ ~ Serving(s) =>
               lrq_lock'[s] = k /\ Dirty(s)' /\ ~ Serving(s)'
    PROVE  Settled(k)'
<1> SUFFICES ASSUME NEW x \in Requests, lrq_lock'[x] = k, FirstPending(k, x)'
             PROVE  \/ ~ Grantable(x)'
                    \/ \E s \in Requests : lrq_lock'[s] = k /\ Dirty(s)' /\ ~ Serving(s)'
  BY DEF Settled, RequestsOf
<1>1. CASE x = r
  BY <1>1
<1>2. CASE x # r
  <2>1. Untouched(x) /\ lrq_lock[x] = k
    BY <1>2 DEF Untouched
  <2>2. FirstPending(k, x)
    <3>1. Pending(x)
      BY <2>1 DEF FirstPending, Untouched
    <3>2. ASSUME NEW b \in Requests, lrq_lock[b] = k, Ahead(b, x)
          PROVE  ~ Pending(b)
      <4>1. CASE b = r
        BY <3>2, <4>1
      <4>2. CASE b # r
        <5>1. Ahead(b, x)' /\ lrq_lock'[b] = k
          BY <1>2, <2>1, <3>2, <4>2 DEF Untouched
        <5>2. ~ Pending(b)'
          BY <5>1 DEF FirstPending, RequestsOf
        <5> QED
          BY <4>2, <5>2 DEF Untouched
      <4> QED
        BY <4>1, <4>2
    <3> QED
      BY <2>1, <3>1, <3>2 DEF FirstPending, RequestsOf
  <2>3. Grantable(x)' <=> Grantable(x)
    <3>1. CountsWithout(x)' = CountsWithout(x)
      BY <2>1 DEF CountsWithout, Untouched
    <3>2. lock_state(CountsWithout(x))' = lock_state(CountsWithout(x))
      BY <3>1 DEF lock_state
    <3> QED
      BY <2>1, <3>2 DEF Grantable, Untouched
  <2> QED
    BY <2>1, <2>2, <2>3 DEF Settled, RequestsOf
<1> QED
  BY <1>1, <1>2

-----------------------------------------------------------------------------
(* Releases.                                                               *)

(* release_request() leaves the lock to post_pending(), or empty. *)
LEMMA ReleaseOrder ==
    ASSUME IInv, OrderInv, NEW r \in Requests, lrq_lock[r] \in Locks,
           NEW after \in {"release", "enq", "purge"}, ReleaseRequest(r, after),
           sec.at # "post", \A s \in Requests : s # r => ~ Serving(s),
           \A s \in Requests : s # r /\ lrq_lock[s] # NoLock => Responsible(s),
           after = "enq" => op'[lhb_active_owner'].kind = "enq"
    PROVE  OrderInv'
<1> PICK k \in Locks : k = lrq_lock[r]
  OBVIOUS
<1> PICK w : w = Without(lbl_requests[k], r)
  OBVIOUS
<1>1. sec \in Secs /\ TypeOK
  BY DEF IInv, TableInv, TypeOK
<1>2. /\ lbl_requests' = [lbl_requests EXCEPT ![k] = w]
      /\ lrq_lock' = [lrq_lock EXCEPT ![r] = NoLock]
      /\ \E c : lbl_counts' = [lbl_counts EXCEPT ![k] = c]
      /\ \E m : lbl_state' = [lbl_state EXCEPT ![k] = m]
      /\ \/ w = <<>> /\ sec' = [sec EXCEPT !.at = after, !.posted = after]
         \/ sec' = PostPending(k, after)
  <2>1. CASE w = <<>>
    BY <2>1, Zenon DEF ReleaseRequest
  <2>2. CASE w # <<>>
    BY <2>2, Zenon DEF ReleaseRequest
  <2> QED
    BY <2>1, <2>2
<1>3. /\ sec'.at \in {after, "post"} /\ sec'.posted = after
      /\ sec'.at = "post" => sec'.lock = k /\ sec'.pos = 1
      /\ w = <<>> \/ sec'.at = "post"
  BY <1>1, <1>2 DEF PostPending, Secs
<1>4. Released(r, after)
  BY ReleaseFields
<1>5. \A s \in Requests : s # r => Untouched(s)
  BY <1>4 DEF Released, Untouched, Pending
<1>6. \A s \in Requests : ~ Serving(s)'
  BY <1>3 DEF Serving
<1>7. \A s \in Requests : s # r /\ lrq_lock[s] # NoLock => StillServed(s)
  BY DEF StillServed, Responsible
<1>8. lrq_lock'[r] = NoLock
  BY <1>1, <1>2 DEF TypeOK
<1>9. RequestOK(r)'
  BY <1>8 DEF RequestOK
<1>10. SectionOK'
  BY <1>3 DEF SectionOK
<1>11. WalkInv'
  <2> SUFFICES ASSUME sec'.at = "post", NEW i \in 1 .. Len(lbl_requests'[sec'.lock]), i < sec'.pos
               PROVE  FALSE
    BY DEF WalkInv
  <2> QED
    BY <1>3
<1>12. Settled(k)'
  <2>1. CASE sec'.at = "post"
    BY <1>3, <2>1 DEF Settled
  <2>2. CASE w = <<>>
    <3>1. lbl_requests'[k] = <<>>
      BY <1>1, <1>2, <2>2 DEF TypeOK
    <3>2. \A s \in Requests : lrq_lock'[s] # k
      <4> SUFFICES ASSUME NEW s \in Requests, lrq_lock'[s] = k
                   PROVE  FALSE
        OBVIOUS
      <4>1. s # r /\ lrq_lock[s] = k
        BY <1>8, <1>4, ConstantsAssumption DEF Released
      <4>2. s \in Members(lbl_requests[k])
        BY <4>1 DEF IInv, TableInv, QueueInv, RequestsOf
      <4>3. /\ lbl_requests[k] \in Seq(Requests) /\ Injective(lbl_requests[k])
            /\ r \in Members(lbl_requests[k])
        BY DEF IInv, TableInv, TypeOK, QueueInv, RequestsOf
      <4>4. Members(w) = Members(lbl_requests[k]) \ {r}
        BY <4>3, WithoutFacts
      <4>5. Members(w) = {}
        BY <2>2 DEF Members
      <4> QED
        BY <4>1, <4>2, <4>4, <4>5
    <3> QED
      BY <3>2 DEF Settled, RequestsOf
  <2> QED
    BY <1>3, <2>1, <2>2
<1>13. \A l \in Locks \ {k} : /\ lbl_requests'[l] = lbl_requests[l]
                               /\ lbl_state'[l] = lbl_state[l]
                               /\ lbl_counts'[l] = lbl_counts[l]
  BY <1>1, <1>2 DEF TypeOK
<1> QED
  BY <1>5, <1>6, <1>7, <1>8, <1>9, <1>10, <1>11, <1>12, <1>13, WorksOn

(* A free section serves nobody. *)
LEMMA FreeSection ==
    ASSUME IInv, lhb_active_owner = NoOwner
    PROVE  /\ sec.at = "free" /\ \A s \in Requests : ~ Serving(s)
           /\ \A u \in Owners : ~ Purging(u)
BY FreeTable DEF Serving, Purging

(* A process gives up a request of its own. *)
LEMMA GiveReleases_Order ==
    ASSUME IInv, OrderInv, NEW o \in Owners, NEW r \in Requests,
           MayCall(o), r \in Callable(o), acquire(o),
           NEW after \in {"release", "enq"}, ReleaseRequest(r, after),
           UNCHANGED <<alive, pc>>,
           \A u \in Owners : pc[u] # "out" => op'[u] = op[u],
           after = "enq" => op'[o].kind = "enq"
    PROVE  OrderInv'
<1>1. lhb_active_owner = NoOwner /\ lhb_active_owner' = o
  BY DEF acquire
<1>2. lrq_lock[r] \in Locks
  BY <1>1, CallableFacts
<1>3. /\ sec.at = "free" /\ \A s \in Requests : ~ Serving(s)
      /\ \A u \in Owners : ~ Purging(u)
  BY <1>1, FreeSection
<1>4. Released(r, after)
  BY <1>2, ReleaseFields
<1>5. ASSUME NEW s \in Requests, s # r, lrq_lock[s] # NoLock
      PROVE  Responsible(s)
  <2>1. lrq_owner[s] \in Owners /\ lrq_owner'[s] = lrq_owner[s]
    BY <1>4, <1>5 DEF IInv, TableInv, TypeOK, RequestInv, Released
  <2> QED
    BY <1>3, <2>1, Bystander
<1> QED
  BY <1>1, <1>2, <1>3, <1>5, ReleaseOrder

(* LOCK_deq(), and LOCK_downgrade() of a request nobody needs. *)
LEMMA Give_Order ==
    ASSUME IInv, OrderInv, NEW o \in Owners, NEW r \in Requests,
           LOCK_deq(o, r) \/ (LOCK_downgrade(o, r) /\ ReleaseRequest(r, "release"))
    PROVE  OrderInv'
BY GiveReleases_Order DEF LOCK_deq, LOCK_downgrade

(* LOCK_enq(), with and without a prior request. *)
LEMMA LOCK_enq_Order ==
    ASSUME IInv, OrderInv, NEW o \in Owners, NEW l \in Locks, NEW m \in Levels,
           NEW w \in Waits, NEW a \in AstArgs, NEW p \in Requests \cup {NoReq},
           LOCK_enq(o, l, m, w, a, p)
    PROVE  OrderInv'
<1>1. /\ MayCall(o) /\ acquire(o) /\ pc[o] = "out" /\ UNCHANGED <<alive, pc>>
      /\ lhb_active_owner = NoOwner /\ lhb_active_owner' = o
  BY DEF LOCK_enq, MayCall, acquire
<1>2. op'[o].kind = "enq" /\ \A u \in Owners : pc[u] # "out" => op'[u] = op[u]
  BY <1>1 DEF LOCK_enq, IInv, TableInv, TypeOK
<1>3. CASE p \in Callable(o) /\ ReleaseRequest(p, "enq")
  <2>1. p \in Requests
    BY <1>3 DEF Callable, own_requests
  <2> QED
    BY <1>1, <1>2, <1>3, <2>1, GiveReleases_Order
<1>4. CASE sec' = At("enq") /\ UNCHANGED <<lblVars, lrqVars>>
  <2>1. /\ sec.at = "free" /\ \A s \in Requests : ~ Serving(s)
        /\ \A u \in Owners : ~ Purging(u)
    BY <1>1, FreeSection
  <2>2. sec'.at = "enq"
    BY <1>4 DEF At, IInv, TableInv, TypeOK, Secs
  <2>3. SameTable
    BY <1>4, TableSame
  <2>4. ASSUME NEW s \in Requests, lrq_lock[s] # NoLock
        PROVE  StillServed(s)
    <3>1. lrq_owner[s] \in Owners
      BY <2>4 DEF IInv, TableInv, TypeOK, RequestInv
    <3>2. Responsible(s)
      BY <1>1, <1>2, <1>4, <2>1, <3>1, Bystander DEF lrqVars
    <3> QED
      BY <2>1, <3>2 DEF StillServed, Responsible
  <2>5. SectionOK' /\ WalkInv'
    BY <1>1, <1>2, <2>2 DEF SectionOK, WalkInv
  <2>6. \A s \in Requests : ~ Serving(s)'
    BY <2>2 DEF Serving
  <2> QED
    BY <2>1, <2>3, <2>4, <2>5, <2>6, QuietStep
<1> QED
  BY <1>3, <1>4, Zenon DEF LOCK_enq

(* grant_or_que() releases a request it may not queue. *)
LEMMA QueDenied_Order ==
    ASSUME IInv, OrderInv, NEW o \in Owners, QueDenied(o)
    PROVE  OrderInv'
<1> PICK r : r = sec.req
  OBVIOUS
<1>1. /\ lhb_active_owner = o /\ sec.at = "grant_or_que"
      /\ ReleaseRequest(r, "release") /\ UNCHANGED <<alive, pc>>
      /\ op' = [op EXCEPT ![o] = NoOp]
  BY DEF QueDenied
<1>2. r \in Requests /\ lrq_lock[r] \in Locks /\ pc[o] = "out"
  BY <1>1 DEF IInv, SecInv, TableInv, TypeOK
<1>3. Released(r, "release")
  BY <1>1, <1>2, ReleaseFields
<1>4. ASSUME NEW s \in Requests, s # r, lrq_lock[s] # NoLock
      PROVE  Responsible(s)
  <2>1. lrq_owner[s] \in Owners /\ lrq_owner'[s] = lrq_owner[s]
    BY <1>3, <1>4 DEF IInv, TableInv, TypeOK, RequestInv, Released
  <2>2. ~ Purging(lrq_owner[s])
    BY <1>1 DEF Purging
  <2>3. pc[lrq_owner[s]] # "out" => op'[lrq_owner[s]] = op[lrq_owner[s]]
    BY <1>1, <1>2, <2>1 DEF IInv, TableInv, TypeOK
  <2> QED
    BY <1>1, <2>1, <2>2, <2>3, Bystander
<1>5. \A s \in Requests : s # r => ~ Serving(s)
  BY DEF Serving
<1> QED
  BY <1>1, <1>2, <1>4, <1>5, ReleaseOrder

(* purge_owner() releases the requests of a dead owner. *)
LEMMA PurgeRequest_Order ==
    ASSUME IInv, OrderInv, NEW o \in Owners, NEW r \in Requests, PurgeRequest(o, r)
    PROVE  OrderInv'
<1>1. /\ sec.at = "purge" /\ ReleaseRequest(r, "purge")
      /\ UNCHANGED <<alive, pc, op>> /\ lrq_lock[r] \in Locks
  BY DEF PurgeRequest, own_requests, IInv, TableInv, TypeOK
<1>2. Released(r, "purge")
  BY <1>1, ReleaseFields
<1>3. ASSUME NEW s \in Requests, s # r, lrq_lock[s] # NoLock
      PROVE  Responsible(s)
  <2>1. lrq_owner[s] \in Owners /\ lrq_owner'[s] = lrq_owner[s]
    BY <1>2, <1>3 DEF IInv, TableInv, TypeOK, RequestInv, Released
  <2>2. Purging(lrq_owner[s]) => Purging(lrq_owner[s])'
    BY <1>2, <2>1 DEF Purging, Released
  <2> QED
    BY <1>1, <2>1, <2>2, Bystander
<1>4. \A s \in Requests : ~ Serving(s)
  BY <1>1 DEF Serving
<1> QED
  BY <1>1, <1>3, <1>4, ReleaseOrder

(* A rejected newcomer is released by its owner. *)
LEMMA EnqRejected_Order ==
    ASSUME IInv, OrderInv, NEW o \in Owners, EnqRejected(o)
    PROVE  OrderInv'
<1> PICK r : r = op[o].req
  OBVIOUS
<1>1. /\ acquire(o) /\ pc[o] = "denied" /\ o \in alive
      /\ ReleaseRequest(r, "release") /\ UNCHANGED alive
      /\ op' = [op EXCEPT ![o] = NoOp] /\ pc' = [pc EXCEPT ![o] = "out"]
      /\ lhb_active_owner = NoOwner
  BY DEF EnqRejected, Main, acquire
<1>2. r \in Requests /\ lrq_lock[r] \in Locks
  BY <1>1 DEF IInv, WaitInv, TableInv, TypeOK
<1>3. Released(r, "release")
  BY <1>1, <1>2, ReleaseFields
<1>4. /\ sec.at = "free" /\ \A s \in Requests : ~ Serving(s)
      /\ \A u \in Owners : ~ Purging(u)
  BY <1>1, FreeSection
<1>5. ASSUME NEW s \in Requests, s # r, lrq_lock[s] # NoLock
      PROVE  Responsible(s)
  <2>1. lrq_owner[s] \in Owners /\ lrq_owner'[s] = lrq_owner[s]
    BY <1>3, <1>5 DEF IInv, TableInv, TypeOK, RequestInv, Released
  <2>2. CASE lrq_owner[s] = o
    <3>1. ~ Abandoned(s) /\ ~ WaitedFor(s)
      BY <1>1, <1>4, <1>5, <2>2 DEF Abandoned, WaitedFor
    <3> QED
      BY <3>1 DEF Responsible
  <2>3. CASE lrq_owner[s] # o
    <3>1. pc'[lrq_owner[s]] = pc[lrq_owner[s]] /\ op'[lrq_owner[s]] = op[lrq_owner[s]]
      BY <1>1, <2>1, <2>3 DEF IInv, TableInv, TypeOK
    <3> QED
      BY <1>1, <1>4, <2>1, <3>1, Bystander
  <2> QED
    BY <2>2, <2>3
<1> QED
  BY <1>1, <1>2, <1>4, <1>5, ReleaseOrder

-----------------------------------------------------------------------------
(* Conversions.                                                            *)

(* A request the engine may name holds a level. *)
LEMMA CallableHolds ==
    ASSUME IInv, OrderInv, NEW o \in Owners, MayCall(o), lhb_active_owner = NoOwner,
           NEW r \in Callable(o)
    PROVE  lrq_state[r] # LCK_none /\ ~ Dirty(r)
<1>1. /\ r \in Requests /\ lrq_lock[r] \in Locks /\ lrq_owner[r] = o /\ o \in alive
      /\ \A u \in Owners : pc[u] # "out" => op[u].req # r
      /\ lrq_lock[r] # NoLock
  BY CallableFacts, ConstantsAssumption DEF MayCall
<1>2. ~ Abandoned(r) /\ ~ WaitedFor(r) /\ ~ Serving(r) /\ sec.at = "free"
  BY <1>1, FreeSection DEF Abandoned, WaitedFor
<1>3. RequestOK(r)
  BY <1>1, OrderParts
<1> QED
  BY <1>1, <1>2, <1>3 DEF RequestOK

(* A request asks for another level; convert() will answer. *)
LEMMA Asks_Order ==
    ASSUME IInv, OrderInv, NEW o \in Owners, NEW r \in Requests,
           MayCall(o), r \in Callable(o), acquire(o), NEW m,
           NEW at \in {"convert", "downgrade"},
           lrq_requested' = [lrq_requested EXCEPT ![r] = m],
           lrq_flags' = [lrq_flags EXCEPT ![r] = @ \ {"blocking_seen"}],
           sec' = [NoSec EXCEPT !.at = at, !.req = r],
           UNCHANGED <<lblVars, lrq_owner, lrq_lock, lrq_state, alive, pc>>,
           \A u \in Owners : pc[u] # "out" => op'[u] = op[u]
    PROVE  OrderInv'
<1>1. lhb_active_owner = NoOwner /\ lhb_active_owner' = o
  BY DEF acquire
<1>2. /\ lrq_lock[r] \in Locks /\ lrq_lock[r] # NoLock /\ lrq_owner[r] = o
      /\ ~ Pending(r)
      /\ lrq_state[r] # LCK_none /\ ~ Dirty(r)
  BY <1>1, CallableFacts, CallableHolds, ConstantsAssumption
<1> PICK k \in Locks : k = lrq_lock[r]
  BY <1>2
<1>3. /\ sec.at = "free" /\ \A s \in Requests : ~ Serving(s)
      /\ \A u \in Owners : ~ Purging(u)
  BY <1>1, FreeSection
<1>4. sec'.at = at /\ sec'.req = r
  BY DEF NoSec
<1>5. TypeOK
  BY DEF IInv, TableInv
<1>6. \A s \in Requests : s # r => Untouched(s)
  BY <1>5 DEF Untouched, Pending, TypeOK
<1>7. ~ Pending(r)'
  BY <1>2, <1>5 DEF Pending, TypeOK
<1>8. \A s \in Requests : Serving(s)' <=> s = r
  BY <1>4 DEF Serving
<1>9. ASSUME NEW s \in Requests, s # r, lrq_lock[s] # NoLock
      PROVE  StillServed(s)
  <2>1. lrq_owner[s] \in Owners
    BY <1>9 DEF IInv, TableInv, TypeOK, RequestInv
  <2>2. Responsible(s)
    BY <1>3, <2>1, Bystander
  <2> QED
    BY <1>3, <2>2 DEF StillServed, Responsible
<1>10. RequestOK(r)'
  BY <1>2, <1>7, <1>8 DEF RequestOK
<1>11. SectionOK' /\ WalkInv'
  BY <1>2, <1>4 DEF SectionOK, WalkInv
<1>12. LOCK_ordering => Settled(k)'
  <2> SUFFICES ASSUME LOCK_ordering
               PROVE  Settled(k)'
    OBVIOUS
  <2>1. Settled(k)
    BY OrderParts DEF SettledInv
  <2>2. \A a, b \in Requests : b # r /\ Ahead(a, b) => Ahead(a, b)'
    BY DEF Ahead, lblVars
  <2>3. ~ FirstPending(k, r)'
    BY <1>7 DEF FirstPending
  <2>4. ASSUME NEW s \in Requests, lrq_lock[s] = k, Dirty(s)
        PROVE  lrq_lock'[s] = k /\ Dirty(s)' /\ ~ Serving(s)'
    <3>1. s # r
      BY <1>2, <2>4
    <3> QED
      BY <1>6, <1>8, <2>4, <3>1 DEF Untouched, Dirty
  <2> QED
    BY <1>2, <1>3, <1>6, <2>1, <2>2, <2>3, <2>4, SettledBut DEF lblVars
<1> QED
  BY <1>2, <1>3, <1>6, <1>8, <1>9, <1>10, <1>11, <1>12, WorksOn DEF lblVars

(* LOCK_downgrade(), both ways. *)
LEMMA LOCK_downgrade_Order ==
    ASSUME IInv, OrderInv, NEW o \in Owners, NEW r \in Requests, LOCK_downgrade(o, r)
    PROVE  OrderInv'
<1>1. CASE ReleaseRequest(r, "release")
  BY <1>1, Give_Order
<1>2. CASE ~ ReleaseRequest(r, "release")
  BY <1>2, Asks_Order DEF LOCK_downgrade
<1> QED
  BY <1>1, <1>2

(* LOCK_convert(). *)
LEMMA LOCK_convert_Order ==
    ASSUME IInv, OrderInv, NEW o \in Owners, NEW r \in Requests, NEW m \in Levels,
           NEW w \in Waits, LOCK_convert(o, r, m, w)
    PROVE  OrderInv'
<1>1. pc[o] = "out"
  BY DEF LOCK_convert, MayCall
<1>2. \A u \in Owners : pc[u] # "out" => op'[u] = op[u]
  BY <1>1 DEF LOCK_convert, IInv, TableInv, TypeOK
<1> QED
  BY <1>2, Asks_Order DEF LOCK_convert

(* A conversion is forgotten. *)
LEMMA Forgets_Order ==
    ASSUME IInv, OrderInv, NEW o \in Owners, ConvertDenied(o) \/ ConvertReset(o)
    PROVE  OrderInv'
<1> PICK r : r = sec.req
  OBVIOUS
<1>1. /\ lhb_active_owner = o /\ sec.at \in {"convert", "downgrade", "reset"}
      /\ lrq_requested' = [lrq_requested EXCEPT ![r] = lrq_state[r]]
      /\ UNCHANGED <<lblVars, lrq_owner, lrq_lock, lrq_state, lrq_flags, alive, pc>>
      /\ sec' = Release
  BY DEF ConvertDenied, ConvertReset, procVars
<1>2. \A u \in Owners : pc[u] # "out" => op'[u] = op[u]
  <2>1. sec.at = "convert" => pc[o] = "out"
    BY <1>1 DEF IInv, SecInv
  <2> QED
    BY <1>1, <2>1 DEF ConvertDenied, ConvertReset, procVars, IInv, TableInv, TypeOK
<1>3. r \in Requests /\ ~ Pending(r)
  BY <1>1 DEF IInv, SecInv
<1>4. sec'.at = "release" /\ TypeOK
  BY <1>1 DEF Release, NoSec, IInv, TableInv
<1> PICK k \in Locks \cup {NoLock} : k = lrq_lock[r]
  BY <1>3, <1>4 DEF TypeOK
<1>5. \A s \in Requests : s # r => Untouched(s)
  BY <1>1, <1>4 DEF Untouched, Pending, TypeOK
<1>6. \A s \in Requests : ~ Serving(s)'
  BY <1>4 DEF Serving
<1>7. \A s \in Requests : s # r => ~ Serving(s)
  BY DEF Serving
<1>8. ASSUME NEW s \in Requests, lrq_lock[s] # NoLock
      PROVE  Responsible(s)
  <2>1. lrq_owner[s] \in Owners
    BY <1>8 DEF IInv, TableInv, TypeOK, RequestInv
  <2>2. ~ Purging(lrq_owner[s])
    BY <1>1 DEF Purging
  <2> QED
    BY <1>1, <1>2, <2>1, <2>2, Bystander
<1>9. \A s \in Requests : s # r /\ lrq_lock[s] # NoLock => StillServed(s)
  BY <1>7, <1>8 DEF StillServed, Responsible
<1>10. ~ Dirty(r)' /\ ~ Pending(r)'
  BY <1>1, <1>3, <1>4 DEF Dirty, Pending, TypeOK
<1>11. RequestOK(r)'
  <2> SUFFICES ASSUME lrq_lock[r] # NoLock, lrq_state[r] = LCK_none
               PROVE  \/ Abandoned(r)'
                      \/ /\ WaitedFor(r)' /\ op'[lrq_owner[r]].kind = "enq"
                         /\ "rejected" \in lrq_flags[r]
    BY <1>1, <1>10 DEF RequestOK
  <2>1. \/ Abandoned(r)
        \/ /\ WaitedFor(r) /\ op[lrq_owner[r]].kind = "enq"
           /\ "rejected" \in lrq_flags[r]
    BY <1>1, <1>3, OrderParts DEF RequestOK
  <2> QED
    BY <1>3, <1>8, <2>1 DEF Responsible
<1>12. SectionOK' /\ WalkInv'
  BY <1>4 DEF SectionOK, WalkInv
<1>13. ASSUME k \in Locks, LOCK_ordering
       PROVE  Settled(k)'
  <2>1. Settled(k)
    BY <1>13, OrderParts DEF SettledInv
  <2>2. \A a, b \in Requests : b # r /\ Ahead(a, b) => Ahead(a, b)'
    BY <1>1 DEF Ahead, lblVars
  <2>3. ~ FirstPending(k, r)'
    BY <1>10 DEF FirstPending
  <2>4. ASSUME NEW s \in Requests, lrq_lock[s] = k, Dirty(s), ~ Serving(s)
        PROVE  lrq_lock'[s] = k /\ Dirty(s)' /\ ~ Serving(s)'
    <3>1. CASE s = r
      BY <1>1, <1>6, <2>4, <3>1 DEF Serving
    <3>2. CASE s # r
      BY <1>5, <1>6, <2>4, <3>2 DEF Untouched, Dirty
    <3> QED
      BY <3>1, <3>2
  <2> QED
    BY <1>1, <1>3, <1>5, <1>13, <2>1, <2>2, <2>3, <2>4, SettledBut DEF lblVars
<1> QED
  BY <1>1, <1>3, <1>5, <1>6, <1>9, <1>11, <1>12, <1>13, WorksOn DEF lblVars

(* The owner of a rejected conversion lets the others go on first. *)
LEMMA ConvertRejected_Order ==
    ASSUME IInv, OrderInv, NEW o \in Owners, ConvertRejected(o)
    PROVE  OrderInv'
<1> PICK r : r = op[o].req
  OBVIOUS
<1>1. /\ pc[o] = "denied" /\ o \in alive /\ op[o].kind = "convert"
      /\ UNCHANGED <<lblVars, lrqVars, alive>>
      /\ op' = [op EXCEPT ![o] = NoOp] /\ pc' = [pc EXCEPT ![o] = "out"]
      /\ lhb_active_owner = NoOwner
      /\ sec' = [PostPending(lrq_lock[r], "reset") EXCEPT !.req = r]
  BY DEF ConvertRejected, Main, acquire
<1>2. /\ r \in Requests /\ lrq_lock[r] \in Locks /\ lrq_lock[r] # NoLock
      /\ lrq_owner[r] = o /\ ~ Pending(r)
  BY <1>1 DEF IInv, WaitInv, TableInv, TypeOK
<1> PICK k \in Locks : k = lrq_lock[r]
  BY <1>2
<1>3. /\ sec'.at = "post" /\ sec'.lock = k /\ sec'.pos = 1 /\ sec'.posted = "reset"
      /\ sec'.req = r
  <2>1. sec \in Secs
    BY DEF IInv, TableInv, TypeOK
  <2> QED
    BY <1>1, <2>1 DEF PostPending, Secs
<1>4. /\ sec.at = "free" /\ \A s \in Requests : ~ Serving(s)
      /\ \A u \in Owners : ~ Purging(u)
  BY <1>1, FreeSection
<1>5. \A s \in Requests : Untouched(s)
  BY <1>1 DEF Untouched, Pending, lrqVars
<1>6. \A s \in Requests : Serving(s)' <=> s = r
  BY <1>3 DEF Serving
<1>7. ASSUME NEW s \in Requests, s # r, lrq_lock[s] # NoLock
      PROVE  StillServed(s)
  <2>1. lrq_owner[s] \in Owners /\ lrq_owner'[s] = lrq_owner[s]
    BY <1>1, <1>7 DEF IInv, TableInv, TypeOK, RequestInv, lrqVars
  <2>2. CASE lrq_owner[s] = o
    <3>1. ~ Abandoned(s) /\ ~ WaitedFor(s)
      BY <1>1, <1>4, <1>7, <2>2 DEF Abandoned, WaitedFor
    <3> QED
      BY <1>4, <3>1 DEF StillServed
  <2>3. CASE lrq_owner[s] # o
    <3>1. pc'[lrq_owner[s]] = pc[lrq_owner[s]] /\ op'[lrq_owner[s]] = op[lrq_owner[s]]
      BY <1>1, <2>1, <2>3 DEF IInv, TableInv, TypeOK
    <3>2. Responsible(s)
      BY <1>1, <1>4, <2>1, <3>1, Bystander
    <3> QED
      BY <1>4, <3>2 DEF StillServed, Responsible
  <2> QED
    BY <2>2, <2>3
<1>8. RequestOK(r)'
  <2>1. lrq_state[r] # LCK_none
    <3>1. ~ Abandoned(r)
      BY <1>1, <1>2, <1>4 DEF Abandoned
    <3> QED
      BY <1>1, <1>2, <1>4, <3>1, OrderParts DEF RequestOK
  <2>2. ~ Pending(r)' /\ lrq_state'[r] = lrq_state[r]
    BY <1>2, <1>5 DEF Untouched
  <2>3. Serving(r)'
    BY <1>2, <1>6
  <2> QED
    BY <2>1, <2>2, <2>3 DEF RequestOK
<1>9. SectionOK'
  BY <1>3 DEF SectionOK
<1>10. WalkInv'
  <2> SUFFICES ASSUME NEW i \in 1 .. Len(lbl_requests'[sec'.lock]), i < sec'.pos
               PROVE  FALSE
    BY DEF WalkInv
  <2> QED
    BY <1>3
<1>11. Settled(k)'
  BY <1>3 DEF Settled
<1> QED
  BY <1>1, <1>2, <1>4, <1>5, <1>6, <1>7, <1>8, <1>9, <1>10, <1>11, WorksOn DEF lblVars, lrqVars

-----------------------------------------------------------------------------
(* Rejections.                                                             *)

(* A rejected waiter is dirty: its owner has still to clean up. *)
LEMMA Reject_Order ==
    ASSUME IInv, OrderInv, NEW t \in Requests, Pending(t),
           lrq_flags' = [lrq_flags EXCEPT ![t] = (@ \ {"pending"}) \cup {"rejected"}],
           UNCHANGED <<lbl_requests, lbl_counts, lbl_state, lrq_owner, lrq_lock,
                       lrq_requested, lrq_state, alive, op>>,
           \A u \in Owners : pc[u] # "out" => pc'[u] # "out",
           sec.at \in {"free", "scan"}, sec' = Release
    PROVE  OrderInv'
<1>1. TypeOK /\ lrq_lock[t] # NoLock /\ lrq_owner[t] \in Owners
  BY DEF IInv, TableInv, TypeOK, RequestInv
<1> PICK k \in Locks : k = lrq_lock[t]
  BY <1>1 DEF TypeOK
<1>2. sec'.at = "release"
  BY DEF Release, NoSec
<1>3. \A s \in Requests : ~ Serving(s) /\ ~ Serving(s)'
  BY <1>2 DEF Serving
<1>4. \A u \in Owners : ~ Purging(u)
  BY DEF Purging
<1>5. \A s \in Requests : s # t => Untouched(s)
  BY <1>1 DEF Untouched, Pending, TypeOK
<1>6. ASSUME NEW s \in Requests, lrq_lock[s] # NoLock
      PROVE  Responsible(s)
  <2>1. lrq_owner[s] \in Owners
    BY <1>6 DEF IInv, TableInv, TypeOK, RequestInv
  <2> QED
    BY <1>4, <2>1, Bystander
<1>7. \A s \in Requests : s # t /\ lrq_lock[s] # NoLock => StillServed(s)
  BY <1>3, <1>6 DEF StillServed, Responsible
<1>8. "rejected" \in lrq_flags'[t] /\ ~ Pending(t)'
  BY <1>1 DEF TypeOK, Pending
<1>9. lrq_requested[t] # lrq_state[t]
  BY <1>1, OrderParts DEF RequestOK
<1>10. RequestOK(t)'
  <2>1. Abandoned(t) \/ WaitedFor(t)
    BY DEF IInv, WaitInv, Abandoned, WaitedFor
  <2>2. Abandoned(t)' \/ (WaitedFor(t)' /\ op'[lrq_owner[t]].kind = op[lrq_owner[t]].kind)
    BY <1>1, <1>6, <2>1 DEF Responsible
  <2>3. lrq_state[t] = LCK_none => Abandoned(t) \/ op[lrq_owner[t]].kind = "enq"
    BY <1>1, OrderParts DEF RequestOK
  <2>4. Abandoned(t) => Abandoned(t)'
    BY <1>1, <1>6 DEF Responsible
  <2> QED
    BY <1>8, <2>2, <2>3, <2>4 DEF RequestOK
<1>11. SectionOK' /\ WalkInv'
  BY <1>2 DEF SectionOK, WalkInv
<1>12. Settled(k)'
  <2>1. Dirty(t)' /\ lrq_lock'[t] = k
    BY <1>8, <1>9 DEF Dirty
  <2> QED
    BY <1>3, <2>1 DEF Settled, RequestsOf
<1> QED
  BY <1>1, <1>3, <1>5, <1>7, <1>10, <1>11, <1>12, WorksOn

(* deadlock_scan() rejects its victim. *)
LEMMA ScanVictim_Order ==
    ASSUME IInv, OrderInv, NEW o \in Owners, NEW t \in Requests, ScanVictim(o, t)
    PROVE  OrderInv'
<1>1. Pending(t)
  BY DEF ScanVictim, Victims, Visited, PendingRequests
<1> QED
  BY <1>1, Reject_Order DEF ScanVictim, procVars

(* wait_for_request() rejects its own request after the lock timeout. *)
LEMMA WokenTimedOut_Order ==
    ASSUME IInv, OrderInv, NEW o \in Owners, WokenTimedOut(o)
    PROVE  OrderInv'
<1> PICK t : t = op[o].req
  OBVIOUS
<1>1. /\ Pending(t) /\ lhb_active_owner = NoOwner /\ pc[o] # "out"
      /\ lrq_flags' = [lrq_flags EXCEPT ![t] = (@ \ {"pending"}) \cup {"rejected"}]
      /\ UNCHANGED <<lbl_requests, lbl_counts, lbl_state, lrq_owner, lrq_lock,
                     lrq_requested, lrq_state, alive, op>>
      /\ pc' = [pc EXCEPT ![o] = "resolved"] /\ sec' = Release
  BY DEF WokenTimedOut, Woken, Main, acquire
<1>2. t \in Requests
  BY <1>1 DEF IInv, WaitInv
<1>3. \A u \in Owners : pc[u] # "out" => pc'[u] # "out"
  BY <1>1 DEF IInv, TableInv, TypeOK
<1> QED
  BY <1>1, <1>2, <1>3, FreeTable, Reject_Order

-----------------------------------------------------------------------------
(* Grants.                                                                 *)

(* What grant() does to the order of grants. *)
LEMMA GrantOrder ==
    ASSUME IInv, OrderInv, NEW r \in Requests, NEW k \in Locks, lrq_lock[r] = k,
           NEW counts, Grant(r, counts), lrq_requested[r] \in Granted,
           UNCHANGED <<lbl_requests, lrq_owner, lrq_lock, lrq_requested, alive, pc>>,
           \A u \in Owners : pc[u] # "out" => op'[u] = op[u],
           \A u \in Owners : Purging(u) => Purging(u)',
           sec'.at = "post", sec'.lock = k, sec.at = "post" => sec.lock = k,
           sec'.posted = "enq" => op'[lhb_active_owner'].kind = "enq",
           \A s \in Requests : s # r => (Serving(s)' <=> Serving(s)),
           sec.at = "grant_or_que" => sec.req = r, WalkInv'
    PROVE  OrderInv'
<1>1. TypeOK
  BY DEF IInv, TableInv
<1>2. /\ \E c : lbl_counts' = [lbl_counts EXCEPT ![k] = c]
      /\ \E m : lbl_state' = [lbl_state EXCEPT ![k] = m]
      /\ lrq_state' = [lrq_state EXCEPT ![r] = lrq_requested[r]]
      /\ lrq_flags' = [lrq_flags EXCEPT ![r] = @ \ {"pending"}]
  BY DEF Grant
<1>3. \A s \in Requests : s # r => Untouched(s)
  BY <1>1, <1>2 DEF Untouched, Pending, TypeOK
<1>4. ASSUME NEW s \in Requests, s # r, lrq_lock[s] # NoLock
      PROVE  StillServed(s)
  <2>1. lrq_owner[s] \in Owners
    BY <1>4 DEF IInv, TableInv, TypeOK, RequestInv
  <2>2. Responsible(s)
    BY <2>1, Bystander
  <2>3. Serving(s) => Serving(s)' /\ sec.at # "grant_or_que"
    BY <1>4 DEF Serving
  <2>4. sec.at = "grant_or_que" => ~ Serving(s)
    BY <1>4 DEF Serving
  <2> QED
    BY <2>2, <2>3, <2>4 DEF StillServed, Responsible
<1>5. RequestOK(r)'
  <2>1. r \in DOMAIN lrq_state /\ r \in DOMAIN lrq_flags
    BY <1>1 DEF TypeOK
  <2>2. lrq_state'[r] = lrq_requested'[r]
    BY <1>2, <2>1
  <2>3. lrq_state'[r] # LCK_none
    BY <2>2, LevelsFact
  <2>4. ~ Pending(r)'
    BY <1>2, <2>1 DEF Pending
  <2> QED
    BY <2>2, <2>3, <2>4 DEF RequestOK, Dirty
<1>6. SectionOK'
  BY DEF SectionOK
<1>7. Settled(k)'
  BY DEF Settled
<1>8. \A l \in Locks \ {k} : /\ lbl_requests'[l] = lbl_requests[l]
                              /\ lbl_state'[l] = lbl_state[l]
                              /\ lbl_counts'[l] = lbl_counts[l]
  BY <1>1, <1>2 DEF TypeOK
<1> QED
  BY <1>3, <1>4, <1>5, <1>6, <1>7, <1>8, WorksOn

(* post_pending() grants the first waiter and goes on behind it. *)
LEMMA PostGrant_Order ==
    ASSUME IInv, OrderInv, NEW o \in Owners, PostGrant(o)
    PROVE  OrderInv'
<1> PICK i : i = NextPending
  OBVIOUS
<1> PICK r : r = lbl_requests[sec.lock][i]
  OBVIOUS
<1> PICK k : k = sec.lock
  OBVIOUS
<1>1. /\ sec.at = "post" /\ Grant(r, CountsWithout(r)) /\ sec' = AfterGrant(i)
      /\ PendingAhead # {}
      /\ UNCHANGED <<lbl_requests, lrq_owner, lrq_lock, lrq_requested, alive, pc, op,
                     lhb_active_owner, own_hung>>
  BY DEF PostGrant, procVars
<1>2. r \in Requests /\ Pending(r) /\ lrq_lock[r] = k /\ k \in Locks /\ i \in Nat
      /\ lrq_requested[r] \in Granted
  <2>1. r \in Requests /\ Pending(r) /\ lrq_lock[r] = k /\ k \in Locks /\ i \in Nat
    BY <1>1, NextPendingFacts
  <2> QED
    BY <2>1 DEF IInv, TableInv, RequestInv
<1>3. /\ sec'.at = "post" /\ sec'.lock = k /\ sec'.posted = sec.posted /\ sec'.req = sec.req
      /\ sec'.victim = sec.victim /\ sec'.pos = i + 1
  <2>1. sec \in Secs
    BY DEF IInv, TableInv, TypeOK
  <2> QED
    BY <1>1, <2>1 DEF AfterGrant, Secs
<1>4. sec'.posted = "enq" => op'[lhb_active_owner'].kind = "enq"
  BY <1>1, <1>3, OrderParts DEF SectionOK
<1>5. \A s \in Requests : Serving(s)' <=> Serving(s)
  BY <1>1, <1>3 DEF Serving
<1>6. \A u \in Owners : Purging(u) => Purging(u)'
  BY <1>1, <1>3 DEF Purging
<1>7. WalkInv'
  <2> SUFFICES ASSUME LOCK_ordering, NEW j \in 1 .. Len(lbl_requests[k]), j < i + 1
               PROVE  ~ Pending(lbl_requests[k][j])'
    BY <1>1, <1>3 DEF WalkInv
  <2> PICK b : b = lbl_requests[k][j]
    OBVIOUS
  <2>1. b \in Requests
    BY <1>2 DEF IInv, TableInv, TypeOK
  <2>2. Pending(b) => i <= j
    BY <1>1, FirstWaiter
  <2>3. j # i => ~ Pending(b)
    BY <1>2, <2>2
  <2>4. lrq_flags' = [lrq_flags EXCEPT ![r] = @ \ {"pending"}]
    BY <1>1 DEF Grant
  <2>5. ~ ("pending" \in lrq_flags'[b])
    <3>1. CASE b = r
      BY <2>1, <2>4, <3>1 DEF IInv, TableInv, TypeOK
    <3>2. CASE b # r
      BY <2>1, <2>3, <2>4, <3>2 DEF Pending, IInv, TableInv, TypeOK
    <3> QED
      BY <3>1, <3>2
  <2> QED
    BY <1>1, <2>5 DEF Pending
<1>8. \A u \in Owners : pc[u] # "out" => op'[u] = op[u]
  BY <1>1
<1> QED
  BY <1>1, <1>2, <1>3, <1>4, <1>5, <1>6, <1>7, <1>8, GrantOrder

(* grant_or_que() and convert() grant, and post_pending() starts. *)
LEMMA Grants_Order ==
    ASSUME IInv, OrderInv, NEW o \in Owners, QueGranted(o) \/ ConvertGranted(o)
    PROVE  OrderInv'
<1> PICK r : r = sec.req
  OBVIOUS
<1> PICK k : k = lrq_lock[r]
  OBVIOUS
<1>1. /\ sec.at \in {"grant_or_que", "convert", "downgrade"} /\ lhb_active_owner = o
      /\ sec' = PostPending(k, "release")
      /\ UNCHANGED <<lbl_requests, lrq_owner, lrq_lock, lrq_requested, alive, pc>>
  BY DEF QueGranted, ConvertGranted
<1>2. r \in Requests /\ k \in Locks /\ lrq_requested[r] \in Granted
  BY <1>1 DEF IInv, SecInv, TableInv, TypeOK
<1>3. \E counts : Grant(r, counts)
  <2>1. CASE QueGranted(o)
    <3>1. Grant(r, lbl_counts[lrq_lock[r]])
      BY <2>1, Zenon DEF QueGranted
    <3> QED
      BY <3>1, Zenon
  <2>2. CASE ConvertGranted(o)
    <3>1. Grant(r, CountsWithout(r))
      BY <2>2, Zenon DEF ConvertGranted
    <3> QED
      BY <3>1, Zenon
  <2> QED
    BY <2>1, <2>2
<1>4. /\ sec'.at = "post" /\ sec'.lock = k /\ sec'.posted = "release" /\ sec'.pos = 1
  <2>1. sec \in Secs
    BY DEF IInv, TableInv, TypeOK
  <2> QED
    BY <1>1, <2>1 DEF PostPending, Secs
<1>5. \A u \in Owners : pc[u] # "out" => op'[u] = op[u]
  <2>1. sec.at # "downgrade" => pc[o] = "out"
    BY <1>1 DEF IInv, SecInv
  <2>2. \/ op' = [op EXCEPT ![o] = NoOp] /\ sec.at # "downgrade"
        \/ op' = op
    BY DEF QueGranted, ConvertGranted
  <2> QED
    BY <2>1, <2>2 DEF IInv, TableInv, TypeOK
<1>6. \A s \in Requests : s # r => ~ Serving(s) /\ ~ Serving(s)'
  BY <1>4 DEF Serving
<1>7. \A u \in Owners : ~ Purging(u)
  BY <1>1 DEF Purging
<1>8. WalkInv'
  <2> SUFFICES ASSUME NEW i \in 1 .. Len(lbl_requests'[sec'.lock]), i < sec'.pos
               PROVE  FALSE
    BY DEF WalkInv
  <2> QED
    BY <1>4
<1> QED
  BY <1>1, <1>2, <1>3, <1>4, <1>5, <1>6, <1>7, <1>8, GrantOrder

-----------------------------------------------------------------------------
(* Waiting begins.                                                         *)

(* a stands before b in the queue q *)
Precedes(q, a, b) == \E i, j \in 1 .. Len(q) : q[i] = a /\ q[j] = b /\ i < j

(* A request moved to the tail passes nobody; the others keep their order. *)
LEMMA MovedToTail ==
    ASSUME NEW q \in Seq(Requests), Injective(q), NEW r \in Members(q)
    PROVE  /\ \A a, b \in Members(q) \ {r} :
                 Precedes(q, a, b) => Precedes(Append(Without(q, r), r), a, b)
           /\ \A a \in Members(q) \ {r} : Precedes(Append(Without(q, r), r), a, r)
<1> PICK w : w = Append(Without(q, r), r)
  OBVIOUS
<1> PICK v : v = Without(q, r)
  OBVIOUS
<1>1. v \in Seq(Requests) /\ Len(v) = Len(q) - 1 /\ Len(q) \in Nat
      /\ Members(v) = Members(q) \ {r}
  BY WithoutFacts
<1>2. r \in Requests
  BY MembersFacts
<1>3. /\ Len(w) = Len(q) /\ w[Len(q)] = r
      /\ \A i \in 1 .. Len(q) - 1 : w[i] = v[i]
  BY <1>1, <1>2
<1> PICK p : p = Position(q, r)
  OBVIOUS
<1>4. p \in 1 .. Len(q) /\ q[p] = r
  BY DEF Position, Members
<1>5. \A i \in 1 .. Len(q) - 1 : v[i] = IF i < p THEN q[i] ELSE q[i + 1]
  BY <1>1 DEF Without
<1>6. ASSUME NEW a \in Members(q) \ {r}, NEW b \in Members(q) \ {r}, Precedes(q, a, b)
      PROVE  Precedes(w, a, b)
  <2> PICK i \in 1 .. Len(q), j \in 1 .. Len(q) : q[i] = a /\ q[j] = b /\ i < j
    BY <1>6 DEF Precedes
  <2>1. \A x \in 1 .. Len(q) : x # p =>
           LET y == IF x < p THEN x ELSE x - 1
           IN  y \in 1 .. Len(q) - 1 /\ v[y] = q[x]
    BY <1>1, <1>4, <1>5
  <2>2. i # p /\ j # p
    BY <1>4, <1>6
  <2> PICK m : m = IF i < p THEN i ELSE i - 1
    OBVIOUS
  <2> PICK n : n = IF j < p THEN j ELSE j - 1
    OBVIOUS
  <2>3. m \in 1 .. Len(q) - 1 /\ n \in 1 .. Len(q) - 1 /\ v[m] = a /\ v[n] = b
    BY <1>6, <2>1, <2>2
  <2>4. m < n
    BY <1>4, <1>6, <2>2
  <2>5. m \in 1 .. Len(w) /\ n \in 1 .. Len(w) /\ w[m] = a /\ w[n] = b
    BY <1>1, <1>3, <2>3
  <2> QED
    BY <2>4, <2>5 DEF Precedes
<1>7. ASSUME NEW a \in Members(q) \ {r}
      PROVE  \E i, j \in 1 .. Len(w) : w[i] = a /\ w[j] = r /\ i < j
  <2> PICK i \in 1 .. Len(v) : v[i] = a
    BY <1>1 DEF Members
  <2>1. i \in 1 .. Len(q) - 1 /\ Len(q) \in 1 .. Len(w) /\ i < Len(q) /\ i \in 1 .. Len(w)
    BY <1>1, <1>3
  <2> QED
    BY <1>3, <2>1
<1>8. \A a \in Members(q) \ {r} : Precedes(w, a, r)
  BY <1>7 DEF Precedes
<1> QED
  BY <1>6, <1>8

(* A request fits what the others hold at the level it has. *)
LEMMA HeldFits ==
    ASSUME IInv, NEW r \in Requests, lrq_lock[r] \in Locks
    PROVE  COMPATIBLE(lrq_state[r], lock_state(CountsWithout(r)))
<1> PICK c : c = CountsWithout(r)
  OBVIOUS
<1> PICK top : top = lock_state(c)
  OBVIOUS
<1>1. /\ c \in [Granted -> Nat]
      /\ \A m \in Granted : c[m] = Cardinality(HeldAt(lrq_lock[r], m) \ {r})
  BY CountsWithoutFacts DEF IInv, TableInv
<1>2. /\ top \in States
      /\ top # LCK_none => top \in Granted /\ c[top] > 0
  BY <1>1, LockStateMax
<1>3. CASE top = LCK_none
  BY <1>3, CompatibleNone, LevelsFact DEF IInv, TableInv, TypeOK
<1>4. CASE top # LCK_none
  <2>1. HeldAt(lrq_lock[r], top) \ {r} # {}
    <3>1. Cardinality(HeldAt(lrq_lock[r], top) \ {r}) # 0
      BY <1>1, <1>2, <1>4
    <3> QED
      BY <3>1, FS_EmptySet
  <2> PICK s \in HeldAt(lrq_lock[r], top) \ {r} : TRUE
    BY <2>1
  <2>2. s \in Requests /\ s # r /\ lrq_lock[s] = lrq_lock[r] /\ lrq_state[s] = top
    BY DEF HeldAt, RequestsOf
  <2>3. lrq_lock[r] # NoLock
    BY ConstantsAssumption
  <2> QED
    BY <2>2, <2>3 DEF IInv, TableInv, GrantedCompatible
<1> QED
  BY <1>3, <1>4

(* A request that starts to wait could not be granted, or is not the       *)
(* first.                                                                  *)
LEMMA BeginWaitOrder ==
    ASSUME IInv, OrderInv, NEW o \in Owners, NEW r \in Requests, r = sec.req,
           lrq_owner[r] = o, NEW k \in Locks, lrq_lock[r] = k, ~ Pending(r),
           sec.at \in {"grant_or_que", "convert"}, BeginWait(o, r), pc[o] = "out",
           UNCHANGED <<lbl_counts, lbl_state, lrq_owner, lrq_lock, lrq_requested,
                       lrq_state, lhb_active_owner, own_hung, alive>>,
           lrq_state[r] = LCK_none => op[o].kind = "enq",
           lrq_requested[r] # lrq_state[r],
           LOCK_ordering /\ lrq_state[r] = LCK_none =>
               lbl_pending_lrq_count[k] # 0 \/ ~ Grantable(r),
           lrq_state[r] # LCK_none => ~ Grantable(r)
    PROVE  OrderInv'
<1>1. TypeOK /\ k # NoLock
  BY ConstantsAssumption DEF IInv, TableInv
<1> PICK q : q = lbl_requests[k]
  OBVIOUS
<1> PICK w : w = IF LOCK_ordering /\ lrq_state[r] = LCK_none THEN Append(Without(q, r), r) ELSE q
  OBVIOUS
<1>2. q \in Seq(Requests) /\ Injective(q) /\ r \in Members(q) /\ Members(q) = RequestsOf(k)
  BY <1>1 DEF IInv, TableInv, TypeOK, QueueInv, RequestsOf
<1>3. /\ lrq_flags' = [lrq_flags EXCEPT ![r] = (@ \ {"rejected"}) \cup {"pending"}]
      /\ lbl_requests' = [lbl_requests EXCEPT ![k] = w]
      /\ op' = [op EXCEPT ![o].req = r]
      /\ pc' = [pc EXCEPT ![o] = "wait"]
      /\ sec'.at = "block" /\ sec'.req = r
  <2>1. sec'.at = "block" /\ sec'.req = r
    BY BeginWaitFields
  <2> QED
    BY <2>1, Zenon DEF BeginWait
<1>4. \A s \in Requests : s # r => Untouched(s)
  BY <1>1, <1>3 DEF Untouched, Pending, TypeOK
<1>5. \A s \in Requests : ~ Serving(s)'
  BY <1>3 DEF Serving
<1>6. \A s \in Requests : s # r => ~ Serving(s)
  BY DEF Serving
<1>7. Serving(r)
  BY DEF Serving
<1>8. ASSUME NEW s \in Requests, s # r, lrq_lock[s] # NoLock
      PROVE  StillServed(s)
  <2>1. lrq_owner[s] \in Owners
    BY <1>8 DEF IInv, TableInv, TypeOK, RequestInv
  <2>2. ~ Purging(lrq_owner[s])
    BY DEF Purging
  <2>3. pc[lrq_owner[s]] # "out" =>
            pc'[lrq_owner[s]] # "out" /\ op'[lrq_owner[s]] = op[lrq_owner[s]]
    BY <1>1, <1>3, <2>1 DEF TypeOK
  <2>4. Responsible(s)
    BY <2>1, <2>2, <2>3, Bystander
  <2> QED
    BY <1>6, <1>8, <2>4 DEF StillServed, Responsible
<1>9. Pending(r)' /\ ~ Dirty(r)'
  BY <1>1, <1>3 DEF TypeOK, Pending, Dirty
<1>10. RequestOK(r)'
  <2>1. WaitedFor(r)' /\ op'[o].kind = op[o].kind
    <3>1. op[o] \in Ops
      BY <1>1 DEF TypeOK
    <3>2. op' = [op EXCEPT ![o] = [op[o] EXCEPT !.req = r]]
      BY <1>3
    <3>3. op'[o].kind = op[o].kind /\ op'[o].req = r /\ pc'[o] = "wait"
      BY <1>1, <1>3, <3>1, <3>2 DEF Ops, TypeOK
    <3> QED
      BY <3>3 DEF WaitedFor
  <2> QED
    BY <1>9, <2>1 DEF RequestOK
<1>11. SectionOK' /\ WalkInv'
  BY <1>3 DEF SectionOK, WalkInv
<1>12. lbl_requests'[k] = w
  BY <1>1, <1>3 DEF TypeOK
<1>13. ASSUME NEW a \in Requests, NEW b \in Requests, a # r, b # r, lrq_lock[b] = k, Ahead(a, b)
       PROVE  Ahead(a, b)'
  <2>1. Precedes(q, a, b)
    BY <1>13 DEF Ahead, Precedes
  <2>2. a \in Members(q) \ {r} /\ b \in Members(q) \ {r}
    BY <1>13, <2>1 DEF Members, Precedes
  <2>3. Precedes(w, a, b)
    <3>1. CASE w = q
      BY <2>1, <3>1
    <3>2. CASE w = Append(Without(q, r), r)
      BY <1>2, <2>1, <2>2, <3>2, MovedToTail
    <3> QED
      BY <3>1, <3>2
  <2> QED
    BY <1>12, <1>13, <2>3 DEF Ahead, Precedes
<1>14. ASSUME LOCK_ordering, FirstPending(k, r)'
       PROVE  ~ Grantable(r)
  <2>1. CASE lrq_state[r] # LCK_none
    BY <2>1
  <2>2. CASE lrq_state[r] = LCK_none
    <3>1. w = Append(Without(q, r), r)
      BY <1>14, <2>2
    <3>2. ASSUME NEW b \in Requests, lrq_lock[b] = k
          PROVE  ~ Pending(b)
      <4>1. CASE b = r
        BY <4>1
      <4>2. CASE b # r
        <5>1. b \in Members(q) \ {r}
          BY <1>2, <3>2, <4>2 DEF RequestsOf
        <5>2. Precedes(w, b, r)
          BY <1>2, <3>1, <5>1, MovedToTail
        <5>3. Ahead(b, r)'
          BY <1>12, <5>2 DEF Ahead, Precedes
        <5>4. ~ Pending(b)'
          BY <1>14, <3>2, <5>3 DEF FirstPending, RequestsOf
        <5> QED
          BY <1>4, <4>2, <5>4 DEF Untouched
      <4> QED
        BY <4>1, <4>2
    <3>3. WaitingAt(k) = {}
      BY <3>2 DEF WaitingAt, RequestsOf
    <3>4. lbl_pending_lrq_count[k] = 0
      BY <3>3, CountsExactSets, FS_EmptySet DEF IInv, TableInv
    <3> QED
      BY <1>14, <2>2, <3>4
  <2> QED
    BY <2>1, <2>2
<1>15. Grantable(r)' <=> Grantable(r)
  <2>1. CountsWithout(r)' = CountsWithout(r)
    BY DEF CountsWithout
  <2>2. lock_state(CountsWithout(r))' = lock_state(CountsWithout(r))
    BY <2>1 DEF lock_state
  <2> QED
    BY <2>2 DEF Grantable
<1>16. LOCK_ordering => Settled(k)'
  <2> SUFFICES ASSUME LOCK_ordering
               PROVE  Settled(k)'
    OBVIOUS
  <2>1. Settled(k)
    BY OrderParts DEF SettledInv
  <2>2. ASSUME NEW s \in Requests, lrq_lock[s] = k, Dirty(s), ~ Serving(s)
        PROVE  lrq_lock'[s] = k /\ Dirty(s)' /\ ~ Serving(s)'
    <3>1. s # r
      BY <1>7, <2>2
    <3> QED
      BY <1>4, <1>5, <2>2, <3>1 DEF Untouched, Dirty
  <2> QED
    BY <1>4, <1>13, <1>14, <1>15, <2>1, <2>2, SettledBut
<1>17. \A l \in Locks \ {k} : lbl_requests'[l] = lbl_requests[l]
  BY <1>1, <1>3 DEF TypeOK
<1> QED
  BY <1>4, <1>5, <1>8, <1>10, <1>11, <1>16, <1>17, WorksOn

(* grant_or_que() queues a newcomer. *)
LEMMA QueWaits_Order ==
    ASSUME IInv, OrderInv, NEW o \in Owners, QueWaits(o)
    PROVE  OrderInv'
<1> PICK r : r = sec.req
  OBVIOUS
<1>1. /\ lhb_active_owner = o /\ sec.at = "grant_or_que" /\ ~ GrantAtOnce(r)
      /\ BeginWait(o, r)
      /\ UNCHANGED <<lbl_counts, lbl_state, lrq_owner, lrq_lock, lrq_requested,
                     lrq_state, lhb_active_owner, own_hung, alive>>
  BY DEF QueWaits
<1>2. /\ r \in Requests /\ lrq_owner[r] = o /\ lrq_lock[r] # NoLock /\ ~ Pending(r)
      /\ lrq_state[r] = LCK_none /\ pc[o] = "out" /\ lrq_requested[r] \in Granted
  BY <1>1 DEF IInv, SecInv
<1> PICK k \in Locks : k = lrq_lock[r]
  BY <1>2 DEF IInv, TableInv, TypeOK
<1>3. op[o].kind = "enq"
  BY <1>1, OrderParts DEF SectionOK
<1>4. lrq_requested[r] # lrq_state[r]
  BY <1>2, LevelsFact
<1>5. LOCK_ordering => lbl_pending_lrq_count[k] # 0 \/ ~ Grantable(r)
  BY <1>1, <1>2 DEF GrantAtOnce, Grantable
<1> QED
  BY <1>1, <1>2, <1>3, <1>4, <1>5, BeginWaitOrder

(* convert() queues a conversion. *)
LEMMA ConvertWaits_Order ==
    ASSUME IInv, OrderInv, NEW o \in Owners, ConvertWaits(o)
    PROVE  OrderInv'
<1> PICK r : r = sec.req
  OBVIOUS
<1>1. /\ lhb_active_owner = o /\ sec.at = "convert" /\ ~ Convertible(r)
      /\ BeginWait(o, r)
      /\ UNCHANGED <<lbl_counts, lbl_state, lrq_owner, lrq_lock, lrq_requested,
                     lrq_state, lhb_active_owner, own_hung, alive>>
  BY DEF ConvertWaits
<1>2. /\ r \in Requests /\ lrq_owner[r] = o /\ lrq_lock[r] # NoLock /\ ~ Pending(r)
      /\ pc[o] = "out"
  BY <1>1 DEF IInv, SecInv
<1> PICK k \in Locks : k = lrq_lock[r]
  BY <1>2 DEF IInv, TableInv, TypeOK
<1>3. lrq_state[r] # LCK_none
  BY <1>1, OrderParts DEF SectionOK
<1>4. ~ Grantable(r)
  BY <1>1, <1>3 DEF Grantable, Convertible
<1>5. lrq_requested[r] # lrq_state[r]
  BY <1>1, <1>2, HeldFits DEF Convertible
<1> QED
  BY <1>1, <1>2, <1>3, <1>4, <1>5, BeginWaitOrder

(* A new request goes to the tail and does not wait yet. *)
LEMMA EnqInsert_Order ==
    ASSUME IInv, OrderInv, NEW o \in Owners, NEW r \in Requests, EnqInsert(o, r)
    PROVE  OrderInv'
<1> PICK k : k = op[o].lock
  OBVIOUS
<1>1. /\ lhb_active_owner = o /\ sec.at = "enq" /\ r \in FreeRequests
      /\ lrq_owner' = [lrq_owner EXCEPT ![r] = o]
      /\ lrq_lock' = [lrq_lock EXCEPT ![r] = k]
      /\ lrq_requested' = [lrq_requested EXCEPT ![r] = op[o].level]
      /\ lrq_state' = [lrq_state EXCEPT ![r] = LCK_none]
      /\ lrq_flags' = [lrq_flags EXCEPT ![r] = {}]
      /\ lbl_requests' = [lbl_requests EXCEPT ![k] = Append(@, r)]
      /\ sec' = [sec EXCEPT !.at = "grant_or_que", !.req = r]
      /\ UNCHANGED <<lbl_counts, lbl_state, lhb_active_owner, own_hung, alive, pc, op>>
  BY DEF EnqInsert, procVars
<1>2. TypeOK /\ k \in Locks /\ k # NoLock /\ op[o].kind = "enq"
  BY <1>1, OrderParts, ConstantsAssumption DEF IInv, TableInv, SecInv, SectionOK
<1>3. lrq_lock[r] = NoLock
  BY <1>1 DEF FreeRequests, IInv, TableInv, RequestInv
<1>4. sec'.at = "grant_or_que" /\ sec'.req = r
  BY <1>1, <1>2 DEF TypeOK, Secs
<1>5. \A s \in Requests : s # r => Untouched(s)
  BY <1>1, <1>2 DEF Untouched, Pending, TypeOK
<1>6. \A s \in Requests : /\ Serving(s)' <=> s = r
                          /\ ~ Serving(s)
  BY <1>1, <1>4 DEF Serving
<1>7. ASSUME NEW s \in Requests, s # r, lrq_lock[s] # NoLock
      PROVE  StillServed(s)
  <2>1. lrq_owner[s] \in Owners /\ lrq_owner'[s] = lrq_owner[s]
    BY <1>5, <1>7 DEF IInv, TableInv, TypeOK, RequestInv, Untouched
  <2>2. ~ Purging(lrq_owner[s])
    BY <1>1 DEF Purging
  <2>3. Responsible(s)
    BY <1>1, <2>1, <2>2, Bystander
  <2> QED
    BY <1>6, <2>3 DEF StillServed, Responsible
<1>8. /\ lrq_lock'[r] = k /\ lrq_state'[r] = LCK_none /\ lrq_flags'[r] = {}
  BY <1>1, <1>2 DEF TypeOK
<1>9. RequestOK(r)'
  BY <1>4, <1>8 DEF RequestOK, Dirty, Pending
<1>10. SectionOK' /\ WalkInv'
  BY <1>1, <1>2, <1>4 DEF SectionOK, WalkInv
<1>11. ASSUME NEW a \in Requests, NEW b \in Requests, lrq_lock[b] = k, Ahead(a, b)
       PROVE  Ahead(a, b)'
  <2> PICK q \in Seq(Requests) : q = lbl_requests[k]
    BY <1>2 DEF TypeOK
  <2>1. lbl_requests'[k] = Append(q, r)
    BY <1>1, <1>2 DEF TypeOK
  <2>2. lrq_lock'[b] = k
    BY <1>1, <1>2, <1>11 DEF TypeOK
  <2> PICK i \in 1 .. Len(q), j \in 1 .. Len(q) : q[i] = a /\ q[j] = b /\ i < j
    BY <1>11 DEF Ahead
  <2>3. /\ i \in 1 .. Len(Append(q, r)) /\ Append(q, r)[i] = a
        /\ j \in 1 .. Len(Append(q, r)) /\ Append(q, r)[j] = b
    OBVIOUS
  <2> QED
    BY <2>1, <2>2, <2>3 DEF Ahead
<1>12. ASSUME LOCK_ordering
       PROVE  Settled(k)'
  <2>1. Settled(k)
    BY <1>2, <1>12, OrderParts DEF SettledInv
  <2>2. ~ FirstPending(k, r)'
    BY <1>8 DEF FirstPending, Pending
  <2>3. ASSUME NEW s \in Requests, lrq_lock[s] = k, Dirty(s)
        PROVE  lrq_lock'[s] = k /\ Dirty(s)' /\ ~ Serving(s)'
    <3>1. s # r
      BY <1>2, <1>3, <2>3
    <3> QED
      BY <1>5, <1>6, <2>3, <3>1 DEF Untouched, Dirty
  <2> QED
    BY <1>1, <1>2, <1>3, <1>5, <1>11, <2>1, <2>2, <2>3, SettledBut
<1>13. \A l \in Locks \ {k} : lbl_requests'[l] = lbl_requests[l]
  BY <1>1, <1>2 DEF TypeOK
<1> QED
  BY <1>1, <1>2, <1>3, <1>5, <1>6, <1>7, <1>8, <1>9, <1>10, <1>12, <1>13, WorksOn

-----------------------------------------------------------------------------
(* The invariant.                                                          *)

(* An empty table. *)
LEMMA InitOrder == Init => OrderInv
<1> SUFFICES ASSUME Init
             PROVE  OrderInv
  OBVIOUS
<1>1. sec.at = "free" /\ \A r \in Requests : lrq_lock[r] = NoLock
  BY DEF Init, NoSec
<1>2. \A l \in Locks : l # NoLock
  BY ConstantsAssumption
<1> QED
  BY <1>1, <1>2 DEF OrderInv, NewcomerInv, WalkInv, RejectedInv, SettledInv, Settled, RequestsOf

(* A step that changes nothing. *)
LEMMA StutterOrder == IInv /\ OrderInv /\ UNCHANGED vars => OrderInv'
<1> SUFFICES ASSUME IInv, OrderInv, UNCHANGED vars
             PROVE  OrderInv'
  OBVIOUS
<1>1. UNCHANGED <<lblVars, lrqVars, secVars, alive, pc, op>>
  BY DEF vars, procVars
<1>2. \A s \in Requests : lrq_lock[s] # NoLock => Responsible(s)
  BY <1>1 DEF Responsible, Abandoned, WaitedFor, Purging, lrqVars, secVars
<1> QED
  BY <1>1, <1>2, TableSame, SameSection DEF secVars

(* Every step of every process preserves OrderInv. *)
LEMMA NextOrder == IInv /\ OrderInv /\ [Next]_vars => OrderInv'
<1> SUFFICES ASSUME IInv, OrderInv, Next
             PROVE  OrderInv'
  BY StutterOrder
<1>1. PICK o \in Owners :
        \/ ClientCall(o) \/ Give(o)
        \/ SectionStep(o) \/ WaitStep(o)
        \/ SignalHandled(o) \/ SignalIgnored(o) \/ WaitForTable(o) \/ AstReturns(o)
        \/ Crash(o)
  BY DEF Next
<1>2. CASE ClientCall(o)
  BY <1>2, LOCK_enq_Order, LOCK_convert_Order, LOCK_re_post_Order, Enters_Order,
     LOCK_init_Order DEF ClientCall
<1>3. CASE Give(o)
  BY <1>3, Give_Order, LOCK_downgrade_Order DEF Give
<1>4. CASE SectionStep(o)
  BY <1>4, Calm_Order, PostGrant_Order, WalkEnds, Grants_Order, QueWaits_Order,
     QueDenied_Order, ConvertWaits_Order, Forgets_Order, PostBlock_Order,
     PurgeOwner_Order, AstNext_Order, EnqInsert_Order, PurgeRequest_Order,
     ScanVictim_Order DEF SectionStep
<1>5. CASE WaitStep(o)
  BY <1>5, Outside_Order, WaitReturns_Order, Enters_Order, WokenTimedOut_Order,
     EnqRejected_Order, ConvertRejected_Order DEF WaitStep
<1>6. CASE SignalHandled(o) \/ SignalIgnored(o) \/ WaitForTable(o) \/ AstReturns(o) \/ Crash(o)
  BY <1>6, Enters_Order, Outside_Order, Crash_Order
<1> QED
  BY <1>1, <1>2, <1>3, <1>4, <1>5, <1>6

(* With the lock table's invariant, what the order of grants rests on      *)
(* holds in every reachable state: post_pending grants every waiter it     *)
(* passes, and the first waiter of a lock it is not at cannot be granted.  *)
THEOREM OrderInvariance ==
    ASSUME BlockagesFit
    PROVE  Spec => [](IInv /\ OrderInv)
<1>1. Init => OrderInv
  BY InitOrder
<1>2. IInv /\ OrderInv /\ [Next]_vars => OrderInv'
  BY NextOrder
<1>3. Spec => [](IInv /\ BlockageInv)
  BY Invariance
<1> QED
  BY <1>1, <1>2, <1>3, PTL DEF Spec

-----------------------------------------------------------------------------
(* The first waiter.                                                       *)

(* No section ends with a first waiter that could be granted, when the     *)
(* grant order option is on: release_request, convert, downgrade, the      *)
(* rejection of a request and every grant are followed by post_pending,    *)
(* or by the cleaning up of a rejected request, which is.                  *)
THEOREM NoGrantForgotten ==
    ASSUME BlockagesFit, LOCK_ordering
    PROVE  Spec => []NoForgottenGrant
<1>1. IInv /\ OrderInv => NoForgottenGrant
  <2> SUFFICES ASSUME IInv, OrderInv, lhb_active_owner = NoOwner,
                      NEW l \in Locks, NEW r \in RequestsOf(l), FirstPending(l, r)
               PROVE  ~ Grantable(r) \/ Uncleaned(l)
    BY DEF NoForgottenGrant
  <2>1. sec.at = "free"
    BY FreeTable
  <2>2. Settled(l)
    BY OrderParts DEF SettledInv
  <2> QED
    BY <2>1, <2>2 DEF Settled, Uncleaned, Dirty
<1>2. Spec => [](IInv /\ OrderInv)
  BY OrderInvariance
<1> QED
  BY <1>1, <1>2, PTL

-----------------------------------------------------------------------------
(* Newcomers.                                                              *)

(* A step that leaves the levels alone, or takes one away. *)
Lowers ==
    \/ UNCHANGED lrq_state
    \/ \E x \in Requests : lrq_state' = [lrq_state EXCEPT ![x] = LCK_none]

(* Releasing a request takes its level away. *)
LEMMA ReleaseLowers ==
    ASSUME NEW r \in Requests, NEW after, ReleaseRequest(r, after)
    PROVE  Lowers
<1>1. lrq_state' = [lrq_state EXCEPT ![r] = LCK_none]
  BY Zenon DEF ReleaseRequest
<1> QED
  BY <1>1 DEF Lowers

(* Only the three places that call grant() raise a level. *)
LEMMA OnlyGrantsRaise ==
    ASSUME IInv, Next
    PROVE  \/ Lowers
           \/ \E o \in Owners : PostGrant(o) \/ QueGranted(o) \/ ConvertGranted(o)
<1>1. PICK o \in Owners :
        \/ ClientCall(o) \/ Give(o)
        \/ SectionStep(o) \/ WaitStep(o)
        \/ SignalHandled(o) \/ SignalIgnored(o) \/ WaitForTable(o) \/ AstReturns(o)
        \/ Crash(o)
  BY DEF Next
<1>2. CASE ClientCall(o)
  <2>1. ASSUME NEW l \in Locks, NEW m \in Levels, NEW w \in Waits, NEW a \in AstArgs,
               NEW p \in Requests \cup {NoReq}, LOCK_enq(o, l, m, w, a, p)
        PROVE  Lowers
    <3>1. \/ UNCHANGED lrqVars
          \/ p \in Callable(o) /\ ReleaseRequest(p, "enq")
      BY <2>1, Zenon DEF LOCK_enq
    <3> QED
      BY <3>1, ReleaseLowers DEF Lowers, lrqVars, Callable, own_requests
  <2>2. CASE \E r \in Requests, m \in Levels, w \in Waits : LOCK_convert(o, r, m, w)
    BY <2>2 DEF LOCK_convert, Lowers
  <2>3. CASE LOCK_re_post(o) \/ LOCK_fini(o) \/ LOCK_init(o)
    BY <2>3 DEF LOCK_re_post, LOCK_fini, LOCK_init, Lowers, lrqVars
  <2> QED
    BY <1>2, <2>1, <2>2, <2>3 DEF ClientCall
<1>3. CASE Give(o)
  <2> PICK r \in Requests : LOCK_deq(o, r) \/ LOCK_downgrade(o, r)
    BY <1>3 DEF Give
  <2>1. ReleaseRequest(r, "release") \/ UNCHANGED lrq_state
    BY Zenon DEF LOCK_deq, LOCK_downgrade
  <2> QED
    BY <2>1, ReleaseLowers DEF Lowers
<1>4. CASE SectionStep(o)
  <2>1. CASE \/ ReleaseTable(o) \/ ReleaseMutex(o) \/ PostRefused(o) \/ PostDone(o)
             \/ EnqOutOfRoom(o) \/ QueWaits(o) \/ ConvertWaits(o)
             \/ ConvertDenied(o) \/ ConvertReset(o)
    BY <2>1 DEF ReleaseTable, ReleaseMutex, PostRefused, PostDone, EnqOutOfRoom,
         QueWaits, ConvertWaits, ConvertDenied, ConvertReset, Lowers, lrqVars
  <2>2. CASE \/ PostBlock(o) \/ PostBlockDone(o)
             \/ PurgeOwner(o) \/ ProbeDone(o) \/ Probed(o)
             \/ (\E v \in Owners : ProbeOwner(o, v))
             \/ ScanClear(o) \/ AstNext(o) \/ AstDone(o) \/ CreateOwner(o)
    BY <2>2 DEF PostBlock, PostBlockDone, PurgeOwner, ProbeDone,
         Probed, ProbeOwner, ScanClear, AstNext, AstDone, CreateOwner, Lowers, lrqVars
  <2>3. CASE QueDenied(o)
    <3>1. sec.req \in Requests /\ ReleaseRequest(sec.req, "release")
      BY <2>3 DEF QueDenied, IInv, SecInv
    <3> QED
      BY <3>1, ReleaseLowers
  <2>4. ASSUME NEW r \in Requests, EnqInsert(o, r) \/ PurgeRequest(o, r) \/ ScanVictim(o, r)
        PROVE  Lowers
    BY <2>4, ReleaseLowers DEF EnqInsert, PurgeRequest, ScanVictim, Lowers
  <2> QED
    BY <1>4, <2>1, <2>2, <2>3, <2>4 DEF SectionStep
<1>5. CASE WaitStep(o)
  <2>1. CASE EnqRejected(o)
    <3>1. op[o].req \in Requests /\ ReleaseRequest(op[o].req, "release")
      BY <2>1 DEF EnqRejected, Main, IInv, WaitInv
    <3> QED
      BY <3>1, ReleaseLowers
  <2>2. CASE ~ EnqRejected(o)
    BY <1>5, <2>2 DEF WaitStep, WaitOver, WaitWoken, WaitReturns, WokenResolved,
         WokenTimedOut, WokenPending, ConvertRejected, Lowers, lrqVars
  <2> QED
    BY <2>1, <2>2
<1>6. CASE SignalHandled(o) \/ SignalIgnored(o) \/ WaitForTable(o) \/ AstReturns(o) \/ Crash(o)
  BY <1>6 DEF SignalHandled, SignalIgnored, WaitForTable, AstReturns, Crash, Lowers, lrqVars
<1> QED
  BY <1>1, <1>2, <1>3, <1>4, <1>5, <1>6

(* The step gives r its first level, past one that waits before it. *)
Overtakes(r) ==
    /\ lrq_lock[r] # NoLock /\ lrq_state[r] = LCK_none /\ lrq_state'[r] > LCK_null
    /\ \E b \in RequestsOf(lrq_lock[r]) : Ahead(b, r) /\ Pending(b)

(* post_pending() grants the first waiter of the queue. *)
LEMMA PostGrantInOrder ==
    ASSUME IInv, OrderInv, LOCK_ordering, NEW o \in Owners, PostGrant(o),
           NEW r \in Requests
    PROVE  ~ Overtakes(r)
<1> SUFFICES ASSUME Overtakes(r)
             PROVE  FALSE
  OBVIOUS
<1> PICK i : i = NextPending
  OBVIOUS
<1> PICK k : k = sec.lock
  OBVIOUS
<1> PICK x : x = lbl_requests[k][i]
  OBVIOUS
<1>1. /\ sec.at = "post" /\ PendingAhead # {}
      /\ lrq_state' = [lrq_state EXCEPT ![x] = lrq_requested[x]]
  BY DEF PostGrant, Grant
<1>2. r = x
  BY <1>1, LevelsFact DEF Overtakes, IInv, TableInv, TypeOK
<1>3. k \in Locks /\ lrq_lock[r] = k
  BY <1>1, <1>2, NextPendingFacts
<1> PICK q \in Seq(Requests) : q = lbl_requests[k]
  BY <1>3 DEF IInv, TableInv, TypeOK
<1>4. Injective(q)
  BY <1>3 DEF IInv, TableInv, QueueInv
<1>5. /\ i \in 1 .. Len(q)
      /\ \A j \in 1 .. Len(q) : Pending(q[j]) => i <= j
  BY <1>1, FirstWaiter
<1> PICK m \in 1 .. Len(q), n \in 1 .. Len(q) : Pending(q[m]) /\ q[n] = r /\ m < n
  BY <1>3 DEF Overtakes, Ahead
<1>6. n = i
  BY <1>2, <1>4, <1>5 DEF Injective
<1> QED
  BY <1>5, <1>6

(* No step lets a newcomer overtake. *)
LEMMA StepsInOrder ==
    ASSUME IInv, OrderInv, LOCK_ordering, [Next]_vars, NEW r \in Requests
    PROVE  ~ Overtakes(r)
<1> SUFFICES ASSUME Overtakes(r)
             PROVE  FALSE
  OBVIOUS
<1>1. TypeOK
  BY DEF IInv, TableInv
<1>2. CASE Lowers \/ UNCHANGED vars
  <2>1. lrq_state'[r] = LCK_none
    BY <1>1, <1>2 DEF Lowers, Overtakes, TypeOK, vars, lrqVars
  <2> QED
    BY <2>1, LevelsFact DEF Overtakes
<1>3. ASSUME NEW o \in Owners, PostGrant(o)
      PROVE  FALSE
  BY <1>3, PostGrantInOrder
<1>4. ASSUME NEW o \in Owners, QueGranted(o)
      PROVE  FALSE
  <2> PICK x : x = sec.req
    OBVIOUS
  <2>1. GrantAtOnce(x) /\ lrq_state' = [lrq_state EXCEPT ![x] = lrq_requested[x]]
    BY <1>4 DEF QueGranted, Grant
  <2>2. r = x /\ lrq_requested[r] > LCK_null
    BY <1>1, <2>1, LevelsFact DEF Overtakes, TypeOK
  <2>3. lbl_pending_lrq_count[lrq_lock[r]] = 0
    BY <2>1, <2>2, LevelsFact DEF GrantAtOnce
  <2>4. lrq_lock[r] \in Locks
    BY <1>1 DEF Overtakes, TypeOK
  <2> QED
    BY <2>3, <2>4, NobodyWaits DEF Overtakes, RequestsOf
<1>5. ASSUME NEW o \in Owners, ConvertGranted(o)
      PROVE  FALSE
  <2> PICK x : x = sec.req
    OBVIOUS
  <2>1. /\ sec.at \in {"convert", "downgrade"}
        /\ lrq_state' = [lrq_state EXCEPT ![x] = lrq_requested[x]]
    BY <1>5 DEF ConvertGranted, Grant
  <2>2. lrq_state[x] # LCK_none
    BY <2>1, OrderParts DEF SectionOK
  <2>3. r # x
    BY <2>2 DEF Overtakes
  <2> QED
    BY <1>1, <2>1, <2>3, LevelsFact DEF Overtakes, TypeOK
<1> QED
  BY <1>2, <1>3, <1>4, <1>5, OnlyGrantsRaise

(* With the grant order option a new request gets a level above null only  *)
(* when nobody queued before it waits: grant_or_que looks at the count of  *)
(* pending requests, wait_for_request sends the newcomer to the tail, and  *)
(* post_pending stops at the first waiter it cannot grant.                 *)
THEOREM NewcomersWait ==
    ASSUME BlockagesFit
    PROVE  Spec => NoOvertaking
<1>1. IInv /\ OrderInv /\ [Next]_vars =>
        [LOCK_ordering => \A r \in Requests :
          (/\ lrq_lock[r] # NoLock /\ lrq_state[r] = LCK_none
           /\ lrq_state'[r] > LCK_null)
              => \A b \in RequestsOf(lrq_lock[r]) : Ahead(b, r) => ~ Pending(b)]_vars
  BY StepsInOrder DEF Overtakes
<1>2. Spec => [](IInv /\ OrderInv)
  BY OrderInvariance
<1> QED
  BY <1>1, <1>2, PTL DEF Spec, NoOvertaking

-----------------------------------------------------------------------------
(* What the engine is told.                                                *)

(* The parts of EngineInv that speak of one request. *)
EngineOK(r) ==
    /\ Pending(r) => lrq_requested[r] \in Levels
    /\ LCK_SW \in {lrq_requested[r], lrq_state[r]} => LCK_SW \in Levels
    /\ IF lrq_lock[r] = NoLock THEN lck_physical[r] = LCK_none ELSE Told(r)

(* The parts of it that speak of the processes and the section. *)
CallsOK == \A o \in Owners : op[o].level \in Levels \cup {LCK_none}

(* EngineInv is the conjunction of its parts. *)
LEMMA EngineParts ==
    EngineInv <=> PurgeInv /\ CallsOK /\ AnswerInv /\ \A r \in Requests : EngineOK(r)
BY DEF EngineInv, LevelInv, ToldInv, EngineOK, CallsOK

(* The same for the state after a step. *)
LEMMA EnginePartsPrime ==
    ASSUME PurgeInv', CallsOK', AnswerInv', \A r \in Requests : EngineOK(r)'
    PROVE  EngineInv'
BY DEF EngineInv, LevelInv, ToldInv, EngineOK, CallsOK

(* Whoever waits for the request goes on waiting for the same level. *)
Attended(s) ==
    /\ Abandoned(s) => Abandoned(s)'
    /\ WaitedFor(s)' <=> WaitedFor(s)
    /\ WaitedFor(s) => /\ op'[lrq_owner[s]].level = op[lrq_owner[s]].level
                       /\ pc'[lrq_owner[s]] = "denied" => pc[lrq_owner[s]] = "denied"

(* What the engine is told of a request stays right if neither it nor who  *)
(* waits for it changes.                                                   *)
LEMMA EngineKept ==
    ASSUME NEW s \in Requests, EngineOK(s), Untouched(s), lck_physical'[s] = lck_physical[s],
           lrq_lock[s] # NoLock => Attended(s)
    PROVE  EngineOK(s)'
<1>1. /\ Pending(s)' => lrq_requested'[s] \in Levels
      /\ LCK_SW \in {lrq_requested'[s], lrq_state'[s]} => LCK_SW \in Levels
      /\ lrq_lock'[s] = NoLock => lck_physical'[s] = LCK_none
  BY DEF EngineOK, Untouched
<1>2. ASSUME lrq_lock[s] # NoLock
      PROVE  Told(s)'
  <2>1. Attended(s) /\ Told(s)
    BY <1>2 DEF EngineOK
  <2> PICK u : u = lrq_owner[s]
    OBVIOUS
  <2>2. lrq_owner'[s] = u
    BY DEF Untouched
  <2> QED
    BY <2>1, <2>2 DEF Told, Attended, Untouched
<1> QED
  BY <1>1, <1>2 DEF EngineOK, Untouched

(* A request whose owner goes on, and if it waits, waits on. *)
LEMMA WaitsOn ==
    ASSUME NEW s \in Requests, lrq_owner'[s] = lrq_owner[s],
           lrq_owner[s] \in alive' => lrq_owner[s] \in alive,
           Purging(lrq_owner[s]) => Purging(lrq_owner[s])',
           pc[lrq_owner[s]] # "out" <=> pc'[lrq_owner[s]] # "out",
           pc[lrq_owner[s]] # "out" =>
             /\ op'[lrq_owner[s]] = op[lrq_owner[s]]
             /\ pc'[lrq_owner[s]] = "denied" => pc[lrq_owner[s]] = "denied"
    PROVE  Attended(s)
BY DEF Attended, Abandoned, WaitedFor, Purging

(* A step that works on request r alone. *)
LEMMA EngineWork ==
    ASSUME EngineInv, NEW r \in Requests,
           \A s \in Requests : s # r =>
             /\ Untouched(s) /\ lck_physical'[s] = lck_physical[s]
             /\ lrq_lock[s] # NoLock => Attended(s),
           EngineOK(r)', PurgeInv', CallsOK', AnswerInv'
    PROVE  EngineInv'
<1>1. ASSUME NEW s \in Requests
      PROVE  EngineOK(s)'
  <2>1. CASE s = r
    BY <2>1
  <2>2. CASE s # r
    BY <2>2, EngineParts, EngineKept
  <2> QED
    BY <2>1, <2>2
<1> QED
  BY <1>1, EnginePartsPrime

(* A step that leaves locks, levels and the engine alone. *)
LEMMA EngineQuiet ==
    ASSUME IInv', EngineInv, SameTable, lck_physical' = lck_physical,
           \A s \in Requests : lrq_lock[s] # NoLock => Attended(s),
           PurgeInv', CallsOK', AnswerInv'
    PROVE  EngineInv'
<1>1. ASSUME NEW s \in Requests
      PROVE  EngineOK(s)'
  <2>1. EngineOK(s)
    BY EngineParts
  <2>2. CASE lrq_lock[s] # NoLock
    BY <2>1, <2>2, EngineKept DEF SameTable
  <2>3. CASE lrq_lock[s] = NoLock
    <3>1. lrq_lock'[s] = NoLock /\ lrq_requested'[s] = lrq_requested[s] /\ lrq_state'[s] = lrq_state[s]
      BY <2>3 DEF SameTable
    <3>2. ~ Pending(s)'
      BY <3>1 DEF IInv, TableInv, RequestInv
    <3> QED
      BY <2>1, <2>3, <3>1, <3>2 DEF EngineOK
  <2> QED
    BY <2>2, <2>3
<1> QED
  BY <1>1, EnginePartsPrime

(* The table does not change, and the section neither. *)
LEMMA EngineSameSection ==
    ASSUME IInv, IInv', EngineInv,
           UNCHANGED <<lblVars, lrqVars, lhb_active_owner, sec>>, alive' \subseteq alive,
           \A u \in Owners : u # lhb_active_owner /\ op'[u] # op[u] =>
               op'[u].level = LCK_none,
           lhb_active_owner # NoOwner =>
             /\ op'[lhb_active_owner] = op[lhb_active_owner]
             /\ pc'[lhb_active_owner] # "out" <=> pc[lhb_active_owner] # "out"
    PROVE  PurgeInv' /\ CallsOK' /\ AnswerInv'
<1>1. PurgeInv /\ CallsOK /\ AnswerInv
  BY EngineParts
<1>2. PurgeInv'
  BY <1>1 DEF PurgeInv, Purging
<1>3. CallsOK'
  <2> SUFFICES ASSUME NEW u \in Owners
               PROVE  op'[u].level \in Levels \cup {LCK_none}
    BY DEF CallsOK
  <2>1. CASE op'[u] = op[u]
    BY <1>1, <2>1 DEF CallsOK
  <2>2. CASE op'[u] # op[u]
    <3>1. u # NoOwner
      BY ConstantsAssumption
    <3> QED
      BY <2>2, <3>1
  <2> QED
    BY <2>1, <2>2
<1>4. AnswerInv'
  <2>1. sec' = sec /\ lhb_active_owner' = lhb_active_owner
    OBVIOUS
  <2>2. lhb_active_owner = NoOwner => sec.at = "free"
    BY DEF IInv, SecInv
  <2>3. ASSUME sec.at = "downgrade"
        PROVE  Convertible(sec.req)' /\ ~ WaitedFor(sec.req)'
    <3> PICK r : r = sec.req
      OBVIOUS
    <3>1. r \in Requests /\ lrq_owner[r] = lhb_active_owner /\ Convertible(r) /\ ~ WaitedFor(r)
      BY <1>1, <2>3 DEF IInv, SecInv, AnswerInv
    <3>2. Convertible(r)'
      BY <3>1 DEF Convertible, CountsWithout, lock_state, lblVars, lrqVars
    <3>3. ~ WaitedFor(r)'
      BY <2>2, <2>3, <3>1 DEF WaitedFor, lrqVars
    <3> QED
      BY <2>1, <3>2, <3>3 DEF WaitedFor, Convertible, CountsWithout
  <2>4. sec.at \in {"grant_or_que", "convert"} =>
          lrq_requested'[sec'.req] = op'[lhb_active_owner'].level
    BY <1>1, <2>1, <2>2 DEF AnswerInv, lrqVars
  <2> QED
    BY <2>1, <2>3, <2>4 DEF AnswerInv
<1> QED
  BY <1>2, <1>3, <1>4

(* The waiting loop, signals and deaths, while a section may run. *)
LEMMA Outside_Engine ==
    ASSUME IInv, IInv', EngineInv, NEW o \in Owners,
           WaitOver(o) \/ WaitWoken(o) \/ SignalIgnored(o) \/ WaitForTable(o) \/ Crash(o)
    PROVE  EngineInv'
<1>1. /\ UNCHANGED <<lblVars, lrqVars, lhb_active_owner, sec, lck_physical>>
      /\ alive' \subseteq alive
      /\ op \in [Owners -> Ops] /\ pc \in [Owners -> Pcs]
  BY DEF WaitOver, WaitWoken, SignalIgnored, WaitForTable, Crash, secVars, procVars,
     IInv, TableInv, TypeOK
<1>2. SameTable
  BY <1>1, TableSame
<1>3. \A u \in Owners : \/ op'[u] = op[u]
                        \/ op'[u] = NoOp /\ Crash(o) /\ u = o
  BY <1>1 DEF WaitOver, WaitWoken, SignalIgnored, WaitForTable, Crash, procVars
<1>4. \A u \in Owners : ~ (Crash(o) /\ u = o) =>
          /\ pc'[u] # "out" <=> pc[u] # "out"
          /\ pc'[u] = "denied" => pc[u] = "denied"
  BY <1>1 DEF WaitOver, WaitWoken, SignalIgnored, WaitForTable, Crash, Main, procVars
<1>5. ASSUME NEW s \in Requests, lrq_lock[s] # NoLock
      PROVE  EngineOK(s)'
  <2>1. lrq_owner[s] \in Owners /\ EngineOK(s) /\ Untouched(s)
    BY <1>2, <1>5, EngineParts DEF IInv, TableInv, TypeOK, RequestInv, SameTable
  <2>2. CASE Crash(o) /\ lrq_owner[s] = o
    <3>1. Abandoned(s)'
      BY <1>1, <2>2 DEF Crash, Abandoned, lrqVars
    <3> QED
      BY <1>5, <2>1, <3>1 DEF EngineOK, Told, Untouched
  <2>3. CASE ~ (Crash(o) /\ lrq_owner[s] = o)
    <3>1. Attended(s)
      BY <1>1, <1>3, <1>4, <2>1, <2>3, WaitsOn DEF lrqVars, secVars, Purging
    <3> QED
      BY <1>1, <2>1, <3>1, EngineKept
  <2> QED
    BY <2>2, <2>3
<1>6. ASSUME NEW s \in Requests, lrq_lock[s] = NoLock
      PROVE  EngineOK(s)'
  BY <1>1, <1>6, EngineParts DEF EngineOK, Pending, lrqVars
<1>7. NoOp.level = LCK_none
  BY DEF NoOp
<1>8. lhb_active_owner # NoOwner => lhb_active_owner \in Owners /\ (Crash(o) => lhb_active_owner # o)
  BY DEF Crash, IInv, TableInv, TypeOK
<1>9. PurgeInv' /\ CallsOK' /\ AnswerInv'
  BY <1>1, <1>3, <1>4, <1>7, <1>8, EngineSameSection
<1> QED
  BY <1>5, <1>6, <1>9, EnginePartsPrime

(* wait_for_request() returns: granted, and the engine is told so, or rejected. *)
LEMMA WaitReturns_Engine ==
    ASSUME IInv, IInv', EngineInv, NEW o \in Owners, WaitReturns(o)
    PROVE  EngineInv'
<1> PICK r : r = op[o].req
  OBVIOUS
<1>1. /\ UNCHANGED <<lblVars, lrqVars, secVars, alive>> /\ lhb_active_owner # o
      /\ pc[o] = "resolved" /\ TypeOK
  BY DEF WaitReturns, Main, IInv, TableInv
<1>2. /\ r \in Requests /\ lrq_owner[r] = o /\ lrq_lock[r] # NoLock /\ ~ Pending(r)
      /\ WaitedFor(r)
  BY <1>1 DEF IInv, WaitInv, WaitedFor
<1>3. \A u \in Owners \ {o} : pc'[u] = pc[u] /\ op'[u] = op[u]
  BY <1>1 DEF WaitReturns, TypeOK
<1>4. \/ /\ "rejected" \in lrq_flags[r] /\ pc'[o] = "denied"
         /\ UNCHANGED <<op, lck_physical>>
      \/ /\ "rejected" \notin lrq_flags[r] /\ pc'[o] = "out" /\ op'[o] = NoOp
         /\ lck_physical' = [lck_physical EXCEPT ![r] = op[o].level]
  BY <1>1 DEF WaitReturns, Rejected, TypeOK
<1>5. \A s \in Requests : Untouched(s)
  BY <1>1 DEF Untouched, Pending, lrqVars
<1>6. \A s \in Requests : Abandoned(s)' <=> Abandoned(s)
  BY <1>1 DEF Abandoned, Purging, lrqVars, secVars
<1>7. ASSUME NEW s \in Requests, s # r
      PROVE  Untouched(s) /\ lck_physical'[s] = lck_physical[s] /\ (lrq_lock[s] # NoLock => Attended(s))
  <2>1. lck_physical'[s] = lck_physical[s]
    BY <1>1, <1>4, <1>7 DEF TypeOK
  <2>2. ASSUME lrq_lock[s] # NoLock
        PROVE  Attended(s)
    <3>1. lrq_owner[s] \in Owners /\ lrq_owner'[s] = lrq_owner[s]
      BY <1>1, <2>2 DEF IInv, TableInv, TypeOK, RequestInv, lrqVars
    <3>2. CASE lrq_owner[s] # o
      BY <1>3, <1>6, <3>1, <3>2 DEF Attended, WaitedFor
    <3>3. CASE lrq_owner[s] = o
      <4>1. ~ WaitedFor(s) /\ ~ WaitedFor(s)'
        BY <1>4, <1>7, <3>1, <3>3 DEF WaitedFor
      <4> QED
        BY <1>6, <4>1 DEF Attended
    <3> QED
      BY <3>2, <3>3
  <2> QED
    BY <1>5, <2>1, <2>2
<1>8. EngineOK(r)'
  <2>1. EngineOK(r) /\ Untouched(r)
    BY <1>2, <1>5, EngineParts
  <2>2. Told(r)
    BY <1>2, <2>1 DEF EngineOK
  <2>3. CASE Abandoned(r)
    BY <1>2, <1>6, <2>1, <2>3 DEF EngineOK, Told, Untouched
  <2>4. CASE ~ Abandoned(r) /\ "rejected" \in lrq_flags[r]
    <3>1. lck_physical[r] = lrq_state[r]
      BY <1>2, <2>2, <2>4 DEF Told
    <3>2. lck_physical'[r] = lck_physical[r]
      BY <1>4, <2>4
    <3>3. "rejected" \in lrq_flags'[r] /\ ~ Pending(r)' /\ lrq_state'[r] = lrq_state[r]
      BY <1>2, <2>1, <2>4 DEF Untouched
    <3>4. Told(r)'
      BY <3>1, <3>2, <3>3 DEF Told
    <3> QED
      BY <1>2, <2>1, <3>4 DEF EngineOK, Untouched
  <2>5. CASE ~ Abandoned(r) /\ "rejected" \notin lrq_flags[r]
    <3>1. lrq_state[r] = op[o].level
      BY <1>2, <2>2, <2>5 DEF Told
    <3>2. lck_physical'[r] = op[o].level /\ pc'[o] = "out"
      BY <1>1, <1>2, <1>4, <2>5 DEF TypeOK
    <3>3. ~ WaitedFor(r)' /\ lck_physical'[r] = lrq_state'[r]
      BY <1>2, <2>1, <3>1, <3>2 DEF WaitedFor, Untouched
    <3>4. Told(r)'
      BY <3>3 DEF Told
    <3> QED
      BY <1>2, <2>1, <3>4 DEF EngineOK, Untouched
  <2> QED
    BY <2>3, <2>4, <2>5
<1>9. NoOp.level = LCK_none
  BY DEF NoOp
<1>10. lhb_active_owner # NoOwner => lhb_active_owner \in Owners
  BY <1>1 DEF TypeOK
<1>11. PurgeInv' /\ CallsOK' /\ AnswerInv'
  BY <1>1, <1>3, <1>4, <1>9, <1>10, EngineSameSection DEF secVars
<1> QED
  BY <1>2, <1>7, <1>8, <1>11, EngineWork

(* A section that does nothing to the table, and prepares no answer. *)
LEMMA CalmEngine ==
    ASSUME IInv, IInv', EngineInv, UNCHANGED <<lblVars, lrqVars, lck_physical>>,
           \A u \in Owners : u \in alive' => u \in alive,
           \A u \in Owners :
             /\ Purging(u) => Purging(u)'
             /\ pc[u] # "out" <=> pc'[u] # "out"
             /\ pc[u] # "out" => op'[u] = op[u]
             /\ pc'[u] = "denied" => pc[u] = "denied"
             /\ op'[u] = op[u] \/ op'[u].level \in Levels \cup {LCK_none},
           sec'.at \notin {"grant_or_que", "convert", "downgrade"}, PurgeInv'
    PROVE  EngineInv'
<1>1. SameTable
  BY TableSame
<1>2. ASSUME NEW s \in Requests, lrq_lock[s] # NoLock
      PROVE  Attended(s)
  <2>1. lrq_owner[s] \in Owners
    BY <1>2 DEF IInv, TableInv, TypeOK, RequestInv
  <2> QED
    BY <2>1, WaitsOn DEF lrqVars
<1>3. CallsOK'
  <2> SUFFICES ASSUME NEW u \in Owners
               PROVE  op'[u].level \in Levels \cup {LCK_none}
    BY DEF CallsOK
  <2>1. op[u].level \in Levels \cup {LCK_none}
    BY EngineParts DEF CallsOK
  <2> QED
    BY <2>1
<1>4. AnswerInv'
  BY DEF AnswerInv
<1> QED
  BY <1>1, <1>2, <1>3, <1>4, EngineQuiet

(* None of these stages but the probing of the owners begins a purge. *)
LEMMA Calm_Purge ==
    ASSUME IInv, PurgeInv, NEW o \in Owners,
           \/ ReleaseTable(o) \/ ReleaseMutex(o) \/ EnqOutOfRoom(o)
           \/ PostRefused(o) \/ PostDone(o)
           \/ PostBlockDone(o) \/ ProbeDone(o)
           \/ \E v \in Owners : ProbeOwner(o, v)
           \/ AstDone(o) \/ ScanClear(o) \/ CreateOwner(o) \/ Probed(o)
    PROVE  /\ sec'.at \notin {"grant_or_que", "convert", "downgrade"}
           /\ \A u \in Owners : Purging(u) => Purging(u)'
           /\ PurgeInv'
<1>1. sec \in Secs
  BY DEF IInv, TableInv, TypeOK
<1>2. alive' = alive
  BY DEF ReleaseTable, ReleaseMutex, EnqOutOfRoom, PostRefused, PostDone,
         PostBlockDone, ProbeDone, ProbeOwner, AstDone, ScanClear, CreateOwner, Probed, procVars
<1>3. /\ sec'.at \notin {"grant_or_que", "convert", "downgrade"}
      /\ \A u \in Owners : Purging(u) => Purging(u)'
      /\ PurgeInv'
  <2>1. CASE ReleaseTable(o) \/ ReleaseMutex(o) \/ EnqOutOfRoom(o)
             \/ PostBlockDone(o) \/ AstDone(o)
    <3>1. sec.at \in {"release", "unlock", "enq", "block", "ast"}
      BY <2>1 DEF ReleaseTable, ReleaseMutex, EnqOutOfRoom, PostBlockDone, AstDone
    <3>2. sec'.at \in {"ast", "unlock", "free", "release"}
      BY <1>1, <2>1 DEF ReleaseTable, ReleaseMutex, EnqOutOfRoom,
         PostBlockDone, AstDone, At, Release, NoSec, Secs
    <3> QED
      BY <3>1, <3>2 DEF Purging, PurgeInv
  <2>2. CASE PostRefused(o) \/ PostDone(o)
    <3>1. /\ sec.at = "post" /\ sec'.posted = sec.posted /\ sec'.victim = sec.victim
          /\ sec'.at \in {sec.posted, "post"}
      BY <1>1, <2>2 DEF PostRefused, PostDone, At, Secs
    <3>2. sec.posted \in {"release", "enq", "reset", "purge"}
      BY <1>1 DEF Secs
    <3>3. lhb_active_owner' = lhb_active_owner
      BY <2>2 DEF PostRefused, PostDone
    <3>4. \A u \in Owners : Purging(u)' <=> Purging(u)
      BY <3>1, <3>2 DEF Purging
    <3>5. PurgeInv'
      BY <1>2, <3>3, <3>4 DEF PurgeInv
    <3> QED
      BY <3>1, <3>2, <3>4, <3>5
  <2>3. CASE ProbeDone(o)
    <3>1. sec.at = "probe" /\ sec'.at = sec.probed /\ sec.probed \in {"probed", "release"}
      BY <1>1, <2>3 DEF ProbeDone, At, Secs
    <3> QED
      BY <3>1 DEF Purging, PurgeInv
  <2>4. ASSUME NEW v \in Owners, ProbeOwner(o, v)
        PROVE  <1>3!1 /\ <1>3!2 /\ <1>3!3
    <3>1. sec.at = "probe" /\ sec'.at = "purge" /\ sec'.victim = v /\ v \notin alive
      BY <1>1, <2>4 DEF ProbeOwner, Purge, DeadOwners, Secs
    <3> QED
      BY <1>2, <3>1 DEF Purging, PurgeInv
  <2>5. CASE ScanClear(o)
    <3>1. sec.at = "scan" /\ sec'.at = "block"
      BY <1>1, <2>5 DEF ScanClear, Remind, Secs
    <3> QED
      BY <3>1 DEF Purging, PurgeInv
  <2>6. CASE CreateOwner(o)
    <3>1. sec.at = "create" /\ sec'.at = "probe"
      BY <2>6 DEF CreateOwner, NoSec
    <3> QED
      BY <3>1 DEF Purging, PurgeInv
  <2>7. CASE Probed(o)
    <3>1. sec.at = "probed" /\ sec'.at \in {"scan", "release"}
      BY <1>1, <2>7 DEF Probed, At, Release, NoSec, Secs
    <3> QED
      BY <3>1 DEF Purging, PurgeInv
  <2> QED
    BY <2>1, <2>2, <2>3, <2>4, <2>5, <2>6, <2>7
<1> QED
  BY <1>3

(* The stages between the work, and post_pending passing a request. *)
LEMMA Calm_Engine ==
    ASSUME IInv, IInv', EngineInv, NEW o \in Owners,
           \/ ReleaseTable(o) \/ ReleaseMutex(o) \/ EnqOutOfRoom(o)
           \/ PostRefused(o) \/ PostDone(o)
           \/ PostBlockDone(o) \/ ProbeDone(o)
           \/ \E v \in Owners : ProbeOwner(o, v)
           \/ AstDone(o) \/ ScanClear(o) \/ CreateOwner(o) \/ Probed(o)
    PROVE  EngineInv'
<1>1. sec \in Secs /\ pc \in [Owners -> Pcs] /\ op \in [Owners -> Ops]
  BY DEF IInv, TableInv, TypeOK
<1>2. UNCHANGED <<lblVars, lrqVars, alive, lck_physical>>
  BY DEF ReleaseTable, ReleaseMutex, EnqOutOfRoom, PostRefused, PostDone,
         PostBlockDone, ProbeDone, ProbeOwner, AstDone, ScanClear, CreateOwner, Probed, procVars
<1>3. /\ sec'.at \notin {"grant_or_que", "convert", "downgrade"}
      /\ \A u \in Owners : Purging(u) => Purging(u)'
      /\ PurgeInv'
  BY Calm_Purge, EngineParts
<1>4. \A u \in Owners :
        /\ pc[u] # "out" <=> pc'[u] # "out"
        /\ pc[u] # "out" => op'[u] = op[u]
        /\ pc'[u] = "denied" => pc[u] = "denied"
        /\ op'[u] = op[u] \/ op'[u].level \in Levels \cup {LCK_none}
  <2>1. CASE EnqOutOfRoom(o)
    <3>1. pc[o] = "out" /\ NoOp.level = LCK_none
      BY <2>1 DEF EnqOutOfRoom, IInv, SecInv, NoOp
    <3>2. pc' = pc /\ \A u \in Owners : op'[u] = op[u] \/ (u = o /\ op'[u] = NoOp)
      BY <1>1, <2>1 DEF EnqOutOfRoom
    <3> QED
      BY <3>1, <3>2
  <2>2. CASE Probed(o)
    <3>1. pc[o] = "wait"
      BY <2>2 DEF Probed, IInv, SecInv
    <3> QED
      BY <1>1, <2>2, <3>1 DEF Probed
  <2>3. CASE ~ EnqOutOfRoom(o) /\ ~ Probed(o)
    BY <2>3 DEF ReleaseTable, ReleaseMutex, PostRefused, PostDone,
         PostBlockDone, ProbeDone, ProbeOwner, AstDone, ScanClear, CreateOwner, procVars
  <2> QED
    BY <2>1, <2>2, <2>3
<1> QED
  BY <1>2, <1>3, <1>4, CalmEngine

(* Entering the table. *)
LEMMA Enters_Engine ==
    ASSUME IInv, IInv', EngineInv, NEW o \in Owners,
           \/ WokenResolved(o) \/ WokenPending(o) \/ SignalHandled(o)
           \/ AstReturns(o) \/ LOCK_fini(o)
    PROVE  EngineInv'
<1>1. sec \in Secs /\ pc \in [Owners -> Pcs] /\ op \in [Owners -> Ops]
  BY DEF IInv, TableInv, TypeOK
<1>2. UNCHANGED <<lblVars, lrqVars, alive, op, lck_physical>>
  BY DEF WokenResolved, WokenPending, SignalHandled, AstReturns, LOCK_fini
<1>3. sec.at = "free" /\ lhb_active_owner' = o
  BY FreeTable DEF WokenResolved, WokenPending, SignalHandled, AstReturns, LOCK_fini, Woken, acquire
<1>4. /\ sec'.at \in {"block", "probe", "release", "ast", "purge"}
      /\ sec'.at = "purge" => sec'.victim = o
  <2>1. CASE WokenPending(o)
    <3>1. Remind(op[o].req).at = "block"
      BY <1>1 DEF Remind, Secs
    <3>2. [NoSec EXCEPT !.at = "probe", !.probed = "probed", !.req = op[o].req].at = "probe"
      BY DEF NoSec
    <3> QED
      BY <2>1, <3>1, <3>2 DEF WokenPending
  <2>2. CASE WokenResolved(o)
    BY <2>2 DEF WokenResolved, Release, NoSec
  <2>3. CASE SignalHandled(o) \/ AstReturns(o) \/ LOCK_fini(o)
    BY <1>1, <2>3 DEF SignalHandled, AstReturns, LOCK_fini, At, Purge, Secs
  <2> QED
    BY <2>1, <2>2, <2>3
<1>5. \A u \in Owners : /\ pc[u] # "out" <=> pc'[u] # "out"
                        /\ pc'[u] = "denied" => pc[u] = "denied"
  BY <1>1 DEF WokenResolved, WokenPending, SignalHandled, AstReturns, LOCK_fini, Woken, Main
<1>6. PurgeInv' /\ \A u \in Owners : ~ Purging(u)
  BY <1>3, <1>4 DEF Purging, PurgeInv
<1> QED
  BY <1>2, <1>4, <1>5, <1>6, CalmEngine

(* A process that comes back finds none of its requests, or purges them. *)
LEMMA LOCK_init_Engine ==
    ASSUME IInv, IInv', EngineInv, NEW o \in Owners, LOCK_init(o)
    PROVE  EngineInv'
<1>1. /\ sec \in Secs /\ UNCHANGED <<lblVars, lrqVars, op, pc, lck_physical>>
      /\ alive' = alive \cup {o} /\ sec.at = "free" /\ lhb_active_owner' = o
  BY FreeTable DEF LOCK_init, acquire, IInv, TableInv, TypeOK
<1>2. SameTable
  BY <1>1, TableSame
<1>3. /\ sec'.at \in {"purge", "create"}
      /\ sec'.at = "purge" => sec'.victim = o
      /\ o \in lhb_owners => sec'.at = "purge"
  BY <1>1 DEF LOCK_init, Purge, At, Secs
<1>4. ASSUME NEW s \in Requests, lrq_lock[s] # NoLock
      PROVE  Attended(s)
  <2>1. lrq_owner[s] \in Owners /\ lrq_owner[s] \in lhb_owners /\ lrq_owner'[s] = lrq_owner[s]
    BY <1>1, <1>4 DEF IInv, TableInv, TypeOK, RequestInv, lrqVars
  <2>2. ~ Purging(lrq_owner[s])
    BY <1>1 DEF Purging
  <2>3. CASE lrq_owner[s] # o
    BY <1>1, <2>1, <2>2, <2>3, WaitsOn
  <2>4. CASE lrq_owner[s] = o
    <3>1. Purging(o)'
      BY <1>3, <2>1, <2>4 DEF Purging
    <3> QED
      BY <1>1, <2>1, <2>4, <3>1 DEF Attended, Abandoned, WaitedFor
  <2> QED
    BY <2>3, <2>4
<1>5. PurgeInv' /\ AnswerInv'
  BY <1>1, <1>3 DEF PurgeInv, Purging, AnswerInv
<1>6. CallsOK'
  BY <1>1, EngineParts DEF CallsOK
<1> QED
  BY <1>1, <1>2, <1>4, <1>5, <1>6, EngineQuiet

(* The blocking ASTs, and the end of a purge. *)
LEMMA EngineTable ==
    ASSUME IInv, IInv', EngineInv, SameTable, UNCHANGED <<alive, pc, op, lck_physical>>,
           \A s \in Requests : lrq_lock[s] # NoLock => ~ Purging(lrq_owner[s]),
           sec'.at \notin {"grant_or_que", "convert", "downgrade"}, PurgeInv'
    PROVE  EngineInv'
<1>1. ASSUME NEW s \in Requests, lrq_lock[s] # NoLock
      PROVE  Attended(s)
  BY <1>1, WaitsOn DEF SameTable, Untouched
<1>2. CallsOK' /\ AnswerInv'
  BY EngineParts DEF CallsOK, AnswerInv
<1> QED
  BY <1>1, <1>2, EngineQuiet

(* blocking_action2() takes a block off the queue. *)
LEMMA AstNext_Engine ==
    ASSUME IInv, IInv', EngineInv, NEW o \in Owners, AstNext(o)
    PROVE  EngineInv'
<1>1. sec.at = "ast" /\ sec'.at \in {"ast", "free"} /\ UNCHANGED <<alive, pc, op, lck_physical>>
  BY DEF AstNext, NoSec, secVars
<1> QED
  BY <1>1, AstNext_Table, EngineTable DEF Purging, PurgeInv

(* post_blockage() marks a request as blocking; a holder it cannot signal  *)
(* is dead.                                                                *)
LEMMA PostBlock_Engine ==
    ASSUME IInv, IInv', EngineInv, NEW o \in Owners, PostBlock(o)
    PROVE  EngineInv'
<1>1. UNCHANGED <<alive, pc, op, lck_physical>> /\ sec.at = "block" /\ sec \in Secs
  BY DEF PostBlock, IInv, TableInv, TypeOK
<1>2. /\ sec'.at \in {"block", "purge"}
      /\ sec'.at = "purge" => sec'.victim \notin alive
  BY <1>1 DEF PostBlock, Secs, SignalFails
<1>3. PurgeInv'
  BY <1>1, <1>2 DEF PurgeInv, Purging
<1> QED
  BY <1>1, <1>2, <1>3, PostBlock_Table, EngineTable DEF Purging

(* A repost has no lock. *)
LEMMA LOCK_re_post_Engine ==
    ASSUME IInv, IInv', EngineInv, NEW o \in Owners, LOCK_re_post(o)
    PROVE  EngineInv'
<1>1. UNCHANGED <<alive, pc, op, lck_physical>> /\ sec.at = "free" /\ sec \in Secs
  BY FreeTable DEF LOCK_re_post, acquire, procVars, IInv, TableInv, TypeOK
<1>2. sec'.at \in {"release", "ast"}
  BY <1>1 DEF LOCK_re_post, At, Release, NoSec, Secs
<1> QED
  BY <1>1, <1>2, LOCK_re_post_Table, EngineTable DEF Purging, PurgeInv

(* The end of purge_owner(): only reposts are left. *)
LEMMA PurgeOwner_Engine ==
    ASSUME IInv, IInv', EngineInv, NEW o \in Owners, PurgeOwner(o)
    PROVE  EngineInv'
<1>1. sec.at = "purge" /\ sec \in Secs
  BY DEF PurgeOwner, IInv, TableInv, TypeOK
<1>2. sec'.at \in {"unlock", "create", "block", "probe"} /\ UNCHANGED <<alive, pc, op, lck_physical>>
  BY <1>1 DEF PurgeOwner, At, Secs, procVars
<1> QED
  BY <1>1, <1>2, PurgeOwner_Table, EngineTable DEF Purging, PurgeInv

(* Owner o's step works on request r, and on o's own call at most if that  *)
(* call is about r.                                                        *)
LEMMA EngineActs ==
    ASSUME IInv, EngineInv, NEW o \in Owners, NEW r \in Requests,
           \A s \in Requests : s # r => Untouched(s) /\ lck_physical'[s] = lck_physical[s],
           alive' = alive, \A u \in Owners : Purging(u) => Purging(u)',
           \A u \in Owners \ {o} : pc'[u] = pc[u] /\ op'[u] = op[u],
           \/ pc'[o] = pc[o] /\ op'[o] = op[o]
           \/ /\ pc[o] # "out" => op[o].req = r
              /\ pc'[o] # "out" => op'[o].req = r,
           op'[o].level \in Levels \cup {LCK_none},
           EngineOK(r)', PurgeInv', AnswerInv'
    PROVE  EngineInv'
<1>1. ASSUME NEW s \in Requests, s # r, lrq_lock[s] # NoLock
      PROVE  Attended(s)
  <2>1. lrq_owner[s] \in Owners /\ lrq_owner'[s] = lrq_owner[s]
    BY <1>1 DEF IInv, TableInv, TypeOK, RequestInv, Untouched
  <2>2. CASE lrq_owner[s] # o \/ (pc'[o] = pc[o] /\ op'[o] = op[o])
    <3>1. pc'[lrq_owner[s]] = pc[lrq_owner[s]] /\ op'[lrq_owner[s]] = op[lrq_owner[s]]
      BY <2>1, <2>2
    <3> QED
      BY <2>1, <3>1, WaitsOn
  <2>3. CASE /\ lrq_owner[s] = o
             /\ pc[o] # "out" => op[o].req = r
             /\ pc'[o] # "out" => op'[o].req = r
    <3>1. ~ WaitedFor(s) /\ ~ WaitedFor(s)'
      BY <1>1, <2>1, <2>3 DEF WaitedFor
    <3>2. Abandoned(s) => Abandoned(s)'
      BY <2>1 DEF Abandoned
    <3> QED
      BY <3>1, <3>2 DEF Attended
  <2> QED
    BY <2>2, <2>3
<1>2. CallsOK'
  <2> SUFFICES ASSUME NEW u \in Owners
               PROVE  op'[u].level \in Levels \cup {LCK_none}
    BY DEF CallsOK
  <2>1. op[u].level \in Levels \cup {LCK_none}
    BY EngineParts DEF CallsOK
  <2> QED
    BY <2>1
<1> QED
  BY <1>1, <1>2, EngineWork

(* A request is released. *)
LEMMA ReleaseEngine ==
    ASSUME IInv, EngineInv, NEW o \in Owners, NEW r \in Requests, lrq_lock[r] \in Locks,
           NEW after \in {"release", "enq", "purge"}, ReleaseRequest(r, after),
           alive' = alive, \A u \in Owners : Purging(u) => Purging(u)',
           \A u \in Owners \ {o} : pc'[u] = pc[u] /\ op'[u] = op[u],
           \/ pc'[o] = pc[o] /\ op'[o] = op[o]
           \/ /\ pc[o] # "out" => op[o].req = r
              /\ pc'[o] = "out",
           op'[o].level \in Levels \cup {LCK_none}, PurgeInv'
    PROVE  EngineInv'
<1>1. Released(r, after)
  BY ReleaseFields
<1>2. /\ lrq_lock' = [lrq_lock EXCEPT ![r] = NoLock]
      /\ lrq_requested' = [lrq_requested EXCEPT ![r] = LCK_none]
      /\ lrq_state' = [lrq_state EXCEPT ![r] = LCK_none]
      /\ lck_physical' = [lck_physical EXCEPT ![r] = LCK_none]
  BY Zenon DEF ReleaseRequest
<1>3. TypeOK
  BY DEF IInv, TableInv
<1>4. \A s \in Requests : s # r => Untouched(s) /\ lck_physical'[s] = lck_physical[s]
  BY <1>1, <1>2, <1>3 DEF Untouched, Pending, Released, TypeOK
<1>5. EngineOK(r)'
  <2>1. /\ lrq_lock'[r] = NoLock /\ lck_physical'[r] = LCK_none
        /\ lrq_requested'[r] = LCK_none /\ lrq_state'[r] = LCK_none
    BY <1>2, <1>3 DEF TypeOK
  <2>2. ~ Pending(r)'
    BY <1>1 DEF Released, Pending
  <2> QED
    BY <2>1, <2>2, LevelsFact DEF EngineOK
<1>6. AnswerInv'
  BY <1>1 DEF Released, AnswerInv
<1> QED
  BY <1>4, <1>5, <1>6, EngineActs

(* A process gives up a request of its own. *)
LEMMA GiveReleases_Engine ==
    ASSUME IInv, EngineInv, NEW o \in Owners, NEW r \in Requests,
           MayCall(o), r \in Callable(o), acquire(o),
           NEW after \in {"release", "enq"}, ReleaseRequest(r, after),
           alive' = alive, pc' = pc, \A u \in Owners \ {o} : op'[u] = op[u],
           op'[o] = op[o] \/ pc[o] = "out",
           op'[o].level \in Levels \cup {LCK_none}
    PROVE  EngineInv'
<1>1. lhb_active_owner = NoOwner /\ lhb_active_owner' = o
  BY DEF acquire
<1>2. lrq_lock[r] \in Locks
  BY <1>1, CallableFacts
<1>3. \A u \in Owners : ~ Purging(u)
  BY <1>1, FreeSection
<1>4. PurgeInv'
  <2>1. Released(r, after)
    BY <1>2, ReleaseFields
  <2> QED
    BY <2>1 DEF Released, PurgeInv, Purging
<1> QED
  BY <1>2, <1>3, <1>4, ReleaseEngine

(* LOCK_deq(), and LOCK_downgrade() of a request nobody needs. *)
LEMMA Give_Engine ==
    ASSUME IInv, EngineInv, NEW o \in Owners, NEW r \in Requests,
           LOCK_deq(o, r) \/ (LOCK_downgrade(o, r) /\ ReleaseRequest(r, "release"))
    PROVE  EngineInv'
<1>1. op[o].level \in Levels \cup {LCK_none}
  BY EngineParts DEF CallsOK
<1>2. /\ MayCall(o) /\ r \in Callable(o) /\ acquire(o) /\ ReleaseRequest(r, "release")
      /\ UNCHANGED <<alive, pc, op>>
  BY DEF LOCK_deq, LOCK_downgrade
<1> QED
  BY <1>1, <1>2, GiveReleases_Engine

(* LOCK_enq(), with and without a prior request. *)
LEMMA LOCK_enq_Engine ==
    ASSUME IInv, IInv', EngineInv, NEW o \in Owners, NEW l \in Locks, NEW m \in Levels,
           NEW w \in Waits, NEW a \in AstArgs, NEW p \in Requests \cup {NoReq},
           LOCK_enq(o, l, m, w, a, p)
    PROVE  EngineInv'
<1>1. /\ MayCall(o) /\ acquire(o) /\ pc[o] = "out" /\ UNCHANGED <<alive, pc>>
      /\ lhb_active_owner = NoOwner /\ lhb_active_owner' = o
  BY DEF LOCK_enq, MayCall, acquire
<1>2. op'[o].level = m /\ \A u \in Owners \ {o} : op'[u] = op[u]
  BY <1>1 DEF LOCK_enq, IInv, TableInv, TypeOK
<1>3. CASE p \in Callable(o) /\ ReleaseRequest(p, "enq")
  <2>1. p \in Requests
    BY <1>3 DEF Callable, own_requests
  <2> QED
    BY <1>1, <1>2, <1>3, <2>1, GiveReleases_Engine
<1>4. CASE sec' = At("enq") /\ UNCHANGED <<lblVars, lrqVars, lck_physical>>
  <2>1. \A u \in Owners : ~ Purging(u)
    BY <1>1, FreeSection
  <2>2. sec'.at = "enq"
    BY <1>4 DEF At, IInv, TableInv, TypeOK, Secs
  <2>3. PurgeInv'
    BY <2>2 DEF PurgeInv, Purging
  <2> QED
    BY <1>1, <1>2, <1>4, <2>1, <2>2, <2>3, CalmEngine
<1> QED
  BY <1>3, <1>4, Zenon DEF LOCK_enq

(* grant_or_que() releases a request it may not queue. *)
LEMMA QueDenied_Engine ==
    ASSUME IInv, EngineInv, NEW o \in Owners, QueDenied(o)
    PROVE  EngineInv'
<1> PICK r : r = sec.req
  OBVIOUS
<1>1. /\ lhb_active_owner = o /\ sec.at = "grant_or_que"
      /\ ReleaseRequest(r, "release") /\ UNCHANGED <<alive, pc>>
      /\ op' = [op EXCEPT ![o] = NoOp]
  BY DEF QueDenied
<1>2. r \in Requests /\ lrq_lock[r] \in Locks /\ pc[o] = "out" /\ op \in [Owners -> Ops]
  BY <1>1 DEF IInv, SecInv, TableInv, TypeOK
<1>3. Released(r, "release")
  BY <1>1, <1>2, ReleaseFields
<1>4. PurgeInv' /\ \A u \in Owners : ~ Purging(u)
  BY <1>1, <1>3 DEF Purging, PurgeInv, Released
<1>5. /\ op'[o].level = LCK_none /\ pc'[o] = "out"
      /\ \A u \in Owners \ {o} : pc'[u] = pc[u] /\ op'[u] = op[u]
  BY <1>1, <1>2 DEF NoOp
<1> QED
  BY <1>1, <1>2, <1>4, <1>5, ReleaseEngine

(* purge_owner() releases the requests of a dead owner. *)
LEMMA PurgeRequest_Engine ==
    ASSUME IInv, EngineInv, NEW o \in Owners, NEW r \in Requests, PurgeRequest(o, r)
    PROVE  EngineInv'
<1>1. /\ sec.at = "purge" /\ ReleaseRequest(r, "purge")
      /\ UNCHANGED <<alive, pc, op, lhb_active_owner, own_hung>> /\ lrq_lock[r] \in Locks
  BY DEF PurgeRequest, own_requests, IInv, TableInv, TypeOK
<1>2. Released(r, "purge")
  BY <1>1, ReleaseFields
<1>3. \A u \in Owners : Purging(u)' <=> Purging(u)
  BY <1>1, <1>2 DEF Purging, Released
<1>4. PurgeInv' /\ op[o].level \in Levels \cup {LCK_none}
  BY <1>1, <1>3, EngineParts DEF PurgeInv, CallsOK
<1> QED
  BY <1>1, <1>3, <1>4, ReleaseEngine

(* A rejected newcomer is released by its owner. *)
LEMMA EnqRejected_Engine ==
    ASSUME IInv, EngineInv, NEW o \in Owners, EnqRejected(o)
    PROVE  EngineInv'
<1> PICK r : r = op[o].req
  OBVIOUS
<1>1. /\ acquire(o) /\ pc[o] = "denied" /\ o \in alive
      /\ ReleaseRequest(r, "release") /\ UNCHANGED alive
      /\ op' = [op EXCEPT ![o] = NoOp] /\ pc' = [pc EXCEPT ![o] = "out"]
      /\ lhb_active_owner = NoOwner
  BY DEF EnqRejected, Main, acquire
<1>2. r \in Requests /\ lrq_lock[r] \in Locks /\ op \in [Owners -> Ops] /\ pc \in [Owners -> Pcs]
  BY <1>1 DEF IInv, WaitInv, TableInv, TypeOK
<1>3. Released(r, "release")
  BY <1>1, <1>2, ReleaseFields
<1>4. PurgeInv' /\ \A u \in Owners : ~ Purging(u)
  BY <1>1, <1>3, FreeSection DEF Purging, PurgeInv, Released
<1>5. /\ op'[o].level = LCK_none /\ pc'[o] = "out"
      /\ \A u \in Owners \ {o} : pc'[u] = pc[u] /\ op'[u] = op[u]
  BY <1>1, <1>2 DEF NoOp
<1> QED
  BY <1>1, <1>2, <1>4, <1>5, ReleaseEngine

(* The request is filled in. *)
LEMMA EnqInsert_Engine ==
    ASSUME IInv, EngineInv, NEW o \in Owners, NEW r \in Requests, EnqInsert(o, r)
    PROVE  EngineInv'
<1>1. /\ lhb_active_owner = o /\ lhb_active_owner' = o /\ sec.at = "enq" /\ r \in FreeRequests
      /\ lrq_owner' = [lrq_owner EXCEPT ![r] = o]
      /\ lrq_lock' = [lrq_lock EXCEPT ![r] = op[o].lock]
      /\ lrq_requested' = [lrq_requested EXCEPT ![r] = op[o].level]
      /\ lrq_state' = [lrq_state EXCEPT ![r] = LCK_none]
      /\ lrq_flags' = [lrq_flags EXCEPT ![r] = {}]
      /\ sec' = [sec EXCEPT !.at = "grant_or_que", !.req = r]
      /\ UNCHANGED <<alive, pc, op, lck_physical>>
  BY DEF EnqInsert, procVars
<1>2. TypeOK
  BY DEF IInv, TableInv
<1>3. /\ pc[o] = "out" /\ op[o].level \in Granted /\ lrq_lock[r] = NoLock
      /\ lck_physical[r] = LCK_none /\ op[o].level \in Levels
  <2>1. pc[o] = "out" /\ op[o].level \in Granted /\ lrq_lock[r] = NoLock
    BY <1>1 DEF IInv, SecInv, TableInv, RequestInv, FreeRequests
  <2>2. lck_physical[r] = LCK_none /\ op[o].level \in Levels \cup {LCK_none}
    BY <2>1, EngineParts DEF EngineOK, CallsOK
  <2> QED
    BY <2>1, <2>2, LevelsFact
<1>4. \A s \in Requests : s # r => Untouched(s) /\ lck_physical'[s] = lck_physical[s]
  BY <1>1, <1>2 DEF Untouched, Pending, TypeOK
<1>5. /\ lrq_owner'[r] = o /\ lrq_requested'[r] = op[o].level /\ lrq_state'[r] = LCK_none
      /\ lrq_flags'[r] = {} /\ sec'.at = "grant_or_que" /\ sec'.req = r
  BY <1>1, <1>2 DEF TypeOK, Secs
<1>6. EngineOK(r)'
  <2>1. ~ Pending(r)' /\ ~ WaitedFor(r)' /\ lck_physical'[r] = lrq_state'[r]
    BY <1>1, <1>3, <1>5 DEF Pending, WaitedFor
  <2> QED
    BY <1>3, <1>5, <2>1, LevelsFact DEF EngineOK, Told
<1>7. \A u \in Owners : ~ Purging(u) /\ ~ Purging(u)'
  BY <1>1, <1>5 DEF Purging
<1>8. PurgeInv' /\ AnswerInv'
  BY <1>1, <1>5, <1>7 DEF PurgeInv, AnswerInv
<1>9. op'[o].level \in Levels \cup {LCK_none}
  BY <1>1, <1>3
<1> QED
  BY <1>1, <1>4, <1>6, <1>7, <1>8, <1>9, EngineActs

(* A rejected conversion leaves the engine what it held. *)
LEMMA ConvertRejected_Engine ==
    ASSUME IInv, EngineInv, NEW o \in Owners, ConvertRejected(o)
    PROVE  EngineInv'
<1> PICK r : r = op[o].req
  OBVIOUS
<1>1. /\ lhb_active_owner = NoOwner /\ pc[o] = "denied" /\ o \in alive
      /\ UNCHANGED <<lblVars, lrqVars, alive, lck_physical>>
      /\ op' = [op EXCEPT ![o] = NoOp] /\ pc' = [pc EXCEPT ![o] = "out"]
      /\ sec' = [PostPending(lrq_lock[r], "reset") EXCEPT !.req = r]
  BY DEF ConvertRejected, Main, acquire
<1>2. TypeOK
  BY DEF IInv, TableInv
<1>3. /\ r \in Requests /\ lrq_owner[r] = o /\ lrq_lock[r] # NoLock /\ ~ Pending(r)
      /\ WaitedFor(r)
  BY <1>1 DEF IInv, WaitInv, WaitedFor
<1>4. sec'.at = "post" /\ sec'.posted = "reset"
  BY <1>1, <1>2 DEF PostPending, TypeOK, Secs
<1>5. /\ \A u \in Owners : ~ Purging(u) /\ ~ Purging(u)'
      /\ AnswerInv' /\ PurgeInv'
  BY <1>1, <1>4, FreeSection DEF Purging, AnswerInv, PurgeInv
<1>6. lck_physical[r] = lrq_state[r]
  <2>1. EngineOK(r) /\ ~ Abandoned(r)
    BY <1>1, <1>3, <1>5, EngineParts DEF Abandoned
  <2> QED
    BY <1>1, <1>3, <2>1 DEF EngineOK, Told
<1>7. \A s \in Requests : Untouched(s) /\ lck_physical'[s] = lck_physical[s]
  BY <1>1 DEF Untouched, Pending, lrqVars
<1>8. /\ op'[o].level = LCK_none /\ pc'[o] = "out"
      /\ \A u \in Owners \ {o} : pc'[u] = pc[u] /\ op'[u] = op[u]
  BY <1>1, <1>2 DEF NoOp, TypeOK
<1>9. EngineOK(r)'
  <2>1. EngineOK(r)
    BY <1>3, EngineParts
  <2>2. ~ WaitedFor(r)' /\ lck_physical'[r] = lrq_state'[r]
    BY <1>3, <1>6, <1>7, <1>8 DEF WaitedFor, Untouched
  <2> QED
    BY <1>3, <1>7, <2>1, <2>2 DEF EngineOK, Untouched, Told
<1> QED
  BY <1>1, <1>3, <1>5, <1>7, <1>8, <1>9, EngineActs

(* The level LOCK_downgrade computes: the highest one, up to the level h   *)
(* held, that lets the pending level p in.  It fits what h fits, but for   *)
(* PR computed from SW.                                                    *)
LEMMA LowerLevel ==
    ASSUME NEW h \in States, NEW p \in States, NEW d \in States, NEW top \in States,
           d <= h, COMPATIBLE(p, d), d > LCK_null,
           \A k \in States : k <= h /\ COMPATIBLE(p, k) => k <= d,
           COMPATIBLE(h, top)
    PROVE  /\ ~ COMPATIBLE(d, top) => h = LCK_SW /\ p = LCK_PR
           /\ d = LCK_SW => LCK_SW \in {h, p}
<1>1. h \in 0 .. 6 /\ p \in 0 .. 6 /\ d \in 2 .. 6 /\ top \in 0 .. 6
  BY LevelsFact
<1>2. \A k \in 0 .. 6 : k <= h /\ COMPATIBLE(p, k) => k <= d
  BY LevelsFact
<1>3. ASSUME d = LCK_SW, h # LCK_SW
      PROVE  p = LCK_SW
  <2>1. ~ COMPATIBLE(p, LCK_PW) /\ COMPATIBLE(p, LCK_SW)
    BY <1>1, <1>2, <1>3, LevelsFact
  <2> QED
    BY <1>1, <2>1, LevelsFact DEF COMPATIBLE, CompatibleWith
<1>4. ASSUME ~ COMPATIBLE(d, top)
      PROVE  h = LCK_SW /\ p = LCK_PR
  <2>1. h = LCK_SW /\ d = LCK_PR
    BY <1>1, <1>4, LevelsFact DEF COMPATIBLE, CompatibleWith
  <2>2. ~ COMPATIBLE(p, LCK_SW) /\ COMPATIBLE(p, LCK_PR)
    BY <1>2, <2>1, LevelsFact
  <2> QED
    BY <1>1, <2>1, <2>2, LevelsFact DEF COMPATIBLE, CompatibleWith
<1> QED
  BY <1>3, <1>4

(* What LOCK_downgrade computes can be granted, unless it is PR computed   *)
(* from SW: then PR and SW are both asked for.                             *)
LEMMA DowngradedFits ==
    ASSUME IInv, EngineInv, DowngradesFit, "downgrade" \in Calls,
           NEW r \in Requests, lrq_lock[r] \in Locks,
           DowngradedState(r) \notin {LCK_none, LCK_null}
    PROVE  /\ COMPATIBLE(DowngradedState(r), lock_state(CountsWithout(r)))
           /\ DowngradedState(r) = LCK_SW => LCK_SW \in Levels
           /\ DowngradedState(r) \in States
<1> DEFINE asked == {lrq_requested[p] : p \in {p \in Requests \ {r} :
                        lrq_lock[p] = lrq_lock[r] /\ Pending(p)}}
           fit == {m \in LCK_none .. lrq_state[r] : COMPATIBLE(PendingState(r), m)}
<1> PICK h : h = lrq_state[r]
  OBVIOUS
<1> PICK p : p = PendingState(r)
  OBVIOUS
<1> PICK d : d = DowngradedState(r)
  OBVIOUS
<1> PICK top : top = lock_state(CountsWithout(r))
  OBVIOUS
<1>1. asked \in SUBSET States /\ asked \subseteq Levels
  <2>1. \A s \in Requests : Pending(s) => lrq_requested[s] \in Levels
    BY EngineParts DEF EngineOK
  <2> QED
    BY <2>1 DEF IInv, TableInv, TypeOK
<1>2. p = LCK_none \/ p \in Levels
  <2>1. CASE asked = {}
    BY <2>1 DEF PendingState
  <2>2. CASE asked # {}
    <3>1. \E m \in asked : \A k \in asked : k <= m
      BY <1>1, <2>2, MaxExists
    <3>2. p = CHOOSE m \in asked : \A k \in asked : k <= m
      BY <2>2 DEF PendingState
    <3> HIDE DEF asked
    <3> QED
      BY <1>1, <3>1, <3>2
  <2> QED
    BY <2>1, <2>2
<1>3. h \in States /\ p \in States
  <2>1. h \in States
    BY DEF IInv, TableInv, TypeOK
  <2>2. \A m \in Levels : m \in LCK_null .. LCK_EX
    BY ConstantsAssumption
  <2>3. p \in States
    BY <1>2, <2>2, LevelsFact
  <2> QED
    BY <2>1, <2>3
<1>4. d \in fit /\ \A k \in fit : k <= d
  <2>1. fit \in SUBSET States /\ LCK_none \in fit
    BY <1>3, CompatibleNone, LevelsFact
  <2>2. \E m \in fit : \A k \in fit : k <= m
    BY <2>1, MaxExists
  <2>3. d = CHOOSE m \in fit : \A k \in fit : k <= m
    BY DEF DowngradedState
  <2> HIDE DEF fit
  <2> QED
    BY <2>2, <2>3
<1>5. top \in States /\ COMPATIBLE(h, top)
  <2>1. CountsWithout(r) \in [Granted -> Nat]
    BY CountsWithoutFacts DEF IInv, TableInv
  <2> QED
    BY <2>1, LockStateMax, HeldFits
<1>6. /\ d \in States /\ d <= h /\ COMPATIBLE(p, d) /\ d > LCK_null
      /\ \A k \in States : k <= h /\ COMPATIBLE(p, k) => k <= d
  BY <1>3, <1>4, LevelsFact
<1>7. h = LCK_SW => LCK_SW \in Levels
  BY EngineParts DEF EngineOK
<1>8. /\ ~ COMPATIBLE(d, top) => h = LCK_SW /\ p = LCK_PR
      /\ d = LCK_SW => LCK_SW \in {h, p}
  BY <1>3, <1>5, <1>6, LowerLevel
<1>9. p = LCK_PR => LCK_PR \in Levels
  BY <1>2, LevelsFact
<1>10. p = LCK_SW => LCK_SW \in Levels
  BY <1>2, LevelsFact
<1> QED
  BY <1>6, <1>7, <1>8, <1>9, <1>10 DEF DowngradesFit, LevelsOrdered

(* A request asks for another level; convert() will answer. *)
LEMMA Asks_Engine ==
    ASSUME IInv, EngineInv, NEW o \in Owners, NEW r \in Requests,
           MayCall(o), r \in Callable(o), acquire(o), NEW m,
           NEW at \in {"convert", "downgrade"},
           lrq_requested' = [lrq_requested EXCEPT ![r] = m],
           lrq_flags' = [lrq_flags EXCEPT ![r] = @ \ {"blocking_seen"}],
           sec' = [NoSec EXCEPT !.at = at, !.req = r],
           UNCHANGED <<lblVars, lrq_owner, lrq_lock, lrq_state, alive, pc, lck_physical>>,
           \A u \in Owners \ {o} : op'[u] = op[u],
           op'[o] = op[o] \/ pc[o] = "out",
           op'[o].level \in Levels \cup {LCK_none},
           at = "convert" => op'[o].level = m,
           at = "downgrade" => COMPATIBLE(m, lock_state(CountsWithout(r))),
           m = LCK_SW => LCK_SW \in Levels
    PROVE  EngineInv'
<1>1. lhb_active_owner = NoOwner /\ lhb_active_owner' = o /\ TypeOK
  BY DEF acquire, IInv, TableInv
<1>2. /\ lrq_lock[r] \in Locks /\ lrq_lock[r] # NoLock /\ lrq_owner[r] = o
      /\ ~ Pending(r) /\ o \in alive
      /\ pc[o] # "out" => op[o].req # r
  BY <1>1, CallableFacts, ConstantsAssumption DEF MayCall
<1>3. sec'.at = at /\ sec'.req = r
  BY DEF NoSec
<1>4. \A u \in Owners : ~ Purging(u) /\ ~ Purging(u)'
  BY <1>1, <1>3, FreeSection DEF Purging
<1>5. \A s \in Requests : s # r => Untouched(s)
  BY <1>1 DEF Untouched, Pending, TypeOK
<1>6. ~ Pending(r)' /\ lrq_requested'[r] = m
  BY <1>1, <1>2 DEF Pending, TypeOK
<1>7. ~ WaitedFor(r)' /\ ~ WaitedFor(r) /\ ~ Abandoned(r)
  BY <1>2, <1>4 DEF WaitedFor, Abandoned
<1>8. EngineOK(r)'
  <2>1. EngineOK(r)
    BY EngineParts
  <2>2. lck_physical[r] = lrq_state[r]
    BY <1>2, <1>7, <2>1 DEF EngineOK, Told
  <2> QED
    BY <1>2, <1>6, <1>7, <2>1, <2>2 DEF EngineOK, Told
<1>9. AnswerInv'
  <2>1. CountsWithout(r)' = CountsWithout(r)
    BY DEF CountsWithout, lblVars
  <2>2. lock_state(CountsWithout(r))' = lock_state(CountsWithout(r))
    BY <2>1 DEF lock_state
  <2>3. at = "downgrade" => Convertible(r)'
    BY <1>6, <2>2 DEF Convertible
  <2>4. sec'.at = "downgrade" => Convertible(sec.req)' /\ ~ WaitedFor(sec.req)'
    BY <1>3, <1>7, <2>3
  <2>5. sec'.at \in {"grant_or_que", "convert"} =>
          lrq_requested'[sec'.req] = op'[lhb_active_owner'].level
    BY <1>1, <1>3, <1>6
  <2> QED
    BY <2>4, <2>5 DEF AnswerInv
<1>10. PurgeInv'
  BY <1>4 DEF PurgeInv
<1>11. \/ pc'[o] = pc[o] /\ op'[o] = op[o]
       \/ /\ pc[o] # "out" => op[o].req = r
          /\ pc'[o] # "out" => op'[o].req = r
  OBVIOUS
<1> QED
  BY <1>4, <1>5, <1>8, <1>9, <1>10, <1>11, EngineActs

(* LOCK_downgrade(), both ways. *)
LEMMA LOCK_downgrade_Engine ==
    ASSUME IInv, EngineInv, DowngradesFit, NEW o \in Owners, NEW r \in Requests,
           LOCK_downgrade(o, r)
    PROVE  EngineInv'
<1>1. CASE ReleaseRequest(r, "release")
  BY <1>1, Give_Engine
<1>2. CASE ~ ReleaseRequest(r, "release")
  <2>1. /\ MayCall(o) /\ r \in Callable(o) /\ acquire(o) /\ "downgrade" \in Calls
        /\ DowngradedState(r) \notin {LCK_none, LCK_null}
        /\ lrq_requested' = [lrq_requested EXCEPT ![r] = DowngradedState(r)]
        /\ lrq_flags' = [lrq_flags EXCEPT ![r] = @ \ {"blocking_seen"}]
        /\ sec' = [NoSec EXCEPT !.at = "downgrade", !.req = r]
        /\ UNCHANGED <<lblVars, lrq_owner, lrq_lock, lrq_state, alive, pc, op, lck_physical>>
    BY <1>2 DEF LOCK_downgrade
  <2>2. lrq_lock[r] \in Locks
    BY <2>1, CallableFacts DEF acquire
  <2>3. /\ COMPATIBLE(DowngradedState(r), lock_state(CountsWithout(r)))
        /\ DowngradedState(r) = LCK_SW => LCK_SW \in Levels
    BY <2>1, <2>2, DowngradedFits
  <2>4. op'[o].level \in Levels \cup {LCK_none}
    BY <2>1, EngineParts DEF CallsOK
  <2> QED
    BY <2>1, <2>3, <2>4, Asks_Engine
<1> QED
  BY <1>1, <1>2

(* LOCK_convert(). *)
LEMMA LOCK_convert_Engine ==
    ASSUME IInv, EngineInv, NEW o \in Owners, NEW r \in Requests, NEW m \in Levels,
           NEW w \in Waits, LOCK_convert(o, r, m, w)
    PROVE  EngineInv'
<1>1. pc[o] = "out" /\ MayCall(o) /\ r \in Callable(o) /\ acquire(o)
  BY DEF LOCK_convert, MayCall
<1>2. op'[o].level = m /\ \A u \in Owners \ {o} : op'[u] = op[u]
  BY DEF LOCK_convert, NoOp, IInv, TableInv, TypeOK
<1>3. /\ lrq_requested' = [lrq_requested EXCEPT ![r] = m]
      /\ lrq_flags' = [lrq_flags EXCEPT ![r] = @ \ {"blocking_seen"}]
      /\ sec' = [NoSec EXCEPT !.at = "convert", !.req = r]
      /\ UNCHANGED <<lblVars, lrq_owner, lrq_lock, lrq_state, alive, pc, lck_physical>>
  BY DEF LOCK_convert
<1> QED
  BY <1>1, <1>2, <1>3, Asks_Engine

(* A conversion is forgotten; what LOCK_downgrade computed never is, for   *)
(* convert() can give it.                                                  *)
LEMMA Forgets_Engine ==
    ASSUME IInv, EngineInv, NEW o \in Owners, ConvertDenied(o) \/ ConvertReset(o)
    PROVE  EngineInv'
<1> PICK r : r = sec.req
  OBVIOUS
<1>1. lhb_active_owner = o /\ TypeOK
  BY DEF ConvertDenied, ConvertReset, IInv, TableInv
<1>2. /\ sec.at \in {"convert", "reset"}
      /\ lrq_requested' = [lrq_requested EXCEPT ![r] = lrq_state[r]]
      /\ UNCHANGED <<lrq_owner, lrq_lock, lrq_state, lrq_flags, alive, pc, lck_physical>>
      /\ sec' = Release
      /\ op' = op \/ (op' = [op EXCEPT ![o] = NoOp] /\ pc[o] = "out")
  <2>1. CASE ConvertReset(o)
    BY <2>1 DEF ConvertReset, procVars
  <2>2. CASE ConvertDenied(o)
    <3>1. sec.at = "convert"
      <4>1. ~ Convertible(sec.req) /\ (sec.at = "downgrade" \/ sec.at = "convert")
        BY <2>2 DEF ConvertDenied
      <4> QED
        BY <4>1, EngineParts DEF AnswerInv
    <3>2. pc[o] = "out"
      BY <1>1, <3>1 DEF IInv, SecInv
    <3> QED
      BY <2>2, <3>1, <3>2 DEF ConvertDenied
  <2> QED
    BY <2>1, <2>2
<1>3. r \in Requests /\ ~ Pending(r)
  BY <1>2 DEF IInv, SecInv
<1>4. sec'.at = "release"
  BY <1>2 DEF Release, NoSec
<1>5. \A s \in Requests : s # r => Untouched(s)
  BY <1>1, <1>2 DEF Untouched, Pending, TypeOK
<1>6. /\ lrq_requested'[r] = lrq_state[r] /\ ~ Pending(r)'
      /\ \A u \in Owners : op'[u] = op[u] \/ (pc[u] = "out" /\ u = o /\ op'[u] = NoOp)
  BY <1>1, <1>2, <1>3 DEF Pending, TypeOK
<1>7. \A u \in Owners : ~ Purging(u)
  BY <1>2 DEF Purging
<1>8. EngineOK(r)'
  <2>1. EngineOK(r)
    BY <1>3, EngineParts
  <2>2. ASSUME lrq_lock[r] # NoLock
        PROVE  Told(r)'
    <3> PICK u \in Owners : u = lrq_owner[r]
      BY <1>3, <2>2 DEF IInv, TableInv, TypeOK, RequestInv
    <3>1. Told(r) /\ ~ Pending(r)
      BY <1>3, <2>1, <2>2 DEF EngineOK
    <3>2. Abandoned(r) => Abandoned(r)'
      BY <1>2, <1>7 DEF Abandoned
    <3>3. CASE pc[u] = "out"
      BY <1>2, <3>1, <3>2, <3>3 DEF Told, WaitedFor
    <3>4. CASE pc[u] # "out"
      <4>1. op'[u] = op[u]
        BY <1>6, <3>4
      <4> QED
        BY <1>2, <1>6, <3>1, <3>2, <4>1 DEF Told, WaitedFor
    <3> QED
      BY <3>3, <3>4
  <2> QED
    BY <1>2, <1>6, <2>1, <2>2 DEF EngineOK
<1>9. AnswerInv' /\ PurgeInv'
  BY <1>4 DEF AnswerInv, PurgeInv, Purging
<1>10. op'[o].level \in Levels \cup {LCK_none}
  <2>1. op[o].level \in Levels \cup {LCK_none}
    BY EngineParts DEF CallsOK
  <2> QED
    BY <1>6, <2>1 DEF NoOp
<1>11. /\ \A u \in Owners \ {o} : pc'[u] = pc[u] /\ op'[u] = op[u]
       /\ \/ pc'[o] = pc[o] /\ op'[o] = op[o]
          \/ /\ pc[o] # "out" => op[o].req = r
             /\ pc'[o] # "out" => op'[o].req = r
  BY <1>2, <1>6
<1> QED
  BY <1>2, <1>3, <1>5, <1>7, <1>8, <1>9, <1>10, <1>11, EngineActs

(* A waiter is rejected: the engine keeps what it held. *)
LEMMA Reject_Engine ==
    ASSUME IInv, EngineInv, NEW o \in Owners, NEW t \in Requests, Pending(t),
           lrq_flags' = [lrq_flags EXCEPT ![t] = (@ \ {"pending"}) \cup {"rejected"}],
           UNCHANGED <<lrq_owner, lrq_lock, lrq_requested, lrq_state, alive, op, lck_physical>>,
           \A u \in Owners : u # o => pc'[u] = pc[u],
           pc'[o] = pc[o] \/ (pc[o] # "out" /\ pc'[o] # "out" /\ op[o].req = t),
           sec.at \in {"free", "scan"}, sec' = Release
    PROVE  EngineInv'
<1>1. TypeOK /\ lrq_lock[t] # NoLock
  BY DEF IInv, TableInv, RequestInv
<1> PICK v \in Owners : v = lrq_owner[t]
  BY <1>1 DEF IInv, TableInv, TypeOK, RequestInv
<1>2. sec'.at = "release"
  BY DEF Release, NoSec
<1>3. \A u \in Owners : ~ Purging(u)
  BY DEF Purging
<1>4. \A s \in Requests : s # t => Untouched(s)
  BY <1>1 DEF Untouched, Pending, TypeOK
<1>5. "rejected" \in lrq_flags'[t] /\ ~ Pending(t)'
  BY <1>1 DEF TypeOK, Pending
<1>6. EngineOK(t)'
  <2>1. EngineOK(t) /\ Told(t)
    BY <1>1, EngineParts DEF EngineOK
  <2>2. Abandoned(t) => Abandoned(t)'
    BY <1>3 DEF Abandoned
  <2>3. WaitedFor(t)' <=> WaitedFor(t)
    BY DEF WaitedFor
  <2>4. Told(t)'
    BY <1>5, <2>1, <2>2, <2>3 DEF Told
  <2> QED
    BY <1>1, <1>5, <2>1, <2>4 DEF EngineOK
<1>7. AnswerInv' /\ PurgeInv'
  BY <1>2 DEF AnswerInv, PurgeInv, Purging
<1>8. op'[o].level \in Levels \cup {LCK_none}
  BY EngineParts DEF CallsOK
<1>9. \/ pc'[o] = pc[o] /\ op'[o] = op[o]
      \/ /\ pc[o] # "out" => op[o].req = t
         /\ pc'[o] # "out" => op'[o].req = t
  OBVIOUS
<1> QED
  BY <1>3, <1>4, <1>6, <1>7, <1>8, <1>9, EngineActs

(* deadlock_scan() rejects its victim. *)
LEMMA ScanVictim_Engine ==
    ASSUME IInv, EngineInv, NEW o \in Owners, NEW t \in Requests, ScanVictim(o, t)
    PROVE  EngineInv'
<1>1. Pending(t)
  BY DEF ScanVictim, Victims, Visited, PendingRequests
<1> QED
  BY <1>1, Reject_Engine DEF ScanVictim, procVars

(* wait_for_request() rejects its own request after the lock timeout. *)
LEMMA WokenTimedOut_Engine ==
    ASSUME IInv, EngineInv, NEW o \in Owners, WokenTimedOut(o)
    PROVE  EngineInv'
<1> PICK t : t = op[o].req
  OBVIOUS
<1>1. /\ Pending(t) /\ lhb_active_owner = NoOwner /\ pc[o] # "out"
      /\ lrq_flags' = [lrq_flags EXCEPT ![t] = (@ \ {"pending"}) \cup {"rejected"}]
      /\ UNCHANGED <<lrq_owner, lrq_lock, lrq_requested, lrq_state, alive, op, lck_physical>>
      /\ pc' = [pc EXCEPT ![o] = "resolved"] /\ sec' = Release
  BY DEF WokenTimedOut, Woken, Main, acquire
<1>2. t \in Requests
  BY <1>1 DEF IInv, WaitInv
<1>3. pc'[o] = "resolved" /\ \A u \in Owners : u # o => pc'[u] = pc[u]
  BY <1>1 DEF IInv, TableInv, TypeOK
<1> QED
  BY <1>1, <1>2, <1>3, FreeTable, Reject_Engine

(* post_pending() grants a waiter what it asked for; its owner will be     *)
(* told so.                                                                *)
LEMMA PostGrant_Engine ==
    ASSUME IInv, EngineInv, NEW o \in Owners, PostGrant(o)
    PROVE  EngineInv'
<1> PICK i : i = NextPending
  OBVIOUS
<1> PICK r : r = lbl_requests[sec.lock][i]
  OBVIOUS
<1>1. /\ sec.at = "post" /\ Grant(r, CountsWithout(r)) /\ sec' = AfterGrant(i)
      /\ PendingAhead # {}
      /\ UNCHANGED <<lrq_owner, lrq_lock, lrq_requested, alive, pc, op,
                     lhb_active_owner, own_hung, lck_physical>>
  BY DEF PostGrant, procVars
<1>2. TypeOK /\ r \in Requests /\ Pending(r) /\ lrq_lock[r] # NoLock
  <2>1. r \in Requests /\ Pending(r)
    BY <1>1, NextPendingFacts
  <2> QED
    BY <2>1 DEF IInv, TableInv, RequestInv
<1> PICK v \in Owners : v = lrq_owner[r]
  BY <1>2 DEF IInv, TableInv, TypeOK, RequestInv
<1>3. /\ lrq_state' = [lrq_state EXCEPT ![r] = lrq_requested[r]]
      /\ lrq_flags' = [lrq_flags EXCEPT ![r] = @ \ {"pending"}]
  BY <1>1 DEF Grant
<1>4. \A s \in Requests : s # r => Untouched(s)
  BY <1>1, <1>2, <1>3 DEF Untouched, Pending, TypeOK
<1>5. /\ sec'.at = "post" /\ sec'.posted = sec.posted /\ sec'.victim = sec.victim
  <2>1. sec \in Secs
    BY DEF IInv, TableInv, TypeOK
  <2> QED
    BY <1>1, <2>1 DEF AfterGrant, Secs
<1>6. \A u \in Owners : Purging(u)' <=> Purging(u)
  BY <1>1, <1>5 DEF Purging
<1>7. /\ lrq_state'[r] = lrq_requested[r] /\ ~ Pending(r)'
      /\ "rejected" \in lrq_flags'[r] <=> "rejected" \in lrq_flags[r]
  BY <1>2, <1>3 DEF TypeOK, Pending
<1>8. EngineOK(r)'
  <2>1. EngineOK(r) /\ Told(r)
    BY <1>2, EngineParts DEF EngineOK
  <2>2. CASE Abandoned(r)
    <3>1. Abandoned(r)'
      BY <1>1, <1>6, <2>2 DEF Abandoned
    <3> QED
      BY <1>1, <1>2, <1>7, <2>1, <3>1 DEF EngineOK, Told
  <2>3. CASE ~ Abandoned(r)
    <3>1. WaitedFor(r) /\ pc[v] # "denied"
      BY <1>2, <2>3 DEF IInv, WaitInv, Abandoned, WaitedFor
    <3>2. lrq_requested[r] = op[v].level /\ "rejected" \notin lrq_flags[r]
      BY <1>2, <2>1, <2>3, <3>1 DEF Told
    <3>3. WaitedFor(r)'
      BY <1>1, <3>1 DEF WaitedFor
    <3>4. Told(r)'
      BY <1>1, <1>7, <3>1, <3>2, <3>3 DEF Told
    <3> QED
      BY <1>1, <1>2, <1>7, <2>1, <3>4 DEF EngineOK
  <2> QED
    BY <2>2, <2>3
<1>9. PurgeInv' /\ AnswerInv'
  BY <1>1, <1>5, <1>6, EngineParts DEF PurgeInv, AnswerInv
<1>10. op'[o].level \in Levels \cup {LCK_none}
  BY <1>1, EngineParts DEF CallsOK
<1> QED
  BY <1>1, <1>2, <1>4, <1>6, <1>8, <1>9, <1>10, EngineActs

(* grant_or_que() and convert() give the level the engine records. *)
LEMMA Grants_Engine ==
    ASSUME IInv, EngineInv, NEW o \in Owners, QueGranted(o) \/ ConvertGranted(o)
    PROVE  EngineInv'
<1> PICK r : r = sec.req
  OBVIOUS
<1>1. /\ sec.at \in {"grant_or_que", "convert", "downgrade"} /\ lhb_active_owner = o
      /\ sec' = PostPending(lrq_lock[r], "release")
      /\ UNCHANGED <<lrq_owner, lrq_lock, lrq_requested, alive, pc>>
      /\ lrq_state' = [lrq_state EXCEPT ![r] = lrq_requested[r]]
      /\ lrq_flags' = [lrq_flags EXCEPT ![r] = @ \ {"pending"}]
  BY DEF QueGranted, ConvertGranted, Grant
<1>2. /\ TypeOK /\ r \in Requests /\ lrq_owner[r] = o /\ lrq_lock[r] # NoLock /\ ~ Pending(r)
      /\ sec.at # "downgrade" => pc[o] = "out"
  BY <1>1 DEF IInv, SecInv, TableInv
<1>3. AnswerInv /\ CallsOK /\ EngineOK(r)
  BY <1>2, EngineParts
<1>4. lck_physical' = [lck_physical EXCEPT ![r] = lrq_requested[r]]
  <2>1. CASE QueGranted(o)
    BY <1>1, <1>3, <2>1 DEF QueGranted, AnswerInv
  <2>2. CASE ConvertGranted(o)
    BY <2>2 DEF ConvertGranted
  <2> QED
    BY <2>1, <2>2
<1>5. \/ op' = [op EXCEPT ![o] = NoOp] /\ pc[o] = "out"
      \/ op' = op /\ sec.at = "downgrade"
  BY <1>1, <1>2 DEF QueGranted, ConvertGranted
<1>6. sec'.at = "post" /\ sec'.posted = "release"
  <2>1. sec \in Secs
    BY DEF IInv, TableInv, TypeOK
  <2> QED
    BY <1>1, <2>1 DEF PostPending, Secs
<1>7. \A s \in Requests : s # r => Untouched(s) /\ lck_physical'[s] = lck_physical[s]
  BY <1>1, <1>2, <1>4 DEF Untouched, Pending, TypeOK
<1>8. \A u \in Owners : ~ Purging(u) /\ ~ Purging(u)'
  BY <1>1, <1>6 DEF Purging
<1>9. /\ lrq_state'[r] = lrq_requested[r] /\ ~ Pending(r)'
      /\ lck_physical'[r] = lrq_requested[r]
  BY <1>1, <1>2, <1>4 DEF TypeOK, Pending
<1>10. ~ WaitedFor(r)'
  <2>1. sec.at = "downgrade" => ~ WaitedFor(r)
    BY <1>3 DEF AnswerInv
  <2> QED
    BY <1>1, <1>2, <1>5, <2>1 DEF WaitedFor
<1>11. EngineOK(r)'
  BY <1>1, <1>2, <1>3, <1>9, <1>10 DEF EngineOK, Told
<1>12. PurgeInv' /\ AnswerInv'
  BY <1>6, <1>8 DEF PurgeInv, AnswerInv
<1>13. op'[o].level \in Levels \cup {LCK_none} /\ \A u \in Owners \ {o} : op'[u] = op[u]
  BY <1>2, <1>3, <1>5 DEF NoOp, TypeOK, CallsOK
<1>14. \/ pc'[o] = pc[o] /\ op'[o] = op[o]
       \/ /\ pc[o] # "out" => op[o].req = r
          /\ pc'[o] # "out" => op'[o].req = r
  BY <1>1, <1>5
<1> QED
  BY <1>1, <1>2, <1>7, <1>8, <1>11, <1>12, <1>13, <1>14, EngineActs

(* A request waits for what its owner's call asks for. *)
LEMMA BeginWait_Engine ==
    ASSUME IInv, EngineInv, NEW o \in Owners, QueWaits(o) \/ ConvertWaits(o)
    PROVE  EngineInv'
<1> PICK r : r = sec.req
  OBVIOUS
<1>1. /\ lhb_active_owner = o /\ sec.at \in {"grant_or_que", "convert"} /\ BeginWait(o, r)
      /\ UNCHANGED <<lrq_owner, lrq_lock, lrq_requested, lrq_state, alive, lck_physical>>
  BY DEF QueWaits, ConvertWaits
<1>2. /\ TypeOK /\ r \in Requests /\ lrq_owner[r] = o /\ lrq_lock[r] # NoLock /\ ~ Pending(r)
      /\ pc[o] = "out" /\ o \in alive /\ lrq_requested[r] \in Granted
  BY <1>1, ConstantsAssumption DEF IInv, SecInv, TableInv
<1>3. AnswerInv /\ CallsOK /\ EngineOK(r)
  BY <1>2, EngineParts
<1>4. /\ lrq_flags' = [lrq_flags EXCEPT ![r] = (@ \ {"rejected"}) \cup {"pending"}]
      /\ op' = [op EXCEPT ![o].req = r]
      /\ pc' = [pc EXCEPT ![o] = "wait"]
      /\ sec'.at = "block"
  <2>1. lrq_lock[r] \in Locks
    BY <1>2 DEF TypeOK
  <2>2. sec'.at = "block"
    BY <1>1, <1>2, <2>1, BeginWaitFields
  <2> QED
    BY <1>1, <2>2, Zenon DEF BeginWait
<1>5. \A s \in Requests : s # r => Untouched(s)
  BY <1>1, <1>2, <1>4 DEF Untouched, Pending, TypeOK
<1>6. op'[o].level = op[o].level /\ op'[o].req = r /\ pc'[o] = "wait"
  <2>1. op[o] \in Ops
    BY <1>2 DEF TypeOK
  <2>2. op' = [op EXCEPT ![o] = [op[o] EXCEPT !.req = r]]
    BY <1>4
  <2> QED
    BY <1>2, <1>4, <2>1, <2>2 DEF Ops, TypeOK
<1>7. \A u \in Owners \ {o} : pc'[u] = pc[u] /\ op'[u] = op[u]
  BY <1>2, <1>4 DEF TypeOK
<1>8. Pending(r)' /\ "rejected" \notin lrq_flags'[r]
  BY <1>2, <1>4 DEF TypeOK, Pending
<1>9. \A u \in Owners : ~ Purging(u) /\ ~ Purging(u)'
  BY <1>1, <1>4 DEF Purging
<1>10. EngineOK(r)'
  <2>1. lrq_requested[r] = op[o].level
    BY <1>1, <1>3 DEF AnswerInv
  <2>2. lrq_requested[r] \in Levels
    BY <1>2, <1>3, <2>1, LevelsFact DEF CallsOK
  <2>3. lck_physical[r] = lrq_state[r]
    <3>1. ~ Abandoned(r) /\ ~ WaitedFor(r)
      BY <1>2, <1>9 DEF Abandoned, WaitedFor
    <3> QED
      BY <1>2, <1>3, <3>1 DEF EngineOK, Told
  <2>4. WaitedFor(r)'
    BY <1>1, <1>2, <1>6 DEF WaitedFor
  <2>5. Told(r)'
    BY <1>1, <1>2, <1>6, <1>8, <2>1, <2>3, <2>4 DEF Told
  <2> QED
    BY <1>1, <1>2, <1>3, <2>2, <2>5 DEF EngineOK
<1>11. PurgeInv' /\ AnswerInv'
  BY <1>4, <1>9 DEF PurgeInv, AnswerInv
<1>12. op'[o].level \in Levels \cup {LCK_none}
  BY <1>3, <1>6 DEF CallsOK
<1>13. \/ pc'[o] = pc[o] /\ op'[o] = op[o]
       \/ /\ pc[o] # "out" => op[o].req = r
          /\ pc'[o] # "out" => op'[o].req = r
  BY <1>2, <1>6
<1> QED
  BY <1>1, <1>2, <1>5, <1>7, <1>9, <1>10, <1>11, <1>12, <1>13, EngineActs

(* An empty table, which no engine uses yet. *)
LEMMA InitEngine == Init => EngineInv
<1> SUFFICES ASSUME Init
             PROVE  EngineInv
  OBVIOUS
<1>1. sec.at = "free" /\ \A r \in Requests : lrq_lock[r] = NoLock /\ lrq_flags[r] = {}
  BY DEF Init, NoSec
<1>2. \A r \in Requests : /\ lrq_requested[r] = LCK_none /\ lrq_state[r] = LCK_none
                          /\ lck_physical[r] = LCK_none
  BY DEF Init
<1>3. \A r \in Requests : EngineOK(r)
  BY <1>1, <1>2, LevelsFact DEF EngineOK, Pending
<1>4. CallsOK
  BY DEF Init, CallsOK, NoOp
<1>5. PurgeInv /\ AnswerInv
  BY <1>1 DEF PurgeInv, Purging, AnswerInv
<1> QED
  BY <1>3, <1>4, <1>5, EngineParts

(* A step that changes nothing. *)
LEMMA StutterEngine == IInv /\ IInv' /\ EngineInv /\ UNCHANGED vars => EngineInv'
<1> SUFFICES ASSUME IInv, IInv', EngineInv, UNCHANGED vars
             PROVE  EngineInv'
  OBVIOUS
<1>1. UNCHANGED <<lblVars, lrqVars, secVars, alive, pc, op, lck_physical>>
  BY DEF vars, procVars
<1>2. \A s \in Requests : Attended(s)
  BY <1>1 DEF Attended, Abandoned, WaitedFor, Purging, lrqVars, secVars
<1>3. PurgeInv' /\ CallsOK' /\ AnswerInv'
  BY <1>1, EngineSameSection DEF secVars
<1> QED
  BY <1>1, <1>2, <1>3, TableSame, EngineQuiet

(* Every step of every process preserves EngineInv. *)
LEMMA NextEngine ==
    ASSUME DowngradesFit
    PROVE  IInv /\ IInv' /\ EngineInv /\ [Next]_vars => EngineInv'
<1> SUFFICES ASSUME IInv, IInv', EngineInv, Next
             PROVE  EngineInv'
  BY StutterEngine
<1>1. PICK o \in Owners :
        \/ ClientCall(o) \/ Give(o)
        \/ SectionStep(o) \/ WaitStep(o)
        \/ SignalHandled(o) \/ SignalIgnored(o) \/ WaitForTable(o) \/ AstReturns(o)
        \/ Crash(o)
  BY DEF Next
<1>2. CASE ClientCall(o)
  BY <1>2, LOCK_enq_Engine, LOCK_convert_Engine, LOCK_re_post_Engine, Enters_Engine,
     LOCK_init_Engine DEF ClientCall
<1>3. CASE Give(o)
  BY <1>3, Give_Engine, LOCK_downgrade_Engine DEF Give
<1>4. CASE SectionStep(o)
  BY <1>4, Calm_Engine, PostGrant_Engine, Grants_Engine, BeginWait_Engine,
     QueDenied_Engine, Forgets_Engine, PostBlock_Engine, PurgeOwner_Engine,
     AstNext_Engine, EnqInsert_Engine, PurgeRequest_Engine, ScanVictim_Engine DEF SectionStep
<1>5. CASE WaitStep(o)
  BY <1>5, Outside_Engine, WaitReturns_Engine, Enters_Engine, WokenTimedOut_Engine,
     EnqRejected_Engine, ConvertRejected_Engine DEF WaitStep
<1>6. CASE SignalHandled(o) \/ SignalIgnored(o) \/ WaitForTable(o) \/ AstReturns(o) \/ Crash(o)
  BY <1>6, Enters_Engine, Outside_Engine
<1> QED
  BY <1>1, <1>2, <1>3, <1>4, <1>5, <1>6

(* When clients that downgrade never ask for both PR and SW, the level the *)
(* engine records for a request (lck_physical) is the level the table      *)
(* holds for it, whenever the process is outside the lock manager: through *)
(* grants by other processes, rejected conversions, downgrades and purges. *)
THEOREM EngineIsTold ==
    ASSUME BlockagesFit, DowngradesFit
    PROVE  Spec => []EngineAgrees
<1>1. IInv /\ EngineInv => EngineAgrees
  <2> SUFFICES ASSUME IInv, EngineInv, NEW o \in alive, pc[o] = "out", lhb_active_owner # o,
                      NEW r \in own_requests(o)
               PROVE  lck_physical[r] = lrq_state[r]
    BY DEF EngineAgrees
  <2>1. r \in Requests /\ lrq_owner[r] = o /\ lrq_lock[r] # NoLock /\ o \in Owners
    BY DEF own_requests, IInv, TableInv, TypeOK
  <2>2. ~ Abandoned(r) /\ ~ WaitedFor(r)
    BY <2>1, EngineParts DEF Abandoned, WaitedFor, PurgeInv
  <2> QED
    BY <2>1, <2>2, EngineParts DEF EngineOK, Told
<1>2. Init => EngineInv
  BY InitEngine
<1>3. IInv /\ IInv' /\ EngineInv /\ [Next]_vars => EngineInv'
  BY NextEngine
<1>4. Spec => [](IInv /\ BlockageInv)
  BY Invariance
<1> QED
  BY <1>1, <1>2, <1>3, <1>4, PTL DEF Spec

-----------------------------------------------------------------------------
(* Who loses a level.                                                      *)

(* A purge that goes on, or none. *)
LEMMA PurgeGoesOn ==
    ASSUME PurgeInv, \A u \in Owners : u \notin alive => u \notin alive',
           lhb_active_owner' = lhb_active_owner,
           \A u \in Owners : Purging(u)' => Purging(u)
    PROVE  PurgeInv'
BY DEF PurgeInv

(* No purge is under way after the step. *)
LEMMA PurgeEnds ==
    ASSUME sec'.at # "purge", sec'.at = "post" => sec'.posted # "purge"
    PROVE  PurgeInv'
BY DEF PurgeInv, Purging

(* A request is released, outside a purge. *)
LEMMA ReleasePurge ==
    ASSUME IInv, NEW r \in Requests, lrq_lock[r] # NoLock,
           NEW after \in {"release", "enq"}, ReleaseRequest(r, after)
    PROVE  PurgeInv'
<1>1. lrq_lock[r] \in Locks
  BY DEF IInv, TableInv, TypeOK
<1>2. Released(r, after)
  BY <1>1, ReleaseFields
<1> QED
  BY <1>2, PurgeEnds DEF Released

(* The calls of the engine. *)
LEMMA Calls_Purge ==
    ASSUME IInv, NEW o \in Owners, ClientCall(o) \/ Give(o)
    PROVE  PurgeInv'
<1>1. sec \in Secs
  BY DEF IInv, TableInv, TypeOK
<1>2. ASSUME NEW l \in Locks, NEW m \in Levels, NEW w \in Waits, NEW a \in AstArgs,
             NEW p \in Requests \cup {NoReq}, LOCK_enq(o, l, m, w, a, p)
      PROVE  PurgeInv'
  <2>1. \/ sec' = At("enq")
        \/ p \in Callable(o) /\ ReleaseRequest(p, "enq")
    BY <1>2, Zenon DEF LOCK_enq
  <2>2. CASE sec' = At("enq")
    BY <1>1, <2>2, PurgeEnds DEF At, Secs
  <2>3. CASE p \in Callable(o) /\ ReleaseRequest(p, "enq")
    <3>1. p \in Requests /\ lrq_lock[p] # NoLock
      BY <2>3 DEF Callable, own_requests
    <3> QED
      BY <2>3, <3>1, ReleasePurge
  <2> QED
    BY <2>1, <2>2, <2>3
<1>3. ASSUME NEW r \in Requests, NEW m \in Levels, NEW w \in Waits, LOCK_convert(o, r, m, w)
      PROVE  PurgeInv'
  <2>1. sec'.at = "convert"
    BY <1>3 DEF LOCK_convert, NoSec
  <2> QED
    BY <2>1, PurgeEnds
<1>4. CASE LOCK_re_post(o)
  <2>1. sec'.at \in {"release", "ast"}
    BY <1>1, <1>4 DEF LOCK_re_post, At, Release, NoSec, Secs
  <2> QED
    BY <2>1, PurgeEnds
<1>5. CASE LOCK_fini(o) \/ LOCK_init(o)
  <2>1. /\ lhb_active_owner' = o
        /\ sec'.at \in {"purge", "create"}
        /\ sec'.at = "purge" => sec'.victim = o
    BY <1>1, <1>5 DEF LOCK_fini, LOCK_init, acquire, Purge, At, Secs
  <2> QED
    BY <2>1 DEF PurgeInv, Purging
<1>6. ASSUME NEW r \in Requests, LOCK_deq(o, r) \/ LOCK_downgrade(o, r)
      PROVE  PurgeInv'
  <2>1. /\ r \in Callable(o)
        /\ ReleaseRequest(r, "release") \/ sec' = [NoSec EXCEPT !.at = "downgrade", !.req = r]
    BY <1>6, Zenon DEF LOCK_deq, LOCK_downgrade
  <2>2. CASE ReleaseRequest(r, "release")
    <3>1. lrq_lock[r] # NoLock
      BY <2>1 DEF Callable, own_requests
    <3> QED
      BY <2>2, <3>1, ReleasePurge
  <2>3. CASE sec' = [NoSec EXCEPT !.at = "downgrade", !.req = r]
    BY <2>3, PurgeEnds DEF NoSec
  <2> QED
    BY <2>1, <2>2, <2>3
<1> QED
  BY <1>2, <1>3, <1>4, <1>5, <1>6 DEF ClientCall, Give

(* The work of a section. *)
LEMMA Section_Purge ==
    ASSUME IInv, PurgeInv, NEW o \in Owners, SectionStep(o)
    PROVE  PurgeInv'
<1>1. sec \in Secs
  BY DEF IInv, TableInv, TypeOK
<1>2. CASE PostGrant(o)
  <2>1. /\ alive' = alive /\ lhb_active_owner' = lhb_active_owner
        /\ \E i : sec' = AfterGrant(i)
    BY <1>2 DEF PostGrant, procVars
  <2>2. /\ sec.at = "post" /\ sec'.at = sec.at /\ sec'.posted = sec.posted
        /\ sec'.victim = sec.victim
    BY <1>1, <1>2, <2>1 DEF PostGrant, AfterGrant, Secs
  <2> QED
    BY <2>1, <2>2, PurgeGoesOn DEF Purging
<1>3. ASSUME NEW r \in Requests, EnqInsert(o, r) \/ ScanVictim(o, r)
      PROVE  PurgeInv'
  <2>1. sec'.at \in {"grant_or_que", "release"}
    BY <1>1, <1>3 DEF EnqInsert, ScanVictim, Release, NoSec, Secs
  <2> QED
    BY <2>1, PurgeEnds
<1>4. ASSUME NEW r \in Requests, PurgeRequest(o, r)
      PROVE  PurgeInv'
  <2>1. /\ sec.at = "purge" /\ ReleaseRequest(r, "purge")
        /\ alive' = alive /\ lhb_active_owner' = lhb_active_owner
        /\ lrq_lock[r] \in Locks
    BY <1>4 DEF PurgeRequest, own_requests, IInv, TableInv, TypeOK
  <2>2. Released(r, "purge")
    BY <2>1, ReleaseFields
  <2>3. \A u \in Owners : Purging(u)' => Purging(u)
    BY <2>1, <2>2 DEF Purging, Released
  <2> QED
    BY <2>1, <2>3, PurgeGoesOn
<1>5. CASE QueGranted(o) \/ ConvertGranted(o)
  <2>1. sec'.at = "post" /\ sec'.posted = "release"
    BY <1>1, <1>5 DEF QueGranted, ConvertGranted, PostPending, Secs
  <2> QED
    BY <2>1, PurgeEnds
<1>6. CASE QueWaits(o) \/ ConvertWaits(o)
  <2>1. sec'.at = "block"
    BY <1>1, <1>6 DEF QueWaits, ConvertWaits, BeginWait, Secs
  <2> QED
    BY <2>1, PurgeEnds
<1>7. CASE QueDenied(o)
  <2>1. sec.req \in Requests /\ lrq_lock[sec.req] # NoLock /\ ReleaseRequest(sec.req, "release")
    BY <1>7 DEF QueDenied, IInv, SecInv
  <2> QED
    BY <2>1, ReleasePurge
<1>8. CASE ConvertDenied(o) \/ ConvertReset(o)
  <2>1. sec'.at = "release"
    BY <1>8 DEF ConvertDenied, ConvertReset, Release, NoSec
  <2> QED
    BY <2>1, PurgeEnds
<1>9. CASE PostBlock(o)
  <2>1. /\ sec'.at \in {"block", "purge"} /\ alive' = alive
        /\ sec'.at = "purge" => sec'.victim \notin alive
    BY <1>1, <1>9 DEF PostBlock, Secs, SignalFails
  <2> QED
    BY <2>1 DEF PurgeInv, Purging
<1>10. CASE PurgeOwner(o)
  <2>1. sec'.at \in {"unlock", "create", "block", "probe"}
    BY <1>1, <1>10 DEF PurgeOwner, At, Secs
  <2> QED
    BY <2>1, PurgeEnds
<1>11. CASE AstNext(o)
  <2>1. sec'.at \in {"ast", "free"}
    BY <1>11 DEF AstNext, NoSec, secVars
  <2> QED
    BY <2>1, PurgeEnds
<1> QED
  BY <1>2, <1>3, <1>4, <1>5, <1>6, <1>7, <1>8, <1>9, <1>10, <1>11, Calm_Purge DEF SectionStep

(* The main thread in and after wait_for_request, signals and deaths. *)
LEMMA Others_Purge ==
    ASSUME IInv, PurgeInv, NEW o \in Owners,
           \/ WaitStep(o)
           \/ SignalHandled(o) \/ SignalIgnored(o) \/ WaitForTable(o) \/ AstReturns(o) \/ Crash(o)
    PROVE  PurgeInv'
<1>1. sec \in Secs
  BY DEF IInv, TableInv, TypeOK
<1>2. CASE \/ WaitOver(o) \/ WaitWoken(o) \/ WaitReturns(o) \/ SignalIgnored(o) \/ WaitForTable(o) \/ Crash(o)
  <2>1. UNCHANGED <<lhb_active_owner, sec>> /\ alive' \subseteq alive
    BY <1>2 DEF WaitOver, WaitWoken, WaitReturns, SignalIgnored, WaitForTable, Crash,
       secVars, procVars
  <2> QED
    BY <2>1, PurgeGoesOn DEF Purging
<1>3. CASE WokenResolved(o) \/ WokenTimedOut(o) \/ WokenPending(o)
  <2>1. sec'.at \in {"release", "block", "probe"}
    BY <1>1, <1>3 DEF WokenResolved, WokenTimedOut, WokenPending, Release, Remind, NoSec, Secs
  <2> QED
    BY <2>1, PurgeEnds
<1>4. CASE EnqRejected(o)
  <2>1. op[o].req \in Requests /\ lrq_lock[op[o].req] # NoLock /\ ReleaseRequest(op[o].req, "release")
    BY <1>4 DEF EnqRejected, Main, IInv, WaitInv
  <2> QED
    BY <2>1, ReleasePurge
<1>5. CASE ConvertRejected(o)
  <2>1. sec'.at = "post" /\ sec'.posted = "reset"
    BY <1>1, <1>5 DEF ConvertRejected, PostPending, Secs
  <2> QED
    BY <2>1, PurgeEnds
<1>6. CASE SignalHandled(o) \/ AstReturns(o)
  <2>1. sec'.at = "ast"
    BY <1>1, <1>6 DEF SignalHandled, AstReturns, At, Secs
  <2> QED
    BY <2>1, PurgeEnds
<1> QED
  BY <1>2, <1>3, <1>4, <1>5, <1>6 DEF WaitStep

(* Whoever is purged is dead, or purges itself on its way out or in. *)
LEMMA PurgeInvariance ==
    ASSUME BlockagesFit
    PROVE  Spec => [](IInv /\ PurgeInv)
<1>1. Init => PurgeInv
  BY DEF Init, NoSec, PurgeInv, Purging
<1>2. IInv /\ PurgeInv /\ Next => PurgeInv'
  BY Calls_Purge, Section_Purge, Others_Purge DEF Next
<1>3. PurgeInv /\ UNCHANGED vars => PurgeInv'
  BY DEF PurgeInv, Purging, vars, secVars, procVars
<1>4. Spec => [](IInv /\ BlockageInv)
  BY Invariance
<1> QED
  BY <1>1, <1>2, <1>3, <1>4, PTL DEF Spec

(* The step takes away some of the level r holds. *)
Lowered(r) == lrq_state[r] > lrq_state'[r]

(* A release lowers no other request. *)
LEMMA ReleaseLowersOne ==
    ASSUME IInv, NEW x \in Requests, NEW after, ReleaseRequest(x, after),
           NEW r \in Requests, Lowered(r)
    PROVE  r = x
<1>1. lrq_state' = [lrq_state EXCEPT ![x] = LCK_none]
  BY Zenon DEF ReleaseRequest
<1>2. lrq_state[r] \in Int
  BY LevelsFact DEF IInv, TableInv, TypeOK
<1> QED
  BY <1>1, <1>2 DEF Lowered, IInv, TableInv, TypeOK

(* The steps that call neither grant() nor release_request(). *)
LEMMA OthersLowerNone ==
    ASSUME IInv, NEW o \in Owners, NEW r \in Requests, Lowered(r)
    PROVE  /\ \A l \in Locks, m \in Levels, w \in Waits, a \in AstArgs,
                 p \in Requests \cup {NoReq} :
                 LOCK_enq(o, l, m, w, a, p) => p \in Callable(o) /\ ReleaseRequest(p, "enq")
           /\ ~ \E x \in Requests, m \in Levels, w \in Waits : LOCK_convert(o, x, m, w)
           /\ ~ (LOCK_re_post(o) \/ LOCK_fini(o) \/ LOCK_init(o))
           /\ \A x \in Requests : LOCK_downgrade(o, x) => ReleaseRequest(x, "release")
           /\ SectionStep(o) =>
                 \/ PostGrant(o) \/ QueGranted(o) \/ ConvertGranted(o) \/ QueDenied(o)
                 \/ \E x \in Requests : EnqInsert(o, x) \/ PurgeRequest(o, x)
           /\ WaitStep(o) => EnqRejected(o)
           /\ ~ (SignalHandled(o) \/ SignalIgnored(o) \/ WaitForTable(o) \/ AstReturns(o) \/ Crash(o))
<1>1. lrq_state[r] \in 0 .. 6
  BY LevelsFact DEF IInv, TableInv, TypeOK
<1>2. ~ UNCHANGED lrq_state
  BY <1>1 DEF Lowered
<1>3. \A l \in Locks, m \in Levels, w \in Waits, a \in AstArgs, p \in Requests \cup {NoReq} :
          LOCK_enq(o, l, m, w, a, p) => p \in Callable(o) /\ ReleaseRequest(p, "enq")
  <2> SUFFICES ASSUME NEW l \in Locks, NEW m \in Levels, NEW w \in Waits, NEW a \in AstArgs,
                      NEW p \in Requests \cup {NoReq}, LOCK_enq(o, l, m, w, a, p)
               PROVE  p \in Callable(o) /\ ReleaseRequest(p, "enq")
    OBVIOUS
  <2>1. \/ UNCHANGED lrqVars
        \/ p \in Callable(o) /\ ReleaseRequest(p, "enq")
    BY Zenon DEF LOCK_enq
  <2> QED
    BY <1>2, <2>1, Zenon DEF lrqVars
<1>4. ~ \E x \in Requests, m \in Levels, w \in Waits : LOCK_convert(o, x, m, w)
  BY <1>2 DEF LOCK_convert
<1>5. ~ (LOCK_re_post(o) \/ LOCK_fini(o) \/ LOCK_init(o))
  BY <1>2 DEF LOCK_re_post, LOCK_fini, LOCK_init, lrqVars
<1>6. \A x \in Requests : LOCK_downgrade(o, x) => ReleaseRequest(x, "release")
  <2> SUFFICES ASSUME NEW x \in Requests, LOCK_downgrade(o, x)
               PROVE  ReleaseRequest(x, "release")
    OBVIOUS
  <2>1. ReleaseRequest(x, "release") \/ UNCHANGED lrq_state
    BY Zenon DEF LOCK_downgrade
  <2> QED
    BY <1>2, <2>1
<1>7. ~ (\/ ReleaseTable(o) \/ ReleaseMutex(o) \/ PostRefused(o) \/ PostDone(o)
         \/ EnqOutOfRoom(o) \/ QueWaits(o) \/ ConvertWaits(o)
         \/ ConvertDenied(o) \/ ConvertReset(o))
  BY <1>2 DEF ReleaseTable, ReleaseMutex, PostRefused, PostDone, EnqOutOfRoom,
         QueWaits, ConvertWaits, ConvertDenied, ConvertReset, lrqVars
<1>8. ~ (\/ PostBlock(o) \/ PostBlockDone(o)
         \/ PurgeOwner(o) \/ ProbeDone(o) \/ Probed(o)
         \/ (\E v \in Owners : ProbeOwner(o, v))
         \/ (\E x \in Requests : ScanVictim(o, x))
         \/ ScanClear(o) \/ AstNext(o) \/ AstDone(o) \/ CreateOwner(o))
  BY <1>2 DEF PostBlock, PostBlockDone, PurgeOwner, ProbeDone, Probed,
         ProbeOwner, ScanVictim, ScanClear, AstNext, AstDone, CreateOwner, lrqVars
<1>9. SectionStep(o) =>
          \/ PostGrant(o) \/ QueGranted(o) \/ ConvertGranted(o) \/ QueDenied(o)
          \/ \E x \in Requests : EnqInsert(o, x) \/ PurgeRequest(o, x)
  BY <1>7, <1>8, Zenon DEF SectionStep
<1>10. WaitStep(o) => EnqRejected(o)
  BY <1>2 DEF WaitStep, WaitOver, WaitWoken, WaitReturns, WokenResolved,
         WokenTimedOut, WokenPending, ConvertRejected, lrqVars
<1>11. ~ (SignalHandled(o) \/ SignalIgnored(o) \/ WaitForTable(o) \/ AstReturns(o) \/ Crash(o))
  BY <1>2 DEF SignalHandled, SignalIgnored, WaitForTable, AstReturns, Crash, lrqVars
<1> QED
  BY <1>3, <1>4, <1>5, <1>6, <1>9, <1>10, <1>11, Zenon

(* A level goes with the consent of its owner, or with its death. *)
LEMMA LevelsKept ==
    ASSUME IInv, PurgeInv, [Next]_vars, NEW r \in Requests, Lowered(r)
    PROVE  \/ lrq_owner[r] = lhb_active_owner'
           \/ lrq_owner[r] \notin alive
           \/ Pending(r) /\ lrq_state'[r] = lrq_requested[r]
<1>1. TypeOK /\ lrq_state[r] \in 0 .. 6
  BY LevelsFact DEF IInv, TableInv, TypeOK
<1>2. Next
  BY <1>1 DEF Lowered, vars, lrqVars
<1>3. PICK o \in Owners :
        \/ ClientCall(o) \/ Give(o)
        \/ SectionStep(o) \/ WaitStep(o)
        \/ SignalHandled(o) \/ SignalIgnored(o) \/ WaitForTable(o) \/ AstReturns(o)
        \/ Crash(o)
  BY <1>2 DEF Next
<1>4. CASE ClientCall(o)
  <2>1. PICK l \in Locks, m \in Levels, w \in Waits, a \in AstArgs, p \in Requests \cup {NoReq} :
            LOCK_enq(o, l, m, w, a, p)
    BY <1>4, OthersLowerNone, Zenon DEF ClientCall
  <2>2. p \in Callable(o) /\ ReleaseRequest(p, "enq")
    BY <2>1, OthersLowerNone
  <2>3. p \in Requests /\ lrq_owner[p] = o /\ lhb_active_owner' = o
    BY <2>1, <2>2 DEF LOCK_enq, acquire, Callable, own_requests
  <2> QED
    BY <2>2, <2>3, ReleaseLowersOne
<1>5. CASE Give(o)
  <2>1. PICK x \in Requests : LOCK_deq(o, x) \/ LOCK_downgrade(o, x)
    BY <1>5 DEF Give
  <2>2. ReleaseRequest(x, "release")
    BY <2>1, OthersLowerNone, Zenon DEF LOCK_deq
  <2>3. lrq_owner[x] = o /\ lhb_active_owner' = o
    BY <2>1 DEF LOCK_deq, LOCK_downgrade, acquire, Callable, own_requests
  <2> QED
    BY <2>2, <2>3, ReleaseLowersOne
<1>6. CASE PostGrant(o)
  <2> PICK x : x = lbl_requests[sec.lock][NextPending]
    OBVIOUS
  <2>1. /\ lrq_state' = [lrq_state EXCEPT ![x] = lrq_requested[x]]
        /\ sec.at = "post" /\ PendingAhead # {}
    BY <1>6 DEF PostGrant, Grant
  <2>2. Pending(x)
    BY <2>1, NextPendingFacts
  <2>3. x = r /\ lrq_state'[r] = lrq_requested[r]
    BY <1>1, <2>1 DEF Lowered, TypeOK
  <2> QED
    BY <2>2, <2>3
<1>7. CASE QueGranted(o) \/ ConvertGranted(o)
  <2> PICK x : x = sec.req
    OBVIOUS
  <2>1. /\ lrq_state' = [lrq_state EXCEPT ![x] = lrq_requested[x]]
        /\ sec.at \in {"grant_or_que", "convert", "downgrade"}
        /\ lhb_active_owner' = lhb_active_owner
    BY <1>7 DEF QueGranted, ConvertGranted, Grant
  <2>2. x = r
    BY <1>1, <2>1 DEF Lowered, TypeOK
  <2>3. lrq_owner[x] = lhb_active_owner
    BY <2>1 DEF IInv, SecInv
  <2> QED
    BY <2>1, <2>2, <2>3
<1>8. CASE QueDenied(o)
  <2>1. /\ sec.at = "grant_or_que" /\ ReleaseRequest(sec.req, "release")
        /\ lhb_active_owner' = lhb_active_owner
    BY <1>8 DEF QueDenied
  <2>2. sec.req \in Requests /\ lrq_owner[sec.req] = lhb_active_owner
    BY <2>1 DEF IInv, SecInv
  <2> QED
    BY <2>1, <2>2, ReleaseLowersOne
<1>9. ASSUME NEW x \in Requests, EnqInsert(o, x)
      PROVE  FALSE
  <2>1. x \in FreeRequests /\ lrq_state' = [lrq_state EXCEPT ![x] = LCK_none]
    BY <1>9 DEF EnqInsert
  <2>2. lrq_state[x] = LCK_none
    BY <2>1 DEF FreeRequests, IInv, TableInv, RequestInv
  <2> QED
    BY <1>1, <2>1, <2>2, LevelsFact DEF Lowered, TypeOK
<1>10. ASSUME NEW x \in Requests, PurgeRequest(o, x)
       PROVE  lrq_owner[r] \notin alive \/ lrq_owner[r] = lhb_active_owner'
  <2>1. /\ sec.at = "purge" /\ lrq_owner[x] = sec.victim /\ ReleaseRequest(x, "purge")
        /\ lhb_active_owner' = lhb_active_owner
    BY <1>10 DEF PurgeRequest, own_requests
  <2>2. sec.victim \in Owners /\ Purging(sec.victim)
    BY <2>1 DEF IInv, SecInv, Purging
  <2>3. r = x
    BY <2>1, ReleaseLowersOne
  <2> QED
    BY <2>1, <2>2, <2>3 DEF PurgeInv
<1>11. CASE SectionStep(o)
  BY <1>6, <1>7, <1>8, <1>9, <1>10, <1>11, OthersLowerNone, Zenon
<1>12. CASE WaitStep(o)
  <2>1. EnqRejected(o)
    BY <1>12, OthersLowerNone
  <2>2. /\ pc[o] # "out" /\ ReleaseRequest(op[o].req, "release") /\ lhb_active_owner' = o
    BY <2>1 DEF EnqRejected, Main, acquire
  <2>3. op[o].req \in Requests /\ lrq_owner[op[o].req] = o
    BY <2>2 DEF IInv, WaitInv
  <2> QED
    BY <2>2, <2>3, ReleaseLowersOne
<1> QED
  BY <1>3, <1>4, <1>5, <1>11, <1>12, OthersLowerNone, Zenon

(* A level held is lowered by a section of its owner only, by a process    *)
(* that found the owner dead, or by post_pending to the lower level the    *)
(* owner waits to convert it to: no grant, rejection, blocking signal or   *)
(* purge of another owner takes it away.                                   *)
THEOREM HeldLevelsAreKept ==
    ASSUME BlockagesFit
    PROVE  Spec => GrantKept
<1>1. IInv /\ PurgeInv /\ [Next]_vars =>
        [\A r \in Requests :
            lrq_state[r] > lrq_state'[r] =>
                \/ lrq_owner[r] = lhb_active_owner'
                \/ lrq_owner[r] \notin alive
                \/ Pending(r) /\ lrq_state'[r] = lrq_requested[r]]_vars
  BY LevelsKept DEF Lowered
<1>2. Spec => [](IInv /\ PurgeInv)
  BY PurgeInvariance
<1> QED
  BY <1>1, <1>2, PTL DEF Spec, GrantKept

-----------------------------------------------------------------------------
(* Deadlocks: who waits.                                                   *)

(* The process is outside wait_for_request, and nobody purges it. *)
Idle(u) ==
    /\ u \in alive /\ u \in lhb_owners
    /\ pc[u] \in {"out", "denied"} /\ ~ Purging(u)

(* Nobody begins to wait, and nobody who waits comes out of it. *)
LEMMA WaitersKept ==
    ASSUME IInv, IInv', WaitersInv,
           \A r \in Requests : Pending(r)' => Pending(r) /\ lrq_owner'[r] = lrq_owner[r],
           \A u \in Owners : \/ own_pending_request'[u] = own_pending_request[u]
                             \/ own_pending_request'[u] = NoReq /\ \A r \in Requests :
                                    Pending(r)' => lrq_owner[r] # u,
           \A u \in Owners : Idle(u)' => Idle(u) \/ own_pending_request'[u] = NoReq
    PROVE  WaitersInv'
<1>1. ASSUME NEW r \in Requests, Pending(r)'
      PROVE  own_pending_request'[lrq_owner'[r]] = r
  <2>1. lrq_owner[r] \in Owners /\ own_pending_request[lrq_owner[r]] = r
    BY <1>1, PendingFacts DEF WaitersInv
  <2> QED
    BY <1>1, <2>1
<1>2. ASSUME NEW u \in Owners, Idle(u)'
      PROVE  own_pending_request'[u] = NoReq
  BY <1>2 DEF WaitersInv, Idle
<1>3. alive' \subseteq Owners
  BY DEF IInv, TableInv, TypeOK
<1> QED
  BY <1>1, <1>2, <1>3 DEF WaitersInv, Idle

(* A step that leaves the locks alone leaves the waiters alone. *)
LEMMA SameWaiting ==
    ASSUME IInv', SameTable
    PROVE  \A r \in Requests : Pending(r)' => Pending(r) /\ lrq_owner'[r] = lrq_owner[r]
<1> SUFFICES ASSUME NEW r \in Requests, Pending(r)'
             PROVE  Pending(r) /\ lrq_owner'[r] = lrq_owner[r]
  OBVIOUS
<1>1. lrq_lock'[r] # NoLock
  BY DEF IInv, TableInv, RequestInv
<1> QED
  BY <1>1 DEF SameTable, Untouched

(* The waiting loop, signals and deaths. *)
LEMMA Outside_Waiters ==
    ASSUME IInv, IInv', WaitersInv, NEW o \in Owners,
           WaitOver(o) \/ WaitWoken(o) \/ SignalIgnored(o) \/ WaitForTable(o) \/ Crash(o)
    PROVE  WaitersInv'
<1>1. UNCHANGED <<lblVars, lrqVars, lhb_active_owner, sec, own_pending_request,
                  lhb_owners>>
  BY DEF WaitOver, WaitWoken, SignalIgnored, WaitForTable, Crash, ownVars, secVars
<1>2. SameTable
  BY <1>1, TableSame
<1>3. ASSUME NEW u \in Owners, Idle(u)'
      PROVE  Idle(u)
  <2>1. u \in alive' /\ u \in lhb_owners' /\ pc'[u] \in {"out", "denied"} /\ ~ Purging(u)'
    BY <1>3 DEF Idle
  <2>2. u \in alive /\ pc[u] = pc'[u]
    BY <2>1 DEF WaitOver, WaitWoken, SignalIgnored, WaitForTable, Crash, procVars, IInv,
       TableInv, TypeOK
  <2> QED
    BY <1>1, <2>1, <2>2 DEF Idle, Purging, secVars
<1> QED
  BY <1>1, <1>2, <1>3, SameWaiting, WaitersKept

(* wait_for_request() returns. *)
LEMMA WaitReturns_Waiters ==
    ASSUME IInv, IInv', WaitersInv, NEW o \in Owners, WaitReturns(o)
    PROVE  WaitersInv'
<1>1. /\ UNCHANGED <<lblVars, lrqVars, secVars, lhb_owners, alive>>
      /\ own_pending_request' = [own_pending_request EXCEPT ![o] = NoReq]
      /\ pc[o] = "resolved" /\ o \in alive
      /\ \A u \in Owners : u # o => pc'[u] = pc[u]
  BY DEF WaitReturns, Main, IInv, TableInv, TypeOK
<1>2. SameTable
  BY <1>1, TableSame
<1>3. \A r \in Requests : Pending(r) => lrq_owner[r] # o
  BY <1>1 DEF IInv, WaitInv, SecInv, Purging
<1>4. \A u \in Owners : Idle(u)' => Idle(u) \/ u = o
  BY <1>1 DEF Idle, Purging, secVars
<1>5. own_pending_request \in [Owners -> Requests \cup {NoReq}]
  BY DEF IInv, TableInv, TypeOK
<1>6. \A r \in Requests : Pending(r)' => Pending(r)
  BY <1>2, SameWaiting
<1>7. \A u \in Owners : u # o => own_pending_request'[u] = own_pending_request[u]
  BY <1>1, <1>5
<1>8. own_pending_request'[o] = NoReq
  BY <1>1, <1>5
<1> QED
  BY <1>2, <1>3, <1>4, <1>6, <1>7, <1>8, SameWaiting, WaitersKept

(* The stages between the work. *)
LEMMA Calm_Waiters ==
    ASSUME IInv, IInv', PurgeInv, WaitersInv, NEW o \in Owners,
           \/ ReleaseTable(o) \/ ReleaseMutex(o) \/ EnqOutOfRoom(o)
           \/ PostRefused(o) \/ PostDone(o)
           \/ PostBlockDone(o) \/ ProbeDone(o)
           \/ \E v \in Owners : ProbeOwner(o, v)
           \/ AstDone(o) \/ ScanClear(o) \/ CreateOwner(o) \/ Probed(o)
    PROVE  WaitersInv'
<1>1. UNCHANGED <<lblVars, lrqVars, alive>>
  BY DEF ReleaseTable, ReleaseMutex, EnqOutOfRoom, PostRefused, PostDone,
         PostBlockDone, ProbeDone, ProbeOwner, AstDone, ScanClear, CreateOwner, Probed, procVars
<1>2. SameTable
  BY <1>1, TableSame
<1>3. \A u \in Owners : Purging(u) => Purging(u)'
  BY Calm_Purge
<1>4. \A u \in Owners : pc'[u] = "out" \/ pc'[u] = "denied" => pc[u] = pc'[u]
  <2>1. pc' = pc \/ pc' = [pc EXCEPT ![o] = "resolved"]
    BY DEF ReleaseTable, ReleaseMutex, EnqOutOfRoom, PostRefused, PostDone,
         PostBlockDone, ProbeDone, ProbeOwner, AstDone, ScanClear, CreateOwner, Probed, procVars
  <2> QED
    BY <2>1 DEF IInv, TableInv, TypeOK
<1>5. CASE CreateOwner(o)
  <2>1. /\ own_pending_request' = [own_pending_request EXCEPT ![o] = NoReq]
        /\ lhb_owners' = lhb_owners \cup {o} /\ o \notin lhb_owners
    BY <1>5 DEF CreateOwner, IInv, SecInv
  <2>2. \A r \in Requests : Pending(r) => lrq_owner[r] # o
    BY <2>1, PendingFacts, ConstantsAssumption DEF IInv, TableInv, RequestInv
  <2>3. \A u \in Owners : /\ u # o => own_pending_request'[u] = own_pending_request[u]
                          /\ u = o => own_pending_request'[u] = NoReq
    BY <2>1 DEF IInv, TableInv, TypeOK
  <2>4. \A u \in Owners : Idle(u)' => Idle(u) \/ u = o
    BY <1>1, <1>3, <1>4, <2>1 DEF Idle
  <2> QED
    BY <1>2, <2>2, <2>3, <2>4, SameWaiting, WaitersKept
<1>6. CASE ~ CreateOwner(o)
  <2>1. UNCHANGED <<own_pending_request, lhb_owners>>
    BY <1>6 DEF ReleaseTable, ReleaseMutex, EnqOutOfRoom, PostRefused, PostDone,
         PostBlockDone, ProbeDone, ProbeOwner, AstDone, ScanClear, Probed, ownVars
  <2>2. \A u \in Owners : Idle(u)' => Idle(u)
    BY <1>1, <1>3, <1>4, <2>1 DEF Idle
  <2> QED
    BY <1>2, <2>1, <2>2, SameWaiting, WaitersKept
<1> QED
  BY <1>5, <1>6

(* Entering the table. *)
LEMMA Enters_Waiters ==
    ASSUME IInv, IInv', WaitersInv, NEW o \in Owners,
           \/ WokenResolved(o) \/ WokenPending(o) \/ SignalHandled(o)
           \/ AstReturns(o) \/ LOCK_fini(o) \/ LOCK_init(o) \/ ConvertRejected(o)
    PROVE  WaitersInv'
<1>1. UNCHANGED <<lblVars, lrqVars, own_pending_request, lhb_owners>>
  BY DEF WokenResolved, WokenPending, SignalHandled, AstReturns, LOCK_fini, LOCK_init,
         ConvertRejected, ownVars
<1>2. SameTable
  BY <1>1, TableSame
<1>3. \A u \in Owners : ~ Purging(u)
  BY FreeTable DEF WokenResolved, WokenPending, SignalHandled, AstReturns, LOCK_fini, LOCK_init,
         ConvertRejected, Woken, acquire, Purging
<1>4. ASSUME NEW u \in Owners, Idle(u)'
      PROVE  Idle(u)
  <2>1. u \in alive' /\ u \in lhb_owners /\ pc'[u] \in {"out", "denied"} /\ ~ Purging(u)'
    BY <1>1, <1>4 DEF Idle
  <2>2. CASE LOCK_init(o)
    <3>1. sec \in Secs
      BY DEF IInv, TableInv, TypeOK
    <3>2. u = o => Purging(u)'
      BY <2>1, <2>2, <3>1 DEF LOCK_init, Purge, Purging, Secs
    <3> QED
      BY <1>3, <2>1, <2>2, <3>2 DEF LOCK_init, Idle
  <2>3. CASE ~ LOCK_init(o)
    <3>1. alive' = alive
      BY <2>3 DEF WokenResolved, WokenPending, SignalHandled, AstReturns, LOCK_fini, ConvertRejected
    <3>2. pc[u] = pc'[u] \/ pc[u] = "denied"
      BY <2>1, <2>3 DEF WokenResolved, WokenPending, SignalHandled, AstReturns, LOCK_fini,
           ConvertRejected, Main, IInv, TableInv, TypeOK
    <3> QED
      BY <1>3, <2>1, <3>1, <3>2 DEF Idle
  <2> QED
    BY <2>2, <2>3
<1> QED
  BY <1>1, <1>2, <1>4, SameWaiting, WaitersKept

(* The blocking ASTs, the reposts and the end of a purge. *)
LEMMA Blocks_Waiters ==
    ASSUME IInv, IInv', WaitersInv, NEW o \in Owners,
           AstNext(o) \/ PostBlock(o) \/ LOCK_re_post(o) \/ PurgeOwner(o)
    PROVE  WaitersInv'
<1>1. UNCHANGED <<own_pending_request, alive, pc>>
  BY DEF AstNext, PostBlock, LOCK_re_post, PurgeOwner, procVars
<1>2. SameTable
  BY AstNext_Table, PostBlock_Table, LOCK_re_post_Table, PurgeOwner_Table
<1>3. ASSUME NEW u \in Owners, Idle(u)'
      PROVE  Idle(u)
  <2>1. u \in lhb_owners' /\ u \in alive /\ pc[u] \in {"out", "denied"}
    BY <1>1, <1>3 DEF Idle
  <2>2. CASE PurgeOwner(o)
    BY <2>1, <2>2 DEF PurgeOwner, Idle, Purging
  <2>3. CASE ~ PurgeOwner(o)
    <3>1. lhb_owners' = lhb_owners
      BY <2>3 DEF AstNext, PostBlock, LOCK_re_post
    <3>2. sec.at \in {"ast", "block", "free"}
      BY <2>3, FreeTable DEF AstNext, PostBlock, LOCK_re_post, acquire
    <3> QED
      BY <2>1, <3>1, <3>2 DEF Idle, Purging
  <2> QED
    BY <2>2, <2>3
<1> QED
  BY <1>1, <1>2, <1>3, SameWaiting, WaitersKept

(* The requests after a release are those before it, without r. *)
LEMMA FreedWaiting ==
    ASSUME IInv, IInv', NEW r \in Requests, NEW after, ReleaseRequest(r, after)
    PROVE  \A s \in Requests : Pending(s)' => Pending(s) /\ lrq_owner'[s] = lrq_owner[s]
<1>1. /\ lrq_owner' = [lrq_owner EXCEPT ![r] = NoOwner]
      /\ lrq_flags' = [lrq_flags EXCEPT ![r] = {}]
  BY Zenon DEF ReleaseRequest
<1> QED
  BY <1>1 DEF Pending, IInv, TableInv, TypeOK

(* A call gives a request up. *)
LEMMA Releases_Waiters ==
    ASSUME IInv, IInv', WaitersInv, NEW r \in Requests, lrq_lock[r] \in Locks,
           NEW after \in {"release", "enq", "purge"}, ReleaseRequest(r, after),
           UNCHANGED <<own_pending_request, lhb_owners, alive>>,
           \A u \in Owners : pc'[u] \in {"out", "denied"} => pc[u] \in {"out", "denied"},
           after # "purge" => sec.at \in {"free", "grant_or_que"},
           after = "purge" => sec.at = "purge"
    PROVE  WaitersInv'
<1>1. Released(r, after)
  BY ReleaseFields
<1>2. \A u \in Owners : Purging(u) => Purging(u)'
  BY <1>1 DEF Released, Purging
<1>3. \A u \in Owners : Idle(u)' => Idle(u)
  BY <1>2 DEF Idle
<1> QED
  BY <1>3, FreedWaiting, WaitersKept

(* Those that end with it. *)
LEMMA Frees_Waiters ==
    ASSUME IInv, IInv', WaitersInv, NEW o \in Owners,
           \/ QueDenied(o) \/ EnqRejected(o)
           \/ \E r \in Requests : \/ LOCK_deq(o, r) \/ PurgeRequest(o, r)
                                  \/ LOCK_downgrade(o, r) /\ ReleaseRequest(r, "release")
    PROVE  WaitersInv'
<1>1. CASE QueDenied(o)
  <2>1. /\ sec.at = "grant_or_que" /\ sec.req \in Requests /\ lrq_lock[sec.req] # NoLock
        /\ ReleaseRequest(sec.req, "release")
        /\ UNCHANGED <<own_pending_request, lhb_owners, alive, pc>>
    BY <1>1 DEF QueDenied, IInv, SecInv
  <2>2. lrq_lock[sec.req] \in Locks
    BY <2>1 DEF IInv, TableInv, TypeOK
  <2> QED
    BY <2>1, <2>2, Releases_Waiters
<1>2. CASE EnqRejected(o)
  <2> PICK r : r = op[o].req
    OBVIOUS
  <2>1. /\ sec.at = "free" /\ r \in Requests /\ lrq_lock[r] # NoLock
        /\ ReleaseRequest(r, "release")
        /\ UNCHANGED <<own_pending_request, lhb_owners, alive>>
        /\ pc[o] = "denied" /\ pc' = [pc EXCEPT ![o] = "out"]
    BY <1>2, FreeTable DEF EnqRejected, acquire, Main, IInv, WaitInv
  <2>2. lrq_lock[r] \in Locks /\ \A u \in Owners : u # o => pc'[u] = pc[u]
    BY <2>1 DEF IInv, TableInv, TypeOK
  <2> QED
    BY <2>1, <2>2, Releases_Waiters
<1>3. ASSUME NEW r \in Requests,
             LOCK_deq(o, r) \/ (LOCK_downgrade(o, r) /\ ReleaseRequest(r, "release"))
      PROVE  WaitersInv'
  <2>1. /\ MayCall(o) /\ lhb_active_owner = NoOwner /\ r \in Callable(o)
        /\ ReleaseRequest(r, "release")
        /\ UNCHANGED <<own_pending_request, lhb_owners, alive, pc>>
    BY <1>3 DEF LOCK_deq, LOCK_downgrade, acquire
  <2>2. lrq_lock[r] \in Locks /\ sec.at = "free"
    BY <2>1, CallableFacts
  <2> QED
    BY <2>1, <2>2, Releases_Waiters
<1>4. ASSUME NEW r \in Requests, PurgeRequest(o, r)
      PROVE  WaitersInv'
  <2>1. /\ sec.at = "purge" /\ lrq_lock[r] # NoLock /\ ReleaseRequest(r, "purge")
        /\ UNCHANGED <<own_pending_request, lhb_owners, alive, pc>>
    BY <1>4 DEF PurgeRequest, own_requests
  <2>2. lrq_lock[r] \in Locks
    BY <2>1 DEF IInv, TableInv, TypeOK
  <2> QED
    BY <2>1, <2>2, Releases_Waiters
<1> QED
  BY <1>1, <1>2, <1>3, <1>4

(* LOCK_enq() *)
LEMMA LOCK_enq_Waiters ==
    ASSUME IInv, IInv', WaitersInv, NEW o \in Owners, NEW l \in Locks, NEW m \in Levels,
           NEW w \in Waits, NEW a \in AstArgs, NEW p \in Requests \cup {NoReq},
           LOCK_enq(o, l, m, w, a, p)
    PROVE  WaitersInv'
<1>1. /\ MayCall(o) /\ lhb_active_owner = NoOwner
      /\ UNCHANGED <<own_pending_request, lhb_owners, alive, pc>>
  BY DEF LOCK_enq, acquire
<1>2. sec.at = "free"
  BY <1>1, FreeTable
<1>3. CASE p \in Callable(o) /\ ReleaseRequest(p, "enq")
  <2>1. p \in Requests /\ lrq_lock[p] \in Locks
    BY <1>1, <1>3, CallableFacts
  <2> QED
    BY <1>1, <1>2, <1>3, <2>1, Releases_Waiters
<1>4. CASE UNCHANGED <<lblVars, lrqVars>>
  <2>1. SameTable
    BY <1>4, TableSame
  <2>2. \A u \in Owners : Idle(u)' => Idle(u)
    BY <1>1, <1>2 DEF Idle, Purging
  <2> QED
    BY <1>1, <2>1, <2>2, SameWaiting, WaitersKept
<1> QED
  BY <1>3, <1>4 DEF LOCK_enq

(* A request is rejected; its owner may be told at once. *)
LEMMA Rejects_Waiters ==
    ASSUME IInv, IInv', WaitersInv, NEW o \in Owners, NEW t \in Requests, Pending(t),
           lrq_flags' = [lrq_flags EXCEPT ![t] = (@ \ {"pending"}) \cup {"rejected"}],
           UNCHANGED <<lrq_owner, lhb_owners, alive>>,
           \/ UNCHANGED own_pending_request
           \/ own_pending_request' = [own_pending_request EXCEPT ![lrq_owner[t]] = NoReq],
           pc' = pc \/ pc' = [pc EXCEPT ![o] = "resolved"],
           sec.at \in {"free", "scan"}
    PROVE  WaitersInv'
<1>1. \A r \in Requests : Pending(r)' => Pending(r) /\ r # t
  BY DEF Pending, IInv, TableInv, TypeOK
<1>2. \A u \in Owners : Idle(u)' => Idle(u)
  BY DEF Idle, Purging, IInv, TableInv, TypeOK
<1>3. ASSUME NEW u \in Owners
      PROVE  \/ own_pending_request'[u] = own_pending_request[u]
             \/ own_pending_request'[u] = NoReq /\ \A r \in Requests :
                    Pending(r)' => lrq_owner[r] # u
  <2>1. own_pending_request[lrq_owner[t]] = t
    BY DEF WaitersInv
  <2>2. \A r \in Requests : Pending(r)' => own_pending_request[lrq_owner[r]] = r /\ r # t
    BY <1>1 DEF WaitersInv
  <2>3. CASE u = lrq_owner[t]
    BY <2>1, <2>2, <2>3 DEF IInv, TableInv, TypeOK
  <2>4. CASE u # lrq_owner[t]
    BY <2>4 DEF IInv, TableInv, TypeOK
  <2> QED
    BY <2>3, <2>4
<1> QED
  BY <1>1, <1>2, <1>3, WaitersKept

(* A request is served in the section, and nobody else is concerned. *)
LEMMA Serves_Waiters ==
    ASSUME IInv, IInv', WaitersInv, UNCHANGED <<own_pending_request, lhb_owners, alive, pc>>,
           \A u \in Owners : Purging(u) => Purging(u)',
           \A r \in Requests : Pending(r)' => Pending(r) /\ lrq_owner'[r] = lrq_owner[r]
    PROVE  WaitersInv'
<1>1. \A u \in Owners : Idle(u)' => Idle(u)
  BY DEF Idle
<1> QED
  BY <1>1, WaitersKept

LEMMA Section_Waiters ==
    ASSUME IInv, IInv', WaitersInv, NEW o \in Owners,
           \/ ConvertDenied(o) \/ ConvertReset(o)
           \/ PostGrant(o) \/ QueGranted(o) \/ ConvertGranted(o)
           \/ \E r \in Requests : \/ EnqInsert(o, r)
                                  \/ \E m \in Levels, w \in Waits : LOCK_convert(o, r, m, w)
                                  \/ /\ LOCK_downgrade(o, r)
                                     /\ ~ ReleaseRequest(r, "release")
    PROVE  WaitersInv'
<1>1. UNCHANGED <<own_pending_request, lhb_owners, alive, pc>>
  BY DEF ConvertDenied, ConvertReset, PostGrant, QueGranted, ConvertGranted, EnqInsert,
         LOCK_convert, LOCK_downgrade, procVars, ownVars
<1>2. \A u \in Owners : Purging(u) => Purging(u)'
  <2>1. CASE PostGrant(o)
    <3>1. sec.at = "post" /\ sec' = AfterGrant(NextPending)
      BY <2>1 DEF PostGrant
    <3> QED
      BY <3>1 DEF AfterGrant, Purging, IInv, TableInv, TypeOK, Secs
  <2>2. CASE ~ PostGrant(o)
    <3>1. sec.at \in {"free", "enq", "convert", "downgrade", "grant_or_que", "reset"}
      BY <2>2, FreeTable DEF ConvertDenied, ConvertReset, QueGranted, ConvertGranted, EnqInsert,
         LOCK_convert, LOCK_downgrade, acquire
    <3> QED
      BY <3>1 DEF Purging
  <2> QED
    BY <2>1, <2>2
<1>3. CASE \E r \in Requests : EnqInsert(o, r)
  <2> PICK r \in Requests : EnqInsert(o, r)
    BY <1>3
  <2>1. /\ lrq_owner' = [lrq_owner EXCEPT ![r] = o]
        /\ lrq_flags' = [lrq_flags EXCEPT ![r] = {}]
    BY DEF EnqInsert
  <2>2. \A s \in Requests : Pending(s)' => Pending(s) /\ lrq_owner'[s] = lrq_owner[s]
    BY <2>1 DEF Pending, IInv, TableInv, TypeOK
  <2> QED
    BY <1>1, <1>2, <2>2, Serves_Waiters
<1>4. CASE ~ \E r \in Requests : EnqInsert(o, r)
  <2>1. /\ lrq_owner' = lrq_owner
        /\ \/ lrq_flags' = lrq_flags
           \/ \E r \in Requests : \E f : lrq_flags' = [lrq_flags EXCEPT ![r] = @ \ {f}]
    <3>1. CASE ConvertDenied(o) \/ ConvertReset(o)
      BY <3>1 DEF ConvertDenied, ConvertReset
    <3>2. CASE PostGrant(o)
      <4>1. lbl_requests[sec.lock][NextPending] \in Requests
        BY <3>2, NextPendingFacts DEF PostGrant
      <4> QED
        BY <3>2, <4>1 DEF PostGrant, Grant
    <3>3. CASE QueGranted(o) \/ ConvertGranted(o)
      <4>1. sec.req \in Requests
        BY <3>3 DEF QueGranted, ConvertGranted, IInv, SecInv
      <4> QED
        BY <3>3, <4>1 DEF QueGranted, ConvertGranted, Grant
    <3>4. CASE \E r \in Requests : \/ \E m \in Levels, w \in Waits : LOCK_convert(o, r, m, w)
                                   \/ LOCK_downgrade(o, r) /\ ~ ReleaseRequest(r, "release")
      BY <3>4 DEF LOCK_convert, LOCK_downgrade
    <3> QED
      BY <1>4, <3>1, <3>2, <3>3, <3>4
  <2>2. \A s \in Requests : Pending(s)' => Pending(s)
    <3>1. CASE lrq_flags' = lrq_flags
      BY <3>1 DEF Pending
    <3>2. ASSUME NEW r \in Requests, NEW f, lrq_flags' = [lrq_flags EXCEPT ![r] = @ \ {f}]
          PROVE  \A s \in Requests : lrq_flags'[s] \subseteq lrq_flags[s]
      BY <3>2 DEF IInv, TableInv, TypeOK
    <3> QED
      BY <2>1, <3>1, <3>2 DEF Pending
  <2> QED
    BY <1>1, <1>2, <2>1, <2>2, Serves_Waiters
<1> QED
  BY <1>3, <1>4

(* wait_for_request() begins: the owner waited for nothing before. *)
LEMMA BeginWait_Waiters ==
    ASSUME IInv, IInv', WaitersInv, NEW o \in Owners, QueWaits(o) \/ ConvertWaits(o)
    PROVE  WaitersInv'
<1> PICK r : r = sec.req
  OBVIOUS
<1>1. /\ lhb_active_owner = o /\ sec.at \in {"grant_or_que", "convert"} /\ BeginWait(o, r)
      /\ UNCHANGED <<lrq_owner, lhb_owners, alive>>
  BY DEF QueWaits, ConvertWaits
<1>2. /\ TypeOK /\ r \in Requests /\ lrq_owner[r] = o /\ lrq_lock[r] # NoLock
      /\ pc[o] = "out" /\ o \in alive
  BY <1>1, ConstantsAssumption DEF IInv, SecInv, TableInv
<1>3. lrq_lock[r] \in Locks
  BY <1>2 DEF TypeOK
<1>4. /\ \A s \in Requests : s # r => lrq_flags'[s] = lrq_flags[s]
      /\ own_pending_request' = [own_pending_request EXCEPT ![o] = r]
      /\ pc' = [pc EXCEPT ![o] = "wait"]
  BY <1>1, <1>2, <1>3, BeginWaitFields
<1>5. \A u \in Owners : ~ Purging(u)
  BY <1>1 DEF Purging
<1>6. ASSUME NEW s \in Requests, Pending(s)'
      PROVE  own_pending_request'[lrq_owner'[s]] = s
  <2>1. CASE s = r
    BY <1>1, <1>2, <1>4, <2>1 DEF TypeOK
  <2>2. CASE s # r
    <3>1. Pending(s) /\ own_pending_request[lrq_owner[s]] = s /\ lrq_owner[s] \in Owners
      BY <1>4, <1>6, <2>2, PendingFacts DEF Pending, WaitersInv
    <3>2. lrq_owner[s] # o
      BY <1>2, <1>5, <3>1 DEF IInv, WaitInv
    <3> QED
      BY <1>1, <1>2, <1>4, <3>1, <3>2 DEF TypeOK
  <2> QED
    BY <2>1, <2>2
<1>7. ASSUME NEW u \in Owners, Idle(u)'
      PROVE  own_pending_request'[u] = NoReq
  BY <1>1, <1>2, <1>4, <1>5, <1>7 DEF Idle, WaitersInv, TypeOK
<1>8. alive' \subseteq Owners
  BY DEF IInv, TableInv, TypeOK
<1> QED
  BY <1>6, <1>7, <1>8 DEF WaitersInv, Idle

(* Nobody waits for an empty table. *)
LEMMA InitWaiters == Init => WaitersInv
  BY DEF Init, WaitersInv, Pending

LEMMA StutterWaiters == WaitersInv /\ UNCHANGED vars => WaitersInv'
  BY DEF WaitersInv, vars, lrqVars, ownVars, secVars, procVars, Pending, Purging

LEMMA NextWaiters ==
    ASSUME IInv, IInv', PurgeInv, WaitersInv, Next
    PROVE  WaitersInv'
<1> PICK o \in Owners :
        \/ ClientCall(o) \/ Give(o)
        \/ SectionStep(o) \/ WaitStep(o)
        \/ SignalHandled(o) \/ SignalIgnored(o) \/ WaitForTable(o) \/ AstReturns(o)
        \/ Crash(o)
  BY DEF Next
<1>1. CASE ClientCall(o)
  BY <1>1, LOCK_enq_Waiters, Section_Waiters, Blocks_Waiters, Enters_Waiters DEF ClientCall
<1>2. CASE Give(o)
  BY <1>2, Frees_Waiters, Section_Waiters DEF Give
<1>3. CASE SectionStep(o)
  <2>1. ASSUME NEW t \in Requests, ScanVictim(o, t)
        PROVE  WaitersInv'
    <3>1. Pending(t)
      BY <2>1 DEF ScanVictim, Victims, Visited, PendingRequests
    <3> QED
      BY <2>1, <3>1, Rejects_Waiters DEF ScanVictim, procVars
  <2> QED
    BY <1>3, <2>1, Calm_Waiters, Section_Waiters, Frees_Waiters, BeginWait_Waiters,
       Blocks_Waiters DEF SectionStep
<1>4. CASE WaitStep(o)
  <2>1. CASE WokenTimedOut(o)
    <3>1. Pending(op[o].req) /\ pc[o] # "out" /\ sec.at = "free"
      BY <2>1, FreeTable DEF WokenTimedOut, Woken, Main, acquire
    <3>2. op[o].req \in Requests
      BY <3>1 DEF IInv, WaitInv
    <3> QED
      BY <2>1, <3>1, <3>2, Rejects_Waiters DEF WokenTimedOut
  <2> QED
    BY <1>4, <2>1, Outside_Waiters, WaitReturns_Waiters, Enters_Waiters, Frees_Waiters DEF WaitStep
<1>5. CASE SignalHandled(o) \/ SignalIgnored(o) \/ WaitForTable(o) \/ AstReturns(o) \/ Crash(o)
  BY <1>5, Outside_Waiters, Enters_Waiters
<1> QED
  BY <1>1, <1>2, <1>3, <1>4, <1>5

-----------------------------------------------------------------------------
(* Deadlocks: the stages that look for them and that lower a level.        *)

LEMMA ReleaseStage ==
    ASSUME IInv, NEW r, NEW after, ReleaseRequest(r, after)
    PROVE  sec'.at \in {after, "post"}
<1>1. \/ sec' = [sec EXCEPT !.at = after, !.posted = after]
      \/ sec' = PostPending(lrq_lock[r], after)
  BY Zenon DEF ReleaseRequest
<1>2. sec \in Secs
  BY DEF IInv, TableInv, TypeOK
<1> QED
  BY <1>1, <1>2 DEF PostPending, Secs

(* Who may scan, lower, convert or grant: a section that was there before, *)
(* or one that the step that begins that stage has brought there.          *)
Working == {"scan", "downgrade", "convert", "grant_or_que"}
Kept == UNCHANGED <<lblVars, lrqVars, lhb_active_owner, sec>>
LEMMA NewStages ==
    ASSUME IInv, NEW o \in Owners,
           \/ ClientCall(o) \/ Give(o)
           \/ SectionStep(o) \/ WaitStep(o)
           \/ SignalHandled(o) \/ SignalIgnored(o) \/ WaitForTable(o) \/ AstReturns(o)
           \/ Crash(o)
    PROVE  \/ sec'.at \notin Working
           \/ Kept \/ Probed(o) \/ \E r \in Requests : EnqInsert(o, r)
           \/ \E r \in Requests : \/ LOCK_downgrade(o, r) /\ ~ ReleaseRequest(r, "release")
                                  \/ \E m \in Levels, w \in Waits : LOCK_convert(o, r, m, w)
<1> DEFINE Other == sec'.at \notin Working
<1> USE DEF Working
<1>0. sec \in Secs
  BY DEF IInv, TableInv, TypeOK
<1>1. ASSUME ClientCall(o) \/ Give(o),
             ~ \E r \in Requests : \/ LOCK_downgrade(o, r) /\ ~ ReleaseRequest(r, "release")
                                   \/ \E m \in Levels, w \in Waits : LOCK_convert(o, r, m, w)
      PROVE  Other
  <2>1. ASSUME NEW l \in Locks, NEW m \in Levels, NEW w \in Waits, NEW a \in AstArgs,
               NEW p \in Requests \cup {NoReq}, LOCK_enq(o, l, m, w, a, p)
        PROVE  Other
    <3>1. sec' = At("enq") \/ ReleaseRequest(p, "enq")
      BY <2>1 DEF LOCK_enq
    <3> QED
      BY <1>0, <3>1, ReleaseStage DEF At, Secs
  <2>2. ASSUME NEW r \in Requests, LOCK_deq(o, r) \/ LOCK_downgrade(o, r)
        PROVE  Other
    <3>1. ReleaseRequest(r, "release")
      BY <1>1, <2>2 DEF LOCK_deq
    <3> QED
      BY <3>1, ReleaseStage
  <2>3. CASE LOCK_re_post(o) \/ LOCK_fini(o) \/ LOCK_init(o)
    BY <1>0, <2>3 DEF LOCK_re_post, LOCK_fini, LOCK_init, At, Release, NoSec, Purge, Secs
  <2> QED
    BY <1>1, <2>1, <2>2, <2>3 DEF ClientCall, Give
<1>2. ASSUME SectionStep(o), ~ Probed(o), ~ \E r \in Requests : EnqInsert(o, r)
      PROVE  Other
  <2>1. CASE \/ ReleaseTable(o) \/ ReleaseMutex(o) \/ EnqOutOfRoom(o)
             \/ PostBlockDone(o) \/ ProbeDone(o)
             \/ \E v \in Owners : ProbeOwner(o, v)
             \/ AstDone(o) \/ CreateOwner(o)
    <3>1. \/ sec' \in {NoSec, Release, [NoSec EXCEPT !.at = "probe"]}
          \/ \E st \in {"ast", "unlock", "release", sec.probed} : sec' = At(st)
          \/ \E v : sec' = Purge(v, "probe")
      BY <2>1 DEF ReleaseTable, ReleaseMutex, EnqOutOfRoom, PostBlockDone,
         ProbeDone, ProbeOwner, AstDone, CreateOwner
    <3>2. CASE sec' \in {NoSec, Release, [NoSec EXCEPT !.at = "probe"]}
      BY <3>2 DEF Release, NoSec
    <3>3. ASSUME NEW st \in {"ast", "unlock", "release", sec.probed}, sec' = At(st)
          PROVE  Other
      BY <1>0, <3>3 DEF At, Secs
    <3>4. ASSUME NEW v, sec' = Purge(v, "probe")
          PROVE  Other
      BY <1>0, <3>4 DEF Purge, Secs
    <3> QED
      BY <3>1, <3>2, <3>3, <3>4
  <2>6. CASE PostRefused(o) \/ PostDone(o)
    <3>1. \/ sec' = At(sec.posted)
          \/ sec.at = "post" /\ \E p : sec' = [sec EXCEPT !.pos = p]
      BY <2>6 DEF PostRefused, PostDone
    <3> QED
      BY <1>0, <3>1 DEF At, Secs
  <2>7. CASE PostGrant(o) \/ ScanClear(o)
    <3>1. \/ sec.at = "post" /\ \E p : sec' = [sec EXCEPT !.pos = p]
          \/ \E r : sec' = Remind(r)
      BY <2>7 DEF PostGrant, AfterGrant, ScanClear
    <3> QED
      BY <1>0, <3>1 DEF Remind, Secs
  <2>2. CASE QueGranted(o) \/ ConvertGranted(o) \/ ConvertDenied(o) \/ ConvertReset(o)
             \/ \E r \in Requests : ScanVictim(o, r)
    BY <1>0, <2>2 DEF QueGranted, ConvertGranted, ConvertDenied, ConvertReset,
       ScanVictim, PostPending, Release, NoSec, Secs
  <2>3. CASE QueDenied(o) \/ \E r \in Requests : PurgeRequest(o, r)
    <3>1. \E r, after : ReleaseRequest(r, after) /\ after \in {"release", "purge"}
      BY <2>3 DEF QueDenied, PurgeRequest
    <3> QED
      BY <3>1, ReleaseStage
  <2>4. CASE QueWaits(o) \/ ConvertWaits(o)
    <3>1. BeginWait(o, sec.req)
      BY <2>4 DEF QueWaits, ConvertWaits
    <3>2. \E x : sec' = [sec EXCEPT !.at = "block", !.req = sec.req, !.next = x]
      BY <3>1, Zenon DEF BeginWait
    <3> QED
      BY <1>0, <3>2 DEF Secs
  <2>5. CASE PostBlock(o) \/ PurgeOwner(o) \/ AstNext(o)
    <3>1. CASE PostBlock(o)
      <4>1. \E b : \/ sec' = [sec EXCEPT !.next = b]
                   \/ sec' = [[sec EXCEPT !.next = b] EXCEPT !.at = "purge",
                                  !.victim = lrq_owner[sec.next], !.purged = "block"]
        BY <3>1 DEF PostBlock
      <4> QED
        BY <1>0, <3>1, <4>1 DEF PostBlock, Secs
    <3>2. CASE PurgeOwner(o)
      BY <1>0, <3>2 DEF PurgeOwner, At, Secs
    <3>3. CASE AstNext(o)
      <4>1. sec' = NoSec \/ (sec' = sec /\ sec.at = "ast")
        BY <3>3 DEF AstNext, secVars
      <4> QED
        BY <4>1 DEF NoSec
    <3> QED
      BY <2>5, <3>1, <3>2, <3>3
  <2> QED
    BY <1>2, <2>1, <2>2, <2>3, <2>4, <2>5, <2>6, <2>7 DEF SectionStep
<1>3. ASSUME WaitStep(o), ~ Kept
      PROVE  Other
  <2>1. CASE EnqRejected(o)
    BY <2>1, ReleaseStage DEF EnqRejected
  <2>2. CASE WokenResolved(o) \/ WokenTimedOut(o) \/ WokenPending(o) \/ ConvertRejected(o)
    BY <1>0, <2>2 DEF WokenResolved, WokenTimedOut, WokenPending, ConvertRejected, Release, NoSec,
       Remind, PostPending, Secs
  <2>3. CASE WaitOver(o) \/ WaitWoken(o) \/ WaitReturns(o)
    BY <1>3, <2>3 DEF WaitOver, WaitWoken, WaitReturns, Kept, secVars
  <2> QED
    BY <1>3, <2>1, <2>2, <2>3 DEF WaitStep
<1>4. ASSUME SignalHandled(o) \/ SignalIgnored(o) \/ WaitForTable(o) \/ AstReturns(o) \/ Crash(o), ~ Kept
      PROVE  Other
  BY <1>0, <1>4 DEF SignalHandled, SignalIgnored, WaitForTable, AstReturns, Crash, Kept,
     At, Secs, secVars, procVars
<1> QED
  BY <1>1, <1>2, <1>3, <1>4

(* The highest level below h that p lets in lets in whom h let in, if it   *)
(* asks for no more than p does.                                           *)
LEMMA LowerLets ==
    ASSUME NEW h \in States, NEW p \in States, NEW d \in States, NEW x \in States,
           d <= h, COMPATIBLE(p, d), d > LCK_null,
           \A k \in States : k <= h /\ COMPATIBLE(p, k) => k <= d,
           x <= p, COMPATIBLE(x, h)
    PROVE  COMPATIBLE(x, d)
<1>1. h \in 0 .. 6 /\ p \in 0 .. 6 /\ d \in 2 .. 6 /\ x \in 0 .. 6
  BY LevelsFact
<1>2. \A k \in 0 .. 6 : k <= h /\ COMPATIBLE(p, k) => k <= d
  BY LevelsFact
<1> SUFFICES ASSUME ~ COMPATIBLE(x, d) PROVE FALSE
  OBVIOUS
<1>3. x = LCK_SW /\ h = LCK_SW /\ d = LCK_PR
  BY <1>1, LevelsFact DEF COMPATIBLE, CompatibleWith
<1>4. ~ COMPATIBLE(p, LCK_SW) /\ COMPATIBLE(p, LCK_PR)
  BY <1>2, <1>3, LevelsFact
<1> QED
  BY <1>1, <1>3, <1>4, LevelsFact DEF COMPATIBLE, CompatibleWith

LEMMA DowngradeLets ==
    ASSUME IInv, NEW r \in Requests, DowngradedState(r) \notin {LCK_none, LCK_null}
    PROVE  /\ DowngradedState(r) \in States /\ DowngradedState(r) <= lrq_state[r]
           /\ \A s \in Requests \ {r} :
                 /\ lrq_lock[s] = lrq_lock[r] /\ Pending(s)
                 /\ COMPATIBLE(lrq_requested[s], lrq_state[r])
                 => COMPATIBLE(lrq_requested[s], DowngradedState(r))
<1> DEFINE asked == {lrq_requested[p] : p \in {p \in Requests \ {r} :
                        lrq_lock[p] = lrq_lock[r] /\ Pending(p)}}
           fit == {m \in LCK_none .. lrq_state[r] : COMPATIBLE(PendingState(r), m)}
<1> PICK h : h = lrq_state[r]
  OBVIOUS
<1> PICK p : p = PendingState(r)
  OBVIOUS
<1> PICK d : d = DowngradedState(r)
  OBVIOUS
<1>1. asked \in SUBSET States /\ h \in States
  BY DEF IInv, TableInv, TypeOK
<1>2. p \in States /\ \A k \in asked : k <= p
  <2>1. CASE asked = {}
    BY <2>1, LevelsFact DEF PendingState
  <2>2. CASE asked # {}
    <3>1. \E m \in asked : \A k \in asked : k <= m
      BY <1>1, <2>2, MaxExists
    <3>2. p = CHOOSE m \in asked : \A k \in asked : k <= m
      BY <2>2 DEF PendingState
    <3> HIDE DEF asked
    <3> QED
      BY <1>1, <3>1, <3>2
  <2> QED
    BY <2>1, <2>2
<1>3. d \in fit /\ \A k \in fit : k <= d
  <2>1. fit \in SUBSET States /\ LCK_none \in fit
    BY <1>1, <1>2, CompatibleNone, LevelsFact
  <2>2. \E m \in fit : \A k \in fit : k <= m
    BY <2>1, MaxExists
  <2>3. d = CHOOSE m \in fit : \A k \in fit : k <= m
    BY DEF DowngradedState
  <2> HIDE DEF fit
  <2> QED
    BY <2>2, <2>3
<1>4. /\ d \in States /\ d <= h /\ COMPATIBLE(p, d) /\ d > LCK_null
      /\ \A k \in States : k <= h /\ COMPATIBLE(p, k) => k <= d
  BY <1>1, <1>3, LevelsFact
<1>5. ASSUME NEW s \in Requests \ {r}, lrq_lock[s] = lrq_lock[r], Pending(s),
             COMPATIBLE(lrq_requested[s], h)
      PROVE  COMPATIBLE(lrq_requested[s], d)
  <2>1. lrq_requested[s] \in asked
    BY <1>5
  <2>2. lrq_requested[s] \in States /\ lrq_requested[s] <= p
    BY <1>1, <1>2, <2>1
  <2> QED
    BY <1>1, <1>2, <1>4, <1>5, <2>2, LowerLets
<1> QED
  BY <1>4, <1>5

(* Who scans scans for itself, who lowers a level lets nobody wait more,   *)
(* and nobody converts unless the clients do.                              *)
LEMMA NextStages ==
    ASSUME IInv, ScanInv, LowerInv, "convert" \notin Calls => sec.at # "convert", Next
    PROVE  /\ ScanInv' /\ LowerInv'
           /\ "convert" \notin Calls => sec'.at # "convert"
<1> PICK o \in Owners :
        \/ ClientCall(o) \/ Give(o)
        \/ SectionStep(o) \/ WaitStep(o)
        \/ SignalHandled(o) \/ SignalIgnored(o) \/ WaitForTable(o) \/ AstReturns(o)
        \/ Crash(o)
  BY DEF Next
<1>1. CASE sec'.at \notin Working
  BY <1>1 DEF ScanInv, LowerInv, Working
<1>2. CASE Kept
  BY <1>2 DEF Kept, ScanInv, LowerInv, lrqVars, RequestsOf, Pending
<1>3. CASE Probed(o)
  <2>1. sec \in Secs
    BY DEF IInv, TableInv, TypeOK
  <2>2. \/ sec' = Release
        \/ /\ sec' = At("scan") /\ lhb_active_owner' = o /\ lrq_owner' = lrq_owner
           /\ lrq_owner[sec.req] = o
    BY <1>3 DEF Probed, IInv, SecInv, WaitInv, lrqVars
  <2> QED
    BY <2>1, <2>2 DEF ScanInv, LowerInv, At, Release, NoSec, Secs
<1>4. ASSUME NEW r \in Requests, LOCK_downgrade(o, r), ~ ReleaseRequest(r, "release")
      PROVE  ScanInv' /\ LowerInv' /\ sec'.at = "downgrade"
  <2>1. /\ DowngradedState(r) \notin {LCK_none, LCK_null}
        /\ lrq_requested' = [lrq_requested EXCEPT ![r] = DowngradedState(r)]
        /\ lrq_flags' = [lrq_flags EXCEPT ![r] = @ \ {"blocking_seen"}]
        /\ sec' = [NoSec EXCEPT !.at = "downgrade", !.req = r]
        /\ lrq_lock' = lrq_lock /\ lrq_state' = lrq_state
    BY <1>4 DEF LOCK_downgrade
  <2>2. sec'.at = "downgrade" /\ sec'.req = r
    BY <2>1 DEF NoSec
  <2>3. /\ lrq_requested'[r] = DowngradedState(r)
        /\ \A s \in Requests : s # r => lrq_requested'[s] = lrq_requested[s]
        /\ \A s \in Requests : Pending(s)' => Pending(s)
    BY <2>1 DEF IInv, TableInv, TypeOK, Pending
  <2>4. LowerInv'
    BY <2>1, <2>2, <2>3, DowngradeLets DEF LowerInv, RequestsOf
  <2> QED
    BY <2>2, <2>4 DEF ScanInv
<1>5. ASSUME NEW r \in Requests, NEW m \in Levels, NEW w \in Waits, LOCK_convert(o, r, m, w)
      PROVE  ScanInv' /\ LowerInv' /\ "convert" \in Calls
  <2>1. sec'.at = "convert" /\ "convert" \in Calls
    BY <1>5 DEF LOCK_convert, NoSec
  <2> QED
    BY <2>1 DEF ScanInv, LowerInv
<1>6. ASSUME NEW r \in Requests, EnqInsert(o, r)
      PROVE  sec'.at = "grant_or_que"
  <2>1. sec \in Secs
    BY DEF IInv, TableInv, TypeOK
  <2> QED
    BY <1>6, <2>1 DEF EnqInsert, Secs
<1>7. CASE \E r \in Requests : EnqInsert(o, r)
  BY <1>6, <1>7 DEF ScanInv, LowerInv
<1> QED
  BY <1>1, <1>2, <1>3, <1>4, <1>5, <1>7, NewStages

(* A call to enqueue asks for a level of the clients. *)
AsksOK == \A u \in Owners : op[u].kind = "enq" => op[u].level \in Levels
LEMMA NextAsks ==
    ASSUME IInv, AsksOK, Next
    PROVE  AsksOK'
<1> PICK o \in Owners :
        \/ ClientCall(o) \/ Give(o)
        \/ SectionStep(o) \/ WaitStep(o)
        \/ SignalHandled(o) \/ SignalIgnored(o) \/ WaitForTable(o) \/ AstReturns(o)
        \/ Crash(o)
  BY DEF Next
<1> DEFINE AskFits(c) == c.kind = "enq" => c.level \in Levels
<1>0. op \in [Owners -> Ops]
  BY DEF IInv, TableInv, TypeOK
<1>1. ASSUME NEW c, AskFits(c), op' = [op EXCEPT ![o] = c]
      PROVE  AsksOK'
  BY <1>0, <1>1 DEF AsksOK
<1>2. CASE op' = op
  BY <1>2 DEF AsksOK
<1>3. CASE op' = [op EXCEPT ![o] = NoOp]
  <2>1. AskFits(NoOp)
    BY DEF NoOp
  <2> QED
    BY <1>1, <1>3, <2>1
<1>4. ASSUME NEW r, op' = [op EXCEPT ![o].req = r]
      PROVE  AsksOK'
  <2>1. op' = [op EXCEPT ![o] = [op[o] EXCEPT !.req = r]]
    BY <1>4
  <2>2. AskFits([op[o] EXCEPT !.req = r])
    BY <1>0 DEF AsksOK, Ops
  <2> QED
    BY <1>1, <2>1, <2>2
<1>5. CASE ClientCall(o) \/ Give(o)
  <2>1. ASSUME NEW l \in Locks, NEW m \in Levels, NEW w \in Waits, NEW a \in AstArgs,
               NEW p \in Requests \cup {NoReq}, LOCK_enq(o, l, m, w, a, p)
        PROVE  AsksOK'
    <3> DEFINE c == [kind |-> "enq", req |-> NoReq, lock |-> l,
                     level |-> m, wait |-> w, ast |-> a]
    <3>1. op' = [op EXCEPT ![o] = c] /\ AskFits(c)
      BY <2>1 DEF LOCK_enq
    <3> QED
      BY <1>1, <3>1
  <2>2. ASSUME NEW r \in Requests, NEW m \in Levels, NEW w \in Waits, LOCK_convert(o, r, m, w)
        PROVE  AsksOK'
    <3> DEFINE c == [NoOp EXCEPT !.kind = "convert", !.req = r, !.level = m, !.wait = w]
    <3>1. op' = [op EXCEPT ![o] = c] /\ AskFits(c)
      BY <2>2 DEF LOCK_convert, NoOp
    <3> QED
      BY <1>1, <3>1
  <2>3. CASE \/ LOCK_re_post(o) \/ LOCK_fini(o) \/ LOCK_init(o)
             \/ \E r \in Requests : LOCK_deq(o, r) \/ LOCK_downgrade(o, r)
    BY <1>2, <2>3 DEF LOCK_re_post, LOCK_fini, LOCK_init, LOCK_deq, LOCK_downgrade, procVars
  <2> QED
    BY <1>5, <2>1, <2>2, <2>3 DEF ClientCall, Give
<1>6. CASE SectionStep(o)
  <2>1. CASE QueWaits(o) \/ ConvertWaits(o)
    <3>1. BeginWait(o, sec.req)
      BY <2>1 DEF QueWaits, ConvertWaits
    <3>2. op' = [op EXCEPT ![o].req = sec.req]
      BY <3>1, Zenon DEF BeginWait
    <3> QED
      BY <1>4, <3>2
  <2>2. CASE QueGranted(o) \/ QueDenied(o) \/ EnqOutOfRoom(o)
    BY <1>3, <2>2 DEF QueGranted, QueDenied, EnqOutOfRoom
  <2>3. CASE ConvertGranted(o) \/ ConvertDenied(o)
    BY <1>2, <1>3, <2>3 DEF ConvertGranted, ConvertDenied
  <2>4. CASE \/ ReleaseTable(o) \/ ReleaseMutex(o)
             \/ PostGrant(o) \/ PostRefused(o) \/ PostDone(o)
             \/ \E r \in Requests : EnqInsert(o, r) \/ PurgeRequest(o, r) \/ ScanVictim(o, r)
             \/ ConvertReset(o) \/ PostBlock(o) \/ PostBlockDone(o)
             \/ PurgeOwner(o) \/ ProbeDone(o) \/ Probed(o)
             \/ \E v \in Owners : ProbeOwner(o, v)
             \/ ScanClear(o) \/ AstNext(o) \/ AstDone(o) \/ CreateOwner(o)
    BY <1>2, <2>4 DEF ReleaseTable, ReleaseMutex, PostGrant, PostRefused, PostDone, EnqInsert,
       PurgeRequest, ScanVictim, ConvertReset, PostBlock, PostBlockDone, PurgeOwner,
       ProbeDone, Probed, ProbeOwner, ScanClear, AstNext, AstDone, CreateOwner, procVars
  <2> QED
    BY <1>6, <2>1, <2>2, <2>3, <2>4 DEF SectionStep
<1>7. CASE WaitStep(o) \/ SignalHandled(o) \/ SignalIgnored(o) \/ WaitForTable(o) \/ AstReturns(o) \/ Crash(o)
  BY <1>2, <1>3, <1>7 DEF WaitStep, WaitOver, WaitWoken, WaitReturns, WokenResolved,
     WokenTimedOut, WokenPending, EnqRejected, ConvertRejected, SignalHandled, SignalIgnored, WaitForTable,
     AstReturns, Crash, procVars
<1> QED
  BY <1>5, <1>6, <1>7

(* What grant_or_que grants or queues was asked for by a call to enqueue. *)
LEMMA NextNewcomer ==
    ASSUME IInv, OrderInv, AsksOK, sec.at = "grant_or_que" => lrq_requested[sec.req] \in Levels,
           Next, sec'.at = "grant_or_que"
    PROVE  lrq_requested'[sec'.req] \in Levels
<1> PICK o \in Owners :
        \/ ClientCall(o) \/ Give(o)
        \/ SectionStep(o) \/ WaitStep(o)
        \/ SignalHandled(o) \/ SignalIgnored(o) \/ WaitForTable(o) \/ AstReturns(o)
        \/ Crash(o)
  BY DEF Next
<1>0. sec \in Secs
  BY DEF IInv, TableInv, TypeOK
<1>1. CASE Kept
  BY <1>1 DEF Kept, lrqVars
<1>2. ASSUME NEW r \in Requests, EnqInsert(o, r)
      PROVE  lrq_requested'[sec'.req] \in Levels
  <2>1. op[o].level \in Levels
    BY <1>2 DEF EnqInsert, OrderInv, NewcomerInv, AsksOK
  <2>2. sec'.req = r /\ lrq_requested' = [lrq_requested EXCEPT ![r] = op[o].level]
    BY <1>0, <1>2 DEF EnqInsert, Secs
  <2> QED
    BY <2>1, <2>2 DEF IInv, TableInv, TypeOK
<1>3. ~ Probed(o)
  BY <1>0 DEF Probed, At, Release, NoSec, Secs
<1>4. ~ \E r \in Requests : \/ LOCK_downgrade(o, r) /\ ~ ReleaseRequest(r, "release")
                            \/ \E m \in Levels, w \in Waits : LOCK_convert(o, r, m, w)
  BY DEF LOCK_downgrade, LOCK_convert, NoSec
<1> QED
  BY <1>1, <1>2, <1>3, <1>4, NewStages DEF Working

-----------------------------------------------------------------------------
(* Deadlocks: what a step may do to the waiters.                           *)

(* All but x are as they were, in the order they were in. *)
Beside(x) ==
    /\ \A s \in Requests \ {x} : lrq_lock'[s] # NoLock => Untouched(s)
    /\ \A a, b \in Requests \ {x} : lrq_lock'[a] # NoLock /\ lrq_lock'[a] = lrq_lock'[b] =>
          (Ahead(a, b)' <=> Ahead(a, b))

(* Nobody is marked as scanned, and nobody waits but perhaps for x. *)
Milder(x) ==
    \A u \in Owners :
        /\ "scanned" \in own_flags'[u] => "scanned" \in own_flags[u]
        /\ own_pending_request'[u] \in {own_pending_request[u], NoReq, x}

(* Then no deadlock is new, if x does not lead from one waiter to another  *)
(* it did not lead to before.                                              *)
LEMMA DeadlocksKept ==
    ASSUME IInv, IInv', NoMissedDeadlock, NEW x, Beside(x), Milder(x),
           x \in Requests /\ Pending(x)' => "scanned" \notin own_flags'[lrq_owner'[x]],
           \A r, t \in Requests \ {x} :
               /\ x \in KeptBy(r)' /\ Pending(r)' /\ Pending(t)'
               /\ own_pending_request'[lrq_owner'[x]] = t
               => x \in KeptBy(r) /\ lrq_owner'[x] = lrq_owner[x]
    PROVE  NoMissedDeadlock'
<1> SUFFICES ASSUME NEW D \in SUBSET PendingRequests', Deadlock(D)',
                    \A r \in D : "scanned" \in own_flags'[lrq_owner'[r]]
             PROVE  FALSE
  BY DEF NoMissedDeadlock
<1>1. ASSUME NEW r \in D
      PROVE  /\ r \in Requests \ {x} /\ Pending(r)' /\ lrq_lock'[r] # NoLock
             /\ Untouched(r) /\ Pending(r)
  <2>1. r \in Requests /\ Pending(r)'
    BY <1>1 DEF PendingRequests
  <2>2. lrq_lock'[r] # NoLock
    BY <2>1 DEF IInv, TableInv, RequestInv
  <2> QED
    BY <1>1, <2>1, <2>2 DEF Beside, Untouched
<1>2. ASSUME NEW r \in D
      PROVE  "scanned" \in own_flags[lrq_owner[r]]
  <2>1. lrq_owner'[r] = lrq_owner[r] /\ lrq_owner[r] \in Owners
    BY <1>1, <1>2, PendingFacts DEF Untouched
  <2> QED
    BY <1>2, <2>1 DEF Milder
<1>3. ASSUME NEW r \in D
      PROVE  \E b \in KeptBy(r) : \E t \in D : own_pending_request[lrq_owner[b]] = t
  <2>1. PICK b \in KeptBy(r)', t \in D : own_pending_request'[lrq_owner'[b]] = t
    BY <1>3 DEF Deadlock
  <2>2. b \in Requests /\ lrq_lock'[b] = lrq_lock'[r] /\ b # r
    BY DEF KeptBy, RequestsOf
  <2>3. lrq_owner'[b] \in Owners
    BY <1>1, <2>2 DEF IInv, TableInv, TypeOK, RequestInv
  <2>4. own_pending_request[lrq_owner'[b]] = t
    BY <1>1, <2>1, <2>3, ConstantsAssumption DEF Milder
  <2>5. CASE b = x
    BY <1>1, <2>1, <2>4, <2>5
  <2>6. CASE b # x
    <3>1. Untouched(b) /\ Untouched(r) /\ lrq_lock'[b] # NoLock /\ (Ahead(b, r)' <=> Ahead(b, r))
      BY <1>1, <2>2, <2>6 DEF Beside
    <3>2. b \in KeptBy(r)
      BY <2>2, <3>1 DEF KeptBy, RequestsOf, Untouched
    <3> QED
      BY <2>4, <3>1, <3>2 DEF Untouched
  <2> QED
    BY <2>5, <2>6
<1>4. Deadlock(D) /\ D \subseteq PendingRequests
  BY <1>1, <1>3 DEF Deadlock, PendingRequests
<1> QED
  BY <1>2, <1>4 DEF NoMissedDeadlock

(* Nobody but x waits anew, so what new requests wait for is a level of    *)
(* the clients.                                                            *)
LEMMA AskedKept ==
    ASSUME IInv', AskedInv, NEW x, Beside(x), AsksOK',
           sec'.at = "grant_or_que" => lrq_requested'[sec'.req] \in Levels,
           x \in Requests /\ Pending(x)' /\ lrq_state'[x] = LCK_none => lrq_requested'[x] \in Levels
    PROVE  AskedInv'
<1>1. ASSUME NEW r \in Requests, Pending(r)', lrq_state'[r] = LCK_none, r # x
      PROVE  lrq_requested'[r] \in Levels
  <2>1. lrq_lock'[r] # NoLock
    BY <1>1 DEF IInv, TableInv, RequestInv
  <2> QED
    BY <1>1, <2>1 DEF Beside, Untouched, AskedInv
<1> QED
  BY <1>1 DEF AskedInv, AsksOK

(* Without conversions, the same for what is held. *)
LEMMA HeldKept ==
    ASSUME NoConversionInv, NEW x, Beside(x),
           "convert" \notin Calls => sec'.at # "convert",
           "convert" \notin Calls /\ x \in Requests /\ lrq_lock'[x] # NoLock
             /\ lrq_state'[x] # LCK_none
             => ~ Pending(x)' /\ lrq_requested'[x] <= lrq_state'[x]
    PROVE  NoConversionInv'
  BY DEF NoConversionInv, Beside, Untouched

(* What is held stays before what waits, if x does. *)
LEMMA AheadKept ==
    ASSUME IInv', NoConversionInv', HeldAheadInv, NEW x, Beside(x),
           x \in Requests /\ Pending(x)' => lrq_requested'[x] # LCK_null,
           LOCK_ordering /\ "convert" \notin Calls /\ x \in Requests =>
               \A s \in Requests \ {x} : lrq_lock'[s] = lrq_lock'[x] /\ lrq_lock'[x] # NoLock =>
                   /\ Pending(x)' /\ lrq_state'[s] > LCK_null => Ahead(s, x)'
                   /\ Pending(s)' /\ lrq_state'[x] > LCK_null => Ahead(x, s)'
    PROVE  HeldAheadInv'
<1>1. ASSUME NEW r \in Requests, Pending(r)'
      PROVE  lrq_requested'[r] # LCK_null
  <2>1. lrq_lock'[r] # NoLock
    BY <1>1 DEF IInv, TableInv, RequestInv
  <2> QED
    BY <1>1, <2>1 DEF Beside, Untouched, HeldAheadInv
<1>2. ASSUME LOCK_ordering, "convert" \notin Calls,
             NEW l \in Locks, NEW r \in RequestsOf(l)', NEW b \in RequestsOf(l)',
             Pending(r)', lrq_state'[b] > LCK_null
      PROVE  Ahead(b, r)'
  <2>1. /\ r \in Requests /\ b \in Requests /\ lrq_lock'[r] = l /\ lrq_lock'[b] = l /\ l # NoLock
    BY <1>2, ConstantsAssumption DEF RequestsOf
  <2>2. r # b
    BY <1>2, <2>1, LevelsFact DEF NoConversionInv
  <2>3. CASE r # x /\ b # x
    <3>1. Untouched(r) /\ Untouched(b) /\ (Ahead(b, r)' <=> Ahead(b, r))
      BY <2>1, <2>3 DEF Beside
    <3>2. r \in RequestsOf(l) /\ b \in RequestsOf(l) /\ Pending(r) /\ lrq_state[b] > LCK_null
      BY <1>2, <2>1, <3>1 DEF Untouched, RequestsOf
    <3> QED
      BY <1>2, <3>1, <3>2 DEF HeldAheadInv
  <2>4. CASE r = x \/ b = x
    BY <1>2, <2>1, <2>2, <2>4
  <2> QED
    BY <2>3, <2>4
<1> QED
  BY <1>1, <1>2 DEF HeldAheadInv

(* The order of a queue is total. *)
LEMMA TotalOrder ==
    ASSUME NEW q \in Seq(Requests), Injective(q), NEW a \in Members(q), NEW b \in Members(q)
    PROVE  /\ a # b => Precedes(q, a, b) \/ Precedes(q, b, a)
           /\ ~ (Precedes(q, a, b) /\ Precedes(q, b, a))
<1> PICK i \in 1 .. Len(q) : q[i] = a
  BY DEF Members
<1> PICK j \in 1 .. Len(q) : q[j] = b
  BY DEF Members
<1>1. /\ \A k \in 1 .. Len(q) : q[k] = a => k = i
      /\ \A k \in 1 .. Len(q) : q[k] = b => k = j
  BY DEF Injective
<1>2. i \in Int /\ j \in Int
  OBVIOUS
<1>3. a # b => i < j \/ j < i
  BY <1>2
<1>4. Precedes(q, a, b) => i < j
  BY <1>1 DEF Precedes
<1>5. Precedes(q, b, a) => j < i
  BY <1>1 DEF Precedes
<1> QED
  BY <1>2, <1>3, <1>4, <1>5 DEF Precedes

LEMMA AheadTotal ==
    ASSUME IInv, NEW a \in Requests, NEW b \in Requests,
           lrq_lock[a] # NoLock, lrq_lock[a] = lrq_lock[b]
    PROVE  /\ a # b => Ahead(a, b) \/ Ahead(b, a)
           /\ ~ (Ahead(a, b) /\ Ahead(b, a))
<1> PICK l \in Locks : l = lrq_lock[a]
  BY DEF IInv, TableInv, TypeOK
<1> PICK q : q = lbl_requests[l]
  OBVIOUS
<1>1. q \in Seq(Requests) /\ Injective(q) /\ a \in Members(q) /\ b \in Members(q)
  BY DEF IInv, TableInv, TypeOK, QueueInv, RequestsOf
<1>2. (Ahead(a, b) <=> Precedes(q, a, b)) /\ (Ahead(b, a) <=> Precedes(q, b, a))
  BY DEF Ahead, Precedes
<1> QED
  BY <1>1, <1>2, TotalOrder

LEMMA AheadTotalPrime ==
    ASSUME IInv', NEW a \in Requests, NEW b \in Requests,
           lrq_lock'[a] # NoLock, lrq_lock'[a] = lrq_lock'[b]
    PROVE  /\ a # b => Ahead(a, b)' \/ Ahead(b, a)'
           /\ ~ (Ahead(a, b)' /\ Ahead(b, a)')
<1> PICK l \in Locks : l = lrq_lock'[a]
  BY DEF IInv, TableInv, TypeOK
<1> PICK q : q = lbl_requests'[l]
  OBVIOUS
<1>1. q \in Seq(Requests) /\ Injective(q) /\ a \in Members(q) /\ b \in Members(q)
  <2>1. q \in Seq(Requests)
    BY DEF IInv, TableInv, TypeOK
  <2>2. Injective(lbl_requests[l])' /\ Members(lbl_requests[l])' = RequestsOf(l)'
    BY DEF IInv, TableInv, QueueInv
  <2>3. Injective(q) /\ Members(q) = RequestsOf(l)'
    BY <2>2 DEF Injective, Members
  <2> QED
    BY <2>1, <2>3 DEF RequestsOf
<1>2. (Ahead(a, b)' <=> Precedes(q, a, b)) /\ (Ahead(b, a)' <=> Precedes(q, b, a))
  BY DEF Ahead, Precedes
<1> QED
  BY <1>1, <1>2, TotalOrder

(* It is enough that nobody falls behind. *)
LEMMA OrderKept ==
    ASSUME IInv, IInv', NEW x,
           \A s \in Requests \ {x} : lrq_lock'[s] # NoLock => Untouched(s),
           \A a, b \in Requests \ {x} :
               /\ lrq_lock[a] # NoLock /\ lrq_lock[a] = lrq_lock[b] /\ lrq_lock'[a] = lrq_lock[a]
               /\ Ahead(a, b)
               => Ahead(a, b)'
    PROVE  Beside(x)
<1> SUFFICES ASSUME NEW a \in Requests \ {x}, NEW b \in Requests \ {x},
                    lrq_lock'[a] # NoLock, lrq_lock'[a] = lrq_lock'[b]
             PROVE  Ahead(a, b)' <=> Ahead(a, b)
  BY DEF Beside
<1>1. /\ lrq_lock[a] = lrq_lock'[a] /\ lrq_lock[b] = lrq_lock'[b]
      /\ lrq_lock[a] # NoLock /\ lrq_lock[a] = lrq_lock[b]
  BY DEF Untouched
<1>2. /\ Ahead(a, b) => Ahead(a, b)'
      /\ Ahead(b, a) => Ahead(b, a)'
  BY <1>1
<1>3. CASE a = b
  BY <1>1, <1>3, AheadTotal, AheadTotalPrime
<1>4. CASE a # b
  BY <1>1, <1>2, <1>4, AheadTotal, AheadTotalPrime
<1> QED
  BY <1>3, <1>4

(* A queue keeps its order when one request leaves it. *)
LEMMA WithoutOrder ==
    ASSUME NEW q \in Seq(Requests), Injective(q), NEW r \in Members(q),
           NEW a \in Members(q) \ {r}, NEW b \in Members(q) \ {r}, Precedes(q, a, b)
    PROVE  Precedes(Without(q, r), a, b)
<1> PICK v : v = Without(q, r)
  OBVIOUS
<1> PICK w : w = Append(v, r)
  OBVIOUS
<1>1. v \in Seq(Requests) /\ r \in Requests
  BY WithoutFacts, MembersFacts
<1>2. Precedes(w, a, b)
  BY MovedToTail
<1> PICK i \in 1 .. Len(w), j \in 1 .. Len(w) : w[i] = a /\ w[j] = b /\ i < j
  BY <1>2 DEF Precedes
<1>3. /\ Len(w) = Len(v) + 1 /\ w[Len(w)] = r /\ Len(v) \in Nat
      /\ \A k \in 1 .. Len(v) : w[k] = v[k]
  BY <1>1
<1>4. i \in 1 .. Len(v) /\ j \in 1 .. Len(v)
  BY <1>3
<1> QED
  BY <1>3, <1>4 DEF Precedes

(* What the waiters and their locks have to satisfy, and what the stage of *)
(* the section and the calls contribute.                                   *)
WaitOK == AskedInv /\ NoConversionInv /\ HeldAheadInv /\ NoMissedDeadlock
StageOK ==
    /\ AsksOK
    /\ sec.at = "grant_or_que" => lrq_requested[sec.req] \in Levels
    /\ "convert" \notin Calls => sec.at # "convert"

(* The owners are told nothing but that they wait no more. *)
Tells ==
    \A u \in Owners :
        /\ "scanned" \in own_flags'[u] => "scanned" \in own_flags[u]
        /\ own_pending_request'[u] \in {own_pending_request[u], NoReq}

(* A step that leaves the locks alone. *)
LEMMA StillWaits ==
    ASSUME IInv, IInv', WaitOK, StageOK', SameTable, Tells
    PROVE  WaitOK'
<1> PICK x : x = NoReq
  OBVIOUS
<1>1. x \notin Requests
  BY ConstantsAssumption
<1>2. Beside(x)
  BY DEF SameTable, Beside, lblVars, Ahead
<1>3. Milder(x)
  BY DEF Tells, Milder
<1>4. AskedInv' /\ NoConversionInv'
  BY <1>1, <1>2, AskedKept, HeldKept DEF WaitOK, StageOK
<1>5. HeldAheadInv'
  BY <1>1, <1>2, <1>4, AheadKept DEF WaitOK
<1>6. NoMissedDeadlock'
  BY <1>1, <1>2, <1>3, DeadlocksKept DEF WaitOK, KeptBy, RequestsOf
<1> QED
  BY <1>4, <1>5, <1>6 DEF WaitOK

(* A request is released. *)
LEMMA GoneWaits ==
    ASSUME IInv, IInv', WaitOK, StageOK', NEW x \in Requests, Beside(x), Tells,
           lrq_lock'[x] = NoLock
    PROVE  WaitOK'
<1>1. ~ Pending(x)' /\ lrq_state'[x] = LCK_none
  BY DEF IInv, TableInv, RequestInv
<1>2. Milder(x)
  BY DEF Tells, Milder
<1>3. AskedInv' /\ NoConversionInv'
  BY <1>1, AskedKept, HeldKept DEF WaitOK, StageOK
<1>4. HeldAheadInv'
  BY <1>1, <1>3, AheadKept DEF WaitOK
<1>5. \A r \in Requests : Pending(r)' => x \notin KeptBy(r)'
  BY DEF KeptBy, RequestsOf, IInv, TableInv, RequestInv
<1>6. NoMissedDeadlock'
  BY <1>1, <1>2, <1>5, DeadlocksKept DEF WaitOK
<1> QED
  BY <1>3, <1>4, <1>6 DEF WaitOK

(* A new request waits for nothing and keeps nobody waiting. *)
LEMMA NewWaits ==
    ASSUME IInv, IInv', WaitOK, StageOK', NEW x \in Requests, Beside(x), Tells,
           lrq_state'[x] = LCK_none, ~ Pending(x)'
    PROVE  WaitOK'
<1>1. Milder(x)
  BY DEF Tells, Milder
<1>2. AskedInv' /\ NoConversionInv'
  BY AskedKept, HeldKept DEF WaitOK, StageOK
<1>3. HeldAheadInv'
  BY <1>2, AheadKept, LevelsFact DEF WaitOK
<1>4. \A r \in Requests : COMPATIBLE(lrq_requested[r], lrq_state[x])'
  <2>1. \A r \in Requests : COMPATIBLE(lrq_requested'[r], LCK_none)
    BY CompatibleNone DEF IInv, TableInv, TypeOK
  <2> QED
    BY <2>1 DEF COMPATIBLE, CompatibleWith
<1>5. \A r \in Requests : x \notin KeptBy(r)'
  BY <1>4 DEF KeptBy, RequestsOf
<1>6. NoMissedDeadlock'
  BY <1>1, <1>5, DeadlocksKept DEF WaitOK
<1> QED
  BY <1>2, <1>3, <1>6 DEF WaitOK

(* A request that does not wait, or no longer, holds what it held. *)
LEMMA HoldsOn ==
    ASSUME IInv, IInv', WaitOK, StageOK', NEW x \in Requests, Beside(x), Tells,
           UNCHANGED <<lbl_requests, lrq_lock>>, ~ Pending(x)',
           lrq_owner'[x] = lrq_owner[x], lrq_state'[x] = lrq_state[x],
           "convert" \notin Calls => lrq_requested'[x] \in {lrq_requested[x]} \cup 0 .. lrq_state[x]
    PROVE  WaitOK'
<1>1. Milder(x)
  BY DEF Tells, Milder
<1>2. AskedInv' /\ NoConversionInv'
  BY AskedKept, HeldKept DEF WaitOK, StageOK, NoConversionInv
<1>3. \A r \in Requests \ {x} : Pending(r)' =>
          Untouched(r) /\ Pending(r) /\ lrq_lock[r] # NoLock
  BY DEF Beside, Untouched, IInv, TableInv, RequestInv
<1>4. HeldAheadInv'
  <2>1. ASSUME LOCK_ordering, "convert" \notin Calls, NEW s \in Requests \ {x},
               lrq_lock'[s] = lrq_lock'[x], lrq_lock'[x] # NoLock,
               Pending(s)', lrq_state'[x] > LCK_null
        PROVE  Ahead(x, s)'
    <3>1. lrq_lock[s] \in Locks
      BY <2>1 DEF IInv, TableInv, TypeOK
    <3>2. Ahead(x, s)
      BY <1>3, <2>1, <3>1 DEF WaitOK, HeldAheadInv, RequestsOf
    <3> QED
      BY <3>2 DEF Ahead
  <2> QED
    BY <1>2, <2>1, AheadKept DEF WaitOK
<1>5. ASSUME NEW r \in Requests \ {x}, Pending(r)', x \in KeptBy(r)'
      PROVE  x \in KeptBy(r)
  <2>1. ~ COMPATIBLE(lrq_requested'[r], lrq_state'[x]) /\ lrq_lock'[x] = lrq_lock'[r]
    BY <1>5 DEF KeptBy, RequestsOf, COMPATIBLE, CompatibleWith
  <2> QED
    BY <1>3, <1>5, <2>1 DEF KeptBy, RequestsOf, Untouched
<1>6. NoMissedDeadlock'
  BY <1>1, <1>5, DeadlocksKept DEF WaitOK
<1> QED
  BY <1>2, <1>4, <1>6 DEF WaitOK

(* A grant keeps nobody waiting who leads to another waiter: who is        *)
(* granted waits no more, and a level that is lowered keeps fewer waiting. *)
LEMMA GrantWaits ==
    ASSUME IInv, IInv', WaitOK, StageOK', NEW x \in Requests, Beside(x), Tells,
           lrq_lock[x] # NoLock,
           UNCHANGED <<lbl_requests, lrq_owner, lrq_lock, lrq_requested>>,
           ~ Pending(x)', lrq_state'[x] = lrq_requested[x],
           \/ own_pending_request[lrq_owner[x]] \in {x, NoReq}
           \/ \A s \in RequestsOf(lrq_lock[x]) \ {x} :
                 Pending(s) /\ COMPATIBLE(lrq_requested[s], lrq_state[x])
                     => COMPATIBLE(lrq_requested[s], lrq_requested[x]),
           LOCK_ordering /\ "convert" \notin Calls =>
               \/ lrq_requested[x] <= LCK_null
               \/ lrq_state[x] > LCK_null
               \/ \A s \in RequestsOf(lrq_lock[x]) \ {x} : Pending(s) => Ahead(x, s)
    PROVE  WaitOK'
<1>1. Milder(x)
  BY DEF Tells, Milder
<1>2. lrq_requested[x] \in States /\ lrq_requested'[x] = lrq_requested[x]
  BY DEF IInv, TableInv, TypeOK
<1>3. AskedInv' /\ NoConversionInv'
  <2>1. lrq_requested'[x] <= lrq_state'[x]
    BY <1>2, LevelsFact
  <2> QED
    BY <2>1, AskedKept, HeldKept DEF WaitOK, StageOK
<1>4. \A r \in Requests \ {x} : Pending(r)' =>
          Untouched(r) /\ Pending(r) /\ lrq_lock[r] # NoLock
  BY DEF Beside, Untouched, IInv, TableInv, RequestInv
<1>5. HeldAheadInv'
  <2>1. ASSUME LOCK_ordering, "convert" \notin Calls, NEW s \in Requests \ {x},
               lrq_lock'[s] = lrq_lock'[x], Pending(s)', lrq_state'[x] > LCK_null
        PROVE  Ahead(x, s)'
    <3>1. s \in RequestsOf(lrq_lock[x]) \ {x} /\ Pending(s) /\ lrq_lock[x] \in Locks
      BY <1>4, <2>1 DEF RequestsOf, IInv, TableInv, TypeOK
    <3>2. ~ (lrq_requested[x] <= LCK_null)
      BY <1>2, <2>1, LevelsFact
    <3>3. lrq_state[x] > LCK_null => Ahead(x, s)
      BY <2>1, <3>1 DEF WaitOK, HeldAheadInv, RequestsOf
    <3>4. Ahead(x, s)
      BY <2>1, <3>1, <3>2, <3>3
    <3> QED
      BY <3>4 DEF Ahead
  <2> QED
    BY <1>3, <2>1, AheadKept DEF WaitOK
<1>6. ASSUME NEW r \in Requests \ {x}, NEW t \in Requests \ {x},
             Pending(r)', Pending(t)', x \in KeptBy(r)', own_pending_request'[lrq_owner'[x]] = t
      PROVE  x \in KeptBy(r)
  <2>1. ~ COMPATIBLE(lrq_requested[r], lrq_requested[x]) /\ lrq_lock[x] = lrq_lock[r]
    BY <1>6 DEF KeptBy, RequestsOf, COMPATIBLE, CompatibleWith
  <2>2. lrq_owner[x] \in Owners
    BY DEF IInv, TableInv, TypeOK, RequestInv
  <2>3. own_pending_request[lrq_owner[x]] \notin {x, NoReq}
    BY <1>6, <2>2, ConstantsAssumption DEF Tells
  <2>4. r \in RequestsOf(lrq_lock[x]) \ {x} /\ Pending(r)
    BY <1>4, <1>6, <2>1 DEF RequestsOf
  <2>5. ~ COMPATIBLE(lrq_requested[r], lrq_state[x])
    BY <2>1, <2>3, <2>4
  <2> QED
    BY <2>1, <2>5 DEF KeptBy, RequestsOf
<1>7. NoMissedDeadlock'
  BY <1>1, <1>6, DeadlocksKept DEF WaitOK
<1> QED
  BY <1>3, <1>5, <1>7 DEF WaitOK

(* A new wait has not been scanned. *)
LEMMA WaitWaits ==
    ASSUME IInv, IInv', WaitOK, StageOK', NEW x \in Requests, Beside(x), Milder(x),
           Pending(x)', "scanned" \notin own_flags'[lrq_owner'[x]],
           own_pending_request'[lrq_owner'[x]] = x,
           lrq_requested'[x] # LCK_null,
           lrq_state'[x] = LCK_none => lrq_requested'[x] \in Levels,
           "convert" \notin Calls => lrq_state'[x] = LCK_none,
           LOCK_ordering /\ "convert" \notin Calls =>
               \A s \in RequestsOf(lrq_lock[x])' \ {x} : Ahead(s, x)',
           lrq_lock'[x] = lrq_lock[x]
    PROVE  WaitOK'
<1>1. AskedInv' /\ NoConversionInv'
  BY AskedKept, HeldKept DEF WaitOK, StageOK
<1>2. HeldAheadInv'
  <2>1. ASSUME LOCK_ordering, "convert" \notin Calls, NEW s \in Requests \ {x},
               lrq_lock'[s] = lrq_lock'[x]
        PROVE  Ahead(s, x)' /\ ~ (lrq_state'[x] > LCK_null)
    BY <2>1, LevelsFact DEF RequestsOf
  <2> QED
    BY <1>1, <2>1, AheadKept DEF WaitOK
<1>3. NoMissedDeadlock'
  BY DeadlocksKept DEF WaitOK
<1> QED
  BY <1>1, <1>2, <1>3 DEF WaitOK

-----------------------------------------------------------------------------
(* Deadlocks: every step but the scan that marks its owner.                *)

LEMMA TellsForm ==
    ASSUME IInv,
           \/ own_flags' = own_flags
           \/ \E u : own_flags' = post_wakeup(own_flags, u)
           \/ \E u : own_flags' = [own_flags EXCEPT ![u] = @ \ {"wakeup"}]
           \/ \E u : own_flags' = [own_flags EXCEPT ![u] = @ \ {"scanned"}]
           \/ \E u, v : own_flags' = post_wakeup([own_flags EXCEPT ![u] = @ \ {"scanned"}], v)
           \/ \E u : own_flags' = [own_flags EXCEPT ![u] = {}],
           \/ own_pending_request' = own_pending_request
           \/ \E u : own_pending_request' = [own_pending_request EXCEPT ![u] = NoReq]
    PROVE  Tells
<1>0. own_flags \in [Owners -> SUBSET OwnFlags]
  BY DEF IInv, TableInv, TypeOK
<1>1. ASSUME NEW f \in [Owners -> SUBSET OwnFlags], NEW v, NEW u \in Owners,
             "scanned" \in post_wakeup(f, v)[u]
      PROVE  "scanned" \in f[u]
  BY <1>1 DEF post_wakeup
<1>2. ASSUME NEW u \in Owners, "scanned" \in own_flags'[u]
      PROVE  "scanned" \in own_flags[u]
  <2>1. CASE own_flags' = own_flags
    BY <1>2, <2>1
  <2>2. CASE \E v : own_flags' = post_wakeup(own_flags, v)
    BY <1>0, <1>1, <1>2, <2>2
  <2>3. ASSUME NEW v, NEW F, "scanned" \in F => "scanned" \in own_flags[v],
               NEW f, f = [own_flags EXCEPT ![v] = F], "scanned" \in f[u]
        PROVE  "scanned" \in own_flags[u]
    BY <1>0, <2>3
  <2>4. CASE \E v : own_flags' = [own_flags EXCEPT ![v] = @ \ {"wakeup"}]
    <3> PICK v : own_flags' = [own_flags EXCEPT ![v] = own_flags[v] \ {"wakeup"}]
      BY <2>4
    <3> QED
      BY <1>2, <2>3
  <2>5. CASE \E v : own_flags' = [own_flags EXCEPT ![v] = @ \ {"scanned"}]
    <3> PICK v : own_flags' = [own_flags EXCEPT ![v] = own_flags[v] \ {"scanned"}]
      BY <2>5
    <3> QED
      BY <1>2, <2>3
  <2>6. CASE \E v : own_flags' = [own_flags EXCEPT ![v] = {}]
    <3> PICK v : own_flags' = [own_flags EXCEPT ![v] = {}]
      BY <2>6
    <3> QED
      BY <1>2, <2>3
  <2>7. CASE \E v, w : own_flags' = post_wakeup([own_flags EXCEPT ![v] = @ \ {"scanned"}], w)
    <3> PICK v, w : own_flags' = post_wakeup([own_flags EXCEPT ![v] = own_flags[v] \ {"scanned"}], w)
      BY <2>7
    <3> PICK f : f = [own_flags EXCEPT ![v] = own_flags[v] \ {"scanned"}]
      OBVIOUS
    <3>1. f \in [Owners -> SUBSET OwnFlags]
      BY <1>0
    <3>2. "scanned" \in f[u]
      BY <1>1, <1>2, <3>1
    <3> QED
      BY <2>3, <3>2
  <2> QED
    BY <2>1, <2>2, <2>4, <2>5, <2>6, <2>7
<1>3. \A u \in Owners : own_pending_request'[u] \in {own_pending_request[u], NoReq}
  BY DEF IInv, TableInv, TypeOK
<1> QED
  BY <1>2, <1>3 DEF Tells

(* The steps that leave the locks alone. *)
LEMMA Still_Waits ==
    ASSUME IInv, IInv', WaitOK, StageOK', NEW o \in Owners,
           \/ WaitOver(o) \/ WaitWoken(o) \/ SignalIgnored(o) \/ WaitForTable(o) \/ Crash(o) \/ WaitReturns(o)
           \/ ReleaseTable(o) \/ ReleaseMutex(o) \/ EnqOutOfRoom(o)
           \/ PostRefused(o) \/ PostDone(o)
           \/ PostBlockDone(o) \/ ProbeDone(o)
           \/ \E v \in Owners : ProbeOwner(o, v)
           \/ AstDone(o) \/ CreateOwner(o) \/ Probed(o)
           \/ WokenResolved(o) \/ WokenPending(o) \/ SignalHandled(o)
           \/ AstReturns(o) \/ LOCK_fini(o) \/ LOCK_init(o) \/ ConvertRejected(o)
           \/ AstNext(o) \/ PostBlock(o) \/ LOCK_re_post(o) \/ PurgeOwner(o)
    PROVE  WaitOK'
<1>1. CASE AstNext(o) \/ PostBlock(o) \/ LOCK_re_post(o) \/ PurgeOwner(o)
  <2>1. SameTable
    BY <1>1, AstNext_Table, PostBlock_Table, LOCK_re_post_Table, PurgeOwner_Table
  <2>2. \/ own_flags' = own_flags
        \/ own_flags' = [own_flags EXCEPT ![sec.victim] = {}]
    BY <1>1 DEF AstNext, PostBlock, LOCK_re_post, PurgeOwner
  <2>3. own_pending_request' = own_pending_request
    BY <1>1 DEF AstNext, PostBlock, LOCK_re_post, PurgeOwner
  <2>4. Tells
    BY <2>2, <2>3, TellsForm
  <2> QED
    BY <2>1, <2>4, StillWaits
<1>2. CASE \/ WaitOver(o) \/ WaitWoken(o) \/ SignalIgnored(o) \/ WaitForTable(o) \/ Crash(o) \/ WaitReturns(o)
           \/ WokenResolved(o) \/ WokenPending(o) \/ SignalHandled(o)
           \/ AstReturns(o) \/ LOCK_fini(o) \/ LOCK_init(o) \/ ConvertRejected(o)
  <2>1. UNCHANGED <<lblVars, lrqVars>>
    BY <1>2 DEF WaitOver, WaitWoken, SignalIgnored, WaitForTable, Crash, WaitReturns, WokenResolved,
       WokenPending, SignalHandled, AstReturns, LOCK_fini, LOCK_init, ConvertRejected
  <2>2. \/ own_flags' = own_flags
        \/ own_flags' = [own_flags EXCEPT ![o] = @ \ {"wakeup"}]
    BY <1>2 DEF WaitOver, WaitWoken, SignalIgnored, WaitForTable, Crash, WaitReturns, WokenResolved, Woken,
       WokenPending, SignalHandled, AstReturns, LOCK_fini, LOCK_init, ConvertRejected, ownVars
  <2>3. \/ own_pending_request' = own_pending_request
        \/ own_pending_request' = [own_pending_request EXCEPT ![o] = NoReq]
    BY <1>2 DEF WaitOver, WaitWoken, SignalIgnored, WaitForTable, Crash, WaitReturns, WokenResolved,
       WokenPending, SignalHandled, AstReturns, LOCK_fini, LOCK_init, ConvertRejected, ownVars
  <2>4. Tells
    BY <2>2, <2>3, TellsForm
  <2> QED
    BY <2>1, <2>4, TableSame, StillWaits
<1>3. CASE \/ ReleaseTable(o) \/ ReleaseMutex(o) \/ EnqOutOfRoom(o)
           \/ PostRefused(o) \/ PostDone(o)
           \/ PostBlockDone(o) \/ ProbeDone(o)
           \/ \E v \in Owners : ProbeOwner(o, v)
           \/ AstDone(o) \/ CreateOwner(o) \/ Probed(o)
  <2>1. UNCHANGED <<lblVars, lrqVars>>
    BY <1>3 DEF ReleaseTable, ReleaseMutex, EnqOutOfRoom, PostRefused, PostDone,
       PostBlockDone, ProbeDone, ProbeOwner, AstDone, CreateOwner, Probed
  <2>2. \/ own_flags' = own_flags
        \/ own_flags' = [own_flags EXCEPT ![o] = {}]
        \/ \E u : own_flags' = post_wakeup(own_flags, u)
    BY <1>3 DEF ReleaseTable, ReleaseMutex, EnqOutOfRoom, PostRefused, PostDone,
       PostBlockDone, ProbeDone, ProbeOwner, AstDone, CreateOwner, Probed, ownVars
  <2>3. \/ own_pending_request' = own_pending_request
        \/ own_pending_request' = [own_pending_request EXCEPT ![o] = NoReq]
    BY <1>3 DEF ReleaseTable, ReleaseMutex, EnqOutOfRoom, PostRefused, PostDone,
       PostBlockDone, ProbeDone, ProbeOwner, AstDone, CreateOwner, Probed, ownVars
  <2>4. Tells
    BY <2>2, <2>3, TellsForm
  <2> QED
    BY <2>1, <2>4, TableSame, StillWaits
<1> QED
  BY <1>1, <1>2, <1>3

(* release_request() leaves the others where they are. *)
LEMMA ReleaseBeside ==
    ASSUME IInv, IInv', NEW r \in Requests, lrq_lock[r] \in Locks,
           NEW after \in {"release", "enq", "purge"}, ReleaseRequest(r, after)
    PROVE  Beside(r) /\ lrq_lock'[r] = NoLock
<1> PICK k \in Locks : k = lrq_lock[r]
  OBVIOUS
<1> PICK q : q = lbl_requests[k]
  OBVIOUS
<1>1. TypeOK /\ Released(r, after)
  BY ReleaseFields DEF IInv, TableInv
<1>2. /\ lbl_requests' = [lbl_requests EXCEPT ![k] = Without(q, r)]
      /\ lrq_lock' = [lrq_lock EXCEPT ![r] = NoLock]
  BY Zenon DEF ReleaseRequest
<1>3. \A s \in Requests \ {r} : Untouched(s)
  BY <1>1 DEF Released, Untouched, Pending
<1>4. q \in Seq(Requests) /\ Injective(q) /\ Members(q) = RequestsOf(k) /\ r \in Members(q)
  BY <1>1 DEF IInv, TableInv, TypeOK, QueueInv, RequestsOf
<1>5. ASSUME NEW a \in Requests \ {r}, NEW b \in Requests \ {r},
             lrq_lock[a] # NoLock, lrq_lock[a] = lrq_lock[b], Ahead(a, b)
      PROVE  Ahead(a, b)'
  <2>1. lrq_lock'[b] = lrq_lock[b] /\ lrq_lock[b] \in Locks
    BY <1>1, <1>3, <1>5 DEF Untouched, TypeOK
  <2>2. CASE lrq_lock[b] = k
    <3>1. a \in Members(q) \ {r} /\ b \in Members(q) \ {r} /\ Precedes(q, a, b)
      BY <1>4, <1>5, <2>2 DEF RequestsOf, Ahead, Precedes
    <3>2. Precedes(Without(q, r), a, b) /\ lbl_requests'[k] = Without(q, r)
      BY <1>1, <1>2, <1>4, <3>1, WithoutOrder DEF TypeOK
    <3> QED
      BY <2>1, <2>2, <3>2 DEF Ahead, Precedes
  <2>3. CASE lrq_lock[b] # k
    <3>1. lbl_requests'[lrq_lock[b]] = lbl_requests[lrq_lock[b]]
      BY <1>1, <1>2, <2>1, <2>3 DEF TypeOK
    <3> QED
      BY <1>5, <2>1, <3>1 DEF Ahead
  <2> QED
    BY <2>2, <2>3
<1>6. lrq_lock'[r] = NoLock
  BY <1>1, <1>2 DEF TypeOK
<1> QED
  BY <1>3, <1>5, <1>6, OrderKept

LEMMA Releases_Waits ==
    ASSUME IInv, IInv', WaitOK, StageOK', NEW r \in Requests, lrq_lock[r] \in Locks,
           NEW after \in {"release", "enq", "purge"}, ReleaseRequest(r, after),
           UNCHANGED <<own_pending_request, own_flags>>
    PROVE  WaitOK'
<1>1. Tells
  BY TellsForm
<1> QED
  BY <1>1, ReleaseBeside, GoneWaits

LEMMA Frees_Waits ==
    ASSUME IInv, IInv', WaitOK, StageOK', NEW o \in Owners,
           \/ QueDenied(o) \/ EnqRejected(o)
           \/ \E r \in Requests : \/ LOCK_deq(o, r) \/ PurgeRequest(o, r)
                                  \/ LOCK_downgrade(o, r) /\ ReleaseRequest(r, "release")
    PROVE  WaitOK'
<1>0. \A r \in Requests : lrq_lock[r] # NoLock => lrq_lock[r] \in Locks
  BY DEF IInv, TableInv, TypeOK
<1>1. CASE QueDenied(o)
  <2>1. /\ sec.req \in Requests /\ lrq_lock[sec.req] # NoLock
        /\ ReleaseRequest(sec.req, "release")
        /\ UNCHANGED <<own_pending_request, own_flags>>
    BY <1>1 DEF QueDenied, IInv, SecInv
  <2> QED
    BY <1>0, <2>1, Releases_Waits
<1>2. CASE EnqRejected(o)
  <2>1. /\ op[o].req \in Requests /\ lrq_lock[op[o].req] # NoLock
        /\ ReleaseRequest(op[o].req, "release")
        /\ UNCHANGED <<own_pending_request, own_flags>>
    BY <1>2 DEF EnqRejected, Main, IInv, WaitInv
  <2> QED
    BY <1>0, <2>1, Releases_Waits
<1>3. ASSUME NEW r \in Requests,
             LOCK_deq(o, r) \/ (LOCK_downgrade(o, r) /\ ReleaseRequest(r, "release"))
      PROVE  WaitOK'
  <2>1. /\ MayCall(o) /\ lhb_active_owner = NoOwner /\ r \in Callable(o)
        /\ ReleaseRequest(r, "release")
        /\ UNCHANGED <<own_pending_request, own_flags>>
    BY <1>3 DEF LOCK_deq, LOCK_downgrade, acquire
  <2>2. lrq_lock[r] \in Locks
    BY <2>1, CallableFacts
  <2> QED
    BY <2>1, <2>2, Releases_Waits
<1>4. ASSUME NEW r \in Requests, PurgeRequest(o, r)
      PROVE  WaitOK'
  <2>1. /\ lrq_lock[r] # NoLock /\ ReleaseRequest(r, "purge")
        /\ UNCHANGED <<own_pending_request, own_flags>>
    BY <1>4 DEF PurgeRequest, own_requests
  <2> QED
    BY <1>0, <2>1, Releases_Waits
<1> QED
  BY <1>1, <1>2, <1>3, <1>4

LEMMA LOCK_enq_Waits ==
    ASSUME IInv, IInv', WaitOK, StageOK', NEW o \in Owners, NEW l \in Locks, NEW m \in Levels,
           NEW w \in Waits, NEW a \in AstArgs, NEW p \in Requests \cup {NoReq},
           LOCK_enq(o, l, m, w, a, p)
    PROVE  WaitOK'
<1>1. UNCHANGED <<own_pending_request, own_flags>>
  BY DEF LOCK_enq
<1>2. Tells
  BY <1>1, TellsForm
<1>3. CASE p \in Callable(o) /\ ReleaseRequest(p, "enq")
  <2>1. p \in Requests /\ lrq_lock[p] \in Locks
    BY <1>3, CallableFacts DEF LOCK_enq, acquire
  <2> QED
    BY <1>1, <1>3, <2>1, Releases_Waits
<1>4. CASE UNCHANGED <<lblVars, lrqVars>>
  BY <1>2, <1>4, TableSame, StillWaits
<1> QED
  BY <1>3, <1>4 DEF LOCK_enq

(* Others than x are as they were if only the fields of x change. *)
LEMMA SameOrder ==
    ASSUME IInv, IInv', NEW x, UNCHANGED <<lbl_requests, lrq_lock>>,
           \A s \in Requests \ {x} : Untouched(s)
    PROVE  Beside(x)
  BY DEF Beside, Ahead

(* A rejection: by a deadlock scan, or by the lock timeout. *)
LEMMA Rejects_Waits ==
    ASSUME IInv, IInv', WaitOK, StageOK', NEW t \in Requests, Tells,
           lrq_flags' = [lrq_flags EXCEPT ![t] = (@ \ {"pending"}) \cup {"rejected"}],
           UNCHANGED <<lbl_requests, lrq_owner, lrq_lock, lrq_requested, lrq_state>>
    PROVE  WaitOK'
<1>1. \A s \in Requests \ {t} : Untouched(s)
  BY DEF Untouched, Pending, IInv, TableInv, TypeOK
<1>2. ~ Pending(t)'
  BY DEF Pending, IInv, TableInv, TypeOK
<1> QED
  BY <1>1, <1>2, SameOrder, HoldsOn

LEMMA Victims_Waits ==
    ASSUME IInv, IInv', WaitOK, StageOK', NEW o \in Owners,
           WokenTimedOut(o) \/ \E t \in Requests : ScanVictim(o, t)
    PROVE  WaitOK'
<1>1. CASE WokenTimedOut(o)
  <2>1. op[o].req \in Requests
    BY <1>1 DEF WokenTimedOut, Woken, Main, IInv, WaitInv
  <2>2. Tells
    <3>1. own_flags' = [own_flags EXCEPT ![o] = @ \ {"wakeup"}]
      BY <1>1 DEF WokenTimedOut, Woken
    <3> QED
      BY <1>1, <3>1, TellsForm DEF WokenTimedOut
  <2> QED
    BY <1>1, <2>1, <2>2, Rejects_Waits DEF WokenTimedOut
<1>2. ASSUME NEW t \in Requests, ScanVictim(o, t)
      PROVE  WaitOK'
  <2>1. \/ own_flags' = [own_flags EXCEPT ![lrq_owner[t]] = @ \ {"scanned"}]
        \/ \E v : own_flags' =
              post_wakeup([own_flags EXCEPT ![lrq_owner[t]] = @ \ {"scanned"}], v)
    BY <1>2 DEF ScanVictim
  <2>2. own_pending_request' = [own_pending_request EXCEPT ![lrq_owner[t]] = NoReq]
    BY <1>2 DEF ScanVictim
  <2>3. Tells
    BY <2>1, <2>2, TellsForm
  <2> QED
    BY <1>2, <2>3, Rejects_Waits DEF ScanVictim
<1> QED
  BY <1>1, <1>2

(* A request that does not wait asks for another level, or no longer.      *)
LEMMA Asks_Waits ==
    ASSUME IInv, IInv', WaitOK, StageOK', NEW r \in Requests, ~ Pending(r), NEW m,
           lrq_requested' = [lrq_requested EXCEPT ![r] = m],
           "convert" \notin Calls => m \in 0 .. lrq_state[r],
           \/ lrq_flags' = lrq_flags
           \/ lrq_flags' = [lrq_flags EXCEPT ![r] = @ \ {"blocking_seen"}],
           UNCHANGED <<lbl_requests, lrq_owner, lrq_lock, lrq_state, own_flags,
                       own_pending_request>>
    PROVE  WaitOK'
<1>1. \A s \in Requests \ {r} : Untouched(s)
  BY DEF Untouched, Pending, IInv, TableInv, TypeOK
<1>2. ~ Pending(r)'
  BY DEF Pending, IInv, TableInv, TypeOK
<1>3. Tells
  BY TellsForm
<1>4. "convert" \notin Calls => lrq_requested'[r] \in {lrq_requested[r]} \cup 0 .. lrq_state[r]
  BY DEF IInv, TableInv, TypeOK
<1> QED
  BY <1>1, <1>2, <1>3, <1>4, SameOrder, HoldsOn

LEMMA Converts_Waits ==
    ASSUME IInv, IInv', WaitOK, StageOK', NEW o \in Owners,
           \/ ConvertDenied(o) \/ ConvertReset(o)
           \/ \E r \in Requests : \/ \E m \in Levels, w \in Waits : LOCK_convert(o, r, m, w)
                                  \/ /\ LOCK_downgrade(o, r)
                                     /\ ~ ReleaseRequest(r, "release")
    PROVE  WaitOK'
<1>0. ASSUME NEW r \in Requests
      PROVE  lrq_state[r] \in 0 .. lrq_state[r]
  <2>1. lrq_state[r] \in 0 .. 6
    BY LevelsFact DEF IInv, TableInv, TypeOK
  <2> QED
    BY <2>1
<1>1. CASE ConvertDenied(o) \/ ConvertReset(o)
  <2>1. sec.req \in Requests /\ ~ Pending(sec.req)
    BY <1>1 DEF ConvertDenied, ConvertReset, IInv, SecInv
  <2>2. /\ lrq_requested' = [lrq_requested EXCEPT ![sec.req] = lrq_state[sec.req]]
        /\ lrq_flags' = lrq_flags
        /\ UNCHANGED <<lbl_requests, lrq_owner, lrq_lock, lrq_state, own_flags,
                       own_pending_request>>
    BY <1>1 DEF ConvertDenied, ConvertReset, lblVars, ownVars
  <2> QED
    BY <1>0, <2>1, <2>2, Asks_Waits
<1>2. ASSUME NEW r \in Requests, NEW m \in Levels, NEW w \in Waits, LOCK_convert(o, r, m, w)
      PROVE  WaitOK'
  <2>1. ~ Pending(r)
    BY <1>2, CallableFacts DEF LOCK_convert, acquire
  <2>2. /\ lrq_requested' = [lrq_requested EXCEPT ![r] = m] /\ "convert" \in Calls
        /\ lrq_flags' = [lrq_flags EXCEPT ![r] = @ \ {"blocking_seen"}]
        /\ UNCHANGED <<lbl_requests, lrq_owner, lrq_lock, lrq_state, own_flags,
                       own_pending_request>>
    BY <1>2 DEF LOCK_convert, lblVars, ownVars
  <2> QED
    BY <2>1, <2>2, Asks_Waits
<1>3. ASSUME NEW r \in Requests, LOCK_downgrade(o, r), ~ ReleaseRequest(r, "release")
      PROVE  WaitOK'
  <2>1. ~ Pending(r)
    BY <1>3, CallableFacts DEF LOCK_downgrade, acquire
  <2>2. /\ DowngradedState(r) \notin {LCK_none, LCK_null}
        /\ lrq_requested' = [lrq_requested EXCEPT ![r] = DowngradedState(r)]
        /\ lrq_flags' = [lrq_flags EXCEPT ![r] = @ \ {"blocking_seen"}]
        /\ UNCHANGED <<lbl_requests, lrq_owner, lrq_lock, lrq_state, own_flags,
                       own_pending_request>>
    BY <1>3 DEF LOCK_downgrade, lblVars, ownVars
  <2>3. DowngradedState(r) \in 0 .. lrq_state[r]
    <3>1. DowngradedState(r) \in States /\ DowngradedState(r) <= lrq_state[r]
      BY <2>2, DowngradeLets
    <3> QED
      BY <3>1, LevelsFact DEF IInv, TableInv, TypeOK
  <2> QED
    BY <2>1, <2>2, <2>3, Asks_Waits
<1> QED
  BY <1>1, <1>2, <1>3

(* The new request goes to the tail. *)
LEMMA EnqInsert_Waits ==
    ASSUME IInv, IInv', WaitOK, StageOK', NEW o \in Owners, NEW r \in Requests, EnqInsert(o, r)
    PROVE  WaitOK'
<1> PICK k : k = op[o].lock
  OBVIOUS
<1>1. /\ lhb_active_owner = o /\ sec.at = "enq" /\ r \in FreeRequests
      /\ lrq_owner' = [lrq_owner EXCEPT ![r] = o]
      /\ lrq_lock' = [lrq_lock EXCEPT ![r] = k]
      /\ lrq_requested' = [lrq_requested EXCEPT ![r] = op[o].level]
      /\ lrq_state' = [lrq_state EXCEPT ![r] = LCK_none]
      /\ lrq_flags' = [lrq_flags EXCEPT ![r] = {}]
      /\ lbl_requests' = [lbl_requests EXCEPT ![k] = Append(@, r)]
      /\ UNCHANGED <<own_flags, own_pending_request>>
  BY DEF EnqInsert, ownVars
<1>2. TypeOK
  BY DEF IInv, TableInv
<1>3. \A s \in Requests \ {r} : Untouched(s)
  BY <1>1, <1>2 DEF Untouched, Pending, TypeOK
<1>4. lrq_state'[r] = LCK_none /\ ~ Pending(r)'
  BY <1>1, <1>2 DEF TypeOK, Pending
<1>5. ASSUME NEW a \in Requests \ {r}, NEW b \in Requests \ {r},
             lrq_lock[a] # NoLock, lrq_lock[a] = lrq_lock[b], Ahead(a, b)
      PROVE  Ahead(a, b)'
  <2> PICK l \in Locks : l = lrq_lock[b]
    BY <1>2, <1>5 DEF TypeOK
  <2> PICK q \in Seq(Requests) : q = lbl_requests[l]
    BY <1>2 DEF TypeOK
  <2>1. lrq_lock'[b] = l
    BY <1>3 DEF Untouched
  <2>2. lbl_requests'[l] \in {q, Append(q, r)}
    BY <1>1, <1>2 DEF TypeOK
  <2> PICK i \in 1 .. Len(q), j \in 1 .. Len(q) : q[i] = a /\ q[j] = b /\ i < j
    BY <1>5 DEF Ahead
  <2>3. /\ i \in 1 .. Len(Append(q, r)) /\ Append(q, r)[i] = a
        /\ j \in 1 .. Len(Append(q, r)) /\ Append(q, r)[j] = b
    OBVIOUS
  <2> QED
    BY <2>1, <2>2, <2>3 DEF Ahead
<1>6. Beside(r)
  BY <1>3, <1>5, OrderKept
<1>7. Tells
  BY <1>1, TellsForm
<1> QED
  BY <1>4, <1>6, <1>7, NewWaits

(* grant() *)
LEMMA Granted_Waits ==
    ASSUME IInv, IInv', WaitOK, StageOK', NEW r \in Requests, NEW counts, Grant(r, counts),
           lrq_lock[r] # NoLock,
           UNCHANGED <<lbl_requests, lrq_owner, lrq_lock, lrq_requested, own_pending_request>>,
           \/ own_pending_request[lrq_owner[r]] \in {r, NoReq}
           \/ \A s \in RequestsOf(lrq_lock[r]) \ {r} :
                 Pending(s) /\ COMPATIBLE(lrq_requested[s], lrq_state[r])
                     => COMPATIBLE(lrq_requested[s], lrq_requested[r]),
           LOCK_ordering /\ "convert" \notin Calls =>
               \/ lrq_requested[r] <= LCK_null
               \/ lrq_state[r] > LCK_null
               \/ \A s \in RequestsOf(lrq_lock[r]) \ {r} : Pending(s) => Ahead(r, s)
    PROVE  WaitOK'
<1>1. /\ lrq_state' = [lrq_state EXCEPT ![r] = lrq_requested[r]]
      /\ lrq_flags' = [lrq_flags EXCEPT ![r] = @ \ {"pending"}]
      /\ own_flags' = post_wakeup(own_flags, lrq_owner[r])
  BY Zenon DEF Grant
<1>2. /\ \A s \in Requests \ {r} : Untouched(s)
      /\ ~ Pending(r)' /\ lrq_state'[r] = lrq_requested[r]
  BY <1>1 DEF Untouched, Pending, IInv, TableInv, TypeOK
<1>3. Tells
  BY <1>1, TellsForm
<1>4. Beside(r)
  BY <1>2, SameOrder
<1> QED
  BY <1>2, <1>3, <1>4, GrantWaits

LEMMA PostGrant_Waits ==
    ASSUME IInv, IInv', OrderInv, WaitersInv, WaitOK, StageOK', NEW o \in Owners, PostGrant(o)
    PROVE  WaitOK'
<1> PICK i : i = NextPending
  OBVIOUS
<1> PICK q : q = lbl_requests[sec.lock]
  OBVIOUS
<1> PICK r : r = q[i]
  OBVIOUS
<1>1. /\ sec.at = "post" /\ PendingAhead # {}
      /\ Grant(r, CountsWithout(r))
      /\ UNCHANGED <<lbl_requests, lrq_owner, lrq_lock, lrq_requested, own_pending_request>>
  BY DEF PostGrant
<1>2. r \in Requests /\ Pending(r) /\ lrq_lock[r] = sec.lock /\ sec.lock \in Locks
  BY <1>1, NextPendingFacts DEF PostGrant, IInv, SecInv
<1>3. own_pending_request[lrq_owner[r]] = r
  BY <1>2 DEF WaitersInv
<1>4. ASSUME LOCK_ordering, NEW s \in RequestsOf(sec.lock) \ {r}, Pending(s)
      PROVE  Ahead(r, s)
  <2>1. /\ q \in Seq(Requests) /\ i \in 1 .. Len(q)
        /\ \A j \in 1 .. Len(q) : Pending(q[j]) => i <= j
    BY <1>1, <1>4, FirstWaiter
  <2>2. Members(q) = RequestsOf(sec.lock)
    BY <1>2 DEF IInv, TableInv, QueueInv
  <2> PICK j \in 1 .. Len(q) : q[j] = s
    BY <2>2 DEF Members
  <2>3. i <= j /\ i # j /\ i \in Int /\ j \in Int
    BY <1>4, <2>1
  <2>4. i < j
    BY <2>3
  <2> QED
    BY <2>1, <2>4 DEF Ahead, RequestsOf
<1>5. lrq_lock[r] # NoLock
  BY <1>2, ConstantsAssumption
<1> QED
  BY <1>1, <1>2, <1>3, <1>4, <1>5, Granted_Waits

LEMMA QueGranted_Waits ==
    ASSUME IInv, IInv', WaitersInv, WaitOK, StageOK', NEW o \in Owners, QueGranted(o)
    PROVE  WaitOK'
<1> PICK r : r = sec.req
  OBVIOUS
<1>1. /\ lhb_active_owner = o /\ sec.at = "grant_or_que" /\ GrantAtOnce(r)
      /\ Grant(r, lbl_counts[lrq_lock[r]])
      /\ UNCHANGED <<lbl_requests, lrq_owner, lrq_lock, lrq_requested, own_pending_request>>
  BY DEF QueGranted
<1>2. /\ r \in Requests /\ lrq_owner[r] = o /\ lrq_lock[r] # NoLock /\ o \in alive
      /\ pc[o] = "out"
  BY <1>1, ConstantsAssumption DEF IInv, SecInv
<1>3. lrq_lock[r] \in Locks /\ o \in lhb_owners
  BY <1>2, ConstantsAssumption DEF IInv, TableInv, TypeOK, RequestInv
<1>4. own_pending_request[lrq_owner[r]] = NoReq
  <2>1. ~ Purging(o)
    BY <1>1 DEF Purging
  <2> QED
    BY <1>2, <1>3, <2>1 DEF WaitersInv
<1>5. LOCK_ordering => \/ lrq_requested[r] <= LCK_null
                       \/ \A s \in RequestsOf(lrq_lock[r]) \ {r} : Pending(s) => Ahead(r, s)
  <2>1. CASE lrq_requested[r] = LCK_null
    BY <2>1, LevelsFact
  <2>2. CASE lbl_pending_lrq_count[lrq_lock[r]] = 0
    BY <1>3, <2>2, NobodyWaits DEF RequestsOf
  <2> QED
    BY <1>1, <2>1, <2>2 DEF GrantAtOnce
<1> QED
  BY <1>1, <1>2, <1>4, <1>5, Granted_Waits

LEMMA ConvertGranted_Waits ==
    ASSUME IInv, IInv', OrderInv, WaitersInv, LowerInv, WaitOK, StageOK', NEW o \in Owners,
           ConvertGranted(o)
    PROVE  WaitOK'
<1> PICK r : r = sec.req
  OBVIOUS
<1>1. /\ lhb_active_owner = o /\ sec.at \in {"convert", "downgrade"}
      /\ Grant(r, CountsWithout(r))
      /\ UNCHANGED <<lbl_requests, lrq_owner, lrq_lock, lrq_requested, own_pending_request>>
  BY DEF ConvertGranted
<1>2. /\ r \in Requests /\ lrq_owner[r] = o /\ lrq_lock[r] # NoLock /\ o \in alive
      /\ sec.at = "convert" => pc[o] = "out"
  BY <1>1, ConstantsAssumption DEF IInv, SecInv
<1>3. o \in lhb_owners
  BY <1>2, ConstantsAssumption DEF IInv, TableInv, RequestInv
<1>4. CASE sec.at = "convert"
  <2>1. ~ Purging(o)
    BY <1>4 DEF Purging
  <2>2. own_pending_request[lrq_owner[r]] = NoReq
    BY <1>2, <1>3, <1>4, <2>1 DEF WaitersInv
  <2>3. "convert" \in Calls
    BY <1>4 DEF WaitOK, NoConversionInv
  <2> QED
    BY <1>1, <1>2, <2>2, <2>3, Granted_Waits
<1>5. CASE sec.at = "downgrade"
  <2>1. /\ lrq_requested[r] <= lrq_state[r]
        /\ \A s \in RequestsOf(lrq_lock[r]) \ {r} :
              Pending(s) /\ COMPATIBLE(lrq_requested[s], lrq_state[r])
                  => COMPATIBLE(lrq_requested[s], lrq_requested[r])
    BY <1>5 DEF LowerInv
  <2>2. lrq_requested[r] \in 0 .. 6 /\ lrq_state[r] \in 0 .. 6 /\ LCK_null = 1
    BY <1>2, LevelsFact DEF IInv, TableInv, TypeOK
  <2>3. lrq_requested[r] <= LCK_null \/ lrq_state[r] > LCK_null
    BY <2>1, <2>2
  <2> QED
    BY <1>1, <1>2, <2>1, <2>3, Granted_Waits
<1> QED
  BY <1>1, <1>4, <1>5

(* wait_for_request() begins. *)
LEMMA BeginWait_Waits ==
    ASSUME IInv, IInv', OrderInv, WaitOK, StageOK', NEW o \in Owners,
           QueWaits(o) \/ ConvertWaits(o)
    PROVE  WaitOK'
<1> PICK r : r = sec.req
  OBVIOUS
<1> PICK k : k = lrq_lock[r]
  OBVIOUS
<1> PICK q : q = lbl_requests[k]
  OBVIOUS
<1> PICK w : w = IF LOCK_ordering /\ lrq_state[r] = LCK_none THEN Append(Without(q, r), r) ELSE q
  OBVIOUS
<1>1. /\ lhb_active_owner = o /\ sec.at \in {"grant_or_que", "convert"} /\ BeginWait(o, r)
      /\ UNCHANGED <<lrq_owner, lrq_lock, lrq_requested, lrq_state>>
      /\ sec.at = "grant_or_que" => ~ GrantAtOnce(r)
      /\ sec.at = "convert" => ~ Convertible(r)
  BY DEF QueWaits, ConvertWaits
<1>2. /\ TypeOK /\ r \in Requests /\ lrq_owner[r] = o /\ lrq_lock[r] # NoLock
      /\ sec.at = "grant_or_que" => lrq_state[r] = LCK_none
  BY <1>1 DEF IInv, SecInv, TableInv
<1>3. k \in Locks
  BY <1>2 DEF TypeOK
<1>4. /\ lrq_flags' = [lrq_flags EXCEPT ![r] = (@ \ {"rejected"}) \cup {"pending"}]
      /\ lbl_requests' = [lbl_requests EXCEPT ![k] = w]
      /\ own_pending_request' = [own_pending_request EXCEPT ![o] = r]
      /\ own_flags' = [own_flags EXCEPT ![o] = FlagsAtWait(o)]
  BY <1>1, Zenon DEF BeginWait
<1>5. q \in Seq(Requests) /\ Injective(q) /\ r \in Members(q) /\ Members(q) = RequestsOf(k)
  BY <1>2, <1>3 DEF IInv, TableInv, TypeOK, QueueInv, RequestsOf
<1>6. \A s \in Requests \ {r} : Untouched(s)
  BY <1>1, <1>2, <1>4 DEF Untouched, Pending, TypeOK
<1>7. lbl_requests'[k] = w /\ \A l \in Locks \ {k} : lbl_requests'[l] = lbl_requests[l]
  BY <1>2, <1>3, <1>4 DEF TypeOK
<1>8. ASSUME NEW a \in Requests \ {r}, NEW b \in Requests \ {r},
             lrq_lock[a] # NoLock, lrq_lock[a] = lrq_lock[b], Ahead(a, b)
      PROVE  Ahead(a, b)'
  <2>1. lrq_lock[b] \in Locks /\ lrq_lock'[b] = lrq_lock[b]
    BY <1>1, <1>2, <1>8 DEF TypeOK
  <2>2. CASE lrq_lock[b] # k
    BY <1>7, <1>8, <2>1, <2>2 DEF Ahead
  <2>3. CASE lrq_lock[b] = k
    <3>1. Precedes(q, a, b) /\ a \in Members(q) \ {r} /\ b \in Members(q) \ {r}
      BY <1>5, <1>8, <2>3 DEF Ahead, Precedes, RequestsOf
    <3>2. Precedes(w, a, b)
      BY <1>5, <3>1, MovedToTail
    <3> QED
      BY <1>7, <2>1, <2>3, <3>2 DEF Ahead, Precedes
  <2> QED
    BY <2>2, <2>3
<1>9. Beside(r)
  BY <1>6, <1>8, OrderKept
<1>10. /\ Pending(r)' /\ "scanned" \notin own_flags'[lrq_owner'[r]]
       /\ own_pending_request'[lrq_owner'[r]] = r
  BY <1>1, <1>2, <1>4 DEF TypeOK, Pending, FlagsAtWait
<1>11. Milder(r)
  BY <1>2, <1>4 DEF Milder, TypeOK, FlagsAtWait
<1>12. lrq_requested[r] # LCK_null
  <2> SUFFICES ASSUME lrq_requested[r] = LCK_null
               PROVE  FALSE
    OBVIOUS
  <2>1. lbl_state[k] \in States /\ lock_state(CountsWithout(r)) \in States
    <3>1. CountsWithout(r) \in [Granted -> Nat]
      BY <1>2, <1>3, CountsWithoutFacts DEF IInv, TableInv
    <3> QED
      BY <1>2, <1>3, <3>1, LockStateMax DEF TypeOK
  <2>2. COMPATIBLE(lrq_requested[r], lbl_state[k])
        /\ COMPATIBLE(lrq_requested[r], lock_state(CountsWithout(r)))
    BY <2>1, LevelsFact DEF COMPATIBLE, CompatibleWith
  <2> QED
    BY <1>1, <2>2 DEF GrantAtOnce, Convertible
<1>13. lrq_state[r] = LCK_none => lrq_requested[r] \in Levels
  BY <1>1 DEF WaitOK, AskedInv, OrderInv, NewcomerInv
<1>14. "convert" \notin Calls => lrq_state[r] = LCK_none
  BY <1>1, <1>2 DEF WaitOK, NoConversionInv
<1>15. ASSUME LOCK_ordering, lrq_state[r] = LCK_none, NEW s \in RequestsOf(k)' \ {r}
       PROVE  Ahead(s, r)'
  <2>1. s \in Members(q) \ {r} /\ w = Append(Without(q, r), r)
    BY <1>1, <1>5, <1>15 DEF RequestsOf
  <2>2. Precedes(w, s, r)
    BY <1>5, <2>1, MovedToTail
  <2> QED
    BY <1>1, <1>7, <2>2 DEF Ahead, Precedes
<1> QED
  BY <1>1, <1>2, <1>9, <1>10, <1>11, <1>12, <1>13, <1>14, <1>15, WaitWaits

-----------------------------------------------------------------------------
(* Deadlocks: what the walk finds.                                         *)

LEMMA PendingFinite == IsFiniteSet(PendingRequests)
<1>1. PendingRequests \in SUBSET Requests
  BY DEF PendingRequests
<1> QED
  BY <1>1, FiniteRequests, FS_Subset

(* What is visited is closed under WalkNext, and the least such set.       *)
LEMMA VisitedClosed ==
    ASSUME NEW R \in SUBSET PendingRequests
    PROVE  /\ Visited(R) \in SUBSET PendingRequests /\ R \subseteq Visited(R)
           /\ \A t \in Visited(R) : WalkNext(t) \subseteq Visited(R)
<1>1. \A t : WalkNext(t) \subseteq PendingRequests
  BY DEF WalkNext, PendingRequests
<1> QED
  BY <1>1 DEF Visited

LEMMA VisitedLeast ==
    ASSUME NEW R, NEW S \in SUBSET PendingRequests, R \subseteq S,
           \A s \in S : WalkNext(s) \subseteq S
    PROVE  Visited(R) \subseteq S
  BY DEF Visited

(* Who can walk on for ever meets a request again while exploring it.      *)
LEMMA WalkMeetsItself ==
    ASSUME NEW D \in SUBSET PendingRequests, D # {},
           \A r \in D : WalkNext(r) \cap D # {}
    PROVE  \E x \in D : x \in Visited(WalkNext(x))
<1> DEFINE size(x) == Cardinality(Visited({x}))
           sizes == {size(x) : x \in D}
<1>1. ASSUME NEW x \in D
      PROVE  /\ Visited({x}) \in SUBSET PendingRequests /\ x \in Visited({x})
             /\ IsFiniteSet(Visited({x})) /\ size(x) \in Nat
             /\ \A t \in Visited({x}) : WalkNext(t) \subseteq Visited({x})
  <2>1. {x} \in SUBSET PendingRequests
    OBVIOUS
  <2>2. /\ Visited({x}) \in SUBSET PendingRequests /\ x \in Visited({x})
        /\ \A t \in Visited({x}) : WalkNext(t) \subseteq Visited({x})
    BY <2>1, VisitedClosed
  <2>3. IsFiniteSet(Visited({x}))
    BY <2>2, PendingFinite, FS_Subset
  <2> QED
    BY <2>2, <2>3, FS_CardinalityType
<1>2. sizes \in SUBSET Nat /\ sizes # {}
  BY <1>1
<1>3. \E n \in sizes : \A k \in sizes : n <= k
  <2> HIDE DEF sizes
  <2> QED
    BY <1>2, MinExists
<1>4. PICK x \in D : \A y \in D : size(x) <= size(y)
  BY <1>3
<1>5. PICK y \in D : y \in WalkNext(x)
  OBVIOUS
<1>6. WalkNext(x) \in SUBSET PendingRequests /\ {y} \in SUBSET PendingRequests
  BY DEF WalkNext, PendingRequests
<1>7. Visited({y}) \subseteq Visited({x})
  BY <1>1, <1>5, VisitedLeast
<1>8. Visited({y}) \subseteq Visited(WalkNext(x))
  BY <1>5, <1>6, VisitedClosed, VisitedLeast
<1>9. Visited({y}) = Visited({x})
  <2>1. IsFiniteSet(Visited({x})) /\ Visited({y}) \in SUBSET Visited({x})
    BY <1>1, <1>7
  <2>2. /\ Cardinality(Visited({y})) <= Cardinality(Visited({x}))
        /\ Cardinality(Visited({x})) = Cardinality(Visited({y})) => Visited({x}) = Visited({y})
    BY <2>1, FS_Subset
  <2>3. /\ Cardinality(Visited({x})) \in Nat /\ Cardinality(Visited({y})) \in Nat
        /\ Cardinality(Visited({x})) <= Cardinality(Visited({y}))
    BY <1>1, <1>4
  <2> QED
    BY <2>2, <2>3
<1> QED
  BY <1>1, <1>8, <1>9

(* One of several requests for a lock stands before the others.            *)
LEMMA FirstOf ==
    ASSUME IInv, NEW l \in Locks, NEW S \in SUBSET RequestsOf(l), S # {}
    PROVE  \E c \in S : \A s \in S \ {c} : Ahead(c, s)
<1> PICK q : q = lbl_requests[l]
  OBVIOUS
<1>1. q \in Seq(Requests) /\ Members(q) = RequestsOf(l)
  BY DEF IInv, TableInv, TypeOK, QueueInv
<1> PICK I : I = {i \in 1 .. Len(q) : q[i] \in S}
  OBVIOUS
<1>2. I \in SUBSET Nat
  BY <1>1
<1>3. \A s \in S : \E i \in I : q[i] = s
  BY <1>1 DEF Members
<1>4. I # {}
  BY <1>3
<1>5. PICK i \in I : \A j \in I : i <= j
  BY <1>2, <1>4, MinExists
<1>6. ASSUME NEW s \in S, s # q[i]
      PROVE  Ahead(q[i], s)
  <2>1. PICK j \in I : q[j] = s
    BY <1>3
  <2>2. i < j
    BY <1>2, <1>5, <1>6, <2>1
  <2> QED
    BY <2>1, <2>2 DEF Ahead, RequestsOf
<1> QED
  BY <1>5, <1>6

LEMMA AheadTransitive ==
    ASSUME IInv, NEW a \in Requests, NEW b \in Requests, NEW c \in Requests,
           lrq_lock[b] # NoLock, lrq_lock[b] = lrq_lock[c], Ahead(a, b), Ahead(b, c)
    PROVE  Ahead(a, c)
<1> PICK l \in Locks : l = lrq_lock[b]
  BY DEF IInv, TableInv, TypeOK
<1> PICK q : q = lbl_requests[l]
  OBVIOUS
<1>1. q \in Seq(Requests) /\ Injective(q)
  BY DEF IInv, TableInv, TypeOK, QueueInv
<1> PICK i \in 1 .. Len(q), j \in 1 .. Len(q) : q[i] = a /\ q[j] = b /\ i < j
  BY DEF Ahead
<1> PICK m \in 1 .. Len(q), n \in 1 .. Len(q) : q[m] = b /\ q[n] = c /\ m < n
  BY DEF Ahead
<1>2. m = j
  BY <1>1 DEF Injective
<1>3. i < n
  BY <1>2
<1> QED
  BY <1>3 DEF Ahead

(* A waiter of a deadlock that the walk reaches leads it to another one,   *)
(* unless it takes somebody for busy with ASTs.                            *)
LEMMA WalkStaysIn ==
    ASSUME IInv, WaitersInv, HeldLevelInv, WaitOK, DeadlocksFit,
           NEW D \in SUBSET PendingRequests, Deadlock(D), NEW r \in D,
           \A b \in WalkBlockers(r) : ~ BusyWithAst(lrq_owner[b])
    PROVE  WalkNext(r) \cap D # {}
<1>1. \A t \in D : t \in Requests /\ Pending(t) /\ lrq_lock[t] \in Locks /\ lrq_lock[t] # NoLock
  BY PendingFacts, ConstantsAssumption DEF PendingRequests
<1>2. ASSUME NEW b \in WalkBlockers(r), NEW t \in D, own_pending_request[lrq_owner[b]] = t
      PROVE  WalkNext(r) \cap D # {}
  BY <1>1, <1>2 DEF WalkNext
<1>3. CASE ~ LOCK_ordering
  <2> PICK b \in KeptBy(r), t \in D : own_pending_request[lrq_owner[b]] = t
    BY DEF Deadlock
  <2>1. b \in WalkBlockers(r)
    BY <1>3 DEF KeptBy, WalkBlockers, RequestsOf
  <2> QED
    BY <1>2, <2>1
<1>4. CASE LOCK_ordering
  <2>1. /\ "convert" \notin Calls
        /\ \A m, k \in Levels \ {LCK_null}, j \in HeldLevels :
              COMPATIBLE(m, k) /\ COMPATIBLE(k, j) => COMPATIBLE(m, j)
    BY <1>4 DEF DeadlocksFit
  <2>2. ASSUME NEW t \in D
        PROVE  lrq_state[t] = LCK_none /\ lrq_requested[t] \in Levels \ {LCK_null}
    BY <1>1, <2>1 DEF WaitOK, NoConversionInv, AskedInv, HeldAheadInv
  <2> PICK l \in Locks : l = lrq_lock[r]
    BY <1>1
  <2> PICK S : S = {t \in D : /\ lrq_lock[t] = l
                              /\ \/ lrq_requested[t] = lrq_requested[r]
                                 \/ COMPATIBLE(lrq_requested[r], lrq_requested[t])}
    OBVIOUS
  <2>3. S \in SUBSET RequestsOf(l) /\ S # {}
    BY <1>1 DEF RequestsOf
  <2>4. PICK c \in S : \A s \in S \ {c} : Ahead(c, s)
    BY <2>3, FirstOf
  <2>5. c = r \/ Ahead(c, r)
    BY <2>4
  <2> PICK b \in KeptBy(c), t \in D : own_pending_request[lrq_owner[b]] = t
    BY DEF Deadlock
  <2>6. b \in Requests /\ lrq_lock[b] = l /\ b # c
    BY DEF KeptBy, RequestsOf
  <2>7. /\ lrq_state[b] \in 0 .. 6 /\ lrq_requested[b] \in 0 .. 6
        /\ lrq_requested[r] \in States /\ lrq_requested[c] \in States
    BY <1>1, <2>6, LevelsFact DEF IInv, TableInv, TypeOK
  <2>8. ~ (lrq_state[r] > LCK_null)
    BY <2>2, LevelsFact
  <2>9. CASE ~ COMPATIBLE(lrq_requested[c], lrq_state[b])
    <3>1. lrq_state[b] \notin {0, 1}
      BY <2>7, <2>9, LevelsFact DEF COMPATIBLE, CompatibleWith
    <3>2. lrq_state[b] > LCK_null /\ lrq_state[b] # LCK_none
      BY <2>7, <3>1, LevelsFact
    <3>3. ~ COMPATIBLE(lrq_requested[r], lrq_state[b])
      <4>1. lrq_state[b] \in HeldLevels
        BY <2>1, <2>6, <3>2 DEF HeldLevelInv
      <4>2. \/ lrq_requested[c] = lrq_requested[r]
            \/ COMPATIBLE(lrq_requested[c], lrq_requested[r])
        BY <2>7, CompatibleSymmetric
      <4> QED
        BY <2>1, <2>2, <2>9, <4>1, <4>2
    <3>4. Ahead(b, r)
      BY <1>1, <1>4, <2>1, <2>6, <3>2 DEF WaitOK, HeldAheadInv, RequestsOf
    <3>5. lrq_requested[b] <= lrq_state[b]
      BY <1>1, <2>1, <2>6, <3>2 DEF WaitOK, NoConversionInv
    <3>6. MaxLevel(lrq_state[b], lrq_requested[b]) = lrq_state[b]
      BY <3>5, <2>7 DEF MaxLevel
    <3>7. b \in WalkBlockers(r)
      BY <1>4, <2>6, <2>8, <3>3, <3>4, <3>6 DEF WalkBlockers
    <3> QED
      BY <1>2, <3>7
  <2>10. CASE COMPATIBLE(lrq_requested[c], lrq_state[b])
    <3>1. Pending(b) /\ Ahead(b, c)
      BY <2>10 DEF KeptBy
    <3>2. b \in D
      BY <2>6, <3>1 DEF WaitersInv
    <3>3. Ahead(b, r)
      BY <1>1, <2>5, <2>6, <3>1, AheadTransitive
    <3>4. b \notin S
      BY <1>1, <2>4, <2>6, <3>1, AheadTotal
    <3>5. ~ COMPATIBLE(lrq_requested[r], lrq_requested[b])
      BY <2>6, <3>2, <3>4
    <3>6. MaxLevel(lrq_state[b], lrq_requested[b]) = lrq_requested[b]
      BY <2>2, <2>7, <3>2, LevelsFact DEF MaxLevel
    <3>7. b \in WalkBlockers(r)
      BY <1>4, <2>6, <2>8, <3>3, <3>5, <3>6 DEF WalkBlockers
    <3> QED
      BY <1>2, <3>7
  <2> QED
    BY <2>9, <2>10
<1> QED
  BY <1>3, <1>4

(* A scan that meets no busy owner finds every deadlock of its owner.      *)
LEMMA ScanFinds ==
    ASSUME IInv, WaitersInv, HeldLevelInv, WaitOK, DeadlocksFit,
           NEW D \in SUBSET PendingRequests, Deadlock(D), NEW r \in D, ~ MaybeDeadlock(r)
    PROVE  Victims(r) # {}
<1> PICK E : E = D \cap Visited({r})
  OBVIOUS
<1>1. {r} \in SUBSET PendingRequests
  OBVIOUS
<1>2. r \in Visited({r}) /\ \A t \in Visited({r}) : WalkNext(t) \subseteq Visited({r})
  BY <1>1, VisitedClosed
<1>3. ASSUME NEW t \in E
      PROVE  WalkNext(t) \cap E # {}
  <2>1. \A b \in WalkBlockers(t) : ~ BusyWithAst(lrq_owner[b])
    BY DEF MaybeDeadlock
  <2>2. WalkNext(t) \cap D # {}
    BY <2>1, WalkStaysIn
  <2> QED
    BY <1>2, <2>2
<1>4. E \in SUBSET PendingRequests /\ E # {}
  BY <1>2
<1>5. PICK x \in E : x \in Visited(WalkNext(x))
  BY <1>3, <1>4, WalkMeetsItself
<1> QED
  BY <1>5 DEF Victims

(* The scan that marks its owner has found no deadlock it waits in.        *)
LEMMA ScanClear_Waits ==
    ASSUME IInv, IInv', WaitersInv, ScanInv, HeldLevelInv, WaitOK, StageOK', DeadlocksFit,
           NEW o \in Owners, ScanClear(o)
    PROVE  WaitOK'
<1> PICK x : x = NoReq
  OBVIOUS
<1>1. /\ lhb_active_owner = o /\ sec.at = "scan"
      /\ "scanned" \in own_flags[o] \/ Victims(sec.req) = {}
      /\ own_flags' = IF MaybeDeadlock(sec.req) THEN own_flags
                      ELSE [own_flags EXCEPT ![o] = @ \cup {"scanned"}]
      /\ UNCHANGED <<lblVars, lrqVars, own_pending_request>>
  BY DEF ScanClear
<1>2. x \notin Requests /\ SameTable /\ own_flags \in [Owners -> SUBSET OwnFlags]
  BY <1>1, ConstantsAssumption, TableSame DEF IInv, TableInv, TypeOK
<1>3. Beside(x)
  BY <1>2 DEF SameTable, Beside, lblVars, Ahead
<1>4. AskedInv' /\ NoConversionInv'
  BY <1>2, <1>3, AskedKept, HeldKept DEF WaitOK, StageOK
<1>5. HeldAheadInv'
  BY <1>2, <1>3, <1>4, AheadKept DEF WaitOK
<1>6. NoMissedDeadlock'
  <2> SUFFICES ASSUME NEW D \in SUBSET PendingRequests, Deadlock(D),
                      \A r \in D : "scanned" \in own_flags'[lrq_owner[r]]
               PROVE  FALSE
    <3>1. /\ PendingRequests' = PendingRequests
          /\ \A r \in Requests : KeptBy(r)' = KeptBy(r)
          /\ lrq_owner' = lrq_owner
      BY <1>1 DEF PendingRequests, Pending, KeptBy, RequestsOf, Ahead, lblVars, lrqVars
    <3>2. \A D \in SUBSET PendingRequests : Deadlock(D)' => Deadlock(D)
      BY <1>1, <3>1 DEF Deadlock, PendingRequests
    <3> QED
      BY <3>1, <3>2 DEF NoMissedDeadlock
  <2>1. PICK r \in D : "scanned" \notin own_flags[lrq_owner[r]]
    BY DEF WaitOK, NoMissedDeadlock
  <2>2. r \in Requests /\ Pending(r) /\ lrq_owner[r] \in Owners
    BY PendingFacts DEF PendingRequests
  <2>3. /\ ~ MaybeDeadlock(sec.req) /\ lrq_owner[r] = o
    BY <1>1, <1>2, <2>1, <2>2
  <2>4. Victims(sec.req) = {}
    BY <1>1, <2>1, <2>3
  <2>5. sec.req = r
    BY <1>1, <2>2, <2>3 DEF ScanInv, WaitersInv, IInv, SecInv
  <2> QED
    BY <2>3, <2>4, <2>5, ScanFinds
<1> QED
  BY <1>4, <1>5, <1>6 DEF WaitOK

LEMMA NextWaits ==
    ASSUME DeadlocksFit, IInv, IInv', OrderInv, WaitersInv, ScanInv, LowerInv, HeldLevelInv, WaitOK,
           StageOK', Next
    PROVE  WaitOK'
<1> PICK o \in Owners :
        \/ ClientCall(o) \/ Give(o)
        \/ SectionStep(o) \/ WaitStep(o)
        \/ SignalHandled(o) \/ SignalIgnored(o) \/ WaitForTable(o) \/ AstReturns(o)
        \/ Crash(o)
  BY DEF Next
<1>1. CASE ClientCall(o)
  BY <1>1, LOCK_enq_Waits, Converts_Waits, Still_Waits DEF ClientCall
<1>2. CASE Give(o)
  BY <1>2, Frees_Waits, Converts_Waits DEF Give
<1>3. CASE SectionStep(o)
  BY <1>3, Still_Waits, PostGrant_Waits, QueGranted_Waits, ConvertGranted_Waits, BeginWait_Waits,
     EnqInsert_Waits, Frees_Waits, Victims_Waits, Converts_Waits, ScanClear_Waits DEF SectionStep
<1>4. CASE WaitStep(o)
  BY <1>4, Still_Waits, Victims_Waits, Frees_Waits DEF WaitStep
<1>5. CASE SignalHandled(o) \/ SignalIgnored(o) \/ WaitForTable(o) \/ AstReturns(o) \/ Crash(o)
  BY <1>5, Still_Waits
<1> QED
  BY <1>1, <1>2, <1>3, <1>4, <1>5

(* What is granted is a level asked for, or a downgrade from one. *)
LEMMA NextHeldLevels ==
    ASSUME IInv, IInv', LowerInv, AskedInv, NoConversionInv, HeldLevelInv, Next
    PROVE  HeldLevelInv'
<1> DEFINE Fit(m) == m \in HeldLevels \cup {LCK_none}
<1>1. ASSUME "downgrade" \notin Calls
      PROVE  sec'.at # "downgrade"
  <2> PICK o \in Owners :
          \/ ClientCall(o) \/ Give(o)
          \/ SectionStep(o) \/ WaitStep(o)
          \/ SignalHandled(o) \/ SignalIgnored(o) \/ WaitForTable(o) \/ AstReturns(o)
          \/ Crash(o)
    BY DEF Next
  <2>1. sec \in Secs
    BY DEF IInv, TableInv, TypeOK
  <2>2. CASE Kept
    BY <1>1, <2>2 DEF Kept, secVars, HeldLevelInv
  <2>3. CASE Probed(o)
    BY <2>1, <2>3 DEF Probed, At, Release, NoSec, Secs
  <2>4. ASSUME NEW r \in Requests, EnqInsert(o, r)
        PROVE  sec'.at # "downgrade"
    BY <2>1, <2>4 DEF EnqInsert, Secs
  <2>5. ASSUME NEW r \in Requests, NEW m \in Levels, NEW w \in Waits, LOCK_convert(o, r, m, w)
        PROVE  sec'.at # "downgrade"
    BY <2>5 DEF LOCK_convert, NoSec
  <2>6. ~ \E r \in Requests : LOCK_downgrade(o, r)
    BY <1>1 DEF LOCK_downgrade
  <2> QED
    BY <2>2, <2>3, <2>4, <2>5, <2>6, NewStages DEF Working
<1>2. ASSUME "convert" \notin Calls
      PROVE  \A r \in Requests : Fit(lrq_state'[r])
  <2>1. TypeOK /\ \A r \in Requests : Fit(lrq_state[r])
    BY <1>2 DEF HeldLevelInv, IInv, TableInv
  <2> SUFFICES ASSUME NEW x \in Requests, NEW m, Fit(m), lrq_state' = [lrq_state EXCEPT ![x] = m]
               PROVE  \A r \in Requests : Fit(lrq_state'[r])
    <3> HIDE DEF Fit
    <3>1. CASE Lowers
      <4>1. Fit(LCK_none)
        BY DEF Fit
      <4> QED
        BY <2>1, <3>1, <4>1 DEF Lowers
    <3>2. ASSUME NEW o \in Owners, PostGrant(o)
          PROVE  \E x \in Requests : \E m : Fit(m) /\ lrq_state' = [lrq_state EXCEPT ![x] = m]
      <4> PICK x : x = lbl_requests[sec.lock][NextPending]
        OBVIOUS
      <4>1. lrq_state' = [lrq_state EXCEPT ![x] = lrq_requested[x]]
        BY <3>2 DEF PostGrant, Grant
      <4>2. x \in Requests /\ Pending(x)
        BY <3>2, NextPendingFacts DEF PostGrant
      <4>3. lrq_lock[x] # NoLock
        BY <4>2, PendingFacts, ConstantsAssumption
      <4>4. lrq_requested[x] \in Levels /\ lrq_requested[x] \in Granted
        BY <1>2, <4>2, <4>3, PendingFacts DEF AskedInv, NoConversionInv
      <4>5. Fit(lrq_requested[x])
        BY <4>4, LevelsFact DEF Fit, HeldLevels
      <4> QED
        BY <4>1, <4>2, <4>5
    <3>3. ASSUME NEW o \in Owners, QueGranted(o)
          PROVE  \E x \in Requests : \E m : Fit(m) /\ lrq_state' = [lrq_state EXCEPT ![x] = m]
      <4>1. lrq_state' = [lrq_state EXCEPT ![sec.req] = lrq_requested[sec.req]]
        BY <3>3 DEF QueGranted, Grant
      <4>2. sec.req \in Requests /\ lrq_requested[sec.req] \in Levels \cap Granted
        BY <3>3 DEF QueGranted, IInv, SecInv, AskedInv
      <4>3. Fit(lrq_requested[sec.req])
        BY <4>2, LevelsFact DEF Fit, HeldLevels
      <4> QED
        BY <4>1, <4>2, <4>3
    <3>4. ASSUME NEW o \in Owners, ConvertGranted(o)
          PROVE  \E x \in Requests : \E m : Fit(m) /\ lrq_state' = [lrq_state EXCEPT ![x] = m]
      <4>1. /\ lrq_state' = [lrq_state EXCEPT ![sec.req] = lrq_requested[sec.req]]
            /\ sec.at = "downgrade"
        BY <1>2, <3>4 DEF ConvertGranted, Grant, NoConversionInv
      <4>2. /\ sec.req \in Requests /\ lrq_requested[sec.req] \in Granted
            /\ lrq_requested[sec.req] <= lrq_state[sec.req] /\ "downgrade" \in Calls
        BY <4>1 DEF IInv, SecInv, LowerInv, HeldLevelInv
      <4>3. lrq_state[sec.req] \in HeldLevels
        BY <2>1, <4>2, LevelsFact DEF Fit
      <4>4. PICK k \in Levels : lrq_state[sec.req] <= k
        BY <4>2, <4>3 DEF HeldLevels
      <4>5. k \in 1 .. 6 /\ lrq_requested[sec.req] \in 1 .. 6 /\ lrq_state[sec.req] \in 0 .. 6
        BY <4>2, LevelsFact, ConstantsAssumption DEF IInv, TableInv, TypeOK
      <4>6. lrq_requested[sec.req] <= k
        BY <4>2, <4>4, <4>5
      <4>7. Fit(lrq_requested[sec.req])
        BY <4>2, <4>6 DEF Fit, HeldLevels
      <4> QED
        BY <4>1, <4>2, <4>7
    <3> QED
      BY <3>1, <3>2, <3>3, <3>4, OnlyGrantsRaise
  <2> HIDE DEF Fit
  <2> QED
    BY <2>1 DEF TypeOK
<1> QED
  BY <1>1, <1>2 DEF HeldLevelInv

(* DeadlockInv is the conjunction of these parts. *)
LEMMA DeadlockParts ==
    /\ DeadlockInv <=> WaitersInv /\ ScanInv /\ LowerInv /\ HeldLevelInv /\ WaitOK
    /\ WaitOK => StageOK
  BY DEF DeadlockInv, WaitOK, StageOK, AskedInv, AsksOK, NoConversionInv

(* Nobody waits for an empty table, and nobody is in it.                   *)
LEMMA InitDeadlocks == Init => DeadlockInv
<1> SUFFICES ASSUME Init
             PROVE  DeadlockInv
  OBVIOUS
<1>1. (\A r \in Requests : ~ Pending(r) /\ lrq_lock[r] = NoLock) /\ sec.at = "free"
  BY DEF Init, Pending, NoSec
<1>2. \A o \in Owners : op[o].kind # "enq"
  BY DEF Init, NoOp
<1>3. WaitersInv
  BY InitWaiters
<1>4. ScanInv /\ LowerInv /\ AskedInv /\ NoConversionInv
  BY <1>1, <1>2 DEF ScanInv, LowerInv, AskedInv, NoConversionInv
<1>5. HeldAheadInv
  BY <1>1 DEF HeldAheadInv, RequestsOf
<1>6. NoMissedDeadlock
  BY <1>1 DEF NoMissedDeadlock, PendingRequests, Deadlock
<1>7. HeldLevelInv
  BY <1>1 DEF Init, HeldLevelInv
<1> QED
  BY <1>3, <1>4, <1>5, <1>6, <1>7 DEF DeadlockInv

LEMMA NextDeadlocks ==
    ASSUME DeadlocksFit, IInv, IInv', OrderInv, PurgeInv, DeadlockInv, [Next]_vars
    PROVE  DeadlockInv'
<1>1. WaitersInv /\ ScanInv /\ LowerInv /\ HeldLevelInv /\ WaitOK /\ StageOK
  BY DeadlockParts
<1>2. CASE Next
  <2>1. WaitersInv'
    BY <1>1, <1>2, NextWaiters
  <2>2. ScanInv' /\ LowerInv' /\ ("convert" \notin Calls => sec'.at # "convert")
    BY <1>1, <1>2, NextStages DEF StageOK
  <2>3. AsksOK'
    BY <1>1, <1>2, NextAsks DEF StageOK
  <2>4. sec'.at = "grant_or_que" => lrq_requested'[sec'.req] \in Levels
    BY <1>1, <1>2, NextNewcomer DEF StageOK
  <2>5. StageOK'
    BY <2>2, <2>3, <2>4 DEF StageOK
  <2>6. WaitOK'
    BY <1>1, <1>2, <2>5, NextWaits
  <2>7. HeldLevelInv'
    BY <1>1, <1>2, NextHeldLevels DEF WaitOK
  <2> QED
    BY <2>1, <2>2, <2>6, <2>7 DEF DeadlockInv, WaitOK
<1>3. CASE UNCHANGED vars
  <2>1. UNCHANGED <<lblVars, lrqVars, ownVars, secVars, procVars>>
    BY <1>3 DEF vars
  <2>2. WaitersInv'
    BY <1>1, <1>3, StutterWaiters
  <2>3. ScanInv' /\ LowerInv'
    BY <1>1, <2>1 DEF ScanInv, LowerInv, RequestsOf, Pending, lrqVars, secVars
  <2>4. StageOK'
    BY <1>1, <2>1 DEF StageOK, AsksOK, procVars, secVars, lrqVars
  <2>5. SameTable /\ Tells
    BY <2>1, TableSame, TellsForm DEF ownVars
  <2>6. WaitOK'
    BY <1>1, <2>4, <2>5, StillWaits
  <2>7. HeldLevelInv'
    BY <1>1, <2>1 DEF HeldLevelInv, lrqVars, secVars
  <2> QED
    BY <2>2, <2>3, <2>6, <2>7 DEF DeadlockInv, WaitOK
<1> QED
  BY <1>2, <1>3

(* Deadlock scans miss no deadlock: of the owners of every deadlock one is *)
(* not yet marked as scanned, so that its scan is still to come.  Without  *)
(* the grant order option always; with it if there are no conversions and  *)
(* compatibility is transitive among the levels in use (DeadlocksFit).     *)
THEOREM DeadlocksAreFound ==
    ASSUME BlockagesFit, DeadlocksFit
    PROVE  Spec => []NoMissedDeadlock
<1>1. DeadlockInv => NoMissedDeadlock
  BY DEF DeadlockInv
<1>2. Init => DeadlockInv
  BY InitDeadlocks
<1>3. IInv /\ IInv' /\ OrderInv /\ PurgeInv /\ DeadlockInv /\ [Next]_vars => DeadlockInv'
  BY NextDeadlocks
<1>4. Spec => [](IInv /\ OrderInv)
  BY OrderInvariance
<1>5. Spec => [](IInv /\ PurgeInv)
  BY PurgeInvariance
<1> QED
  BY <1>1, <1>2, <1>3, <1>4, <1>5, PTL DEF Spec
=============================================================================

----------------------------- MODULE LockTable -----------------------------
(***************************************************************************)
(* The lock manager of the Classic server: the shared lock table of        *)
(* lock/lock.cpp, its request queues, grants, conversions, waits, deadlock *)
(* scans, blocking ASTs and the purging of dead owners.                    *)
(*                                                                         *)
(* Everything a process does between acquire() and release() is a          *)
(* "section".  Only one section runs at a time (lhb_active_owner), but the *)
(* loops inside it (post_pending, post_blockage, purge_owner,              *)
(* probe_owners, blocking_action2) take one step per element, so that what *)
(* the code does WITHOUT the table, the signal handler and the waiting     *)
(* loop of wait_for_request, interleaves with them.                        *)
(***************************************************************************)
EXTENDS Integers, Sequences, FiniteSets

CONSTANTS
    Owners,         \* owner blocks; one owner, one process (Classic)
    Locks,          \* lock names: (parent, series, value) of find_lock
    Requests,       \* the request blocks the table has room for
    Levels,         \* the lock levels clients ask for
    Waits,          \* the lck_wait arguments clients pass
    AstArgs,        \* do they enqueue with an AST routine?
    LOCK_ordering,  \* the grant order configuration option
    MaxLocks,       \* the lock blocks the table has room for
    MaxCrashes,     \* bound: processes that die in a behaviour
    Calls,          \* what the clients of this instance do
    NoOwner, NoLock, NoReq

(* Lock levels, lock.h 131-139. *)
LCK_none == 0
LCK_null == 1
LCK_SR   == 2
LCK_PR   == 3
LCK_SW   == 4
LCK_PW   == 5
LCK_EX   == 6
LCK_max  == 7

States == LCK_none .. LCK_EX
Granted == LCK_null .. LCK_EX      \* the levels lbl_counts counts

ASSUME ConstantsAssumption ==
    /\ NoOwner \notin Owners
    /\ NoLock \notin Locks
    /\ NoReq \notin Requests
    /\ IsFiniteSet(Requests)
    /\ Levels \subseteq LCK_null .. LCK_EX
    /\ Waits \subseteq {"nowait", "wait", "timed"}
    /\ AstArgs \subseteq BOOLEAN
    /\ LOCK_ordering \in BOOLEAN
    /\ Calls \subseteq {"convert", "downgrade", "repost", "fini", "prior", "dup"}
    /\ MaxLocks \in Nat
    /\ MaxCrashes \in Nat

(* The levels each level is compatible with: the matrix `compatibility'. *)
CompatibleWith_typo(m) ==
    CASE m \in {LCK_none, LCK_null} -> States
      [] m = LCK_SR -> LCK_none .. LCK_PW
      [] m = LCK_PR -> LCK_none .. LCK_PR
      [] m = LCK_SW -> LCK_none .. LCK_SW
      [] m = LCK_PW -> LCK_none .. LCK_SR
      [] m = LCK_EX -> {LCK_none, LCK_null}
CompatibleWith(m) ==
    CASE m \in {LCK_none, LCK_null} -> States
      [] m = LCK_SR -> LCK_none .. LCK_PW
      [] m = LCK_PR -> LCK_none .. LCK_PR
      [] m = LCK_SW -> {LCK_none, LCK_null, LCK_SR, LCK_SW}
      [] m = LCK_PW -> LCK_none .. LCK_SR
      [] m = LCK_EX -> {LCK_none, LCK_null}

COMPATIBLE(st1, st2) == st2 \in CompatibleWith(st1)

VARIABLES
    \* lock blocks (lbl); a lock with an empty queue is on the free list
    lbl_requests, lbl_counts, lbl_state, lbl_pending_lrq_count,
    \* request blocks (lrq); a block without an owner is on the free list
    lrq_owner, lrq_lock, lrq_requested, lrq_state, lrq_flags,
    lrq_ast_routine,
    \* owner blocks (own) and the queue of owners
    lhb_owners, own_blocks, own_pending_request, own_flags,
    own_signaled, own_semaphore,
    \* the table mutex, the owners whose main thread waits for it, what its
    \* holder still has to do
    lhb_active_owner, own_hung, sec,
    \* the processes: do they exist, a blocking signal sent and not yet
    \* delivered, where the main thread is, where its blocking AST is
    alive, sigpend, pc, ast, op,
    \* what the engine believes it holds (lck_physical of lck.cpp)
    lck_physical,
    \* bound
    crashes

lblVars == <<lbl_requests, lbl_counts, lbl_state, lbl_pending_lrq_count>>
lrqVars == <<lrq_owner, lrq_lock, lrq_requested, lrq_state, lrq_flags,
             lrq_ast_routine>>
ownVars == <<lhb_owners, own_blocks, own_pending_request, own_flags,
             own_signaled, own_semaphore>>
secVars == <<lhb_active_owner, own_hung, sec>>
procVars == <<alive, sigpend, pc, ast, op, lck_physical, crashes>>
vars == <<lblVars, lrqVars, ownVars, secVars, procVars>>

-----------------------------------------------------------------------------
(* Types. *)

LrqFlags == {"pending", "rejected", "blocking", "blocking_seen", "repost"}
OwnFlags == {"scanned", "wakeup"}

Stages == {"free", "enq", "grant_or_que", "convert", "downgrade", "post",
           "reset", "block", "purge", "create", "probe", "probed",
           "scan", "release", "unlock", "ast"}

(* The main thread of a process: outside the lock manager; in the waiting  *)
(* loop of wait_for_request; past it with ret = FB_SUCCESS or FB_FAILURE;  *)
(* out of the loop; told that the request was rejected.                    *)
Pcs == {"out", "wait", "woke_event", "woke_timeout", "resolved", "denied"}

(* A blocking AST: not running; the routine is called; it made its call.   *)
Asts == {"no", "call", "back"}

NoOp == [kind |-> "none", req |-> NoReq, lock |-> NoLock, level |-> LCK_none,
         wait |-> "nowait", ast |-> FALSE]
Ops == [kind : {"none", "enq", "convert"}, req : Requests \cup {NoReq},
        lock : Locks \cup {NoLock}, level : States,
        wait : {"nowait", "wait", "timed"}, ast : BOOLEAN]

(* A section: the stage it is in; the lock and the position post_pending   *)
(* has reached; the request concerned; the next request post_blockage      *)
(* visits; the owner being purged; the stages that follow post_pending,    *)
(* purge_owner and probe_owners.                                           *)
NoSec == [at |-> "free", lock |-> NoLock, pos |-> 1, req |-> NoReq,
          next |-> NoReq, victim |-> NoOwner,
          posted |-> "release", purged |-> "probe", probed |-> "release"]
Secs == [at : Stages, lock : Locks \cup {NoLock}, pos : Nat \ {0},
         req : Requests \cup {NoReq}, next : Requests \cup {NoReq},
         victim : Owners \cup {NoOwner},
         posted : {"release", "enq", "reset", "purge"},
         purged : {"unlock", "create", "block", "probe"},
         probed : {"probed", "release"}]

(* Every block of the table and every process is in a well-formed state;   *)
(* in particular no count of a lock block ever goes below zero             *)
(* (validate_lock: "should never roll over to be negative").               *)
TypeOK ==
    /\ lbl_requests \in [Locks -> Seq(Requests)]
    /\ lbl_counts \in [Locks -> [Granted -> Nat]]
    /\ lbl_state \in [Locks -> States]
    /\ lbl_pending_lrq_count \in [Locks -> Nat]
    /\ lrq_owner \in [Requests -> Owners \cup {NoOwner}]
    /\ lrq_lock \in [Requests -> Locks \cup {NoLock}]
    /\ lrq_requested \in [Requests -> States]
    /\ lrq_state \in [Requests -> States]
    /\ lrq_flags \in [Requests -> SUBSET LrqFlags]
    /\ lrq_ast_routine \in [Requests -> BOOLEAN]
    /\ lhb_owners \in SUBSET Owners
    /\ own_blocks \in [Owners -> Seq(Requests)]
    /\ own_pending_request \in [Owners -> Requests \cup {NoReq}]
    /\ own_flags \in [Owners -> SUBSET OwnFlags]
    /\ own_signaled \in [Owners -> BOOLEAN]
    /\ own_semaphore \in [Owners -> BOOLEAN]
    /\ lhb_active_owner \in Owners \cup {NoOwner}
    /\ own_hung \in [Owners -> BOOLEAN]
    /\ sec \in Secs
    /\ alive \in SUBSET Owners
    /\ sigpend \in SUBSET Owners
    /\ pc \in [Owners -> Pcs]
    /\ ast \in [Owners -> Asts]
    /\ op \in [Owners -> Ops]
    /\ lck_physical \in [Requests -> States]
    /\ crashes \in 0 .. MaxCrashes

-----------------------------------------------------------------------------
(* Helpers on queues.  A request is at most once in a queue. *)

Members(q) == {q[i] : i \in 1 .. Len(q)}

Position(q, r) == CHOOSE i \in 1 .. Len(q) : q[i] = r

(* remove_que *)
Without(q, r) ==
    LET p == Position(q, r)
    IN  [i \in 1 .. Len(q) - 1 |-> IF i < p THEN q[i] ELSE q[i + 1]]

(* QUE_NEXT, NoReq at the end of the queue *)
Following(q, r) ==
    LET p == Position(q, r)
    IN  IF p < Len(q) THEN q[p + 1] ELSE NoReq

First(q) == IF q = <<>> THEN NoReq ELSE q[1]

(* lock_state(): the strongest level some request holds *)
lock_state(counts) ==
    LET held == {m \in Granted : counts[m] > 0}
    IN  IF held = {} THEN LCK_none
        ELSE CHOOSE m \in held : \A k \in held : k <= m

ZeroCounts == [m \in Granted |-> 0]

Pending(r) == "pending" \in lrq_flags[r]

FreeRequests == {r \in Requests : lrq_owner[r] = NoOwner}

(* own_requests, the queue of an owner's requests *)
own_requests(o) == {r \in Requests : lrq_owner[r] = o /\ lrq_lock[r] # NoLock}

(* the counts of the lock of r without what r itself holds *)
CountsWithout_kept(r) == lbl_counts[lrq_lock[r]]
CountsWithout(r) ==
    IF lrq_state[r] = LCK_none THEN lbl_counts[lrq_lock[r]]
    ELSE [lbl_counts[lrq_lock[r]] EXCEPT ![lrq_state[r]] = @ - 1]

(* post_wakeup(): only an owner inside wait_for_request is woken *)
post_wakeup(flags, o) ==
    IF own_semaphore[o] THEN [flags EXCEPT ![o] = @ \cup {"wakeup"}]
    ELSE flags

-----------------------------------------------------------------------------
(* Entering and leaving the table. *)

(* A process may start a call of the lock manager: its main thread is not  *)
(* inside one, or its blocking AST routine runs.                           *)
MayCall(o) ==
    /\ o \in alive \cap lhb_owners
    /\ \/ ast[o] = "no" /\ pc[o] = "out"
       \/ ast[o] = "call"

(* acquire(): it waits for the mutex (OWN_hung) while another process has  *)
(* the table ...                                                           *)
WaitForTable(o) ==
    /\ o \in alive \cap lhb_owners
    /\ ast[o] = "no"
    /\ pc[o] \in {"out", "woke_event", "woke_timeout", "denied"}
    /\ lhb_active_owner \notin {NoOwner, o}
    /\ ~ own_hung[o]
    /\ own_hung' = [own_hung EXCEPT ![o] = TRUE]
    /\ UNCHANGED <<lblVars, lrqVars, ownVars, lhb_active_owner, sec, procVars>>

(* ... and gets it: "Can't be hung by OS if we got here". *)
acquire(o) ==
    /\ lhb_active_owner = NoOwner
    /\ lhb_active_owner' = o
    /\ own_hung' = [own_hung EXCEPT ![o] = FALSE]

(* the next stage of the section *)
At(stage) == [sec EXCEPT !.at = stage]
Release == [NoSec EXCEPT !.at = "release"]

(* purge_owner(v), then the stage `after' *)
Purge(v, after) ==
    [sec EXCEPT !.at = "purge", !.victim = v, !.purged = after]

(* post_pending(lock), then the stage `after' *)
PostPending(l, after) ==
    [sec EXCEPT !.at = "post", !.lock = l, !.pos = 1, !.posted = after]

(* the AST routine makes one call of the lock manager, then returns *)
AfterCall(o) == [ast EXCEPT ![o] = IF @ = "call" THEN "back" ELSE @]

(* release(): the blocking items posted for this owner while it held the   *)
(* table, or waited for it, are handled now, unless the owner has been     *)
(* sent a signal.                                                          *)
ReleaseTable(o) ==
    /\ lhb_active_owner = o /\ sec.at = "release"
    /\ IF own_blocks[o] # <<>> /\ ~ own_signaled[o]
       THEN /\ own_signaled' = [own_signaled EXCEPT ![o] = TRUE]
            /\ sec' = At("ast")
       ELSE /\ sec' = At("unlock")
            /\ UNCHANGED own_signaled
    /\ UNCHANGED <<lblVars, lrqVars, lhb_owners, own_blocks,
                   own_pending_request, own_flags, own_semaphore,
                   lhb_active_owner, own_hung, procVars>>

(* release_mutex() *)
ReleaseMutex(o) ==
    /\ lhb_active_owner = o /\ sec.at = "unlock"
    /\ lhb_active_owner' = NoOwner
    /\ sec' = NoSec
    /\ UNCHANGED <<lblVars, lrqVars, ownVars, own_hung, procVars>>

-----------------------------------------------------------------------------
(* Granting. *)

(* grant(request, lock): `counts' are the lock's counts without what the   *)
(* request itself holds.                                                   *)
PendingAfterGrant_unchecked(r) == lbl_pending_lrq_count[lrq_lock[r]] - 1
PendingAfterGrant(r) ==
    IF Pending(r) THEN lbl_pending_lrq_count[lrq_lock[r]] - 1
    ELSE lbl_pending_lrq_count[lrq_lock[r]]

Grant(r, counts) ==
    LET l == lrq_lock[r]
        m == lrq_requested[r]
        new == [counts EXCEPT ![m] = @ + 1]
    IN  /\ lbl_counts' = [lbl_counts EXCEPT ![l] = new]
        /\ lbl_state' = [lbl_state EXCEPT ![l] = lock_state(new)]
        /\ lrq_state' = [lrq_state EXCEPT ![r] = m]
        /\ lrq_flags' = [lrq_flags EXCEPT ![r] = @ \ {"pending"}]
        /\ lbl_pending_lrq_count' =
              [lbl_pending_lrq_count EXCEPT ![l] = PendingAfterGrant(r)]
        /\ own_flags' = post_wakeup(own_flags, lrq_owner[r])

(* The positions post_pending has still to look at. *)
PendingAhead ==
    {i \in sec.pos .. Len(lbl_requests[sec.lock]) :
        Pending(lbl_requests[sec.lock][i])}

(* The next pending request of the queue. *)
NextPending == CHOOSE i \in PendingAhead : \A j \in PendingAhead : i <= j

(* A pending conversion is compared with the other holders, a pending      *)
(* enqueue with the state of the lock.                                     *)
Grantable(r) ==
    IF lrq_state[r] # LCK_none
    THEN COMPATIBLE(lrq_requested[r], lock_state(CountsWithout(r)))
    ELSE COMPATIBLE(lrq_requested[r], lbl_state[lrq_lock[r]])

(* After a grant post_pending goes on with the next request. *)
AfterGrant_stops(i) == At(sec.posted)
AfterGrant(i) == [sec EXCEPT !.pos = i + 1]

(* post_pending(): one pending request is granted ... *)
PostGrant(o) ==
    /\ lhb_active_owner = o /\ sec.at = "post"
    /\ lbl_pending_lrq_count[sec.lock] # 0
    /\ PendingAhead # {}
    /\ LET i == NextPending
           r == lbl_requests[sec.lock][i]
       IN  /\ Grantable(r)
           /\ Grant(r, CountsWithout(r))
           /\ sec' = AfterGrant(i)
    /\ UNCHANGED <<lbl_requests, lrq_owner, lrq_lock, lrq_requested,
                   lrq_ast_routine, lhb_owners, own_blocks,
                   own_pending_request, own_signaled, own_semaphore,
                   lhb_active_owner, own_hung, procVars>>

(* ... or is not, and its owner is woken to post its blockage again; the   *)
(* grant order option stops the walk here.                                 *)
PostRefused(o) ==
    /\ lhb_active_owner = o /\ sec.at = "post"
    /\ lbl_pending_lrq_count[sec.lock] # 0
    /\ PendingAhead # {}
    /\ LET i == NextPending
           r == lbl_requests[sec.lock][i]
       IN  /\ ~ Grantable(r)
           /\ own_flags' = post_wakeup(own_flags, lrq_owner[r])
           /\ sec' = IF LOCK_ordering THEN At(sec.posted)
                     ELSE [sec EXCEPT !.pos = i + 1]
    /\ UNCHANGED <<lblVars, lrqVars, lhb_owners, own_blocks,
                   own_pending_request, own_signaled, own_semaphore,
                   lhb_active_owner, own_hung, procVars>>

PostDone(o) ==
    /\ lhb_active_owner = o /\ sec.at = "post"
    /\ lbl_pending_lrq_count[sec.lock] = 0 \/ PendingAhead = {}
    /\ sec' = At(sec.posted)
    /\ UNCHANGED <<lblVars, lrqVars, ownVars, lhb_active_owner, own_hung,
                   procVars>>

-----------------------------------------------------------------------------
(* Releasing a request. *)

(* A request that is released blocks nobody any more. *)
BlocksWithout_kept(r) == own_blocks[lrq_owner[r]]
BlocksWithout(r) ==
    IF "blocking" \in lrq_flags[r] THEN Without(own_blocks[lrq_owner[r]], r)
    ELSE own_blocks[lrq_owner[r]]

(* release_request(), then the stage `after'.  The fields of a freed lock  *)
(* or request block are dead until the block is allocated again; they are  *)
(* given their initial values here.                                        *)
ReleaseRequest(r, after) ==
    LET l == lrq_lock[r]
        q == Without(lbl_requests[l], r)
        m == lrq_state[r]
        o == lrq_owner[r]
        left == CountsWithout(r)
    IN  /\ lbl_requests' = [lbl_requests EXCEPT ![l] = q]
        /\ lrq_owner' = [lrq_owner EXCEPT ![r] = NoOwner]
        /\ lrq_lock' = [lrq_lock EXCEPT ![r] = NoLock]
        /\ lrq_requested' = [lrq_requested EXCEPT ![r] = LCK_none]
        /\ lrq_state' = [lrq_state EXCEPT ![r] = LCK_none]
        /\ lrq_flags' = [lrq_flags EXCEPT ![r] = {}]
        /\ lrq_ast_routine' = [lrq_ast_routine EXCEPT ![r] = FALSE]
        /\ lck_physical' = [lck_physical EXCEPT ![r] = LCK_none]
        /\ own_blocks' = [own_blocks EXCEPT ![o] = BlocksWithout(r)]
        /\ lbl_pending_lrq_count' =
              [lbl_pending_lrq_count EXCEPT ![l] = IF Pending(r) THEN @ - 1 ELSE @]
        /\ IF q = <<>>
           THEN /\ lbl_counts' = [lbl_counts EXCEPT ![l] = ZeroCounts]
                /\ lbl_state' = [lbl_state EXCEPT ![l] = LCK_none]
                /\ sec' = [sec EXCEPT !.at = after, !.posted = after]
           ELSE /\ lbl_counts' = [lbl_counts EXCEPT ![l] = left]
                /\ lbl_state' = [lbl_state EXCEPT ![l] =
                      IF m # LCK_none /\ left[m] = 0 THEN lock_state(left)
                      ELSE @]
                /\ sec' = PostPending(l, after)

(* The requests a call may name: those of the owner whose own call has     *)
(* returned to the engine (it does not know the others).                   *)
Callable(o) == {r \in own_requests(o) : r # op[o].req}

(* LOCK_deq() *)
LOCK_deq(o, r) ==
    /\ MayCall(o)
    /\ r \in Callable(o)
    /\ acquire(o)
    /\ ReleaseRequest(r, "release")
    /\ ast' = AfterCall(o)
    /\ UNCHANGED <<lhb_owners, own_pending_request, own_flags, own_signaled,
                   own_semaphore, alive, sigpend, pc, op, crashes>>

-----------------------------------------------------------------------------
(* wait_for_request(), up to the release of the table. *)

(* A new wait has not been scanned for deadlock. *)
FlagsAtWait_kept(o) == own_flags[o] \ {"wakeup"}
FlagsAtWait(o) == own_flags[o] \ {"scanned", "wakeup"}

BeginWait(o, r) ==
    LET l == lrq_lock[r]
        q == IF LOCK_ordering /\ lrq_state[r] = LCK_none
             THEN Append(Without(lbl_requests[l], r), r)
             ELSE lbl_requests[l]
    IN  /\ lrq_flags' =
              [lrq_flags EXCEPT ![r] = (@ \ {"rejected"}) \cup {"pending"}]
        /\ lbl_pending_lrq_count' = [lbl_pending_lrq_count EXCEPT ![l] = @ + 1]
        /\ lbl_requests' = [lbl_requests EXCEPT ![l] = q]
        /\ own_pending_request' = [own_pending_request EXCEPT ![o] = r]
        /\ own_flags' = [own_flags EXCEPT ![o] = FlagsAtWait(o)]
        /\ own_semaphore' = [own_semaphore EXCEPT ![o] = TRUE]
        /\ op' = [op EXCEPT ![o].req = r]
        /\ pc' = [pc EXCEPT ![o] = "wait"]
        /\ sec' = [sec EXCEPT !.at = "block", !.req = r, !.next = First(q)]

-----------------------------------------------------------------------------
(* LOCK_enq() *)

LOCK_enq(o, l, m, w, a, p) ==
    /\ MayCall(o) /\ ast[o] = "no"
    /\ "dup" \in Calls \/ \A r \in own_requests(o) : lrq_lock[r] # l \/ r = p
    /\ acquire(o)
    /\ op' = [op EXCEPT ![o] = [kind |-> "enq", req |-> NoReq, lock |-> l,
                                level |-> m, wait |-> w, ast |-> a]]
    /\ \/ /\ p = NoReq
          /\ sec' = At("enq")
          /\ UNCHANGED <<lblVars, lrqVars, own_blocks, lck_physical>>
       \/ /\ "prior" \in Calls /\ p \in Callable(o)
          /\ ReleaseRequest(p, "enq")
    /\ UNCHANGED <<lhb_owners, own_pending_request, own_flags, own_signaled,
                   own_semaphore, alive, sigpend, pc, ast, crashes>>

(* Neither a free request block nor room to make one, or no lock block for *)
(* a lock that does not exist yet: the call returns 0.                     *)
OutOfRoom(l) ==
    \/ FreeRequests = {}
    \/ /\ lbl_requests[l] = <<>>
       /\ Cardinality({k \in Locks : lbl_requests[k] # <<>>}) >= MaxLocks

EnqOutOfRoom(o) ==
    /\ lhb_active_owner = o /\ sec.at = "enq"
    /\ OutOfRoom(op[o].lock)
    /\ op' = [op EXCEPT ![o] = NoOp]
    /\ sec' = Release
    /\ UNCHANGED <<lblVars, lrqVars, ownVars, lhb_active_owner, own_hung,
                   alive, sigpend, pc, ast, lck_physical, crashes>>

(* The request is filled in and goes to the tail of its lock's queue.      *)
(* Which free block is taken does not matter.  A lock made for it is       *)
(* empty, so grant_or_que grants as the code does.                         *)
EnqInsert(o, r) ==
    /\ lhb_active_owner = o /\ sec.at = "enq"
    /\ r \in FreeRequests /\ ~ OutOfRoom(op[o].lock)
    /\ lrq_owner' = [lrq_owner EXCEPT ![r] = o]
    /\ lrq_lock' = [lrq_lock EXCEPT ![r] = op[o].lock]
    /\ lrq_requested' = [lrq_requested EXCEPT ![r] = op[o].level]
    /\ lrq_state' = [lrq_state EXCEPT ![r] = LCK_none]
    /\ lrq_flags' = [lrq_flags EXCEPT ![r] = {}]
    /\ lrq_ast_routine' = [lrq_ast_routine EXCEPT ![r] = op[o].ast]
    /\ lbl_requests' = [lbl_requests EXCEPT ![op[o].lock] = Append(@, r)]
    /\ sec' = [sec EXCEPT !.at = "grant_or_que", !.req = r]
    /\ UNCHANGED <<lbl_counts, lbl_state, lbl_pending_lrq_count, ownVars,
                   lhb_active_owner, own_hung, procVars>>

(* A new request may pass only if nobody waits (unless the grant order     *)
(* option is off, or it asks for null).                                    *)
GrantAtOnce_overtakes(r) ==
    COMPATIBLE(lrq_requested[r], lbl_state[lrq_lock[r]])
GrantAtOnce(r) ==
    /\ COMPATIBLE(lrq_requested[r], lbl_state[lrq_lock[r]])
    /\ \/ ~ LOCK_ordering
       \/ lrq_requested[r] = LCK_null
       \/ lbl_pending_lrq_count[lrq_lock[r]] = 0

(* grant_or_que(): granted ... *)
QueGranted(o) ==
    /\ lhb_active_owner = o /\ sec.at = "grant_or_que"
    /\ GrantAtOnce(sec.req)
    /\ Grant(sec.req, lbl_counts[lrq_lock[sec.req]])
    /\ lck_physical' = [lck_physical EXCEPT ![sec.req] = op[o].level]
    /\ op' = [op EXCEPT ![o] = NoOp]
    /\ sec' = PostPending(lrq_lock[sec.req], "release")
    /\ UNCHANGED <<lbl_requests, lrq_owner, lrq_lock, lrq_requested,
                   lrq_ast_routine, lhb_owners, own_blocks,
                   own_pending_request, own_signaled, own_semaphore,
                   lhb_active_owner, own_hung, alive, sigpend, pc, ast,
                   crashes>>

(* ... queued ... *)
QueWaits(o) ==
    /\ lhb_active_owner = o /\ sec.at = "grant_or_que"
    /\ ~ GrantAtOnce(sec.req)
    /\ op[o].wait # "nowait"
    /\ BeginWait(o, sec.req)
    /\ UNCHANGED <<lbl_counts, lbl_state, lrq_owner, lrq_lock, lrq_requested,
                   lrq_state, lrq_ast_routine, lhb_owners, own_blocks,
                   own_signaled, lhb_active_owner, own_hung, alive, sigpend,
                   ast, lck_physical, crashes>>

(* ... or denied. *)
QueDenied(o) ==
    /\ lhb_active_owner = o /\ sec.at = "grant_or_que"
    /\ ~ GrantAtOnce(sec.req)
    /\ op[o].wait = "nowait"
    /\ ReleaseRequest(sec.req, "release")
    /\ op' = [op EXCEPT ![o] = NoOp]
    /\ UNCHANGED <<lhb_owners, own_pending_request, own_flags, own_signaled,
                   own_semaphore, lhb_active_owner, own_hung, alive, sigpend,
                   pc, ast, crashes>>

-----------------------------------------------------------------------------
(* LOCK_convert(), LOCK_downgrade(), convert() *)

(* The client passes the AST routine it enqueued with. *)
LOCK_convert(o, r, m, w) ==
    /\ "convert" \in Calls
    /\ MayCall(o) /\ ast[o] = "no"
    /\ r \in Callable(o)
    /\ acquire(o)
    /\ lrq_requested' = [lrq_requested EXCEPT ![r] = m]
    /\ lrq_flags' = [lrq_flags EXCEPT ![r] = @ \ {"blocking_seen"}]
    /\ op' = [op EXCEPT ![o] = [NoOp EXCEPT !.kind = "convert", !.req = r,
                                            !.level = m, !.wait = w]]
    /\ sec' = [NoSec EXCEPT !.at = "convert", !.req = r]
    /\ UNCHANGED <<lblVars, lrq_owner, lrq_lock, lrq_state, lrq_ast_routine,
                   ownVars, alive, sigpend, pc, ast, lck_physical, crashes>>

(* The highest level the other pending requests of the lock ask for. *)
PendingState(r) ==
    LET asked == {lrq_requested[p] : p \in {p \in Requests \ {r} :
                     lrq_lock[p] = lrq_lock[r] /\ Pending(p)}}
    IN  IF asked = {} THEN LCK_none
        ELSE CHOOSE m \in asked : \A k \in asked : k <= m

(* The highest level not above the one held that lets it in. *)
DowngradedState(r) ==
    LET fit == {m \in LCK_none .. lrq_state[r] : COMPATIBLE(PendingState(r), m)}
    IN  CHOOSE m \in fit : \A k \in fit : k <= m

LOCK_downgrade(o, r) ==
    /\ "downgrade" \in Calls
    /\ MayCall(o)
    /\ r \in Callable(o)
    /\ acquire(o)
    /\ ast' = AfterCall(o)
    /\ \/ /\ DowngradedState(r) \in {LCK_none, LCK_null}
          /\ ReleaseRequest(r, "release")
       \/ /\ DowngradedState(r) \notin {LCK_none, LCK_null}
          /\ lrq_requested' = [lrq_requested EXCEPT ![r] = DowngradedState(r)]
          /\ lrq_flags' = [lrq_flags EXCEPT ![r] = @ \ {"blocking_seen"}]
          /\ sec' = [NoSec EXCEPT !.at = "downgrade", !.req = r]
          /\ UNCHANGED <<lblVars, lrq_owner, lrq_lock, lrq_state,
                         lrq_ast_routine, own_blocks, lck_physical>>
    /\ UNCHANGED <<lhb_owners, own_pending_request, own_flags, own_signaled,
                   own_semaphore, alive, sigpend, pc, op, crashes>>

Convertible(r) == COMPATIBLE(lrq_requested[r], lock_state(CountsWithout(r)))

(* convert(): granted ... *)
ConvertGranted(o) ==
    /\ lhb_active_owner = o /\ sec.at \in {"convert", "downgrade"}
    /\ Convertible(sec.req)
    /\ Grant(sec.req, CountsWithout(sec.req))
    /\ lck_physical' = [lck_physical EXCEPT ![sec.req] = lrq_requested[sec.req]]
    /\ op' = IF sec.at = "convert" THEN [op EXCEPT ![o] = NoOp] ELSE op
    /\ sec' = PostPending(lrq_lock[sec.req], "release")
    /\ UNCHANGED <<lbl_requests, lrq_owner, lrq_lock, lrq_requested,
                   lrq_ast_routine, lhb_owners, own_blocks,
                   own_pending_request, own_signaled, own_semaphore,
                   lhb_active_owner, own_hung, alive, sigpend, pc, ast,
                   crashes>>

(* ... waits ... *)
ConvertWaits(o) ==
    /\ lhb_active_owner = o /\ sec.at = "convert"
    /\ ~ Convertible(sec.req)
    /\ op[o].wait # "nowait"
    /\ BeginWait(o, sec.req)
    /\ UNCHANGED <<lbl_counts, lbl_state, lrq_owner, lrq_lock, lrq_requested,
                   lrq_state, lrq_ast_routine, lhb_owners, own_blocks,
                   own_signaled, lhb_active_owner, own_hung, alive, sigpend,
                   ast, lck_physical, crashes>>

(* ... or is denied.  LOCK_downgrade returns the level it computed,        *)
(* whether or not convert() granted it, and LCK_downgrade records that.    *)
ConvertDenied(o) ==
    /\ lhb_active_owner = o
    /\ sec.at = "downgrade" \/ (sec.at = "convert" /\ op[o].wait = "nowait")
    /\ ~ Convertible(sec.req)
    /\ lrq_requested' = [lrq_requested EXCEPT ![sec.req] = lrq_state[sec.req]]
    /\ lck_physical' = IF sec.at = "convert" THEN lck_physical
          ELSE [lck_physical EXCEPT ![sec.req] = lrq_requested[sec.req]]
    /\ op' = IF sec.at = "convert" THEN [op EXCEPT ![o] = NoOp] ELSE op
    /\ sec' = Release
    /\ UNCHANGED <<lblVars, lrq_owner, lrq_lock, lrq_state, lrq_flags,
                   lrq_ast_routine, ownVars, lhb_active_owner, own_hung, alive,
                   sigpend, pc, ast, crashes>>

-----------------------------------------------------------------------------
(* post_blockage() and signal_owner() *)

(* Does the request b stand in the way of r, with someone to tell? *)
Blocks(b, r) ==
    /\ b # r
    /\ ~ COMPATIBLE(lrq_requested[r], lrq_state[b])
    /\ lrq_ast_routine[b]
    /\ "blocking_seen" \notin lrq_flags[b]

(* The walk goes on with the request that followed when this one was       *)
(* reached, and stops after one that is held exclusively.                  *)
AfterBlock_reread(b) ==     \* read when the owner of b is already purged
    IF Blocks(b, sec.req) /\ lrq_state[b] = LCK_EX THEN NoReq
    ELSE IF lrq_owner[b] \notin alive THEN b
    ELSE Following(lbl_requests[lrq_lock[b]], b)
AfterBlock(b) ==
    IF Blocks(b, sec.req) /\ lrq_state[b] = LCK_EX THEN NoReq
    ELSE Following(lbl_requests[lrq_lock[b]], b)

(* signal_owner(): none is sent to an owner that has not seen the last one *)
(* or waits for the table: release() will look at its blocks.  The attempt *)
(* fails if the process has died.                                          *)
SkipsSignal(v) == own_signaled[v] \/ own_hung[v]
SignalFails(v) == ~ SkipsSignal(v) /\ v \notin alive

signal_owner(v) ==
    IF SkipsSignal(v) \/ SignalFails(v)
    THEN UNCHANGED <<own_signaled, sigpend>>
    ELSE /\ own_signaled' = [own_signaled EXCEPT ![v] = TRUE]
         /\ sigpend' = sigpend \cup {v}

(* One request of the lock's queue (BlockageStaysOnLock; StrayWalk has what *)
(* happens if the request was freed by a purge).                           *)
PostBlock(o) ==
    /\ lhb_active_owner = o /\ sec.at = "block"
    /\ sec.next # NoReq /\ lrq_lock[sec.next] # NoLock
    /\ LET b == sec.next
           v == lrq_owner[b]
           on == [sec EXCEPT !.next = AfterBlock(b)]
       IN  IF ~ Blocks(b, sec.req)
           THEN /\ sec' = on
                /\ UNCHANGED <<lrq_flags, own_blocks, own_signaled, sigpend>>
           ELSE
           /\ lrq_flags' = [lrq_flags EXCEPT ![b] = @ \cup {"blocking"}]
           /\ own_blocks' = [own_blocks EXCEPT ![v] =
                 IF "blocking" \in lrq_flags[b] THEN @ ELSE Append(@, b)]
           /\ IF v = o THEN UNCHANGED <<own_signaled, sigpend>>
              ELSE signal_owner(v)
           /\ sec' = IF v = o \/ ~ SignalFails(v) THEN on
                     ELSE [on EXCEPT !.at = "purge", !.victim = v,
                                     !.purged = "block"]
    /\ UNCHANGED <<lblVars, lrq_owner, lrq_lock, lrq_requested, lrq_state,
                   lrq_ast_routine, lhb_owners, own_pending_request, own_flags,
                   own_semaphore, lhb_active_owner, own_hung, alive, pc, ast,
                   op, lck_physical, crashes>>

PostBlockDone(o) ==
    /\ lhb_active_owner = o /\ sec.at = "block"
    /\ sec.next = NoReq
    /\ sec' = At("release")
    /\ UNCHANGED <<lblVars, lrqVars, ownVars, lhb_active_owner, own_hung,
                   procVars>>

-----------------------------------------------------------------------------
(* purge_owner() and probe_owners() *)

PurgeRequest(o, r) ==
    /\ lhb_active_owner = o /\ sec.at = "purge"
    /\ r \in own_requests(sec.victim)
    /\ ReleaseRequest(r, "purge")
    /\ UNCHANGED <<lhb_owners, own_pending_request, own_flags, own_signaled,
                   own_semaphore, lhb_active_owner, own_hung, alive, sigpend,
                   pc, ast, op, crashes>>

(* What is left on own_blocks are reposts. *)
PurgeOwner(o) ==
    /\ lhb_active_owner = o /\ sec.at = "purge"
    /\ own_requests(sec.victim) = {}
    /\ LET v == sec.victim
           left == Members(own_blocks[v])
       IN  /\ lrq_owner' = [r \in Requests |->
                 IF r \in left THEN NoOwner ELSE lrq_owner[r]]
           /\ lrq_flags' = [r \in Requests |->
                 IF r \in left THEN {} ELSE lrq_flags[r]]
           /\ lrq_ast_routine' = [r \in Requests |->
                 r \notin left /\ lrq_ast_routine[r]]
           /\ own_blocks' = [own_blocks EXCEPT ![v] = <<>>]
           /\ own_flags' = [own_flags EXCEPT ![v] = {}]
           /\ lhb_owners' = lhb_owners \ {v}
    /\ sec' = At(sec.purged)
    /\ UNCHANGED <<lblVars, lrq_lock, lrq_requested, lrq_state,
                   own_pending_request, own_signaled, own_semaphore,
                   lhb_active_owner, own_hung, procVars>>

(* ISC_check_process_existence() fails for them. *)
DeadOwners_unchecked(o) == lhb_owners \ {o}
DeadOwners(o) == lhb_owners \ (alive \cup {o})

ProbeOwner(o, v) ==
    /\ lhb_active_owner = o /\ sec.at = "probe"
    /\ v \in DeadOwners(o)
    /\ sec' = Purge(v, "probe")
    /\ UNCHANGED <<lblVars, lrqVars, ownVars, lhb_active_owner, own_hung,
                   procVars>>

ProbeDone(o) ==
    /\ lhb_active_owner = o /\ sec.at = "probe"
    /\ DeadOwners(o) = {}
    /\ sec' = At(sec.probed)
    /\ UNCHANGED <<lblVars, lrqVars, ownVars, lhb_active_owner, own_hung,
                   procVars>>

-----------------------------------------------------------------------------
(* deadlock_scan() and deadlock_walk() *)

Ahead(b, r) ==
    LET q == lbl_requests[lrq_lock[r]]
    IN  \E i, j \in 1 .. Len(q) : q[i] = b /\ q[j] = r /\ i < j

MaxLevel(m, k) == IF m >= k THEN m ELSE k

(* The requests deadlock_walk takes to be blocking r.  A conversion, and   *)
(* every request when the grant order option is off, is blocked by granted *)
(* requests only; a new request also by those queued before it.            *)
WalkBlockers(r) ==
    {b \in Requests :
        /\ lrq_lock[b] = lrq_lock[r]
        /\ IF ~ LOCK_ordering \/ lrq_state[r] > LCK_null
           THEN b # r /\ ~ COMPATIBLE(lrq_requested[r], lrq_state[b])
           ELSE /\ Ahead(b, r)
                /\ ~ COMPATIBLE(lrq_requested[r],
                                MaxLevel(lrq_state[b], lrq_requested[b]))}

(* Owners that have blocking ASTs to handle are not pursued. *)
BusyWithAst(o) == own_signaled[o] \/ own_blocks[o] # <<>>

(* The pending requests the walk goes on to from r. *)
WalkNext(r) ==
    {t \in Requests :
        /\ Pending(t)
        /\ \E b \in WalkBlockers(r) :
              /\ ~ BusyWithAst(lrq_owner[b])
              /\ own_pending_request[lrq_owner[b]] = t}

PendingRequests == {r \in Requests : Pending(r)}

(* The requests the walk visits, started at the requests of R. *)
Visited(R) ==
    {t \in PendingRequests :
        \A S \in SUBSET PendingRequests :
            (R \subseteq S /\ \A s \in S : WalkNext(s) \subseteq S) => t \in S}

(* A request the walk meets while it is still exploring it: the victim.    *)
(* Which of a cycle's requests that is depends on where the walk enters.   *)
Victims(r) == {t \in Visited({r}) : t \in Visited(WalkNext(t))}

MaybeDeadlock(r) ==
    \E t \in Visited({r}) : \E b \in WalkBlockers(t) : BusyWithAst(lrq_owner[b])

(* The blockage is posted again: "some plaforms under CLASSIC architecture *)
(* had problems with missing signals".                                     *)
Remind_dropped(r) == Release
Remind(r) == [sec EXCEPT !.at = "block", !.req = r,
                         !.next = First(lbl_requests[lrq_lock[r]])]

(* No deadlock, or this owner was scanned before: remind the blockers. *)
ScanClear(o) ==
    /\ lhb_active_owner = o /\ sec.at = "scan"
    /\ "scanned" \in own_flags[o] \/ Victims(sec.req) = {}
    /\ own_flags' = IF MaybeDeadlock(sec.req) THEN own_flags
                    ELSE [own_flags EXCEPT ![o] = @ \cup {"scanned"}]
    /\ sec' = Remind(sec.req)
    /\ UNCHANGED <<lblVars, lrqVars, lhb_owners, own_blocks,
                   own_pending_request, own_signaled, own_semaphore,
                   lhb_active_owner, own_hung, procVars>>

(* A victim is rejected; its owner is woken to clean up. *)
ScanVictim(o, t) ==
    /\ lhb_active_owner = o /\ sec.at = "scan"
    /\ "scanned" \notin own_flags[o]
    /\ t \in Victims(sec.req)
    /\ lrq_flags' =
          [lrq_flags EXCEPT ![t] = (@ \ {"pending"}) \cup {"rejected"}]
    /\ lbl_pending_lrq_count' =
          [lbl_pending_lrq_count EXCEPT ![lrq_lock[t]] = @ - 1]
    /\ LET v == lrq_owner[t]
           cleared == [own_flags EXCEPT ![v] = @ \ {"scanned"}]
       IN  /\ own_pending_request' = [own_pending_request EXCEPT ![v] = NoReq]
           /\ own_flags' = IF t = sec.req THEN cleared
                           ELSE post_wakeup(cleared, v)
    /\ sec' = Release
    /\ UNCHANGED <<lbl_requests, lbl_counts, lbl_state, lrq_owner, lrq_lock,
                   lrq_requested, lrq_state, lrq_ast_routine, lhb_owners,
                   own_blocks, own_signaled, own_semaphore, lhb_active_owner,
                   own_hung, procVars>>

-----------------------------------------------------------------------------
(* The waiting loop of wait_for_request().  The main thread runs only when *)
(* no blocking AST interrupts it.                                          *)

Main(o, at) == o \in alive /\ ast[o] = "no" /\ pc[o] = at

(* The pending flag is read without the table. *)
WaitOver(o) ==
    /\ Main(o, "wait")
    /\ lhb_active_owner # o
    /\ ~ Pending(op[o].req)
    /\ pc' = [pc EXCEPT ![o] = "resolved"]
    /\ UNCHANGED <<lblVars, lrqVars, ownVars, secVars, alive, sigpend, ast, op,
                   lck_physical, crashes>>

(* Somebody posted the wakeup event, or the time of the next deadlock scan *)
(* or of the lock timeout has come.                                        *)
WaitWoken(o) ==
    /\ Main(o, "wait")
    /\ lhb_active_owner # o
    /\ Pending(op[o].req)
    /\ pc' = [pc EXCEPT ![o] = IF "wakeup" \in own_flags[o] THEN "woke_event"
                               ELSE "woke_timeout"]
    /\ UNCHANGED <<lblVars, lrqVars, ownVars, secVars, alive, sigpend, ast, op,
                   lck_physical, crashes>>

Woken(o) ==
    /\ Main(o, "woke_event") \/ Main(o, "woke_timeout")
    /\ acquire(o)
    /\ own_flags' = [own_flags EXCEPT ![o] = @ \ {"wakeup"}]

(* With the table: the request was resolved meanwhile. *)
WokenResolved(o) ==
    /\ Woken(o)
    /\ ~ Pending(op[o].req)
    /\ pc' = [pc EXCEPT ![o] = "resolved"]
    /\ sec' = Release
    /\ UNCHANGED <<lblVars, lrqVars, lhb_owners, own_blocks,
                   own_pending_request, own_signaled, own_semaphore, alive,
                   sigpend, ast, op, lck_physical, crashes>>

(* The lock timeout is over: the owner rejects its own request; it cleans  *)
(* up after it has left this section.                                      *)
WokenTimedOut(o) ==
    /\ Woken(o)
    /\ Pending(op[o].req)
    /\ op[o].wait = "timed"
    /\ lrq_flags' = [lrq_flags EXCEPT ![op[o].req] =
                        (@ \ {"pending"}) \cup {"rejected"}]
    /\ lbl_pending_lrq_count' =
          [lbl_pending_lrq_count EXCEPT ![lrq_lock[op[o].req]] = @ - 1]
    /\ pc' = [pc EXCEPT ![o] = "resolved"]
    /\ sec' = Release
    /\ UNCHANGED <<lbl_requests, lbl_counts, lbl_state, lrq_owner, lrq_lock,
                   lrq_requested, lrq_state, lrq_ast_routine, lhb_owners,
                   own_blocks, own_pending_request, own_signaled,
                   own_semaphore, alive, sigpend, ast, op, lck_physical,
                   crashes>>

(* Still waiting: post the blockage again if woken, else look for dead     *)
(* owners and then for a deadlock.                                         *)
WokenPending(o) ==
    /\ Woken(o)
    /\ Pending(op[o].req)
    /\ pc' = [pc EXCEPT ![o] = "wait"]
    /\ sec' = IF pc[o] = "woke_event" THEN Remind(op[o].req)
              ELSE [NoSec EXCEPT !.at = "probe", !.probed = "probed",
                                 !.req = op[o].req]
    /\ UNCHANGED <<lblVars, lrqVars, lhb_owners, own_blocks,
                   own_pending_request, own_signaled, own_semaphore, alive,
                   sigpend, ast, op, lck_physical, crashes>>

(* Purging a dead owner may have granted the request. *)
Probed(o) ==
    /\ lhb_active_owner = o /\ sec.at = "probed"
    /\ IF Pending(sec.req)
       THEN sec' = At("scan") /\ UNCHANGED pc
       ELSE sec' = Release /\ pc' = [pc EXCEPT ![o] = "resolved"]
    /\ UNCHANGED <<lblVars, lrqVars, ownVars, lhb_active_owner, own_hung,
                   alive, sigpend, ast, op, lck_physical, crashes>>

Rejected_ignored(o) == FALSE
Rejected(o) == "rejected" \in lrq_flags[op[o].req]

(* wait_for_request returns, and its caller reads the rejected flag: both  *)
(* without the table.                                                      *)
WaitReturns(o) ==
    /\ Main(o, "resolved")
    /\ lhb_active_owner # o
    /\ own_pending_request' = [own_pending_request EXCEPT ![o] = NoReq]
    /\ own_semaphore' = [own_semaphore EXCEPT ![o] = FALSE]
    /\ IF Rejected(o)
       THEN /\ pc' = [pc EXCEPT ![o] = "denied"]
            /\ UNCHANGED <<op, lck_physical>>
       ELSE /\ pc' = [pc EXCEPT ![o] = "out"]
            /\ op' = [op EXCEPT ![o] = NoOp]
            /\ lck_physical' = [lck_physical EXCEPT ![op[o].req] = op[o].level]
    /\ UNCHANGED <<lblVars, lrqVars, lhb_owners, own_blocks, own_flags,
                   own_signaled, secVars, alive, sigpend, ast, crashes>>

(* grant_or_que() releases the rejected request ... *)
EnqRejected(o) ==
    /\ Main(o, "denied") /\ op[o].kind = "enq"
    /\ acquire(o)
    /\ ReleaseRequest(op[o].req, "release")
    /\ pc' = [pc EXCEPT ![o] = "out"]
    /\ op' = [op EXCEPT ![o] = NoOp]
    /\ UNCHANGED <<lhb_owners, own_pending_request, own_flags, own_signaled,
                   own_semaphore, alive, sigpend, ast, crashes>>

(* ... convert() grants what it held up and forgets the conversion. *)
ConvertRejected(o) ==
    /\ Main(o, "denied") /\ op[o].kind = "convert"
    /\ acquire(o)
    /\ pc' = [pc EXCEPT ![o] = "out"]
    /\ op' = [op EXCEPT ![o] = NoOp]
    /\ sec' = [PostPending(lrq_lock[op[o].req], "reset")
                  EXCEPT !.req = op[o].req]
    /\ UNCHANGED <<lblVars, lrqVars, ownVars, alive, sigpend, ast,
                   lck_physical, crashes>>

ConvertReset(o) ==
    /\ lhb_active_owner = o /\ sec.at = "reset"
    /\ lrq_requested' = [lrq_requested EXCEPT ![sec.req] = lrq_state[sec.req]]
    /\ sec' = Release
    /\ UNCHANGED <<lblVars, lrq_owner, lrq_lock, lrq_state, lrq_flags,
                   lrq_ast_routine, ownVars, lhb_active_owner, own_hung,
                   procVars>>

-----------------------------------------------------------------------------
(* Blocking signals and ASTs. *)

(* blocking_action() outside the lock manager: the handler enters the      *)
(* table and works the queue of blocks.                                    *)
SignalHandled(o) ==
    /\ o \in sigpend /\ o \in lhb_owners
    /\ ast[o] = "no" /\ ~ own_hung[o]
    /\ acquire(o)
    /\ sigpend' = sigpend \ {o}
    /\ sec' = At("ast")
    /\ UNCHANGED <<lblVars, lrqVars, ownVars, alive, pc, ast, op, lck_physical,
                   crashes>>

(* blocking_action() when the main thread is in the lock manager, or waits *)
(* in acquire() to get into it (LOCK_asts): the flag is cleared WITHOUT    *)
(* the table; release() will look at the queue.  release_mutex() and       *)
(* blocking_action2() inhibit signals.                                     *)
SignalIgnored(o) ==
    /\ o \in sigpend
    /\ ast[o] = "no"
    /\ own_hung[o] \/ (lhb_active_owner = o /\ sec.at # "ast")
    /\ sigpend' = sigpend \ {o}
    /\ own_signaled' = [own_signaled EXCEPT ![o] = FALSE]
    /\ UNCHANGED <<lblVars, lrqVars, lhb_owners, own_blocks,
                   own_pending_request, own_flags, own_semaphore, secVars,
                   alive, pc, ast, op, lck_physical, crashes>>

(* blocking_action2(): the next block; its routine is called without the   *)
(* table.                                                                  *)
AstNext(o) ==
    /\ lhb_active_owner = o /\ sec.at = "ast"
    /\ own_blocks[o] # <<>>
    /\ LET r == Head(own_blocks[o])
           repost == "blocking" \notin lrq_flags[r]
       IN  /\ own_blocks' = [own_blocks EXCEPT ![o] = Tail(@)]
           /\ lrq_flags' = [lrq_flags EXCEPT ![r] = IF repost THEN {}
                 ELSE (@ \ {"blocking"}) \cup {"blocking_seen"}]
           /\ lrq_owner' = [lrq_owner EXCEPT ![r] = IF repost THEN NoOwner ELSE @]
           /\ lrq_ast_routine' =
                 [lrq_ast_routine EXCEPT ![r] = IF repost THEN FALSE ELSE @]
           /\ IF lrq_ast_routine[r]
              THEN /\ ast' = [ast EXCEPT ![o] = "call"]
                   /\ lhb_active_owner' = NoOwner
                   /\ sec' = NoSec
                   /\ UNCHANGED own_hung
              ELSE UNCHANGED <<ast, secVars>>
    /\ UNCHANGED <<lblVars, lrq_lock, lrq_requested, lrq_state, lhb_owners,
                   own_pending_request, own_flags, own_signaled, own_semaphore,
                   alive, sigpend, pc, op, lck_physical, crashes>>

AstReturns(o) ==
    /\ o \in alive
    /\ ast[o] # "no"
    /\ acquire(o)
    /\ ast' = [ast EXCEPT ![o] = "no"]
    /\ sec' = At("ast")
    /\ UNCHANGED <<lblVars, lrqVars, ownVars, alive, sigpend, pc, op,
                   lck_physical, crashes>>

(* The queue is empty: the owner can be signaled again. *)
AstDone(o) ==
    /\ lhb_active_owner = o /\ sec.at = "ast"
    /\ own_blocks[o] = <<>>
    /\ own_signaled' = [own_signaled EXCEPT ![o] = FALSE]
    /\ sec' = At("unlock")
    /\ UNCHANGED <<lblVars, lrqVars, lhb_owners, own_blocks,
                   own_pending_request, own_flags, own_semaphore,
                   lhb_active_owner, own_hung, procVars>>

(* LOCK_re_post(): the engine asks for an AST it could not serve to be     *)
(* called again, through a request block of its own.                       *)
LOCK_re_post(o) ==
    /\ "repost" \in Calls
    /\ MayCall(o) /\ ast[o] = "no"
    /\ acquire(o)
    /\ \/ /\ FreeRequests = {}
          /\ sec' = Release
          /\ UNCHANGED <<lrqVars, own_blocks, own_signaled>>
       \/ \E r \in FreeRequests :
          /\ lrq_owner' = [lrq_owner EXCEPT ![r] = o]
          /\ lrq_flags' = [lrq_flags EXCEPT ![r] = {"repost"}]
          /\ lrq_ast_routine' = [lrq_ast_routine EXCEPT ![r] = TRUE]
          /\ own_blocks' = [own_blocks EXCEPT ![o] = Append(@, r)]
          /\ own_signaled' = [own_signaled EXCEPT ![o] = TRUE]
          /\ sec' = At("ast")
          /\ UNCHANGED <<lrq_lock, lrq_requested, lrq_state>>
    /\ UNCHANGED <<lblVars, lhb_owners, own_pending_request, own_flags,
                   own_semaphore, procVars>>

-----------------------------------------------------------------------------
(* Owners come and go. *)

(* A process dies outside the table; what it had in the table stays. *)
Crash(o) ==
    /\ crashes < MaxCrashes
    /\ o \in alive /\ lhb_active_owner # o
    /\ crashes' = crashes + 1
    /\ alive' = alive \ {o}
    /\ sigpend' = sigpend \ {o}
    /\ pc' = [pc EXCEPT ![o] = "out"]
    /\ ast' = [ast EXCEPT ![o] = "no"]
    /\ op' = [op EXCEPT ![o] = NoOp]
    /\ UNCHANGED <<lblVars, lrqVars, ownVars, secVars, lck_physical>>

(* LOCK_fini(): LOCK_owner is 0 while it waits for the table *)
LOCK_fini(o) ==
    /\ "fini" \in Calls
    /\ MayCall(o) /\ ast[o] = "no" /\ ~ own_hung[o]
    /\ acquire(o)
    /\ sec' = Purge(o, "unlock")
    /\ sigpend' = sigpend \ {o}
    /\ UNCHANGED <<lblVars, lrqVars, ownVars, alive, pc, ast, op, lck_physical,
                   crashes>>

(* LOCK_init(), create_owner(): a previous instance of the owner, left by  *)
(* a process that died, is purged first.                                   *)
LOCK_init(o) ==
    /\ o \notin alive \/ o \notin lhb_owners
    /\ lhb_active_owner = NoOwner
    /\ lhb_active_owner' = o
    /\ alive' = alive \cup {o}
    /\ sec' = IF o \in lhb_owners THEN Purge(o, "create")
              ELSE At("create")
    /\ UNCHANGED <<lblVars, lrqVars, ownVars, own_hung, sigpend, pc, ast, op,
                   lck_physical, crashes>>

(* init_owner_block(), then the other owners are probed *)
CreateOwner(o) ==
    /\ lhb_active_owner = o /\ sec.at = "create"
    /\ lhb_owners' = lhb_owners \cup {o}
    /\ own_blocks' = [own_blocks EXCEPT ![o] = <<>>]
    /\ own_pending_request' = [own_pending_request EXCEPT ![o] = NoReq]
    /\ own_flags' = [own_flags EXCEPT ![o] = {}]
    /\ own_signaled' = [own_signaled EXCEPT ![o] = FALSE]
    /\ own_semaphore' = [own_semaphore EXCEPT ![o] = FALSE]
    /\ own_hung' = [own_hung EXCEPT ![o] = FALSE]
    /\ sec' = [NoSec EXCEPT !.at = "probe"]
    /\ UNCHANGED <<lblVars, lrqVars, lhb_active_owner, procVars>>

-----------------------------------------------------------------------------

Init ==
    /\ lbl_requests = [l \in Locks |-> <<>>]
    /\ lbl_counts = [l \in Locks |-> ZeroCounts]
    /\ lbl_state = [l \in Locks |-> LCK_none]
    /\ lbl_pending_lrq_count = [l \in Locks |-> 0]
    /\ lrq_owner = [r \in Requests |-> NoOwner]
    /\ lrq_lock = [r \in Requests |-> NoLock]
    /\ lrq_requested = [r \in Requests |-> LCK_none]
    /\ lrq_state = [r \in Requests |-> LCK_none]
    /\ lrq_flags = [r \in Requests |-> {}]
    /\ lrq_ast_routine = [r \in Requests |-> FALSE]
    /\ lhb_owners = Owners
    /\ own_blocks = [o \in Owners |-> <<>>]
    /\ own_pending_request = [o \in Owners |-> NoReq]
    /\ own_flags = [o \in Owners |-> {}]
    /\ own_signaled = [o \in Owners |-> FALSE]
    /\ own_semaphore = [o \in Owners |-> FALSE]
    /\ lhb_active_owner = NoOwner
    /\ own_hung = [o \in Owners |-> FALSE]
    /\ sec = NoSec
    /\ alive = Owners
    /\ sigpend = {}
    /\ pc = [o \in Owners |-> "out"]
    /\ ast = [o \in Owners |-> "no"]
    /\ op = [o \in Owners |-> NoOp]
    /\ lck_physical = [r \in Requests |-> LCK_none]
    /\ crashes = 0

(* What the engine asks the lock manager for. *)
ClientCall(o) ==
    \/ \E l \in Locks, m \in Levels, w \in Waits, a \in AstArgs,
          p \in Requests \cup {NoReq} : LOCK_enq(o, l, m, w, a, p)
    \/ \E r \in Requests, m \in Levels, w \in Waits : LOCK_convert(o, r, m, w)
    \/ LOCK_re_post(o)
    \/ LOCK_fini(o)
    \/ LOCK_init(o)

(* What both the engine and its blocking ASTs do. *)
Give(o) == \E r \in Requests : LOCK_deq(o, r) \/ LOCK_downgrade(o, r)

(* The steps of a section. *)
SectionStep(o) ==
    \/ ReleaseTable(o) \/ ReleaseMutex(o)
    \/ PostGrant(o) \/ PostRefused(o) \/ PostDone(o)
    \/ EnqOutOfRoom(o)
    \/ \E r \in Requests : EnqInsert(o, r) \/ PurgeRequest(o, r) \/ ScanVictim(o, r)
    \/ QueGranted(o) \/ QueWaits(o) \/ QueDenied(o)
    \/ ConvertGranted(o) \/ ConvertWaits(o) \/ ConvertDenied(o) \/ ConvertReset(o)
    \/ PostBlock(o) \/ PostBlockDone(o)
    \/ PurgeOwner(o) \/ ProbeDone(o) \/ Probed(o)
    \/ \E v \in Owners : ProbeOwner(o, v)
    \/ ScanClear(o)
    \/ AstNext(o) \/ AstDone(o)
    \/ CreateOwner(o)

(* The main thread inside and after wait_for_request. *)
WaitStep(o) ==
    \/ WaitOver(o) \/ WaitWoken(o) \/ WaitReturns(o)
    \/ WokenResolved(o) \/ WokenTimedOut(o) \/ WokenPending(o)
    \/ EnqRejected(o) \/ ConvertRejected(o)

Next ==
    \E o \in Owners :
        \/ ClientCall(o) \/ Give(o)
        \/ SectionStep(o) \/ WaitStep(o)
        \/ SignalHandled(o) \/ SignalIgnored(o) \/ AstReturns(o)
        \/ WaitForTable(o) \/ Crash(o)

Spec == Init /\ [][Next]_vars

-----------------------------------------------------------------------------
(* Safety. *)

RequestsOf(l) == {r \in Requests : lrq_lock[r] = l}

(* validate_lock(): "The counter in the lock header should match the       *)
(* actual counts", for the granted levels, for the pending requests and    *)
(* for the cached state, after every step, also inside a section, whatever *)
(* mixture of grants, conversions, rejections and purges led there.        *)
CountsExact ==
    \A l \in Locks :
        /\ \A m \in Granted : lbl_counts[l][m] =
              Cardinality({r \in RequestsOf(l) : lrq_state[r] = m})
        /\ lbl_pending_lrq_count[l] =
              Cardinality({r \in RequestsOf(l) : Pending(r)})
        /\ lbl_state[l] = lock_state(lbl_counts[l])

(* What a lock manager is for: no two requests hold incompatible levels of *)
(* one lock, although grants are decided from counts, one request at a     *)
(* time, by whoever happens to release something.                          *)
GrantedCompatible ==
    \A r, s \in Requests :
        (r # s /\ lrq_lock[r] # NoLock /\ lrq_lock[r] = lrq_lock[s])
            => COMPATIBLE(lrq_state[r], lrq_state[s])

(* Every request block is on exactly the queues its fields say: no purge,  *)
(* rejection or AST leaves a request on a queue it has left, or twice on   *)
(* one (validate_lock, validate_request, validate_owner).                  *)
QueuesExact ==
    /\ \A l \in Locks :
          /\ Members(lbl_requests[l]) = RequestsOf(l)
          /\ Cardinality(RequestsOf(l)) = Len(lbl_requests[l])
    /\ \A o \in Owners :
          Members(own_blocks[o]) = {r \in Requests :
              lrq_owner[r] = o /\ lrq_flags[r] \cap {"blocking", "repost"} # {}}
    /\ \A r \in Requests : lrq_owner[r] # NoOwner => lrq_owner[r] \in lhb_owners

(* A rejected request whose owner has not cleaned up yet. *)
Uncleaned(l) ==
    \E r \in RequestsOf(l) :
        "rejected" \in lrq_flags[r] /\ lrq_requested[r] # lrq_state[r]

FirstPending(l, r) ==
    /\ r \in RequestsOf(l) /\ Pending(r)
    /\ \A b \in RequestsOf(l) : Ahead(b, r) => ~ Pending(b)

(* No forgotten grant: when nobody is in the table, the first waiter of a  *)
(* lock could not be granted, except while a rejected request is not       *)
(* cleaned up (release_request and convert post_pending again then).       *)
NoForgottenGrant ==
    lhb_active_owner = NoOwner =>
        \A l \in Locks : \A r \in RequestsOf(l) :
            FirstPending(l, r) => (~ Grantable(r) \/ Uncleaned(l))

(* The level the engine believes a request holds (lck_physical) is the     *)
(* level the table holds for it, whenever the process is not inside a call *)
(* (LOCK_downgrade: "returning its new state").                            *)
EngineAgrees ==
    \A o \in alive :
        (pc[o] = "out" /\ ast[o] = "no" /\ lhb_active_owner # o) =>
            \A r \in own_requests(o) : lck_physical[r] = lrq_state[r]

(* The requests that really keep the pending request r waiting: those      *)
(* granted at an incompatible level and, because post_pending stops at the *)
(* first request it cannot grant, every pending request queued before it.  *)
KeptBy(r) ==
    {b \in RequestsOf(lrq_lock[r]) \ {r} :
        \/ ~ COMPATIBLE(lrq_requested[r], lrq_state[b])
        \/ LOCK_ordering /\ Pending(b) /\ Ahead(b, r)}

(* Every request of D waits for an owner that waits with a request of D. *)
Deadlock(D) ==
    /\ D # {}
    /\ \A r \in D : \E b \in KeptBy(r) : \E t \in D :
          own_pending_request[lrq_owner[b]] = t

(* deadlock_scan: "find a deadlock cycle if there is one".  Once an owner  *)
(* is marked as scanned it is never scanned again while it waits: some     *)
(* owner of every deadlock must still have its scan to come.               *)
NoMissedDeadlock ==
    \A D \in SUBSET PendingRequests :
        Deadlock(D) => \E r \in D : "scanned" \notin own_flags[lrq_owner[r]]

(* validate_lock(): a pending request "must be incompatible with current   *)
(* state of the lock - OR lock_ordering is enabled and there is at least   *)
(* one pending request in the queue (before this request)", checked with   *)
(* every release of the table.                                             *)
PendingJustified ==
    (lhb_active_owner = NoOwner) =>
        \A l \in Locks : \A r \in RequestsOf(l) :
            Pending(r) =>
                \/ ~ COMPATIBLE(lrq_requested[r], lbl_state[l])
                \/ LOCK_ordering /\ \E b \in RequestsOf(l) :
                      Ahead(b, r) /\ Pending(b)

(* post_blockage(): "Post blocking notices to any process blocking the     *)
(* request": the request its walk goes on with, remembered before a dead   *)
(* owner was purged, is still on the queue of the lock.                    *)
BlockageStaysOnLock ==
    (sec.at = "block" /\ sec.next # NoReq) =>
        lrq_lock[sec.next] = lrq_lock[sec.req] /\ lrq_lock[sec.next] # NoLock

(* Actions. *)

(* grant_or_que: "no-one can take away the request, once granted": a held  *)
(* level is lowered only by a section of its own owner, or of a process    *)
(* that found its owner dead, or to the level its owner waits to convert   *)
(* it to.                                                                  *)
GrantKept ==
    [][\A r \in Requests :
          lrq_state[r] > lrq_state'[r] =>
              \/ lrq_owner[r] = lhb_active_owner'
              \/ lrq_owner[r] \notin alive
              \/ Pending(r) /\ lrq_state'[r] = lrq_requested[r]]_vars

(* With the grant order option a new request is never granted past one     *)
(* that was queued before it and still waits; requests for null excepted.  *)
NoOvertaking ==
    [][LOCK_ordering => \A r \in Requests :
          (/\ lrq_lock[r] # NoLock /\ lrq_state[r] = LCK_none
           /\ lrq_state'[r] > LCK_null)
              => \A b \in RequestsOf(lrq_lock[r]) : Ahead(b, r) => ~ Pending(b)]_vars

-----------------------------------------------------------------------------
(* The inductive invariant the proofs rest on. *)

Injective(q) == \A i, j \in 1 .. Len(q) : q[i] = q[j] => i = j

(* A lock's queue holds the requests that name the lock, each once; an     *)
(* owner's queue of blocks its blocking requests and its reposts.          *)
QueueInv ==
    /\ \A l \in Locks :
          /\ Injective(lbl_requests[l])
          /\ Members(lbl_requests[l]) = RequestsOf(l)
    /\ \A o \in Owners :
          /\ Injective(own_blocks[o])
          /\ \A r \in Requests : r \in Members(own_blocks[o]) <=>
                /\ lrq_owner[r] = o
                /\ "blocking" \in lrq_flags[r] \/ "repost" \in lrq_flags[r]

(* A request block is free, a repost (it has no lock), or a request. *)
RequestInv ==
    \A r \in Requests :
        /\ lrq_owner[r] = NoOwner => lrq_lock[r] = NoLock /\ lrq_flags[r] = {}
        /\ lrq_owner[r] # NoOwner => lrq_owner[r] \in lhb_owners
        /\ lrq_lock[r] = NoLock =>
              /\ lrq_state[r] = LCK_none
              /\ ~ Pending(r)
              /\ "blocking" \notin lrq_flags[r]
              /\ lrq_owner[r] # NoOwner => "repost" \in lrq_flags[r]
        /\ lrq_lock[r] # NoLock => "repost" \notin lrq_flags[r]
        /\ Pending(r) => lrq_requested[r] \in Granted

(* The owner v is being purged, perhaps with a post_pending under way. *)
Purging(v) ==
    /\ sec.victim = v
    /\ sec.at = "purge" \/ (sec.at = "post" /\ sec.posted = "purge")

(* Who waits is inside wait_for_request, dead, or being purged; who is     *)
(* inside wait_for_request still has its request.                          *)
WaitInv ==
    /\ \A r \in Requests : Pending(r) =>
          \/ lrq_owner[r] \notin alive
          \/ Purging(lrq_owner[r])
          \/ pc[lrq_owner[r]] # "out" /\ op[lrq_owner[r]].req = r
    /\ \A o \in Owners : pc[o] # "out" =>
          /\ o \in alive
          /\ op[o].req \in Requests
          /\ lrq_owner[op[o].req] = o
          /\ lrq_lock[op[o].req] # NoLock
          /\ pc[o] \in {"resolved", "denied"} => ~ Pending(op[o].req)
    /\ sigpend \subseteq alive

(* The section holds a request or lock that is fit for its next step. *)
SecInv ==
    /\ lhb_active_owner = NoOwner <=> sec.at = "free"
    /\ lhb_active_owner # NoOwner => lhb_active_owner \in alive
    /\ sec.at = "free" => sec.purged # "block" /\ sec.probed # "probed"
    /\ sec.at = "post" => sec.lock \in Locks
    /\ (sec.at = "enq" \/ (sec.at = "post" /\ sec.posted = "enq")) =>
          /\ pc[lhb_active_owner] = "out"
          /\ lhb_active_owner \in lhb_owners
          /\ op[lhb_active_owner].lock \in Locks
          /\ op[lhb_active_owner].level \in Granted
    /\ sec.at \in {"grant_or_que", "convert", "downgrade"} =>
          /\ sec.req \in Requests
          /\ lrq_owner[sec.req] = lhb_active_owner
          /\ lrq_lock[sec.req] # NoLock
          /\ lrq_requested[sec.req] \in Granted
          /\ ~ Pending(sec.req)
    /\ sec.at \in {"grant_or_que", "convert"} => pc[lhb_active_owner] = "out"
    /\ sec.at = "grant_or_que" => lrq_state[sec.req] = LCK_none
    /\ (sec.at = "reset" \/ (sec.at = "post" /\ sec.posted = "reset")) =>
          sec.req \in Requests /\ ~ Pending(sec.req)
    /\ (sec.at = "block" \/ sec.purged = "block") => sec.req \in Requests
    /\ (sec.at = "probed" \/ sec.probed = "probed") =>
          /\ pc[lhb_active_owner] = "wait"
          /\ sec.req = op[lhb_active_owner].req
          /\ sec.probed = "probed"
    /\ sec.at = "scan" => sec.req \in Requests /\ Pending(sec.req)
    /\ (sec.at = "purge" \/ (sec.at = "post" /\ sec.posted = "purge")) =>
          /\ sec.victim \in Owners
          /\ pc[sec.victim] = "out"
          /\ sec.purged = "create" => sec.victim = lhb_active_owner
    /\ sec.at = "create" => lhb_active_owner \notin lhb_owners

TableInv == TypeOK /\ QueueInv /\ RequestInv /\ CountsExact /\ GrantedCompatible

IInv == TableInv /\ WaitInv /\ SecInv

-----------------------------------------------------------------------------
(* What BlockageStaysOnLock rests on, besides IInv.                        *)

(* No process asks twice for a lock, or none dies: else the walk of        *)
(* post_blockage may leave the lock (StrayWalk).                           *)
BlockagesFit == "dup" \in Calls => MaxCrashes = 0

SurvivorsInv == MaxCrashes = 0 => alive = Owners

(* An owner has one request for a lock, and none for the one it asks for.  *)
OneRequestInv ==
    "dup" \notin Calls =>
        /\ \A r, s \in Requests :
              (r # s /\ lrq_lock[r] # NoLock /\ lrq_lock[r] = lrq_lock[s])
                  => lrq_owner[r] # lrq_owner[s]
        /\ (sec.at = "enq" \/ (sec.at = "post" /\ sec.posted = "enq")) =>
              \A r \in own_requests(lhb_active_owner) :
                  lrq_lock[r] # op[lhb_active_owner].lock

(* Who scans for a deadlock looks from its own request.                    *)
ScanInv ==
    sec.at = "scan" => lrq_owner[sec.req] = lhb_active_owner

(* post_blockage walks, or has interrupted its walk to purge an owner. *)
WalkStopped ==
    /\ sec.purged = "block"
    /\ sec.at = "purge" \/ (sec.at = "post" /\ sec.posted = "purge")
Walking == sec.at = "block" \/ WalkStopped

(* It walks on behalf of its own request; who is purged meanwhile owns     *)
(* neither that request nor the next one.                                  *)
StaysInv ==
    /\ Walking =>
          /\ lrq_owner[sec.req] = lhb_active_owner
          /\ lrq_lock[sec.req] # NoLock
          /\ sec.next # NoReq => lrq_lock[sec.next] = lrq_lock[sec.req]
    /\ WalkStopped =>
          /\ sec.victim # lhb_active_owner
          /\ sec.next # NoReq => lrq_owner[sec.next] # sec.victim

BlockageInv == SurvivorsInv /\ OneRequestInv /\ ScanInv /\ StaysInv

-----------------------------------------------------------------------------
(* What the order of grants rests on, besides IInv. *)

(* The section has just created r, or is to serve it on behalf of its      *)
(* owner, who is not inside wait_for_request.                              *)
Serving(r) ==
    /\ sec.req = r
    /\ \/ sec.at \in {"grant_or_que", "convert", "downgrade", "reset"}
       \/ sec.at = "post" /\ sec.posted = "reset"

Abandoned(r) == lrq_owner[r] \notin alive \/ Purging(lrq_owner[r])
WaitedFor(r) == pc[lrq_owner[r]] # "out" /\ op[lrq_owner[r]].req = r

(* A request that holds nothing is new: nobody converts it.                *)
NewcomerInv ==
    /\ \A r \in Requests : lrq_lock[r] # NoLock /\ lrq_state[r] = LCK_none =>
          \/ Abandoned(r)
          \/ sec.at = "grant_or_que" /\ sec.req = r
          \/ /\ WaitedFor(r) /\ op[lrq_owner[r]].kind = "enq"
             /\ Pending(r) \/ "rejected" \in lrq_flags[r]
    /\ sec.at \in {"convert", "downgrade"} => lrq_state[sec.req] # LCK_none
    /\ (sec.at \in {"enq", "grant_or_que"} \/ (sec.at = "post" /\ sec.posted = "enq")) =>
          op[lhb_active_owner].kind = "enq"

(* With the grant order option post_pending has granted every waiter it    *)
(* has passed.                                                             *)
WalkInv ==
    LOCK_ordering /\ sec.at = "post" =>
        \A i \in 1 .. Len(lbl_requests[sec.lock]) :
            i < sec.pos => ~ Pending(lbl_requests[sec.lock][i])

(* A waiter asks for another level than it holds, and so does a rejected   *)
(* request until its owner has cleaned up.                                 *)
Dirty(r) == "rejected" \in lrq_flags[r] /\ lrq_requested[r] # lrq_state[r]
RejectedInv ==
    \A r \in Requests : lrq_lock[r] # NoLock =>
        /\ Pending(r) => lrq_requested[r] # lrq_state[r]
        /\ Dirty(r) => Abandoned(r) \/ WaitedFor(r) \/ Serving(r)

(* Also inside a section the first waiter of a lock could not be granted,  *)
(* unless post_pending is at that lock or somebody else has still to clean *)
(* up.                                                                     *)
Settled(l) ==
    \/ sec.at = "post" /\ sec.lock = l
    \/ \A r \in RequestsOf(l) : FirstPending(l, r) =>
          \/ ~ Grantable(r)
          \/ \E s \in RequestsOf(l) : Dirty(s) /\ ~ Serving(s)
SettledInv == LOCK_ordering => \A l \in Locks : Settled(l)

OrderInv == NewcomerInv /\ WalkInv /\ RejectedInv /\ SettledInv

-----------------------------------------------------------------------------
(* What EngineAgrees rests on, besides IInv.                               *)

(* Who is purged is dead, or the process in the table itself. *)
PurgeInv == \A v \in Owners : Purging(v) => v \notin alive \/ v = lhb_active_owner

(* Any two levels clients ask for are ordered by strength. *)
LevelsOrdered == ~ ({LCK_PR, LCK_SW} \subseteq Levels)
DowngradesFit == "downgrade" \in Calls => LevelsOrdered

(* Levels come from the clients; LOCK_downgrade computes SW only if it was *)
(* asked for.                                                              *)
LevelInv ==
    /\ \A o \in Owners : op[o].level \in Levels \cup {LCK_none}
    /\ \A r \in Requests :
          /\ Pending(r) => lrq_requested[r] \in Levels
          /\ LCK_SW \in {lrq_requested[r], lrq_state[r]} => LCK_SW \in Levels

(* A section gives what the call asks for, and can give what               *)
(* LOCK_downgrade has computed.                                            *)
AnswerInv ==
    /\ sec.at \in {"grant_or_que", "convert"} =>
          lrq_requested[sec.req] = op[lhb_active_owner].level
    /\ sec.at = "downgrade" => Convertible(sec.req) /\ ~ WaitedFor(sec.req)

(* The engine knows the level held, or is inside a call that will be told  *)
(* it: the level it had before, until it is granted what it asked for.     *)
Told(r) ==
    \/ Abandoned(r)
    \/ ~ WaitedFor(r) /\ lck_physical[r] = lrq_state[r]
    \/ WaitedFor(r) /\ IF Pending(r)
                       THEN /\ lck_physical[r] = lrq_state[r]
                            /\ lrq_requested[r] = op[lrq_owner[r]].level
                            /\ "rejected" \notin lrq_flags[r]
                       ELSE IF "rejected" \in lrq_flags[r]
                            THEN lck_physical[r] = lrq_state[r]
                            ELSE /\ lrq_state[r] = op[lrq_owner[r]].level
                                 /\ pc[lrq_owner[r]] # "denied"
ToldInv ==
    \A r \in Requests : IF lrq_lock[r] = NoLock THEN lck_physical[r] = LCK_none
                        ELSE Told(r)

EngineInv == PurgeInv /\ LevelInv /\ AnswerInv /\ ToldInv

-----------------------------------------------------------------------------
(* What NoMissedDeadlock rests on, besides IInv and OrderInv.              *)

(* What a process waits for is what its owner block names; a process that  *)
(* is not inside wait_for_request waits for nothing.                       *)
WaitersInv ==
    /\ \A r \in Requests : Pending(r) => own_pending_request[lrq_owner[r]] = r
    /\ \A o \in alive \cap lhb_owners :
          pc[o] \in {"out", "denied"} /\ ~ Purging(o) =>
              own_pending_request[o] = NoReq

(* What LOCK_downgrade computes lets in whom the level held let in.        *)
LowerInv ==
    sec.at = "downgrade" =>
        /\ lrq_requested[sec.req] <= lrq_state[sec.req]
        /\ \A s \in RequestsOf(lrq_lock[sec.req]) \ {sec.req} :
              /\ Pending(s)
              /\ COMPATIBLE(lrq_requested[s], lrq_state[sec.req])
              => COMPATIBLE(lrq_requested[s], lrq_requested[sec.req])

(* A new request waits for a level the clients ask for. *)
AskedInv ==
    /\ \A o \in Owners : op[o].kind = "enq" => op[o].level \in Levels
    /\ sec.at = "grant_or_que" => lrq_requested[sec.req] \in Levels
    /\ \A r \in Requests : Pending(r) /\ lrq_state[r] = LCK_none =>
          lrq_requested[r] \in Levels

(* Without conversions only new requests wait, and what is held is asked   *)
(* for at most at the level it is held.                                    *)
NoConversionInv ==
    "convert" \notin Calls =>
        /\ sec.at # "convert"
        /\ \A r \in Requests : lrq_lock[r] # NoLock /\ lrq_state[r] # LCK_none =>
              ~ Pending(r) /\ lrq_requested[r] <= lrq_state[r]

(* Without conversions, a level held was asked for or is below one that    *)
(* was, if there are downgrades.                                           *)
HeldLevels == IF "downgrade" \in Calls THEN {j \in Granted : \E k \in Levels : j <= k}
              ELSE Levels
HeldLevelInv ==
    /\ "downgrade" \notin Calls => sec.at # "downgrade"
    /\ "convert" \notin Calls =>
          \A r \in Requests : lrq_state[r] \in HeldLevels \cup {LCK_none}

(* Requests for null never wait.  With the grant order option, and without *)
(* conversions, all that is held stands before all that waits.             *)
HeldAheadInv ==
    /\ \A r \in Requests : Pending(r) => lrq_requested[r] # LCK_null
    /\ LOCK_ordering /\ "convert" \notin Calls =>
          \A l \in Locks : \A r, b \in RequestsOf(l) :
              Pending(r) /\ lrq_state[b] > LCK_null => Ahead(b, r)

DeadlockInv ==
    /\ WaitersInv /\ ScanInv /\ LowerInv
    /\ AskedInv /\ NoConversionInv /\ HeldLevelInv /\ HeldAheadInv
    /\ NoMissedDeadlock

(* With the grant order option deadlock_walk finds every deadlock if there *)
(* are no conversions and compatibility is transitive: it passes over a    *)
(* request queued before that is compatible with the one it is at, and     *)
(* must meet what that request waits for by itself.                        *)
DeadlocksFit ==
    LOCK_ordering =>
        /\ "convert" \notin Calls
        /\ \A m, k \in Levels \ {LCK_null}, j \in HeldLevels :
              COMPATIBLE(m, k) /\ COMPATIBLE(k, j) => COMPATIBLE(m, j)

-----------------------------------------------------------------------------
(* Liveness. *)

(* LRQ_blocking_seen: "the blocking AST has been delivered and the owner   *)
(* promises to release the lock as soon as possible".                      *)
GiveSeen(o) ==
    \E r \in Requests :
        /\ "blocking_seen" \in lrq_flags[r]
        /\ LOCK_deq(o, r) \/ LOCK_downgrade(o, r)

(* What a thread that waits for the table does once it has it: the main    *)
(* thread in a call or in the waiting loop, or a blocking AST.             *)
Enter(o) ==
    \/ WokenResolved(o) \/ WokenTimedOut(o) \/ WokenPending(o)
    \/ EnqRejected(o) \/ ConvertRejected(o)
    \/ own_hung[o] /\ pc[o] = "out" /\ (ClientCall(o) \/ Give(o))
    \/ AstReturns(o)

(* A section runs to its end; a sleeper wakes (its wait is bounded by the  *)
(* scan interval); signals arrive; the table mutex, a kernel semaphore, is *)
(* not withheld for ever from a process that wants it; owners keep the     *)
(* promise above.  Nothing is assumed about new calls.                     *)
Fairness ==
    \A o \in Owners :
        /\ WF_vars(SectionStep(o))
        /\ WF_vars(WaitOver(o) \/ WaitWoken(o) \/ WaitReturns(o))
        /\ SF_vars(Enter(o))
        /\ SF_vars(SignalHandled(o))
        /\ SF_vars(GiveSeen(o))

FairSpec == Spec /\ Fairness

(* Nobody waits for ever for a lock whose holders honour their blocking    *)
(* ASTs: the waiter is granted, rejected or dies, although signals are     *)
(* dropped when they meet the owner leaving the table and holders die      *)
(* without a trace.                                                        *)
WaitEnds ==
    \A o \in Owners : (pc[o] = "wait") ~> (pc[o] = "out")

=============================================================================

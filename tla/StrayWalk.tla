----------------------------- MODULE StrayWalk -----------------------------
(***************************************************************************)
(* What LockTable leaves out: post_blockage when the request it is to go   *)
(* on with was freed.  The owner of the request it has reached is found    *)
(* dead and is purged; if that owner has a second request for the lock,    *)
(* next in its queue, the walk goes on along lhb_free_requests and takes   *)
(* free blocks, and the header of that queue, for requests.                *)
(***************************************************************************)
EXTENDS LockTable

(* The requests freed by the purge since the one the walk is to go on      *)
(* with, in the order they were put on lhb_free_requests.                  *)
VARIABLE freed

(* A freed request keeps its owner, the level it held and its routine.     *)
Kept(r) == [req |-> r, victim |-> lrq_owner[r], level |-> lrq_state[r],
            ast |-> lrq_ast_routine[r]]

FreedBy(r) ==
    IF sec.purged = "block" /\ (r = sec.next \/ freed # <<>>)
    THEN Append(freed, Kept(r)) ELSE freed

(* A step of LockTable; a purge puts its requests on lhb_free_requests.    *)
TableStep ==
    /\ Next
    /\ freed' = IF \E r \in Requests : sec.at = "purge" /\ lrq_lock[r] # lrq_lock'[r]
                THEN FreedBy(CHOOSE r \in Requests : lrq_lock[r] # lrq_lock'[r])
                ELSE freed

(* The request that followed is free: the walk has left the lock. *)
PostBlockLost(o) ==
    /\ lhb_active_owner = o /\ sec.at = "block"
    /\ sec.next # NoReq /\ lrq_lock[sec.next] = NoLock
    /\ sec' = At("stray")
    /\ UNCHANGED <<lblVars, lrqVars, ownVars, lhb_active_owner, own_hung, freed,
                   procVars>>

(* A free block b is put on the queue of blocks of the owner v it names,   *)
(* and that owner is signaled.  If its owner block is free too, the        *)
(* process id there is 0: the signal goes to the process group of the      *)
(* caller, and nobody is found to be dead.                                 *)
Notify(b, v) ==
    /\ lrq_flags' = [lrq_flags EXCEPT ![b] = @ \cup {"blocking"}]
    /\ own_blocks' = [own_blocks EXCEPT ![v] =
          IF "blocking" \in lrq_flags[b] THEN @ ELSE Append(@, b)]
    /\ CASE v = lhb_active_owner -> UNCHANGED <<own_signaled, sigpend>>
         [] v \in lhb_owners \ {lhb_active_owner} -> signal_owner(v)
         [] v \notin lhb_owners ->
              IF SkipsSignal(v) THEN UNCHANGED <<own_signaled, sigpend>>
              ELSE /\ own_signaled' = [own_signaled EXCEPT ![v] = TRUE]
                   /\ \E group \in SUBSET (alive \cap lhb_owners) :
                         sigpend' = sigpend \cup group

strayUnchanged == <<lblVars, lrq_owner, lrq_lock, lrq_requested, lrq_state,
                    lrq_ast_routine, lhb_owners, own_pending_request, own_flags,
                    own_semaphore, lhb_active_owner, own_hung, alive, pc, ast, op,
                    lck_physical, crashes>>

(* The walk goes through the requests freed after the one it has lost; an  *)
(* exclusive one that is in the way ends it.                               *)
StrayBlock(o) ==
    /\ lhb_active_owner = o /\ sec.at = "stray"
    /\ freed # <<>>
    /\ LET b == Head(freed)
           bars == b.ast /\ ~ COMPATIBLE(lrq_requested[sec.req], b.level)
       IN  /\ IF bars THEN Notify(b.req, b.victim)
              ELSE UNCHANGED <<lrq_flags, own_blocks, own_signaled, sigpend>>
           /\ IF bars /\ b.level = LCK_EX
              THEN sec' = Release /\ freed' = <<>>
              ELSE freed' = Tail(freed) /\ UNCHANGED sec
    /\ UNCHANGED strayUnchanged

(* Then come the header of lhb_free_requests, taken for a request, and the *)
(* blocks that were free before, round and round until one says it is held *)
(* exclusively.  What is written in those is not modelled: each may be put *)
(* on the queue of any owner, which may have to be purged, and the walk    *)
(* may end with any of them or never.                                      *)
StrayOlder(o) ==
    /\ lhb_active_owner = o /\ sec.at = "stray"
    /\ freed = <<>>
    /\ \E b \in FreeRequests, v \in Owners :
          /\ Notify(b, v)
          /\ sec' \in IF v \in lhb_owners /\ SignalFails(v)
                      THEN {Purge(v, "stray")} ELSE {sec, Release}
    /\ UNCHANGED freed
    /\ UNCHANGED strayUnchanged

StrayInit == Init /\ freed = <<>>

StrayNext ==
    \/ TableStep
    \/ \E o \in Owners : PostBlockLost(o) \/ StrayBlock(o) \/ StrayOlder(o)

StraySpec == StrayInit /\ [][StrayNext]_<<vars, freed>>

(* validate_owner(), at every request on own_blocks: "should not be in     *)
(* loop for freed owner".                                                  *)
FreedOwnerBlocksNobody ==
    \A o \in Owners \ lhb_owners : own_blocks[o] = <<>>

=============================================================================

---------------------------- MODULE EventManager ----------------------------
(***************************************************************************)
(* The event manager (jrd/event.cpp): processes of one machine share a     *)
(* table of events, sessions and requests under one mutex.  A request asks *)
(* to be told when one of its events reaches a count; posting an event     *)
(* raises its count, marks the processes with a satisfied request, and     *)
(* wakes them with a signal; the signal handler (deliver) calls back the   *)
(* owners of the satisfied requests with the new counts.                   *)
(*                                                                         *)
(* POSIX Classic server (neither SERVER nor MULTI_THREAD): a process has   *)
(* one thread, and its signal handler runs on top of it.  A section of the *)
(* table is one step, taken when the mutex is free; acquire(), release()   *)
(* and the signals around it are steps of their own.                       *)
(***************************************************************************)
EXTENDS Integers, FiniteSets

CONSTANTS
    Proc,           \* processes
    Session,        \* session blocks: numbers, in the order of their queue
    Owner,          \* the process of each session
    Event,          \* minor event names
    Major,          \* major event names: one per database
    Parent,         \* the database of each event
    EventBlocks,    \* event blocks clients may pass: sets of events
    Postings,       \* sets of events a transaction may post
    Counts,         \* how often it may post each of them (dfw_count)
    MaxPosts,       \* bound: occurrences of one event
    MaxRequests,    \* bound: evh_request_id
    MaxCrashes,     \* bound: processes that die
    NoProc          \* nobody

ASSUME EventAssumption ==
    /\ Session \subseteq Nat \ {0}
    /\ Owner \in [Session -> Proc]
    /\ Parent \in [Event -> Major]
    /\ EventBlocks \subseteq SUBSET Event
    /\ Postings \subseteq SUBSET Event
    /\ Counts \subseteq Nat \ {0}
    /\ MaxPosts \in Nat /\ MaxRequests \in Nat /\ MaxCrashes \in Nat
    /\ NoProc \notin Proc
    /\ IsFiniteSet(Event) /\ IsFiniteSet(Proc)

VARIABLES
    mutex,          \* the process that holds evh_mutex
    evh_events,     \* count of each minor event that has a block
    evh_majors,     \* count of each major event that has one: its minor events
    evh_request_id,
    requests,       \* session and thresholds (rint_count) of each request
    ses_interests,  \* historical interests of each session there is
    evh_processes,  \* flags of each process that has a block
    alive,          \* processes that run
    acquire_count,
    at, op,         \* where the thread of a process is, and what it does next
    signalled,      \* EVENT_SIGNAL is pending in the kernel
    handler,        \* where the signal handler of a process is
    scan,           \* session it delivers to, 0 outside of its loop
    told,           \* counts the client of a session knows, 0 if none
    posted, seen    \* history: occurrences, and those when a session was told

table == <<evh_events, evh_majors, evh_request_id, requests, ses_interests,
           evh_processes>>
history == <<told, posted, seen>>
threads == <<acquire_count, at, op, signalled, handler, scan>>
vars == <<mutex, table, alive, threads, history>>

RequestIds == 1 .. MaxRequests

NoOp == [kind |-> "none"]
Ops == [kind : {"none", "reacquire", "deliver", "exit", "exited"}]
       \cup [kind : {"create_process", "create_session", "que"},
             ses : Session, events : EventBlocks]
       \cup [kind : {"delete_session"}, ses : Session]
       \cup [kind : {"cancel"}, req : RequestIds]
       \cup [kind : {"post"}, events : SUBSET Event, count : Counts]
       \cup [kind : {"kill"}, proc : Proc]

(* A function on part of a set *)
PartialFcn(f, S, T) == DOMAIN f \subseteq S /\ f \in [DOMAIN f -> T]
Without(f, S) == [x \in DOMAIN f \ S |-> f[x]]

(* The table, the threads and the history have their types. *)
TypeOK ==
    /\ mutex \in Proc \cup {NoProc}
    /\ PartialFcn(evh_events, Event, Nat)
    /\ PartialFcn(evh_majors, Major, Int)
    /\ evh_request_id \in 0 .. MaxRequests
    /\ DOMAIN requests \subseteq RequestIds
    /\ \A r \in DOMAIN requests :
          requests[r].ses \in Session /\ PartialFcn(requests[r].need, Event, Nat)
    /\ PartialFcn(ses_interests, Session, SUBSET Event)
    /\ PartialFcn(evh_processes, Proc, [wakeup : BOOLEAN, pending : BOOLEAN])
    /\ alive \subseteq Proc
    /\ acquire_count \in [Proc -> 0 .. 1]
    /\ at \in [Proc -> {"run", "acquire", "release"}]
    /\ op \in [Proc -> Ops]
    /\ signalled \in [Proc -> BOOLEAN]
    /\ handler \in [Proc -> {"none", "acquire", "release", "ast"}]
    /\ scan \in [Proc -> Session \cup {0}]
    /\ told \in [Session -> [Event -> Nat]]
    /\ posted \in [Event -> Nat] /\ seen \in [Session -> [Event -> Nat]]

-----------------------------------------------------------------------------

sessions == DOMAIN ses_interests
RequestsOf(s) == {r \in DOMAIN requests : requests[r].ses = s}
SessionsOf(p) == {s \in sessions : Owner[s] = p}
Events(r) == DOMAIN requests[r].need

(* request_completed() *)
request_completed(r) == \E e \in Events(r) : requests[r].need[e] <= evh_events[e]

(* What remains in the interest queue of an event without some sessions.   *)
Interested(e, gone) ==
    \/ \E r \in DOMAIN requests : requests[r].ses \notin gone /\ e \in Events(r)
    \/ \E s \in sessions \ gone : e \in ses_interests[s]

(* delete_request(): its interests become historical interests of the      *)
(* session, one for each event, so that the event keeps its count.         *)
Kept_none(r) == ses_interests[requests[r].ses]
Kept(r) == ses_interests[requests[r].ses] \cup Events(r)
delete_request(r) ==
    /\ requests' = Without(requests, {r})
    /\ ses_interests' = [ses_interests EXCEPT ![requests[r].ses] = Kept(r)]

(* delete_event(), for each event of a set: a major event goes with its     *)
(* last minor event.                                                       *)
OfMajor(events, m) == {e \in events : Parent[e] = m}
delete_events(dead) ==
    LET left(m) == evh_majors[m] - Cardinality(OfMajor(dead, m))
    IN  /\ evh_events' = Without(evh_events, dead)
        /\ evh_majors' = [m \in {n \in DOMAIN evh_majors :
                                    OfMajor(dead, n) = {} \/ left(n) # 0} |-> left(m)]

(* delete_session(), for each session of a set: its requests, then its     *)
(* historical interests, and the events that nobody else knows.            *)
HistoryOf(s) == ses_interests[s] \cup UNION {Events(r) : r \in RequestsOf(s)}
Unloved(gone) == {e \in UNION {HistoryOf(s) : s \in gone} : ~ Interested(e, gone)}
Forget(gone) ==
    /\ told' = [s \in Session |-> IF s \in gone THEN [e \in Event |-> 0] ELSE told[s]]
    /\ seen' = [s \in Session |-> IF s \in gone THEN [e \in Event |-> 0] ELSE seen[s]]
    /\ UNCHANGED posted
delete_sessions(gone) ==
    /\ ses_interests' = Without(ses_interests, gone)
    /\ requests' = Without(requests, UNION {RequestsOf(s) : s \in gone})
    /\ delete_events(Unloved(gone))
    /\ Forget(gone)

SessionsOfAll(procs) == UNION {SessionsOf(p) : p \in procs}

-----------------------------------------------------------------------------
(* The sections of the table, each with what its process does next.        *)

Continue(p, next) == op' = [op EXCEPT ![p] = next]

(* create_process(), with probe_processes(): the blocks of dead processes  *)
(* are deleted (delete_process).                                           *)
create_process(p) ==
    LET gone == {q \in DOMAIN evh_processes : q # p /\ q \notin alive}
        block == [wakeup |-> FALSE, pending |-> FALSE]
    IN  /\ op[p].kind = "create_process"
        /\ evh_processes' = [q \in (DOMAIN evh_processes \cup {p}) \ gone |->
                                IF q = p THEN block ELSE evh_processes[q]]
        /\ delete_sessions(SessionsOfAll(gone))
        /\ Continue(p, [op[p] EXCEPT !.kind = "create_session"])
        /\ UNCHANGED evh_request_id

(* EVENT_create_session() *)
create_session(p) ==
    LET s == op[p].ses
    IN  /\ op[p].kind = "create_session"
        /\ ses_interests' = [t \in sessions \cup {s} |->
                                IF t = s THEN {} ELSE ses_interests[t]]
        /\ Continue(p, [op[p] EXCEPT !.kind = "que"])
        /\ UNCHANGED <<evh_events, evh_majors, evh_request_id, requests,
                       evh_processes, history>>

(* EVENT_que(): find_event() or make_event() for each event of the block,  *)
(* and an interest, taken from the historical ones if there is one.  The   *)
(* thresholds are the counts the client was told last.  post_process() of  *)
(* its own process if the request is satisfied already.                    *)
make_events(new) ==
    /\ evh_events' = [e \in DOMAIN evh_events \cup new |->
          IF e \in new THEN 0 ELSE evh_events[e]]
    /\ evh_majors' = [m \in DOMAIN evh_majors \cup {Parent[e] : e \in new} |->
          (IF m \in DOMAIN evh_majors THEN evh_majors[m] ELSE 0)
             + Cardinality(OfMajor(new, m))]
que(p) ==
    LET s == op[p].ses
        events == op[p].events
        r == evh_request_id + 1
        request == [ses |-> s, need |-> [e \in events |-> told[s][e]]]
        flag == \E e \in events : told[s][e] <= evh_events'[e]
    IN  /\ op[p].kind = "que"
        /\ evh_request_id' = r
        /\ requests' = [q \in DOMAIN requests \cup {r} |->
                           IF q = r THEN request ELSE requests[q]]
        /\ ses_interests' = [ses_interests EXCEPT ![s] = @ \ events]
        /\ make_events(events \ DOMAIN evh_events)
        /\ evh_processes' =
              IF flag THEN [evh_processes EXCEPT ![p] = [wakeup |-> FALSE, pending |-> TRUE]]
              ELSE evh_processes
        /\ Continue(p, IF flag THEN [kind |-> "reacquire"] ELSE NoOp)
        /\ UNCHANGED history

(* The end of EVENT_que() after post_process() *)
reacquire(p) ==
    /\ op[p].kind = "reacquire"
    /\ Continue(p, NoOp)
    /\ UNCHANGED <<table, history>>

(* EVENT_cancel(): only requests of the own process are looked at. *)
cancel(p) ==
    LET r == op[p].req
    IN  /\ op[p].kind = "cancel"
        /\ IF r \in DOMAIN requests /\ Owner[requests[r].ses] = p
           THEN delete_request(r)
           ELSE UNCHANGED <<requests, ses_interests>>
        /\ Continue(p, NoOp)
        /\ UNCHANGED <<evh_events, evh_majors, evh_request_id, evh_processes, history>>

(* EVENT_delete_session() *)
delete_session(p) ==
    /\ op[p].kind = "delete_session"
    /\ delete_sessions({op[p].ses})
    /\ Continue(p, NoOp)
    /\ UNCHANGED <<evh_request_id, evh_processes>>

(* EVENT_post(), of the events of a transaction one after the other; the   *)
(* last one is followed by EVENT_deliver().                                *)
Satisfied(e, count) ==
    {r \in DOMAIN requests : e \in Events(r) /\ requests[r].need[e] <= count}
Raised_once(p, e) == evh_events[e] + 1
Raised(p, e) == evh_events[e] + op[p].count
post(p, e) ==
    LET count == Raised(p, e)
        wake == {Owner[requests[r].ses] : r \in Satisfied(e, count)}
        rest == op[p].events \ {e}
    IN  /\ op[p].kind = "post" /\ e \in op[p].events
        /\ posted' = [posted EXCEPT ![e] = @ + op[p].count]
        /\ IF e \in DOMAIN evh_events
           THEN /\ evh_events' = [evh_events EXCEPT ![e] = count]
                /\ evh_processes' = [q \in DOMAIN evh_processes |->
                      [evh_processes[q] EXCEPT !.wakeup = @ \/ q \in wake]]
           ELSE UNCHANGED <<evh_events, evh_processes>>
        /\ Continue(p, IF rest = {} THEN [kind |-> "deliver"]
                       ELSE [op[p] EXCEPT !.events = rest])
        /\ UNCHANGED <<evh_majors, evh_request_id, requests, ses_interests, told, seen>>

(* EVENT_deliver(): post_process() of one process at a time, which leaves  *)
(* the table for the signal and starts over.                               *)
Woken == {q \in DOMAIN evh_processes : evh_processes[q].wakeup}
post_process(p, q) ==
    /\ op[p].kind = "deliver" /\ q \in Woken
    /\ evh_processes' = [evh_processes EXCEPT ![q] = [wakeup |-> FALSE, pending |-> TRUE]]
    /\ Continue(p, IF q = p THEN op[p] ELSE [kind |-> "kill", proc |-> q])
    /\ UNCHANGED <<evh_events, evh_majors, evh_request_id, requests, ses_interests, history>>
all_posted(p) ==
    /\ op[p].kind = "deliver" /\ Woken = {}
    /\ Continue(p, NoOp)
    /\ UNCHANGED <<table, history>>

(* exit_handler(): delete_process() of the own block *)
exit_handler(p) ==
    /\ op[p].kind = "exit"
    /\ evh_processes' = Without(evh_processes, {p})
    /\ delete_sessions(SessionsOf(p))
    /\ Continue(p, [kind |-> "exited"])
    /\ UNCHANGED evh_request_id

Section(p) ==
    \/ create_process(p) \/ create_session(p) \/ que(p) \/ reacquire(p)
    \/ cancel(p) \/ delete_session(p) \/ exit_handler(p) \/ all_posted(p)
    \/ \E e \in Event : post(p, e)
    \/ \E q \in Proc : post_process(p, q)

-----------------------------------------------------------------------------
(* The thread of a process stands still while its signal handler runs.     *)

Runs(p) == p \in alive /\ handler[p] = "none"
Idle(p) == Runs(p) /\ at[p] = "run" /\ op[p] = NoOp

Calls(p, call) ==
    /\ Idle(p)
    /\ Continue(p, call)
    /\ acquire_count' = [acquire_count EXCEPT ![p] = @ + 1]
    /\ at' = [at EXCEPT ![p] = "acquire"]
    /\ UNCHANGED <<mutex, table, alive, signalled, handler, scan, history>>

Queuing(q) == op[q].kind \in {"create_process", "create_session", "que"}

(* GDS_QUE_EVENTS: creates the session of the attachment if there is none. *)
CallQue(p, s, events) ==
    /\ Owner[s] = p
    /\ evh_request_id + Cardinality({q \in alive : Queuing(q)}) < MaxRequests
    /\ s \in sessions \/ \A t \in SessionsOf(p) : t < s
    /\ Calls(p, [kind |-> IF s \in sessions THEN "que"
                          ELSE IF p \in DOMAIN evh_processes THEN "create_session"
                          ELSE "create_process", ses |-> s, events |-> events])

(* GDS_CANCEL_EVENTS; the request may be delivered before it is cancelled. *)
CallCancel(p, r) ==
    /\ r \in DOMAIN requests /\ Owner[requests[r].ses] = p
    /\ Calls(p, [kind |-> "cancel", req |-> r])

(* The attachment ends. *)
CallDelete(p, s) ==
    /\ s \in SessionsOf(p)
    /\ Calls(p, [kind |-> "delete_session", ses |-> s])

(* DFW_perform_post_commit_work() *)
CallPost(p, events, n) ==
    /\ \A e \in events : posted[e] + n <= MaxPosts
    /\ Calls(p, [kind |-> "post", events |-> events, count |-> n])

CallExit(p) ==
    /\ p \in DOMAIN evh_processes
    /\ Calls(p, [kind |-> "exit"])

Call(p) ==
    \/ \E s \in Session, events \in EventBlocks : CallQue(p, s, events)
    \/ \E r \in RequestIds : CallCancel(p, r)
    \/ \E s \in Session : CallDelete(p, s)
    \/ \E events \in Postings, n \in Counts : CallPost(p, events, n)
    \/ CallExit(p)

(* acquire() in the middle of a call: the count goes up before the          *)
(* semaphore is had.                                                       *)
acquire(p) ==
    /\ Runs(p) /\ at[p] = "run" /\ op[p].kind \notin {"none", "kill", "exited"}
    /\ acquire_count' = [acquire_count EXCEPT ![p] = @ + 1]
    /\ at' = [at EXCEPT ![p] = "acquire"]
    /\ UNCHANGED <<mutex, table, alive, op, signalled, handler, scan, history>>

(* The semaphore is had: the section, up to the decrement in release()     *)
Acquired(p) ==
    /\ Runs(p) /\ at[p] = "acquire" /\ mutex = NoProc
    /\ Section(p)
    /\ mutex' = p
    /\ acquire_count' = [acquire_count EXCEPT ![p] = @ - 1]
    /\ at' = [at EXCEPT ![p] = "release"]
    /\ UNCHANGED <<alive, signalled, handler, scan>>

(* release(): the mutex is unlocked, and a wakeup that came while the      *)
(* count was up is signalled again.  (One step: whoever sets the flag      *)
(* after the unlock sends the signal as well.)  A signal to oneself is     *)
(* handled at once.                                                        *)
Pending_never(p) == FALSE
Pending(p) == p \in DOMAIN evh_processes /\ evh_processes[p].pending
EnterHandler(p) ==
    /\ signalled' = [signalled EXCEPT ![p] = FALSE]
    /\ acquire_count' = [acquire_count EXCEPT ![p] = @ + 1]
    /\ handler' = [handler EXCEPT ![p] = "acquire"]
release(p) ==
    /\ Runs(p) /\ at[p] = "release"
    /\ mutex' = NoProc
    /\ at' = [at EXCEPT ![p] = "run"]
    /\ IF Pending(p) THEN EnterHandler(p)
       ELSE UNCHANGED <<signalled, acquire_count, handler>>
    /\ alive' = IF op[p].kind = "exited" THEN alive \ {p} ELSE alive
    /\ UNCHANGED <<table, op, scan, history>>

(* post_process(): ISC_kill() *)
ISC_kill(p) ==
    /\ Runs(p) /\ at[p] = "run" /\ op[p].kind = "kill"
    /\ signalled' = [signalled EXCEPT ![op[p].proc] = @ \/ op[p].proc \in alive]
    /\ Continue(p, [kind |-> "deliver"])
    /\ UNCHANGED <<mutex, table, alive, acquire_count, at, handler, scan, history>>

-----------------------------------------------------------------------------
(* The signal handler.  The signal is blocked while it runs.               *)

(* deliver(): leaves at once if its process uses the table. *)
HandleSignal_always(p) ==
    /\ Runs(p) /\ signalled[p]
    /\ EnterHandler(p)
    /\ UNCHANGED <<mutex, table, alive, at, op, scan, history>>
HandleSignal(p) ==
    /\ Runs(p) /\ signalled[p]
    /\ IF acquire_count[p] = 0 THEN EnterHandler(p)
       ELSE /\ signalled' = [signalled EXCEPT ![p] = FALSE]
            /\ UNCHANGED <<acquire_count, handler>>
    /\ UNCHANGED <<mutex, table, alive, at, op, scan, history>>

(* deliver(): the sessions in their order, each until none of its requests *)
(* is satisfied; deliver_request() of the first that is, in the order of   *)
(* their queue, which is that of their numbers.                            *)
Least(S) == CHOOSE i \in S : \A j \in S : i <= j
Ready(p) ==
    {s \in SessionsOf(p) : s >= scan[p] /\ \E r \in RequestsOf(s) : request_completed(r)}
deliver_request_kept(p, s) ==
    /\ scan' = [scan EXCEPT ![p] = s]
    /\ UNCHANGED <<requests, ses_interests, told, seen>>
deliver_request(p, s) ==
    LET r == Least({q \in RequestsOf(s) : request_completed(q)})
        events == Events(r)
    IN  /\ scan' = [scan EXCEPT ![p] = s]
        /\ delete_request(r)
        /\ told' = [told EXCEPT ![s] =
              [e \in Event |-> IF e \in events THEN evh_events[e] + 1 ELSE @[e]]]
        /\ seen' = [seen EXCEPT ![s] =
              [e \in Event |-> IF e \in events THEN posted[e] ELSE @[e]]]
deliver(p) ==
    /\ p \in alive /\ handler[p] = "acquire" /\ mutex = NoProc
    /\ mutex' = p
    /\ acquire_count' = [acquire_count EXCEPT ![p] = @ - 1]
    /\ handler' = [handler EXCEPT ![p] = "release"]
    /\ evh_processes' = [evh_processes EXCEPT ![p].pending = @ /\ scan[p] # 0]
    /\ IF Ready(p) # {} THEN deliver_request(p, Least(Ready(p)))
       ELSE /\ scan' = [scan EXCEPT ![p] = 0]
            /\ UNCHANGED <<requests, ses_interests, told, seen>>
    /\ UNCHANGED <<evh_events, evh_majors, evh_request_id, alive, at, op, signalled, posted>>

(* The signal of its own release() stays pending until the handler is done, *)
(* and is then handled at once.                                            *)
deliver_release(p) ==
    /\ p \in alive /\ handler[p] = "release"
    /\ mutex' = NoProc
    /\ IF scan[p] = 0 /\ (signalled[p] \/ Pending(p)) THEN EnterHandler(p)
       ELSE /\ signalled' = [signalled EXCEPT ![p] = @ \/ Pending(p)]
            /\ handler' = [handler EXCEPT ![p] = IF scan[p] = 0 THEN "none" ELSE "ast"]
            /\ UNCHANGED acquire_count
    /\ UNCHANGED <<table, alive, at, op, scan, history>>

(* The callback returns, and the handler acquires the table again. *)
ast_returns(p) ==
    /\ p \in alive /\ handler[p] = "ast"
    /\ acquire_count' = [acquire_count EXCEPT ![p] = @ + 1]
    /\ handler' = [handler EXCEPT ![p] = "acquire"]
    /\ UNCHANGED <<mutex, table, alive, at, op, signalled, scan, history>>

Delivering(p) == op[p].kind \in {"post", "deliver", "kill"}

(* A process dies; the kernel undoes its semaphore operations (SEM_UNDO).  *)
Crash(p) ==
    /\ p \in alive /\ Cardinality(Proc \ alive) < MaxCrashes
    /\ alive' = alive \ {p}
    /\ mutex' = IF mutex = p THEN NoProc ELSE mutex
    /\ acquire_count' = [acquire_count EXCEPT ![p] = 0]
    /\ signalled' = [signalled EXCEPT ![p] = FALSE]
    /\ handler' = [handler EXCEPT ![p] = "none"]
    /\ scan' = [scan EXCEPT ![p] = 0]
    /\ at' = [at EXCEPT ![p] = "run"]
    /\ op' = [op EXCEPT ![p] = IF Delivering(p) THEN @ ELSE NoOp]
    /\ UNCHANGED <<table, history>>

-----------------------------------------------------------------------------

Init ==
    /\ mutex = NoProc
    /\ evh_events = << >> /\ evh_majors = << >>
    /\ evh_request_id = 0 /\ requests = << >>
    /\ ses_interests = << >> /\ evh_processes = << >>
    /\ alive = Proc
    /\ acquire_count = [p \in Proc |-> 0]
    /\ at = [p \in Proc |-> "run"] /\ op = [p \in Proc |-> NoOp]
    /\ signalled = [p \in Proc |-> FALSE]
    /\ handler = [p \in Proc |-> "none"] /\ scan = [p \in Proc |-> 0]
    /\ told = [s \in Session |-> [e \in Event |-> 0]]
    /\ posted = [e \in Event |-> 0]
    /\ seen = [s \in Session |-> [e \in Event |-> 0]]

Thread(p) == acquire(p) \/ Acquired(p) \/ release(p) \/ ISC_kill(p)
Handler(p) ==
    HandleSignal(p) \/ deliver(p) \/ deliver_release(p) \/ ast_returns(p)

Next == \E p \in Proc : Call(p) \/ Thread(p) \/ Handler(p) \/ Crash(p)

Spec == Init /\ [][Next]_vars

(* Processes are scheduled and signals arrive; the kernel serves those who  *)
(* wait for a semaphore in their order, so nobody is overtaken for ever.   *)
Fairness ==
    \A p \in Proc :
       /\ WF_vars(Thread(p)) /\ WF_vars(Handler(p))
       /\ SF_vars(Acquired(p)) /\ SF_vars(deliver(p))

FairSpec == Spec /\ Fairness

-----------------------------------------------------------------------------

(* The occurrences a client computes from two counts it was told, or would *)
(* be told now, are those there were: an event a live session knows is     *)
(* never forgotten, whoever else drops it (delete_request, delete_session).*)
ExactCounts ==
    \A s \in sessions, e \in Event :
       told[s][e] # 0 =>
          /\ e \in DOMAIN evh_events
          /\ evh_events[e] + 1 - told[s][e] = posted[e] - seen[s][e]

(* An event has a block exactly as long as some session is interested in   *)
(* it, a major event as long as it has minor ones, and counts them: no     *)
(* interest dangles after a session or a process is deleted, none leaks.   *)
BlocksExact ==
    /\ DOMAIN evh_events = {e \in Event : Interested(e, {})}
    /\ DOMAIN evh_majors = {Parent[e] : e \in DOMAIN evh_events}
    /\ \A m \in DOMAIN evh_majors :
          evh_majors[m] = Cardinality(OfMajor(DOMAIN evh_events, m))
    /\ \A r \in DOMAIN requests : requests[r].ses \in sessions
    /\ \A s \in sessions : Owner[s] \in DOMAIN evh_processes

(* Somebody is about to deliver, or died before it did. *)
WakeupEntrusted == \E q \in Proc : Delivering(q)
KillEntrusted(p) == \E q \in Proc : op[q] = [kind |-> "kill", proc |-> p]

(* The process p will look at session s: it is marked for a process that   *)
(* will deliver, or signalled, or its handler runs and is not past it, or  *)
(* it has still to do a release().                                         *)
Tended(p, s) ==
    \/ evh_processes[p].wakeup /\ WakeupEntrusted
    \/ /\ evh_processes[p].pending
       /\ signalled[p] \/ at[p] # "run" \/ handler[p] # "none" \/ KillEntrusted(p)
    \/ handler[p] # "none" /\ scan[p] # 0 /\ scan[p] <= s

(* No wakeup is lost: however EVENT_que, EVENT_post, the signals and the   *)
(* handlers interleave, a live process with a satisfied request will come  *)
(* to look at it.                                                          *)
NoLostWakeup ==
    \A r \in DOMAIN requests :
       LET s == requests[r].ses
       IN  Owner[s] \in alive /\ request_completed(r) => Tended(Owner[s], s)

(* A handler waits for the semaphore its own thread holds: the signal came *)
(* between the decrement and ISC_mutex_unlock() of release().              *)
Stuck == \E p \in Proc : handler[p] = "acquire" /\ mutex = p

(* A satisfied request is delivered or withdrawn, if processes neither die *)
(* nor get stuck in release().                                             *)
Delivered ==
    \A r \in RequestIds :
       (r \in DOMAIN requests /\ request_completed(r)) ~>
          (r \notin DOMAIN requests \/ Stuck \/ alive # Proc)

(* "Release exclusive control of shared global region" (release): a        *)
(* process that holds the table gives it up.                               *)
ReleaseReleases == \A p \in Proc : (mutex = p) ~> (mutex # p)

-----------------------------------------------------------------------------
(* What else holds between two steps, and makes the invariants inductive.  *)

(* A client that was told a count has an interest, current or historical,  *)
(* in the event, and the counts are exact; a session that is not there has *)
(* been told nothing.                                                      *)
Knows(s, e) == e \in HistoryOf(s)
CountsKept ==
    \A s \in Session, e \in Event :
       told[s][e] # 0 =>
          /\ s \in sessions /\ Knows(s, e)
          /\ evh_events[e] + 1 - told[s][e] = posted[e] - seen[s][e]

(* Request numbers are given out in order, and each call of EVENT_que()    *)
(* under way has one left.                                                 *)
NumbersLeft ==
    /\ DOMAIN requests \subseteq 1 .. evh_request_id
    /\ evh_request_id + Cardinality({q \in alive : Queuing(q)}) <= MaxRequests

(* The count of a process is up exactly while it waits for the semaphore,  *)
(* in its thread or in its handler, never in both.                         *)
ThreadsCounted ==
    \A p \in Proc :
       /\ acquire_count[p] = IF at[p] = "acquire" \/ handler[p] = "acquire" THEN 1 ELSE 0
       /\ at[p] = "acquire" => handler[p] = "none"
       /\ handler[p] = "none" => scan[p] = 0

(* What a process is about to do fits the table: nobody else creates or    *)
(* deletes its block and its sessions as long as it lives.                 *)
Fits(p) ==
    /\ Queuing(p) \/ op[p].kind = "delete_session" => Owner[op[p].ses] = p
    /\ op[p].kind = "create_process" => p \notin DOMAIN evh_processes
    /\ op[p].kind = "create_session" =>
          p \in DOMAIN evh_processes /\ op[p].ses \notin sessions
    /\ op[p].kind \in {"que", "delete_session"} => op[p].ses \in sessions
CallsFit == \A p \in alive : Fits(p)

IInv ==
    /\ TypeOK /\ BlocksExact /\ CountsKept /\ NumbersLeft
    /\ ThreadsCounted /\ CallsFit /\ NoLostWakeup
=============================================================================

------------------------------ MODULE LockData ------------------------------
(***************************************************************************)
(* The longword each lock of the table carries (lbl_data), and the queue   *)
(* per lock series that answers aggregate queries about it (lock/lock.cpp  *)
(* insert_data_que, LOCK_write_data, LOCK_query_data).                     *)
(*                                                                         *)
(* The engine keeps the oldest active transaction of every transaction in  *)
(* the data of its lock, and starts a transaction with the minimum over    *)
(* all of them (jrd/tra.cpp): what is older may be garbage collected.      *)
(*                                                                         *)
(* Every operation is one section of the lock table, hence one step.  Who  *)
(* may hold a lock is the subject of LockTable; here a request is granted  *)
(* or pending, and carries the data it will write when granted (lrq_data). *)
(***************************************************************************)
EXTENDS Integers, Sequences, FiniteSets

CONSTANTS
    Blocks,         \* lock blocks
    Roots,          \* locks that are parents of others, one per database
    Series,         \* lock series
    QueuedSeries,   \* those below LCK_MAX_SERIES
    Keys,           \* lock keys
    Data,           \* longwords
    MaxRequests,    \* bound: requests in the table
    NoRoot,         \* no parent
    NoName          \* the name of a free block

Names == [parent : Roots \cup {NoRoot}, series : Series, key : Keys]

ASSUME DataAssumption ==
    /\ QueuedSeries \subseteq Series
    /\ NoRoot \notin Roots
    /\ NoName \notin Names
    /\ Data \subseteq Int /\ 0 \in Data
    /\ MaxRequests \in Nat

VARIABLES
    lbl_name,       \* parent, series and key of each block
    lbl_data,
    granted,        \* number of granted requests of each lock
    lrq_data,       \* the data of its pending requests, in their order
    lhb_data        \* the data queue of each series

vars == <<lbl_name, lbl_data, granted, lrq_data, lhb_data>>

(* Blocks, requests and queues have their types. *)
TypeOK ==
    /\ lbl_name \in [Blocks -> Names \cup {NoName}]
    /\ lbl_data \in [Blocks -> Data]
    /\ granted \in [Blocks -> Nat]
    /\ lrq_data \in [Blocks -> Seq(Data)]
    /\ lhb_data \in [QueuedSeries -> Seq(Blocks)]

-----------------------------------------------------------------------------

Members(q) == {q[i] : i \in 1 .. Len(q)}

Used(l) == lbl_name[l] # NoName

(* find_lock(): the block of a name, if there is one *)
find_lock(name) == {l \in Blocks : lbl_name[l] = name}

Without(q, i) == [j \in 1 .. Len(q) - 1 |-> IF j < i THEN q[j] ELSE q[j + 1]]

(* remove_que(): nothing happens to a block that is on no queue. *)
remove_que(q, l) ==
    IF l \notin Members(q) THEN q
    ELSE LET p == CHOOSE i \in 1 .. Len(q) : q[i] = l
         IN  Without(q, p)

Before(q, p, l) ==
    [i \in 1 .. Len(q) + 1 |-> IF i < p THEN q[i] ELSE IF i = p THEN l ELSE q[i - 1]]

(* The walk of insert_data_que() stops at a lock of the same parent with   *)
(* data that is not smaller.                                               *)
StopsAt_otherParent(q, i, names, data, l) ==
    names[q[i]].parent # names[l].parent \/ data[l] <= data[q[i]]
StopsAt(q, i, names, data, l) ==
    names[q[i]].parent = names[l].parent /\ data[l] <= data[q[i]]

Place(q, names, data, l) ==
    CHOOSE p \in 1 .. Len(q) + 1 :
       /\ p = Len(q) + 1 \/ StopsAt(q, p, names, data, l)
       /\ \A i \in 1 .. p - 1 : ~ StopsAt(q, i, names, data, l)

(* insert_data_que(): locks without data, without a parent or of a series  *)
(* without a queue are on none.                                            *)
Queueable(names, data, l) ==
    /\ names[l].series \in QueuedSeries
    /\ names[l].parent # NoRoot
    /\ data[l] # 0

insert_data_que(queues, names, data, l) ==
    IF Queueable(names, data, l)
    THEN [queues EXCEPT ![names[l].series] =
             Before(@, Place(@, names, data, l), l)]
    ELSE queues

Removed_kept(l) == lhb_data
Removed(l) ==
    IF lbl_name[l].series \in QueuedSeries
    THEN [lhb_data EXCEPT ![lbl_name[l].series] = remove_que(@, l)]
    ELSE lhb_data

(* The new data of a lock, with its place in the queue. *)
SetData(l, d) ==
    /\ lbl_data' = [lbl_data EXCEPT ![l] = d]
    /\ lhb_data' = insert_data_que(Removed(l), lbl_name, lbl_data', l)

(* grant(): a request writes its data once, zero means none. *)
Grant(l, d) ==
    IF d # 0 THEN SetData(l, d) ELSE UNCHANGED <<lbl_data, lhb_data>>

-----------------------------------------------------------------------------
(* Bound: the requests there are, granted or pending. *)
Room ==
    LET requests == UNION {{l} \X (1 .. granted[l] + Len(lrq_data[l])) : l \in Blocks}
    IN  Cardinality(requests) < MaxRequests

(* LOCK_enq() of a lock that does not exist: granted at once *)
EnqNew(l, name, d) ==
    /\ ~ Used(l) /\ find_lock(name) = {} /\ Room
    /\ lbl_name' = [lbl_name EXCEPT ![l] = name]
    /\ lbl_data' = [lbl_data EXCEPT ![l] = d]
    /\ lhb_data' = insert_data_que(lhb_data, lbl_name', lbl_data', l)
    /\ granted' = [granted EXCEPT ![l] = 1]
    /\ UNCHANGED lrq_data

(* LOCK_enq() of an existing lock: granted or queued *)
EnqGranted(l, d) ==
    /\ Used(l) /\ Room
    /\ Grant(l, d)
    /\ granted' = [granted EXCEPT ![l] = @ + 1]
    /\ UNCHANGED <<lbl_name, lrq_data>>

EnqWaits(l, d) ==
    /\ Used(l) /\ Room
    /\ lrq_data' = [lrq_data EXCEPT ![l] = Append(@, d)]
    /\ UNCHANGED <<lbl_name, lbl_data, granted, lhb_data>>

(* post_pending(); which request it grants is the subject of LockTable. *)
PostPending(l, i) ==
    /\ i \in 1 .. Len(lrq_data[l])
    /\ Grant(l, lrq_data[l][i])
    /\ lrq_data' = [lrq_data EXCEPT ![l] = Without(@, i)]
    /\ granted' = [granted EXCEPT ![l] = @ + 1]
    /\ UNCHANGED lbl_name

(* release_request() of the last request frees the block. *)
FreeIfUnused(l) ==
    IF granted'[l] = 0 /\ lrq_data'[l] = <<>>
    THEN /\ lhb_data' = Removed(l)
         /\ lbl_name' = [lbl_name EXCEPT ![l] = NoName]
    ELSE UNCHANGED <<lhb_data, lbl_name>>

LOCK_deq(l) ==
    /\ granted[l] > 0
    /\ granted' = [granted EXCEPT ![l] = @ - 1]
    /\ UNCHANGED <<lrq_data, lbl_data>>
    /\ FreeIfUnused(l)

(* a pending request that is given up *)
Rejected(l, i) ==
    /\ i \in 1 .. Len(lrq_data[l])
    /\ lrq_data' = [lrq_data EXCEPT ![l] = Without(@, i)]
    /\ UNCHANGED <<granted, lbl_data>>
    /\ FreeIfUnused(l)

LOCK_write_data(l, d) ==
    /\ granted[l] > 0
    /\ SetData(l, d)
    /\ UNCHANGED <<lbl_name, granted, lrq_data>>

-----------------------------------------------------------------------------
(* Queries; they change nothing. *)

LOCK_read_data2(name) ==
    LET found == find_lock(name)
    IN  IF found = {} THEN 0 ELSE lbl_data[CHOOSE l \in found : TRUE]

(* the places in the queue of a series that belong to a root *)
Walk(root, s) ==
    {i \in 1 .. Len(lhb_data[s]) : lbl_name[lhb_data[s][i]].parent = root}

QueryMin(root, s) ==
    LET W == Walk(root, s)
    IN  IF W = {} THEN 0
        ELSE lbl_data[lhb_data[s][CHOOSE i \in W : \A j \in W : i <= j]]

QueryMax(root, s) ==
    LET W == Walk(root, s)
    IN  IF W = {} THEN 0
        ELSE lbl_data[lhb_data[s][CHOOSE i \in W : \A j \in W : j <= i]]

QueryCnt(root, s) == Cardinality(Walk(root, s))

QueryAny(root, s) == IF Walk(root, s) = {} THEN 0 ELSE 1

-----------------------------------------------------------------------------

Init ==
    /\ lbl_name = [l \in Blocks |-> NoName]
    /\ lbl_data = [l \in Blocks |-> 0]
    /\ granted = [l \in Blocks |-> 0]
    /\ lrq_data = [l \in Blocks |-> <<>>]
    /\ lhb_data = [s \in QueuedSeries |-> <<>>]

Next ==
    \E l \in Blocks :
       \/ \E d \in Data :
             \/ \E name \in Names : EnqNew(l, name, d)
             \/ EnqGranted(l, d) \/ EnqWaits(l, d) \/ LOCK_write_data(l, d)
       \/ LOCK_deq(l)
       \/ \E i \in 1 .. MaxRequests : PostPending(l, i) \/ Rejected(l, i)

Spec == Init /\ [][Next]_vars

-----------------------------------------------------------------------------
(* Properties. *)

(* the names under a root whose data, read one by one, is not zero *)
Present(root, s) ==
    {n \in Names : n.parent = root /\ n.series = s /\ LOCK_read_data2(n) # 0}

(* LOCK_query_data stops at the first lock of the root, from either end of *)
(* the queue, and what it returns bounds what LOCK_read_data2 returns for  *)
(* any name: nothing older than the minimum TRA_start computes its oldest  *)
(* snapshot from is needed by any transaction.                             *)
ExtremesExact ==
    \A root \in Roots, s \in QueuedSeries :
       IF Present(root, s) = {}
       THEN QueryMin(root, s) = 0 /\ QueryMax(root, s) = 0
       ELSE /\ \E n \in Present(root, s) : QueryMin(root, s) = LOCK_read_data2(n)
            /\ \E n \in Present(root, s) : QueryMax(root, s) = LOCK_read_data2(n)
            /\ \A n \in Present(root, s) :
                  /\ QueryMin(root, s) <= LOCK_read_data2(n)
                  /\ LOCK_read_data2(n) <= QueryMax(root, s)

(* Each lock with data is counted once, and none that has been freed: so   *)
(* TRA_active_transactions says yes exactly if a transaction lock has data.*)
CountExact ==
    \A root \in Roots, s \in QueuedSeries :
       /\ QueryCnt(root, s) = Cardinality(Present(root, s))
       /\ QueryAny(root, s) = 1 <=> Present(root, s) # {}

(* A block has a name as long as it has requests, and no other has it. *)
NamesExact ==
    \A l \in Blocks :
       /\ Used(l) <=> granted[l] + Len(lrq_data[l]) > 0
       /\ Used(l) => find_lock(lbl_name[l]) = {l}

(* The queue of a series holds the locks with data, each once, those of a  *)
(* root in the order of their data.                                        *)
Once(q) == \A i, j \in 1 .. Len(q) : q[i] = q[j] => i = j

Ordered(q, names, data) ==
    \A i, j \in 1 .. Len(q) :
       i < j /\ names[q[i]].parent = names[q[j]].parent =>
          data[q[i]] <= data[q[j]]

OnQueue(l, s, names, data) ==
    /\ names[l] # NoName
    /\ names[l].series = s
    /\ Queueable(names, data, l)

QueueExact ==
    \A s \in QueuedSeries :
       /\ Once(lhb_data[s])
       /\ Ordered(lhb_data[s], lbl_name, lbl_data)
       /\ Members(lhb_data[s]) =
             {l \in Blocks : OnQueue(l, s, lbl_name, lbl_data)}

IInv == TypeOK /\ NamesExact /\ QueueExact
=============================================================================

------------------------------ MODULE PageCache ------------------------------
(***************************************************************************)
(* The page cache of the Classic server, jrd/cch.cpp built without         *)
(* SUPERSERVER and without PAGE_LATCHING.  Every process keeps buffers of  *)
(* its own (BDBs), protects each with a page lock of the lock manager, and *)
(* writes a page only after the pages it refers to (careful writing, the   *)
(* precedence graph), so that the database file is consistent whenever a   *)
(* process dies.  A blocking AST, a signal handler, may run down_grade()   *)
(* between any two steps of the main thread of its process.                *)
(*                                                                         *)
(* What a page holds is the set of changes made to it; a change carries    *)
(* the changes of other pages it refers to.                                *)
(***************************************************************************)
EXTENDS Naturals, FiniteSets, Sequences

CONSTANTS
    Proc,         \* the attached processes
    Page,         \* page numbers
    Tra,          \* transactions
    TraOf,        \* the transactions of each process
    MustWrite,    \* pages that are marked with CCH_mark_must_write as well
    Buffers,      \* buffers in the cache of a process (bcb_count)
    MaxWindows,   \* bound: pages a process holds at a time
    MaxFetches,   \* bound: CCH_fetch calls of each process
    MaxChanges,   \* bound: changes made to pages
    MaxFailures,  \* bound: failed PIO_read and PIO_write calls
    MaxCrashes    \* bound: processes that die

ASSUME PageCacheAssumption ==
    /\ Page \subseteq Nat /\ MustWrite \subseteq Page
    /\ TraOf \in [Proc -> SUBSET Tra]
    /\ \A p, q \in Proc : p # q => TraOf[p] \cap TraOf[q] = {}
    /\ {Buffers, MaxWindows, MaxChanges, MaxFailures, MaxCrashes} \subseteq Nat
    /\ MaxFetches \in [Proc -> Nat]

VARIABLES
    disk,             \* the database file: the changes each page holds
    changes,          \* every change made: its page, transaction and references
    lost,             \* changes dropped because their page could not be written
    tra_invalidated,  \* transactions with TRA_invalidated
    committing,       \* transactions past the test at the head of TRA_commit
    committed,        \* transactions whose CCH_flush returned
    bdb,              \* the buffers of each process
    pre, cleared,     \* its precedence blocks <<high, low>>: in force, PRE_cleared
    windows,          \* pages its main thread holds between fetch and release
    refers,           \* what the next change of a held page will refer to
    main,             \* where its main thread is
    stack,            \* pages under write_buffer() in its main thread
    ast,              \* frames of down_grade() in its signal handler
    posted,           \* pages whose blocking AST is to be delivered
    alive, fetches, failures

file  == <<disk, changes, lost, tra_invalidated, committing, committed>>
cache == <<bdb, pre, cleared, posted>>
vars  == <<file, cache, windows, refers, main, stack, ast, alive, fetches, failures>>

LCK_none == 0
LCK_read == 1
LCK_write == 2

Flag == {"cached", "dirty", "writer", "marked", "must_write", "not_valid", "blocking"}

(* A buffer: its contents, bdb_flags and bdb_ast_flags, bdb_transactions,  *)
(* bdb_use_count and the level of bdb_lock.                                *)
Empty == [data |-> {}, flags |-> {}, transactions |-> {}, use |-> 0, lock |-> LCK_none]

Idle == [at |-> "idle"]

Init ==
    /\ disk = [pg \in Page |-> {}]
    /\ changes = <<>>
    /\ lost = {} /\ tra_invalidated = {} /\ committing = {} /\ committed = {}
    /\ bdb = [p \in Proc |-> [pg \in Page |-> Empty]]
    /\ pre = [p \in Proc |-> {}] /\ cleared = [p \in Proc |-> {}]
    /\ windows = [p \in Proc |-> {}]
    /\ refers = [p \in Proc |-> [pg \in Page |-> {}]]
    /\ main = [p \in Proc |-> Idle]
    /\ stack = [p \in Proc |-> <<>>]
    /\ ast = [p \in Proc |-> <<>>]
    /\ posted = [p \in Proc |-> {}]
    /\ alive = Proc
    /\ fetches = [p \in Proc |-> 0] /\ failures = 0

-----------------------------------------------------------------------------
(* Operators on the buffers b of one process *)

Has(b, pg, f) == f \in b[pg].flags
Set(b, pg, fs) == [b EXCEPT ![pg].flags = @ \cup fs]
Clear(b, pg, fs) == [b EXCEPT ![pg].flags = @ \ fs]

latch_bdb_none(b, pg) == b
latch_bdb(b, pg) == [b EXCEPT ![pg].use = @ + 1]
release_bdb(b, pg) == [b EXCEPT ![pg].use = @ - 1]

Cached(b) == {pg \in Page : Has(b, pg, "cached")}

(* PAGE_LOCK_RE_POST of the free pages among pgs that block somebody. *)
RePost(b, pgs) == {pg \in pgs : Has(b, pg, "blocking")}
RePostFree(b, pgs) == {pg \in RePost(b, pgs) : b[pg].use = 0}

write_page(b, pg) ==
    [b EXCEPT ![pg].flags = @ \ {"dirty", "must_write"}, ![pg].transactions = {}]

-----------------------------------------------------------------------------
(* The precedence graph *)

Higher(p, pg) == {hi \in Page : <<hi, pg>> \in pre[p]}
Lower(p, pg) == {lo \in Page : <<pg, lo>> \in pre[p]}
AllHigher(p, pg) == {hi \in Page : <<hi, pg>> \in pre[p] \cup cleared[p]}
AllLower(p, pg) == {lo \in Page : <<pg, lo>> \in pre[p] \cup cleared[p]}

(* The pages that must be written before pg, directly or not: in every     *)
(* set of pages that holds the higher pages of pg and of its own members.  *)
Above(p, pg) ==
    {q \in Page : \A S \in SUBSET Page :
        (\A x \in S \cup {pg} : Higher(p, x) \subseteq S) => q \in S}

related(p, low, high) == high \in Above(p, low)

writeable(p, pg) ==
    \A q \in {pg} \cup Above(p, pg) : ~Has(bdb[p], q, "marked")

(* The precedence blocks of process p once those below pg are freed. *)
clear_precedence(p, pg) ==
    /\ pre' = [pre EXCEPT ![p] = {e \in @ : e[1] # pg}]
    /\ cleared' = [cleared EXCEPT ![p] = {e \in @ : e[1] # pg}]

-----------------------------------------------------------------------------
(* The lock manager, by what it promises: a lock is granted when no other  *)
(* process holds an incompatible one, and every holder in the way is sent  *)
(* a blocking AST.                                                         *)

Compatible(l, m) == l = LCK_none \/ m = LCK_none \/ (l = LCK_read /\ m = LCK_read)

(* CCH_fetch asks for the lock of the page: a buffer without one waits for *)
(* it; one with a lock asks for its conversion without waiting, and when   *)
(* that is denied gives the lock up and waits.                             *)
Asking == {"convert", "denied", "wait"}
Asks(p) == p \in alive /\ main[p].at \in Asking
Waits(p) == p \in alive /\ main[p].at = "wait"

Conflicts(p, q) ==
    /\ q # p
    /\ ~Compatible(main[p].level, bdb[q][main[p].page].lock)

(* The level LCK_downgrade leaves to p: the highest not above the one it   *)
(* holds that every waiting request is compatible with.                    *)
LCK_downgrade(p, pg, held) ==
    LET wanted == {main[q].level : q \in {r \in Proc \ {p} : Waits(r) /\ main[r].page = pg}}
    IN  CHOOSE l \in 0..held :
            /\ \A w \in wanted : Compatible(l, w)
            /\ \A m \in 0..held : (\A w \in wanted : Compatible(m, w)) => m <= l

(* post_blockage: the AST of a lock in the way is posted, and posted again *)
(* while the request waits.                                                *)
post_blockage(p, q) ==
    /\ Waits(p) /\ q \in alive /\ Conflicts(p, q)
    /\ main[p].page \notin posted[q]
    /\ ~Has(bdb[q], main[p].page, "blocking")
    /\ posted' = [posted EXCEPT ![q] = @ \cup {main[p].page}]
    /\ UNCHANGED <<file, bdb, pre, cleared, windows, refers, main, stack, ast, alive, fetches, failures>>

(* A set of waiting processes each of which waits for another of them that *)
(* has seen its AST and kept the lock.                                     *)
Deadlocked(p) ==
    \E S \in SUBSET Proc :
        /\ p \in S
        /\ \A q \in S :
            /\ Waits(q)
            /\ \E r \in S : /\ Conflicts(q, r)
                            /\ main[q].page \notin posted[r]
                            /\ Has(bdb[r], main[q].page, "blocking")

-----------------------------------------------------------------------------
(* Errors and the end of a process *)

Calm(p) == p \in alive /\ ast[p] = <<>>
Ready(p) == Calm(p) /\ stack[p] = <<>>

(* The process is gone, or has bugchecked: then down_grade() gives its     *)
(* locks away and writes nothing.                                          *)
Gone(p) ==
    /\ alive' = alive \ {p}
    /\ bdb' = [bdb EXCEPT ![p] = [pg \in Page |-> Empty]]
    /\ pre' = [pre EXCEPT ![p] = {}]
    /\ cleared' = [cleared EXCEPT ![p] = {}]
    /\ posted' = [posted EXCEPT ![p] = {}]
    /\ windows' = [windows EXCEPT ![p] = {}]
    /\ refers' = [refers EXCEPT ![p] = [pg \in Page |-> {}]]
    /\ main' = [main EXCEPT ![p] = Idle]
    /\ stack' = [stack EXCEPT ![p] = <<>>]
    /\ ast' = [ast EXCEPT ![p] = <<>>]
    /\ committing' = committing \ TraOf[p]
    /\ UNCHANGED <<disk, changes, lost, tra_invalidated, committed, fetches>>

Crash(p) ==
    /\ p \in alive
    /\ Cardinality(Proc \ alive) < MaxCrashes
    /\ Gone(p)
    /\ UNCHANGED failures

(* CCH_unwind: every buffer in use is released; one that is marked is a    *)
(* bugcheck.  ERR_punt then ends the call the main thread is in.           *)
Unwind(p, b) ==
    LET inUse == {pg \in Page : b[pg].use > 0} IN
    \/ /\ \E pg \in inUse : Has(b, pg, "marked")
       /\ Gone(p)
    \/ /\ \A pg \in inUse : ~Has(b, pg, "marked")
       /\ bdb' = [bdb EXCEPT ![p] = [pg \in Page |->
                    [b[pg] EXCEPT !.flags = @ \ {"writer"}, !.use = 0]]]
       /\ posted' = [posted EXCEPT ![p] = @ \cup RePost(b, inUse)]
       /\ windows' = [windows EXCEPT ![p] = {}]
       /\ refers' = [refers EXCEPT ![p] = [pg \in Page |-> {}]]
       /\ main' = [main EXCEPT ![p] = Idle]
       /\ stack' = [stack EXCEPT ![p] = <<>>]
       /\ committing' = committing \ TraOf[p]
       /\ UNCHANGED <<disk, changes, lost, tra_invalidated, committed, pre, cleared, ast, alive, fetches>>

IOFails == failures < MaxFailures /\ failures' = failures + 1

-----------------------------------------------------------------------------
(* write_buffer: the top of the stack is the page being written; its       *)
(* callers have released their pages and latch them again when it returns  *)

Top(p) == stack[p][Len(stack[p])]

(* The call for the top of the stack returns with buffers b. *)
Returns(p, b) ==
    LET n == Len(stack[p])
        c == release_bdb(b, Top(p))
    IN  /\ bdb' = [bdb EXCEPT ![p] = IF n > 1 THEN latch_bdb(c, stack[p][n - 1]) ELSE c]
        /\ stack' = [stack EXCEPT ![p] = SubSeq(@, 1, n - 1)]
        /\ posted' = [posted EXCEPT ![p] =
                @ \cup RePostFree(c, {Top(p)}) \cup RePost(c, Lower(p, Top(p)))]
        /\ clear_precedence(p, Top(p))

Writing(p) == Calm(p) /\ stack[p] # <<>>

WriteClean(p) ==
    /\ Writing(p) /\ bdb[p][Top(p)].flags \cap {"marked", "dirty"} = {}
    /\ Returns(p, bdb[p])
    /\ UNCHANGED <<file, windows, refers, main, ast, alive, fetches, failures>>

WriteDirty(p) ==
    /\ Writing(p)
    /\ Has(bdb[p], Top(p), "dirty") /\ ~Has(bdb[p], Top(p), "marked")

WriteHigher(p) ==
    /\ WriteDirty(p)
    /\ \E hi \in Higher(p, Top(p)) :
        /\ stack' = [stack EXCEPT ![p] = Append(@, hi)]
        /\ bdb' = [bdb EXCEPT ![p] = latch_bdb(release_bdb(@, Top(p)), hi)]
    /\ UNCHANGED <<file, pre, cleared, posted, windows, refers, main, ast, alive, fetches, failures>>

(* The loop over bdb_higher frees a block the AST level has cleared. *)
WriteUnlink(p) ==
    /\ WriteDirty(p)
    /\ \E hi \in Page :
        /\ <<hi, Top(p)>> \in cleared[p]
        /\ cleared' = [cleared EXCEPT ![p] = @ \ {<<hi, Top(p)>>}]
    /\ UNCHANGED <<file, bdb, pre, posted, windows, refers, main, stack, ast, alive, fetches, failures>>

WriteAll_any(p) == WriteDirty(p)
WriteAll(p) ==
    /\ WriteDirty(p)
    /\ \A e \in pre[p] \cup cleared[p] : e[2] # Top(p)

WritePage(p) ==
    /\ WriteAll(p)
    /\ ~Has(bdb[p], Top(p), "not_valid")
    /\ disk' = [disk EXCEPT ![Top(p)] = bdb[p][Top(p)].data]
    /\ Returns(p, write_page(bdb[p], Top(p)))
    /\ UNCHANGED <<changes, lost, tra_invalidated, committing, committed, windows, refers, main, ast, alive, fetches, failures>>

WriteFails(p) ==
    /\ WriteAll(p)
    /\ IF Has(bdb[p], Top(p), "not_valid") THEN UNCHANGED failures ELSE IOFails
    /\ Unwind(p, bdb[p])

-----------------------------------------------------------------------------
(* down_grade at AST level: a frame for each call that is under way        *)

Frame(p, b, pg) ==
    [page |-> pg, phase |-> "higher", todo |-> Higher(p, pg), at |-> pg,
     invalid |-> Has(b, pg, "not_valid"), in_use |-> FALSE]

(* The call for page pg, with buffers b and the frames s: it returns at    *)
(* once when the page is in use or clean.                                  *)
down_grade(p, b, s, pg) ==
    IF b[pg].use # 0 THEN <<Set(b, pg, {"blocking"}), s>>
    ELSE IF ~Has(b, pg, "dirty")
         THEN <<[Clear(b, pg, {"blocking"}) EXCEPT
                    ![pg].lock = LCK_downgrade(p, pg, @)], s>>
         ELSE <<latch_bdb(Set(b, pg, {"blocking"}), pg), Append(s, Frame(p, b, pg))>>

DownGrade(p, b, s, pg) ==
    LET r == down_grade(p, b, s, pg) IN
    /\ bdb' = [bdb EXCEPT ![p] = r[1]]
    /\ ast' = [ast EXCEPT ![p] = r[2]]

F(p) == ast[p][Len(ast[p])]
InAst(p) == p \in alive /\ ast[p] # <<>>
SetF(p, f) == [ast[p] EXCEPT ![Len(ast[p])] = f]
Callers(p) == SubSeq(ast[p], 1, Len(ast[p]) - 1)

astLeaves == <<changes, committing, committed, windows, refers, main, stack, alive, fetches>>

blocking_ast_bdb(p, pg) ==
    /\ Calm(p) /\ pg \in posted[p]
    /\ posted' = [posted EXCEPT ![p] = @ \ {pg}]
    /\ DownGrade(p, bdb[p], <<>>, pg)
    /\ UNCHANGED <<astLeaves, disk, lost, tra_invalidated, pre, cleared, failures>>

(* The loop over bdb_higher *)
AstHigher(p, hi) ==
    /\ InAst(p) /\ F(p).phase = "higher" /\ hi \in F(p).todo
    /\ LET f == [F(p) EXCEPT !.todo = @ \ {hi}] IN
       \/ /\ <<hi, F(p).page>> \in pre[p] /\ F(p).invalid
          /\ pre' = [pre EXCEPT ![p] = @ \ {<<hi, F(p).page>>}]
          /\ cleared' = [cleared EXCEPT ![p] = @ \cup {<<hi, F(p).page>>}]
          /\ ast' = [ast EXCEPT ![p] = SetF(p, f)]
          /\ UNCHANGED bdb
       \/ /\ <<hi, F(p).page>> \in pre[p] /\ ~F(p).invalid /\ Has(bdb[p], hi, "dirty")
          /\ DownGrade(p, bdb[p], SetF(p, [f EXCEPT !.phase = "called", !.at = hi]), hi)
          /\ UNCHANGED <<pre, cleared>>
       \/ /\ \/ <<hi, F(p).page>> \notin pre[p]
             \/ ~F(p).invalid /\ ~Has(bdb[p], hi, "dirty")
          /\ ast' = [ast EXCEPT ![p] = SetF(p, f)]
          /\ UNCHANGED <<bdb, pre, cleared>>
    /\ UNCHANGED <<astLeaves, disk, lost, tra_invalidated, posted, failures>>

(* The call for a higher page has returned.  When that page is invalid the *)
(* loop starts again, and skips the first block of the queue.              *)
AstCalled(p) ==
    /\ InAst(p) /\ F(p).phase = "called"
    /\ \E first \in Page :
        ast' = [ast EXCEPT ![p] = SetF(p,
            [F(p) EXCEPT !.phase = "higher",
                         !.invalid = @ \/ Has(bdb[p], F(p).at, "not_valid"),
                         !.in_use = /\ ~Has(bdb[p], F(p).at, "not_valid")
                                    /\ @ \/ Has(bdb[p], F(p).at, "dirty"),
                         !.todo = IF Has(bdb[p], F(p).at, "not_valid")
                                  THEN Higher(p, F(p).page) \ {first} ELSE @])]
    /\ UNCHANGED <<astLeaves, disk, lost, tra_invalidated, bdb, pre, cleared, posted, failures>>

AstWritable(p) == InAst(p) /\ F(p).phase = "higher" /\ F(p).todo = {}

AstDeferred(p) ==
    /\ AstWritable(p) /\ F(p).in_use
    /\ bdb' = [bdb EXCEPT ![p] = release_bdb(@, F(p).page)]
    /\ ast' = [ast EXCEPT ![p] = Callers(p)]
    /\ UNCHANGED <<astLeaves, disk, lost, tra_invalidated, pre, cleared, posted, failures>>

AstLoops(p) ==
    ast' = [ast EXCEPT ![p] = SetF(p,
        [F(p) EXCEPT !.phase = "lower", !.todo = AllLower(p, F(p).page)])]

AstWrites(p) ==
    /\ AstWritable(p) /\ ~F(p).in_use
    /\ ~F(p).invalid /\ ~Has(bdb[p], F(p).page, "not_valid")
    /\ disk' = [disk EXCEPT ![F(p).page] = bdb[p][F(p).page].data]
    /\ bdb' = [bdb EXCEPT ![p] =
            [Clear(write_page(bdb[p], F(p).page), F(p).page, {"blocking"}) EXCEPT
                ![F(p).page].lock = LCK_downgrade(p, F(p).page, @)]]
    /\ AstLoops(p)
    /\ UNCHANGED <<astLeaves, lost, tra_invalidated, pre, cleared, posted, failures>>

(* The page is given up, and with it the transactions that changed it      *)
(* (TRA_invalidate).                                                       *)
AstInvalidates(p) ==
    /\ AstWritable(p) /\ ~F(p).in_use
    /\ IF F(p).invalid \/ Has(bdb[p], F(p).page, "not_valid") THEN UNCHANGED failures ELSE IOFails
    /\ lost' = lost \cup (bdb[p][F(p).page].data \ disk[F(p).page])
    /\ tra_invalidated' = tra_invalidated \cup bdb[p][F(p).page].transactions
    /\ bdb' = [bdb EXCEPT ![p] =
            [Clear(Set(bdb[p], F(p).page, {"not_valid"}), F(p).page, {"dirty", "blocking"}) EXCEPT
                ![F(p).page].transactions = {}, ![F(p).page].lock = LCK_none]]
    /\ AstLoops(p)
    /\ UNCHANGED <<astLeaves, disk, pre, cleared, posted>>

(* The loop over bdb_lower *)
AstLower(p, lo) ==
    /\ InAst(p) /\ F(p).phase = "lower" /\ lo \in F(p).todo
    /\ LET e == <<F(p).page, lo>>
           b == IF Has(bdb[p], F(p).page, "not_valid") THEN Set(bdb[p], lo, {"not_valid"}) ELSE bdb[p]
           s == SetF(p, [F(p) EXCEPT !.todo = @ \ {lo}])
       IN  /\ pre' = [pre EXCEPT ![p] = @ \ {e}]
           /\ cleared' = [cleared EXCEPT ![p] = @ \cup {e}]
           /\ IF b[lo].flags \cap {"not_valid", "blocking"} # {}
              THEN DownGrade(p, b, s, lo)
              ELSE bdb' = [bdb EXCEPT ![p] = b] /\ ast' = [ast EXCEPT ![p] = s]
    /\ UNCHANGED <<astLeaves, disk, lost, tra_invalidated, posted, failures>>

AstReturns(p) ==
    /\ InAst(p) /\ F(p).phase = "lower" /\ F(p).todo = {}
    /\ bdb' = [bdb EXCEPT ![p] = release_bdb(Clear(@, F(p).page, {"not_valid"}), F(p).page)]
    /\ ast' = [ast EXCEPT ![p] = Callers(p)]
    /\ UNCHANGED <<astLeaves, disk, lost, tra_invalidated, pre, cleared, posted, failures>>

-----------------------------------------------------------------------------
(* CCH_fetch: get_buffer, lock_buffer and, when the lock had slipped below *)
(* read, CCH_fetch_page                                                    *)

CanFetch(p, pg) ==
    /\ Ready(p) /\ main[p] = Idle
    /\ pg \notin windows[p]
    /\ Cardinality(windows[p]) < MaxWindows
    /\ fetches[p] < MaxFetches[p]

FetchFlags(level) == IF level = LCK_write THEN {"cached", "writer"} ELSE {"cached"}

lock_type(b, pg) ==
    IF b[pg].flags \cap {"dirty", "writer"} # {} THEN LCK_write ELSE LCK_read

(* The page is latched; unless the lock is strong enough it is asked for. *)
lock_buffer(p, b, pg) ==
    /\ bdb' = [bdb EXCEPT ![p] = b]
    /\ IF b[pg].lock >= lock_type(b, pg)
       THEN /\ main' = [main EXCEPT ![p] = Idle]
            /\ windows' = [windows EXCEPT ![p] = @ \cup {pg}]
       ELSE /\ main' = [main EXCEPT ![p] =
                    [at |-> IF b[pg].lock = LCK_none THEN "wait" ELSE "convert",
                     page |-> pg, level |-> lock_type(b, pg)]]
            /\ UNCHANGED windows

get_buffer(p, pg, level) ==
    /\ CanFetch(p, pg)
    /\ \/ Has(bdb[p], pg, "cached")
       \/ Cardinality(Cached(bdb[p])) < Buffers
    /\ lock_buffer(p, latch_bdb(Set(bdb[p], pg, FetchFlags(level)), pg), pg)
    /\ fetches' = [fetches EXCEPT ![p] = @ + 1]
    /\ UNCHANGED <<file, pre, cleared, posted, refers, stack, ast, alive, failures>>

(* No buffer is empty: one that is free and can be written is reused, and  *)
(* written first when it is dirty.                                         *)
get_buffer_oldest(p, pg, level, oldest) ==
    /\ CanFetch(p, pg)
    /\ ~Has(bdb[p], pg, "cached")
    /\ Cardinality(Cached(bdb[p])) >= Buffers
    /\ oldest \in Cached(bdb[p]) /\ bdb[p][oldest].use = 0 /\ writeable(p, oldest)
    /\ LET b == latch_bdb(bdb[p], oldest) IN
       IF Has(b, oldest, "dirty")
       THEN /\ bdb' = [bdb EXCEPT ![p] = latch_bdb(b, oldest)]
            /\ stack' = [stack EXCEPT ![p] = <<oldest>>]
       ELSE bdb' = [bdb EXCEPT ![p] = b] /\ UNCHANGED stack
    /\ main' = [main EXCEPT ![p] = [at |-> "reuse", page |-> oldest, next |-> pg, level |-> level]]
    /\ fetches' = [fetches EXCEPT ![p] = @ + 1]
    /\ UNCHANGED <<file, pre, cleared, posted, windows, refers, ast, alive, failures>>

(* The buffer is clean: its precedence blocks are freed, and it is given   *)
(* to the new page, whose lock request releases the old lock.  The AST     *)
(* flags stay with the buffer.                                             *)
Reuse(p) ==
    /\ Ready(p) /\ main[p].at = "reuse"
    /\ LET old == main[p].page
           b == [bdb[p] EXCEPT ![old] = Empty]
       IN  /\ lock_buffer(p, latch_bdb(Set(b, main[p].next, FetchFlags(main[p].level)
                            \cup (bdb[p][old].flags \cap {"blocking"})), main[p].next),
                          main[p].next)
           /\ posted' = [posted EXCEPT ![p] = (@ \cup RePost(b, Lower(p, old))) \ {old}]
           /\ pre' = [pre EXCEPT ![p] = {e \in @ : old \notin {e[1], e[2]}}]
           /\ cleared' = [cleared EXCEPT ![p] = {e \in @ : old \notin {e[1], e[2]}}]
    /\ UNCHANGED <<file, refers, stack, ast, alive, fetches, failures>>

(* The lock is granted; a page whose lock was below read is read anew. *)
Granted_kept(p) ==
    /\ Ready(p) /\ main[p].at \in {"wait", "convert"}
    /\ \A q \in Proc : ~Conflicts(p, q)
    /\ bdb' = [bdb EXCEPT ![p][main[p].page].lock = main[p].level]
    /\ main' = [main EXCEPT ![p] = Idle]
    /\ windows' = [windows EXCEPT ![p] = @ \cup {main[p].page}]
    /\ UNCHANGED <<file, pre, cleared, posted, refers, stack, ast, alive, fetches, failures>>
Granted(p) ==
    /\ Ready(p) /\ main[p].at \in {"wait", "convert"}
    /\ \A q \in Proc : ~Conflicts(p, q)
    /\ LET pg == main[p].page
           b == [bdb[p] EXCEPT ![pg].lock = main[p].level]
       IN  bdb' = [bdb EXCEPT ![p] =
                IF bdb[p][pg].lock >= LCK_read THEN b
                ELSE [Clear(b, pg, {"not_valid"}) EXCEPT ![pg].data = disk[pg]]]
    /\ main' = [main EXCEPT ![p] = Idle]
    /\ windows' = [windows EXCEPT ![p] = @ \cup {main[p].page}]
    /\ UNCHANGED <<file, pre, cleared, posted, refers, stack, ast, alive, fetches, failures>>

ReadFails(p) ==
    /\ Ready(p) /\ Waits(p)
    /\ \A q \in Proc : ~Conflicts(p, q)
    /\ IOFails
    /\ Unwind(p, bdb[p])

(* LCK_convert_opt asks with LCK_NO_WAIT: when another lock is in the way  *)
(* the conversion is denied at once, and nobody is sent an AST.            *)
ConversionDenied(p) ==
    /\ Ready(p) /\ main[p].at = "convert"
    /\ \E q \in Proc : Conflicts(p, q)
    /\ main' = [main EXCEPT ![p].at = "denied"]
    /\ UNCHANGED <<file, cache, windows, refers, stack, ast, alive, fetches, failures>>

(* PAGE_LOCK releases the lock and asks for it again, and this time waits. *)
Reseize(p) ==
    /\ Ready(p) /\ main[p].at = "denied"
    /\ bdb' = [bdb EXCEPT ![p][main[p].page].lock = LCK_none]
    /\ main' = [main EXCEPT ![p].at = "wait"]
    /\ UNCHANGED <<file, pre, cleared, posted, windows, refers, stack, ast, alive, fetches, failures>>

LockDenied(p) ==
    /\ Ready(p) /\ Waits(p) /\ Deadlocked(p)
    /\ Unwind(p, bdb[p])
    /\ UNCHANGED failures

-----------------------------------------------------------------------------
(* What the callers do with a page they hold: CCH_precedence before        *)
(* CCH_mark, the change, CCH_release.  A page is released after its change *)
(* and before another is marked.                                           *)

Marked(p) == {pg \in windows[p] : Has(bdb[p], pg, "marked")}

(* What the process has changed in page pg. *)
Made(p, pg) == {c \in DOMAIN changes : changes[c].page = pg /\ changes[c].tra \in TraOf[p]}

Held(p, pg) ==
    /\ Ready(p) /\ main[p] = Idle
    /\ pg \in windows[p] /\ Has(bdb[p], pg, "writer")

ClosesCycle_never(p, low, high) == FALSE
ClosesCycle(p, low, high) == related(p, high, low)

check_precedence(p, low, high) ==
    /\ Held(p, low) /\ Marked(p) = {}
    /\ high # low /\ Made(p, high) # {} /\ ~Made(p, high) \subseteq refers[p][low]
    /\ refers' = [refers EXCEPT ![p][low] = @ \cup Made(p, high)]
    /\ \/ /\ \/ ~Has(bdb[p], high, "dirty")
             \/ related(p, low, high)
          /\ UNCHANGED <<bdb, main, stack>>
       (* the search for low below high is given up: write high instead *)
       \/ /\ Has(bdb[p], high, "dirty") /\ AllLower(p, high) # {} /\ AllHigher(p, low) # {}
          /\ bdb' = [bdb EXCEPT ![p] = latch_bdb(@, high)]
          /\ stack' = [stack EXCEPT ![p] = <<high>>]
          /\ UNCHANGED main
       (* a cycle, or the search for one is given up: write low first *)
       \/ /\ Has(bdb[p], high, "dirty") /\ ~related(p, low, high)
          /\ AllLower(p, low) # {} /\ AllHigher(p, high) # {}
          /\ bdb' = [bdb EXCEPT ![p] = latch_bdb(@, low)]
          /\ stack' = [stack EXCEPT ![p] = <<low>>]
          /\ main' = [main EXCEPT ![p] = [at |-> "precedence", page |-> low, high |-> high]]
       \/ /\ Has(bdb[p], high, "dirty") /\ ~related(p, low, high)
          /\ ~ClosesCycle(p, low, high)
          /\ main' = [main EXCEPT ![p] = [at |-> "precedence", page |-> low, high |-> high]]
          /\ UNCHANGED <<bdb, stack>>
    /\ UNCHANGED <<file, pre, cleared, posted, windows, ast, alive, fetches, failures>>

InsertPrecedence(p) ==
    /\ Ready(p) /\ main[p].at = "precedence"
    /\ pre' = [pre EXCEPT ![p] = @ \cup {<<main[p].high, main[p].page>>}]
    /\ main' = [main EXCEPT ![p] = Idle]
    /\ UNCHANGED <<file, bdb, cleared, posted, windows, refers, stack, ast, alive, fetches, failures>>

(* CCH_mark or CCH_mark_must_write, and the change *)
CCH_mark(p, pg, t, flags) ==
    /\ Held(p, pg) /\ Marked(p) \subseteq {pg}
    /\ flags # {} => pg \in MustWrite
    /\ t \in TraOf[p] \ (committing \cup committed)
    /\ Len(changes) < MaxChanges
    /\ changes' = Append(changes, [page |-> pg, tra |-> t, needs |-> refers[p][pg]])
    /\ bdb' = [bdb EXCEPT ![p] =
            [Set(bdb[p], pg, {"dirty", "marked"} \cup flags) EXCEPT
                ![pg].data = @ \cup {Len(changes) + 1}, ![pg].transactions = @ \cup {t}]]
    /\ UNCHANGED <<disk, lost, tra_invalidated, committing, committed, pre, cleared, posted,
                   windows, refers, main, stack, ast, alive, fetches, failures>>

(* The use count drops, and the AST of a page somebody waits for is posted *)
(* again.                                                                  *)
Unlatched_silent(p, b, pg) ==
    /\ bdb' = [bdb EXCEPT ![p] = release_bdb(b, pg)]
    /\ UNCHANGED posted
Unlatched(p, b, pg) ==
    /\ bdb' = [bdb EXCEPT ![p] = release_bdb(b, pg)]
    /\ posted' = [posted EXCEPT ![p] = @ \cup RePostFree(release_bdb(b, pg), {pg})]

CCH_release(p, pg) ==
    /\ Ready(p) /\ main[p] = Idle /\ pg \in windows[p]
    /\ windows' = [windows EXCEPT ![p] = @ \ {pg}]
    /\ refers' = [refers EXCEPT ![p][pg] = {}]
    /\ LET b == Clear(bdb[p], pg, {"writer", "marked"}) IN
       \/ /\ Has(b, pg, "must_write")
          /\ bdb' = [bdb EXCEPT ![p] = latch_bdb(b, pg)]
          /\ stack' = [stack EXCEPT ![p] = <<pg>>]
          /\ main' = [main EXCEPT ![p] = [at |-> "release", page |-> pg]]
          /\ UNCHANGED posted
       \/ /\ ~Has(b, pg, "must_write")
          /\ Unlatched(p, b, pg)
          /\ UNCHANGED <<stack, main>>
    /\ UNCHANGED <<file, pre, cleared, ast, alive, fetches, failures>>

Released(p) ==
    /\ Ready(p) /\ main[p].at = "release"
    /\ Unlatched(p, bdb[p], main[p].page)
    /\ main' = [main EXCEPT ![p] = Idle]
    /\ UNCHANGED <<file, pre, cleared, windows, refers, stack, ast, alive, fetches, failures>>

-----------------------------------------------------------------------------
(* TRA_commit: CCH_flush walks the dirty pages in page order *)

TRA_commit(p, t) ==
    /\ Ready(p) /\ main[p] = Idle /\ windows[p] = {}
    /\ t \in TraOf[p] \ (tra_invalidated \cup committed)
    /\ \E c \in DOMAIN changes : changes[c].tra = t
    /\ committing' = committing \cup {t}
    /\ main' = [main EXCEPT ![p] = [at |-> "flush", tra |-> t, seen |-> {}]]
    /\ UNCHANGED <<disk, changes, lost, tra_invalidated, committed, cache, windows, refers, stack, ast, alive, fetches, failures>>

(* The dirty pages btc_flush has still to look at. *)
Unseen(p) == {pg \in Page \ main[p].seen : Has(bdb[p], pg, "dirty")}

(* A page is written if the transaction may have changed it. *)
Flushed_sole(p, pg) == bdb[p][pg].transactions \subseteq {main[p].tra}
Flushed(p, pg) ==
    main[p].tra \in bdb[p][pg].transactions \/ bdb[p][pg].transactions = {}

btc_flush(p) ==
    /\ Ready(p) /\ main[p].at = "flush" /\ Unseen(p) # {}
    /\ LET pg == CHOOSE x \in Unseen(p) : \A y \in Unseen(p) : x <= y IN
       /\ main' = [main EXCEPT ![p].seen = {x \in Page : x <= pg}]
       /\ IF Flushed(p, pg)
          THEN /\ bdb' = [bdb EXCEPT ![p] = latch_bdb(@, pg)]
               /\ stack' = [stack EXCEPT ![p] = <<pg>>]
          ELSE UNCHANGED <<bdb, stack>>
    /\ UNCHANGED <<file, pre, cleared, posted, windows, refers, ast, alive, fetches, failures>>

TRA_set_state(p) ==
    /\ Ready(p) /\ main[p].at = "flush" /\ Unseen(p) = {}
    /\ committed' = committed \cup {main[p].tra}
    /\ committing' = committing \ {main[p].tra}
    /\ main' = [main EXCEPT ![p] = Idle]
    /\ UNCHANGED <<disk, changes, lost, tra_invalidated, cache, windows, refers, stack, ast, alive, fetches, failures>>

-----------------------------------------------------------------------------
MainStep(p) ==
    \/ \E pg \in Page, level \in {LCK_read, LCK_write} :
        \/ get_buffer(p, pg, level)
        \/ \E oldest \in Page : get_buffer_oldest(p, pg, level, oldest)
    \/ Reuse(p)
    \/ Granted(p) \/ ReadFails(p) \/ ConversionDenied(p) \/ Reseize(p) \/ LockDenied(p)
    \/ \E low, high \in Page : check_precedence(p, low, high)
    \/ InsertPrecedence(p)
    \/ \E pg \in Page, t \in Tra, flags \in SUBSET {"must_write"} : CCH_mark(p, pg, t, flags)
    \/ \E pg \in Page : CCH_release(p, pg)
    \/ Released(p)
    \/ \E t \in Tra : TRA_commit(p, t)
    \/ btc_flush(p) \/ TRA_set_state(p)

WriteStep(p) ==
    \/ WriteClean(p) \/ WriteHigher(p) \/ WriteUnlink(p)
    \/ WritePage(p) \/ WriteFails(p)

AstStep(p) ==
    \/ \E pg \in Page :
        blocking_ast_bdb(p, pg) \/ AstHigher(p, pg) \/ AstLower(p, pg)
    \/ AstCalled(p) \/ AstDeferred(p) \/ AstWrites(p) \/ AstInvalidates(p) \/ AstReturns(p)

Next ==
    \E p \in Proc :
        \/ MainStep(p) \/ WriteStep(p) \/ AstStep(p) \/ Crash(p)
        \/ \E q \in Proc : post_blockage(p, q)

Spec == Init /\ [][Next]_vars

(* A call that was entered goes on, a signal is handled, the lock manager  *)
(* grants and posts, and a caller releases the pages it holds: nothing is  *)
(* assumed of the calls a process may or may not make.                     *)
Progress(p) ==
    \/ WriteStep(p) \/ Reuse(p) \/ Granted(p) \/ ConversionDenied(p) \/ Reseize(p) \/ LockDenied(p)
    \/ InsertPrecedence(p) \/ Released(p) \/ btc_flush(p) \/ TRA_set_state(p)
    \/ \E pg \in Page : CCH_release(p, pg)

FairSpec ==
    /\ Spec
    /\ \A p \in Proc : /\ WF_vars(Progress(p)) /\ WF_vars(AstStep(p))
                       /\ WF_vars(\E q \in Proc : post_blockage(p, q))

-----------------------------------------------------------------------------
Buffer == [data : SUBSET DOMAIN changes, flags : SUBSET Flag, transactions : SUBSET Tra,
           use : Nat, lock : {LCK_none, LCK_read, LCK_write}]

(* The shape of the state; no latch is released more often than taken     *)
(* (bugcheck 209).                                                         *)
TypeOK ==
    /\ disk \in [Page -> SUBSET DOMAIN changes]
    /\ changes \in Seq([page : Page, tra : Tra, needs : SUBSET DOMAIN changes])
    /\ lost \subseteq DOMAIN changes
    /\ {tra_invalidated, committing, committed} \subseteq SUBSET Tra
    /\ bdb \in [Proc -> [Page -> Buffer]]
    /\ pre \in [Proc -> SUBSET (Page \X Page)]
    /\ cleared \in [Proc -> SUBSET (Page \X Page)]
    /\ posted \in [Proc -> SUBSET Page]
    /\ windows \in [Proc -> SUBSET Page]
    /\ refers \in [Proc -> [Page -> SUBSET DOMAIN changes]]
    /\ stack \in [Proc -> Seq(Page)]
    /\ alive \subseteq Proc

OnDisk(c) == c \in disk[changes[c].page]

(* "The specified page will always be written before the page associated   *)
(* with the window" (check_precedence), of chains of blocks: at every      *)
(* moment, so wherever a process may die, a page in the file refers only   *)
(* to what is in the file, or was dropped after a failed write.  A block   *)
(* inserted above a page the AST has written meanwhile breaks the chain    *)
(* and the promise; CarefulWrite is what is left of it.                    *)
DiskConsistent ==
    \A pg \in Page : \A c \in disk[pg] : \A d \in changes[c].needs : OnDisk(d) \/ d \in lost

(* A buffer whose lock is held is the page: only a process with the write  *)
(* lock has it dirty, and a clean one is what the file holds, through      *)
(* downgrades, denied conversions, failed writes and reused buffers; so no *)
(* process writes a stale page over the change of another.                 *)
Coherent ==
    \A p \in Proc, pg \in Page :
        LET b == bdb[p][pg] IN
        /\ "dirty" \in b.flags => b.lock = LCK_write
        /\ b.lock # LCK_none /\ "dirty" \notin b.flags => b.data = disk[pg]

(* The precedence graph has no cycle (check_precedence writes the lower    *)
(* page first when it would close one), so that the recursion of           *)
(* write_buffer(), writeable() and related() ends.                         *)
PrecedenceAcyclic ==
    \A p \in Proc : \A S \in (SUBSET Page) \ {{}} :
        \E pg \in S : Higher(p, pg) \cap S = {}

(* A transaction is committed only when everything it changed is in the    *)
(* file, also what other transactions changed after it or the AST wrote.   *)
Durable ==
    \A c \in DOMAIN changes :
        changes[c].tra \in committed \ tra_invalidated => OnDisk(c)

(* Whoever asks for a page lock gets it or an error: an AST that found the *)
(* page, or one to be written before it, in use is posted again, and of    *)
(* two conversions in each other's way at least one gives its lock up.     *)
(* Except after a failed write: write_buffer() releases a page without     *)
(* posting before it writes a higher one, and does not come back to it.    *)
Answered == \A p \in Proc : Asks(p) ~> (~Asks(p) \/ failures > 0)

(* "Invalidate any active transactions that may have modified a page that  *)
(* couldn't be written" (TRA_invalidate): such a transaction never commits.*)
InvalidNeverCommits == \A c \in DOMAIN changes : changes[c].tra \in committed => OnDisk(c)

(* "A precedence relationship such that the specified page will always be  *)
(* written before the page associated with the window" (CCH_precedence),   *)
(* of one block: a page is written, at either level, only when no page     *)
(* above it by a block in force is dirty.                                  *)
WritesInOrder ==
    \A pg \in Page : disk'[pg] # disk[pg] =>
        \E p \in Proc : /\ Has(bdb[p], pg, "dirty")
                        /\ \A hi \in Higher(p, pg) : ~Has(bdb[p], hi, "dirty")
CarefulWrite == [][WritesInOrder]_vars

-----------------------------------------------------------------------------
(* What else holds between two steps, and makes the invariants inductive.  *)

Main ==
    [at : {"idle"}] \cup [at : Asking, page : Page, level : {LCK_read, LCK_write}]
    \cup [at : {"reuse"}, page : Page, next : Page, level : {LCK_read, LCK_write}]
    \cup [at : {"precedence"}, page : Page, high : Page]
    \cup [at : {"release"}, page : Page]
    \cup [at : {"flush"}, tra : Tra, seen : SUBSET Page]

Frames == [page : Page, phase : {"higher", "called", "lower"}, todo : SUBSET Page,
           at : Page, invalid : BOOLEAN, in_use : BOOLEAN]

(* The main thread and the frames of the handler have their types; a       *)
(* process commits its own transactions.                                   *)
Threads(p) == {m \in Main : m.at = "flush" => m.tra \in TraOf[p]}
ThreadsOK ==
    /\ main \in [Proc -> Main]
    /\ \A p \in Proc : main[p] \in Threads(p)
    /\ ast \in [Proc -> Seq(Frames)]

(* No two processes hold incompatible locks of a page, and a dirty buffer  *)
(* has all that the file has.                                              *)
LocksCompatible ==
    \A p, q \in Proc : p # q =>
        \A pg \in Page : Compatible(bdb[p][pg].lock, bdb[q][pg].lock)
NothingOverwritten ==
    \A p \in Proc, pg \in Page : Has(bdb[p], pg, "dirty") => disk[pg] \subseteq bdb[p][pg].data

(* A buffer is latched by the window of a caller, by the write_buffer()    *)
(* that is at it, by CCH_fetch or CCH_release under way, and by a frame of *)
(* down_grade(), each at most once: the use count is the sum.              *)
One(b) == IF b THEN 1 ELSE 0
Latching(m) == IF m.at \in Asking \cup {"reuse", "release"} THEN {m.page} ELSE {}
FramePages(a) == {a[i].page : i \in DOMAIN a}
Latches(w, m, s, a, pg) ==
    One(pg \in w) + One(s # <<>> /\ s[Len(s)] = pg) + One(pg \in Latching(m))
        + One(pg \in FramePages(a))
LatchesExact(b, w, m, s, a) == \A pg \in Page : b[pg].use = Latches(w, m, s, a, pg)

(* The handler works on pages the main thread does not use, on each in one *)
(* frame, and they are dirty until they are written.                       *)
FramesApart(b, w, m, s, a) ==
    /\ \A i, j \in DOMAIN a : a[i].page = a[j].page => i = j
    /\ \A i \in DOMAIN a : /\ a[i].page \notin w \cup Latching(m)
                           /\ s # <<>> => s[Len(s)] # a[i].page
                           /\ a[i].phase # "lower" => Has(b, a[i].page, "dirty")

(* Who holds a page to write it has its lock; who asks for one holds too   *)
(* little of it, and has not changed it.                                   *)
WindowsLocked(b, w) == \A pg \in w : Has(b, pg, "writer") => b[pg].lock = LCK_write
WaitFits(b, w, m, s) ==
    m.at \in Asking =>
        /\ s = <<>> /\ m.page \notin w
        /\ ~Has(b, m.page, "dirty") /\ b[m.page].lock < m.level
        /\ Has(b, m.page, "writer") => m.level = LCK_write
(* A buffer that is reused is written first. *)
ReuseFits(b, w, m, s) ==
    m.at = "reuse" =>
        /\ m.page \notin w /\ m.next \notin w /\ m.page # m.next
        /\ IF s = <<>> THEN ~Has(b, m.page, "dirty") ELSE s[1] = m.page
(* What btc_flush has passed is written, or is being written. *)
FlushFits(b, m, s) ==
    m.at = "flush" =>
        \A pg \in m.seen :
            Has(b, pg, "dirty") /\ m.tra \in b[pg].transactions => s # <<>> /\ s[1] = pg

Local(b, w, m, s, a) ==
    /\ LatchesExact(b, w, m, s, a) /\ FramesApart(b, w, m, s, a)
    /\ WindowsLocked(b, w) /\ WaitFits(b, w, m, s) /\ ReuseFits(b, w, m, s)
    /\ FlushFits(b, m, s)
LocalInv == \A p \in Proc : Local(bdb[p], windows[p], main[p], stack[p], ast[p])

(* A frame that is not given up has looked at the pages above its own. *)
HigherSeen ==
    \A p \in Proc : \A i \in DOMAIN ast[p] :
        LET f == ast[p][i] IN
        f.phase # "lower" /\ ~f.invalid /\ ~f.in_use =>
            \A hi \in Higher(p, f.page) :
                \/ hi \in f.todo \/ ~Has(bdb[p], hi, "dirty")
                \/ f.phase = "called" /\ f.at = hi

(* The block about to be inserted closes no cycle, once the lower page is  *)
(* written.                                                                *)
PrecedenceFits ==
    \A p \in Proc : main[p].at = "precedence" =>
        /\ main[p].high # main[p].page
        /\ \/ stack[p] # <<>> /\ stack[p][1] = main[p].page
           \/ ~related(p, main[p].high, main[p].page)

(* A change is in the file, dropped with its transaction, or in a dirty    *)
(* buffer of the process that made it, which knows the transaction.        *)
ChangesKept ==
    \A p \in alive : \A c \in DOMAIN changes :
        changes[c].tra \in TraOf[p] =>
            \/ OnDisk(c) \/ changes[c].tra \in tra_invalidated
            \/ LET b == bdb[p][changes[c].page] IN
               "dirty" \in b.flags /\ c \in b.data /\ changes[c].tra \in b.transactions

IInv ==
    /\ TypeOK /\ ThreadsOK /\ Coherent /\ LocksCompatible /\ NothingOverwritten
    /\ LocalInv /\ HigherSeen /\ PrecedenceAcyclic /\ PrecedenceFits
    /\ ChangesKept /\ Durable

=============================================================================

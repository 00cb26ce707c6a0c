------------------------------ MODULE DmaResv ------------------------------
(***************************************************************************)
(* A reservation object, drivers/dma-buf/dma-resv.c: the fences of one     *)
(* buffer.  Writers hold the ww_mutex of the object, so one writer process *)
(* stands for all of them; readers hold no lock, walk the published list   *)
(* under RCU, take references with kref_get_unless_zero() and start again  *)
(* when they find that the list was exchanged.                             *)
(*                                                                         *)
(* Grain of atomicity.  Every access to obj->fences, to an entry of a      *)
(* table, to num_fences, to a reference count and to the state of a fence  *)
(* that another process can see is a step.  The cursor reads num_fences    *)
(* together with the pointer: a list that has been exchanged changes no    *)
(* more, so the pair is one the reader could have read at once.            *)
(*                                                                         *)
(* Data.  A fence is a number; within a context the numbers are the order  *)
(* in which the driver emitted the fences and in which they signal.  The   *)
(* driver owns one reference until it signals the fence.  Memory given to  *)
(* kfree_rcu() is gone as soon as the readers that were inside             *)
(* rcu_read_lock() have left it.  The address of a list is not used again: *)
(* the lists of an object grow, so the next one is of another size.        *)
(***************************************************************************)
EXTENDS Integers, FiniteSets, Sequences, DmaFenceSeqno

CONSTANTS
  Fences,       \* the fences, as positive numbers in the order of emission
  Contexts,     \* the contexts, of other objects' fences too
  Context,      \* Context[f]: its context
  FirstSeqno,   \* what the counter of a context starts from
  Readers,      \* tasks that use the unlocked iterator
  ReaderOps,    \* a subset of {"test", "wait", "get", "copy"}
  Usages,       \* the values of enum dma_resv_usage that are used
  MinSlots,     \* the smallest list: 4 in the code
  MaxReserve,   \* the largest number of slots reserved at once
  MaxLists,     \* the lists that can be allocated
  MaxAdds,      \* the calls of add_fence() and replace_fences()
  DebugMutexes, \* CONFIG_DEBUG_MUTEXES: unlocking drops the spare slots
  Replaces      \* whether writers call dma_resv_replace_fences()

ASSUME ResvAssumption ==
  /\ Fences \subseteq 1 .. SignBit /\ IsFiniteSet(Fences)
  /\ Context \in [Fences -> Contexts] /\ IsFiniteSet(Readers)
  /\ FirstSeqno \in Nat /\ Usages \subseteq 0 .. 3
  /\ ReaderOps \subseteq {"test", "wait", "get", "copy"}
  /\ MinSlots \in Nat \ {0} /\ MaxReserve \in Nat \ {0} /\ MaxLists \in Nat \ {0}
  /\ MaxAdds \in Nat
  /\ DebugMutexes \in BOOLEAN /\ Replaces \in BOOLEAN

\* There is a power of 2 between n and 2 * n.
ASSUME PowerAssumption == \A n \in 1 .. MaxReserve : \E k \in 0 .. n : 2^k \in n .. 2 * n - 1

None  == 0   \* NULL
Bookkeep == 3   \* DMA_RESV_USAGE_BOOKKEEP
Lists == 1 .. MaxLists

VARIABLES
  \* the fences
  ref,     \* refcount
  sig,     \* the fences that are signalled
  grace,   \* grace[f]: the RCU readers that kfree_rcu() of f has to wait for
  \* the object and its lists
  fences,  \* obj->fences
  num, max, table,  \* num_fences, max_fences and table of each list
  freed,   \* the lists given to kfree_rcu()
  lgrace,  \* lgrace[l]: the RCU readers that kfree_rcu() of l has to wait for
  \* the writer
  wpc,     \* control
  wi, wk,  \* i and k
  wold,    \* old of reserve_fences()
  wfence, wusage, wctx,  \* the arguments of add_fence() and replace_fences()
  wput,    \* old of add_fence() and replace_fences(), until it is dropped
  wnew,    \* the list allocated last
  adds,    \* the calls of add_fence() and replace_fences() so far
  slots,   \* slots reserved and not used since the object was locked
  \* the readers
  pc, op, cursor,   \* control, the call, and the struct dma_resv_iter
  cand,    \* the entry read from the table, before its reference is taken
  got,     \* the fences collected by get_fences() or copy_fences()
  room,    \* the size of the array they are collected in
  \* history
  owed     \* owed[r]: for every fence that was in the object when the call of
           \* r began, that fence and those that took its place since, until
           \* one of them signals

fenceVars  == <<ref, sig, grace>>
memVars    == <<freed, lgrace>>
listVars   == <<fences, num, max, table, memVars>>
argVars    == <<wfence, wusage, wctx>>
callVars   == <<wi, wk, wold, argVars, wput>>
writerVars == <<wpc, callVars, wnew, adds, slots>>
readerVars == <<pc, op, cursor, cand, got, room>>
vars == <<fenceVars, listVars, writerVars, readerVars, owed>>

Seqno(f) == (FirstSeqno + f) % (2 * SignBit)
Entry    == [fence : Fences \cup {None}, usage : 0 .. 3]
NoEntry  == [fence |-> None, usage |-> 0]
Cursor(u, f, n, l, m, a) ==
  [usage |-> u, fence |-> f, index |-> n, fences |-> l, num |-> m, restarted |-> a]
Idle     == Cursor(0, None, 0, None, 0, 0)

Init ==
  /\ ref = [f \in Fences |-> 1] /\ sig = {} /\ grace = [f \in Fences |-> {}]
  /\ fences = None
  /\ num = [l \in Lists |-> 0] /\ max = [l \in Lists |-> 0]
  /\ table = [l \in Lists |-> <<>>]
  /\ freed = {} /\ lgrace = [l \in Lists |-> {}]
  /\ wpc = "locked" /\ wi = 0 /\ wk = 0 /\ wold = None
  /\ wfence = None /\ wusage = 0 /\ wctx = None /\ wput = None
  /\ wnew = None /\ adds = 0 /\ slots = 0
  /\ pc = [r \in Readers |-> "idle"] /\ op = [r \in Readers |-> "none"]
  /\ cursor = [r \in Readers |-> Idle]
  /\ cand = [r \in Readers |-> NoEntry]
  /\ got = [r \in Readers |-> <<>>] /\ room = [r \in Readers |-> 0]
  /\ owed = [r \in Readers |-> {}]

----------------------------------------------------------------------------
\* Inside rcu_read_lock().
InRcu(r) == pc[r] \in {"restart", "walk", "get", "test", "check"}

RcuReaders == {r \in Readers : InRcu(r)}

\* kfree_rcu() of a list
KfreeRcu(l) ==
  freed' = freed \cup {l} /\ lgrace' = [lgrace EXCEPT ![l] = RcuReaders]

\* dma_fence_put(f): the last reference frees the fence after a grace period.
Put(f) ==
  /\ ref' = [g \in Fences |-> IF g = f THEN ref[g] - 1 ELSE ref[g]]
  /\ grace' = [g \in Fences |-> IF g = f /\ ref[g] = 1 THEN RcuReaders ELSE grace[g]]

FenceGone(f) == ref[f] = 0 /\ grace[f] = {}
ListGone(l)  == l \in freed /\ lgrace[l] = {}

----------------------------------------------------------------------------
(* The driver                                                              *)

\* The work of f ends, in a context in the order of emission: the driver
\* signals the fence and drops its reference.
Signal(f) ==
  /\ f \notin sig /\ \A g \in Fences : Context[g] = Context[f] /\ g < f => g \in sig
  /\ wpc \in {"repl", "replput"} => wfence # f
  /\ sig' = sig \cup {f} /\ Put(f)
  /\ owed' = [r \in Readers |-> {S \in owed[r] : f \notin S}]
  /\ UNCHANGED <<listVars, writerVars, readerVars>>

----------------------------------------------------------------------------
(* The writer, between dma_resv_lock() and dma_resv_unlock()               *)

\* The end of a call
CallEnds ==
  /\ wpc' = "locked" /\ wi' = 0 /\ wk' = 0 /\ wold' = None
  /\ wfence' = None /\ wusage' = 0 /\ wctx' = None /\ wput' = None

\* dma_resv_unlock(), and another writer locks the object: slots reserved
\* before do not count, with CONFIG_DEBUG_MUTEXES they are taken back.
Unlock ==
  /\ wpc = "locked" /\ slots > 0 /\ slots' = 0
  /\ max' = IF DebugMutexes /\ fences # None
            THEN [max EXCEPT ![fences] = num[fences]] ELSE max
  /\ UNCHANGED <<wpc, callVars, wnew, adds, fences, num, table, memVars, fenceVars,
                 readerVars, owed>>

RoundupPowOfTwo(n) == CHOOSE p \in {2^k : k \in 0 .. n} : n <= p /\ p < 2 * n

Larger(a, b) == IF a > b THEN a ELSE b

\* Mutant: one fence more than there are slots.
HasSpaceForOneMore(l, n) == l # None /\ max[l] > 0 /\ num[l] + n <= max[l] + 1
HasSpace(l, n) == l # None /\ max[l] > 0 /\ num[l] + n <= max[l]

NewMax(l, n) ==
  IF l # None /\ max[l] > 0 THEN Larger(num[l] + n, 2 * max[l])
  ELSE Larger(MinSlots, RoundupPowOfTwo(n))

\* dma_resv_reserve_fences(): nothing to do.
ReserveEnough(n) ==
  /\ wpc = "locked" /\ slots = 0 /\ HasSpace(fences, n)
  /\ slots' = n
  /\ UNCHANGED <<wpc, callVars, wnew, adds, fenceVars, listVars, readerVars, owed>>

\* Its allocation.  When that fails (-ENOMEM) the call changes nothing.
ReserveAlloc(n) ==
  /\ wpc = "locked" /\ slots = 0 /\ ~HasSpace(fences, n) /\ wnew < MaxLists
  /\ wnew' = wnew + 1 /\ wold' = fences /\ wi' = 1 /\ wk' = NewMax(fences, n)
  /\ max' = [max EXCEPT ![wnew + 1] = NewMax(fences, n)]
  /\ table' = [table EXCEPT ![wnew + 1] = [j \in 1 .. NewMax(fences, n) |-> NoEntry]]
  /\ slots' = n /\ wpc' = "copy"
  /\ UNCHANGED <<argVars, wput, adds, fences, num, memVars, fenceVars, readerVars, owed>>

\* An entry of the old list: a signalled fence goes to the end of the new one,
\* where readers do not look, any other to its front.
Copies == wold # None /\ wi <= num[wold]
Copied == table[wold][wi]

ReserveCopySignaled ==
  /\ wpc = "copy" /\ Copies /\ Copied.fence \in sig
  /\ table' = [table EXCEPT ![wnew][wk] = [fence |-> Copied.fence, usage |-> 0]]
  /\ wi' = wi + 1 /\ wk' = wk - 1
  /\ UNCHANGED <<wpc, wold, argVars, wput, wnew, adds, slots, fences, num, max, memVars,
                 fenceVars, readerVars, owed>>

ReserveCopyActive ==
  /\ wpc = "copy" /\ Copies /\ Copied.fence \notin sig
  /\ table' = [table EXCEPT ![wnew][num[wnew] + 1] = Copied]
  /\ num' = [num EXCEPT ![wnew] = @ + 1] /\ wi' = wi + 1
  /\ UNCHANGED <<wpc, wk, wold, argVars, wput, wnew, adds, slots, fences, max, memVars,
                 fenceVars, readerVars, owed>>

\* rcu_assign_pointer(obj->fences, new): the first list, or one for another
ReserveFirst ==
  /\ wpc = "copy" /\ wold = None
  /\ fences' = wnew /\ CallEnds
  /\ UNCHANGED <<wnew, adds, slots, num, max, table, memVars, fenceVars, readerVars, owed>>

ReservePublish ==
  /\ wpc = "copy" /\ wold # None /\ ~Copies
  /\ fences' = wnew /\ wpc' = "drop" /\ wi' = wk + 1
  /\ UNCHANGED <<wk, wold, argVars, wput, wnew, adds, slots, num, max, table, memVars,
                 fenceVars, readerVars, owed>>

\* The references to the signalled fences.
ReserveDrop ==
  /\ wpc = "drop" /\ wi <= max[wnew]
  /\ Put(table[wnew][wi].fence) /\ wi' = wi + 1
  /\ UNCHANGED <<wpc, wk, wold, argVars, wput, wnew, adds, slots, sig, listVars,
                 readerVars, owed>>

ReserveFree ==
  /\ wpc = "drop" /\ wi > max[wnew]
  /\ KfreeRcu(wold) /\ CallEnds
  /\ UNCHANGED <<wnew, adds, slots, fenceVars, fences, num, max, table, readerVars, owed>>

\* dma_resv_add_fence(), for a caller that owns a reference to the fence
AddFence(f, u) ==
  /\ wpc = "locked" /\ slots > 0 /\ ref[f] > 0 /\ adds < MaxAdds
  /\ ref' = [ref EXCEPT ![f] = @ + 1]
  /\ wfence' = f /\ wusage' = u /\ wi' = 1
  /\ slots' = slots - 1 /\ adds' = adds + 1 /\ wpc' = "add"
  /\ UNCHANGED <<wk, wold, wctx, wput, wnew, sig, grace, listVars, readerVars, owed>>

New == [fence |-> wfence, usage |-> wusage]
Old == table[fences][wi]

\* New takes the place of Old, for the readers that are to see Old, if it was
\* emitted later in the same context.
Later == Context[wfence] = Context[Old.fence] /\ wfence > Old.fence

Succeeds ==
  owed' = [r \in Readers |->
    {IF Later /\ Old.fence \in S /\ Old.usage <= cursor[r].usage
     THEN S \cup {wfence} ELSE S : S \in owed[r]}]

\* The fence of an entry is no longer needed once New is in the object.
Replaceable(e) ==
  \/ /\ Context[e.fence] = Context[wfence] /\ e.usage >= wusage
     /\ IsLater(Seqno(wfence), Seqno(e.fence))
  \/ e.fence \in sig

AddScan ==
  /\ wpc = "add" /\ wi <= num[fences] /\ ~Replaceable(Old)
  /\ wi' = wi + 1
  /\ UNCHANGED <<wpc, wk, wold, argVars, wput, wnew, adds, slots, fenceVars, listVars,
                 readerVars, owed>>

\* Mutant: the reference to a fence that is not signalled is forgotten.
PutOldSignaled(e) == IF e.fence \in sig THEN e.fence ELSE None
PutOld(e) == e.fence

AddReplace ==
  /\ wpc = "add" /\ wi <= num[fences] /\ Replaceable(Old)
  /\ table' = [table EXCEPT ![fences][wi] = New] /\ Succeeds
  /\ wput' = PutOld(Old) /\ wpc' = "addput"
  /\ UNCHANGED <<wi, wk, wold, argVars, wnew, adds, slots, fences, num, max, memVars,
                 fenceVars, readerVars>>

AddPut ==
  /\ wpc = "addput"
  /\ Put(wput) /\ CallEnds
  /\ UNCHANGED <<wnew, adds, slots, sig, listVars, readerVars, owed>>

\* A new entry, and then the count that makes it visible.
AddSet ==
  /\ wpc = "add" /\ wi > num[fences]
  /\ table' = [table EXCEPT ![fences][wi] = New] /\ wpc' = "addcount"
  /\ UNCHANGED <<callVars, wnew, adds, slots, fences, num, max, memVars, fenceVars,
                 readerVars, owed>>

AddCount ==
  /\ wpc = "addcount"
  /\ num' = [num EXCEPT ![fences] = @ + 1] /\ CallEnds
  /\ UNCHANGED <<wnew, adds, slots, fences, max, table, memVars, fenceVars, readerVars, owed>>

\* Here the caller decides who has to wait for New: readers that its usage
\* hides it from are owed nothing for Old any more.
SucceedsFor ==
  owed' = [r \in Readers |->
    {IF Old.fence \in S /\ Old.usage <= cursor[r].usage THEN S \cup {wfence} ELSE S :
       S \in {T \in owed[r] : Old.fence \in T => wusage <= cursor[r].usage}}]

\* dma_resv_replace_fences(): f takes the place of the fences of context c.
ReplaceFences(c, f, u) ==
  /\ Replaces /\ wpc = "locked" /\ fences # None /\ f \notin sig /\ adds < MaxAdds
  /\ wctx' = c /\ wfence' = f /\ wusage' = u /\ wi' = 1
  /\ adds' = adds + 1 /\ wpc' = "repl"
  /\ UNCHANGED <<wk, wold, wput, wnew, slots, fenceVars, listVars, readerVars, owed>>

ReplaceSkip ==
  /\ wpc = "repl" /\ wi <= num[fences] /\ Context[Old.fence] # wctx
  /\ wi' = wi + 1
  /\ UNCHANGED <<wpc, wk, wold, argVars, wput, wnew, adds, slots, fenceVars, listVars,
                 readerVars, owed>>

ReplaceSet ==
  /\ wpc = "repl" /\ wi <= num[fences] /\ Context[Old.fence] = wctx
  /\ ref' = [ref EXCEPT ![wfence] = @ + 1]
  /\ table' = [table EXCEPT ![fences][wi] = New] /\ SucceedsFor
  /\ wput' = Old.fence /\ wpc' = "replput"
  /\ UNCHANGED <<wi, wk, wold, argVars, wnew, adds, slots, fences, num, max, memVars,
                 sig, grace, readerVars>>

ReplacePut ==
  /\ wpc = "replput"
  /\ Put(wput) /\ wput' = None /\ wi' = wi + 1 /\ wpc' = "repl"
  /\ UNCHANGED <<wk, wold, argVars, wnew, adds, slots, sig, listVars, readerVars, owed>>

ReplaceDone ==
  /\ wpc = "repl" /\ wi > num[fences] /\ CallEnds
  /\ UNCHANGED <<wnew, adds, slots, fenceVars, listVars, readerVars, owed>>

\* dma_resv_fini(), when nobody uses the object any more.
Fini ==
  /\ wpc = "locked" /\ slots = 0 /\ \A r \in Readers : pc[r] = "idle"
  /\ wi' = 1 /\ wpc' = IF fences = None THEN "dead" ELSE "fini"
  /\ UNCHANGED <<wk, wold, argVars, wput, wnew, adds, slots, fenceVars, listVars,
                 readerVars, owed>>

FiniPut ==
  /\ wpc = "fini" /\ wi <= num[fences]
  /\ Put(Old.fence) /\ wi' = wi + 1
  /\ UNCHANGED <<wpc, wk, wold, argVars, wput, wnew, adds, slots, sig, listVars,
                 readerVars, owed>>

FiniFree ==
  /\ wpc = "fini" /\ wi > num[fences]
  /\ KfreeRcu(fences) /\ wpc' = "dead"
  /\ UNCHANGED <<callVars, wnew, adds, slots, fenceVars, fences, num, max, table,
                 readerVars, owed>>

----------------------------------------------------------------------------
(* The readers: dma_resv_for_each_fence_unlocked() and its users           *)

Goto(r, l) == pc' = [pc EXCEPT ![r] = l]

\* rcu_read_unlock() lets the memory go that waited for r.
RcuUnlock(r) ==
  /\ grace' = [f \in Fences |-> grace[f] \ {r}]
  /\ lgrace' = [l \in Lists |-> lgrace[l] \ {r}]

\* The fences that a reader of usage u is to see, now.
NumFences  == IF fences = None THEN 0 ELSE num[fences]
Visible(u) == {table[fences][j].fence : j \in {k \in 1 .. NumFences : table[fences][k].usage <= u}}

\* dma_resv_iter_begin() and the call of dma_resv_iter_first_unlocked()
Call(r, o, u) ==
  /\ pc[r] = "idle" /\ wpc \notin {"fini", "dead"}
  /\ o = "copy" => u = Bookkeep
  /\ op' = [op EXCEPT ![r] = o]
  /\ cursor' = [cursor EXCEPT ![r] = Cursor(u, None, 0, None, 0, 0)]
  /\ owed' = [owed EXCEPT ![r] = {{f} : f \in Visible(u) \ sig}]
  /\ Goto(r, "restart")
  /\ UNCHANGED <<cand, got, room, fenceVars, listVars, writerVars>>

\* dma_resv_iter_restart_unlocked()
Restarted(c) == Cursor(c.usage, c.fence, 0, fences, NumFences, 1)

\* Entering dma_resv_iter_walk_unlocked(): without a list it returns at once,
\* and leaves the fence of the cursor as it is.
Walk(l) == IF l = None THEN "check" ELSE "walk"

Restart(r) ==
  /\ pc[r] = "restart"
  /\ cursor' = [cursor EXCEPT ![r] = Restarted(@)]
  /\ Goto(r, Walk(fences))
  /\ UNCHANGED <<op, cand, got, room, owed, fenceVars, listVars, writerVars>>

WithFence(c, f) == Cursor(c.usage, f, c.index, c.fences, c.num, c.restarted)

\* A round of dma_resv_iter_walk_unlocked(): drop the fence of the round before,
\* stop at the end of the list
WalkEnd(r) ==
  /\ pc[r] = "walk" /\ cursor[r].index >= cursor[r].num
  /\ Put(cursor[r].fence)
  /\ cursor' = [cursor EXCEPT ![r] = WithFence(@, None)]
  /\ Goto(r, "check")
  /\ UNCHANGED <<op, cand, got, room, owed, sig, listVars, writerVars>>

\* or read an entry,
\* Mutant: the position is not advanced.
NextIndexSame(i) == i
NextIndex(i) == i + 1
Moved(c) == Cursor(c.usage, None, NextIndex(c.index), c.fences, c.num, c.restarted)

WalkEntry(r) ==
  /\ pc[r] = "walk" /\ cursor[r].index < cursor[r].num
  /\ Put(cursor[r].fence)
  /\ cand' = [cand EXCEPT ![r] = table[cursor[r].fences][cursor[r].index + 1]]
  /\ cursor' = [cursor EXCEPT ![r] = Moved(@)]
  /\ Goto(r, "get")
  /\ UNCHANGED <<op, got, room, owed, sig, listVars, writerVars>>

\* take a reference to its fence unless that is being freed,
WalkGet(r) ==
  /\ pc[r] = "get" /\ ref[cand[r].fence] > 0
  /\ ref' = [ref EXCEPT ![cand[r].fence] = @ + 1]
  /\ cursor' = [cursor EXCEPT ![r] = WithFence(@, cand[r].fence)]
  /\ Goto(r, "test")
  /\ UNCHANGED <<op, cand, got, room, owed, sig, grace, listVars, writerVars>>

WalkGetFails(r) ==
  /\ pc[r] = "get" /\ ref[cand[r].fence] = 0
  /\ cursor' = [cursor EXCEPT ![r] = Restarted(@)]
  /\ Goto(r, "walk")
  /\ UNCHANGED <<op, cand, got, room, owed, fenceVars, listVars, writerVars>>

\* and stop at a fence that the caller is to see.
WalkTest(r) ==
  /\ pc[r] = "test"
  /\ Goto(r, IF cursor[r].fence \notin sig /\ cursor[r].usage >= cand[r].usage
             THEN "check" ELSE "walk")
  /\ UNCHANGED <<op, cursor, cand, got, room, owed, fenceVars, listVars, writerVars>>

\* The end of the loop of first_unlocked() and next_unlocked(): the list has
\* been exchanged, or has not, and the call returns.
\* Mutant: the first list read is good enough.
ExchangedUnnoticed(r) == FALSE
Exchanged(r) == fences # cursor[r].fences

WalkAgain(r) ==
  /\ pc[r] = "check" /\ Exchanged(r)
  /\ cursor' = [cursor EXCEPT ![r] = Restarted(@)]
  /\ Goto(r, Walk(fences))
  /\ UNCHANGED <<op, cand, got, room, owed, fenceVars, listVars, writerVars>>

WalkReturn(r) ==
  /\ pc[r] = "check" /\ ~Exchanged(r)
  /\ RcuUnlock(r)
  /\ Goto(r, IF cursor[r].fence = None THEN "done" ELSE "body")
  /\ UNCHANGED <<op, cursor, cand, got, room, owed, ref, sig, fences, num, max, table, freed,
                 writerVars>>

\* dma_resv_iter_next_unlocked()
NextSame(r) ==
  /\ pc[r] = "next" /\ ~Exchanged(r)
  /\ cursor' = [cursor EXCEPT ![r] = Cursor(@.usage, @.fence, @.index, @.fences, @.num, 0)]
  /\ Goto(r, Walk(cursor[r].fences))
  /\ UNCHANGED <<op, cand, got, room, owed, fenceVars, listVars, writerVars>>

NextRestart(r) ==
  /\ pc[r] = "next" /\ Exchanged(r)
  /\ cursor' = [cursor EXCEPT ![r] = Restarted(@)]
  /\ Goto(r, Walk(fences))
  /\ UNCHANGED <<op, cand, got, room, owed, fenceVars, listVars, writerVars>>

\* dma_resv_iter_end() on the paths that leave the loop early
IterEnd(r) ==
  /\ Put(cursor[r].fence)
  /\ cursor' = [cursor EXCEPT ![r] = Idle]
  /\ room' = [room EXCEPT ![r] = 0] /\ owed' = [owed EXCEPT ![r] = {}]
  /\ op' = [op EXCEPT ![r] = "none"] /\ cand' = [cand EXCEPT ![r] = NoEntry]
  /\ Goto(r, "idle")
  /\ UNCHANGED <<got, sig, listVars, writerVars>>

\* dma_resv_test_signaled(): there is a fence.
TestFails(r) ==
  /\ pc[r] = "body" /\ op[r] = "test" /\ IterEnd(r)

\* dma_resv_wait_timeout(): the fence is signalled, or the time is over.
Waited(r) ==
  /\ pc[r] = "body" /\ op[r] = "wait" /\ cursor[r].fence \in sig
  /\ Goto(r, "next")
  /\ UNCHANGED <<op, cursor, cand, got, room, owed, fenceVars, listVars, writerVars>>

WaitFails(r) ==
  /\ pc[r] = "body" /\ op[r] = "wait" /\ IterEnd(r)

\* dma_resv_get_fences() and dma_resv_copy_fences(): after a restart drop what
\* was collected, one by one, and make room for what the list holds now.
Collects(r) == pc[r] = "body" /\ op[r] \in {"get", "copy"}

BeginsAgain(r) == cursor[r].restarted = 1

Room(r) == IF op[r] = "get" THEN cursor[r].num + 1 ELSE cursor[r].num

PutLast(r) ==
  /\ Put(got[r][Len(got[r])])
  /\ got' = [got EXCEPT ![r] = SubSeq(@, 1, Len(@) - 1)]

CollectDrop(r) ==
  /\ Collects(r) /\ BeginsAgain(r) /\ got[r] # <<>>
  /\ PutLast(r)
  /\ UNCHANGED <<pc, op, cursor, cand, room, owed, sig, listVars, writerVars>>

CollectFails(r) ==
  /\ Collects(r) /\ BeginsAgain(r) /\ got[r] = <<>> /\ IterEnd(r)

Collect(r) ==
  /\ Collects(r) /\ (BeginsAgain(r) => got[r] = <<>>)
  /\ room' = [room EXCEPT ![r] = IF BeginsAgain(r) THEN Room(r) ELSE @]
  /\ ref' = [ref EXCEPT ![cursor[r].fence] = @ + 1]
  /\ got' = [got EXCEPT ![r] = Append(@, cursor[r].fence)]
  /\ Goto(r, "next")
  /\ UNCHANGED <<op, cursor, cand, owed, sig, grace, listVars, writerVars>>

\* The caller has used the result and drops the references it was given.
Release(r) ==
  /\ pc[r] = "done" /\ got[r] # <<>>
  /\ PutLast(r)
  /\ owed' = [owed EXCEPT ![r] = {}]
  /\ UNCHANGED <<pc, op, cursor, cand, room, sig, listVars, writerVars>>

Return(r) ==
  /\ pc[r] = "done" /\ got[r] = <<>>
  /\ cursor' = [cursor EXCEPT ![r] = Idle]
  /\ room' = [room EXCEPT ![r] = 0] /\ owed' = [owed EXCEPT ![r] = {}]
  /\ op' = [op EXCEPT ![r] = "none"] /\ cand' = [cand EXCEPT ![r] = NoEntry]
  /\ Goto(r, "idle")
  /\ UNCHANGED <<got, fenceVars, listVars, writerVars>>

----------------------------------------------------------------------------
WriterStep ==
  \/ \E n \in 1 .. MaxReserve : ReserveEnough(n) \/ ReserveAlloc(n)
  \/ \E f \in Fences, u \in Usages : AddFence(f, u)
  \/ \E c \in Contexts, f \in Fences, u \in Usages : ReplaceFences(c, f, u)
  \/ Fini

WriterGoesOn ==
  \/ Unlock \/ ReserveCopySignaled \/ ReserveCopyActive
  \/ ReserveFirst \/ ReservePublish \/ ReserveDrop \/ ReserveFree
  \/ AddScan \/ AddReplace \/ AddPut \/ AddSet \/ AddCount
  \/ ReplaceSkip \/ ReplaceSet \/ ReplacePut \/ ReplaceDone
  \/ FiniPut \/ FiniFree

ReaderGoesOn(r) ==
  \/ Restart(r) \/ WalkEnd(r) \/ WalkEntry(r)
  \/ WalkGet(r) \/ WalkGetFails(r) \/ WalkTest(r) \/ WalkAgain(r) \/ WalkReturn(r)
  \/ NextSame(r) \/ NextRestart(r) \/ TestFails(r) \/ Waited(r)
  \/ CollectDrop(r) \/ Collect(r) \/ Release(r) \/ Return(r)

Next ==
  \/ \E f \in Fences : Signal(f)
  \/ WriterStep \/ WriterGoesOn
  \/ \E r \in Readers, o \in ReaderOps, u \in Usages \cup {Bookkeep} : Call(r, o, u)
  \/ \E r \in Readers : ReaderGoesOn(r) \/ WaitFails(r) \/ CollectFails(r)

Spec == Init /\ [][Next]_vars

\* The hardware finishes its work, the processes run.
FairSpec ==
  /\ Spec
  /\ \A f \in Fences : WF_vars(Signal(f))
  /\ WF_vars(WriterGoesOn)
  /\ \A r \in Readers : WF_vars(ReaderGoesOn(r))

----------------------------------------------------------------------------
GotFences(r) == {got[r][i] : i \in DOMAIN got[r]}

\* When a call returns success, every fence that was in the object when it
\* began and that its usage asks for has signalled, or is in the result, or
\* the same holds of a fence that took its place (dma_resv_test_signaled(),
\* _wait_timeout(), _get_fences(), _copy_fences()).
NothingMissed ==
  \A r \in Readers : pc[r] = "done" =>
    \A S \in owed[r] : S \cap GotFences(r) # {}

Bit(b) == IF b THEN 1 ELSE 0

\* The entries with f of the published list, and those at the end of a new
\* list; the places of f in the collected arrays.
Listed(f) ==
  IF wpc = "dead" THEN {}
  ELSE {j \in 1 .. NumFences : table[fences][j].fence = f /\ (wpc = "fini" => j >= wi)}
Dropping(f) == IF wpc = "drop" THEN {j \in wi .. max[wnew] : table[wnew][j].fence = f} ELSE {}
Cursors(f)  == {r \in Readers : cursor[r].fence = f}
Places(f)   == UNION {{<<r, j>> : j \in {k \in DOMAIN got[r] : got[r][k] = f}} : r \in Readers}

Held(f) ==
    Bit(f \notin sig) + Cardinality(Listed(f)) + Cardinality(Dropping(f))
  + Bit(wfence = f /\ wpc \in {"add", "addcount"}) + Bit(wput = f)
  + Cardinality(Cursors(f)) + Cardinality(Places(f))

\* Every fence has exactly the references that the driver, the published
\* list, the writer, the cursors and the collected arrays own, at each step of
\* the exchange of a list and of the replacement of an entry.
RefsExact == \A f \in Fences : ref[f] = Held(f)

\* A reader inside rcu_read_lock() never reads an entry that was not written,
\* a list or the reference count of a fence whose memory has been freed.
NoWildRead ==
  \A r \in Readers :
    /\ pc[r] = "walk" /\ cursor[r].index < cursor[r].num => ~ListGone(cursor[r].fences)
    /\ pc[r] = "get" => cand[r].fence # None /\ ~FenceGone(cand[r].fence)
    /\ cursor[r].fence # None => ref[cursor[r].fence] > 0

\* BUG_ON(fobj->num_fences >= fobj->max_fences) in dma_resv_add_fence() does
\* not strike a caller that adds no more than it reserved, and the arrays of
\* get_fences() and copy_fences() hold what is collected in them.
SlotsSuffice ==
  /\ wpc = "add" /\ wi > num[fences] => num[fences] < max[fences]
  /\ \A r \in Readers : Len(got[r]) <= room[r]

\* Every call returns: it is not restarted for ever, and all it waits for
\* signals.
CallReturns == \A r \in Readers : (pc[r] # "idle") ~> (pc[r] = "idle")
============================================================================

--------------------------- MODULE DmaFenceChain ---------------------------
(***************************************************************************)
(* The timeline of drivers/dma-buf/dma-fence-chain.c as drm_syncobj.c uses *)
(* it: syncobj->fence points to the newest dma_fence_chain, each chain     *)
(* node holds the fence of one point and a reference to the previous node, *)
(* and every walk of the chain unlinks signalled nodes with cmpxchg().     *)
(*                                                                         *)
(* Grain of atomicity.  Reading a pointer, kref_get_unless_zero(), the     *)
(* second read of dma_fence_get_rcu_safe(), cmpxchg(), every               *)
(* dma_fence_put() and every round of dma_fence_chain_release() are steps  *)
(* of their own.  drm_syncobj_add_point() initialises and publishes a node *)
(* under syncobj->lock in one step.                                        *)
(*                                                                         *)
(* Data.  A node is a dma_fence_chain together with the fence it contains  *)
(* (sig says whether that one is signalled), or a plain fence, which a     *)
(* binary syncobj may have put at the bottom of the chain.  A context      *)
(* number is the node whose initialisation allocated it.  The waiters for  *)
(* a submission (syncobj->cb_list) are left out: to the chain they are     *)
(* readers like those modelled.                                            *)
(***************************************************************************)
EXTENDS Integers, Sequences, FiniteSets

CONSTANTS
  Nodes,        \* the fences that can be created, as positive numbers
  Adders,       \* tasks that add points to the syncobj, or replace its fence
  Readers,      \* tasks that look up, poll or wait for its fence
  Worker,       \* the context that runs irq_work
  Drivers,      \* contexts in which drivers signal fences and run their callbacks
  ReaderOps,    \* what they do: a subset of {"find", "poll", "enable"}
  AdderOps,     \* a subset of {"point", "replace", "reset"}
  MaxPoint,     \* the points used are 1 .. MaxPoint
  HeapContents  \* what prev_seqno may hold after kmalloc()

ASSUME ChainAssumption ==
  /\ \A S \in {Nodes, Adders, Readers, Drivers} : IsFiniteSet(S)
  /\ Nodes \subseteq Nat \ {0} /\ MaxPoint \in Nat \ {0}
  /\ ReaderOps \subseteq {"find", "poll", "enable"} /\ AdderOps \subseteq {"point", "replace", "reset"}
  /\ HeapContents \subseteq Nat /\ HeapContents # {}
  /\ Worker \notin Adders \cup Readers
  /\ Drivers \cap (Adders \cup Readers \cup {Worker}) = {}

Procs == Adders \cup Readers \cup {Worker} \cup Drivers
None  == 0   \* NULL

VARIABLES
  \* the fences
  kind,     \* "unused", "chain" or "plain"
  ref,      \* refcount
  freed,    \* dma_fence_free() has been called
  prev, prev_seqno, seqno, context,  \* fields of the chain node
  sig,      \* the contained (or the plain) fence is signalled
  done,     \* the chain fence itself is signalled
  enabled,  \* ENABLE_SIGNAL_BIT of the chain fence
  cb,       \* cb[n]: the node whose contained fence has n's callback
  irq_work, \* the nodes whose irq_work is queued
  fence,    \* syncobj->fence
  \* the processes
  pc, op,   \* control, and the operation the walk is for
  src, cand,       \* dma_fence_get_rcu_safe(): whose pointer, and its value
  base, iter,      \* the fence of the call, and where the walk is
  pv, np,          \* prev and new_prev of dma_fence_chain_walk()
  want,            \* seqno argument of dma_fence_chain_find_seqno()
  todo,            \* puts and releases to finish before pc goes on
  \* history
  covers,   \* covers[n]: the nodes below n, and n, when n was published
  point,    \* the point n was added for
  pending   \* pending[p]: unsignalled nodes the find of p has to account for

nodeVars == <<kind, ref, freed, prev, prev_seqno, seqno, context, sig, done,
              enabled, cb, irq_work, fence, covers, point>>
procVars == <<pc, op, src, cand, base, iter, pv, np, want, todo, pending>>
vars     == <<nodeVars, procVars>>

Points == 1 .. MaxPoint
Opt(S) == S \cup {None}

Init ==
  /\ kind = [n \in Nodes |-> "unused"]
  /\ ref = [n \in Nodes |-> 0]
  /\ freed = [n \in Nodes |-> FALSE]
  /\ prev = [n \in Nodes |-> None]
  /\ prev_seqno = [n \in Nodes |-> 0]
  /\ seqno = [n \in Nodes |-> 0]
  /\ context = [n \in Nodes |-> n]
  /\ sig = [n \in Nodes |-> FALSE]
  /\ done = [n \in Nodes |-> FALSE]
  /\ enabled = [n \in Nodes |-> FALSE]
  /\ cb = [n \in Nodes |-> None]
  /\ irq_work = {}
  /\ fence = None
  /\ pc = [p \in Procs |-> "idle"]
  /\ op = [p \in Procs |-> "none"]
  /\ src = [p \in Procs |-> "head"]
  /\ cand = [p \in Procs |-> None]
  /\ base = [p \in Procs |-> None]
  /\ iter = [p \in Procs |-> None]
  /\ pv = [p \in Procs |-> None]
  /\ np = [p \in Procs |-> None]
  /\ want = [p \in Procs |-> 0]
  /\ todo = [p \in Procs |-> <<>>]
  /\ covers = [n \in Nodes |-> {}]
  /\ point = [n \in Nodes |-> 0]
  /\ pending = [p \in Procs |-> {}]

----------------------------------------------------------------------------
IsChain(n) == n # None /\ kind[n] = "chain"
Goto(p, l) == pc' = [pc EXCEPT ![p] = l]

\* p runs its own code only when it has no put or release to finish.
At(p, l) == pc[p] = l /\ todo[p] = <<>>

\* dma_fence_put() of a and then of b; dma_fence_put(NULL) does nothing.
PutOf(n) == IF n = None THEN <<>> ELSE << <<"put", n>> >>
Puts(p, a, b) == todo' = [todo EXCEPT ![p] = PutOf(a) \o PutOf(b)]

Get(n) == ref' = [ref EXCEPT ![n] = @ + 1]

\* The nodes that are reached from n through prev: those in every set that has n and
\* is closed under prev.
Closed(M) == \A m \in M : prev[m] \in Opt(M)
Below(n)  == {m \in Nodes : \A M \in SUBSET Nodes : n \in Opt(M) /\ Closed(M) => m \in M}

----------------------------------------------------------------------------
(* dma_fence_put() and dma_fence_chain_release()                           *)

Top(p) == Head(todo[p])
Then(p, tasks) == todo' = [todo EXCEPT ![p] = tasks \o Tail(@)]

\* kref_put()
Put(p) ==
  /\ todo[p] # <<>> /\ Top(p)[1] = "put"
  /\ LET n == Top(p)[2] IN
     /\ ref' = [ref EXCEPT ![n] = @ - 1]
     /\ Then(p, IF ref[n] = 1 THEN << <<"release", n>> >> ELSE <<>>)
  /\ UNCHANGED <<kind, freed, prev, prev_seqno, seqno, context, sig, done, enabled,
                 cb, irq_work, fence, covers, point,
                 pc, op, src, cand, base, iter, pv, np, want, pending>>

\* The two breaks: prev is in use elsewhere, or is not a chain node.
ReleaseStops(n) == ref[prev[n]] > 1 \/ ~IsChain(prev[n])

\* A round of the loop of dma_fence_chain_release(), up to the decision.  When
\* the loop ends, the last prev is put before the node is freed.
Release(p) ==
  /\ todo[p] # <<>> /\ Top(p)[1] = "release"
  /\ LET n == Top(p)[2] IN
     \/ /\ prev[n] # None /\ ~ReleaseStops(n)
        /\ Then(p, << <<"unlink", n>> >>)
        /\ UNCHANGED freed
     \/ /\ prev[n] # None /\ ReleaseStops(n)
        /\ Then(p, << <<"put", prev[n]>>, <<"free", n>> >>)
        /\ UNCHANGED freed
     \/ /\ prev[n] = None /\ Then(p, <<>>)
        /\ freed' = [freed EXCEPT ![n] = TRUE]
  /\ UNCHANGED <<kind, ref, prev, prev_seqno, seqno, context, sig, done, enabled,
                 cb, irq_work, fence, covers, point,
                 pc, op, src, cand, base, iter, pv, np, want, pending>>

\* Its rest: take the previous node out and drop the reference to it.
Unlink(p) ==
  /\ todo[p] # <<>> /\ Top(p)[1] = "unlink"
  /\ LET n == Top(p)[2]
         m == prev[n]
     IN /\ prev' = [prev EXCEPT ![n] = prev[m], ![m] = None]
        /\ Then(p, << <<"put", m>>, <<"release", n>> >>)
  /\ UNCHANGED <<kind, ref, freed, prev_seqno, seqno, context, sig, done, enabled,
                 cb, irq_work, fence, covers, point,
                 pc, op, src, cand, base, iter, pv, np, want, pending>>

Free(p) ==
  /\ todo[p] # <<>> /\ Top(p)[1] = "free"
  /\ freed' = [freed EXCEPT ![Top(p)[2]] = TRUE]
  /\ Then(p, <<>>)
  /\ UNCHANGED <<kind, ref, prev, prev_seqno, seqno, context, sig, done, enabled,
                 cb, irq_work, fence, covers, point,
                 pc, op, src, cand, base, iter, pv, np, want, pending>>

----------------------------------------------------------------------------
(* dma_fence_get_rcu_safe(), for syncobj->fence and in                     *)
(* dma_fence_chain_get_prev()                                              *)

Pointer(p) == CASE src[p] = "head" -> fence
                [] src[p] = "iter" -> prev[iter[p]]
                [] src[p] = "pv"   -> prev[pv[p]]

\* dma_fence_chain_walk() returns f, a reference or NULL, in place of iter.
WalkReturns(p, f) ==
  /\ Puts(p, iter[p], None)
  /\ iter' = [iter EXCEPT ![p] = f]
  /\ pv' = [pv EXCEPT ![p] = None]
  /\ Goto(p, "body")

\* Where each of the three callers keeps the fence f (or NULL) that
\* dma_fence_get_rcu_safe() returns, and goes on.
Return(p, f) ==
  /\ cand' = [cand EXCEPT ![p] = None]
  /\ \/ /\ src[p] = "head"
        /\ base' = [base EXCEPT ![p] = f]
        /\ Goto(p, IF f = None THEN "idle" ELSE "begin")
        /\ UNCHANGED <<iter, pv, np, todo>>
     \/ /\ src[p] = "iter" /\ f = None
        /\ WalkReturns(p, None)
        /\ UNCHANGED <<base, np>>
     \/ /\ src[p] = "iter" /\ f # None
        /\ pv' = [pv EXCEPT ![p] = f]
        /\ Goto(p, "test")
        /\ UNCHANGED <<base, iter, np, todo>>
     \/ /\ src[p] = "pv"
        /\ np' = [np EXCEPT ![p] = f]
        /\ Goto(p, "cmpxchg")
        /\ UNCHANGED <<base, iter, pv, todo>>

RcuRead(p) ==
  /\ At(p, "read")
  /\ IF Pointer(p) = None THEN Return(p, None)
     ELSE /\ cand' = [cand EXCEPT ![p] = Pointer(p)]
          /\ Goto(p, "get") /\ UNCHANGED <<base, iter, pv, np, todo>>
  /\ UNCHANGED <<nodeVars, op, src, want, pending>>

RcuGet(p) ==
  /\ At(p, "get")
  /\ \/ /\ ref[cand[p]] = 0 /\ Goto(p, "read")
        /\ UNCHANGED ref
     \/ /\ ref[cand[p]] > 0 /\ Goto(p, "recheck")
        /\ Get(cand[p])
  /\ UNCHANGED <<kind, freed, prev, prev_seqno, seqno, context, sig, done, enabled,
                 cb, irq_work, fence, covers, point,
                 op, src, cand, base, iter, pv, np, want, todo, pending>>

RcuRecheck(p) ==
  /\ At(p, "recheck")
  /\ IF cand[p] = Pointer(p) THEN Return(p, cand[p])
     ELSE /\ Goto(p, "read") /\ Puts(p, cand[p], None)
          /\ UNCHANGED <<cand, base, iter, pv, np>>
  /\ UNCHANGED <<nodeVars, op, src, want, pending>>

----------------------------------------------------------------------------
(* dma_fence_chain_walk()                                                  *)

\* Its beginning: a plain fence has nothing before it.
Walk(p) ==
  \/ /\ IsChain(iter[p])
     /\ src' = [src EXCEPT ![p] = "iter"]
     /\ Goto(p, "read")
     /\ UNCHANGED <<pv, todo, iter>>
  \/ /\ ~IsChain(iter[p])
     /\ WalkReturns(p, None)
     /\ UNCHANGED src

\* The previous node is kept if its fence is not signalled.
\* Mutant: the test looks at the wrong node, whose fence was just tested.
KeepsPrevOfIter(p) == ~sig[iter[p]]
KeepsPrev(p) == ~sig[pv[p]]

Test(p) ==
  /\ At(p, "test")
  /\ \/ /\ KeepsPrev(p) /\ WalkReturns(p, pv[p])
        /\ UNCHANGED <<src, np>>
     \/ /\ ~KeepsPrev(p) /\ IsChain(pv[p])
        /\ src' = [src EXCEPT ![p] = "pv"]
        /\ Goto(p, "read") /\ UNCHANGED <<iter, pv, np, todo>>
     \/ /\ ~KeepsPrev(p) /\ ~IsChain(pv[p])
        /\ np' = [np EXCEPT ![p] = None]
        /\ Goto(p, "cmpxchg") /\ UNCHANGED <<src, iter, pv, todo>>
  /\ UNCHANGED <<nodeVars, cand, op, base, want, pending>>

\* The reference that the loser of the race drops besides the one on prev.
\* Mutant: it forgets it.
LoserPutsNone(p) == None
LoserPuts(p) == np[p]

Cmpxchg(p) ==
  /\ At(p, "cmpxchg")
  /\ \/ /\ prev[iter[p]] = pv[p]
        /\ prev' = [prev EXCEPT ![iter[p]] = np[p]]
        /\ Puts(p, pv[p], pv[p])
     \/ /\ prev[iter[p]] # pv[p]
        /\ Puts(p, LoserPuts(p), pv[p])
        /\ UNCHANGED prev
  /\ pv' = [pv EXCEPT ![p] = None]
  /\ np' = [np EXCEPT ![p] = None]
  /\ src' = [src EXCEPT ![p] = "iter"]
  /\ Goto(p, "read")
  /\ UNCHANGED <<kind, ref, freed, prev_seqno, seqno, context, sig, done, enabled,
                 cb, irq_work, fence, covers, point,
                 op, cand, base, iter, want, pending>>

----------------------------------------------------------------------------
(* The loops over the chain.  base is the fence the caller holds, iter the *)
(* node the loop is at.                                                    *)

Idle(p) ==
  /\ Goto(p, "idle")
  /\ base' = [base EXCEPT ![p] = None]
  /\ iter' = [iter EXCEPT ![p] = None]
  /\ cand' = [cand EXCEPT ![p] = None]
  /\ src' = [src EXCEPT ![p] = "head"]
  /\ op' = [op EXCEPT ![p] = "none"]
  /\ want' = [want EXCEPT ![p] = 0]
  /\ pending' = [pending EXCEPT ![p] = {}]

\* A reader takes the fence of the syncobj to find a point of it, to poll it or
\* to enable signalling on it.
ReaderCall(p, o, k) ==
  /\ p \in Readers /\ At(p, "idle")
  /\ op' = [op EXCEPT ![p] = o]
  /\ want' = [want EXCEPT ![p] = k]
  /\ src' = [src EXCEPT ![p] = "head"]
  /\ Goto(p, "read")
  /\ UNCHANGED <<nodeVars, cand, base, iter, pv, np, todo, pending>>

\* The tests before the loop: -EINVAL of dma_fence_chain_find_seqno(), the
\* flags in dma_fence_is_signaled() and dma_fence_enable_sw_signaling().
\* Mutant: enabling again is not refused.
StartsAgain(p) ==
  LET b == base[p] IN
  /\ IsChain(b)
  /\ CASE op[p] = "find"   -> seqno[b] >= want[p]
       [] op[p] = "poll"   -> ~done[b]
       [] op[p] = "enable" -> ~done[b]
Starts(p) ==
  LET b == base[p] IN
  /\ IsChain(b)
  /\ CASE op[p] = "find"   -> seqno[b] >= want[p]
       [] op[p] = "poll"   -> ~done[b]
       [] op[p] = "enable" -> ~done[b] /\ ~enabled[b]

BeginRefused(p) ==
  /\ At(p, "begin") /\ ~Starts(p)
  /\ Puts(p, base[p], None) /\ Idle(p)
  /\ UNCHANGED <<nodeVars, pv, np>>

\* The references that enable_signaling takes: for the callback and the loop.
EnableRefs == 2

\* The loop takes its own reference.
Begin(p) ==
  LET b == base[p] IN
  /\ At(p, "begin") /\ Starts(p)
  /\ ref' = [ref EXCEPT ![b] = @ + (IF op[p] = "enable" THEN EnableRefs ELSE 1)]
  /\ enabled' = [enabled EXCEPT ![b] = @ \/ op[p] = "enable"]
  /\ iter' = [iter EXCEPT ![p] = b]
  /\ pending' = [pending EXCEPT ![p] =
       IF op[p] = "find" THEN {m \in Below(b) : ~sig[m] /\ point[m] <= want[p]} ELSE {}]
  /\ Goto(p, "body")
  /\ UNCHANGED <<kind, freed, prev, prev_seqno, seqno, context, sig, done, cb,
                 irq_work, fence, covers, point,
                 op, src, cand, base, pv, np, want, todo>>

\* dma_fence_chain_irq_work(): enable_signaling once more.  The reference
\* taken for the callback is now the worker's.
\* Mutant: it signals the chain without looking at the rest of it.
IrqWorkSignals(n) ==
  /\ At(Worker, "idle") /\ n \in irq_work
  /\ irq_work' = irq_work \ {n}
  /\ base' = [base EXCEPT ![Worker] = n]
  /\ op' = [op EXCEPT ![Worker] = "enable"]
  /\ Goto(Worker, "signal")
  /\ UNCHANGED <<kind, ref, freed, prev, prev_seqno, seqno, context, sig, done, enabled,
                 cb, fence, covers, point, src, cand, iter, pv, np, want, todo, pending>>
IrqWork(n) ==
  /\ At(Worker, "idle") /\ n \in irq_work
  /\ irq_work' = irq_work \ {n}
  /\ ref' = [ref EXCEPT ![n] = @ + EnableRefs]
  /\ base' = [base EXCEPT ![Worker] = n]
  /\ iter' = [iter EXCEPT ![Worker] = n]
  /\ op' = [op EXCEPT ![Worker] = "enable"]
  /\ Goto(Worker, "body")
  /\ UNCHANGED <<kind, freed, prev, prev_seqno, seqno, context, sig, done, enabled,
                 cb, fence, covers, point, src, cand, pv, np, want, todo, pending>>

\* The condition on which dma_fence_chain_find_seqno() leaves its loop.
\* Mutant: it compares the point of the node itself and so goes past it.
FoundBySeqno(p, n) == context[n] # context[base[p]] \/ seqno[n] < want[p]
Found(p, n) == context[n] # context[base[p]] \/ prev_seqno[n] < want[p]

\* The loop body leaves the loop at iter:
BodyFound(p) ==
  /\ At(p, "body") /\ op[p] = "find" /\ iter[p] # None /\ Found(p, iter[p])
  /\ Puts(p, base[p], None) /\ Goto(p, "found")
  /\ base' = [base EXCEPT ![p] = None]
  /\ UNCHANGED <<nodeVars, op, src, cand, iter, pv, np, want, pending>>

\* dma_fence_chain_signaled() finds a fence that is not signalled;
BodyUnsignaled(p) ==
  /\ At(p, "body") /\ op[p] = "poll" /\ iter[p] # None /\ ~sig[iter[p]]
  /\ Puts(p, iter[p], base[p]) /\ Idle(p)
  /\ UNCHANGED <<nodeVars, pv, np>>

\* dma_fence_chain_enable_signaling() adds its callback to such a fence, and the
\* callback has a reference to it.
BodyAddCallback(p) ==
  /\ At(p, "body") /\ op[p] = "enable" /\ iter[p] # None /\ ~sig[iter[p]]
  /\ cb' = [cb EXCEPT ![base[p]] = iter[p]]
  /\ ref' = IF IsChain(iter[p]) THEN ref ELSE [ref EXCEPT ![iter[p]] = @ + 1]
  /\ Puts(p, iter[p], base[p]) /\ Idle(p)
  /\ UNCHANGED <<kind, freed, prev, prev_seqno, seqno, context, sig, done,
                 enabled, irq_work, fence, covers, point, pv, np>>

\* On a plain fence that has signalled, it drops that reference again before the
\* walk, which ends here, drops its own.
BodyLast(p) ==
  /\ At(p, "body") /\ op[p] = "enable" /\ iter[p] # None /\ ~IsChain(iter[p]) /\ sig[iter[p]]
  /\ Get(iter[p]) /\ Puts(p, iter[p], iter[p])
  /\ iter' = [iter EXCEPT ![p] = None]
  /\ UNCHANGED <<kind, freed, prev, prev_seqno, seqno, context, sig, done, enabled,
                 cb, irq_work, fence, covers, point,
                 pc, op, src, cand, base, pv, np, want, pending>>

\* Otherwise the loop goes on with dma_fence_chain_walk().
BodyNext(p) ==
  /\ At(p, "body") /\ iter[p] # None
  /\ \/ op[p] = "gc"
     \/ op[p] = "find" /\ ~Found(p, iter[p])
     \/ op[p] = "poll" /\ sig[iter[p]]
     \/ op[p] = "enable" /\ IsChain(iter[p]) /\ sig[iter[p]]
  /\ Walk(p)
  /\ UNCHANGED <<nodeVars, op, cand, base, np, want, pending>>

\* The chain has been walked to its end: everything left is signalled, and
\* poll and enable signal the chain fence.
BodyEnd(p) ==
  /\ At(p, "body") /\ iter[p] = None
  /\ \/ /\ op[p] = "find" /\ Goto(p, "found")
        /\ Puts(p, base[p], None)
        /\ base' = [base EXCEPT ![p] = None]
        /\ UNCHANGED <<op, src, cand, iter, want, pending>>
     \/ /\ op[p] = "gc"
        /\ Puts(p, base[p], None) /\ Idle(p)
     \/ /\ op[p] \in {"poll", "enable"} /\ Goto(p, "signal")
        /\ Puts(p, IF op[p] = "enable" THEN base[p] ELSE None, None)
        /\ UNCHANGED <<op, src, cand, base, iter, want, pending>>
  /\ UNCHANGED <<nodeVars, pv, np>>

\* dma_fence_signal(&chain->base), and the caller drops its reference.
SignalChain(p) ==
  /\ At(p, "signal")
  /\ done' = [done EXCEPT ![base[p]] = TRUE]
  /\ Puts(p, base[p], None) /\ Idle(p)
  /\ UNCHANGED <<kind, ref, freed, prev, prev_seqno, seqno, context, sig, enabled,
                 cb, irq_work, fence, covers, point, pv, np>>

\* The caller of dma_fence_chain_find_seqno() is done with the fence.
FindDone(p) ==
  /\ At(p, "found")
  /\ Puts(p, iter[p], None) /\ Idle(p)
  /\ UNCHANGED <<nodeVars, pv, np>>

----------------------------------------------------------------------------
(* drm_syncobj_add_point() and drm_syncobj_replace_fence()                 *)

Fresh == {n \in Nodes : kind[n] = "unused"}

\* dma_fence_chain_init()
Later(k, f) == IsChain(f) /\ k > seqno[f]
ChainInit(n, f, k, junk) ==
  /\ kind' = [kind EXCEPT ![n] = "chain"]
  /\ prev' = [prev EXCEPT ![n] = f]
  /\ prev_seqno' = [prev_seqno EXCEPT ![n] = IF Later(k, f) THEN seqno[f] ELSE junk]
  /\ context' = [context EXCEPT ![n] = IF Later(k, f) THEN context[f] ELSE n]
  /\ seqno' = [seqno EXCEPT ![n] = IF IsChain(f) /\ ~Later(k, f) THEN seqno[f] ELSE k]

\* The references taken on the old fence: by drm_syncobj_fence_get(), which the
\* put at the end gives back, and by the walk that collects garbage.
PrevRefs == 2

\* The old fence becomes prev, with the reference the syncobj held.
AddPoint(p, n, k, junk) ==
  /\ p \in Adders /\ At(p, "idle")
  /\ ChainInit(n, fence, k, junk)
  /\ fence' = n
  /\ covers' = [covers EXCEPT ![n] = {n} \cup Below(fence)]
  /\ point' = [point EXCEPT ![n] = k]
  /\ IF fence = None
     THEN /\ ref' = [ref EXCEPT ![n] = 1]
          /\ UNCHANGED <<op, base, iter, pc>>
     ELSE /\ ref' = [ref EXCEPT ![n] = 1, ![fence] = @ + PrevRefs]
          /\ op' = [op EXCEPT ![p] = "gc"]
          /\ base' = [base EXCEPT ![p] = fence]
          /\ iter' = [iter EXCEPT ![p] = fence]
          /\ Goto(p, "body")
  /\ UNCHANGED <<freed, sig, done, enabled, cb, irq_work,
                 src, cand, pv, np, want, todo, pending>>

\* A binary signal replaces the fence by a plain one.
ReplaceFence(p, n) ==
  /\ p \in Adders /\ At(p, "idle")
  /\ kind' = [kind EXCEPT ![n] = "plain"]
  /\ ref' = [ref EXCEPT ![n] = 1]
  /\ covers' = [covers EXCEPT ![n] = {n}]
  /\ fence' = n
  /\ Puts(p, fence, None)
  /\ UNCHANGED <<freed, prev, prev_seqno, seqno, context, sig, done, enabled, cb,
                 irq_work, point, pc, op, src, cand, base, iter, pv, np, want, pending>>

\* DRM_IOCTL_SYNCOBJ_RESET replaces it by NULL.
Reset(p) ==
  /\ p \in Adders /\ At(p, "idle") /\ fence # None
  /\ fence' = None
  /\ Puts(p, fence, None)
  /\ UNCHANGED <<kind, ref, freed, prev, prev_seqno, seqno, context, sig, done, enabled,
                 cb, irq_work, covers, point,
                 pc, op, src, cand, base, iter, pv, np, want, pending>>

\* The driver signals the contained fence (external).
SignalFence(m) ==
  /\ kind[m] # "unused" /\ ~sig[m]
  /\ sig' = [sig EXCEPT ![m] = TRUE]
  /\ UNCHANGED <<kind, ref, freed, prev, prev_seqno, seqno, context, done, enabled,
                 cb, irq_work, fence, covers, point, procVars>>

\* dma_fence_chain_cb() queues the irq_work of the chain,
\* Mutant: the callback is taken for somebody else's and dropped.
QueuedNone(n) == {}
Queued(n) == {n}

\* and puts the fence it was called for.
\* Mutant: it does not.
CallbackPutsNone(m) == None
CallbackPuts(m) == IF IsChain(m) THEN None ELSE m

\* The fence n was waiting for has signalled, and its callbacks are run.
RunCallback(d, n) ==
  /\ At(d, "idle") /\ cb[n] # None /\ sig[cb[n]]
  /\ cb' = [cb EXCEPT ![n] = None]
  /\ irq_work' = irq_work \cup Queued(n)
  /\ Puts(d, CallbackPuts(cb[n]), None)
  /\ UNCHANGED <<kind, ref, freed, prev, prev_seqno, seqno, context, sig, done, enabled,
                 fence, covers, point,
                 pc, op, src, cand, base, iter, pv, np, want, pending>>

----------------------------------------------------------------------------
Step(p) ==
  \/ Put(p) \/ Release(p) \/ Unlink(p) \/ Free(p)
  \/ RcuRead(p) \/ RcuGet(p) \/ RcuRecheck(p)
  \/ Test(p) \/ Cmpxchg(p)
  \/ BeginRefused(p) \/ Begin(p) \/ BodyFound(p) \/ BodyUnsignaled(p)
  \/ BodyAddCallback(p) \/ BodyLast(p) \/ BodyNext(p) \/ BodyEnd(p) \/ SignalChain(p) \/ FindDone(p)

Call(p) ==
  \/ \E k \in Points : "find" \in ReaderOps /\ ReaderCall(p, "find", k)
  \/ \E o \in ReaderOps \ {"find"} : ReaderCall(p, o, 0)
  \/ \E n \in {m \in Fresh : \A l \in Fresh : m <= l} :
       \/ \E k \in Points, junk \in HeapContents :
            "point" \in AdderOps /\ AddPoint(p, n, k, junk)
       \/ "replace" \in AdderOps /\ ReplaceFence(p, n)
  \/ "reset" \in AdderOps /\ Reset(p)

Next ==
  \/ \E p \in Procs : Step(p)
  \/ \E p \in Adders \cup Readers : Call(p)
  \/ \E n \in Nodes : \/ IrqWork(n) \/ SignalFence(n)
                     \/ \E d \in Drivers : RunCallback(d, n)

Spec == Init /\ [][Next]_vars

\* Drivers signal their fences and run the callbacks, tasks and the irq_work context run.
FairSpec == Spec /\ \A p \in Procs : WF_vars(Step(p))
                 /\ \A n \in Nodes : /\ WF_vars(IrqWork(n)) /\ WF_vars(SignalFence(n))
                                    /\ WF_vars(\E d \in Drivers : RunCallback(d, n))

----------------------------------------------------------------------------
(* Properties                                                              *)

TypeOK ==
  /\ kind \in [Nodes -> {"unused", "chain", "plain"}]
  /\ ref \in [Nodes -> Nat] /\ freed \in [Nodes -> BOOLEAN]
  /\ prev \in [Nodes -> Opt(Nodes)] /\ context \in [Nodes -> Nodes]
  /\ prev_seqno \in [Nodes -> Nat] /\ seqno \in [Nodes -> 0 .. MaxPoint]
  /\ sig \in [Nodes -> BOOLEAN] /\ done \in [Nodes -> BOOLEAN]
  /\ enabled \in [Nodes -> BOOLEAN] /\ cb \in [Nodes -> Opt(Nodes)]
  /\ irq_work \subseteq Nodes /\ fence \in Opt(Nodes)
  /\ base \in [Procs -> Opt(Nodes)] /\ iter \in [Procs -> Opt(Nodes)]
  /\ pv \in [Procs -> Opt(Nodes)] /\ np \in [Procs -> Opt(Nodes)]
  /\ cand \in [Procs -> Opt(Nodes)]

Tasks(p) == {todo[p][i] : i \in 1 .. Len(todo[p])}

\* n is past the point of its release where it gives up chain->prev.
Dying(n) == freed[n] \/ \E p \in Procs : <<"free", n>> \in Tasks(p)

\* p is in the loop of an enable_signaling, which holds one more reference.
Enabling(p) == op[p] = "enable" /\ (iter[p] # None \/ pc[p] = "body")

\* The references to n: those of the syncobj and of the callback or irq_work of n itself,
Bit(b) == IF b THEN 1 ELSE 0
Central(n) == Bit(fence = n) + Bit(cb[n] # None \/ n \in irq_work)

\* those of the callbacks that wait for n, which is then not a chain node: the count of the
\* fence that a chain node contains is its driver's,
WaitersOf(n) == {m \in Nodes : cb[m] = n /\ ~IsChain(n)}

\* the prev pointers that have not been given up,
PrevsOf(n) == {m \in Nodes : prev[m] = n /\ ~Dying(m)}

\* the puts that are still to be done (numbered from the last one),
PutsOf(n) ==
  UNION {{<<p, d>> : d \in {i \in 0 .. Len(todo[p]) - 1 : todo[p][Len(todo[p]) - i] = <<"put", n>>}}
           : p \in Procs}

\* and what the processes have in their locals.
BaseOf(n)  == {p \in Procs : base[p] = n}
IterOf(n)  == {p \in Procs : iter[p] = n}
PvOf(n)    == {p \in Procs : pv[p] = n}
NpOf(n)    == {p \in Procs : np[p] = n}
CandOf(n)  == {p \in Procs : cand[p] = n /\ pc[p] = "recheck"}
LoopsOf(n) == {p \in Procs : base[p] = n /\ Enabling(p)}
Locals(n)  == Cardinality(BaseOf(n)) + Cardinality(IterOf(n)) + Cardinality(PvOf(n))
              + Cardinality(NpOf(n)) + Cardinality(CandOf(n)) + Cardinality(LoopsOf(n))

References(n) == Central(n) + Cardinality(WaitersOf(n)) + Cardinality(PrevsOf(n))
                 + Cardinality(PutsOf(n)) + Locals(n)

\* The count of a fence is exactly the number of references to it, and none is
\* left when it is freed: the walks, the losers of a cmpxchg() and the unlinking
\* loop of release neither leak a node nor drop a reference twice, and no walk that
\* was at a node or beside it, no callback and no live prev uses it afterwards.
RefcountExact ==
  \A n \in Nodes : kind[n] # "unused" =>
    ref[n] = References(n) /\ (freed[n] => References(n) = 0)

\* What somebody may still wait for or walk from.
InUse == {fence} \cup (UNION {{base[p], iter[p], pv[p], np[p]} : p \in Procs})
           \cup {n \in Nodes : cb[n] # None} \cup irq_work

\* Garbage collection drops nothing but signalled fences: every unsignalled
\* fence that a node in use covered when it was published is still below it.
PendingKept ==
  \A n \in InUse \ {None} : \A m \in covers[n] : sig[m] \/ m \in Below(n)

\* A chain fence is signalled only when its own fence and every fence that was
\* below it when it was published is.
ChainSignalSound ==
  \A n \in Nodes : done[n] => \A m \in covers[n] : sig[m]

\* chain->cb and chain->work share a union: the irq_work is never queued while
\* the callback is linked, and enable_signaling never links it in either case.
CallbackSlotFree ==
  /\ \A n \in Nodes : ~(cb[n] # None /\ n \in irq_work)
  /\ \A p \in Procs : Enabling(p) =>
       /\ cb[base[p]] = None /\ base[p] \notin irq_work
       /\ \A q \in Procs : Enabling(q) /\ base[q] = base[p] => q = p

\* The fence that dma_fence_chain_find_seqno() returns for a point stands for
\* all the work up to that point: each fence added for that point or an earlier
\* one is signalled, or below the returned node.  NULL means all are signalled.
FindSound ==
  \A p \in Readers : pc[p] = "found" =>
    \A m \in pending[p] : sig[m] \/ m \in Below(iter[p])

\* Once signalling is enabled on a chain fence, it is signalled: no callback of
\* a contained fence and no irq_work is lost on the way down the chain.
EnableSignals == \A n \in Nodes : enabled[n] ~> done[n]
=============================================================================

------------------------------ MODULE DmaFence ------------------------------
(***************************************************************************)
(* The fence primitive of drivers/dma-buf/dma-fence.c (FreeBSD's own       *)
(* implementation): a one-shot completion event with a list of callbacks,  *)
(* and the two ways of sleeping on it, dma_fence_default_wait() and        *)
(* dma_fence_wait_any_timeout().                                           *)
(*                                                                         *)
(* Grain of atomicity.  A critical section of fence->lock is one step when *)
(* nothing inside it can be seen without the lock.  Signalling is not: it  *)
(* sets DMA_FENCE_FLAG_SIGNALED_BIT, which dma_fence_is_signaled(),        *)
(* dma_fence_add_callback() and dma_fence_test_signaled_any() read without *)
(* the lock, before it detaches the list, stamps the fence and calls the   *)
(* callbacks, so each of these is a step of its own taken with the lock.   *)
(*                                                                         *)
(* Data.  A callback node is identified by its owner p and its fence f, so *)
(* a list of nodes of f is a set of owners: the callbacks of a fence are   *)
(* called in any order, which includes the order of the code's list.       *)
(* A timeout is "zero", "finite" (it may expire whenever the task sleeps), *)
(* "long" (finite, and too large for an int) or "forever"                  *)
(* (MAX_SCHEDULE_TIMEOUT); the result rv of a wait is "pos", "zero" or     *)
(* "neg" (-ERESTARTSYS for a wait, -ENOENT for a callback).                *)
(***************************************************************************)
EXTENDS FiniteSets

CONSTANTS
  Fences,     \* the fences
  SwFences,   \* those whose ops have neither ->enable_signaling nor ->signaled
  Waiters,    \* tasks that sleep on fences
  Clients,    \* drivers that add and remove callbacks, and poll
  CallTimeouts, \* the timeouts the callers of a wait pass
  Irq         \* the context that completes fences for the hardware

Procs == Waiters \cup Clients \cup {Irq}
None  == "none"
Timeouts == {"zero", "finite", "long", "forever"}

ASSUME FenceAssumption == Fences # {} /\ SwFences \subseteq Fences
ASSUME RoleAssumption  == /\ Waiters \cap Clients = {}
                          /\ Irq \notin Waiters \cup Clients
                          /\ None \notin Procs
ASSUME TimeoutAssumption == CallTimeouts \subseteq Timeouts

VARIABLES
  \* the fence
  signaled,  \* DMA_FENCE_FLAG_SIGNALED_BIT
  stamped,   \* DMA_FENCE_FLAG_TIMESTAMP_BIT: the timestamp has overwritten the
             \* head of cb_list, with which it shares a union
  enabled,   \* DMA_FENCE_FLAG_ENABLE_SIGNAL_BIT
  cb_list,   \* cb_list[f]: owners of the nodes linked on fence->cb_list
  walk,      \* walk[f]: owners of the nodes on the signaller's local cb_list
  lock,      \* holder of fence->lock between two steps, or None
  \* the hardware behind it
  hw,        \* the operation the fence stands for has completed
  armed,     \* the driver will call dma_fence_signal() when it has
  \* the processes
  pc, fen, ret, \* control, the fence in hand, where a signal call returns to
  arr, scan,    \* the fences of wait_any, and those its current loop has left
  tmo, intr, rv,\* arguments and result of the call
  task,         \* the task is runnable (TASK_RUNNING)
  mem,          \* mem[p]: fences for which p's callback node is allocated
  ran,          \* ran[p]: those whose callback has been called
  preSig        \* history: a fence of the call was signalled when it began

fenceVars == <<signaled, stamped, enabled, cb_list, walk, lock, hw, armed>>
procVars  == <<pc, fen, ret, arr, scan, tmo, intr, rv, task, mem, ran, preSig>>
vars      == <<fenceVars, procVars>>

Results  == {"pos", "zero", "neg"}
AnyFence == CHOOSE f \in Fences : TRUE   \* fen of a process outside any call
PCs == {"idle", "enable", "wait", "sched", "relock",
        "poll", "add", "add_locked", "prepare", "test", "any_sched", "cleanup",
        "sig_lock", "sig_stamp", "sig_run", "done"}

Init ==
  /\ signaled = [f \in Fences |-> FALSE]
  /\ stamped  = [f \in Fences |-> FALSE]
  /\ enabled  = [f \in Fences |-> FALSE]
  /\ cb_list  = [f \in Fences |-> {}]
  /\ walk     = [f \in Fences |-> {}]
  /\ lock     = [f \in Fences |-> None]
  /\ hw       = [f \in Fences |-> FALSE]
  /\ armed    = [f \in Fences |-> f \in SwFences]
  /\ pc       = [p \in Procs |-> "idle"]
  /\ fen      = [p \in Procs |-> AnyFence]
  /\ ret      = [p \in Procs |-> "idle"]
  /\ arr      = [p \in Procs |-> {}]
  /\ scan     = [p \in Procs |-> {}]
  /\ tmo      = [p \in Procs |-> "forever"]
  /\ intr     = [p \in Procs |-> FALSE]
  /\ rv       = [p \in Procs |-> "zero"]
  /\ task     = [p \in Procs |-> TRUE]
  /\ mem      = [p \in Procs |-> {}]
  /\ ran      = [p \in Procs |-> {}]
  /\ preSig   = [p \in Procs |-> FALSE]

----------------------------------------------------------------------------
(* Helpers                                                                 *)

Goto(p, l) == pc' = [pc EXCEPT ![p] = l]
Set(p, v)  == rv' = [rv EXCEPT ![p] = v]

\* !list_empty(&cb->node): the node is on the fence's list or on the local
\* list of the call that is signalling the fence.
Linked(p, f) == p \in cb_list[f] \cup walk[f]

\* The condition under which ops->enable_signaling() is called.
\* Mutant: the flag is set, but the driver is never told.
EnableForgotten(f) == FALSE
MustEnable(f) == ~signaled[f] /\ ~enabled[f] /\ f \notin SwFences

\* test_and_set_bit(ENABLE_SIGNAL), and ops->enable_signaling() if it must be
\* called and answers TRUE: the driver has armed its completion interrupt.
EnableSignal(f) ==
  /\ enabled' = [enabled EXCEPT ![f] = TRUE]
  /\ armed' = [armed EXCEPT ![f] = @ \/ MustEnable(f)]

\* ops->enable_signaling() answers FALSE, which it may only do because the
\* hardware has completed (it may also arm a late interrupt and answer TRUE).
EnableFails(f) ==
  /\ MustEnable(f) /\ hw[f]
  /\ enabled' = [enabled EXCEPT ![f] = TRUE]

\* test_and_set_bit(SIGNALED) succeeded: the caller owns the signalling of f
\* and continues at r when all callbacks have been called and the lock dropped.
BeginSignal(p, f, r) ==
  /\ signaled' = [signaled EXCEPT ![f] = TRUE]
  /\ lock' = [lock EXCEPT ![f] = p]
  /\ fen' = [fen EXCEPT ![p] = f]
  /\ ret' = [ret EXCEPT ![p] = r]
  /\ Goto(p, "sig_stamp")

----------------------------------------------------------------------------
(* The hardware and dma_fence_signal()                                     *)

\* The operation completes (external: the GPU).
HwComplete(f) ==
  /\ ~hw[f]
  /\ hw' = [hw EXCEPT ![f] = TRUE]
  /\ UNCHANGED <<signaled, stamped, enabled, cb_list, walk, lock, armed, procVars>>

\* The driver's completion path takes a completed fence off its own list and
\* calls dma_fence_signal() on it (external: it does so once per fence).
IrqTake(f) ==
  /\ pc[Irq] = "idle" /\ hw[f] /\ armed[f]
  /\ armed' = [armed EXCEPT ![f] = FALSE]
  /\ fen' = [fen EXCEPT ![Irq] = f]
  /\ ret' = [ret EXCEPT ![Irq] = "done"]
  /\ Goto(Irq, "sig_lock")
  /\ UNCHANGED <<signaled, stamped, enabled, cb_list, walk, lock, hw,
                 arr, scan, tmo, intr, rv, task, mem, ran, preSig>>

\* dma_fence_signal() on a signalled fence: -EINVAL.
SignalAgain(p) ==
  /\ pc[p] = "sig_lock" /\ lock[fen[p]] = None /\ signaled[fen[p]]
  /\ Goto(p, ret[p])
  /\ UNCHANGED <<fenceVars, fen, ret, arr, scan, tmo, intr, rv, task, mem, ran,
                 preSig>>

\* dma_fence_signal() sets the flag; the lock stays with p.
SignalFirst(p) ==
  /\ pc[p] = "sig_lock" /\ lock[fen[p]] = None /\ ~signaled[fen[p]]
  /\ BeginSignal(p, fen[p], ret[p])
  /\ UNCHANGED <<stamped, enabled, cb_list, walk, hw, armed,
                 arr, scan, tmo, intr, rv, task, mem, ran, preSig>>

\* list_replace(&fence->cb_list, &cb_list).
\* Mutant: the timestamp is stored first, over the head of the list.
DetachedAfterStamp(f) == {}
Detached(f) == cb_list[f]

\* list_replace() to the local head, then the timestamp and its flag.
SignalStamp(p) ==
  LET f == fen[p] IN
  /\ pc[p] = "sig_stamp"
  /\ walk' = [walk EXCEPT ![f] = Detached(f)]
  /\ cb_list' = [cb_list EXCEPT ![f] = {}]
  /\ stamped' = [stamped EXCEPT ![f] = TRUE]
  /\ Goto(p, "sig_run")
  /\ UNCHANGED <<signaled, enabled, lock, hw, armed, fen, ret, arr, scan,
                 tmo, intr, rv, task, mem, ran, preSig>>

\* One round of list_for_each_entry_safe(): unlink q's node, call its func.
\* dma_fence_default_wait_cb() wakes the waiter; a client's func is external.
SignalCallback(p, q) ==
  LET f == fen[p] IN
  /\ pc[p] = "sig_run" /\ q \in walk[f]
  /\ walk' = [walk EXCEPT ![f] = @ \ {q}]
  /\ ran' = [ran EXCEPT ![q] = @ \cup {f}]
  /\ task' = [task EXCEPT ![q] = TRUE]
  /\ UNCHANGED <<signaled, stamped, enabled, cb_list, lock, hw, armed,
                 pc, fen, ret, arr, scan, tmo, intr, rv, mem, preSig>>

SignalUnlock(p) ==
  /\ pc[p] = "sig_run" /\ walk[fen[p]] = {}
  /\ lock' = [lock EXCEPT ![fen[p]] = None]
  /\ Goto(p, ret[p])
  /\ UNCHANGED <<signaled, stamped, enabled, cb_list, walk, hw, armed,
                 fen, ret, arr, scan, tmo, intr, rv, task, mem, ran, preSig>>

----------------------------------------------------------------------------
(* dma_fence_wait_timeout() with the default wait                          *)

WaitCall(p, f, t, i) ==
  /\ p \in Waiters /\ pc[p] = "idle"
  /\ fen' = [fen EXCEPT ![p] = f]
  /\ arr' = [arr EXCEPT ![p] = {f}]
  /\ tmo' = [tmo EXCEPT ![p] = t]
  /\ intr' = [intr EXCEPT ![p] = i]
  /\ preSig' = [preSig EXCEPT ![p] = signaled[f]]
  /\ Goto(p, "enable")
  /\ UNCHANGED <<fenceVars, ret, scan, rv, task, mem, ran>>

\* dma_fence_enable_sw_signaling()
EnableSwSignaling(p) ==
  /\ pc[p] = "enable" /\ lock[fen[p]] = None
  /\ EnableSignal(fen[p])
  /\ Goto(p, "wait")
  /\ UNCHANGED <<signaled, stamped, cb_list, walk, lock, hw, fen, ret, arr, scan,
                 tmo, intr, rv, task, mem, ran, preSig>>

\* The same when the driver answers FALSE: dma_fence_signal_locked().
EnableSwSignalingFails(p) ==
  /\ pc[p] = "enable" /\ lock[fen[p]] = None
  /\ EnableFails(fen[p])
  /\ BeginSignal(p, fen[p], "wait")
  /\ UNCHANGED <<stamped, cb_list, walk, hw, armed, arr, scan, tmo, intr, rv,
                 task, mem, ran, preSig>>

\* What dma_fence_default_wait() does with the lock first taken.
WaitStart(p, f) ==
  IF signaled[f] THEN "pos" ELSE IF tmo[p] = "zero" THEN "zero" ELSE "sleep"

\* dma_fence_wait_timeout() keeps the signed long v that the wait returned in
\* an int: of a remaining time that does not fit, low is what is left.
IntOf(p, v, low) == IF tmo[p] = "long" /\ v = "pos" THEN low ELSE v

\* dma_fence_default_wait() that returns at once.
DefaultWaitOut(p, low) ==
  /\ pc[p] = "wait" /\ lock[fen[p]] = None /\ WaitStart(p, fen[p]) # "sleep"
  /\ Set(p, IntOf(p, WaitStart(p, fen[p]), low)) /\ Goto(p, "done")
  /\ UNCHANGED <<fenceVars, fen, ret, arr, scan, tmo, intr, task, mem, ran, preSig>>

\* dma_fence_default_wait() up to the first schedule_timeout().
DefaultWait(p) ==
  LET f == fen[p] IN
  /\ pc[p] = "wait" /\ lock[f] = None /\ WaitStart(p, f) = "sleep"
  /\ cb_list' = [cb_list EXCEPT ![f] = @ \cup {p}]
  /\ mem' = [mem EXCEPT ![p] = @ \cup {f}]
  /\ ran' = [ran EXCEPT ![p] = @ \ {f}]
  /\ task' = [task EXCEPT ![p] = FALSE]
  /\ Set(p, "pos") /\ Goto(p, "sched")
  /\ UNCHANGED <<signaled, stamped, enabled, walk, lock, hw, armed,
                 fen, ret, arr, scan, tmo, intr, preSig>>

\* schedule_timeout(rv) returns r: what is left when the task was woken or a
\* signal arrived in an interruptible sleep, 0 when the timeout expired.
Slept(p, r) == \/ r = rv[p] /\ (task[p] \/ intr[p])
               \/ r = "zero" /\ tmo[p] \in {"finite", "long"}

Schedule(p, r) ==
  /\ pc[p] = "sched" /\ Slept(p, r)
  /\ task' = [task EXCEPT ![p] = TRUE]
  /\ Set(p, r) /\ Goto(p, "relock")
  /\ UNCHANGED <<fenceVars, fen, ret, arr, scan, tmo, intr, mem, ran, preSig>>

\* A wake-up meant for another sleep of the task (external).
SpuriousWake(p) ==
  /\ pc[p] \in {"sched", "any_sched"} /\ ~task[p]
  /\ task' = [task EXCEPT ![p] = TRUE]
  /\ UNCHANGED <<fenceVars, pc, fen, ret, arr, scan, tmo, intr, rv, mem, ran, preSig>>

\* "if (rv > 0 && intr && signal_pending(current)) rv = -ERESTARTSYS"
AfterSleep(p, v, r) == r = v \/ (v = "pos" /\ intr[p] /\ r = "neg")

\* The negated condition of the loop of dma_fence_default_wait().
\* Mutant: being woken is taken for being signalled.
WaitOverOnWake(f, r) == TRUE
WaitOver(f, r) == signaled[f] \/ r # "pos"

\* list_del() of a node from whichever list it is on.
\* Mutant: the node is left on fence->cb_list.
UnlinkNothing(p, f) == UNCHANGED <<cb_list, walk>>
Unlink(p, f) ==
  /\ cb_list' = [cb_list EXCEPT ![f] = @ \ {p}]
  /\ walk' = [walk EXCEPT ![f] = @ \ {p}]

\* The rest of that loop: sleep again ...
RelockSleep(p, r) ==
  /\ pc[p] = "relock" /\ lock[fen[p]] = None
  /\ AfterSleep(p, rv[p], r) /\ ~WaitOver(fen[p], r)
  /\ task' = [task EXCEPT ![p] = FALSE]
  /\ Set(p, r) /\ Goto(p, "sched")
  /\ UNCHANGED <<fenceVars, fen, ret, arr, scan, tmo, intr, mem, ran, preSig>>

\* ... or unlink the node, which goes away with the stack frame, and return.
RelockDone(p, r, low) ==
  /\ pc[p] = "relock" /\ lock[fen[p]] = None
  /\ AfterSleep(p, rv[p], r) /\ WaitOver(fen[p], r)
  /\ Unlink(p, fen[p])
  /\ mem' = [mem EXCEPT ![p] = @ \ {fen[p]}]
  /\ Set(p, IntOf(p, r, low)) /\ Goto(p, "done")
  /\ UNCHANGED <<signaled, stamped, enabled, lock, hw, armed,
                 fen, ret, arr, scan, tmo, intr, task, ran, preSig>>

----------------------------------------------------------------------------
(* dma_fence_add_callback() and dma_fence_remove_callback(), called by a   *)
(* client, or for each fence by dma_fence_wait_any_timeout(), which keeps  *)
(* in scan the fences its current loop has left                            *)

CallsAdd(p, f) ==
  \/ p \in Clients /\ pc[p] = "idle" /\ f \notin mem[p]
  \/ pc[p] = "add" /\ f \in scan[p]

AddReturns(p) == IF p \in Waiters THEN "add" ELSE "done"

\* -ENOENT: the node is not linked.  wait_any goes to its cleanup loop with
\* the fences added so far and its timeout as the result.
AddFailed(p) == IF p \in Waiters THEN "cleanup" ELSE "done"
AddRefused(p, f) ==
  /\ scan' = [scan EXCEPT ![p] = IF p \in Waiters THEN mem[p] \ {f} ELSE @]
  /\ rv' = [rv EXCEPT ![p] = IF p \in Waiters THEN @ ELSE "neg"]

\* The test of the flag before the lock is taken.
AddCallbackFast(p, f) ==
  /\ CallsAdd(p, f) /\ signaled[f]
  /\ fen' = [fen EXCEPT ![p] = f]
  /\ AddRefused(p, f) /\ Goto(p, AddFailed(p))
  /\ UNCHANGED <<fenceVars, ret, arr, tmo, intr, task, mem, ran, preSig>>

AddCallbackSlow(p, f) ==
  /\ CallsAdd(p, f) /\ ~signaled[f]
  /\ fen' = [fen EXCEPT ![p] = f]
  /\ Goto(p, "add_locked")
  /\ UNCHANGED <<fenceVars, ret, arr, scan, tmo, intr, rv, task, mem, ran, preSig>>

\* The test of the flag repeated under the lock.
\* Mutant: the unlocked test is thought to be enough.
RecheckSkipped(f) == FALSE
Recheck(f) == signaled[f]

\* The critical section: the fence was signalled in the meantime,
AddCallbackLate(p) ==
  /\ pc[p] = "add_locked" /\ lock[fen[p]] = None /\ Recheck(fen[p])
  /\ enabled' = [enabled EXCEPT ![fen[p]] = TRUE]
  /\ AddRefused(p, fen[p]) /\ Goto(p, AddFailed(p))
  /\ UNCHANGED <<signaled, stamped, cb_list, walk, lock, hw, armed,
                 fen, ret, arr, tmo, intr, task, mem, ran, preSig>>

\* or signalling is on and the node is linked,
AddCallbackLink(p) ==
  LET f == fen[p] IN
  /\ pc[p] = "add_locked" /\ lock[f] = None /\ ~Recheck(f)
  /\ EnableSignal(f)
  /\ cb_list' = [cb_list EXCEPT ![f] = @ \cup {p}]
  /\ mem' = [mem EXCEPT ![p] = @ \cup {f}]
  /\ ran' = [ran EXCEPT ![p] = @ \ {f}]
  /\ scan' = [scan EXCEPT ![p] = @ \ {f}]
  /\ Set(p, "pos") /\ Goto(p, AddReturns(p))
  /\ UNCHANGED <<signaled, stamped, walk, lock, hw, fen, ret, arr, tmo, intr,
                 task, preSig>>

\* or the driver answers FALSE and the caller signals the fence itself.
AddCallbackFails(p) ==
  /\ pc[p] = "add_locked" /\ lock[fen[p]] = None /\ ~Recheck(fen[p])
  /\ EnableFails(fen[p])
  /\ BeginSignal(p, fen[p], AddFailed(p))
  /\ AddRefused(p, fen[p])
  /\ UNCHANGED <<stamped, cb_list, walk, hw, armed, arr, tmo, intr, task, mem,
                 ran, preSig>>

\* dma_fence_remove_callback(): the answer, and unlinking under the lock.
\* Mutant: the answer ignores that the callback may have been called.
RemoveAlways(p, f) == "pos"
RemoveAnswer(p, f) == IF Linked(p, f) THEN "pos" ELSE "zero"
RemoveCallback(p, f) == lock[f] = None /\ Unlink(p, f)

\* The client frees the node after removing it.
ClientRemove(p, f) ==
  /\ p \in Clients /\ pc[p] = "idle" /\ f \in mem[p]
  /\ RemoveCallback(p, f)
  /\ mem' = [mem EXCEPT ![p] = @ \ {f}]
  /\ fen' = [fen EXCEPT ![p] = f]
  /\ Set(p, RemoveAnswer(p, f)) /\ Goto(p, "done")
  /\ UNCHANGED <<signaled, stamped, enabled, lock, hw, armed,
                 ret, arr, scan, tmo, intr, task, ran, preSig>>

\* dma_fence_is_signaled(): with the flag clear, ops->signaled() may say that
\* the hardware has completed, and then the caller signals the fence.
Completed(f) == ~signaled[f] /\ hw[f] /\ f \notin SwFences

ClientPoll(p, f) ==
  /\ p \in Clients /\ pc[p] = "idle" /\ Completed(f)
  /\ fen' = [fen EXCEPT ![p] = f]
  /\ ret' = [ret EXCEPT ![p] = "done"]
  /\ Goto(p, "sig_lock")
  /\ UNCHANGED <<fenceVars, arr, scan, tmo, intr, rv, task, mem, ran, preSig>>

----------------------------------------------------------------------------
(* dma_fence_wait_any_timeout()                                            *)

WaitAnyCall(p, fs, t, i) ==
  /\ p \in Waiters /\ pc[p] = "idle" /\ fs # {}
  /\ arr' = [arr EXCEPT ![p] = fs]
  /\ scan' = [scan EXCEPT ![p] = fs]
  /\ tmo' = [tmo EXCEPT ![p] = t]
  /\ intr' = [intr EXCEPT ![p] = i]
  /\ preSig' = [preSig EXCEPT ![p] = \E f \in fs : signaled[f]]
  /\ Set(p, IF t = "zero" THEN "zero" ELSE "pos")
  /\ Goto(p, IF t = "zero" THEN "poll" ELSE "add")
  /\ UNCHANGED <<fenceVars, fen, ret, task, mem, ran>>

\* The polling loop of a zero timeout: dma_fence_is_signaled() on each fence
\* finds the flag set,
AnyPollSignaled(p, f) ==
  /\ pc[p] = "poll" /\ f \in scan[p] /\ signaled[f]
  /\ fen' = [fen EXCEPT ![p] = f]
  /\ Set(p, "pos") /\ Goto(p, "done")
  /\ UNCHANGED <<fenceVars, ret, arr, scan, tmo, intr, task, mem, ran, preSig>>

\* finds the hardware done,
AnyPollCompleted(p, f) ==
  /\ pc[p] = "poll" /\ f \in scan[p] /\ Completed(f)
  /\ fen' = [fen EXCEPT ![p] = f]
  /\ ret' = [ret EXCEPT ![p] = "done"]
  /\ Set(p, "pos") /\ Goto(p, "sig_lock")
  /\ UNCHANGED <<fenceVars, arr, scan, tmo, intr, task, mem, ran, preSig>>

\* or goes on to the next fence,
AnyPollNext(p, f) ==
  /\ pc[p] = "poll" /\ f \in scan[p] /\ ~signaled[f] /\ ~Completed(f)
  /\ scan' = [scan EXCEPT ![p] = @ \ {f}]
  /\ UNCHANGED <<fenceVars, pc, fen, ret, arr, tmo, intr, rv, task, mem, ran, preSig>>

\* and the loop ends.
AnyPollNone(p) ==
  /\ pc[p] = "poll" /\ scan[p] = {}
  /\ Goto(p, "done")
  /\ UNCHANGED <<fenceVars, fen, ret, arr, scan, tmo, intr, rv, task, mem, ran, preSig>>

\* A callback has been added to every fence.
AnyAdded(p) ==
  /\ pc[p] = "add" /\ scan[p] = {}
  /\ Goto(p, "prepare")
  /\ UNCHANGED <<fenceVars, fen, ret, arr, scan, tmo, intr, rv, task, mem, ran, preSig>>

\* Top of the sleeping loop: set_current_state(), or leave it when rv <= 0.
AnyPrepare(p) ==
  /\ pc[p] = "prepare"
  /\ task' = [task EXCEPT ![p] = rv[p] # "pos"]
  /\ scan' = [scan EXCEPT ![p] = arr[p]]
  /\ Goto(p, IF rv[p] = "pos" THEN "test" ELSE "cleanup")
  /\ UNCHANGED <<fenceVars, fen, ret, arr, tmo, intr, rv, mem, ran, preSig>>

\* dma_fence_test_signaled_any(), fence by fence and without their locks.
AnyTestSignaled(p, f) ==
  /\ pc[p] = "test" /\ f \in scan[p] /\ signaled[f]
  /\ fen' = [fen EXCEPT ![p] = f]
  /\ scan' = [scan EXCEPT ![p] = arr[p]]
  /\ task' = [task EXCEPT ![p] = TRUE]
  /\ Goto(p, "cleanup")
  /\ UNCHANGED <<fenceVars, ret, arr, tmo, intr, rv, mem, ran, preSig>>

AnyTestNext(p, f) ==
  /\ pc[p] = "test" /\ f \in scan[p] /\ ~signaled[f]
  /\ scan' = [scan EXCEPT ![p] = @ \ {f}]
  /\ UNCHANGED <<fenceVars, pc, fen, ret, arr, tmo, intr, rv, task, mem, ran, preSig>>

\* All fences tested unsignalled: the task state is still the one set before.
\* Mutant: set_current_state() is called after the test, not before it.
TaskStateLate(p) == task' = [task EXCEPT ![p] = FALSE]
TaskState(p) == task' = task

AnyTestNone(p) ==
  /\ pc[p] = "test" /\ scan[p] = {}
  /\ TaskState(p) /\ Goto(p, "any_sched")
  /\ UNCHANGED <<fenceVars, fen, ret, arr, scan, tmo, intr, rv, mem, ran, preSig>>

\* schedule_timeout() in the loop, then the check for a pending signal.
AnySchedule(p, v, r) ==
  /\ pc[p] = "any_sched" /\ Slept(p, v) /\ AfterSleep(p, v, r)
  /\ task' = [task EXCEPT ![p] = TRUE]
  /\ Set(p, r) /\ Goto(p, "prepare")
  /\ UNCHANGED <<fenceVars, fen, ret, arr, scan, tmo, intr, mem, ran, preSig>>

\* cb_cleanup: remove each callback that was added, then free the array.
AnyCleanup(p, f) ==
  /\ pc[p] = "cleanup" /\ f \in scan[p]
  /\ RemoveCallback(p, f)
  /\ scan' = [scan EXCEPT ![p] = @ \ {f}]
  /\ UNCHANGED <<signaled, stamped, enabled, lock, hw, armed,
                 pc, fen, ret, arr, tmo, intr, rv, task, mem, ran, preSig>>

AnyFree(p) ==
  /\ pc[p] = "cleanup" /\ scan[p] = {}
  /\ mem' = [mem EXCEPT ![p] = {}]
  /\ Goto(p, "done")
  /\ UNCHANGED <<fenceVars, fen, ret, arr, scan, tmo, intr, rv, task, ran, preSig>>

\* The call returns to its caller and its locals are gone.
Return(p) ==
  /\ pc[p] = "done"
  /\ Goto(p, "idle")
  /\ fen' = [fen EXCEPT ![p] = AnyFence]
  /\ ret' = [ret EXCEPT ![p] = "idle"]
  /\ arr' = [arr EXCEPT ![p] = {}]
  /\ scan' = [scan EXCEPT ![p] = {}]
  /\ tmo' = [tmo EXCEPT ![p] = "forever"]
  /\ intr' = [intr EXCEPT ![p] = FALSE]
  /\ rv' = [rv EXCEPT ![p] = "zero"]
  /\ preSig' = [preSig EXCEPT ![p] = FALSE]
  /\ ran' = [ran EXCEPT ![p] = @ \cap mem[p]]
  /\ UNCHANGED <<fenceVars, task, mem>>

----------------------------------------------------------------------------
\* The steps a process takes inside a call; starting a call is its own choice.
SignalStep(p) ==
  \/ SignalAgain(p) \/ SignalFirst(p) \/ SignalStamp(p) \/ SignalUnlock(p)
  \/ \E q \in Procs : SignalCallback(p, q)

WaitStep(p) ==
  \/ EnableSwSignaling(p) \/ EnableSwSignalingFails(p)
  \/ DefaultWait(p)
  \/ \E r \in Results : DefaultWaitOut(p, r) \/ Schedule(p, r) \/ RelockSleep(p, r)
  \/ \E r, low \in Results : RelockDone(p, r, low)

AddStep(p) == AddCallbackLate(p) \/ AddCallbackLink(p) \/ AddCallbackFails(p)

AnyStep(p) ==
  \/ \E f \in Fences : \/ AnyPollSignaled(p, f) \/ AnyPollCompleted(p, f)
                       \/ AnyPollNext(p, f)
                       \/ pc[p] = "add" /\ AddCallbackFast(p, f)
                       \/ pc[p] = "add" /\ AddCallbackSlow(p, f)
                       \/ AnyTestSignaled(p, f) \/ AnyTestNext(p, f)
                       \/ AnyCleanup(p, f)
  \/ AnyPollNone(p) \/ AnyAdded(p) \/ AnyPrepare(p) \/ AnyTestNone(p) \/ AnyFree(p)
  \/ \E v, r \in Results : AnySchedule(p, v, r)

Step(p) == SignalStep(p) \/ WaitStep(p) \/ AddStep(p) \/ AnyStep(p) \/ Return(p)

Call(p) ==
  \/ \E f \in Fences, t \in CallTimeouts, i \in BOOLEAN : WaitCall(p, f, t, i)
  \/ \E fs \in SUBSET Fences, t \in CallTimeouts, i \in BOOLEAN : WaitAnyCall(p, fs, t, i)
  \/ \E f \in Fences : \/ pc[p] = "idle" /\ AddCallbackFast(p, f)
                       \/ pc[p] = "idle" /\ AddCallbackSlow(p, f)
                       \/ ClientRemove(p, f) \/ ClientPoll(p, f)

Next ==
  \/ \E f \in Fences : HwComplete(f) \/ IrqTake(f)
  \/ \E p \in Procs : Step(p) \/ Call(p) \/ SpuriousWake(p)

Spec == Init /\ [][Next]_vars

\* The GPU completes what it was given (or its reset completes it), the
\* interrupt context runs, and a task that can run is scheduled.  Calls are
\* not fair: nobody has to wait or to add a callback.
Fairness ==
  /\ \A f \in Fences : WF_vars(HwComplete(f)) /\ WF_vars(IrqTake(f))
  /\ \A p \in Procs : WF_vars(Step(p))

FairSpec == Spec /\ Fairness

----------------------------------------------------------------------------
(* Properties                                                              *)

TypeOK ==
  /\ signaled \in [Fences -> BOOLEAN] /\ stamped \in [Fences -> BOOLEAN]
  /\ enabled \in [Fences -> BOOLEAN]
  /\ hw \in [Fences -> BOOLEAN] /\ armed \in [Fences -> BOOLEAN]
  /\ cb_list \in [Fences -> SUBSET Procs] /\ walk \in [Fences -> SUBSET Procs]
  /\ lock \in [Fences -> Procs \cup {None}]
  /\ pc \in [Procs -> PCs] /\ ret \in [Procs -> PCs]
  /\ fen \in [Procs -> Fences]
  /\ arr \in [Procs -> SUBSET Fences] /\ scan \in [Procs -> SUBSET Fences]
  /\ tmo \in [Procs -> CallTimeouts \cup {"forever"}] /\ rv \in [Procs -> Results]
  /\ intr \in [Procs -> BOOLEAN] /\ task \in [Procs -> BOOLEAN]
  /\ preSig \in [Procs -> BOOLEAN]
  /\ mem \in [Procs -> SUBSET Fences] /\ ran \in [Procs -> SUBSET Fences]

\* A node that the signaller can still reach belongs to a live caller: the
\* stack frame of dma_fence_default_wait(), the array of
\* dma_fence_wait_any_timeout() or the client's memory holding it has not been
\* given up, and its callback has not been called before.
NodesLive ==
  \A p \in Procs, f \in Fences :
    Linked(p, f) => f \in mem[p] /\ f \notin ran[p]

\* Nothing is linked on a list whose head the timestamp has overwritten: the
\* two share a union in struct dma_fence, so a dma_fence_add_callback() or a
\* dma_fence_default_wait() that still linked a node would write through it.
HeadNotClobbered == \A f \in Fences : stamped[f] => cb_list[f] = {}

\* No callback is lost.  When the signalling of a fence is over, every
\* callback that was added and not removed has been called, however adding
\* raced with the unlocked test of the flag.
NoCallbackLost ==
  \A p \in Procs, f \in Fences :
    f \in mem[p] /\ pc[p] # "cleanup" /\ signaled[f] /\ lock[f] = None
      => f \in ran[p]

\* No wake-up is lost between testing the flag and going to sleep: a sleeping
\* task one of whose fences is signalled is still on the list of the call that
\* is signalling it, and so will be woken.
NoLostWakeup ==
  \A p \in Waiters : pc[p] \in {"sched", "any_sched"} /\ ~task[p] =>
    \A f \in arr[p] : signaled[f] => Linked(p, f)

\* A positive result of a wait names (in *idx for wait_any) a fence of the
\* call that is signalled.
WaitResultSound ==
  \A p \in Waiters : pc[p] = "done" /\ rv[p] = "pos" =>
    fen[p] \in arr[p] /\ signaled[fen[p]]

\* A wait that began when a fence of the call was already signalled neither
\* times out nor fails, whatever its timeout.
SignalledNeverTimesOut ==
  \A p \in Waiters : pc[p] = "done" /\ preSig[p] => rv[p] = "pos"

\* dma_fence_remove_callback() answers TRUE exactly when the callback has not
\* been called, and then it never is: the caller may free the node.
RemoveDecides ==
  [][\A p \in Clients, f \in Fences :
       f \in mem[p] /\ f \notin mem'[p]
         => /\ rv'[p] = "pos" <=> f \notin ran[p]
            /\ p \notin cb_list'[f] \cup walk'[f]]_vars

\* A wait that never expires returns once its fences can signal: somebody has
\* enabled signalling on at least one of them and the wake-up arrives.
WaitReturns == \A p \in Waiters : pc[p] # "idle" ~> pc[p] = "idle"

\* A callback that was added is called, unless its owner removes it.
CallbackCalled ==
  \A p \in Clients, f \in Fences : f \in mem[p] ~> f \in ran[p] \/ f \notin mem[p]
=============================================================================

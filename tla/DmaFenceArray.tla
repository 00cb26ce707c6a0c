--------------------------- MODULE DmaFenceArray ---------------------------
(***************************************************************************)
(* A fence array, drivers/dma-buf/dma-fence-array.c: a fence that signals  *)
(* when all the fences it holds have, or with signal_on_any when one has.  *)
(* Its enable_signaling() adds a callback to each of them, under the lock  *)
(* of the array; the callbacks run under the lock of their own fence and   *)
(* count num_pending down, and the last one leaves the signalling of the   *)
(* array to an irq_work.                                                   *)
(*                                                                         *)
(* One array is modelled, from its creation to its release.  Every access  *)
(* to num_pending, to a reference count, to a flag and to a list of        *)
(* callbacks is a step.  The fences of the array are those of DmaFence:    *)
(* here, signalling one sets its flag and takes its callbacks off the list *)
(* in one step and calls them in later ones, with the lock held.           *)
(***************************************************************************)
EXTENDS Integers, FiniteSets, Sequences

CONSTANT Fences      \* the fences that are put into arrays, as numbers

VARIABLES
  sig,        \* the fences that are signalled
  ref,        \* ref[f]: references to f held by arrays and by merges
  array,      \* the fences of the array, <<>> before dma_fence_array_create()
  any,        \* history: "any" with signal_on_any, "all" without
  pending,    \* num_pending
  aref,       \* refcount of the array
  asig,       \* the array is signalled
  enabled,    \* DMA_FENCE_FLAG_ENABLE_SIGNAL_BIT of the array
  en,         \* i of enable_signaling(), 0 when the array's lock is free
  slow,       \* 1: dma_fence_add_callback() of that fence has seen it unsignalled
              \* and goes for its lock, with the reference for the callback
  cb,         \* cb[i]: where the callback of array->fences[i] is
  work        \* the irq_work

arrayVars == <<sig, ref, array, any, pending, aref, asig, enabled, en, slow, cb, work>>

Slots == DOMAIN array

ArrayInit ==
  /\ sig = {} /\ ref = [f \in Fences |-> 0]
  /\ array = <<>> /\ any = "all" /\ pending = 0 /\ aref = 0
  /\ asig = FALSE /\ enabled = FALSE /\ en = 0 /\ slow = 0
  /\ cb = <<>> /\ work = "idle"

\* dma_fence_array_create(): the array takes over the references to fs.
Create(fs, when) ==
  /\ array' = fs /\ any' = when
  /\ pending' = IF when = "any" THEN 1 ELSE Len(fs)
  /\ aref' = 1 /\ cb' = [i \in DOMAIN fs |-> "none"]
  /\ UNCHANGED <<sig, asig, enabled, en, slow, work>>

\* dma_fence_put(&array->base), and with the last reference
\* dma_fence_array_release()
Count(s, f) == Cardinality({i \in DOMAIN s : s[i] = f})

PutArray ==
  /\ aref' = aref - 1
  /\ ref' = IF aref = 1 THEN [f \in Fences |-> ref[f] - Count(array, f)] ELSE ref

Freed == array # <<>> /\ aref = 0

----------------------------------------------------------------------------
(* The fences                                                              *)

\* Somebody calls the callbacks of f, with its lock held.
Locked(f) == \E i \in Slots : array[i] = f /\ cb[i] \in {"called", "put"}

\* dma_fence_signal() of f, up to the callbacks
SignalFence(f) ==
  /\ f \notin sig /\ sig' = sig \cup {f}
  /\ cb' = [i \in Slots |-> IF array[i] = f /\ cb[i] = "linked" THEN "called" ELSE cb[i]]
  /\ UNCHANGED <<ref, array, any, pending, aref, asig, enabled, en, slow, work>>

\* dma_fence_array_cb_func(): the callback that takes num_pending to 0 passes
\* its reference to the irq_work, the others drop theirs.
CallbackLast(i) ==
  /\ i \in Slots /\ cb[i] = "called" /\ pending = 1
  /\ pending' = 0 /\ work' = "queued" /\ cb' = [cb EXCEPT ![i] = "done"]
  /\ UNCHANGED <<sig, ref, array, any, aref, asig, enabled, en, slow>>

CallbackCounts(i) ==
  /\ i \in Slots /\ cb[i] = "called" /\ pending # 1
  /\ pending' = pending - 1 /\ cb' = [cb EXCEPT ![i] = "put"]
  /\ UNCHANGED <<sig, ref, array, any, aref, asig, enabled, en, slow, work>>

CallbackPut(i) ==
  /\ i \in Slots /\ cb[i] = "put"
  /\ cb' = [cb EXCEPT ![i] = "done"] /\ PutArray
  /\ UNCHANGED <<sig, array, any, pending, asig, enabled, en, slow, work>>

\* irq_dma_fence_array_work()
WorkSignal ==
  /\ work = "queued" /\ en = 0
  /\ asig' = TRUE /\ work' = "put"
  /\ UNCHANGED <<sig, ref, array, any, pending, aref, enabled, en, slow, cb>>

WorkPut ==
  /\ work = "put" /\ work' = "idle" /\ PutArray
  /\ UNCHANGED <<sig, array, any, pending, asig, enabled, en, slow, cb>>

----------------------------------------------------------------------------
(* Enabling, by dma_fence_add_callback() and dma_fence_enable_sw_signaling() *)
(* on the array.  The caller has a reference.                               *)

\* The lock is taken and the bit set; enable_signaling() is called.
EnableBegin ==
  /\ en = 0 /\ ~asig /\ ~enabled
  /\ enabled' = TRUE /\ en' = 1
  /\ UNCHANGED <<sig, ref, array, any, pending, aref, asig, slow, cb, work>>

\* Mutant: the callback owns no reference.
EnableRefsNone == aref
EnableRefs == aref + 1

\* dma_fence_add_callback() on the next fence, with a reference to the array
\* for the callback: a first look at the flag, without the lock of the fence,
EnableTest ==
  /\ en \in Slots /\ slow = 0 /\ array[en] \notin sig
  /\ slow' = 1 /\ aref' = EnableRefs
  /\ UNCHANGED <<sig, ref, array, any, pending, asig, enabled, en, cb, work>>

\* and a second one with it.
EnableAdd ==
  /\ slow = 1 /\ ~Locked(array[en]) /\ array[en] \notin sig
  /\ cb' = [cb EXCEPT ![en] = "linked"] /\ en' = en + 1 /\ slow' = 0
  /\ UNCHANGED <<sig, ref, array, any, pending, aref, asig, enabled, work>>

AddFails == en \in Slots /\ array[en] \in sig /\ (slow = 1 => ~Locked(array[en]))

\* atomic_dec_and_test(&array->num_pending)
\* Mutant: one signalled fence is enough.
TakesToZeroAlways == TRUE
TakesToZero == pending = 1

\* What dma_fence_get() took, dma_fence_put() drops.
PutUnused == aref - slow

\* The fence is signalled, and others are pending.
\* Mutant: a fence that needs no callback is not counted.
EnableSkipUncounted ==
  /\ AddFails /\ ~TakesToZero
  /\ aref' = PutUnused /\ slow' = 0 /\ en' = en + 1
  /\ UNCHANGED <<sig, ref, array, any, pending, asig, enabled, cb, work>>

EnableSkip ==
  /\ AddFails /\ ~TakesToZero
  /\ aref' = PutUnused /\ slow' = 0
  /\ pending' = pending - 1 /\ en' = en + 1
  /\ UNCHANGED <<sig, ref, array, any, asig, enabled, cb, work>>

\* The fence is signalled and was the last one: enable_signaling() returns
\* false, and its caller signals the array and drops the lock.
EnableLast ==
  /\ AddFails /\ TakesToZero
  /\ aref' = PutUnused /\ slow' = 0
  /\ pending' = pending - 1 /\ asig' = TRUE /\ en' = 0
  /\ UNCHANGED <<sig, ref, array, any, enabled, cb, work>>

\* enable_signaling() returns true.
EnableEnd ==
  /\ en > Len(array) /\ en' = 0
  /\ UNCHANGED <<sig, ref, array, any, pending, aref, asig, enabled, slow, cb, work>>

\* dma_fence_is_signaled() of the array: dma_fence_array_signaled() looks at
\* num_pending, and when that is 0 the caller signals the array.
Poll ==
  /\ ~asig /\ pending <= 0 /\ en = 0 /\ asig' = TRUE
  /\ UNCHANGED <<sig, ref, array, any, pending, aref, enabled, en, slow, cb, work>>

============================================================================

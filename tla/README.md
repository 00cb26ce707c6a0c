# Verification of the drm-kmod synchronisation core

drm-kmod is the FreeBSD port of the Linux DRM stack. This directory holds
TLA+ models of the code that keeps the GPU, the drivers and user space in
step: fences, fence timelines and arrays, the fences of a buffer, the GPU
scheduler with its job queue, and the handles under which buffers are shared. TLC checks
the models on small instances, TLAPS proves the main results for every value
of the constants. `PROJECT.json` lists runs, mutants, findings, hazards and
theorems and maps every definition to the source lines it models.

    tlc -workers 2 -config DmaFence.cfg MCDmaFence     # a run
    tlapm DmaFenceProofs.tla                           # the proofs of a module

## Inventory

Most of the tree is device drivers (amdgpu, i915, radeon) and their register
headers. The shared core is small. `dma-buf/` was written for FreeBSD rather
than imported from Linux, has no tests of its own, and carries every other
subsystem, so it comes first.

| component | state | operations | hard behaviour | correct when |
|---|---|---|---|---|
| `dma-fence.c` | three flag bits, `cb_list` in a union with the timestamp, lock, refcount | signal, enable, add/remove callback, poll, wait, wait-any, stubs | flags read without the lock; nodes on the stacks of sleepers; timeouts against signalling | no callback lost or run twice, no node used after its frame is gone, results agree with the flags, waits return |
| `dma-fence-chain.c` | `prev`, `prev_seqno`, `fence`, `cb`/`work` union, refcount | init, walk (collects garbage), find_seqno, signaled, enable, irq_work, release | lock-free unlinking by every reader, RCU lookups | no reference lost, no pending fence dropped, a point found stands for all work up to it |
| `drm_syncobj.c` | `fence`, `cb_list`, handle table | add_point, replace_fence, find_fence, wait, reset, signal, transfer, export | waits for a fence not yet submitted | no wait misses a submission |
| `spsc_queue.h` | `head`, `tail`, `job_count`, `next` | push, peek, pop, count | lock-free, both sides write the end of the list | a FIFO queue |
| `scheduler/` | run queues, entity queue, pending list, counters, karma, fences | push, select, pop, run, finish, cleanup, time out, stop, start, flush, fini | scheduler thread, submitters, timeout work and interrupts share jobs | each job runs at most once per submission, in entity order, after its dependencies; none is freed early or forgotten |
| `dma-resv.c` | fence list with slots reserved | reserve, add, replace, iterate (locked, unlocked), wait, test | RCU readers restart when the list is replaced | the exclusive and shared fences of a buffer are never missed |
| `dma-fence-array.c`, `-unwrap.c`, `sync_file.c` | `num_pending`, callbacks; a fence in a file | create, enable, signal; merge | callbacks run while others are added | signals exactly after all (or one) |
| `dma-buf.c`, `drm_gem.c`, `drm_prime.c` | files, attachments, handle counts, lookup trees | export, attach, pin, map, close | error paths, concurrent close and import | nothing leaks, a buffer imported back is the same object |
| `drm_modeset_lock.c`, `drm_auth.c`, `drm_vblank.c`, `drm_buddy.c`, `ttm/` | locks and contexts, masters, counters, blocks, LRU lists | see the sources | backoff, revocation, timers, eviction | see the plan |

How they interact: a driver creates fences and calls `dma_fence_signal()` from
its interrupt; the scheduler embeds two fences in each job and waits for others
by callback; a syncobj holds the newest fence of a timeline; chains and arrays
wait for other fences by callback and so nest; a buffer's `dma_resv` holds the
fences others must wait for. All the blocking in these parts is done by
`dma_fence_default_wait()` and `dma_fence_wait_any_timeout()`.

## Modules

| module | models | composed with |
|---|---|---|
| `DmaFence` | `drivers/dma-buf/dma-fence.c` | |
| `DmaFenceProofs` | theorems about it | extends `DmaFence` |
| `DmaFenceChain` | `dma-fence-chain.c` together with the operations of `drm_syncobj.c` that change or read the chain | |
| `FifoQueue` | what the job queue promises | |
| `SpscQueue` | `include/drm/spsc_queue.h` | instantiates `FifoQueue` |
| `SpscQueueProofs` | theorems about it, the refinement included | extends `SpscQueue` |
| `DmaFenceSeqno` | the 32-bit comparison of sequence numbers, `dma_fence_is_later()` | |
| `DmaResv` | `drivers/dma-buf/dma-resv.c` | extends `DmaFenceSeqno` |
| `DmaResvProofs` | theorems about it | extends `DmaResv` and `Counting` |
| `DmaFenceArray` | `drivers/dma-buf/dma-fence-array.c` | |
| `SyncFile` | `drivers/dma-buf/sync_file.c` and the merge of `dma-fence-unwrap.c` | extends `DmaFenceArray`: the array that a merge makes is the fence of the file; extends `DmaFenceSeqno` |
| `SyncFileProofs` | theorems about the array, the merge and the file | extends `SyncFile` and `Counting` |
| `DrmGem` | `drivers/gpu/drm/drm_gem.c` and `drm_prime.c`: handles, names, export and import | |
| `DrmGemProofs` | theorems about it | extends `DrmGem` and `Counting` |
| `Counting` | lemmas: how a cardinality changes when a member comes or goes, remainders of differences | |
| `DrmSched` | `drivers/gpu/drm/scheduler/` and the part of amdgpu that times out, resets and resubmits its jobs | uses the queue as `FifoQueue` describes it and fences as `DmaFence` does: one step each |
| `DrmSchedProofs` | theorems about it | extends `DrmSched` and `Counting` |
| `MCDmaFence`, `MCDmaFenceChain`, `MCSpscQueue`, `MCDrmSched`, `MCDmaResv`, `MCSyncFile`, `MCDrmGem` | names for the model values of the runs | |

### DmaFence

State: `signaled`, `stamped`, `enabled` are the three flag bits, `cb_list` the
callback list, `walk` the local list head of the caller that is signalling,
`lock` the holder of `fence->lock` between two steps. Per process: `pc` and the
locals of the call, `mem` (callback nodes allocated, on the stack or the heap),
`ran` (callbacks called), `task` (runnable). A callback node is named by its
owner and its fence.

Actions follow the code from one access that another CPU can observe to the
next. Signalling is three kinds of step (set the flag; detach the list and
stamp; call one callback) because the flag is read without the lock by
`dma_fence_add_callback()`, `dma_fence_is_signaled()` and the test loop of
`dma_fence_wait_any_timeout()`. Everything else that happens under the lock is
one step. A driver's `enable_signaling` either arms an interrupt or answers
FALSE, the latter only if the hardware is done; drivers without the hook
(`SwFences`) signal on their own. Timeouts are classes ("zero", "finite",
"long", "forever"), a remaining time is its sign; "long" stands for values that
do not fit the `int` in which `dma_fence_wait_timeout()` keeps the result.

### DmaFenceChain

State: reference counts, the fields of the chain nodes, the fence contained in
each (`sig`), `syncobj->fence`, and per process the local pointers of
`dma_fence_get_rcu_safe()`, `dma_fence_chain_walk()` and its callers. `todo` is
the stack of pending `dma_fence_put()` and `dma_fence_chain_release()` work: a
put can release a node, whose release puts the one before it, and every round
is a step. Reading a pointer, taking a reference, the second read and the
`cmpxchg()` are separate steps.

A driver signals a contained fence in `SignalFence`; the callbacks that are linked to it are
called later, one by one and in any order with everything else, by the contexts of `Drivers`:
`RunCallback` is `dma_fence_chain_cb()`, which queues the irq_work and then puts the fence
(`Put` of that context). A plain fence at the bottom of a chain is counted in full, with the
reference of each callback that waits for it (`dma-fence-chain.c:83`, put at `:67`, or
at `:89` when the fence has signalled, `BodyLast`). The fence inside a chain node has its
count with the driver that made it and the node that owns it; the code takes and puts the
same references there, which change none of the counts that the model has. `covers`, `point` and `pending` are history used
by the properties only.

### SpscQueue and FifoQueue

Every load, store and atomic of push, peek and pop is a step. The history
variable `queue` fixes where a call takes effect: a push when it stores its
node, a pop when it has read or waited for the successor or reset the tail.
`FifoQueue` is the abstract queue; the mapping shows results that are decided
but not yet returned (`first`, `got`).

### DrmSched

State. Per job: the entity and scheduler it was armed for, the dependencies
left, its two fences (`scheduled`, `finished`, and `canceled` for the error),
`parent` and `cb` (whether the hardware's fence is known and the done callback
linked to it), `hw_done`, `freed`, and where `drm_sched_entity_kill_jobs()` has put
it (`finish_cb`, `work`). Per entity: the queue, `rq_of`, `dependency`,
`last_scheduled`, `entity_idle`, `stopped`, `guilty`. Per scheduler: the run queue with
its round-robin cursor, `pending_list`, `hw_rq_count`, `work_tdr` (the timer is
armed), `free_guilty`, and the `ring` of jobs the hardware has. Control: `spc` of the
main thread, `epc` of the one thread that uses an entity (the API asks for that; amdgpu
pushes under its own locks but may flush meanwhile, which the models leave out), `tpc` of the timeout handler. There is one
handler at a time: amdgpu gives all schedulers of a reset domain the same single-threaded
work queue.

| code | actions |
|---|---|
| `drm_sched_job_arm()`, `drm_sched_entity_push_job()` | `PushJob`, then for the first job `PushStopped` or `AddEntity`, `PushWake` |
| `wait_event_interruptible()` of `drm_sched_main()` | `GetCleanupJob`, `NoCleanupJob`, `Park`, `Unpark`, `SelectEntity`, `Sleep`, `WakeUp` |
| `drm_sched_entity_pop_job()` | `PopNextDep`, `PopWaitDep`, `PopJob` |
| the rest of the loop of `drm_sched_main()` | `RunJob`, then `AddDoneCb` or `DoneAtOnce`; `FreeJob` |
| the hardware and `drm_sched_job_done_cb()` | `HwSilent`, `HwDone`, `DoneWake` |
| `drm_sched_job_timedout()`, `amdgpu_job_timedout()` | `TdrFire`, `SoftRecover`, `Recover`, `TdrEnd` |
| `drm_sched_stop()` for each scheduler | `ParkThread`, `ReinsertBad`, `UnhookJob`, `RemoveJob`, `StopDone` |
| `amdgpu_device_gpu_recover()` | `SkipReset`, `Reset`, `NoResubmit` |
| `drm_sched_resubmit_jobs()` | `Resubmit` |
| `drm_sched_start()` | `StartJob`, `StartDone`, `StartFailed`, `UnparkThread` |
| `drm_sched_entity_flush()` | `Flush`, `FlushSleep`, `FlushEnd` |
| `drm_sched_entity_fini()`, `kill_jobs()` | `Fini`, `ClearDependency`, `KillJob`, `PutLast`, `KillWork` |

Steps that are merged, because nobody can tell them apart: popping a job,
counting it and `drm_sched_job_begin()` (`PopJob`); `run_job()` and
`complete(&entity->entity_idle)` (`RunJob`); signalling `scheduled` and adding the
callback; the waits of `kill_jobs()` for the dependencies of a job and the rest of
its round.
`Reset` merges two that can be told apart: the test whether the bad job is done
(`amdgpu_device.c:5396`) and the clearing of the jobs' fences (`:4747`), so that a completion of
that job between them is not modelled. `DoneWake` is apart from `HwDone`: between the two the main thread may
free the job. Left out: scores and priorities (`drm_sched_pick_best()` may pick
any scheduler of the entity), the emergency restart, the recheck of guilty
jobs, a device that is gone.

### DmaResv

State: every list that `dma_resv_list_alloc()` has made, with its entries, its
`num_fences` and `max_fences`, and which one is published; reference counts of the
fences; the lists freed but still in an RCU section; the writer's and the reader's
locals. The writer holds the reservation lock: it reserves (`ReserveFences` and the
loop that keeps unsignalled fences, publish, drop, free), adds (the scan for an entry
that can be replaced, the put of the old fence, the store of the entry and the count
as separate steps), replaces and unlocks. The reader iterates without the lock the
way `dma_resv_iter_first_unlocked()` and `next` do, entry by entry, and is one of
`get_fences`, `copy_fences`, `test_signaled` or `wait_timeout`.

Data: a fence is a number, the order of emission within its context; the sequence
numbers the code compares wrap at twice `SignBit` (2^31 in the code). The history
variable `owed` keeps, for every fence in the object when a call begins, that fence and
those that took its place, until one of them signals. The address of a list is not used again: the lists of an object grow, so
the next one has another size. `MinSlots` replaces the smallest
allocation (4 in the code), and the rounding of `ksize()` is left out: both make the
lists smaller than in the code, so that they fill up. `dma_resv_replace_fences()` has
no caller in the tree; the model calls it with any context and any fence.

### DmaFenceArray and SyncFile

`DmaFenceArray` has the array's fields (`pending` for `num_pending`, `any` for
`signal_on_any`, `cb`), the references, and the steps of create, `enable_signaling`
(one per fence, with the extra reference that each callback owns), the callbacks,
`irq_work` and release. `SyncFile` adds the merge: it walks two containers twice, first
counting and then collecting the fences that have not signalled, with the sorted
merge by context and `IsLater` within one; and the file: poll with its single callback
(`POLL_ENABLED`), taking the fence out, release. A container is the sequence of fences
in it. Links of a chain that the iteration skips are signalled and make no difference;
an empty array in the middle of a chain would end the iteration of the code early,
but no caller makes one. The allocations of the merge do not fail in the kernel
(`M_WAITOK`); the error path is kept as `MergeNoMemory`. `VmidArray` is the one user of
`signal_on_any`, `amdgpu_vmid_grab_idle()`. An array that nobody enables signalling on
never counts `num_pending` down, so that `CallsReturn` promises its signalling only
once that is done.

### DrmGem

State. Per object: `ref`, `hc` (`handle_count`), `name`, `dbuf`, `attach` (imported),
`fb` (a framebuffer holds it). Per dma-buf: `bref`, `priv`, open descriptors. Per file:
the handle `table` with its reserved entries, the `cache` of PRIME as a set of pairs
for the two trees, `plock`. Everything done under `object_name_lock` is one step;
`prime.lock` is held across steps and is a variable; every put is a step, and a last
put goes on to what it frees. The history variable `lost` counts the references that a failed
`dma_buf_fd()` leaves behind (see the findings).

| code | actions |
|---|---|
| `drm_gem_handle_create()` and its other callers | `Create`, `OpenName`, `GetFb` (each with `Publish`), then `PutObj` or `OpenFails` |
| `drm_gem_handle_delete()` | `Close`, `Uncache`/`UncacheNothing`, `HandlePut` or `LastHandlePut` and `FinalPut`, `Unreserve` |
| `drm_gem_release()` | `ReleaseFile`, then `ReleaseHandle` with the same steps, `Released` |
| `drm_gem_flink_ioctl()` | `Flink`, `FlinkName`, `PutObj` |
| `drm_gem_prime_handle_to_fd()` | `ToFd`, one of `ToFdCached`, `ToFdKnown`, `Export`, `ExportFails`, then `InstallFd` or `FdFails`, or `PutUncached` when the cache had no memory, `PutObj` |
| `drm_gem_prime_fd_to_handle()` | `FdToHandle`, one of `ImportSeen`, `ImportFails`, `ImportOwn`, `ImportForeign`, then `PutObj`, `ImportCache` or `ImportNoCache` and `ImportDelete`, `ImportPut` |
| the framebuffer and the descriptors | `AddFb`, `RmFb`, `CloseFd` |

The models assume sequential consistency: the code's barriers and atomics are
taken to order the accesses of a thread.

## Runs

| run | checks | instance |
|---|---|---|
| `fence` | `NodesLive`, `HeadNotClobbered`, `NoCallbackLost`, `NoLostWakeup`, `WaitResultSound`, `RemoveDecides`, `WaitReturns`, `CallbackCalled` | one fence with driver hooks, a waiter, a client, the interrupt; every class of timeout |
| `chain_race` | `RefcountExact`, `PendingKept` | three nodes, one adder, two readers that poll (symmetric) |
| `chain_signal` | `RefcountExact`, `ChainSignalSound`, `CallbackSlotFree`, `FindSound`, `EnableSignals` | two nodes, two points, an adder that also replaces, a reader that looks up points and enables signalling, the irq_work context, a driver that runs the callbacks |
| `chain_heap` | `FindSound` is violated | two nodes, `prev_seqno` as `kmalloc()` leaves it |
| `queue` | `WritesQueuedNode`, `CountLags`, `ImplementsFifo`, `PopReturns` | four nodes |
| `sched_kill` | `OneOwner`, `OneConsumer`, `FlushWoken`, `EntityLinks` | one scheduler with room for two jobs, two entities, one of which is flushed and destroyed; resets may fail |
| `sched_move` | `HwCountExact`, `TimerArmed`, `OrderKept` | two schedulers with room for two jobs each, two entities that move; soft recovery |
| `sched_live` | `JobRetires` | one scheduler with room for one job, two entities, hardware that may hang; a job that may not be pipelined |
| `sched_early` | `FinishedIsDone` is violated | one scheduler with room for two jobs |
| `resv` | `NothingMissed`, `RefsExact`, `NoWildRead`, `SlotsSuffice`, `CallReturns` | two fences of one context whose sequence numbers wrap, a writer, a reader |
| `merge` | `MergeSound`, `ArraySignalSound`, `RefsExact`, `CallsReturn` | three fences in two containers, two pollers, one client of the array |
| `gem` | `RefsExact`, `HandlesExact`, `NothingLeft`, `CacheSound` | one object, created or imported, one buffer to export and a foreign one, two files with two handle numbers each, two handles in use, two threads |

Why the bounds are enough for the interesting cases. Fence: three processes
give every race between a signaller, somebody linking a node and somebody
taking one out, and any two of them may signal the same fence (driver, poller,
failed enable). With one fence wait-any does not stop half-way; the theorems
have no bound and cover that for the safety properties. Chain: three
nodes give a node in use, one being unlinked and one behind it, which is what
`cmpxchg()` and the loop of release deal with; the two readers of
`chain_race`, and the walk of `add_point`, meet at the same node and one of
them loses the exchange with a new predecessor in hand. Nodes are not reused
in the model, so counting mistakes stay visible. In `chain_signal`
`MaxPoint = 2` allows points in order, repeated and out of order on top of each
other and of binary fences, and two nodes give the irq_work something to go on
to. Queue: nodes are reused without
limit, four of them leave room for a push and a pop on different, neighbouring
and the same node. The theorems drop the bound here too. Scheduler: two jobs
give a bad one and one behind it on the same or on the other ring, of the same or
of the other entity, with a dependency or without (`MaxDeps = 1`); with room for
two on one ring both are in flight when the handler stops it, a job can follow the one it
depends on to the same ring, or wait for one on the other; with room for one (`sched_live`)
the second waits for the first. `DontPipeline` names the jobs with
`DRM_SCHED_FENCE_DONT_PIPELINE`, after which also a job of the same ring waits for the end; in
`sched_live` it is the first. Any number of timeouts and resets may
happen to them. Reservation object: two fences of one context whose numbers are on
both sides of the wrap (`SignBit = 4`), so that one replaces the other, is added
after it or found signalled; with `MinSlots = 2` and `MaxLists = 2` the writer replaces
the list a reader is in. The reader tests, waits or copies; `get_fences` collects as
`copy_fences` does, into an array with one entry more, and is left out of the run. Merge: three fences let a merge keep, drop by order within a context and
skip as signalled, and leave an array of at least two. GEM: one object is enough for
sharing it between two files and through a name, a descriptor or a framebuffer;
two handle numbers let a closed one be allocated again while another is in use; a
dma-buf has one descriptor, open or lost to a failed installation (`MaxFds = 1`), and a call
that needs another waits for ever, if it is lost, with `prime.lock` held: that bounds what
happens after a loss, not what leads to it. The run has a `VIEW` that leaves out local variables
no later step of a call reads.
The files of `Guessing` (one of the two) use handles before the call that makes them
has returned, which is what `prime.lock` has to stand against; in the other file the
driver may refuse a handle.

What the new properties say. `NothingMissed`: what an unlocked reader has returned,
together with what has signalled, covers every fence that was in the object when it
began, where a later fence of the same context stands for an earlier one. It is false
with an unsigned comparison. `MergeSound`: the same for the result of a merge.
`RefsExact` in `resv`, `merge` and `gem`: every count is the number of owners, at every
step and so on every error path. In `gem` the count of a dma-buf has the
references in it that a failed `dma_buf_fd()` has lost (`lost`); the code has this leak, and
the property says that there is no other. `SlotsSuffice` is the `BUG_ON` of
`dma_resv_add_fence()`. `NothingLeft`: what only the last close takes away is not there
without a handle. `CacheSound`: an entry of the PRIME cache pairs a handle with a
buffer of the handle's object, and closing the file leaves none
(the `WARN_ON` of `drm_prime_destroy_file_private()`).

What the scheduler properties say. `OneOwner`: at every moment exactly one of the
queue, the main thread, the pending list, the timeout handler, a finish callback or
a work item has to see to it that a job is freed. It is checked without soft
recovery, which loses the job (see below). `HwCountExact` and `TimerArmed` except
the jobs left over from a reset that failed (`abandoned`), which the code counts
and never completes. `OrderKept` is about the moment the hardware has the job: a
dependency has finished, is cancelled, or is ahead on the same ring.

Every property has a mutant in `PROJECT.json`: a plausible slip in the code
(a dropped recheck, a swapped order, a missing put) under which TLC reports
that property.

Fairness. `fence`: the hardware completes (or a reset completes it), an
armed interrupt is delivered, a task that can run is run; callers need not call.
Fairness is per process and weak: the lock is a spin lock held for a bounded
time, and a process that waits for it gets it in the model because the holder
always lets go and no call has to be repeated for ever by another process.
`chain_signal`: drivers signal the contained fences and run their callbacks, tasks and
the irq_work context run. `queue`: a push in progress ends (it runs with preemption
disabled, `spsc_queue.h:69`) and the consumer runs; nobody has to push.
`sched_live`: each scheduler thread, the timeout work and a push in progress go
on; the hardware need not do anything, and need not even when it is reset. There
is no closing of entities in this run (see the next section). `resv`: fences signal,
the reader runs, and a writer inside a call goes on; it need not call, and can do so
a bounded number of times only (`MaxAdds`, `MaxLists`): the code does not rule out a reader
that is overtaken without end. `merge`: fences signal and their interrupt calls the
callbacks, the `irq_work` runs, and so do the merge and the tasks inside poll and
`enable_signaling`.

## Findings

* `sched_early`: the job that timed out completes before the schedulers are
  stopped. `amdgpu_device_gpu_recover()` skips reset and resubmission
  (`amdgpu_device.c:5396`, `:5467`), but `drm_sched_stop()` has taken the parent
  fences from all other pending jobs, and `drm_sched_start()` takes a job without one
  for done (`sched_main.c:498`): fences are reported finished while the hardware is
  still at work.
* `chain_heap`: `dma_fence_chain_init()` leaves `prev_seqno` uninitialised when
  a point starts a new context (`dma-fence-chain.c:163-171`).
  `dma_fence_chain_find_seqno()` reads it, may walk past the node and returns
  NULL, which `drm_syncobj_find_fence()` takes for "already signalled". The
  other chain runs set the field to zero (`HeapContents = {0}`) or do not check
  a property that depends on it.

Met while modelling and kept as hazards in `PROJECT.json`, without a run of their
own:

* `dma_fence_wait_timeout()` takes and returns `signed long` and keeps the result
  in `int rv` (`dma-fence.c:175`): a remaining time above `INT_MAX` comes back as
  zero or negative for a signalled fence. `SignalledNeverTimesOut` fails with "long" in
  `CallTimeouts`, which `fence` has.
* `drm_sched_entity_fini()` of an entity with an empty queue does not wait for the
  main thread, which may still have the entity in hand (`sched_main.c:957`).
* `drm_sched_entity_clear_dep()` wakes nobody; when `kill_jobs()` signals a
  `scheduled` fence from another thread, the entity that waited for it may sleep on
  (`sched_entity.c:353`).
* `drm_sched_entity_fini()` forgets the dependency that is being waited for
  (`sched_entity.c:321`).
* After a soft recovery the bad job is on no list and is never freed
  (`amdgpu_job.c:58`).
* `drm_gem_handle_create_tail()` puts the handle into the table before the driver has
  accepted it. If the number is closed meanwhile, the error path takes away and counts
  down once more what is gone (`drm_gem.c:370`, `:394`). `HandlesExact` fails in four
  steps when open may fail in a file of `Guessing`.
* `dma_buf_fd()` returns the positive errno of `finstall()` (`dma-buf.c:413`), and
  `drm_gem_prime_handle_to_fd()` tests `ret < 0` (`drm_prime.c:508`): it reports success,
  gives the errno out as a descriptor and does not put the dma-buf. The comment
  there, "Closing the handle will clean out the cache anyway, so we don't leak", does
  not hold: `NothingLeaked` of `DrmGem` fails in nine steps (create, export, the failure, close), after which
  only the lost reference keeps the dma-buf, and the dma-buf the object.
* GETFB makes a handle for an object whose last handle is closed, and with it a second
  dma-buf for the same object; importing the first then meets the
  `WARN_ON(obj->dma_buf != dma_buf)` (`drm_prime.c:343`). `OneBuf` of `DrmGem` fails with
  a second buffer to export.
* After a failed reset the pending jobs have no callback, and the next
  `drm_sched_stop()` waits for them for ever (`sched_main.c:487`, `:440`).

## Proofs

The theorems hold for every value of the constants: any number of fences, lists,
waiters, readers, clients, nodes, objects, files, handles, threads, jobs, entities and
schedulers, and any width of the sequence numbers. What is assumed of the constants are the `ASSUME`s of the
modules, which TLC evaluates in the runs:

* The roles of the processes are disjoint, there is a fence, `NULL` and `Root` are no
  nodes, `None` is nothing else.
* Where references are counted (`DmaResv`, `SyncFile`, `DrmGem`), the sets are
  finite: a count is a `Cardinality`.
* `Fences \subseteq 1 .. SignBit` in `DmaResv` and `SyncFile`: the fences of a context
  that are in use together lie within half of the range of its numbers, without which
  no comparison that wraps can order them. They may start anywhere (`FirstSeqno`).
* `PowerAssumption` of `DmaResv`, that there is a power of two between `n` and `2 * n`, is a fact
  of arithmetic and restricts nothing. `roundup_pow_of_two()` needs it, and
  exponentiation is beyond the provers.

Each proof has an inductive invariant `IInv`. Its parts are proved
one by one, each in a lemma with a step per action; the lemmas may use all of `IInv`
in the state before.

### Fences and the queue

`DmaFenceProofs`: each invariant of `fence`, `SignalledNeverTimesOut` and the action property
`RemoveDecides` follow from `TypeOK` and the inductive invariant `IInv`. Its parts,
each proved in its own lemma, say what the properties leave out:
`LockInv`, the lock is held exactly by a process in the middle of signalling;
`ListInv`, how flags and lists move together during signalling, so that outside
of it a signalled fence is stamped and its lists are empty; `RoleInv`, who can be
where; `NodeInv`, a node owned is either linked and not called or called;
`MemInv`, which nodes a waiter owns at each label; `WakeInv`, what a task that
is about to sleep has already tested (the properties speak of sleepers only, but
the test loop comes before); `ResultInv` and `PreInv`, where a result comes from.
A process in the middle of signalling is treated as being at the label it will
return to. `NoTimeoutTheorem` needs the extra assumption that no timeout is "long",
which is the first of the remarks above.

`SpscQueueProofs`: `IInv` says that the `next` fields spell out `queue`
(`ListInv`), that `tail`, or the old tail held by a push between its exchange and
its store, is the last cell (`PushInv`), that `head` is the first node except
between a pop's clearing it and its deciding whether a push is under way
(`PopInv`), and `CountLags`. `Refinement` maps every step to a step of
`FifoQueue` or to a stutter.

### Reservation objects: `DmaResvProofs`

| part of `IInv` | says | is there because |
|---|---|---|
| `ListsInv`, `TablesInv`, `CopyInv`, `ArgsInv` | which list the writer is in, what has been written to each, how far `reserve_fences()` is with the new one: it fills up from both ends, and `num + (max - wk)` entries are there after `wi - 1` steps | the indices stay inside the tables |
| `SlotsInv` | the free entries cover the slots reserved, one more during `add_fence()` | `SlotsSuffice` speaks of the moment of the store only |
| `CursorInv` | the iterator's index, number and list at each label | the index stays inside the list in hand, whichever that is |
| `RoomInv` | what was collected is behind the index, as long as the reader has not been told to begin again; the array has room for the list that is walked | `Len(got) <= room` is not inductive |
| `RcuLists`, `RcuFences` | a reader inside its RCU section that has a freed list in hand is waited for by `kfree_rcu()` of that list; each fence in it has a reference or a grace period with this reader in it | `NoWildRead` |
| `CopyRefs`, `PlacesFinite` | entries are moved to a new list without taking references: those copied from the old list balance those written to the new one | `RefsExact` between the copy, the publication and the drop of the signalled ones |
| `Ordered` | within a context, fences signal in the order of emission | a later fence stands for an earlier one |
| `OwedInv` | while no fence of an owed group has signalled, one of them is in the published list at a usage the reader looks at | a reader that restarts finds it |
| `CopyShows` | the active entries of the old list are in the new one | the same, at publication |
| `SeenInv` | a reader that walks the published list has one of the group in the entries still to come, among what it has collected, or in hand | `NothingMissed` at the end of the walk |

`SlotsAreEnough` and `ReadersAreSafe` then follow at once: for the second, a positive count
(`RefPositive`: what is held is counted, by `RefsExact`) or a grace period means that the
memory is there. `RefsAreExact` is part of `IInv`; its step goes over the owners
(driver, entries listed, entries to be dropped, the fence being added, the writer's `old`, cursors, arrays) and shows
that the sum changes as the count does. `NothingIsMissed` is about a reader at "done", where
nothing of the list is left and nothing in hand, so `SeenInv` leaves what it has collected. The
steps of the writer are divided into those after which the published list still shows every
group (an entry replaced by a later one, which joins the group, an entry
added, a fence signalled, which ends the group) and the publication of a new list, after which
the readers are in an old one and will restart. `ReplaceableIsLater` is where the order
of sequence numbers comes in: `dma_fence_is_later()` on wrapped numbers is the order
of emission (`LaterSeqno`, from `LaterOfTwo` of `Counting`).

### Arrays, merge and sync_file: `SyncFileProofs`

Of the merge, `IInv` says where the two iterators and the selection are (`MergeType`,
`Selected`), and two things the properties leave out. `Fits`: what the loop has put out and
what it may still put out (`Left`: the fences from the position on that have not signalled,
and the one selected) is no more than was counted at first; fences that signal
between the passes only make it less. `Covered`: each fence asked for has signalled, stands
behind one in `out`, or is still ahead in an input. At the end nothing is ahead, which gives
`ResultSound`, and with `Fits` `MergeIsComplete`.

Of the array: `PendingInv`, `num_pending` is the number of slots whose callback is to come or
whose turn in `enable_signaling()` is; `EnableInv` and `CalledInv`, which slots those are, and
that a slot is past only when its fence is signalled; `Kept`, the caller of `enable_signaling()` holds
the array while callbacks are added. `ArraySignalsInTime`: once the array has signalled, all its
fences have, or one of them for `signal_on_any`. `ArrayRefsAreExact` counts for the array the
file, clients, each callback added, the irq_work; and for each fence the slots of arrays, `out`
and the file.

### Handles: `DrmGemProofs`

`RefsExact`, `HandlesExact`, `NothingLeft` and `CacheSound` are parts of `IInv`. The other parts:
`LocalInv`, the locals of a call at each label; `ReleaseInv`, a file being released is used by
nobody else; `HandleInv`, a reserved handle belongs to one thread, and in a file where nobody guesses
handles a new one to its maker; `BufInv`, which dma-buf belongs to which object;
`LockHeld`, who holds `prime.lock`; `HandleKept`, a thread that is going to cache a handle
finds it standing for the object still, or taken out by a thread that waits for the lock;
`ImportKept`, the buffer imported stays the object's; `NotCached`, a new handle is not in the cache
before its maker puts it there. `HandleKept` is what the lock is for: with it
`CachesAreSound` holds although the handle can be closed, by whoever guesses it, before the
entry is made. `HandlesAreExact` and `RefsAreExact` count table entries and calls
between two labels, with the lemmas of `Counting`. `RefsAreExact` is about the code as it is: a reference that
`FdFails` has left behind stays counted in `lost`, for any number of failures (`MaxFds`), and
every other path of export and import puts what it took. `NothingIsLeft` needs that the last
handle is put under `object_name_lock` and that names and buffers are made only for
an object with a handle.

### Scheduler: `DrmSchedProofs`

One invariant says where everything is, and four more rest on it.

| part of `IInv` | says | is there because |
|---|---|---|
| `ParkInv` | a thread is asked to park exactly while the handler has stopped its scheduler and has not started it, and it has parked unless it is still waited for | stop and start change the list of a scheduler step by step |
| `ThreadInv`, `RunInv` | what the main thread has in hand at each place; the job it submits has no callback yet | `RunJob` and `AddDoneCb` are apart |
| `LinkInv` | each run queue has its entities once, those of its scheduler only, the cursor among them | `EntityLinks` |
| `HoldInv` | from selection to the end of `run_job()` the entity is not idle, is not killed and stays with its scheduler, its first job untouched | `OneConsumer`: `entity_idle` is what `fini` waits for |
| `JobsInv`, `QueueInv` | a job not yet pushed, or still queued, is known to no thread, list, callback or handler, and has the scheduler of its entity | an entity changes its run queue only when empty |
| `PendingInv` | a pending list has jobs of its scheduler, once each, and not the bad job while the handler has it off the list | the bad job is put back exactly once |
| `CleanInv` | between stop and start, and behind the job that either of them is at, no pending job has a callback | `drm_sched_start()` links each callback once and counts each job once |

* `FlushIsWoken` from `FlushInv`: an entity that is waited for in flush has work on a run
  queue, or its thread is about to call `wake_up()`. The property speaks of idle
  entities only, and becomes false without what leads up to that.
* `TimerIsArmed` from `TimerInv`, which says for which schedulers the timer runs while
  the handler is at work: those it has not stopped, and those it has started again.
* `HwCountIsExact` from `CountInv`: the set of jobs that count is finite at all times
  (also when `Jobs` is not), and each step that links or takes a callback moves the count with it.
* `JobIsFreedOnce` and `JobHasOneOwner` from `OwnInv`: a finished fence means no callback (`CbInv`),
  jobs that stop leaves on the list have not finished (`StopInv`), what `kill_jobs()` has taken
  has no other owner (`KillInv`), where a job about to be freed can be (`FreeInv`), when the
  handler has to free the bad job itself (`GuiltyInv`), and that a freed job is nowhere
  (`FreedInv`). That a job has at most one owner, and none once it is freed, holds always
  (`JobIsFreedOnce`). That it has one until then (`KeptInv`) needs `~SoftRecovery`: after
  a soft recovery nothing puts the bad job back.

### What is only model-checked

* Liveness: `WaitReturns`, `CallbackCalled`, `EnableSignals`, `PopReturns`, `JobRetires`,
  `CallReturns`, `CallsReturn`. They rest on fairness, which TLAPS does not reason about.
* The invariants of `DmaFenceChain`: no proof is written yet.
* `OrderKept` of `DrmSched`. It relates the ring of the hardware to all dependencies of its
  jobs, through stop, reset and resubmission; it needs the order of every queue and
  list as an invariant.

## Not modelled

* In the modelled files: stub fences, `dma_fence_set_error()`/`get_status`,
  descriptions and tracing, `dma_fence_wait()`'s thin wrappers; of `drm_syncobj.c`
  the ioctl front ends, handle table, eventual waiters (`cb_list`) and transfer.
* Of `dma-resv.c` the locked iterator, `get_singleton` and the descriptions; of
  `sync_file.c` names and the info ioctl; of GEM mmap offsets, vma nodes, page helpers
  and LRU lists; of PRIME attach, map and mmap.
* Weak memory orders, and allocation failures of `wait_any` (an early -ENOMEM).
* Of the scheduler: its creation and end, `drm_sched_suspend_timeout()` and
  `resume_timeout()`, `drm_sched_fault()`, changes of priority and scheduler list, the
  building of a job's dependencies.
* Drivers: they appear as the external actions `HwComplete`, `IrqTake`,
  `SignalFence`, `HwSilent`; a contained fence of a chain has no count of its own; only amdgpu's handling of timeouts is modelled.
* The tree has 4.8 million lines, nine tenths of which are register headers and
  device drivers. The share of all lines that the models cover is therefore far below
  what it is in the files they are about.
* Components with status `not_modelled` in `PROJECT.json`, each with the reason.

## Plan

Done: all modules above; proofs about `DmaFence`, `SpscQueue`, `DmaResv`, `DmaFenceArray` with
`SyncFile`, `DrmGem` and `DrmSched`. Next:

1. Proofs about the chain: `CallbackSlotFree` and `ChainSignalSound`; `RefcountExact` by
   an inductive invariant over owners of references, as for the other counts.
2. `OrderKept` of the scheduler.
3. The wait-for-submit list and the stub fences of `drm_syncobj.c`, over an abstract
   timeline that `DmaFenceChain` implements; vertical blanking with its deferred
   disable.

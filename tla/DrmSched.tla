------------------------------ MODULE DrmSched ------------------------------
(***************************************************************************)
(* The GPU scheduler (drivers/gpu/drm/scheduler): entities with a queue of *)
(* jobs, one thread per scheduler that picks a ready entity and gives its  *)
(* next job to the hardware, the timeout work that stops the thread,       *)
(* resets the hardware and runs the pending jobs again, and the closing of *)
(* an entity.                                                              *)
(*                                                                         *)
(* Grain of atomicity.  A critical section of rq->lock or job_list_lock is *)
(* one step, and so are the steps of a thread that no other one can tell   *)
(* apart.  The job queue is the FIFO queue that SpscQueue implements.      *)
(* Signalling a fence and running its callbacks is one step (DmaFence).    *)
(*                                                                         *)
(* Data.  A job stands for its two fences too.  The scheduler that         *)
(* drm_sched_pick_best() finds is any of the entity's: the scores are left *)
(* out, and so are the priorities (there is one run queue per scheduler).  *)
(* The jobs are those of users (job->vm is set).                           *)
(*                                                                         *)
(* The driver is amdgpu, whose schedulers share one reset domain.  Left    *)
(* out are its emergency restart, its check for the really guilty job      *)
(* (amdgpu_gpu_recovery = 2) and an unplugged device.                      *)
(***************************************************************************)
EXTENDS Integers, Sequences, FiniteSets, Functions

CONSTANTS
  Scheds, Entities,
  Jobs,        \* the jobs that can be submitted, as positive numbers
  sched_list,  \* sched_list[e]: the schedulers of the entity
  TdrScheds,   \* those with a timeout
  HwLimit,     \* hw_submission_limit
  MaxDeps,     \* a bound on the dependencies of a job
  DontPipeline,\* the jobs whose finished fence has DRM_SCHED_FENCE_DONT_PIPELINE
  SoftRecovery,\* whether the rings have a soft_recovery()
  ResetMayFail,\* whether a reset of the hardware may fail
  Closing,     \* the entities that are flushed and destroyed
  MayKill      \* whether a flush may end by a fatal signal or by its timeout

None == 0      \* NULL

ASSUME SchedAssumption ==
  /\ Jobs \subseteq Nat \ {0} /\ DontPipeline \subseteq Jobs
  /\ TdrScheds \subseteq Scheds /\ Closing \subseteq Entities
  /\ None \notin Entities \cup Scheds
  /\ HwLimit \in Nat \ {0} /\ MaxDeps \in Nat
  /\ {SoftRecovery, ResetMayFail, MayKill} \subseteq BOOLEAN
  /\ sched_list \in [Entities -> (SUBSET Scheds) \ {{}}]

VARIABLES
  \* jobs
  ent, sched,   \* job->entity, job->sched; None before the job is pushed
  deps,         \* job->dependencies that are left
  scheduled, finished,  \* the two fences of the job are signalled
  canceled,     \* the finished fence has an error set
  parent, cb,   \* s_fence->parent is set, and job->cb is linked to it
  hw_done,      \* the fence that run_job() returned is signalled
  freed,        \* free_job() has been called
  finish_cb,    \* finish_cb[j]: the job whose finished fence has j's finish_cb
  work,         \* the jobs with kill_jobs_work queued
  karma,        \* the jobs with karma
  \* entities
  queue, rq_of, \* entity->job_queue, and the scheduler of entity->rq
  dependency, last_scheduled, entity_idle, stopped, guilty,
  epc,          \* what the thread that uses the entity is doing
  \* schedulers
  entities, current_entity,  \* the run queue
  pending_list, hw_rq_count, work_tdr, free_guilty,
  ring,         \* the jobs the hardware has, in order
  park, woken,  \* kthread_should_park(), and the thread has been woken
  waking,       \* job_done() is on its way to wake the thread
  spc, sent, sjob, sres, \* the thread: control, entity, job, result of run_job
  \* the timeout work: control, the bad job, how the reset ended, the schedulers
  \* its loop has left, the one it is at, and the position in its list
  tpc, bad, mode, todo, cur, left,
  \* history
  need,         \* need[j]: the dependencies of the job when it was pushed
  abandoned     \* the jobs that drm_sched_start() only counted

pushVars   == <<ent, sched, need>>
fenceVars  == <<scheduled, finished, canceled>>
hwVars     == <<parent, cb, hw_done>>
killVars   == <<finish_cb, work>>
jobVars    == <<pushVars, fenceVars, hwVars, killVars, deps, freed, karma, abandoned>>
placeVars  == <<rq_of, stopped, guilty>>
entityVars == <<placeVars, queue, dependency, last_scheduled, entity_idle, epc>>
rqVars     == <<entities, current_entity>>
listVars   == <<pending_list, hw_rq_count, work_tdr, free_guilty>>
wakeVars   == <<park, woken, waking>>
schedVars  == <<rqVars, listVars, ring, wakeVars>>
threadVars == <<spc, sent, sjob, sres>>
tdrVars    == <<tpc, bad, mode, todo, cur, left>>
vars       == <<jobVars, entityVars, schedVars, threadVars, tdrVars>>

Init ==
  /\ ent = [j \in Jobs |-> None] /\ sched = [j \in Jobs |-> None]
  /\ deps = [j \in Jobs |-> {}] /\ need = [j \in Jobs |-> {}]
  /\ scheduled = [j \in Jobs |-> FALSE] /\ finished = [j \in Jobs |-> FALSE]
  /\ canceled = [j \in Jobs |-> FALSE] /\ parent = [j \in Jobs |-> FALSE]
  /\ cb = [j \in Jobs |-> FALSE] /\ hw_done = [j \in Jobs |-> FALSE]
  /\ freed = [j \in Jobs |-> FALSE] /\ finish_cb = [j \in Jobs |-> None]
  /\ work = {} /\ karma = {} /\ abandoned = {}
  /\ queue = [e \in Entities |-> <<>>]
  /\ rq_of \in {f \in [Entities -> Scheds] : \A e \in Entities : f[e] \in sched_list[e]}
  /\ dependency = [e \in Entities |-> None]
  /\ last_scheduled = [e \in Entities |-> None]
  /\ entity_idle = [e \in Entities |-> TRUE]
  /\ stopped = [e \in Entities |-> FALSE] /\ guilty = [e \in Entities |-> FALSE]
  /\ epc = [e \in Entities |-> "open"]
  /\ entities = [s \in Scheds |-> <<>>] /\ current_entity = [s \in Scheds |-> None]
  /\ pending_list = [s \in Scheds |-> <<>>] /\ hw_rq_count = [s \in Scheds |-> 0]
  /\ work_tdr = [s \in Scheds |-> FALSE] /\ free_guilty = [s \in Scheds |-> FALSE]
  /\ ring = [s \in Scheds |-> <<>>] /\ park = [s \in Scheds |-> FALSE]
  /\ woken = [s \in Scheds |-> FALSE] /\ waking = {}
  /\ spc = [s \in Scheds |-> "top"] /\ sent = [s \in Scheds |-> None]
  /\ sjob = [s \in Scheds |-> None] /\ sres = [s \in Scheds |-> FALSE]
  /\ tpc = "idle" /\ bad = None /\ mode = "none" /\ todo = {} /\ cur = None /\ left = 0

----------------------------------------------------------------------------
(* Helpers                                                                 *)

Index(q, x) == CHOOSE i \in 1 .. Len(q) : q[i] = x

\* list_del(): the entry x leaves the list.
Without(q, x) ==
  IF x \in Range(q)
  THEN SubSeq(q, 1, Index(q, x) - 1) \o SubSeq(q, Index(q, x) + 1, Len(q))
  ELSE q

At(s, l) == spc' = [spc EXCEPT ![s] = l]
Ent(e, l) == epc' = [epc EXCEPT ![e] = l]

\* drm_sched_ready()
Ready(count, s) == count[s] < HwLimit

\* drm_sched_start_timeout()
StartTimeout(s, list) == work_tdr[s] \/ (s \in TdrScheds /\ list # <<>>)

\* Of a job of its own scheduler an entity waits for the scheduled fence, if the
\* driver allows, and else for the finished fence.
Pipelines(s, d) == sched[d] = s /\ d \notin DontPipeline
Pipelined(e) == dependency[e] # None /\ Pipelines(rq_of[e], dependency[e])

\* dma_fence_signal(&s_fence->scheduled) runs drm_sched_entity_clear_dep().
SignalScheduled(j) ==
  /\ scheduled' = [scheduled EXCEPT ![j] = TRUE]
  /\ dependency' = [e \in Entities |->
       IF dependency[e] = j /\ Pipelined(e) THEN None ELSE dependency[e]]

\* dma_fence_signal(&s_fence->finished) runs drm_sched_entity_wakeup() and
\* drm_sched_entity_kill_jobs_cb().  WokenBy: the schedulers that the former
\* wakes, with count as the hw_rq_count.
WaitsFor(e, j) == dependency[e] = j /\ ~Pipelined(e)
WokenBy(j, count) == {s \in Scheds : Ready(count, s)
                                     /\ \E e \in Entities : WaitsFor(e, j) /\ rq_of[e] = s}
Wake(ss) == woken' = [s \in Scheds |-> woken[s] \/ s \in ss]

Killed(j) == {k \in Jobs : finish_cb[k] = j}

SignalFinished(j, count, ss) ==
  /\ finished' = [finished EXCEPT ![j] = TRUE]
  /\ dependency' = [e \in Entities |-> IF dependency[e] = j THEN None ELSE dependency[e]]
  /\ Wake(ss \cup WokenBy(j, count))
  /\ finish_cb' = [k \in Jobs |-> IF finish_cb[k] = j THEN None ELSE finish_cb[k]]

\* drm_sched_job_done(), which wakes the threads of ss at the end.
JobDone(j, ss) ==
  /\ hw_rq_count' = [hw_rq_count EXCEPT ![sched[j]] = @ - 1]
  /\ SignalFinished(j, hw_rq_count', ss)
  /\ work' = work \cup Killed(j)

----------------------------------------------------------------------------
(* drm_sched_job_arm() and drm_sched_entity_push_job()                     *)

\* drm_sched_entity_select_rq(): the entity may move only when its queue is
\* empty and its last job has finished.
\* Mutant: a finished last job is not asked for.
MayMoveEarly(e) == queue[e] = <<>>
MayMove(e) ==
  /\ queue[e] = <<>>
  /\ last_scheduled[e] = None \/ finished[last_scheduled[e]]

NewRq(e) == IF MayMove(e) THEN sched_list[e] ELSE {rq_of[e]}

\* drm_sched_rq_remove_entity()
\* Mutant: the cursor of the round robin is left on the entity.
RemoveKeepsCursor(e) ==
  /\ entities' = [entities EXCEPT ![rq_of[e]] = Without(@, e)]
  /\ UNCHANGED current_entity
RemoveEntity(e) ==
  LET s == rq_of[e] IN
  /\ entities' = [entities EXCEPT ![s] = Without(@, e)]
  /\ current_entity' = [current_entity EXCEPT ![s] = IF @ = e THEN None ELSE @]

\* drm_sched_job_arm(): the run queue that is selected is that of the job.
JobArm(e, j, s) ==
  /\ s \in NewRq(e)
  /\ IF s # rq_of[e] THEN RemoveEntity(e) ELSE UNCHANGED rqVars
  /\ rq_of' = [rq_of EXCEPT ![e] = s]
  /\ ent' = [ent EXCEPT ![j] = e]
  /\ sched' = [sched EXCEPT ![j] = s]

\* The job is armed and, under the same lock of the driver, added to the queue of
\* the entity.  D are finished fences of jobs armed before.
PushJob(e, j, D, s) ==
  /\ epc[e] = "open"
  /\ JobArm(e, j, s)
  /\ deps' = [deps EXCEPT ![j] = D]
  /\ need' = [need EXCEPT ![j] = D]
  /\ queue' = [queue EXCEPT ![e] = Append(@, j)]
  /\ Ent(e, IF queue[e] = <<>> THEN "add" ELSE "open")
  /\ UNCHANGED <<fenceVars, hwVars, killVars, freed, karma, abandoned, stopped, guilty,
                 dependency, last_scheduled, entity_idle, listVars, ring, wakeVars,
                 threadVars, tdrVars>>

\* The first job of an entity: "Trying to push to a killed entity",
PushStopped(e) ==
  /\ epc[e] = "add" /\ stopped[e]
  /\ Ent(e, "open")
  /\ UNCHANGED <<jobVars, placeVars, queue, dependency, last_scheduled, entity_idle,
                 schedVars, threadVars, tdrVars>>

\* or drm_sched_rq_add_entity(),
AddEntity(e) ==
  /\ epc[e] = "add" /\ ~stopped[e]
  /\ entities' = [entities EXCEPT ![rq_of[e]] = IF e \in Range(@) THEN @ ELSE Append(@, e)]
  /\ Ent(e, "wake")
  /\ UNCHANGED <<jobVars, placeVars, queue, dependency, last_scheduled, entity_idle,
                 current_entity, listVars, ring, wakeVars, threadVars, tdrVars>>

\* and then drm_sched_wakeup().
PushWake(e) ==
  /\ epc[e] = "wake"
  /\ Wake(IF Ready(hw_rq_count, rq_of[e]) THEN {rq_of[e]} ELSE {})
  /\ Ent(e, "open")
  /\ UNCHANGED <<jobVars, placeVars, queue, dependency, last_scheduled, entity_idle,
                 rqVars, listVars, ring, park, waking, threadVars, tdrVars>>

----------------------------------------------------------------------------
(* drm_sched_main()                                                        *)

\* drm_sched_get_cleanup_job() cancels the timer, and starts it for the next job.
\* Mutant: it does not.
TimerCanceled(s) == FALSE
TimerAfterCleanup(s) == s \in TdrScheds /\ Len(pending_list[s]) > 1

HasCleanupJob(s) == pending_list[s] # <<>> /\ finished[Head(pending_list[s])]

\* wait_event_interruptible() sets the task state, and its condition calls
\* drm_sched_get_cleanup_job(): a finished job is taken off the list,
GetCleanupJob(s) ==
  /\ spc[s] = "top" /\ HasCleanupJob(s)
  /\ pending_list' = [pending_list EXCEPT ![s] = Tail(@)]
  /\ work_tdr' = [work_tdr EXCEPT ![s] = TimerAfterCleanup(s)]
  /\ sjob' = [sjob EXCEPT ![s] = Head(pending_list[s])]
  /\ woken' = [woken EXCEPT ![s] = FALSE]
  /\ At(s, "free")
  /\ UNCHANGED <<jobVars, entityVars, rqVars, hw_rq_count, free_guilty, ring, park, waking,
                 sent, sres, tdrVars>>

FreeJob(s) ==
  /\ spc[s] = "free"
  /\ freed' = [freed EXCEPT ![sjob[s]] = TRUE]
  /\ sjob' = [sjob EXCEPT ![s] = None]
  /\ At(s, "top")
  /\ UNCHANGED <<pushVars, fenceVars, hwVars, killVars, deps, karma, abandoned, entityVars,
                 schedVars, sent, sres, tdrVars>>

\* or there is none and the condition goes on.
NoCleanupJob(s) ==
  /\ spc[s] = "top" /\ ~HasCleanupJob(s)
  /\ woken' = [woken EXCEPT ![s] = FALSE]
  /\ At(s, "select")
  /\ UNCHANGED <<jobVars, entityVars, rqVars, listVars, ring, park, waking, sent, sjob,
                 sres, tdrVars>>

\* drm_sched_blocked()
Park(s) ==
  /\ spc[s] = "select" /\ park[s]
  /\ At(s, "parked")
  /\ UNCHANGED <<jobVars, entityVars, schedVars, sent, sjob, sres, tdrVars>>

\* Unparked, the thread is running and evaluates its condition again.
Unpark(s) ==
  /\ spc[s] = "parked" /\ ~park[s]
  /\ At(s, "top")
  /\ UNCHANGED <<jobVars, entityVars, schedVars, sent, sjob, sres, tdrVars>>

\* drm_sched_entity_is_ready()
IsReady(e) == queue[e] # <<>> /\ dependency[e] = None

\* drm_sched_rq_select_entity(): the first ready entity after the current one,
\* going round the list.  The order in which a run queue is searched:
SearchOrder(s) ==
  LET q == entities[s]
      k == IF current_entity[s] = None THEN 0 ELSE Index(q, current_entity[s])
  IN SubSeq(q, k + 1, Len(q)) \o SubSeq(q, 1, k)
IsNext(s, e) ==
  LET q == SearchOrder(s) IN
  /\ IsReady(e)
  /\ \E k \in 1 .. Len(q) : q[k] = e /\ \A i \in 1 .. k - 1 : ~IsReady(q[i])

CanSelect(s) == Ready(hw_rq_count, s) /\ \E e \in Range(entities[s]) : IsReady(e)

SelectEntity(s, e) ==
  /\ spc[s] = "select" /\ ~park[s] /\ Ready(hw_rq_count, s) /\ IsNext(s, e)
  /\ current_entity' = [current_entity EXCEPT ![s] = e]
  /\ entity_idle' = [entity_idle EXCEPT ![e] = FALSE]
  /\ sent' = [sent EXCEPT ![s] = e]
  /\ At(s, "pop")
  /\ UNCHANGED <<jobVars, placeVars, queue, dependency, last_scheduled, epc, entities,
                 listVars, ring, wakeVars, sjob, sres, tdrVars>>

Sleep(s) ==
  /\ spc[s] = "select" /\ ~park[s] /\ ~CanSelect(s)
  /\ At(s, "sleep")
  /\ UNCHANGED <<jobVars, entityVars, schedVars, sent, sjob, sres, tdrVars>>

WakeUp(s) ==
  /\ spc[s] = "sleep" /\ woken[s]
  /\ At(s, "top")
  /\ UNCHANGED <<jobVars, entityVars, schedVars, sent, sjob, sres, tdrVars>>

\* drm_sched_entity_pop_job(): a round of its loop over the dependencies of the
\* job.  Fences of the entity itself are skipped; of a job of the same scheduler
\* only the scheduled fence may be waited for.
\* Mutant: so it is for a job of any scheduler.
MetWhenScheduled(s, e, d) == ent[d] = e \/ scheduled[d]
Met(s, e, d) == ent[d] = e \/ (IF Pipelines(s, d) THEN scheduled[d] ELSE finished[d])

PopNextDep(s, d) ==
  LET j == Head(queue[sent[s]]) IN
  /\ spc[s] = "pop" /\ d \in deps[j] /\ Met(s, sent[s], d)
  /\ deps' = [deps EXCEPT ![j] = @ \ {d}]
  /\ UNCHANGED <<pushVars, fenceVars, hwVars, killVars, freed, karma, abandoned,
                 entityVars, schedVars, threadVars, tdrVars>>

\* A callback is added to the fence, and the thread lets go of the entity.
PopWaitDep(s, d) ==
  LET j == Head(queue[sent[s]]) IN
  /\ spc[s] = "pop" /\ d \in deps[j] /\ ~Met(s, sent[s], d)
  /\ deps' = [deps EXCEPT ![j] = @ \ {d}]
  /\ dependency' = [dependency EXCEPT ![sent[s]] = d]
  /\ entity_idle' = [entity_idle EXCEPT ![sent[s]] = TRUE]
  /\ sent' = [sent EXCEPT ![s] = None]
  /\ At(s, "top")
  /\ UNCHANGED <<pushVars, fenceVars, hwVars, killVars, freed, karma, abandoned, placeVars,
                 queue, last_scheduled, epc, schedVars, sjob, sres, tdrVars>>

\* drm_sched_job_begin(): the job joins the pending list, and the timer is started.
JobBegin(s, j) ==
  /\ pending_list' = [pending_list EXCEPT ![s] = Append(@, j)]
  /\ work_tdr' = [work_tdr EXCEPT ![s] = StartTimeout(s, <<j>>)]

\* No dependency is left: the job leaves the queue and is counted.
PopJob(s) ==
  LET e == sent[s]
      j == Head(queue[e])
  IN
  /\ spc[s] = "pop" /\ deps[j] = {}
  /\ canceled' = [canceled EXCEPT ![j] = @ \/ guilty[e]]
  /\ last_scheduled' = [last_scheduled EXCEPT ![e] = j]
  /\ queue' = [queue EXCEPT ![e] = Tail(@)]
  /\ hw_rq_count' = [hw_rq_count EXCEPT ![s] = @ + 1]
  /\ JobBegin(s, j)
  /\ sjob' = [sjob EXCEPT ![s] = j]
  /\ At(s, "run")
  /\ UNCHANGED <<pushVars, scheduled, finished, hwVars, killVars, deps, freed, karma,
                 abandoned, placeVars, dependency, entity_idle, epc, rqVars, free_guilty,
                 ring, wakeVars, sent, sres, tdrVars>>

\* ops->run_job() gives the job to the hardware and returns a fence, or returns
\* none, which it always does with a job that has an error set.  The entity is let
\* go of: complete(&entity->entity_idle).
RunJob(s, r) ==
  /\ spc[s] = "run"
  /\ r => ~canceled[sjob[s]]
  /\ ring' = [ring EXCEPT ![s] = IF r THEN Append(@, sjob[s]) ELSE @]
  /\ sres' = [sres EXCEPT ![s] = r]
  /\ entity_idle' = [entity_idle EXCEPT ![sent[s]] = TRUE]
  /\ sent' = [sent EXCEPT ![s] = None]
  /\ At(s, "parent")
  /\ UNCHANGED <<jobVars, placeVars, queue, dependency, last_scheduled, epc, rqVars,
                 listVars, wakeVars, sjob, tdrVars>>

\* wake_up(&sched->job_scheduled): those who flush test again.
\* Mutant: nobody is woken.
JobScheduledSilent(s) == UNCHANGED epc
JobScheduled(s) ==
  epc' = [e \in Entities |->
            IF epc[e] = "flush_sleep" /\ rq_of[e] = s THEN "flush" ELSE epc[e]]

\* The scheduled fence is signalled, and drm_sched_job_done_cb() added to the
\* fence of the hardware, if that is not signalled yet.
AddDoneCb(s) ==
  LET j == sjob[s] IN
  /\ spc[s] = "parent" /\ sres[s] /\ ~hw_done[j]
  /\ SignalScheduled(j)
  /\ parent' = [parent EXCEPT ![j] = TRUE]
  /\ cb' = [cb EXCEPT ![j] = TRUE]
  /\ JobScheduled(s)
  /\ sjob' = [sjob EXCEPT ![s] = None]
  /\ sres' = [sres EXCEPT ![s] = FALSE]
  /\ At(s, "top")
  /\ UNCHANGED <<pushVars, finished, canceled, hw_done, killVars, deps, freed, karma,
                 abandoned, placeVars, queue, last_scheduled, entity_idle, schedVars, sent,
                 tdrVars>>

\* It is, or there is none: drm_sched_job_done().
DoneAtOnce(s) ==
  LET j == sjob[s] IN
  /\ spc[s] = "parent"
  /\ sres[s] => hw_done[j]
  /\ parent' = [parent EXCEPT ![j] = sres[s]]
  /\ canceled' = [canceled EXCEPT ![j] = @ \/ ~sres[s]]
  /\ scheduled' = [scheduled EXCEPT ![j] = TRUE]
  /\ JobDone(j, {s})
  /\ JobScheduled(s)
  /\ sjob' = [sjob EXCEPT ![s] = None]
  /\ sres' = [sres EXCEPT ![s] = FALSE]
  /\ At(s, "top")
  /\ UNCHANGED <<pushVars, cb, hw_done, deps, freed, karma, abandoned, placeVars, queue,
                 last_scheduled, entity_idle, rqVars, pending_list, work_tdr, free_guilty,
                 ring, park, waking, sent, tdrVars>>

----------------------------------------------------------------------------
(* The hardware (external) completes jobs in order.  Its interrupt signals *)
(* the fence, which calls drm_sched_job_done_cb() if that is linked.       *)

AtHead(s, j) == ring[s] # <<>> /\ Head(ring[s]) = j

HwSilent(s, j) ==
  /\ AtHead(s, j) /\ ~cb[j]
  /\ ring' = [ring EXCEPT ![s] = Tail(@)]
  /\ hw_done' = [hw_done EXCEPT ![j] = TRUE]
  /\ UNCHANGED <<pushVars, fenceVars, parent, cb, killVars, deps, freed, karma, abandoned,
                 entityVars, rqVars, listVars, wakeVars, threadVars, tdrVars>>

HwDone(s, j) ==
  /\ AtHead(s, j) /\ cb[j]
  /\ ring' = [ring EXCEPT ![s] = Tail(@)]
  /\ hw_done' = [hw_done EXCEPT ![j] = TRUE]
  /\ cb' = [cb EXCEPT ![j] = FALSE]
  /\ JobDone(j, {})
  /\ waking' = waking \cup {s}
  /\ UNCHANGED <<pushVars, scheduled, canceled, parent, deps, freed, karma, abandoned,
                 placeVars, queue, last_scheduled, entity_idle, epc, rqVars, pending_list,
                 work_tdr, free_guilty, park, threadVars, tdrVars>>

\* The last thing drm_sched_job_done() does, when the job may be gone already.
DoneWake(s) ==
  /\ s \in waking
  /\ waking' = waking \ {s}
  /\ Wake({s})
  /\ UNCHANGED <<jobVars, entityVars, rqVars, listVars, ring, park, threadVars, tdrVars>>

----------------------------------------------------------------------------
(* drm_sched_job_timedout(), which runs on the one thread of the device's  *)
(* reset domain, and the timedout_job() of amdgpu.                         *)

\* The job at the head is taken off the list, so that the thread cannot free it.
\* The timer of an empty list is not started again.
TdrFire(s) ==
  /\ tpc = "idle" /\ work_tdr[s]
  /\ work_tdr' = [work_tdr EXCEPT ![s] = FALSE]
  /\ IF pending_list[s] = <<>>
     THEN UNCHANGED <<pending_list, tpc, bad>>
     ELSE /\ bad' = Head(pending_list[s])
          /\ pending_list' = [pending_list EXCEPT ![s] = Tail(@)]
          /\ tpc' = "timedout"
  /\ UNCHANGED <<jobVars, entityVars, rqVars, hw_rq_count, free_guilty, ring, wakeVars,
                 threadVars, mode, todo, cur, left>>

\* amdgpu_ring_soft_recovery(): the fence of the hardware is signalled after
\* all.  Nothing is stopped, and nothing puts the job back.
SoftRecovered == SoftRecovery /\ parent[bad] /\ hw_done[bad]

SoftRecover ==
  /\ tpc = "timedout" /\ SoftRecovered
  /\ tpc' = "end"
  /\ UNCHANGED <<jobVars, entityVars, schedVars, threadVars, bad, mode, todo, cur, left>>

\* amdgpu_device_gpu_recover() stops each scheduler,
Recover ==
  /\ tpc = "timedout" /\ ~SoftRecovered
  /\ tpc' = "stop" /\ todo' = Scheds
  /\ UNCHANGED <<jobVars, entityVars, schedVars, threadVars, bad, mode, cur, left>>

\* drm_sched_stop(): kthread_park() asks the thread to park
ParkThread(s) ==
  /\ tpc = "stop" /\ s \in todo
  /\ todo' = todo \ {s} /\ cur' = s
  /\ park' = [park EXCEPT ![s] = TRUE]
  /\ Wake({s})
  /\ tpc' = "parking"
  /\ UNCHANGED <<jobVars, entityVars, rqVars, listVars, ring, waking, threadVars, bad,
                 mode, left>>

\* and waits until it has.  The bad job goes back to the head of its list.
WithBad(s) == (IF sched[bad] = s THEN <<bad>> ELSE <<>>) \o pending_list[s]

ReinsertBad ==
  /\ tpc = "parking" /\ spc[cur] = "parked"
  /\ pending_list' = [pending_list EXCEPT ![cur] = WithBad(cur)]
  /\ left' = Len(WithBad(cur))
  /\ tpc' = "unhook"
  /\ UNCHANGED <<jobVars, entityVars, rqVars, hw_rq_count, work_tdr, free_guilty, ring,
                 wakeVars, threadVars, bad, mode, todo, cur>>

\* Mutant: hw_rq_count is not taken down.
UnhookedKept(n) == n
Unhooked(n) == n - 1

\* From the last job to the first: the callback is removed from the fence of the
\* hardware,
UnhookJob ==
  LET j == pending_list[cur][left] IN
  /\ tpc = "unhook" /\ left > 0 /\ parent[j] /\ cb[j]
  /\ cb' = [cb EXCEPT ![j] = FALSE]
  /\ parent' = [parent EXCEPT ![j] = FALSE]
  /\ hw_rq_count' = [hw_rq_count EXCEPT ![cur] = Unhooked(@)]
  /\ left' = left - 1
  /\ UNCHANGED <<pushVars, fenceVars, hw_done, killVars, deps, freed, karma, abandoned,
                 entityVars, rqVars, pending_list, work_tdr, free_guilty, ring, wakeVars,
                 threadVars, tpc, bad, mode, todo, cur>>

\* Mutant: the bad job too is freed.
FreesBad(j) == TRUE
FreesInStop(j) == j # bad

\* or it has been called: the job leaves the list and is freed once its finished
\* fence is signalled, except the bad one.
RemoveJob ==
  LET j == pending_list[cur][left] IN
  /\ tpc = "unhook" /\ left > 0 /\ ~(parent[j] /\ cb[j])
  /\ finished[j]
  /\ pending_list' = [pending_list EXCEPT ![cur] = Without(@, j)]
  /\ freed' = [freed EXCEPT ![j] = @ \/ FreesInStop(j)]
  /\ free_guilty' = [free_guilty EXCEPT ![cur] = @ \/ j = bad]
  /\ left' = left - 1
  /\ UNCHANGED <<pushVars, fenceVars, hwVars, killVars, deps, karma, abandoned, entityVars,
                 rqVars, hw_rq_count, work_tdr, ring, wakeVars, threadVars, tpc, bad, mode,
                 todo, cur>>

StopDone ==
  /\ tpc = "unhook" /\ left = 0
  /\ work_tdr' = [work_tdr EXCEPT ![cur] = FALSE]
  /\ tpc' = IF todo = {} THEN "reset" ELSE "stop"
  /\ UNCHANGED <<jobVars, entityVars, rqVars, pending_list, hw_rq_count, free_guilty, ring,
                 wakeVars, threadVars, bad, mode, todo, cur, left>>

\* then resets the hardware unless the bad job is done after all (a job without a
\* fence counts as not done).  With r the reset succeeds.  The test and the clearing
\* of the fences are one step: that the bad job completes between them is left out.
SkipReset ==
  /\ tpc = "reset" /\ hw_done[bad]
  /\ mode' = "skipped" /\ todo' = Scheds /\ tpc' = "start"
  /\ UNCHANGED <<jobVars, entityVars, schedVars, threadVars, bad, cur, left>>

\* drm_sched_increase_karma() marks the entity if it is on the run queue.
IncreaseKarma ==
  /\ karma' = karma \cup {bad}
  /\ guilty' = [guilty EXCEPT ![ent[bad]] = @ \/ ent[bad] \in Range(entities[sched[bad]])]

\* amdgpu_device_pre_asic_reset() forgets the fences of the jobs that the hardware
\* has, and blames the bad job.
PreAsicReset ==
  /\ ring' = [s \in Scheds |-> <<>>]
  /\ IncreaseKarma

Reset(r) ==
  /\ tpc = "reset" /\ ~hw_done[bad]
  /\ r \/ ResetMayFail
  /\ PreAsicReset
  /\ mode' = IF r THEN "reset" ELSE "failed"
  /\ todo' = Scheds /\ tpc' = "start"
  /\ UNCHANGED <<pushVars, fenceVars, hwVars, killVars, deps, freed, abandoned, rq_of,
                 stopped, queue, dependency, last_scheduled, entity_idle, epc, rqVars,
                 listVars, wakeVars, threadVars, bad, cur, left>>

\* drm_sched_resubmit_jobs(): the jobs of the context of the first job with
\* karma, from that job on, get an error.  The hang limit is 0.
\* Mutant: none does.
NotGuilty(s) == {}
Guilty(s) ==
  LET q == pending_list[s]
      k == CHOOSE k \in 1 .. Len(q) : q[k] \in karma /\ \A i \in 1 .. k - 1 : q[i] \notin karma
  IN IF \E j \in Range(q) : j \in karma
     THEN {q[i] : i \in {i \in k .. Len(q) : ent[q[i]] = ent[q[k]]}}
     ELSE {}

\* Each job is given to run_job() again; for those in F it fails.  The fence is the
\* one in the job, and stays signalled if it is.
Resubmit(s, F) ==
  LET q      == pending_list[s]
      error  == F \cup Guilty(s) \cup {j \in Range(q) : canceled[j]}
  IN
  /\ tpc = "start" /\ mode = "reset" /\ s \in todo
  /\ F \subseteq Range(q)
  /\ canceled' = [j \in Jobs |-> canceled[j] \/ j \in error]
  /\ parent' = [j \in Jobs |-> IF j \in Range(q) THEN j \notin error ELSE parent[j]]
  /\ ring' = [ring EXCEPT ![s] = @ \o SelectSeq(q, LAMBDA j : j \notin error)]
  /\ todo' = todo \ {s} /\ cur' = s /\ left' = 0
  /\ tpc' = "jobs"
  /\ UNCHANGED <<pushVars, scheduled, finished, cb, hw_done, killVars, deps, freed, karma,
                 abandoned, entityVars, rqVars, listVars, wakeVars, threadVars, bad, mode>>

\* Without a reset, or after one that failed, the jobs are not run again.
NoResubmit(s) ==
  /\ tpc = "start" /\ mode # "reset" /\ s \in todo
  /\ todo' = todo \ {s} /\ cur' = s /\ left' = 0
  /\ tpc' = "jobs"
  /\ UNCHANGED <<jobVars, entityVars, schedVars, threadVars, bad, mode>>

\* drm_sched_start(), job by job: the callback is added to the fence of the
\* hardware,
StartJob ==
  LET j == pending_list[cur][left + 1] IN
  /\ tpc = "jobs" /\ left < Len(pending_list[cur])
  /\ mode # "failed" /\ parent[j] /\ ~hw_done[j]
  /\ hw_rq_count' = [hw_rq_count EXCEPT ![cur] = @ + 1]
  /\ cb' = [cb EXCEPT ![j] = TRUE]
  /\ left' = left + 1
  /\ UNCHANGED <<pushVars, fenceVars, parent, hw_done, killVars, deps, freed, karma,
                 abandoned, entityVars, rqVars, pending_list, work_tdr, free_guilty, ring,
                 wakeVars, threadVars, tpc, bad, mode, todo, cur>>

\* or the fence is signalled, or there is none: hw_rq_count goes up and, in
\* drm_sched_job_done(), down again;
StartDone ==
  LET j == pending_list[cur][left + 1] IN
  /\ tpc = "jobs" /\ left < Len(pending_list[cur])
  /\ mode # "failed"
  /\ parent[j] => hw_done[j]
  /\ SignalFinished(j, hw_rq_count, {cur})
  /\ work' = work \cup Killed(j)
  /\ left' = left + 1
  /\ UNCHANGED <<pushVars, scheduled, canceled, hwVars, deps, freed, karma, abandoned,
                 placeVars, queue, last_scheduled, entity_idle, epc, rqVars, listVars,
                 ring, park, waking, threadVars, tpc, bad, mode, todo, cur>>

\* or the reset failed, and the job is only counted.
StartFailed ==
  LET j == pending_list[cur][left + 1] IN
  /\ tpc = "jobs" /\ left < Len(pending_list[cur])
  /\ mode = "failed"
  /\ hw_rq_count' = [hw_rq_count EXCEPT ![cur] = @ + 1]
  /\ abandoned' = abandoned \cup {j}
  /\ left' = left + 1
  /\ UNCHANGED <<pushVars, fenceVars, hwVars, killVars, deps, freed, karma, entityVars,
                 rqVars, pending_list, work_tdr, free_guilty, ring, wakeVars, threadVars,
                 tpc, bad, mode, todo, cur>>

\* The timer is started and the thread goes on.
UnparkThread ==
  /\ tpc = "jobs" /\ left = Len(pending_list[cur])
  /\ work_tdr' = [work_tdr EXCEPT ![cur] =
       @ \/ (mode # "failed" /\ StartTimeout(cur, pending_list[cur]))]
  /\ park' = [park EXCEPT ![cur] = FALSE]
  /\ tpc' = IF todo = {} THEN "end" ELSE "start"
  /\ UNCHANGED <<jobVars, entityVars, rqVars, pending_list, hw_rq_count, free_guilty, ring,
                 woken, waking, threadVars, bad, mode, todo, cur, left>>

\* "Guilty job did complete and hence needs to be manually removed"; the timer is
\* started again.
TdrEnd ==
  LET s == sched[bad] IN
  /\ tpc = "end"
  /\ freed' = [freed EXCEPT ![bad] = @ \/ free_guilty[s]]
  /\ free_guilty' = [free_guilty EXCEPT ![s] = FALSE]
  /\ work_tdr' = [work_tdr EXCEPT ![s] = StartTimeout(s, pending_list[s])]
  /\ tpc' = "idle" /\ bad' = None /\ mode' = "none" /\ cur' = None /\ left' = 0
  /\ UNCHANGED <<pushVars, fenceVars, hwVars, killVars, deps, karma, abandoned, entityVars,
                 rqVars, pending_list, hw_rq_count, ring, wakeVars, threadVars, todo>>

----------------------------------------------------------------------------
(* drm_sched_entity_flush() and drm_sched_entity_fini()                    *)

\* drm_sched_entity_is_idle()
IsIdle(e) == e \notin Range(entities[rq_of[e]]) \/ queue[e] = <<>> \/ stopped[e]

Flush(e) ==
  /\ epc[e] = "open" /\ e \in Closing
  /\ Ent(e, "flush")
  /\ UNCHANGED <<jobVars, placeVars, queue, dependency, last_scheduled, entity_idle,
                 schedVars, threadVars, tdrVars>>

FlushSleep(e) ==
  /\ epc[e] = "flush" /\ ~IsIdle(e)
  /\ Ent(e, "flush_sleep")
  /\ UNCHANGED <<jobVars, placeVars, queue, dependency, last_scheduled, entity_idle,
                 schedVars, threadVars, tdrVars>>

\* The wait ends: the entity is idle, or the process is killed or has waited long
\* enough.  A killed process stops the entity.  What comes next is up to the
\* driver: the file stays open elsewhere, or the entity is destroyed.
FlushEnd(e, kill, next) ==
  /\ \/ epc[e] = "flush" /\ IsIdle(e)
     \/ epc[e] = "flush_sleep" /\ MayKill
  /\ kill => MayKill
  /\ IF kill THEN RemoveEntity(e) ELSE UNCHANGED rqVars
  /\ stopped' = [stopped EXCEPT ![e] = @ \/ kill]
  /\ Ent(e, next)
  /\ UNCHANGED <<jobVars, rq_of, guilty, queue, dependency, last_scheduled, entity_idle,
                 listVars, ring, wakeVars, threadVars, tdrVars>>

\* The entity leaves the run queue.  When jobs are left, the thread must let go
\* of it first.
Fini(e) ==
  /\ epc[e] = "fini"
  /\ RemoveEntity(e)
  /\ Ent(e, IF queue[e] = <<>> THEN "put" ELSE "fini_wait")
  /\ UNCHANGED <<jobVars, placeVars, queue, dependency, last_scheduled, entity_idle,
                 listVars, ring, wakeVars, threadVars, tdrVars>>

\* The callback is removed from the dependency, which is forgotten.
\* Mutant: the thread is not waited for.
LetGoUnchecked(e) == TRUE
LetGo(e) == entity_idle[e]

ClearDependency(e) ==
  /\ epc[e] = "fini_wait" /\ LetGo(e)
  /\ dependency' = [dependency EXCEPT ![e] = None]
  /\ Ent(e, "kill")
  /\ UNCHANGED <<jobVars, placeVars, queue, last_scheduled, entity_idle, schedVars,
                 threadVars, tdrVars>>

\* drm_sched_entity_kill_jobs(): waits for the dependencies that are left, and
\* finishes the job, with an error, after the last one that was scheduled.
KillJob(e) ==
  LET j    == Head(queue[e])
      last == last_scheduled[e]
      now  == last = None \/ finished[last]
  IN
  /\ epc[e] = "kill" /\ queue[e] # <<>>
  /\ \A d \in deps[j] : finished[d]
  /\ queue' = [queue EXCEPT ![e] = Tail(@)]
  /\ deps' = [deps EXCEPT ![j] = {}]
  /\ SignalScheduled(j)
  /\ canceled' = [canceled EXCEPT ![j] = TRUE]
  /\ finish_cb' = [finish_cb EXCEPT ![j] = IF now THEN None ELSE last]
  /\ work' = IF now THEN work \cup {j} ELSE work
  /\ UNCHANGED <<pushVars, finished, hwVars, freed, karma, abandoned, placeVars,
                 last_scheduled, entity_idle, epc, schedVars, threadVars, tdrVars>>

PutLast(e) ==
  /\ epc[e] = "put" \/ (epc[e] = "kill" /\ queue[e] = <<>>)
  /\ last_scheduled' = [last_scheduled EXCEPT ![e] = None]
  /\ Ent(e, "gone")
  /\ UNCHANGED <<jobVars, placeVars, queue, dependency, entity_idle, schedVars, threadVars,
                 tdrVars>>

\* drm_sched_entity_kill_jobs_work()
KillWork(j) ==
  /\ j \in work
  /\ SignalFinished(j, hw_rq_count, {})
  /\ work' = (work \ {j}) \cup Killed(j)
  /\ freed' = [freed EXCEPT ![j] = TRUE]
  /\ UNCHANGED <<pushVars, scheduled, canceled, hwVars, deps, karma, abandoned, placeVars,
                 queue, last_scheduled, entity_idle, epc, rqVars, listVars, ring, park,
                 waking, threadVars, tdrVars>>

----------------------------------------------------------------------------

\* Jobs are numbered in the order in which they are armed.
Armed == {j \in Jobs : ent[j] # None}

Submit(e) ==
  \E j \in Jobs \ Armed :
    /\ \A k \in Jobs : k < j => k \in Armed
    /\ \E D \in SUBSET Armed, s \in NewRq(e) : Cardinality(D) <= MaxDeps /\ PushJob(e, j, D, s)

Client(e) ==
  \/ Submit(e) \/ PushStopped(e) \/ AddEntity(e) \/ PushWake(e)
  \/ Flush(e) \/ FlushSleep(e)
  \/ \E kill \in BOOLEAN, next \in {"open", "fini"} : FlushEnd(e, kill, next)
  \/ Fini(e) \/ ClearDependency(e) \/ KillJob(e) \/ PutLast(e)

Thread(s) ==
  \/ GetCleanupJob(s) \/ FreeJob(s) \/ NoCleanupJob(s) \/ Park(s) \/ Unpark(s)
  \/ (\E e \in Range(entities[s]) : SelectEntity(s, e)) \/ Sleep(s) \/ WakeUp(s)
  \/ \E d \in Jobs : PopNextDep(s, d) \/ PopWaitDep(s, d)
  \/ PopJob(s) \/ (\E r \in BOOLEAN : RunJob(s, r)) \/ AddDoneCb(s) \/ DoneAtOnce(s)

Hardware(s) == \E j \in Jobs : HwSilent(s, j) \/ HwDone(s, j)

Timeout ==
  \/ (\E s \in Scheds : TdrFire(s)) \/ SoftRecover \/ Recover
  \/ (\E s \in Scheds : ParkThread(s)) \/ ReinsertBad \/ UnhookJob \/ RemoveJob \/ StopDone
  \/ SkipReset \/ (\E r \in BOOLEAN : Reset(r))
  \/ (\E s \in Scheds : NoResubmit(s) \/ \E F \in SUBSET Armed : Resubmit(s, F))
  \/ StartJob \/ StartDone \/ StartFailed \/ UnparkThread \/ TdrEnd

Next ==
  \/ \E e \in Entities : Client(e)
  \/ \E s \in Scheds : Thread(s) \/ Hardware(s) \/ DoneWake(s)
  \/ Timeout
  \/ \E j \in Jobs : KillWork(j)

Spec == Init /\ [][Next]_vars

\* A thread that is running goes on, a delayed work item is run, a driver that has
\* armed a job pushes it.  Nothing is assumed of the hardware, which may hang.
Fairness ==
  /\ \A s \in Scheds : WF_vars(Thread(s)) /\ WF_vars(DoneWake(s))
  /\ \A e \in Entities : WF_vars(AddEntity(e)) /\ WF_vars(PushWake(e))
  /\ WF_vars(Timeout)

FairSpec == Spec /\ Fairness

----------------------------------------------------------------------------
(* Properties                                                              *)

JobOrNone == Jobs \cup {None}

\* The values of the variables.
TypeOK ==
  /\ ent \in [Jobs -> Entities \cup {None}] /\ sched \in [Jobs -> Scheds \cup {None}]
  /\ need \in [Jobs -> SUBSET Jobs] /\ deps \in [Jobs -> SUBSET Jobs]
  /\ {scheduled, finished, canceled, parent, cb, hw_done, freed} \subseteq [Jobs -> BOOLEAN]
  /\ finish_cb \in [Jobs -> JobOrNone]
  /\ work \subseteq Jobs /\ karma \subseteq Jobs /\ abandoned \subseteq Jobs
  /\ queue \in [Entities -> Seq(Jobs)] /\ rq_of \in [Entities -> Scheds]
  /\ {dependency, last_scheduled} \subseteq [Entities -> JobOrNone]
  /\ {entity_idle, stopped, guilty} \subseteq [Entities -> BOOLEAN]
  /\ epc \in [Entities -> {"open", "add", "wake", "flush", "flush_sleep", "fini", "fini_wait",
                           "kill", "put", "gone"}]
  /\ entities \in [Scheds -> Seq(Entities)]
  /\ {current_entity, sent} \subseteq [Scheds -> Entities \cup {None}]
  /\ {pending_list, ring} \subseteq [Scheds -> Seq(Jobs)]
  /\ hw_rq_count \in [Scheds -> 0 .. HwLimit]
  /\ {work_tdr, free_guilty, park, woken, sres} \subseteq [Scheds -> BOOLEAN]
  /\ waking \subseteq Scheds
  /\ spc \in [Scheds -> {"top", "free", "select", "parked", "sleep", "pop", "run",
                         "parent"}]
  /\ sjob \in [Scheds -> JobOrNone]
  /\ tpc \in {"idle", "timedout", "stop", "parking", "unhook", "reset", "start", "jobs", "end"}
  /\ bad \in JobOrNone /\ mode \in {"none", "skipped", "reset", "failed"}
  /\ todo \subseteq Scheds /\ cur \in Scheds \cup {None} /\ left \in 0 .. Cardinality(Jobs)

Running(s) == spc[s] \in {"run", "parent"}

\* The timeout handler has j, and has not put it back on the list.
HeldByTdr(j) ==
  /\ bad = j
  /\ \/ free_guilty[sched[j]] \/ tpc = "timedout"
     \/ tpc = "parking" /\ cur = sched[j]
     \/ tpc \in {"stop", "parking", "unhook"} /\ sched[j] \in todo

\* Who has to see to it that j is freed.
Owners(j) ==
  {<<"queue", e>> : e \in {e \in Entities : j \in Range(queue[e])}}
  \cup {<<"thread", s>> : s \in {s \in Scheds : sjob[s] = j /\ ~Running(s)}}
  \cup {<<"pending", s>> : s \in {s \in Scheds : j \in Range(pending_list[s])}}
  \cup (IF HeldByTdr(j) THEN {<<"tdr", sched[j]>>} ELSE {})
  \cup (IF finish_cb[j] # None THEN {<<"finish_cb", j>>} ELSE {})
  \cup (IF j \in work THEN {<<"work", j>>} ELSE {})

\* The callback in j is not linked to the hardware's fence, and neither the main
\* thread nor the timeout handler uses j any more.
Unused(j) ==
  /\ finished[j] /\ ~cb[j]
  /\ \A s \in Scheds : sjob[s] # j
  /\ bad = j => tpc \in {"start", "jobs", "end"} /\ ~free_guilty[sched[j]]

\* A job that has been pushed is freed once: until then exactly one list, thread or
\* work item holds it, through cleanup, timeout and kill, and afterwards nobody
\* holds or uses it.
OneOwner ==
  \A j \in Armed : /\ Cardinality(Owners(j)) = IF freed[j] THEN 0 ELSE 1
                   /\ freed[j] => Unused(j)

\* hw_rq_count is the number of jobs that the hardware has and will report, and the
\* one that the thread is submitting: it neither drifts up, which would throttle the
\* scheduler for ever, nor down.
HwCountExact ==
  \A s \in Scheds :
    hw_rq_count[s] = Cardinality({j \in Jobs : sched[j] = s /\ (cb[j] \/ j \in abandoned)})
                     + (IF Running(s) THEN 1 ELSE 0)

\* While jobs are pending the timer that finds a hang is armed, unless the handler
\* is at work or a reset has failed.
TimerArmed ==
  \A s \in TdrScheds :
    pending_list[s] # <<>> /\ tpc = "idle" /\ abandoned = {} => work_tdr[s]

\* An entity is on the run queue of its scheduler only, at most once; the cursor of
\* the round robin is on the list; and nothing points at an entity after fini.
EntityLinks ==
  \A s \in Scheds :
    /\ \A i, k \in 1 .. Len(entities[s]) : entities[s][i] = entities[s][k] => i = k
    /\ \A e \in Range(entities[s]) : rq_of[e] = s /\ epc[e] \notin {"put", "kill", "gone"}
    /\ current_entity[s] \in Range(entities[s]) \cup {None}
    /\ \A e \in Entities : epc[e] = "gone" => dependency[e] = None /\ queue[e] = <<>>

\* The jobs whose work must come before that of j.
Before(j) == need[j] \cup {i \in Armed : ent[i] = ent[j] /\ i < j}

\* When the hardware is given a job, each job it depends on and each earlier one of
\* its entity has finished, will not run at all, or is ahead of it on the same ring.
OrderKept ==
  \A s \in Scheds : \A k \in 1 .. Len(ring[s]) : \A d \in Before(ring[s][k]) :
    \/ finished[d] \/ canceled[d] \/ hw_done[d] \/ d \in abandoned
    \/ \E i \in 1 .. k - 1 : ring[s][i] = d

\* "this fence is what will be signaled by the scheduler when the job is completed":
\* a finished job has been completed by the hardware or carries an error.
FinishedIsDone == \A j \in Jobs : finished[j] => hw_done[j] \/ canceled[j]

\* drm_sched_entity_kill_jobs() empties the queue, which has a single consumer, only
\* when the main thread has let go of the entity.
OneConsumer == \A s \in Scheds : sent[s] # None => epc[sent[s]] # "kill"

\* A process that sleeps in drm_sched_entity_flush() while its entity is idle is
\* woken: the main thread that took the last job is on its way to job_scheduled.
FlushWoken ==
  \A e \in Entities : epc[e] = "flush_sleep" /\ IsIdle(e) => Running(rq_of[e])

\* A job that has been pushed is finished and freed in the end, even when the
\* hardware hangs.
JobRetires == \A j \in Jobs : j \in Armed ~> freed[j]

=============================================================================

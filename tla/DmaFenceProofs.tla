--------------------------- MODULE DmaFenceProofs ---------------------------
(***************************************************************************)
(* Proofs about DmaFence, for any number of fences, waiters and clients.   *)
(*                                                                         *)
(* The safety properties are not inductive: they hold because of which     *)
(* nodes a process owns at each point of its call, of who holds the lock   *)
(* while a list is detached, and of what a wait has already tested.  IInv  *)
(* says so, in eight parts.                                                *)
(***************************************************************************)
EXTENDS DmaFence, TLAPS

SigPCs == {"sig_lock", "sig_stamp", "sig_run"}

\* Where p is in its own call: a call of dma_fence_signal() made on the way
\* counts as the point it returns to.
At(p) == IF pc[p] \in SigPCs THEN ret[p] ELSE pc[p]

\* The lock is held exactly by the process that is signalling the fence.
LockInv ==
  /\ \A p \in Procs, f \in Fences :
       lock[f] = p <=> pc[p] \in {"sig_stamp", "sig_run"} /\ fen[p] = f
  /\ \A p \in Procs : ret[p] \in {"idle", "wait", "cleanup", "done"}

\* The two lists and the flags, as signalling goes on.
ListInv ==
  /\ \A p \in Procs :
       /\ pc[p] = "sig_stamp" => /\ signaled[fen[p]] /\ ~stamped[fen[p]]
                                 /\ walk[fen[p]] = {}
       /\ pc[p] = "sig_run" => stamped[fen[p]]
  /\ \A f \in Fences :
       /\ stamped[f] => signaled[f] /\ cb_list[f] = {}
       /\ lock[f] = None => walk[f] = {}
       /\ lock[f] = None /\ signaled[f] => stamped[f]

\* Which process can be where.
RoleInv ==
  \A p \in Procs :
    /\ At(p) \notin {"idle", "add_locked", "done"} => p \in Waiters
    /\ At(p) = "add_locked" => p # Irq

\* Linked nodes are live and uncalled, and the others have been called.
NodeInv ==
  \A p \in Procs, f \in Fences :
    /\ Linked(p, f) => f \in mem[p] /\ f \notin ran[p]
    /\ f \in mem[p] /\ ~Linked(p, f) /\ pc[p] # "cleanup" => f \in ran[p]
    /\ f \in mem[p] /\ f \in ran[p] => signaled[f]

\* The nodes a waiter owns at each point of a wait.
MemInv ==
  \A p \in Waiters :
    /\ scan[p] \subseteq arr[p]
    /\ At(p) = "idle" => arr[p] = {}
    /\ At(p) \in {"idle", "enable", "wait", "poll", "done"} => mem[p] = {}
    /\ At(p) \in {"enable", "wait", "sched", "relock"} => arr[p] = {fen[p]}
    /\ At(p) \in {"sched", "relock", "prepare", "test", "any_sched"} => mem[p] = arr[p]
    /\ At(p) \in {"add", "add_locked"} => mem[p] = arr[p] \ scan[p]
    /\ At(p) = "add_locked" => fen[p] \in scan[p]
    /\ At(p) = "cleanup" => /\ mem[p] \subseteq arr[p]
                            /\ \A f \in Fences : Linked(p, f) => f \in scan[p]

\* What a waiter about to sleep has tested.
WakeInv ==
  \A p \in Waiters :
    pc[p] \in {"sched", "test", "any_sched"} /\ ~task[p] =>
      \A f \in arr[p] : (pc[p] = "test" => f \notin scan[p]) /\ signaled[f]
                          => Linked(p, f)

\* Where the result of a wait comes from.
ResultInv ==
  \A p \in Waiters :
    /\ At(p) \in {"cleanup", "done"} /\ rv[p] = "pos" =>
         /\ fen[p] \in arr[p]
         /\ pc[p] # "sig_lock" => signaled[fen[p]]
    /\ pc[p] = "poll" => rv[p] = "zero"

\* A wait that began with a signalled fence keeps it in view and never sleeps.
PreInv ==
  \A p \in Waiters : preSig[p] /\ tmo[p] # "long" =>
    /\ At(p) \in {"enable", "wait"} => signaled[fen[p]]
    /\ pc[p] \in {"poll", "add", "add_locked"} => \E f \in scan[p] : signaled[f]
    /\ pc[p] \in {"add", "add_locked"} => rv[p] = "pos"
    /\ At(p) \notin {"sched", "relock", "prepare", "test", "any_sched"}
    /\ At(p) \in {"cleanup", "done"} => rv[p] = "pos"

IInv == LockInv /\ ListInv /\ RoleInv /\ NodeInv /\ MemInv /\ WakeInv
          /\ ResultInv /\ PreInv

----------------------------------------------------------------------------
\* The labels, timeouts and results used, and a default fence.
LEMMA Labels ==
  /\ "idle" \in PCs /\ "enable" \in PCs /\ "wait" \in PCs /\ "sched" \in PCs
  /\ "relock" \in PCs /\ "poll" \in PCs /\ "add" \in PCs /\ "add_locked" \in PCs
  /\ "prepare" \in PCs /\ "test" \in PCs /\ "any_sched" \in PCs /\ "cleanup" \in PCs
  /\ "sig_lock" \in PCs /\ "sig_stamp" \in PCs /\ "sig_run" \in PCs /\ "done" \in PCs
  /\ "pos" \in Results /\ "zero" \in Results /\ "neg" \in Results
  /\ AnyFence \in Fences
BY FenceAssumption DEF PCs, Results, AnyFence

\* Every action keeps every variable in its type.
LEMMA TypeInductive ==
  TypeOK /\ [Next]_vars => TypeOK'
<1> SUFFICES ASSUME TypeOK, [Next]_vars PROVE TypeOK'
  OBVIOUS
<1>1. CASE UNCHANGED vars
  BY <1>1, Labels DEF TypeOK, vars, fenceVars, procVars
<1>2. ASSUME NEW f \in Fences, HwComplete(f)
      PROVE  TypeOK'
  BY <1>2, Labels DEF TypeOK, HwComplete, fenceVars, procVars
<1>3. ASSUME NEW f \in Fences, IrqTake(f)
      PROVE  TypeOK'
  BY <1>3, Labels DEF TypeOK, IrqTake, Goto, fenceVars
<1>4. ASSUME NEW p \in Procs, SignalAgain(p)
      PROVE  TypeOK'
  BY <1>4, Labels DEF TypeOK, SignalAgain, Goto, fenceVars
<1>5. ASSUME NEW p \in Procs, SignalFirst(p)
      PROVE  TypeOK'
  BY <1>5, Labels DEF TypeOK, SignalFirst, Goto, BeginSignal, fenceVars
<1>6. ASSUME NEW p \in Procs, SignalStamp(p)
      PROVE  TypeOK'
  BY <1>6, Labels DEF TypeOK, SignalStamp, Goto, Detached, fenceVars
<1>7. ASSUME NEW p \in Procs, SignalUnlock(p)
      PROVE  TypeOK'
  BY <1>7, Labels DEF TypeOK, SignalUnlock, Goto, fenceVars
<1>8. ASSUME NEW p \in Procs, NEW q \in Procs, SignalCallback(p, q)
      PROVE  TypeOK'
  BY <1>8, Labels DEF TypeOK, SignalCallback, fenceVars
<1>9. ASSUME NEW p \in Procs, EnableSwSignaling(p)
      PROVE  TypeOK'
  BY <1>9, Labels DEF TypeOK, EnableSwSignaling, Goto, EnableSignal, fenceVars
<1>10. ASSUME NEW p \in Procs, EnableSwSignalingFails(p)
      PROVE  TypeOK'
  BY <1>10, Labels DEF TypeOK, EnableSwSignalingFails, Goto, EnableFails,
     MustEnable, BeginSignal, fenceVars
<1>11. ASSUME NEW p \in Procs, NEW low \in Results, DefaultWaitOut(p, low)
      PROVE  TypeOK'
  BY <1>11, Labels DEF TypeOK, DefaultWaitOut, IntOf, Goto, Set, WaitStart, fenceVars
<1>12. ASSUME NEW p \in Procs, DefaultWait(p)
      PROVE  TypeOK'
  BY <1>12, Labels DEF TypeOK, DefaultWait, Goto, Set, WaitStart, fenceVars
<1>13. ASSUME NEW p \in Procs, NEW r \in Results, Schedule(p, r)
      PROVE  TypeOK'
  BY <1>13, Labels DEF TypeOK, Schedule, Goto, Set, Slept, fenceVars
<1>14. ASSUME NEW p \in Procs, NEW r \in Results, RelockSleep(p, r)
      PROVE  TypeOK'
  BY <1>14, Labels DEF TypeOK, RelockSleep, Goto, Set, WaitOver, AfterSleep,
     fenceVars
<1>15. ASSUME NEW p \in Procs, NEW r \in Results, NEW low \in Results,
             RelockDone(p, r, low)
      PROVE  TypeOK'
  BY <1>15, Labels DEF TypeOK, RelockDone, IntOf, Goto, Set, WaitOver, Unlink,
     AfterSleep, fenceVars
<1>16. ASSUME NEW p \in Procs, AddCallbackLate(p)
      PROVE  TypeOK'
  BY <1>16, Labels DEF TypeOK, AddCallbackLate, Goto, Recheck, AddRefused,
     AddFailed, fenceVars
<1>17. ASSUME NEW p \in Procs, AddCallbackLink(p)
      PROVE  TypeOK'
  BY <1>17, Labels DEF TypeOK, AddCallbackLink, Goto, Set, Recheck,
     EnableSignal, AddReturns, fenceVars
<1>18. ASSUME NEW p \in Procs, AddCallbackFails(p)
      PROVE  TypeOK'
  BY <1>18, Labels DEF TypeOK, AddCallbackFails, Goto, Recheck, EnableFails,
     BeginSignal, AddRefused, AddFailed, fenceVars
<1>19. ASSUME NEW p \in Procs, NEW f \in Fences, AnyPollSignaled(p, f)
      PROVE  TypeOK'
  BY <1>19, Labels DEF TypeOK, AnyPollSignaled, Goto, Set, fenceVars
<1>20. ASSUME NEW p \in Procs, NEW f \in Fences, AnyPollCompleted(p, f)
      PROVE  TypeOK'
  BY <1>20, Labels DEF TypeOK, AnyPollCompleted, Goto, Set, Completed,
     fenceVars
<1>21. ASSUME NEW p \in Procs, NEW f \in Fences, AnyPollNext(p, f)
      PROVE  TypeOK'
  BY <1>21, Labels DEF TypeOK, AnyPollNext, fenceVars
<1>22. ASSUME NEW p \in Procs, NEW f \in Fences, AddCallbackFast(p, f)
      PROVE  TypeOK'
  BY <1>22, Labels DEF TypeOK, AddCallbackFast, Goto, CallsAdd, AddRefused,
     AddFailed, fenceVars
<1>23. ASSUME NEW p \in Procs, NEW f \in Fences, AddCallbackSlow(p, f)
      PROVE  TypeOK'
  BY <1>23, Labels DEF TypeOK, AddCallbackSlow, Goto, CallsAdd, fenceVars
<1>24. ASSUME NEW p \in Procs, NEW f \in Fences, AnyTestSignaled(p, f)
      PROVE  TypeOK'
  BY <1>24, Labels DEF TypeOK, AnyTestSignaled, Goto, fenceVars
<1>25. ASSUME NEW p \in Procs, NEW f \in Fences, AnyTestNext(p, f)
      PROVE  TypeOK'
  BY <1>25, Labels DEF TypeOK, AnyTestNext, fenceVars
<1>26. ASSUME NEW p \in Procs, NEW f \in Fences, AnyCleanup(p, f)
      PROVE  TypeOK'
  BY <1>26, Labels DEF TypeOK, AnyCleanup, RemoveCallback, Unlink, fenceVars
<1>27. ASSUME NEW p \in Procs, AnyPollNone(p)
      PROVE  TypeOK'
  BY <1>27, Labels DEF TypeOK, AnyPollNone, Goto, fenceVars
<1>28. ASSUME NEW p \in Procs, AnyAdded(p)
      PROVE  TypeOK'
  BY <1>28, Labels DEF TypeOK, AnyAdded, Goto, fenceVars
<1>29. ASSUME NEW p \in Procs, AnyPrepare(p)
      PROVE  TypeOK'
  BY <1>29, Labels DEF TypeOK, AnyPrepare, Goto, fenceVars
<1>30. ASSUME NEW p \in Procs, AnyTestNone(p)
      PROVE  TypeOK'
  BY <1>30, Labels DEF TypeOK, AnyTestNone, Goto, TaskState, fenceVars
<1>31. ASSUME NEW p \in Procs, AnyFree(p)
      PROVE  TypeOK'
  BY <1>31, Labels DEF TypeOK, AnyFree, Goto, fenceVars
<1>32. ASSUME NEW p \in Procs, NEW v \in Results, NEW r \in Results, AnySchedule(p, v, r)
      PROVE  TypeOK'
  BY <1>32, Labels DEF TypeOK, AnySchedule, Goto, Set, Slept, AfterSleep,
     fenceVars
<1>33. ASSUME NEW p \in Procs, Return(p)
      PROVE  TypeOK'
  BY <1>33, Labels DEF TypeOK, Return, Goto, fenceVars
<1>34. ASSUME NEW p \in Procs, NEW f \in Fences, NEW t \in CallTimeouts,
             NEW i \in BOOLEAN, WaitCall(p, f, t, i)
      PROVE  TypeOK'
  BY <1>34, Labels DEF TypeOK, WaitCall, Goto, fenceVars
<1>35. ASSUME NEW p \in Procs, NEW fs \in SUBSET Fences,
             NEW t \in CallTimeouts, NEW i \in BOOLEAN, WaitAnyCall(p, fs, t, i)
      PROVE  TypeOK'
  BY <1>35, Labels DEF TypeOK, WaitAnyCall, Goto, Set, fenceVars
<1>36. ASSUME NEW p \in Procs, NEW f \in Fences, ClientRemove(p, f)
      PROVE  TypeOK'
  BY <1>36, Labels DEF TypeOK, ClientRemove, Goto, Set, RemoveCallback, Unlink,
     RemoveAnswer, fenceVars
<1>37. ASSUME NEW p \in Procs, NEW f \in Fences, ClientPoll(p, f)
      PROVE  TypeOK'
  BY <1>37, Labels DEF TypeOK, ClientPoll, Goto, Completed, fenceVars
<1>38. ASSUME NEW p \in Procs, SpuriousWake(p)
      PROVE  TypeOK'
  BY <1>38, Labels DEF TypeOK, SpuriousWake, fenceVars
<1>39. QED
  BY <1>1, <1>2, <1>3, <1>4, <1>5, <1>6, <1>7, <1>8, <1>9, <1>10, <1>11, <1>12,
     <1>13, <1>14, <1>15, <1>16, <1>17, <1>18, <1>19, <1>20, <1>21, <1>22,
     <1>23, <1>24, <1>25, <1>26, <1>27, <1>28, <1>29, <1>30, <1>31, <1>32,
     <1>33, <1>34, <1>35, <1>36, <1>37, <1>38 DEF Next, Step, Call, SignalStep,
     WaitStep, AddStep, AnyStep

\* The lock changes hands only in a signal call.
LEMMA LockInductive ==
  TypeOK /\ LockInv /\ [Next]_vars => LockInv'
<1> SUFFICES ASSUME TypeOK, LockInv, [Next]_vars PROVE LockInv'
  OBVIOUS
<1>1. CASE UNCHANGED vars
  BY <1>1, RoleAssumption DEF LockInv, TypeOK, vars, fenceVars, procVars
<1>2. ASSUME NEW f \in Fences, HwComplete(f)
      PROVE  LockInv'
  BY <1>2, RoleAssumption DEF LockInv, TypeOK, HwComplete, fenceVars, procVars
<1>3. ASSUME NEW f \in Fences, IrqTake(f)
      PROVE  LockInv'
  BY <1>3, RoleAssumption DEF LockInv, TypeOK, IrqTake, Goto, fenceVars
<1>4. ASSUME NEW p \in Procs, SignalAgain(p)
      PROVE  LockInv'
  <2>1. ret[p] \notin SigPCs
    BY DEF LockInv, SigPCs
  <2>2. QED
    BY <1>4, <2>1, RoleAssumption DEF LockInv, TypeOK, SigPCs, SignalAgain, Goto,
       fenceVars
<1>5. ASSUME NEW p \in Procs, SignalFirst(p)
      PROVE  LockInv'
  BY <1>5, RoleAssumption DEF LockInv, TypeOK, SignalFirst, Goto, BeginSignal,
     fenceVars
<1>6. ASSUME NEW p \in Procs, SignalStamp(p)
      PROVE  LockInv'
  BY <1>6, RoleAssumption DEF LockInv, TypeOK, SignalStamp, Goto, Detached,
     fenceVars
<1>7. ASSUME NEW p \in Procs, SignalUnlock(p)
      PROVE  LockInv'
  <2>1. ret[p] \notin SigPCs
    BY DEF LockInv, SigPCs
  <2>2. QED
    BY <1>7, <2>1, RoleAssumption DEF LockInv, TypeOK, SigPCs, SignalUnlock,
       Goto, fenceVars
<1>8. ASSUME NEW p \in Procs, NEW q \in Procs, SignalCallback(p, q)
      PROVE  LockInv'
  BY <1>8, RoleAssumption DEF LockInv, TypeOK, SignalCallback, fenceVars
<1>9. ASSUME NEW p \in Procs, EnableSwSignaling(p)
      PROVE  LockInv'
  BY <1>9, RoleAssumption DEF LockInv, TypeOK, EnableSwSignaling, Goto,
     EnableSignal, fenceVars
<1>10. ASSUME NEW p \in Procs, EnableSwSignalingFails(p)
      PROVE  LockInv'
  BY <1>10, RoleAssumption DEF LockInv, TypeOK, EnableSwSignalingFails, Goto,
     EnableFails, MustEnable, BeginSignal, fenceVars
<1>11. ASSUME NEW p \in Procs, NEW low \in Results, DefaultWaitOut(p, low)
      PROVE  LockInv'
  BY <1>11, RoleAssumption DEF LockInv, TypeOK, DefaultWaitOut, IntOf, Goto, Set,
     WaitStart, fenceVars
<1>12. ASSUME NEW p \in Procs, DefaultWait(p)
      PROVE  LockInv'
  BY <1>12, RoleAssumption DEF LockInv, TypeOK, DefaultWait, Goto, Set,
     WaitStart, fenceVars
<1>13. ASSUME NEW p \in Procs, NEW r \in Results, Schedule(p, r)
      PROVE  LockInv'
  BY <1>13, RoleAssumption DEF LockInv, TypeOK, Schedule, Goto, Set, Slept,
     fenceVars
<1>14. ASSUME NEW p \in Procs, NEW r \in Results, RelockSleep(p, r)
      PROVE  LockInv'
  BY <1>14, RoleAssumption DEF LockInv, TypeOK, RelockSleep, Goto, Set,
     WaitOver, AfterSleep, fenceVars
<1>15. ASSUME NEW p \in Procs, NEW r \in Results, NEW low \in Results,
             RelockDone(p, r, low)
      PROVE  LockInv'
  BY <1>15, RoleAssumption DEF LockInv, TypeOK, RelockDone, IntOf, Goto, Set,
     WaitOver, Unlink, AfterSleep, fenceVars
<1>16. ASSUME NEW p \in Procs, AddCallbackLate(p)
      PROVE  LockInv'
  BY <1>16, RoleAssumption DEF LockInv, TypeOK, AddCallbackLate, Goto, Recheck,
     AddRefused, AddFailed, fenceVars
<1>17. ASSUME NEW p \in Procs, AddCallbackLink(p)
      PROVE  LockInv'
  BY <1>17, RoleAssumption DEF LockInv, TypeOK, AddCallbackLink, Goto, Set,
     Recheck, EnableSignal, AddReturns, fenceVars
<1>18. ASSUME NEW p \in Procs, AddCallbackFails(p)
      PROVE  LockInv'
  BY <1>18, RoleAssumption DEF LockInv, TypeOK, AddCallbackFails, Goto,
     Recheck, EnableFails, BeginSignal, AddRefused, AddFailed, fenceVars
<1>19. ASSUME NEW p \in Procs, NEW f \in Fences, AnyPollSignaled(p, f)
      PROVE  LockInv'
  BY <1>19, RoleAssumption DEF LockInv, TypeOK, AnyPollSignaled, Goto, Set,
     fenceVars
<1>20. ASSUME NEW p \in Procs, NEW f \in Fences, AnyPollCompleted(p, f)
      PROVE  LockInv'
  BY <1>20, RoleAssumption DEF LockInv, TypeOK, AnyPollCompleted, Goto, Set,
     Completed, fenceVars
<1>21. ASSUME NEW p \in Procs, NEW f \in Fences, AnyPollNext(p, f)
      PROVE  LockInv'
  BY <1>21, RoleAssumption DEF LockInv, TypeOK, AnyPollNext, fenceVars
<1>22. ASSUME NEW p \in Procs, NEW f \in Fences, AddCallbackFast(p, f)
      PROVE  LockInv'
  BY <1>22, RoleAssumption DEF LockInv, TypeOK, AddCallbackFast, Goto,
     CallsAdd, AddRefused, AddFailed, fenceVars
<1>23. ASSUME NEW p \in Procs, NEW f \in Fences, AddCallbackSlow(p, f)
      PROVE  LockInv'
  BY <1>23, RoleAssumption DEF LockInv, TypeOK, AddCallbackSlow, Goto,
     CallsAdd, fenceVars
<1>24. ASSUME NEW p \in Procs, NEW f \in Fences, AnyTestSignaled(p, f)
      PROVE  LockInv'
  BY <1>24, RoleAssumption DEF LockInv, TypeOK, AnyTestSignaled, Goto,
     fenceVars
<1>25. ASSUME NEW p \in Procs, NEW f \in Fences, AnyTestNext(p, f)
      PROVE  LockInv'
  BY <1>25, RoleAssumption DEF LockInv, TypeOK, AnyTestNext, fenceVars
<1>26. ASSUME NEW p \in Procs, NEW f \in Fences, AnyCleanup(p, f)
      PROVE  LockInv'
  BY <1>26, RoleAssumption DEF LockInv, TypeOK, AnyCleanup, RemoveCallback,
     Unlink, fenceVars
<1>27. ASSUME NEW p \in Procs, AnyPollNone(p)
      PROVE  LockInv'
  BY <1>27, RoleAssumption DEF LockInv, TypeOK, AnyPollNone, Goto, fenceVars
<1>28. ASSUME NEW p \in Procs, AnyAdded(p)
      PROVE  LockInv'
  BY <1>28, RoleAssumption DEF LockInv, TypeOK, AnyAdded, Goto, fenceVars
<1>29. ASSUME NEW p \in Procs, AnyPrepare(p)
      PROVE  LockInv'
  BY <1>29, RoleAssumption DEF LockInv, TypeOK, AnyPrepare, Goto, fenceVars
<1>30. ASSUME NEW p \in Procs, AnyTestNone(p)
      PROVE  LockInv'
  BY <1>30, RoleAssumption DEF LockInv, TypeOK, AnyTestNone, Goto, TaskState,
     fenceVars
<1>31. ASSUME NEW p \in Procs, AnyFree(p)
      PROVE  LockInv'
  BY <1>31, RoleAssumption DEF LockInv, TypeOK, AnyFree, Goto, fenceVars
<1>32. ASSUME NEW p \in Procs, NEW v \in Results, NEW r \in Results, AnySchedule(p, v, r)
      PROVE  LockInv'
  BY <1>32, RoleAssumption DEF LockInv, TypeOK, AnySchedule, Goto, Set, Slept,
     AfterSleep, fenceVars
<1>33. ASSUME NEW p \in Procs, Return(p)
      PROVE  LockInv'
  BY <1>33, RoleAssumption DEF LockInv, TypeOK, Return, Goto, fenceVars
<1>34. ASSUME NEW p \in Procs, NEW f \in Fences, NEW t \in CallTimeouts,
             NEW i \in BOOLEAN, WaitCall(p, f, t, i)
      PROVE  LockInv'
  BY <1>34, RoleAssumption DEF LockInv, TypeOK, WaitCall, Goto, fenceVars
<1>35. ASSUME NEW p \in Procs, NEW fs \in SUBSET Fences,
             NEW t \in CallTimeouts, NEW i \in BOOLEAN, WaitAnyCall(p, fs, t, i)
      PROVE  LockInv'
  BY <1>35, RoleAssumption DEF LockInv, TypeOK, WaitAnyCall, Goto, Set,
     fenceVars
<1>36. ASSUME NEW p \in Procs, NEW f \in Fences, ClientRemove(p, f)
      PROVE  LockInv'
  BY <1>36, RoleAssumption DEF LockInv, TypeOK, ClientRemove, Goto, Set,
     RemoveCallback, Unlink, RemoveAnswer, fenceVars
<1>37. ASSUME NEW p \in Procs, NEW f \in Fences, ClientPoll(p, f)
      PROVE  LockInv'
  BY <1>37, RoleAssumption DEF LockInv, TypeOK, ClientPoll, Goto, Completed,
     fenceVars
<1>38. ASSUME NEW p \in Procs, SpuriousWake(p)
      PROVE  LockInv'
  BY <1>38, RoleAssumption DEF LockInv, TypeOK, SpuriousWake, fenceVars
<1>39. QED
  BY <1>1, <1>2, <1>3, <1>4, <1>5, <1>6, <1>7, <1>8, <1>9, <1>10, <1>11, <1>12,
     <1>13, <1>14, <1>15, <1>16, <1>17, <1>18, <1>19, <1>20, <1>21, <1>22,
     <1>23, <1>24, <1>25, <1>26, <1>27, <1>28, <1>29, <1>30, <1>31, <1>32,
     <1>33, <1>34, <1>35, <1>36, <1>37, <1>38 DEF Next, Step, Call, SignalStep,
     WaitStep, AddStep, AnyStep

\* fence->cb_list and the signaller's local list, step by step.
LEMMA ListInductive ==
  TypeOK /\ LockInv /\ ListInv /\ [Next]_vars => ListInv'
<1> SUFFICES ASSUME TypeOK, LockInv, ListInv, [Next]_vars PROVE ListInv'
  OBVIOUS
<1>1. CASE UNCHANGED vars
  BY <1>1, RoleAssumption DEF LockInv, ListInv, TypeOK, vars, fenceVars,
     procVars
<1>2. ASSUME NEW f \in Fences, HwComplete(f)
      PROVE  ListInv'
  BY <1>2, RoleAssumption DEF LockInv, ListInv, TypeOK, HwComplete, fenceVars,
     procVars
<1>3. ASSUME NEW f \in Fences, IrqTake(f)
      PROVE  ListInv'
  BY <1>3, RoleAssumption DEF LockInv, ListInv, TypeOK, IrqTake, Goto,
     fenceVars
<1>4. ASSUME NEW p \in Procs, SignalAgain(p)
      PROVE  ListInv'
  <2>1. ret[p] \notin SigPCs
    BY DEF LockInv, SigPCs
  <2>2. QED
    BY <1>4, <2>1, RoleAssumption DEF LockInv, ListInv, TypeOK, SigPCs,
       SignalAgain, Goto, fenceVars
<1>5. ASSUME NEW p \in Procs, SignalFirst(p)
      PROVE  ListInv'
  BY <1>5, RoleAssumption DEF LockInv, ListInv, TypeOK, SignalFirst, Goto,
     BeginSignal, fenceVars
<1>6. ASSUME NEW p \in Procs, SignalStamp(p)
      PROVE  ListInv'
  BY <1>6, RoleAssumption DEF LockInv, ListInv, TypeOK, SignalStamp, Goto,
     Detached, fenceVars
<1>7. ASSUME NEW p \in Procs, SignalUnlock(p)
      PROVE  ListInv'
  <2>1. ret[p] \notin SigPCs
    BY DEF LockInv, SigPCs
  <2>2. QED
    BY <1>7, <2>1, RoleAssumption DEF LockInv, ListInv, TypeOK, SigPCs,
       SignalUnlock, Goto, fenceVars
<1>8. ASSUME NEW p \in Procs, NEW q \in Procs, SignalCallback(p, q)
      PROVE  ListInv'
  BY <1>8, RoleAssumption DEF LockInv, ListInv, TypeOK, SignalCallback,
     fenceVars
<1>9. ASSUME NEW p \in Procs, EnableSwSignaling(p)
      PROVE  ListInv'
  BY <1>9, RoleAssumption DEF LockInv, ListInv, TypeOK, EnableSwSignaling,
     Goto, EnableSignal, fenceVars
<1>10. ASSUME NEW p \in Procs, EnableSwSignalingFails(p)
      PROVE  ListInv'
  BY <1>10, RoleAssumption DEF LockInv, ListInv, TypeOK,
     EnableSwSignalingFails, Goto, EnableFails, MustEnable, BeginSignal,
     fenceVars
<1>11. ASSUME NEW p \in Procs, NEW low \in Results, DefaultWaitOut(p, low)
      PROVE  ListInv'
  BY <1>11, RoleAssumption DEF LockInv, ListInv, TypeOK, DefaultWaitOut, IntOf, Goto,
     Set, WaitStart, fenceVars
<1>12. ASSUME NEW p \in Procs, DefaultWait(p)
      PROVE  ListInv'
  BY <1>12, RoleAssumption DEF LockInv, ListInv, TypeOK, DefaultWait, Goto,
     Set, WaitStart, fenceVars
<1>13. ASSUME NEW p \in Procs, NEW r \in Results, Schedule(p, r)
      PROVE  ListInv'
  BY <1>13, RoleAssumption DEF LockInv, ListInv, TypeOK, Schedule, Goto, Set,
     Slept, fenceVars
<1>14. ASSUME NEW p \in Procs, NEW r \in Results, RelockSleep(p, r)
      PROVE  ListInv'
  BY <1>14, RoleAssumption DEF LockInv, ListInv, TypeOK, RelockSleep, Goto,
     Set, WaitOver, AfterSleep, fenceVars
<1>15. ASSUME NEW p \in Procs, NEW r \in Results, NEW low \in Results,
             RelockDone(p, r, low)
      PROVE  ListInv'
  BY <1>15, RoleAssumption DEF LockInv, ListInv, TypeOK, RelockDone, IntOf, Goto, Set,
     WaitOver, Unlink, AfterSleep, fenceVars
<1>16. ASSUME NEW p \in Procs, AddCallbackLate(p)
      PROVE  ListInv'
  BY <1>16, RoleAssumption DEF LockInv, ListInv, TypeOK, AddCallbackLate, Goto,
     Recheck, AddRefused, AddFailed, fenceVars
<1>17. ASSUME NEW p \in Procs, AddCallbackLink(p)
      PROVE  ListInv'
  BY <1>17, RoleAssumption DEF LockInv, ListInv, TypeOK, AddCallbackLink, Goto,
     Set, Recheck, EnableSignal, AddReturns, fenceVars
<1>18. ASSUME NEW p \in Procs, AddCallbackFails(p)
      PROVE  ListInv'
  BY <1>18, RoleAssumption DEF LockInv, ListInv, TypeOK, AddCallbackFails,
     Goto, Recheck, EnableFails, BeginSignal, AddRefused, AddFailed, fenceVars
<1>19. ASSUME NEW p \in Procs, NEW f \in Fences, AnyPollSignaled(p, f)
      PROVE  ListInv'
  BY <1>19, RoleAssumption DEF LockInv, ListInv, TypeOK, AnyPollSignaled, Goto,
     Set, fenceVars
<1>20. ASSUME NEW p \in Procs, NEW f \in Fences, AnyPollCompleted(p, f)
      PROVE  ListInv'
  BY <1>20, RoleAssumption DEF LockInv, ListInv, TypeOK, AnyPollCompleted,
     Goto, Set, Completed, fenceVars
<1>21. ASSUME NEW p \in Procs, NEW f \in Fences, AnyPollNext(p, f)
      PROVE  ListInv'
  BY <1>21, RoleAssumption DEF LockInv, ListInv, TypeOK, AnyPollNext, fenceVars
<1>22. ASSUME NEW p \in Procs, NEW f \in Fences, AddCallbackFast(p, f)
      PROVE  ListInv'
  BY <1>22, RoleAssumption DEF LockInv, ListInv, TypeOK, AddCallbackFast, Goto,
     CallsAdd, AddRefused, AddFailed, fenceVars
<1>23. ASSUME NEW p \in Procs, NEW f \in Fences, AddCallbackSlow(p, f)
      PROVE  ListInv'
  BY <1>23, RoleAssumption DEF LockInv, ListInv, TypeOK, AddCallbackSlow, Goto,
     CallsAdd, fenceVars
<1>24. ASSUME NEW p \in Procs, NEW f \in Fences, AnyTestSignaled(p, f)
      PROVE  ListInv'
  BY <1>24, RoleAssumption DEF LockInv, ListInv, TypeOK, AnyTestSignaled, Goto,
     fenceVars
<1>25. ASSUME NEW p \in Procs, NEW f \in Fences, AnyTestNext(p, f)
      PROVE  ListInv'
  BY <1>25, RoleAssumption DEF LockInv, ListInv, TypeOK, AnyTestNext, fenceVars
<1>26. ASSUME NEW p \in Procs, NEW f \in Fences, AnyCleanup(p, f)
      PROVE  ListInv'
  BY <1>26, RoleAssumption DEF LockInv, ListInv, TypeOK, AnyCleanup,
     RemoveCallback, Unlink, fenceVars
<1>27. ASSUME NEW p \in Procs, AnyPollNone(p)
      PROVE  ListInv'
  BY <1>27, RoleAssumption DEF LockInv, ListInv, TypeOK, AnyPollNone, Goto,
     fenceVars
<1>28. ASSUME NEW p \in Procs, AnyAdded(p)
      PROVE  ListInv'
  BY <1>28, RoleAssumption DEF LockInv, ListInv, TypeOK, AnyAdded, Goto,
     fenceVars
<1>29. ASSUME NEW p \in Procs, AnyPrepare(p)
      PROVE  ListInv'
  BY <1>29, RoleAssumption DEF LockInv, ListInv, TypeOK, AnyPrepare, Goto,
     fenceVars
<1>30. ASSUME NEW p \in Procs, AnyTestNone(p)
      PROVE  ListInv'
  BY <1>30, RoleAssumption DEF LockInv, ListInv, TypeOK, AnyTestNone, Goto,
     TaskState, fenceVars
<1>31. ASSUME NEW p \in Procs, AnyFree(p)
      PROVE  ListInv'
  BY <1>31, RoleAssumption DEF LockInv, ListInv, TypeOK, AnyFree, Goto,
     fenceVars
<1>32. ASSUME NEW p \in Procs, NEW v \in Results, NEW r \in Results, AnySchedule(p, v, r)
      PROVE  ListInv'
  BY <1>32, RoleAssumption DEF LockInv, ListInv, TypeOK, AnySchedule, Goto,
     Set, Slept, AfterSleep, fenceVars
<1>33. ASSUME NEW p \in Procs, Return(p)
      PROVE  ListInv'
  BY <1>33, RoleAssumption DEF LockInv, ListInv, TypeOK, Return, Goto,
     fenceVars
<1>34. ASSUME NEW p \in Procs, NEW f \in Fences, NEW t \in CallTimeouts,
             NEW i \in BOOLEAN, WaitCall(p, f, t, i)
      PROVE  ListInv'
  BY <1>34, RoleAssumption DEF LockInv, ListInv, TypeOK, WaitCall, Goto,
     fenceVars
<1>35. ASSUME NEW p \in Procs, NEW fs \in SUBSET Fences,
             NEW t \in CallTimeouts, NEW i \in BOOLEAN, WaitAnyCall(p, fs, t, i)
      PROVE  ListInv'
  BY <1>35, RoleAssumption DEF LockInv, ListInv, TypeOK, WaitAnyCall, Goto,
     Set, fenceVars
<1>36. ASSUME NEW p \in Procs, NEW f \in Fences, ClientRemove(p, f)
      PROVE  ListInv'
  BY <1>36, RoleAssumption DEF LockInv, ListInv, TypeOK, ClientRemove, Goto,
     Set, RemoveCallback, Unlink, RemoveAnswer, fenceVars
<1>37. ASSUME NEW p \in Procs, NEW f \in Fences, ClientPoll(p, f)
      PROVE  ListInv'
  BY <1>37, RoleAssumption DEF LockInv, ListInv, TypeOK, ClientPoll, Goto,
     Completed, fenceVars
<1>38. ASSUME NEW p \in Procs, SpuriousWake(p)
      PROVE  ListInv'
  BY <1>38, RoleAssumption DEF LockInv, ListInv, TypeOK, SpuriousWake,
     fenceVars
<1>39. QED
  BY <1>1, <1>2, <1>3, <1>4, <1>5, <1>6, <1>7, <1>8, <1>9, <1>10, <1>11, <1>12,
     <1>13, <1>14, <1>15, <1>16, <1>17, <1>18, <1>19, <1>20, <1>21, <1>22,
     <1>23, <1>24, <1>25, <1>26, <1>27, <1>28, <1>29, <1>30, <1>31, <1>32,
     <1>33, <1>34, <1>35, <1>36, <1>37, <1>38 DEF Next, Step, Call, SignalStep,
     WaitStep, AddStep, AnyStep

\* Clients and the interrupt context never enter a wait.
LEMMA RoleInductive ==
  TypeOK /\ LockInv /\ RoleInv /\ [Next]_vars => RoleInv'
<1> SUFFICES ASSUME TypeOK, LockInv, RoleInv, [Next]_vars PROVE RoleInv'
  OBVIOUS
<1>1. CASE UNCHANGED vars
  BY <1>1, RoleAssumption DEF RoleInv, At, SigPCs, LockInv, TypeOK, vars,
     fenceVars, procVars
<1>2. ASSUME NEW f \in Fences, HwComplete(f)
      PROVE  RoleInv'
  BY <1>2, RoleAssumption DEF RoleInv, At, SigPCs, LockInv, TypeOK, HwComplete,
     fenceVars, procVars
<1>3. ASSUME NEW f \in Fences, IrqTake(f)
      PROVE  RoleInv'
  BY <1>3, RoleAssumption DEF RoleInv, At, SigPCs, LockInv, TypeOK, IrqTake,
     Goto, fenceVars
<1>4. ASSUME NEW p \in Procs, SignalAgain(p)
      PROVE  RoleInv'
  BY <1>4, RoleAssumption DEF RoleInv, At, SigPCs, LockInv, TypeOK,
     SignalAgain, Goto, fenceVars
<1>5. ASSUME NEW p \in Procs, SignalFirst(p)
      PROVE  RoleInv'
  BY <1>5, RoleAssumption DEF RoleInv, At, SigPCs, LockInv, TypeOK,
     SignalFirst, Goto, BeginSignal, fenceVars
<1>6. ASSUME NEW p \in Procs, SignalStamp(p)
      PROVE  RoleInv'
  BY <1>6, RoleAssumption DEF RoleInv, At, SigPCs, LockInv, TypeOK,
     SignalStamp, Goto, Detached, fenceVars
<1>7. ASSUME NEW p \in Procs, SignalUnlock(p)
      PROVE  RoleInv'
  BY <1>7, RoleAssumption DEF RoleInv, At, SigPCs, LockInv, TypeOK,
     SignalUnlock, Goto, fenceVars
<1>8. ASSUME NEW p \in Procs, NEW q \in Procs, SignalCallback(p, q)
      PROVE  RoleInv'
  BY <1>8, RoleAssumption DEF RoleInv, At, SigPCs, LockInv, TypeOK,
     SignalCallback, fenceVars
<1>9. ASSUME NEW p \in Procs, EnableSwSignaling(p)
      PROVE  RoleInv'
  BY <1>9, RoleAssumption DEF RoleInv, At, SigPCs, LockInv, TypeOK,
     EnableSwSignaling, Goto, EnableSignal, fenceVars
<1>10. ASSUME NEW p \in Procs, EnableSwSignalingFails(p)
      PROVE  RoleInv'
  BY <1>10, RoleAssumption DEF RoleInv, At, SigPCs, LockInv, TypeOK,
     EnableSwSignalingFails, Goto, EnableFails, MustEnable, BeginSignal,
     fenceVars
<1>11. ASSUME NEW p \in Procs, NEW low \in Results, DefaultWaitOut(p, low)
      PROVE  RoleInv'
  BY <1>11, RoleAssumption DEF RoleInv, At, SigPCs, LockInv, TypeOK,
     DefaultWaitOut, IntOf, Goto, Set, WaitStart, fenceVars
<1>12. ASSUME NEW p \in Procs, DefaultWait(p)
      PROVE  RoleInv'
  BY <1>12, RoleAssumption DEF RoleInv, At, SigPCs, LockInv, TypeOK,
     DefaultWait, Goto, Set, WaitStart, fenceVars
<1>13. ASSUME NEW p \in Procs, NEW r \in Results, Schedule(p, r)
      PROVE  RoleInv'
  BY <1>13, RoleAssumption DEF RoleInv, At, SigPCs, LockInv, TypeOK, Schedule,
     Goto, Set, Slept, fenceVars
<1>14. ASSUME NEW p \in Procs, NEW r \in Results, RelockSleep(p, r)
      PROVE  RoleInv'
  BY <1>14, RoleAssumption DEF RoleInv, At, SigPCs, LockInv, TypeOK,
     RelockSleep, Goto, Set, WaitOver, AfterSleep, fenceVars
<1>15. ASSUME NEW p \in Procs, NEW r \in Results, NEW low \in Results,
             RelockDone(p, r, low)
      PROVE  RoleInv'
  BY <1>15, RoleAssumption DEF RoleInv, At, SigPCs, LockInv, TypeOK,
     RelockDone, IntOf, Goto, Set, WaitOver, Unlink, AfterSleep, fenceVars
<1>16. ASSUME NEW p \in Procs, AddCallbackLate(p)
      PROVE  RoleInv'
  BY <1>16, RoleAssumption DEF RoleInv, At, SigPCs, LockInv, TypeOK,
     AddCallbackLate, Goto, Recheck, AddRefused, AddFailed, fenceVars
<1>17. ASSUME NEW p \in Procs, AddCallbackLink(p)
      PROVE  RoleInv'
  BY <1>17, RoleAssumption DEF RoleInv, At, SigPCs, LockInv, TypeOK,
     AddCallbackLink, Goto, Set, Recheck, EnableSignal, AddReturns, fenceVars
<1>18. ASSUME NEW p \in Procs, AddCallbackFails(p)
      PROVE  RoleInv'
  BY <1>18, RoleAssumption DEF RoleInv, At, SigPCs, LockInv, TypeOK,
     AddCallbackFails, Goto, Recheck, EnableFails, BeginSignal, AddRefused,
     AddFailed, fenceVars
<1>19. ASSUME NEW p \in Procs, NEW f \in Fences, AnyPollSignaled(p, f)
      PROVE  RoleInv'
  BY <1>19, RoleAssumption DEF RoleInv, At, SigPCs, LockInv, TypeOK,
     AnyPollSignaled, Goto, Set, fenceVars
<1>20. ASSUME NEW p \in Procs, NEW f \in Fences, AnyPollCompleted(p, f)
      PROVE  RoleInv'
  BY <1>20, RoleAssumption DEF RoleInv, At, SigPCs, LockInv, TypeOK,
     AnyPollCompleted, Goto, Set, Completed, fenceVars
<1>21. ASSUME NEW p \in Procs, NEW f \in Fences, AnyPollNext(p, f)
      PROVE  RoleInv'
  BY <1>21, RoleAssumption DEF RoleInv, At, SigPCs, LockInv, TypeOK,
     AnyPollNext, fenceVars
<1>22. ASSUME NEW p \in Procs, NEW f \in Fences, AddCallbackFast(p, f)
      PROVE  RoleInv'
  BY <1>22, RoleAssumption DEF RoleInv, At, SigPCs, LockInv, TypeOK,
     AddCallbackFast, Goto, CallsAdd, AddRefused, AddFailed, fenceVars
<1>23. ASSUME NEW p \in Procs, NEW f \in Fences, AddCallbackSlow(p, f)
      PROVE  RoleInv'
  BY <1>23, RoleAssumption DEF RoleInv, At, SigPCs, LockInv, TypeOK,
     AddCallbackSlow, Goto, CallsAdd, fenceVars
<1>24. ASSUME NEW p \in Procs, NEW f \in Fences, AnyTestSignaled(p, f)
      PROVE  RoleInv'
  BY <1>24, RoleAssumption DEF RoleInv, At, SigPCs, LockInv, TypeOK,
     AnyTestSignaled, Goto, fenceVars
<1>25. ASSUME NEW p \in Procs, NEW f \in Fences, AnyTestNext(p, f)
      PROVE  RoleInv'
  BY <1>25, RoleAssumption DEF RoleInv, At, SigPCs, LockInv, TypeOK,
     AnyTestNext, fenceVars
<1>26. ASSUME NEW p \in Procs, NEW f \in Fences, AnyCleanup(p, f)
      PROVE  RoleInv'
  BY <1>26, RoleAssumption DEF RoleInv, At, SigPCs, LockInv, TypeOK,
     AnyCleanup, RemoveCallback, Unlink, fenceVars
<1>27. ASSUME NEW p \in Procs, AnyPollNone(p)
      PROVE  RoleInv'
  BY <1>27, RoleAssumption DEF RoleInv, At, SigPCs, LockInv, TypeOK,
     AnyPollNone, Goto, fenceVars
<1>28. ASSUME NEW p \in Procs, AnyAdded(p)
      PROVE  RoleInv'
  BY <1>28, RoleAssumption DEF RoleInv, At, SigPCs, LockInv, TypeOK, AnyAdded,
     Goto, fenceVars
<1>29. ASSUME NEW p \in Procs, AnyPrepare(p)
      PROVE  RoleInv'
  BY <1>29, RoleAssumption DEF RoleInv, At, SigPCs, LockInv, TypeOK,
     AnyPrepare, Goto, fenceVars
<1>30. ASSUME NEW p \in Procs, AnyTestNone(p)
      PROVE  RoleInv'
  BY <1>30, RoleAssumption DEF RoleInv, At, SigPCs, LockInv, TypeOK,
     AnyTestNone, Goto, TaskState, fenceVars
<1>31. ASSUME NEW p \in Procs, AnyFree(p)
      PROVE  RoleInv'
  BY <1>31, RoleAssumption DEF RoleInv, At, SigPCs, LockInv, TypeOK, AnyFree,
     Goto, fenceVars
<1>32. ASSUME NEW p \in Procs, NEW v \in Results, NEW r \in Results, AnySchedule(p, v, r)
      PROVE  RoleInv'
  BY <1>32, RoleAssumption DEF RoleInv, At, SigPCs, LockInv, TypeOK,
     AnySchedule, Goto, Set, Slept, AfterSleep, fenceVars
<1>33. ASSUME NEW p \in Procs, Return(p)
      PROVE  RoleInv'
  BY <1>33, RoleAssumption DEF RoleInv, At, SigPCs, LockInv, TypeOK, Return,
     Goto, fenceVars
<1>34. ASSUME NEW p \in Procs, NEW f \in Fences, NEW t \in CallTimeouts,
             NEW i \in BOOLEAN, WaitCall(p, f, t, i)
      PROVE  RoleInv'
  BY <1>34, RoleAssumption DEF RoleInv, At, SigPCs, LockInv, TypeOK, WaitCall,
     Goto, fenceVars
<1>35. ASSUME NEW p \in Procs, NEW fs \in SUBSET Fences,
             NEW t \in CallTimeouts, NEW i \in BOOLEAN, WaitAnyCall(p, fs, t, i)
      PROVE  RoleInv'
  BY <1>35, RoleAssumption DEF RoleInv, At, SigPCs, LockInv, TypeOK,
     WaitAnyCall, Goto, Set, fenceVars
<1>36. ASSUME NEW p \in Procs, NEW f \in Fences, ClientRemove(p, f)
      PROVE  RoleInv'
  BY <1>36, RoleAssumption DEF RoleInv, At, SigPCs, LockInv, TypeOK,
     ClientRemove, Goto, Set, RemoveCallback, Unlink, RemoveAnswer, fenceVars
<1>37. ASSUME NEW p \in Procs, NEW f \in Fences, ClientPoll(p, f)
      PROVE  RoleInv'
  BY <1>37, RoleAssumption DEF RoleInv, At, SigPCs, LockInv, TypeOK,
     ClientPoll, Goto, Completed, fenceVars
<1>38. ASSUME NEW p \in Procs, SpuriousWake(p)
      PROVE  RoleInv'
  BY <1>38, RoleAssumption DEF RoleInv, At, SigPCs, LockInv, TypeOK,
     SpuriousWake, fenceVars
<1>39. QED
  BY <1>1, <1>2, <1>3, <1>4, <1>5, <1>6, <1>7, <1>8, <1>9, <1>10, <1>11, <1>12,
     <1>13, <1>14, <1>15, <1>16, <1>17, <1>18, <1>19, <1>20, <1>21, <1>22,
     <1>23, <1>24, <1>25, <1>26, <1>27, <1>28, <1>29, <1>30, <1>31, <1>32,
     <1>33, <1>34, <1>35, <1>36, <1>37, <1>38 DEF Next, Step, Call, SignalStep,
     WaitStep, AddStep, AnyStep

\* A node is linked, or its callback has been called.
LEMMA NodeInductive ==
  TypeOK /\ IInv /\ [Next]_vars => NodeInv'
<1> SUFFICES ASSUME TypeOK, IInv, [Next]_vars PROVE NodeInv'
  OBVIOUS
<1>1. CASE UNCHANGED vars
  BY <1>1, RoleAssumption DEF NodeInv, Linked, ListInv, LockInv, TypeOK, IInv,
     vars, fenceVars, procVars
<1>2. ASSUME NEW f \in Fences, HwComplete(f)
      PROVE  NodeInv'
  BY <1>2, RoleAssumption DEF NodeInv, Linked, ListInv, LockInv, TypeOK, IInv,
     HwComplete, fenceVars, procVars
<1>3. ASSUME NEW f \in Fences, IrqTake(f)
      PROVE  NodeInv'
  BY <1>3, RoleAssumption DEF NodeInv, Linked, ListInv, LockInv, TypeOK, IInv,
     IrqTake, Goto, fenceVars
<1>4. ASSUME NEW p \in Procs, SignalAgain(p)
      PROVE  NodeInv'
  BY <1>4, RoleAssumption DEF NodeInv, Linked, ListInv, LockInv, TypeOK, IInv,
     SignalAgain, Goto, fenceVars
<1>5. ASSUME NEW p \in Procs, SignalFirst(p)
      PROVE  NodeInv'
  BY <1>5, RoleAssumption DEF NodeInv, Linked, ListInv, LockInv, TypeOK, IInv,
     SignalFirst, Goto, BeginSignal, fenceVars
<1>6. ASSUME NEW p \in Procs, SignalStamp(p)
      PROVE  NodeInv'
  BY <1>6, RoleAssumption DEF NodeInv, Linked, ListInv, LockInv, TypeOK, IInv,
     SignalStamp, Goto, Detached, fenceVars
<1>7. ASSUME NEW p \in Procs, SignalUnlock(p)
      PROVE  NodeInv'
  BY <1>7, RoleAssumption DEF NodeInv, Linked, ListInv, LockInv, TypeOK, IInv,
     SignalUnlock, Goto, fenceVars
<1>8. ASSUME NEW p \in Procs, NEW q \in Procs, SignalCallback(p, q)
      PROVE  NodeInv'
  BY <1>8, RoleAssumption DEF NodeInv, Linked, ListInv, LockInv, TypeOK, IInv,
     SignalCallback, fenceVars
<1>9. ASSUME NEW p \in Procs, EnableSwSignaling(p)
      PROVE  NodeInv'
  BY <1>9, RoleAssumption DEF NodeInv, Linked, ListInv, LockInv, TypeOK, IInv,
     EnableSwSignaling, Goto, EnableSignal, fenceVars
<1>10. ASSUME NEW p \in Procs, EnableSwSignalingFails(p)
      PROVE  NodeInv'
  BY <1>10, RoleAssumption DEF NodeInv, Linked, ListInv, LockInv, TypeOK, IInv,
     EnableSwSignalingFails, Goto, EnableFails, MustEnable, BeginSignal,
     fenceVars
<1>11. ASSUME NEW p \in Procs, NEW low \in Results, DefaultWaitOut(p, low)
      PROVE  NodeInv'
  BY <1>11, RoleAssumption DEF NodeInv, Linked, ListInv, LockInv, TypeOK, IInv,
     DefaultWaitOut, IntOf, Goto, Set, WaitStart, fenceVars
<1>12. ASSUME NEW p \in Procs, DefaultWait(p)
      PROVE  NodeInv'
  BY <1>12, RoleAssumption DEF NodeInv, Linked, ListInv, LockInv, TypeOK, IInv,
     DefaultWait, Goto, Set, WaitStart, fenceVars
<1>13. ASSUME NEW p \in Procs, NEW r \in Results, Schedule(p, r)
      PROVE  NodeInv'
  BY <1>13, RoleAssumption DEF NodeInv, Linked, ListInv, LockInv, TypeOK, IInv,
     Schedule, Goto, Set, Slept, fenceVars
<1>14. ASSUME NEW p \in Procs, NEW r \in Results, RelockSleep(p, r)
      PROVE  NodeInv'
  BY <1>14, RoleAssumption DEF NodeInv, Linked, ListInv, LockInv, TypeOK, IInv,
     RelockSleep, Goto, Set, WaitOver, AfterSleep, fenceVars
<1>15. ASSUME NEW p \in Procs, NEW r \in Results, NEW low \in Results,
             RelockDone(p, r, low)
      PROVE  NodeInv'
  BY <1>15, RoleAssumption DEF NodeInv, Linked, ListInv, LockInv, TypeOK, IInv,
     RelockDone, IntOf, Goto, Set, WaitOver, Unlink, AfterSleep, fenceVars
<1>16. ASSUME NEW p \in Procs, AddCallbackLate(p)
      PROVE  NodeInv'
  BY <1>16, RoleAssumption DEF NodeInv, Linked, ListInv, LockInv, TypeOK, IInv,
     AddCallbackLate, Goto, Recheck, AddRefused, AddFailed, fenceVars
<1>17. ASSUME NEW p \in Procs, AddCallbackLink(p)
      PROVE  NodeInv'
  BY <1>17, RoleAssumption DEF NodeInv, Linked, ListInv, LockInv, TypeOK, IInv,
     AddCallbackLink, Goto, Set, Recheck, EnableSignal, AddReturns, fenceVars
<1>18. ASSUME NEW p \in Procs, AddCallbackFails(p)
      PROVE  NodeInv'
  BY <1>18, RoleAssumption DEF NodeInv, Linked, ListInv, LockInv, TypeOK, IInv,
     AddCallbackFails, Goto, Recheck, EnableFails, BeginSignal, AddRefused,
     AddFailed, fenceVars
<1>19. ASSUME NEW p \in Procs, NEW f \in Fences, AnyPollSignaled(p, f)
      PROVE  NodeInv'
  BY <1>19, RoleAssumption DEF NodeInv, Linked, ListInv, LockInv, TypeOK, IInv,
     AnyPollSignaled, Goto, Set, fenceVars
<1>20. ASSUME NEW p \in Procs, NEW f \in Fences, AnyPollCompleted(p, f)
      PROVE  NodeInv'
  BY <1>20, RoleAssumption DEF NodeInv, Linked, ListInv, LockInv, TypeOK, IInv,
     AnyPollCompleted, Goto, Set, Completed, fenceVars
<1>21. ASSUME NEW p \in Procs, NEW f \in Fences, AnyPollNext(p, f)
      PROVE  NodeInv'
  BY <1>21, RoleAssumption DEF NodeInv, Linked, ListInv, LockInv, TypeOK, IInv,
     AnyPollNext, fenceVars
<1>22. ASSUME NEW p \in Procs, NEW f \in Fences, AddCallbackFast(p, f)
      PROVE  NodeInv'
  BY <1>22, RoleAssumption DEF NodeInv, Linked, ListInv, LockInv, TypeOK, IInv,
     AddCallbackFast, Goto, CallsAdd, AddRefused, AddFailed, fenceVars
<1>23. ASSUME NEW p \in Procs, NEW f \in Fences, AddCallbackSlow(p, f)
      PROVE  NodeInv'
  BY <1>23, RoleAssumption DEF NodeInv, Linked, ListInv, LockInv, TypeOK, IInv,
     AddCallbackSlow, Goto, CallsAdd, fenceVars
<1>24. ASSUME NEW p \in Procs, NEW f \in Fences, AnyTestSignaled(p, f)
      PROVE  NodeInv'
  BY <1>24, RoleAssumption DEF NodeInv, Linked, ListInv, LockInv, TypeOK, IInv,
     AnyTestSignaled, Goto, fenceVars
<1>25. ASSUME NEW p \in Procs, NEW f \in Fences, AnyTestNext(p, f)
      PROVE  NodeInv'
  BY <1>25, RoleAssumption DEF NodeInv, Linked, ListInv, LockInv, TypeOK, IInv,
     AnyTestNext, fenceVars
<1>26. ASSUME NEW p \in Procs, NEW f \in Fences, AnyCleanup(p, f)
      PROVE  NodeInv'
  BY <1>26, RoleAssumption DEF NodeInv, Linked, ListInv, LockInv, TypeOK, IInv,
     AnyCleanup, RemoveCallback, Unlink, fenceVars
<1>27. ASSUME NEW p \in Procs, AnyPollNone(p)
      PROVE  NodeInv'
  BY <1>27, RoleAssumption DEF NodeInv, Linked, ListInv, LockInv, TypeOK, IInv,
     AnyPollNone, Goto, fenceVars
<1>28. ASSUME NEW p \in Procs, AnyAdded(p)
      PROVE  NodeInv'
  BY <1>28, RoleAssumption DEF NodeInv, Linked, ListInv, LockInv, TypeOK, IInv,
     AnyAdded, Goto, fenceVars
<1>29. ASSUME NEW p \in Procs, AnyPrepare(p)
      PROVE  NodeInv'
  BY <1>29, RoleAssumption DEF NodeInv, Linked, ListInv, LockInv, TypeOK, IInv,
     AnyPrepare, Goto, fenceVars
<1>30. ASSUME NEW p \in Procs, AnyTestNone(p)
      PROVE  NodeInv'
  BY <1>30, RoleAssumption DEF NodeInv, Linked, ListInv, LockInv, TypeOK, IInv,
     AnyTestNone, Goto, TaskState, fenceVars
<1>31. ASSUME NEW p \in Procs, AnyFree(p)
      PROVE  NodeInv'
  <2>1. \A f \in Fences : ~Linked(p, f)
    BY <1>31 DEF IInv, RoleInv, MemInv, At, SigPCs, AnyFree
  <2>2. QED
    BY <1>31, <2>1 DEF NodeInv, Linked, IInv, TypeOK, AnyFree, Goto, fenceVars
<1>32. ASSUME NEW p \in Procs, NEW v \in Results, NEW r \in Results, AnySchedule(p, v, r)
      PROVE  NodeInv'
  BY <1>32, RoleAssumption DEF NodeInv, Linked, ListInv, LockInv, TypeOK, IInv,
     AnySchedule, Goto, Set, Slept, AfterSleep, fenceVars
<1>33. ASSUME NEW p \in Procs, Return(p)
      PROVE  NodeInv'
  BY <1>33, RoleAssumption DEF NodeInv, Linked, ListInv, LockInv, TypeOK, IInv,
     Return, Goto, fenceVars
<1>34. ASSUME NEW p \in Procs, NEW f \in Fences, NEW t \in CallTimeouts,
             NEW i \in BOOLEAN, WaitCall(p, f, t, i)
      PROVE  NodeInv'
  BY <1>34, RoleAssumption DEF NodeInv, Linked, ListInv, LockInv, TypeOK, IInv,
     WaitCall, Goto, fenceVars
<1>35. ASSUME NEW p \in Procs, NEW fs \in SUBSET Fences,
             NEW t \in CallTimeouts, NEW i \in BOOLEAN, WaitAnyCall(p, fs, t, i)
      PROVE  NodeInv'
  BY <1>35, RoleAssumption DEF NodeInv, Linked, ListInv, LockInv, TypeOK, IInv,
     WaitAnyCall, Goto, Set, fenceVars
<1>36. ASSUME NEW p \in Procs, NEW f \in Fences, ClientRemove(p, f)
      PROVE  NodeInv'
  BY <1>36, RoleAssumption DEF NodeInv, Linked, ListInv, LockInv, TypeOK, IInv,
     ClientRemove, Goto, Set, RemoveCallback, Unlink, RemoveAnswer, fenceVars
<1>37. ASSUME NEW p \in Procs, NEW f \in Fences, ClientPoll(p, f)
      PROVE  NodeInv'
  BY <1>37, RoleAssumption DEF NodeInv, Linked, ListInv, LockInv, TypeOK, IInv,
     ClientPoll, Goto, Completed, fenceVars
<1>38. ASSUME NEW p \in Procs, SpuriousWake(p)
      PROVE  NodeInv'
  BY <1>38, RoleAssumption DEF NodeInv, Linked, ListInv, LockInv, TypeOK, IInv,
     SpuriousWake, fenceVars
<1>39. QED
  BY <1>1, <1>2, <1>3, <1>4, <1>5, <1>6, <1>7, <1>8, <1>9, <1>10, <1>11, <1>12,
     <1>13, <1>14, <1>15, <1>16, <1>17, <1>18, <1>19, <1>20, <1>21, <1>22,
     <1>23, <1>24, <1>25, <1>26, <1>27, <1>28, <1>29, <1>30, <1>31, <1>32,
     <1>33, <1>34, <1>35, <1>36, <1>37, <1>38 DEF Next, Step, Call, SignalStep,
     WaitStep, AddStep, AnyStep

\* The nodes of a waiter follow its position in the wait.
LEMMA MemInductive ==
  TypeOK /\ IInv /\ [Next]_vars => MemInv'
<1> SUFFICES ASSUME TypeOK, IInv, [Next]_vars PROVE MemInv'
  OBVIOUS
<1>1. CASE UNCHANGED vars
  BY <1>1, RoleAssumption DEF MemInv, At, SigPCs, RoleInv, LockInv, NodeInv,
     Linked, TypeOK, IInv, vars, fenceVars, procVars
<1>2. ASSUME NEW f \in Fences, HwComplete(f)
      PROVE  MemInv'
  BY <1>2, RoleAssumption DEF MemInv, At, SigPCs, RoleInv, LockInv, NodeInv,
     Linked, TypeOK, IInv, HwComplete, fenceVars, procVars
<1>3. ASSUME NEW f \in Fences, IrqTake(f)
      PROVE  MemInv'
  BY <1>3, RoleAssumption DEF MemInv, At, SigPCs, RoleInv, LockInv, NodeInv,
     Linked, TypeOK, IInv, IrqTake, Goto, fenceVars
<1>4. ASSUME NEW p \in Procs, SignalAgain(p)
      PROVE  MemInv'
  BY <1>4, RoleAssumption DEF MemInv, At, SigPCs, RoleInv, LockInv, NodeInv,
     Linked, TypeOK, IInv, SignalAgain, Goto, fenceVars
<1>5. ASSUME NEW p \in Procs, SignalFirst(p)
      PROVE  MemInv'
  BY <1>5, RoleAssumption DEF MemInv, At, SigPCs, RoleInv, LockInv, NodeInv,
     Linked, TypeOK, IInv, SignalFirst, Goto, BeginSignal, fenceVars
<1>6. ASSUME NEW p \in Procs, SignalStamp(p)
      PROVE  MemInv'
  BY <1>6, RoleAssumption DEF MemInv, At, SigPCs, RoleInv, LockInv, NodeInv,
     Linked, TypeOK, IInv, SignalStamp, Goto, Detached, fenceVars
<1>7. ASSUME NEW p \in Procs, SignalUnlock(p)
      PROVE  MemInv'
  BY <1>7, RoleAssumption DEF MemInv, At, SigPCs, RoleInv, LockInv, NodeInv,
     Linked, TypeOK, IInv, SignalUnlock, Goto, fenceVars
<1>8. ASSUME NEW p \in Procs, NEW q \in Procs, SignalCallback(p, q)
      PROVE  MemInv'
  BY <1>8, RoleAssumption DEF MemInv, At, SigPCs, RoleInv, LockInv, NodeInv,
     Linked, TypeOK, IInv, SignalCallback, fenceVars
<1>9. ASSUME NEW p \in Procs, EnableSwSignaling(p)
      PROVE  MemInv'
  BY <1>9, RoleAssumption DEF MemInv, At, SigPCs, RoleInv, LockInv, NodeInv,
     Linked, TypeOK, IInv, EnableSwSignaling, Goto, EnableSignal, fenceVars
<1>10. ASSUME NEW p \in Procs, EnableSwSignalingFails(p)
      PROVE  MemInv'
  BY <1>10, RoleAssumption DEF MemInv, At, SigPCs, RoleInv, LockInv, NodeInv,
     Linked, TypeOK, IInv, EnableSwSignalingFails, Goto, EnableFails,
     MustEnable, BeginSignal, fenceVars
<1>11. ASSUME NEW p \in Procs, NEW low \in Results, DefaultWaitOut(p, low)
      PROVE  MemInv'
  BY <1>11, RoleAssumption DEF MemInv, At, SigPCs, RoleInv, LockInv, NodeInv,
     Linked, TypeOK, IInv, DefaultWaitOut, IntOf, Goto, Set, WaitStart, fenceVars
<1>12. ASSUME NEW p \in Procs, DefaultWait(p)
      PROVE  MemInv'
  <2>1. p \in Waiters /\ mem[p] = {} /\ arr[p] = {fen[p]}
    BY <1>12 DEF IInv, RoleInv, MemInv, At, SigPCs, DefaultWait
  <2>2. mem'[p] = arr[p]
    BY <1>12, <2>1 DEF DefaultWait, TypeOK
  <2>3. QED
    BY <1>12, <2>1, <2>2, RoleAssumption
       DEF MemInv, At, SigPCs, IInv, LockInv, TypeOK, Procs, Linked, DefaultWait, Goto, Set
<1>13. ASSUME NEW p \in Procs, NEW r \in Results, Schedule(p, r)
      PROVE  MemInv'
  BY <1>13, RoleAssumption DEF MemInv, At, SigPCs, RoleInv, LockInv, NodeInv,
     Linked, TypeOK, IInv, Schedule, Goto, Set, Slept, fenceVars
<1>14. ASSUME NEW p \in Procs, NEW r \in Results, RelockSleep(p, r)
      PROVE  MemInv'
  BY <1>14, RoleAssumption DEF MemInv, At, SigPCs, RoleInv, LockInv, NodeInv,
     Linked, TypeOK, IInv, RelockSleep, Goto, Set, WaitOver, AfterSleep,
     fenceVars
<1>15. ASSUME NEW p \in Procs, NEW r \in Results, NEW low \in Results,
             RelockDone(p, r, low)
      PROVE  MemInv'
  BY <1>15, RoleAssumption DEF MemInv, At, SigPCs, RoleInv, LockInv, NodeInv,
     Linked, TypeOK, IInv, RelockDone, IntOf, Goto, Set, WaitOver, Unlink, AfterSleep,
     fenceVars
<1>16. ASSUME NEW p \in Procs, AddCallbackLate(p)
      PROVE  MemInv'
  BY <1>16, RoleAssumption DEF MemInv, At, SigPCs, RoleInv, LockInv, NodeInv,
     Linked, TypeOK, IInv, AddCallbackLate, Goto, Recheck, AddRefused,
     AddFailed, fenceVars
<1>17. ASSUME NEW p \in Procs, AddCallbackLink(p)
      PROVE  MemInv'
  BY <1>17, RoleAssumption DEF MemInv, At, SigPCs, RoleInv, LockInv, NodeInv,
     Linked, TypeOK, IInv, AddCallbackLink, Goto, Set, Recheck, EnableSignal,
     AddReturns, fenceVars
<1>18. ASSUME NEW p \in Procs, AddCallbackFails(p)
      PROVE  MemInv'
  BY <1>18, RoleAssumption DEF MemInv, At, SigPCs, RoleInv, LockInv, NodeInv,
     Linked, TypeOK, IInv, AddCallbackFails, Goto, Recheck, EnableFails,
     BeginSignal, AddRefused, AddFailed, fenceVars
<1>19. ASSUME NEW p \in Procs, NEW f \in Fences, AnyPollSignaled(p, f)
      PROVE  MemInv'
  BY <1>19, RoleAssumption DEF MemInv, At, SigPCs, RoleInv, LockInv, NodeInv,
     Linked, TypeOK, IInv, AnyPollSignaled, Goto, Set, fenceVars
<1>20. ASSUME NEW p \in Procs, NEW f \in Fences, AnyPollCompleted(p, f)
      PROVE  MemInv'
  BY <1>20, RoleAssumption DEF MemInv, At, SigPCs, RoleInv, LockInv, NodeInv,
     Linked, TypeOK, IInv, AnyPollCompleted, Goto, Set, Completed, fenceVars
<1>21. ASSUME NEW p \in Procs, NEW f \in Fences, AnyPollNext(p, f)
      PROVE  MemInv'
  BY <1>21, RoleAssumption DEF MemInv, At, SigPCs, RoleInv, LockInv, NodeInv,
     Linked, TypeOK, IInv, AnyPollNext, fenceVars
<1>22. ASSUME NEW p \in Procs, NEW f \in Fences, AddCallbackFast(p, f)
      PROVE  MemInv'
  BY <1>22, RoleAssumption DEF MemInv, At, SigPCs, RoleInv, LockInv, NodeInv,
     Linked, TypeOK, IInv, AddCallbackFast, Goto, CallsAdd, AddRefused,
     AddFailed, fenceVars
<1>23. ASSUME NEW p \in Procs, NEW f \in Fences, AddCallbackSlow(p, f)
      PROVE  MemInv'
  BY <1>23, RoleAssumption DEF MemInv, At, SigPCs, RoleInv, LockInv, NodeInv,
     Linked, TypeOK, IInv, AddCallbackSlow, Goto, CallsAdd, fenceVars
<1>24. ASSUME NEW p \in Procs, NEW f \in Fences, AnyTestSignaled(p, f)
      PROVE  MemInv'
  BY <1>24, RoleAssumption DEF MemInv, At, SigPCs, RoleInv, LockInv, NodeInv,
     Linked, TypeOK, IInv, AnyTestSignaled, Goto, fenceVars
<1>25. ASSUME NEW p \in Procs, NEW f \in Fences, AnyTestNext(p, f)
      PROVE  MemInv'
  BY <1>25, RoleAssumption DEF MemInv, At, SigPCs, RoleInv, LockInv, NodeInv,
     Linked, TypeOK, IInv, AnyTestNext, fenceVars
<1>26. ASSUME NEW p \in Procs, NEW f \in Fences, AnyCleanup(p, f)
      PROVE  MemInv'
  BY <1>26, RoleAssumption DEF MemInv, At, SigPCs, RoleInv, LockInv, NodeInv,
     Linked, TypeOK, IInv, AnyCleanup, RemoveCallback, Unlink, fenceVars
<1>27. ASSUME NEW p \in Procs, AnyPollNone(p)
      PROVE  MemInv'
  BY <1>27, RoleAssumption DEF MemInv, At, SigPCs, RoleInv, LockInv, NodeInv,
     Linked, TypeOK, IInv, AnyPollNone, Goto, fenceVars
<1>28. ASSUME NEW p \in Procs, AnyAdded(p)
      PROVE  MemInv'
  <2>1. p \in Waiters /\ mem[p] = arr[p]
    BY <1>28 DEF IInv, RoleInv, MemInv, At, SigPCs, AnyAdded
  <2>2. QED
    BY <1>28, <2>1 DEF MemInv, At, SigPCs, IInv, TypeOK, Procs, Linked, AnyAdded,
       Goto, fenceVars
<1>29. ASSUME NEW p \in Procs, AnyPrepare(p)
      PROVE  MemInv'
  BY <1>29, RoleAssumption DEF MemInv, At, SigPCs, RoleInv, LockInv, NodeInv,
     Linked, TypeOK, IInv, AnyPrepare, Goto, fenceVars
<1>30. ASSUME NEW p \in Procs, AnyTestNone(p)
      PROVE  MemInv'
  BY <1>30, RoleAssumption DEF MemInv, At, SigPCs, RoleInv, LockInv, NodeInv,
     Linked, TypeOK, IInv, AnyTestNone, Goto, TaskState, fenceVars
<1>31. ASSUME NEW p \in Procs, AnyFree(p)
      PROVE  MemInv'
  BY <1>31, RoleAssumption DEF MemInv, At, SigPCs, RoleInv, LockInv, NodeInv,
     Linked, TypeOK, IInv, AnyFree, Goto, fenceVars
<1>32. ASSUME NEW p \in Procs, NEW v \in Results, NEW r \in Results, AnySchedule(p, v, r)
      PROVE  MemInv'
  BY <1>32, RoleAssumption DEF MemInv, At, SigPCs, RoleInv, LockInv, NodeInv,
     Linked, TypeOK, IInv, AnySchedule, Goto, Set, Slept, AfterSleep, fenceVars
<1>33. ASSUME NEW p \in Procs, Return(p)
      PROVE  MemInv'
  BY <1>33, RoleAssumption DEF MemInv, At, SigPCs, RoleInv, LockInv, NodeInv,
     Linked, TypeOK, IInv, Return, Goto, fenceVars
<1>34. ASSUME NEW p \in Procs, NEW f \in Fences, NEW t \in CallTimeouts,
             NEW i \in BOOLEAN, WaitCall(p, f, t, i)
      PROVE  MemInv'
  <2>1. mem[p] = {} /\ scan[p] = {}
    BY <1>34 DEF IInv, MemInv, At, SigPCs, WaitCall
  <2>2. QED
    BY <1>34, <2>1 DEF MemInv, At, SigPCs, IInv, LockInv, TypeOK, Procs, Linked, WaitCall,
       Goto, fenceVars
<1>35. ASSUME NEW p \in Procs, NEW fs \in SUBSET Fences,
             NEW t \in CallTimeouts, NEW i \in BOOLEAN, WaitAnyCall(p, fs, t, i)
      PROVE  MemInv'
  BY <1>35, RoleAssumption DEF MemInv, At, SigPCs, RoleInv, LockInv, NodeInv,
     Linked, TypeOK, IInv, WaitAnyCall, Goto, Set, fenceVars
<1>36. ASSUME NEW p \in Procs, NEW f \in Fences, ClientRemove(p, f)
      PROVE  MemInv'
  BY <1>36, RoleAssumption DEF MemInv, At, SigPCs, RoleInv, LockInv, NodeInv,
     Linked, TypeOK, IInv, ClientRemove, Goto, Set, RemoveCallback, Unlink,
     RemoveAnswer, fenceVars
<1>37. ASSUME NEW p \in Procs, NEW f \in Fences, ClientPoll(p, f)
      PROVE  MemInv'
  BY <1>37, RoleAssumption DEF MemInv, At, SigPCs, RoleInv, LockInv, NodeInv,
     Linked, TypeOK, IInv, ClientPoll, Goto, Completed, fenceVars
<1>38. ASSUME NEW p \in Procs, SpuriousWake(p)
      PROVE  MemInv'
  BY <1>38, RoleAssumption DEF MemInv, At, SigPCs, RoleInv, LockInv, NodeInv,
     Linked, TypeOK, IInv, SpuriousWake, fenceVars
<1>39. QED
  BY <1>1, <1>2, <1>3, <1>4, <1>5, <1>6, <1>7, <1>8, <1>9, <1>10, <1>11, <1>12,
     <1>13, <1>14, <1>15, <1>16, <1>17, <1>18, <1>19, <1>20, <1>21, <1>22,
     <1>23, <1>24, <1>25, <1>26, <1>27, <1>28, <1>29, <1>30, <1>31, <1>32,
     <1>33, <1>34, <1>35, <1>36, <1>37, <1>38 DEF Next, Step, Call, SignalStep,
     WaitStep, AddStep, AnyStep

\* A waiter that may go to sleep is still linked on each of its fences that is
\* not signalled.
LEMMA SleeperLinked ==
  ASSUME TypeOK, NodeInv, MemInv, NEW p \in Waiters, NEW f \in arr[p],
         pc[p] \in {"sched", "test", "any_sched"}, ~signaled[f]
  PROVE  Linked(p, f)
<1>1. p \in Procs /\ f \in Fences
  BY DEF TypeOK, Procs
<1>2. f \in mem[p]
  BY DEF MemInv, At, SigPCs
<1>3. QED
  BY <1>1, <1>2 DEF NodeInv

\* A waiter that tested its fences is woken by those it saw unsignalled.
LEMMA WakeInductive ==
  TypeOK /\ IInv /\ [Next]_vars => WakeInv'
<1> SUFFICES ASSUME TypeOK, IInv, [Next]_vars PROVE WakeInv'
  OBVIOUS
<1>1. CASE UNCHANGED vars
  BY <1>1, RoleAssumption DEF WakeInv, MemInv, NodeInv, At, SigPCs, RoleInv,
     ListInv, LockInv, Linked, TypeOK, IInv, vars, fenceVars, procVars
<1>2. ASSUME NEW f \in Fences, HwComplete(f)
      PROVE  WakeInv'
  BY <1>2, RoleAssumption DEF WakeInv, MemInv, NodeInv, At, SigPCs, RoleInv,
     ListInv, LockInv, Linked, TypeOK, IInv, HwComplete, fenceVars, procVars
<1>3. ASSUME NEW f \in Fences, IrqTake(f)
      PROVE  WakeInv'
  BY <1>3, RoleAssumption DEF WakeInv, MemInv, NodeInv, At, SigPCs, RoleInv,
     ListInv, LockInv, Linked, TypeOK, IInv, IrqTake, Goto, fenceVars
<1>4. ASSUME NEW p \in Procs, SignalAgain(p)
      PROVE  WakeInv'
  BY SMTT(60), <1>4, RoleAssumption DEF WakeInv, MemInv, NodeInv, At, SigPCs, RoleInv,
     ListInv, LockInv, Linked, TypeOK, IInv, SignalAgain, Goto, fenceVars
<1>5. ASSUME NEW p \in Procs, SignalFirst(p)
      PROVE  WakeInv'
  <2>1. ASSUME NEW q \in Waiters, pc'[q] \in {"sched", "test", "any_sched"}
        PROVE  q # p /\ pc[q] = pc'[q]
    BY <1>5, <2>1 DEF SignalFirst, Goto, BeginSignal, TypeOK, Procs
  <2>2. ASSUME NEW q \in Waiters, NEW g \in arr[q], ~signaled[g],
               pc'[q] \in {"sched", "test", "any_sched"}
        PROVE  Linked(q, g)
    BY <2>1, <2>2, SleeperLinked DEF IInv
  <2>3. UNCHANGED <<arr, task, cb_list, walk>>
    BY <1>5 DEF SignalFirst
  <2>4. QED
    BY <1>5, <2>1, <2>2, <2>3 DEF WakeInv, IInv, TypeOK, Procs, Linked,
       SignalFirst, Goto, BeginSignal
<1>6. ASSUME NEW p \in Procs, SignalStamp(p)
      PROVE  WakeInv'
  BY <1>6, RoleAssumption DEF WakeInv, MemInv, NodeInv, At, SigPCs, RoleInv,
     ListInv, LockInv, Linked, TypeOK, IInv, SignalStamp, Goto, Detached,
     fenceVars
<1>7. ASSUME NEW p \in Procs, SignalUnlock(p)
      PROVE  WakeInv'
  <2>1. ret[p] \notin {"sched", "test", "any_sched"}
    BY DEF IInv, LockInv
  <2>2. QED
    BY <1>7, <2>1 DEF WakeInv, IInv, TypeOK, Procs, Linked, SignalUnlock, Goto
<1>8. ASSUME NEW p \in Procs, NEW q \in Procs, SignalCallback(p, q)
      PROVE  WakeInv'
  BY <1>8, RoleAssumption DEF WakeInv, MemInv, NodeInv, At, SigPCs, RoleInv,
     ListInv, LockInv, Linked, TypeOK, IInv, SignalCallback, fenceVars
<1>9. ASSUME NEW p \in Procs, EnableSwSignaling(p)
      PROVE  WakeInv'
  BY <1>9, RoleAssumption DEF WakeInv, MemInv, NodeInv, At, SigPCs, RoleInv,
     ListInv, LockInv, Linked, TypeOK, IInv, EnableSwSignaling, Goto,
     EnableSignal, fenceVars
<1>10. ASSUME NEW p \in Procs, EnableSwSignalingFails(p)
      PROVE  WakeInv'
  <2>1. ASSUME NEW q \in Waiters, pc'[q] \in {"sched", "test", "any_sched"}
        PROVE  q # p /\ pc[q] = pc'[q]
    BY <1>10, <2>1 DEF EnableSwSignalingFails, Goto, EnableFails, BeginSignal,
       TypeOK, Procs
  <2>2. ASSUME NEW q \in Waiters, NEW g \in arr[q], ~signaled[g],
               pc'[q] \in {"sched", "test", "any_sched"}
        PROVE  Linked(q, g)
    BY <2>1, <2>2, SleeperLinked DEF IInv
  <2>3. UNCHANGED <<arr, task, cb_list, walk>>
    BY <1>10 DEF EnableSwSignalingFails
  <2>4. QED
    BY <1>10, <2>1, <2>2, <2>3 DEF WakeInv, IInv, TypeOK, Procs, Linked,
       EnableSwSignalingFails, Goto, EnableFails, BeginSignal
<1>11. ASSUME NEW p \in Procs, NEW low \in Results, DefaultWaitOut(p, low)
      PROVE  WakeInv'
  BY <1>11, RoleAssumption DEF WakeInv, MemInv, NodeInv, At, SigPCs, RoleInv,
     ListInv, LockInv, Linked, TypeOK, IInv, DefaultWaitOut, IntOf, Goto, Set,
     WaitStart, fenceVars
<1>12. ASSUME NEW p \in Procs, DefaultWait(p)
      PROVE  WakeInv'
  BY SMTT(60), <1>12, RoleAssumption DEF WakeInv, MemInv, NodeInv, At, SigPCs, RoleInv,
     ListInv, LockInv, Linked, TypeOK, IInv, DefaultWait, Goto, Set, WaitStart,
     fenceVars
<1>13. ASSUME NEW p \in Procs, NEW r \in Results, Schedule(p, r)
      PROVE  WakeInv'
  BY <1>13, RoleAssumption DEF WakeInv, MemInv, NodeInv, At, SigPCs, RoleInv,
     ListInv, LockInv, Linked, TypeOK, IInv, Schedule, Goto, Set, Slept,
     fenceVars
<1>14. ASSUME NEW p \in Procs, NEW r \in Results, RelockSleep(p, r)
      PROVE  WakeInv'
  <2>1. p \in Waiters /\ arr[p] = {fen[p]} /\ ~signaled[fen[p]]
    BY <1>14 DEF IInv, RoleInv, MemInv, At, SigPCs, RelockSleep, WaitOver
  <2>2. QED
    BY <1>14, <2>1 DEF WakeInv, IInv, TypeOK, Procs, Linked, RelockSleep, Goto, Set,
       fenceVars
<1>15. ASSUME NEW p \in Procs, NEW r \in Results, NEW low \in Results,
             RelockDone(p, r, low)
      PROVE  WakeInv'
  BY <1>15, RoleAssumption DEF WakeInv, MemInv, NodeInv, At, SigPCs, RoleInv,
     ListInv, LockInv, Linked, TypeOK, IInv, RelockDone, IntOf, Goto, Set, WaitOver,
     Unlink, AfterSleep, fenceVars
<1>16. ASSUME NEW p \in Procs, AddCallbackLate(p)
      PROVE  WakeInv'
  BY <1>16, RoleAssumption DEF WakeInv, MemInv, NodeInv, At, SigPCs, RoleInv,
     ListInv, LockInv, Linked, TypeOK, IInv, AddCallbackLate, Goto, Recheck,
     AddRefused, AddFailed, fenceVars
<1>17. ASSUME NEW p \in Procs, AddCallbackLink(p)
      PROVE  WakeInv'
  BY <1>17, RoleAssumption DEF WakeInv, MemInv, NodeInv, At, SigPCs, RoleInv,
     ListInv, LockInv, Linked, TypeOK, IInv, AddCallbackLink, Goto, Set,
     Recheck, EnableSignal, AddReturns, fenceVars
<1>18. ASSUME NEW p \in Procs, AddCallbackFails(p)
      PROVE  WakeInv'
  <2>1. ASSUME NEW q \in Waiters, pc'[q] \in {"sched", "test", "any_sched"}
        PROVE  q # p /\ pc[q] = pc'[q]
    BY <1>18, <2>1 DEF AddCallbackFails, Goto, BeginSignal, AddRefused, AddFailed,
       TypeOK, Procs
  <2>2. ASSUME NEW q \in Waiters, NEW g \in arr[q], ~signaled[g],
               pc'[q] \in {"sched", "test", "any_sched"}
        PROVE  Linked(q, g)
    BY <2>1, <2>2, SleeperLinked DEF IInv
  <2>3. UNCHANGED <<arr, task, cb_list, walk>>
    BY <1>18 DEF AddCallbackFails
  <2>4. QED
    BY <1>18, <2>1, <2>2, <2>3 DEF WakeInv, IInv, TypeOK, Procs, Linked,
       AddCallbackFails, Goto, BeginSignal, AddRefused, AddFailed
<1>19. ASSUME NEW p \in Procs, NEW f \in Fences, AnyPollSignaled(p, f)
      PROVE  WakeInv'
  BY <1>19, RoleAssumption DEF WakeInv, MemInv, NodeInv, At, SigPCs, RoleInv,
     ListInv, LockInv, Linked, TypeOK, IInv, AnyPollSignaled, Goto, Set,
     fenceVars
<1>20. ASSUME NEW p \in Procs, NEW f \in Fences, AnyPollCompleted(p, f)
      PROVE  WakeInv'
  BY <1>20, RoleAssumption DEF WakeInv, MemInv, NodeInv, At, SigPCs, RoleInv,
     ListInv, LockInv, Linked, TypeOK, IInv, AnyPollCompleted, Goto, Set,
     Completed, fenceVars
<1>21. ASSUME NEW p \in Procs, NEW f \in Fences, AnyPollNext(p, f)
      PROVE  WakeInv'
  BY <1>21, RoleAssumption DEF WakeInv, MemInv, NodeInv, At, SigPCs, RoleInv,
     ListInv, LockInv, Linked, TypeOK, IInv, AnyPollNext, fenceVars
<1>22. ASSUME NEW p \in Procs, NEW f \in Fences, AddCallbackFast(p, f)
      PROVE  WakeInv'
  BY <1>22, RoleAssumption DEF WakeInv, MemInv, NodeInv, At, SigPCs, RoleInv,
     ListInv, LockInv, Linked, TypeOK, IInv, AddCallbackFast, Goto, CallsAdd,
     AddRefused, AddFailed, fenceVars
<1>23. ASSUME NEW p \in Procs, NEW f \in Fences, AddCallbackSlow(p, f)
      PROVE  WakeInv'
  BY <1>23, RoleAssumption DEF WakeInv, MemInv, NodeInv, At, SigPCs, RoleInv,
     ListInv, LockInv, Linked, TypeOK, IInv, AddCallbackSlow, Goto, CallsAdd,
     fenceVars
<1>24. ASSUME NEW p \in Procs, NEW f \in Fences, AnyTestSignaled(p, f)
      PROVE  WakeInv'
  BY <1>24, RoleAssumption DEF WakeInv, MemInv, NodeInv, At, SigPCs, RoleInv,
     ListInv, LockInv, Linked, TypeOK, IInv, AnyTestSignaled, Goto, fenceVars
<1>25. ASSUME NEW p \in Procs, NEW f \in Fences, AnyTestNext(p, f)
      PROVE  WakeInv'
  BY <1>25, RoleAssumption DEF WakeInv, MemInv, NodeInv, At, SigPCs, RoleInv,
     ListInv, LockInv, Linked, TypeOK, IInv, AnyTestNext, fenceVars
<1>26. ASSUME NEW p \in Procs, NEW f \in Fences, AnyCleanup(p, f)
      PROVE  WakeInv'
  BY <1>26, RoleAssumption DEF WakeInv, MemInv, NodeInv, At, SigPCs, RoleInv,
     ListInv, LockInv, Linked, TypeOK, IInv, AnyCleanup, RemoveCallback,
     Unlink, fenceVars
<1>27. ASSUME NEW p \in Procs, AnyPollNone(p)
      PROVE  WakeInv'
  BY <1>27, RoleAssumption DEF WakeInv, MemInv, NodeInv, At, SigPCs, RoleInv,
     ListInv, LockInv, Linked, TypeOK, IInv, AnyPollNone, Goto, fenceVars
<1>28. ASSUME NEW p \in Procs, AnyAdded(p)
      PROVE  WakeInv'
  BY <1>28, RoleAssumption DEF WakeInv, MemInv, NodeInv, At, SigPCs, RoleInv,
     ListInv, LockInv, Linked, TypeOK, IInv, AnyAdded, Goto, fenceVars
<1>29. ASSUME NEW p \in Procs, AnyPrepare(p)
      PROVE  WakeInv'
  BY <1>29, RoleAssumption DEF WakeInv, MemInv, NodeInv, At, SigPCs, RoleInv,
     ListInv, LockInv, Linked, TypeOK, IInv, AnyPrepare, Goto, fenceVars
<1>30. ASSUME NEW p \in Procs, AnyTestNone(p)
      PROVE  WakeInv'
  BY <1>30, RoleAssumption DEF WakeInv, MemInv, NodeInv, At, SigPCs, RoleInv,
     ListInv, LockInv, Linked, TypeOK, IInv, AnyTestNone, Goto, TaskState,
     fenceVars
<1>31. ASSUME NEW p \in Procs, AnyFree(p)
      PROVE  WakeInv'
  BY <1>31, RoleAssumption DEF WakeInv, MemInv, NodeInv, At, SigPCs, RoleInv,
     ListInv, LockInv, Linked, TypeOK, IInv, AnyFree, Goto, fenceVars
<1>32. ASSUME NEW p \in Procs, NEW v \in Results, NEW r \in Results, AnySchedule(p, v, r)
      PROVE  WakeInv'
  BY <1>32, RoleAssumption DEF WakeInv, MemInv, NodeInv, At, SigPCs, RoleInv,
     ListInv, LockInv, Linked, TypeOK, IInv, AnySchedule, Goto, Set, Slept,
     AfterSleep, fenceVars
<1>33. ASSUME NEW p \in Procs, Return(p)
      PROVE  WakeInv'
  BY <1>33, RoleAssumption DEF WakeInv, MemInv, NodeInv, At, SigPCs, RoleInv,
     ListInv, LockInv, Linked, TypeOK, IInv, Return, Goto, fenceVars
<1>34. ASSUME NEW p \in Procs, NEW f \in Fences, NEW t \in CallTimeouts,
             NEW i \in BOOLEAN, WaitCall(p, f, t, i)
      PROVE  WakeInv'
  BY <1>34, RoleAssumption DEF WakeInv, MemInv, NodeInv, At, SigPCs, RoleInv,
     ListInv, LockInv, Linked, TypeOK, IInv, WaitCall, Goto, fenceVars
<1>35. ASSUME NEW p \in Procs, NEW fs \in SUBSET Fences,
             NEW t \in CallTimeouts, NEW i \in BOOLEAN, WaitAnyCall(p, fs, t, i)
      PROVE  WakeInv'
  BY <1>35, RoleAssumption DEF WakeInv, MemInv, NodeInv, At, SigPCs, RoleInv,
     ListInv, LockInv, Linked, TypeOK, IInv, WaitAnyCall, Goto, Set, fenceVars
<1>36. ASSUME NEW p \in Procs, NEW f \in Fences, ClientRemove(p, f)
      PROVE  WakeInv'
  BY <1>36, RoleAssumption DEF WakeInv, MemInv, NodeInv, At, SigPCs, RoleInv,
     ListInv, LockInv, Linked, TypeOK, IInv, ClientRemove, Goto, Set,
     RemoveCallback, Unlink, RemoveAnswer, fenceVars
<1>37. ASSUME NEW p \in Procs, NEW f \in Fences, ClientPoll(p, f)
      PROVE  WakeInv'
  BY <1>37, RoleAssumption DEF WakeInv, MemInv, NodeInv, At, SigPCs, RoleInv,
     ListInv, LockInv, Linked, TypeOK, IInv, ClientPoll, Goto, Completed,
     fenceVars
<1>38. ASSUME NEW p \in Procs, SpuriousWake(p)
      PROVE  WakeInv'
  BY <1>38, RoleAssumption DEF WakeInv, MemInv, NodeInv, At, SigPCs, RoleInv,
     ListInv, LockInv, Linked, TypeOK, IInv, SpuriousWake, fenceVars
<1>39. QED
  BY <1>1, <1>2, <1>3, <1>4, <1>5, <1>6, <1>7, <1>8, <1>9, <1>10, <1>11, <1>12,
     <1>13, <1>14, <1>15, <1>16, <1>17, <1>18, <1>19, <1>20, <1>21, <1>22,
     <1>23, <1>24, <1>25, <1>26, <1>27, <1>28, <1>29, <1>30, <1>31, <1>32,
     <1>33, <1>34, <1>35, <1>36, <1>37, <1>38 DEF Next, Step, Call, SignalStep,
     WaitStep, AddStep, AnyStep

\* The result of a wait and the fence it names.
LEMMA ResultInductive ==
  TypeOK /\ IInv /\ [Next]_vars => ResultInv'
<1> SUFFICES ASSUME TypeOK, IInv, [Next]_vars PROVE ResultInv'
  OBVIOUS
<1>1. CASE UNCHANGED vars
  BY <1>1, RoleAssumption DEF ResultInv, MemInv, At, SigPCs, ListInv, LockInv,
     TypeOK, IInv, vars, fenceVars, procVars
<1>2. ASSUME NEW f \in Fences, HwComplete(f)
      PROVE  ResultInv'
  BY <1>2, RoleAssumption DEF ResultInv, MemInv, At, SigPCs, ListInv, LockInv,
     TypeOK, IInv, HwComplete, fenceVars, procVars
<1>3. ASSUME NEW f \in Fences, IrqTake(f)
      PROVE  ResultInv'
  BY <1>3, RoleAssumption DEF ResultInv, MemInv, At, SigPCs, ListInv, LockInv,
     TypeOK, IInv, IrqTake, Goto, fenceVars
<1>4. ASSUME NEW p \in Procs, SignalAgain(p)
      PROVE  ResultInv'
  BY SMTT(60), <1>4, RoleAssumption DEF ResultInv, MemInv, At, SigPCs, ListInv, LockInv,
     TypeOK, IInv, SignalAgain, Goto, fenceVars
<1>5. ASSUME NEW p \in Procs, SignalFirst(p)
      PROVE  ResultInv'
  BY <1>5, RoleAssumption DEF ResultInv, MemInv, At, SigPCs, ListInv, LockInv,
     TypeOK, IInv, SignalFirst, Goto, BeginSignal, fenceVars
<1>6. ASSUME NEW p \in Procs, SignalStamp(p)
      PROVE  ResultInv'
  BY <1>6, RoleAssumption DEF ResultInv, MemInv, At, SigPCs, ListInv, LockInv,
     TypeOK, IInv, SignalStamp, Goto, Detached, fenceVars
<1>7. ASSUME NEW p \in Procs, SignalUnlock(p)
      PROVE  ResultInv'
  <2>1. ret[p] \notin SigPCs
    BY DEF IInv, LockInv, SigPCs
  <2>2. signaled[fen[p]]
    BY <1>7 DEF IInv, ListInv, SignalUnlock, TypeOK
  <2>3. /\ UNCHANGED <<signaled, fen, ret, arr, rv>>
        /\ pc[p] = "sig_run" /\ pc' = [pc EXCEPT ![p] = ret[p]]
    BY <1>7 DEF SignalUnlock, Goto
  <2>4. ASSUME NEW q \in Waiters
        PROVE  /\ (At(q) \in {"cleanup", "done"} /\ rv[q] = "pos" =>
                     /\ fen[q] \in arr[q]
                     /\ pc[q] # "sig_lock" => signaled[fen[q]])'
               /\ (pc[q] = "poll" => rv[q] = "zero")'
    <3>1. /\ At(q) \in {"cleanup", "done"} /\ rv[q] = "pos" =>
               /\ fen[q] \in arr[q]
               /\ pc[q] # "sig_lock" => signaled[fen[q]]
          /\ pc[q] = "poll" => rv[q] = "zero"
      BY DEF IInv, ResultInv
    <3>2. pc \in [Procs -> PCs] /\ q \in Procs
      BY DEF TypeOK, Procs
    <3>3. CASE q = p
      <4>1. pc'[q] = ret[q] /\ ret[q] \in {"idle", "wait", "cleanup", "done"}
        BY <2>3, <3>2, <3>3 DEF IInv, LockInv
      <4>2. QED
        BY <2>1, <2>2, <2>3, <3>1, <3>3, <4>1 DEF At, SigPCs
    <3>4. CASE q # p
      <4>1. pc'[q] = pc[q]
        BY <2>3, <3>2, <3>4
      <4>2. QED
        BY <2>3, <3>1, <4>1 DEF At
    <3>5. QED
      BY <3>3, <3>4
  <2>5. QED
    BY <2>4 DEF ResultInv
<1>8. ASSUME NEW p \in Procs, NEW q \in Procs, SignalCallback(p, q)
      PROVE  ResultInv'
  BY <1>8, RoleAssumption DEF ResultInv, MemInv, At, SigPCs, ListInv, LockInv,
     TypeOK, IInv, SignalCallback, fenceVars
<1>9. ASSUME NEW p \in Procs, EnableSwSignaling(p)
      PROVE  ResultInv'
  BY <1>9, RoleAssumption DEF ResultInv, MemInv, At, SigPCs, ListInv, LockInv,
     TypeOK, IInv, EnableSwSignaling, Goto, EnableSignal, fenceVars
<1>10. ASSUME NEW p \in Procs, EnableSwSignalingFails(p)
      PROVE  ResultInv'
  BY <1>10, RoleAssumption DEF ResultInv, MemInv, At, SigPCs, ListInv, LockInv,
     TypeOK, IInv, EnableSwSignalingFails, Goto, EnableFails, MustEnable,
     BeginSignal, fenceVars
<1>11. ASSUME NEW p \in Procs, NEW low \in Results, DefaultWaitOut(p, low)
      PROVE  ResultInv'
  BY <1>11, RoleAssumption DEF ResultInv, MemInv, At, SigPCs, ListInv, LockInv,
     TypeOK, IInv, DefaultWaitOut, IntOf, Goto, Set, WaitStart, fenceVars
<1>12. ASSUME NEW p \in Procs, DefaultWait(p)
      PROVE  ResultInv'
  BY <1>12, RoleAssumption DEF ResultInv, MemInv, At, SigPCs, ListInv, LockInv,
     TypeOK, IInv, DefaultWait, Goto, Set, WaitStart, fenceVars
<1>13. ASSUME NEW p \in Procs, NEW r \in Results, Schedule(p, r)
      PROVE  ResultInv'
  BY <1>13, RoleAssumption DEF ResultInv, MemInv, At, SigPCs, ListInv, LockInv,
     TypeOK, IInv, Schedule, Goto, Set, Slept, fenceVars
<1>14. ASSUME NEW p \in Procs, NEW r \in Results, RelockSleep(p, r)
      PROVE  ResultInv'
  BY <1>14, RoleAssumption DEF ResultInv, MemInv, At, SigPCs, ListInv, LockInv,
     TypeOK, IInv, RelockSleep, Goto, Set, WaitOver, AfterSleep, fenceVars
<1>15. ASSUME NEW p \in Procs, NEW r \in Results, NEW low \in Results,
             RelockDone(p, r, low)
      PROVE  ResultInv'
  BY <1>15, RoleAssumption DEF ResultInv, MemInv, At, SigPCs, ListInv, LockInv,
     TypeOK, IInv, RelockDone, IntOf, Goto, Set, WaitOver, Unlink, AfterSleep,
     fenceVars
<1>16. ASSUME NEW p \in Procs, AddCallbackLate(p)
      PROVE  ResultInv'
  BY <1>16, RoleAssumption DEF ResultInv, MemInv, At, SigPCs, ListInv, LockInv,
     TypeOK, IInv, AddCallbackLate, Goto, Recheck, AddRefused, AddFailed,
     fenceVars
<1>17. ASSUME NEW p \in Procs, AddCallbackLink(p)
      PROVE  ResultInv'
  BY <1>17, RoleAssumption DEF ResultInv, MemInv, At, SigPCs, ListInv, LockInv,
     TypeOK, IInv, AddCallbackLink, Goto, Set, Recheck, EnableSignal,
     AddReturns, fenceVars
<1>18. ASSUME NEW p \in Procs, AddCallbackFails(p)
      PROVE  ResultInv'
  BY <1>18, RoleAssumption DEF ResultInv, MemInv, At, SigPCs, ListInv, LockInv,
     TypeOK, IInv, AddCallbackFails, Goto, Recheck, EnableFails, BeginSignal,
     AddRefused, AddFailed, fenceVars
<1>19. ASSUME NEW p \in Procs, NEW f \in Fences, AnyPollSignaled(p, f)
      PROVE  ResultInv'
  BY <1>19, RoleAssumption DEF ResultInv, MemInv, At, SigPCs, ListInv, LockInv,
     TypeOK, IInv, AnyPollSignaled, Goto, Set, fenceVars
<1>20. ASSUME NEW p \in Procs, NEW f \in Fences, AnyPollCompleted(p, f)
      PROVE  ResultInv'
  BY <1>20, RoleAssumption DEF ResultInv, MemInv, At, SigPCs, ListInv, LockInv,
     TypeOK, IInv, AnyPollCompleted, Goto, Set, Completed, fenceVars
<1>21. ASSUME NEW p \in Procs, NEW f \in Fences, AnyPollNext(p, f)
      PROVE  ResultInv'
  BY <1>21, RoleAssumption DEF ResultInv, MemInv, At, SigPCs, ListInv, LockInv,
     TypeOK, IInv, AnyPollNext, fenceVars
<1>22. ASSUME NEW p \in Procs, NEW f \in Fences, AddCallbackFast(p, f)
      PROVE  ResultInv'
  BY <1>22, RoleAssumption DEF ResultInv, MemInv, At, SigPCs, ListInv, LockInv,
     TypeOK, IInv, AddCallbackFast, Goto, CallsAdd, AddRefused, AddFailed,
     fenceVars
<1>23. ASSUME NEW p \in Procs, NEW f \in Fences, AddCallbackSlow(p, f)
      PROVE  ResultInv'
  BY <1>23, RoleAssumption DEF ResultInv, MemInv, At, SigPCs, ListInv, LockInv,
     TypeOK, IInv, AddCallbackSlow, Goto, CallsAdd, fenceVars
<1>24. ASSUME NEW p \in Procs, NEW f \in Fences, AnyTestSignaled(p, f)
      PROVE  ResultInv'
  BY <1>24, RoleAssumption DEF ResultInv, MemInv, At, SigPCs, ListInv, LockInv,
     TypeOK, IInv, AnyTestSignaled, Goto, fenceVars
<1>25. ASSUME NEW p \in Procs, NEW f \in Fences, AnyTestNext(p, f)
      PROVE  ResultInv'
  BY <1>25, RoleAssumption DEF ResultInv, MemInv, At, SigPCs, ListInv, LockInv,
     TypeOK, IInv, AnyTestNext, fenceVars
<1>26. ASSUME NEW p \in Procs, NEW f \in Fences, AnyCleanup(p, f)
      PROVE  ResultInv'
  BY <1>26, RoleAssumption DEF ResultInv, MemInv, At, SigPCs, ListInv, LockInv,
     TypeOK, IInv, AnyCleanup, RemoveCallback, Unlink, fenceVars
<1>27. ASSUME NEW p \in Procs, AnyPollNone(p)
      PROVE  ResultInv'
  BY <1>27, RoleAssumption DEF ResultInv, MemInv, At, SigPCs, ListInv, LockInv,
     TypeOK, IInv, AnyPollNone, Goto, fenceVars
<1>28. ASSUME NEW p \in Procs, AnyAdded(p)
      PROVE  ResultInv'
  BY <1>28, RoleAssumption DEF ResultInv, MemInv, At, SigPCs, ListInv, LockInv,
     TypeOK, IInv, AnyAdded, Goto, fenceVars
<1>29. ASSUME NEW p \in Procs, AnyPrepare(p)
      PROVE  ResultInv'
  BY <1>29, RoleAssumption DEF ResultInv, MemInv, At, SigPCs, ListInv, LockInv,
     TypeOK, IInv, AnyPrepare, Goto, fenceVars
<1>30. ASSUME NEW p \in Procs, AnyTestNone(p)
      PROVE  ResultInv'
  BY <1>30, RoleAssumption DEF ResultInv, MemInv, At, SigPCs, ListInv, LockInv,
     TypeOK, IInv, AnyTestNone, Goto, TaskState, fenceVars
<1>31. ASSUME NEW p \in Procs, AnyFree(p)
      PROVE  ResultInv'
  BY <1>31, RoleAssumption DEF ResultInv, MemInv, At, SigPCs, ListInv, LockInv,
     TypeOK, IInv, AnyFree, Goto, fenceVars
<1>32. ASSUME NEW p \in Procs, NEW v \in Results, NEW r \in Results, AnySchedule(p, v, r)
      PROVE  ResultInv'
  BY <1>32, RoleAssumption DEF ResultInv, MemInv, At, SigPCs, ListInv, LockInv,
     TypeOK, IInv, AnySchedule, Goto, Set, Slept, AfterSleep, fenceVars
<1>33. ASSUME NEW p \in Procs, Return(p)
      PROVE  ResultInv'
  BY <1>33, RoleAssumption DEF ResultInv, MemInv, At, SigPCs, ListInv, LockInv,
     TypeOK, IInv, Return, Goto, fenceVars
<1>34. ASSUME NEW p \in Procs, NEW f \in Fences, NEW t \in CallTimeouts,
             NEW i \in BOOLEAN, WaitCall(p, f, t, i)
      PROVE  ResultInv'
  BY <1>34, RoleAssumption DEF ResultInv, MemInv, At, SigPCs, ListInv, LockInv,
     TypeOK, IInv, WaitCall, Goto, fenceVars
<1>35. ASSUME NEW p \in Procs, NEW fs \in SUBSET Fences,
             NEW t \in CallTimeouts, NEW i \in BOOLEAN, WaitAnyCall(p, fs, t, i)
      PROVE  ResultInv'
  BY <1>35, RoleAssumption DEF ResultInv, MemInv, At, SigPCs, ListInv, LockInv,
     TypeOK, IInv, WaitAnyCall, Goto, Set, fenceVars
<1>36. ASSUME NEW p \in Procs, NEW f \in Fences, ClientRemove(p, f)
      PROVE  ResultInv'
  BY <1>36, RoleAssumption DEF ResultInv, MemInv, At, SigPCs, ListInv, LockInv,
     TypeOK, IInv, ClientRemove, Goto, Set, RemoveCallback, Unlink,
     RemoveAnswer, fenceVars
<1>37. ASSUME NEW p \in Procs, NEW f \in Fences, ClientPoll(p, f)
      PROVE  ResultInv'
  BY <1>37, RoleAssumption DEF ResultInv, MemInv, At, SigPCs, ListInv, LockInv,
     TypeOK, IInv, ClientPoll, Goto, Completed, fenceVars
<1>38. ASSUME NEW p \in Procs, SpuriousWake(p)
      PROVE  ResultInv'
  BY <1>38, RoleAssumption DEF ResultInv, MemInv, At, SigPCs, ListInv, LockInv,
     TypeOK, IInv, SpuriousWake, fenceVars
<1>39. QED
  BY <1>1, <1>2, <1>3, <1>4, <1>5, <1>6, <1>7, <1>8, <1>9, <1>10, <1>11, <1>12,
     <1>13, <1>14, <1>15, <1>16, <1>17, <1>18, <1>19, <1>20, <1>21, <1>22,
     <1>23, <1>24, <1>25, <1>26, <1>27, <1>28, <1>29, <1>30, <1>31, <1>32,
     <1>33, <1>34, <1>35, <1>36, <1>37, <1>38 DEF Next, Step, Call, SignalStep,
     WaitStep, AddStep, AnyStep

\* A wait that began with a signalled fence never reaches a sleep.
LEMMA PreInductive ==
  TypeOK /\ IInv /\ [Next]_vars => PreInv'
<1> SUFFICES ASSUME TypeOK, IInv, [Next]_vars PROVE PreInv'
  OBVIOUS
<1>1. CASE UNCHANGED vars
  BY <1>1, RoleAssumption DEF PreInv, MemInv, At, SigPCs, LockInv, TypeOK,
     IInv, vars, fenceVars, procVars
<1>2. ASSUME NEW f \in Fences, HwComplete(f)
      PROVE  PreInv'
  BY <1>2, RoleAssumption DEF PreInv, MemInv, At, SigPCs, LockInv, TypeOK,
     IInv, HwComplete, fenceVars, procVars
<1>3. ASSUME NEW f \in Fences, IrqTake(f)
      PROVE  PreInv'
  BY <1>3, RoleAssumption DEF PreInv, MemInv, At, SigPCs, LockInv, TypeOK,
     IInv, IrqTake, Goto, fenceVars
<1>4. ASSUME NEW p \in Procs, SignalAgain(p)
      PROVE  PreInv'
  BY <1>4, RoleAssumption DEF PreInv, MemInv, At, SigPCs, LockInv, TypeOK,
     IInv, SignalAgain, Goto, fenceVars
<1>5. ASSUME NEW p \in Procs, SignalFirst(p)
      PROVE  PreInv'
  BY <1>5, RoleAssumption DEF PreInv, MemInv, At, SigPCs, LockInv, TypeOK,
     IInv, SignalFirst, Goto, BeginSignal, fenceVars
<1>6. ASSUME NEW p \in Procs, SignalStamp(p)
      PROVE  PreInv'
  BY <1>6, RoleAssumption DEF PreInv, MemInv, At, SigPCs, LockInv, TypeOK,
     IInv, SignalStamp, Goto, Detached, fenceVars
<1>7. ASSUME NEW p \in Procs, SignalUnlock(p)
      PROVE  PreInv'
  BY <1>7, RoleAssumption DEF PreInv, MemInv, At, SigPCs, LockInv, TypeOK,
     IInv, SignalUnlock, Goto, fenceVars
<1>8. ASSUME NEW p \in Procs, NEW q \in Procs, SignalCallback(p, q)
      PROVE  PreInv'
  BY <1>8, RoleAssumption DEF PreInv, MemInv, At, SigPCs, LockInv, TypeOK,
     IInv, SignalCallback, fenceVars
<1>9. ASSUME NEW p \in Procs, EnableSwSignaling(p)
      PROVE  PreInv'
  BY <1>9, RoleAssumption DEF PreInv, MemInv, At, SigPCs, LockInv, TypeOK,
     IInv, EnableSwSignaling, Goto, EnableSignal, fenceVars
<1>10. ASSUME NEW p \in Procs, EnableSwSignalingFails(p)
      PROVE  PreInv'
  BY <1>10, RoleAssumption DEF PreInv, MemInv, At, SigPCs, LockInv, TypeOK,
     IInv, EnableSwSignalingFails, Goto, EnableFails, MustEnable, BeginSignal,
     fenceVars
<1>11. ASSUME NEW p \in Procs, NEW low \in Results, DefaultWaitOut(p, low)
      PROVE  PreInv'
  BY <1>11, RoleAssumption DEF PreInv, MemInv, At, SigPCs, LockInv, TypeOK,
     IInv, DefaultWaitOut, IntOf, Goto, Set, WaitStart, fenceVars
<1>12. ASSUME NEW p \in Procs, DefaultWait(p)
      PROVE  PreInv'
  BY <1>12, RoleAssumption DEF PreInv, MemInv, At, SigPCs, LockInv, TypeOK,
     IInv, DefaultWait, Goto, Set, WaitStart, fenceVars
<1>13. ASSUME NEW p \in Procs, NEW r \in Results, Schedule(p, r)
      PROVE  PreInv'
  BY <1>13, RoleAssumption DEF PreInv, MemInv, At, SigPCs, LockInv, TypeOK,
     IInv, Schedule, Goto, Set, Slept, fenceVars
<1>14. ASSUME NEW p \in Procs, NEW r \in Results, RelockSleep(p, r)
      PROVE  PreInv'
  BY <1>14, RoleAssumption DEF PreInv, MemInv, At, SigPCs, LockInv, TypeOK,
     IInv, RelockSleep, Goto, Set, WaitOver, AfterSleep, fenceVars
<1>15. ASSUME NEW p \in Procs, NEW r \in Results, NEW low \in Results,
             RelockDone(p, r, low)
      PROVE  PreInv'
  BY <1>15, RoleAssumption DEF PreInv, MemInv, At, SigPCs, LockInv, TypeOK,
     IInv, RelockDone, IntOf, Goto, Set, WaitOver, Unlink, AfterSleep, fenceVars
<1>16. ASSUME NEW p \in Procs, AddCallbackLate(p)
      PROVE  PreInv'
  BY <1>16, RoleAssumption DEF PreInv, MemInv, At, SigPCs, LockInv, TypeOK,
     IInv, AddCallbackLate, Goto, Recheck, AddRefused, AddFailed, fenceVars
<1>17. ASSUME NEW p \in Procs, AddCallbackLink(p)
      PROVE  PreInv'
  BY <1>17, RoleAssumption DEF PreInv, MemInv, At, SigPCs, LockInv, TypeOK,
     IInv, AddCallbackLink, Goto, Set, Recheck, EnableSignal, AddReturns,
     fenceVars
<1>18. ASSUME NEW p \in Procs, AddCallbackFails(p)
      PROVE  PreInv'
  BY <1>18, RoleAssumption DEF PreInv, MemInv, At, SigPCs, LockInv, TypeOK,
     IInv, AddCallbackFails, Goto, Recheck, EnableFails, BeginSignal,
     AddRefused, AddFailed, fenceVars
<1>19. ASSUME NEW p \in Procs, NEW f \in Fences, AnyPollSignaled(p, f)
      PROVE  PreInv'
  BY <1>19, RoleAssumption DEF PreInv, MemInv, At, SigPCs, LockInv, TypeOK,
     IInv, AnyPollSignaled, Goto, Set, fenceVars
<1>20. ASSUME NEW p \in Procs, NEW f \in Fences, AnyPollCompleted(p, f)
      PROVE  PreInv'
  BY <1>20, RoleAssumption DEF PreInv, MemInv, At, SigPCs, LockInv, TypeOK,
     IInv, AnyPollCompleted, Goto, Set, Completed, fenceVars
<1>21. ASSUME NEW p \in Procs, NEW f \in Fences, AnyPollNext(p, f)
      PROVE  PreInv'
  BY <1>21, RoleAssumption DEF PreInv, MemInv, At, SigPCs, LockInv, TypeOK,
     IInv, AnyPollNext, fenceVars
<1>22. ASSUME NEW p \in Procs, NEW f \in Fences, AddCallbackFast(p, f)
      PROVE  PreInv'
  BY <1>22, RoleAssumption DEF PreInv, MemInv, At, SigPCs, LockInv, TypeOK,
     IInv, AddCallbackFast, Goto, CallsAdd, AddRefused, AddFailed, fenceVars
<1>23. ASSUME NEW p \in Procs, NEW f \in Fences, AddCallbackSlow(p, f)
      PROVE  PreInv'
  BY <1>23, RoleAssumption DEF PreInv, MemInv, At, SigPCs, LockInv, TypeOK,
     IInv, AddCallbackSlow, Goto, CallsAdd, fenceVars
<1>24. ASSUME NEW p \in Procs, NEW f \in Fences, AnyTestSignaled(p, f)
      PROVE  PreInv'
  BY <1>24, RoleAssumption DEF PreInv, MemInv, At, SigPCs, LockInv, TypeOK,
     IInv, AnyTestSignaled, Goto, fenceVars
<1>25. ASSUME NEW p \in Procs, NEW f \in Fences, AnyTestNext(p, f)
      PROVE  PreInv'
  BY <1>25, RoleAssumption DEF PreInv, MemInv, At, SigPCs, LockInv, TypeOK,
     IInv, AnyTestNext, fenceVars
<1>26. ASSUME NEW p \in Procs, NEW f \in Fences, AnyCleanup(p, f)
      PROVE  PreInv'
  BY <1>26, RoleAssumption DEF PreInv, MemInv, At, SigPCs, LockInv, TypeOK,
     IInv, AnyCleanup, RemoveCallback, Unlink, fenceVars
<1>27. ASSUME NEW p \in Procs, AnyPollNone(p)
      PROVE  PreInv'
  BY <1>27, RoleAssumption DEF PreInv, MemInv, At, SigPCs, LockInv, TypeOK,
     IInv, AnyPollNone, Goto, fenceVars
<1>28. ASSUME NEW p \in Procs, AnyAdded(p)
      PROVE  PreInv'
  BY <1>28, RoleAssumption DEF PreInv, MemInv, At, SigPCs, LockInv, TypeOK,
     IInv, AnyAdded, Goto, fenceVars
<1>29. ASSUME NEW p \in Procs, AnyPrepare(p)
      PROVE  PreInv'
  BY <1>29, RoleAssumption DEF PreInv, MemInv, At, SigPCs, LockInv, TypeOK,
     IInv, AnyPrepare, Goto, fenceVars
<1>30. ASSUME NEW p \in Procs, AnyTestNone(p)
      PROVE  PreInv'
  BY <1>30, RoleAssumption DEF PreInv, MemInv, At, SigPCs, LockInv, TypeOK,
     IInv, AnyTestNone, Goto, TaskState, fenceVars
<1>31. ASSUME NEW p \in Procs, AnyFree(p)
      PROVE  PreInv'
  BY <1>31, RoleAssumption DEF PreInv, MemInv, At, SigPCs, LockInv, TypeOK,
     IInv, AnyFree, Goto, fenceVars
<1>32. ASSUME NEW p \in Procs, NEW v \in Results, NEW r \in Results, AnySchedule(p, v, r)
      PROVE  PreInv'
  BY <1>32, RoleAssumption DEF PreInv, MemInv, At, SigPCs, LockInv, TypeOK,
     IInv, AnySchedule, Goto, Set, Slept, AfterSleep, fenceVars
<1>33. ASSUME NEW p \in Procs, Return(p)
      PROVE  PreInv'
  BY <1>33, RoleAssumption DEF PreInv, MemInv, At, SigPCs, LockInv, TypeOK,
     IInv, Return, Goto, fenceVars
<1>34. ASSUME NEW p \in Procs, NEW f \in Fences, NEW t \in CallTimeouts,
             NEW i \in BOOLEAN, WaitCall(p, f, t, i)
      PROVE  PreInv'
  BY <1>34, RoleAssumption DEF PreInv, MemInv, At, SigPCs, LockInv, TypeOK,
     IInv, WaitCall, Goto, fenceVars
<1>35. ASSUME NEW p \in Procs, NEW fs \in SUBSET Fences,
             NEW t \in CallTimeouts, NEW i \in BOOLEAN, WaitAnyCall(p, fs, t, i)
      PROVE  PreInv'
  BY <1>35, RoleAssumption DEF PreInv, MemInv, At, SigPCs, LockInv, TypeOK,
     IInv, WaitAnyCall, Goto, Set, fenceVars
<1>36. ASSUME NEW p \in Procs, NEW f \in Fences, ClientRemove(p, f)
      PROVE  PreInv'
  BY <1>36, RoleAssumption DEF PreInv, MemInv, At, SigPCs, LockInv, TypeOK,
     IInv, ClientRemove, Goto, Set, RemoveCallback, Unlink, RemoveAnswer,
     fenceVars
<1>37. ASSUME NEW p \in Procs, NEW f \in Fences, ClientPoll(p, f)
      PROVE  PreInv'
  BY <1>37, RoleAssumption DEF PreInv, MemInv, At, SigPCs, LockInv, TypeOK,
     IInv, ClientPoll, Goto, Completed, fenceVars
<1>38. ASSUME NEW p \in Procs, SpuriousWake(p)
      PROVE  PreInv'
  BY <1>38, RoleAssumption DEF PreInv, MemInv, At, SigPCs, LockInv, TypeOK,
     IInv, SpuriousWake, fenceVars
<1>39. QED
  BY <1>1, <1>2, <1>3, <1>4, <1>5, <1>6, <1>7, <1>8, <1>9, <1>10, <1>11, <1>12,
     <1>13, <1>14, <1>15, <1>16, <1>17, <1>18, <1>19, <1>20, <1>21, <1>22,
     <1>23, <1>24, <1>25, <1>26, <1>27, <1>28, <1>29, <1>30, <1>31, <1>32,
     <1>33, <1>34, <1>35, <1>36, <1>37, <1>38 DEF Next, Step, Call, SignalStep,
     WaitStep, AddStep, AnyStep

\* The step formula of RemoveDecides.
RemoveStep ==
  \A p \in Clients, f \in Fences :
    f \in mem[p] /\ f \notin mem'[p]
      => /\ rv'[p] = "pos" <=> f \notin ran[p]
         /\ p \notin cb_list'[f] \cup walk'[f]

\* Only dma_fence_remove_callback() takes a node from a client.
LEMMA RemoveLemma ==
  TypeOK /\ IInv /\ [Next]_vars => RemoveStep
<1> SUFFICES ASSUME TypeOK, IInv, [Next]_vars PROVE RemoveStep
  OBVIOUS
<1>1. CASE UNCHANGED vars
  BY <1>1 DEF RemoveStep, TypeOK, Procs, vars, fenceVars, procVars
<1>2. ASSUME NEW f \in Fences, HwComplete(f)
      PROVE  RemoveStep
  BY <1>2 DEF RemoveStep, TypeOK, Procs, HwComplete, fenceVars, procVars
<1>3. ASSUME NEW f \in Fences, IrqTake(f)
      PROVE  RemoveStep
  BY <1>3 DEF RemoveStep, TypeOK, Procs, IrqTake, Goto, fenceVars
<1>4. ASSUME NEW p \in Procs, SignalAgain(p)
      PROVE  RemoveStep
  BY <1>4 DEF RemoveStep, TypeOK, Procs, SignalAgain, Goto, fenceVars
<1>5. ASSUME NEW p \in Procs, SignalFirst(p)
      PROVE  RemoveStep
  BY <1>5 DEF RemoveStep, TypeOK, Procs, SignalFirst, Goto, BeginSignal,
     fenceVars
<1>6. ASSUME NEW p \in Procs, SignalStamp(p)
      PROVE  RemoveStep
  BY <1>6 DEF RemoveStep, TypeOK, Procs, SignalStamp, Goto, Detached, fenceVars
<1>7. ASSUME NEW p \in Procs, SignalUnlock(p)
      PROVE  RemoveStep
  BY <1>7 DEF RemoveStep, TypeOK, Procs, SignalUnlock, Goto, fenceVars
<1>8. ASSUME NEW p \in Procs, NEW q \in Procs, SignalCallback(p, q)
      PROVE  RemoveStep
  BY <1>8 DEF RemoveStep, TypeOK, Procs, SignalCallback, fenceVars
<1>9. ASSUME NEW p \in Procs, EnableSwSignaling(p)
      PROVE  RemoveStep
  BY <1>9 DEF RemoveStep, TypeOK, Procs, EnableSwSignaling, Goto, EnableSignal,
     fenceVars
<1>10. ASSUME NEW p \in Procs, EnableSwSignalingFails(p)
      PROVE  RemoveStep
  BY <1>10 DEF RemoveStep, TypeOK, Procs, EnableSwSignalingFails, Goto,
     EnableFails, MustEnable, BeginSignal, fenceVars
<1>11. ASSUME NEW p \in Procs, NEW low \in Results, DefaultWaitOut(p, low)
      PROVE  RemoveStep
  BY <1>11 DEF RemoveStep, TypeOK, Procs, DefaultWaitOut, IntOf, Goto, Set, WaitStart,
     fenceVars
<1>12. ASSUME NEW p \in Procs, DefaultWait(p)
      PROVE  RemoveStep
  BY <1>12 DEF RemoveStep, TypeOK, Procs, DefaultWait, Goto, Set, WaitStart,
     fenceVars
<1>13. ASSUME NEW p \in Procs, NEW r \in Results, Schedule(p, r)
      PROVE  RemoveStep
  BY <1>13 DEF RemoveStep, TypeOK, Procs, Schedule, Goto, Set, Slept, fenceVars
<1>14. ASSUME NEW p \in Procs, NEW r \in Results, RelockSleep(p, r)
      PROVE  RemoveStep
  BY <1>14 DEF RemoveStep, TypeOK, Procs, RelockSleep, Goto, Set, WaitOver,
     AfterSleep, fenceVars
<1>15. ASSUME NEW p \in Procs, NEW r \in Results, NEW low \in Results,
             RelockDone(p, r, low)
      PROVE  RemoveStep
  <2>1. p \notin Clients
    BY <1>15, RoleAssumption DEF IInv, RoleInv, At, SigPCs, RelockDone
  <2>2. QED
    BY <1>15, <2>1 DEF RemoveStep, TypeOK, Procs, RelockDone, IntOf, Unlink, Set
<1>16. ASSUME NEW p \in Procs, AddCallbackLate(p)
      PROVE  RemoveStep
  BY <1>16 DEF RemoveStep, TypeOK, Procs, AddCallbackLate, Goto, Recheck,
     AddRefused, AddFailed, fenceVars
<1>17. ASSUME NEW p \in Procs, AddCallbackLink(p)
      PROVE  RemoveStep
  BY <1>17 DEF RemoveStep, TypeOK, Procs, AddCallbackLink, Goto, Set, Recheck,
     EnableSignal, AddReturns, fenceVars
<1>18. ASSUME NEW p \in Procs, AddCallbackFails(p)
      PROVE  RemoveStep
  BY <1>18 DEF RemoveStep, TypeOK, Procs, AddCallbackFails, Goto, Recheck,
     EnableFails, BeginSignal, AddRefused, AddFailed, fenceVars
<1>19. ASSUME NEW p \in Procs, NEW f \in Fences, AnyPollSignaled(p, f)
      PROVE  RemoveStep
  BY <1>19 DEF RemoveStep, TypeOK, Procs, AnyPollSignaled, Goto, Set, fenceVars
<1>20. ASSUME NEW p \in Procs, NEW f \in Fences, AnyPollCompleted(p, f)
      PROVE  RemoveStep
  BY <1>20 DEF RemoveStep, TypeOK, Procs, AnyPollCompleted, Goto, Set,
     Completed, fenceVars
<1>21. ASSUME NEW p \in Procs, NEW f \in Fences, AnyPollNext(p, f)
      PROVE  RemoveStep
  BY <1>21 DEF RemoveStep, TypeOK, Procs, AnyPollNext, fenceVars
<1>22. ASSUME NEW p \in Procs, NEW f \in Fences, AddCallbackFast(p, f)
      PROVE  RemoveStep
  BY <1>22 DEF RemoveStep, TypeOK, Procs, AddCallbackFast, Goto, CallsAdd,
     AddRefused, AddFailed, fenceVars
<1>23. ASSUME NEW p \in Procs, NEW f \in Fences, AddCallbackSlow(p, f)
      PROVE  RemoveStep
  BY <1>23 DEF RemoveStep, TypeOK, Procs, AddCallbackSlow, Goto, CallsAdd,
     fenceVars
<1>24. ASSUME NEW p \in Procs, NEW f \in Fences, AnyTestSignaled(p, f)
      PROVE  RemoveStep
  BY <1>24 DEF RemoveStep, TypeOK, Procs, AnyTestSignaled, Goto, fenceVars
<1>25. ASSUME NEW p \in Procs, NEW f \in Fences, AnyTestNext(p, f)
      PROVE  RemoveStep
  BY <1>25 DEF RemoveStep, TypeOK, Procs, AnyTestNext, fenceVars
<1>26. ASSUME NEW p \in Procs, NEW f \in Fences, AnyCleanup(p, f)
      PROVE  RemoveStep
  BY <1>26 DEF RemoveStep, TypeOK, Procs, AnyCleanup, RemoveCallback, Unlink,
     fenceVars
<1>27. ASSUME NEW p \in Procs, AnyPollNone(p)
      PROVE  RemoveStep
  BY <1>27 DEF RemoveStep, TypeOK, Procs, AnyPollNone, Goto, fenceVars
<1>28. ASSUME NEW p \in Procs, AnyAdded(p)
      PROVE  RemoveStep
  BY <1>28 DEF RemoveStep, TypeOK, Procs, AnyAdded, Goto, fenceVars
<1>29. ASSUME NEW p \in Procs, AnyPrepare(p)
      PROVE  RemoveStep
  BY <1>29 DEF RemoveStep, TypeOK, Procs, AnyPrepare, Goto, fenceVars
<1>30. ASSUME NEW p \in Procs, AnyTestNone(p)
      PROVE  RemoveStep
  BY <1>30 DEF RemoveStep, TypeOK, Procs, AnyTestNone, Goto, TaskState,
     fenceVars
<1>31. ASSUME NEW p \in Procs, AnyFree(p)
      PROVE  RemoveStep
  <2>1. p \notin Clients
    BY <1>31, RoleAssumption DEF IInv, RoleInv, At, SigPCs, AnyFree
  <2>2. QED
    BY <1>31, <2>1 DEF RemoveStep, TypeOK, Procs, AnyFree
<1>32. ASSUME NEW p \in Procs, NEW v \in Results, NEW r \in Results, AnySchedule(p, v, r)
      PROVE  RemoveStep
  BY <1>32 DEF RemoveStep, TypeOK, Procs, AnySchedule, Goto, Set, Slept,
     AfterSleep, fenceVars
<1>33. ASSUME NEW p \in Procs, Return(p)
      PROVE  RemoveStep
  BY <1>33 DEF RemoveStep, TypeOK, Procs, Return, Goto, fenceVars
<1>34. ASSUME NEW p \in Procs, NEW f \in Fences, NEW t \in CallTimeouts,
             NEW i \in BOOLEAN, WaitCall(p, f, t, i)
      PROVE  RemoveStep
  BY <1>34 DEF RemoveStep, TypeOK, Procs, WaitCall, Goto, fenceVars
<1>35. ASSUME NEW p \in Procs, NEW fs \in SUBSET Fences,
             NEW t \in CallTimeouts, NEW i \in BOOLEAN, WaitAnyCall(p, fs, t, i)
      PROVE  RemoveStep
  BY <1>35 DEF RemoveStep, TypeOK, Procs, WaitAnyCall, Goto, Set, fenceVars
<1>36. ASSUME NEW p \in Procs, NEW f \in Fences, ClientRemove(p, f)
      PROVE  RemoveStep
  <2>1. Linked(p, f) <=> f \notin ran[p]
    BY <1>36 DEF IInv, NodeInv, ClientRemove
  <2>2. QED
    BY <1>36, <2>1 DEF RemoveStep, TypeOK, Procs, ClientRemove, RemoveCallback, Unlink,
       RemoveAnswer, Set
<1>37. ASSUME NEW p \in Procs, NEW f \in Fences, ClientPoll(p, f)
      PROVE  RemoveStep
  BY <1>37 DEF RemoveStep, TypeOK, Procs, ClientPoll, Goto, Completed,
     fenceVars
<1>38. ASSUME NEW p \in Procs, SpuriousWake(p)
      PROVE  RemoveStep
  BY <1>38 DEF RemoveStep, TypeOK, Procs, SpuriousWake, fenceVars
<1>39. QED
  BY <1>1, <1>2, <1>3, <1>4, <1>5, <1>6, <1>7, <1>8, <1>9, <1>10, <1>11, <1>12,
     <1>13, <1>14, <1>15, <1>16, <1>17, <1>18, <1>19, <1>20, <1>21, <1>22,
     <1>23, <1>24, <1>25, <1>26, <1>27, <1>28, <1>29, <1>30, <1>31, <1>32,
     <1>33, <1>34, <1>35, <1>36, <1>37, <1>38 DEF Next, Step, Call, SignalStep,
     WaitStep, AddStep, AnyStep

----------------------------------------------------------------------------
\* The initial state satisfies all of it.
LEMMA InitInv == Init => TypeOK /\ IInv
<1> SUFFICES ASSUME Init PROVE TypeOK /\ IInv
  OBVIOUS
<1>1. TypeOK
  BY Labels DEF Init, TypeOK
<1>2. LockInv /\ ListInv /\ RoleInv
  BY RoleAssumption DEF Init, LockInv, ListInv, RoleInv, At, SigPCs, Procs
<1>3. NodeInv /\ MemInv /\ WakeInv
  BY RoleAssumption DEF Init, NodeInv, MemInv, WakeInv, Linked, At, SigPCs, Procs
<1>4. ResultInv /\ PreInv
  BY DEF Init, ResultInv, PreInv, At, SigPCs, Procs
<1>5. QED
  BY <1>1, <1>2, <1>3, <1>4 DEF IInv

\* The types of the fence and of every process are kept.
THEOREM TypeCorrect == Spec => []TypeOK
<1>1. Init => TypeOK
  BY InitInv
<1>2. QED
  BY <1>1, TypeInductive, PTL DEF Spec

\* The inductive invariant: which nodes are linked and live at each point of
\* a call, and what the lock protects.
THEOREM Inductive == Spec => [](TypeOK /\ IInv)
<1>1. TypeOK /\ IInv /\ [Next]_vars => IInv'
  BY LockInductive, ListInductive, RoleInductive, NodeInductive, MemInductive,
     WakeInductive, ResultInductive, PreInductive DEF IInv
<1>2. QED
  BY InitInv, TypeInductive, <1>1, PTL DEF Spec

\* No node is freed while the signaller can reach it, whichever way the wait
\* or the client that owns it ends, and no callback is called twice.
THEOREM NodesLiveTheorem == Spec => []NodesLive
<1>1. IInv => NodesLive
  BY DEF IInv, NodeInv, NodesLive
<1>2. QED
  BY <1>1, Inductive, PTL

\* Nothing is linked through the head that the timestamp has overwritten.
THEOREM HeadTheorem == Spec => []HeadNotClobbered
<1>1. IInv => HeadNotClobbered
  BY DEF IInv, ListInv, HeadNotClobbered
<1>2. QED
  BY <1>1, Inductive, PTL

\* Once a fence is signalled and its lock is free, every callback added and not
\* removed has been called.
THEOREM CallbackTheorem == Spec => []NoCallbackLost
<1>1. IInv => NoCallbackLost
  <2> SUFFICES ASSUME IInv, NEW p \in Procs, NEW f \in Fences,
                      f \in mem[p], pc[p] # "cleanup", signaled[f], lock[f] = None
               PROVE  f \in ran[p]
    BY DEF NoCallbackLost
  <2>1. ~Linked(p, f)
    BY DEF IInv, ListInv, Linked
  <2>2. QED
    BY <2>1 DEF IInv, NodeInv
<1>2. QED
  BY <1>1, Inductive, PTL

\* A sleeping waiter with a signalled fence is about to be woken: no wake-up
\* falls between the test of the flag and the sleep.
THEOREM WakeupTheorem == Spec => []NoLostWakeup
<1>1. IInv => NoLostWakeup
  BY DEF IInv, WakeInv, NoLostWakeup
<1>2. QED
  BY <1>1, Inductive, PTL

\* A wait reports success only for one of its fences, and a signalled one.
THEOREM ResultTheorem == Spec => []WaitResultSound
<1>1. IInv => WaitResultSound
  BY DEF IInv, ResultInv, WaitResultSound, At, SigPCs
<1>2. QED
  BY <1>1, Inductive, PTL

\* A wait that begins with a signalled fence reports success, if no caller
\* passes a timeout that does not fit an int.
THEOREM NoTimeoutTheorem ==
  ASSUME "long" \notin CallTimeouts
  PROVE  Spec => []SignalledNeverTimesOut
<1>1. TypeOK /\ IInv => SignalledNeverTimesOut
  <2> SUFFICES ASSUME TypeOK, IInv PROVE SignalledNeverTimesOut
    OBVIOUS
  <2>1. \A p \in Waiters : tmo[p] # "long"
    BY DEF TypeOK, Procs
  <2>2. QED
    BY <2>1 DEF IInv, PreInv, SignalledNeverTimesOut, At, SigPCs
<1>2. QED
  BY <1>1, Inductive, PTL

\* dma_fence_remove_callback() says TRUE exactly when the callback has not been
\* called, and leaves the node on no list.
THEOREM RemoveTheorem == Spec => RemoveDecides
<1>1. TypeOK /\ IInv /\ [Next]_vars => [RemoveStep]_vars
  BY RemoveLemma
<1>2. QED
  BY <1>1, Inductive, PTL DEF Spec, RemoveDecides, RemoveStep
=============================================================================

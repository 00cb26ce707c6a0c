------------------------------ MODULE SyncFile ------------------------------
(***************************************************************************)
(* The merging of fences, __dma_fence_unwrap_merge() in                    *)
(* drivers/dma-buf/dma-fence-unwrap.c, the sync_file that userspace polls, *)
(* drivers/dma-buf/sync_file.c, and the array that both end in: a task     *)
(* merges two sync_files while their fences signal, others poll the result *)
(* or take its fence out, and the file is closed.  Instead of a merge the  *)
(* array may be the one of amdgpu_vmid_grab_idle(), which signals with the *)
(* first of its fences.                                                    *)
(*                                                                         *)
(* Data.  A fence is a number; within a context the numbers are the order  *)
(* of emission and of signalling.  What a container unwraps to is a        *)
(* sequence of fences: that dma_fence_chain_walk() leaves out links which  *)
(* are signalled already makes no difference, because the merge leaves out *)
(* each of their fences as well.  The containers are kept by their files   *)
(* while they are merged.                                                  *)
(***************************************************************************)
EXTENDS DmaFenceArray, DmaFenceSeqno

CONSTANTS
  Context,     \* Context[f]: its context
  FirstSeqno,  \* what the counter of a context starts from
  Inputs,      \* what two containers may unwrap to: pairs of sequences
  Pollers,     \* tasks in sync_file_poll()
  Clients      \* tasks that call sync_file_get_fence()

ASSUME MergeAssumption ==
  /\ Fences \subseteq 1 .. SignBit
  /\ FirstSeqno \in Nat /\ Inputs \subseteq [1 .. 2 -> Seq(Fences)]
  /\ IsFiniteSet(Clients)

VARIABLES
  \* the merge
  mpc,         \* control
  inp,         \* the two containers
  asked,       \* history: the fences they hold
  pos,         \* pos[i]: the position of iter[i]; past the end, fences[i] is NULL
  i, sel,      \* i and sel; sel = 0: tmp is NULL
  size,        \* the length of the array that was allocated
  out,         \* the array
  \* the file
  res,         \* what it holds
  open,        \* 1 while it is open
  flag,        \* POLL_ENABLED
  node,        \* cb.node is on the list of the fence
  \* the tasks
  pc, cpc

localVars == <<inp, pos, i, sel, size, out>>
mergeVars == <<mpc, asked, localVars>>
fileVars  == <<res, open, flag, node>>
taskVars  == <<pc, cpc>>
vars == <<arrayVars, mergeVars, fileVars, taskVars>>

Seqno(f) == (FirstSeqno + f) % (2 * SignBit)

Init ==
  /\ ArrayInit
  /\ mpc = "count" /\ inp \in Inputs
  /\ asked = {inp[1][k] : k \in DOMAIN inp[1]} \cup {inp[2][k] : k \in DOMAIN inp[2]}
  /\ pos = <<1, 1>> /\ i = 1 /\ sel = 0 /\ size = 0 /\ out = <<>>
  /\ res = [kind |-> "none", fence |-> 0] /\ open = 0
  /\ flag = FALSE /\ node = FALSE
  /\ pc = [p \in Pollers |-> "idle"] /\ cpc = [c \in Clients |-> "idle"]

----------------------------------------------------------------------------
(* __dma_fence_unwrap_merge()                                              *)

AtEnd(k) == pos[k] > Len(inp[k])
At(k)    == inp[k][pos[k]]     \* fences[k]

\* The first loop counts the fences that are not signalled.
CountNext ==
  /\ mpc = "count" /\ i <= 2 /\ AtEnd(i) /\ i' = i + 1
  /\ UNCHANGED <<mpc, asked, inp, pos, sel, size, out, arrayVars, fileVars, taskVars>>

CountFence ==
  /\ mpc = "count" /\ i <= 2 /\ ~AtEnd(i)
  /\ size' = IF At(i) \in sig THEN size ELSE size + 1
  /\ pos' = [pos EXCEPT ![i] = @ + 1]
  /\ UNCHANGED <<mpc, asked, inp, i, sel, out, arrayVars, fileVars, taskVars>>

\* The call returns, and the new sync_file gets its fence.
Result(kind, f) ==
  /\ res' = [kind |-> kind, fence |-> f] /\ open' = IF kind = "null" THEN 0 ELSE 1
  /\ mpc' = "done"
  /\ inp' = <<>> /\ pos' = <<>> /\ i' = 0 /\ sel' = 0 /\ size' = 0 /\ out' = <<>>
  /\ UNCHANGED <<asked, flag, node>>

CountIsZero ==
  /\ mpc = "count" /\ i > 2 /\ size = 0 /\ Result("stub", 0)
  /\ UNCHANGED <<arrayVars, taskVars>>

\* The allocation, which may fail, and the first fences again
MergeBegin ==
  /\ mpc = "count" /\ i > 2 /\ size > 0
  /\ mpc' = "merge" /\ pos' = <<1, 1>> /\ i' = 1
  /\ UNCHANGED <<asked, inp, sel, size, out, arrayVars, fileVars, taskVars>>

MergeNoMemory ==
  /\ mpc = "count" /\ i > 2 /\ size > 0 /\ Result("null", 0)
  /\ UNCHANGED <<arrayVars, taskVars>>

\* A round of the inner loop: fences[i] is signalled and is left out,
MergeSkip ==
  /\ mpc = "merge" /\ i <= 2 /\ ~AtEnd(i) /\ At(i) \in sig
  /\ pos' = [pos EXCEPT ![i] = @ + 1]
  /\ UNCHANGED <<mpc, asked, inp, i, sel, size, out, arrayVars, fileVars, taskVars>>

\* the container is at its end,
MergeNext ==
  /\ mpc = "merge" /\ i <= 2 /\ AtEnd(i) /\ i' = i + 1
  /\ UNCHANGED <<mpc, asked, inp, pos, sel, size, out, arrayVars, fileVars, taskVars>>

Compares == mpc = "merge" /\ i <= 2 /\ ~AtEnd(i) /\ At(i) \notin sig

\* the fence is selected, or is of a later context than the one selected,
MergeSelect ==
  /\ Compares /\ (sel # 0 => Context[At(sel)] > Context[At(i)])
  /\ sel' = i /\ i' = i + 1
  /\ UNCHANGED <<mpc, asked, inp, pos, size, out, arrayVars, fileVars, taskVars>>

MergeKeep ==
  /\ Compares /\ sel # 0 /\ Context[At(sel)] < Context[At(i)]
  /\ i' = i + 1
  /\ UNCHANGED <<mpc, asked, inp, pos, sel, size, out, arrayVars, fileVars, taskVars>>

\* or both are of one context, and the earlier one is left out: restart.
\* Mutant: the fence selected is left out.
DroppedSelected == sel
Dropped == IF IsLater(Seqno(At(sel)), Seqno(At(i))) THEN i ELSE sel

MergeDrop ==
  /\ Compares /\ sel # 0 /\ Context[At(sel)] = Context[At(i)]
  /\ pos' = [pos EXCEPT ![Dropped] = @ + 1] /\ i' = 1 /\ sel' = 0
  /\ UNCHANGED <<mpc, asked, inp, size, out, arrayVars, fileVars, taskVars>>

\* The end of the round: the fence selected goes into the array.
MergeOut ==
  /\ mpc = "merge" /\ i > 2 /\ sel # 0
  /\ out' = Append(out, At(sel)) /\ ref' = [ref EXCEPT ![At(sel)] = @ + 1]
  /\ pos' = [pos EXCEPT ![sel] = @ + 1] /\ i' = 1 /\ sel' = 0
  /\ UNCHANGED <<mpc, asked, inp, size, sig, array, any, pending, aref, asig, enabled, en, slow,
                 cb, work, fileVars, taskVars>>

MergeEnds == mpc = "merge" /\ i > 2 /\ sel = 0

MergeStub ==
  /\ MergeEnds /\ Len(out) = 0 /\ Result("stub", 0)
  /\ UNCHANGED <<arrayVars, taskVars>>

MergeOne ==
  /\ MergeEnds /\ Len(out) = 1 /\ Result("fence", out[1])
  /\ UNCHANGED <<arrayVars, taskVars>>

MergeArray ==
  /\ MergeEnds /\ Len(out) > 1 /\ Result("array", 0)
  /\ Create(out, "all")
  /\ UNCHANGED <<ref, taskVars>>

\* amdgpu_vmid_grab_idle(): no VMID is idle; the array signals when one may be.
VmidArray ==
  /\ mpc = "count" /\ i = 1 /\ pos = <<1, 1>>
  /\ Result("vmid", 0) /\ Create(inp[1], "any")
  /\ ref' = [f \in Fences |-> ref[f] + Count(inp[1], f)]
  /\ UNCHANGED taskVars

----------------------------------------------------------------------------
(* The fence of the file                                                   *)

HasArray == res.kind \in {"array", "vmid"}

PutResult ==
  \/ /\ res.kind = "stub" /\ UNCHANGED <<ref, aref>>
  \/ /\ res.kind = "fence" /\ ref' = [ref EXCEPT ![res.fence] = @ - 1] /\ UNCHANGED aref
  \/ /\ HasArray /\ PutArray

\* DMA_FENCE_FLAG_SIGNALED_BIT of the fence
FlagSet ==
  \/ res.kind = "stub"
  \/ res.kind = "fence" /\ res.fence \in sig
  \/ HasArray /\ asig

\* fence_check_cb_func(), wake_up_all(): tasks that sleep look again.
Woken == [p \in Pollers |-> IF pc[p] = "sleep" THEN "check" ELSE pc[p]]

\* The signaller of the fence takes the node off the list and calls it.
CallNode == node' = FALSE /\ pc' = IF node THEN Woken ELSE pc

\* The work of f ends, in a context in the order of emission.
Signal(f) ==
  /\ \A g \in Fences : Context[g] = Context[f] /\ g < f => g \in sig
  /\ SignalFence(f)
  /\ IF res.kind = "fence" /\ res.fence = f THEN CallNode ELSE UNCHANGED <<node, pc>>
  /\ UNCHANGED <<mergeVars, res, open, flag, cpc>>

Callback ==
  /\ \E k \in Slots : CallbackLast(k) \/ CallbackCounts(k) \/ CallbackPut(k)
  /\ UNCHANGED <<mergeVars, fileVars, taskVars>>

Work ==
  \/ WorkSignal /\ CallNode /\ UNCHANGED <<mergeVars, res, open, flag, cpc>>
  \/ WorkPut /\ UNCHANGED <<mergeVars, fileVars, taskVars>>

EnableLoop ==
  /\ EnableTest \/ EnableAdd \/ EnableSkip
  /\ UNCHANGED <<mergeVars, fileVars, taskVars>>

----------------------------------------------------------------------------
(* sync_file_poll() and sync_file_release()                                *)

Goto(p, l) == pc' = [pc EXCEPT ![p] = l]

PollStart(p) ==
  /\ open = 1 /\ res.kind # "vmid" /\ pc[p] = "idle" /\ Goto(p, "check")
  /\ UNCHANGED <<arrayVars, mergeVars, fileVars, cpc>>

\* The first call of all adds the callback.
PollFirst(p) ==
  /\ pc[p] = "check" /\ ~node /\ ~flag
  /\ flag' = TRUE /\ Goto(p, "add")
  /\ UNCHANGED <<arrayVars, mergeVars, res, open, node, cpc>>

PollOther(p) ==
  /\ pc[p] = "check" /\ (node \/ flag) /\ Goto(p, "test")
  /\ UNCHANGED <<arrayVars, mergeVars, fileVars, cpc>>

\* dma_fence_add_callback(): the fence is signalled, and the tasks that trust
\* in the callback are woken instead,
WokenAnd(p, l) == [Woken EXCEPT ![p] = l]

PollAddFails(p) ==
  /\ pc[p] = "add" /\ FlagSet /\ pc' = WokenAnd(p, "test")
  /\ UNCHANGED <<arrayVars, mergeVars, fileVars, cpc>>

\* or it is not, and signalling is enabled already,
PollAdd(p) ==
  /\ pc[p] = "add" /\ ~FlagSet /\ (HasArray => enabled /\ en = 0)
  /\ node' = TRUE /\ Goto(p, "test")
  /\ UNCHANGED <<arrayVars, mergeVars, res, open, flag, cpc>>

\* or has to be.
PollEnable(p) ==
  /\ pc[p] = "add" /\ HasArray /\ EnableBegin /\ Goto(p, "enable")
  /\ UNCHANGED <<mergeVars, fileVars, cpc>>

PollEnabled(p) ==
  /\ pc[p] = "enable" /\ EnableEnd /\ node' = TRUE /\ Goto(p, "test")
  /\ UNCHANGED <<mergeVars, res, open, flag, cpc>>

PollEnableFails(p) ==
  /\ pc[p] = "enable" /\ EnableLast /\ pc' = WokenAnd(p, "test")
  /\ UNCHANGED <<mergeVars, fileVars, cpc>>

\* dma_fence_is_signaled()
PollReady(p) ==
  /\ pc[p] = "test" /\ FlagSet /\ Goto(p, "idle")
  /\ UNCHANGED <<arrayVars, mergeVars, fileVars, cpc>>

PollSignals(p) ==
  /\ pc[p] = "test" /\ HasArray /\ Poll
  /\ node' = FALSE /\ pc' = IF node THEN WokenAnd(p, "idle") ELSE [pc EXCEPT ![p] = "idle"]
  /\ UNCHANGED <<mergeVars, res, open, flag, cpc>>

PollSleep(p) ==
  /\ pc[p] = "test" /\ ~FlagSet /\ ~(HasArray /\ pending <= 0) /\ Goto(p, "sleep")
  /\ UNCHANGED <<arrayVars, mergeVars, fileVars, cpc>>

\* sync_file_release(), when nobody uses the file
Close ==
  /\ open = 1 /\ \A p \in Pollers : pc[p] = "idle"
  /\ HasArray => en = 0
  /\ open' = 0 /\ node' = FALSE /\ PutResult
  /\ UNCHANGED <<sig, array, any, pending, asig, enabled, en, slow, cb, work,
                 mergeVars, res, flag, taskVars>>

----------------------------------------------------------------------------
(* A client takes the fence out of the file, enables signalling and drops it *)

ClientGet(c) ==
  /\ open = 1 /\ HasArray /\ cpc[c] = "idle"
  /\ aref' = aref + 1 /\ cpc' = [cpc EXCEPT ![c] = "got"]
  /\ UNCHANGED <<sig, ref, array, any, pending, asig, enabled, en, slow, cb, work,
                 mergeVars, fileVars, pc>>

ClientEnable(c) ==
  /\ cpc[c] = "got" /\ EnableBegin /\ cpc' = [cpc EXCEPT ![c] = "enable"]
  /\ UNCHANGED <<mergeVars, fileVars, pc>>

ClientEnabled(c) ==
  /\ cpc[c] = "enable" /\ EnableEnd /\ cpc' = [cpc EXCEPT ![c] = "got"]
  /\ UNCHANGED <<mergeVars, fileVars, pc>>

ClientEnableFails(c) ==
  /\ cpc[c] = "enable" /\ EnableLast /\ cpc' = [cpc EXCEPT ![c] = "got"]
  /\ CallNode
  /\ UNCHANGED <<mergeVars, res, open, flag>>

ClientPut(c) ==
  /\ cpc[c] = "got" /\ PutArray /\ cpc' = [cpc EXCEPT ![c] = "idle"]
  /\ UNCHANGED <<sig, array, any, pending, asig, enabled, en, slow, cb, work,
                 mergeVars, fileVars, pc>>

----------------------------------------------------------------------------
Merge ==
  \/ CountNext \/ CountFence \/ CountIsZero \/ MergeBegin \/ MergeNoMemory
  \/ MergeSkip \/ MergeNext \/ MergeSelect \/ MergeKeep \/ MergeDrop \/ MergeOut
  \/ MergeStub \/ MergeOne \/ MergeArray \/ VmidArray

PollStep(p) ==
  \/ PollFirst(p) \/ PollOther(p) \/ PollAddFails(p) \/ PollAdd(p) \/ PollEnable(p)
  \/ PollEnabled(p) \/ PollEnableFails(p) \/ PollReady(p) \/ PollSignals(p) \/ PollSleep(p)

ClientStep(c) == ClientEnabled(c) \/ ClientEnableFails(c)

Next ==
  \/ \E f \in Fences : Signal(f)
  \/ Merge \/ Callback \/ Work \/ EnableLoop \/ Close
  \/ \E p \in Pollers : PollStart(p) \/ PollStep(p)
  \/ \E c \in Clients : ClientGet(c) \/ ClientEnable(c) \/ ClientStep(c) \/ ClientPut(c)

Spec == Init /\ [][Next]_vars

\* The hardware finishes its work; the interrupt that signals a fence calls all
\* its callbacks; tasks inside a call run.
FairSpec ==
  /\ Spec
  /\ \A f \in Fences : WF_vars(Signal(f))
  /\ WF_vars(Merge) /\ WF_vars(Callback) /\ WF_vars(Work) /\ WF_vars(EnableLoop)
  /\ \A p \in Pollers : WF_vars(PollStep(p))
  /\ \A c \in Clients : WF_vars(ClientStep(c))

----------------------------------------------------------------------------
\* What the fence of the file stands for.
Covers ==
  IF HasArray THEN {array[k] : k \in Slots}
  ELSE IF res.kind = "fence" THEN {res.fence} ELSE {}

\* The merge stays inside the array that it allocated for the fences counted
\* before, while fences signal between the two passes; and its result stands
\* for every fence of the inputs that is not signalled: for the fence itself,
\* or for one emitted later in its context.
MergeSound ==
  /\ mpc = "merge" => Len(out) <= size
  /\ res.kind \in {"stub", "fence", "array"} =>
       \A f \in asked :
         f \in sig \/ \E g \in Covers : Context[g] = Context[f] /\ g >= f

\* The array is signalled only when all its fences are, or with signal_on_any
\* when one is, however callbacks, enable_signaling() and polls interleave.
ArraySignalSound ==
  asig => IF any = "any" THEN \E k \in Slots : array[k] \in sig
          ELSE \A k \in Slots : array[k] \in sig

Bit(b) == IF b THEN 1 ELSE 0

\* The array has exactly the references that the file, the clients, the
\* callbacks that are linked or running and the irq_work own, and its fences
\* those that the array owns: nothing is freed under a callback, nothing leaks.
RefsExact ==
  /\ HasArray => aref =
        open + Cardinality({c \in Clients : cpc[c] # "idle"})
      + Cardinality({k \in Slots : cb[k] \in {"linked", "called", "put"}})
      + slow + Bit(work # "idle")
  /\ \A f \in Fences : ref[f] =
       Count(out, f) + (IF Freed THEN 0 ELSE Count(array, f))
     + Bit(open = 1 /\ res.kind = "fence" /\ res.fence = f)

\* The merge returns; a task that sleeps in poll is woken; and an array with
\* signalling enabled is signalled, whoever still refers to it.
CallsReturn ==
  /\ <>(mpc = "done")
  /\ enabled ~> asig
  /\ \A p \in Pollers : (pc[p] # "idle") ~> (pc[p] = "idle")
============================================================================

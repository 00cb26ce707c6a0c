--------------------------- MODULE SyncFileProofs ---------------------------
(***************************************************************************)
(* Proofs about the merging of fences and about the fence array, for any   *)
(* containers, any number of fences, contexts, pollers and clients.        *)
(*                                                                         *)
(* IInv is inductive.  Of the merge it says what the inputs still hold and *)
(* how many fences the rest of the loop can put into the array; of the     *)
(* array, which of its fences num_pending still counts; and of the calls,  *)
(* who keeps the array while its callbacks are being added.                *)
(***************************************************************************)
EXTENDS SyncFile, Counting, TLAPS

CbStates == {"none", "linked", "called", "put", "done"}

TypeOK ==
  /\ sig \subseteq Fences /\ ref \in [Fences -> Int]
  /\ array \in Seq(Fences) /\ any \in {"any", "all"}
  /\ pending \in Int /\ aref \in Int /\ en \in Nat /\ slow \in {0, 1}
  /\ cb \in [Slots -> CbStates]
  /\ asked \subseteq Fences /\ out \in Seq(Fences) /\ open \in {0, 1}
  /\ pc \in [Pollers -> {"idle", "check", "add", "enable", "test", "sleep"}]
  /\ cpc \in [Clients -> {"idle", "got", "enable"}]

\* The local variables of the merge.
MergeType ==
  mpc # "done" =>
    /\ inp \in [1 .. 2 -> Seq(Fences)] /\ pos \in [1 .. 2 -> Nat]
    /\ \A k \in 1 .. 2 : pos[k] \in 1 .. Len(inp[k]) + 1
    /\ i \in 1 .. 3 /\ sel \in 0 .. 2 /\ size \in Nat

\* Within a context the fences signal in the order of emission.
Ordered == \A f \in sig, g \in Fences : Context[g] = Context[f] /\ g < f => g \in sig

\* What is not there before the merge is over, and without an array.
Phases ==
  /\ mpc \in {"count", "merge", "done"}
  /\ mpc # "done" => res.kind = "none" /\ open = 0
  /\ mpc # "merge" => out = <<>>
  /\ mpc = "done" => res.kind \in {"null", "stub", "fence", "array", "vmid"}
  /\ res.kind = "fence" => res.fence \in Fences
  /\ open = 0 => \A p \in Pollers : pc[p] = "idle"
  /\ work \in {"idle", "queued", "put"}

NoArray ==
  ~HasArray => /\ array = <<>> /\ aref = 0 /\ en = 0 /\ slow = 0 /\ work = "idle"
               /\ asig = FALSE /\ enabled = FALSE /\ \A c \in Clients : cpc[c] = "idle"

IsAt(k, j) == k \in 1 .. 2 /\ j \in DOMAIN inp[k]

\* The fence selected is one of the container before i; without one, the
\* containers before i are at their end.
Selected ==
  /\ mpc = "count" => sel = 0 /\ \A k \in 1 .. 2 : k < i => AtEnd(k)
  /\ mpc = "merge" =>
       /\ sel # 0 => sel < i /\ ~AtEnd(sel)
       /\ sel = 0 => \A k \in 1 .. 2 : k < i => AtEnd(k)

\* The fences counted so far and not signalled since, and those that may still
\* go into the array.
Counted(k) == {j \in DOMAIN inp[k] : j < pos[k] /\ inp[k][j] \notin sig}
Left(k) ==
  {j \in DOMAIN inp[k] : j >= pos[k] /\ (inp[k][j] \in sig => k = sel /\ j = pos[k])}

Fits ==
  /\ mpc = "count" => Cardinality(Counted(1)) + Cardinality(Counted(2)) <= size
  /\ mpc = "merge" => Len(out) + Cardinality(Left(1)) + Cardinality(Left(2)) <= size

\* g is f or was emitted later in its context.
Stands(g, f) == Context[g] = Context[f] /\ g >= f

AskedIn == mpc # "done" => \A f \in asked : \E k \in 1 .. 2 : \E j \in DOMAIN inp[k] : inp[k][j] = f

InOut(f)   == \E n \in DOMAIN out : Stands(out[n], f)
Waiting(f) == \E k \in 1 .. 2 : \E j \in DOMAIN inp[k] : j >= pos[k] /\ Stands(inp[k][j], f)

\* The second part of MergeSound
ResultSound ==
  res.kind \in {"stub", "fence", "array"} =>
    \A f \in asked : f \in sig \/ \E g \in Covers : Context[g] = Context[f] /\ g >= f

Covered == mpc = "merge" => \A f \in asked : f \in sig \/ InOut(f) \/ Waiting(f)

----------------------------------------------------------------------------
(* The array                                                               *)

\* The loop of enable_signaling() is past slot k.
Passed(k) == enabled /\ (en = 0 \/ k < en)

\* num_pending counts slot k.
Pends(k) == cb[k] \in {"linked", "called"} \/ (cb[k] = "none" /\ ~Passed(k))

PendingSlots == {k \in Slots : Pends(k)}

EnableInv ==
  /\ en \in 0 .. Len(array) + 1 /\ (en # 0 => enabled) /\ (slow = 1 => en \in Slots)
  /\ \A k \in Slots : ~enabled \/ (en # 0 /\ k >= en) => cb[k] = "none"

\* A callback was called, or not added, because its fence is signalled.
CalledInv ==
  /\ \A k \in Slots : cb[k] \in {"called", "put", "done"} => array[k] \in sig
  /\ any = "all" => \A k \in Slots : cb[k] = "none" /\ Passed(k) => array[k] \in sig

PendingInv ==
  HasArray => /\ any = "all" => pending = Cardinality(PendingSlots)
              /\ any = "any" /\ pending <= 0 => \E k \in Slots : array[k] \in sig
              /\ asig \/ work # "idle" => pending <= 0

\* While callbacks are added, a call keeps the array.
Kept == en # 0 => (\E p \in Pollers : pc[p] = "enable") \/ (\E c \in Clients : cpc[c] = "enable")

IInv ==
  /\ TypeOK /\ MergeType /\ Ordered /\ Phases /\ NoArray
  /\ Selected /\ Fits /\ AskedIn /\ Covered /\ ResultSound
  /\ EnableInv /\ CalledInv /\ PendingInv /\ Kept /\ RefsExact

\* What is visible of the merge and of the fences to the rest.
Others == UNCHANGED <<mpc, asked, inp, pos, i, sel, size, out, sig, res, array>>

\* A step that is neither one of the merge nor the signalling of a fence
\* leaves the merge, its result and the fences alone.
LEMMA OthersStep ==
  ASSUME Next, ~Merge, ~\E f \in Fences : Signal(f)
  PROVE  Others
<1> USE DEF Others
<1>1. ASSUME NEW k \in Slots, CallbackLast(k), UNCHANGED <<mergeVars, fileVars, taskVars>>
      PROVE  Others
  BY <1>1 DEF CallbackLast, arrayVars, mergeVars, localVars, fileVars, taskVars
<1>2. ASSUME NEW k \in Slots, CallbackCounts(k), UNCHANGED <<mergeVars, fileVars, taskVars>>
      PROVE  Others
  BY <1>2 DEF CallbackCounts, arrayVars, mergeVars, localVars, fileVars, taskVars
<1>3. ASSUME NEW k \in Slots, CallbackPut(k), UNCHANGED <<mergeVars, fileVars, taskVars>>
      PROVE  Others
  BY <1>3 DEF CallbackPut, PutArray, arrayVars, mergeVars, localVars, fileVars, taskVars
<1>4. ASSUME WorkSignal, CallNode, UNCHANGED <<mergeVars, res, open, flag, cpc>>
      PROVE  Others
  BY <1>4 DEF WorkSignal, CallNode, Woken, arrayVars, mergeVars, localVars, fileVars, taskVars
<1>5. ASSUME WorkPut, UNCHANGED <<mergeVars, fileVars, taskVars>>
      PROVE  Others
  BY <1>5 DEF WorkPut, PutArray, arrayVars, mergeVars, localVars, fileVars, taskVars
<1>6. ASSUME EnableTest, UNCHANGED <<mergeVars, fileVars, taskVars>>
      PROVE  Others
  BY <1>6 DEF EnableTest, EnableRefs, arrayVars, mergeVars, localVars, fileVars, taskVars
<1>7. ASSUME EnableAdd, UNCHANGED <<mergeVars, fileVars, taskVars>>
      PROVE  Others
  BY <1>7 DEF EnableAdd, arrayVars, mergeVars, localVars, fileVars, taskVars
<1>8. ASSUME EnableSkip, UNCHANGED <<mergeVars, fileVars, taskVars>>
      PROVE  Others
  BY <1>8 DEF EnableSkip, AddFails, TakesToZero, PutUnused, arrayVars, mergeVars, localVars, fileVars, taskVars
<1>9. ASSUME Close
      PROVE  Others
  BY <1>9 DEF Close, PutResult, PutArray, arrayVars, mergeVars, localVars, fileVars, taskVars
<1>10. ASSUME NEW p \in Pollers, PollStart(p)
      PROVE  Others
  BY <1>10 DEF PollStart, Goto, arrayVars, mergeVars, localVars, fileVars, taskVars
<1>11. ASSUME NEW p \in Pollers, PollFirst(p)
      PROVE  Others
  BY <1>11 DEF PollFirst, Goto, arrayVars, mergeVars, localVars, fileVars, taskVars
<1>12. ASSUME NEW p \in Pollers, PollOther(p)
      PROVE  Others
  BY <1>12 DEF PollOther, Goto, arrayVars, mergeVars, localVars, fileVars, taskVars
<1>13. ASSUME NEW p \in Pollers, PollAddFails(p)
      PROVE  Others
  BY <1>13 DEF PollAddFails, WokenAnd, Woken, arrayVars, mergeVars, localVars, fileVars, taskVars
<1>14. ASSUME NEW p \in Pollers, PollAdd(p)
      PROVE  Others
  BY <1>14 DEF PollAdd, Goto, arrayVars, mergeVars, localVars, fileVars, taskVars
<1>15. ASSUME NEW p \in Pollers, PollEnable(p)
      PROVE  Others
  BY <1>15 DEF PollEnable, Goto, EnableBegin, arrayVars, mergeVars, localVars, fileVars, taskVars
<1>16. ASSUME NEW p \in Pollers, PollEnabled(p)
      PROVE  Others
  BY <1>16 DEF PollEnabled, Goto, EnableEnd, arrayVars, mergeVars, localVars, fileVars, taskVars
<1>17. ASSUME NEW p \in Pollers, PollEnableFails(p)
      PROVE  Others
  BY <1>17 DEF PollEnableFails, EnableLast, AddFails, TakesToZero, PutUnused, WokenAnd, Woken, arrayVars, mergeVars, localVars, fileVars, taskVars
<1>18. ASSUME NEW p \in Pollers, PollReady(p)
      PROVE  Others
  BY <1>18 DEF PollReady, Goto, arrayVars, mergeVars, localVars, fileVars, taskVars
<1>19. ASSUME NEW p \in Pollers, PollSignals(p)
      PROVE  Others
  BY <1>19 DEF PollSignals, Poll, WokenAnd, Woken, arrayVars, mergeVars, localVars, fileVars, taskVars
<1>20. ASSUME NEW p \in Pollers, PollSleep(p)
      PROVE  Others
  BY <1>20 DEF PollSleep, Goto, arrayVars, mergeVars, localVars, fileVars, taskVars
<1>21. ASSUME NEW c \in Clients, ClientGet(c)
      PROVE  Others
  BY <1>21 DEF ClientGet, arrayVars, mergeVars, localVars, fileVars, taskVars
<1>22. ASSUME NEW c \in Clients, ClientEnable(c)
      PROVE  Others
  BY <1>22 DEF ClientEnable, EnableBegin, arrayVars, mergeVars, localVars, fileVars, taskVars
<1>23. ASSUME NEW c \in Clients, ClientEnabled(c)
      PROVE  Others
  BY <1>23 DEF ClientEnabled, EnableEnd, arrayVars, mergeVars, localVars, fileVars, taskVars
<1>24. ASSUME NEW c \in Clients, ClientEnableFails(c)
      PROVE  Others
  BY <1>24 DEF ClientEnableFails, EnableLast, AddFails, TakesToZero, PutUnused, CallNode, Woken, arrayVars, mergeVars, localVars, fileVars, taskVars
<1>25. ASSUME NEW c \in Clients, ClientPut(c)
      PROVE  Others
  BY <1>25 DEF ClientPut, PutArray, arrayVars, mergeVars, localVars, fileVars, taskVars
<1> QED
  BY <1>1, <1>2, <1>3, <1>4, <1>5, <1>6, <1>7, <1>8, <1>9, <1>10, <1>11, <1>12, <1>13, <1>14, <1>15, <1>16, <1>17, <1>18, <1>19, <1>20, <1>21, <1>22, <1>23, <1>24, <1>25 DEF Next, Callback, Work, EnableLoop, PollStep, ClientStep

LEMMA CountNat ==
  ASSUME NEW s \in Seq(Fences), NEW f \in Fences
  PROVE  /\ IsFiniteSet({n \in DOMAIN s : s[n] = f}) /\ Count(s, f) \in Nat
         /\ DOMAIN s = 1 .. Len(s) /\ Len(s) \in Nat /\ IsFiniteSet(DOMAIN s)
<1>1. DOMAIN s = 1 .. Len(s) /\ Len(s) \in Nat
  OBVIOUS
<1>2. IsFiniteSet(1 .. Len(s))
  BY <1>1, FS_Interval
<1>3. IsFiniteSet({n \in DOMAIN s : s[n] = f})
  BY <1>1, <1>2, CountPart
<1> QED
  BY <1>1, <1>2, <1>3, CountType DEF Count

\* dma_fence_put() of the array
LEMMA PutArrayType ==
  ASSUME TypeOK, PutArray
  PROVE  ref' \in [Fences -> Int] /\ aref' \in Int
<1>1. aref' \in Int
  BY DEF TypeOK, PutArray
<1>2. ASSUME NEW f \in Fences PROVE Count(array, f) \in Int
  <2>1. array \in Seq(Fences)
    BY DEF TypeOK
  <2>2. Count(array, f) \in Nat
    BY <2>1, CountNat
  <2> QED
    BY <2>2
<1>3. ref' \in [Fences -> Int]
  BY <1>2 DEF TypeOK, PutArray
<1> QED
  BY <1>1, <1>3

LEMMA TypeStep ==
  ASSUME TypeOK, MergeType, Phases, NoArray, Selected, EnableInv, Next
  PROVE  TypeOK'
<1> USE MergeAssumption DEF TypeOK, CbStates, Slots, HasArray
<1>1. ASSUME NEW f \in Fences, Signal(f)
      PROVE  TypeOK'
  BY <1>1 DEF Signal, SignalFence, CallNode, Woken, arrayVars, mergeVars, localVars, fileVars, taskVars
<1>2. ASSUME CountNext
      PROVE  TypeOK'
  BY <1>2 DEF CountNext, arrayVars, mergeVars, localVars, fileVars, taskVars
<1>3. ASSUME CountFence
      PROVE  TypeOK'
  BY <1>3 DEF CountFence, arrayVars, mergeVars, localVars, fileVars, taskVars
<1>4. ASSUME CountIsZero
      PROVE  TypeOK'
  BY <1>4 DEF CountIsZero, Result, arrayVars, mergeVars, localVars, fileVars, taskVars
<1>5. ASSUME MergeBegin
      PROVE  TypeOK'
  BY <1>5 DEF MergeBegin, arrayVars, mergeVars, localVars, fileVars, taskVars
<1>6. ASSUME MergeNoMemory
      PROVE  TypeOK'
  BY <1>6 DEF MergeNoMemory, Result, arrayVars, mergeVars, localVars, fileVars, taskVars
<1>7. ASSUME MergeSkip
      PROVE  TypeOK'
  BY <1>7 DEF MergeSkip, arrayVars, mergeVars, localVars, fileVars, taskVars
<1>8. ASSUME MergeNext
      PROVE  TypeOK'
  BY <1>8 DEF MergeNext, arrayVars, mergeVars, localVars, fileVars, taskVars
<1>9. ASSUME MergeSelect
      PROVE  TypeOK'
  BY <1>9 DEF MergeSelect, Compares, arrayVars, mergeVars, localVars, fileVars, taskVars
<1>10. ASSUME MergeKeep
      PROVE  TypeOK'
  BY <1>10 DEF MergeKeep, Compares, arrayVars, mergeVars, localVars, fileVars, taskVars
<1>11. ASSUME MergeDrop
      PROVE  TypeOK'
  BY <1>11 DEF MergeDrop, Compares, arrayVars, mergeVars, localVars, fileVars, taskVars
<1>12. ASSUME MergeOut
      PROVE  TypeOK'
  <2>1. sel \in 1 .. 2 /\ At(sel) \in Fences
    BY <1>12 DEF MergeOut, MergeType, Selected, AtEnd, At
  <2> QED
    <3>1. out' \in Seq(Fences)
      BY <1>12, <2>1 DEF MergeOut
    <3>2. PICK g \in Fences : ref' = [ref EXCEPT ![g] = @ + 1]
      BY <1>12, <2>1 DEF MergeOut
    <3>3. ref' \in [Fences -> Int]
      BY <3>2
    <3> QED
      BY <1>12, <3>1, <3>3 DEF MergeOut, arrayVars, mergeVars, localVars, fileVars, taskVars
<1>13. ASSUME MergeStub
      PROVE  TypeOK'
  BY <1>13 DEF MergeStub, MergeEnds, Result, arrayVars, mergeVars, localVars, fileVars, taskVars
<1>14. ASSUME MergeOne
      PROVE  TypeOK'
  BY <1>14 DEF MergeOne, MergeEnds, Result, arrayVars, mergeVars, localVars, fileVars, taskVars
<1>15. ASSUME MergeArray
      PROVE  TypeOK'
  BY <1>15 DEF MergeArray, MergeEnds, Result, Create, arrayVars, mergeVars, localVars, fileVars, taskVars
<1>16. ASSUME VmidArray
      PROVE  TypeOK'
  <2>1. inp[1] \in Seq(Fences)
    BY <1>16 DEF VmidArray, MergeType
  <2>2. \A f \in Fences : Count(inp[1], f) \in Nat
    BY <2>1, CountNat
  <2> QED
    BY <1>16, <2>1, <2>2 DEF VmidArray, Result, Create, arrayVars, mergeVars, localVars, fileVars, taskVars
<1>17. ASSUME NEW k \in Slots, CallbackLast(k), UNCHANGED <<mergeVars, fileVars, taskVars>>
      PROVE  TypeOK'
  BY <1>17 DEF CallbackLast, arrayVars, mergeVars, localVars, fileVars, taskVars
<1>18. ASSUME NEW k \in Slots, CallbackCounts(k), UNCHANGED <<mergeVars, fileVars, taskVars>>
      PROVE  TypeOK'
  BY <1>18 DEF CallbackCounts, arrayVars, mergeVars, localVars, fileVars, taskVars
<1>19. ASSUME NEW k \in Slots, CallbackPut(k), UNCHANGED <<mergeVars, fileVars, taskVars>>
      PROVE  TypeOK'
  BY <1>19, PutArrayType DEF CallbackPut, arrayVars, mergeVars, localVars, fileVars, taskVars
<1>20. ASSUME WorkSignal, CallNode, UNCHANGED <<mergeVars, res, open, flag, cpc>>
      PROVE  TypeOK'
  BY <1>20 DEF WorkSignal, CallNode, Woken, arrayVars, mergeVars, localVars, fileVars, taskVars
<1>21. ASSUME WorkPut, UNCHANGED <<mergeVars, fileVars, taskVars>>
      PROVE  TypeOK'
  BY <1>21, PutArrayType DEF WorkPut, arrayVars, mergeVars, localVars, fileVars, taskVars
<1>22. ASSUME EnableTest, UNCHANGED <<mergeVars, fileVars, taskVars>>
      PROVE  TypeOK'
  BY <1>22 DEF EnableTest, EnableRefs, arrayVars, mergeVars, localVars, fileVars, taskVars
<1>23. ASSUME EnableAdd, UNCHANGED <<mergeVars, fileVars, taskVars>>
      PROVE  TypeOK'
  <2>1. cb' \in [Slots -> CbStates]
    BY <1>23 DEF EnableAdd
  <2>2. array' = array /\ en' \in Nat
    BY <1>23 DEF EnableAdd
  <2> QED
    BY <1>23, <2>1, <2>2 DEF EnableAdd, arrayVars, mergeVars, localVars, fileVars, taskVars
<1>24. ASSUME EnableSkip, UNCHANGED <<mergeVars, fileVars, taskVars>>
      PROVE  TypeOK'
  BY <1>24 DEF EnableSkip, AddFails, TakesToZero, PutUnused, arrayVars, mergeVars, localVars, fileVars, taskVars
<1>25. ASSUME Close
      PROVE  TypeOK'
  <2>1. ref' \in [Fences -> Int] /\ aref' \in Int
    <3>1. CASE res.kind = "stub"
      BY <1>25, <3>1 DEF Close, PutResult
    <3>2. CASE res.kind = "fence"
      BY <1>25, <3>2 DEF Close, PutResult
    <3>3. CASE HasArray
      BY <1>25, <3>3, PutArrayType DEF Close, PutResult
    <3> QED
      BY <1>25, <3>1, <3>2, <3>3 DEF Close, PutResult
  <2> QED
    BY <1>25, <2>1 DEF Close, arrayVars, mergeVars, localVars, fileVars, taskVars
<1>26. ASSUME NEW p \in Pollers, PollStart(p)
      PROVE  TypeOK'
  BY <1>26 DEF PollStart, Goto, arrayVars, mergeVars, localVars, fileVars, taskVars
<1>27. ASSUME NEW p \in Pollers, PollFirst(p)
      PROVE  TypeOK'
  BY <1>27 DEF PollFirst, Goto, arrayVars, mergeVars, localVars, fileVars, taskVars
<1>28. ASSUME NEW p \in Pollers, PollOther(p)
      PROVE  TypeOK'
  BY <1>28 DEF PollOther, Goto, arrayVars, mergeVars, localVars, fileVars, taskVars
<1>29. ASSUME NEW p \in Pollers, PollAddFails(p)
      PROVE  TypeOK'
  BY <1>29 DEF PollAddFails, WokenAnd, Woken, arrayVars, mergeVars, localVars, fileVars, taskVars
<1>30. ASSUME NEW p \in Pollers, PollAdd(p)
      PROVE  TypeOK'
  BY <1>30 DEF PollAdd, Goto, arrayVars, mergeVars, localVars, fileVars, taskVars
<1>31. ASSUME NEW p \in Pollers, PollEnable(p)
      PROVE  TypeOK'
  BY <1>31 DEF PollEnable, Goto, EnableBegin, arrayVars, mergeVars, localVars, fileVars, taskVars
<1>32. ASSUME NEW p \in Pollers, PollEnabled(p)
      PROVE  TypeOK'
  BY <1>32 DEF PollEnabled, Goto, EnableEnd, arrayVars, mergeVars, localVars, fileVars, taskVars
<1>33. ASSUME NEW p \in Pollers, PollEnableFails(p)
      PROVE  TypeOK'
  BY <1>33 DEF PollEnableFails, EnableLast, AddFails, TakesToZero, PutUnused, WokenAnd, Woken, arrayVars, mergeVars, localVars, fileVars, taskVars
<1>34. ASSUME NEW p \in Pollers, PollReady(p)
      PROVE  TypeOK'
  BY <1>34 DEF PollReady, Goto, arrayVars, mergeVars, localVars, fileVars, taskVars
<1>35. ASSUME NEW p \in Pollers, PollSignals(p)
      PROVE  TypeOK'
  BY <1>35 DEF PollSignals, Poll, WokenAnd, Woken, arrayVars, mergeVars, localVars, fileVars, taskVars
<1>36. ASSUME NEW p \in Pollers, PollSleep(p)
      PROVE  TypeOK'
  BY <1>36 DEF PollSleep, Goto, arrayVars, mergeVars, localVars, fileVars, taskVars
<1>37. ASSUME NEW c \in Clients, ClientGet(c)
      PROVE  TypeOK'
  BY <1>37 DEF ClientGet, arrayVars, mergeVars, localVars, fileVars, taskVars
<1>38. ASSUME NEW c \in Clients, ClientEnable(c)
      PROVE  TypeOK'
  BY <1>38 DEF ClientEnable, EnableBegin, arrayVars, mergeVars, localVars, fileVars, taskVars
<1>39. ASSUME NEW c \in Clients, ClientEnabled(c)
      PROVE  TypeOK'
  BY <1>39 DEF ClientEnabled, EnableEnd, arrayVars, mergeVars, localVars, fileVars, taskVars
<1>40. ASSUME NEW c \in Clients, ClientEnableFails(c)
      PROVE  TypeOK'
  BY <1>40 DEF ClientEnableFails, EnableLast, AddFails, TakesToZero, PutUnused, CallNode, Woken, arrayVars, mergeVars, localVars, fileVars, taskVars
<1>41. ASSUME NEW c \in Clients, ClientPut(c)
      PROVE  TypeOK'
  BY <1>41, PutArrayType DEF ClientPut, arrayVars, mergeVars, localVars, fileVars, taskVars
<1> QED
  BY <1>1, <1>2, <1>3, <1>4, <1>5, <1>6, <1>7, <1>8, <1>9, <1>10, <1>11, <1>12, <1>13, <1>14, <1>15, <1>16, <1>17, <1>18, <1>19, <1>20, <1>21, <1>22, <1>23, <1>24, <1>25, <1>26, <1>27, <1>28, <1>29, <1>30, <1>31, <1>32, <1>33, <1>34, <1>35, <1>36, <1>37, <1>38, <1>39, <1>40, <1>41 DEF Next, Merge, Callback, Work, EnableLoop, PollStep, ClientStep

LEMMA ElementIn ==
  ASSUME NEW s \in Seq(Fences)
  PROVE  /\ DOMAIN s = 1 .. Len(s) /\ Len(s) \in Nat
         /\ \A n \in 1 .. Len(s) : s[n] \in Fences
         /\ Len(s) = 1 => s[1] \in Fences
OBVIOUS

LEMMA PhasesStep ==
  ASSUME TypeOK, MergeType, Phases, NoArray, Next
  PROVE  Phases'
<1> USE DEF TypeOK, Phases, HasArray
<1>1. ASSUME NEW f \in Fences, Signal(f)
      PROVE  Phases'
  BY <1>1 DEF Signal, SignalFence, CallNode, Woken, arrayVars, mergeVars, localVars, fileVars, taskVars
<1>2. ASSUME CountNext
      PROVE  Phases'
  BY <1>2 DEF CountNext, arrayVars, mergeVars, localVars, fileVars, taskVars
<1>3. ASSUME CountFence
      PROVE  Phases'
  BY <1>3 DEF CountFence, arrayVars, mergeVars, localVars, fileVars, taskVars
<1>4. ASSUME CountIsZero
      PROVE  Phases'
  BY <1>4 DEF CountIsZero, Result, arrayVars, mergeVars, localVars, fileVars, taskVars
<1>5. ASSUME MergeBegin
      PROVE  Phases'
  BY <1>5 DEF MergeBegin, arrayVars, mergeVars, localVars, fileVars, taskVars
<1>6. ASSUME MergeNoMemory
      PROVE  Phases'
  BY <1>6 DEF MergeNoMemory, Result, arrayVars, mergeVars, localVars, fileVars, taskVars
<1>7. ASSUME MergeSkip
      PROVE  Phases'
  BY <1>7 DEF MergeSkip, arrayVars, mergeVars, localVars, fileVars, taskVars
<1>8. ASSUME MergeNext
      PROVE  Phases'
  BY <1>8 DEF MergeNext, arrayVars, mergeVars, localVars, fileVars, taskVars
<1>9. ASSUME MergeSelect
      PROVE  Phases'
  BY <1>9 DEF MergeSelect, Compares, arrayVars, mergeVars, localVars, fileVars, taskVars
<1>10. ASSUME MergeKeep
      PROVE  Phases'
  BY <1>10 DEF MergeKeep, Compares, arrayVars, mergeVars, localVars, fileVars, taskVars
<1>11. ASSUME MergeDrop
      PROVE  Phases'
  BY <1>11 DEF MergeDrop, Compares, arrayVars, mergeVars, localVars, fileVars, taskVars
<1>12. ASSUME MergeOut
      PROVE  Phases'
  BY <1>12 DEF MergeOut, arrayVars, mergeVars, localVars, fileVars, taskVars
<1>13. ASSUME MergeStub
      PROVE  Phases'
  BY <1>13 DEF MergeStub, MergeEnds, Result, arrayVars, mergeVars, localVars, fileVars, taskVars
<1>14. ASSUME MergeOne
      PROVE  Phases'
  <2>1. out[1] \in Fences
    <3>1. out \in Seq(Fences) /\ Len(out) = 1
      BY <1>14 DEF MergeOne
    <3> QED
      BY <3>1, ElementIn
  <2>2. res'.kind = "fence" /\ res'.fence = out[1] /\ mpc' = "done" /\ out' = <<>> /\ open' = 1
    BY <1>14 DEF MergeOne, Result
  <2> QED
    BY <1>14, <2>1, <2>2 DEF MergeOne, arrayVars, mergeVars, localVars, fileVars, taskVars
<1>15. ASSUME MergeArray
      PROVE  Phases'
  BY <1>15 DEF MergeArray, MergeEnds, Result, Create, arrayVars, mergeVars, localVars, fileVars, taskVars
<1>16. ASSUME VmidArray
      PROVE  Phases'
  BY <1>16 DEF VmidArray, Result, Create, arrayVars, mergeVars, localVars, fileVars, taskVars
<1>17. ASSUME NEW k \in Slots, CallbackLast(k), UNCHANGED <<mergeVars, fileVars, taskVars>>
      PROVE  Phases'
  BY <1>17 DEF CallbackLast, arrayVars, mergeVars, localVars, fileVars, taskVars
<1>18. ASSUME NEW k \in Slots, CallbackCounts(k), UNCHANGED <<mergeVars, fileVars, taskVars>>
      PROVE  Phases'
  BY <1>18 DEF CallbackCounts, arrayVars, mergeVars, localVars, fileVars, taskVars
<1>19. ASSUME NEW k \in Slots, CallbackPut(k), UNCHANGED <<mergeVars, fileVars, taskVars>>
      PROVE  Phases'
  BY <1>19 DEF CallbackPut, PutArray, arrayVars, mergeVars, localVars, fileVars, taskVars
<1>20. ASSUME WorkSignal, CallNode, UNCHANGED <<mergeVars, res, open, flag, cpc>>
      PROVE  Phases'
  BY <1>20 DEF WorkSignal, CallNode, Woken, arrayVars, mergeVars, localVars, fileVars, taskVars
<1>21. ASSUME WorkPut, UNCHANGED <<mergeVars, fileVars, taskVars>>
      PROVE  Phases'
  BY <1>21 DEF WorkPut, PutArray, arrayVars, mergeVars, localVars, fileVars, taskVars
<1>22. ASSUME EnableTest, UNCHANGED <<mergeVars, fileVars, taskVars>>
      PROVE  Phases'
  BY <1>22 DEF EnableTest, EnableRefs, arrayVars, mergeVars, localVars, fileVars, taskVars
<1>23. ASSUME EnableAdd, UNCHANGED <<mergeVars, fileVars, taskVars>>
      PROVE  Phases'
  BY <1>23 DEF EnableAdd, arrayVars, mergeVars, localVars, fileVars, taskVars
<1>24. ASSUME EnableSkip, UNCHANGED <<mergeVars, fileVars, taskVars>>
      PROVE  Phases'
  BY <1>24 DEF EnableSkip, AddFails, TakesToZero, PutUnused, arrayVars, mergeVars, localVars, fileVars, taskVars
<1>25. ASSUME Close
      PROVE  Phases'
  BY <1>25 DEF Close, PutResult, PutArray, arrayVars, mergeVars, localVars, fileVars, taskVars
<1>26. ASSUME NEW p \in Pollers, PollStart(p)
      PROVE  Phases'
  BY <1>26 DEF PollStart, Goto, arrayVars, mergeVars, localVars, fileVars, taskVars
<1>27. ASSUME NEW p \in Pollers, PollFirst(p)
      PROVE  Phases'
  BY <1>27 DEF PollFirst, Goto, arrayVars, mergeVars, localVars, fileVars, taskVars
<1>28. ASSUME NEW p \in Pollers, PollOther(p)
      PROVE  Phases'
  BY <1>28 DEF PollOther, Goto, arrayVars, mergeVars, localVars, fileVars, taskVars
<1>29. ASSUME NEW p \in Pollers, PollAddFails(p)
      PROVE  Phases'
  BY <1>29 DEF PollAddFails, WokenAnd, Woken, arrayVars, mergeVars, localVars, fileVars, taskVars
<1>30. ASSUME NEW p \in Pollers, PollAdd(p)
      PROVE  Phases'
  BY <1>30 DEF PollAdd, Goto, arrayVars, mergeVars, localVars, fileVars, taskVars
<1>31. ASSUME NEW p \in Pollers, PollEnable(p)
      PROVE  Phases'
  BY <1>31 DEF PollEnable, Goto, EnableBegin, arrayVars, mergeVars, localVars, fileVars, taskVars
<1>32. ASSUME NEW p \in Pollers, PollEnabled(p)
      PROVE  Phases'
  BY <1>32 DEF PollEnabled, Goto, EnableEnd, arrayVars, mergeVars, localVars, fileVars, taskVars
<1>33. ASSUME NEW p \in Pollers, PollEnableFails(p)
      PROVE  Phases'
  BY <1>33 DEF PollEnableFails, EnableLast, AddFails, TakesToZero, PutUnused, WokenAnd, Woken, arrayVars, mergeVars, localVars, fileVars, taskVars
<1>34. ASSUME NEW p \in Pollers, PollReady(p)
      PROVE  Phases'
  BY <1>34 DEF PollReady, Goto, arrayVars, mergeVars, localVars, fileVars, taskVars
<1>35. ASSUME NEW p \in Pollers, PollSignals(p)
      PROVE  Phases'
  BY <1>35 DEF PollSignals, Poll, WokenAnd, Woken, arrayVars, mergeVars, localVars, fileVars, taskVars
<1>36. ASSUME NEW p \in Pollers, PollSleep(p)
      PROVE  Phases'
  BY <1>36 DEF PollSleep, Goto, arrayVars, mergeVars, localVars, fileVars, taskVars
<1>37. ASSUME NEW c \in Clients, ClientGet(c)
      PROVE  Phases'
  BY <1>37 DEF ClientGet, arrayVars, mergeVars, localVars, fileVars, taskVars
<1>38. ASSUME NEW c \in Clients, ClientEnable(c)
      PROVE  Phases'
  BY <1>38 DEF ClientEnable, EnableBegin, arrayVars, mergeVars, localVars, fileVars, taskVars
<1>39. ASSUME NEW c \in Clients, ClientEnabled(c)
      PROVE  Phases'
  BY <1>39 DEF ClientEnabled, EnableEnd, arrayVars, mergeVars, localVars, fileVars, taskVars
<1>40. ASSUME NEW c \in Clients, ClientEnableFails(c)
      PROVE  Phases'
  BY <1>40 DEF ClientEnableFails, EnableLast, AddFails, TakesToZero, PutUnused, CallNode, Woken, arrayVars, mergeVars, localVars, fileVars, taskVars
<1>41. ASSUME NEW c \in Clients, ClientPut(c)
      PROVE  Phases'
  BY <1>41 DEF ClientPut, PutArray, arrayVars, mergeVars, localVars, fileVars, taskVars
<1> QED
  BY <1>1, <1>2, <1>3, <1>4, <1>5, <1>6, <1>7, <1>8, <1>9, <1>10, <1>11, <1>12, <1>13, <1>14, <1>15, <1>16, <1>17, <1>18, <1>19, <1>20, <1>21, <1>22, <1>23, <1>24, <1>25, <1>26, <1>27, <1>28, <1>29, <1>30, <1>31, <1>32, <1>33, <1>34, <1>35, <1>36, <1>37, <1>38, <1>39, <1>40, <1>41 DEF Next, Merge, Callback, Work, EnableLoop, PollStep, ClientStep

LEMMA NoArrayStep ==
  ASSUME TypeOK, MergeType, Phases, NoArray, EnableInv, Next
  PROVE  NoArray'
<1> USE DEF TypeOK, Phases, NoArray, EnableInv, HasArray, Slots
<1>1. ASSUME NEW f \in Fences, Signal(f)
      PROVE  NoArray'
  BY <1>1 DEF Signal, SignalFence, CallNode, Woken, arrayVars, mergeVars, localVars, fileVars, taskVars
<1>2. ASSUME CountNext
      PROVE  NoArray'
  BY <1>2 DEF CountNext, arrayVars, mergeVars, localVars, fileVars, taskVars
<1>3. ASSUME CountFence
      PROVE  NoArray'
  BY <1>3 DEF CountFence, arrayVars, mergeVars, localVars, fileVars, taskVars
<1>4. ASSUME CountIsZero
      PROVE  NoArray'
  BY <1>4 DEF CountIsZero, Result, arrayVars, mergeVars, localVars, fileVars, taskVars
<1>5. ASSUME MergeBegin
      PROVE  NoArray'
  BY <1>5 DEF MergeBegin, arrayVars, mergeVars, localVars, fileVars, taskVars
<1>6. ASSUME MergeNoMemory
      PROVE  NoArray'
  BY <1>6 DEF MergeNoMemory, Result, arrayVars, mergeVars, localVars, fileVars, taskVars
<1>7. ASSUME MergeSkip
      PROVE  NoArray'
  BY <1>7 DEF MergeSkip, arrayVars, mergeVars, localVars, fileVars, taskVars
<1>8. ASSUME MergeNext
      PROVE  NoArray'
  BY <1>8 DEF MergeNext, arrayVars, mergeVars, localVars, fileVars, taskVars
<1>9. ASSUME MergeSelect
      PROVE  NoArray'
  BY <1>9 DEF MergeSelect, Compares, arrayVars, mergeVars, localVars, fileVars, taskVars
<1>10. ASSUME MergeKeep
      PROVE  NoArray'
  BY <1>10 DEF MergeKeep, Compares, arrayVars, mergeVars, localVars, fileVars, taskVars
<1>11. ASSUME MergeDrop
      PROVE  NoArray'
  BY <1>11 DEF MergeDrop, Compares, arrayVars, mergeVars, localVars, fileVars, taskVars
<1>12. ASSUME MergeOut
      PROVE  NoArray'
  BY <1>12 DEF MergeOut, arrayVars, mergeVars, localVars, fileVars, taskVars
<1>13. ASSUME MergeStub
      PROVE  NoArray'
  BY <1>13 DEF MergeStub, MergeEnds, Result, arrayVars, mergeVars, localVars, fileVars, taskVars
<1>14. ASSUME MergeOne
      PROVE  NoArray'
  BY <1>14 DEF MergeOne, MergeEnds, Result, arrayVars, mergeVars, localVars, fileVars, taskVars
<1>15. ASSUME MergeArray
      PROVE  NoArray'
  BY <1>15 DEF MergeArray, MergeEnds, Result, Create, arrayVars, mergeVars, localVars, fileVars, taskVars
<1>16. ASSUME VmidArray
      PROVE  NoArray'
  BY <1>16 DEF VmidArray, Result, Create, arrayVars, mergeVars, localVars, fileVars, taskVars
<1>17. ASSUME NEW k \in Slots, CallbackLast(k), UNCHANGED <<mergeVars, fileVars, taskVars>>
      PROVE  NoArray'
  BY <1>17 DEF CallbackLast, arrayVars, mergeVars, localVars, fileVars, taskVars
<1>18. ASSUME NEW k \in Slots, CallbackCounts(k), UNCHANGED <<mergeVars, fileVars, taskVars>>
      PROVE  NoArray'
  BY <1>18 DEF CallbackCounts, arrayVars, mergeVars, localVars, fileVars, taskVars
<1>19. ASSUME NEW k \in Slots, CallbackPut(k), UNCHANGED <<mergeVars, fileVars, taskVars>>
      PROVE  NoArray'
  BY <1>19 DEF CallbackPut, PutArray, arrayVars, mergeVars, localVars, fileVars, taskVars
<1>20. ASSUME WorkSignal, CallNode, UNCHANGED <<mergeVars, res, open, flag, cpc>>
      PROVE  NoArray'
  BY <1>20 DEF WorkSignal, CallNode, Woken, arrayVars, mergeVars, localVars, fileVars, taskVars
<1>21. ASSUME WorkPut, UNCHANGED <<mergeVars, fileVars, taskVars>>
      PROVE  NoArray'
  BY <1>21 DEF WorkPut, PutArray, arrayVars, mergeVars, localVars, fileVars, taskVars
<1>22. ASSUME EnableTest, UNCHANGED <<mergeVars, fileVars, taskVars>>
      PROVE  NoArray'
  BY <1>22 DEF EnableTest, EnableRefs, arrayVars, mergeVars, localVars, fileVars, taskVars
<1>23. ASSUME EnableAdd, UNCHANGED <<mergeVars, fileVars, taskVars>>
      PROVE  NoArray'
  BY <1>23 DEF EnableAdd, arrayVars, mergeVars, localVars, fileVars, taskVars
<1>24. ASSUME EnableSkip, UNCHANGED <<mergeVars, fileVars, taskVars>>
      PROVE  NoArray'
  BY <1>24 DEF EnableSkip, AddFails, TakesToZero, PutUnused, arrayVars, mergeVars, localVars, fileVars, taskVars
<1>25. ASSUME Close
      PROVE  NoArray'
  BY <1>25 DEF Close, PutResult, PutArray, arrayVars, mergeVars, localVars, fileVars, taskVars
<1>26. ASSUME NEW p \in Pollers, PollStart(p)
      PROVE  NoArray'
  BY <1>26 DEF PollStart, Goto, arrayVars, mergeVars, localVars, fileVars, taskVars
<1>27. ASSUME NEW p \in Pollers, PollFirst(p)
      PROVE  NoArray'
  BY <1>27 DEF PollFirst, Goto, arrayVars, mergeVars, localVars, fileVars, taskVars
<1>28. ASSUME NEW p \in Pollers, PollOther(p)
      PROVE  NoArray'
  BY <1>28 DEF PollOther, Goto, arrayVars, mergeVars, localVars, fileVars, taskVars
<1>29. ASSUME NEW p \in Pollers, PollAddFails(p)
      PROVE  NoArray'
  BY <1>29 DEF PollAddFails, WokenAnd, Woken, arrayVars, mergeVars, localVars, fileVars, taskVars
<1>30. ASSUME NEW p \in Pollers, PollAdd(p)
      PROVE  NoArray'
  BY <1>30 DEF PollAdd, Goto, arrayVars, mergeVars, localVars, fileVars, taskVars
<1>31. ASSUME NEW p \in Pollers, PollEnable(p)
      PROVE  NoArray'
  BY <1>31 DEF PollEnable, Goto, EnableBegin, arrayVars, mergeVars, localVars, fileVars, taskVars
<1>32. ASSUME NEW p \in Pollers, PollEnabled(p)
      PROVE  NoArray'
  BY <1>32 DEF PollEnabled, Goto, EnableEnd, arrayVars, mergeVars, localVars, fileVars, taskVars
<1>33. ASSUME NEW p \in Pollers, PollEnableFails(p)
      PROVE  NoArray'
  BY <1>33 DEF PollEnableFails, EnableLast, AddFails, TakesToZero, PutUnused, WokenAnd, Woken, arrayVars, mergeVars, localVars, fileVars, taskVars
<1>34. ASSUME NEW p \in Pollers, PollReady(p)
      PROVE  NoArray'
  BY <1>34 DEF PollReady, Goto, arrayVars, mergeVars, localVars, fileVars, taskVars
<1>35. ASSUME NEW p \in Pollers, PollSignals(p)
      PROVE  NoArray'
  BY <1>35 DEF PollSignals, Poll, WokenAnd, Woken, arrayVars, mergeVars, localVars, fileVars, taskVars
<1>36. ASSUME NEW p \in Pollers, PollSleep(p)
      PROVE  NoArray'
  BY <1>36 DEF PollSleep, Goto, arrayVars, mergeVars, localVars, fileVars, taskVars
<1>37. ASSUME NEW c \in Clients, ClientGet(c)
      PROVE  NoArray'
  BY <1>37 DEF ClientGet, arrayVars, mergeVars, localVars, fileVars, taskVars
<1>38. ASSUME NEW c \in Clients, ClientEnable(c)
      PROVE  NoArray'
  BY <1>38 DEF ClientEnable, EnableBegin, arrayVars, mergeVars, localVars, fileVars, taskVars
<1>39. ASSUME NEW c \in Clients, ClientEnabled(c)
      PROVE  NoArray'
  BY <1>39 DEF ClientEnabled, EnableEnd, arrayVars, mergeVars, localVars, fileVars, taskVars
<1>40. ASSUME NEW c \in Clients, ClientEnableFails(c)
      PROVE  NoArray'
  BY <1>40 DEF ClientEnableFails, EnableLast, AddFails, TakesToZero, PutUnused, CallNode, Woken, arrayVars, mergeVars, localVars, fileVars, taskVars
<1>41. ASSUME NEW c \in Clients, ClientPut(c)
      PROVE  NoArray'
  BY <1>41 DEF ClientPut, PutArray, arrayVars, mergeVars, localVars, fileVars, taskVars
<1> QED
  BY <1>1, <1>2, <1>3, <1>4, <1>5, <1>6, <1>7, <1>8, <1>9, <1>10, <1>11, <1>12, <1>13, <1>14, <1>15, <1>16, <1>17, <1>18, <1>19, <1>20, <1>21, <1>22, <1>23, <1>24, <1>25, <1>26, <1>27, <1>28, <1>29, <1>30, <1>31, <1>32, <1>33, <1>34, <1>35, <1>36, <1>37, <1>38, <1>39, <1>40, <1>41 DEF Next, Merge, Callback, Work, EnableLoop, PollStep, ClientStep

\* iter[d] goes on to the next fence.
Advances(d) == d \in 1 .. 2 /\ ~AtEnd(d) /\ pos' = [pos EXCEPT ![d] = @ + 1] /\ inp' = inp

LEMMA AdvanceType ==
  ASSUME MergeType, mpc # "done", NEW d, Advances(d)
  PROVE  /\ inp' \in [1 .. 2 -> Seq(Fences)] /\ pos' \in [1 .. 2 -> Nat]
         /\ \A k \in 1 .. 2 : pos'[k] \in 1 .. Len(inp'[k]) + 1
<1> USE DEF Advances, MergeType, AtEnd
<1>1. d \in 1 .. 2 /\ pos[d] \in Nat /\ pos[d] <= Len(inp[d]) /\ pos' \in [1 .. 2 -> Nat]
  OBVIOUS
<1>2. ASSUME NEW k \in 1 .. 2 PROVE pos'[k] \in 1 .. Len(inp[k]) + 1
  <2>1. pos[k] \in 1 .. Len(inp[k]) + 1 /\ Len(inp[k]) \in Nat
    BY <1>2
  <2>2. CASE k = d
    <3>1. pos'[d] = pos[d] + 1
      BY <1>1
    <3> QED
      BY SMTT(60), <1>1, <2>1, <2>2, <3>1
  <2>3. CASE k # d
    BY <1>1, <2>1, <2>3
  <2> QED
    BY <2>2, <2>3
<1> QED
  BY <1>1, <1>2

LEMMA MergeTypeStep ==
  ASSUME TypeOK, MergeType, Phases, Selected, Next
  PROVE  MergeType'
<1> USE DEF TypeOK, MergeType, Phases, Selected
<1>1. ASSUME NEW f \in Fences, Signal(f)
      PROVE  MergeType'
  BY <1>1 DEF Signal, SignalFence, CallNode, Woken, arrayVars, mergeVars, localVars, fileVars, taskVars
<1>2. ASSUME CountNext
      PROVE  MergeType'
  BY <1>2 DEF CountNext, arrayVars, mergeVars, localVars, fileVars, taskVars
<1>3. ASSUME CountFence
      PROVE  MergeType'
  <2>1. Advances(i)
    BY <1>3 DEF CountFence, Advances
  <2>2. size' \in Nat
    BY <1>3 DEF CountFence
  <2> QED
    BY <1>3, <2>1, <2>2, AdvanceType DEF CountFence, arrayVars, mergeVars, localVars, fileVars, taskVars
<1>4. ASSUME CountIsZero
      PROVE  MergeType'
  BY <1>4 DEF CountIsZero, Result, arrayVars, mergeVars, localVars, fileVars, taskVars
<1>5. ASSUME MergeBegin
      PROVE  MergeType'
  BY SMTT(60), <1>5 DEF MergeBegin, arrayVars, mergeVars, localVars, fileVars, taskVars
<1>6. ASSUME MergeNoMemory
      PROVE  MergeType'
  BY <1>6 DEF MergeNoMemory, Result, arrayVars, mergeVars, localVars, fileVars, taskVars
<1>7. ASSUME MergeSkip
      PROVE  MergeType'
  <2>1. Advances(i)
    BY <1>7 DEF MergeSkip, Advances
  <2> QED
    BY <1>7, <2>1, AdvanceType DEF MergeSkip, arrayVars, mergeVars, localVars, fileVars, taskVars
<1>8. ASSUME MergeNext
      PROVE  MergeType'
  BY <1>8 DEF MergeNext, arrayVars, mergeVars, localVars, fileVars, taskVars
<1>9. ASSUME MergeSelect
      PROVE  MergeType'
  BY <1>9 DEF MergeSelect, Compares, arrayVars, mergeVars, localVars, fileVars, taskVars
<1>10. ASSUME MergeKeep
      PROVE  MergeType'
  BY <1>10 DEF MergeKeep, Compares, arrayVars, mergeVars, localVars, fileVars, taskVars
<1>11. ASSUME MergeDrop
      PROVE  MergeType'
  <2>1. Dropped \in 1 .. 2 /\ ~AtEnd(Dropped)
    BY <1>11 DEF MergeDrop, Compares, Dropped, MergeType, Selected
  <2>2. Advances(Dropped)
    BY <1>11, <2>1 DEF MergeDrop, Advances
  <2> QED
    BY SMTT(60), <1>11, <2>2, AdvanceType DEF MergeDrop, Compares, arrayVars, mergeVars, localVars, fileVars, taskVars
<1>12. ASSUME MergeOut
      PROVE  MergeType'
  <2>1. Advances(sel)
    BY <1>12 DEF MergeOut, Advances
  <2> QED
    BY <1>12, <2>1, AdvanceType DEF MergeOut, arrayVars, mergeVars, localVars, fileVars, taskVars
<1>13. ASSUME MergeStub
      PROVE  MergeType'
  BY <1>13 DEF MergeStub, MergeEnds, Result, arrayVars, mergeVars, localVars, fileVars, taskVars
<1>14. ASSUME MergeOne
      PROVE  MergeType'
  BY <1>14 DEF MergeOne, MergeEnds, Result, arrayVars, mergeVars, localVars, fileVars, taskVars
<1>15. ASSUME MergeArray
      PROVE  MergeType'
  BY <1>15 DEF MergeArray, MergeEnds, Result, Create, arrayVars, mergeVars, localVars, fileVars, taskVars
<1>16. ASSUME VmidArray
      PROVE  MergeType'
  BY <1>16 DEF VmidArray, Result, Create, arrayVars, mergeVars, localVars, fileVars, taskVars
<1>20. ASSUME Others
      PROVE  MergeType'
  BY <1>20 DEF Others
<1> QED
  BY <1>1, <1>2, <1>3, <1>4, <1>5, <1>6, <1>7, <1>8, <1>9, <1>10, <1>11, <1>12, <1>13, <1>14, <1>15, <1>16, <1>20, OthersStep DEF Next, Merge

LEMMA OrderedStep ==
  ASSUME TypeOK, Ordered, Next
  PROVE  Ordered'
<1> USE MergeAssumption DEF TypeOK, Ordered
<1>1. ASSUME NEW f \in Fences, Signal(f)
      PROVE  Ordered'
  BY <1>1 DEF Signal, SignalFence, CallNode, Woken, arrayVars, mergeVars, localVars, fileVars, taskVars
<1>2. ASSUME CountNext
      PROVE  Ordered'
  BY <1>2 DEF CountNext, arrayVars, mergeVars, localVars, fileVars, taskVars
<1>3. ASSUME CountFence
      PROVE  Ordered'
  BY <1>3 DEF CountFence, arrayVars, mergeVars, localVars, fileVars, taskVars
<1>4. ASSUME CountIsZero
      PROVE  Ordered'
  BY <1>4 DEF CountIsZero, Result, arrayVars, mergeVars, localVars, fileVars, taskVars
<1>5. ASSUME MergeBegin
      PROVE  Ordered'
  BY <1>5 DEF MergeBegin, arrayVars, mergeVars, localVars, fileVars, taskVars
<1>6. ASSUME MergeNoMemory
      PROVE  Ordered'
  BY <1>6 DEF MergeNoMemory, Result, arrayVars, mergeVars, localVars, fileVars, taskVars
<1>7. ASSUME MergeSkip
      PROVE  Ordered'
  BY <1>7 DEF MergeSkip, arrayVars, mergeVars, localVars, fileVars, taskVars
<1>8. ASSUME MergeNext
      PROVE  Ordered'
  BY <1>8 DEF MergeNext, arrayVars, mergeVars, localVars, fileVars, taskVars
<1>9. ASSUME MergeSelect
      PROVE  Ordered'
  BY <1>9 DEF MergeSelect, Compares, arrayVars, mergeVars, localVars, fileVars, taskVars
<1>10. ASSUME MergeKeep
      PROVE  Ordered'
  BY <1>10 DEF MergeKeep, Compares, arrayVars, mergeVars, localVars, fileVars, taskVars
<1>11. ASSUME MergeDrop
      PROVE  Ordered'
  BY <1>11 DEF MergeDrop, Compares, arrayVars, mergeVars, localVars, fileVars, taskVars
<1>12. ASSUME MergeOut
      PROVE  Ordered'
  BY <1>12 DEF MergeOut, arrayVars, mergeVars, localVars, fileVars, taskVars
<1>13. ASSUME MergeStub
      PROVE  Ordered'
  BY <1>13 DEF MergeStub, MergeEnds, Result, arrayVars, mergeVars, localVars, fileVars, taskVars
<1>14. ASSUME MergeOne
      PROVE  Ordered'
  BY <1>14 DEF MergeOne, MergeEnds, Result, arrayVars, mergeVars, localVars, fileVars, taskVars
<1>15. ASSUME MergeArray
      PROVE  Ordered'
  BY <1>15 DEF MergeArray, MergeEnds, Result, Create, arrayVars, mergeVars, localVars, fileVars, taskVars
<1>16. ASSUME VmidArray
      PROVE  Ordered'
  BY <1>16 DEF VmidArray, Result, Create, arrayVars, mergeVars, localVars, fileVars, taskVars
<1>20. ASSUME Others
      PROVE  Ordered'
  BY <1>20 DEF Others
<1> QED
  BY <1>1, <1>2, <1>3, <1>4, <1>5, <1>6, <1>7, <1>8, <1>9, <1>10, <1>11, <1>12, <1>13, <1>14, <1>15, <1>16, <1>20, OthersStep DEF Next, Merge

LEMMA SelectedStep ==
  ASSUME TypeOK, MergeType, Selected, Next
  PROVE  Selected'
<1> USE DEF MergeType, Selected, AtEnd
<1>1. ASSUME NEW f \in Fences, Signal(f)
      PROVE  Selected'
  BY <1>1 DEF Signal, SignalFence, CallNode, Woken, arrayVars, mergeVars, localVars, fileVars, taskVars
<1>2. ASSUME CountNext
      PROVE  Selected'
  BY <1>2 DEF CountNext, arrayVars, mergeVars, localVars, fileVars, taskVars
<1>3. ASSUME CountFence
      PROVE  Selected'
  BY <1>3 DEF CountFence, arrayVars, mergeVars, localVars, fileVars, taskVars
<1>4. ASSUME CountIsZero
      PROVE  Selected'
  BY <1>4 DEF CountIsZero, Result, arrayVars, mergeVars, localVars, fileVars, taskVars
<1>5. ASSUME MergeBegin
      PROVE  Selected'
  BY <1>5 DEF MergeBegin, arrayVars, mergeVars, localVars, fileVars, taskVars
<1>6. ASSUME MergeNoMemory
      PROVE  Selected'
  BY <1>6 DEF MergeNoMemory, Result, arrayVars, mergeVars, localVars, fileVars, taskVars
<1>7. ASSUME MergeSkip
      PROVE  Selected'
  BY <1>7 DEF MergeSkip, arrayVars, mergeVars, localVars, fileVars, taskVars
<1>8. ASSUME MergeNext
      PROVE  Selected'
  BY <1>8 DEF MergeNext, arrayVars, mergeVars, localVars, fileVars, taskVars
<1>9. ASSUME MergeSelect
      PROVE  Selected'
  BY <1>9 DEF MergeSelect, Compares, arrayVars, mergeVars, localVars, fileVars, taskVars
<1>10. ASSUME MergeKeep
      PROVE  Selected'
  BY <1>10 DEF MergeKeep, Compares, arrayVars, mergeVars, localVars, fileVars, taskVars
<1>11. ASSUME MergeDrop
      PROVE  Selected'
  BY <1>11 DEF MergeDrop, Compares, arrayVars, mergeVars, localVars, fileVars, taskVars
<1>12. ASSUME MergeOut
      PROVE  Selected'
  BY <1>12 DEF MergeOut, arrayVars, mergeVars, localVars, fileVars, taskVars
<1>13. ASSUME MergeStub
      PROVE  Selected'
  BY <1>13 DEF MergeStub, MergeEnds, Result, arrayVars, mergeVars, localVars, fileVars, taskVars
<1>14. ASSUME MergeOne
      PROVE  Selected'
  BY <1>14 DEF MergeOne, MergeEnds, Result, arrayVars, mergeVars, localVars, fileVars, taskVars
<1>15. ASSUME MergeArray
      PROVE  Selected'
  BY <1>15 DEF MergeArray, MergeEnds, Result, Create, arrayVars, mergeVars, localVars, fileVars, taskVars
<1>16. ASSUME VmidArray
      PROVE  Selected'
  BY <1>16 DEF VmidArray, Result, Create, arrayVars, mergeVars, localVars, fileVars, taskVars
<1>20. ASSUME Others
      PROVE  Selected'
  BY <1>20 DEF Others
<1> QED
  BY <1>1, <1>2, <1>3, <1>4, <1>5, <1>6, <1>7, <1>8, <1>9, <1>10, <1>11, <1>12, <1>13, <1>14, <1>15, <1>16, <1>20, OthersStep DEF Next, Merge

LEMMA AskedInStep ==
  ASSUME MergeType, AskedIn, Next
  PROVE  AskedIn'
<1> USE DEF AskedIn
<1>1. ASSUME NEW f \in Fences, Signal(f)
      PROVE  AskedIn'
  BY <1>1 DEF Signal, SignalFence, CallNode, Woken, arrayVars, mergeVars, localVars, fileVars, taskVars
<1>2. ASSUME CountNext
      PROVE  AskedIn'
  BY <1>2 DEF CountNext, arrayVars, mergeVars, localVars, fileVars, taskVars
<1>3. ASSUME CountFence
      PROVE  AskedIn'
  BY <1>3 DEF CountFence, arrayVars, mergeVars, localVars, fileVars, taskVars
<1>4. ASSUME CountIsZero
      PROVE  AskedIn'
  BY <1>4 DEF CountIsZero, Result, arrayVars, mergeVars, localVars, fileVars, taskVars
<1>5. ASSUME MergeBegin
      PROVE  AskedIn'
  BY <1>5 DEF MergeBegin, arrayVars, mergeVars, localVars, fileVars, taskVars
<1>6. ASSUME MergeNoMemory
      PROVE  AskedIn'
  BY <1>6 DEF MergeNoMemory, Result, arrayVars, mergeVars, localVars, fileVars, taskVars
<1>7. ASSUME MergeSkip
      PROVE  AskedIn'
  BY <1>7 DEF MergeSkip, arrayVars, mergeVars, localVars, fileVars, taskVars
<1>8. ASSUME MergeNext
      PROVE  AskedIn'
  BY <1>8 DEF MergeNext, arrayVars, mergeVars, localVars, fileVars, taskVars
<1>9. ASSUME MergeSelect
      PROVE  AskedIn'
  BY <1>9 DEF MergeSelect, Compares, arrayVars, mergeVars, localVars, fileVars, taskVars
<1>10. ASSUME MergeKeep
      PROVE  AskedIn'
  BY <1>10 DEF MergeKeep, Compares, arrayVars, mergeVars, localVars, fileVars, taskVars
<1>11. ASSUME MergeDrop
      PROVE  AskedIn'
  BY <1>11 DEF MergeDrop, Compares, arrayVars, mergeVars, localVars, fileVars, taskVars
<1>12. ASSUME MergeOut
      PROVE  AskedIn'
  BY <1>12 DEF MergeOut, arrayVars, mergeVars, localVars, fileVars, taskVars
<1>13. ASSUME MergeStub
      PROVE  AskedIn'
  BY <1>13 DEF MergeStub, MergeEnds, Result, arrayVars, mergeVars, localVars, fileVars, taskVars
<1>14. ASSUME MergeOne
      PROVE  AskedIn'
  BY <1>14 DEF MergeOne, MergeEnds, Result, arrayVars, mergeVars, localVars, fileVars, taskVars
<1>15. ASSUME MergeArray
      PROVE  AskedIn'
  BY <1>15 DEF MergeArray, MergeEnds, Result, Create, arrayVars, mergeVars, localVars, fileVars, taskVars
<1>16. ASSUME VmidArray
      PROVE  AskedIn'
  BY <1>16 DEF VmidArray, Result, Create, arrayVars, mergeVars, localVars, fileVars, taskVars
<1>20. ASSUME Others
      PROVE  AskedIn'
  BY <1>20 DEF Others
<1> QED
  BY <1>1, <1>2, <1>3, <1>4, <1>5, <1>6, <1>7, <1>8, <1>9, <1>10, <1>11, <1>12, <1>13, <1>14, <1>15, <1>16, <1>20, OthersStep DEF Next, Merge

LEMMA CountsFinite ==
  ASSUME MergeType, mpc # "done", NEW k \in 1 .. 2
  PROVE  /\ IsFiniteSet(Counted(k)) /\ Cardinality(Counted(k)) \in Nat
         /\ IsFiniteSet(Left(k)) /\ Cardinality(Left(k)) \in Nat
         /\ DOMAIN inp[k] = 1 .. Len(inp[k]) /\ Len(inp[k]) \in Nat
<1>1. DOMAIN inp[k] = 1 .. Len(inp[k]) /\ Len(inp[k]) \in Nat
  BY DEF MergeType
<1>2. IsFiniteSet(DOMAIN inp[k])
  <2>1. IsFiniteSet(1 .. Len(inp[k]))
    BY <1>1, FS_Interval
  <2> QED
    BY <1>1, <2>1
<1>3. Counted(k) \subseteq DOMAIN inp[k] /\ Left(k) \subseteq DOMAIN inp[k]
  BY DEF Counted, Left
<1>4. IsFiniteSet(Counted(k)) /\ IsFiniteSet(Left(k))
  BY <1>2, <1>3, CountPart
<1> QED
  BY <1>1, <1>4, CountType

\* Nothing comes to what is counted,
LEMMA FewerCounted ==
  ASSUME MergeType, Fits, mpc = "count", UNCHANGED <<mpc, size>>,
         Counted(1)' \subseteq Counted(1), Counted(2)' \subseteq Counted(2)
  PROVE  Fits'
<1>1. /\ IsFiniteSet(Counted(1)) /\ Cardinality(Counted(1)) \in Nat
      /\ IsFiniteSet(Counted(2)) /\ Cardinality(Counted(2)) \in Nat
  BY CountsFinite
<1>2. /\ Cardinality(Counted(1)') \in Nat /\ Cardinality(Counted(1)') <= Cardinality(Counted(1))
      /\ Cardinality(Counted(2)') \in Nat /\ Cardinality(Counted(2)') <= Cardinality(Counted(2))
  BY <1>1, CountFewer
<1>3. Cardinality(Counted(1)') + Cardinality(Counted(2)') <= size /\ size \in Nat
  BY <1>1, <1>2 DEF Fits, MergeType
<1> QED
  BY <1>3 DEF Fits

\* or to what is left.
LEMMA FewerLeft ==
  ASSUME TypeOK, MergeType, Fits, mpc = "merge", UNCHANGED <<mpc, size, out>>,
         Left(1)' \subseteq Left(1), Left(2)' \subseteq Left(2)
  PROVE  Fits'
<1>1. /\ IsFiniteSet(Left(1)) /\ Cardinality(Left(1)) \in Nat
      /\ IsFiniteSet(Left(2)) /\ Cardinality(Left(2)) \in Nat
  BY CountsFinite
<1>2. /\ Cardinality(Left(1)') \in Nat /\ Cardinality(Left(1)') <= Cardinality(Left(1))
      /\ Cardinality(Left(2)') \in Nat /\ Cardinality(Left(2)') <= Cardinality(Left(2))
  BY <1>1, CountFewer
<1>3. Len(out) + Cardinality(Left(1)') + Cardinality(Left(2)') <= size /\ Len(out) \in Nat
  BY SMTT(60), <1>1, <1>2 DEF Fits, MergeType, TypeOK
<1> QED
  BY <1>3 DEF Fits

LEMMA FitsStep ==
  ASSUME TypeOK, MergeType, Phases, Selected, Fits, Next
  PROVE  Fits'
<1>1. ASSUME NEW f \in Fences, Signal(f)
      PROVE  Fits'
  <2>1. CASE mpc = "count"
    <3>1. Counted(1)' \subseteq Counted(1) /\ Counted(2)' \subseteq Counted(2)
      BY <1>1 DEF Signal, SignalFence, Counted, mergeVars, localVars
    <3> QED
      BY <1>1, <2>1, <3>1, FewerCounted DEF Signal, mergeVars, localVars
  <2>2. CASE mpc = "merge"
    <3>1. Left(1)' \subseteq Left(1) /\ Left(2)' \subseteq Left(2)
      BY <1>1 DEF Signal, SignalFence, Left, mergeVars, localVars
    <3> QED
      BY <1>1, <2>2, <3>1, FewerLeft DEF Signal, mergeVars, localVars
  <2> QED
    BY <1>1, <2>1, <2>2 DEF Signal, Fits, Phases, mergeVars
<1>2. ASSUME CountNext
      PROVE  Fits'
  BY <1>2 DEF CountNext, Fits, Counted, arrayVars
<1>3. ASSUME CountFence
      PROVE  Fits'
  <2> DEFINE j == 3 - i
  <2>1. i \in 1 .. 2 /\ j \in 1 .. 2 /\ {i, j} = {1, 2} /\ i # j
    BY <1>3 DEF CountFence, MergeType
  <2>2. /\ IsFiniteSet(Counted(i)) /\ Cardinality(Counted(i)) \in Nat
        /\ IsFiniteSet(Counted(j)) /\ Cardinality(Counted(j)) \in Nat
    BY <1>3, <2>1, CountsFinite DEF CountFence
  <2> HIDE DEF j
  <2> DEFINE T(k) == {n \in DOMAIN inp[k] : n < pos'[k] /\ inp[k][n] \notin sig}
             x == pos[i]
  <2>3. Counted(1)' = T(1) /\ Counted(2)' = T(2)
    BY <1>3 DEF CountFence, Counted, arrayVars
  <2>4. \A n : n # x => (n \in Counted(i) <=> n \in T(i))
    BY <1>3, <2>1 DEF CountFence, Counted, MergeType
  <2>5. x \notin Counted(i) /\ (x \in T(i) <=> At(i) \notin sig)
    BY <1>3, <2>1 DEF CountFence, Counted, MergeType, AtEnd, At
  <2>6. T(j) = Counted(j)
    BY <1>3, <2>1 DEF CountFence, Counted, MergeType
  <2> HIDE DEF T, x
  <2>7. /\ Cardinality(T(i)) \in Nat
        /\ Cardinality(T(i)) = Cardinality(Counted(i)) + (IF x \in T(i) THEN 1 ELSE 0)
                                   - (IF x \in Counted(i) THEN 1 ELSE 0)
    BY <2>2, <2>4, CountChange
  <2>8. Cardinality(Counted(i)) + Cardinality(Counted(j)) <= size /\ size \in Nat
    BY <1>3, <2>1, <2>2 DEF Fits, CountFence, MergeType
  <2>9. Cardinality(T(i)) + Cardinality(T(j)) <= size' /\ mpc' = "count"
    BY <1>3, <2>2, <2>5, <2>6, <2>7, <2>8 DEF CountFence
  <2>10. Cardinality(T(1)) + Cardinality(T(2)) <= size'
    <3>1. CASE i = 1 /\ j = 2
      BY <2>9, <3>1
    <3>2. CASE i = 2 /\ j = 1
      <4>1. Cardinality(T(2)) + Cardinality(T(1)) <= size' /\ Cardinality(T(1)) \in Nat /\ Cardinality(T(2)) \in Nat
        BY <2>2, <2>6, <2>7, <2>9, <3>2
      <4> QED
        BY <4>1
    <3> QED
      BY <2>1, <3>1, <3>2
  <2> QED
    BY <2>3, <2>9, <2>10 DEF Fits
<1>4. ASSUME CountIsZero
      PROVE  Fits'
  BY <1>4 DEF CountIsZero, Result, Fits
<1>5. ASSUME MergeBegin
      PROVE  Fits'
  <2>1. Left(1)' \subseteq Counted(1) /\ Left(2)' \subseteq Counted(2)
    BY <1>5 DEF MergeBegin, Left, Counted, Selected, MergeType, AtEnd, arrayVars
  <2>2. /\ IsFiniteSet(Counted(1)) /\ Cardinality(Counted(1)) \in Nat
        /\ IsFiniteSet(Counted(2)) /\ Cardinality(Counted(2)) \in Nat
    BY <1>5, CountsFinite DEF MergeBegin
  <2>3. /\ Cardinality(Left(1)') \in Nat /\ Cardinality(Left(1)') <= Cardinality(Counted(1))
        /\ Cardinality(Left(2)') \in Nat /\ Cardinality(Left(2)') <= Cardinality(Counted(2))
    BY <2>1, <2>2, CountFewer
  <2>4. out' = <<>> /\ Len(out') = 0 /\ mpc' = "merge" /\ size' = size /\ size \in Nat
    BY <1>5 DEF MergeBegin, Phases, MergeType
  <2>5. Cardinality(Counted(1)) + Cardinality(Counted(2)) <= size
    BY <1>5 DEF MergeBegin, Fits
  <2> QED
    BY <2>2, <2>3, <2>4, <2>5 DEF Fits
<1>6. ASSUME MergeNoMemory
      PROVE  Fits'
  BY <1>6 DEF MergeNoMemory, Result, Fits
<1>7. ASSUME MergeSkip
      PROVE  Fits'
  <2>1. i \in 1 .. 2 /\ sel # i /\ pos[i] \in DOMAIN inp[i] /\ inp[i][pos[i]] \in sig
    BY <1>7 DEF MergeSkip, Selected, MergeType, AtEnd, At
  <2>2. \A k \in 1 .. 2 : /\ k # i => pos'[k] = pos[k]
                          /\ k = i => pos'[k] = pos[k] + 1
    BY <1>7, <2>1 DEF MergeSkip, MergeType
  <2>3. UNCHANGED <<inp, sig, sel>> /\ \A k \in 1 .. 2 : pos[k] \in Nat /\ DOMAIN inp[k] \subseteq Nat
    BY <1>7 DEF MergeSkip, arrayVars, MergeType
  <2>4. Left(1)' \subseteq Left(1) /\ Left(2)' \subseteq Left(2)
    <3>1. ASSUME NEW n \in Left(1)' PROVE n \in Left(1)
      <4>1. CASE i = 1
        BY <2>1, <2>2, <2>3, <3>1, <4>1 DEF Left
      <4>2. CASE i # 1
        <5>1. pos'[1] = pos[1]
          BY <2>1, <2>2, <4>2
        <5> QED
          BY <2>3, <3>1, <5>1 DEF Left
      <4> QED
        BY <4>1, <4>2
    <3>2. ASSUME NEW n \in Left(2)' PROVE n \in Left(2)
      <4>1. CASE i = 2
        BY <2>1, <2>2, <2>3, <3>2, <4>1 DEF Left
      <4>2. CASE i # 2
        <5>1. pos'[2] = pos[2]
          BY <2>1, <2>2, <4>2
        <5> QED
          BY <2>3, <3>2, <5>1 DEF Left
      <4> QED
        BY <4>1, <4>2
    <3> QED
      BY <3>1, <3>2
  <2> QED
    BY <1>7, <2>4, FewerLeft DEF MergeSkip
<1>8. ASSUME MergeNext
      PROVE  Fits'
  <2>5. Left(1)' \subseteq Left(1) /\ Left(2)' \subseteq Left(2)
    BY <1>8 DEF MergeNext, arrayVars, Left, Selected, MergeType, AtEnd, At, TypeOK
  <2> QED
    BY <1>8, <2>5, FewerLeft DEF MergeNext, arrayVars
<1>9. ASSUME MergeSelect
      PROVE  Fits'
  <2>5. Left(1)' \subseteq Left(1) /\ Left(2)' \subseteq Left(2)
    BY <1>9 DEF MergeSelect, Compares, arrayVars, Left, Selected, MergeType, AtEnd, At, TypeOK
  <2> QED
    BY <1>9, <2>5, FewerLeft DEF MergeSelect, Compares, arrayVars
<1>10. ASSUME MergeKeep
      PROVE  Fits'
  <2>5. Left(1)' \subseteq Left(1) /\ Left(2)' \subseteq Left(2)
    BY <1>10 DEF MergeKeep, Compares, arrayVars, Left, Selected, MergeType, AtEnd, At, TypeOK
  <2> QED
    BY <1>10, <2>5, FewerLeft DEF MergeKeep, Compares, arrayVars
<1>11. ASSUME MergeDrop
      PROVE  Fits'
  <2>1. Dropped \in 1 .. 2
    BY <1>11 DEF MergeDrop, Compares, Dropped, MergeType, Selected
  <2>2. \A k \in 1 .. 2 : pos[k] \in Nat /\ pos'[k] \in Nat /\ pos'[k] >= pos[k]
    BY <1>11, <2>1 DEF MergeDrop, Compares, MergeType
  <2>3. UNCHANGED <<inp, sig>> /\ sel' = 0 /\ \A k \in 1 .. 2 : DOMAIN inp[k] \subseteq Nat
    BY <1>11 DEF MergeDrop, Compares, arrayVars, MergeType
  <2>4. Left(1)' \subseteq Left(1) /\ Left(2)' \subseteq Left(2)
    BY <2>2, <2>3 DEF Left
  <2> QED
    BY <1>11, <2>4, FewerLeft DEF MergeDrop, Compares
<1>12. ASSUME MergeOut
      PROVE  Fits'
  <2> DEFINE j == 3 - sel
  <2>1. sel \in 1 .. 2 /\ j \in 1 .. 2 /\ {sel, j} = {1, 2} /\ sel # j /\ ~AtEnd(sel)
    BY <1>12 DEF MergeOut, MergeType, Selected
  <2>2. /\ IsFiniteSet(Left(sel)) /\ Cardinality(Left(sel)) \in Nat
        /\ IsFiniteSet(Left(j)) /\ Cardinality(Left(j)) \in Nat
    BY <1>12, <2>1, CountsFinite DEF MergeOut
  <2> HIDE DEF j
  <2> DEFINE T(k) == {n \in DOMAIN inp[k] : n >= pos'[k] /\ inp[k][n] \notin sig}
  <2>3. Left(1)' = T(1) /\ Left(2)' = T(2)
    BY <1>12 DEF MergeOut, Left, MergeType
  <2>4. T(j) \subseteq Left(j)
    BY <1>12, <2>1 DEF MergeOut, Left, MergeType
  <2>5. T(sel) \subseteq Left(sel) \ {pos[sel]} /\ pos[sel] \in Left(sel)
    BY SMTT(60), <1>12, <2>1 DEF MergeOut, Left, MergeType, AtEnd
  <2> HIDE DEF T
  <2>6. /\ IsFiniteSet(Left(sel) \ {pos[sel]})
        /\ Cardinality(Left(sel) \ {pos[sel]}) = Cardinality(Left(sel)) - 1
    BY <2>2, <2>5, FS_RemoveElement
  <2>7. /\ Cardinality(T(j)) \in Nat /\ Cardinality(T(j)) <= Cardinality(Left(j))
    BY <2>2, <2>4, CountFewer
  <2>8. /\ Cardinality(T(sel)) \in Nat
        /\ Cardinality(T(sel)) <= Cardinality(Left(sel)) - 1
    BY <2>5, <2>6, CountFewer
  <2>9. Len(out) + Cardinality(Left(sel)) + Cardinality(Left(j)) <= size /\ size \in Nat
    BY SMTT(60), <1>12, <2>1, <2>2 DEF Fits, MergeOut, MergeType, TypeOK
  <2>10. Len(out) \in Nat /\ Len(out') = Len(out) + 1 /\ mpc' = "merge" /\ size' = size
    BY <1>12 DEF MergeOut, TypeOK
  <2>11. Len(out') + Cardinality(T(sel)) + Cardinality(T(j)) <= size
    BY <2>2, <2>7, <2>8, <2>9, <2>10
  <2>12. Len(out') + Cardinality(T(1)) + Cardinality(T(2)) <= size
    BY <2>1, <2>7, <2>8, <2>10, <2>11
  <2> QED
    BY <2>3, <2>10, <2>12 DEF Fits
<1>13. ASSUME MergeStub
      PROVE  Fits'
  BY <1>13 DEF MergeStub, Result, Fits
<1>14. ASSUME MergeOne
      PROVE  Fits'
  BY <1>14 DEF MergeOne, Result, Fits
<1>15. ASSUME MergeArray
      PROVE  Fits'
  BY <1>15 DEF MergeArray, Result, Fits
<1>16. ASSUME VmidArray
      PROVE  Fits'
  BY <1>16 DEF VmidArray, Result, Fits
<1>20. ASSUME Others
      PROVE  Fits'
  BY <1>20 DEF Others, Fits, Counted, Left
<1> QED
  BY <1>1, <1>2, <1>3, <1>4, <1>5, <1>6, <1>7, <1>8, <1>9, <1>10, <1>11, <1>12, <1>13, <1>14, <1>15, <1>16, <1>20, OthersStep DEF Next, Merge

LEMMA FenceNumber ==
  ASSUME NEW f \in Fences
  PROVE  f \in Int
BY MergeAssumption, SeqnoAssumption
\* The comparison of sequence numbers agrees with the order of emission.
LEMMA LaterSeqno ==
  ASSUME NEW f \in Fences, NEW g \in Fences
  PROVE  IsLater(Seqno(f), Seqno(g)) <=> f > g
<1>1. SignBit \in Nat \ {0} /\ FirstSeqno \in Nat /\ f \in 1 .. SignBit /\ g \in 1 .. SignBit
  BY MergeAssumption, SeqnoAssumption
<1> DEFINE d == (((FirstSeqno + f) % (2 * SignBit)) - ((FirstSeqno + g) % (2 * SignBit))) % (2 * SignBit)
<1>2. IsLater(Seqno(f), Seqno(g)) <=> (0 < d /\ d < SignBit)
  BY DEF IsLater, Seqno
<1> HIDE DEF d
<1>3. d = (((FirstSeqno + f) % (2 * SignBit)) - ((FirstSeqno + g) % (2 * SignBit))) % (2 * SignBit)
  BY DEF d
<1>4. (0 < d /\ d < SignBit) <=> f > g
  BY SMTT(60), <1>1, <1>3, LaterOfTwo
<1> QED
  BY <1>2, <1>4

OutNext(f)     == \E n \in DOMAIN out' : Stands(out'[n], f)
WaitingNext(f) ==
  \E k \in 1 .. 2 : \E j \in DOMAIN inp'[k] : j >= pos'[k] /\ Stands(inp'[k][j], f)

\* One fence leaves the inputs, and another one still stands for what it did.
LEMMA AdvanceCovers ==
  ASSUME MergeType, Covered, mpc = "merge", NEW d, Advances(d),
         UNCHANGED <<asked, sig, mpc>>, \A f \in asked : InOut(f) => OutNext(f),
         \A f \in asked : Stands(At(d), f) => f \in sig \/ OutNext(f) \/ WaitingNext(f)
  PROVE  Covered'
<1>1. SUFFICES ASSUME NEW f \in asked PROVE f \in sig \/ OutNext(f) \/ WaitingNext(f)
  BY DEF Covered, InOut, Waiting, OutNext, WaitingNext, Stands
<1>2. CASE Waiting(f)
  <2>0. PICK k \in 1 .. 2 : \E j \in DOMAIN inp[k] : j >= pos[k] /\ Stands(inp[k][j], f)
    BY <1>2 DEF Waiting
  <2>1. PICK j \in DOMAIN inp[k] : j >= pos[k] /\ Stands(inp[k][j], f)
    BY <2>0
  <2>2. CASE k = d /\ j = pos[d]
    BY <2>1, <2>2 DEF At
  <2>3. CASE ~(k = d /\ j = pos[d])
    <3>1. j \in Nat /\ pos[k] \in Nat /\ d \in 1 .. 2
      BY DEF Advances, MergeType
    <3>2. j >= pos'[k]
      BY <2>1, <2>3, <3>1 DEF Advances, MergeType
    <3>3. inp' = inp
      BY DEF Advances
    <3>4. WaitingNext(f)
      BY <2>1, <3>2, <3>3 DEF WaitingNext, Stands
    <3> QED
      BY <3>4
  <2> QED
    BY <2>2, <2>3
<1> QED
  BY <1>1, <1>2 DEF Covered

LEMMA CoveredStep ==
  ASSUME TypeOK, MergeType, Phases, Selected, Ordered, AskedIn, Covered, Next
  PROVE  Covered'
<1>1. ASSUME NEW f \in Fences, Signal(f)
      PROVE  Covered'
  BY <1>1 DEF Signal, SignalFence, Covered, InOut, Waiting, Stands, mergeVars, localVars
<1>2. ASSUME CountNext
      PROVE  Covered'
  BY <1>2 DEF CountNext, Covered
<1>3. ASSUME CountFence
      PROVE  Covered'
  BY <1>3 DEF CountFence, Covered
<1>4. ASSUME CountIsZero
      PROVE  Covered'
  BY <1>4 DEF CountIsZero, Result, Covered
<1>5. ASSUME MergeBegin
      PROVE  Covered'
  <2>1. ASSUME NEW f \in asked PROVE WaitingNext(f)
    <3>0. PICK k \in 1 .. 2 : \E j \in DOMAIN inp[k] : inp[k][j] = f
      BY <1>5 DEF AskedIn, MergeBegin
    <3>1. PICK j \in DOMAIN inp[k] : inp[k][j] = f
      BY <3>0
    <3>2. inp' = inp /\ pos'[k] = 1 /\ j \in Nat /\ j >= 1 /\ f \in Int
      BY SMTT(60), <1>5, MergeAssumption DEF MergeBegin, MergeType, TypeOK
    <3> QED
      BY <3>1, <3>2 DEF WaitingNext, Stands
  <2> QED
    BY <1>5, <2>1 DEF MergeBegin, Covered, Waiting, WaitingNext, Stands
<1>6. ASSUME MergeNoMemory
      PROVE  Covered'
  BY <1>6 DEF MergeNoMemory, Result, Covered
<1>7. ASSUME MergeSkip
      PROVE  Covered'
  <2>1. Advances(i) /\ UNCHANGED <<asked, sig, mpc, out>> /\ mpc = "merge" /\ At(i) \in sig
    BY <1>7 DEF MergeSkip, Advances, MergeType, arrayVars
  <2>2. ASSUME NEW f \in asked, Stands(At(i), f) PROVE f \in sig
    <3>1. f \in Fences /\ f \in Int /\ At(i) \in Int
      <4>1. f \in Fences /\ At(i) \in Fences
        BY <2>1, <2>2 DEF TypeOK
      <4> QED
        BY <4>1, FenceNumber
    <3> QED
      BY <2>1, <2>2, <3>1 DEF Ordered, Stands
  <2>3. \A f \in asked : InOut(f) => OutNext(f)
    BY <2>1 DEF InOut, OutNext
  <2> QED
    BY <2>1, <2>2, <2>3, AdvanceCovers
<1>8. ASSUME MergeNext
      PROVE  Covered'
  BY <1>8 DEF MergeNext, Compares, Covered, InOut, Waiting, Stands, arrayVars
<1>9. ASSUME MergeSelect
      PROVE  Covered'
  BY <1>9 DEF MergeSelect, Compares, Covered, InOut, Waiting, Stands, arrayVars
<1>10. ASSUME MergeKeep
      PROVE  Covered'
  BY <1>10 DEF MergeKeep, Compares, Covered, InOut, Waiting, Stands, arrayVars
<1>11. ASSUME MergeDrop
      PROVE  Covered'
  <2> DEFINE d == Dropped
             e == IF d = i THEN sel ELSE i
  <2>1. /\ i \in 1 .. 2 /\ sel \in 1 .. 2 /\ sel # i /\ ~AtEnd(sel) /\ ~AtEnd(i)
        /\ Context[At(sel)] = Context[At(i)] /\ mpc = "merge"
    BY <1>11 DEF MergeDrop, Compares, Selected, MergeType
  <2>2. At(sel) \in Fences /\ At(i) \in Fences
    BY <2>1 DEF MergeType, AtEnd, At
  <2>3. d \in 1 .. 2 /\ e \in 1 .. 2 /\ e # d /\ ~AtEnd(e) /\ ~AtEnd(d)
    BY <2>1 DEF Dropped
  <2>4. At(e) \in Int /\ At(d) \in Int /\ At(e) >= At(d) /\ Context[At(e)] = Context[At(d)]
    <3>1. At(sel) \in Int /\ At(i) \in Int
      BY <2>2, FenceNumber
    <3>2. CASE At(sel) > At(i)
      <4>1. d = i /\ e = sel
        BY <2>1, <2>2, <3>2, LaterSeqno DEF Dropped
      <4> QED
        BY <2>1, <3>1, <3>2, <4>1
    <3>3. CASE ~(At(sel) > At(i))
      <4>1. d = sel /\ e = i
        BY <2>1, <2>2, <3>3, LaterSeqno DEF Dropped
      <4> QED
        BY <2>1, <3>1, <3>3, <4>1
    <3> QED
      BY <3>2, <3>3
  <2>5. Advances(d) /\ UNCHANGED <<asked, sig, mpc, out>>
    BY <1>11, <2>3 DEF MergeDrop, Advances, arrayVars
  <2> HIDE DEF d, e
  <2>6. ASSUME NEW f \in asked, Stands(At(d), f) PROVE WaitingNext(f)
    <3>1. f \in Int
      BY MergeAssumption DEF TypeOK
    <3>2. Stands(inp[e][pos[e]], f)
      BY <2>4, <2>6, <3>1 DEF Stands, At
    <3>3. pos'[e] = pos[e] /\ inp' = inp /\ pos[e] \in DOMAIN inp[e] /\ pos[e] \in Nat
      BY SMTT(60), <2>1, <2>3, <2>5 DEF Advances, MergeType, AtEnd
    <3> QED
      BY <2>3, <3>2, <3>3 DEF WaitingNext, Stands
  <2>7. \A f \in asked : InOut(f) => OutNext(f)
    BY <2>5 DEF InOut, OutNext
  <2> QED
    BY <2>1, <2>5, <2>6, <2>7, AdvanceCovers
<1>12. ASSUME MergeOut
      PROVE  Covered'
  <2>1. /\ mpc = "merge" /\ Advances(sel) /\ UNCHANGED <<asked, sig, mpc>>
        /\ out' = Append(out, At(sel))
    BY <1>12 DEF MergeOut, Advances, Selected, MergeType
  <2>2. out \in Seq(Fences) /\ At(sel) \in Fences
    BY SMTT(60), <1>12, <2>1 DEF Advances, MergeType, AtEnd, At, TypeOK
  <2>3. /\ Len(out) + 1 \in DOMAIN out' /\ out'[Len(out) + 1] = At(sel)
        /\ \A n \in DOMAIN out : n \in DOMAIN out' /\ out'[n] = out[n]
    BY <2>1, <2>2
  <2>4. \A f \in asked : InOut(f) => OutNext(f)
    BY <2>3 DEF InOut, OutNext
  <2>5. \A f \in asked : Stands(At(sel), f) => OutNext(f)
    BY <2>3 DEF InOut, OutNext
  <2> QED
    BY <2>1, <2>4, <2>5, AdvanceCovers
<1>13. ASSUME MergeStub
      PROVE  Covered'
  BY <1>13 DEF MergeStub, Result, Covered
<1>14. ASSUME MergeOne
      PROVE  Covered'
  BY <1>14 DEF MergeOne, Result, Covered
<1>15. ASSUME MergeArray
      PROVE  Covered'
  BY <1>15 DEF MergeArray, Result, Covered
<1>16. ASSUME VmidArray
      PROVE  Covered'
  BY <1>16 DEF VmidArray, Result, Covered
<1>20. ASSUME Others
      PROVE  Covered'
  BY <1>20 DEF Others, Covered, InOut, Waiting, Stands
<1> QED
  BY <1>1, <1>2, <1>3, <1>4, <1>5, <1>6, <1>7, <1>8, <1>9, <1>10, <1>11, <1>12, <1>13, <1>14, <1>15, <1>16, <1>20, OthersStep DEF Next, Merge

LEMMA NotWaiting ==
  ASSUME MergeType, Selected, Covered, MergeEnds
  PROVE  \A f \in asked : f \in sig \/ InOut(f)
<1>1. \A k \in 1 .. 2 : AtEnd(k)
  BY DEF Selected, MergeEnds, MergeType
<1>2. ASSUME NEW f \in asked PROVE ~Waiting(f)
  BY <1>1 DEF Waiting, AtEnd, MergeType, MergeEnds
<1> QED
  BY <1>2 DEF Covered, MergeEnds

LEMMA ResultStep ==
  ASSUME TypeOK, MergeType, Phases, Selected, Fits, AskedIn, Covered, ResultSound, Next
  PROVE  ResultSound'
<1> USE DEF ResultSound
<1>1. ASSUME NEW f \in Fences, Signal(f)
      PROVE  ResultSound'
  <2>1. UNCHANGED <<asked, res, array>> /\ sig \subseteq sig'
    BY <1>1 DEF Signal, SignalFence, mergeVars
  <2> QED
    BY <2>1 DEF Covers, HasArray, Slots
<1>2. ASSUME CountNext
      PROVE  ResultSound'
  BY <1>2 DEF CountNext, Compares, Phases, fileVars
<1>3. ASSUME CountFence
      PROVE  ResultSound'
  BY <1>3 DEF CountFence, Compares, Phases, fileVars
<1>4. ASSUME CountIsZero
      PROVE  ResultSound'
  <2>1. /\ IsFiniteSet(Counted(1)) /\ Cardinality(Counted(1)) \in Nat
        /\ IsFiniteSet(Counted(2)) /\ Cardinality(Counted(2)) \in Nat
    BY <1>4, CountsFinite DEF CountIsZero
  <2>2. Cardinality(Counted(1)) = 0 /\ Cardinality(Counted(2)) = 0
    BY <1>4, <2>1 DEF CountIsZero, Fits
  <2>3. Counted(1) = {} /\ Counted(2) = {}
    BY <2>1, <2>2, CountType
  <2>4. \A k \in 1 .. 2 : \A j \in DOMAIN inp[k] : j < pos[k]
    BY <1>4 DEF CountIsZero, Selected, MergeType, AtEnd
  <2>5. \A k \in 1 .. 2 : \A j \in DOMAIN inp[k] : inp[k][j] \in sig
    BY <2>3, <2>4 DEF Counted
  <2>6. \A f \in asked : f \in sig
    BY <1>4, <2>5 DEF AskedIn, CountIsZero
  <2> QED
    BY <1>4, <2>6 DEF CountIsZero, Result, arrayVars
<1>5. ASSUME MergeBegin
      PROVE  ResultSound'
  BY <1>5 DEF MergeBegin, Compares, Phases, fileVars
<1>6. ASSUME MergeNoMemory
      PROVE  ResultSound'
  BY <1>6 DEF MergeNoMemory, Result
<1>7. ASSUME MergeSkip
      PROVE  ResultSound'
  BY <1>7 DEF MergeSkip, Compares, Phases, fileVars
<1>8. ASSUME MergeNext
      PROVE  ResultSound'
  BY <1>8 DEF MergeNext, Compares, Phases, fileVars
<1>9. ASSUME MergeSelect
      PROVE  ResultSound'
  BY <1>9 DEF MergeSelect, Compares, Phases, fileVars
<1>10. ASSUME MergeKeep
      PROVE  ResultSound'
  BY <1>10 DEF MergeKeep, Compares, Phases, fileVars
<1>11. ASSUME MergeDrop
      PROVE  ResultSound'
  BY <1>11 DEF MergeDrop, Compares, Phases, fileVars
<1>12. ASSUME MergeOut
      PROVE  ResultSound'
  BY <1>12 DEF MergeOut, Compares, Phases, fileVars
<1>13. ASSUME MergeStub
      PROVE  ResultSound'
  <2>1. \A f \in asked : f \in sig
    <3>1. DOMAIN out = {}
      BY <1>13 DEF MergeStub, TypeOK
    <3> QED
      BY <1>13, <3>1, NotWaiting DEF MergeStub, InOut
  <2> QED
    BY <1>13, <2>1 DEF MergeStub, Result, arrayVars
<1>14. ASSUME MergeOne
      PROVE  ResultSound'
  <2>1. DOMAIN out = {1}
    BY <1>14 DEF MergeOne, TypeOK
  <2>2. \A f \in asked : f \in sig \/ Stands(out[1], f)
    BY <1>14, <2>1, NotWaiting DEF MergeOne, InOut
  <2>3. Covers' = {out[1]} /\ asked' = asked /\ sig' = sig
    BY <1>14 DEF MergeOne, Result, Covers, HasArray, arrayVars
  <2> QED
    BY <2>2, <2>3 DEF Stands
<1>15. ASSUME MergeArray
      PROVE  ResultSound'
  <2>1. \A f \in asked : f \in sig \/ InOut(f)
    BY <1>15, NotWaiting DEF MergeArray
  <2>2. Covers' = {out[k] : k \in DOMAIN out} /\ asked' = asked /\ sig' = sig
    BY <1>15 DEF MergeArray, Result, Create, Covers, HasArray, Slots
  <2> QED
    BY <2>1, <2>2 DEF Stands, InOut
<1>16. ASSUME VmidArray
      PROVE  ResultSound'
  BY <1>16 DEF VmidArray, Result
<1>20. ASSUME Others
      PROVE  ResultSound'
  BY <1>20 DEF Others, Covers, HasArray, Slots
<1> QED
  BY <1>1, <1>2, <1>3, <1>4, <1>5, <1>6, <1>7, <1>8, <1>9, <1>10, <1>11, <1>12, <1>13, <1>14, <1>15, <1>16, <1>20, OthersStep DEF Next, Merge

LEMMA MergeIsSound ==
  ASSUME TypeOK, MergeType, Fits, ResultSound
  PROVE  MergeSound
<1>1. ASSUME mpc = "merge" PROVE Len(out) <= size
  <2>1. Cardinality(Left(1)) \in Nat /\ Cardinality(Left(2)) \in Nat
    BY <1>1, CountsFinite
  <2>2. Len(out) \in Nat /\ size \in Nat
    BY <1>1 DEF TypeOK, MergeType
  <2> QED
    BY <1>1, <2>1, <2>2 DEF Fits
<1> QED
  BY <1>1 DEF MergeSound, ResultSound

LEMMA SlotsFinite ==
  ASSUME TypeOK
  PROVE  /\ Slots = 1 .. Len(array) /\ Len(array) \in Nat /\ IsFiniteSet(Slots)
         /\ IsFiniteSet(PendingSlots) /\ Cardinality(PendingSlots) \in Nat
<1>1. Slots = 1 .. Len(array) /\ Len(array) \in Nat
  BY DEF TypeOK, Slots
<1>2. IsFiniteSet(1 .. Len(array))
  BY <1>1, FS_Interval
<1>3. IsFiniteSet(PendingSlots)
  BY <1>1, <1>2, CountPart DEF PendingSlots
<1> QED
  BY <1>1, <1>2, <1>3, CountType

\* When enable_signaling() takes num_pending to 0, it counted no other fence.
LEMMA LastPends ==
  ASSUME TypeOK, NoArray, EnableInv, PendingInv, EnableLast, any = "all"
  PROVE  HasArray /\ \A k \in Slots : k # en => ~Pends(k)
<1>1. en \in Slots /\ pending = 1 /\ en # 0 /\ HasArray
  BY DEF EnableLast, AddFails, TakesToZero, NoArray, Slots, TypeOK
<1>2. IsFiniteSet(PendingSlots) /\ Cardinality(PendingSlots) = 1
  BY <1>1, SlotsFinite DEF PendingInv
<1>3. en \in PendingSlots
  BY <1>1 DEF PendingSlots, EnableInv, Pends, Passed, TypeOK
<1>4. PendingSlots = {en}
  BY <1>2, <1>3, CountOne
<1> QED
  BY <1>1, <1>4 DEF PendingSlots

LEMMA AddsSlot ==
  ASSUME TypeOK, EnableInv, EnableAdd
  PROVE  /\ en \in 1 .. Len(array) /\ Len(array) \in Nat /\ DOMAIN array = 1 .. Len(array)
         /\ en' = en + 1 /\ slow' = 0 /\ enabled /\ enabled'
         /\ UNCHANGED <<array, sig, any, pending, aref, ref, asig, work>>
         /\ \A k \in DOMAIN array : cb'[k] = IF k = en THEN "linked" ELSE cb[k]
<1>1. DOMAIN array = 1 .. Len(array) /\ Len(array) \in Nat
  BY DEF TypeOK
<1>2. en \in DOMAIN array
  BY DEF EnableAdd, EnableInv, Slots
<1>3. enabled
  BY <1>1, <1>2 DEF EnableInv
<1>4. enabled'
  BY <1>3 DEF EnableAdd
<1>5. \A k \in DOMAIN array : cb'[k] = IF k = en THEN "linked" ELSE cb[k]
  BY DEF EnableAdd, TypeOK, Slots
<1> QED
  BY <1>1, <1>2, <1>3, <1>4, <1>5 DEF EnableAdd

LEMMA EnableStep ==
  ASSUME TypeOK, MergeType, Phases, NoArray, EnableInv, Next
  PROVE  EnableInv'
<1> USE DEF TypeOK, Phases, NoArray, EnableInv, HasArray, Slots
<1>1. ASSUME NEW f \in Fences, Signal(f)
      PROVE  EnableInv'
  BY <1>1 DEF Signal, SignalFence, CallNode, Woken, arrayVars, mergeVars, localVars, fileVars, taskVars
<1>2. ASSUME CountNext
      PROVE  EnableInv'
  BY <1>2 DEF CountNext, arrayVars, mergeVars, localVars, fileVars, taskVars
<1>3. ASSUME CountFence
      PROVE  EnableInv'
  BY <1>3 DEF CountFence, arrayVars, mergeVars, localVars, fileVars, taskVars
<1>4. ASSUME CountIsZero
      PROVE  EnableInv'
  BY <1>4 DEF CountIsZero, Result, arrayVars, mergeVars, localVars, fileVars, taskVars
<1>5. ASSUME MergeBegin
      PROVE  EnableInv'
  BY <1>5 DEF MergeBegin, arrayVars, mergeVars, localVars, fileVars, taskVars
<1>6. ASSUME MergeNoMemory
      PROVE  EnableInv'
  BY <1>6 DEF MergeNoMemory, Result, arrayVars, mergeVars, localVars, fileVars, taskVars
<1>7. ASSUME MergeSkip
      PROVE  EnableInv'
  BY <1>7 DEF MergeSkip, arrayVars, mergeVars, localVars, fileVars, taskVars
<1>8. ASSUME MergeNext
      PROVE  EnableInv'
  BY <1>8 DEF MergeNext, arrayVars, mergeVars, localVars, fileVars, taskVars
<1>9. ASSUME MergeSelect
      PROVE  EnableInv'
  BY <1>9 DEF MergeSelect, Compares, arrayVars, mergeVars, localVars, fileVars, taskVars
<1>10. ASSUME MergeKeep
      PROVE  EnableInv'
  BY <1>10 DEF MergeKeep, Compares, arrayVars, mergeVars, localVars, fileVars, taskVars
<1>11. ASSUME MergeDrop
      PROVE  EnableInv'
  BY <1>11 DEF MergeDrop, Compares, arrayVars, mergeVars, localVars, fileVars, taskVars
<1>12. ASSUME MergeOut
      PROVE  EnableInv'
  BY <1>12 DEF MergeOut, arrayVars, mergeVars, localVars, fileVars, taskVars
<1>13. ASSUME MergeStub
      PROVE  EnableInv'
  BY <1>13 DEF MergeStub, MergeEnds, Result, arrayVars, mergeVars, localVars, fileVars, taskVars
<1>14. ASSUME MergeOne
      PROVE  EnableInv'
  BY <1>14 DEF MergeOne, MergeEnds, Result, arrayVars, mergeVars, localVars, fileVars, taskVars
<1>15. ASSUME MergeArray
      PROVE  EnableInv'
  BY <1>15 DEF MergeArray, MergeEnds, Result, Create, arrayVars, mergeVars, localVars, fileVars, taskVars
<1>16. ASSUME VmidArray
      PROVE  EnableInv'
  BY <1>16 DEF VmidArray, Result, Create, arrayVars, mergeVars, localVars, fileVars, taskVars
<1>17. ASSUME NEW k \in Slots, CallbackLast(k), UNCHANGED <<mergeVars, fileVars, taskVars>>
      PROVE  EnableInv'
  BY <1>17 DEF CallbackLast, arrayVars, mergeVars, localVars, fileVars, taskVars
<1>18. ASSUME NEW k \in Slots, CallbackCounts(k), UNCHANGED <<mergeVars, fileVars, taskVars>>
      PROVE  EnableInv'
  BY <1>18 DEF CallbackCounts, arrayVars, mergeVars, localVars, fileVars, taskVars
<1>19. ASSUME NEW k \in Slots, CallbackPut(k), UNCHANGED <<mergeVars, fileVars, taskVars>>
      PROVE  EnableInv'
  BY <1>19 DEF CallbackPut, PutArray, arrayVars, mergeVars, localVars, fileVars, taskVars
<1>20. ASSUME WorkSignal, CallNode, UNCHANGED <<mergeVars, res, open, flag, cpc>>
      PROVE  EnableInv'
  BY <1>20 DEF WorkSignal, CallNode, Woken, arrayVars, mergeVars, localVars, fileVars, taskVars
<1>21. ASSUME WorkPut, UNCHANGED <<mergeVars, fileVars, taskVars>>
      PROVE  EnableInv'
  BY <1>21 DEF WorkPut, PutArray, arrayVars, mergeVars, localVars, fileVars, taskVars
<1>22. ASSUME EnableTest, UNCHANGED <<mergeVars, fileVars, taskVars>>
      PROVE  EnableInv'
  BY <1>22 DEF EnableTest, EnableRefs, arrayVars, mergeVars, localVars, fileVars, taskVars
<1>23. ASSUME EnableAdd, UNCHANGED <<mergeVars, fileVars, taskVars>>
      PROVE  EnableInv'
  <2>1. /\ en \in 1 .. Len(array) /\ Len(array) \in Nat /\ DOMAIN array = 1 .. Len(array)
        /\ en' = en + 1 /\ slow' = 0 /\ enabled /\ enabled' /\ UNCHANGED <<array, sig, any>>
    BY <1>23, AddsSlot
  <2>2. ASSUME NEW k \in DOMAIN array PROVE cb'[k] = IF k = en THEN "linked" ELSE cb[k]
    BY <1>23, AddsSlot
  <2>3. en' \in 0 .. Len(array') + 1 /\ (en' # 0 => enabled') /\ (slow' = 1 => en' \in DOMAIN array')
    BY <2>1
  <2>4. ASSUME NEW k \in DOMAIN array, k >= en + 1 PROVE cb'[k] = "none"
    BY SMTT(60), <2>1, <2>2, <2>4
  <2> QED
    BY <2>1, <2>3, <2>4
<1>24. ASSUME EnableSkip, UNCHANGED <<mergeVars, fileVars, taskVars>>
      PROVE  EnableInv'
  BY <1>24 DEF EnableSkip, AddFails, TakesToZero, PutUnused, arrayVars, mergeVars, localVars, fileVars, taskVars
<1>25. ASSUME Close
      PROVE  EnableInv'
  BY <1>25 DEF Close, PutResult, PutArray, arrayVars, mergeVars, localVars, fileVars, taskVars
<1>26. ASSUME NEW p \in Pollers, PollStart(p)
      PROVE  EnableInv'
  BY <1>26 DEF PollStart, Goto, arrayVars, mergeVars, localVars, fileVars, taskVars
<1>27. ASSUME NEW p \in Pollers, PollFirst(p)
      PROVE  EnableInv'
  BY <1>27 DEF PollFirst, Goto, arrayVars, mergeVars, localVars, fileVars, taskVars
<1>28. ASSUME NEW p \in Pollers, PollOther(p)
      PROVE  EnableInv'
  BY <1>28 DEF PollOther, Goto, arrayVars, mergeVars, localVars, fileVars, taskVars
<1>29. ASSUME NEW p \in Pollers, PollAddFails(p)
      PROVE  EnableInv'
  BY <1>29 DEF PollAddFails, WokenAnd, Woken, arrayVars, mergeVars, localVars, fileVars, taskVars
<1>30. ASSUME NEW p \in Pollers, PollAdd(p)
      PROVE  EnableInv'
  BY <1>30 DEF PollAdd, Goto, arrayVars, mergeVars, localVars, fileVars, taskVars
<1>31. ASSUME NEW p \in Pollers, PollEnable(p)
      PROVE  EnableInv'
  BY <1>31 DEF PollEnable, Goto, EnableBegin, arrayVars, mergeVars, localVars, fileVars, taskVars
<1>32. ASSUME NEW p \in Pollers, PollEnabled(p)
      PROVE  EnableInv'
  BY <1>32 DEF PollEnabled, Goto, EnableEnd, arrayVars, mergeVars, localVars, fileVars, taskVars
<1>33. ASSUME NEW p \in Pollers, PollEnableFails(p)
      PROVE  EnableInv'
  BY <1>33 DEF PollEnableFails, EnableLast, AddFails, TakesToZero, PutUnused, WokenAnd, Woken, arrayVars, mergeVars, localVars, fileVars, taskVars
<1>34. ASSUME NEW p \in Pollers, PollReady(p)
      PROVE  EnableInv'
  BY <1>34 DEF PollReady, Goto, arrayVars, mergeVars, localVars, fileVars, taskVars
<1>35. ASSUME NEW p \in Pollers, PollSignals(p)
      PROVE  EnableInv'
  BY <1>35 DEF PollSignals, Poll, WokenAnd, Woken, arrayVars, mergeVars, localVars, fileVars, taskVars
<1>36. ASSUME NEW p \in Pollers, PollSleep(p)
      PROVE  EnableInv'
  BY <1>36 DEF PollSleep, Goto, arrayVars, mergeVars, localVars, fileVars, taskVars
<1>37. ASSUME NEW c \in Clients, ClientGet(c)
      PROVE  EnableInv'
  BY <1>37 DEF ClientGet, arrayVars, mergeVars, localVars, fileVars, taskVars
<1>38. ASSUME NEW c \in Clients, ClientEnable(c)
      PROVE  EnableInv'
  BY <1>38 DEF ClientEnable, EnableBegin, arrayVars, mergeVars, localVars, fileVars, taskVars
<1>39. ASSUME NEW c \in Clients, ClientEnabled(c)
      PROVE  EnableInv'
  BY <1>39 DEF ClientEnabled, EnableEnd, arrayVars, mergeVars, localVars, fileVars, taskVars
<1>40. ASSUME NEW c \in Clients, ClientEnableFails(c)
      PROVE  EnableInv'
  BY <1>40 DEF ClientEnableFails, EnableLast, AddFails, TakesToZero, PutUnused, CallNode, Woken, arrayVars, mergeVars, localVars, fileVars, taskVars
<1>41. ASSUME NEW c \in Clients, ClientPut(c)
      PROVE  EnableInv'
  BY <1>41 DEF ClientPut, PutArray, arrayVars, mergeVars, localVars, fileVars, taskVars
<1> QED
  BY <1>1, <1>2, <1>3, <1>4, <1>5, <1>6, <1>7, <1>8, <1>9, <1>10, <1>11, <1>12, <1>13, <1>14, <1>15, <1>16, <1>17, <1>18, <1>19, <1>20, <1>21, <1>22, <1>23, <1>24, <1>25, <1>26, <1>27, <1>28, <1>29, <1>30, <1>31, <1>32, <1>33, <1>34, <1>35, <1>36, <1>37, <1>38, <1>39, <1>40, <1>41 DEF Next, Merge, Callback, Work, EnableLoop, PollStep, ClientStep

LEMMA CalledStep ==
  ASSUME TypeOK, MergeType, Phases, NoArray, EnableInv, CalledInv, PendingInv, Next
  PROVE  CalledInv'
<1> USE DEF TypeOK, Phases, NoArray, EnableInv, CalledInv, Passed, HasArray, Slots
<1>1. ASSUME NEW f \in Fences, Signal(f)
      PROVE  CalledInv'
  BY <1>1 DEF Signal, SignalFence, CallNode, Woken, arrayVars, mergeVars, localVars, fileVars, taskVars
<1>2. ASSUME CountNext
      PROVE  CalledInv'
  BY <1>2 DEF CountNext, arrayVars, mergeVars, localVars, fileVars, taskVars
<1>3. ASSUME CountFence
      PROVE  CalledInv'
  BY <1>3 DEF CountFence, arrayVars, mergeVars, localVars, fileVars, taskVars
<1>4. ASSUME CountIsZero
      PROVE  CalledInv'
  BY <1>4 DEF CountIsZero, Result, arrayVars, mergeVars, localVars, fileVars, taskVars
<1>5. ASSUME MergeBegin
      PROVE  CalledInv'
  BY <1>5 DEF MergeBegin, arrayVars, mergeVars, localVars, fileVars, taskVars
<1>6. ASSUME MergeNoMemory
      PROVE  CalledInv'
  BY <1>6 DEF MergeNoMemory, Result, arrayVars, mergeVars, localVars, fileVars, taskVars
<1>7. ASSUME MergeSkip
      PROVE  CalledInv'
  BY <1>7 DEF MergeSkip, arrayVars, mergeVars, localVars, fileVars, taskVars
<1>8. ASSUME MergeNext
      PROVE  CalledInv'
  BY <1>8 DEF MergeNext, arrayVars, mergeVars, localVars, fileVars, taskVars
<1>9. ASSUME MergeSelect
      PROVE  CalledInv'
  BY <1>9 DEF MergeSelect, Compares, arrayVars, mergeVars, localVars, fileVars, taskVars
<1>10. ASSUME MergeKeep
      PROVE  CalledInv'
  BY <1>10 DEF MergeKeep, Compares, arrayVars, mergeVars, localVars, fileVars, taskVars
<1>11. ASSUME MergeDrop
      PROVE  CalledInv'
  BY <1>11 DEF MergeDrop, Compares, arrayVars, mergeVars, localVars, fileVars, taskVars
<1>12. ASSUME MergeOut
      PROVE  CalledInv'
  BY <1>12 DEF MergeOut, arrayVars, mergeVars, localVars, fileVars, taskVars
<1>13. ASSUME MergeStub
      PROVE  CalledInv'
  BY <1>13 DEF MergeStub, MergeEnds, Result, arrayVars, mergeVars, localVars, fileVars, taskVars
<1>14. ASSUME MergeOne
      PROVE  CalledInv'
  BY <1>14 DEF MergeOne, MergeEnds, Result, arrayVars, mergeVars, localVars, fileVars, taskVars
<1>15. ASSUME MergeArray
      PROVE  CalledInv'
  BY <1>15 DEF MergeArray, MergeEnds, Result, Create, arrayVars, mergeVars, localVars, fileVars, taskVars
<1>16. ASSUME VmidArray
      PROVE  CalledInv'
  BY <1>16 DEF VmidArray, Result, Create, arrayVars, mergeVars, localVars, fileVars, taskVars
<1>17. ASSUME NEW k \in Slots, CallbackLast(k), UNCHANGED <<mergeVars, fileVars, taskVars>>
      PROVE  CalledInv'
  BY <1>17 DEF CallbackLast, arrayVars, mergeVars, localVars, fileVars, taskVars
<1>18. ASSUME NEW k \in Slots, CallbackCounts(k), UNCHANGED <<mergeVars, fileVars, taskVars>>
      PROVE  CalledInv'
  BY <1>18 DEF CallbackCounts, arrayVars, mergeVars, localVars, fileVars, taskVars
<1>19. ASSUME NEW k \in Slots, CallbackPut(k), UNCHANGED <<mergeVars, fileVars, taskVars>>
      PROVE  CalledInv'
  BY <1>19 DEF CallbackPut, PutArray, arrayVars, mergeVars, localVars, fileVars, taskVars
<1>20. ASSUME WorkSignal, CallNode, UNCHANGED <<mergeVars, res, open, flag, cpc>>
      PROVE  CalledInv'
  BY <1>20 DEF WorkSignal, CallNode, Woken, arrayVars, mergeVars, localVars, fileVars, taskVars
<1>21. ASSUME WorkPut, UNCHANGED <<mergeVars, fileVars, taskVars>>
      PROVE  CalledInv'
  BY <1>21 DEF WorkPut, PutArray, arrayVars, mergeVars, localVars, fileVars, taskVars
<1>22. ASSUME EnableTest, UNCHANGED <<mergeVars, fileVars, taskVars>>
      PROVE  CalledInv'
  BY <1>22 DEF EnableTest, EnableRefs, arrayVars, mergeVars, localVars, fileVars, taskVars
<1>23. ASSUME EnableAdd, UNCHANGED <<mergeVars, fileVars, taskVars>>
      PROVE  CalledInv'
  <2>1. /\ en \in 1 .. Len(array) /\ Len(array) \in Nat /\ DOMAIN array = 1 .. Len(array)
        /\ en' = en + 1 /\ slow' = 0 /\ enabled /\ enabled' /\ UNCHANGED <<array, sig, any>>
    BY <1>23, AddsSlot
  <2>2. ASSUME NEW k \in DOMAIN array PROVE cb'[k] = IF k = en THEN "linked" ELSE cb[k]
    BY <1>23, AddsSlot
  <2>5. ASSUME NEW k \in DOMAIN array, cb'[k] \in {"called", "put", "done"} PROVE cb[k] = cb'[k]
    BY <2>1, <2>2, <2>5
  <2>6. ASSUME NEW k \in DOMAIN array, cb'[k] = "none", k < en + 1 PROVE cb[k] = "none" /\ k < en
    BY <2>1, <2>2, <2>6
  <2> QED
    BY <2>1, <2>5, <2>6
<1>24. ASSUME EnableSkip, UNCHANGED <<mergeVars, fileVars, taskVars>>
      PROVE  CalledInv'
  BY <1>24 DEF EnableSkip, AddFails, TakesToZero, PutUnused, arrayVars, mergeVars, localVars, fileVars, taskVars
<1>25. ASSUME Close
      PROVE  CalledInv'
  BY <1>25 DEF Close, PutResult, PutArray, arrayVars, mergeVars, localVars, fileVars, taskVars
<1>26. ASSUME NEW p \in Pollers, PollStart(p)
      PROVE  CalledInv'
  BY <1>26 DEF PollStart, Goto, arrayVars, mergeVars, localVars, fileVars, taskVars
<1>27. ASSUME NEW p \in Pollers, PollFirst(p)
      PROVE  CalledInv'
  BY <1>27 DEF PollFirst, Goto, arrayVars, mergeVars, localVars, fileVars, taskVars
<1>28. ASSUME NEW p \in Pollers, PollOther(p)
      PROVE  CalledInv'
  BY <1>28 DEF PollOther, Goto, arrayVars, mergeVars, localVars, fileVars, taskVars
<1>29. ASSUME NEW p \in Pollers, PollAddFails(p)
      PROVE  CalledInv'
  BY <1>29 DEF PollAddFails, WokenAnd, Woken, arrayVars, mergeVars, localVars, fileVars, taskVars
<1>30. ASSUME NEW p \in Pollers, PollAdd(p)
      PROVE  CalledInv'
  BY <1>30 DEF PollAdd, Goto, arrayVars, mergeVars, localVars, fileVars, taskVars
<1>31. ASSUME NEW p \in Pollers, PollEnable(p)
      PROVE  CalledInv'
  BY <1>31 DEF PollEnable, Goto, EnableBegin, arrayVars, mergeVars, localVars, fileVars, taskVars
<1>32. ASSUME NEW p \in Pollers, PollEnabled(p)
      PROVE  CalledInv'
  BY <1>32 DEF PollEnabled, Goto, EnableEnd, arrayVars, mergeVars, localVars, fileVars, taskVars
<1>33. ASSUME NEW p \in Pollers, PollEnableFails(p)
      PROVE  CalledInv'
  <2>1. /\ en' = 0 /\ enabled' = enabled /\ enabled /\ UNCHANGED <<sig, array, any, cb>>
    BY <1>33 DEF PollEnableFails, EnableLast, AddFails
  <2>2. ASSUME any = "all", NEW k \in Slots, cb[k] = "none" PROVE array[k] \in sig
    <3>1. k # en => ~Pends(k)
      BY <1>33, <2>2, LastPends DEF PollEnableFails
    <3>2. array[en] \in sig
      BY <1>33 DEF PollEnableFails, EnableLast, AddFails
    <3> QED
      BY <2>2, <3>1, <3>2 DEF Pends
  <2> QED
    BY <2>1, <2>2
<1>34. ASSUME NEW p \in Pollers, PollReady(p)
      PROVE  CalledInv'
  BY <1>34 DEF PollReady, Goto, arrayVars, mergeVars, localVars, fileVars, taskVars
<1>35. ASSUME NEW p \in Pollers, PollSignals(p)
      PROVE  CalledInv'
  BY <1>35 DEF PollSignals, Poll, WokenAnd, Woken, arrayVars, mergeVars, localVars, fileVars, taskVars
<1>36. ASSUME NEW p \in Pollers, PollSleep(p)
      PROVE  CalledInv'
  BY <1>36 DEF PollSleep, Goto, arrayVars, mergeVars, localVars, fileVars, taskVars
<1>37. ASSUME NEW c \in Clients, ClientGet(c)
      PROVE  CalledInv'
  BY <1>37 DEF ClientGet, arrayVars, mergeVars, localVars, fileVars, taskVars
<1>38. ASSUME NEW c \in Clients, ClientEnable(c)
      PROVE  CalledInv'
  BY <1>38 DEF ClientEnable, EnableBegin, arrayVars, mergeVars, localVars, fileVars, taskVars
<1>39. ASSUME NEW c \in Clients, ClientEnabled(c)
      PROVE  CalledInv'
  BY <1>39 DEF ClientEnabled, EnableEnd, arrayVars, mergeVars, localVars, fileVars, taskVars
<1>40. ASSUME NEW c \in Clients, ClientEnableFails(c)
      PROVE  CalledInv'
  <2>1. /\ en' = 0 /\ enabled' = enabled /\ enabled /\ UNCHANGED <<sig, array, any, cb>>
    BY <1>40 DEF ClientEnableFails, EnableLast, AddFails
  <2>2. ASSUME any = "all", NEW k \in Slots, cb[k] = "none" PROVE array[k] \in sig
    <3>1. k # en => ~Pends(k)
      BY <1>40, <2>2, LastPends DEF ClientEnableFails
    <3>2. array[en] \in sig
      BY <1>40 DEF ClientEnableFails, EnableLast, AddFails
    <3> QED
      BY <2>2, <3>1, <3>2 DEF Pends
  <2> QED
    BY <2>1, <2>2
<1>41. ASSUME NEW c \in Clients, ClientPut(c)
      PROVE  CalledInv'
  BY <1>41 DEF ClientPut, PutArray, arrayVars, mergeVars, localVars, fileVars, taskVars
<1> QED
  BY <1>1, <1>2, <1>3, <1>4, <1>5, <1>6, <1>7, <1>8, <1>9, <1>10, <1>11, <1>12, <1>13, <1>14, <1>15, <1>16, <1>17, <1>18, <1>19, <1>20, <1>21, <1>22, <1>23, <1>24, <1>25, <1>26, <1>27, <1>28, <1>29, <1>30, <1>31, <1>32, <1>33, <1>34, <1>35, <1>36, <1>37, <1>38, <1>39, <1>40, <1>41 DEF Next, Merge, Callback, Work, EnableLoop, PollStep, ClientStep

LEMMA KeptStep ==
  ASSUME TypeOK, Phases, NoArray, EnableInv, Kept, Next
  PROVE  Kept'
<1> USE DEF TypeOK, Phases, NoArray, Kept, HasArray
<1>1. ASSUME NEW f \in Fences, Signal(f)
      PROVE  Kept'
  BY <1>1 DEF Signal, SignalFence, CallNode, Woken, arrayVars, mergeVars, localVars, fileVars, taskVars
<1>2. ASSUME CountNext
      PROVE  Kept'
  BY <1>2 DEF CountNext, arrayVars, mergeVars, localVars, fileVars, taskVars
<1>3. ASSUME CountFence
      PROVE  Kept'
  BY <1>3 DEF CountFence, arrayVars, mergeVars, localVars, fileVars, taskVars
<1>4. ASSUME CountIsZero
      PROVE  Kept'
  BY <1>4 DEF CountIsZero, Result, arrayVars, mergeVars, localVars, fileVars, taskVars
<1>5. ASSUME MergeBegin
      PROVE  Kept'
  BY <1>5 DEF MergeBegin, arrayVars, mergeVars, localVars, fileVars, taskVars
<1>6. ASSUME MergeNoMemory
      PROVE  Kept'
  BY <1>6 DEF MergeNoMemory, Result, arrayVars, mergeVars, localVars, fileVars, taskVars
<1>7. ASSUME MergeSkip
      PROVE  Kept'
  BY <1>7 DEF MergeSkip, arrayVars, mergeVars, localVars, fileVars, taskVars
<1>8. ASSUME MergeNext
      PROVE  Kept'
  BY <1>8 DEF MergeNext, arrayVars, mergeVars, localVars, fileVars, taskVars
<1>9. ASSUME MergeSelect
      PROVE  Kept'
  BY <1>9 DEF MergeSelect, Compares, arrayVars, mergeVars, localVars, fileVars, taskVars
<1>10. ASSUME MergeKeep
      PROVE  Kept'
  BY <1>10 DEF MergeKeep, Compares, arrayVars, mergeVars, localVars, fileVars, taskVars
<1>11. ASSUME MergeDrop
      PROVE  Kept'
  BY <1>11 DEF MergeDrop, Compares, arrayVars, mergeVars, localVars, fileVars, taskVars
<1>12. ASSUME MergeOut
      PROVE  Kept'
  BY <1>12 DEF MergeOut, arrayVars, mergeVars, localVars, fileVars, taskVars
<1>13. ASSUME MergeStub
      PROVE  Kept'
  BY <1>13 DEF MergeStub, MergeEnds, Result, arrayVars, mergeVars, localVars, fileVars, taskVars
<1>14. ASSUME MergeOne
      PROVE  Kept'
  BY <1>14 DEF MergeOne, MergeEnds, Result, arrayVars, mergeVars, localVars, fileVars, taskVars
<1>15. ASSUME MergeArray
      PROVE  Kept'
  BY <1>15 DEF MergeArray, MergeEnds, Result, Create, arrayVars, mergeVars, localVars, fileVars, taskVars
<1>16. ASSUME VmidArray
      PROVE  Kept'
  BY <1>16 DEF VmidArray, Result, Create, arrayVars, mergeVars, localVars, fileVars, taskVars
<1>17. ASSUME NEW k \in Slots, CallbackLast(k), UNCHANGED <<mergeVars, fileVars, taskVars>>
      PROVE  Kept'
  BY <1>17 DEF CallbackLast, arrayVars, mergeVars, localVars, fileVars, taskVars
<1>18. ASSUME NEW k \in Slots, CallbackCounts(k), UNCHANGED <<mergeVars, fileVars, taskVars>>
      PROVE  Kept'
  BY <1>18 DEF CallbackCounts, arrayVars, mergeVars, localVars, fileVars, taskVars
<1>19. ASSUME NEW k \in Slots, CallbackPut(k), UNCHANGED <<mergeVars, fileVars, taskVars>>
      PROVE  Kept'
  BY <1>19 DEF CallbackPut, PutArray, arrayVars, mergeVars, localVars, fileVars, taskVars
<1>20. ASSUME WorkSignal, CallNode, UNCHANGED <<mergeVars, res, open, flag, cpc>>
      PROVE  Kept'
  BY <1>20 DEF WorkSignal, CallNode, Woken, arrayVars, mergeVars, localVars, fileVars, taskVars
<1>21. ASSUME WorkPut, UNCHANGED <<mergeVars, fileVars, taskVars>>
      PROVE  Kept'
  BY <1>21 DEF WorkPut, PutArray, arrayVars, mergeVars, localVars, fileVars, taskVars
<1>22. ASSUME EnableTest, UNCHANGED <<mergeVars, fileVars, taskVars>>
      PROVE  Kept'
  BY <1>22 DEF EnableTest, EnableRefs, arrayVars, mergeVars, localVars, fileVars, taskVars
<1>23. ASSUME EnableAdd, UNCHANGED <<mergeVars, fileVars, taskVars>>
      PROVE  Kept'
  BY <1>23, AddsSlot DEF taskVars
<1>24. ASSUME EnableSkip, UNCHANGED <<mergeVars, fileVars, taskVars>>
      PROVE  Kept'
  BY <1>24 DEF EnableSkip, AddFails, EnableInv, Slots, taskVars
<1>25. ASSUME Close
      PROVE  Kept'
  BY <1>25 DEF Close, PutResult, PutArray, arrayVars, mergeVars, localVars, fileVars, taskVars
<1>26. ASSUME NEW p \in Pollers, PollStart(p)
      PROVE  Kept'
  BY <1>26 DEF PollStart, Goto, arrayVars, mergeVars, localVars, fileVars, taskVars
<1>27. ASSUME NEW p \in Pollers, PollFirst(p)
      PROVE  Kept'
  BY <1>27 DEF PollFirst, Goto, arrayVars, mergeVars, localVars, fileVars, taskVars
<1>28. ASSUME NEW p \in Pollers, PollOther(p)
      PROVE  Kept'
  BY <1>28 DEF PollOther, Goto, arrayVars, mergeVars, localVars, fileVars, taskVars
<1>29. ASSUME NEW p \in Pollers, PollAddFails(p)
      PROVE  Kept'
  BY <1>29 DEF PollAddFails, WokenAnd, Woken, arrayVars, mergeVars, localVars, fileVars, taskVars
<1>30. ASSUME NEW p \in Pollers, PollAdd(p)
      PROVE  Kept'
  BY <1>30 DEF PollAdd, Goto, arrayVars, mergeVars, localVars, fileVars, taskVars
<1>31. ASSUME NEW p \in Pollers, PollEnable(p)
      PROVE  Kept'
  BY <1>31 DEF PollEnable, Goto, EnableBegin, arrayVars, mergeVars, localVars, fileVars, taskVars
<1>32. ASSUME NEW p \in Pollers, PollEnabled(p)
      PROVE  Kept'
  BY <1>32 DEF PollEnabled, Goto, EnableEnd, arrayVars, mergeVars, localVars, fileVars, taskVars
<1>33. ASSUME NEW p \in Pollers, PollEnableFails(p)
      PROVE  Kept'
  BY <1>33 DEF PollEnableFails, EnableLast, AddFails, TakesToZero, PutUnused, WokenAnd, Woken, arrayVars, mergeVars, localVars, fileVars, taskVars
<1>34. ASSUME NEW p \in Pollers, PollReady(p)
      PROVE  Kept'
  BY <1>34 DEF PollReady, Goto, arrayVars, mergeVars, localVars, fileVars, taskVars
<1>35. ASSUME NEW p \in Pollers, PollSignals(p)
      PROVE  Kept'
  BY <1>35 DEF PollSignals, Poll, WokenAnd, Woken, arrayVars, mergeVars, localVars, fileVars, taskVars
<1>36. ASSUME NEW p \in Pollers, PollSleep(p)
      PROVE  Kept'
  BY <1>36 DEF PollSleep, Goto, arrayVars, mergeVars, localVars, fileVars, taskVars
<1>37. ASSUME NEW c \in Clients, ClientGet(c)
      PROVE  Kept'
  BY <1>37 DEF ClientGet, arrayVars, mergeVars, localVars, fileVars, taskVars
<1>38. ASSUME NEW c \in Clients, ClientEnable(c)
      PROVE  Kept'
  BY <1>38 DEF ClientEnable, EnableBegin, arrayVars, mergeVars, localVars, fileVars, taskVars
<1>39. ASSUME NEW c \in Clients, ClientEnabled(c)
      PROVE  Kept'
  BY <1>39 DEF ClientEnabled, EnableEnd, arrayVars, mergeVars, localVars, fileVars, taskVars
<1>40. ASSUME NEW c \in Clients, ClientEnableFails(c)
      PROVE  Kept'
  BY <1>40 DEF ClientEnableFails, EnableLast, AddFails, TakesToZero, PutUnused, CallNode, Woken, arrayVars, mergeVars, localVars, fileVars, taskVars
<1>41. ASSUME NEW c \in Clients, ClientPut(c)
      PROVE  Kept'
  BY <1>41 DEF ClientPut, PutArray, arrayVars, mergeVars, localVars, fileVars, taskVars
<1> QED
  BY <1>1, <1>2, <1>3, <1>4, <1>5, <1>6, <1>7, <1>8, <1>9, <1>10, <1>11, <1>12, <1>13, <1>14, <1>15, <1>16, <1>17, <1>18, <1>19, <1>20, <1>21, <1>22, <1>23, <1>24, <1>25, <1>26, <1>27, <1>28, <1>29, <1>30, <1>31, <1>32, <1>33, <1>34, <1>35, <1>36, <1>37, <1>38, <1>39, <1>40, <1>41 DEF Next, Merge, Callback, Work, EnableLoop, PollStep, ClientStep

\* num_pending and the slots it counts stay the same,
LEMMA PendingSame ==
  ASSUME PendingInv, HasArray' => HasArray, UNCHANGED <<any, pending, array>>,
         PendingSlots' = PendingSlots, sig \subseteq sig',
         asig' \/ work' # "idle" => asig \/ work # "idle" \/ pending <= 0
  PROVE  PendingInv'
BY DEF PendingInv, Slots

\* or slot x is counted no more.
LEMMA PendingLess ==
  ASSUME TypeOK, PendingInv, HasArray, UNCHANGED <<any, array, sig>>, pending' = pending - 1,
         NEW x \in Slots, array[x] \in sig,
         any = "all" => x \in PendingSlots /\ PendingSlots' = PendingSlots \ {x},
         asig' \/ work' # "idle" => asig \/ work # "idle" \/ pending = 1
  PROVE  PendingInv'
<1>1. ASSUME any = "all" PROVE pending' = Cardinality(PendingSlots')
  <2>1. IsFiniteSet(PendingSlots) /\ Cardinality(PendingSlots) \in Nat
    BY SlotsFinite
  <2>2. Cardinality(PendingSlots \ {x}) = Cardinality(PendingSlots) - 1
    BY <1>1, <2>1, FS_RemoveElement
  <2> QED
    BY <1>1, <2>2 DEF PendingInv
<1>2. \E k \in Slots' : array'[k] \in sig'
  BY DEF Slots
<1>3. asig' \/ work' # "idle" => pending' <= 0
  BY DEF PendingInv, TypeOK
<1> QED
  BY <1>1, <1>2, <1>3 DEF PendingInv

\* What the slots depend on.
LEMMA SlotsSame ==
  ASSUME UNCHANGED <<array, cb, enabled, en>>
  PROVE  PendingSlots' = PendingSlots
BY DEF PendingSlots, Pends, Passed, Slots

LEMMA PendingStep ==
  ASSUME TypeOK, Phases, NoArray, EnableInv, CalledInv, PendingInv, Next
  PROVE  PendingInv'
<1>1. ASSUME NEW f \in Fences, Signal(f)
      PROVE  PendingInv'
  <2>1. PendingSlots' = PendingSlots
    BY <1>1 DEF Signal, SignalFence, PendingSlots, Pends, Passed, Slots, TypeOK
  <2>2. UNCHANGED <<any, pending, array, res, asig, work>> /\ sig \subseteq sig'
    BY <1>1 DEF Signal, SignalFence
  <2> QED
    BY <2>1, <2>2, PendingSame DEF HasArray
<1>2. ASSUME CountNext
      PROVE  PendingInv'
  BY <1>2, SlotsSame, PendingSame DEF CountNext, HasArray, arrayVars, mergeVars, localVars, fileVars, taskVars
<1>3. ASSUME CountFence
      PROVE  PendingInv'
  BY <1>3, SlotsSame, PendingSame DEF CountFence, HasArray, arrayVars, mergeVars, localVars, fileVars, taskVars
<1>4. ASSUME CountIsZero
      PROVE  PendingInv'
  BY <1>4 DEF CountIsZero, Result, HasArray, PendingInv
<1>5. ASSUME MergeBegin
      PROVE  PendingInv'
  BY <1>5, SlotsSame, PendingSame DEF MergeBegin, HasArray, arrayVars, mergeVars, localVars, fileVars, taskVars
<1>6. ASSUME MergeNoMemory
      PROVE  PendingInv'
  BY <1>6 DEF MergeNoMemory, Result, HasArray, PendingInv
<1>7. ASSUME MergeSkip
      PROVE  PendingInv'
  BY <1>7, SlotsSame, PendingSame DEF MergeSkip, HasArray, arrayVars, mergeVars, localVars, fileVars, taskVars
<1>8. ASSUME MergeNext
      PROVE  PendingInv'
  BY <1>8, SlotsSame, PendingSame DEF MergeNext, HasArray, arrayVars, mergeVars, localVars, fileVars, taskVars
<1>9. ASSUME MergeSelect
      PROVE  PendingInv'
  BY <1>9, SlotsSame, PendingSame DEF MergeSelect, Compares, HasArray, arrayVars, mergeVars, localVars, fileVars, taskVars
<1>10. ASSUME MergeKeep
      PROVE  PendingInv'
  BY <1>10, SlotsSame, PendingSame DEF MergeKeep, Compares, HasArray, arrayVars, mergeVars, localVars, fileVars, taskVars
<1>11. ASSUME MergeDrop
      PROVE  PendingInv'
  BY <1>11, SlotsSame, PendingSame DEF MergeDrop, Compares, HasArray, arrayVars, mergeVars, localVars, fileVars, taskVars
<1>12. ASSUME MergeOut
      PROVE  PendingInv'
  BY <1>12, SlotsSame, PendingSame DEF MergeOut, HasArray, arrayVars, mergeVars, localVars, fileVars, taskVars
<1>13. ASSUME MergeStub
      PROVE  PendingInv'
  BY <1>13 DEF MergeStub, Result, HasArray, PendingInv
<1>14. ASSUME MergeOne
      PROVE  PendingInv'
  BY <1>14 DEF MergeOne, Result, HasArray, PendingInv
<1>15. ASSUME MergeArray
      PROVE  PendingInv'
  <2>1. /\ array' = out /\ any' = "all" /\ pending' = Len(out) /\ enabled' = FALSE
        /\ cb' = [k \in DOMAIN out |-> "none"] /\ asig' = FALSE /\ work' = "idle"
    BY <1>15 DEF MergeArray, MergeEnds, Create, NoArray, HasArray, Phases
  <2>2. DOMAIN out = 1 .. Len(out) /\ Len(out) \in Nat
    BY DEF TypeOK
  <2>3. PendingSlots' = 1 .. Len(out)
    BY <2>1, <2>2 DEF PendingSlots, Pends, Passed, Slots
  <2>4. Cardinality(1 .. Len(out)) = Len(out)
    <3> DEFINE n == Len(out)
    <3>1. n \in Nat
      BY <2>2
    <3> HIDE DEF n
    <3>2. Cardinality(1 .. n) = IF 1 > n THEN 0 ELSE n - 1 + 1
      BY <3>1, FS_Interval
    <3>3. Cardinality(1 .. n) = n
      BY <3>1, <3>2
    <3> QED
      BY <3>3 DEF n
  <2> QED
    BY <2>1, <2>3, <2>4 DEF PendingInv
<1>16. ASSUME VmidArray
      PROVE  PendingInv'
  <2>1. any' = "any" /\ pending' = 1 /\ asig' = FALSE /\ work' = "idle"
    BY <1>16 DEF VmidArray, Create, NoArray, HasArray, Phases
  <2> QED
    BY <2>1 DEF PendingInv
<1>17. ASSUME NEW k \in Slots, CallbackLast(k), UNCHANGED <<mergeVars, fileVars, taskVars>>
      PROVE  PendingInv'
  <2>1. /\ HasArray /\ UNCHANGED <<any, array, sig, asig, enabled, en>> /\ pending' = pending - 1
        /\ work' # "idle" => work # "idle" \/ pending = 1
    BY <1>17 DEF CallbackLast, NoArray, Slots
  <2>2. array[k] \in sig /\ k \in PendingSlots
    BY <1>17 DEF CallbackLast, CalledInv, PendingSlots, Pends
  <2>3. PendingSlots' = PendingSlots \ {k}
    <3>1. cb' = [cb EXCEPT ![k] = IF pending = 1 THEN "done" ELSE "put"]
      BY <1>17 DEF CallbackLast
    <3> QED
      BY <2>1, <3>1 DEF PendingSlots, Pends, Passed, Slots, TypeOK
  <2> QED
    BY <2>1, <2>2, <2>3, PendingLess
<1>18. ASSUME NEW k \in Slots, CallbackCounts(k), UNCHANGED <<mergeVars, fileVars, taskVars>>
      PROVE  PendingInv'
  <2>1. /\ HasArray /\ UNCHANGED <<any, array, sig, asig, enabled, en>> /\ pending' = pending - 1
        /\ work' # "idle" => work # "idle" \/ pending = 1
    BY <1>18 DEF CallbackCounts, NoArray, Slots
  <2>2. array[k] \in sig /\ k \in PendingSlots
    BY <1>18 DEF CallbackCounts, CalledInv, PendingSlots, Pends
  <2>3. PendingSlots' = PendingSlots \ {k}
    <3>1. cb' = [cb EXCEPT ![k] = IF pending = 1 THEN "done" ELSE "put"]
      BY <1>18 DEF CallbackCounts
    <3> QED
      BY <2>1, <3>1 DEF PendingSlots, Pends, Passed, Slots, TypeOK
  <2> QED
    BY <2>1, <2>2, <2>3, PendingLess
<1>19. ASSUME NEW k \in Slots, CallbackPut(k), UNCHANGED <<mergeVars, fileVars, taskVars>>
      PROVE  PendingInv'
  <2>1. PendingSlots' = PendingSlots
    BY <1>19 DEF CallbackPut, PendingSlots, Pends, Passed, Slots, TypeOK
  <2> QED
    BY <1>19, <2>1, PendingSame DEF CallbackPut, HasArray, arrayVars, mergeVars, localVars, fileVars, taskVars
<1>20. ASSUME WorkSignal, CallNode, UNCHANGED <<mergeVars, res, open, flag, cpc>>
      PROVE  PendingInv'
  <2>1. PendingSlots' = PendingSlots /\ UNCHANGED <<any, pending, array, sig, res>>
    BY <1>20, SlotsSame DEF WorkSignal
  <2>2. work # "idle"
    BY <1>20 DEF WorkSignal
  <2> QED
    BY <2>1, <2>2, PendingSame DEF HasArray
<1>21. ASSUME WorkPut, UNCHANGED <<mergeVars, fileVars, taskVars>>
      PROVE  PendingInv'
  <2>1. PendingSlots' = PendingSlots /\ UNCHANGED <<any, pending, array, sig, res>>
    BY <1>21, SlotsSame DEF WorkPut, fileVars
  <2>2. work # "idle"
    BY <1>21 DEF WorkPut, fileVars
  <2> QED
    BY <2>1, <2>2, PendingSame DEF HasArray
<1>22. ASSUME EnableTest, UNCHANGED <<mergeVars, fileVars, taskVars>>
      PROVE  PendingInv'
  BY <1>22, SlotsSame, PendingSame DEF EnableTest, EnableRefs, HasArray, arrayVars, mergeVars, localVars, fileVars, taskVars
<1>23. ASSUME EnableAdd, UNCHANGED <<mergeVars, fileVars, taskVars>>
      PROVE  PendingInv'
  <2>1. PendingSlots' = PendingSlots
    <3>1. /\ en \in 1 .. Len(array) /\ Len(array) \in Nat /\ DOMAIN array = 1 .. Len(array)
          /\ en' = en + 1 /\ enabled /\ enabled' /\ array' = array
      BY <1>23, AddsSlot
    <3>2. ASSUME NEW k \in DOMAIN array PROVE Pends(k)' <=> Pends(k)
      <4>1. cb'[k] = IF k = en THEN "linked" ELSE cb[k]
        BY <1>23, AddsSlot
      <4>2. CASE k = en
        <5>1. cb[k] = "none"
          BY <3>1, <4>2 DEF EnableInv, Slots
        <5> QED
          BY <3>1, <4>1, <4>2, <5>1 DEF Pends, Passed
      <4>3. CASE k # en
        BY <3>1, <4>1, <4>3 DEF Pends, Passed
      <4> QED
        BY <4>2, <4>3
    <3> QED
      BY <3>1, <3>2 DEF PendingSlots, Slots
  <2> QED
    BY <1>23, <2>1, PendingSame DEF EnableAdd, HasArray, arrayVars, mergeVars, localVars, fileVars, taskVars
<1>24. ASSUME EnableSkip, UNCHANGED <<mergeVars, fileVars, taskVars>>
      PROVE  PendingInv'
  <2>1. /\ UNCHANGED <<any, array, sig, asig, enabled, work, cb>> /\ pending' = pending - 1
        /\ en \in Slots /\ array[en] \in sig /\ en' = en + 1
    BY <1>24 DEF EnableSkip, AddFails
  <2>2. /\ HasArray /\ en \in 1 .. Len(array) /\ Slots = 1 .. Len(array) /\ Len(array) \in Nat
        /\ enabled
    BY <2>1 DEF NoArray, Slots, TypeOK, EnableInv
  <2>3. cb[en] = "none"
    BY <2>1, <2>2 DEF EnableInv
  <2>4. en \in PendingSlots
    BY <2>2, <2>3 DEF PendingSlots, Pends, Passed
  <2>5. PendingSlots' = PendingSlots \ {en}
    BY <2>1, <2>2, <2>3 DEF PendingSlots, Pends, Passed, Slots
  <2> QED
    BY <2>1, <2>2, <2>4, <2>5, PendingLess
<1>25. ASSUME Close
      PROVE  PendingInv'
  BY <1>25, SlotsSame, PendingSame DEF Close, PutResult, PutArray, HasArray, arrayVars, mergeVars, localVars, fileVars, taskVars
<1>26. ASSUME NEW p \in Pollers, PollStart(p)
      PROVE  PendingInv'
  BY <1>26, SlotsSame, PendingSame DEF PollStart, Goto, HasArray, arrayVars, mergeVars, localVars, fileVars, taskVars
<1>27. ASSUME NEW p \in Pollers, PollFirst(p)
      PROVE  PendingInv'
  BY <1>27, SlotsSame, PendingSame DEF PollFirst, Goto, HasArray, arrayVars, mergeVars, localVars, fileVars, taskVars
<1>28. ASSUME NEW p \in Pollers, PollOther(p)
      PROVE  PendingInv'
  BY <1>28, SlotsSame, PendingSame DEF PollOther, Goto, HasArray, arrayVars, mergeVars, localVars, fileVars, taskVars
<1>29. ASSUME NEW p \in Pollers, PollAddFails(p)
      PROVE  PendingInv'
  BY <1>29, SlotsSame, PendingSame DEF PollAddFails, WokenAnd, Woken, HasArray, arrayVars, mergeVars, localVars, fileVars, taskVars
<1>30. ASSUME NEW p \in Pollers, PollAdd(p)
      PROVE  PendingInv'
  BY <1>30, SlotsSame, PendingSame DEF PollAdd, Goto, HasArray, arrayVars, mergeVars, localVars, fileVars, taskVars
<1>31. ASSUME NEW p \in Pollers, PollEnable(p)
      PROVE  PendingInv'
  <2>1. PendingSlots' = PendingSlots
    BY <1>31 DEF PollEnable, EnableBegin, PendingSlots, Pends, Passed, Slots, TypeOK
  <2> QED
    BY <1>31, <2>1, PendingSame DEF PollEnable, EnableBegin, HasArray, arrayVars, mergeVars, localVars, fileVars, taskVars
<1>32. ASSUME NEW p \in Pollers, PollEnabled(p)
      PROVE  PendingInv'
  <2>1. PendingSlots' = PendingSlots
    BY <1>32 DEF PollEnabled, EnableEnd, PendingSlots, Pends, Passed, Slots, TypeOK, EnableInv
  <2> QED
    BY <1>32, <2>1, PendingSame DEF PollEnabled, EnableEnd, HasArray, arrayVars, mergeVars, localVars, fileVars, taskVars
<1>33. ASSUME NEW p \in Pollers, PollEnableFails(p)
      PROVE  PendingInv'
  <2>1. /\ UNCHANGED <<any, array, sig, enabled, work, cb>> /\ pending = 1 /\ pending' = pending - 1
        /\ en \in Slots /\ array[en] \in sig /\ en' = 0 /\ EnableLast
    BY <1>33 DEF PollEnableFails, EnableLast, AddFails, TakesToZero
  <2>2. HasArray /\ Slots = 1 .. Len(array) /\ Len(array) \in Nat /\ en # 0 /\ enabled
    BY <2>1 DEF NoArray, Slots, TypeOK, EnableInv
  <2>3. cb[en] = "none"
    BY <2>1, <2>2 DEF EnableInv
  <2>4. en \in PendingSlots
    BY <2>1, <2>2, <2>3 DEF PendingSlots, Pends, Passed
  <2>5. ASSUME any = "all" PROVE PendingSlots' = PendingSlots \ {en}
    <3>1. \A k \in Slots : k # en => ~Pends(k)
      BY <2>1, <2>5, LastPends
    <3>2. \A k \in Slots : cb[k] \notin {"linked", "called"}
      BY <2>3, <3>1 DEF Pends
    <3>3. PendingSlots' = {}
      BY <2>1, <2>2, <3>2 DEF PendingSlots, Pends, Passed, Slots
    <3> QED
      BY <3>1, <3>3 DEF PendingSlots
  <2> QED
    BY <2>1, <2>2, <2>4, <2>5, PendingLess
<1>34. ASSUME NEW p \in Pollers, PollReady(p)
      PROVE  PendingInv'
  BY <1>34, SlotsSame, PendingSame DEF PollReady, Goto, HasArray, arrayVars, mergeVars, localVars, fileVars, taskVars
<1>35. ASSUME NEW p \in Pollers, PollSignals(p)
      PROVE  PendingInv'
  BY <1>35, SlotsSame, PendingSame DEF PollSignals, Poll, WokenAnd, Woken, HasArray, arrayVars, mergeVars, localVars, fileVars, taskVars
<1>36. ASSUME NEW p \in Pollers, PollSleep(p)
      PROVE  PendingInv'
  BY <1>36, SlotsSame, PendingSame DEF PollSleep, Goto, HasArray, arrayVars, mergeVars, localVars, fileVars, taskVars
<1>37. ASSUME NEW c \in Clients, ClientGet(c)
      PROVE  PendingInv'
  BY <1>37, SlotsSame, PendingSame DEF ClientGet, HasArray, arrayVars, mergeVars, localVars, fileVars, taskVars
<1>38. ASSUME NEW c \in Clients, ClientEnable(c)
      PROVE  PendingInv'
  <2>1. PendingSlots' = PendingSlots
    BY <1>38 DEF ClientEnable, EnableBegin, PendingSlots, Pends, Passed, Slots, TypeOK
  <2> QED
    BY <1>38, <2>1, PendingSame DEF ClientEnable, EnableBegin, HasArray, arrayVars, mergeVars, localVars, fileVars, taskVars
<1>39. ASSUME NEW c \in Clients, ClientEnabled(c)
      PROVE  PendingInv'
  <2>1. PendingSlots' = PendingSlots
    BY <1>39 DEF ClientEnabled, EnableEnd, PendingSlots, Pends, Passed, Slots, TypeOK, EnableInv
  <2> QED
    BY <1>39, <2>1, PendingSame DEF ClientEnabled, EnableEnd, HasArray, arrayVars, mergeVars, localVars, fileVars, taskVars
<1>40. ASSUME NEW c \in Clients, ClientEnableFails(c)
      PROVE  PendingInv'
  <2>1. /\ UNCHANGED <<any, array, sig, enabled, work, cb>> /\ pending = 1 /\ pending' = pending - 1
        /\ en \in Slots /\ array[en] \in sig /\ en' = 0 /\ EnableLast
    BY <1>40 DEF ClientEnableFails, EnableLast, AddFails, TakesToZero
  <2>2. HasArray /\ Slots = 1 .. Len(array) /\ Len(array) \in Nat /\ en # 0 /\ enabled
    BY <2>1 DEF NoArray, Slots, TypeOK, EnableInv
  <2>3. cb[en] = "none"
    BY <2>1, <2>2 DEF EnableInv
  <2>4. en \in PendingSlots
    BY <2>1, <2>2, <2>3 DEF PendingSlots, Pends, Passed
  <2>5. ASSUME any = "all" PROVE PendingSlots' = PendingSlots \ {en}
    <3>1. \A k \in Slots : k # en => ~Pends(k)
      BY <2>1, <2>5, LastPends
    <3>2. \A k \in Slots : cb[k] \notin {"linked", "called"}
      BY <2>3, <3>1 DEF Pends
    <3>3. PendingSlots' = {}
      BY <2>1, <2>2, <3>2 DEF PendingSlots, Pends, Passed, Slots
    <3> QED
      BY <3>1, <3>3 DEF PendingSlots
  <2> QED
    BY <2>1, <2>2, <2>4, <2>5, PendingLess
<1>41. ASSUME NEW c \in Clients, ClientPut(c)
      PROVE  PendingInv'
  BY <1>41, SlotsSame, PendingSame DEF ClientPut, PutArray, HasArray, arrayVars, mergeVars, localVars, fileVars, taskVars
<1> QED
  BY <1>1, <1>2, <1>3, <1>4, <1>5, <1>6, <1>7, <1>8, <1>9, <1>10, <1>11, <1>12, <1>13, <1>14, <1>15, <1>16, <1>17, <1>18, <1>19, <1>20, <1>21, <1>22, <1>23, <1>24, <1>25, <1>26, <1>27, <1>28, <1>29, <1>30, <1>31, <1>32, <1>33, <1>34, <1>35, <1>36, <1>37, <1>38, <1>39, <1>40, <1>41 DEF Next, Merge, Callback, Work, EnableLoop, PollStep, ClientStep

----------------------------------------------------------------------------
(* The references                                                          *)

ClientSet == {c \in Clients : cpc[c] # "idle"}
CbSet     == {k \in Slots : cb[k] \in {"linked", "called", "put"}}

ArrayRefs ==
  HasArray => aref = open + Cardinality(ClientSet) + Cardinality(CbSet) + slow + Bit(work # "idle")

FenceRefs ==
  \A f \in Fences : ref[f] =
       Count(out, f) + (IF Freed THEN 0 ELSE Count(array, f))
     + Bit(open = 1 /\ res.kind = "fence" /\ res.fence = f)

LEMMA RefsParts == RefsExact <=> ArrayRefs /\ FenceRefs
BY DEF RefsExact, ArrayRefs, FenceRefs, ClientSet, CbSet

LEMMA HoldersFinite ==
  ASSUME TypeOK
  PROVE  /\ IsFiniteSet(ClientSet) /\ Cardinality(ClientSet) \in Nat
         /\ IsFiniteSet(CbSet) /\ Cardinality(CbSet) \in Nat
<1>1. IsFiniteSet(ClientSet)
  BY MergeAssumption, CountPart DEF ClientSet
<1>2. IsFiniteSet(CbSet)
  BY SlotsFinite, CountPart DEF CbSet
<1> QED
  BY <1>1, <1>2, CountType

\* Who holds a reference keeps the array, the callback being added aside.
Holder ==
  \/ open = 1 \/ work # "idle"
  \/ \E c \in Clients : cpc[c] # "idle"
  \/ \E k \in Slots : cb[k] \in {"linked", "called", "put"}

LEMMA HolderKeeps ==
  ASSUME TypeOK, ArrayRefs, HasArray, Holder
  PROVE  aref - slow >= 1 /\ aref >= 1
<1>1. Cardinality(ClientSet) \in Nat /\ Cardinality(CbSet) \in Nat
  BY HoldersFinite
<1>2. ASSUME NEW c \in Clients, cpc[c] # "idle" PROVE Cardinality(ClientSet) >= 1
  <2>1. c \in ClientSet
    BY <1>2 DEF ClientSet
  <2>2. Cardinality(ClientSet) > 0
    BY <2>1, HoldersFinite, CountType
  <2> QED
    BY <1>1, <2>2
<1>3. ASSUME NEW k \in Slots, cb[k] \in {"linked", "called", "put"} PROVE Cardinality(CbSet) >= 1
  <2>1. k \in CbSet
    BY <1>3 DEF CbSet
  <2>2. Cardinality(CbSet) > 0
    BY <2>1, HoldersFinite, CountType
  <2> QED
    BY <1>1, <2>2
<1>4. aref = open + Cardinality(ClientSet) + Cardinality(CbSet) + slow + Bit(work # "idle")
  BY DEF ArrayRefs
<1>5. open \in {0, 1} /\ slow \in {0, 1} /\ Bit(work # "idle") \in {0, 1}
  BY DEF TypeOK, Bit
<1>6. \/ open = 1 \/ Bit(work # "idle") = 1
      \/ Cardinality(ClientSet) >= 1 \/ Cardinality(CbSet) >= 1
  BY <1>2, <1>3 DEF Holder, Bit
<1> DEFINE n == Cardinality(ClientSet)  m == Cardinality(CbSet)  b == Bit(work # "idle")
<1>7. n \in Nat /\ m \in Nat /\ b \in {0, 1} /\ aref = open + n + m + slow + b
  BY <1>1, <1>4, <1>5
<1>8. open = 1 \/ b = 1 \/ n >= 1 \/ m >= 1
  BY <1>6
<1> HIDE DEF n, m, b
<1> QED
  BY <1>5, <1>7, <1>8

LEMMA EnablerKeeps ==
  ASSUME TypeOK, Phases, NoArray, Kept, ArrayRefs, en # 0
  PROVE  HasArray /\ aref - slow >= 1 /\ aref >= 1
<1>1. HasArray
  BY DEF NoArray
<1>2. Holder
  BY DEF Kept, Phases, Holder, TypeOK
<1> QED
  BY <1>1, <1>2, HolderKeeps

\* The counter follows the holders.
LEMMA ArrayBalance ==
  ASSUME TypeOK, ArrayRefs, HasArray, open' \in {0, 1}, slow' \in {0, 1},
         NEW n, NEW m, n = Cardinality(ClientSet'), m = Cardinality(CbSet'), n \in Nat, m \in Nat,
         aref' = aref + (n - Cardinality(ClientSet)) + (m - Cardinality(CbSet))
                 + (open' - open) + (slow' - slow) + (Bit(work' # "idle") - Bit(work # "idle"))
  PROVE  ArrayRefs'
<1> DEFINE n0 == Cardinality(ClientSet)  m0 == Cardinality(CbSet)
           b0 == Bit(work # "idle")      b1 == Bit(work' # "idle")
<1>1. n0 \in Nat /\ m0 \in Nat
  BY HoldersFinite
<1>2. b0 \in {0, 1} /\ b1 \in {0, 1} /\ open \in {0, 1} /\ slow \in {0, 1}
  BY DEF Bit, TypeOK
<1>3. aref = open + n0 + m0 + slow + b0
  BY DEF ArrayRefs
<1>4. aref' = aref + (n - n0) + (m - m0) + (open' - open) + (slow' - slow) + (b1 - b0)
  OBVIOUS
<1> HIDE DEF n0, m0, b0, b1
<1>5. aref' = open' + n + m + slow' + b1
  BY <1>1, <1>2, <1>3, <1>4
<1>6. aref' = open' + Cardinality(ClientSet') + Cardinality(CbSet') + slow' + Bit(work' # "idle")
  BY <1>5 DEF b1
<1> QED
  BY <1>6 DEF ArrayRefs

\* The same holders but for open, slow and work,
LEMMA ArrayOthers ==
  ASSUME TypeOK, ArrayRefs, HasArray, open' \in {0, 1}, slow' \in {0, 1},
         ClientSet' = ClientSet, CbSet' = CbSet,
         aref' = aref + (open' - open) + (slow' - slow) + (Bit(work' # "idle") - Bit(work # "idle"))
  PROVE  ArrayRefs'
<1> DEFINE n == Cardinality(ClientSet)  m == Cardinality(CbSet)
           d == (open' - open) + (slow' - slow) + (Bit(work' # "idle") - Bit(work # "idle"))
<1>1. n \in Nat /\ m \in Nat /\ n = Cardinality(ClientSet') /\ m = Cardinality(CbSet')
  BY HoldersFinite
<1>2. aref \in Int
  BY DEF TypeOK
<1> HIDE DEF n, m
<1>3. aref' = aref + (n - n) + (m - m)
                + (open' - open) + (slow' - slow) + (Bit(work' # "idle") - Bit(work # "idle"))
  BY <1>1, <1>2
<1> QED
  BY <1>1, <1>3, ArrayBalance DEF n, m

\* but for callback k and work,
LEMMA ArrayCbGoes ==
  ASSUME TypeOK, ArrayRefs, HasArray, UNCHANGED <<open, slow>>, ClientSet' = ClientSet,
         NEW k \in CbSet, CbSet' = CbSet \ {k},
         aref' = aref - 1 + (Bit(work' # "idle") - Bit(work # "idle"))
  PROVE  ArrayRefs'
<1> DEFINE n == Cardinality(ClientSet)  m == Cardinality(CbSet)  m1 == Cardinality(CbSet')
<1>1. n \in Nat /\ m \in Nat /\ IsFiniteSet(CbSet) /\ n = Cardinality(ClientSet')
  BY HoldersFinite
<1>2. m1 = m - 1
  BY <1>1, FS_RemoveElement
<1>3. m > 0
  BY <1>1, CountType
<1>4. aref \in Int /\ open \in {0, 1} /\ slow \in {0, 1} /\ Bit(work' # "idle") \in {0, 1} /\ Bit(work # "idle") \in {0, 1}
  BY DEF TypeOK, Bit
<1>5. m1 = Cardinality(CbSet') /\ m = Cardinality(CbSet) /\ n = Cardinality(ClientSet)
  OBVIOUS
<1> HIDE DEF n, m, m1
<1>6. m1 \in Nat
  BY <1>1, <1>2, <1>3
<1>7. aref' = aref + (n - n) + (m1 - m)
                + (open' - open) + (slow' - slow) + (Bit(work' # "idle") - Bit(work # "idle"))
  BY <1>1, <1>2, <1>4
<1> QED
  BY ZenonT(60), <1>1, <1>4, <1>5, <1>6, <1>7, ArrayBalance

\* but for callback k, which takes over the reference of slow,
LEMMA ArrayCbComes ==
  ASSUME TypeOK, ArrayRefs, HasArray, UNCHANGED <<open, work, aref>>, ClientSet' = ClientSet,
         slow = 1, slow' = 0, NEW k, k \notin CbSet, CbSet' = CbSet \cup {k}
  PROVE  ArrayRefs'
<1> DEFINE n == Cardinality(ClientSet)  m == Cardinality(CbSet)  m1 == Cardinality(CbSet')
<1>1. n \in Nat /\ m \in Nat /\ IsFiniteSet(CbSet) /\ n = Cardinality(ClientSet')
  BY HoldersFinite
<1>2. m1 = m + 1
  BY <1>1, FS_AddElement
<1>3. aref \in Int /\ open \in {0, 1} /\ Bit(work # "idle") \in {0, 1}
  BY DEF TypeOK, Bit
<1>4. m1 = Cardinality(CbSet') /\ m = Cardinality(CbSet) /\ n = Cardinality(ClientSet)
  OBVIOUS
<1> HIDE DEF n, m, m1
<1>5. m1 \in Nat
  BY <1>1, <1>2
<1>6. aref' = aref + (n - n) + (m1 - m)
                + (open' - open) + (slow' - slow) + (Bit(work' # "idle") - Bit(work # "idle"))
  BY <1>1, <1>2, <1>3
<1> QED
  BY <1>1, <1>3, <1>4, <1>5, <1>6, ArrayBalance

\* or but for client c.
LEMMA ArrayClient ==
  ASSUME TypeOK, ArrayRefs, HasArray, UNCHANGED <<open, work, slow>>, CbSet' = CbSet, NEW c,
         \/ c \notin ClientSet /\ ClientSet' = ClientSet \cup {c} /\ aref' = aref + 1
         \/ c \in ClientSet /\ ClientSet' = ClientSet \ {c} /\ aref' = aref - 1
  PROVE  ArrayRefs'
<1> DEFINE n == Cardinality(ClientSet)  m == Cardinality(CbSet)  n1 == Cardinality(ClientSet')
<1>1. n \in Nat /\ m \in Nat /\ IsFiniteSet(ClientSet) /\ m = Cardinality(CbSet')
  BY HoldersFinite
<1>2. n1 \in Nat /\ aref' = aref + (n1 - n)
  <2>1. CASE c \notin ClientSet /\ ClientSet' = ClientSet \cup {c} /\ aref' = aref + 1
    <3>1. n1 = n + 1
      BY <1>1, <2>1, FS_AddElement
    <3> QED
      BY <1>1, <2>1, <3>1 DEF TypeOK
  <2>2. CASE c \in ClientSet /\ ClientSet' = ClientSet \ {c} /\ aref' = aref - 1
    <3>1. n1 = n - 1
      BY <1>1, <2>2, FS_RemoveElement
    <3>2. n > 0
      BY <1>1, <2>2, CountType
    <3> QED
      BY <1>1, <2>2, <3>1, <3>2 DEF TypeOK
  <2> QED
    BY <2>1, <2>2
<1>3. aref \in Int /\ open \in {0, 1} /\ slow \in {0, 1} /\ Bit(work # "idle") \in {0, 1}
  BY DEF TypeOK, Bit
<1>4. n1 = Cardinality(ClientSet') /\ m = Cardinality(CbSet) /\ n = Cardinality(ClientSet)
  OBVIOUS
<1> HIDE DEF n, m, n1
<1>5. aref' = aref + (n1 - n) + (m - m)
                + (open' - open) + (slow' - slow) + (Bit(work' # "idle") - Bit(work # "idle"))
  BY <1>1, <1>2, <1>3
<1> QED
  BY <1>1, <1>2, <1>3, <1>4, <1>5, ArrayBalance

LEMMA ArraySame ==
  ASSUME ArrayRefs, HasArray' => HasArray, UNCHANGED <<aref, open, slow>>,
         ClientSet' = ClientSet, CbSet' = CbSet, work' = "idle" <=> work = "idle"
  PROVE  ArrayRefs'
BY DEF ArrayRefs, Bit

LEMMA ArrayRefsStep ==
  ASSUME TypeOK, Phases, NoArray, EnableInv, PendingInv, ArrayRefs, Next
  PROVE  ArrayRefs'
<1>1. ASSUME NEW f \in Fences, Signal(f)
      PROVE  ArrayRefs'
  <2>1. CbSet' = CbSet
    BY <1>1 DEF Signal, SignalFence, CbSet, Slots, TypeOK
  <2>2. ClientSet' = ClientSet /\ UNCHANGED <<aref, open, slow, work, res>>
    BY <1>1 DEF Signal, SignalFence, ClientSet
  <2> QED
    BY <2>1, <2>2, ArraySame DEF HasArray
<1>2. ASSUME CountNext
      PROVE  ArrayRefs'
  <2>1. CbSet' = CbSet /\ ClientSet' = ClientSet /\ UNCHANGED <<aref, open, slow, work, res>>
    BY <1>2 DEF CountNext, CbSet, ClientSet, Slots, arrayVars, mergeVars, localVars, fileVars, taskVars
  <2> QED
    BY <2>1, ArraySame DEF HasArray
<1>3. ASSUME CountFence
      PROVE  ArrayRefs'
  <2>1. CbSet' = CbSet /\ ClientSet' = ClientSet /\ UNCHANGED <<aref, open, slow, work, res>>
    BY <1>3 DEF CountFence, CbSet, ClientSet, Slots, arrayVars, mergeVars, localVars, fileVars, taskVars
  <2> QED
    BY <2>1, ArraySame DEF HasArray
<1>4. ASSUME CountIsZero
      PROVE  ArrayRefs'
  BY <1>4 DEF CountIsZero, Result, HasArray, ArrayRefs
<1>5. ASSUME MergeBegin
      PROVE  ArrayRefs'
  <2>1. CbSet' = CbSet /\ ClientSet' = ClientSet /\ UNCHANGED <<aref, open, slow, work, res>>
    BY <1>5 DEF MergeBegin, CbSet, ClientSet, Slots, arrayVars, mergeVars, localVars, fileVars, taskVars
  <2> QED
    BY <2>1, ArraySame DEF HasArray
<1>6. ASSUME MergeNoMemory
      PROVE  ArrayRefs'
  BY <1>6 DEF MergeNoMemory, Result, HasArray, ArrayRefs
<1>7. ASSUME MergeSkip
      PROVE  ArrayRefs'
  <2>1. CbSet' = CbSet /\ ClientSet' = ClientSet /\ UNCHANGED <<aref, open, slow, work, res>>
    BY <1>7 DEF MergeSkip, CbSet, ClientSet, Slots, arrayVars, mergeVars, localVars, fileVars, taskVars
  <2> QED
    BY <2>1, ArraySame DEF HasArray
<1>8. ASSUME MergeNext
      PROVE  ArrayRefs'
  <2>1. CbSet' = CbSet /\ ClientSet' = ClientSet /\ UNCHANGED <<aref, open, slow, work, res>>
    BY <1>8 DEF MergeNext, CbSet, ClientSet, Slots, arrayVars, mergeVars, localVars, fileVars, taskVars
  <2> QED
    BY <2>1, ArraySame DEF HasArray
<1>9. ASSUME MergeSelect
      PROVE  ArrayRefs'
  <2>1. CbSet' = CbSet /\ ClientSet' = ClientSet /\ UNCHANGED <<aref, open, slow, work, res>>
    BY <1>9 DEF MergeSelect, Compares, CbSet, ClientSet, Slots, arrayVars, mergeVars, localVars, fileVars, taskVars
  <2> QED
    BY <2>1, ArraySame DEF HasArray
<1>10. ASSUME MergeKeep
      PROVE  ArrayRefs'
  <2>1. CbSet' = CbSet /\ ClientSet' = ClientSet /\ UNCHANGED <<aref, open, slow, work, res>>
    BY <1>10 DEF MergeKeep, Compares, CbSet, ClientSet, Slots, arrayVars, mergeVars, localVars, fileVars, taskVars
  <2> QED
    BY <2>1, ArraySame DEF HasArray
<1>11. ASSUME MergeDrop
      PROVE  ArrayRefs'
  <2>1. CbSet' = CbSet /\ ClientSet' = ClientSet /\ UNCHANGED <<aref, open, slow, work, res>>
    BY <1>11 DEF MergeDrop, Compares, CbSet, ClientSet, Slots, arrayVars, mergeVars, localVars, fileVars, taskVars
  <2> QED
    BY <2>1, ArraySame DEF HasArray
<1>12. ASSUME MergeOut
      PROVE  ArrayRefs'
  <2>1. CbSet' = CbSet /\ ClientSet' = ClientSet /\ UNCHANGED <<aref, open, slow, work, res>>
    BY <1>12 DEF MergeOut, CbSet, ClientSet, Slots, arrayVars, mergeVars, localVars, fileVars, taskVars
  <2> QED
    BY <2>1, ArraySame DEF HasArray
<1>13. ASSUME MergeStub
      PROVE  ArrayRefs'
  BY <1>13 DEF MergeStub, Result, HasArray, ArrayRefs
<1>14. ASSUME MergeOne
      PROVE  ArrayRefs'
  BY <1>14 DEF MergeOne, Result, HasArray, ArrayRefs
<1>15. ASSUME MergeArray
      PROVE  ArrayRefs'
  <2>1. /\ aref' = 1 /\ open' = 1 /\ slow' = 0 /\ work' = "idle"
        /\ array' = out /\ cb' = [k \in DOMAIN out |-> "none"] /\ cpc' = cpc
    BY <1>15 DEF MergeArray, MergeEnds, Result, Create, NoArray, HasArray, Phases, taskVars
  <2>2. \A c \in Clients : cpc[c] = "idle"
    BY <1>15 DEF MergeArray, MergeEnds, NoArray, HasArray, Phases
  <2>3. ClientSet' = {} /\ CbSet' = {}
    BY <2>1, <2>2 DEF ClientSet, CbSet, Slots
  <2>4. Cardinality({}) = 0
    BY FS_EmptySet
  <2>5. Cardinality(ClientSet') = 0 /\ Cardinality(CbSet') = 0
    BY <2>3, <2>4
  <2> QED
    BY <2>1, <2>5 DEF ArrayRefs, Bit
<1>16. ASSUME VmidArray
      PROVE  ArrayRefs'
  <2>1. /\ aref' = 1 /\ open' = 1 /\ slow' = 0 /\ work' = "idle"
        /\ array' = inp[1] /\ cb' = [k \in DOMAIN inp[1] |-> "none"] /\ cpc' = cpc
    BY <1>16 DEF VmidArray, MergeEnds, Result, Create, NoArray, HasArray, Phases, taskVars
  <2>2. \A c \in Clients : cpc[c] = "idle"
    BY <1>16 DEF VmidArray, MergeEnds, NoArray, HasArray, Phases
  <2>3. ClientSet' = {} /\ CbSet' = {}
    BY <2>1, <2>2 DEF ClientSet, CbSet, Slots
  <2>4. Cardinality({}) = 0
    BY FS_EmptySet
  <2>5. Cardinality(ClientSet') = 0 /\ Cardinality(CbSet') = 0
    BY <2>3, <2>4
  <2> QED
    BY <2>1, <2>5 DEF ArrayRefs, Bit
<1>17. ASSUME NEW k \in Slots, CallbackLast(k), UNCHANGED <<mergeVars, fileVars, taskVars>>
      PROVE  ArrayRefs'
  <2>1. HasArray /\ aref' = aref /\ open' = open /\ slow' = slow /\ work = "idle" /\ work' = "queued"
    <3>1. HasArray
      BY <1>17 DEF NoArray, Slots
    <3> QED
      BY <1>17, <3>1 DEF CallbackLast, fileVars, PendingInv, Phases
  <2>2. /\ ClientSet' = ClientSet /\ k \in CbSet /\ CbSet' = CbSet \ {k}
    BY <1>17 DEF CallbackLast, ClientSet, CbSet, Slots, TypeOK, arrayVars, mergeVars, localVars, fileVars, taskVars
  <2> QED
    BY <2>1, <2>2, ArrayCbGoes DEF Bit, TypeOK
<1>18. ASSUME NEW k \in Slots, CallbackCounts(k), UNCHANGED <<mergeVars, fileVars, taskVars>>
      PROVE  ArrayRefs'
  <2>1. CbSet' = CbSet
    BY <1>18 DEF CallbackCounts, CbSet, Slots, TypeOK
  <2>2. ClientSet' = ClientSet /\ UNCHANGED <<aref, open, slow, work, res>>
    BY <1>18 DEF CallbackCounts, ClientSet, fileVars, taskVars
  <2> QED
    BY <2>1, <2>2, ArraySame DEF HasArray
<1>19. ASSUME NEW k \in Slots, CallbackPut(k), UNCHANGED <<mergeVars, fileVars, taskVars>>
      PROVE  ArrayRefs'
  <2>1. HasArray /\ aref' = aref - 1 /\ UNCHANGED <<open, slow, work>>
    <3>1. HasArray
      BY <1>19 DEF NoArray, Slots
    <3> QED
      BY <1>19, <3>1 DEF CallbackPut, PutArray, fileVars
  <2>2. /\ ClientSet' = ClientSet /\ k \in CbSet /\ CbSet' = CbSet \ {k}
    BY <1>19 DEF CallbackPut, ClientSet, CbSet, Slots, TypeOK, arrayVars, mergeVars, localVars, fileVars, taskVars
  <2> QED
    BY <2>1, <2>2, ArrayCbGoes DEF Bit, TypeOK
<1>20. ASSUME WorkSignal, CallNode, UNCHANGED <<mergeVars, res, open, flag, cpc>>
      PROVE  ArrayRefs'
  <2>1. CbSet' = CbSet /\ ClientSet' = ClientSet /\ UNCHANGED <<aref, open, slow, res>>
    BY <1>20 DEF WorkSignal, CbSet, ClientSet, Slots
  <2>2. work # "idle" /\ work' # "idle"
    BY <1>20 DEF WorkSignal
  <2> QED
    BY <2>1, <2>2, ArraySame DEF HasArray
<1>21. ASSUME WorkPut, UNCHANGED <<mergeVars, fileVars, taskVars>>
      PROVE  ArrayRefs'
  <2>1. HasArray /\ aref' = aref - 1 /\ open' = open /\ slow' = slow /\ work # "idle" /\ work' = "idle"
    BY <1>21 DEF WorkPut, PutArray, fileVars, NoArray
  <2>2. ClientSet' = ClientSet /\ CbSet' = CbSet
    BY <1>21 DEF WorkPut, ClientSet, CbSet, Slots, TypeOK, arrayVars, mergeVars, localVars, fileVars, taskVars
  <2> QED
    BY <2>1, <2>2, ArrayOthers DEF Bit, TypeOK
<1>22. ASSUME EnableTest, UNCHANGED <<mergeVars, fileVars, taskVars>>
      PROVE  ArrayRefs'
  <2>1. HasArray /\ aref' = aref + 1 /\ open' = open /\ slow = 0 /\ slow' = 1 /\ work' = work
    BY <1>22 DEF EnableTest, EnableRefs, fileVars, NoArray, Slots, TypeOK
  <2>2. ClientSet' = ClientSet /\ CbSet' = CbSet
    BY <1>22 DEF EnableTest, ClientSet, CbSet, Slots, TypeOK, arrayVars, mergeVars, localVars, fileVars, taskVars
  <2> QED
    BY <2>1, <2>2, ArrayOthers DEF Bit, TypeOK
<1>23. ASSUME EnableAdd, UNCHANGED <<mergeVars, fileVars, taskVars>>
      PROVE  ArrayRefs'
  <2>1. /\ HasArray /\ en \in Slots /\ Slots' = Slots /\ slow = 1 /\ slow' = 0
        /\ UNCHANGED <<open, work, aref>> /\ cb[en] = "none"
    BY <1>23, AddsSlot DEF EnableAdd, NoArray, EnableInv, Slots, fileVars
  <2>2. \A k \in Slots : cb'[k] = IF k = en THEN "linked" ELSE cb[k]
    BY <1>23, AddsSlot DEF Slots
  <2>3. ClientSet' = ClientSet
    BY <1>23 DEF ClientSet, taskVars
  <2>4. en \notin CbSet /\ CbSet' = CbSet \cup {en}
    BY <2>1, <2>2 DEF CbSet
  <2> QED
    BY <2>1, <2>3, <2>4, ArrayCbComes
<1>24. ASSUME EnableSkip, UNCHANGED <<mergeVars, fileVars, taskVars>>
      PROVE  ArrayRefs'
  <2>1. HasArray /\ aref' = aref - slow /\ open' = open /\ slow' = 0 /\ work' = work
    BY <1>24 DEF EnableSkip, AddFails, PutUnused, fileVars, NoArray, Slots, TypeOK
  <2>2. ClientSet' = ClientSet /\ CbSet' = CbSet
    BY <1>24 DEF EnableSkip, ClientSet, CbSet, Slots, TypeOK, arrayVars, mergeVars, localVars, fileVars, taskVars
  <2> QED
    BY <2>1, <2>2, ArrayOthers DEF Bit, TypeOK
<1>25. ASSUME Close
      PROVE  ArrayRefs'
  <2>1. CASE ~HasArray
    BY <1>25, <2>1 DEF Close, HasArray, ArrayRefs
  <2>2. CASE HasArray
    <3>1. aref' = aref - 1 /\ open = 1 /\ open' = 0 /\ slow' = slow /\ work' = work
      BY <1>25, <2>2 DEF Close, PutResult, PutArray, HasArray
    <3>2. ClientSet' = ClientSet /\ CbSet' = CbSet
      BY <1>25 DEF Close, ClientSet, CbSet, Slots, taskVars
    <3> QED
      BY <2>2, <3>1, <3>2, ArrayOthers DEF Bit, TypeOK
  <2> QED
    BY <2>1, <2>2
<1>26. ASSUME NEW p \in Pollers, PollStart(p)
      PROVE  ArrayRefs'
  <2>1. CbSet' = CbSet /\ ClientSet' = ClientSet /\ UNCHANGED <<aref, open, slow, work, res>>
    BY <1>26 DEF PollStart, Goto, CbSet, ClientSet, Slots, arrayVars, mergeVars, localVars, fileVars, taskVars
  <2> QED
    BY <2>1, ArraySame DEF HasArray
<1>27. ASSUME NEW p \in Pollers, PollFirst(p)
      PROVE  ArrayRefs'
  <2>1. CbSet' = CbSet /\ ClientSet' = ClientSet /\ UNCHANGED <<aref, open, slow, work, res>>
    BY <1>27 DEF PollFirst, Goto, CbSet, ClientSet, Slots, arrayVars, mergeVars, localVars, fileVars, taskVars
  <2> QED
    BY <2>1, ArraySame DEF HasArray
<1>28. ASSUME NEW p \in Pollers, PollOther(p)
      PROVE  ArrayRefs'
  <2>1. CbSet' = CbSet /\ ClientSet' = ClientSet /\ UNCHANGED <<aref, open, slow, work, res>>
    BY <1>28 DEF PollOther, Goto, CbSet, ClientSet, Slots, arrayVars, mergeVars, localVars, fileVars, taskVars
  <2> QED
    BY <2>1, ArraySame DEF HasArray
<1>29. ASSUME NEW p \in Pollers, PollAddFails(p)
      PROVE  ArrayRefs'
  <2>1. CbSet' = CbSet /\ ClientSet' = ClientSet /\ UNCHANGED <<aref, open, slow, work, res>>
    BY <1>29 DEF PollAddFails, WokenAnd, Woken, CbSet, ClientSet, Slots, arrayVars, mergeVars, localVars, fileVars, taskVars
  <2> QED
    BY <2>1, ArraySame DEF HasArray
<1>30. ASSUME NEW p \in Pollers, PollAdd(p)
      PROVE  ArrayRefs'
  <2>1. CbSet' = CbSet /\ ClientSet' = ClientSet /\ UNCHANGED <<aref, open, slow, work, res>>
    BY <1>30 DEF PollAdd, Goto, CbSet, ClientSet, Slots, arrayVars, mergeVars, localVars, fileVars, taskVars
  <2> QED
    BY <2>1, ArraySame DEF HasArray
<1>31. ASSUME NEW p \in Pollers, PollEnable(p)
      PROVE  ArrayRefs'
  <2>1. CbSet' = CbSet /\ ClientSet' = ClientSet /\ UNCHANGED <<aref, open, slow, work, res>>
    BY <1>31 DEF PollEnable, Goto, EnableBegin, CbSet, ClientSet, Slots, arrayVars, mergeVars, localVars, fileVars, taskVars
  <2> QED
    BY <2>1, ArraySame DEF HasArray
<1>32. ASSUME NEW p \in Pollers, PollEnabled(p)
      PROVE  ArrayRefs'
  <2>1. CbSet' = CbSet /\ ClientSet' = ClientSet /\ UNCHANGED <<aref, open, slow, work, res>>
    BY <1>32 DEF PollEnabled, Goto, EnableEnd, CbSet, ClientSet, Slots, arrayVars, mergeVars, localVars, fileVars, taskVars
  <2> QED
    BY <2>1, ArraySame DEF HasArray
<1>33. ASSUME NEW p \in Pollers, PollEnableFails(p)
      PROVE  ArrayRefs'
  <2>1. HasArray /\ aref' = aref - slow /\ open' = open /\ slow' = 0 /\ work' = work
    BY <1>33 DEF PollEnableFails, EnableLast, AddFails, PutUnused, fileVars, NoArray, Slots, TypeOK
  <2>2. ClientSet' = ClientSet /\ CbSet' = CbSet
    BY <1>33 DEF PollEnableFails, EnableLast, ClientSet, CbSet, Slots, TypeOK, arrayVars, mergeVars, localVars, fileVars, taskVars
  <2> QED
    BY <2>1, <2>2, ArrayOthers DEF Bit, TypeOK
<1>34. ASSUME NEW p \in Pollers, PollReady(p)
      PROVE  ArrayRefs'
  <2>1. CbSet' = CbSet /\ ClientSet' = ClientSet /\ UNCHANGED <<aref, open, slow, work, res>>
    BY <1>34 DEF PollReady, Goto, CbSet, ClientSet, Slots, arrayVars, mergeVars, localVars, fileVars, taskVars
  <2> QED
    BY <2>1, ArraySame DEF HasArray
<1>35. ASSUME NEW p \in Pollers, PollSignals(p)
      PROVE  ArrayRefs'
  <2>1. CbSet' = CbSet /\ ClientSet' = ClientSet /\ UNCHANGED <<aref, open, slow, work, res>>
    BY <1>35 DEF PollSignals, Poll, WokenAnd, Woken, CbSet, ClientSet, Slots, arrayVars, mergeVars, localVars, fileVars, taskVars
  <2> QED
    BY <2>1, ArraySame DEF HasArray
<1>36. ASSUME NEW p \in Pollers, PollSleep(p)
      PROVE  ArrayRefs'
  <2>1. CbSet' = CbSet /\ ClientSet' = ClientSet /\ UNCHANGED <<aref, open, slow, work, res>>
    BY <1>36 DEF PollSleep, Goto, CbSet, ClientSet, Slots, arrayVars, mergeVars, localVars, fileVars, taskVars
  <2> QED
    BY <2>1, ArraySame DEF HasArray
<1>37. ASSUME NEW c \in Clients, ClientGet(c)
      PROVE  ArrayRefs'
  <2>1. HasArray /\ aref' = aref + 1 /\ UNCHANGED <<open, slow, work>>
    BY <1>37 DEF ClientGet, fileVars
  <2>2. CbSet' = CbSet
    BY <1>37 DEF ClientGet, CbSet, Slots
  <2>3. c \notin ClientSet /\ ClientSet' = ClientSet \cup {c}
    BY <1>37 DEF ClientGet, ClientSet, TypeOK
  <2> QED
    BY <2>1, <2>2, <2>3, ArrayClient
<1>38. ASSUME NEW c \in Clients, ClientEnable(c)
      PROVE  ArrayRefs'
  <2>1. CbSet' = CbSet /\ UNCHANGED <<aref, open, slow, work, res>>
    BY <1>38 DEF ClientEnable, EnableBegin, CbSet, Slots, arrayVars, mergeVars, localVars, fileVars, taskVars
  <2>2. ClientSet' = ClientSet
    BY <1>38 DEF ClientEnable, ClientSet, TypeOK
  <2> QED
    BY <2>1, <2>2, ArraySame DEF HasArray
<1>39. ASSUME NEW c \in Clients, ClientEnabled(c)
      PROVE  ArrayRefs'
  <2>1. CbSet' = CbSet /\ UNCHANGED <<aref, open, slow, work, res>>
    BY <1>39 DEF ClientEnabled, EnableEnd, CbSet, Slots, arrayVars, mergeVars, localVars, fileVars, taskVars
  <2>2. ClientSet' = ClientSet
    BY <1>39 DEF ClientEnabled, ClientSet, TypeOK
  <2> QED
    BY <2>1, <2>2, ArraySame DEF HasArray
<1>40. ASSUME NEW c \in Clients, ClientEnableFails(c)
      PROVE  ArrayRefs'
  <2>1. HasArray /\ aref' = aref - slow /\ open' = open /\ slow' = 0 /\ work' = work
    BY <1>40 DEF ClientEnableFails, EnableLast, AddFails, PutUnused, NoArray, Slots, TypeOK
  <2>2. CbSet' = CbSet
    BY <1>40 DEF ClientEnableFails, EnableLast, CbSet, Slots
  <2>3. ClientSet' = ClientSet
    BY <1>40 DEF ClientEnableFails, ClientSet, TypeOK
  <2> QED
    BY <2>1, <2>2, <2>3, ArrayOthers DEF Bit, TypeOK
<1>41. ASSUME NEW c \in Clients, ClientPut(c)
      PROVE  ArrayRefs'
  <2>1. HasArray /\ aref' = aref - 1 /\ UNCHANGED <<open, slow, work>>
    BY <1>41 DEF ClientPut, PutArray, fileVars, NoArray
  <2>2. CbSet' = CbSet
    BY <1>41 DEF ClientPut, CbSet, Slots
  <2>3. c \in ClientSet /\ ClientSet' = ClientSet \ {c}
    BY <1>41 DEF ClientPut, ClientSet, TypeOK
  <2> QED
    BY <2>1, <2>2, <2>3, ArrayClient
<1> QED
  BY <1>1, <1>2, <1>3, <1>4, <1>5, <1>6, <1>7, <1>8, <1>9, <1>10, <1>11, <1>12, <1>13, <1>14, <1>15, <1>16, <1>17, <1>18, <1>19, <1>20, <1>21, <1>22, <1>23, <1>24, <1>25, <1>26, <1>27, <1>28, <1>29, <1>30, <1>31, <1>32, <1>33, <1>34, <1>35, <1>36, <1>37, <1>38, <1>39, <1>40, <1>41 DEF Next, Merge, Callback, Work, EnableLoop, PollStep, ClientStep

FileRef(f) == Bit(open = 1 /\ res.kind = "fence" /\ res.fence = f)
ArrayRef(f) == IF Freed THEN 0 ELSE Count(array, f)

LEMMA FenceParts ==
  ASSUME TypeOK, NEW f \in Fences
  PROVE  /\ Count(out, f) \in Nat /\ Count(array, f) \in Nat
         /\ FileRef(f) \in {0, 1} /\ ArrayRef(f) \in Nat
<1>1. out \in Seq(Fences) /\ array \in Seq(Fences)
  BY DEF TypeOK
<1>2. Count(out, f) \in Nat /\ Count(array, f) \in Nat
  BY <1>1, CountNat
<1> QED
  BY <1>2 DEF FileRef, ArrayRef, Bit

LEMMA FenceRefsMeans == FenceRefs <=> \A f \in Fences : ref[f] = Count(out, f) + ArrayRef(f) + FileRef(f)
BY DEF FenceRefs, ArrayRef, FileRef

\* The references stay,
LEMMA FencesSame ==
  ASSUME FenceRefs, UNCHANGED <<ref, out, array, open, res>>,
         (aref' = 0) <=> (aref = 0)
  PROVE  FenceRefs'
BY DEF FenceRefs, Freed, Count, Bit

\* or the array drops one of its own.
LEMMA FencesPut ==
  ASSUME TypeOK, FenceRefs, PutArray, aref >= 1, UNCHANGED <<out, array, res>>, HasArray
  PROVE  FenceRefs'
<1>1. SUFFICES ASSUME NEW f \in Fences PROVE ref'[f] = Count(out, f)' + ArrayRef(f)' + FileRef(f)'
  BY DEF FenceRefs, ArrayRef, FileRef
<1>2. FileRef(f) = 0 /\ FileRef(f)' = 0
  BY DEF FileRef, Bit, HasArray
<1>3. /\ ref[f] = Count(out, f) + ArrayRef(f) + FileRef(f) /\ ref[f] \in Int
      /\ Count(out, f) \in Nat /\ Count(array, f) \in Nat
  BY FenceParts, FenceRefsMeans DEF TypeOK
<1>4. ArrayRef(f) = Count(array, f)
  BY DEF ArrayRef, Freed, TypeOK
<1>5. Count(out, f)' = Count(out, f) /\ Count(array, f)' = Count(array, f)
  BY DEF Count
<1>6. CASE aref = 1
  <2>1. ref'[f] = ref[f] - Count(array, f) /\ aref' = 0
    BY <1>6 DEF PutArray
  <2>2. ArrayRef(f)' = 0
    <3>1. CASE array = <<>>
      <4>1. {n \in DOMAIN array : array[n] = f} = {}
        BY <3>1
      <4>2. Count(array, f) = 0
        BY <4>1, FS_EmptySet DEF Count
      <4> QED
        BY <1>5, <4>2 DEF ArrayRef
    <3>2. CASE array # <<>>
      BY <2>1, <3>2 DEF ArrayRef, Freed
    <3> QED
      BY <3>1, <3>2
  <2> QED
    BY <1>2, <1>3, <1>4, <1>5, <2>1, <2>2
<1>7. CASE aref # 1
  <2>1. ref' = ref /\ aref' # 0
    BY <1>7 DEF PutArray, TypeOK
  <2>2. ArrayRef(f)' = Count(array, f)
    BY <1>5, <2>1 DEF ArrayRef, Freed
  <2> QED
    BY <1>2, <1>3, <1>4, <1>5, <2>1, <2>2
<1> QED
  BY <1>6, <1>7

LEMMA CountEmpty == \A f : Count(<<>>, f) = 0
<1>1. ASSUME NEW f PROVE Count(<<>>, f) = 0
  <2>1. {n \in DOMAIN <<>> : <<>>[n] = f} = {}
    OBVIOUS
  <2> QED
    BY <2>1, FS_EmptySet DEF Count
<1> QED
  BY <1>1

LEMMA CountAppend ==
  ASSUME NEW s \in Seq(Fences), NEW g \in Fences, NEW f \in Fences
  PROVE  Count(Append(s, g), f) = Count(s, f) + (IF g = f THEN 1 ELSE 0)
<1> DEFINE S == {n \in DOMAIN s : s[n] = f}
           T == {n \in DOMAIN Append(s, g) : Append(s, g)[n] = f}
           x == Len(s) + 1
<1>1. IsFiniteSet(S) /\ Cardinality(S) \in Nat
  BY CountNat, CountType
<1>2. /\ DOMAIN s = 1 .. Len(s) /\ Len(s) \in Nat /\ DOMAIN Append(s, g) = 1 .. x
      /\ Append(s, g)[x] = g /\ \A n \in DOMAIN s : Append(s, g)[n] = s[n]
  OBVIOUS
<1>3. x \notin S /\ (x \in T <=> g = f)
  BY <1>2
<1>4. \A n : n # x => (n \in S <=> n \in T)
  BY <1>2
<1> HIDE DEF S, T, x
<1>5. Cardinality(T) = Cardinality(S) + (IF x \in T THEN 1 ELSE 0) - (IF x \in S THEN 1 ELSE 0)
  BY <1>1, <1>4, CountChange
<1>6. Cardinality(T) = Cardinality(S) + (IF g = f THEN 1 ELSE 0)
  BY <1>1, <1>3, <1>5
<1> QED
  BY <1>6 DEF S, T, Count

LEMMA CountOneOf ==
  ASSUME NEW s \in Seq(Fences), Len(s) = 1, NEW f \in Fences
  PROVE  Count(s, f) = Bit(s[1] = f)
<1> DEFINE S == {n \in DOMAIN s : s[n] = f}
<1>1. S \subseteq {1} /\ (1 \in S <=> s[1] = f)
  OBVIOUS
<1>2. Count(s, f) = Cardinality(S)
  BY DEF Count
<1> HIDE DEF S
<1>3. Cardinality(S) = Cardinality({x \in {1} : x \in S})
  <2>1. S = {x \in {1} : x \in S}
    BY <1>1
  <2> QED
    BY <2>1
<1>4. Cardinality(S) = IF 1 \in S THEN 1 ELSE 0
  BY <1>1, CountIf
<1> QED
  BY <1>1, <1>2, <1>4 DEF Bit

LEMMA FenceRefsStep ==
  ASSUME TypeOK, MergeType, Phases, NoArray, Selected, EnableInv, Kept, ArrayRefs, FenceRefs, Next
  PROVE  FenceRefs'
<1>1. ASSUME NEW f \in Fences, Signal(f)
      PROVE  FenceRefs'
  <2>1. UNCHANGED <<ref, out, array, open, res, aref>>
    BY <1>1 DEF Signal, SignalFence, CallNode, Woken, arrayVars, mergeVars, localVars, fileVars, taskVars
  <2> QED
    BY <2>1, FencesSame
<1>2. ASSUME CountNext
      PROVE  FenceRefs'
  <2>1. UNCHANGED <<ref, out, array, open, res, aref>>
    BY <1>2 DEF CountNext, arrayVars, mergeVars, localVars, fileVars, taskVars
  <2> QED
    BY <2>1, FencesSame
<1>3. ASSUME CountFence
      PROVE  FenceRefs'
  <2>1. UNCHANGED <<ref, out, array, open, res, aref>>
    BY <1>3 DEF CountFence, arrayVars, mergeVars, localVars, fileVars, taskVars
  <2> QED
    BY <2>1, FencesSame
<1>4. ASSUME CountIsZero
      PROVE  FenceRefs'
  <2>1. SUFFICES ASSUME NEW f \in Fences
                 PROVE  ref'[f] = Count(out, f)' + ArrayRef(f)' + FileRef(f)'
    BY DEF FenceRefs, ArrayRef, FileRef
  <2>2. /\ ref[f] = Count(out, f) + ArrayRef(f) + FileRef(f) /\ ref[f] \in Int
        /\ Count(out, f) \in Nat /\ ArrayRef(f) \in Nat /\ FileRef(f) \in {0, 1}
    BY FenceParts, FenceRefsMeans DEF TypeOK
  <2>3. out = <<>> /\ out' = <<>> /\ UNCHANGED <<ref, array, aref>> /\ res'.kind # "fence" /\ open = 0
    BY <1>4 DEF CountIsZero, Result, MergeEnds, Phases, TypeOK, arrayVars, mergeVars, localVars, fileVars, taskVars
  <2>4. Count(out, f)' = 0 /\ Count(out, f) = 0
    BY <2>3, CountEmpty
  <2>5. ArrayRef(f)' = ArrayRef(f) /\ FileRef(f) = 0 /\ FileRef(f)' = 0
    BY <2>3 DEF ArrayRef, Freed, Count, FileRef, Bit
  <2> QED
    BY <2>2, <2>3, <2>4, <2>5
<1>5. ASSUME MergeBegin
      PROVE  FenceRefs'
  <2>1. UNCHANGED <<ref, out, array, open, res, aref>>
    BY <1>5 DEF MergeBegin, arrayVars, mergeVars, localVars, fileVars, taskVars
  <2> QED
    BY <2>1, FencesSame
<1>6. ASSUME MergeNoMemory
      PROVE  FenceRefs'
  <2>1. SUFFICES ASSUME NEW f \in Fences
                 PROVE  ref'[f] = Count(out, f)' + ArrayRef(f)' + FileRef(f)'
    BY DEF FenceRefs, ArrayRef, FileRef
  <2>2. /\ ref[f] = Count(out, f) + ArrayRef(f) + FileRef(f) /\ ref[f] \in Int
        /\ Count(out, f) \in Nat /\ ArrayRef(f) \in Nat /\ FileRef(f) \in {0, 1}
    BY FenceParts, FenceRefsMeans DEF TypeOK
  <2>3. out = <<>> /\ out' = <<>> /\ UNCHANGED <<ref, array, aref>> /\ res'.kind # "fence" /\ open = 0
    BY <1>6 DEF MergeNoMemory, Result, MergeEnds, Phases, TypeOK, arrayVars, mergeVars, localVars, fileVars, taskVars
  <2>4. Count(out, f)' = 0 /\ Count(out, f) = 0
    BY <2>3, CountEmpty
  <2>5. ArrayRef(f)' = ArrayRef(f) /\ FileRef(f) = 0 /\ FileRef(f)' = 0
    BY <2>3 DEF ArrayRef, Freed, Count, FileRef, Bit
  <2> QED
    BY <2>2, <2>3, <2>4, <2>5
<1>7. ASSUME MergeSkip
      PROVE  FenceRefs'
  <2>1. UNCHANGED <<ref, out, array, open, res, aref>>
    BY <1>7 DEF MergeSkip, arrayVars, mergeVars, localVars, fileVars, taskVars
  <2> QED
    BY <2>1, FencesSame
<1>8. ASSUME MergeNext
      PROVE  FenceRefs'
  <2>1. UNCHANGED <<ref, out, array, open, res, aref>>
    BY <1>8 DEF MergeNext, arrayVars, mergeVars, localVars, fileVars, taskVars
  <2> QED
    BY <2>1, FencesSame
<1>9. ASSUME MergeSelect
      PROVE  FenceRefs'
  <2>1. UNCHANGED <<ref, out, array, open, res, aref>>
    BY <1>9 DEF MergeSelect, Compares, arrayVars, mergeVars, localVars, fileVars, taskVars
  <2> QED
    BY <2>1, FencesSame
<1>10. ASSUME MergeKeep
      PROVE  FenceRefs'
  <2>1. UNCHANGED <<ref, out, array, open, res, aref>>
    BY <1>10 DEF MergeKeep, Compares, arrayVars, mergeVars, localVars, fileVars, taskVars
  <2> QED
    BY <2>1, FencesSame
<1>11. ASSUME MergeDrop
      PROVE  FenceRefs'
  <2>1. UNCHANGED <<ref, out, array, open, res, aref>>
    BY <1>11 DEF MergeDrop, Compares, arrayVars, mergeVars, localVars, fileVars, taskVars
  <2> QED
    BY <2>1, FencesSame
<1>12. ASSUME MergeOut
      PROVE  FenceRefs'
  <2> DEFINE g == At(sel)
  <2>1. SUFFICES ASSUME NEW f \in Fences
                 PROVE  ref'[f] = Count(out, f)' + ArrayRef(f)' + FileRef(f)'
    BY DEF FenceRefs, ArrayRef, FileRef
  <2>2. /\ ref[f] = Count(out, f) + ArrayRef(f) + FileRef(f) /\ ref[f] \in Int
        /\ Count(out, f) \in Nat /\ ArrayRef(f) \in Nat /\ FileRef(f) \in {0, 1}
    BY FenceParts, FenceRefsMeans DEF TypeOK
  <2>3. g \in Fences
    BY <1>12, ElementIn DEF MergeOut, Selected, MergeType, AtEnd, At
  <2>4. out \in Seq(Fences) /\ out' = Append(out, g) /\ UNCHANGED <<array, aref, open, res>>
    BY <1>12 DEF MergeOut, TypeOK, fileVars
  <2>5. ref'[f] = ref[f] + (IF g = f THEN 1 ELSE 0)
    <3>1. ref' = [ref EXCEPT ![g] = @ + 1]
      BY <1>12 DEF MergeOut
    <3> HIDE DEF g
    <3> QED
      BY <2>3, <3>1 DEF TypeOK
  <2> HIDE DEF g
  <2>6. Count(out', f) = Count(out, f) + (IF g = f THEN 1 ELSE 0)
    BY <2>3, <2>4, CountAppend
  <2>7. ArrayRef(f)' = ArrayRef(f) /\ FileRef(f)' = FileRef(f)
    BY <2>4 DEF ArrayRef, Freed, Count, FileRef, Bit
  <2> QED
    BY <2>2, <2>5, <2>6, <2>7
<1>13. ASSUME MergeStub
      PROVE  FenceRefs'
  <2>1. SUFFICES ASSUME NEW f \in Fences
                 PROVE  ref'[f] = Count(out, f)' + ArrayRef(f)' + FileRef(f)'
    BY DEF FenceRefs, ArrayRef, FileRef
  <2>2. /\ ref[f] = Count(out, f) + ArrayRef(f) + FileRef(f) /\ ref[f] \in Int
        /\ Count(out, f) \in Nat /\ ArrayRef(f) \in Nat /\ FileRef(f) \in {0, 1}
    BY FenceParts, FenceRefsMeans DEF TypeOK
  <2>3. out = <<>> /\ out' = <<>> /\ UNCHANGED <<ref, array, aref>> /\ res'.kind # "fence" /\ open = 0
    BY <1>13 DEF MergeStub, Result, MergeEnds, Phases, TypeOK, arrayVars, mergeVars, localVars, fileVars, taskVars
  <2>4. Count(out, f)' = 0 /\ Count(out, f) = 0
    BY <2>3, CountEmpty
  <2>5. ArrayRef(f)' = ArrayRef(f) /\ FileRef(f) = 0 /\ FileRef(f)' = 0
    BY <2>3 DEF ArrayRef, Freed, Count, FileRef, Bit
  <2> QED
    BY <2>2, <2>3, <2>4, <2>5
<1>14. ASSUME MergeOne
      PROVE  FenceRefs'
  <2>1. SUFFICES ASSUME NEW f \in Fences
                 PROVE  ref'[f] = Count(out, f)' + ArrayRef(f)' + FileRef(f)'
    BY DEF FenceRefs, ArrayRef, FileRef
  <2>2. /\ ref[f] = Count(out, f) + ArrayRef(f) + FileRef(f) /\ ref[f] \in Int
        /\ Count(out, f) \in Nat /\ ArrayRef(f) \in Nat /\ FileRef(f) \in {0, 1}
    BY FenceParts, FenceRefsMeans DEF TypeOK
  <2>3. /\ out \in Seq(Fences) /\ Len(out) = 1 /\ out' = <<>> /\ UNCHANGED <<ref, array, aref>>
        /\ open = 0 /\ open' = 1 /\ res'.kind = "fence" /\ res'.fence = out[1]
    BY <1>14 DEF MergeOne, MergeEnds, Result, Phases, TypeOK, arrayVars
  <2>4. Count(out, f)' = 0 /\ Count(out, f) = Bit(out[1] = f)
    BY <2>3, CountEmpty, CountOneOf
  <2>5. ArrayRef(f)' = ArrayRef(f) /\ FileRef(f) = 0
    BY <2>3 DEF ArrayRef, Freed, Count, FileRef, Bit
  <2>6. FileRef(f)' = Bit(out[1] = f)
    BY <2>3 DEF FileRef, Bit
  <2> QED
    BY <2>2, <2>3, <2>4, <2>5, <2>6
<1>15. ASSUME MergeArray
      PROVE  FenceRefs'
  <2>1. SUFFICES ASSUME NEW f \in Fences
                 PROVE  ref'[f] = Count(out, f)' + ArrayRef(f)' + FileRef(f)'
    BY DEF FenceRefs, ArrayRef, FileRef
  <2>2. /\ ref[f] = Count(out, f) + ArrayRef(f) + FileRef(f) /\ ref[f] \in Int
        /\ Count(out, f) \in Nat /\ ArrayRef(f) \in Nat /\ FileRef(f) \in {0, 1}
    BY FenceParts, FenceRefsMeans DEF TypeOK
  <2>3. /\ out' = <<>> /\ array' = out /\ aref' = 1 /\ ref' = ref /\ array = <<>>
        /\ open = 0 /\ res'.kind = "array"
    BY <1>15 DEF MergeArray, MergeEnds, Result, Create, Phases, NoArray, HasArray
  <2>4. Count(out, f)' = 0 /\ Count(array, f)' = Count(out, f) /\ Count(array, f) = 0
    BY <2>3, CountEmpty
  <2>5. ArrayRef(f) = 0 /\ ArrayRef(f)' = Count(out, f)
    BY <2>3, <2>4 DEF ArrayRef, Freed
  <2>6. FileRef(f) = 0 /\ FileRef(f)' = 0
    BY <2>3 DEF FileRef, Bit
  <2> QED
    BY <2>2, <2>3, <2>4, <2>5, <2>6
<1>16. ASSUME VmidArray
      PROVE  FenceRefs'
  <2>1. SUFFICES ASSUME NEW f \in Fences
                 PROVE  ref'[f] = Count(out, f)' + ArrayRef(f)' + FileRef(f)'
    BY DEF FenceRefs, ArrayRef, FileRef
  <2>2. /\ ref[f] = Count(out, f) + ArrayRef(f) + FileRef(f) /\ ref[f] \in Int
        /\ Count(out, f) \in Nat /\ ArrayRef(f) \in Nat /\ FileRef(f) \in {0, 1}
    BY FenceParts, FenceRefsMeans DEF TypeOK
  <2>3. /\ out = <<>> /\ out' = <<>> /\ array' = inp[1] /\ aref' = 1 /\ array = <<>>
        /\ open = 0 /\ res'.kind = "vmid" /\ ref'[f] = ref[f] + Count(inp[1], f)
    BY <1>16 DEF VmidArray, Result, Create, Phases, NoArray, HasArray
  <2>4. inp[1] \in Seq(Fences)
    BY <1>16 DEF VmidArray, MergeType
  <2>5. /\ Count(out, f)' = 0 /\ Count(out, f) = 0 /\ Count(array, f) = 0
        /\ Count(array, f)' = Count(inp[1], f) /\ Count(inp[1], f) \in Nat
    BY <2>3, <2>4, CountEmpty, CountNat
  <2>6. ArrayRef(f) = 0 /\ ArrayRef(f)' = Count(inp[1], f)
    BY <2>3, <2>5 DEF ArrayRef, Freed
  <2>7. FileRef(f) = 0 /\ FileRef(f)' = 0
    BY <2>3 DEF FileRef, Bit
  <2> QED
    BY <2>2, <2>3, <2>5, <2>6, <2>7
<1>17. ASSUME NEW k \in Slots, CallbackLast(k), UNCHANGED <<mergeVars, fileVars, taskVars>>
      PROVE  FenceRefs'
  <2>1. UNCHANGED <<ref, out, array, open, res, aref>>
    BY <1>17 DEF CallbackLast, arrayVars, mergeVars, localVars, fileVars, taskVars
  <2> QED
    BY <2>1, FencesSame
<1>18. ASSUME NEW k \in Slots, CallbackCounts(k), UNCHANGED <<mergeVars, fileVars, taskVars>>
      PROVE  FenceRefs'
  <2>1. UNCHANGED <<ref, out, array, open, res, aref>>
    BY <1>18 DEF CallbackCounts, arrayVars, mergeVars, localVars, fileVars, taskVars
  <2> QED
    BY <2>1, FencesSame
<1>19. ASSUME NEW k \in Slots, CallbackPut(k), UNCHANGED <<mergeVars, fileVars, taskVars>>
      PROVE  FenceRefs'
  <2>1. PutArray /\ UNCHANGED <<out, array, res>> /\ k \in Slots /\ cb[k] = "put"
    BY <1>19 DEF CallbackPut, arrayVars, mergeVars, localVars, fileVars, taskVars
  <2>2. HasArray
    BY <2>1 DEF NoArray, Slots
  <2>3. aref >= 1
    BY <2>1, <2>2, HolderKeeps DEF Holder
  <2> QED
    BY <2>1, <2>2, <2>3, FencesPut
<1>20. ASSUME WorkSignal, CallNode, UNCHANGED <<mergeVars, res, open, flag, cpc>>
      PROVE  FenceRefs'
  <2>1. UNCHANGED <<ref, out, array, open, res, aref>>
    BY <1>20 DEF WorkSignal, CallNode, Woken, arrayVars, mergeVars, localVars, fileVars, taskVars
  <2> QED
    BY <2>1, FencesSame
<1>21. ASSUME WorkPut, UNCHANGED <<mergeVars, fileVars, taskVars>>
      PROVE  FenceRefs'
  <2>1. PutArray /\ UNCHANGED <<out, array, res>> /\ work # "idle"
    BY <1>21 DEF WorkPut, arrayVars, mergeVars, localVars, fileVars, taskVars
  <2>2. HasArray
    BY <2>1 DEF NoArray, Slots
  <2>3. aref >= 1
    BY <2>1, <2>2, HolderKeeps DEF Holder
  <2> QED
    BY <2>1, <2>2, <2>3, FencesPut
<1>22. ASSUME EnableTest, UNCHANGED <<mergeVars, fileVars, taskVars>>
      PROVE  FenceRefs'
  <2>1. UNCHANGED <<ref, out, array, open, res>>
    BY <1>22 DEF EnableTest, arrayVars, mergeVars, localVars, fileVars, taskVars
  <2>2. aref >= 1 /\ aref' >= 1
    <3>1. aref - slow >= 1 /\ aref >= 1
      BY <1>22, EnablerKeeps DEF EnableTest, EnableRefs, Slots, TypeOK
    <3> QED
      BY <1>22, <3>1 DEF EnableTest, EnableRefs, TypeOK
  <2> QED
    BY <2>1, <2>2, FencesSame DEF TypeOK
<1>23. ASSUME EnableAdd, UNCHANGED <<mergeVars, fileVars, taskVars>>
      PROVE  FenceRefs'
  <2>1. UNCHANGED <<ref, out, array, open, res, aref>>
    BY <1>23 DEF EnableAdd, arrayVars, mergeVars, localVars, fileVars, taskVars
  <2> QED
    BY <2>1, FencesSame
<1>24. ASSUME EnableSkip, UNCHANGED <<mergeVars, fileVars, taskVars>>
      PROVE  FenceRefs'
  <2>1. UNCHANGED <<ref, out, array, open, res>>
    BY <1>24 DEF EnableSkip, AddFails, TakesToZero, PutUnused, arrayVars, mergeVars, localVars, fileVars, taskVars
  <2>2. aref >= 1 /\ aref' >= 1
    <3>1. aref - slow >= 1 /\ aref >= 1
      BY <1>24, EnablerKeeps DEF EnableSkip, AddFails, TakesToZero, PutUnused, Slots, TypeOK
    <3> QED
      BY <1>24, <3>1 DEF EnableSkip, AddFails, TakesToZero, PutUnused, TypeOK
  <2> QED
    BY <2>1, <2>2, FencesSame DEF TypeOK
<1>25. ASSUME Close
      PROVE  FenceRefs'
  <2>1. open = 1 /\ open' = 0 /\ UNCHANGED <<out, array, res>> /\ PutResult
    BY <1>25 DEF Close, arrayVars, mergeVars, localVars, fileVars, taskVars
  <2>2. CASE HasArray
    <3>1. PutArray
      BY <2>1, <2>2 DEF PutResult, HasArray
    <3>2. aref >= 1
      BY <2>1, <2>2, HolderKeeps DEF Holder
    <3> QED
      BY <2>1, <2>2, <3>1, <3>2, FencesPut
  <2>3. CASE ~HasArray
    <3>1. SUFFICES ASSUME NEW f \in Fences
                   PROVE  ref'[f] = Count(out, f)' + ArrayRef(f)' + FileRef(f)'
      BY DEF FenceRefs, ArrayRef, FileRef
    <3>2. /\ ref[f] = Count(out, f) + ArrayRef(f) + FileRef(f) /\ ref[f] \in Int
          /\ Count(out, f) \in Nat /\ ArrayRef(f) \in Nat /\ FileRef(f) \in {0, 1}
      BY FenceParts, FenceRefsMeans DEF TypeOK
    <3>3. aref' = aref /\ ref'[f] = ref[f] - FileRef(f)
      BY <2>1, <2>3 DEF PutResult, FileRef, Bit, HasArray, TypeOK
    <3>4. Count(out, f)' = Count(out, f) /\ ArrayRef(f)' = ArrayRef(f)
      BY <2>1, <3>3 DEF Count, ArrayRef, Freed
    <3>5. FileRef(f)' = 0
      BY <2>1 DEF FileRef, Bit
    <3> QED
      BY <3>2, <3>3, <3>4, <3>5
  <2> QED
    BY <2>2, <2>3
<1>26. ASSUME NEW p \in Pollers, PollStart(p)
      PROVE  FenceRefs'
  <2>1. UNCHANGED <<ref, out, array, open, res, aref>>
    BY <1>26 DEF PollStart, Goto, arrayVars, mergeVars, localVars, fileVars, taskVars
  <2> QED
    BY <2>1, FencesSame
<1>27. ASSUME NEW p \in Pollers, PollFirst(p)
      PROVE  FenceRefs'
  <2>1. UNCHANGED <<ref, out, array, open, res, aref>>
    BY <1>27 DEF PollFirst, Goto, arrayVars, mergeVars, localVars, fileVars, taskVars
  <2> QED
    BY <2>1, FencesSame
<1>28. ASSUME NEW p \in Pollers, PollOther(p)
      PROVE  FenceRefs'
  <2>1. UNCHANGED <<ref, out, array, open, res, aref>>
    BY <1>28 DEF PollOther, Goto, arrayVars, mergeVars, localVars, fileVars, taskVars
  <2> QED
    BY <2>1, FencesSame
<1>29. ASSUME NEW p \in Pollers, PollAddFails(p)
      PROVE  FenceRefs'
  <2>1. UNCHANGED <<ref, out, array, open, res, aref>>
    BY <1>29 DEF PollAddFails, WokenAnd, Woken, arrayVars, mergeVars, localVars, fileVars, taskVars
  <2> QED
    BY <2>1, FencesSame
<1>30. ASSUME NEW p \in Pollers, PollAdd(p)
      PROVE  FenceRefs'
  <2>1. UNCHANGED <<ref, out, array, open, res, aref>>
    BY <1>30 DEF PollAdd, Goto, arrayVars, mergeVars, localVars, fileVars, taskVars
  <2> QED
    BY <2>1, FencesSame
<1>31. ASSUME NEW p \in Pollers, PollEnable(p)
      PROVE  FenceRefs'
  <2>1. UNCHANGED <<ref, out, array, open, res, aref>>
    BY <1>31 DEF PollEnable, Goto, EnableBegin, arrayVars, mergeVars, localVars, fileVars, taskVars
  <2> QED
    BY <2>1, FencesSame
<1>32. ASSUME NEW p \in Pollers, PollEnabled(p)
      PROVE  FenceRefs'
  <2>1. UNCHANGED <<ref, out, array, open, res, aref>>
    BY <1>32 DEF PollEnabled, Goto, EnableEnd, arrayVars, mergeVars, localVars, fileVars, taskVars
  <2> QED
    BY <2>1, FencesSame
<1>33. ASSUME NEW p \in Pollers, PollEnableFails(p)
      PROVE  FenceRefs'
  <2>1. UNCHANGED <<ref, out, array, open, res>>
    BY <1>33 DEF PollEnableFails, EnableLast, AddFails, TakesToZero, PutUnused, arrayVars, mergeVars, localVars, fileVars, taskVars
  <2>2. aref >= 1 /\ aref' >= 1
    <3>1. aref - slow >= 1 /\ aref >= 1
      BY <1>33, EnablerKeeps DEF PollEnableFails, EnableLast, AddFails, TakesToZero, PutUnused, Slots, TypeOK
    <3> QED
      BY <1>33, <3>1 DEF PollEnableFails, EnableLast, AddFails, TakesToZero, PutUnused, TypeOK
  <2> QED
    BY <2>1, <2>2, FencesSame DEF TypeOK
<1>34. ASSUME NEW p \in Pollers, PollReady(p)
      PROVE  FenceRefs'
  <2>1. UNCHANGED <<ref, out, array, open, res, aref>>
    BY <1>34 DEF PollReady, Goto, arrayVars, mergeVars, localVars, fileVars, taskVars
  <2> QED
    BY <2>1, FencesSame
<1>35. ASSUME NEW p \in Pollers, PollSignals(p)
      PROVE  FenceRefs'
  <2>1. UNCHANGED <<ref, out, array, open, res, aref>>
    BY <1>35 DEF PollSignals, Poll, WokenAnd, Woken, arrayVars, mergeVars, localVars, fileVars, taskVars
  <2> QED
    BY <2>1, FencesSame
<1>36. ASSUME NEW p \in Pollers, PollSleep(p)
      PROVE  FenceRefs'
  <2>1. UNCHANGED <<ref, out, array, open, res, aref>>
    BY <1>36 DEF PollSleep, Goto, arrayVars, mergeVars, localVars, fileVars, taskVars
  <2> QED
    BY <2>1, FencesSame
<1>37. ASSUME NEW c \in Clients, ClientGet(c)
      PROVE  FenceRefs'
  <2>1. UNCHANGED <<ref, out, array, open, res>>
    BY <1>37 DEF ClientGet, arrayVars, mergeVars, localVars, fileVars, taskVars
  <2>2. aref >= 1 /\ aref' >= 1
    <3>1. aref >= 1
      BY <1>37, HolderKeeps DEF ClientGet, Holder
    <3> QED
      BY <1>37, <3>1 DEF ClientGet, TypeOK
  <2> QED
    BY <2>1, <2>2, FencesSame DEF TypeOK
<1>38. ASSUME NEW c \in Clients, ClientEnable(c)
      PROVE  FenceRefs'
  <2>1. UNCHANGED <<ref, out, array, open, res, aref>>
    BY <1>38 DEF ClientEnable, EnableBegin, arrayVars, mergeVars, localVars, fileVars, taskVars
  <2> QED
    BY <2>1, FencesSame
<1>39. ASSUME NEW c \in Clients, ClientEnabled(c)
      PROVE  FenceRefs'
  <2>1. UNCHANGED <<ref, out, array, open, res, aref>>
    BY <1>39 DEF ClientEnabled, EnableEnd, arrayVars, mergeVars, localVars, fileVars, taskVars
  <2> QED
    BY <2>1, FencesSame
<1>40. ASSUME NEW c \in Clients, ClientEnableFails(c)
      PROVE  FenceRefs'
  <2>1. UNCHANGED <<ref, out, array, open, res>>
    BY <1>40 DEF ClientEnableFails, EnableLast, AddFails, TakesToZero, PutUnused, arrayVars, mergeVars, localVars, fileVars, taskVars
  <2>2. aref >= 1 /\ aref' >= 1
    <3>1. aref - slow >= 1 /\ aref >= 1
      BY <1>40, EnablerKeeps DEF ClientEnableFails, EnableLast, AddFails, TakesToZero, PutUnused, Slots, TypeOK
    <3> QED
      BY <1>40, <3>1 DEF ClientEnableFails, EnableLast, AddFails, TakesToZero, PutUnused, TypeOK
  <2> QED
    BY <2>1, <2>2, FencesSame DEF TypeOK
<1>41. ASSUME NEW c \in Clients, ClientPut(c)
      PROVE  FenceRefs'
  <2>1. PutArray /\ UNCHANGED <<out, array, res>> /\ cpc[c] # "idle"
    BY <1>41 DEF ClientPut, arrayVars, mergeVars, localVars, fileVars, taskVars
  <2>2. HasArray
    BY <2>1 DEF NoArray, Slots
  <2>3. aref >= 1
    BY <2>1, <2>2, HolderKeeps DEF Holder
  <2> QED
    BY <2>1, <2>2, <2>3, FencesPut
<1> QED
  BY <1>1, <1>2, <1>3, <1>4, <1>5, <1>6, <1>7, <1>8, <1>9, <1>10, <1>11, <1>12, <1>13, <1>14, <1>15, <1>16, <1>17, <1>18, <1>19, <1>20, <1>21, <1>22, <1>23, <1>24, <1>25, <1>26, <1>27, <1>28, <1>29, <1>30, <1>31, <1>32, <1>33, <1>34, <1>35, <1>36, <1>37, <1>38, <1>39, <1>40, <1>41 DEF Next, Merge, Callback, Work, EnableLoop, PollStep, ClientStep

----------------------------------------------------------------------------
(* The invariant                                                           *)

LEMMA InitCounts ==
  ASSUME Init
  PROVE  Fits
<1>1. mpc = "count" /\ size = 0 /\ pos = <<1, 1>> /\ inp \in [1 .. 2 -> Seq(Fences)]
  BY MergeAssumption DEF Init
<1>2. ASSUME NEW k \in 1 .. 2 PROVE Counted(k) = {}
  <2>1. pos[k] = 1 /\ DOMAIN inp[k] = 1 .. Len(inp[k]) /\ Len(inp[k]) \in Nat
    BY <1>1
  <2> QED
    BY <2>1 DEF Counted
<1>3. Counted(1) = {} /\ Counted(2) = {}
  BY <1>2
<1>4. Cardinality(Counted(1)) = 0 /\ Cardinality(Counted(2)) = 0
  BY <1>3, FS_EmptySet
<1> QED
  BY <1>1, <1>4 DEF Fits

LEMMA InitAsked ==
  ASSUME Init
  PROVE  asked \subseteq Fences /\ AskedIn
<1>1. /\ inp \in [1 .. 2 -> Seq(Fences)]
      /\ asked = {inp[1][k] : k \in DOMAIN inp[1]} \cup {inp[2][k] : k \in DOMAIN inp[2]}
  BY MergeAssumption DEF Init
<1>2. inp[1] \in Seq(Fences) /\ inp[2] \in Seq(Fences)
  BY <1>1
<1>3. /\ \A k \in DOMAIN inp[1] : inp[1][k] \in Fences
      /\ \A k \in DOMAIN inp[2] : inp[2][k] \in Fences
  BY <1>2, ElementIn
<1>4. asked \subseteq Fences
  BY <1>1, <1>3
<1>5. ASSUME NEW f \in asked PROVE \E k \in 1 .. 2 : \E j \in DOMAIN inp[k] : inp[k][j] = f
  <2>1. CASE \E j \in DOMAIN inp[1] : f = inp[1][j]
    BY <2>1
  <2>2. CASE \E j \in DOMAIN inp[2] : f = inp[2][j]
    BY <2>2
  <2> QED
    BY <1>1, <2>1, <2>2
<1> QED
  BY <1>4, <1>5 DEF AskedIn

LEMMA InitIInv == Init => IInv
<1> SUFFICES ASSUME Init PROVE IInv
  OBVIOUS
<1> USE DEF Init, ArrayInit
<1>1. TypeOK
  <2>1. cb \in [Slots -> CbStates]
    BY DEF Slots
  <2>2. asked \subseteq Fences
    BY InitAsked
  <2> QED
    BY <2>1, <2>2 DEF TypeOK
<1>2. MergeType
  <2>1. inp \in [1 .. 2 -> Seq(Fences)] /\ pos = <<1, 1>> /\ i = 1 /\ sel = 0 /\ size = 0
    BY MergeAssumption
  <2>2. pos \in [1 .. 2 -> Nat] /\ \A k \in 1 .. 2 : pos[k] = 1
    BY <2>1
  <2>3. \A k \in 1 .. 2 : Len(inp[k]) \in Nat
    BY <2>1
  <2> QED
    BY <2>1, <2>2, <2>3 DEF MergeType
<1>3. Ordered /\ Phases /\ NoArray /\ Selected /\ Covered /\ ResultSound
  BY DEF Ordered, Phases, NoArray, Selected, Covered, ResultSound, HasArray
<1>4. EnableInv /\ CalledInv /\ PendingInv /\ Kept
  BY DEF EnableInv, CalledInv, PendingInv, Kept, HasArray, Slots
<1>5. RefsExact
  <2>1. ArrayRefs
    BY DEF ArrayRefs, HasArray
  <2>2. \A f \in Fences : Count(out, f) = 0 /\ Count(array, f) = 0
    BY CountEmpty
  <2>3. FenceRefs
    BY <2>2 DEF FenceRefs, Freed, Bit
  <2> QED
    BY <2>1, <2>3, RefsParts
<1> QED
  BY <1>1, <1>2, <1>3, <1>4, <1>5, InitCounts, InitAsked DEF IInv

LEMMA StutterIInv ==
  ASSUME IInv, UNCHANGED vars
  PROVE  IInv'
<1> USE DEF vars, arrayVars, mergeVars, localVars, fileVars, taskVars
<1>1. /\ UNCHANGED <<sig, ref, array, any, pending, aref, asig, enabled, en, slow, cb, work>>
      /\ UNCHANGED <<mpc, asked, inp, pos, i, sel, size, out, res, open, flag, node, pc, cpc>>
  OBVIOUS
<1>2. TypeOK'
  BY <1>1 DEF IInv, TypeOK, Slots
<1>3. MergeType'
  BY <1>1 DEF IInv, MergeType
<1>4. Ordered'
  BY <1>1 DEF IInv, Ordered
<1>5. Phases'
  BY <1>1 DEF IInv, Phases
<1>6. NoArray'
  BY <1>1 DEF IInv, NoArray, HasArray
<1>7. Selected'
  BY <1>1 DEF IInv, Selected, AtEnd
<1>8. Fits'
  BY <1>1 DEF IInv, Fits, Counted, Left
<1>9. AskedIn'
  BY <1>1 DEF IInv, AskedIn
<1>10. Covered'
  BY <1>1 DEF IInv, Covered, InOut, Waiting, Stands
<1>11. ResultSound'
  BY <1>1 DEF IInv, ResultSound, Covers, HasArray, Slots
<1>12. EnableInv'
  BY <1>1 DEF IInv, EnableInv, Slots
<1>13. CalledInv'
  BY <1>1 DEF IInv, CalledInv, Passed, Slots
<1>14. PendingInv'
  BY <1>1 DEF IInv, PendingInv, PendingSlots, Pends, Passed, HasArray, Slots
<1>15. Kept'
  BY <1>1 DEF IInv, Kept
<1>16. RefsExact'
  BY <1>1 DEF IInv, RefsExact, HasArray, Slots, Freed, Count, Bit
<1> QED
  BY <1>2, <1>3, <1>4, <1>5, <1>6, <1>7, <1>8, <1>9, <1>10, <1>11, <1>12, <1>13, <1>14, <1>15, <1>16 DEF IInv

LEMMA NextIInv ==
  ASSUME IInv, Next
  PROVE  IInv'
<1>1. /\ TypeOK /\ MergeType /\ Ordered /\ Phases /\ NoArray
      /\ Selected /\ Fits /\ AskedIn /\ Covered /\ ResultSound
      /\ EnableInv /\ CalledInv /\ PendingInv /\ Kept /\ ArrayRefs /\ FenceRefs
  BY RefsParts DEF IInv
<1>2. TypeOK'
  BY <1>1, TypeStep
<1>3. MergeType'
  BY <1>1, MergeTypeStep
<1>4. Ordered'
  BY <1>1, OrderedStep
<1>5. Phases'
  BY <1>1, PhasesStep
<1>6. NoArray'
  BY <1>1, NoArrayStep
<1>7. Selected'
  BY <1>1, SelectedStep
<1>8. Fits'
  BY <1>1, FitsStep
<1>9. AskedIn'
  BY <1>1, AskedInStep
<1>10. Covered'
  BY <1>1, CoveredStep
<1>11. ResultSound'
  BY <1>1, ResultStep
<1>12. EnableInv'
  BY <1>1, EnableStep
<1>13. CalledInv'
  BY <1>1, CalledStep
<1>14. PendingInv'
  BY <1>1, PendingStep
<1>15. Kept'
  BY <1>1, KeptStep
<1>16. ArrayRefs' /\ FenceRefs'
  BY <1>1, ArrayRefsStep, FenceRefsStep
<1>17. RefsExact'
  BY <1>16 DEF RefsExact, ArrayRefs, FenceRefs, ClientSet, CbSet
<1> QED
  BY <1>2, <1>3, <1>4, <1>5, <1>6, <1>7, <1>8, <1>9, <1>10, <1>11, <1>12, <1>13, <1>14, <1>15, <1>17 DEF IInv

\* IInv holds in every state of the merge, of the array and of the file.
THEOREM Invariant == Spec => []IInv
<1>1. IInv /\ [Next]_vars => IInv'
  BY NextIInv, StutterIInv
<1> QED
  BY InitIInv, <1>1, PTL DEF Spec

\* When num_pending is 0, the callbacks of all slots have been called, or were
\* not needed.
LEMMA SignalIsSound ==
  ASSUME TypeOK, NoArray, EnableInv, CalledInv, PendingInv
  PROVE  ArraySignalSound
<1> SUFFICES ASSUME asig = TRUE
             PROVE  IF any = "any" THEN \E k \in Slots : array[k] \in sig
                    ELSE \A k \in Slots : array[k] \in sig
  BY DEF ArraySignalSound
<1>1. HasArray
  BY DEF NoArray
<1>2. pending <= 0
  BY <1>1 DEF PendingInv
<1>3. CASE any = "any"
  BY <1>1, <1>2, <1>3 DEF PendingInv
<1>4. CASE any = "all"
  <2>1. Cardinality(PendingSlots) = 0
    <3> DEFINE n == Cardinality(PendingSlots)
    <3>1. n = pending /\ n \in Nat
      BY <1>1, <1>4, SlotsFinite DEF PendingInv
    <3> HIDE DEF n
    <3>2. n = 0
      BY <1>2, <3>1
    <3> QED
      BY <3>2 DEF n
  <2>2. PendingSlots = {}
    BY <2>1, SlotsFinite, CountType
  <2>3. ASSUME NEW k \in Slots PROVE array[k] \in sig
    <3>1. ~Pends(k)
      BY <2>2 DEF PendingSlots
    <3>2. cb[k] \in CbStates
      BY DEF TypeOK
    <3>3. cb[k] \in {"called", "put", "done"} \/ (cb[k] = "none" /\ Passed(k))
      BY <3>1, <3>2 DEF Pends, CbStates
    <3> QED
      BY <1>4, <3>3 DEF CalledInv
  <2> QED
    BY <1>4, <2>3
<1> QED
  BY <1>3, <1>4 DEF TypeOK

\* __dma_fence_unwrap_merge() never writes past the array that it allocated for
\* the fences it counted, whichever of them signal meanwhile, and what it
\* returns stands for every fence of the containers that is not signalled.
THEOREM MergeIsComplete == Spec => []MergeSound
<1>1. IInv => MergeSound
  BY MergeIsSound DEF IInv
<1> QED
  BY Invariant, <1>1, PTL

\* A fence array signals only after all its fences, or with signal_on_any after
\* one of them: no order of callbacks, of the loop of enable_signaling() and of
\* polls takes num_pending to 0 early.
THEOREM ArraySignalsInTime == Spec => []ArraySignalSound
<1>1. IInv => ArraySignalSound
  BY SignalIsSound DEF IInv
<1> QED
  BY Invariant, <1>1, PTL

\* The array is freed when the last of the file, the clients, the callbacks and
\* the irq_work is through with it and not before, and the fences are released
\* with it.
THEOREM ArrayRefsAreExact == Spec => []RefsExact
<1>1. IInv => RefsExact
  BY DEF IInv
<1> QED
  BY Invariant, <1>1, PTL

=============================================================================

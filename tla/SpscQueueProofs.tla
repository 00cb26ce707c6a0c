-------------------------- MODULE SpscQueueProofs --------------------------
(***************************************************************************)
(* Proofs about SpscQueue: the inductive invariant that relates the linked *)
(* list to the history variable queue, and from it that the lock-free      *)
(* queue implements the FIFO queue of FifoQueue.                           *)
(***************************************************************************)
EXTENDS SpscQueue, SequenceTheorems, TLAPS

----------------------------------------------------------------------------
(* Sequences                                                               *)

\* What Append() does to the length and the elements.
LEMMA AppendElements ==
  ASSUME NEW s \in Seq(Nodes), NEW e \in Nodes
  PROVE  /\ Append(s, e) \in Seq(Nodes)
         /\ Append(s, e) # <<>>
         /\ Len(Append(s, e)) = Len(s) + 1
         /\ \A i \in 1 .. Len(s) : Append(s, e)[i] = s[i]
         /\ Append(s, e)[Len(s) + 1] = e
OBVIOUS

\* What Tail() does to them.
LEMMA TailElements ==
  ASSUME NEW s \in Seq(Nodes), s # <<>>
  PROVE  /\ Tail(s) \in Seq(Nodes)
         /\ Len(s) \in Nat \ {0}
         /\ Head(s) = s[1]
         /\ Len(Tail(s)) = Len(s) - 1
         /\ \A i \in 1 .. Len(s) - 1 : Tail(s)[i] = s[i + 1]
         /\ Len(s) = 1 => Tail(s) = <<>>
         /\ Len(s) # 1 => Tail(s) # <<>>
<1>1. Len(s) \in Nat \ {0} /\ Head(s) = s[1]
  BY EmptySeq, LenProperties
<1>2. /\ Tail(s) \in Seq(Nodes)
      /\ Len(Tail(s)) = Len(s) - 1
      /\ \A i \in 1 .. Len(s) - 1 : Tail(s)[i] = s[i + 1]
  BY HeadTailProperties, SMT
<1>3. Tail(s) # <<>> <=> Len(s) - 1 # 0
  BY <1>1, <1>2, EmptySeq
<1> QED
  BY <1>1, <1>2, <1>3

\* A sequence is empty exactly when its length is zero.
LEMMA EmptyLength ==
  ASSUME NEW s \in Seq(Nodes)
  PROVE  Len(s) \in Nat /\ (s = <<>> <=> Len(s) = 0)
OBVIOUS

----------------------------------------------------------------------------
(* The inductive invariant                                                 *)

\* The cell that the next push has to write.
LastCell == IF queue = <<>> THEN Root ELSE queue[Len(queue)]

\* The next fields spell out the queue.
ListInv ==
  /\ \A i, j \in 1 .. Len(queue) : queue[i] = queue[j] => i = j
  /\ \A i \in 1 .. Len(queue) - 1 : next[queue[i]] = queue[i + 1]
  /\ queue # <<>> => next[queue[Len(queue)]] = NULL

\* The node of a push is in nobody's hands; tail is the last cell, or the old
\* tail of the push is.
PushInv ==
  /\ ppc # "idle" => pnode \in Nodes
  /\ ppc \in {"xchg", "link"} => ~Queued(pnode) /\ next[pnode] = NULL
  /\ ppc # "link" => tail = LastCell
  /\ ppc = "link" => tail = pnode /\ ptail = LastCell

\* head is the first node, but for the window in which pop has cleared it and
\* has still to find out whether a push is on its way.
PopInv ==
  /\ cpc \in {"next", "advance", "cmpxchg", "spin"} => queue # <<>> /\ cnode = queue[1]
  /\ cpc \in {"cmpxchg", "spin"} => head = NULL
  /\ cpc \in {"idle", "next", "advance", "count"} =>
       head = IF queue = <<>> THEN NULL ELSE queue[1]
  /\ cpc = "count" => cnode \in Nodes
  /\ cpc = "advance" /\ cnext # NULL => Len(queue) > 1 /\ cnext = queue[2]

IInv == TypeOK /\ ListInv /\ PushInv /\ PopInv /\ CountLags

LEMMA InitInv == Init => IInv
<1> SUFFICES ASSUME Init PROVE IInv
  OBVIOUS
<1>1. TypeOK
  <2>1. next \in [Nodes -> OptNode] /\ queue \in Seq(Nodes)
    BY EmptySeq DEF Init, OptNode
  <2>2. first \in BOOLEAN
    BY Zenon DEF Init
  <2>3. /\ head \in OptNode /\ tail \in Cell /\ job_count \in Int
        /\ pnode \in OptNode /\ ptail \in Cell
        /\ cnode \in OptNode /\ cnext \in OptNode /\ got \in OptNode
    BY DEF Init, OptNode, Cell
  <2>4. ppc = "idle" /\ cpc = "idle"
    BY DEF Init
  <2> QED
    BY <2>1, <2>2, <2>3, <2>4 DEF TypeOK
<1>2. ListInv /\ PushInv /\ PopInv /\ CountLags
  BY DEF Init, ListInv, PushInv, PopInv, CountLags, LastCell, Queued
<1> QED
  BY <1>1, <1>2 DEF IInv

----------------------------------------------------------------------------
(* One lemma for each step that changes the list, one for the others       *)

LEMMA PushStartInv == ASSUME IInv, NEW n \in Nodes, PushStart(n) PROVE IInv'
<1>0. ~Queued(n) /\ next' = [next EXCEPT ![n] = NULL] /\ queue' = queue
  BY DEF PushStart, NextInit
<1>1. TypeOK'
  BY DEF IInv, TypeOK, PushStart, NextInit, OptNode, Cell
<1>2. ListInv'
  BY <1>0, EmptyLength DEF IInv, TypeOK, ListInv, Queued
<1>3. PushInv'
  BY <1>0, <1>1 DEF IInv, TypeOK, PushInv, PushStart, LastCell, Queued
<1>4. PopInv' /\ CountLags'
  BY DEF IInv, PopInv, CountLags, PushStart
<1> QED
  BY <1>1, <1>2, <1>3, <1>4 DEF IInv

LEMMA PushXchgInv == ASSUME IInv, PushXchg PROVE IInv'
<1>1. TypeOK'
  BY DEF IInv, TypeOK, PushXchg, PushInv, OptNode, Cell
<1>2. ListInv' /\ PopInv' /\ CountLags'
  BY DEF IInv, ListInv, PopInv, CountLags, PushXchg
<1>3. PushInv'
  BY DEF IInv, PushInv, PushXchg, LastCell, Queued
<1> QED
  BY <1>1, <1>2, <1>3 DEF IInv

LEMMA PushLinkInv == ASSUME IInv, PushLink PROVE IInv'
<1> DEFINE L == Len(queue)
<1>0. /\ pnode \in Nodes /\ ~Queued(pnode) /\ next[pnode] = NULL
      /\ tail = pnode /\ ptail = LastCell
      /\ queue \in Seq(Nodes) /\ L \in Nat /\ (queue = <<>> <=> L = 0)
      /\ next \in [Nodes -> OptNode]
  BY EmptyLength DEF IInv, TypeOK, PushInv, PushLink
<1>1. /\ queue' \in Seq(Nodes) /\ queue' # <<>> /\ Len(queue') = L + 1
      /\ \A i \in 1 .. L : queue'[i] = queue[i]
      /\ queue'[L + 1] = pnode
  BY <1>0, AppendElements DEF PushLink
<1>2. /\ queue # <<>> => queue[L] \in Nodes /\ queue[L] # Root /\ queue[L] # pnode
      /\ \A i \in 1 .. L : queue[i] \in Nodes /\ queue[i] # pnode
  BY <1>0, SpscAssumption DEF Queued
<1>3. /\ queue # <<>> => next' = [next EXCEPT ![queue[L]] = pnode] /\ head' = head
      /\ queue = <<>> => next' = next /\ head' = pnode
  BY <1>0, <1>2 DEF PushLink, LastCell
<1>4. TypeOK'
  <2>1. next' \in [Nodes -> OptNode] /\ head' \in OptNode
    BY <1>0, <1>2, <1>3 DEF IInv, TypeOK, OptNode
  <2> QED
    BY <1>1, <2>1 DEF IInv, TypeOK, PushLink
<1>5. ListInv'
  <2>1. \A i, j \in 1 .. L + 1 : queue'[i] = queue'[j] => i = j
    BY <1>0, <1>1, <1>2 DEF IInv, ListInv
  <2>2. ASSUME NEW i \in 1 .. L PROVE next'[queue'[i]] = queue'[i + 1]
    <3>1. CASE i = L
      BY <3>1, <2>2, <1>0, <1>1, <1>2, <1>3
    <3>2. CASE i # L
      <4>1. i \in 1 .. L - 1 /\ i + 1 \in 1 .. L /\ L \in 1 .. L /\ queue # <<>>
        BY <3>2, <2>2, <1>0
      <4>2. queue[i] # queue[L] /\ next[queue[i]] = queue[i + 1]
        BY <4>1, <3>2 DEF IInv, ListInv
      <4> QED
        BY <4>1, <4>2, <1>0, <1>1, <1>2, <1>3
    <3> QED
      BY <3>1, <3>2
  <2>3. next'[pnode] = NULL
    BY <1>0, <1>2, <1>3
  <2> QED
    BY <2>1, <2>2, <2>3, <1>0, <1>1 DEF ListInv
<1>6. PushInv'
  BY <1>0, <1>1 DEF PushInv, PushLink, LastCell
<1>7. PopInv'
  <2>1. queue # <<>> => queue'[1] = queue[1] /\ head' = head
    BY <1>0, <1>1, <1>3
  <2>2. queue = <<>> => queue'[1] = pnode /\ head' = pnode
    BY <1>0, <1>1, <1>3
  <2>3. L > 1 => queue'[2] = queue[2]
    BY <1>0, <1>1
  <2> QED
    BY <2>1, <2>2, <2>3, <1>0, <1>1 DEF IInv, PopInv, PushLink
<1>8. CountLags'
  BY <1>0, <1>1 DEF IInv, TypeOK, CountLags, PushLink
<1> QED
  BY <1>4, <1>5, <1>6, <1>7, <1>8 DEF IInv

LEMMA PushCountInv == ASSUME IInv, PushCount PROVE IInv'
<1>1. TypeOK'
  BY DEF IInv, TypeOK, PushCount, WasEmpty, OptNode, Cell
<1>2. ListInv' /\ PopInv'
  BY DEF IInv, ListInv, PopInv, PushCount
<1>3. PushInv'
  BY DEF IInv, PushInv, PushCount, LastCell
<1>4. CountLags'
  BY EmptyLength DEF IInv, TypeOK, CountLags, PushCount
<1> QED
  BY <1>1, <1>2, <1>3, <1>4 DEF IInv

\* The steps of the consumer that leave the list alone.
LEMMA PopReadInv ==
  ASSUME IInv, Peek \/ PopEmpty \/ PopHead \/ PopNext \/ PopNotLast PROVE IInv'
<1>0. queue \in Seq(Nodes) /\ Len(queue) \in Nat /\ (queue = <<>> <=> Len(queue) = 0)
  BY EmptyLength DEF IInv, TypeOK
<1>1. CASE Peek
  <2>1. TypeOK'
    BY <1>1 DEF IInv, TypeOK, Peek
  <2>2. ListInv' /\ PushInv' /\ PopInv' /\ CountLags'
    BY <1>1 DEF IInv, ListInv, PushInv, PopInv, CountLags, LastCell, Queued, Peek
  <2> QED
    BY <2>1, <2>2 DEF IInv
<1>2. CASE PopEmpty
  <2>1. TypeOK'
    BY <1>2 DEF IInv, TypeOK, PopEmpty, OptNode
  <2>2. ListInv' /\ PushInv' /\ PopInv' /\ CountLags'
    BY <1>2 DEF IInv, ListInv, PushInv, PopInv, CountLags, LastCell, Queued, PopEmpty
  <2> QED
    BY <2>1, <2>2 DEF IInv
<1>3. CASE PopHead
  <2>1. TypeOK'
    BY <1>3 DEF IInv, TypeOK, PopHead
  <2>2. ListInv' /\ PushInv' /\ CountLags'
    BY <1>3 DEF IInv, ListInv, PushInv, CountLags, LastCell, Queued, PopHead
  <2>3. PopInv'
    BY <1>3 DEF IInv, PopInv, PopHead
  <2> QED
    BY <2>1, <2>2, <2>3 DEF IInv
<1>4. CASE PopNext
  <2>0. cnode = queue[1] /\ queue # <<>> /\ cnode \in Nodes
    BY <1>0, <1>4 DEF IInv, PopInv, PopNext
  <2>1. TypeOK'
    BY <2>0, <1>4 DEF IInv, TypeOK, PopNext
  <2>2. ListInv' /\ PushInv' /\ CountLags'
    BY <1>4 DEF IInv, ListInv, PushInv, CountLags, LastCell, Queued, PopNext
  <2>3. next[cnode] # NULL => Len(queue) > 1 /\ next[cnode] = queue[2]
    BY <1>0, <2>0 DEF IInv, ListInv
  <2>4. PopInv'
    BY <1>4, <2>0, <2>3 DEF IInv, PopInv, PopNext
  <2> QED
    BY <2>1, <2>2, <2>4 DEF IInv
<1>5. CASE PopNotLast
  <2>1. TypeOK'
    BY <1>5 DEF IInv, TypeOK, PopNotLast, IsLast
  <2>2. ListInv' /\ PushInv' /\ PopInv' /\ CountLags'
    BY <1>5 DEF IInv, ListInv, PushInv, PopInv, CountLags, LastCell, Queued, PopNotLast, IsLast
  <2> QED
    BY <2>1, <2>2 DEF IInv
<1> QED
  BY <1>1, <1>2, <1>3, <1>4, <1>5

\* The first node leaves a list of two or more: the rest is still linked, and
\* tail, which no pop touches then, still is the last cell.
LEMMA Removal ==
  ASSUME IInv, queue # <<>>, queue' = Tail(queue), next' = next, Len(queue) > 1
  PROVE  /\ queue' \in Seq(Nodes) /\ queue' # <<>> /\ Len(queue') = Len(queue) - 1
         /\ queue'[1] = queue[2] /\ ListInv' /\ LastCell' = LastCell
         /\ \A n : Queued(n)' => Queued(n)
<1> DEFINE L == Len(queue)
<1>1. /\ queue \in Seq(Nodes) /\ L \in Nat \ {0}
      /\ queue' \in Seq(Nodes) /\ queue' # <<>> /\ Len(queue') = L - 1
      /\ \A i \in 1 .. L - 1 : queue'[i] = queue[i + 1]
  BY TailElements DEF IInv, TypeOK
<1>2. queue'[1] = queue[2] /\ queue'[L - 1] = queue[L]
  BY <1>1
<1>3. \A i, j \in 1 .. L - 1 : queue'[i] = queue'[j] => i = j
  BY <1>1 DEF IInv, ListInv
<1>4. \A i \in 1 .. L - 2 : next[queue'[i]] = queue'[i + 1]
  BY <1>1 DEF IInv, ListInv
<1>5. next[queue'[L - 1]] = NULL
  BY <1>1, <1>2 DEF IInv, ListInv
<1>6. ListInv'
  BY <1>1, <1>3, <1>4, <1>5 DEF ListInv
<1>7. LastCell' = LastCell
  BY <1>1, <1>2 DEF LastCell
<1>8. \A n : Queued(n)' => Queued(n)
  BY <1>1 DEF Queued
<1> QED
  BY <1>1, <1>2, <1>6, <1>7, <1>8

LEMMA PopAdvanceInv == ASSUME IInv, PopAdvance PROVE IInv'
<1>1. CASE cnext = NULL
  <2>1. TypeOK'
    BY <1>1 DEF IInv, TypeOK, PopAdvance
  <2>2. ListInv' /\ PushInv' /\ PopInv' /\ CountLags'
    BY <1>1 DEF IInv, ListInv, PushInv, PopInv, CountLags, LastCell, Queued, PopAdvance
  <2> QED
    BY <2>1, <2>2 DEF IInv
<1>2. CASE cnext # NULL
  <2>0. /\ queue # <<>> /\ cnode = queue[1] /\ cnode \in Nodes
        /\ Len(queue) > 1 /\ cnext = queue[2]
        /\ queue' = Tail(queue) /\ next' = next /\ Len(queue) \in Nat
    BY <1>2, EmptyLength DEF IInv, TypeOK, PopInv, PopAdvance
  <2>1. /\ queue' \in Seq(Nodes) /\ queue' # <<>> /\ Len(queue') = Len(queue) - 1
        /\ queue'[1] = queue[2] /\ ListInv' /\ LastCell' = LastCell
        /\ \A n : Queued(n)' => Queued(n)
    BY <2>0, Removal
  <2>2. TypeOK'
    BY <1>2, <2>1 DEF IInv, TypeOK, PopAdvance
  <2>3. PushInv'
    BY <2>1 DEF IInv, PushInv, PopAdvance
  <2>4. PopInv'
    BY <1>2, <2>0, <2>1 DEF PopInv, PopAdvance
  <2>5. CountLags'
    <3>1. /\ job_count' = job_count /\ ppc' = ppc /\ cpc = "advance" /\ cpc' = "count"
          /\ job_count = Len(queue) - (IF ppc = "count" THEN 1 ELSE 0)
      BY <1>2, <2>0 DEF IInv, CountLags, PopAdvance
    <3>2. Len(queue) \in Nat /\ Len(queue') = Len(queue) - 1
      BY <2>0, <2>1
    <3> QED
      BY <3>1, <3>2 DEF CountLags
  <2> QED
    BY <2>1, <2>2, <2>3, <2>4, <2>5 DEF IInv
<1> QED
  BY <1>1, <1>2

LEMMA PopSpinInv == ASSUME IInv, PopSpin PROVE IInv'
<1>0. /\ queue # <<>> /\ cnode = queue[1] /\ cnode \in Nodes /\ next' = next
      /\ Len(queue) \in Nat \ {0} /\ head = NULL
  BY EmptyLength DEF IInv, TypeOK, PopInv, PopSpin
<1>1. CASE next[cnode] = NULL
  <2>1. TypeOK'
    BY <1>1 DEF IInv, TypeOK, PopSpin, Awaited, OptNode
  <2>2. ListInv' /\ PushInv' /\ PopInv' /\ CountLags'
    BY <1>1 DEF IInv, ListInv, PushInv, PopInv, CountLags, LastCell, Queued, PopSpin, Awaited
  <2> QED
    BY <2>1, <2>2 DEF IInv
<1>2. CASE next[cnode] # NULL
  <2>0. Len(queue) > 1 /\ next[cnode] = queue[2] /\ queue' = Tail(queue)
    BY <1>0, <1>2 DEF IInv, ListInv, PopSpin, Awaited
  <2>1. /\ queue' \in Seq(Nodes) /\ queue' # <<>> /\ Len(queue') = Len(queue) - 1
        /\ queue'[1] = queue[2] /\ ListInv' /\ LastCell' = LastCell
        /\ \A n : Queued(n)' => Queued(n)
    BY <1>0, <2>0, Removal
  <2>2. TypeOK'
    BY <1>0, <1>2, <2>1 DEF IInv, TypeOK, PopSpin, Awaited, OptNode
  <2>3. PushInv'
    BY <2>1 DEF IInv, PushInv, PopSpin
  <2>4. PopInv'
    BY <1>0, <1>2, <2>0, <2>1 DEF PopInv, PopSpin, Awaited
  <2>5. CountLags'
    <3>1. /\ job_count' = job_count /\ ppc' = ppc /\ cpc = "spin" /\ cpc' = "count"
          /\ job_count = Len(queue) - (IF ppc = "count" THEN 1 ELSE 0)
      BY <1>0, <1>2 DEF IInv, CountLags, PopSpin, Awaited
    <3> QED
      BY <1>0, <2>1, <3>1 DEF CountLags
  <2> QED
    BY <2>1, <2>2, <2>3, <2>4, <2>5 DEF IInv
<1> QED
  BY <1>1, <1>2

\* cmpxchg() can only succeed on the last node: tail is then not the node of a
\* push in progress, which is not queued.
LEMMA PopLastInv == ASSUME IInv, PopLast PROVE IInv' /\ Len(queue) = 1
<1>0. /\ queue # <<>> /\ cnode = queue[1] /\ cnode \in Nodes /\ queue \in Seq(Nodes)
      /\ Len(queue) \in Nat \ {0} /\ head = NULL /\ tail = cnode
  BY EmptyLength DEF IInv, TypeOK, PopInv, PopLast, IsLast
<1>1. ppc # "link" /\ tail = LastCell
  BY <1>0 DEF IInv, PushInv, Queued
<1>2. Len(queue) = 1
  <2>1. queue[Len(queue)] = queue[1] /\ 1 \in 1 .. Len(queue) /\ Len(queue) \in 1 .. Len(queue)
    BY <1>0, <1>1 DEF LastCell
  <2> QED
    BY <2>1 DEF IInv, ListInv
<1>3. queue' = <<>>
  BY <1>0, <1>2, TailElements DEF PopLast
<1>4. TypeOK'
  BY <1>0, <1>3 DEF IInv, TypeOK, PopLast, Cell
<1>5. ListInv' /\ PopInv'
  <2>1. Len(queue') = 0 /\ cpc' = "count" /\ head' = NULL /\ cnode' = cnode
    BY <1>0, <1>3, EmptySeq DEF PopLast
  <2> QED
    BY <1>0, <1>3, <2>1 DEF ListInv, PopInv
<1>6. PushInv'
  BY <1>1, <1>3 DEF IInv, PushInv, PopLast, IsLast, LastCell, Queued
<1>7. CountLags'
  BY <1>2, <1>3 DEF IInv, TypeOK, CountLags, PopLast
<1> QED
  BY <1>2, <1>4, <1>5, <1>6, <1>7 DEF IInv

LEMMA PopCountInv == ASSUME IInv, PopCount PROVE IInv'
<1>1. TypeOK'
  BY DEF IInv, TypeOK, PopCount, Decrement, OptNode
<1>2. ListInv' /\ PushInv' /\ PopInv'
  BY DEF IInv, ListInv, PushInv, PopInv, LastCell, Queued, PopCount
<1>3. CountLags'
  BY EmptyLength DEF IInv, TypeOK, CountLags, PopCount, Decrement
<1> QED
  BY <1>1, <1>2, <1>3 DEF IInv

\* Every step preserves the invariant.
LEMMA NextInv == IInv /\ [Next]_vars => IInv'
<1> SUFFICES ASSUME IInv, [Next]_vars PROVE IInv'
  OBVIOUS
<1>1. CASE UNCHANGED vars
  <2>1. TypeOK'
    BY <1>1 DEF IInv, TypeOK, vars
  <2>2. ListInv' /\ PushInv' /\ PopInv' /\ CountLags'
    BY <1>1 DEF IInv, ListInv, PushInv, PopInv, CountLags, LastCell, Queued, vars
  <2> QED
    BY <2>1, <2>2 DEF IInv
<1>2. ASSUME NEW n \in Nodes, PushStart(n) PROVE IInv'
  BY <1>2, PushStartInv
<1> QED
  BY <1>1, <1>2, PushXchgInv, PushLinkInv, PushCountInv, PopReadInv, PopAdvanceInv,
     PopLastInv, PopSpinInv, PopCountInv
     DEF Next, Producer, Consumer

----------------------------------------------------------------------------
(* The theorems                                                            *)

\* The invariant holds in every reachable state.
THEOREM Inductive == Spec => []IInv
<1> QED
  BY InitInv, NextInv, PTL DEF Spec

\* Every variable has its type: in particular head and next never hold the
\* address that only tail may hold.
THEOREM TypeCorrect == Spec => []TypeOK
<1>1. IInv => TypeOK
  BY DEF IInv
<1> QED
  BY <1>1, Inductive, PTL

\* job_count is the length of the queue up to the push and the pop in progress.
THEOREM CountTheorem == Spec => []CountLags
<1>1. IInv => CountLags
  BY DEF IInv
<1> QED
  BY <1>1, Inductive, PTL

\* A push never writes to a node that has left the queue.
THEOREM WritesTheorem == Spec => []WritesQueuedNode
<1>1. IInv => WritesQueuedNode
  <2> SUFFICES ASSUME IInv, ppc = "link", ptail # Root PROVE Queued(ptail)
    BY DEF WritesQueuedNode
  <2>1. queue # <<>> /\ ptail = queue[Len(queue)] /\ Len(queue) \in 1 .. Len(queue)
    BY EmptyLength DEF IInv, TypeOK, PushInv, LastCell
  <2> QED
    BY <2>1 DEF Queued
<1> QED
  BY <1>1, Inductive, PTL

\* The lock-free queue implements the FIFO queue: initial states map to initial
\* states, PushLink is the push, the last write of a pop to the shared list is
\* the pop, and all other steps are stuttering.
THEOREM Refinement == Spec => ImplementsFifo
<1>1. Init => Fifo!Init
  BY DEF Init, Fifo!Init
<1>2. IInv /\ IInv' /\ [Next]_vars => [Fifo!Next]_(Fifo!vars)
  <2> SUFFICES ASSUME IInv, [Next]_vars PROVE [Fifo!Next]_(Fifo!vars)
    OBVIOUS
  <2>0. queue \in Seq(Nodes) /\ Len(queue) \in Nat /\ (queue = <<>> <=> Len(queue) = 0)
    BY EmptyLength DEF IInv, TypeOK
  <2>1. CASE UNCHANGED vars
    BY <2>1 DEF vars, Fifo!vars
  <2>2. ASSUME NEW n \in Nodes, PushStart(n) PROVE UNCHANGED Fifo!vars
    BY <2>2 DEF PushStart, Fifo!vars
  <2>3. CASE PushXchg
    BY <2>3 DEF PushXchg, Fifo!vars
  <2>4. CASE PushLink
    <3>1. pnode \in Nodes /\ ~Queued(pnode) /\ ptail = LastCell
      BY <2>4 DEF IInv, PushInv, PushLink
    <3>2. ptail = Root <=> queue = <<>>
      BY <3>1, <2>0, SpscAssumption DEF LastCell
    <3>3. Fifo!Push(pnode)
      BY <2>4, <3>1, <3>2 DEF PushLink, Fifo!Push, Queued
    <3> QED
      BY <3>1, <3>3 DEF Fifo!Next
  <2>5. CASE PushCount
    BY <2>5 DEF PushCount, WasEmpty, Fifo!vars
  <2>6. CASE Peek
    <3>1. head = IF queue = <<>> THEN NULL ELSE Head(queue)
      BY <2>6, <2>0, TailElements DEF IInv, PopInv, Peek
    <3> QED
      BY <2>6, <3>1 DEF Peek, Fifo!Next, Fifo!Peek, Fifo!Front
  <2>7. CASE PopEmpty
    <3>1. queue = <<>>
      BY <2>7, <2>0, SpscAssumption DEF IInv, PopInv, PopEmpty
    <3> QED
      BY <2>7, <3>1 DEF PopEmpty, Fifo!Next, Fifo!PopEmpty
  <2>8. CASE PopHead
    BY <2>8 DEF PopHead, Fifo!vars
  <2>9. CASE PopNext
    BY <2>9 DEF PopNext, Fifo!vars
  <2>10. CASE PopAdvance
    <3>1. queue # <<>> /\ cnode = Head(queue)
      BY <2>10, <2>0, TailElements DEF IInv, PopInv, PopAdvance
    <3>2. CASE cnext = NULL
      BY <2>10, <3>2 DEF PopAdvance, Fifo!vars
    <3>3. CASE cnext # NULL
      BY <2>10, <3>1, <3>3 DEF PopAdvance, Fifo!Next, Fifo!Pop, Fifo!Front
    <3> QED
      BY <3>2, <3>3
  <2>11. CASE PopLast
    <3>1. queue # <<>> /\ cnode = Head(queue)
      BY <2>11, <2>0, TailElements DEF IInv, PopInv, PopLast
    <3> QED
      BY <2>11, <3>1 DEF PopLast, Fifo!Next, Fifo!Pop, Fifo!Front
  <2>12. CASE PopNotLast
    BY <2>12 DEF PopNotLast, IsLast, Fifo!vars
  <2>13. CASE PopSpin
    <3>1. queue # <<>> /\ cnode = Head(queue)
      BY <2>13, <2>0, TailElements DEF IInv, PopInv, PopSpin
    <3>2. CASE Awaited = NULL
      BY <2>13, <3>2 DEF PopSpin, Fifo!vars
    <3>3. CASE Awaited # NULL
      BY <2>13, <3>1, <3>3 DEF PopSpin, Fifo!Next, Fifo!Pop, Fifo!Front
    <3> QED
      BY <3>2, <3>3
  <2>14. CASE PopCount
    BY <2>14 DEF PopCount, Fifo!vars
  <2> QED
    BY <2>1, <2>2, <2>3, <2>4, <2>5, <2>6, <2>7, <2>8, <2>9, <2>10, <2>11, <2>12, <2>13,
       <2>14 DEF Next, Producer, Consumer
<1> QED
  BY <1>1, <1>2, Inductive, PTL DEF Spec, ImplementsFifo, Fifo!Spec
=============================================================================

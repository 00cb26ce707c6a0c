----------------------------- MODULE SpscQueue -----------------------------
(***************************************************************************)
(* include/drm/spsc_queue.h: the lock-free job queue of a scheduler entity *)
(* with one thread that pushes (drm_sched_entity_push_job) and one that    *)
(* peeks and pops (the scheduler thread, or drm_sched_entity_kill_jobs     *)
(* once that thread has let go of the entity).                             *)
(*                                                                         *)
(* Grain of atomicity.  Every access to head, tail, a next field or        *)
(* job_count is a step of its own; the barriers make the steps of a thread *)
(* visible in their order.                                                 *)
(*                                                                         *)
(* Data.  tail holds the address of a pointer: Root stands for             *)
(* &queue->head, a node n for &n->next.  A node popped is the caller's     *)
(* again and may be pushed once more.                                      *)
(***************************************************************************)
EXTENDS Integers, Sequences

CONSTANTS Nodes, NULL, Root

ASSUME SpscAssumption == NULL \notin Nodes /\ Root \notin Nodes /\ NULL # Root

VARIABLES
  head, tail, job_count,   \* struct spsc_queue
  next,                    \* next[n] of struct spsc_node
  ppc, pnode, ptail,       \* the push in progress: node, and old tail
  first,                   \* what the last push returned
  cpc, cnode, cnext,       \* the pop in progress: node, and its next
  got,                     \* what the last peek or pop returned
  queue                    \* history: the nodes linked and not yet taken out

vars == <<head, tail, job_count, next, ppc, pnode, ptail, first,
          cpc, cnode, cnext, got, queue>>

OptNode == Nodes \cup {NULL}
Cell    == Nodes \cup {Root}

\* spsc_queue_init()
Init ==
  /\ head = NULL /\ tail = Root /\ job_count = 0
  /\ next = [n \in Nodes |-> NULL]
  /\ ppc = "idle" /\ pnode = NULL /\ ptail = Root /\ first = FALSE
  /\ cpc = "idle" /\ cnode = NULL /\ cnext = NULL /\ got = NULL
  /\ queue = <<>>

Queued(n) == \E i \in 1 .. Len(queue) : queue[i] = n

----------------------------------------------------------------------------
(* spsc_queue_push()                                                       *)

\* What a new node's next is set to.
NextInit == NULL

\* The caller owns n: it is not queued, nor being popped.
PushStart(n) ==
  /\ ppc = "idle" /\ ~Queued(n) /\ n # cnode
  /\ next' = [next EXCEPT ![n] = NextInit]
  /\ pnode' = n /\ ppc' = "xchg"
  /\ UNCHANGED <<head, tail, job_count, ptail, first, cpc, cnode, cnext, got, queue>>

PushXchg ==
  /\ ppc = "xchg"
  /\ ptail' = tail /\ tail' = pnode /\ ppc' = "link"
  /\ UNCHANGED <<head, job_count, next, pnode, first, cpc, cnode, cnext, got, queue>>

\* *tail = node
PushLink ==
  /\ ppc = "link"
  /\ head' = IF ptail = Root THEN pnode ELSE head
  /\ next' = IF ptail = Root THEN next ELSE [next EXCEPT ![ptail] = pnode]
  /\ queue' = Append(queue, pnode)
  /\ ppc' = "count"
  /\ UNCHANGED <<tail, job_count, pnode, ptail, first, cpc, cnode, cnext, got>>

\* Mutant: the counter, which lags behind the list, tells whether it was empty.
WasEmptyByCount == job_count = 0
WasEmpty == ptail = Root

PushCount ==
  /\ ppc = "count"
  /\ job_count' = job_count + 1
  /\ first' = WasEmpty
  /\ ppc' = "idle" /\ pnode' = NULL /\ ptail' = Root
  /\ UNCHANGED <<head, tail, next, cpc, cnode, cnext, got, queue>>

----------------------------------------------------------------------------
(* spsc_queue_peek() and spsc_queue_pop()                                  *)

Peek ==
  /\ cpc = "idle"
  /\ got' = head
  /\ UNCHANGED <<head, tail, job_count, next, ppc, pnode, ptail, first,
                 cpc, cnode, cnext, queue>>

PopEmpty ==
  /\ cpc = "idle" /\ head = NULL
  /\ got' = NULL
  /\ UNCHANGED <<head, tail, job_count, next, ppc, pnode, ptail, first,
                 cpc, cnode, cnext, queue>>

PopHead ==
  /\ cpc = "idle" /\ head # NULL
  /\ cnode' = head /\ cpc' = "next"
  /\ UNCHANGED <<head, tail, job_count, next, ppc, pnode, ptail, first,
                 cnext, got, queue>>

PopNext ==
  /\ cpc = "next"
  /\ cnext' = next[cnode] /\ cpc' = "advance"
  /\ UNCHANGED <<head, tail, job_count, next, ppc, pnode, ptail, first,
                 cnode, got, queue>>

\* queue->head = next; a node without a next is not out of the queue yet.
PopAdvance ==
  /\ cpc = "advance"
  /\ head' = cnext
  /\ cpc' = IF cnext = NULL THEN "cmpxchg" ELSE "count"
  /\ queue' = IF cnext = NULL THEN queue ELSE Tail(queue)
  /\ UNCHANGED <<tail, job_count, next, ppc, pnode, ptail, first, cnode, cnext, got>>

\* The comparison of cmpxchg().
\* Mutant: a node without a next is taken for the last.
LastUnchecked == TRUE
IsLast == tail = cnode

PopLast ==
  /\ cpc = "cmpxchg" /\ IsLast
  /\ tail' = Root
  /\ queue' = Tail(queue)
  /\ cpc' = "count"
  /\ UNCHANGED <<head, job_count, next, ppc, pnode, ptail, first, cnode, cnext, got>>

\* A push has taken the tail in the meantime.
PopNotLast ==
  /\ cpc = "cmpxchg" /\ ~IsLast
  /\ cpc' = "spin"
  /\ UNCHANGED <<head, tail, job_count, next, ppc, pnode, ptail, first,
                 cnode, cnext, got, queue>>

\* The pointer that the loop reads until it is set.
\* Mutant: it waits for head, which the push does not write.
AwaitedHead == head
Awaited == next[cnode]

PopSpin ==
  /\ cpc = "spin"
  /\ head' = Awaited
  /\ cpc' = IF Awaited = NULL THEN "spin" ELSE "count"
  /\ queue' = IF Awaited = NULL THEN queue ELSE Tail(queue)
  /\ UNCHANGED <<tail, job_count, next, ppc, pnode, ptail, first, cnode, cnext, got>>

\* Mutant: a pop that found the last element has nothing left to count.
DecrementUnlessLast == IF cnext = NULL THEN 0 ELSE 1
Decrement == 1

PopCount ==
  /\ cpc = "count"
  /\ job_count' = job_count - Decrement
  /\ got' = cnode
  /\ cpc' = "idle" /\ cnode' = NULL /\ cnext' = NULL
  /\ UNCHANGED <<head, tail, next, ppc, pnode, ptail, first, queue>>

----------------------------------------------------------------------------
Producer == PushXchg \/ PushLink \/ PushCount
Consumer == \/ PopNext \/ PopAdvance \/ PopLast \/ PopNotLast \/ PopSpin \/ PopCount

Next ==
  \/ \E n \in Nodes : PushStart(n)
  \/ Producer \/ Consumer \/ Peek \/ PopEmpty \/ PopHead

Spec == Init /\ [][Next]_vars

\* A push runs with preemption disabled, so it ends; a thread in pop runs.
FairSpec == Spec /\ WF_vars(Producer) /\ WF_vars(Consumer)

----------------------------------------------------------------------------
(* Properties                                                              *)

TypeOK ==
  /\ head \in OptNode /\ tail \in Cell /\ job_count \in Int
  /\ next \in [Nodes -> OptNode]
  /\ ppc \in {"idle", "xchg", "link", "count"}
  /\ pnode \in OptNode /\ ptail \in Cell /\ first \in BOOLEAN
  /\ cpc \in {"idle", "next", "advance", "cmpxchg", "spin", "count"}
  /\ cnode \in OptNode /\ cnext \in OptNode /\ got \in OptNode
  /\ queue \in Seq(Nodes)

\* A push takes effect when its node is linked, a pop when it can no longer
\* meet a push: seen like that, the queue is a FIFO queue whose operations are
\* atomic.  No job is lost, taken twice or out of order, peek sees what the next
\* pop returns, and a push says "first" exactly when it met an empty queue,
\* which is what drm_sched_entity_push_job() wakes the scheduler for.
Fifo == INSTANCE FifoQueue WITH
  first <- IF ppc = "count" THEN ptail = Root ELSE first,
  got   <- IF cpc = "count" THEN cnode ELSE got

ImplementsFifo == Fifo!Spec

\* A push writes to a next field only while that node is still queued, so a job
\* that pop has returned, and that may be freed, is never written to.
WritesQueuedNode == ppc = "link" /\ ptail # Root => Queued(ptail)

\* spsc_queue_count() differs from the length by what a push in progress has not
\* added and a pop in progress has not subtracted yet; drm_sched_entity_is_idle()
\* and drm_sched_entity_select_rq() read it without a lock.
CountLags ==
  job_count = Len(queue) - (IF ppc = "count" THEN 1 ELSE 0)
                         + (IF cpc = "count" THEN 1 ELSE 0)

\* A pop that waits for a push in progress returns.
PopReturns == cpc # "idle" ~> cpc = "idle"
=============================================================================

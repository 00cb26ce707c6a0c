----------------------------- MODULE FifoQueue -----------------------------
(***************************************************************************)
(* What include/drm/spsc_queue.h promises its two users, the thread that   *)
(* pushes jobs to a scheduler entity and the one that takes them out:      *)
(* every call takes effect in one step.                                    *)
(***************************************************************************)
EXTENDS Naturals, Sequences

CONSTANTS Nodes, NULL

VARIABLES
  queue,  \* the nodes in the queue
  first,  \* what the last push returned
  got     \* what the last peek or pop returned

vars == <<queue, first, got>>

Init == queue = <<>> /\ first = FALSE /\ got = NULL

\* spsc_queue_push() tells its caller whether the queue was empty.
Push(n) ==
  /\ \A i \in 1 .. Len(queue) : queue[i] # n
  /\ queue' = Append(queue, n)
  /\ first' = (queue = <<>>)
  /\ UNCHANGED got

Front == IF queue = <<>> THEN NULL ELSE Head(queue)

Peek ==
  /\ got' = Front
  /\ UNCHANGED <<queue, first>>

Pop ==
  /\ queue # <<>>
  /\ got' = Front
  /\ queue' = Tail(queue)
  /\ UNCHANGED first

PopEmpty ==
  /\ queue = <<>>
  /\ got' = NULL
  /\ UNCHANGED <<queue, first>>

Next == (\E n \in Nodes : Push(n)) \/ Peek \/ Pop \/ PopEmpty

Spec == Init /\ [][Next]_vars
=============================================================================

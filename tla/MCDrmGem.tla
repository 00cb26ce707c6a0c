----------------------------- MODULE MCDrmGem -----------------------------
(* DrmGem for TLC. *)
EXTENDS DrmGem, TLC
CONSTANTS t1, t2, file1, file2, o1, own, other

\* The threads are interchangeable.
Symmetric == Permutations(Threads)

(***************************************************************************)
(* The view leaves out local variables that no later step of the call and  *)
(* no property reads.  A handle is read up to the last step on it, and by  *)
(* Given() until the call that makes it returns; what the call is makes no *)
(* difference where calls end in the same way.                             *)
(***************************************************************************)
HandleLive(t) ==
  \/ pc[t] \in {"uncache", "tofd", "cache", "delete"}
  \/ pc[t] = "opening" /\ (w[t].op = "import" \/ File(t) \notin Guessing)
  \/ pc[t] \in {"hput", "final", "unreserve"} /\ Ok(t)
  \/ Creates(t) /\ Ok(t) /\ File(t) \notin Guessing

Kind(t) ==
  CASE pc[t] = "putobj" /\ w[t].op \notin {"tofd", "import"} -> "flink"
    [] pc[t] # "putobj" /\ w[t].op \in {"open", "getfb"} -> "create"
    [] OTHER -> w[t].op

RetLive(t) == pc[t] # "bufput" /\ Kind(t) # "flink"

Live(t) ==
  [op   |-> Kind(t),
   file |-> File(t),
   h    |-> IF HandleLive(t) THEN w[t].h ELSE 0,
   obj  |-> IF pc[t] \in {"unreserve", "cache", "delete", "bufput"} THEN None ELSE Obj(t),
   buf  |-> IF w[t].op = "import" \/ pc[t] \in {"fd", "nofd"} THEN Buf(t) ELSE None,
   ret  |-> IF RetLive(t) THEN w[t].ret ELSE 0]

View == <<objVars, bufVars, fileVars, pc, [t \in Threads |-> Live(t)]>>
===========================================================================

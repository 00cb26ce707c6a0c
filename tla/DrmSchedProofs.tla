-------------------------- MODULE DrmSchedProofs ---------------------------
(***************************************************************************)
(* Proofs about the GPU scheduler, for any number of jobs, entities,       *)
(* schedulers and threads, and for every way in which jobs depend on each  *)
(* other.                                                                  *)
(*                                                                         *)
(* IInv is inductive.  It says which threads the timeout handler has       *)
(* asked to park, where entities and jobs are on the lists and in the      *)
(* queues, which job a thread is at, and what has happened to the fences   *)
(* of a job by then.  FlushInv, TimerInv, CountInv and OwnInv each add to  *)
(* it what one property needs.                                             *)
(***************************************************************************)
EXTENDS DrmSched, Counting, SequenceTheorems, TLAPS

\* The places of the main thread, of the user of an entity and of the handler.
ThreadPcs == {"top", "free", "select", "parked", "sleep", "pop", "run", "parent"}
EntityPcs == {"open", "add", "wake", "flush", "flush_sleep", "fini", "fini_wait", "kill", "put",
              "gone"}
TdrPcs    == {"idle", "timedout", "stop", "parking", "unhook", "reset", "start", "jobs", "end"}

\* The values of the variables of jobs,
JobType ==
  /\ ent \in [Jobs -> Entities \cup {None}] /\ sched \in [Jobs -> Scheds \cup {None}]
  /\ deps \in [Jobs -> SUBSET Jobs]
  /\ finished \in [Jobs -> BOOLEAN]
  /\ cb \in [Jobs -> BOOLEAN] /\ finish_cb \in [Jobs -> JobOrNone]
  /\ work \subseteq Jobs /\ abandoned \subseteq Jobs

\* of entities,
EntityType ==
  /\ queue \in [Entities -> Seq(Jobs)] /\ rq_of \in [Entities -> Scheds]
  /\ dependency \in [Entities -> JobOrNone] /\ last_scheduled \in [Entities -> JobOrNone]
  /\ entity_idle \in [Entities -> BOOLEAN] /\ stopped \in [Entities -> BOOLEAN]
  /\ epc \in [Entities -> EntityPcs]

\* of schedulers and their threads,
SchedType ==
  /\ entities \in [Scheds -> Seq(Entities)]
  /\ current_entity \in [Scheds -> Entities \cup {None}]
  /\ pending_list \in [Scheds -> Seq(Jobs)]
  /\ hw_rq_count \in [Scheds -> Int] /\ work_tdr \in [Scheds -> BOOLEAN]
  /\ park \in [Scheds -> BOOLEAN]
  /\ spc \in [Scheds -> ThreadPcs] /\ sent \in [Scheds -> Entities \cup {None}]
  /\ sjob \in [Scheds -> JobOrNone]

\* and of the handler.
TdrType ==
  /\ tpc \in TdrPcs /\ bad \in JobOrNone /\ mode \in {"none", "skipped", "reset", "failed"}
  /\ todo \subseteq Scheds /\ cur \in Scheds \cup {None} /\ left \in Nat

Types == JobType /\ EntityType /\ SchedType /\ TdrType

\* Which threads the handler has asked to park
ToPark ==
  IF tpc \in {"stop", "parking", "unhook"} THEN Scheds \ todo
  ELSE IF tpc = "reset" THEN Scheds
  ELSE IF tpc = "start" THEN todo
  ELSE IF tpc = "jobs" THEN todo \cup {cur}
  ELSE {}

\* A thread that has been asked to park, and is not still waited for, has parked; the bad
\* job and the schedulers still to be seen to go with the place of the handler.
ParkInv ==
  /\ \A s \in Scheds : park[s] <=> s \in ToPark
  /\ \A s \in Scheds : park[s] /\ ~(tpc = "parking" /\ cur = s) => spc[s] = "parked"
  /\ tpc \in {"parking", "unhook", "jobs"} => cur \in Scheds /\ cur \notin todo
  /\ tpc # "idle" <=> bad # None
  /\ tpc \in {"idle", "timedout", "end", "reset"} => todo = {}

\* A thread has an entity or a job where its place says so, and nowhere else.
ThreadInv ==
  \A s \in Scheds :
    /\ sent[s] # None <=> spc[s] \in {"pop", "run"}
    /\ sjob[s] # None <=> spc[s] \in {"free", "run", "parent"}

\* The list of run queue s has each of its entities once; they belong to s and have not been
\* left by their user, and the cursor is one of them.
ListOk(s) ==
  /\ \A i, k \in 1 .. Len(entities[s]) : entities[s][i] = entities[s][k] => i = k
  /\ \A e \in Range(entities[s]) :
       rq_of[e] = s /\ epc[e] \notin {"fini_wait", "put", "kill", "gone"}
  /\ current_entity[s] \in Range(entities[s]) \cup {None}

\* Without jobs, and while it is killed, an entity waits for no dependency.
RestOk(e) ==
  /\ epc[e] \in {"put", "gone"} => queue[e] = <<>>
  /\ queue[e] = <<>> \/ epc[e] = "kill" => dependency[e] = None

\* The run queues.
LinkInv == (\A s \in Scheds : ListOk(s)) /\ (\A e \in Entities : RestOk(e))

\* The entity that thread s has selected stays where it is, with its first job, until the
\* thread has submitted that job.
Holds(s) ==
  LET e == sent[s] IN
  /\ rq_of[e] = s /\ ~entity_idle[e] /\ epc[e] # "kill"
  /\ spc[s] = "pop" => queue[e] # <<>> /\ dependency[e] = None
  /\ spc[s] = "run" /\ epc[e] \notin {"put", "gone"} => last_scheduled[e] = sjob[s]

\* The entities that the threads have selected.
HoldInv == \A s \in Scheds : sent[s] # None => Holds(s)

\* Nothing has happened to the fences of j, and it is counted for nobody,
Unseen(j) ==
  /\ ~finished[j] /\ ~cb[j] /\ j \notin work /\ finish_cb[j] = None /\ j \notin abandoned

\* and it is neither with a thread, nor on a list, nor with the handler.
Fresh(j) ==
  /\ Unseen(j) /\ bad # j
  /\ \A s \in Scheds : sjob[s] # j /\ j \notin Range(pending_list[s])

\* A job that no entity has been given is fresh, and the bad job is none of these.
JobsInv ==
  /\ \A j \in Jobs : ent[j] = None <=> sched[j] = None
  /\ \A j \in Jobs : ent[j] = None => Fresh(j)
  /\ bad # None => ent[bad] # None

\* The jobs in the queue of e are different and fresh, and have its scheduler.
Queued(e) ==
  /\ \A i, k \in 1 .. Len(queue[e]) : queue[e][i] = queue[e][k] => i = k
  /\ \A j \in Range(queue[e]) : ent[j] = e /\ sched[j] = rq_of[e] /\ Fresh(j)

\* The queues of the entities.
QueueInv == \A e \in Entities : Queued(e)

\* The job that a thread submits is one of its scheduler, of which nothing is seen yet.
RunInv == \A s \in Scheds : Running(s) => sched[sjob[s]] = s /\ Unseen(sjob[s])

\* While drm_sched_job_timedout() has the bad job off its list: until drm_sched_stop() of its
\* scheduler has put it back or left it to the handler.
BadOut ==
  \/ tpc = "timedout"
  \/ tpc \in {"stop", "unhook"} /\ sched[bad] \in todo
  \/ tpc = "parking" /\ sched[bad] \in todo \cup {cur}

\* The list of s has jobs of s, each once, and not the bad job while that is off.
Pending(s) ==
  /\ \A i, k \in 1 .. Len(pending_list[s]) : pending_list[s][i] = pending_list[s][k] => i = k
  /\ \A j \in Range(pending_list[s]) : sched[j] = s
  /\ BadOut => bad \notin Range(pending_list[s])

\* The lists of pending jobs.
PendingInv == \A s \in Scheds : Pending(s)

\* Neither has j a callback nor is it counted for good.
Clean(j) == ~cb[j] /\ j \notin abandoned

\* drm_sched_stop() is done with s, and drm_sched_start() has not begun.
Stopped(s) ==
  \/ tpc \in {"stop", "parking", "unhook"} /\ s \notin todo /\ ~(tpc # "stop" /\ s = cur)
  \/ tpc = "reset"
  \/ tpc \in {"start", "jobs"} /\ s \in todo

\* Between the two no job on the list of s has a callback.  In the middle of each of the two
\* that is so for the jobs behind the one it is at.
CleanInv ==
  /\ \A s \in Scheds : Stopped(s) => \A i \in 1 .. Len(pending_list[s]) : Clean(pending_list[s][i])
  /\ tpc \in {"unhook", "jobs"} =>
       /\ left <= Len(pending_list[cur])
       /\ \A i \in left + 1 .. Len(pending_list[cur]) : Clean(pending_list[cur][i])
  /\ \A j \in Jobs : cb[j] => j \notin abandoned

\* The inductive invariant.
IInv ==
  /\ Types /\ ParkInv /\ ThreadInv /\ LinkInv /\ HoldInv /\ JobsInv /\ QueueInv /\ RunInv
  /\ PendingInv /\ CleanInv

----------------------------------------------------------------------------
(* Lists                                                                   *)

\* An entry is added at the end of a list.
LEMMA AppendFacts ==
  ASSUME NEW S, NEW q \in Seq(S), NEW x \in S
  PROVE  /\ Append(q, x) \in Seq(S) /\ Len(Append(q, x)) = Len(q) + 1 /\ Append(q, x) # <<>>
         /\ \A i \in 1 .. Len(q) + 1 : Append(q, x)[i] = IF i <= Len(q) THEN q[i] ELSE x
OBVIOUS

\* The first entry leaves a list.
LEMMA TailFacts ==
  ASSUME NEW S, NEW q \in Seq(S), q # <<>>
  PROVE  /\ Len(q) >= 1 /\ Head(q) = q[1] /\ Head(q) \in S
         /\ Tail(q) \in Seq(S) /\ Len(Tail(q)) = Len(q) - 1
         /\ \A i \in 1 .. Len(q) - 1 : Tail(q)[i] = q[i + 1]
OBVIOUS

\* An entry is added at the head of a list.
LEMMA PrependFacts ==
  ASSUME NEW S, NEW q \in Seq(S), NEW x \in S
  PROVE  /\ <<x>> \o q \in Seq(S) /\ Len(<<x>> \o q) = Len(q) + 1
         /\ \A i \in 1 .. Len(q) + 1 : (<<x>> \o q)[i] = IF i = 1 THEN x ELSE q[i - 1]
OBVIOUS

\* The members of a list.
LEMMA InRange ==
  ASSUME NEW S, NEW q \in Seq(S), NEW x
  PROVE  x \in Range(q) <=> \E i \in 1 .. Len(q) : q[i] = x
BY DEF Range

\* Where an entry is.
LEMMA IndexFacts ==
  ASSUME NEW S, NEW q \in Seq(S), NEW x, x \in Range(q)
  PROVE  Index(q, x) \in 1 .. Len(q) /\ q[Index(q, x)] = x
<1>1. \E i \in 1 .. Len(q) : q[i] = x
  BY InRange
<1> QED
  BY <1>1 DEF Index

\* An entry leaves a list in which it is once.
LEMMA WithoutAt ==
  ASSUME NEW S, NEW q \in Seq(S), NEW x, NEW k \in 1 .. Len(q), q[k] = x,
         \A i, l \in 1 .. Len(q) : q[i] = q[l] => i = l
  PROVE  /\ Without(q, x) \in Seq(S) /\ Len(Without(q, x)) = Len(q) - 1
         /\ \A i \in 1 .. Len(q) - 1 : Without(q, x)[i] = IF i < k THEN q[i] ELSE q[i + 1]
<1>1. x \in Range(q)
  BY InRange
<1>2. Index(q, x) = k
  BY <1>1, IndexFacts
<1>3. Without(q, x) = SubSeq(q, 1, k - 1) \o SubSeq(q, k + 1, Len(q))
  BY <1>1, <1>2 DEF Without
<1> DEFINE a == SubSeq(q, 1, k - 1)
           b == SubSeq(q, k + 1, Len(q))
<1>4. /\ a \in Seq(S) /\ Len(a) = k - 1 /\ \A i \in 1 .. k - 1 : a[i] = q[i]
      /\ b \in Seq(S) /\ Len(b) = Len(q) - k /\ \A i \in 1 .. Len(q) - k : b[i] = q[k + i]
  <2>1. /\ a \in Seq(S) /\ Len(a) = IF 1 <= k - 1 THEN k - 1 ELSE 0
        /\ \A i \in 1 .. k - 1 : a[i] = q[i]
    OBVIOUS
  <2>2. /\ b \in Seq(S) /\ Len(b) = IF k + 1 <= Len(q) THEN Len(q) - k ELSE 0
        /\ \A i \in 1 .. Len(q) - k : b[i] = q[k + i]
    OBVIOUS
  <2> QED
    BY <2>1, <2>2
<1> HIDE DEF a, b
<1>5. /\ a \o b \in Seq(S) /\ Len(a \o b) = Len(a) + Len(b)
      /\ \A i \in 1 .. Len(a) + Len(b) : (a \o b)[i] = IF i <= Len(a) THEN a[i] ELSE b[i - Len(a)]
  <2>1. a \in Seq(S) /\ b \in Seq(S)
    BY <1>4
  <2> QED
    BY <2>1, ConcatProperties
<1>6. Len(a) + Len(b) = Len(q) - 1
  BY <1>4
<1>7. ASSUME NEW i \in 1 .. Len(q) - 1
      PROVE  (a \o b)[i] = IF i < k THEN q[i] ELSE q[i + 1]
  BY <1>4, <1>5, <1>6, <1>7
<1> QED
  BY <1>3, <1>5, <1>6, <1>7 DEF a, b

\* What is left of such a list.
LEMMA WithoutFacts ==
  ASSUME NEW S, NEW q \in Seq(S), NEW x,
         \A i, l \in 1 .. Len(q) : q[i] = q[l] => i = l
  PROVE  /\ Without(q, x) \in Seq(S)
         /\ \A i, l \in 1 .. Len(Without(q, x)) : Without(q, x)[i] = Without(q, x)[l] => i = l
         /\ \A y : y \in Range(Without(q, x)) <=> y \in Range(q) /\ y # x
<1>1. CASE x \notin Range(q)
  BY <1>1 DEF Without
<1>2. CASE x \in Range(q)
  <2>1. PICK k \in 1 .. Len(q) : q[k] = x
    BY <1>2, InRange
  <2> DEFINE w == Without(q, x)
  <2>2. /\ w \in Seq(S) /\ Len(w) = Len(q) - 1
        /\ \A i \in 1 .. Len(q) - 1 : w[i] = IF i < k THEN q[i] ELSE q[i + 1]
    BY <2>1, WithoutAt
  <2> HIDE DEF w
  <2>3. ASSUME NEW i \in 1 .. Len(w), NEW l \in 1 .. Len(w), w[i] = w[l] PROVE i = l
    <3> DEFINE p(n) == IF n < k THEN n ELSE n + 1
    <3>1. /\ p(i) \in 1 .. Len(q) /\ p(l) \in 1 .. Len(q)
          /\ w[i] = q[p(i)] /\ w[l] = q[p(l)]
      BY <2>2
    <3>2. p(i) = p(l)
      BY <2>3, <3>1
    <3> QED
      BY <2>2, <3>2
  <2>4. ASSUME NEW y PROVE y \in Range(w) <=> y \in Range(q) /\ y # x
    <3>1. ASSUME y \in Range(w) PROVE y \in Range(q) /\ y # x
      <4>1. PICK i \in 1 .. Len(w) : w[i] = y
        BY <2>2, <3>1, InRange
      <4>2. \E l \in 1 .. Len(q) : q[l] = y /\ l # k
        BY <2>2, <4>1
      <4> QED
        BY <2>1, <4>2, InRange
    <3>2. ASSUME y \in Range(q), y # x PROVE y \in Range(w)
      <4>1. PICK l \in 1 .. Len(q) : q[l] = y
        BY <3>2, InRange
      <4>2. \E i \in 1 .. Len(w) : w[i] = y
        <5>1. CASE l < k
          BY <2>2, <4>1, <5>1
        <5>2. CASE l > k
          <6>1. l - 1 \in 1 .. Len(w) /\ w[l - 1] = y
            BY <2>2, <4>1, <5>2
          <6> QED
            BY <6>1
        <5> QED
          BY <2>1, <3>2, <4>1, <5>1, <5>2
      <4> QED
        BY <2>2, <4>2, InRange
    <3> QED
      BY <3>1, <3>2
  <2> QED
    BY <2>2, <2>3, <2>4 DEF w
<1> QED
  BY <1>1, <1>2

\* The members of a list are of the type of its entries.
LEMMA RangeType ==
  ASSUME NEW S, NEW q \in Seq(S)
  PROVE  Range(q) \subseteq S
BY DEF Range

\* An entry that is added is the one new member.
LEMMA RangeAppend ==
  ASSUME NEW S, NEW q \in Seq(S), NEW x \in S
  PROVE  Range(Append(q, x)) = Range(q) \cup {x}
<1> DEFINE a == Append(q, x)
<1>1. /\ a \in Seq(S) /\ Len(a) = Len(q) + 1 /\ Len(q) \in Nat
      /\ \A i \in 1 .. Len(q) + 1 : a[i] = IF i <= Len(q) THEN q[i] ELSE x
  BY AppendFacts
<1> HIDE DEF a
<1>2. ASSUME NEW y PROVE y \in Range(a) <=> y \in Range(q) \/ y = x
  <2>1. y \in Range(a) <=> \E i \in 1 .. Len(a) : a[i] = y
    BY <1>1, InRange
  <2>2. y \in Range(q) <=> \E i \in 1 .. Len(q) : q[i] = y
    BY InRange
  <2>3. Len(a) \in 1 .. Len(a) /\ a[Len(a)] = x
    BY <1>1
  <2>4. \A i \in 1 .. Len(q) : i \in 1 .. Len(a) /\ a[i] = q[i]
    BY <1>1
  <2>5. \A i \in 1 .. Len(a) : i = Len(a) \/ i \in 1 .. Len(q)
    BY <1>1
  <2> QED
    BY <2>1, <2>2, <2>3, <2>4, <2>5
<1> QED
  BY <1>2 DEF a

\* The first entry of a list without repetitions leaves it, and the others stay.
LEMMA RangeTail ==
  ASSUME NEW S, NEW q \in Seq(S), q # <<>>,
         \A i, k \in 1 .. Len(q) : q[i] = q[k] => i = k
  PROVE  /\ \A i, k \in 1 .. Len(Tail(q)) : Tail(q)[i] = Tail(q)[k] => i = k
         /\ \A x : x \in Range(Tail(q)) <=> x \in Range(q) /\ x # Head(q)
         /\ Head(q) \in Range(q)
<1> DEFINE r == Tail(q)
<1>1. /\ r \in Seq(S) /\ Len(r) = Len(q) - 1 /\ Len(q) >= 1 /\ Len(q) \in Nat /\ Head(q) = q[1]
      /\ \A i \in 1 .. Len(q) - 1 : r[i] = q[i + 1]
  BY TailFacts
<1> HIDE DEF r
<1>2. ASSUME NEW i \in 1 .. Len(r), NEW k \in 1 .. Len(r), r[i] = r[k] PROVE i = k
  <2>1. i + 1 \in 1 .. Len(q) /\ k + 1 \in 1 .. Len(q) /\ q[i + 1] = q[k + 1]
    BY <1>1, <1>2
  <2>2. i + 1 = k + 1
    BY <2>1
  <2> QED
    BY <2>2
<1>3. ASSUME NEW x PROVE x \in Range(r) <=> x \in Range(q) /\ x # Head(q)
  <2>1. ASSUME x \in Range(r) PROVE x \in Range(q) /\ x # Head(q)
    <3>1. PICK i \in 1 .. Len(r) : r[i] = x
      BY <1>1, <2>1, InRange
    <3>2. i + 1 \in 1 .. Len(q) /\ q[i + 1] = x /\ i + 1 # 1 /\ 1 \in 1 .. Len(q)
      BY <1>1, <3>1
    <3> QED
      BY <1>1, <3>2, InRange
  <2>2. ASSUME x \in Range(q), x # Head(q) PROVE x \in Range(r)
    <3>1. PICK k \in 1 .. Len(q) : q[k] = x
      BY <2>2, InRange
    <3>2. k - 1 \in 1 .. Len(r) /\ r[k - 1] = x
      BY <1>1, <2>2, <3>1
    <3> QED
      BY <1>1, <3>2, InRange
  <2> QED
    BY <2>1, <2>2
<1>4. Head(q) \in Range(q)
  <2>1. 1 \in 1 .. Len(q) /\ q[1] = Head(q)
    BY <1>1
  <2> QED
    BY <2>1, InRange
<1> QED
  BY <1>2, <1>3, <1>4 DEF r

\* An entry that is not on the list is added to it.
LEMMA AppendNew ==
  ASSUME NEW S, NEW q \in Seq(S), NEW x \in S, x \notin Range(q),
         \A i, k \in 1 .. Len(q) : q[i] = q[k] => i = k
  PROVE  \A i, k \in 1 .. Len(Append(q, x)) : Append(q, x)[i] = Append(q, x)[k] => i = k
<1> DEFINE r == Append(q, x)
<1>1. /\ Len(r) = Len(q) + 1 /\ Len(q) \in Nat
      /\ \A i \in 1 .. Len(q) + 1 : r[i] = IF i <= Len(q) THEN q[i] ELSE x
  BY AppendFacts
<1>2. \A i \in 1 .. Len(q) : q[i] # x
  BY InRange
<1> HIDE DEF r
<1>3. \A i, k \in 1 .. Len(r) : r[i] = r[k] => i = k
  BY <1>1, <1>2
<1> QED
  BY <1>3 DEF r

\* The same at the head.
LEMMA PrependNew ==
  ASSUME NEW S, NEW q \in Seq(S), NEW x \in S, x \notin Range(q),
         \A i, k \in 1 .. Len(q) : q[i] = q[k] => i = k
  PROVE  LET r == <<x>> \o q IN
         /\ \A i, k \in 1 .. Len(r) : r[i] = r[k] => i = k
         /\ Range(r) = Range(q) \cup {x}
<1> DEFINE r == <<x>> \o q
<1>1. /\ r \in Seq(S) /\ Len(r) = Len(q) + 1 /\ Len(q) \in Nat
      /\ \A i \in 1 .. Len(q) + 1 : r[i] = IF i = 1 THEN x ELSE q[i - 1]
  BY PrependFacts
<1>2. \A i \in 1 .. Len(q) : q[i] # x
  BY InRange
<1> HIDE DEF r
<1>3. ASSUME NEW i \in 1 .. Len(r), NEW k \in 1 .. Len(r), r[i] = r[k] PROVE i = k
  <2>1. CASE i = 1 \/ k = 1
    <3>1. ASSUME NEW n \in 1 .. Len(r), n # 1 PROVE r[n] # x
      BY <1>1, <1>2, <3>1
    <3>2. r[1] = x
      BY <1>1
    <3> QED
      BY <1>3, <2>1, <3>1, <3>2
  <2>2. CASE i # 1 /\ k # 1
    <3>1. i - 1 \in 1 .. Len(q) /\ k - 1 \in 1 .. Len(q) /\ q[i - 1] = q[k - 1]
      BY <1>1, <1>3, <2>2
    <3>2. i - 1 = k - 1
      BY <3>1
    <3> QED
      BY <3>2
  <2> QED
    BY <2>1, <2>2
<1>4. ASSUME NEW y PROVE y \in Range(r) <=> y \in Range(q) \/ y = x
  <2>1. y \in Range(r) <=> \E i \in 1 .. Len(r) : r[i] = y
    BY <1>1, InRange
  <2>2. y \in Range(q) <=> \E i \in 1 .. Len(q) : q[i] = y
    BY InRange
  <2>3. 1 \in 1 .. Len(r) /\ r[1] = x
    BY <1>1
  <2>4. \A i \in 1 .. Len(q) : i + 1 \in 1 .. Len(r) /\ r[i + 1] = q[i]
    BY <1>1
  <2>5. \A i \in 1 .. Len(r) : i = 1 \/ (i - 1 \in 1 .. Len(q) /\ r[i] = q[i - 1])
    BY <1>1
  <2>6. ASSUME y \in Range(r) PROVE y \in Range(q) \/ y = x
    <3>1. PICK i \in 1 .. Len(r) : r[i] = y
      BY <2>1, <2>6
    <3> QED
      BY <2>2, <2>3, <2>5, <3>1
  <2>7. ASSUME y \in Range(q) PROVE y \in Range(r)
    <3>1. PICK i \in 1 .. Len(q) : q[i] = y
      BY <2>2, <2>7
    <3>2. i + 1 \in 1 .. Len(r) /\ r[i + 1] = y
      BY <2>4, <3>1
    <3> QED
      BY <2>1, <3>2
  <2> QED
    BY <2>1, <2>3, <2>6, <2>7
<1> QED
  BY <1>3, <1>4 DEF r

----------------------------------------------------------------------------
(* Values                                                                  *)

\* drm_sched_rq_remove_entity() leaves lists of entities.
LEMMA RemoveType ==
  ASSUME Types, LinkInv, NEW e \in Entities, RemoveEntity(e)
  PROVE  /\ entities' \in [Scheds -> Seq(Entities)]
         /\ current_entity' \in [Scheds -> Entities \cup {None}]
<1>1. rq_of[e] \in Scheds /\ entities[rq_of[e]] \in Seq(Entities)
  BY DEF Types, EntityType, SchedType
<1>2. Without(entities[rq_of[e]], e) \in Seq(Entities)
  BY <1>1, WithoutFacts DEF LinkInv, ListOk
<1> QED
  BY <1>1, <1>2 DEF RemoveEntity, Types, SchedType

\* 0 stands for no job.
LEMMA NoneIsNoJob == None \notin Jobs
BY SchedAssumption DEF None

\* The run queues of an entity.
LEMMA NewRqType ==
  ASSUME Types, NEW e \in Entities
  PROVE  NewRq(e) \subseteq Scheds
BY SchedAssumption DEF NewRq, Types, EntityType

\* hw_rq_count goes up and down.
LEMMA CountUpDown ==
  ASSUME NEW c \in [Scheds -> Int], NEW x
  PROVE  /\ [c EXCEPT ![x] = @ + 1] \in [Scheds -> Int]
         /\ [c EXCEPT ![x] = @ - 1] \in [Scheds -> Int]
<1>1. CASE x \in Scheds
  BY <1>1
<1>2. CASE x \notin Scheds
  <2>1. [c EXCEPT ![x] = @ + 1] = c /\ [c EXCEPT ![x] = @ - 1] = c
    BY <1>2
  <2> QED
    BY <2>1
<1> QED
  BY <1>1, <1>2



\* Each step keeps the values of the variables in their sets.
LEMMA TypesStep ==
  ASSUME Types, ParkInv, ThreadInv, LinkInv, HoldInv, PendingInv, Next
  PROVE  Types'
<1> USE SchedAssumption DEF Types, JobType, EntityType, SchedType, TdrType, EntityPcs,
        ThreadPcs, TdrPcs, JobOrNone, pushVars, fenceVars, hwVars, killVars, jobVars, placeVars,
        entityVars, rqVars, listVars, wakeVars, schedVars, threadVars, tdrVars
<1>1. ASSUME NEW e \in Entities, NEW j \in Jobs, NEW D \in SUBSET Jobs, NEW s \in Scheds,
             PushJob(e, j, D, s)
      PROVE  Types'
  <2>1. rq_of' \in [Entities -> Scheds] /\ queue' \in [Entities -> Seq(Jobs)]
    BY <1>1 DEF PushJob, JobArm
  <2>2. JobType' /\ TdrType'
    BY <1>1 DEF PushJob, JobArm
  <2>3. entities' \in [Scheds -> Seq(Entities)] /\ current_entity' \in [Scheds -> Entities \cup {None}]
    <3>1. CASE s = rq_of[e]
      BY <1>1, <3>1 DEF PushJob, JobArm
    <3>2. CASE s # rq_of[e]
      BY <1>1, <3>2, RemoveType DEF PushJob, JobArm
    <3> QED
      BY <3>1, <3>2
  <2> QED
    BY <1>1, <2>1, <2>2, <2>3 DEF PushJob, JobArm, Ent
<1>2. ASSUME NEW e \in Entities, PushStopped(e) PROVE Types'
  <2>1. JobType' /\ SchedType' /\ TdrType'
    BY <1>2 DEF PushStopped
  <2>2. EntityType'
    BY <1>2 DEF PushStopped, Ent
  <2> QED
    BY <2>1, <2>2
<1>3. ASSUME NEW e \in Entities, AddEntity(e) PROVE Types'
  <2>1. JobType' /\ TdrType'
    BY <1>3 DEF AddEntity
  <2>2. EntityType'
    BY <1>3 DEF AddEntity, Ent
  <2>3. entities' \in [Scheds -> Seq(Entities)]
    BY <1>3 DEF AddEntity
  <2> QED
    BY <1>3, <2>1, <2>2, <2>3 DEF AddEntity
<1>4. ASSUME NEW e \in Entities, PushWake(e) PROVE Types'
  BY <1>4 DEF PushWake, Ent, Wake
<1>5. ASSUME NEW e \in Entities, Flush(e) PROVE Types'
  BY <1>5 DEF Flush, Ent
<1>6. ASSUME NEW e \in Entities, FlushSleep(e) PROVE Types'
  BY <1>6 DEF FlushSleep, Ent
<1>7. ASSUME NEW e \in Entities, NEW kill \in BOOLEAN, NEW next \in {"open", "fini"},
             FlushEnd(e, kill, next)
      PROVE  Types'
  <2>1. entities' \in [Scheds -> Seq(Entities)] /\ current_entity' \in [Scheds -> Entities \cup {None}]
    <3>1. CASE kill
      BY <1>7, <3>1, RemoveType DEF FlushEnd
    <3>2. CASE ~kill
      BY <1>7, <3>2 DEF FlushEnd
    <3> QED
      BY <3>1, <3>2
  <2>2. JobType' /\ TdrType'
    BY <1>7 DEF FlushEnd
  <2>3. EntityType'
    BY <1>7 DEF FlushEnd, Ent
  <2> QED
    BY <1>7, <2>1, <2>2, <2>3 DEF FlushEnd
<1>8. ASSUME NEW e \in Entities, Fini(e) PROVE Types'
  <2>1. entities' \in [Scheds -> Seq(Entities)] /\ current_entity' \in [Scheds -> Entities \cup {None}]
    BY <1>8, RemoveType DEF Fini
  <2> QED
    BY <1>8, <2>1 DEF Fini, Ent
<1>9. ASSUME NEW e \in Entities, ClearDependency(e) PROVE Types'
  BY <1>9 DEF ClearDependency, Ent
<1>10. ASSUME NEW e \in Entities, KillJob(e) PROVE Types'
  <2>1. Head(queue[e]) \in Jobs /\ Tail(queue[e]) \in Seq(Jobs)
    BY <1>10, TailFacts DEF KillJob
  <2>2. JobType'
    BY <1>10, <2>1 DEF KillJob, SignalScheduled
  <2>3. EntityType'
    BY <1>10, <2>1 DEF KillJob, SignalScheduled
  <2>4. SchedType' /\ TdrType'
    BY <1>10 DEF KillJob
  <2> QED
    BY <2>2, <2>3, <2>4
<1>11. ASSUME NEW e \in Entities, PutLast(e) PROVE Types'
  BY <1>11 DEF PutLast, Ent
<1>12. ASSUME NEW s \in Scheds, GetCleanupJob(s) PROVE Types'
  <2>1. Head(pending_list[s]) \in Jobs /\ Tail(pending_list[s]) \in Seq(Jobs)
    BY <1>12, TailFacts DEF GetCleanupJob, HasCleanupJob
  <2>2. SchedType'
    BY <1>12, <2>1 DEF GetCleanupJob, At, TimerAfterCleanup
  <2> QED
    BY <1>12, <2>2 DEF GetCleanupJob
<1>13. ASSUME NEW s \in Scheds, FreeJob(s) PROVE Types'
  BY <1>13 DEF FreeJob, At
<1>14. ASSUME NEW s \in Scheds, NoCleanupJob(s) PROVE Types'
  BY <1>14 DEF NoCleanupJob, At
<1>15. ASSUME NEW s \in Scheds, Park(s) PROVE Types'
  BY <1>15 DEF Park, At
<1>16. ASSUME NEW s \in Scheds, Unpark(s) PROVE Types'
  BY <1>16 DEF Unpark, At
<1>17. ASSUME NEW s \in Scheds, NEW e \in Range(entities[s]), SelectEntity(s, e) PROVE Types'
  <2>1. e \in Entities
    BY <1>17 DEF Range
  <2> QED
    BY <1>17, <2>1 DEF SelectEntity, At
<1>18. ASSUME NEW s \in Scheds, Sleep(s) PROVE Types'
  BY <1>18 DEF Sleep, At
<1>19. ASSUME NEW s \in Scheds, WakeUp(s) PROVE Types'
  BY <1>19 DEF WakeUp, At
<1>20. ASSUME NEW s \in Scheds, NEW d \in Jobs, PopNextDep(s, d) PROVE Types'
  BY <1>20 DEF PopNextDep
<1>21. ASSUME NEW s \in Scheds, NEW d \in Jobs, PopWaitDep(s, d) PROVE Types'
  BY <1>21 DEF PopWaitDep, At
<1>22. ASSUME NEW s \in Scheds, PopJob(s) PROVE Types'
  <2>1. sent[s] \in Entities /\ queue[sent[s]] \in Seq(Jobs) /\ queue[sent[s]] # <<>>
    BY <1>22 DEF PopJob, ThreadInv, HoldInv, Holds
  <2>2. Head(queue[sent[s]]) \in Jobs /\ Tail(queue[sent[s]]) \in Seq(Jobs)
    BY <2>1, TailFacts
  <2>3. JobType' /\ TdrType'
    BY <1>22 DEF PopJob
  <2>4. EntityType'
    <3>1. queue' \in [Entities -> Seq(Jobs)]
      BY <1>22, <2>2 DEF PopJob
    <3>2. last_scheduled' \in [Entities -> JobOrNone]
      BY <1>22, <2>2 DEF PopJob
    <3> QED
      BY <1>22, <3>1, <3>2 DEF PopJob
  <2>5. pending_list' \in [Scheds -> Seq(Jobs)] /\ work_tdr' \in [Scheds -> BOOLEAN]
    BY <1>22, <2>2, AppendFacts DEF PopJob, JobBegin, StartTimeout
  <2>6. hw_rq_count' \in [Scheds -> Int]
    BY <1>22, CountUpDown DEF PopJob
  <2>7. SchedType'
    BY <1>22, <2>2, <2>5, <2>6 DEF PopJob, At
  <2> QED
    BY <2>3, <2>4, <2>7
<1>23. ASSUME NEW s \in Scheds, NEW r \in BOOLEAN, RunJob(s, r) PROVE Types'
  BY <1>23 DEF RunJob, At
<1>24. ASSUME NEW s \in Scheds, AddDoneCb(s) PROVE Types'
  BY <1>24 DEF AddDoneCb, At, JobScheduled, SignalScheduled
<1>25. ASSUME NEW s \in Scheds, DoneAtOnce(s) PROVE Types'
  <2>1. JobType'
    <3>1. finished' \in [Jobs -> BOOLEAN]
      BY <1>25 DEF DoneAtOnce, JobDone, SignalFinished
    <3>2. finish_cb' \in [Jobs -> JobOrNone]
      BY <1>25 DEF DoneAtOnce, JobDone, SignalFinished
    <3>3. work' \subseteq Jobs
      BY <1>25 DEF DoneAtOnce, JobDone, Killed
    <3> QED
      BY <1>25, <3>1, <3>2, <3>3 DEF DoneAtOnce
  <2>2. EntityType'
    BY <1>25 DEF DoneAtOnce, JobDone, SignalFinished, JobScheduled
  <2>3. SchedType' /\ TdrType'
    <3>1. hw_rq_count' \in [Scheds -> Int]
      BY <1>25, CountUpDown DEF DoneAtOnce, JobDone
    <3> QED
      BY <1>25, <3>1 DEF DoneAtOnce, At
  <2> QED
    BY <2>1, <2>2, <2>3
<1>26. ASSUME NEW s \in Scheds, NEW j \in Jobs, HwSilent(s, j) PROVE Types'
  BY <1>26 DEF HwSilent
<1>27. ASSUME NEW s \in Scheds, NEW j \in Jobs, HwDone(s, j) PROVE Types'
  <2>1. JobType'
    BY <1>27 DEF HwDone, JobDone, SignalFinished, Killed
  <2>2. EntityType'
    BY <1>27 DEF HwDone, JobDone, SignalFinished
  <2>3. SchedType' /\ TdrType'
    <3>1. hw_rq_count' \in [Scheds -> Int]
      BY <1>27, CountUpDown DEF HwDone, JobDone
    <3> QED
      BY <1>27, <3>1 DEF HwDone
  <2> QED
    BY <2>1, <2>2, <2>3
<1>28. ASSUME NEW s \in Scheds, DoneWake(s) PROVE Types'
  BY <1>28 DEF DoneWake, Wake
<1>29. ASSUME NEW s \in Scheds, TdrFire(s) PROVE Types'
  <2>1. CASE pending_list[s] = <<>>
    BY <1>29, <2>1 DEF TdrFire
  <2>2. CASE pending_list[s] # <<>>
    <3>1. Head(pending_list[s]) \in Jobs /\ Tail(pending_list[s]) \in Seq(Jobs)
      BY <2>2, TailFacts
    <3>2. SchedType'
      <4>1. pending_list' = [pending_list EXCEPT ![s] = Tail(pending_list[s])]
        BY <1>29, <2>2 DEF TdrFire
      <4> QED
        BY <1>29, <3>1, <4>1 DEF TdrFire
    <3> QED
      BY <1>29, <2>2, <3>1, <3>2 DEF TdrFire
  <2> QED
    BY <2>1, <2>2
<1>30. ASSUME SoftRecover PROVE Types'
  BY <1>30 DEF SoftRecover
<1>31. ASSUME Recover PROVE Types'
  BY <1>31 DEF Recover
<1>32. ASSUME NEW s \in Scheds, ParkThread(s) PROVE Types'
  BY <1>32 DEF ParkThread, Wake
<1>33. ASSUME ReinsertBad PROVE Types'
  <2>1. WithBad(cur) \in Seq(Jobs)
    <3>1. pending_list[cur] \in Seq(Jobs) /\ bad \in Jobs
      BY <1>33 DEF ReinsertBad, ParkInv
    <3>2. <<bad>> \o pending_list[cur] \in Seq(Jobs)
      BY <3>1, PrependFacts
    <3>3. <<>> \o pending_list[cur] = pending_list[cur]
      BY <3>1, ConcatEmptySeq
    <3> QED
      BY <3>1, <3>2, <3>3 DEF WithBad
  <2>2. Len(WithBad(cur)) \in Nat
    BY <2>1, LenProperties
  <2>3. SchedType'
    BY <1>33, <2>1 DEF ReinsertBad
  <2> QED
    BY <1>33, <2>2, <2>3 DEF ReinsertBad
<1>34. ASSUME UnhookJob PROVE Types'
  <2>1. JobType' /\ EntityType'
    BY <1>34 DEF UnhookJob
  <2>2. SchedType'
    <3>1. hw_rq_count' \in [Scheds -> Int]
      BY <1>34, CountUpDown DEF UnhookJob, Unhooked
    <3> QED
      BY <1>34, <3>1 DEF UnhookJob
  <2>3. TdrType'
    BY <1>34 DEF UnhookJob
  <2> QED
    BY <2>1, <2>2, <2>3
<1>35. ASSUME RemoveJob PROVE Types'
  <2>1. cur \in Scheds /\ pending_list[cur] \in Seq(Jobs)
    BY <1>35 DEF RemoveJob, ParkInv
  <2>2. Without(pending_list[cur], pending_list[cur][left]) \in Seq(Jobs)
    BY <2>1, WithoutFacts DEF PendingInv, Pending
  <2>3. SchedType'
    BY <1>35, <2>1, <2>2 DEF RemoveJob
  <2>4. left - 1 \in Nat
    BY <1>35 DEF RemoveJob
  <2> QED
    BY <1>35, <2>3, <2>4 DEF RemoveJob
<1>36. ASSUME StopDone PROVE Types'
  BY <1>36 DEF StopDone
<1>37. ASSUME SkipReset PROVE Types'
  BY <1>37 DEF SkipReset
<1>38. ASSUME NEW r \in BOOLEAN, Reset(r) PROVE Types'
  BY <1>38 DEF Reset, PreAsicReset, IncreaseKarma
<1>39. ASSUME NEW s \in Scheds, NoResubmit(s) PROVE Types'
  BY <1>39 DEF NoResubmit
<1>40. ASSUME NEW s \in Scheds, NEW F \in SUBSET Jobs, Resubmit(s, F) PROVE Types'
  BY <1>40 DEF Resubmit
<1>41. ASSUME StartJob PROVE Types'
  <2>1. JobType' /\ EntityType'
    BY <1>41 DEF StartJob
  <2>2. SchedType'
    <3>1. hw_rq_count' \in [Scheds -> Int]
      BY <1>41, CountUpDown DEF StartJob
    <3> QED
      BY <1>41, <3>1 DEF StartJob
  <2>3. TdrType'
    BY <1>41 DEF StartJob
  <2> QED
    BY <2>1, <2>2, <2>3
<1>42. ASSUME StartDone PROVE Types'
  <2>1. JobType'
    BY <1>42 DEF StartDone, SignalFinished, Killed
  <2>2. EntityType'
    BY <1>42 DEF StartDone, SignalFinished
  <2>3. SchedType' /\ TdrType'
    BY <1>42 DEF StartDone
  <2> QED
    BY <2>1, <2>2, <2>3
<1>43. ASSUME StartFailed PROVE Types'
  <2>1. pending_list[cur][left + 1] \in Jobs
    BY <1>43 DEF StartFailed, ParkInv
  <2>2. JobType' /\ EntityType'
    BY <1>43, <2>1 DEF StartFailed
  <2>3. SchedType'
    <3>1. hw_rq_count' \in [Scheds -> Int]
      BY <1>43, CountUpDown DEF StartFailed
    <3> QED
      BY <1>43, <3>1 DEF StartFailed
  <2>4. TdrType'
    BY <1>43 DEF StartFailed
  <2> QED
    BY <2>2, <2>3, <2>4
<1>44. ASSUME UnparkThread PROVE Types'
  BY <1>44 DEF UnparkThread
<1>45. ASSUME TdrEnd PROVE Types'
  <2>1. JobType' /\ EntityType' /\ TdrType'
    BY <1>45 DEF TdrEnd
  <2>2. SchedType'
    BY <1>45 DEF TdrEnd, StartTimeout
  <2> QED
    BY <2>1, <2>2
<1>46. ASSUME NEW j \in Jobs, KillWork(j) PROVE Types'
  <2>1. JobType'
    BY <1>46 DEF KillWork, SignalFinished, Killed
  <2>2. EntityType'
    BY <1>46 DEF KillWork, SignalFinished
  <2>3. SchedType' /\ TdrType'
    BY <1>46 DEF KillWork
  <2> QED
    BY <2>1, <2>2, <2>3
<1> HIDE DEF Types
<1>47. ASSUME NEW e \in Entities, Client(e) PROVE Types'
  <2>1. CASE Submit(e)
    <3>1. PICK j \in Jobs, D \in SUBSET Jobs, s \in Scheds : PushJob(e, j, D, s)
      BY <2>1, NewRqType DEF Submit, Armed
    <3> QED
      BY <1>1, <3>1
  <2> QED
    BY <1>47, <2>1, <1>2, <1>3, <1>4, <1>5, <1>6, <1>7, <1>8, <1>9, <1>10, <1>11, Zenon DEF
       Client
<1>48. ASSUME NEW s \in Scheds, Thread(s) PROVE Types'
  BY <1>48, <1>12, <1>13, <1>14, <1>15, <1>16, <1>17, <1>18, <1>19, <1>20, <1>21, <1>22,
     <1>23, <1>24, <1>25, ZenonT(60) DEF Thread
<1>49. ASSUME NEW s \in Scheds, Hardware(s) PROVE Types'
  BY <1>49, <1>26, <1>27, Zenon DEF Hardware
<1>50. ASSUME Timeout PROVE Types'
  BY <1>50, <1>29, <1>30, <1>31, <1>32, <1>33, <1>34, <1>35, <1>36, <1>37, <1>38, <1>39,
     <1>40, <1>41, <1>42, <1>43, <1>44, <1>45, Zenon DEF Timeout, Armed
<1> QED
  BY <1>47, <1>48, <1>49, <1>50, <1>28, <1>46 DEF Next

----------------------------------------------------------------------------
(* What the steps of each actor leave alone                                *)

\* A fence that is signalled takes itself off the entities that wait for it.
DepShrinks == \A e \in Entities : dependency'[e] \in {dependency[e], None}

\* A finished fence stays signalled.
FencesStay == \A j \in Jobs : finished[j] => finished'[j]

\* The handler of the timeout has no say in the entities and in what the threads do.
LEMMA HandlerFrame ==
  ASSUME Types, Timeout
  PROVE  /\ UNCHANGED <<ent, sched, deps, queue, rq_of, last_scheduled, entity_idle, stopped, epc,
                        entities, current_entity, spc, sent, sjob>>
         /\ DepShrinks /\ FencesStay
<1> USE DEF pushVars, fenceVars, hwVars, killVars, jobVars, placeVars,
        entityVars, rqVars, listVars, wakeVars, schedVars, threadVars, tdrVars
<1> DEFINE Frame ==
             /\ UNCHANGED <<ent, sched, deps, queue, rq_of, last_scheduled, entity_idle, stopped,
                            epc, entities, current_entity, spc, sent, sjob>>
             /\ DepShrinks /\ FencesStay
<1>1. ASSUME NEW s \in Scheds, TdrFire(s) PROVE Frame
  BY <1>1 DEF TdrFire, DepShrinks, FencesStay
<1>2. ASSUME SoftRecover PROVE Frame
  BY <1>2 DEF SoftRecover, DepShrinks, FencesStay
<1>3. ASSUME Recover PROVE Frame
  BY <1>3 DEF Recover, DepShrinks, FencesStay
<1>4. ASSUME NEW s \in Scheds, ParkThread(s) PROVE Frame
  BY <1>4 DEF ParkThread, DepShrinks, FencesStay
<1>5. ASSUME ReinsertBad PROVE Frame
  BY <1>5 DEF ReinsertBad, DepShrinks, FencesStay
<1>6. ASSUME UnhookJob PROVE Frame
  BY <1>6 DEF UnhookJob, DepShrinks, FencesStay
<1>7. ASSUME RemoveJob PROVE Frame
  BY <1>7 DEF RemoveJob, DepShrinks, FencesStay
<1>8. ASSUME StopDone PROVE Frame
  BY <1>8 DEF StopDone, DepShrinks, FencesStay
<1>9. ASSUME SkipReset PROVE Frame
  BY <1>9 DEF SkipReset, DepShrinks, FencesStay
<1>10. ASSUME NEW r \in BOOLEAN, Reset(r) PROVE Frame
  BY <1>10 DEF Reset, PreAsicReset, IncreaseKarma, DepShrinks, FencesStay
<1>11. ASSUME NEW s \in Scheds, NoResubmit(s) PROVE Frame
  BY <1>11 DEF NoResubmit, DepShrinks, FencesStay
<1>12. ASSUME NEW s \in Scheds, NEW F \in SUBSET Jobs, Resubmit(s, F) PROVE Frame
  BY <1>12 DEF Resubmit, DepShrinks, FencesStay
<1>13. ASSUME StartJob PROVE Frame
  BY <1>13 DEF StartJob, DepShrinks, FencesStay
<1>14. ASSUME StartDone PROVE Frame
  BY <1>14 DEF StartDone, SignalFinished, DepShrinks, FencesStay
<1>15. ASSUME StartFailed PROVE Frame
  BY <1>15 DEF StartFailed, DepShrinks, FencesStay
<1>16. ASSUME UnparkThread PROVE Frame
  BY <1>16 DEF UnparkThread, DepShrinks, FencesStay
<1>17. ASSUME TdrEnd PROVE Frame
  BY <1>17 DEF TdrEnd, DepShrinks, FencesStay
<1> HIDE DEF Frame
<1>18. Frame
  BY <1>1, <1>2, <1>3, <1>4, <1>5, <1>6, <1>7, <1>8, <1>9, <1>10, <1>11, <1>12, <1>13, <1>14,
     <1>15, <1>16, <1>17, Zenon DEF Timeout, Armed
<1> QED
  BY <1>18 DEF Frame

\* Fences that are signalled by the hardware or by a work item, and a late wake-up.
Interrupt ==
  \/ \E s \in Scheds : Hardware(s) \/ DoneWake(s)
  \/ \E j \in Jobs : KillWork(j)

\* They leave the lists, the threads and the handler alone.
LEMMA InterruptFrame ==
  ASSUME Types, Interrupt
  PROVE  /\ UNCHANGED <<ent, sched, deps, queue, rq_of, last_scheduled, entity_idle, stopped, epc,
                        entities, current_entity, spc, sent, sjob, pending_list, work_tdr, park,
                        abandoned, tdrVars>>
         /\ DepShrinks /\ FencesStay
<1> USE DEF pushVars, fenceVars, hwVars, killVars, jobVars, placeVars,
        entityVars, rqVars, listVars, wakeVars, schedVars, threadVars, tdrVars
<1> DEFINE Frame ==
             /\ UNCHANGED <<ent, sched, deps, queue, rq_of, last_scheduled, entity_idle, stopped,
                            epc, entities, current_entity, spc, sent, sjob, pending_list,
                            work_tdr, park, abandoned, tdrVars>>
             /\ DepShrinks /\ FencesStay
<1>1. ASSUME NEW s \in Scheds, NEW j \in Jobs, HwSilent(s, j) PROVE Frame
  BY <1>1 DEF HwSilent, DepShrinks, FencesStay
<1>2. ASSUME NEW s \in Scheds, NEW j \in Jobs, HwDone(s, j) PROVE Frame
  BY <1>2 DEF HwDone, JobDone, SignalFinished, DepShrinks, FencesStay
<1>3. ASSUME NEW s \in Scheds, DoneWake(s) PROVE Frame
  BY <1>3 DEF DoneWake, DepShrinks, FencesStay
<1>4. ASSUME NEW j \in Jobs, KillWork(j) PROVE Frame
  BY <1>4 DEF KillWork, SignalFinished, DepShrinks, FencesStay
<1> HIDE DEF Frame
<1>5. Frame
  BY <1>1, <1>2, <1>3, <1>4, Zenon DEF Interrupt, Hardware
<1> QED
  BY <1>5 DEF Frame

\* The user of an entity touches no fence of the hardware, no other entity, and neither
\* the threads nor the handler.
LEMMA ClientFrame ==
  ASSUME Types, NEW e \in Entities, Client(e)
  PROVE  /\ UNCHANGED <<finished, cb, abandoned, entity_idle, pending_list, hw_rq_count, work_tdr,
                        park, spc, sent, sjob, tdrVars>>
         /\ \A x \in Entities : x # e =>
              /\ queue'[x] = queue[x] /\ rq_of'[x] = rq_of[x] /\ epc'[x] = epc[x]
              /\ last_scheduled'[x] = last_scheduled[x] /\ stopped'[x] = stopped[x]
<1> USE DEF pushVars, fenceVars, hwVars, killVars, jobVars, placeVars,
        entityVars, rqVars, listVars, wakeVars, schedVars, threadVars, tdrVars
<1> DEFINE Frame(x) ==
             /\ UNCHANGED <<finished, cb, abandoned, entity_idle, pending_list, hw_rq_count,
                            work_tdr, park, spc, sent, sjob, tdrVars>>
             /\ \A y \in Entities : y # x =>
                  /\ queue'[y] = queue[y] /\ rq_of'[y] = rq_of[y] /\ epc'[y] = epc[y]
                  /\ last_scheduled'[y] = last_scheduled[y] /\ stopped'[y] = stopped[y]
<1>1. ASSUME NEW j \in Jobs, NEW D \in SUBSET Jobs, NEW s \in Scheds, PushJob(e, j, D, s)
      PROVE  Frame(e)
  BY <1>1 DEF PushJob, JobArm, Ent, Types, EntityType
<1>2. ASSUME PushStopped(e) PROVE Frame(e)
  BY <1>2 DEF PushStopped, Ent, Types, EntityType
<1>3. ASSUME AddEntity(e) PROVE Frame(e)
  BY <1>3 DEF AddEntity, Ent, Types, EntityType
<1>4. ASSUME PushWake(e) PROVE Frame(e)
  BY <1>4 DEF PushWake, Ent, Types, EntityType
<1>5. ASSUME Flush(e) PROVE Frame(e)
  BY <1>5 DEF Flush, Ent, Types, EntityType
<1>6. ASSUME FlushSleep(e) PROVE Frame(e)
  BY <1>6 DEF FlushSleep, Ent, Types, EntityType
<1>7. ASSUME NEW kill \in BOOLEAN, NEW next \in {"open", "fini"}, FlushEnd(e, kill, next)
      PROVE  Frame(e)
  BY <1>7 DEF FlushEnd, Ent, Types, EntityType
<1>8. ASSUME Fini(e) PROVE Frame(e)
  BY <1>8 DEF Fini, Ent, Types, EntityType
<1>9. ASSUME ClearDependency(e) PROVE Frame(e)
  BY <1>9 DEF ClearDependency, Ent, Types, EntityType
<1>10. ASSUME KillJob(e) PROVE Frame(e)
  BY <1>10 DEF KillJob, Types, EntityType
<1>11. ASSUME PutLast(e) PROVE Frame(e)
  BY <1>11 DEF PutLast, Ent, Types, EntityType
<1> HIDE DEF Frame
<1>12. Frame(e)
  <2>1. CASE Submit(e)
    <3>1. PICK j \in Jobs, D \in SUBSET Jobs, s \in Scheds : PushJob(e, j, D, s)
      BY <2>1, NewRqType DEF Submit, Armed
    <3> QED
      BY <1>1, <3>1
  <2> QED
    BY <2>1, <1>2, <1>3, <1>4, <1>5, <1>6, <1>7, <1>8, <1>9, <1>10, <1>11, Zenon DEF Client
<1> QED
  BY <1>12 DEF Frame

\* A thread touches neither the assignment of entities and jobs to schedulers nor what
\* the handler does, and nothing of another scheduler.
LEMMA ThreadFrame ==
  ASSUME Types, NEW s \in Scheds, Thread(s)
  PROVE  /\ UNCHANGED <<ent, sched, rq_of, stopped, entities, abandoned, park, tdrVars>>
         /\ \A t \in Scheds : t # s =>
              /\ spc'[t] = spc[t] /\ sent'[t] = sent[t] /\ sjob'[t] = sjob[t]
              /\ pending_list'[t] = pending_list[t] /\ work_tdr'[t] = work_tdr[t]
              /\ current_entity'[t] = current_entity[t]
         /\ spc[s] = "parked" => ~park[s]
         /\ FencesStay
<1> USE DEF pushVars, fenceVars, hwVars, killVars, jobVars, placeVars,
        entityVars, rqVars, listVars, wakeVars, schedVars, threadVars, tdrVars, At
<1> DEFINE Frame(x) ==
             /\ UNCHANGED <<ent, sched, rq_of, stopped, entities, abandoned, park, tdrVars>>
             /\ \A t \in Scheds : t # x =>
                  /\ spc'[t] = spc[t] /\ sent'[t] = sent[t] /\ sjob'[t] = sjob[t]
                  /\ pending_list'[t] = pending_list[t] /\ work_tdr'[t] = work_tdr[t]
                  /\ current_entity'[t] = current_entity[t]
             /\ spc[x] = "parked" => ~park[x]
             /\ FencesStay
<1>1. ASSUME GetCleanupJob(s) PROVE Frame(s)
  BY <1>1 DEF GetCleanupJob, FencesStay, Types, SchedType, JobType
<1>2. ASSUME FreeJob(s) PROVE Frame(s)
  BY <1>2 DEF FreeJob, FencesStay, Types, SchedType, JobType
<1>3. ASSUME NoCleanupJob(s) PROVE Frame(s)
  BY <1>3 DEF NoCleanupJob, FencesStay, Types, SchedType, JobType
<1>4. ASSUME Park(s) PROVE Frame(s)
  BY <1>4 DEF Park, FencesStay, Types, SchedType, JobType
<1>5. ASSUME Unpark(s) PROVE Frame(s)
  BY <1>5 DEF Unpark, FencesStay, Types, SchedType, JobType
<1>6. ASSUME NEW e \in Range(entities[s]), SelectEntity(s, e) PROVE Frame(s)
  BY <1>6 DEF SelectEntity, FencesStay, Types, SchedType, JobType
<1>7. ASSUME Sleep(s) PROVE Frame(s)
  BY <1>7 DEF Sleep, FencesStay, Types, SchedType, JobType
<1>8. ASSUME WakeUp(s) PROVE Frame(s)
  BY <1>8 DEF WakeUp, FencesStay, Types, SchedType, JobType
<1>9. ASSUME NEW d \in Jobs, PopNextDep(s, d) PROVE Frame(s)
  BY <1>9 DEF PopNextDep, FencesStay, Types, SchedType, JobType
<1>10. ASSUME NEW d \in Jobs, PopWaitDep(s, d) PROVE Frame(s)
  BY <1>10 DEF PopWaitDep, FencesStay, Types, SchedType, JobType
<1>11. ASSUME PopJob(s) PROVE Frame(s)
  BY <1>11 DEF PopJob, JobBegin, FencesStay, Types, SchedType, JobType
<1>12. ASSUME NEW r \in BOOLEAN, RunJob(s, r) PROVE Frame(s)
  BY <1>12 DEF RunJob, FencesStay, Types, SchedType, JobType
<1>13. ASSUME AddDoneCb(s) PROVE Frame(s)
  BY <1>13 DEF AddDoneCb, FencesStay, Types, SchedType, JobType
<1>14. ASSUME DoneAtOnce(s) PROVE Frame(s)
  BY <1>14 DEF DoneAtOnce, JobDone, SignalFinished, FencesStay, Types, SchedType, JobType
<1> HIDE DEF Frame
<1>15. Frame(s)
  BY <1>1, <1>2, <1>3, <1>4, <1>5, <1>6, <1>7, <1>8, <1>9, <1>10, <1>11, <1>12, <1>13, <1>14,
     ZenonT(60) DEF Thread
<1> QED
  BY <1>15 DEF Frame

----------------------------------------------------------------------------
(* Control                                                                 *)

\* The handler asks a thread to park and waits until it has.
LEMMA ParkInvStep ==
  ASSUME Types, ParkInv, JobsInv, PendingInv, Next
  PROVE  ParkInv'
<1> USE SchedAssumption DEF ToPark
<1>1. ASSUME NEW e \in Entities, Client(e) PROVE ParkInv'
  BY <1>1, ClientFrame DEF ParkInv, tdrVars
<1>2. ASSUME NEW s \in Scheds, Thread(s) PROVE ParkInv'
  BY <1>2, ThreadFrame DEF ParkInv, tdrVars
<1>3. ASSUME Interrupt PROVE ParkInv'
  BY <1>3, InterruptFrame DEF ParkInv, tdrVars
<1> USE DEF ParkInv, Types, TdrType, TdrPcs, SchedType, tdrVars, wakeVars, schedVars, threadVars
<1>4. ASSUME NEW s \in Scheds, TdrFire(s) PROVE ParkInv'
  <2>1. CASE pending_list[s] = <<>>
    BY <1>4, <2>1 DEF TdrFire
  <2>2. CASE pending_list[s] # <<>>
    <3>1. Head(pending_list[s]) \in Jobs
      BY <2>2, TailFacts
    <3> QED
      BY <1>4, <2>2, <3>1, NoneIsNoJob DEF TdrFire
  <2> QED
    BY <2>1, <2>2
<1>5. ASSUME SoftRecover PROVE ParkInv'
  BY <1>5 DEF SoftRecover, listVars
<1>6. ASSUME Recover PROVE ParkInv'
  BY <1>6 DEF Recover, listVars
<1>7. ASSUME NEW s \in Scheds, ParkThread(s) PROVE ParkInv'
  BY <1>7 DEF ParkThread, listVars
<1>8. ASSUME ReinsertBad PROVE ParkInv'
  BY <1>8 DEF ReinsertBad, listVars
<1>9. ASSUME UnhookJob PROVE ParkInv'
  BY <1>9 DEF UnhookJob, listVars
<1>10. ASSUME RemoveJob PROVE ParkInv'
  BY <1>10 DEF RemoveJob, listVars
<1>11. ASSUME StopDone PROVE ParkInv'
  BY <1>11 DEF StopDone, listVars
<1>12. ASSUME SkipReset PROVE ParkInv'
  BY <1>12 DEF SkipReset, listVars
<1>13. ASSUME NEW r \in BOOLEAN, Reset(r) PROVE ParkInv'
  BY <1>13 DEF Reset, listVars
<1>14. ASSUME NEW s \in Scheds, NoResubmit(s) PROVE ParkInv'
  BY <1>14 DEF NoResubmit, listVars
<1>15. ASSUME NEW s \in Scheds, NEW F \in SUBSET Jobs, Resubmit(s, F) PROVE ParkInv'
  BY <1>15 DEF Resubmit, listVars
<1>16. ASSUME StartJob PROVE ParkInv'
  BY <1>16 DEF StartJob, listVars
<1>17. ASSUME StartDone PROVE ParkInv'
  BY <1>17 DEF StartDone, SignalFinished, listVars
<1>18. ASSUME StartFailed PROVE ParkInv'
  BY <1>18 DEF StartFailed, listVars
<1>19. ASSUME UnparkThread PROVE ParkInv'
  BY <1>19 DEF UnparkThread, listVars
<1>20. ASSUME TdrEnd PROVE ParkInv'
  BY <1>20 DEF TdrEnd, listVars
<1> HIDE DEF ParkInv
<1>21. ASSUME Timeout PROVE ParkInv'
  BY <1>21, <1>4, <1>5, <1>6, <1>7, <1>8, <1>9, <1>10, <1>11, <1>12, <1>13, <1>14, <1>15,
     <1>16, <1>17, <1>18, <1>19, <1>20, Zenon DEF Timeout, Armed
<1> QED
  BY <1>1, <1>2, <1>3, <1>21 DEF Next, Interrupt

\* A thread has an entity while it takes a job from it, and a job until that is
\* submitted or freed.
LEMMA ThreadInvStep ==
  ASSUME Types, ThreadInv, HoldInv, Next
  PROVE  ThreadInv'
<1> USE SchedAssumption
<1>1. ASSUME NEW e \in Entities, Client(e) PROVE ThreadInv'
  BY <1>1, ClientFrame DEF ThreadInv
<1>2. ASSUME Timeout PROVE ThreadInv'
  BY <1>2, HandlerFrame DEF ThreadInv
<1>3. ASSUME Interrupt PROVE ThreadInv'
  BY <1>3, InterruptFrame DEF ThreadInv
<1> USE DEF ThreadInv, Types, SchedType, EntityType, ThreadPcs, threadVars, At
<1>4. ASSUME NEW s \in Scheds, GetCleanupJob(s) PROVE ThreadInv'
  <2>1. Head(pending_list[s]) \in Jobs
    BY <1>4, TailFacts DEF GetCleanupJob, HasCleanupJob
  <2> QED
    BY <1>4, <2>1, NoneIsNoJob DEF GetCleanupJob
<1>5. ASSUME NEW s \in Scheds, FreeJob(s) PROVE ThreadInv'
  BY <1>5 DEF FreeJob
<1>6. ASSUME NEW s \in Scheds, NoCleanupJob(s) PROVE ThreadInv'
  BY <1>6 DEF NoCleanupJob
<1>7. ASSUME NEW s \in Scheds, Park(s) PROVE ThreadInv'
  BY <1>7 DEF Park
<1>8. ASSUME NEW s \in Scheds, Unpark(s) PROVE ThreadInv'
  BY <1>8 DEF Unpark
<1>9. ASSUME NEW s \in Scheds, NEW e \in Range(entities[s]), SelectEntity(s, e)
      PROVE  ThreadInv'
  <2>1. e \in Entities
    BY <1>9 DEF Range
  <2> QED
    BY <1>9, <2>1 DEF SelectEntity
<1>10. ASSUME NEW s \in Scheds, Sleep(s) PROVE ThreadInv'
  BY <1>10 DEF Sleep
<1>11. ASSUME NEW s \in Scheds, WakeUp(s) PROVE ThreadInv'
  BY <1>11 DEF WakeUp
<1>12. ASSUME NEW s \in Scheds, NEW d \in Jobs, PopNextDep(s, d) PROVE ThreadInv'
  BY <1>12 DEF PopNextDep
<1>13. ASSUME NEW s \in Scheds, NEW d \in Jobs, PopWaitDep(s, d) PROVE ThreadInv'
  BY <1>13 DEF PopWaitDep
<1>14. ASSUME NEW s \in Scheds, PopJob(s) PROVE ThreadInv'
  <2>1. Head(queue[sent[s]]) \in Jobs
    BY <1>14, TailFacts DEF PopJob, HoldInv, Holds
  <2> QED
    BY <1>14, <2>1, NoneIsNoJob DEF PopJob
<1>15. ASSUME NEW s \in Scheds, NEW r \in BOOLEAN, RunJob(s, r) PROVE ThreadInv'
  BY <1>15 DEF RunJob
<1>16. ASSUME NEW s \in Scheds, AddDoneCb(s) PROVE ThreadInv'
  BY <1>16 DEF AddDoneCb
<1>17. ASSUME NEW s \in Scheds, DoneAtOnce(s) PROVE ThreadInv'
  BY <1>17 DEF DoneAtOnce
<1> HIDE DEF ThreadInv
<1>18. ASSUME NEW s \in Scheds, Thread(s) PROVE ThreadInv'
  BY <1>18, <1>4, <1>5, <1>6, <1>7, <1>8, <1>9, <1>10, <1>11, <1>12, <1>13, <1>14, <1>15,
     <1>16, <1>17, ZenonT(60) DEF Thread
<1> QED
  BY <1>1, <1>2, <1>3, <1>18 DEF Next, Interrupt

----------------------------------------------------------------------------
(* Run queues                                                              *)

\* drm_sched_rq_remove_entity(): the entity is on no list any more, and the others are
\* where they were.
LEMMA RemoveEffect ==
  ASSUME Types, LinkInv, NEW e \in Entities, RemoveEntity(e), NEW s \in Scheds
  PROVE  /\ \A i, k \in 1 .. Len(entities'[s]) : entities'[s][i] = entities'[s][k] => i = k
         /\ \A x : x \in Range(entities'[s]) <=> x \in Range(entities[s]) /\ x # e
         /\ current_entity'[s] \in Range(entities'[s]) \cup {None}
<1>1. rq_of[e] \in Scheds /\ entities \in [Scheds -> Seq(Entities)]
      /\ current_entity \in [Scheds -> Entities \cup {None}]
  BY DEF Types, EntityType, SchedType
<1>2. ListOk(s)
  BY DEF LinkInv
<1>3. CASE s = rq_of[e]
  <2>1. /\ entities'[s] = Without(entities[s], e)
        /\ current_entity'[s] = IF current_entity[s] = e THEN None ELSE current_entity[s]
    BY <1>1, <1>3 DEF RemoveEntity
  <2> DEFINE q == entities[s]
  <2>2. q \in Seq(Entities) /\ \A i, k \in 1 .. Len(q) : q[i] = q[k] => i = k
    BY <1>1, <1>2 DEF ListOk
  <2> HIDE DEF q
  <2>3. /\ \A i, k \in 1 .. Len(Without(q, e)) : Without(q, e)[i] = Without(q, e)[k] => i = k
        /\ \A x : x \in Range(Without(q, e)) <=> x \in Range(q) /\ x # e
    BY <2>2, WithoutFacts
  <2>4. current_entity[s] \in Range(q) \cup {None}
    BY <1>2 DEF ListOk, q
  <2> QED
    BY <2>1, <2>3, <2>4 DEF q
<1>4. CASE s # rq_of[e]
  <2>1. entities'[s] = entities[s] /\ current_entity'[s] = current_entity[s]
    BY <1>1, <1>4 DEF RemoveEntity
  <2>2. e \notin Range(entities[s])
    BY <1>2, <1>4 DEF ListOk
  <2> QED
    BY <1>2, <2>1, <2>2 DEF ListOk
<1> QED
  BY <1>3, <1>4

\* An entity is on the list of its scheduler only, and on none after fini.
LEMMA LinkInvStep ==
  ASSUME Types, Types', LinkInv, HoldInv, ThreadInv, Next
  PROVE  LinkInv'
<1> USE SchedAssumption
<1>0. /\ rq_of \in [Entities -> Scheds] /\ rq_of' \in [Entities -> Scheds]
      /\ entities \in [Scheds -> Seq(Entities)] /\ entities' \in [Scheds -> Seq(Entities)]
      /\ queue \in [Entities -> Seq(Jobs)] /\ epc \in [Entities -> EntityPcs]
      /\ current_entity \in [Scheds -> Entities \cup {None}]
      /\ dependency \in [Entities -> JobOrNone]
      /\ \A s \in Scheds : Range(entities[s]) \subseteq Entities
  BY RangeType DEF Types, EntityType, SchedType
<1>1. ASSUME NEW e \in Entities, Client(e),
             epc'[e] = epc[e] \/ epc'[e] \notin {"fini_wait", "put", "kill", "gone"},
             UNCHANGED <<rqVars, rq_of>>
      PROVE  \A s \in Scheds : ListOk(s)'
  BY <1>0, <1>1, ClientFrame DEF LinkInv, ListOk, rqVars
<1>2. ASSUME NEW e \in Entities, Client(e), UNCHANGED <<queue, dependency>>,
             epc'[e] = epc[e] \/ epc'[e] \notin {"kill", "put", "gone"}
      PROVE  \A x \in Entities : RestOk(x)'
  BY <1>2, ClientFrame DEF LinkInv, RestOk
<1>3. ASSUME NEW e \in Entities, Client(e), UNCHANGED <<rqVars, rq_of, queue, dependency>>,
             epc'[e] \notin {"fini_wait", "put", "kill", "gone"}
      PROVE  LinkInv'
  BY <1>1, <1>2, <1>3 DEF LinkInv
<1>4. ASSUME NEW e \in Entities, NEW j \in Jobs, NEW D \in SUBSET Jobs, NEW s \in Scheds,
             Client(e), PushJob(e, j, D, s)
      PROVE  LinkInv'
  <2>1. /\ rq_of' = [rq_of EXCEPT ![e] = s] /\ queue'[e] = Append(queue[e], j)
        /\ epc'[e] \in {"add", "open"} /\ dependency' = dependency
        /\ IF s # rq_of[e] THEN RemoveEntity(e) ELSE UNCHANGED rqVars
    BY <1>0, <1>4 DEF PushJob, JobArm, Ent
  <2>2. ASSUME NEW t \in Scheds PROVE ListOk(t)'
    <3>1. CASE s = rq_of[e]
      <4>1. rq_of' = rq_of /\ UNCHANGED rqVars
        BY <1>0, <2>1, <3>1
      <4> QED
        BY <1>1, <1>4, <2>1, <4>1
    <3>2. CASE s # rq_of[e]
      <4>1. /\ \A i, k \in 1 .. Len(entities'[t]) : entities'[t][i] = entities'[t][k] => i = k
            /\ \A x : x \in Range(entities'[t]) <=> x \in Range(entities[t]) /\ x # e
            /\ current_entity'[t] \in Range(entities'[t]) \cup {None}
        BY <2>1, <3>2, RemoveEffect
      <4>2. ASSUME NEW x \in Range(entities'[t])
            PROVE  x \in Range(entities[t]) /\ rq_of'[x] = rq_of[x] /\ epc'[x] = epc[x]
        <5>1. x \in Range(entities[t]) /\ x # e /\ x \in Entities
          BY <1>0, <4>1, <4>2
        <5> QED
          BY <1>4, <5>1, ClientFrame
      <4> QED
        BY <4>1, <4>2 DEF LinkInv, ListOk
    <3> QED
      BY <3>1, <3>2
  <2>3. ASSUME NEW x \in Entities PROVE RestOk(x)'
    <3>1. queue'[e] # <<>>
      <4>1. queue[e] \in Seq(Jobs)
        BY <1>0
      <4>2. Append(queue[e], j) # <<>>
        BY <4>1, AppendFacts
      <4> QED
        BY <2>1, <4>2
    <3> QED
      BY <1>4, <2>1, <3>1, ClientFrame DEF LinkInv, RestOk
  <2> QED
    BY <2>2, <2>3 DEF LinkInv
<1>5. ASSUME NEW e \in Entities, Client(e), PushStopped(e) PROVE LinkInv'
  BY <1>0, <1>3, <1>5 DEF PushStopped, Ent, placeVars, schedVars
<1>6. ASSUME NEW e \in Entities, Client(e), AddEntity(e) PROVE LinkInv'
  <2>1. /\ epc[e] = "add" /\ epc'[e] = "wake" /\ UNCHANGED <<queue, dependency, rq_of>>
        /\ current_entity' = current_entity
        /\ entities' = [entities EXCEPT ![rq_of[e]] = IF e \in Range(@) THEN @ ELSE Append(@, e)]
    BY <1>0, <1>6 DEF AddEntity, Ent, placeVars
  <2>2. ASSUME NEW s \in Scheds PROVE ListOk(s)'
    <3> DEFINE q == entities[s]
               r == entities'[s]
    <3>1. ListOk(s) /\ q \in Seq(Entities)
      BY <1>0 DEF LinkInv
    <3>2. CASE s = rq_of[e] /\ e \notin Range(q)
      <4>1. r = Append(q, e)
        BY <1>0, <2>1, <3>2
      <4> HIDE DEF q, r
      <4>2. /\ Len(r) = Len(q) + 1
            /\ \A i \in 1 .. Len(q) + 1 : r[i] = IF i <= Len(q) THEN q[i] ELSE e
            /\ Range(r) = Range(q) \cup {e}
        BY <3>1, <4>1, AppendFacts, RangeAppend
      <4>3. \A i, k \in 1 .. Len(q) : q[i] = q[k] => i = k
        BY <3>1 DEF ListOk, q
      <4>4. \A i \in 1 .. Len(q) : q[i] # e
        BY <3>1, <3>2, InRange
      <4>5. \A i, k \in 1 .. Len(r) : r[i] = r[k] => i = k
        BY <3>1, <4>2, <4>3, <4>4
      <4>6. \A x \in Range(r) :
              rq_of'[x] = s /\ epc'[x] \notin {"fini_wait", "put", "kill", "gone"}
        BY <1>0, <1>6, <2>1, <3>1, <3>2, <4>2, ClientFrame DEF ListOk, q
      <4>7. current_entity'[s] \in Range(r) \cup {None}
        BY <2>1, <3>1, <4>2 DEF ListOk, q
      <4> QED
        BY <4>5, <4>6, <4>7 DEF ListOk, r
    <3>3. CASE s # rq_of[e] \/ e \in Range(q)
      <4>1. entities'[s] = entities[s]
        BY <1>0, <2>1, <3>3
      <4>2. \A x \in Range(entities[s]) :
              rq_of'[x] = rq_of[x] /\ (epc'[x] = epc[x] \/ epc'[x] = "wake")
        BY <1>0, <1>6, <2>1, ClientFrame
      <4>3. current_entity'[s] = current_entity[s]
        BY <2>1
      <4> QED
        BY <3>1, <4>1, <4>2, <4>3 DEF ListOk
    <3> QED
      BY <3>2, <3>3
  <2> QED
    BY <1>2, <1>6, <2>1, <2>2 DEF LinkInv
<1>7. ASSUME NEW e \in Entities, Client(e), PushWake(e) PROVE LinkInv'
  BY <1>0, <1>3, <1>7 DEF PushWake, Ent, placeVars
<1>8. ASSUME NEW e \in Entities, Client(e), Flush(e) PROVE LinkInv'
  BY <1>0, <1>3, <1>8 DEF Flush, Ent, placeVars, schedVars
<1>9. ASSUME NEW e \in Entities, Client(e), FlushSleep(e) PROVE LinkInv'
  BY <1>0, <1>3, <1>9 DEF FlushSleep, Ent, placeVars, schedVars
<1>10. ASSUME NEW e \in Entities, Client(e), RemoveEntity(e), rq_of' = rq_of
       PROVE  \A s \in Scheds : ListOk(s)'
  <2>1. ASSUME NEW s \in Scheds PROVE ListOk(s)'
    <3>1. /\ \A i, k \in 1 .. Len(entities'[s]) : entities'[s][i] = entities'[s][k] => i = k
          /\ \A x : x \in Range(entities'[s]) <=> x \in Range(entities[s]) /\ x # e
          /\ current_entity'[s] \in Range(entities'[s]) \cup {None}
      BY <1>10, RemoveEffect
    <3>2. ASSUME NEW x \in Range(entities'[s])
          PROVE  x \in Range(entities[s]) /\ rq_of'[x] = rq_of[x] /\ epc'[x] = epc[x]
      <4>1. x \in Range(entities[s]) /\ x # e /\ x \in Entities
        BY <1>0, <3>1, <3>2
      <4> QED
        BY <1>10, <4>1, ClientFrame
    <3> QED
      BY <3>1, <3>2 DEF LinkInv, ListOk
  <2> QED
    BY <2>1
<1>11. ASSUME NEW e \in Entities, NEW kill \in BOOLEAN, NEW next \in {"open", "fini"},
              Client(e), FlushEnd(e, kill, next)
       PROVE  LinkInv'
  <2>1. /\ epc'[e] = next /\ UNCHANGED <<queue, dependency, rq_of>>
        /\ IF kill THEN RemoveEntity(e) ELSE UNCHANGED rqVars
    BY <1>0, <1>11 DEF FlushEnd, Ent
  <2> QED
    BY <1>1, <1>2, <1>10, <1>11, <2>1 DEF LinkInv
<1>12. ASSUME NEW e \in Entities, Client(e), Fini(e) PROVE LinkInv'
  <2>1. /\ RemoveEntity(e) /\ UNCHANGED <<queue, dependency, rq_of>>
        /\ epc'[e] = IF queue[e] = <<>> THEN "put" ELSE "fini_wait"
    BY <1>0, <1>12 DEF Fini, Ent, placeVars
  <2>2. \A x \in Entities : RestOk(x)'
    BY <1>12, <2>1, ClientFrame DEF LinkInv, RestOk
  <2> QED
    BY <1>10, <1>12, <2>1, <2>2 DEF LinkInv
<1>13. ASSUME NEW e \in Entities, Client(e), ClearDependency(e) PROVE LinkInv'
  <2>1. /\ epc[e] = "fini_wait" /\ epc'[e] = "kill" /\ UNCHANGED <<rqVars, queue, rq_of>>
        /\ dependency' = [dependency EXCEPT ![e] = None]
    BY <1>0, <1>13 DEF ClearDependency, Ent, placeVars, schedVars
  <2>2. ASSUME NEW s \in Scheds PROVE ListOk(s)'
    <3>1. ListOk(s) /\ entities'[s] = entities[s] /\ current_entity'[s] = current_entity[s]
      BY <2>1 DEF LinkInv, rqVars
    <3>2. ASSUME NEW x \in Range(entities[s]) PROVE rq_of'[x] = rq_of[x] /\ epc'[x] = epc[x]
      <4>1. x \in Entities /\ x # e
        BY <1>0, <2>1, <3>1 DEF ListOk
      <4> QED
        BY <1>13, <4>1, ClientFrame
    <3> QED
      BY <3>1, <3>2 DEF ListOk
  <2>3. \A x \in Entities : RestOk(x)'
    BY <1>0, <1>13, <2>1, ClientFrame DEF LinkInv, RestOk
  <2> QED
    BY <2>2, <2>3 DEF LinkInv
<1>14. ASSUME NEW e \in Entities, Client(e), KillJob(e) PROVE LinkInv'
  <2>1. /\ epc[e] = "kill" /\ epc' = epc /\ UNCHANGED <<rqVars, rq_of>>
        /\ \A x \in Entities : dependency'[x] \in {dependency[x], None}
    BY <1>14 DEF KillJob, SignalScheduled, placeVars, schedVars
  <2>2. \A x \in Entities : RestOk(x)'
    BY <1>14, <2>1, ClientFrame DEF LinkInv, RestOk
  <2> QED
    BY <1>1, <1>14, <2>1, <2>2 DEF LinkInv
<1>15. ASSUME NEW e \in Entities, Client(e), PutLast(e) PROVE LinkInv'
  <2>1. /\ epc[e] = "put" \/ (epc[e] = "kill" /\ queue[e] = <<>>)
        /\ epc'[e] = "gone" /\ UNCHANGED <<rqVars, queue, rq_of, dependency>>
    BY <1>0, <1>15 DEF PutLast, Ent, placeVars, schedVars
  <2>2. \A s \in Scheds : ListOk(s)'
    BY <1>0, <1>15, <2>1, ClientFrame DEF LinkInv, ListOk, rqVars
  <2>3. \A x \in Entities : RestOk(x)'
    BY <1>15, <2>1, ClientFrame DEF LinkInv, RestOk
  <2> QED
    BY <2>2, <2>3 DEF LinkInv
<1>16. ASSUME NEW e \in Entities, Client(e) PROVE LinkInv'
  <2>1. CASE Submit(e)
    <3>1. PICK j \in Jobs, D \in SUBSET Jobs, s \in Scheds : PushJob(e, j, D, s)
      BY <2>1, NewRqType DEF Submit, Armed
    <3> QED
      BY <1>4, <1>16, <3>1
  <2> QED
    BY <1>5, <1>6, <1>7, <1>8, <1>9, <1>11, <1>12, <1>13, <1>14, <1>15, <1>16, <2>1, Zenon
       DEF Client
<1>17. ASSUME UNCHANGED <<rqVars, rq_of, queue, epc>>, DepShrinks PROVE LinkInv'
  BY <1>17 DEF LinkInv, ListOk, RestOk, rqVars, DepShrinks
<1>18. ASSUME Timeout PROVE LinkInv'
  BY <1>17, <1>18, HandlerFrame DEF rqVars
<1>19. ASSUME Interrupt PROVE LinkInv'
  BY <1>17, <1>19, InterruptFrame DEF rqVars
<1>20. ASSUME NEW s \in Scheds, NEW e \in Range(entities[s]), SelectEntity(s, e) PROVE LinkInv'
  <2>1. /\ current_entity' = [current_entity EXCEPT ![s] = e]
        /\ UNCHANGED <<entities, rq_of, queue, epc, dependency>>
    BY <1>20 DEF SelectEntity, placeVars
  <2> QED
    BY <1>0, <1>20, <2>1 DEF LinkInv, ListOk, RestOk
<1>21. ASSUME NEW s \in Scheds, NEW d \in Jobs, PopWaitDep(s, d) PROVE LinkInv'
  <2>1. /\ dependency' = [dependency EXCEPT ![sent[s]] = d] /\ UNCHANGED <<rqVars, rq_of, queue, epc>>
    BY <1>21 DEF PopWaitDep, placeVars, schedVars
  <2>2. queue[sent[s]] # <<>> /\ epc[sent[s]] # "kill"
    BY <1>21 DEF PopWaitDep, HoldInv, Holds, ThreadInv
  <2>3. \A x \in Entities : RestOk(x)'
    BY <1>0, <2>1, <2>2 DEF LinkInv, RestOk
  <2> QED
    BY <2>1, <2>3 DEF LinkInv, ListOk, rqVars
<1>22. ASSUME NEW s \in Scheds, PopJob(s) PROVE LinkInv'
  <2>1. /\ UNCHANGED <<rqVars, rq_of, dependency, epc>>
        /\ queue' = [queue EXCEPT ![sent[s]] = Tail(@)]
    BY <1>22 DEF PopJob, placeVars
  <2>2. queue[sent[s]] # <<>> /\ dependency[sent[s]] = None
    BY <1>22 DEF PopJob, HoldInv, Holds, ThreadInv
  <2>3. \A x \in Entities : RestOk(x)'
    BY <1>0, <2>1, <2>2 DEF LinkInv, RestOk
  <2> QED
    BY <2>1, <2>3 DEF LinkInv, ListOk, rqVars
<1>23. ASSUME NEW s \in Scheds, UNCHANGED <<rqVars, rq_of, queue>>, JobScheduled(s), DepShrinks
       PROVE  LinkInv'
  <2>1. \A x \in Entities : epc'[x] = epc[x] \/ (epc[x] = "flush_sleep" /\ epc'[x] = "flush")
    BY <1>0, <1>23 DEF JobScheduled
  <2> QED
    BY <1>0, <1>23, <2>1 DEF LinkInv, ListOk, RestOk, rqVars, DepShrinks
<1>24. ASSUME NEW s \in Scheds, AddDoneCb(s) PROVE LinkInv'
  BY <1>23, <1>24 DEF AddDoneCb, SignalScheduled, DepShrinks, placeVars, schedVars
<1>25. ASSUME NEW s \in Scheds, DoneAtOnce(s) PROVE LinkInv'
  BY <1>23, <1>25 DEF DoneAtOnce, JobDone, SignalFinished, DepShrinks, placeVars
<1>26. ASSUME UNCHANGED <<rqVars, rq_of, queue, epc, dependency>> PROVE LinkInv'
  BY <1>17, <1>26 DEF DepShrinks
<1>27. ASSUME NEW s \in Scheds, GetCleanupJob(s) PROVE LinkInv'
  BY <1>26, <1>27 DEF GetCleanupJob, entityVars, placeVars, schedVars
<1>28. ASSUME NEW s \in Scheds, FreeJob(s) PROVE LinkInv'
  BY <1>26, <1>28 DEF FreeJob, entityVars, placeVars, schedVars
<1>29. ASSUME NEW s \in Scheds, NoCleanupJob(s) PROVE LinkInv'
  BY <1>26, <1>29 DEF NoCleanupJob, entityVars, placeVars, schedVars
<1>30. ASSUME NEW s \in Scheds, Park(s) PROVE LinkInv'
  BY <1>26, <1>30 DEF Park, entityVars, placeVars, schedVars
<1>31. ASSUME NEW s \in Scheds, Unpark(s) PROVE LinkInv'
  BY <1>26, <1>31 DEF Unpark, entityVars, placeVars, schedVars
<1>32. ASSUME NEW s \in Scheds, Sleep(s) PROVE LinkInv'
  BY <1>26, <1>32 DEF Sleep, entityVars, placeVars, schedVars
<1>33. ASSUME NEW s \in Scheds, WakeUp(s) PROVE LinkInv'
  BY <1>26, <1>33 DEF WakeUp, entityVars, placeVars, schedVars
<1>34. ASSUME NEW s \in Scheds, NEW d \in Jobs, PopNextDep(s, d) PROVE LinkInv'
  BY <1>26, <1>34 DEF PopNextDep, entityVars, placeVars, schedVars
<1>35. ASSUME NEW s \in Scheds, NEW r \in BOOLEAN, RunJob(s, r) PROVE LinkInv'
  BY <1>26, <1>35 DEF RunJob, entityVars, placeVars, schedVars
<1> HIDE DEF LinkInv
<1>36. ASSUME NEW s \in Scheds, Thread(s) PROVE LinkInv'
  BY <1>36, <1>20, <1>21, <1>22, <1>24, <1>25, <1>27, <1>28, <1>29, <1>30, <1>31, <1>32,
     <1>33, <1>34, <1>35, ZenonT(60) DEF Thread
<1> QED
  BY <1>16, <1>18, <1>19, <1>36 DEF Next, Interrupt

----------------------------------------------------------------------------
(* Who uses an entity                                                      *)

\* Two threads never have the same entity.
LEMMA HeldOnce ==
  ASSUME HoldInv, NEW s \in Scheds, NEW t \in Scheds, sent[s] # None, sent[s] = sent[t]
  PROVE  s = t
BY DEF HoldInv, Holds

\* A thread that has an entity keeps it through the steps of its user: it does not move,
\* and its queue is not emptied by kill_jobs.
LEMMA HoldInvStep ==
  ASSUME Types, Types', ThreadInv, LinkInv, HoldInv, RunInv, Next
  PROVE  HoldInv'
<1> USE SchedAssumption
<1>0. /\ rq_of \in [Entities -> Scheds] /\ epc \in [Entities -> EntityPcs]
      /\ queue \in [Entities -> Seq(Jobs)] /\ entity_idle \in [Entities -> BOOLEAN]
      /\ dependency \in [Entities -> JobOrNone] /\ last_scheduled \in [Entities -> JobOrNone]
      /\ sent \in [Scheds -> Entities \cup {None}] /\ spc \in [Scheds -> ThreadPcs]
      /\ sjob \in [Scheds -> JobOrNone]
      /\ \A s \in Scheds : sent[s] # None => sent[s] \in Entities /\ Holds(s)
      /\ \A s \in Scheds : Range(entities[s]) \subseteq Entities
  BY RangeType DEF Types, EntityType, SchedType, HoldInv
<1>1. ASSUME NEW e \in Entities, Client(e),
             \A s \in Scheds : sent[s] = e => Holds(s)',
             \A x \in Entities : dependency'[x] \in {dependency[x], None}
      PROVE  HoldInv'
  <2>1. ASSUME NEW s \in Scheds, sent'[s] # None PROVE Holds(s)'
    <3>1. sent'[s] = sent[s] /\ spc'[s] = spc[s] /\ sjob'[s] = sjob[s]
      BY <1>1, ClientFrame
    <3>2. CASE sent[s] = e
      BY <1>1, <3>2
    <3>3. CASE sent[s] # e
      <4>1. sent[s] \in Entities /\ Holds(s)
        BY <1>0, <2>1, <3>1
      <4> QED
        BY <1>1, <3>1, <3>3, <4>1, ClientFrame DEF Holds
    <3> QED
      BY <3>2, <3>3
  <2> QED
    BY <2>1 DEF HoldInv
\* Steps that neither move the entity nor touch its queue.
<1>2. ASSUME NEW e \in Entities, Client(e), UNCHANGED <<rq_of, queue, dependency>>,
             epc'[e] # "kill", epc'[e] \in {"put", "gone"} \/ epc[e] \notin {"put", "gone"},
             last_scheduled' = last_scheduled \/ epc'[e] = "gone"
      PROVE  HoldInv'
  <2>1. ASSUME NEW s \in Scheds, sent[s] = e PROVE Holds(s)'
    <3>1. Holds(s) /\ sent'[s] = e /\ spc'[s] = spc[s] /\ sjob'[s] = sjob[s]
          /\ entity_idle' = entity_idle
      BY <1>0, <1>2, <2>1, ClientFrame
    <3> QED
      BY <1>2, <2>1, <3>1 DEF Holds
  <2> QED
    BY <1>1, <1>2, <2>1
<1>3. ASSUME NEW e \in Entities, NEW j \in Jobs, NEW D \in SUBSET Jobs, NEW s \in Scheds,
             Client(e), PushJob(e, j, D, s)
      PROVE  HoldInv'
  <2>1. /\ epc[e] = "open" /\ epc'[e] \in {"add", "open"} /\ s \in NewRq(e)
        /\ rq_of' = [rq_of EXCEPT ![e] = s] /\ queue'[e] = Append(queue[e], j)
        /\ UNCHANGED <<dependency, last_scheduled, entity_idle>>
    BY <1>0, <1>3 DEF PushJob, JobArm, Ent
  <2>2. queue'[e] # <<>>
    <3>1. queue[e] \in Seq(Jobs)
      BY <1>0
    <3>2. Append(queue[e], j) # <<>>
      BY <3>1, AppendFacts
    <3> QED
      BY <2>1, <3>2
  <2>3. ASSUME NEW t \in Scheds, sent[t] = e PROVE Holds(t)'
    <3>1. Holds(t) /\ sent'[t] = e /\ spc'[t] = spc[t] /\ sjob'[t] = sjob[t]
          /\ spc[t] \in {"pop", "run"}
      BY <1>0, <1>3, <2>3, ClientFrame DEF ThreadInv
    <3>2. ~MayMove(e)
      <4>1. CASE spc[t] = "pop"
        BY <2>3, <3>1, <4>1 DEF Holds, MayMove
      <4>2. CASE spc[t] = "run"
        <5>1. last_scheduled[e] = sjob[t] /\ sjob[t] # None
          BY <2>1, <2>3, <3>1, <4>2 DEF Holds, ThreadInv
        <5>2. ~finished[sjob[t]]
          BY <4>2 DEF RunInv, Running, Unseen
        <5> QED
          BY <5>1, <5>2 DEF MayMove
      <4> QED
        BY <3>1, <4>1, <4>2
    <3>3. s = rq_of[e]
      BY <2>1, <3>2 DEF NewRq
    <3> QED
      BY <1>0, <2>1, <2>2, <2>3, <3>1, <3>3 DEF Holds
  <2> QED
    BY <1>1, <1>3, <2>1, <2>3
<1>4. ASSUME NEW e \in Entities, Client(e), PushStopped(e) PROVE HoldInv'
  BY <1>0, <1>2, <1>4 DEF PushStopped, Ent, placeVars
<1>5. ASSUME NEW e \in Entities, Client(e), AddEntity(e) PROVE HoldInv'
  BY <1>0, <1>2, <1>5 DEF AddEntity, Ent, placeVars
<1>6. ASSUME NEW e \in Entities, Client(e), PushWake(e) PROVE HoldInv'
  BY <1>0, <1>2, <1>6 DEF PushWake, Ent, placeVars
<1>7. ASSUME NEW e \in Entities, Client(e), Flush(e) PROVE HoldInv'
  BY <1>0, <1>2, <1>7 DEF Flush, Ent, placeVars
<1>8. ASSUME NEW e \in Entities, Client(e), FlushSleep(e) PROVE HoldInv'
  BY <1>0, <1>2, <1>8 DEF FlushSleep, Ent, placeVars
<1>9. ASSUME NEW e \in Entities, NEW kill \in BOOLEAN, NEW next \in {"open", "fini"},
             Client(e), FlushEnd(e, kill, next)
      PROVE  HoldInv'
  BY <1>0, <1>2, <1>9 DEF FlushEnd, Ent
<1>10. ASSUME NEW e \in Entities, Client(e), Fini(e) PROVE HoldInv'
  BY <1>0, <1>2, <1>10 DEF Fini, Ent, placeVars
\* kill_jobs waits until the thread has let go.
<1>11. ASSUME NEW e \in Entities, Client(e), \A s \in Scheds : sent[s] # e,
              \A x \in Entities : dependency'[x] \in {dependency[x], None}
       PROVE  HoldInv'
  BY <1>1, <1>11
<1>12. ASSUME NEW e \in Entities, Client(e), ClearDependency(e) PROVE HoldInv'
  <2>1. entity_idle[e] /\ dependency' = [dependency EXCEPT ![e] = None]
    BY <1>12 DEF ClearDependency, LetGo
  <2>2. \A s \in Scheds : sent[s] # e
    BY <1>0, <2>1 DEF Holds
  <2> QED
    BY <1>0, <1>11, <1>12, <2>1, <2>2
<1>13. ASSUME NEW e \in Entities, Client(e), KillJob(e) PROVE HoldInv'
  <2>1. epc[e] = "kill" /\ \A x \in Entities : dependency'[x] \in {dependency[x], None}
    BY <1>13 DEF KillJob, SignalScheduled
  <2>2. \A s \in Scheds : sent[s] # e
    BY <1>0, <2>1 DEF Holds
  <2> QED
    BY <1>11, <1>13, <2>1, <2>2
<1>14. ASSUME NEW e \in Entities, Client(e), PutLast(e) PROVE HoldInv'
  BY <1>0, <1>2, <1>14 DEF PutLast, Ent, placeVars
<1>15. ASSUME NEW e \in Entities, Client(e) PROVE HoldInv'
  <2>1. CASE Submit(e)
    <3>1. PICK j \in Jobs, D \in SUBSET Jobs, s \in Scheds : PushJob(e, j, D, s)
      BY <2>1, NewRqType DEF Submit, Armed
    <3> QED
      BY <1>3, <1>15, <3>1
  <2> QED
    BY <1>4, <1>5, <1>6, <1>7, <1>8, <1>9, <1>10, <1>12, <1>13, <1>14, <1>15, <2>1, Zenon
       DEF Client
<1>16. ASSUME UNCHANGED <<rq_of, queue, epc, last_scheduled, entity_idle, spc, sent, sjob>>,
              DepShrinks
       PROVE  HoldInv'
  <2>1. ASSUME NEW s \in Scheds, sent'[s] # None PROVE Holds(s)'
    <3>1. sent[s] \in Entities /\ Holds(s)
      BY <1>0, <1>16, <2>1
    <3>2. dependency'[sent[s]] \in {dependency[sent[s]], None}
      BY <1>16, <3>1 DEF DepShrinks
    <3> QED
      BY <1>16, <3>1, <3>2 DEF Holds
  <2> QED
    BY <2>1 DEF HoldInv
<1>17. ASSUME Timeout PROVE HoldInv'
  BY <1>16, <1>17, HandlerFrame
<1>18. ASSUME Interrupt PROVE HoldInv'
  BY <1>16, <1>18, InterruptFrame
\* A step of the thread s, which touches no entity but its own, except that entities may
\* leave their dependencies and wake up.
<1>19. ASSUME NEW s \in Scheds, Thread(s),
              \A x \in Entities :
                /\ epc'[x] = epc[x] \/ (epc[x] = "flush_sleep" /\ epc'[x] = "flush")
                /\ x # sent[s] =>
                     /\ queue'[x] = queue[x] /\ last_scheduled'[x] = last_scheduled[x]
                     /\ dependency'[x] \in {dependency[x], None}
                     /\ entity_idle'[x] => entity_idle[x],
              sent'[s] # None => Holds(s)'
       PROVE  HoldInv'
  <2>1. ASSUME NEW t \in Scheds, sent'[t] # None, t # s PROVE Holds(t)'
    <3>1. sent'[t] = sent[t] /\ spc'[t] = spc[t] /\ sjob'[t] = sjob[t] /\ rq_of' = rq_of
      BY <1>19, <2>1, ThreadFrame
    <3>2. sent[t] # sent[s] /\ sent[t] \in Entities /\ Holds(t)
      BY <1>0, <2>1, <3>1, HeldOnce
    <3> QED
      BY <1>19, <3>1, <3>2 DEF Holds
  <2> QED
    BY <1>19, <2>1 DEF HoldInv
<1>20. ASSUME NEW s \in Scheds, NEW e \in Range(entities[s]), Thread(s), SelectEntity(s, e)
       PROVE  HoldInv'
  <2>1. /\ entity_idle' = [entity_idle EXCEPT ![e] = FALSE] /\ sent'[s] = e /\ spc'[s] = "pop"
        /\ IsReady(e) /\ UNCHANGED <<rq_of, queue, dependency, last_scheduled, epc>>
    BY <1>0, <1>20 DEF SelectEntity, IsNext, At, placeVars
  <2>2. e \in Entities /\ rq_of[e] = s /\ epc[e] # "kill"
    BY <1>0, <1>20 DEF LinkInv, ListOk
  <2>3. Holds(s)'
    BY <1>0, <2>1, <2>2 DEF Holds, IsReady
  <2>4. \A x \in Entities : entity_idle'[x] => entity_idle[x]
    BY <1>0, <2>1
  <2> QED
    BY <1>19, <1>20, <2>1, <2>3, <2>4
\* The thread is not at an entity, before or after.
<1>21. ASSUME NEW s \in Scheds, Thread(s), sent'[s] = None,
              UNCHANGED <<queue, last_scheduled, entity_idle>>, DepShrinks,
              epc' = epc \/ JobScheduled(s)
       PROVE  HoldInv'
  <2>1. \A x \in Entities : epc'[x] = epc[x] \/ (epc[x] = "flush_sleep" /\ epc'[x] = "flush")
    BY <1>21 DEF JobScheduled
  <2> QED
    BY <1>19, <1>21, <2>1 DEF DepShrinks
<1>22. ASSUME NEW s \in Scheds, Thread(s), spc[s] \notin {"pop", "run"}, sent' = sent,
              UNCHANGED entityVars
       PROVE  HoldInv'
  <2>1. sent'[s] = None /\ DepShrinks
    BY <1>22 DEF ThreadInv, DepShrinks, entityVars
  <2> QED
    BY <1>21, <1>22, <2>1 DEF entityVars
<1>23. ASSUME NEW s \in Scheds, NEW d \in Jobs, Thread(s), PopNextDep(s, d) PROVE HoldInv'
  BY <1>16, <1>23 DEF PopNextDep, entityVars, placeVars, threadVars, DepShrinks
<1>24. ASSUME NEW s \in Scheds, NEW d \in Jobs, Thread(s), PopWaitDep(s, d) PROVE HoldInv'
  <2>1. /\ sent'[s] = None /\ UNCHANGED <<queue, last_scheduled, epc>>
        /\ dependency' = [dependency EXCEPT ![sent[s]] = d]
        /\ entity_idle' = [entity_idle EXCEPT ![sent[s]] = TRUE]
    BY <1>0, <1>24 DEF PopWaitDep
  <2>2. \A x \in Entities : x # sent[s] =>
          dependency'[x] = dependency[x] /\ entity_idle'[x] = entity_idle[x]
    BY <1>0, <2>1
  <2> QED
    BY <1>19, <1>24, <2>1, <2>2
<1>25. ASSUME NEW s \in Scheds, Thread(s), PopJob(s) PROVE HoldInv'
  <2> DEFINE e == sent[s]
             j == Head(queue[e])
  <2>1. spc[s] = "pop" /\ e \in Entities /\ Holds(s)
    BY <1>0, <1>25 DEF PopJob, ThreadInv
  <2>2. /\ last_scheduled' = [last_scheduled EXCEPT ![e] = j] /\ sjob'[s] = j
        /\ queue' = [queue EXCEPT ![e] = Tail(@)] /\ spc'[s] = "run" /\ sent' = sent
        /\ UNCHANGED <<rq_of, dependency, entity_idle, epc>>
    BY <1>0, <1>25 DEF PopJob, At, placeVars
  <2> HIDE DEF e, j
  <2>3. Holds(s)'
    <3>1. sent'[s] = e /\ last_scheduled'[e] = j
      BY <1>0, <2>1, <2>2 DEF e
    <3>2. rq_of[e] = s /\ ~entity_idle[e] /\ epc[e] # "kill"
      BY <2>1 DEF Holds, e
    <3> QED
      BY <2>2, <3>1, <3>2 DEF Holds
  <2>4. \A x \in Entities : x # e =>
          queue'[x] = queue[x] /\ last_scheduled'[x] = last_scheduled[x]
    BY <1>0, <2>2
  <2> QED
    BY <1>19, <1>25, <2>2, <2>3, <2>4 DEF e
<1>26. ASSUME NEW s \in Scheds, NEW r \in BOOLEAN, Thread(s), RunJob(s, r) PROVE HoldInv'
  <2>1. /\ sent'[s] = None /\ UNCHANGED <<queue, last_scheduled, epc, dependency>>
        /\ entity_idle' = [entity_idle EXCEPT ![sent[s]] = TRUE]
    BY <1>0, <1>26 DEF RunJob
  <2>2. \A x \in Entities : x # sent[s] => entity_idle'[x] = entity_idle[x]
    BY <1>0, <2>1
  <2> QED
    BY <1>19, <1>26, <2>1, <2>2
<1>27. ASSUME NEW s \in Scheds, Thread(s), AddDoneCb(s) PROVE HoldInv'
  <2>1. sent'[s] = None
    BY <1>27 DEF AddDoneCb, ThreadInv
  <2> QED
    BY <1>21, <1>27, <2>1 DEF AddDoneCb, SignalScheduled, DepShrinks
<1>28. ASSUME NEW s \in Scheds, Thread(s), DoneAtOnce(s) PROVE HoldInv'
  <2>1. sent'[s] = None
    BY <1>28 DEF DoneAtOnce, ThreadInv
  <2> QED
    BY <1>21, <1>28, <2>1 DEF DoneAtOnce, JobDone, SignalFinished, DepShrinks
<1>29. ASSUME NEW s \in Scheds, Thread(s), GetCleanupJob(s) PROVE HoldInv'
  BY <1>22, <1>29 DEF GetCleanupJob
<1>30. ASSUME NEW s \in Scheds, Thread(s), FreeJob(s) PROVE HoldInv'
  BY <1>22, <1>30 DEF FreeJob
<1>31. ASSUME NEW s \in Scheds, Thread(s), NoCleanupJob(s) PROVE HoldInv'
  BY <1>22, <1>31 DEF NoCleanupJob
<1>32. ASSUME NEW s \in Scheds, Thread(s), Park(s) PROVE HoldInv'
  BY <1>22, <1>32 DEF Park
<1>33. ASSUME NEW s \in Scheds, Thread(s), Unpark(s) PROVE HoldInv'
  BY <1>22, <1>33 DEF Unpark
<1>34. ASSUME NEW s \in Scheds, Thread(s), Sleep(s) PROVE HoldInv'
  BY <1>22, <1>34 DEF Sleep
<1>35. ASSUME NEW s \in Scheds, Thread(s), WakeUp(s) PROVE HoldInv'
  BY <1>22, <1>35 DEF WakeUp
<1> HIDE DEF HoldInv
<1>36. ASSUME NEW s \in Scheds, Thread(s) PROVE HoldInv'
  BY <1>36, <1>20, <1>23, <1>24, <1>25, <1>26, <1>27, <1>28, <1>29, <1>30, <1>31, <1>32,
     <1>33, <1>34, <1>35, ZenonT(60) DEF Thread
<1> QED
  BY <1>15, <1>17, <1>18, <1>36 DEF Next, Interrupt

----------------------------------------------------------------------------
(* The life of a job                                                       *)

\* The finished fence of another job says nothing of x.
LEMMA FinishSpares ==
  ASSUME Types, NEW x \in Jobs, Unseen(x), NEW j \in Jobs, x # j, NEW c, NEW ss,
             SignalFinished(j, c, ss),
         work' \subseteq work \cup Killed(j)
  PROVE  ~finished'[x] /\ x \notin work' /\ finish_cb'[x] = None
<1>1. finished'[x] = finished[x]
  BY DEF SignalFinished, Types, JobType
<1>2. finish_cb'[x] = None
  BY DEF SignalFinished, Unseen
<1>3. x \notin Killed(j)
  BY NoneIsNoJob DEF Killed, Unseen
<1> QED
  BY <1>1, <1>2, <1>3 DEF Unseen

\* A job of which nothing has been seen stays so until its thread is done with it, kill_jobs
\* takes it, or the handler starts it again.
LEMMA UnseenStep ==
  ASSUME Types, ParkInv, ThreadInv, Next, NEW x \in Jobs, Unseen(x)
  PROVE  \/ Unseen(x)'
         \/ \E s \in Scheds : sjob[s] = x /\ spc[s] = "parent" /\ spc'[s] = "top"
         \/ \E e \in Entities : /\ epc[e] = "kill" /\ queue[e] # <<>> /\ x = Head(queue[e])
                                /\ queue' = [queue EXCEPT ![e] = Tail(@)]
         \/ /\ tpc = "jobs" /\ left < Len(pending_list[cur])
            /\ x = pending_list[cur][left + 1]
<1> DEFINE Goal ==
             \/ Unseen(x)'
             \/ \E s \in Scheds : sjob[s] = x /\ spc[s] = "parent" /\ spc'[s] = "top"
             \/ \E e \in Entities : /\ epc[e] = "kill" /\ queue[e] # <<>> /\ x = Head(queue[e])
                                    /\ queue' = [queue EXCEPT ![e] = Tail(@)]
             \/ /\ tpc = "jobs" /\ left < Len(pending_list[cur])
                /\ x = pending_list[cur][left + 1]
<1> USE SchedAssumption DEF pushVars, fenceVars, hwVars, killVars, jobVars, Types, JobType,
        SchedType
<1>0. x # None
  BY NoneIsNoJob
<1>1. ASSUME NEW e \in Entities, NEW j \in Jobs, NEW D \in SUBSET Jobs, NEW s \in Scheds,
             PushJob(e, j, D, s)
      PROVE  Goal
  BY <1>0, <1>1 DEF PushJob, Unseen
<1>2. ASSUME NEW e \in Entities, PushStopped(e) PROVE Goal
  BY <1>0, <1>2 DEF PushStopped, Unseen
<1>3. ASSUME NEW e \in Entities, AddEntity(e) PROVE Goal
  BY <1>0, <1>3 DEF AddEntity, Unseen
<1>4. ASSUME NEW e \in Entities, PushWake(e) PROVE Goal
  BY <1>0, <1>4 DEF PushWake, Unseen
<1>5. ASSUME NEW e \in Entities, Flush(e) PROVE Goal
  BY <1>0, <1>5 DEF Flush, Unseen
<1>6. ASSUME NEW e \in Entities, FlushSleep(e) PROVE Goal
  BY <1>0, <1>6 DEF FlushSleep, Unseen
<1>7. ASSUME NEW e \in Entities, NEW kill \in BOOLEAN, NEW next \in {"open", "fini"},
             FlushEnd(e, kill, next)
      PROVE  Goal
  BY <1>0, <1>7 DEF FlushEnd, Unseen
<1>8. ASSUME NEW e \in Entities, Fini(e) PROVE Goal
  BY <1>0, <1>8 DEF Fini, Unseen
<1>9. ASSUME NEW e \in Entities, ClearDependency(e) PROVE Goal
  BY <1>0, <1>9 DEF ClearDependency, Unseen
<1>10. ASSUME NEW e \in Entities, KillJob(e) PROVE Goal
  BY <1>0, <1>10 DEF KillJob, Unseen
<1>11. ASSUME NEW e \in Entities, PutLast(e) PROVE Goal
  BY <1>0, <1>11 DEF PutLast, Unseen
<1>12. ASSUME NEW s \in Scheds, GetCleanupJob(s) PROVE Goal
  BY <1>0, <1>12 DEF GetCleanupJob, Unseen
<1>13. ASSUME NEW s \in Scheds, FreeJob(s) PROVE Goal
  BY <1>0, <1>13 DEF FreeJob, Unseen
<1>14. ASSUME NEW s \in Scheds, NoCleanupJob(s) PROVE Goal
  BY <1>0, <1>14 DEF NoCleanupJob, Unseen
<1>15. ASSUME NEW s \in Scheds, Park(s) PROVE Goal
  BY <1>0, <1>15 DEF Park, Unseen
<1>16. ASSUME NEW s \in Scheds, Unpark(s) PROVE Goal
  BY <1>0, <1>16 DEF Unpark, Unseen
<1>17. ASSUME NEW s \in Scheds, NEW e \in Range(entities[s]), SelectEntity(s, e) PROVE Goal
  BY <1>0, <1>17 DEF SelectEntity, Unseen
<1>18. ASSUME NEW s \in Scheds, Sleep(s) PROVE Goal
  BY <1>0, <1>18 DEF Sleep, Unseen
<1>19. ASSUME NEW s \in Scheds, WakeUp(s) PROVE Goal
  BY <1>0, <1>19 DEF WakeUp, Unseen
<1>20. ASSUME NEW s \in Scheds, NEW d \in Jobs, PopNextDep(s, d) PROVE Goal
  BY <1>0, <1>20 DEF PopNextDep, Unseen
<1>21. ASSUME NEW s \in Scheds, NEW d \in Jobs, PopWaitDep(s, d) PROVE Goal
  BY <1>0, <1>21 DEF PopWaitDep, Unseen
<1>22. ASSUME NEW s \in Scheds, PopJob(s) PROVE Goal
  BY <1>0, <1>22 DEF PopJob, Unseen
<1>23. ASSUME NEW s \in Scheds, NEW r \in BOOLEAN, RunJob(s, r) PROVE Goal
  BY <1>0, <1>23 DEF RunJob, Unseen
<1>24. ASSUME NEW s \in Scheds, AddDoneCb(s) PROVE Goal
  BY <1>0, <1>24 DEF AddDoneCb, Unseen, At
<1>25. ASSUME NEW s \in Scheds, DoneAtOnce(s) PROVE Goal
  <2>1. CASE x # sjob[s]
    <3>0. sjob[s] \in Jobs
      BY <1>25 DEF DoneAtOnce, ThreadInv, JobOrNone
    <3>1. ~finished'[x] /\ x \notin work' /\ finish_cb'[x] = None
      BY <1>25, <2>1, <3>0, FinishSpares DEF DoneAtOnce, JobDone
    <3> QED
      BY <1>25, <3>1 DEF DoneAtOnce, Unseen
  <2>2. CASE x = sjob[s]
    BY <1>25, <2>2 DEF DoneAtOnce, At
  <2> QED
    BY <2>1, <2>2
<1>26. ASSUME NEW s \in Scheds, NEW j \in Jobs, HwSilent(s, j) PROVE Goal
  BY <1>0, <1>26 DEF HwSilent, Unseen
<1>27. ASSUME NEW s \in Scheds, NEW j \in Jobs, HwDone(s, j) PROVE Goal
  <2>1. CASE x # j
    <3>0. j \in Jobs
      BY <1>27 DEF HwDone
    <3>1. ~finished'[x] /\ x \notin work' /\ finish_cb'[x] = None
      BY <1>27, <2>1, <3>0, FinishSpares DEF HwDone, JobDone
    <3> QED
      BY <1>27, <3>1 DEF HwDone, Unseen
  <2>2. CASE x = j
    BY <1>27, <2>2 DEF HwDone, Unseen
  <2> QED
    BY <2>1, <2>2
<1>28. ASSUME NEW s \in Scheds, DoneWake(s) PROVE Goal
  BY <1>0, <1>28 DEF DoneWake, Unseen
<1>29. ASSUME NEW s \in Scheds, TdrFire(s) PROVE Goal
  BY <1>0, <1>29 DEF TdrFire, Unseen
<1>30. ASSUME SoftRecover PROVE Goal
  BY <1>0, <1>30 DEF SoftRecover, Unseen
<1>31. ASSUME Recover PROVE Goal
  BY <1>0, <1>31 DEF Recover, Unseen
<1>32. ASSUME NEW s \in Scheds, ParkThread(s) PROVE Goal
  BY <1>0, <1>32 DEF ParkThread, Unseen
<1>33. ASSUME ReinsertBad PROVE Goal
  BY <1>0, <1>33 DEF ReinsertBad, Unseen
<1>34. ASSUME UnhookJob PROVE Goal
  BY <1>0, <1>34 DEF UnhookJob, Unseen
<1>35. ASSUME RemoveJob PROVE Goal
  BY <1>0, <1>35 DEF RemoveJob, Unseen
<1>36. ASSUME StopDone PROVE Goal
  BY <1>0, <1>36 DEF StopDone, Unseen
<1>37. ASSUME SkipReset PROVE Goal
  BY <1>0, <1>37 DEF SkipReset, Unseen
<1>38. ASSUME NEW r \in BOOLEAN, Reset(r) PROVE Goal
  BY <1>0, <1>38 DEF Reset, Unseen
<1>39. ASSUME NEW s \in Scheds, NoResubmit(s) PROVE Goal
  BY <1>0, <1>39 DEF NoResubmit, Unseen
<1>40. ASSUME NEW s \in Scheds, NEW F \in SUBSET Jobs, Resubmit(s, F) PROVE Goal
  BY <1>0, <1>40 DEF Resubmit, Unseen
<1>41. ASSUME StartJob PROVE Goal
  BY <1>0, <1>41 DEF StartJob, Unseen
<1>42. ASSUME StartDone PROVE Goal
  <2>1. CASE x # pending_list[cur][left + 1]
    <3>0. pending_list[cur][left + 1] \in Jobs
      BY <1>42 DEF StartDone, ParkInv, TdrType
    <3>1. ~finished'[x] /\ x \notin work' /\ finish_cb'[x] = None
      BY <1>42, <2>1, <3>0, FinishSpares DEF StartDone
    <3> QED
      BY <1>42, <3>1 DEF StartDone, Unseen
  <2>2. CASE x = pending_list[cur][left + 1]
    BY <1>42, <2>2 DEF StartDone
  <2> QED
    BY <2>1, <2>2
<1>43. ASSUME StartFailed PROVE Goal
  BY <1>0, <1>43 DEF StartFailed, Unseen
<1>44. ASSUME UnparkThread PROVE Goal
  BY <1>0, <1>44 DEF UnparkThread, Unseen
<1>45. ASSUME TdrEnd PROVE Goal
  BY <1>0, <1>45 DEF TdrEnd, Unseen
<1>46. ASSUME NEW j \in Jobs, KillWork(j) PROVE Goal
  <2>1. CASE x # j
    <3>0. j \in Jobs
      BY <1>46 DEF KillWork
    <3>1. ~finished'[x] /\ x \notin work' /\ finish_cb'[x] = None
      BY <1>46, <2>1, <3>0, FinishSpares DEF KillWork
    <3> QED
      BY <1>46, <3>1 DEF KillWork, Unseen
  <2>2. CASE x = j
    BY <1>46, <2>2 DEF KillWork, Unseen
  <2> QED
    BY <2>1, <2>2
<1> HIDE DEF Goal
<1>47. ASSUME NEW e \in Entities, Client(e) PROVE Goal
  <2>1. CASE Submit(e)
    <3>1. PICK j \in Jobs, D \in SUBSET Jobs, s \in Scheds : PushJob(e, j, D, s)
      BY <2>1, NewRqType DEF Submit, Armed
    <3> QED
      BY <1>1, <3>1
  <2> QED
    BY <1>47, <2>1, <1>2, <1>3, <1>4, <1>5, <1>6, <1>7, <1>8, <1>9, <1>10, <1>11, Zenon DEF
       Client
<1>48. ASSUME NEW s \in Scheds, Thread(s) PROVE Goal
  BY <1>48, <1>12, <1>13, <1>14, <1>15, <1>16, <1>17, <1>18, <1>19, <1>20, <1>21, <1>22,
     <1>23, <1>24, <1>25, ZenonT(60) DEF Thread
<1>49. ASSUME NEW s \in Scheds, Hardware(s) PROVE Goal
  BY <1>49, <1>26, <1>27, Zenon DEF Hardware
<1>50. ASSUME Timeout PROVE Goal
  BY <1>50, <1>29, <1>30, <1>31, <1>32, <1>33, <1>34, <1>35, <1>36, <1>37, <1>38, <1>39,
     <1>40, <1>41, <1>42, <1>43, <1>44, <1>45, Zenon DEF Timeout, Armed
<1>51. Goal
  BY <1>47, <1>48, <1>49, <1>50, <1>28, <1>46 DEF Next
<1> QED
  BY <1>51 DEF Goal

\* What a step does to the lists of pending jobs: a job joins one from the queue of an
\* entity, or when the handler puts the bad job back.
Joins(s, x) ==
  \/ x = bad /\ BadOut /\ ~BadOut' /\ sched[bad] = s
  \/ /\ bad' = bad
     /\ \E e \in Entities : /\ queue[e] # <<>> /\ x = Head(queue[e]) /\ rq_of[e] = s
                            /\ queue' = [queue EXCEPT ![e] = Tail(@)]

\* The list of s, after a step.
PendingMoves(s) ==
  /\ \A i, k \in 1 .. Len(pending_list'[s]) :
       pending_list'[s][i] = pending_list'[s][k] => i = k
  /\ \A x \in Range(pending_list'[s]) : x \in Range(pending_list[s]) \/ Joins(s, x)

\* Every step changes the lists of pending jobs in this way.
LEMMA PendingStep ==
  ASSUME Types, ParkInv, ThreadInv, HoldInv, QueueInv, PendingInv, Next, NEW p \in Scheds
  PROVE  PendingMoves(p)
<1> USE SchedAssumption
<1>0. /\ pending_list \in [Scheds -> Seq(Jobs)] /\ queue \in [Entities -> Seq(Jobs)]
      /\ sent \in [Scheds -> Entities \cup {None}] /\ Pending(p) /\ pending_list[p] \in Seq(Jobs)
  BY DEF Types, SchedType, EntityType, PendingInv
<1>1. ASSUME pending_list'[p] = pending_list[p] PROVE PendingMoves(p)
  BY <1>0, <1>1 DEF PendingMoves, Pending
<1>2. ASSUME NEW e \in Entities, Client(e) PROVE PendingMoves(p)
  BY <1>1, <1>2, ClientFrame
<1>3. ASSUME Interrupt PROVE PendingMoves(p)
  BY <1>1, <1>3, InterruptFrame
<1>4. ASSUME pending_list[p] # <<>>, pending_list'[p] = Tail(pending_list[p]) PROVE PendingMoves(p)
  <2> DEFINE q == pending_list[p]
  <2>1. q \in Seq(Jobs) /\ q # <<>> /\ \A i, k \in 1 .. Len(q) : q[i] = q[k] => i = k
    BY <1>0, <1>4 DEF Pending
  <2> HIDE DEF q
  <2>2. /\ \A i, k \in 1 .. Len(Tail(q)) : Tail(q)[i] = Tail(q)[k] => i = k
        /\ \A x : x \in Range(Tail(q)) <=> x \in Range(q) /\ x # Head(q)
    BY <2>1, RangeTail
  <2>3. pending_list'[p] = Tail(q) /\ pending_list[p] = q
    BY <1>4 DEF q
  <2> QED
    BY <2>2, <2>3 DEF PendingMoves
<1>5. ASSUME NEW s \in Scheds, GetCleanupJob(s) PROVE PendingMoves(p)
  <2>1. pending_list[s] # <<>> /\ pending_list' = [pending_list EXCEPT ![s] = Tail(@)]
    BY <1>5 DEF GetCleanupJob, HasCleanupJob
  <2> QED
    BY <1>0, <1>1, <1>4, <2>1
<1>6. ASSUME NEW s \in Scheds, PopJob(s) PROVE PendingMoves(p)
  <2> DEFINE e == sent[s]
             x == Head(queue[e])
  <2>1. e \in Entities /\ queue[e] # <<>> /\ rq_of[e] = s
    BY <1>0, <1>6 DEF PopJob, ThreadInv, HoldInv, Holds
  <2>2. /\ pending_list' = [pending_list EXCEPT ![s] = Append(@, x)] /\ bad' = bad
        /\ queue' = [queue EXCEPT ![e] = Tail(@)]
    BY <1>6 DEF PopJob, JobBegin, tdrVars
  <2> HIDE DEF e
  <2>3. x \in Jobs /\ x \in Range(queue[e])
    <3>1. queue[e] \in Seq(Jobs) /\ Queued(e)
      BY <1>0, <2>1 DEF QueueInv
    <3> QED
      BY <2>1, <3>1, RangeTail, TailFacts DEF Queued
  <2>4. x \notin Range(pending_list[p])
    BY <2>1, <2>3 DEF QueueInv, Queued, Fresh
  <2>5. CASE p = s
    <3>1. pending_list'[p] = Append(pending_list[p], x)
      BY <1>0, <2>2, <2>5
    <3>2. Joins(p, x)
      BY <2>1, <2>2, <2>5 DEF Joins
    <3> HIDE DEF x
    <3>3. \A i, k \in 1 .. Len(pending_list'[p]) :
            pending_list'[p][i] = pending_list'[p][k] => i = k
      <4> DEFINE q == pending_list[p]
      <4>1. q \in Seq(Jobs) /\ x \notin Range(q) /\ \A i, k \in 1 .. Len(q) : q[i] = q[k] => i = k
        BY <1>0, <2>4 DEF Pending
      <4>2. pending_list'[p] = Append(q, x)
        BY <3>1
      <4> HIDE DEF q
      <4> QED
        BY <2>3, <4>1, <4>2, AppendNew
    <3>4. Range(pending_list'[p]) = Range(pending_list[p]) \cup {x}
      BY <1>0, <2>3, <3>1, RangeAppend
    <3> QED
      BY <3>2, <3>3, <3>4 DEF PendingMoves
  <2>6. CASE p # s
    BY <1>0, <1>1, <2>2, <2>6
  <2> QED
    BY <2>5, <2>6
<1>7. ASSUME NEW s \in Scheds, Thread(s), UNCHANGED pending_list PROVE PendingMoves(p)
  BY <1>1, <1>7
<1>8. ASSUME NEW s \in Scheds, FreeJob(s) PROVE PendingMoves(p)
  BY <1>1, <1>8 DEF FreeJob, schedVars, listVars
<1>9. ASSUME NEW s \in Scheds, NoCleanupJob(s) PROVE PendingMoves(p)
  BY <1>1, <1>9 DEF NoCleanupJob, schedVars, listVars
<1>10. ASSUME NEW s \in Scheds, Park(s) PROVE PendingMoves(p)
  BY <1>1, <1>10 DEF Park, schedVars, listVars
<1>11. ASSUME NEW s \in Scheds, Unpark(s) PROVE PendingMoves(p)
  BY <1>1, <1>11 DEF Unpark, schedVars, listVars
<1>12. ASSUME NEW s \in Scheds, NEW e \in Range(entities[s]), SelectEntity(s, e)
       PROVE  PendingMoves(p)
  BY <1>1, <1>12 DEF SelectEntity, schedVars, listVars
<1>13. ASSUME NEW s \in Scheds, Sleep(s) PROVE PendingMoves(p)
  BY <1>1, <1>13 DEF Sleep, schedVars, listVars
<1>14. ASSUME NEW s \in Scheds, WakeUp(s) PROVE PendingMoves(p)
  BY <1>1, <1>14 DEF WakeUp, schedVars, listVars
<1>15. ASSUME NEW s \in Scheds, NEW d \in Jobs, PopNextDep(s, d) PROVE PendingMoves(p)
  BY <1>1, <1>15 DEF PopNextDep, schedVars, listVars
<1>16. ASSUME NEW s \in Scheds, NEW d \in Jobs, PopWaitDep(s, d) PROVE PendingMoves(p)
  BY <1>1, <1>16 DEF PopWaitDep, schedVars, listVars
<1>17. ASSUME NEW s \in Scheds, NEW r \in BOOLEAN, RunJob(s, r) PROVE PendingMoves(p)
  BY <1>1, <1>17 DEF RunJob, schedVars, listVars
<1>18. ASSUME NEW s \in Scheds, AddDoneCb(s) PROVE PendingMoves(p)
  BY <1>1, <1>18 DEF AddDoneCb, schedVars, listVars
<1>19. ASSUME NEW s \in Scheds, DoneAtOnce(s) PROVE PendingMoves(p)
  BY <1>1, <1>19 DEF DoneAtOnce, schedVars, listVars
<1> HIDE DEF PendingMoves
<1>20. ASSUME NEW s \in Scheds, Thread(s) PROVE PendingMoves(p)
  BY <1>20, <1>5, <1>6, <1>8, <1>9, <1>10, <1>11, <1>12, <1>13, <1>14, <1>15, <1>16, <1>17,
     <1>18, <1>19, ZenonT(60) DEF Thread
<1>21. ASSUME NEW s \in Scheds, TdrFire(s) PROVE PendingMoves(p)
  <2>1. CASE pending_list[s] = <<>>
    BY <1>1, <1>21, <2>1 DEF TdrFire
  <2>2. CASE pending_list[s] # <<>>
    <3>1. pending_list' = [pending_list EXCEPT ![s] = Tail(@)]
      BY <1>21, <2>2 DEF TdrFire
    <3> QED
      BY <1>0, <1>1, <1>4, <2>2, <3>1
  <2> QED
    BY <2>1, <2>2
<1>22. ASSUME SoftRecover PROVE PendingMoves(p)
  BY <1>1, <1>22 DEF SoftRecover, schedVars, listVars
<1>23. ASSUME Recover PROVE PendingMoves(p)
  BY <1>1, <1>23 DEF Recover, schedVars, listVars
<1>24. ASSUME NEW s \in Scheds, ParkThread(s) PROVE PendingMoves(p)
  BY <1>1, <1>24 DEF ParkThread, schedVars, listVars
<1>25. ASSUME ReinsertBad PROVE PendingMoves(p)
  <2>1. /\ tpc = "parking" /\ tpc' = "unhook" /\ UNCHANGED <<bad, sched, todo, cur>>
        /\ pending_list' = [pending_list EXCEPT ![cur] = WithBad(cur)]
    BY <1>25 DEF ReinsertBad, jobVars, pushVars
  <2>2. cur \in Scheds /\ cur \notin todo /\ bad \in Jobs
    BY <2>1 DEF ParkInv, Types, TdrType, JobOrNone
  <2>3. CASE p = cur /\ sched[bad] = p
    <3>1. BadOut /\ ~BadOut'
      BY <2>1, <2>2, <2>3 DEF BadOut
    <3>2. bad \notin Range(pending_list[p])
      BY <1>0, <3>1 DEF Pending
    <3> DEFINE q == pending_list[p]
               r == <<bad>> \o q
    <3>3. pending_list'[p] = r
      BY <1>0, <2>1, <2>3 DEF WithBad
    <3>4. /\ \A i, k \in 1 .. Len(r) : r[i] = r[k] => i = k
          /\ Range(r) = Range(q) \cup {bad}
      <4>1. q \in Seq(Jobs) /\ bad \notin Range(q) /\ \A i, k \in 1 .. Len(q) : q[i] = q[k] => i = k
        BY <1>0, <3>2 DEF Pending
      <4> HIDE DEF q
      <4> QED
        BY <2>2, <4>1, PrependNew
    <3>5. Joins(p, bad)
      BY <2>3, <3>1 DEF Joins
    <3> HIDE DEF r
    <3> QED
      BY <3>3, <3>4, <3>5 DEF PendingMoves
  <2>4. CASE ~(p = cur /\ sched[bad] = p)
    <3>1. pending_list'[p] = pending_list[p]
      <4>1. <<>> \o pending_list[p] = pending_list[p]
        BY <1>0, ConcatEmptySeq
      <4> QED
        BY <1>0, <2>1, <2>2, <2>4, <4>1 DEF WithBad
    <3> QED
      BY <1>1, <3>1
  <2> QED
    BY <2>3, <2>4
<1>26. ASSUME UnhookJob PROVE PendingMoves(p)
  BY <1>1, <1>26 DEF UnhookJob, schedVars, listVars
<1>27. ASSUME RemoveJob PROVE PendingMoves(p)
  <2> DEFINE x == pending_list[cur][left]
             q == pending_list[p]
  <2>1. pending_list' = [pending_list EXCEPT ![cur] = Without(@, x)]
    BY <1>27 DEF RemoveJob
  <2>2. CASE p = cur
    <3>1. pending_list'[p] = Without(q, x)
      BY <1>0, <2>1, <2>2
    <3>2. q \in Seq(Jobs) /\ \A i, k \in 1 .. Len(q) : q[i] = q[k] => i = k
      BY <1>0 DEF Pending
    <3> HIDE DEF x, q
    <3>3. /\ \A i, k \in 1 .. Len(Without(q, x)) : Without(q, x)[i] = Without(q, x)[k] => i = k
          /\ \A y : y \in Range(Without(q, x)) <=> y \in Range(q) /\ y # x
      BY <3>2, WithoutFacts
    <3> QED
      BY <3>1, <3>3 DEF PendingMoves, q
  <2>3. CASE p # cur
    BY <1>0, <1>1, <2>1, <2>3
  <2> QED
    BY <2>2, <2>3
<1>28. ASSUME StopDone PROVE PendingMoves(p)
  BY <1>1, <1>28 DEF StopDone, schedVars, listVars
<1>29. ASSUME SkipReset PROVE PendingMoves(p)
  BY <1>1, <1>29 DEF SkipReset, schedVars, listVars
<1>30. ASSUME NEW r \in BOOLEAN, Reset(r) PROVE PendingMoves(p)
  BY <1>1, <1>30 DEF Reset, schedVars, listVars
<1>31. ASSUME NEW s \in Scheds, NoResubmit(s) PROVE PendingMoves(p)
  BY <1>1, <1>31 DEF NoResubmit, schedVars, listVars
<1>32. ASSUME NEW s \in Scheds, NEW F \in SUBSET Jobs, Resubmit(s, F) PROVE PendingMoves(p)
  BY <1>1, <1>32 DEF Resubmit, schedVars, listVars
<1>33. ASSUME StartJob PROVE PendingMoves(p)
  BY <1>1, <1>33 DEF StartJob, schedVars, listVars
<1>34. ASSUME StartDone PROVE PendingMoves(p)
  BY <1>1, <1>34 DEF StartDone, schedVars, listVars
<1>35. ASSUME StartFailed PROVE PendingMoves(p)
  BY <1>1, <1>35 DEF StartFailed, schedVars, listVars
<1>36. ASSUME UnparkThread PROVE PendingMoves(p)
  BY <1>1, <1>36 DEF UnparkThread, schedVars, listVars
<1>37. ASSUME TdrEnd PROVE PendingMoves(p)
  BY <1>1, <1>37 DEF TdrEnd, schedVars, listVars
<1>38. ASSUME Timeout PROVE PendingMoves(p)
  BY <1>38, <1>21, <1>22, <1>23, <1>24, <1>25, <1>26, <1>27, <1>28, <1>29, <1>30, <1>31,
     <1>32, <1>33, <1>34, <1>35, <1>36, <1>37, Zenon DEF Timeout, Armed
<1> QED
  BY <1>2, <1>3, <1>20, <1>38 DEF Next, Interrupt

\* What a step does to the queues and to the assignment of the jobs: one is armed and
\* queued, one leaves its queue, or nothing.
Arms(e, j, s) ==
  /\ ent[j] = None /\ queue' = [queue EXCEPT ![e] = Append(@, j)]
  /\ ent' = [ent EXCEPT ![j] = e] /\ sched' = [sched EXCEPT ![j] = s]
  /\ rq_of' = [rq_of EXCEPT ![e] = s] /\ (queue[e] = <<>> \/ s = rq_of[e])

\* The queues, after a step.
QueueMoves ==
  \/ UNCHANGED <<queue, ent, sched, rq_of>>
  \/ /\ UNCHANGED <<ent, sched, rq_of>>
     /\ \E e \in Entities : queue[e] # <<>> /\ queue' = [queue EXCEPT ![e] = Tail(@)]
  \/ \E e \in Entities, j \in Jobs, s \in Scheds : Arms(e, j, s)

\* Every step changes the queues in this way.
LEMMA QueueStep ==
  ASSUME Types, ThreadInv, HoldInv, Next
  PROVE  QueueMoves
<1> USE SchedAssumption
<1>1. ASSUME UNCHANGED <<queue, ent, sched, rq_of>> PROVE QueueMoves
  BY <1>1 DEF QueueMoves
<1>2. ASSUME NEW e \in Entities, UNCHANGED <<ent, sched, rq_of>>, queue[e] # <<>>,
             queue' = [queue EXCEPT ![e] = Tail(@)]
      PROVE  QueueMoves
  BY <1>2 DEF QueueMoves
<1>3. ASSUME Interrupt PROVE QueueMoves
  BY <1>1, <1>3, InterruptFrame
<1>4. ASSUME Timeout PROVE QueueMoves
  BY <1>1, <1>4, HandlerFrame
<1>5. ASSUME NEW s \in Scheds, PopJob(s) PROVE QueueMoves
  <2>1. /\ sent[s] \in Entities /\ queue[sent[s]] # <<>>
    BY <1>5 DEF PopJob, ThreadInv, HoldInv, Holds, Types, SchedType
  <2>2. /\ UNCHANGED <<ent, sched, rq_of>> /\ queue' = [queue EXCEPT ![sent[s]] = Tail(@)]
    BY <1>5 DEF PopJob, pushVars, placeVars
  <2> QED
    BY <1>2, <2>1, <2>2
<1>6. ASSUME NEW e \in Entities, Submit(e) PROVE QueueMoves
  <2>1. PICK j \in Jobs \ Armed, D \in SUBSET Jobs, s \in NewRq(e) : PushJob(e, j, D, s)
    BY <1>6 DEF Submit, Armed
  <2>2. s \in Scheds /\ ent[j] = None
    BY <2>1, NewRqType DEF Armed
  <2>3. queue[e] = <<>> \/ s = rq_of[e]
    BY <2>1 DEF NewRq, MayMove
  <2>4. Arms(e, j, s)
    BY <2>1, <2>2, <2>3 DEF PushJob, JobArm, Arms
  <2> QED
    BY <2>1, <2>2, <2>4 DEF QueueMoves
<1>7. ASSUME NEW e \in Entities, KillJob(e) PROVE QueueMoves
  BY <1>2, <1>7 DEF KillJob, pushVars, placeVars
<1> USE DEF jobVars, pushVars, entityVars, placeVars
<1>8. ASSUME NEW e \in Entities, PushStopped(e) PROVE QueueMoves
  BY <1>1, <1>8 DEF PushStopped
<1>9. ASSUME NEW e \in Entities, AddEntity(e) PROVE QueueMoves
  BY <1>1, <1>9 DEF AddEntity
<1>10. ASSUME NEW e \in Entities, PushWake(e) PROVE QueueMoves
  BY <1>1, <1>10 DEF PushWake
<1>11. ASSUME NEW e \in Entities, Flush(e) PROVE QueueMoves
  BY <1>1, <1>11 DEF Flush
<1>12. ASSUME NEW e \in Entities, FlushSleep(e) PROVE QueueMoves
  BY <1>1, <1>12 DEF FlushSleep
<1>13. ASSUME NEW e \in Entities, NEW kill \in BOOLEAN, NEW next \in {"open", "fini"},
             FlushEnd(e, kill, next)
       PROVE  QueueMoves
  BY <1>1, <1>13 DEF FlushEnd
<1>14. ASSUME NEW e \in Entities, Fini(e) PROVE QueueMoves
  BY <1>1, <1>14 DEF Fini
<1>15. ASSUME NEW e \in Entities, ClearDependency(e) PROVE QueueMoves
  BY <1>1, <1>15 DEF ClearDependency
<1>16. ASSUME NEW e \in Entities, PutLast(e) PROVE QueueMoves
  BY <1>1, <1>16 DEF PutLast
<1>17. ASSUME NEW s \in Scheds, GetCleanupJob(s) PROVE QueueMoves
  BY <1>1, <1>17 DEF GetCleanupJob
<1>18. ASSUME NEW s \in Scheds, FreeJob(s) PROVE QueueMoves
  BY <1>1, <1>18 DEF FreeJob
<1>19. ASSUME NEW s \in Scheds, NoCleanupJob(s) PROVE QueueMoves
  BY <1>1, <1>19 DEF NoCleanupJob
<1>20. ASSUME NEW s \in Scheds, Park(s) PROVE QueueMoves
  BY <1>1, <1>20 DEF Park
<1>21. ASSUME NEW s \in Scheds, Unpark(s) PROVE QueueMoves
  BY <1>1, <1>21 DEF Unpark
<1>22. ASSUME NEW s \in Scheds, NEW e \in Range(entities[s]), SelectEntity(s, e)
       PROVE  QueueMoves
  BY <1>1, <1>22 DEF SelectEntity
<1>23. ASSUME NEW s \in Scheds, Sleep(s) PROVE QueueMoves
  BY <1>1, <1>23 DEF Sleep
<1>24. ASSUME NEW s \in Scheds, WakeUp(s) PROVE QueueMoves
  BY <1>1, <1>24 DEF WakeUp
<1>25. ASSUME NEW s \in Scheds, NEW d \in Jobs, PopNextDep(s, d) PROVE QueueMoves
  BY <1>1, <1>25 DEF PopNextDep
<1>26. ASSUME NEW s \in Scheds, NEW d \in Jobs, PopWaitDep(s, d) PROVE QueueMoves
  BY <1>1, <1>26 DEF PopWaitDep
<1>27. ASSUME NEW s \in Scheds, NEW r \in BOOLEAN, RunJob(s, r) PROVE QueueMoves
  BY <1>1, <1>27 DEF RunJob
<1>28. ASSUME NEW s \in Scheds, AddDoneCb(s) PROVE QueueMoves
  BY <1>1, <1>28 DEF AddDoneCb
<1>29. ASSUME NEW s \in Scheds, DoneAtOnce(s) PROVE QueueMoves
  BY <1>1, <1>29 DEF DoneAtOnce
<1> HIDE DEF QueueMoves
<1>30. ASSUME NEW e \in Entities, Client(e) PROVE QueueMoves
  BY <1>30, <1>6, <1>7, <1>8, <1>9, <1>10, <1>11, <1>12, <1>13, <1>14, <1>15, <1>16, Zenon DEF
     Client
<1>31. ASSUME NEW s \in Scheds, Thread(s) PROVE QueueMoves
  BY <1>31, <1>5, <1>17, <1>18, <1>19, <1>20, <1>21, <1>22, <1>23, <1>24, <1>25, <1>26, <1>27,
     <1>28, <1>29, ZenonT(60) DEF Thread
<1> QED
  BY <1>3, <1>4, <1>30, <1>31 DEF Next, Interrupt

\* The threads take jobs from the list and from the queues.
JobTaken(s, x) ==
  \/ x = sjob[s] /\ spc'[s] = spc[s]
  \/ x = sjob[s] /\ spc[s] = "run" /\ spc'[s] = "parent"
  \/ x \in Range(pending_list[s]) /\ spc'[s] = "free"
  \/ \E e \in Entities : /\ queue[e] # <<>> /\ x = Head(queue[e]) /\ e = sent[s] /\ rq_of[e] = s
                         /\ queue' = [queue EXCEPT ![e] = Tail(@)] /\ spc'[s] = "run"

\* Every step leaves a thread with a job that it had, or that it takes like this.
LEMMA JobTakenStep ==
  ASSUME Types, ThreadInv, HoldInv, PendingInv, Next, NEW p \in Scheds, sjob'[p] # None
  PROVE  JobTaken(p, sjob'[p])
<1> USE SchedAssumption
<1> DEFINE Goal == sjob'[p] # None => JobTaken(p, sjob'[p])
<1>0. /\ sjob \in [Scheds -> JobOrNone] /\ spc \in [Scheds -> ThreadPcs]
      /\ sent \in [Scheds -> Entities \cup {None}]
  BY DEF Types, SchedType
<1>1. ASSUME spc'[p] = spc[p], sjob'[p] = sjob[p] PROVE Goal
  BY <1>1 DEF JobTaken
<1>2. ASSUME NEW e \in Entities, Client(e) PROVE Goal
  BY <1>1, <1>2, ClientFrame
<1>3. ASSUME Interrupt PROVE Goal
  BY <1>1, <1>3, InterruptFrame
<1>4. ASSUME Timeout PROVE Goal
  BY <1>1, <1>4, HandlerFrame
<1>5. ASSUME NEW s \in Scheds, Thread(s), s # p PROVE Goal
  BY <1>1, <1>5, ThreadFrame
<1>6. ASSUME Thread(p), GetCleanupJob(p) PROVE Goal
  <2>1. pending_list[p] \in Seq(Jobs) /\ pending_list[p] # <<>> /\ Pending(p)
    BY <1>6 DEF GetCleanupJob, HasCleanupJob, Types, SchedType, PendingInv
  <2>2. Head(pending_list[p]) \in Range(pending_list[p])
    BY <2>1, RangeTail DEF Pending
  <2> QED
    BY <1>0, <1>6, <2>2 DEF GetCleanupJob, At, JobTaken
<1>7. ASSUME Thread(p), PopJob(p) PROVE Goal
  <2>1. /\ sent[p] \in Entities /\ queue[sent[p]] # <<>> /\ rq_of[sent[p]] = p
    BY <1>0, <1>7 DEF PopJob, ThreadInv, HoldInv, Holds
  <2>2. /\ queue' = [queue EXCEPT ![sent[p]] = Tail(@)] /\ spc'[p] = "run"
        /\ sjob'[p] = Head(queue[sent[p]])
    BY <1>0, <1>7 DEF PopJob, At
  <2> QED
    BY <2>1, <2>2 DEF JobTaken
<1>8. ASSUME Thread(p), sjob' = sjob \/ sjob'[p] = None, spc'[p] # spc[p],
             spc[p] \notin {"free", "run", "parent"}
      PROVE  Goal
  BY <1>8 DEF ThreadInv, JobTaken
<1> USE DEF ThreadInv, At
<1>9. ASSUME Thread(p), FreeJob(p) PROVE Goal
  BY <1>0, <1>9 DEF FreeJob, JobTaken
<1>10. ASSUME Thread(p), NoCleanupJob(p) PROVE Goal
  BY <1>0, <1>10 DEF NoCleanupJob, JobTaken
<1>11. ASSUME Thread(p), Park(p) PROVE Goal
  BY <1>0, <1>11 DEF Park, JobTaken
<1>12. ASSUME Thread(p), Unpark(p) PROVE Goal
  BY <1>0, <1>12 DEF Unpark, JobTaken
<1>13. ASSUME NEW e \in Range(entities[p]), Thread(p), SelectEntity(p, e) PROVE Goal
  BY <1>0, <1>13 DEF SelectEntity, JobTaken
<1>14. ASSUME Thread(p), Sleep(p) PROVE Goal
  BY <1>0, <1>14 DEF Sleep, JobTaken
<1>15. ASSUME Thread(p), WakeUp(p) PROVE Goal
  BY <1>0, <1>15 DEF WakeUp, JobTaken
<1>16. ASSUME NEW d \in Jobs, Thread(p), PopNextDep(p, d) PROVE Goal
  BY <1>0, <1>16 DEF PopNextDep, JobTaken, threadVars
<1>17. ASSUME NEW d \in Jobs, Thread(p), PopWaitDep(p, d) PROVE Goal
  BY <1>0, <1>17 DEF PopWaitDep, JobTaken
<1>18. ASSUME NEW r \in BOOLEAN, Thread(p), RunJob(p, r) PROVE Goal
  BY <1>0, <1>18 DEF RunJob, JobTaken
<1>19. ASSUME Thread(p), AddDoneCb(p) PROVE Goal
  BY <1>0, <1>19 DEF AddDoneCb, JobTaken
<1>20. ASSUME Thread(p), DoneAtOnce(p) PROVE Goal
  BY <1>0, <1>20 DEF DoneAtOnce, JobTaken
<1> HIDE DEF Goal, ThreadInv, At
<1>21. ASSUME Thread(p) PROVE Goal
  BY <1>21, <1>6, <1>7, <1>9, <1>10, <1>11, <1>12, <1>13, <1>14, <1>15, <1>16, <1>17, <1>18,
     <1>19, <1>20, ZenonT(60) DEF Thread
<1>22. Goal
  BY <1>2, <1>3, <1>4, <1>5, <1>21 DEF Next, Interrupt
<1> QED
  BY <1>22 DEF Goal

\* The bad job is the one at the head of a list when the timer fires.
LEMMA BadStep ==
  ASSUME Types, Next
  PROVE  \/ bad' \in {bad, None}
         \/ \E s \in Scheds : /\ pending_list[s] # <<>> /\ bad' = Head(pending_list[s])
                              /\ pending_list' = [pending_list EXCEPT ![s] = Tail(@)]
<1> DEFINE Goal ==
             \/ bad' \in {bad, None}
             \/ \E s \in Scheds : /\ pending_list[s] # <<>> /\ bad' = Head(pending_list[s])
                                  /\ pending_list' = [pending_list EXCEPT ![s] = Tail(@)]
<1>1. ASSUME bad' = bad PROVE Goal
  BY <1>1
<1>2. ASSUME NEW e \in Entities, Client(e) PROVE Goal
  BY <1>1, <1>2, ClientFrame DEF tdrVars
<1>3. ASSUME NEW s \in Scheds, Thread(s) PROVE Goal
  BY <1>1, <1>3, ThreadFrame DEF tdrVars
<1>4. ASSUME Interrupt PROVE Goal
  BY <1>1, <1>4, InterruptFrame DEF tdrVars
<1> USE DEF tdrVars
<1>5. ASSUME NEW s \in Scheds, TdrFire(s) PROVE Goal
  BY <1>5 DEF TdrFire
<1>6. ASSUME SoftRecover PROVE Goal
  BY <1>6 DEF SoftRecover
<1>7. ASSUME Recover PROVE Goal
  BY <1>7 DEF Recover
<1>8. ASSUME NEW s \in Scheds, ParkThread(s) PROVE Goal
  BY <1>8 DEF ParkThread
<1>9. ASSUME ReinsertBad PROVE Goal
  BY <1>9 DEF ReinsertBad
<1>10. ASSUME UnhookJob PROVE Goal
  BY <1>10 DEF UnhookJob
<1>11. ASSUME RemoveJob PROVE Goal
  BY <1>11 DEF RemoveJob
<1>12. ASSUME StopDone PROVE Goal
  BY <1>12 DEF StopDone
<1>13. ASSUME SkipReset PROVE Goal
  BY <1>13 DEF SkipReset
<1>14. ASSUME NEW r \in BOOLEAN, Reset(r) PROVE Goal
  BY <1>14 DEF Reset
<1>15. ASSUME NEW s \in Scheds, NoResubmit(s) PROVE Goal
  BY <1>15 DEF NoResubmit
<1>16. ASSUME NEW s \in Scheds, NEW F \in SUBSET Jobs, Resubmit(s, F) PROVE Goal
  BY <1>16 DEF Resubmit
<1>17. ASSUME StartJob PROVE Goal
  BY <1>17 DEF StartJob
<1>18. ASSUME StartDone PROVE Goal
  BY <1>18 DEF StartDone
<1>19. ASSUME StartFailed PROVE Goal
  BY <1>19 DEF StartFailed
<1>20. ASSUME UnparkThread PROVE Goal
  BY <1>20 DEF UnparkThread
<1>21. ASSUME TdrEnd PROVE Goal
  BY <1>21 DEF TdrEnd
<1> HIDE DEF Goal
<1>22. ASSUME Timeout PROVE Goal
  BY <1>22, <1>5, <1>6, <1>7, <1>8, <1>9, <1>10, <1>11, <1>12, <1>13, <1>14, <1>15, <1>16,
     <1>17, <1>18, <1>19, <1>20, <1>21, Zenon DEF Timeout, Armed
<1>23. Goal
  BY <1>2, <1>3, <1>4, <1>22 DEF Next, Interrupt
<1> QED
  BY <1>23 DEF Goal

\* A fresh job stays so until it leaves its queue.
Leaves(x) == \E e \in Entities : /\ queue[e] # <<>> /\ x = Head(queue[e])
                                 /\ queue' = [queue EXCEPT ![e] = Tail(@)]

\* No other step touches it.
LEMMA FreshStep ==
  ASSUME Types, ParkInv, ThreadInv, HoldInv, QueueInv, PendingInv, Next,
         NEW x \in Jobs, Fresh(x)
  PROVE  Fresh(x)' \/ Leaves(x)
<1>1. x # None
  BY NoneIsNoJob
<1>2. Unseen(x) /\ bad # x /\ \A s \in Scheds : sjob[s] # x /\ x \notin Range(pending_list[s])
  BY DEF Fresh
<1>3. ASSUME ~Unseen(x)' PROVE Leaves(x)
  <2>1. ~(/\ tpc = "jobs" /\ left < Len(pending_list[cur])
          /\ x = pending_list[cur][left + 1])
    <3>1. ASSUME tpc = "jobs", left < Len(pending_list[cur]) PROVE pending_list[cur][left + 1] # x
      <4>1. cur \in Scheds /\ left \in Nat
        BY <3>1 DEF ParkInv, Types, TdrType
      <4>2. pending_list[cur] \in Seq(Jobs)
        BY <4>1 DEF Types, SchedType
      <4>3. pending_list[cur][left + 1] \in Range(pending_list[cur])
        BY <3>1, <4>1, <4>2, InRange
      <4> QED
        BY <1>2, <4>1, <4>3
    <3> QED
      BY <3>1
  <2>2. \E e \in Entities : /\ epc[e] = "kill" /\ queue[e] # <<>> /\ x = Head(queue[e])
                            /\ queue' = [queue EXCEPT ![e] = Tail(@)]
    BY <1>2, <1>3, <2>1, UnseenStep
  <2> QED
    BY <2>2 DEF Leaves
<1>4. bad' # x
  <2>1. ASSUME NEW s \in Scheds, pending_list[s] # <<>> PROVE Head(pending_list[s]) # x
    <3>1. pending_list[s] \in Seq(Jobs) /\ Pending(s)
      BY DEF Types, SchedType, PendingInv
    <3>2. Head(pending_list[s]) \in Range(pending_list[s])
      BY <2>1, <3>1, RangeTail DEF Pending
    <3> QED
      BY <1>2, <3>2
  <2> QED
    BY <1>1, <1>2, <2>1, BadStep
<1>5. ASSUME NEW s \in Scheds, sjob'[s] = x PROVE Leaves(x)
  <2>1. JobTaken(s, x)
    BY <1>1, <1>5, JobTakenStep
  <2> QED
    BY <1>2, <2>1 DEF JobTaken, Leaves
<1>6. ASSUME NEW s \in Scheds, x \in Range(pending_list'[s]) PROVE Leaves(x)
  <2>1. Joins(s, x)
    BY <1>2, <1>6, PendingStep DEF PendingMoves
  <2> QED
    BY <1>2, <2>1 DEF Joins, Leaves
<1> QED
  BY <1>3, <1>4, <1>5, <1>6 DEF Fresh

\* A job leaves one queue only, and has been armed.
LEMMA HeadQueued ==
  ASSUME Types, QueueInv, NEW e \in Entities, queue[e] # <<>>
  PROVE  /\ Head(queue[e]) \in Range(queue[e]) /\ Head(queue[e]) \in Jobs
         /\ ent[Head(queue[e])] = e /\ sched[Head(queue[e])] = rq_of[e] /\ Fresh(Head(queue[e]))
<1>1. queue[e] \in Seq(Jobs) /\ Queued(e)
  BY DEF Types, EntityType, QueueInv
<1>2. Head(queue[e]) \in Range(queue[e]) /\ Head(queue[e]) \in Jobs
  BY <1>1, RangeTail, TailFacts DEF Queued
<1> QED
  BY <1>1, <1>2 DEF Queued

\* Where a job is said to be changes once, when it is armed.
LEMMA ArmedStays ==
  ASSUME Types, ThreadInv, HoldInv, Next, NEW x \in Jobs, ent[x] # None
  PROVE  ent'[x] = ent[x] /\ sched'[x] = sched[x]
<1>1. ent \in [Jobs -> Entities \cup {None}] /\ sched \in [Jobs -> Scheds \cup {None}]
  BY DEF Types, JobType
<1> QED
  BY <1>1, QueueStep DEF QueueMoves, Arms

\* What belongs to an armed job alone does not belong to one that is not.
LEMMA JobsInvStep ==
  ASSUME Types, Types', ParkInv, ThreadInv, HoldInv, JobsInv, QueueInv, PendingInv, Next
  PROVE  JobsInv'
<1> USE SchedAssumption
<1>0. ent \in [Jobs -> Entities \cup {None}] /\ sched \in [Jobs -> Scheds \cup {None}]
  BY DEF Types, JobType
<1>1. ASSUME NEW j \in Jobs PROVE ent'[j] = None <=> sched'[j] = None
  BY <1>0, QueueStep DEF QueueMoves, Arms, JobsInv
<1>2. ASSUME NEW j \in Jobs, ent'[j] = None PROVE Fresh(j)'
  <2>1. ent[j] = None
    BY <1>0, <1>2, ArmedStays
  <2>2. ~Leaves(j)
    BY <2>1, HeadQueued DEF Leaves
  <2> QED
    BY <2>1, <2>2, FreshStep DEF JobsInv
<1>3. ASSUME bad' # None PROVE ent'[bad'] # None
  <2>1. bad' \in Jobs
    BY <1>3 DEF Types, TdrType, JobOrNone
  <2>2. ent[bad'] # None
    <3>1. CASE bad' = bad
      BY <1>3, <3>1 DEF JobsInv
    <3>2. CASE \E s \in Scheds : pending_list[s] # <<>> /\ bad' = Head(pending_list[s])
      <4>1. PICK s \in Scheds : pending_list[s] # <<>> /\ bad' = Head(pending_list[s])
        BY <3>2
      <4>2. pending_list[s] \in Seq(Jobs) /\ Pending(s)
        BY DEF Types, SchedType, PendingInv
      <4>3. bad' \in Range(pending_list[s])
        BY <4>1, <4>2, RangeTail DEF Pending
      <4> QED
        BY <2>1, <4>3 DEF JobsInv, Fresh
    <3> QED
      BY <1>3, <3>1, <3>2, BadStep
  <2> QED
    BY <2>1, <2>2, ArmedStays
<1> QED
  BY <1>1, <1>2, <1>3 DEF JobsInv

\* The jobs in the queue of an entity belong to its scheduler, and are fresh.
LEMMA QueueInvStep ==
  ASSUME Types, Types', ParkInv, ThreadInv, HoldInv, JobsInv, QueueInv, PendingInv, Next
  PROVE  QueueInv'
<1> USE SchedAssumption
<1> SUFFICES ASSUME NEW e \in Entities PROVE Queued(e)'
  BY DEF QueueInv
<1>0. /\ ent \in [Jobs -> Entities \cup {None}] /\ sched \in [Jobs -> Scheds \cup {None}]
      /\ queue \in [Entities -> Seq(Jobs)] /\ queue[e] \in Seq(Jobs) /\ Queued(e)
      /\ rq_of \in [Entities -> Scheds]
  BY DEF Types, JobType, EntityType, QueueInv
<1>1. ASSUME NEW x \in Range(queue[e]), x \in Range(queue'[e])
      PROVE  ent'[x] = e /\ sched'[x] = rq_of'[e] /\ Fresh(x)'
  <2>1. x \in Jobs /\ ent[x] = e /\ sched[x] = rq_of[e] /\ Fresh(x)
    BY <1>0, RangeType DEF Queued
  <2>2. ent'[x] = e /\ sched'[x] = sched[x]
    BY <2>1, ArmedStays
  <2>3. rq_of'[e] = rq_of[e]
    <3>1. queue[e] # <<>>
      BY <1>0, InRange
    <3> QED
      BY <1>0, <3>1, QueueStep DEF QueueMoves, Arms
  <2>4. ~Leaves(x)
    <3>1. ASSUME NEW y \in Entities, queue[y] # <<>>, x = Head(queue[y]),
                 queue' = [queue EXCEPT ![y] = Tail(@)]
          PROVE  FALSE
      <4>1. y = e
        BY <2>1, <3>1, HeadQueued
      <4>2. queue'[e] = Tail(queue[e])
        BY <1>0, <3>1, <4>1
      <4> QED
        BY <1>0, <1>1, <3>1, <4>1, <4>2, RangeTail DEF Queued
    <3> QED
      BY <3>1 DEF Leaves
  <2> QED
    BY <2>1, <2>2, <2>3, <2>4, FreshStep
<1>2. CASE queue'[e] = queue[e]
  BY <1>0, <1>1, <1>2 DEF Queued
<1>3. CASE queue[e] # <<>> /\ queue'[e] = Tail(queue[e])
  <2>1. /\ \A i, k \in 1 .. Len(queue'[e]) : queue'[e][i] = queue'[e][k] => i = k
        /\ \A x \in Range(queue'[e]) : x \in Range(queue[e])
    BY <1>0, <1>3, RangeTail, SMTT(60) DEF Queued
  <2> QED
    BY <1>1, <2>1 DEF Queued
<1>4. CASE \E j \in Jobs, s \in Scheds : Arms(e, j, s)
  <2>1. PICK j \in Jobs, s \in Scheds : Arms(e, j, s)
    BY <1>4
  <2>2. /\ ent[j] = None /\ queue'[e] = Append(queue[e], j)
        /\ ent'[j] = e /\ sched'[j] = s /\ rq_of'[e] = s
    BY <1>0, <2>1 DEF Arms
  <2>3. Fresh(j)'
    <3>1. ~Leaves(j)
      BY <2>2, HeadQueued DEF Leaves
    <3> QED
      BY <2>2, <3>1, FreshStep DEF JobsInv
  <2>4. j \notin Range(queue[e])
    BY <1>0, <2>2 DEF Queued
  <2>5. \A i, k \in 1 .. Len(queue'[e]) : queue'[e][i] = queue'[e][k] => i = k
    BY <1>0, <2>2, <2>4, AppendNew DEF Queued
  <2>6. Range(queue'[e]) = Range(queue[e]) \cup {j}
    BY <1>0, <2>2, RangeAppend
  <2> QED
    BY <1>1, <2>2, <2>3, <2>5, <2>6 DEF Queued
<1>5. ASSUME NEW y \in Entities, NEW j \in Jobs, NEW s \in Scheds, Arms(y, j, s), y # e
      PROVE  queue'[e] = queue[e]
  BY <1>0, <1>5 DEF Arms
<1>6. ASSUME NEW y \in Entities, queue[y] # <<>>, queue' = [queue EXCEPT ![y] = Tail(@)]
      PROVE  queue'[e] = queue[e] \/ (queue[e] # <<>> /\ queue'[e] = Tail(queue[e]))
  BY <1>0, <1>6
<1> HIDE DEF Queued
<1> QED
  BY <1>2, <1>3, <1>4, <1>5, <1>6, QueueStep DEF QueueMoves

\* The handler has the bad job off its list from the moment the timer fires until the
\* scheduler of the job is stopped.
LEMMA BadOutStep ==
  ASSUME Types, ParkInv, JobsInv, ThreadInv, HoldInv, Next, BadOut'
  PROVE  \/ BadOut /\ bad' = bad
         \/ \E s \in Scheds : /\ pending_list[s] # <<>> /\ bad' = Head(pending_list[s])
                              /\ pending_list' = [pending_list EXCEPT ![s] = Tail(@)]
<1> DEFINE Goal == BadOut' =>
             \/ BadOut /\ bad' = bad
             \/ \E s \in Scheds : /\ pending_list[s] # <<>> /\ bad' = Head(pending_list[s])
                                  /\ pending_list' = [pending_list EXCEPT ![s] = Tail(@)]
<1>0. tpc # "idle" => sched'[bad] = sched[bad] /\ sched[bad] \in Scheds
  <2>1. ASSUME tpc # "idle" PROVE bad \in Jobs /\ ent[bad] # None
    BY <2>1 DEF ParkInv, JobsInv, Types, TdrType, JobOrNone
  <2> QED
    BY <2>1, ArmedStays DEF JobsInv, Types, JobType
<1>1. ASSUME UNCHANGED tdrVars PROVE Goal
  BY <1>0, <1>1 DEF BadOut, tdrVars
<1>2. ASSUME NEW e \in Entities, Client(e) PROVE Goal
  BY <1>1, <1>2, ClientFrame DEF tdrVars
<1>3. ASSUME NEW s \in Scheds, Thread(s) PROVE Goal
  BY <1>1, <1>3, ThreadFrame DEF tdrVars
<1>4. ASSUME Interrupt PROVE Goal
  BY <1>1, <1>4, InterruptFrame DEF tdrVars
<1> USE DEF tdrVars, BadOut
<1>5. ASSUME NEW s \in Scheds, TdrFire(s) PROVE Goal
  BY <1>0, <1>5 DEF TdrFire
<1>6. ASSUME SoftRecover PROVE Goal
  BY <1>0, <1>6 DEF SoftRecover
<1>7. ASSUME Recover PROVE Goal
  BY <1>0, <1>7 DEF Recover
<1>8. ASSUME NEW s \in Scheds, ParkThread(s) PROVE Goal
  BY <1>0, <1>8 DEF ParkThread
<1>9. ASSUME ReinsertBad PROVE Goal
  BY <1>0, <1>9 DEF ReinsertBad, ParkInv
<1>10. ASSUME UnhookJob PROVE Goal
  BY <1>0, <1>10 DEF UnhookJob
<1>11. ASSUME RemoveJob PROVE Goal
  BY <1>0, <1>11 DEF RemoveJob
<1>12. ASSUME StopDone PROVE Goal
  BY <1>0, <1>12 DEF StopDone, ParkInv
<1>13. ASSUME SkipReset PROVE Goal
  BY <1>0, <1>13 DEF SkipReset
<1>14. ASSUME NEW r \in BOOLEAN, Reset(r) PROVE Goal
  BY <1>0, <1>14 DEF Reset
<1>15. ASSUME NEW s \in Scheds, NoResubmit(s) PROVE Goal
  BY <1>0, <1>15 DEF NoResubmit
<1>16. ASSUME NEW s \in Scheds, NEW F \in SUBSET Jobs, Resubmit(s, F) PROVE Goal
  BY <1>0, <1>16 DEF Resubmit
<1>17. ASSUME StartJob PROVE Goal
  BY <1>0, <1>17 DEF StartJob
<1>18. ASSUME StartDone PROVE Goal
  BY <1>0, <1>18 DEF StartDone
<1>19. ASSUME StartFailed PROVE Goal
  BY <1>0, <1>19 DEF StartFailed
<1>20. ASSUME UnparkThread PROVE Goal
  BY <1>0, <1>20 DEF UnparkThread
<1>21. ASSUME TdrEnd PROVE Goal
  BY <1>0, <1>21 DEF TdrEnd
<1> HIDE DEF Goal
<1>22. ASSUME Timeout PROVE Goal
  BY <1>22, <1>5, <1>6, <1>7, <1>8, <1>9, <1>10, <1>11, <1>12, <1>13, <1>14, <1>15, <1>16,
     <1>17, <1>18, <1>19, <1>20, <1>21, Zenon DEF Timeout, Armed
<1>23. Goal
  BY <1>2, <1>3, <1>4, <1>22 DEF Next, Interrupt
<1> QED
  BY <1>23 DEF Goal

\* A job is on the list of its own scheduler, once.
LEMMA PendingInvStep ==
  ASSUME Types, Types', ParkInv, ThreadInv, HoldInv, JobsInv, QueueInv, PendingInv, Next
  PROVE  PendingInv'
<1> USE SchedAssumption
<1> SUFFICES ASSUME NEW s \in Scheds PROVE Pending(s)'
  BY DEF PendingInv
<1>0. /\ pending_list \in [Scheds -> Seq(Jobs)] /\ pending_list[s] \in Seq(Jobs)
      /\ pending_list'[s] \in Seq(Jobs) /\ Pending(s) /\ PendingMoves(s)
  BY PendingStep DEF Types, SchedType, PendingInv
<1>1. ASSUME NEW x \in Range(pending_list'[s]) PROVE sched'[x] = s
  <2>0. x \in Jobs
    BY <1>0, RangeType
  <2>1. sched[x] = s /\ ent[x] # None
    <3>1. CASE x \in Range(pending_list[s])
      BY <1>0, <2>0, <3>1 DEF Pending, JobsInv, Fresh
    <3>2. CASE x = bad /\ sched[bad] = s
      BY <2>0, <3>2, NoneIsNoJob DEF JobsInv
    <3>3. CASE \E e \in Entities : queue[e] # <<>> /\ x = Head(queue[e]) /\ rq_of[e] = s
      BY <3>3, HeadQueued
    <3> QED
      BY <1>0, <3>1, <3>2, <3>3 DEF PendingMoves, Joins
  <2> QED
    BY <2>0, <2>1, ArmedStays
<1>2. ASSUME BadOut', bad' \in Range(pending_list'[s]) PROVE FALSE
  <2>1. CASE BadOut /\ bad' = bad
    <3>1. bad \notin Range(pending_list[s])
      BY <1>0, <2>1 DEF Pending
    <3>2. Joins(s, bad)
      BY <1>0, <1>2, <2>1, <3>1 DEF PendingMoves
    <3>3. PICK e \in Entities : queue[e] # <<>> /\ bad = Head(queue[e])
      BY <1>2, <3>2 DEF Joins
    <3> QED
      BY <3>3, HeadQueued DEF Fresh
  <2>2. CASE \E t \in Scheds : /\ pending_list[t] # <<>> /\ bad' = Head(pending_list[t])
                               /\ pending_list' = [pending_list EXCEPT ![t] = Tail(@)]
    <3>1. PICK t \in Scheds : /\ pending_list[t] # <<>> /\ bad' = Head(pending_list[t])
                              /\ pending_list' = [pending_list EXCEPT ![t] = Tail(@)]
      BY <2>2
    <3>2. pending_list[t] \in Seq(Jobs) /\ Pending(t)
      BY <1>0 DEF PendingInv
    <3>3. /\ bad' \in Range(pending_list[t])
          /\ \A x : x \in Range(Tail(pending_list[t])) <=> x \in Range(pending_list[t]) /\ x # bad'
      BY <3>1, <3>2, RangeTail DEF Pending
    <3>4. s # t
      BY <1>0, <1>2, <3>1, <3>3
    <3>5. bad' \in Range(pending_list[s])
      BY <1>0, <1>2, <3>1, <3>4
    <3> QED
      BY <1>0, <3>2, <3>3, <3>4, <3>5 DEF Pending
  <2> QED
    BY <1>2, <2>1, <2>2, BadOutStep
<1> QED
  BY <1>0, <1>1, <1>2 DEF Pending, PendingMoves

\* The job that a thread submits is one of its scheduler, and nothing of it has been
\* seen yet.
LEMMA RunInvStep ==
  ASSUME Types, Types', ParkInv, ThreadInv, ThreadInv', LinkInv, HoldInv, JobsInv, QueueInv,
         PendingInv, RunInv, Next
  PROVE  RunInv'
<1> USE SchedAssumption
<1>a. \A s \in Scheds : Running(s)' => sjob'[s] \in Jobs
  BY DEF Running, ThreadInv, Types, SchedType, JobOrNone
<1> SUFFICES ASSUME NEW s \in Scheds, NEW x \in Jobs, Running(s)', x = sjob'[s]
             PROVE  sched'[x] = s /\ Unseen(x)'
  BY <1>a DEF RunInv, Unseen
<1>0. /\ spc'[s] \in {"run", "parent"} /\ x # None /\ x \in Jobs
      /\ sjob \in [Scheds -> JobOrNone] /\ spc \in [Scheds -> ThreadPcs]
  BY DEF Running, ThreadInv, Types, SchedType, JobOrNone
<1>1. JobTaken(s, x)
  BY <1>0, JobTakenStep
<1>2. CASE Running(s) /\ x = sjob[s]
  <2>1. sched[x] = s /\ Unseen(x)
    BY <1>2 DEF RunInv
  <2>2. ent[x] # None
    BY <1>0, <1>2 DEF JobsInv, Fresh
  <2>3. ~ \E t \in Scheds : sjob[t] = x /\ spc[t] = "parent" /\ spc'[t] = "top"
    <3>1. ASSUME NEW t \in Scheds, sjob[t] = x, spc[t] = "parent" PROVE t = s
      BY <2>1, <3>1 DEF RunInv, Running
    <3> QED
      BY <1>0, <3>1
  <2>4. ~ \E e \in Entities : queue[e] # <<>> /\ x = Head(queue[e])
    BY <1>2, HeadQueued DEF Fresh
  <2>5. ~(/\ tpc = "jobs" /\ left < Len(pending_list[cur])
          /\ x = pending_list[cur][left + 1])
    <3>1. ASSUME tpc = "jobs", left < Len(pending_list[cur]), x = pending_list[cur][left + 1]
          PROVE  FALSE
      <4>1. cur \in Scheds /\ left \in Nat /\ spc[cur] = "parked"
        BY <3>1 DEF ParkInv, ToPark, Types, TdrType
      <4>2. pending_list[cur] \in Seq(Jobs) /\ Pending(cur)
        BY <4>1 DEF Types, SchedType, PendingInv
      <4>3. x \in Range(pending_list[cur])
        BY <3>1, <4>1, <4>2, InRange
      <4>4. cur = s
        BY <2>1, <4>2, <4>3 DEF Pending
      <4> QED
        BY <1>2, <4>1, <4>4 DEF Running
    <3> QED
      BY <3>1
  <2>6. Unseen(x)'
    BY <1>0, <2>1, <2>3, <2>4, <2>5, UnseenStep
  <2> QED
    BY <1>0, <2>1, <2>2, <2>6, ArmedStays
<1>3. CASE \E e \in Entities : /\ queue[e] # <<>> /\ x = Head(queue[e]) /\ e = sent[s]
                               /\ rq_of[e] = s
  <2>1. PICK e \in Entities : queue[e] # <<>> /\ x = Head(queue[e]) /\ e = sent[s] /\ rq_of[e] = s
    BY <1>3
  <2>2. ent[x] = e /\ sched[x] = s /\ Fresh(x)
    BY <2>1, HeadQueued
  <2>3. epc[e] # "kill"
    BY <2>1 DEF HoldInv, Holds
  <2>4. ~ \E t \in Scheds : sjob[t] = x
    BY <2>2 DEF Fresh
  <2>5. ~ \E y \in Entities : epc[y] = "kill" /\ queue[y] # <<>> /\ x = Head(queue[y])
    BY <2>2, <2>3, HeadQueued
  <2>6. ~(/\ tpc = "jobs" /\ left < Len(pending_list[cur])
          /\ x = pending_list[cur][left + 1])
    <3>1. ASSUME tpc = "jobs", left < Len(pending_list[cur]), x = pending_list[cur][left + 1]
          PROVE  FALSE
      <4>1. cur \in Scheds /\ left \in Nat
        BY <3>1 DEF ParkInv, Types, TdrType
      <4>2. pending_list[cur] \in Seq(Jobs)
        BY <4>1 DEF Types, SchedType
      <4>3. x \in Range(pending_list[cur])
        BY <3>1, <4>1, <4>2, InRange
      <4> QED
        BY <2>2, <4>1, <4>3 DEF Fresh
    <3> QED
      BY <3>1
  <2>7. Unseen(x)'
    <3>1. Unseen(x)
      BY <2>2 DEF Fresh
    <3> QED
      BY <1>0, <3>1, <2>4, <2>5, <2>6, UnseenStep
  <2> QED
    BY <1>0, <2>2, <2>7, ArmedStays
<1> QED
  BY <1>0, <1>1, <1>2, <1>3 DEF JobTaken, Running

----------------------------------------------------------------------------
(* The handler leaves no callback behind                                   *)

\* A callback is linked, and a job counted for good, by the thread that has submitted the
\* job or by drm_sched_start().
Marked(x) == (cb[x] \/ ~cb'[x]) /\ (x \in abandoned \/ x \notin abandoned')

\* drm_sched_start() is at x,
Restarted(x) ==
  /\ tpc = "jobs" /\ left < Len(pending_list[cur]) /\ x = pending_list[cur][left + 1]
  /\ tpc' = "jobs" /\ left' = left + 1 /\ (cb' = cb \/ abandoned' = abandoned)

\* and the ways in which x can get a mark.
MarksStep(x) ==
  \/ Marked(x)
  \/ \E s \in Scheds : sjob[s] = x /\ spc[s] = "parent" /\ abandoned' = abandoned
  \/ Restarted(x)

\* There are no others.
LEMMA Marks ==
  ASSUME Types, Next, NEW x \in Jobs
  PROVE  MarksStep(x)
<1> USE SchedAssumption DEF pushVars, hwVars, jobVars
<1>0. cb \in [Jobs -> BOOLEAN] /\ sjob \in [Scheds -> JobOrNone]
  BY DEF Types, JobType, SchedType
<1>1. ASSUME UNCHANGED <<cb, abandoned>> PROVE MarksStep(x)
  BY <1>1 DEF MarksStep, Marked
<1>2. ASSUME NEW e \in Entities, Client(e) PROVE MarksStep(x)
  BY <1>1, <1>2, ClientFrame
<1>3. ASSUME NEW s \in Scheds, GetCleanupJob(s) PROVE MarksStep(x)
  BY <1>1, <1>3 DEF GetCleanupJob
<1>4. ASSUME NEW s \in Scheds, FreeJob(s) PROVE MarksStep(x)
  BY <1>1, <1>4 DEF FreeJob
<1>5. ASSUME NEW s \in Scheds, NoCleanupJob(s) PROVE MarksStep(x)
  BY <1>1, <1>5 DEF NoCleanupJob
<1>6. ASSUME NEW s \in Scheds, Park(s) PROVE MarksStep(x)
  BY <1>1, <1>6 DEF Park
<1>7. ASSUME NEW s \in Scheds, Unpark(s) PROVE MarksStep(x)
  BY <1>1, <1>7 DEF Unpark
<1>8. ASSUME NEW s \in Scheds, NEW e \in Range(entities[s]), SelectEntity(s, e)
      PROVE  MarksStep(x)
  BY <1>1, <1>8 DEF SelectEntity
<1>9. ASSUME NEW s \in Scheds, Sleep(s) PROVE MarksStep(x)
  BY <1>1, <1>9 DEF Sleep
<1>10. ASSUME NEW s \in Scheds, WakeUp(s) PROVE MarksStep(x)
  BY <1>1, <1>10 DEF WakeUp
<1>11. ASSUME NEW s \in Scheds, NEW d \in Jobs, PopNextDep(s, d) PROVE MarksStep(x)
  BY <1>1, <1>11 DEF PopNextDep
<1>12. ASSUME NEW s \in Scheds, NEW d \in Jobs, PopWaitDep(s, d) PROVE MarksStep(x)
  BY <1>1, <1>12 DEF PopWaitDep
<1>13. ASSUME NEW s \in Scheds, PopJob(s) PROVE MarksStep(x)
  BY <1>1, <1>13 DEF PopJob
<1>14. ASSUME NEW s \in Scheds, NEW r \in BOOLEAN, RunJob(s, r) PROVE MarksStep(x)
  BY <1>1, <1>14 DEF RunJob
<1>15. ASSUME NEW s \in Scheds, AddDoneCb(s) PROVE MarksStep(x)
  BY <1>0, <1>15 DEF AddDoneCb, tdrVars, threadVars, MarksStep, Marked
<1>16. ASSUME NEW s \in Scheds, DoneAtOnce(s) PROVE MarksStep(x)
  BY <1>1, <1>16 DEF DoneAtOnce
<1>17. ASSUME NEW s \in Scheds, NEW j \in Jobs, HwSilent(s, j) PROVE MarksStep(x)
  BY <1>1, <1>17 DEF HwSilent
<1>18. ASSUME NEW s \in Scheds, NEW j \in Jobs, HwDone(s, j) PROVE MarksStep(x)
  BY <1>0, <1>18 DEF HwDone, tdrVars, threadVars, MarksStep, Marked
<1>19. ASSUME NEW s \in Scheds, DoneWake(s) PROVE MarksStep(x)
  BY <1>1, <1>19 DEF DoneWake
<1>20. ASSUME NEW s \in Scheds, TdrFire(s) PROVE MarksStep(x)
  BY <1>1, <1>20 DEF TdrFire
<1>21. ASSUME SoftRecover PROVE MarksStep(x)
  BY <1>1, <1>21 DEF SoftRecover
<1>22. ASSUME Recover PROVE MarksStep(x)
  BY <1>1, <1>22 DEF Recover
<1>23. ASSUME NEW s \in Scheds, ParkThread(s) PROVE MarksStep(x)
  BY <1>1, <1>23 DEF ParkThread
<1>24. ASSUME ReinsertBad PROVE MarksStep(x)
  BY <1>1, <1>24 DEF ReinsertBad
<1>25. ASSUME UnhookJob PROVE MarksStep(x)
  BY <1>0, <1>25 DEF UnhookJob, tdrVars, threadVars, MarksStep, Marked
<1>26. ASSUME RemoveJob PROVE MarksStep(x)
  BY <1>1, <1>26 DEF RemoveJob
<1>27. ASSUME StopDone PROVE MarksStep(x)
  BY <1>1, <1>27 DEF StopDone
<1>28. ASSUME SkipReset PROVE MarksStep(x)
  BY <1>1, <1>28 DEF SkipReset
<1>29. ASSUME NEW r \in BOOLEAN, Reset(r) PROVE MarksStep(x)
  BY <1>1, <1>29 DEF Reset
<1>30. ASSUME NEW s \in Scheds, NoResubmit(s) PROVE MarksStep(x)
  BY <1>1, <1>30 DEF NoResubmit
<1>31. ASSUME NEW s \in Scheds, NEW F \in SUBSET Jobs, Resubmit(s, F) PROVE MarksStep(x)
  BY <1>1, <1>31 DEF Resubmit
<1>32. ASSUME StartJob PROVE MarksStep(x)
  BY <1>0, <1>32 DEF StartJob, tdrVars, threadVars, MarksStep, Marked, Restarted
<1>33. ASSUME StartDone PROVE MarksStep(x)
  BY <1>1, <1>33 DEF StartDone
<1>34. ASSUME StartFailed PROVE MarksStep(x)
  BY <1>0, <1>34 DEF StartFailed, tdrVars, threadVars, MarksStep, Marked, Restarted
<1>35. ASSUME UnparkThread PROVE MarksStep(x)
  BY <1>1, <1>35 DEF UnparkThread
<1>36. ASSUME TdrEnd PROVE MarksStep(x)
  BY <1>1, <1>36 DEF TdrEnd
<1>37. ASSUME NEW j \in Jobs, KillWork(j) PROVE MarksStep(x)
  BY <1>1, <1>37 DEF KillWork
<1> HIDE DEF MarksStep
<1>38. ASSUME NEW s \in Scheds, Thread(s) PROVE MarksStep(x)
  BY <1>38, <1>3, <1>4, <1>5, <1>6, <1>7, <1>8, <1>9, <1>10, <1>11, <1>12, <1>13, <1>14,
     <1>15, <1>16, ZenonT(60) DEF Thread
<1>39. ASSUME NEW s \in Scheds, Hardware(s) PROVE MarksStep(x)
  BY <1>39, <1>17, <1>18, Zenon DEF Hardware
<1>40. ASSUME Timeout PROVE MarksStep(x)
  BY <1>40, <1>20, <1>21, <1>22, <1>23, <1>24, <1>25, <1>26, <1>27, <1>28, <1>29, <1>30,
     <1>31, <1>32, <1>33, <1>34, <1>35, <1>36, Zenon DEF Timeout, Armed
<1> QED
  BY <1>2, <1>38, <1>39, <1>40, <1>19, <1>37 DEF Next

\* A thread that is parked leaves its list alone.
LEMMA ParkedList ==
  ASSUME Types, NEW s \in Scheds, park[s], spc[s] = "parked", Next, ~Timeout
  PROVE  pending_list'[s] = pending_list[s] /\ UNCHANGED tdrVars
<1>1. ASSUME NEW e \in Entities, Client(e)
      PROVE  pending_list'[s] = pending_list[s] /\ UNCHANGED tdrVars
  BY <1>1, ClientFrame
<1>2. ASSUME NEW t \in Scheds, Thread(t)
      PROVE  pending_list'[s] = pending_list[s] /\ UNCHANGED tdrVars
  BY <1>2, ThreadFrame
<1>3. ASSUME Interrupt PROVE pending_list'[s] = pending_list[s] /\ UNCHANGED tdrVars
  BY <1>3, InterruptFrame
<1> QED
  BY <1>1, <1>2, <1>3 DEF Next, Interrupt

\* and nobody but drm_sched_start() marks its jobs.
LEMMA ParkedClean ==
  ASSUME Types, ThreadInv, PendingInv, RunInv, Next, NEW s \in Scheds, spc[s] = "parked",
         NEW x \in Range(pending_list[s]), Clean(x)
  PROVE  Clean(x)' \/ Restarted(x)
<1>1. x \in Jobs /\ sched[x] = s
  BY RangeType DEF Types, SchedType, PendingInv, Pending
<1>2. ASSUME NEW t \in Scheds, sjob[t] = x, spc[t] = "parent" PROVE FALSE
  BY <1>1, <1>2 DEF RunInv, Running
<1> QED
  BY <1>1, <1>2, Marks DEF MarksStep, Marked, Clean

\* Which threads are parked while the handler relies on it.
LEMMA StoppedParked ==
  ASSUME Types, ParkInv, NEW s \in Scheds,
         Stopped(s) \/ (tpc \in {"unhook", "jobs"} /\ s = cur)
  PROVE  spc[s] = "parked" /\ park[s]
BY DEF ParkInv, ToPark, Stopped

\* drm_sched_stop() deletes the job it is at from the list.
LEMMA RemoveJobList ==
  ASSUME Types, PendingInv, RemoveJob, cur \in Scheds, left \in 1 .. Len(pending_list[cur])
  PROVE  LET q == pending_list[cur]
             r == Without(q, q[left])
         IN /\ pending_list'[cur] = r /\ Len(r) = Len(q) - 1
            /\ \A i \in 1 .. Len(q) - 1 : r[i] = IF i < left THEN q[i] ELSE q[i + 1]
<1> DEFINE q == pending_list[cur]
           r == Without(q, q[left])
<1>1. q \in Seq(Jobs) /\ \A i, l \in 1 .. Len(q) : q[i] = q[l] => i = l
  BY DEF PendingInv, Pending, Types, SchedType
<1>2. pending_list'[cur] = r
  BY DEF RemoveJob, Types, SchedType
<1> HIDE DEF q
<1>3. Len(r) = Len(q) - 1 /\ \A i \in 1 .. Len(q) - 1 : r[i] = IF i < left THEN q[i] ELSE q[i + 1]
  <2>1. left \in 1 .. Len(q)
    BY DEF q
  <2>2. Len(r) = Len(q) - 1
    BY <1>1, <2>1, WithoutAt
  <2>3. \A i \in 1 .. Len(q) - 1 : r[i] = IF i < left THEN q[i] ELSE q[i + 1]
    BY <1>1, <2>1, WithoutAt
  <2> QED
    BY <2>2, <2>3
<1> QED
  BY <1>2, <1>3 DEF q

\* The callbacks that drm_sched_stop() takes off come back, one by one, in
\* drm_sched_start(), and in between there are none.
LEMMA CleanInvStep ==
  ASSUME Types, Types', ParkInv, ThreadInv, PendingInv, RunInv, CleanInv, Next
  PROVE  CleanInv'
<1> USE SchedAssumption
<1>0. /\ pending_list \in [Scheds -> Seq(Jobs)] /\ left \in Nat /\ todo \subseteq Scheds
      /\ \A s \in Scheds : pending_list[s] \in Seq(Jobs)
      /\ tpc \in {"parking", "unhook", "jobs"} => cur \in Scheds /\ cur \notin todo
      /\ cb \in [Jobs -> BOOLEAN]
  BY DEF Types, JobType, SchedType, TdrType, ParkInv
<1> DEFINE Lists ==
             /\ \A s \in Scheds : Stopped(s) =>
                  \A i \in 1 .. Len(pending_list[s]) : Clean(pending_list[s][i])
             /\ tpc \in {"unhook", "jobs"} =>
                  /\ left <= Len(pending_list[cur])
                  /\ \A i \in left + 1 .. Len(pending_list[cur]) : Clean(pending_list[cur][i])
<1>1. ASSUME NEW x \in Jobs, cb'[x], x \in abandoned' PROVE FALSE
  <2>1. ~(cb[x] /\ x \in abandoned)
    BY DEF CleanInv
  <2>2. ASSUME NEW s \in Scheds, sjob[s] = x, spc[s] = "parent" PROVE x \notin abandoned
    BY <2>2 DEF RunInv, Running, Unseen
  <2>3. ASSUME Restarted(x) PROVE Clean(x)
    BY <1>0, <2>3 DEF CleanInv, Restarted
  <2> QED
    BY <1>1, <2>1, <2>2, <2>3, Marks DEF MarksStep, Marked, Restarted, Clean
<1>2. ASSUME ~Timeout PROVE Lists'
  <2>1. ASSUME NEW s \in Scheds, spc[s] = "parked", park[s]
        PROVE  /\ pending_list'[s] = pending_list[s] /\ UNCHANGED tdrVars
               /\ \A i \in 1 .. Len(pending_list[s]) :
                    Clean(pending_list[s][i]) => Clean(pending_list[s][i])'
    <3>1. pending_list'[s] = pending_list[s] /\ UNCHANGED tdrVars
      BY <1>2, <2>1, ParkedList
    <3>2. ASSUME NEW x \in Range(pending_list[s]), Clean(x) PROVE Clean(x)'
      BY <1>0, <2>1, <3>1, <3>2, ParkedClean DEF Restarted, tdrVars
    <3>3. ASSUME NEW i \in 1 .. Len(pending_list[s]) PROVE pending_list[s][i] \in Range(pending_list[s])
      BY <1>0, <3>3, InRange
    <3> QED
      BY <3>1, <3>2, <3>3 DEF Clean
  <2>2. UNCHANGED tdrVars
    BY <1>2, ClientFrame, ThreadFrame, InterruptFrame DEF Next, Interrupt
  <2>3. ASSUME NEW s \in Scheds, Stopped(s)'
        PROVE  \A i \in 1 .. Len(pending_list'[s]) : Clean(pending_list[s][i])'
    <3>1. Stopped(s)
      BY <2>2, <2>3 DEF Stopped, tdrVars
    <3> QED
      BY <2>1, <3>1, StoppedParked DEF CleanInv, Clean
  <2>4. ASSUME tpc' \in {"unhook", "jobs"}
        PROVE  /\ left' <= Len(pending_list'[cur'])
               /\ \A i \in left' + 1 .. Len(pending_list'[cur']) : Clean(pending_list[cur][i])'
    <3>1. tpc \in {"unhook", "jobs"} /\ cur' = cur /\ left' = left /\ cur \in Scheds
      BY <1>0, <2>2, <2>4 DEF tdrVars
    <3>2. /\ pending_list'[cur] = pending_list[cur]
          /\ \A i \in 1 .. Len(pending_list[cur]) :
                    Clean(pending_list[cur][i]) => Clean(pending_list[cur][i])'
      BY <2>1, <3>1, StoppedParked
    <3> QED
      BY <1>0, <3>1, <3>2 DEF CleanInv, Clean
  <2> QED
    BY <2>3, <2>4
<1> USE DEF CleanInv, Stopped, tdrVars, listVars, schedVars, pushVars, hwVars, jobVars
<1>3. ASSUME NEW s \in Scheds, TdrFire(s) PROVE Lists'
  BY <1>0, <1>3 DEF TdrFire, Clean
<1>4. ASSUME SoftRecover PROVE Lists'
  BY <1>0, <1>4 DEF SoftRecover, Clean
<1>5. ASSUME Recover PROVE Lists'
  BY <1>0, <1>5 DEF Recover, Clean
<1>6. ASSUME NEW s \in Scheds, ParkThread(s) PROVE Lists'
  BY <1>0, <1>6 DEF ParkThread, Clean
<1>7. ASSUME ReinsertBad PROVE Lists'
  BY <1>0, <1>7 DEF ReinsertBad, Clean
<1>8. ASSUME UnhookJob PROVE Lists'
  <2> DEFINE q == pending_list[cur]
             j == q[left]
  <2>1. /\ tpc = "unhook" /\ tpc' = "unhook" /\ left > 0 /\ left' = left - 1 /\ cb[j]
        /\ UNCHANGED <<pending_list, todo, cur, abandoned>> /\ cb' = [cb EXCEPT ![j] = FALSE]
    BY <1>8 DEF UnhookJob
  <2>2. cur \in Scheds /\ q \in Seq(Jobs) /\ left <= Len(q)
    BY <1>0, <2>1
  <2>3. j \in Jobs
    BY <1>0, <2>1, <2>2
  <2> DEFINE Ok(y) == ~cb'[y] /\ y \notin abandoned'
  <2>4. Ok(j) /\ \A y \in Jobs : Clean(y) => Ok(y)
    BY <1>0, <1>1, <2>1, <2>3 DEF Clean
  <2>5. /\ \A s \in Scheds : Stopped(s) =>
             \A i \in 1 .. Len(pending_list[s]) : Clean(pending_list[s][i])
        /\ \A i \in left + 1 .. Len(q) : Clean(q[i])
    BY <2>1
  <2> HIDE DEF j, CleanInv
  <2> QED
    <3>1. ASSUME NEW s \in Scheds, Stopped(s)', NEW i \in 1 .. Len(pending_list[s])
          PROVE  Clean(pending_list[s][i])'
      BY <1>0, <2>1, <2>4, <2>5, <3>1 DEF Clean
    <3>2. left' <= Len(q)
      BY <1>0, <2>1, <2>2
    <3>3. ASSUME NEW i \in left' + 1 .. Len(q) PROVE Ok(q[i])
      <4>1. i = left \/ i \in left + 1 .. Len(q)
        BY <1>0, <2>1, <2>2
      <4>2. i \in 1 .. Len(q)
        BY <1>0, <2>1, <2>2
      <4>3. CASE i = left
        BY <2>4, <4>3 DEF j
      <4>4. CASE i \in left + 1 .. Len(q)
        <5>1. Clean(q[i]) /\ q[i] \in Jobs
          BY <2>2, <2>5, <4>2, <4>4
        <5> QED
          BY <2>4, <5>1
      <4> QED
        BY <4>1, <4>3, <4>4
    <3> QED
      BY <2>1, <3>1, <3>2, <3>3 DEF Clean
<1>9. ASSUME RemoveJob PROVE Lists'
  <2> DEFINE q == pending_list[cur]
             j == q[left]
             r == Without(q, j)
  <2>1. /\ tpc = "unhook" /\ tpc' = "unhook" /\ left > 0 /\ left' = left - 1
        /\ UNCHANGED <<todo, cur, cb, abandoned>>
        /\ pending_list' = [pending_list EXCEPT ![cur] = Without(@, j)]
    BY <1>9 DEF RemoveJob
  <2>2. cur \in Scheds /\ q \in Seq(Jobs) /\ left \in 1 .. Len(q)
    BY <1>0, <2>1
  <2>3. \A i, l \in 1 .. Len(q) : q[i] = q[l] => i = l
    BY <2>2 DEF PendingInv, Pending
  <2>4. \A y : Clean(y)' <=> Clean(y)
    BY <2>1 DEF Clean
  <2>5. /\ \A s \in Scheds : Stopped(s) =>
             \A i \in 1 .. Len(pending_list[s]) : Clean(pending_list[s][i])
        /\ \A i \in left + 1 .. Len(q) : Clean(q[i])
    BY <2>1
  <2>6. \A t \in Scheds : t # cur => pending_list'[t] = pending_list[t]
    BY <1>0, <2>1
  <2>7. /\ pending_list'[cur] = r /\ Len(r) = Len(q) - 1
        /\ \A i \in 1 .. Len(q) - 1 : r[i] = IF i < left THEN q[i] ELSE q[i + 1]
    BY <1>9, <2>2, RemoveJobList
  <2> HIDE DEF r, CleanInv
  <2>8. ASSUME NEW s \in Scheds, Stopped(s)', NEW i \in 1 .. Len(pending_list'[s])
        PROVE  Clean(pending_list[s][i])'
    <3>1. Stopped(s) /\ s # cur
      BY <2>1, <2>8
    <3> QED
      BY <2>1, <2>5, <2>6, <2>8, <3>1 DEF Clean
  <2>9. left' <= Len(r)
    BY <1>0, <2>1, <2>2, <2>7
  <2>10. ASSUME NEW i \in left' + 1 .. Len(r) PROVE Clean(r[i])
    <3>1. i \in 1 .. Len(q) - 1 /\ ~(i < left) /\ i + 1 \in left + 1 .. Len(q)
      BY <1>0, <2>1, <2>2, <2>7
    <3> HIDE DEF q
    <3> QED
      BY <2>5, <2>7, <3>1
  <2>11. /\ tpc' \in {"unhook", "jobs"} /\ left' <= Len(pending_list'[cur'])
         /\ \A i \in left' + 1 .. Len(pending_list'[cur']) : Clean(pending_list[cur][i])'
    BY <2>1, <2>7, <2>9, <2>10 DEF Clean
  <2> QED
    BY <2>8, <2>11
<1>10. ASSUME StopDone PROVE Lists'
  BY <1>0, <1>10 DEF StopDone, Clean
<1>11. ASSUME SkipReset PROVE Lists'
  BY <1>0, <1>11 DEF SkipReset, Clean
<1>12. ASSUME NEW r \in BOOLEAN, Reset(r) PROVE Lists'
  BY <1>0, <1>12 DEF Reset, Clean
<1>13. ASSUME NEW s \in Scheds, NoResubmit(s) PROVE Lists'
  BY <1>0, <1>13 DEF NoResubmit, Clean
<1>14. ASSUME NEW s \in Scheds, NEW F \in SUBSET Jobs, Resubmit(s, F) PROVE Lists'
  BY <1>0, <1>14 DEF Resubmit, Clean
<1>15. ASSUME StartJob PROVE Lists'
  <2> DEFINE q == pending_list[cur]
             j == q[left + 1]
  <2>1. /\ tpc = "jobs" /\ tpc' = "jobs" /\ left < Len(q) /\ left' = left + 1
        /\ UNCHANGED <<pending_list, todo, cur>>
        /\ cb' = [cb EXCEPT ![j] = TRUE] /\ abandoned' = abandoned
    BY <1>15 DEF StartJob
  <2>2. cur \in Scheds /\ cur \notin todo /\ q \in Seq(Jobs) /\ left + 1 \in 1 .. Len(q)
    BY <1>0, <2>1
  <2>3. \A i, l \in 1 .. Len(q) : q[i] = q[l] => i = l
    BY <2>2 DEF PendingInv, Pending
  <2>4. \A y : y # j /\ Clean(y) => Clean(y)'
    BY <1>0, <2>1 DEF Clean
  <2>5. /\ \A s \in Scheds : Stopped(s) =>
             \A i \in 1 .. Len(pending_list[s]) : Clean(pending_list[s][i])
        /\ \A i \in left + 1 .. Len(q) : Clean(q[i])
    BY <2>1
  <2>6. ASSUME NEW s \in Scheds, Stopped(s)', NEW i \in 1 .. Len(pending_list[s])
        PROVE  Clean(pending_list[s][i])'
    <3>1. Stopped(s) /\ s # cur
      BY <2>1, <2>2, <2>6
    <3>2. sched[j] = cur
      BY <2>2, InRange DEF PendingInv, Pending
    <3>3. sched[pending_list[s][i]] = s
      BY <1>0, InRange DEF PendingInv, Pending
    <3> QED
      BY <2>1, <2>4, <2>5, <3>1, <3>2, <3>3 DEF Clean
  <2>7. left' <= Len(q)
    BY <1>0, <2>1, <2>2
  <2>8. ASSUME NEW i \in left' + 1 .. Len(q) PROVE Clean(q[i])'
    <3>1. i \in left + 1 .. Len(q) /\ i # left + 1 /\ i \in 1 .. Len(q)
      BY <1>0, <2>1, <2>2
    <3> QED
      BY <2>1, <2>2, <2>3, <2>4, <2>5, <3>1 DEF Clean
  <2> QED
    BY <2>1, <2>6, <2>7, <2>8 DEF Clean
<1>16. ASSUME StartDone PROVE Lists'
  BY <1>0, <1>16 DEF StartDone, Clean
<1>17. ASSUME StartFailed PROVE Lists'
  <2> DEFINE q == pending_list[cur]
             j == q[left + 1]
  <2>1. /\ tpc = "jobs" /\ tpc' = "jobs" /\ left < Len(q) /\ left' = left + 1
        /\ UNCHANGED <<pending_list, todo, cur>>
        /\ abandoned' = abandoned \cup {j} /\ cb' = cb
    BY <1>17 DEF StartFailed
  <2>2. cur \in Scheds /\ cur \notin todo /\ q \in Seq(Jobs) /\ left + 1 \in 1 .. Len(q)
    BY <1>0, <2>1
  <2>3. \A i, l \in 1 .. Len(q) : q[i] = q[l] => i = l
    BY <2>2 DEF PendingInv, Pending
  <2>4. \A y : y # j /\ Clean(y) => Clean(y)'
    BY <1>0, <2>1 DEF Clean
  <2>5. /\ \A s \in Scheds : Stopped(s) =>
             \A i \in 1 .. Len(pending_list[s]) : Clean(pending_list[s][i])
        /\ \A i \in left + 1 .. Len(q) : Clean(q[i])
    BY <2>1
  <2>6. ASSUME NEW s \in Scheds, Stopped(s)', NEW i \in 1 .. Len(pending_list[s])
        PROVE  Clean(pending_list[s][i])'
    <3>1. Stopped(s) /\ s # cur
      BY <2>1, <2>2, <2>6
    <3>2. sched[j] = cur
      BY <2>2, InRange DEF PendingInv, Pending
    <3>3. sched[pending_list[s][i]] = s
      BY <1>0, InRange DEF PendingInv, Pending
    <3> QED
      BY <2>1, <2>4, <2>5, <3>1, <3>2, <3>3 DEF Clean
  <2>7. left' <= Len(q)
    BY <1>0, <2>1, <2>2
  <2>8. ASSUME NEW i \in left' + 1 .. Len(q) PROVE Clean(q[i])'
    <3>1. i \in left + 1 .. Len(q) /\ i # left + 1 /\ i \in 1 .. Len(q)
      BY <1>0, <2>1, <2>2
    <3> QED
      BY <2>1, <2>2, <2>3, <2>4, <2>5, <3>1 DEF Clean
  <2> QED
    BY <2>1, <2>6, <2>7, <2>8 DEF Clean
<1>18. ASSUME UnparkThread PROVE Lists'
  BY <1>0, <1>18 DEF UnparkThread, Clean
<1>19. ASSUME TdrEnd PROVE Lists'
  BY <1>0, <1>19 DEF TdrEnd, Clean
<1> HIDE DEF Lists, CleanInv
<1>20. ASSUME Timeout PROVE Lists'
  BY <1>20, <1>3, <1>4, <1>5, <1>6, <1>7, <1>8, <1>9, <1>10, <1>11, <1>12, <1>13, <1>14,
     <1>15, <1>16, <1>17, <1>18, <1>19, Zenon DEF Timeout, Armed
<1> QED
  BY <1>1, <1>2, <1>20 DEF CleanInv, Lists

----------------------------------------------------------------------------
(* The invariant                                                           *)

\* Initially nothing is armed, queued, running or parked.
LEMMA InitIInv == Init => IInv
<1> SUFFICES ASSUME Init PROVE IInv
  OBVIOUS
<1> USE SchedAssumption DEF Init
<1>0. \A q : q = <<>> => Len(q) = 0 /\ Range(q) = {}
  BY DEF Range
<1>1. Types
  BY DEF Types, JobType, EntityType, SchedType, TdrType, EntityPcs, ThreadPcs, TdrPcs, JobOrNone
<1>2. ParkInv /\ ThreadInv
  BY DEF ParkInv, ToPark, ThreadInv
<1>3. LinkInv
  BY <1>0 DEF LinkInv, ListOk, RestOk
<1>4. HoldInv /\ RunInv
  BY DEF HoldInv, RunInv, Running
<1>5. JobsInv
  BY <1>0, NoneIsNoJob DEF JobsInv, Fresh, Unseen
<1>6. QueueInv
  BY <1>0 DEF QueueInv, Queued
<1>7. PendingInv
  BY <1>0 DEF PendingInv, Pending
<1>8. CleanInv
  BY <1>0 DEF CleanInv, Stopped
<1> QED
  BY <1>1, <1>2, <1>3, <1>4, <1>5, <1>6, <1>7, <1>8 DEF IInv

\* What says nothing of the steps is kept when nothing changes.
LEMMA StutterIInv ==
  ASSUME IInv, UNCHANGED vars
  PROVE  IInv'
<1> USE DEF IInv, vars, pushVars, fenceVars, hwVars, killVars, jobVars, placeVars, entityVars,
        rqVars, listVars, wakeVars, schedVars, threadVars, tdrVars
<1>1. Types'
  BY DEF Types, JobType, EntityType, SchedType, TdrType
<1>2. ParkInv' /\ ThreadInv'
  BY DEF ParkInv, ToPark, ThreadInv
<1>3. LinkInv'
  BY DEF LinkInv, ListOk, RestOk
<1>4. HoldInv' /\ RunInv'
  BY DEF HoldInv, Holds, RunInv, Running, Unseen
<1>5. JobsInv' /\ QueueInv'
  BY DEF JobsInv, QueueInv, Queued, Fresh, Unseen
<1>6. PendingInv'
  BY DEF PendingInv, Pending, BadOut
<1>7. CleanInv'
  BY DEF CleanInv, Stopped, Clean
<1> QED
  BY <1>1, <1>2, <1>3, <1>4, <1>5, <1>6, <1>7

\* Every step keeps the invariant.
LEMMA StepIInv ==
  ASSUME IInv, Next
  PROVE  IInv'
<1> USE DEF IInv
<1>1. Types'
  BY TypesStep
<1>2. ParkInv' /\ ThreadInv'
  BY ParkInvStep, ThreadInvStep
<1>3. LinkInv'
  BY <1>1, LinkInvStep
<1>4. HoldInv'
  BY <1>1, HoldInvStep
<1>5. JobsInv' /\ QueueInv' /\ PendingInv'
  BY <1>1, JobsInvStep, QueueInvStep, PendingInvStep
<1>6. RunInv'
  BY <1>1, <1>2, RunInvStep
<1>7. CleanInv'
  BY <1>1, CleanInvStep
<1> QED
  BY <1>1, <1>2, <1>3, <1>4, <1>5, <1>6, <1>7

\* The invariant of the specification.
LEMMA Invariant == Spec => []IInv
<1>1. IInv /\ [Next]_vars => IInv'
  BY StepIInv, StutterIInv
<1> QED
  BY InitIInv, <1>1, PTL DEF Spec

\* drm_sched_entity_kill_jobs() runs only when the main thread has completed entity_idle:
\* the queue, which only one may read, never has two readers.
THEOREM QueueHasOneReader == Spec => []OneConsumer
<1>1. IInv => OneConsumer
  BY DEF IInv, HoldInv, Holds, OneConsumer
<1> QED
  BY Invariant, <1>1, PTL

\* Through selection of another run queue, flush, fini and kill an entity is on the list
\* of its own scheduler at most, once, the cursor of the round robin does not dangle, and
\* after fini neither a list, nor a queue, nor a dependency is left.
THEOREM LinksAreSound == Spec => []EntityLinks
<1>1. IInv => EntityLinks
  BY DEF IInv, LinkInv, ListOk, RestOk, EntityLinks
<1> QED
  BY Invariant, <1>1, PTL

----------------------------------------------------------------------------
(* Waiting in drm_sched_entity_flush()                                     *)

\* Who sleeps there has work on a run queue, or the thread is on its way to wake him.
Waited(e) ==
  \/ e \in Range(entities[rq_of[e]]) /\ queue[e] # <<>> /\ ~stopped[e]
  \/ Running(rq_of[e])

\* Nobody sleeps in vain.
FlushInv == \A e \in Entities : epc[e] = "flush_sleep" => Waited(e)

\* An entity leaves a run queue by a call of its own user.
LEMMA OthersStay ==
  ASSUME Types, LinkInv, NEW e \in Entities, Client(e), NEW x \in Entities, x # e, NEW s \in Scheds,
         x \in Range(entities[s])
  PROVE  x \in Range(entities'[s])
<1> DEFINE Goal == x \in Range(entities'[s])
<1>0. entities \in [Scheds -> Seq(Entities)] /\ rq_of \in [Entities -> Scheds]
  BY DEF Types, SchedType, EntityType
<1>1. ASSUME entities' = entities PROVE Goal
  BY <1>1
<1>2. ASSUME RemoveEntity(e) PROVE Goal
  BY <1>2, RemoveEffect
<1>3. ASSUME Submit(e) PROVE Goal
  BY <1>1, <1>2, <1>3 DEF Submit, PushJob, JobArm, rqVars
<1>4. ASSUME AddEntity(e) PROVE Goal
  <2>1. CASE e \in Range(entities[rq_of[e]])
    BY <1>0, <1>1, <1>4, <2>1 DEF AddEntity
  <2>2. CASE s # rq_of[e]
    BY <1>0, <1>4, <2>2 DEF AddEntity
  <2>3. CASE e \notin Range(entities[rq_of[e]]) /\ s = rq_of[e]
    <3>1. entities'[s] = Append(entities[s], e) /\ entities[s] \in Seq(Entities)
      BY <1>0, <1>4, <2>3 DEF AddEntity
    <3> QED
      BY <3>1, RangeAppend
  <2> QED
    BY <2>1, <2>2, <2>3
<1> USE DEF schedVars, rqVars
<1>5. ASSUME PushStopped(e) PROVE Goal
  BY <1>1, <1>5 DEF PushStopped
<1>6. ASSUME PushWake(e) PROVE Goal
  BY <1>1, <1>6 DEF PushWake
<1>7. ASSUME Flush(e) PROVE Goal
  BY <1>1, <1>7 DEF Flush
<1>8. ASSUME FlushSleep(e) PROVE Goal
  BY <1>1, <1>8 DEF FlushSleep
<1>9. ASSUME NEW kill \in BOOLEAN, NEW next \in {"open", "fini"}, FlushEnd(e, kill, next) PROVE Goal
  BY <1>1, <1>2, <1>9 DEF FlushEnd
<1>10. ASSUME Fini(e) PROVE Goal
  BY <1>2, <1>10 DEF Fini
<1>11. ASSUME ClearDependency(e) PROVE Goal
  BY <1>1, <1>11 DEF ClearDependency
<1>12. ASSUME KillJob(e) PROVE Goal
  BY <1>1, <1>12 DEF KillJob
<1>13. ASSUME PutLast(e) PROVE Goal
  BY <1>1, <1>13 DEF PutLast
<1> HIDE DEF Goal
<1>14. Goal
  BY <1>3, <1>4, <1>5, <1>6, <1>7, <1>8, <1>9, <1>10, <1>11, <1>12, <1>13, Zenon DEF Client
<1> QED
  BY <1>14 DEF Goal

\* Its user goes to sleep in drm_sched_entity_flush() only.
LEMMA OwnSleep ==
  ASSUME Types, NEW x \in Entities, Client(x), epc'[x] = "flush_sleep"
  PROVE  FlushSleep(x) /\ epc[x] \in {"flush", "flush_sleep"}
<1> DEFINE Goal == FlushSleep(x)
<1> USE DEF Types, EntityType, Ent
<1>1. ASSUME Submit(x) PROVE Goal
  BY <1>1 DEF Submit, PushJob
<1>2. ASSUME PushStopped(x) PROVE Goal
  BY <1>2 DEF PushStopped
<1>3. ASSUME AddEntity(x) PROVE Goal
  BY <1>3 DEF AddEntity
<1>4. ASSUME PushWake(x) PROVE Goal
  BY <1>4 DEF PushWake
<1>5. ASSUME Flush(x) PROVE Goal
  BY <1>5 DEF Flush
<1>6. ASSUME NEW kill \in BOOLEAN, NEW next \in {"open", "fini"}, FlushEnd(x, kill, next) PROVE Goal
  BY <1>6 DEF FlushEnd
<1>7. ASSUME Fini(x) PROVE Goal
  BY <1>7 DEF Fini
<1>8. ASSUME ClearDependency(x) PROVE Goal
  BY <1>8 DEF ClearDependency
<1>9. ASSUME KillJob(x) PROVE Goal
  BY <1>9 DEF KillJob
<1>10. ASSUME PutLast(x) PROVE Goal
  BY <1>10 DEF PutLast
<1>11. Goal
  BY <1>1, <1>2, <1>3, <1>4, <1>5, <1>6, <1>7, <1>8, <1>9, <1>10 DEF Client
<1> QED
  BY <1>11 DEF FlushSleep

\* The thread takes a job from a queue, and wakes all who sleep when it has submitted it.
LEMMA ThreadKeepsSleep ==
  ASSUME Types, NEW s \in Scheds, Thread(s), NEW x \in Entities, epc'[x] = "flush_sleep"
  PROVE  /\ epc[x] = "flush_sleep"
         /\ \/ queue' = queue /\ (Running(s) => Running(s)')
            \/ queue' = queue /\ rq_of[x] # s
            \/ queue' = [queue EXCEPT ![sent[s]] = Tail(@)] /\ spc'[s] = "run" /\ spc[s] = "pop"
<1> DEFINE Goal ==
             /\ epc[x] = "flush_sleep"
             /\ \/ queue' = queue /\ (Running(s) => Running(s)')
                \/ queue' = queue /\ rq_of[x] # s
                \/ queue' = [queue EXCEPT ![sent[s]] = Tail(@)] /\ spc'[s] = "run" /\ spc[s] = "pop"
<1> USE DEF Types, EntityType, SchedType, Running, At, entityVars, threadVars
<1>1. ASSUME GetCleanupJob(s) PROVE Goal
  BY <1>1 DEF GetCleanupJob
<1>2. ASSUME FreeJob(s) PROVE Goal
  BY <1>2 DEF FreeJob
<1>3. ASSUME NoCleanupJob(s) PROVE Goal
  BY <1>3 DEF NoCleanupJob
<1>4. ASSUME Park(s) PROVE Goal
  BY <1>4 DEF Park
<1>5. ASSUME Unpark(s) PROVE Goal
  BY <1>5 DEF Unpark
<1>6. ASSUME NEW e \in Range(entities[s]), SelectEntity(s, e) PROVE Goal
  BY <1>6 DEF SelectEntity
<1>7. ASSUME Sleep(s) PROVE Goal
  BY <1>7 DEF Sleep
<1>8. ASSUME WakeUp(s) PROVE Goal
  BY <1>8 DEF WakeUp
<1>9. ASSUME NEW d \in Jobs, PopNextDep(s, d) PROVE Goal
  BY <1>9 DEF PopNextDep
<1>10. ASSUME NEW d \in Jobs, PopWaitDep(s, d) PROVE Goal
  BY <1>10 DEF PopWaitDep
<1>11. ASSUME PopJob(s) PROVE Goal
  BY <1>11 DEF PopJob
<1>12. ASSUME NEW r \in BOOLEAN, RunJob(s, r) PROVE Goal
  BY <1>12 DEF RunJob
<1>13. ASSUME AddDoneCb(s) PROVE Goal
  BY <1>13 DEF AddDoneCb, JobScheduled
<1>14. ASSUME DoneAtOnce(s) PROVE Goal
  BY <1>14 DEF DoneAtOnce, JobScheduled
<1> HIDE DEF Goal
<1>15. Goal
  BY <1>1, <1>2, <1>3, <1>4, <1>5, <1>6, <1>7, <1>8, <1>9, <1>10, <1>11, <1>12, <1>13, <1>14,
     ZenonT(60) DEF Thread
<1> QED
  BY <1>15 DEF Goal

\* While he sleeps nobody else touches his entity, except the thread that takes a job.
LEMMA FlushInvStep ==
  ASSUME IInv, IInv', FlushInv, Next
  PROVE  FlushInv'
<1> USE SchedAssumption
<1>0. /\ Types /\ Types' /\ ThreadInv /\ LinkInv /\ HoldInv
      /\ rq_of \in [Entities -> Scheds] /\ rq_of' \in [Entities -> Scheds]
      /\ epc \in [Entities -> EntityPcs] /\ queue \in [Entities -> Seq(Jobs)]
      /\ entities \in [Scheds -> Seq(Entities)] /\ spc \in [Scheds -> ThreadPcs]
      /\ sent \in [Scheds -> Entities \cup {None}]
  BY DEF IInv, Types, EntityType, SchedType
<1> SUFFICES ASSUME NEW x \in Entities, epc'[x] = "flush_sleep"
             PROVE  Waited(x)'
  BY DEF FlushInv
<1>1. ASSUME epc[x] = "flush_sleep",
             UNCHANGED <<entities, rq_of, queue, stopped, spc>>
      PROVE  Waited(x)'
  BY <1>1 DEF FlushInv, Waited, Running
<1>2. ASSUME Interrupt PROVE Waited(x)'
  BY <1>0, <1>1, <1>2, InterruptFrame
<1>3. ASSUME Timeout PROVE Waited(x)'
  BY <1>0, <1>1, <1>3, HandlerFrame
<1>4. ASSUME NEW e \in Entities, e # x, Client(e) PROVE Waited(x)'
  <2>1. /\ queue'[x] = queue[x] /\ rq_of'[x] = rq_of[x] /\ epc'[x] = epc[x]
        /\ stopped'[x] = stopped[x] /\ spc' = spc
    BY <1>0, <1>4, ClientFrame
  <2>2. rq_of[x] \in Scheds
    BY <1>0
  <2>3. x \in Range(entities[rq_of[x]]) => x \in Range(entities'[rq_of[x]])
    BY <1>0, <1>4, <2>2, OthersStay
  <2> QED
    BY <2>1, <2>2, <2>3 DEF FlushInv, Waited, Running
<1>5. ASSUME Client(x) PROVE Waited(x)'
  <2>1. epc[x] \in {"flush", "flush_sleep"} /\ FlushSleep(x)
    BY <1>0, <1>5, OwnSleep
  <2> QED
    BY <1>0, <2>1 DEF FlushSleep, IsIdle, Waited, placeVars, schedVars, rqVars, jobVars
<1>6. ASSUME NEW s \in Scheds, Thread(s) PROVE Waited(x)'
  <2>0. UNCHANGED <<entities, rq_of, stopped>> /\ \A t \in Scheds : t # s => spc'[t] = spc[t]
    BY <1>0, <1>6, ThreadFrame
  <2>1. /\ epc[x] = "flush_sleep"
        /\ \/ queue' = queue /\ (Running(s) => Running(s)')
           \/ queue' = queue /\ rq_of[x] # s
           \/ queue' = [queue EXCEPT ![sent[s]] = Tail(@)] /\ spc'[s] = "run" /\ spc[s] = "pop"
    BY <1>0, <1>6, ThreadKeepsSleep
  <2>2. CASE queue' = queue
    BY <1>0, <2>0, <2>1, <2>2 DEF FlushInv, Waited, Running
  <2>3. CASE queue' = [queue EXCEPT ![sent[s]] = Tail(@)] /\ spc'[s] = "run" /\ spc[s] = "pop"
    <3>1. sent[s] \in Entities /\ rq_of[sent[s]] = s
      BY <1>0, <2>3 DEF ThreadInv, HoldInv, Holds
    <3>2. CASE sent[s] = x
      BY <2>0, <2>3, <3>1, <3>2 DEF Waited, Running
    <3>3. CASE sent[s] # x
      <4>1. queue'[x] = queue[x]
        BY <1>0, <2>3, <3>1, <3>3
      <4>2. \A t \in Scheds : Running(t) => Running(t)'
        BY <1>0, <2>0, <2>3 DEF Running
      <4> QED
        BY <1>0, <2>0, <2>1, <4>1, <4>2 DEF FlushInv, Waited
    <3> QED
      BY <3>2, <3>3
  <2> QED
    BY <2>1, <2>2, <2>3
<1> QED
  BY <1>2, <1>3, <1>4, <1>5, <1>6 DEF Next, Interrupt

\* So it is always.
LEMMA FlushInvariant == Spec => []FlushInv
<1>1. Init => FlushInv
  BY SchedAssumption DEF Init, FlushInv
<1>2. FlushInv /\ UNCHANGED vars => FlushInv'
  BY DEF FlushInv, Waited, Running, vars, entityVars, placeVars, schedVars, rqVars, threadVars
<1>3. IInv /\ IInv' /\ FlushInv /\ [Next]_vars => FlushInv'
  BY <1>2, FlushInvStep
<1> QED
  BY Invariant, <1>1, <1>3, PTL DEF Spec

\* A process that sleeps in drm_sched_entity_flush() although its entity is idle has not
\* missed its wake-up: the thread that took the last job has not come to
\* wake_up(&sched->job_scheduled) yet.
THEOREM FlushIsWoken == Spec => []FlushWoken
<1>1. FlushInv => FlushWoken
  BY DEF FlushInv, Waited, FlushWoken, IsIdle
<1> QED
  BY FlushInvariant, <1>1, PTL

----------------------------------------------------------------------------
(* The timer                                                               *)

\* For which schedulers the timer has to be armed when jobs are pending: the handler has
\* not stopped them yet, or has started them again.  drm_sched_job_timedout() starts that of
\* the bad job at its end.
NeedTimer(s) ==
  /\ tpc # "idle" => s # sched[bad]
  /\ \/ tpc \in {"idle", "timedout", "end"}
     \/ tpc \in {"stop", "parking", "unhook"} /\ s \in todo
     \/ tpc = "start" /\ s \notin todo
     \/ tpc = "jobs" /\ s \notin todo \cup {cur}

\* Where a job is pending on a scheduler with a timeout, its timer is armed.
TimerInv ==
  abandoned = {} =>
    /\ \A s \in TdrScheds : NeedTimer(s) /\ pending_list[s] # <<>> => work_tdr[s]
    /\ tpc = "jobs" /\ mode = "failed" => left = 0

\* A job that joins the list, or is left when one is cleaned up, finds the timer armed.
LEMMA ThreadTimer ==
  ASSUME Types, NEW s \in Scheds, Thread(s), s \in TdrScheds, pending_list'[s] # <<>>, ~work_tdr'[s]
  PROVE  pending_list[s] # <<>> /\ ~work_tdr[s]
<1> DEFINE Goal == pending_list'[s] # <<>> /\ ~work_tdr'[s] => pending_list[s] # <<>> /\ ~work_tdr[s]
<1>0. /\ pending_list \in [Scheds -> Seq(Jobs)] /\ work_tdr \in [Scheds -> BOOLEAN]
      /\ pending_list[s] \in Seq(Jobs)
  BY DEF Types, SchedType
<1>1. ASSUME pending_list' = pending_list, work_tdr' = work_tdr PROVE Goal
  BY <1>1
<1> USE DEF schedVars, listVars
<1>2. ASSUME GetCleanupJob(s) PROVE Goal
  <2>1. pending_list[s] # <<>> /\ pending_list'[s] = Tail(pending_list[s])
        /\ work_tdr'[s] = (Len(pending_list[s]) > 1)
    BY <1>0, <1>2 DEF GetCleanupJob, HasCleanupJob, TimerAfterCleanup
  <2> QED
    BY <1>0, <2>1
<1>3. ASSUME FreeJob(s) PROVE Goal
  BY <1>1, <1>3 DEF FreeJob
<1>4. ASSUME NoCleanupJob(s) PROVE Goal
  BY <1>1, <1>4 DEF NoCleanupJob
<1>5. ASSUME Park(s) PROVE Goal
  BY <1>1, <1>5 DEF Park
<1>6. ASSUME Unpark(s) PROVE Goal
  BY <1>1, <1>6 DEF Unpark
<1>7. ASSUME NEW e \in Range(entities[s]), SelectEntity(s, e) PROVE Goal
  BY <1>1, <1>7 DEF SelectEntity
<1>8. ASSUME Sleep(s) PROVE Goal
  BY <1>1, <1>8 DEF Sleep
<1>9. ASSUME WakeUp(s) PROVE Goal
  BY <1>1, <1>9 DEF WakeUp
<1>10. ASSUME NEW d \in Jobs, PopNextDep(s, d) PROVE Goal
  BY <1>1, <1>10 DEF PopNextDep
<1>11. ASSUME NEW d \in Jobs, PopWaitDep(s, d) PROVE Goal
  BY <1>1, <1>11 DEF PopWaitDep
<1>12. ASSUME PopJob(s) PROVE Goal
  BY <1>0, <1>12 DEF PopJob, JobBegin, StartTimeout
<1>13. ASSUME NEW r \in BOOLEAN, RunJob(s, r) PROVE Goal
  BY <1>1, <1>13 DEF RunJob
<1>14. ASSUME AddDoneCb(s) PROVE Goal
  BY <1>1, <1>14 DEF AddDoneCb
<1>15. ASSUME DoneAtOnce(s) PROVE Goal
  BY <1>1, <1>15 DEF DoneAtOnce
<1> HIDE DEF Goal
<1>16. Goal
  BY <1>2, <1>3, <1>4, <1>5, <1>6, <1>7, <1>8, <1>9, <1>10, <1>11, <1>12, <1>13, <1>14, <1>15,
     ZenonT(60) DEF Thread
<1> QED
  BY <1>16 DEF Goal

\* It is there through the steps of the handler.
LEMMA TimerInvStep ==
  ASSUME IInv, IInv', TimerInv, Next
  PROVE  TimerInv'
<1> USE SchedAssumption
<1>0. /\ Types /\ Types' /\ ThreadInv /\ HoldInv /\ ParkInv /\ PendingInv /\ JobsInv
      /\ pending_list \in [Scheds -> Seq(Jobs)] /\ work_tdr \in [Scheds -> BOOLEAN]
      /\ \A s \in Scheds : pending_list[s] \in Seq(Jobs)
      /\ left \in Nat /\ tpc \in TdrPcs
  BY DEF IInv, Types, SchedType, TdrType
<1>1. tpc # "idle" => sched'[bad] = sched[bad] /\ sched[bad] \in Scheds
  <2>1. ASSUME tpc # "idle" PROVE bad \in Jobs /\ ent[bad] # None
    BY <1>0, <2>1 DEF ParkInv, JobsInv, Types, TdrType, JobOrNone
  <2> QED
    BY <1>0, <2>1, ArmedStays DEF JobsInv, Types, JobType
<1>2. ASSUME UNCHANGED tdrVars, abandoned' = abandoned,
             \A s \in TdrScheds : pending_list'[s] # <<>> /\ ~work_tdr'[s] =>
               pending_list[s] # <<>> /\ ~work_tdr[s]
      PROVE  TimerInv'
  <2>1. \A s \in TdrScheds : NeedTimer(s)' <=> NeedTimer(s)
    BY <1>1, <1>2 DEF NeedTimer, tdrVars
  <2> QED
    BY <1>2, <2>1 DEF TimerInv, tdrVars
<1>3. ASSUME NEW e \in Entities, Client(e) PROVE TimerInv'
  BY <1>0, <1>2, <1>3, ClientFrame
<1>4. ASSUME Interrupt PROVE TimerInv'
  BY <1>0, <1>2, <1>4, InterruptFrame
<1>5. ASSUME NEW s \in Scheds, Thread(s) PROVE TimerInv'
  <2>1. /\ UNCHANGED tdrVars /\ abandoned' = abandoned
        /\ \A t \in Scheds : t # s => pending_list'[t] = pending_list[t] /\ work_tdr'[t] = work_tdr[t]
    BY <1>0, <1>5, ThreadFrame
  <2>2. s \in TdrScheds /\ pending_list'[s] # <<>> /\ ~work_tdr'[s] =>
          pending_list[s] # <<>> /\ ~work_tdr[s]
    BY <1>0, <1>5, ThreadTimer
  <2> QED
    BY <1>2, <2>1, <2>2
<1> USE DEF TimerInv, NeedTimer, tdrVars, listVars, schedVars, pushVars, jobVars
<1>6. ASSUME NEW s \in Scheds, TdrFire(s) PROVE TimerInv'
  <2>1. CASE pending_list[s] = <<>>
    BY <1>0, <1>1, <1>6, <2>1 DEF TdrFire
  <2>2. CASE pending_list[s] # <<>>
    <3>1. /\ bad' = Head(pending_list[s]) /\ tpc' = "timedout" /\ abandoned' = abandoned /\ tpc = "idle"
          /\ work_tdr' = [work_tdr EXCEPT ![s] = FALSE] /\ sched' = sched
          /\ \A t \in Scheds : t # s => pending_list'[t] = pending_list[t]
      BY <1>0, <1>6, <2>2 DEF TdrFire
    <3>2. bad' \in Range(pending_list[s])
      BY <1>0, <2>2, <3>1, RangeTail DEF PendingInv, Pending
    <3>3. sched[bad'] = s
      BY <1>0, <3>2 DEF PendingInv, Pending
    <3> QED
      BY <1>0, <3>1, <3>3
  <2> QED
    BY <2>1, <2>2
<1>7. ASSUME SoftRecover PROVE TimerInv'
  BY <1>0, <1>1, <1>7 DEF SoftRecover
<1>8. ASSUME Recover PROVE TimerInv'
  BY <1>0, <1>1, <1>8 DEF Recover
<1>9. ASSUME NEW s \in Scheds, ParkThread(s) PROVE TimerInv'
  BY <1>0, <1>1, <1>9 DEF ParkThread
<1>10. ASSUME ReinsertBad PROVE TimerInv'
  BY <1>0, <1>1, <1>10 DEF ReinsertBad, ParkInv
<1>11. ASSUME UnhookJob PROVE TimerInv'
  BY <1>0, <1>1, <1>11 DEF UnhookJob
<1>12. ASSUME RemoveJob PROVE TimerInv'
  BY <1>0, <1>1, <1>12 DEF RemoveJob, ParkInv
<1>13. ASSUME StopDone PROVE TimerInv'
  BY <1>0, <1>1, <1>13 DEF StopDone, ParkInv
<1>14. ASSUME SkipReset PROVE TimerInv'
  BY <1>0, <1>1, <1>14 DEF SkipReset
<1>15. ASSUME NEW r \in BOOLEAN, Reset(r) PROVE TimerInv'
  BY <1>0, <1>1, <1>15 DEF Reset
<1>16. ASSUME NEW s \in Scheds, NoResubmit(s) PROVE TimerInv'
  BY <1>0, <1>1, <1>16 DEF NoResubmit
<1>17. ASSUME NEW s \in Scheds, NEW F \in SUBSET Jobs, Resubmit(s, F) PROVE TimerInv'
  BY <1>0, <1>1, <1>17 DEF Resubmit
<1>18. ASSUME StartJob PROVE TimerInv'
  BY <1>0, <1>1, <1>18 DEF StartJob
<1>19. ASSUME StartDone PROVE TimerInv'
  BY <1>0, <1>1, <1>19 DEF StartDone
<1>20. ASSUME StartFailed PROVE TimerInv'
  BY <1>0, <1>1, <1>20 DEF StartFailed
<1>21. ASSUME UnparkThread PROVE TimerInv'
  <2>1. /\ tpc = "jobs" /\ left = Len(pending_list[cur]) /\ cur \in Scheds
        /\ pending_list' = pending_list /\ abandoned' = abandoned /\ sched' = sched
        /\ bad' = bad /\ todo' = todo /\ cur' = cur
        /\ work_tdr' = [work_tdr EXCEPT ![cur] =
             @ \/ (mode # "failed" /\ StartTimeout(cur, pending_list[cur]))]
        /\ tpc' = IF todo = {} THEN "end" ELSE "start"
    BY <1>0, <1>21 DEF UnparkThread, ParkInv
  <2>2. ASSUME abandoned = {}, cur \in TdrScheds, pending_list[cur] # <<>> PROVE work_tdr'[cur]
    <3>1. mode # "failed"
      BY <1>0, <2>1, <2>2
    <3> QED
      BY <1>0, <2>1, <2>2, <3>1 DEF StartTimeout
  <2>3. ASSUME NEW s \in TdrScheds, NeedTimer(s)', s # cur PROVE NeedTimer(s) /\ work_tdr'[s] = work_tdr[s]
    BY <1>0, <2>1, <2>3
  <2> QED
    BY <2>1, <2>2, <2>3
<1>22. ASSUME TdrEnd PROVE TimerInv'
  BY <1>0, <1>1, <1>22 DEF TdrEnd, StartTimeout
<1> HIDE DEF TimerInv
<1>23. ASSUME Timeout PROVE TimerInv'
  BY <1>23, <1>6, <1>7, <1>8, <1>9, <1>10, <1>11, <1>12, <1>13, <1>14, <1>15, <1>16, <1>17,
     <1>18, <1>19, <1>20, <1>21, <1>22, Zenon DEF Timeout, Armed
<1> QED
  BY <1>3, <1>4, <1>5, <1>23 DEF Next, Interrupt

\* So it is always.
LEMMA TimerInvariant == Spec => []TimerInv
<1>1. Init => TimerInv
  BY SchedAssumption DEF Init, TimerInv
<1>2. TimerInv /\ UNCHANGED vars => TimerInv'
  BY DEF TimerInv, NeedTimer, vars, jobVars, pushVars, schedVars, listVars, tdrVars
<1>3. IInv /\ IInv' /\ TimerInv /\ [Next]_vars => TimerInv'
  BY <1>2, TimerInvStep
<1> QED
  BY Invariant, <1>1, <1>3, PTL DEF Spec

\* Between two timeouts no pending job is without a timer, however the cleanup of the main
\* thread, the start of a job and the handler cancel and restart it.
THEOREM TimerIsArmed == Spec => []TimerArmed
<1>1. TimerInv => TimerArmed
  BY DEF TimerInv, NeedTimer, TimerArmed
<1> QED
  BY TimerInvariant, <1>1, PTL

----------------------------------------------------------------------------
(* hw_rq_count                                                             *)

\* The jobs that count, and what the thread adds while it submits one.
Counts(j) == cb[j] \/ j \in abandoned
\* The jobs of s that count,
Tally(s) == {j \in Jobs : sched[j] = s /\ Counts(j)}
\* and whether its thread is between drm_sched_job_begin() and the callback.
Busy(s) == IF Running(s) THEN 1 ELSE 0

\* hw_rq_count of s is their number.
CountOk(s) == IsFiniteSet(Tally(s)) /\ hw_rq_count[s] = Cardinality(Tally(s)) + Busy(s)
\* hw_rq_count of every scheduler.
CountInv == \A s \in Scheds : CountOk(s)

\* A job does not change its scheduler while it counts.
LEMMA CountedStays ==
  ASSUME IInv, Next, NEW y \in Jobs, Counts(y) \/ Counts(y)'
  PROVE  sched'[y] = sched[y] /\ sched[y] \in Scheds
<1> USE DEF IInv
<1>1. CASE ent[y] # None
  <2>1. sched[y] # None /\ sched[y] \in Scheds \cup {None}
    BY <1>1 DEF JobsInv, Types, JobType
  <2> QED
    BY <1>1, <2>1, ArmedStays
<1>2. CASE ent[y] = None
  <2>1. Fresh(y)
    BY <1>2 DEF JobsInv
  <2>2. ~Leaves(y)
    BY <1>2, HeadQueued, SchedAssumption DEF Leaves
  <2>3. Fresh(y)'
    BY <2>1, <2>2, FreshStep
  <2> QED
    BY <2>1, <2>3 DEF Fresh, Unseen, Counts
<1> QED
  BY <1>1, <1>2

\* One job at most starts or stops to count, and hw_rq_count follows it.
One(b) == IF b THEN 1 ELSE 0

\* A step that changes whether one job x counts, on its scheduler p.
LEMMA OneJob ==
  ASSUME IInv, IInv', CountInv, Next, NEW x \in Jobs, NEW p \in Scheds, sched[x] = p,
         \A y \in Jobs : y # x => (Counts(y)' <=> Counts(y)),
         \A s \in Scheds : s # p => hw_rq_count'[s] = hw_rq_count[s] /\ (Running(s)' <=> Running(s)),
         hw_rq_count'[p] = hw_rq_count[p] + One(Counts(x)') - One(Counts(x)) + Busy(p)' - Busy(p)
  PROVE  CountInv'
<1>0. \A y \in Jobs : Counts(y) \/ Counts(y)' => sched'[y] = sched[y]
  BY CountedStays
<1>1. ASSUME NEW s \in Scheds, s # p PROVE CountOk(s)'
  <2>1. Tally(s)' = Tally(s)
    BY <1>0, <1>1 DEF Tally
  <2> QED
    BY <1>1, <2>1 DEF CountInv, CountOk, Busy
<1>2. CountOk(p)'
  <2> DEFINE S == Tally(p)
             T == Tally(p)'
  <2>1. /\ \A y : y # x => (y \in S <=> y \in T)
        /\ x \in S <=> Counts(x)
        /\ x \in T <=> Counts(x)'
    BY <1>0 DEF Tally
  <2>2. IsFiniteSet(S) /\ hw_rq_count[p] = Cardinality(S) + Busy(p)
    BY DEF CountInv, CountOk
  <2>3. /\ hw_rq_count'[p] = hw_rq_count[p] + One(x \in T) - One(x \in S) + Busy(p)' - Busy(p)
        /\ Busy(p) \in Int /\ Busy(p)' \in Int
    BY <2>1 DEF One, Busy
  <2> HIDE DEF S, T
  <2>4. /\ IsFiniteSet(T) /\ Cardinality(S) \in Nat /\ Cardinality(T) \in Nat
        /\ Cardinality(T) = Cardinality(S) + One(x \in T) - One(x \in S)
    BY <2>1, <2>2, CountChange DEF One
  <2>5. One(x \in T) \in Int /\ One(x \in S) \in Int
    BY DEF One
  <2>6. hw_rq_count'[p] = Cardinality(T) + Busy(p)'
    BY <2>2, <2>3, <2>4, <2>5
  <2> QED
    BY <2>4, <2>6 DEF CountOk, T
<1> QED
  BY <1>1, <1>2 DEF CountInv

\* A step that changes nothing of it.
LEMMA NoJob ==
  ASSUME IInv, CountInv, Next, UNCHANGED <<cb, abandoned, hw_rq_count>>,
         \A s \in Scheds : Running(s)' <=> Running(s)
  PROVE  CountInv'
<1>0. \A y \in Jobs : Counts(y) \/ Counts(y)' => sched'[y] = sched[y]
  BY CountedStays
<1>1. \A y \in Jobs : Counts(y)' <=> Counts(y)
  BY DEF Counts
<1>2. \A s \in Scheds : Tally(s)' = Tally(s)
  BY <1>0, <1>1 DEF Tally
<1> QED
  BY <1>2 DEF CountInv, CountOk, Busy

\* The job at which the handler is.
LEMMA AtPosition ==
  ASSUME Types, PendingInv, cur \in Scheds, NEW i \in 1 .. Len(pending_list[cur])
  PROVE  pending_list[cur][i] \in Jobs /\ sched[pending_list[cur][i]] = cur
<1>1. pending_list[cur] \in Seq(Jobs) /\ Pending(cur)
  BY DEF Types, SchedType, PendingInv
<1> QED
  BY <1>1, InRange DEF Pending

\* Every step keeps hw_rq_count exact.
LEMMA CountInvStep ==
  ASSUME IInv, IInv', CountInv, Next
  PROVE  CountInv'
<1> USE SchedAssumption
<1>0. /\ Types /\ Types' /\ ThreadInv /\ HoldInv /\ ParkInv /\ PendingInv /\ JobsInv /\ RunInv
      /\ QueueInv /\ CleanInv
      /\ hw_rq_count \in [Scheds -> Int] /\ spc \in [Scheds -> ThreadPcs] /\ left \in Nat
      /\ cb \in [Jobs -> BOOLEAN] /\ sjob \in [Scheds -> JobOrNone]
      /\ sent \in [Scheds -> Entities \cup {None}] /\ queue \in [Entities -> Seq(Jobs)]
  BY DEF IInv, Types, SchedType, TdrType, JobType, EntityType
<1>1. ASSUME NEW e \in Entities, Client(e) PROVE CountInv'
  <2>1. UNCHANGED <<cb, abandoned, hw_rq_count, spc>>
    BY <1>0, <1>1, ClientFrame
  <2> QED
    BY <2>1, NoJob DEF Running
<1>2. ASSUME UNCHANGED <<cb, abandoned, hw_rq_count, spc>> PROVE CountInv'
  BY <1>2, NoJob DEF Running
<1>3. ASSUME NEW s \in Scheds, Thread(s), UNCHANGED <<cb, abandoned, hw_rq_count>>,
             Running(s)' <=> Running(s)
      PROVE  CountInv'
  <2>1. \A t \in Scheds : t # s => spc'[t] = spc[t]
    BY <1>0, <1>3, ThreadFrame
  <2> QED
    BY <1>3, <2>1, NoJob DEF Running
<1> USE DEF pushVars, hwVars, jobVars, listVars, schedVars, threadVars
<1>4. ASSUME NEW s \in Scheds, Thread(s), GetCleanupJob(s) PROVE CountInv'
  BY <1>0, <1>2, <1>3, <1>4 DEF GetCleanupJob, Running, At
<1>5. ASSUME NEW s \in Scheds, Thread(s), FreeJob(s) PROVE CountInv'
  BY <1>0, <1>2, <1>3, <1>5 DEF FreeJob, Running, At
<1>6. ASSUME NEW s \in Scheds, Thread(s), NoCleanupJob(s) PROVE CountInv'
  BY <1>0, <1>2, <1>3, <1>6 DEF NoCleanupJob, Running, At
<1>7. ASSUME NEW s \in Scheds, Thread(s), Park(s) PROVE CountInv'
  BY <1>0, <1>2, <1>3, <1>7 DEF Park, Running, At
<1>8. ASSUME NEW s \in Scheds, Thread(s), Unpark(s) PROVE CountInv'
  BY <1>0, <1>2, <1>3, <1>8 DEF Unpark, Running, At
<1>9. ASSUME NEW s \in Scheds, NEW e \in Range(entities[s]), Thread(s), SelectEntity(s, e)
      PROVE  CountInv'
  BY <1>0, <1>2, <1>3, <1>9 DEF SelectEntity, Running, At
<1>10. ASSUME NEW s \in Scheds, Thread(s), Sleep(s) PROVE CountInv'
  BY <1>0, <1>2, <1>3, <1>10 DEF Sleep, Running, At
<1>11. ASSUME NEW s \in Scheds, Thread(s), WakeUp(s) PROVE CountInv'
  BY <1>0, <1>2, <1>3, <1>11 DEF WakeUp, Running, At
<1>12. ASSUME NEW s \in Scheds, NEW d \in Jobs, Thread(s), PopNextDep(s, d) PROVE CountInv'
  BY <1>0, <1>2, <1>3, <1>12 DEF PopNextDep, Running, At
<1>13. ASSUME NEW s \in Scheds, NEW d \in Jobs, Thread(s), PopWaitDep(s, d) PROVE CountInv'
  BY <1>0, <1>2, <1>3, <1>13 DEF PopWaitDep, Running, At
<1>14. ASSUME NEW s \in Scheds, Thread(s), PopJob(s) PROVE CountInv'
  <2> DEFINE e == sent[s]
             x == Head(queue[e])
  <2>1. e \in Entities /\ queue[e] # <<>> /\ rq_of[e] = s
    BY <1>0, <1>14 DEF PopJob, ThreadInv, HoldInv, Holds
  <2>2. /\ UNCHANGED <<cb, abandoned>> /\ hw_rq_count' = [hw_rq_count EXCEPT ![s] = @ + 1]
        /\ spc[s] = "pop" /\ spc' = [spc EXCEPT ![s] = "run"]
    BY <1>14 DEF PopJob, hwVars, At
  <2>7. x \in Jobs /\ sched[x] = s
    BY <1>0, <2>1, HeadQueued
  <2>3. PICK j \in Jobs : j = x /\ sched[j] = s
    BY <2>7
  <2>4. \A y \in Jobs : Counts(y)' <=> Counts(y)
    BY <2>2 DEF Counts
  <2>5. /\ \A t \in Scheds : t # s => hw_rq_count'[t] = hw_rq_count[t] /\ (Running(t)' <=> Running(t))
        /\ hw_rq_count'[s] = hw_rq_count[s] + 1 /\ ~Running(s) /\ Running(s)'
    BY <1>0, <2>2 DEF Running
  <2>6. hw_rq_count'[s] = hw_rq_count[s] + One(Counts(j)') - One(Counts(j)) + Busy(s)' - Busy(s)
    BY <1>0, <2>4, <2>5 DEF One, Busy
  <2> QED
    BY <2>3, <2>4, <2>5, <2>6, OneJob
<1>15. ASSUME NEW s \in Scheds, NEW r \in BOOLEAN, Thread(s), RunJob(s, r) PROVE CountInv'
  BY <1>0, <1>2, <1>3, <1>15 DEF RunJob, Running, At
<1>16. ASSUME NEW s \in Scheds, Thread(s), AddDoneCb(s) PROVE CountInv'
  <2> DEFINE x == sjob[s]
  <2>1. /\ abandoned' = abandoned /\ cb' = [cb EXCEPT ![x] = TRUE] /\ hw_rq_count' = hw_rq_count
        /\ spc[s] = "parent" /\ spc' = [spc EXCEPT ![s] = "top"]
    BY <1>16 DEF AddDoneCb, At, schedVars, listVars
  <2>2. x \in Jobs /\ sched[x] = s /\ s \in Scheds /\ ~Counts(x)
    BY <1>0, <2>1, NoneIsNoJob DEF RunInv, Running, Unseen, ThreadInv, JobOrNone, Counts
  <2>3. PICK j \in Jobs, p \in Scheds : j = x /\ p = s
    BY <2>2
  <2> HIDE DEF x
  <2>4. /\ \A y \in Jobs : y # j => (Counts(y)' <=> Counts(y))
        /\ ~Counts(j) /\ Counts(j)'
    BY <1>0, <2>1, <2>2, <2>3 DEF Counts
  <2>5. \A t \in Scheds : t # p => hw_rq_count'[t] = hw_rq_count[t] /\ (Running(t)' <=> Running(t))
    BY <1>0, <2>1, <2>2, <2>3 DEF Running
  <2>6. hw_rq_count'[p] = hw_rq_count[p] + One(Counts(j)') - One(Counts(j)) + Busy(p)' - Busy(p)
    BY <1>0, <2>1, <2>2, <2>3, <2>4 DEF One, Running, Busy
  <2> QED
    BY <2>2, <2>3, <2>4, <2>5, <2>6, OneJob
<1>17. ASSUME NEW s \in Scheds, Thread(s), DoneAtOnce(s) PROVE CountInv'
  <2> DEFINE x == sjob[s]
  <2>1. /\ abandoned' = abandoned /\ cb' = cb /\ hw_rq_count' = [hw_rq_count EXCEPT ![sched[x]] = @ - 1]
        /\ spc[s] = "parent" /\ spc' = [spc EXCEPT ![s] = "top"]
    BY <1>17 DEF DoneAtOnce, JobDone, At
  <2>2. x \in Jobs /\ sched[x] = s /\ s \in Scheds /\ ~Counts(x)
    BY <1>0, <2>1, NoneIsNoJob DEF RunInv, Running, Unseen, ThreadInv, JobOrNone, Counts
  <2>3. PICK j \in Jobs, p \in Scheds : j = x /\ p = s
    BY <2>2
  <2> HIDE DEF x
  <2>4. /\ \A y \in Jobs : y # j => (Counts(y)' <=> Counts(y))
        /\ ~Counts(j) /\ ~Counts(j)'
    BY <1>0, <2>1, <2>2, <2>3 DEF Counts
  <2>5. \A t \in Scheds : t # p => hw_rq_count'[t] = hw_rq_count[t] /\ (Running(t)' <=> Running(t))
    BY <1>0, <2>1, <2>2, <2>3 DEF Running
  <2>6. hw_rq_count'[p] = hw_rq_count[p] + One(Counts(j)') - One(Counts(j)) + Busy(p)' - Busy(p)
    BY <1>0, <2>1, <2>2, <2>3, <2>4 DEF One, Running, Busy
  <2> QED
    BY <2>2, <2>3, <2>4, <2>5, <2>6, OneJob
<1>18. ASSUME NEW s \in Scheds, NEW j \in Jobs, HwSilent(s, j) PROVE CountInv'
  BY <1>2, <1>18 DEF HwSilent
<1>19. ASSUME NEW s \in Scheds, NEW j \in Jobs, HwDone(s, j) PROVE CountInv'
  <2>1. /\ abandoned' = abandoned /\ cb' = [cb EXCEPT ![j] = FALSE] /\ cb[j]
        /\ hw_rq_count' = [hw_rq_count EXCEPT ![sched[j]] = @ - 1] /\ spc' = spc
    BY <1>19 DEF HwDone, JobDone, threadVars
  <2>2. j \in Jobs /\ sched[j] = sched[j] /\ sched[j] \in Scheds /\ j \notin abandoned
    BY <1>0, <2>1, CountedStays DEF CleanInv, Counts
  <2>3. PICK p \in Scheds : p = sched[j]
    BY <2>2
  <2>4. /\ \A y \in Jobs : y # j => (Counts(y)' <=> Counts(y))
        /\ Counts(j) /\ ~Counts(j)'
    BY <1>0, <2>1, <2>2, <2>3 DEF Counts
  <2>5. \A t \in Scheds : t # p => hw_rq_count'[t] = hw_rq_count[t] /\ (Running(t)' <=> Running(t))
    BY <1>0, <2>1, <2>2, <2>3 DEF Running
  <2>6. hw_rq_count'[p] = hw_rq_count[p] + One(Counts(j)') - One(Counts(j)) + Busy(p)' - Busy(p)
    BY <1>0, <2>1, <2>2, <2>3, <2>4 DEF One, Running, Busy
  <2> QED
    BY <2>2, <2>3, <2>4, <2>5, <2>6, OneJob
<1>20. ASSUME NEW s \in Scheds, DoneWake(s) PROVE CountInv'
  BY <1>2, <1>20 DEF DoneWake
<1>21. ASSUME NEW s \in Scheds, TdrFire(s) PROVE CountInv'
  BY <1>2, <1>21 DEF TdrFire
<1>22. ASSUME SoftRecover PROVE CountInv'
  BY <1>2, <1>22 DEF SoftRecover
<1>23. ASSUME Recover PROVE CountInv'
  BY <1>2, <1>23 DEF Recover
<1>24. ASSUME NEW s \in Scheds, ParkThread(s) PROVE CountInv'
  BY <1>2, <1>24 DEF ParkThread
<1>25. ASSUME ReinsertBad PROVE CountInv'
  BY <1>2, <1>25 DEF ReinsertBad
<1>26. ASSUME UnhookJob PROVE CountInv'
  <2> DEFINE x == pending_list[cur][left]
  <2>1. /\ abandoned' = abandoned /\ cb' = [cb EXCEPT ![x] = FALSE] /\ cb[x]
        /\ hw_rq_count' = [hw_rq_count EXCEPT ![cur] = @ - 1] /\ spc' = spc /\ tpc = "unhook" /\ left > 0
    BY <1>26 DEF UnhookJob, Unhooked, threadVars
  <2>2. x \in Jobs /\ sched[x] = cur /\ cur \in Scheds /\ x \notin abandoned
    <3>1. cur \in Scheds /\ left \in 1 .. Len(pending_list[cur])
      BY <1>0, <2>1 DEF ParkInv, CleanInv
    <3> QED
      BY <1>0, <2>1, <3>1, AtPosition DEF CleanInv
  <2>3. PICK j \in Jobs, p \in Scheds : j = x /\ p = cur
    BY <2>2
  <2> HIDE DEF x
  <2>4. /\ \A y \in Jobs : y # j => (Counts(y)' <=> Counts(y))
        /\ Counts(j) /\ ~Counts(j)'
    BY <1>0, <2>1, <2>2, <2>3 DEF Counts
  <2>5. \A t \in Scheds : t # p => hw_rq_count'[t] = hw_rq_count[t] /\ (Running(t)' <=> Running(t))
    BY <1>0, <2>1, <2>2, <2>3 DEF Running
  <2>6. hw_rq_count'[p] = hw_rq_count[p] + One(Counts(j)') - One(Counts(j)) + Busy(p)' - Busy(p)
    BY <1>0, <2>1, <2>2, <2>3, <2>4 DEF One, Running, Busy
  <2> QED
    BY <2>2, <2>3, <2>4, <2>5, <2>6, OneJob
<1>27. ASSUME RemoveJob PROVE CountInv'
  BY <1>2, <1>27 DEF RemoveJob
<1>28. ASSUME StopDone PROVE CountInv'
  BY <1>2, <1>28 DEF StopDone
<1>29. ASSUME SkipReset PROVE CountInv'
  BY <1>2, <1>29 DEF SkipReset
<1>30. ASSUME NEW r \in BOOLEAN, Reset(r) PROVE CountInv'
  BY <1>2, <1>30 DEF Reset
<1>31. ASSUME NEW s \in Scheds, NoResubmit(s) PROVE CountInv'
  BY <1>2, <1>31 DEF NoResubmit
<1>32. ASSUME NEW s \in Scheds, NEW F \in SUBSET Jobs, Resubmit(s, F) PROVE CountInv'
  BY <1>2, <1>32 DEF Resubmit
<1>33. ASSUME StartJob PROVE CountInv'
  <2> DEFINE x == pending_list[cur][left + 1]
  <2>1. /\ abandoned' = abandoned /\ cb' = [cb EXCEPT ![x] = TRUE] /\ left < Len(pending_list[cur])
        /\ hw_rq_count' = [hw_rq_count EXCEPT ![cur] = @ + 1] /\ spc' = spc /\ tpc = "jobs"
    BY <1>33 DEF StartJob, threadVars
  <2>2. x \in Jobs /\ sched[x] = cur /\ cur \in Scheds /\ ~Counts(x)
    <3>1. cur \in Scheds /\ left + 1 \in 1 .. Len(pending_list[cur]) /\ tpc = "jobs"
      BY <1>0, <2>1 DEF ParkInv
    <3>2. Clean(x)
      <4>1. \A i \in left + 1 .. Len(pending_list[cur]) : Clean(pending_list[cur][i])
        BY <1>0, <3>1 DEF CleanInv
      <4> QED
        BY <1>0, <3>1, <4>1
    <3> QED
      BY <1>0, <3>1, <3>2, AtPosition DEF Clean, Counts
  <2>3. PICK j \in Jobs, p \in Scheds : j = x /\ p = cur
    BY <2>2
  <2> HIDE DEF x
  <2>4. /\ \A y \in Jobs : y # j => (Counts(y)' <=> Counts(y))
        /\ ~Counts(j) /\ Counts(j)'
    BY <1>0, <2>1, <2>2, <2>3 DEF Counts
  <2>5. \A t \in Scheds : t # p => hw_rq_count'[t] = hw_rq_count[t] /\ (Running(t)' <=> Running(t))
    BY <1>0, <2>1, <2>2, <2>3 DEF Running
  <2>6. hw_rq_count'[p] = hw_rq_count[p] + One(Counts(j)') - One(Counts(j)) + Busy(p)' - Busy(p)
    BY <1>0, <2>1, <2>2, <2>3, <2>4 DEF One, Running, Busy
  <2> QED
    BY <2>2, <2>3, <2>4, <2>5, <2>6, OneJob
<1>34. ASSUME StartDone PROVE CountInv'
  BY <1>2, <1>34 DEF StartDone
<1>35. ASSUME StartFailed PROVE CountInv'
  <2> DEFINE x == pending_list[cur][left + 1]
  <2>1. /\ abandoned' = abandoned \cup {x} /\ cb' = cb /\ left < Len(pending_list[cur])
        /\ hw_rq_count' = [hw_rq_count EXCEPT ![cur] = @ + 1] /\ spc' = spc /\ tpc = "jobs"
    BY <1>35 DEF StartFailed, threadVars, hwVars
  <2>2. x \in Jobs /\ sched[x] = cur /\ cur \in Scheds /\ ~Counts(x)
    <3>1. cur \in Scheds /\ left + 1 \in 1 .. Len(pending_list[cur]) /\ tpc = "jobs"
      BY <1>0, <2>1 DEF ParkInv
    <3>2. Clean(x)
      <4>1. \A i \in left + 1 .. Len(pending_list[cur]) : Clean(pending_list[cur][i])
        BY <1>0, <3>1 DEF CleanInv
      <4> QED
        BY <1>0, <3>1, <4>1
    <3> QED
      BY <1>0, <3>1, <3>2, AtPosition DEF Clean, Counts
  <2>3. PICK j \in Jobs, p \in Scheds : j = x /\ p = cur
    BY <2>2
  <2> HIDE DEF x
  <2>4. /\ \A y \in Jobs : y # j => (Counts(y)' <=> Counts(y))
        /\ ~Counts(j) /\ Counts(j)'
    BY <1>0, <2>1, <2>2, <2>3 DEF Counts
  <2>5. \A t \in Scheds : t # p => hw_rq_count'[t] = hw_rq_count[t] /\ (Running(t)' <=> Running(t))
    BY <1>0, <2>1, <2>2, <2>3 DEF Running
  <2>6. hw_rq_count'[p] = hw_rq_count[p] + One(Counts(j)') - One(Counts(j)) + Busy(p)' - Busy(p)
    BY <1>0, <2>1, <2>2, <2>3, <2>4 DEF One, Running, Busy
  <2> QED
    BY <2>2, <2>3, <2>4, <2>5, <2>6, OneJob
<1>36. ASSUME UnparkThread PROVE CountInv'
  BY <1>2, <1>36 DEF UnparkThread
<1>37. ASSUME TdrEnd PROVE CountInv'
  BY <1>2, <1>37 DEF TdrEnd
<1>38. ASSUME NEW j \in Jobs, KillWork(j) PROVE CountInv'
  BY <1>2, <1>38 DEF KillWork
<1>39. ASSUME NEW s \in Scheds, Thread(s) PROVE CountInv'
  BY <1>39, <1>4, <1>5, <1>6, <1>7, <1>8, <1>9, <1>10, <1>11, <1>12, <1>13, <1>14, <1>15,
     <1>16, <1>17, ZenonT(60) DEF Thread
<1>40. ASSUME NEW s \in Scheds, Hardware(s) PROVE CountInv'
  BY <1>40, <1>18, <1>19, Zenon DEF Hardware
<1>41. ASSUME Timeout PROVE CountInv'
  BY <1>41, <1>21, <1>22, <1>23, <1>24, <1>25, <1>26, <1>27, <1>28, <1>29, <1>30, <1>31,
     <1>32, <1>33, <1>34, <1>35, <1>36, <1>37, Zenon DEF Timeout, Armed
<1> QED
  BY <1>1, <1>39, <1>40, <1>41, <1>20, <1>38 DEF Next

\* So it is always.
LEMMA CountInvariant == Spec => []CountInv
<1>1. Init => CountInv
  <2> SUFFICES ASSUME Init, NEW s \in Scheds PROVE CountOk(s)
    BY DEF CountInv
  <2>1. Tally(s) = {}
    BY DEF Init, Tally, Counts
  <2>2. hw_rq_count[s] = 0 /\ Busy(s) = 0
    BY DEF Init, Busy, Running
  <2> QED
    BY <2>1, <2>2, FS_EmptySet DEF CountOk
<1>2. CountInv /\ UNCHANGED vars => CountInv'
  <2> SUFFICES ASSUME CountInv, UNCHANGED vars PROVE CountInv'
    OBVIOUS
  <2>1. UNCHANGED <<sched, cb, abandoned, hw_rq_count, spc>>
    BY DEF vars, jobVars, pushVars, hwVars, schedVars, listVars, threadVars
  <2>2. \A s \in Scheds : Tally(s)' = Tally(s)
    BY <2>1 DEF Tally, Counts
  <2> QED
    BY <2>1, <2>2 DEF CountInv, CountOk, Busy, Running
<1>3. IInv /\ IInv' /\ CountInv /\ [Next]_vars => CountInv'
  BY <1>2, CountInvStep
<1> QED
  BY Invariant, <1>1, <1>3, PTL DEF Spec

\* Completion by the interrupt, by the thread that finds the fence signalled already, the
\* stop and the start around a reset: each takes hw_rq_count up and down exactly once per job.
THEOREM HwCountIsExact == Spec => []HwCountExact
<1>1. CountInv => HwCountExact
  BY DEF CountInv, CountOk, HwCountExact, Tally, Counts, Busy
<1> QED
  BY CountInvariant, <1>1, PTL

----------------------------------------------------------------------------
(* Who owns a job                                                          *)

\* The finished fence and the freed jobs are Boolean.
OwnTypes == freed \in [Jobs -> BOOLEAN] /\ free_guilty \in [Scheds -> BOOLEAN]

\* A job whose callback is linked to the fence of the hardware has not finished.
CbInv == \A j \in Jobs : cb[j] => ~finished[j]

\* Neither has a job that drm_sched_stop() has left on its list.
StopInv ==
  /\ \A s \in Scheds : Stopped(s) =>
       \A i \in 1 .. Len(pending_list[s]) : ~finished[pending_list[s][i]]
  /\ tpc \in {"unhook", "jobs"} =>
       \A i \in left + 1 .. Len(pending_list[cur]) : ~finished[pending_list[cur][i]]

\* No thread has j, and it is on no list of pending jobs.
Unlisted(j) == \A s \in Scheds : sjob[s] # j /\ j \notin Range(pending_list[s])

\* kill_jobs has taken j off the queue: its work item waits for the last job of the entity,
\* or is queued.
Killing(j) == finish_cb[j] # None \/ j \in work

\* Nobody else has a job that kill_jobs has taken, and it waits either for the callback or for
\* its work item.
KillInv ==
  \A j \in Jobs : Killing(j) =>
    ent[j] # None /\ ~(finish_cb[j] # None /\ j \in work) /\ ~cb[j] /\ bad # j /\ Unlisted(j)

\* The job that a thread is about to free.
FreeInv ==
  \A s \in Scheds : spc[s] = "free" =>
    /\ finished[sjob[s]] /\ sched[sjob[s]] = s /\ sjob[s] \notin Range(pending_list[s])
    /\ BadOut => bad # sjob[s]

\* The bad job, when drm_sched_stop() has found it finished and has left it to the handler.
GuiltyInv ==
  \A s \in Scheds : free_guilty[s] =>
    bad # None /\ sched[bad] = s /\ ~BadOut /\ finished[bad] /\ Unlisted(bad)

\* A job that has been freed is nowhere.
FreedInv ==
  \A j \in Jobs : freed[j] =>
    /\ ent[j] # None /\ finished[j] /\ Unlisted(j) /\ ~Killing(j)
    /\ bad = j => tpc \in {"start", "jobs", "end"} /\ ~free_guilty[sched[j]]

\* A job that has not been freed is somewhere.
Kept(j) ==
  \/ freed[j] \/ Killing(j)
  \/ \E e \in Entities : j \in Range(queue[e])
  \/ \E s \in Scheds : j \in Range(pending_list[s]) \/ (sjob[s] = j /\ spc[s] = "free")
  \/ bad = j /\ (BadOut \/ free_guilty[sched[j]])

\* Where recovery is not soft every armed job is somewhere.
KeptInv == SoftRecovery \/ \A j \in Jobs : ent[j] # None => Kept(j)

\* What freeing every job once needs, beyond IInv.
OwnInv ==
  OwnTypes /\ CbInv /\ StopInv /\ KillInv /\ FreeInv /\ GuiltyInv /\ FreedInv /\ KeptInv

\* A fence of a job is signalled by the thread that has submitted the job, by the hardware,
\* by the work item of kill_jobs, or by drm_sched_start().
AtStart(x) ==
  /\ tpc = "jobs" /\ left < Len(pending_list[cur]) /\ x = pending_list[cur][left + 1]
  /\ left' = left + 1
\* How the finished fence of x comes to be signalled.
EndedBy(x) ==
  \/ cb[x] /\ ~cb'[x]
  \/ cb' = cb /\ ((\E s \in Scheds : sjob[s] = x /\ spc[s] = "parent") \/ x \in work \/ AtStart(x))

\* It is signalled in no other way.
LEMMA Ends ==
  ASSUME Types, ThreadInv, Next, NEW x \in Jobs, finished'[x]
  PROVE  finished[x] \/ EndedBy(x)
<1> USE SchedAssumption DEF fenceVars, jobVars
<1> DEFINE Goal == finished'[x] => finished[x] \/ EndedBy(x)
<1>0. cb \in [Jobs -> BOOLEAN] /\ finished \in [Jobs -> BOOLEAN]
  BY DEF Types, JobType
<1>1. ASSUME finished' = finished PROVE Goal
  BY <1>1
<1>2. ASSUME NEW e \in Entities, Client(e) PROVE Goal
  BY <1>1, <1>2, ClientFrame
<1>3. ASSUME NEW s \in Scheds, GetCleanupJob(s) PROVE Goal
  BY <1>1, <1>3 DEF GetCleanupJob
<1>4. ASSUME NEW s \in Scheds, FreeJob(s) PROVE Goal
  BY <1>1, <1>4 DEF FreeJob
<1>5. ASSUME NEW s \in Scheds, NoCleanupJob(s) PROVE Goal
  BY <1>1, <1>5 DEF NoCleanupJob
<1>6. ASSUME NEW s \in Scheds, Park(s) PROVE Goal
  BY <1>1, <1>6 DEF Park
<1>7. ASSUME NEW s \in Scheds, Unpark(s) PROVE Goal
  BY <1>1, <1>7 DEF Unpark
<1>8. ASSUME NEW s \in Scheds, NEW e \in Range(entities[s]), SelectEntity(s, e) PROVE Goal
  BY <1>1, <1>8 DEF SelectEntity
<1>9. ASSUME NEW s \in Scheds, Sleep(s) PROVE Goal
  BY <1>1, <1>9 DEF Sleep
<1>10. ASSUME NEW s \in Scheds, WakeUp(s) PROVE Goal
  BY <1>1, <1>10 DEF WakeUp
<1>11. ASSUME NEW s \in Scheds, NEW d \in Jobs, PopNextDep(s, d) PROVE Goal
  BY <1>1, <1>11 DEF PopNextDep
<1>12. ASSUME NEW s \in Scheds, NEW d \in Jobs, PopWaitDep(s, d) PROVE Goal
  BY <1>1, <1>12 DEF PopWaitDep
<1>13. ASSUME NEW s \in Scheds, PopJob(s) PROVE Goal
  BY <1>1, <1>13 DEF PopJob
<1>14. ASSUME NEW s \in Scheds, NEW r \in BOOLEAN, RunJob(s, r) PROVE Goal
  BY <1>1, <1>14 DEF RunJob
<1>15. ASSUME NEW s \in Scheds, AddDoneCb(s) PROVE Goal
  BY <1>1, <1>15 DEF AddDoneCb
<1>16. ASSUME NEW s \in Scheds, DoneAtOnce(s) PROVE Goal
  BY <1>0, <1>16 DEF DoneAtOnce, JobDone, SignalFinished, EndedBy
<1>17. ASSUME NEW s \in Scheds, NEW j \in Jobs, HwSilent(s, j) PROVE Goal
  BY <1>1, <1>17 DEF HwSilent
<1>18. ASSUME NEW s \in Scheds, NEW j \in Jobs, HwDone(s, j) PROVE Goal
  BY <1>0, <1>18 DEF HwDone, JobDone, SignalFinished, EndedBy
<1>19. ASSUME NEW s \in Scheds, DoneWake(s) PROVE Goal
  BY <1>1, <1>19 DEF DoneWake
<1>20. ASSUME NEW s \in Scheds, TdrFire(s) PROVE Goal
  BY <1>1, <1>20 DEF TdrFire
<1>21. ASSUME SoftRecover PROVE Goal
  BY <1>1, <1>21 DEF SoftRecover
<1>22. ASSUME Recover PROVE Goal
  BY <1>1, <1>22 DEF Recover
<1>23. ASSUME NEW s \in Scheds, ParkThread(s) PROVE Goal
  BY <1>1, <1>23 DEF ParkThread
<1>24. ASSUME ReinsertBad PROVE Goal
  BY <1>1, <1>24 DEF ReinsertBad
<1>25. ASSUME UnhookJob PROVE Goal
  BY <1>1, <1>25 DEF UnhookJob
<1>26. ASSUME RemoveJob PROVE Goal
  BY <1>1, <1>26 DEF RemoveJob
<1>27. ASSUME StopDone PROVE Goal
  BY <1>1, <1>27 DEF StopDone
<1>28. ASSUME SkipReset PROVE Goal
  BY <1>1, <1>28 DEF SkipReset
<1>29. ASSUME NEW r \in BOOLEAN, Reset(r) PROVE Goal
  BY <1>1, <1>29 DEF Reset
<1>30. ASSUME NEW s \in Scheds, NoResubmit(s) PROVE Goal
  BY <1>1, <1>30 DEF NoResubmit
<1>31. ASSUME NEW s \in Scheds, NEW F \in SUBSET Jobs, Resubmit(s, F) PROVE Goal
  BY <1>1, <1>31 DEF Resubmit
<1>32. ASSUME StartJob PROVE Goal
  BY <1>1, <1>32 DEF StartJob
<1>33. ASSUME StartDone PROVE Goal
  BY <1>0, <1>33 DEF StartDone, SignalFinished, EndedBy, AtStart, hwVars
<1>34. ASSUME StartFailed PROVE Goal
  BY <1>1, <1>34 DEF StartFailed
<1>35. ASSUME UnparkThread PROVE Goal
  BY <1>1, <1>35 DEF UnparkThread
<1>36. ASSUME TdrEnd PROVE Goal
  BY <1>1, <1>36 DEF TdrEnd
<1>37. ASSUME NEW j \in Jobs, KillWork(j) PROVE Goal
  BY <1>0, <1>37 DEF KillWork, SignalFinished, EndedBy, hwVars
<1> HIDE DEF Goal
<1>38. ASSUME NEW s \in Scheds, Thread(s) PROVE Goal
  BY <1>38, <1>3, <1>4, <1>5, <1>6, <1>7, <1>8, <1>9, <1>10, <1>11, <1>12, <1>13, <1>14,
     <1>15, <1>16, ZenonT(60) DEF Thread
<1>39. ASSUME NEW s \in Scheds, Hardware(s) PROVE Goal
  BY <1>39, <1>17, <1>18, Zenon DEF Hardware
<1>40. ASSUME Timeout PROVE Goal
  BY <1>40, <1>20, <1>21, <1>22, <1>23, <1>24, <1>25, <1>26, <1>27, <1>28, <1>29, <1>30,
     <1>31, <1>32, <1>33, <1>34, <1>35, <1>36, Zenon DEF Timeout, Armed
<1>41. Goal
  BY <1>2, <1>38, <1>39, <1>40, <1>19, <1>37 DEF Next
<1> QED
  BY <1>41 DEF Goal

\* What a fence that is signalled does to the job that kill_jobs has taken: its work item
\* is queued, if it waited for that fence.
LEMMA KillSignal ==
  ASSUME Types, NEW x \in Jobs, NEW j \in Jobs, NEW c, NEW ss, SignalFinished(j, c, ss)
  PROVE  /\ work' \subseteq work \cup Killed(j) =>
              /\ Killing(x)' => Killing(x)
              /\ finish_cb'[x] # None /\ x \in work' => finish_cb[x] # None /\ x \in work
         /\ (x \in work \cup Killed(j) => x \in work') /\ Killing(x) => Killing(x)'
<1>1. finish_cb'[x] = IF finish_cb[x] = j THEN None ELSE finish_cb[x]
  BY DEF SignalFinished
<1>2. x \in Killed(j) <=> finish_cb[x] = j
  BY DEF Killed
<1>3. j # None
  BY NoneIsNoJob
<1> QED
  BY <1>1, <1>2, <1>3 DEF Killing

\* How a job comes to be with kill_jobs, and moves from the callback to the work item.
KillMoves(x) ==
  \/ Killing(x) /\ (finish_cb'[x] # None /\ x \in work' => finish_cb[x] # None /\ x \in work)
  \/ /\ \E e \in Entities : queue[e] # <<>> /\ x = Head(queue[e])
     /\ UNCHANGED <<sjob, pending_list, bad, cb>> /\ ~(finish_cb'[x] # None /\ x \in work')

\* A job comes there in no other way.
LEMMA KillStep ==
  ASSUME Types, ParkInv, ThreadInv, QueueInv, Next, NEW x \in Jobs, Killing(x)'
  PROVE  KillMoves(x)
<1> USE SchedAssumption DEF killVars, jobVars
<1> DEFINE Goal == Killing(x)' => KillMoves(x)
<1>1. ASSUME UNCHANGED <<finish_cb, work>> PROVE Goal
  BY <1>1 DEF Killing, KillMoves
<1>2. ASSUME NEW j \in Jobs, NEW c, NEW ss, SignalFinished(j, c, ss),
             work' \subseteq work \cup Killed(j)
      PROVE  Goal
  BY <1>2, KillSignal DEF KillMoves
<1>3. ASSUME NEW e \in Entities, NEW j \in Jobs, NEW D \in SUBSET Jobs, NEW s \in Scheds,
             PushJob(e, j, D, s)
      PROVE  Goal
  BY <1>1, <1>3 DEF PushJob
<1>4. ASSUME NEW e \in Entities, PushStopped(e) PROVE Goal
  BY <1>1, <1>4 DEF PushStopped
<1>5. ASSUME NEW e \in Entities, AddEntity(e) PROVE Goal
  BY <1>1, <1>5 DEF AddEntity
<1>6. ASSUME NEW e \in Entities, PushWake(e) PROVE Goal
  BY <1>1, <1>6 DEF PushWake
<1>7. ASSUME NEW e \in Entities, Flush(e) PROVE Goal
  BY <1>1, <1>7 DEF Flush
<1>8. ASSUME NEW e \in Entities, FlushSleep(e) PROVE Goal
  BY <1>1, <1>8 DEF FlushSleep
<1>9. ASSUME NEW e \in Entities, NEW kill \in BOOLEAN, NEW next \in {"open", "fini"},
             FlushEnd(e, kill, next)
      PROVE  Goal
  BY <1>1, <1>9 DEF FlushEnd
<1>10. ASSUME NEW e \in Entities, Fini(e) PROVE Goal
  BY <1>1, <1>10 DEF Fini
<1>11. ASSUME NEW e \in Entities, ClearDependency(e) PROVE Goal
  BY <1>1, <1>11 DEF ClearDependency
<1>12. ASSUME NEW e \in Entities, KillJob(e) PROVE Goal
  <2> DEFINE j == Head(queue[e])
  <2>1. queue[e] # <<>> /\ j \in Jobs /\ Fresh(j)
    BY <1>12, HeadQueued DEF KillJob
  <2>2. j \notin work /\ finish_cb[j] = None
    BY <2>1 DEF Fresh, Unseen
  <2>3. UNCHANGED <<sjob, pending_list, bad, cb>>
    BY <1>12 DEF KillJob, hwVars, schedVars, listVars, threadVars, tdrVars
  <2>4. /\ \/ finish_cb'[j] = None
           \/ work' = work
        /\ \A y \in Jobs : y # j => finish_cb'[y] = finish_cb[y] /\ (y \in work' <=> y \in work)
    BY <1>12, <2>1 DEF KillJob, Types, JobType
  <2> HIDE DEF j
  <2>5. CASE x = j
    BY <2>1, <2>2, <2>3, <2>4, <2>5 DEF KillMoves, j
  <2>6. CASE x # j
    BY <2>4, <2>6 DEF KillMoves, Killing
  <2> QED
    BY <2>5, <2>6
<1>13. ASSUME NEW e \in Entities, PutLast(e) PROVE Goal
  BY <1>1, <1>13 DEF PutLast
<1>14. ASSUME NEW s \in Scheds, GetCleanupJob(s) PROVE Goal
  BY <1>1, <1>14 DEF GetCleanupJob
<1>15. ASSUME NEW s \in Scheds, FreeJob(s) PROVE Goal
  BY <1>1, <1>15 DEF FreeJob
<1>16. ASSUME NEW s \in Scheds, NoCleanupJob(s) PROVE Goal
  BY <1>1, <1>16 DEF NoCleanupJob
<1>17. ASSUME NEW s \in Scheds, Park(s) PROVE Goal
  BY <1>1, <1>17 DEF Park
<1>18. ASSUME NEW s \in Scheds, Unpark(s) PROVE Goal
  BY <1>1, <1>18 DEF Unpark
<1>19. ASSUME NEW s \in Scheds, NEW e \in Range(entities[s]), SelectEntity(s, e) PROVE Goal
  BY <1>1, <1>19 DEF SelectEntity
<1>20. ASSUME NEW s \in Scheds, Sleep(s) PROVE Goal
  BY <1>1, <1>20 DEF Sleep
<1>21. ASSUME NEW s \in Scheds, WakeUp(s) PROVE Goal
  BY <1>1, <1>21 DEF WakeUp
<1>22. ASSUME NEW s \in Scheds, NEW d \in Jobs, PopNextDep(s, d) PROVE Goal
  BY <1>1, <1>22 DEF PopNextDep
<1>23. ASSUME NEW s \in Scheds, NEW d \in Jobs, PopWaitDep(s, d) PROVE Goal
  BY <1>1, <1>23 DEF PopWaitDep
<1>24. ASSUME NEW s \in Scheds, PopJob(s) PROVE Goal
  BY <1>1, <1>24 DEF PopJob
<1>25. ASSUME NEW s \in Scheds, NEW r \in BOOLEAN, RunJob(s, r) PROVE Goal
  BY <1>1, <1>25 DEF RunJob
<1>26. ASSUME NEW s \in Scheds, AddDoneCb(s) PROVE Goal
  BY <1>1, <1>26 DEF AddDoneCb
<1>27. ASSUME NEW s \in Scheds, DoneAtOnce(s) PROVE Goal
  <2>1. sjob[s] \in Jobs
    BY <1>27 DEF DoneAtOnce, ThreadInv, Types, SchedType, JobOrNone
  <2>2. SignalFinished(sjob[s], hw_rq_count', {s}) /\ work' = work \cup Killed(sjob[s])
    BY <1>27 DEF DoneAtOnce, JobDone
  <2> QED
    BY <1>2, <2>1, <2>2
<1>28. ASSUME NEW s \in Scheds, NEW j \in Jobs, HwSilent(s, j) PROVE Goal
  BY <1>1, <1>28 DEF HwSilent
<1>29. ASSUME NEW s \in Scheds, NEW j \in Jobs, HwDone(s, j) PROVE Goal
  BY <1>2, <1>29 DEF HwDone, JobDone
<1>30. ASSUME NEW s \in Scheds, DoneWake(s) PROVE Goal
  BY <1>1, <1>30 DEF DoneWake
<1>31. ASSUME NEW s \in Scheds, TdrFire(s) PROVE Goal
  BY <1>1, <1>31 DEF TdrFire
<1>32. ASSUME SoftRecover PROVE Goal
  BY <1>1, <1>32 DEF SoftRecover
<1>33. ASSUME Recover PROVE Goal
  BY <1>1, <1>33 DEF Recover
<1>34. ASSUME NEW s \in Scheds, ParkThread(s) PROVE Goal
  BY <1>1, <1>34 DEF ParkThread
<1>35. ASSUME ReinsertBad PROVE Goal
  BY <1>1, <1>35 DEF ReinsertBad
<1>36. ASSUME UnhookJob PROVE Goal
  BY <1>1, <1>36 DEF UnhookJob
<1>37. ASSUME RemoveJob PROVE Goal
  BY <1>1, <1>37 DEF RemoveJob
<1>38. ASSUME StopDone PROVE Goal
  BY <1>1, <1>38 DEF StopDone
<1>39. ASSUME SkipReset PROVE Goal
  BY <1>1, <1>39 DEF SkipReset
<1>40. ASSUME NEW r \in BOOLEAN, Reset(r) PROVE Goal
  BY <1>1, <1>40 DEF Reset
<1>41. ASSUME NEW s \in Scheds, NoResubmit(s) PROVE Goal
  BY <1>1, <1>41 DEF NoResubmit
<1>42. ASSUME NEW s \in Scheds, NEW F \in SUBSET Jobs, Resubmit(s, F) PROVE Goal
  BY <1>1, <1>42 DEF Resubmit
<1>43. ASSUME StartJob PROVE Goal
  BY <1>1, <1>43 DEF StartJob
<1>44. ASSUME StartDone PROVE Goal
  <2>1. cur \in Scheds /\ left + 1 \in 1 .. Len(pending_list[cur]) /\ pending_list[cur] \in Seq(Jobs)
    BY <1>44 DEF StartDone, ParkInv, Types, TdrType, SchedType
  <2>2. pending_list[cur][left + 1] \in Jobs
    BY <2>1
  <2> QED
    BY <1>2, <1>44, <2>2 DEF StartDone
<1>45. ASSUME StartFailed PROVE Goal
  BY <1>1, <1>45 DEF StartFailed
<1>46. ASSUME UnparkThread PROVE Goal
  BY <1>1, <1>46 DEF UnparkThread
<1>47. ASSUME TdrEnd PROVE Goal
  BY <1>1, <1>47 DEF TdrEnd
<1>48. ASSUME NEW j \in Jobs, KillWork(j) PROVE Goal
  <2>1. SignalFinished(j, hw_rq_count, {}) /\ work' \subseteq work \cup Killed(j)
    BY <1>48 DEF KillWork
  <2> QED
    BY <1>2, <2>1
<1> HIDE DEF Goal
<1>49. ASSUME NEW e \in Entities, Client(e) PROVE Goal
  <2>1. CASE Submit(e)
    <3>1. PICK j \in Jobs, D \in SUBSET Jobs, s \in Scheds : PushJob(e, j, D, s)
      BY <2>1, NewRqType DEF Submit, Armed
    <3> QED
      BY <1>3, <3>1
  <2> QED
    BY <1>49, <2>1, <1>4, <1>5, <1>6, <1>7, <1>8, <1>9, <1>10, <1>11, <1>12, <1>13, Zenon DEF
       Client
<1>50. ASSUME NEW s \in Scheds, Thread(s) PROVE Goal
  BY <1>50, <1>14, <1>15, <1>16, <1>17, <1>18, <1>19, <1>20, <1>21, <1>22, <1>23, <1>24,
     <1>25, <1>26, <1>27, ZenonT(60) DEF Thread
<1>51. ASSUME NEW s \in Scheds, Hardware(s) PROVE Goal
  BY <1>51, <1>28, <1>29, Zenon DEF Hardware
<1>52. ASSUME Timeout PROVE Goal
  BY <1>52, <1>31, <1>32, <1>33, <1>34, <1>35, <1>36, <1>37, <1>38, <1>39, <1>40, <1>41,
     <1>42, <1>43, <1>44, <1>45, <1>46, <1>47, Zenon DEF Timeout, Armed
<1>53. Goal
  BY <1>49, <1>50, <1>51, <1>52, <1>30, <1>48 DEF Next
<1> QED
  BY <1>53 DEF Goal

\* A job that no thread has and that is on no list comes there from its queue, or as the
\* bad job that is put back.
LEMMA UnlistedStep ==
  ASSUME IInv, Next, NEW x \in Jobs, Unlisted(x), ~Fresh(x), ~(bad = x /\ BadOut)
  PROVE  Unlisted(x)'
<1>0. Types /\ ParkInv /\ ThreadInv /\ HoldInv /\ QueueInv /\ PendingInv
  BY DEF IInv
<1>1. ASSUME NEW e \in Entities, queue[e] # <<>> PROVE x # Head(queue[e])
  BY <1>0, <1>1, HeadQueued
<1>2. ASSUME NEW s \in Scheds, x \in Range(pending_list'[s]) PROVE FALSE
  BY <1>0, <1>1, <1>2, PendingStep DEF PendingMoves, Joins, Unlisted
<1>3. ASSUME NEW s \in Scheds, sjob'[s] = x PROVE FALSE
  <2>1. sjob'[s] # None
    BY <1>3, NoneIsNoJob
  <2> QED
    BY <1>0, <1>1, <1>3, <2>1, JobTakenStep DEF JobTaken, Unlisted
<1> QED
  BY <1>2, <1>3 DEF Unlisted

\* The job at which drm_sched_start() is has neither a callback nor finished.
LEMMA AtRestart ==
  ASSUME Types, ParkInv, CleanInv, StopInv, NEW x, tpc = "jobs", left < Len(pending_list[cur]),
         x = pending_list[cur][left + 1]
  PROVE  x \in Jobs /\ Clean(x) /\ ~finished[x]
<1>1. /\ cur \in Scheds /\ pending_list[cur] \in Seq(Jobs) /\ left + 1 \in 1 .. Len(pending_list[cur])
      /\ left + 1 \in left + 1 .. Len(pending_list[cur])
  BY DEF Types, ParkInv, SchedType, TdrType
<1>2. \A i \in left + 1 .. Len(pending_list[cur]) :
        Clean(pending_list[cur][i]) /\ ~finished[pending_list[cur][i]]
  BY DEF CleanInv, StopInv
<1> QED
  BY <1>1, <1>2

\* Who signals the finished fence has unlinked the callback, or there was none.
LEMMA CbInvStep ==
  ASSUME IInv, OwnInv, Next
  PROVE  CbInv'
<1> SUFFICES ASSUME NEW x \in Jobs, cb'[x], finished'[x] PROVE FALSE
  BY DEF CbInv
<1>0. Types /\ ParkInv /\ ThreadInv /\ RunInv /\ CleanInv /\ CbInv /\ StopInv /\ KillInv
  BY DEF IInv, OwnInv
<1>1. ASSUME NEW s \in Scheds, sjob[s] = x, spc[s] = "parent" PROVE ~cb[x] /\ ~finished[x]
  BY <1>0, <1>1 DEF RunInv, Running, Unseen
<1>2. ASSUME tpc = "jobs", left < Len(pending_list[cur]), x = pending_list[cur][left + 1]
      PROVE  ~cb[x] /\ ~finished[x]
  BY <1>0, <1>2, AtRestart DEF Clean
<1>3. x \in work => ~cb[x]
  BY <1>0 DEF KillInv, Killing
<1>4. finished[x] \/ EndedBy(x)
  BY <1>0, Ends
<1>5. CASE cb[x]
  <2>1. ~finished[x]
    BY <1>0, <1>5 DEF CbInv
  <2> QED
    BY <1>1, <1>2, <1>3, <1>4, <1>5, <2>1 DEF EndedBy, AtStart
<1>6. CASE ~cb[x]
  <2>1. ~finished[x]
    BY <1>0, <1>1, <1>2, <1>6, Marks DEF MarksStep, Marked, Restarted
  <2> QED
    BY <1>4, <1>6, <2>1 DEF EndedBy
<1> QED
  BY <1>5, <1>6

\* Between drm_sched_stop() and drm_sched_start() nobody finishes a job that is left.
LEMMA StopInvStep ==
  ASSUME IInv, OwnInv, Next
  PROVE  StopInv'
<1> USE SchedAssumption
<1>0. /\ Types /\ ParkInv /\ ThreadInv /\ PendingInv /\ RunInv /\ CleanInv /\ CbInv /\ KillInv
      /\ StopInv
      /\ pending_list \in [Scheds -> Seq(Jobs)] /\ left \in Nat /\ todo \subseteq Scheds
      /\ \A s \in Scheds : pending_list[s] \in Seq(Jobs)
      /\ tpc \in {"parking", "unhook", "jobs"} => cur \in Scheds /\ cur \notin todo
      /\ finished \in [Jobs -> BOOLEAN]
  BY DEF IInv, OwnInv, Types, JobType, SchedType, TdrType, ParkInv
<1>1. ASSUME ~Timeout PROVE StopInv'
  <2>1. ASSUME NEW s \in Scheds, spc[s] = "parked", park[s]
        PROVE  /\ pending_list'[s] = pending_list[s] /\ UNCHANGED tdrVars
               /\ \A i \in 1 .. Len(pending_list[s]) :
                    Clean(pending_list[s][i]) /\ ~finished[pending_list[s][i]]
                      => ~finished'[pending_list[s][i]]
    <3>1. pending_list'[s] = pending_list[s] /\ UNCHANGED tdrVars
      BY <1>0, <1>1, <2>1, ParkedList
    <3>2. ASSUME NEW x \in Range(pending_list[s]), Clean(x), ~finished[x], finished'[x] PROVE FALSE
      <4>1. x \in Jobs /\ sched[x] = s
        BY <1>0, <3>2, RangeType DEF PendingInv, Pending
      <4>2. ASSUME NEW t \in Scheds, sjob[t] = x, spc[t] = "parent" PROVE FALSE
        BY <1>0, <2>1, <4>1, <4>2 DEF RunInv, Running
      <4>3. x \notin work
        BY <1>0, <3>2, <4>1 DEF KillInv, Killing, Unlisted
      <4>4. left' = left
        BY <3>1 DEF tdrVars
      <4>5. ~AtStart(x)
        BY <1>0, <4>4 DEF AtStart
      <4> QED
        BY <1>0, <3>2, <4>1, <4>2, <4>3, <4>5, Ends DEF EndedBy, Clean
    <3>3. ASSUME NEW i \in 1 .. Len(pending_list[s]) PROVE pending_list[s][i] \in Range(pending_list[s])
      BY <1>0, <3>3, InRange
    <3> QED
      BY <3>1, <3>2, <3>3
  <2>2. UNCHANGED tdrVars
    BY <1>0, <1>1, ClientFrame, ThreadFrame, InterruptFrame DEF Next, Interrupt
  <2>3. ASSUME NEW s \in Scheds, Stopped(s)'
        PROVE  \A i \in 1 .. Len(pending_list'[s]) : ~finished'[pending_list'[s][i]]
    <3>1. Stopped(s)
      BY <2>2, <2>3 DEF Stopped, tdrVars
    <3> QED
      BY <1>0, <2>1, <3>1, StoppedParked DEF CleanInv, StopInv
  <2>4. ASSUME tpc' \in {"unhook", "jobs"}
        PROVE  \A i \in left' + 1 .. Len(pending_list'[cur']) : ~finished'[pending_list'[cur'][i]]
    <3>1. tpc \in {"unhook", "jobs"} /\ cur' = cur /\ left' = left /\ cur \in Scheds
      BY <1>0, <2>2, <2>4 DEF tdrVars
    <3>2. /\ pending_list'[cur] = pending_list[cur]
          /\ \A i \in 1 .. Len(pending_list[cur]) :
                    Clean(pending_list[cur][i]) /\ ~finished[pending_list[cur][i]]
                      => ~finished'[pending_list[cur][i]]
      BY <1>0, <2>1, <3>1, StoppedParked
    <3>3. \A i \in left + 1 .. Len(pending_list[cur]) :
             Clean(pending_list[cur][i]) /\ ~finished[pending_list[cur][i]] /\ i \in 1 .. Len(pending_list[cur])
      BY <1>0, <3>1 DEF CleanInv, StopInv
    <3> QED
      BY <3>1, <3>2, <3>3
  <2> QED
    BY <2>3, <2>4 DEF StopInv
<1> USE DEF tdrVars, listVars, schedVars, fenceVars, jobVars
<1>2. ASSUME NEW s \in Scheds, TdrFire(s) PROVE StopInv'
  BY <1>0, <1>2 DEF TdrFire, StopInv, Stopped
<1>3. ASSUME SoftRecover PROVE StopInv'
  BY <1>0, <1>3 DEF SoftRecover, StopInv, Stopped
<1>4. ASSUME Recover PROVE StopInv'
  BY <1>0, <1>4 DEF Recover, StopInv, Stopped
<1>5. ASSUME NEW s \in Scheds, ParkThread(s) PROVE StopInv'
  BY <1>0, <1>5 DEF ParkThread, StopInv, Stopped
<1>6. ASSUME ReinsertBad PROVE StopInv'
  BY <1>0, <1>6 DEF ReinsertBad, StopInv, Stopped
<1>7. ASSUME UnhookJob PROVE StopInv'
  <2> DEFINE q == pending_list[cur]
             j == q[left]
  <2>1. /\ tpc = "unhook" /\ tpc' = "unhook" /\ left > 0 /\ left' = left - 1 /\ cb[j]
        /\ UNCHANGED <<pending_list, todo, cur, finished>>
    BY <1>7 DEF UnhookJob
  <2>2. cur \in Scheds /\ q \in Seq(Jobs) /\ left <= Len(q)
    BY <1>0, <2>1 DEF CleanInv
  <2>3. j \in Jobs /\ ~finished[j]
    <3>1. j \in Jobs
      BY <1>0, <2>1, <2>2
    <3> QED
      BY <1>0, <2>1, <3>1 DEF CbInv
  <2>4. \A s \in Scheds : Stopped(s)' => Stopped(s)
    BY <2>1 DEF Stopped
  <2>5. \A i \in left + 1 .. Len(q) : ~finished[q[i]]
    BY <1>0, <2>1 DEF StopInv
  <2>6. ASSUME NEW i \in left' + 1 .. Len(q) PROVE ~finished[q[i]]
    <3>1. i = left \/ i \in left + 1 .. Len(q)
      BY <1>0, <2>1, <2>2
    <3> QED
      BY <2>3, <2>5, <3>1
  <2> QED
    BY <1>0, <2>1, <2>4, <2>6 DEF StopInv
<1>8. ASSUME RemoveJob PROVE StopInv'
  <2> DEFINE q == pending_list[cur]
             j == q[left]
             r == Without(q, j)
  <2>1. /\ tpc = "unhook" /\ tpc' = "unhook" /\ left > 0 /\ left' = left - 1
        /\ UNCHANGED <<todo, cur, finished>>
        /\ pending_list' = [pending_list EXCEPT ![cur] = Without(@, j)]
    BY <1>8 DEF RemoveJob
  <2>2. cur \in Scheds /\ q \in Seq(Jobs) /\ left \in 1 .. Len(q)
    BY <1>0, <2>1 DEF CleanInv
  <2>3. \A s \in Scheds : Stopped(s)' => Stopped(s) /\ s # cur
    BY <2>1 DEF Stopped
  <2>5. \A i \in left + 1 .. Len(q) : ~finished[q[i]]
    BY <1>0, <2>1 DEF StopInv
  <2>6. \A t \in Scheds : t # cur => pending_list'[t] = pending_list[t]
    BY <1>0, <2>1
  <2>7. /\ pending_list'[cur] = r /\ Len(r) = Len(q) - 1
        /\ \A i \in 1 .. Len(q) - 1 : r[i] = IF i < left THEN q[i] ELSE q[i + 1]
    BY <1>0, <1>8, <2>2, RemoveJobList
  <2> HIDE DEF r
  <2>8. \A s \in Scheds : Stopped(s)' =>
          \A i \in 1 .. Len(pending_list'[s]) : ~finished'[pending_list'[s][i]]
    BY <1>0, <2>1, <2>3, <2>6 DEF StopInv
  <2>9. ASSUME NEW i \in left' + 1 .. Len(r) PROVE ~finished[r[i]]
    <3>1. i \in 1 .. Len(q) - 1 /\ ~(i < left) /\ i + 1 \in left + 1 .. Len(q)
      BY <1>0, <2>1, <2>2, <2>7
    <3> HIDE DEF q
    <3> QED
      BY <2>5, <2>7, <3>1
  <2> QED
    BY <2>1, <2>7, <2>8, <2>9 DEF StopInv
<1>9. ASSUME StopDone PROVE StopInv'
  BY <1>0, <1>9 DEF StopDone, StopInv, Stopped
<1>10. ASSUME SkipReset PROVE StopInv'
  BY <1>0, <1>10 DEF SkipReset, StopInv, Stopped
<1>11. ASSUME NEW r \in BOOLEAN, Reset(r) PROVE StopInv'
  BY <1>0, <1>11 DEF Reset, StopInv, Stopped
<1>12. ASSUME NEW s \in Scheds, NoResubmit(s) PROVE StopInv'
  BY <1>0, <1>12 DEF NoResubmit, StopInv, Stopped
<1>13. ASSUME NEW s \in Scheds, NEW F \in SUBSET Jobs, Resubmit(s, F) PROVE StopInv'
  BY <1>0, <1>13 DEF Resubmit, StopInv, Stopped
<1>14. ASSUME StartJob PROVE StopInv'
  <2>1. /\ tpc = "jobs" /\ tpc' = "jobs" /\ left < Len(pending_list[cur]) /\ left' = left + 1
        /\ UNCHANGED <<pending_list, todo, cur, finished>>
    BY <1>14 DEF StartJob
  <2>2. \A s \in Scheds : Stopped(s)' => Stopped(s)
    BY <2>1 DEF Stopped
  <2>3. \A i \in left' + 1 .. Len(pending_list[cur]) : i \in left + 1 .. Len(pending_list[cur])
    BY <1>0, <2>1
  <2> QED
    BY <1>0, <2>1, <2>2, <2>3 DEF StopInv
<1>15. ASSUME StartDone PROVE StopInv'
  <2> DEFINE q == pending_list[cur]
             j == q[left + 1]
  <2>1. /\ tpc = "jobs" /\ tpc' = "jobs" /\ left < Len(q) /\ left' = left + 1
        /\ UNCHANGED <<pending_list, todo, cur>>
        /\ finished' = [finished EXCEPT ![j] = TRUE]
    BY <1>15 DEF StartDone, SignalFinished
  <2>2. cur \in Scheds /\ cur \notin todo /\ q \in Seq(Jobs) /\ left + 1 \in 1 .. Len(q)
    BY <1>0, <2>1
  <2>3. \A i, l \in 1 .. Len(q) : q[i] = q[l] => i = l
    BY <1>0, <2>2 DEF PendingInv, Pending
  <2>4. \A y : y # j /\ ~finished[y] => ~finished'[y]
    BY <1>0, <2>1
  <2>5. \A i \in left + 1 .. Len(q) : ~finished[q[i]]
    BY <1>0, <2>1 DEF StopInv
  <2>6. ASSUME NEW s \in Scheds, Stopped(s)', NEW i \in 1 .. Len(pending_list[s])
        PROVE  ~finished'[pending_list[s][i]]
    <3>1. Stopped(s) /\ s # cur
      BY <2>1, <2>2, <2>6 DEF Stopped
    <3>2. sched[j] = cur
      BY <1>0, <2>2, InRange DEF PendingInv, Pending
    <3>3. sched[pending_list[s][i]] = s
      BY <1>0, InRange DEF PendingInv, Pending
    <3>4. ~finished[pending_list[s][i]]
      BY <1>0, <3>1 DEF StopInv
    <3> QED
      BY <2>4, <3>1, <3>2, <3>3, <3>4
  <2>7. ASSUME NEW i \in left' + 1 .. Len(q) PROVE ~finished'[q[i]]
    <3>1. i \in left + 1 .. Len(q) /\ i # left + 1 /\ i \in 1 .. Len(q)
      BY <1>0, <2>1, <2>2
    <3>2. q[i] # j /\ ~finished[q[i]]
      BY <2>2, <2>3, <2>5, <3>1
    <3> QED
      BY <2>4, <3>2
  <2> QED
    BY <2>1, <2>6, <2>7 DEF StopInv
<1>16. ASSUME StartFailed PROVE StopInv'
  <2>1. /\ tpc = "jobs" /\ tpc' = "jobs" /\ left < Len(pending_list[cur]) /\ left' = left + 1
        /\ UNCHANGED <<pending_list, todo, cur, finished>>
    BY <1>16 DEF StartFailed
  <2>2. \A s \in Scheds : Stopped(s)' => Stopped(s)
    BY <2>1 DEF Stopped
  <2>3. \A i \in left' + 1 .. Len(pending_list[cur]) : i \in left + 1 .. Len(pending_list[cur])
    BY <1>0, <2>1
  <2> QED
    BY <1>0, <2>1, <2>2, <2>3 DEF StopInv
<1>17. ASSUME UnparkThread PROVE StopInv'
  BY <1>0, <1>17 DEF UnparkThread, StopInv, Stopped
<1>18. ASSUME TdrEnd PROVE StopInv'
  BY <1>0, <1>18 DEF TdrEnd, StopInv, Stopped
<1>19. ASSUME Timeout PROVE StopInv'
  BY <1>19, <1>2, <1>3, <1>4, <1>5, <1>6, <1>7, <1>8, <1>9, <1>10, <1>11, <1>12, <1>13, <1>14,
     <1>15, <1>16, <1>17, <1>18, Zenon DEF Timeout, Armed
<1> QED
  BY <1>1, <1>19

\* What kill_jobs has taken, nobody else has.
LEMMA KillInvStep ==
  ASSUME IInv, OwnInv, Next
  PROVE  KillInv'
<1>0. Types /\ ParkInv /\ ThreadInv /\ HoldInv /\ QueueInv /\ RunInv /\ PendingInv /\ JobsInv /\ KillInv
  BY DEF IInv, OwnInv
<1> SUFFICES ASSUME NEW x \in Jobs, Killing(x)'
             PROVE  /\ ent'[x] # None /\ ~(finish_cb'[x] # None /\ x \in work')
                    /\ ~cb'[x] /\ bad' # x /\ Unlisted(x)'
  BY DEF KillInv, Killing
<1>1. KillMoves(x)
  BY <1>0, KillStep
<1>2. CASE Killing(x) /\ (finish_cb'[x] # None /\ x \in work' => finish_cb[x] # None /\ x \in work)
  <2>1. ent[x] # None /\ ~(finish_cb'[x] # None /\ x \in work') /\ ~cb[x] /\ bad # x /\ Unlisted(x)
    BY <1>0, <1>2 DEF KillInv
  <2>2. ent'[x] # None
    BY <1>0, <2>1, ArmedStays
  <2>3. ASSUME NEW s \in Scheds, NEW i \in 1 .. Len(pending_list[s]), x = pending_list[s][i] PROVE FALSE
    BY <1>0, <2>1, <2>3, InRange DEF Unlisted, Types, SchedType
  <2>4. ~cb'[x]
    <3>1. ~Restarted(x)
      <4>1. ASSUME Restarted(x) PROVE cur \in Scheds /\ left + 1 \in 1 .. Len(pending_list[cur])
        BY <1>0, <4>1 DEF Restarted, ParkInv, Types, TdrType, SchedType
      <4> QED
        BY <2>3, <4>1 DEF Restarted
    <3> QED
      BY <1>0, <2>1, <3>1, Marks DEF MarksStep, Marked, Unlisted
  <2>5. bad' # x
    <3>1. ASSUME NEW s \in Scheds, pending_list[s] # <<>> PROVE x # Head(pending_list[s])
      BY <1>0, <2>3, <3>1, TailFacts DEF Types, SchedType
    <3> QED
      BY <1>0, <2>1, <3>1, BadStep, NoneIsNoJob
  <2>6. ~Fresh(x)
    BY <1>2 DEF Killing, Fresh, Unseen
  <2> QED
    BY <2>1, <2>2, <2>4, <2>5, <2>6, UnlistedStep
<1>3. CASE /\ \E e \in Entities : queue[e] # <<>> /\ x = Head(queue[e])
           /\ UNCHANGED <<sjob, pending_list, bad, cb>> /\ ~(finish_cb'[x] # None /\ x \in work')
  <2>1. PICK e \in Entities : queue[e] # <<>> /\ x = Head(queue[e])
    BY <1>3
  <2>2. Fresh(x) /\ ent[x] = e
    BY <1>0, <2>1, HeadQueued
  <2>3. ent'[x] # None
    BY <1>0, <2>2, ArmedStays, SchedAssumption
  <2> QED
    BY <1>3, <2>2, <2>3 DEF Fresh, Unseen, Unlisted
<1> QED
  BY <1>1, <1>2, <1>3 DEF KillMoves

\* The thread takes a job to free from the head of its list.
LEMMA FreeStep ==
  ASSUME Types, ParkInv, ThreadInv, Next, NEW s \in Scheds, spc'[s] = "free"
  PROVE  \/ spc[s] = "free" /\ sjob'[s] = sjob[s]
         \/ GetCleanupJob(s)
<1>1. CASE spc'[s] = spc[s] /\ sjob'[s] = sjob[s]
  BY <1>1
<1>2. ASSUME NEW e \in Entities, Client(e) PROVE spc'[s] = spc[s] /\ sjob'[s] = sjob[s]
  BY <1>2, ClientFrame
<1>3. ASSUME Timeout PROVE spc'[s] = spc[s] /\ sjob'[s] = sjob[s]
  BY <1>3, HandlerFrame
<1>4. ASSUME Interrupt PROVE spc'[s] = spc[s] /\ sjob'[s] = sjob[s]
  BY <1>4, InterruptFrame
<1>5. ASSUME NEW t \in Scheds, t # s, Thread(t) PROVE spc'[s] = spc[s] /\ sjob'[s] = sjob[s]
  BY <1>5, ThreadFrame
<1>6. ASSUME Thread(s) PROVE GetCleanupJob(s) \/ (spc'[s] = spc[s] /\ sjob'[s] = sjob[s])
  <2> USE DEF At, threadVars, Types, SchedType
  <2>1. ASSUME GetCleanupJob(s)
        PROVE  GetCleanupJob(s) \/ (spc'[s] = spc[s] /\ sjob'[s] = sjob[s])
    BY <2>1
  <2>2. ASSUME FreeJob(s)
        PROVE  GetCleanupJob(s) \/ (spc'[s] = spc[s] /\ sjob'[s] = sjob[s])
    BY <2>2 DEF FreeJob
  <2>3. ASSUME NoCleanupJob(s)
        PROVE  GetCleanupJob(s) \/ (spc'[s] = spc[s] /\ sjob'[s] = sjob[s])
    BY <2>3 DEF NoCleanupJob
  <2>4. ASSUME Park(s)
        PROVE  GetCleanupJob(s) \/ (spc'[s] = spc[s] /\ sjob'[s] = sjob[s])
    BY <2>4 DEF Park
  <2>5. ASSUME Unpark(s)
        PROVE  GetCleanupJob(s) \/ (spc'[s] = spc[s] /\ sjob'[s] = sjob[s])
    BY <2>5 DEF Unpark
  <2>6. ASSUME NEW e \in Range(entities[s]), SelectEntity(s, e)
        PROVE  GetCleanupJob(s) \/ (spc'[s] = spc[s] /\ sjob'[s] = sjob[s])
    BY <2>6 DEF SelectEntity
  <2>7. ASSUME Sleep(s)
        PROVE  GetCleanupJob(s) \/ (spc'[s] = spc[s] /\ sjob'[s] = sjob[s])
    BY <2>7 DEF Sleep
  <2>8. ASSUME WakeUp(s)
        PROVE  GetCleanupJob(s) \/ (spc'[s] = spc[s] /\ sjob'[s] = sjob[s])
    BY <2>8 DEF WakeUp
  <2>9. ASSUME NEW d \in Jobs, PopNextDep(s, d)
        PROVE  GetCleanupJob(s) \/ (spc'[s] = spc[s] /\ sjob'[s] = sjob[s])
    BY <2>9 DEF PopNextDep
  <2>10. ASSUME NEW d \in Jobs, PopWaitDep(s, d)
        PROVE  GetCleanupJob(s) \/ (spc'[s] = spc[s] /\ sjob'[s] = sjob[s])
    BY <2>10 DEF PopWaitDep
  <2>11. ASSUME PopJob(s)
        PROVE  GetCleanupJob(s) \/ (spc'[s] = spc[s] /\ sjob'[s] = sjob[s])
    BY <2>11 DEF PopJob
  <2>12. ASSUME NEW r \in BOOLEAN, RunJob(s, r)
        PROVE  GetCleanupJob(s) \/ (spc'[s] = spc[s] /\ sjob'[s] = sjob[s])
    BY <2>12 DEF RunJob
  <2>13. ASSUME AddDoneCb(s)
        PROVE  GetCleanupJob(s) \/ (spc'[s] = spc[s] /\ sjob'[s] = sjob[s])
    BY <2>13 DEF AddDoneCb
  <2>14. ASSUME DoneAtOnce(s)
        PROVE  GetCleanupJob(s) \/ (spc'[s] = spc[s] /\ sjob'[s] = sjob[s])
    BY <2>14 DEF DoneAtOnce
  <2> QED
    BY <1>6, <2>1, <2>2, <2>3, <2>4, <2>5, <2>6, <2>7, <2>8, <2>9, <2>10, <2>11, <2>12, <2>13,
       <2>14, ZenonT(60) DEF Thread
<1> QED
  BY <1>1, <1>2, <1>3, <1>4, <1>5, <1>6 DEF Next, Interrupt

\* Nobody takes the job from the thread that is to free it.
LEMMA FreeInvStep ==
  ASSUME IInv, OwnInv, Next
  PROVE  FreeInv'
<1>0. /\ Types /\ ParkInv /\ ThreadInv /\ HoldInv /\ QueueInv /\ PendingInv /\ JobsInv /\ FreeInv
      /\ pending_list \in [Scheds -> Seq(Jobs)] /\ sched \in [Jobs -> Scheds \cup {None}]
  BY DEF IInv, OwnInv, Types, SchedType, JobType
<1> SUFFICES ASSUME NEW s \in Scheds, spc'[s] = "free"
             PROVE  LET x == sjob'[s] IN
                    /\ finished'[x] /\ sched'[x] = s /\ x \notin Range(pending_list'[s])
                    /\ BadOut' => bad' # x
  BY DEF FreeInv
<1>1. CASE spc[s] = "free" /\ sjob'[s] = sjob[s]
  <2>1. PICK x \in Jobs : sjob[s] = x
    BY <1>0, <1>1 DEF ThreadInv, Types, SchedType, JobOrNone
  <2>2. finished[x] /\ sched[x] = s /\ x \notin Range(pending_list[s]) /\ (BadOut => bad # x)
    BY <1>0, <1>1, <2>1 DEF FreeInv
  <2>3. ~Fresh(x) /\ ent[x] # None
    BY <1>0, <2>2 DEF Fresh, Unseen, JobsInv
  <2>4. sched'[x] = s
    BY <1>0, <2>2, <2>3, ArmedStays
  <2>5. finished'[x]
    BY <1>0, <2>2, ClientFrame, ThreadFrame, HandlerFrame, InterruptFrame DEF FencesStay, Next,
       Interrupt
  <2>6. x \notin Range(pending_list'[s])
    BY <1>0, <2>2, <2>3, PendingStep, HeadQueued DEF PendingMoves, Joins
  <2>7. ASSUME NEW t \in Scheds, pending_list[t] # <<>>, x = Head(pending_list[t]) PROVE FALSE
    <3>1. x \in Range(pending_list[t]) /\ sched[x] = t
      BY <1>0, <2>7, RangeTail DEF PendingInv, Pending
    <3> QED
      BY <2>2, <3>1
  <2>8. BadOut' => bad' # x
    BY <1>0, <2>2, <2>7, BadOutStep
  <2> QED
    BY <1>1, <2>1, <2>4, <2>5, <2>6, <2>8
<1>2. CASE GetCleanupJob(s)
  <2> DEFINE q == pending_list[s]
             x == Head(q)
  <2>1. /\ q # <<>> /\ finished[x] /\ sjob'[s] = x /\ pending_list'[s] = Tail(q)
        /\ UNCHANGED <<finished, sched>> /\ UNCHANGED tdrVars
    BY <1>0, <1>2 DEF GetCleanupJob, HasCleanupJob, Types, SchedType, jobVars, fenceVars, pushVars
  <2>2. x \in Range(q) /\ x \notin Range(Tail(q)) /\ sched[x] = s /\ (BadOut => bad \notin Range(q))
    <3>1. Pending(s) /\ q \in Seq(Jobs)
      BY <1>0 DEF PendingInv
    <3>2. x \in Range(q) /\ x \notin Range(Tail(q))
      BY <2>1, <3>1, RangeTail DEF Pending
    <3> QED
      BY <3>1, <3>2 DEF Pending
  <2>3. bad' = bad /\ (BadOut' <=> BadOut)
    BY <2>1 DEF tdrVars, BadOut
  <2> HIDE DEF x, q
  <2> QED
    BY <2>1, <2>2, <2>3
<1> QED
  BY <1>0, <1>1, <1>2, FreeStep

\* They stay Boolean.
LEMMA OwnTypesStep ==
  ASSUME IInv, OwnTypes, Next
  PROVE  OwnTypes'
<1> USE SchedAssumption DEF jobVars, listVars, schedVars
<1>0. Types /\ freed \in [Jobs -> BOOLEAN] /\ free_guilty \in [Scheds -> BOOLEAN]
  BY DEF OwnTypes, IInv
<1>1. ASSUME UNCHANGED <<freed, free_guilty>> PROVE OwnTypes'
  BY <1>0, <1>1 DEF OwnTypes
<1>2. ASSUME NEW e \in Entities, NEW j \in Jobs, NEW D \in SUBSET Jobs, NEW s \in Scheds,
             PushJob(e, j, D, s)
      PROVE  OwnTypes'
  BY <1>1, <1>2 DEF PushJob
<1>3. ASSUME NEW e \in Entities, PushStopped(e) PROVE OwnTypes'
  BY <1>1, <1>3 DEF PushStopped
<1>4. ASSUME NEW e \in Entities, AddEntity(e) PROVE OwnTypes'
  BY <1>1, <1>4 DEF AddEntity
<1>5. ASSUME NEW e \in Entities, PushWake(e) PROVE OwnTypes'
  BY <1>1, <1>5 DEF PushWake
<1>6. ASSUME NEW e \in Entities, Flush(e) PROVE OwnTypes'
  BY <1>1, <1>6 DEF Flush
<1>7. ASSUME NEW e \in Entities, FlushSleep(e) PROVE OwnTypes'
  BY <1>1, <1>7 DEF FlushSleep
<1>8. ASSUME NEW e \in Entities, NEW kill \in BOOLEAN, NEW next \in {"open", "fini"},
             FlushEnd(e, kill, next)
      PROVE  OwnTypes'
  BY <1>1, <1>8 DEF FlushEnd
<1>9. ASSUME NEW e \in Entities, Fini(e) PROVE OwnTypes'
  BY <1>1, <1>9 DEF Fini
<1>10. ASSUME NEW e \in Entities, ClearDependency(e) PROVE OwnTypes'
  BY <1>1, <1>10 DEF ClearDependency
<1>11. ASSUME NEW e \in Entities, KillJob(e) PROVE OwnTypes'
  BY <1>1, <1>11 DEF KillJob
<1>12. ASSUME NEW e \in Entities, PutLast(e) PROVE OwnTypes'
  BY <1>1, <1>12 DEF PutLast
<1>13. ASSUME NEW s \in Scheds, GetCleanupJob(s) PROVE OwnTypes'
  BY <1>1, <1>13 DEF GetCleanupJob
<1>14. ASSUME NEW s \in Scheds, FreeJob(s) PROVE OwnTypes'
  BY <1>0, <1>14 DEF FreeJob, OwnTypes
<1>15. ASSUME NEW s \in Scheds, NoCleanupJob(s) PROVE OwnTypes'
  BY <1>1, <1>15 DEF NoCleanupJob
<1>16. ASSUME NEW s \in Scheds, Park(s) PROVE OwnTypes'
  BY <1>1, <1>16 DEF Park
<1>17. ASSUME NEW s \in Scheds, Unpark(s) PROVE OwnTypes'
  BY <1>1, <1>17 DEF Unpark
<1>18. ASSUME NEW s \in Scheds, NEW e \in Range(entities[s]), SelectEntity(s, e)
       PROVE  OwnTypes'
  BY <1>1, <1>18 DEF SelectEntity
<1>19. ASSUME NEW s \in Scheds, Sleep(s) PROVE OwnTypes'
  BY <1>1, <1>19 DEF Sleep
<1>20. ASSUME NEW s \in Scheds, WakeUp(s) PROVE OwnTypes'
  BY <1>1, <1>20 DEF WakeUp
<1>21. ASSUME NEW s \in Scheds, NEW d \in Jobs, PopNextDep(s, d) PROVE OwnTypes'
  BY <1>1, <1>21 DEF PopNextDep
<1>22. ASSUME NEW s \in Scheds, NEW d \in Jobs, PopWaitDep(s, d) PROVE OwnTypes'
  BY <1>1, <1>22 DEF PopWaitDep
<1>23. ASSUME NEW s \in Scheds, PopJob(s) PROVE OwnTypes'
  BY <1>1, <1>23 DEF PopJob
<1>24. ASSUME NEW s \in Scheds, NEW r \in BOOLEAN, RunJob(s, r) PROVE OwnTypes'
  BY <1>1, <1>24 DEF RunJob
<1>25. ASSUME NEW s \in Scheds, AddDoneCb(s) PROVE OwnTypes'
  BY <1>1, <1>25 DEF AddDoneCb
<1>26. ASSUME NEW s \in Scheds, DoneAtOnce(s) PROVE OwnTypes'
  BY <1>1, <1>26 DEF DoneAtOnce
<1>27. ASSUME NEW s \in Scheds, NEW j \in Jobs, HwSilent(s, j) PROVE OwnTypes'
  BY <1>1, <1>27 DEF HwSilent
<1>28. ASSUME NEW s \in Scheds, NEW j \in Jobs, HwDone(s, j) PROVE OwnTypes'
  BY <1>1, <1>28 DEF HwDone
<1>29. ASSUME NEW s \in Scheds, DoneWake(s) PROVE OwnTypes'
  BY <1>1, <1>29 DEF DoneWake
<1>30. ASSUME NEW s \in Scheds, TdrFire(s) PROVE OwnTypes'
  BY <1>1, <1>30 DEF TdrFire
<1>31. ASSUME SoftRecover PROVE OwnTypes'
  BY <1>1, <1>31 DEF SoftRecover
<1>32. ASSUME Recover PROVE OwnTypes'
  BY <1>1, <1>32 DEF Recover
<1>33. ASSUME NEW s \in Scheds, ParkThread(s) PROVE OwnTypes'
  BY <1>1, <1>33 DEF ParkThread
<1>34. ASSUME ReinsertBad PROVE OwnTypes'
  BY <1>1, <1>34 DEF ReinsertBad
<1>35. ASSUME UnhookJob PROVE OwnTypes'
  BY <1>1, <1>35 DEF UnhookJob
<1>36. ASSUME RemoveJob PROVE OwnTypes'
  BY <1>0, <1>36 DEF RemoveJob, OwnTypes
<1>37. ASSUME StopDone PROVE OwnTypes'
  BY <1>1, <1>37 DEF StopDone
<1>38. ASSUME SkipReset PROVE OwnTypes'
  BY <1>1, <1>38 DEF SkipReset
<1>39. ASSUME NEW r \in BOOLEAN, Reset(r) PROVE OwnTypes'
  BY <1>1, <1>39 DEF Reset
<1>40. ASSUME NEW s \in Scheds, NoResubmit(s) PROVE OwnTypes'
  BY <1>1, <1>40 DEF NoResubmit
<1>41. ASSUME NEW s \in Scheds, NEW F \in SUBSET Jobs, Resubmit(s, F) PROVE OwnTypes'
  BY <1>1, <1>41 DEF Resubmit
<1>42. ASSUME StartJob PROVE OwnTypes'
  BY <1>1, <1>42 DEF StartJob
<1>43. ASSUME StartDone PROVE OwnTypes'
  BY <1>1, <1>43 DEF StartDone
<1>44. ASSUME StartFailed PROVE OwnTypes'
  BY <1>1, <1>44 DEF StartFailed
<1>45. ASSUME UnparkThread PROVE OwnTypes'
  BY <1>1, <1>45 DEF UnparkThread
<1>46. ASSUME TdrEnd PROVE OwnTypes'
  BY <1>0, <1>46 DEF TdrEnd, OwnTypes
<1>47. ASSUME NEW j \in Jobs, KillWork(j) PROVE OwnTypes'
  BY <1>0, <1>47 DEF KillWork, OwnTypes
<1> HIDE DEF OwnTypes
<1>48. ASSUME NEW e \in Entities, Client(e) PROVE OwnTypes'
  <2>1. CASE Submit(e)
    <3>1. PICK j \in Jobs, D \in SUBSET Jobs, s \in Scheds : PushJob(e, j, D, s)
      BY <1>0, <2>1, NewRqType DEF Submit, Armed
    <3> QED
      BY <1>2, <3>1
  <2> QED
    BY <1>48, <2>1, <1>3, <1>4, <1>5, <1>6, <1>7, <1>8, <1>9, <1>10, <1>11, <1>12, Zenon DEF
       Client
<1>49. ASSUME NEW s \in Scheds, Thread(s) PROVE OwnTypes'
  BY <1>49, <1>13, <1>14, <1>15, <1>16, <1>17, <1>18, <1>19, <1>20, <1>21, <1>22, <1>23,
     <1>24, <1>25, <1>26, ZenonT(60) DEF Thread
<1>50. ASSUME NEW s \in Scheds, Hardware(s) PROVE OwnTypes'
  BY <1>50, <1>27, <1>28, Zenon DEF Hardware
<1>51. ASSUME Timeout PROVE OwnTypes'
  BY <1>51, <1>30, <1>31, <1>32, <1>33, <1>34, <1>35, <1>36, <1>37, <1>38, <1>39, <1>40,
     <1>41, <1>42, <1>43, <1>44, <1>45, <1>46, Zenon DEF Timeout, Armed
<1> QED
  BY <1>48, <1>49, <1>50, <1>51, <1>29, <1>47 DEF Next

\* drm_sched_stop() leaves the bad job to the handler when it has finished; the handler frees
\* it at its end.
LEMMA GuiltyInvStep ==
  ASSUME IInv, IInv', OwnInv, Next
  PROVE  GuiltyInv'
<1> USE SchedAssumption DEF jobVars, listVars, schedVars
<1>0. /\ Types /\ Types' /\ ParkInv /\ ParkInv' /\ ThreadInv /\ HoldInv /\ QueueInv /\ PendingInv
      /\ JobsInv /\ RunInv /\ CleanInv
      /\ OwnTypes /\ FreeInv /\ GuiltyInv
      /\ free_guilty \in [Scheds -> BOOLEAN] /\ pending_list \in [Scheds -> Seq(Jobs)]
  BY DEF IInv, OwnInv, OwnTypes, Types, SchedType
<1> DEFINE Ok(s) == /\ bad' # None /\ sched'[bad'] = s /\ ~BadOut' /\ finished'[bad']
                    /\ Unlisted(bad)'
<1> SUFFICES ASSUME NEW p \in Scheds, free_guilty'[p] PROVE Ok(p)
  BY DEF GuiltyInv, Unlisted
<1>1. ASSUME free_guilty[p], bad' = bad PROVE Ok(p)
  <2>1. PICK x \in Jobs : bad = x
    BY <1>0, <1>1 DEF GuiltyInv, Types, TdrType, JobOrNone
  <2>2. sched[x] = p /\ ~BadOut /\ finished[x] /\ Unlisted(x)
    BY <1>0, <1>1, <2>1 DEF GuiltyInv, Unlisted
  <2>3. ~Fresh(x) /\ ent[x] # None
    BY <1>0, <2>2 DEF Fresh, Unseen, JobsInv
  <2>4. sched'[x] = p
    BY <1>0, <2>2, <2>3, ArmedStays
  <2>5. finished'[x]
    BY <1>0, <2>2, ClientFrame, ThreadFrame, HandlerFrame, InterruptFrame DEF FencesStay, Next,
       Interrupt
  <2>6. Unlisted(x)'
    BY <2>2, <2>3, UnlistedStep
  <2>7. ASSUME NEW t \in Scheds, pending_list[t] # <<>>, x = Head(pending_list[t]) PROVE FALSE
    <3>1. x \in Range(pending_list[t])
      BY <1>0, <2>7, RangeTail DEF PendingInv, Pending
    <3> QED
      BY <2>2, <3>1 DEF Unlisted
  <2>8. ~BadOut'
    BY <1>0, <1>1, <2>1, <2>2, <2>7, BadOutStep
  <2> QED
    BY <1>1, <2>1, <2>4, <2>5, <2>6, <2>8, NoneIsNoJob DEF Unlisted
<1>2. ASSUME free_guilty' = free_guilty, bad' = bad PROVE Ok(p)
  BY <1>1, <1>2
<1>3. ASSUME free_guilty' = free_guilty, UNCHANGED tdrVars PROVE Ok(p)
  BY <1>2, <1>3 DEF tdrVars
<1> HIDE DEF Ok
<1>4. ASSUME NEW e \in Entities, NEW j \in Jobs, NEW D \in SUBSET Jobs, NEW s \in Scheds,
             PushJob(e, j, D, s)
      PROVE  Ok(p)
  BY <1>2, <1>3, <1>4 DEF PushJob
<1>5. ASSUME NEW e \in Entities, PushStopped(e) PROVE Ok(p)
  BY <1>2, <1>3, <1>5 DEF PushStopped
<1>6. ASSUME NEW e \in Entities, AddEntity(e) PROVE Ok(p)
  BY <1>2, <1>3, <1>6 DEF AddEntity
<1>7. ASSUME NEW e \in Entities, PushWake(e) PROVE Ok(p)
  BY <1>2, <1>3, <1>7 DEF PushWake
<1>8. ASSUME NEW e \in Entities, Flush(e) PROVE Ok(p)
  BY <1>2, <1>3, <1>8 DEF Flush
<1>9. ASSUME NEW e \in Entities, FlushSleep(e) PROVE Ok(p)
  BY <1>2, <1>3, <1>9 DEF FlushSleep
<1>10. ASSUME NEW e \in Entities, NEW kill \in BOOLEAN, NEW next \in {"open", "fini"},
             FlushEnd(e, kill, next)
       PROVE  Ok(p)
  BY <1>2, <1>3, <1>10 DEF FlushEnd
<1>11. ASSUME NEW e \in Entities, Fini(e) PROVE Ok(p)
  BY <1>2, <1>3, <1>11 DEF Fini
<1>12. ASSUME NEW e \in Entities, ClearDependency(e) PROVE Ok(p)
  BY <1>2, <1>3, <1>12 DEF ClearDependency
<1>13. ASSUME NEW e \in Entities, KillJob(e) PROVE Ok(p)
  BY <1>2, <1>3, <1>13 DEF KillJob
<1>14. ASSUME NEW e \in Entities, PutLast(e) PROVE Ok(p)
  BY <1>2, <1>3, <1>14 DEF PutLast
<1>15. ASSUME NEW s \in Scheds, GetCleanupJob(s) PROVE Ok(p)
  BY <1>2, <1>3, <1>15 DEF GetCleanupJob
<1>16. ASSUME NEW s \in Scheds, FreeJob(s) PROVE Ok(p)
  BY <1>2, <1>3, <1>16 DEF FreeJob
<1>17. ASSUME NEW s \in Scheds, NoCleanupJob(s) PROVE Ok(p)
  BY <1>2, <1>3, <1>17 DEF NoCleanupJob
<1>18. ASSUME NEW s \in Scheds, Park(s) PROVE Ok(p)
  BY <1>2, <1>3, <1>18 DEF Park
<1>19. ASSUME NEW s \in Scheds, Unpark(s) PROVE Ok(p)
  BY <1>2, <1>3, <1>19 DEF Unpark
<1>20. ASSUME NEW s \in Scheds, NEW e \in Range(entities[s]), SelectEntity(s, e) PROVE Ok(p)
  BY <1>2, <1>3, <1>20 DEF SelectEntity
<1>21. ASSUME NEW s \in Scheds, Sleep(s) PROVE Ok(p)
  BY <1>2, <1>3, <1>21 DEF Sleep
<1>22. ASSUME NEW s \in Scheds, WakeUp(s) PROVE Ok(p)
  BY <1>2, <1>3, <1>22 DEF WakeUp
<1>23. ASSUME NEW s \in Scheds, NEW d \in Jobs, PopNextDep(s, d) PROVE Ok(p)
  BY <1>2, <1>3, <1>23 DEF PopNextDep
<1>24. ASSUME NEW s \in Scheds, NEW d \in Jobs, PopWaitDep(s, d) PROVE Ok(p)
  BY <1>2, <1>3, <1>24 DEF PopWaitDep
<1>25. ASSUME NEW s \in Scheds, PopJob(s) PROVE Ok(p)
  BY <1>2, <1>3, <1>25 DEF PopJob
<1>26. ASSUME NEW s \in Scheds, NEW r \in BOOLEAN, RunJob(s, r) PROVE Ok(p)
  BY <1>2, <1>3, <1>26 DEF RunJob
<1>27. ASSUME NEW s \in Scheds, AddDoneCb(s) PROVE Ok(p)
  BY <1>2, <1>3, <1>27 DEF AddDoneCb
<1>28. ASSUME NEW s \in Scheds, DoneAtOnce(s) PROVE Ok(p)
  BY <1>2, <1>3, <1>28 DEF DoneAtOnce
<1>29. ASSUME NEW s \in Scheds, NEW j \in Jobs, HwSilent(s, j) PROVE Ok(p)
  BY <1>2, <1>3, <1>29 DEF HwSilent
<1>30. ASSUME NEW s \in Scheds, NEW j \in Jobs, HwDone(s, j) PROVE Ok(p)
  BY <1>2, <1>3, <1>30 DEF HwDone
<1>31. ASSUME NEW s \in Scheds, DoneWake(s) PROVE Ok(p)
  BY <1>2, <1>3, <1>31 DEF DoneWake
<1>32. ASSUME NEW s \in Scheds, TdrFire(s) PROVE Ok(p)
  <2>1. free_guilty' = free_guilty /\ tpc = "idle"
    BY <1>32 DEF TdrFire
  <2> QED
    BY <1>0, <2>1 DEF GuiltyInv, ParkInv
<1>33. ASSUME SoftRecover PROVE Ok(p)
  BY <1>2, <1>3, <1>33 DEF SoftRecover
<1>34. ASSUME Recover PROVE Ok(p)
  BY <1>2, <1>3, <1>34 DEF Recover
<1>35. ASSUME NEW s \in Scheds, ParkThread(s) PROVE Ok(p)
  BY <1>2, <1>3, <1>35 DEF ParkThread
<1>36. ASSUME ReinsertBad PROVE Ok(p)
  BY <1>2, <1>3, <1>36 DEF ReinsertBad
<1>37. ASSUME UnhookJob PROVE Ok(p)
  BY <1>2, <1>3, <1>37 DEF UnhookJob
<1>38. ASSUME RemoveJob PROVE Ok(p)
  <2> DEFINE q == pending_list[cur]
             j == q[left]
  <2>1. /\ tpc = "unhook" /\ left > 0 /\ finished[j] /\ UNCHANGED <<bad, finished, sched, sjob>>
        /\ tpc' = "unhook" /\ todo' = todo /\ cur' = cur
        /\ pending_list' = [pending_list EXCEPT ![cur] = Without(@, j)]
        /\ free_guilty' = [free_guilty EXCEPT ![cur] = @ \/ j = bad]
    BY <1>38 DEF RemoveJob, fenceVars, pushVars, threadVars
  <2>2. cur \in Scheds /\ q \in Seq(Jobs) /\ left \in 1 .. Len(q)
    BY <1>0, <2>1 DEF CleanInv, ParkInv, Types, TdrType
  <2>3. CASE free_guilty[p]
    BY <1>1, <2>1, <2>3
  <2>4. CASE ~free_guilty[p]
    <3>1. p = cur /\ j = bad
      BY <1>0, <2>1, <2>2, <2>4
    <3>2. j \in Jobs /\ sched[j] = cur /\ j \in Range(q)
      BY <1>0, <2>2, InRange DEF PendingInv, Pending
    <3>3. ~BadOut
      BY <1>0, <2>2, <3>1, <3>2 DEF PendingInv, Pending
    <3>4. ~BadOut'
      BY <2>1, <3>3 DEF BadOut
    <3>5. ASSUME NEW t \in Scheds, bad \in Range(pending_list'[t]) PROVE FALSE
      <4>1. CASE t = cur
        <5>1. pending_list'[cur] = Without(q, j)
          BY <1>0, <2>1, <2>2
        <5>2. \A y : y \in Range(Without(q, j)) <=> y \in Range(q) /\ y # j
          BY <1>0, <2>2, WithoutFacts DEF PendingInv, Pending
        <5> QED
          BY <3>1, <3>5, <4>1, <5>1, <5>2
      <4>2. CASE t # cur
        <5>1. pending_list'[t] = pending_list[t]
          BY <1>0, <2>1, <4>2
        <5>2. sched[bad] = t
          BY <1>0, <3>5, <5>1 DEF PendingInv, Pending
        <5> QED
          BY <3>1, <3>2, <4>2, <5>2
      <4> QED
        BY <4>1, <4>2
    <3>6. ASSUME NEW t \in Scheds, sjob[t] = bad PROVE FALSE
      <4>0. bad # None
        BY <3>1, <3>2, NoneIsNoJob
      <4>1. spc[cur] = "parked"
        BY <1>0, <2>1, <2>2, StoppedParked
      <4>2. t # cur
        BY <1>0, <3>6, <4>0, <4>1 DEF ThreadInv
      <4>3. Running(t) \/ spc[t] = "free"
        BY <1>0, <3>6, <4>0 DEF ThreadInv, Running
      <4>4. sched[sjob[t]] = t
        BY <1>0, <4>3 DEF RunInv, FreeInv
      <4> QED
        BY <3>1, <3>2, <3>6, <4>2, <4>4
    <3> QED
      BY <2>1, <3>1, <3>2, <3>4, <3>5, <3>6, NoneIsNoJob DEF Ok, Unlisted
  <2> QED
    BY <2>3, <2>4
<1>39. ASSUME StopDone PROVE Ok(p)
  BY <1>2, <1>3, <1>39 DEF StopDone
<1>40. ASSUME SkipReset PROVE Ok(p)
  BY <1>2, <1>3, <1>40 DEF SkipReset
<1>41. ASSUME NEW r \in BOOLEAN, Reset(r) PROVE Ok(p)
  BY <1>2, <1>3, <1>41 DEF Reset
<1>42. ASSUME NEW s \in Scheds, NoResubmit(s) PROVE Ok(p)
  BY <1>2, <1>3, <1>42 DEF NoResubmit
<1>43. ASSUME NEW s \in Scheds, NEW F \in SUBSET Jobs, Resubmit(s, F) PROVE Ok(p)
  BY <1>2, <1>3, <1>43 DEF Resubmit
<1>44. ASSUME StartJob PROVE Ok(p)
  BY <1>2, <1>3, <1>44 DEF StartJob
<1>45. ASSUME StartDone PROVE Ok(p)
  BY <1>2, <1>3, <1>45 DEF StartDone
<1>46. ASSUME StartFailed PROVE Ok(p)
  BY <1>2, <1>3, <1>46 DEF StartFailed
<1>47. ASSUME UnparkThread PROVE Ok(p)
  BY <1>2, <1>3, <1>47 DEF UnparkThread
<1>48. ASSUME TdrEnd PROVE Ok(p)
  <2>1. tpc = "end" /\ free_guilty' = [free_guilty EXCEPT ![sched[bad]] = FALSE]
    BY <1>48 DEF TdrEnd
  <2>2. free_guilty[p] /\ p # sched[bad]
    BY <1>0, <2>1
  <2> QED
    BY <1>0, <2>2 DEF GuiltyInv
<1>49. ASSUME NEW j \in Jobs, KillWork(j) PROVE Ok(p)
  BY <1>2, <1>3, <1>49 DEF KillWork
<1>50. ASSUME NEW e \in Entities, Client(e) PROVE Ok(p)
  <2>1. CASE Submit(e)
    <3>1. PICK j \in Jobs, D \in SUBSET Jobs, s \in Scheds : PushJob(e, j, D, s)
      BY <1>0, <2>1, NewRqType DEF Submit, Armed
    <3> QED
      BY <1>4, <3>1
  <2> QED
    BY <1>50, <2>1, <1>5, <1>6, <1>7, <1>8, <1>9, <1>10, <1>11, <1>12, <1>13, <1>14, Zenon DEF
       Client
<1>51. ASSUME NEW s \in Scheds, Thread(s) PROVE Ok(p)
  BY <1>51, <1>15, <1>16, <1>17, <1>18, <1>19, <1>20, <1>21, <1>22, <1>23, <1>24, <1>25,
     <1>26, <1>27, <1>28, ZenonT(60) DEF Thread
<1>52. ASSUME NEW s \in Scheds, Hardware(s) PROVE Ok(p)
  BY <1>52, <1>29, <1>30, Zenon DEF Hardware
<1>53. ASSUME Timeout PROVE Ok(p)
  BY <1>53, <1>32, <1>33, <1>34, <1>35, <1>36, <1>37, <1>38, <1>39, <1>40, <1>41, <1>42,
     <1>43, <1>44, <1>45, <1>46, <1>47, <1>48, Zenon DEF Timeout, Armed
<1> QED
  BY <1>50, <1>51, <1>52, <1>53, <1>31, <1>49 DEF Next

\* Past the reset the handler goes on to its end, and leaves no further job to itself.
LEMMA HandlerGoesOn ==
  ASSUME Types, ParkInv, OwnTypes, Next, tpc \in {"start", "jobs", "end"}, bad' = bad
  PROVE  tpc' \in {"start", "jobs", "end"} /\ \A s \in Scheds : free_guilty'[s] => free_guilty[s]
<1> USE SchedAssumption DEF listVars, schedVars, tdrVars
<1> DEFINE Goal == tpc' \in {"start", "jobs", "end"} /\ \A s \in Scheds : free_guilty'[s] => free_guilty[s]
<1>0. Types /\ bad # None /\ free_guilty \in [Scheds -> BOOLEAN]
  BY DEF ParkInv, OwnTypes
<1>1. ASSUME NEW e \in Entities, NEW j \in Jobs, NEW D \in SUBSET Jobs, NEW s \in Scheds,
             PushJob(e, j, D, s)
      PROVE  Goal
  BY <1>1 DEF PushJob
<1>2. ASSUME NEW e \in Entities, PushStopped(e) PROVE Goal
  BY <1>2 DEF PushStopped
<1>3. ASSUME NEW e \in Entities, AddEntity(e) PROVE Goal
  BY <1>3 DEF AddEntity
<1>4. ASSUME NEW e \in Entities, PushWake(e) PROVE Goal
  BY <1>4 DEF PushWake
<1>5. ASSUME NEW e \in Entities, Flush(e) PROVE Goal
  BY <1>5 DEF Flush
<1>6. ASSUME NEW e \in Entities, FlushSleep(e) PROVE Goal
  BY <1>6 DEF FlushSleep
<1>7. ASSUME NEW e \in Entities, NEW kill \in BOOLEAN, NEW next \in {"open", "fini"},
             FlushEnd(e, kill, next)
      PROVE  Goal
  BY <1>7 DEF FlushEnd
<1>8. ASSUME NEW e \in Entities, Fini(e) PROVE Goal
  BY <1>8 DEF Fini
<1>9. ASSUME NEW e \in Entities, ClearDependency(e) PROVE Goal
  BY <1>9 DEF ClearDependency
<1>10. ASSUME NEW e \in Entities, KillJob(e) PROVE Goal
  BY <1>10 DEF KillJob
<1>11. ASSUME NEW e \in Entities, PutLast(e) PROVE Goal
  BY <1>11 DEF PutLast
<1>12. ASSUME NEW s \in Scheds, GetCleanupJob(s) PROVE Goal
  BY <1>12 DEF GetCleanupJob
<1>13. ASSUME NEW s \in Scheds, FreeJob(s) PROVE Goal
  BY <1>13 DEF FreeJob
<1>14. ASSUME NEW s \in Scheds, NoCleanupJob(s) PROVE Goal
  BY <1>14 DEF NoCleanupJob
<1>15. ASSUME NEW s \in Scheds, Park(s) PROVE Goal
  BY <1>15 DEF Park
<1>16. ASSUME NEW s \in Scheds, Unpark(s) PROVE Goal
  BY <1>16 DEF Unpark
<1>17. ASSUME NEW s \in Scheds, NEW e \in Range(entities[s]), SelectEntity(s, e) PROVE Goal
  BY <1>17 DEF SelectEntity
<1>18. ASSUME NEW s \in Scheds, Sleep(s) PROVE Goal
  BY <1>18 DEF Sleep
<1>19. ASSUME NEW s \in Scheds, WakeUp(s) PROVE Goal
  BY <1>19 DEF WakeUp
<1>20. ASSUME NEW s \in Scheds, NEW d \in Jobs, PopNextDep(s, d) PROVE Goal
  BY <1>20 DEF PopNextDep
<1>21. ASSUME NEW s \in Scheds, NEW d \in Jobs, PopWaitDep(s, d) PROVE Goal
  BY <1>21 DEF PopWaitDep
<1>22. ASSUME NEW s \in Scheds, PopJob(s) PROVE Goal
  BY <1>22 DEF PopJob
<1>23. ASSUME NEW s \in Scheds, NEW r \in BOOLEAN, RunJob(s, r) PROVE Goal
  BY <1>23 DEF RunJob
<1>24. ASSUME NEW s \in Scheds, AddDoneCb(s) PROVE Goal
  BY <1>24 DEF AddDoneCb
<1>25. ASSUME NEW s \in Scheds, DoneAtOnce(s) PROVE Goal
  BY <1>25 DEF DoneAtOnce
<1>26. ASSUME NEW s \in Scheds, NEW j \in Jobs, HwSilent(s, j) PROVE Goal
  BY <1>26 DEF HwSilent
<1>27. ASSUME NEW s \in Scheds, NEW j \in Jobs, HwDone(s, j) PROVE Goal
  BY <1>27 DEF HwDone
<1>28. ASSUME NEW s \in Scheds, DoneWake(s) PROVE Goal
  BY <1>28 DEF DoneWake
<1>29. ASSUME NEW s \in Scheds, TdrFire(s) PROVE Goal
  BY <1>29 DEF TdrFire
<1>30. ASSUME SoftRecover PROVE Goal
  BY <1>30 DEF SoftRecover
<1>31. ASSUME Recover PROVE Goal
  BY <1>31 DEF Recover
<1>32. ASSUME NEW s \in Scheds, ParkThread(s) PROVE Goal
  BY <1>32 DEF ParkThread
<1>33. ASSUME ReinsertBad PROVE Goal
  BY <1>33 DEF ReinsertBad
<1>34. ASSUME UnhookJob PROVE Goal
  BY <1>34 DEF UnhookJob
<1>35. ASSUME RemoveJob PROVE Goal
  BY <1>35 DEF RemoveJob
<1>36. ASSUME StopDone PROVE Goal
  BY <1>36 DEF StopDone
<1>37. ASSUME SkipReset PROVE Goal
  BY <1>37 DEF SkipReset
<1>38. ASSUME NEW r \in BOOLEAN, Reset(r) PROVE Goal
  BY <1>38 DEF Reset
<1>39. ASSUME NEW s \in Scheds, NoResubmit(s) PROVE Goal
  BY <1>39 DEF NoResubmit
<1>40. ASSUME NEW s \in Scheds, NEW F \in SUBSET Jobs, Resubmit(s, F) PROVE Goal
  BY <1>40 DEF Resubmit
<1>41. ASSUME StartJob PROVE Goal
  BY <1>41 DEF StartJob
<1>42. ASSUME StartDone PROVE Goal
  BY <1>42 DEF StartDone
<1>43. ASSUME StartFailed PROVE Goal
  BY <1>43 DEF StartFailed
<1>44. ASSUME UnparkThread PROVE Goal
  BY <1>44 DEF UnparkThread
<1>45. ASSUME TdrEnd PROVE Goal
  BY <1>0, <1>45 DEF TdrEnd
<1>46. ASSUME NEW j \in Jobs, KillWork(j) PROVE Goal
  BY <1>46 DEF KillWork
<1> HIDE DEF Goal
<1>47. ASSUME NEW e \in Entities, Client(e) PROVE Goal
  <2>1. CASE Submit(e)
    <3>1. PICK j \in Jobs, D \in SUBSET Jobs, s \in Scheds : PushJob(e, j, D, s)
      BY <1>0, <2>1, NewRqType DEF Submit, Armed
    <3> QED
      BY <1>1, <3>1
  <2> QED
    BY <1>47, <2>1, <1>2, <1>3, <1>4, <1>5, <1>6, <1>7, <1>8, <1>9, <1>10, <1>11, Zenon DEF
       Client
<1>48. ASSUME NEW s \in Scheds, Thread(s) PROVE Goal
  BY <1>48, <1>12, <1>13, <1>14, <1>15, <1>16, <1>17, <1>18, <1>19, <1>20, <1>21, <1>22,
     <1>23, <1>24, <1>25, ZenonT(60) DEF Thread
<1>49. ASSUME NEW s \in Scheds, Hardware(s) PROVE Goal
  BY <1>49, <1>26, <1>27, Zenon DEF Hardware
<1>50. ASSUME Timeout PROVE Goal
  BY <1>50, <1>29, <1>30, <1>31, <1>32, <1>33, <1>34, <1>35, <1>36, <1>37, <1>38, <1>39,
     <1>40, <1>41, <1>42, <1>43, <1>44, <1>45, Zenon DEF Timeout, Armed
<1>51. Goal
  BY <1>47, <1>48, <1>49, <1>50, <1>28, <1>46 DEF Next
<1> QED
  BY <1>51 DEF Goal

\* The thread that has a job is that of its scheduler.
LEMMA TheThread ==
  ASSUME ThreadInv, RunInv, FreeInv, NEW s \in Scheds, sjob[s] # None
  PROVE  sched[sjob[s]] = s
<1>1. Running(s) \/ spc[s] = "free"
  BY DEF ThreadInv, Running
<1> QED
  BY <1>1 DEF RunInv, FreeInv

\* Each of those who free a job is the only one who has it.
LEMMA FreedInvStep ==
  ASSUME IInv, IInv', OwnInv, Next
  PROVE  FreedInv'
<1> USE SchedAssumption DEF jobVars
<1>0. /\ Types /\ Types' /\ ParkInv /\ ThreadInv /\ HoldInv /\ QueueInv /\ PendingInv
      /\ JobsInv /\ RunInv /\ CleanInv
      /\ OwnTypes /\ FreeInv /\ GuiltyInv /\ KillInv /\ FreedInv
      /\ freed \in [Jobs -> BOOLEAN] /\ pending_list \in [Scheds -> Seq(Jobs)]
      /\ sjob \in [Scheds -> JobOrNone]
  BY DEF IInv, OwnInv, OwnTypes, Types, SchedType
<1> SUFFICES ASSUME NEW x \in Jobs, freed'[x]
             PROVE  /\ ent'[x] # None /\ finished'[x] /\ Unlisted(x)' /\ ~Killing(x)'
                    /\ bad' = x => tpc' \in {"start", "jobs", "end"} /\ ~free_guilty'[sched'[x]]
  BY DEF FreedInv, Unlisted, Killing
<1> DEFINE Gone == /\ ent'[x] # None /\ finished'[x] /\ Unlisted(x)' /\ ~Killing(x)'
                   /\ bad' = x => tpc' \in {"start", "jobs", "end"} /\ ~free_guilty'[sched'[x]]
<1>x. x # None
  BY NoneIsNoJob
<1>1. CASE freed[x]
  <2>1. /\ ent[x] # None /\ finished[x] /\ Unlisted(x) /\ ~Killing(x)
        /\ bad = x => tpc \in {"start", "jobs", "end"} /\ ~free_guilty[sched[x]]
    BY <1>0, <1>1 DEF FreedInv
  <2>2. ~Fresh(x)
    BY <2>1 DEF Fresh, Unseen
  <2>3. ent'[x] # None /\ sched'[x] = sched[x] /\ sched[x] \in Scheds
    BY <1>0, <2>1, ArmedStays DEF JobsInv, Types, JobType
  <2>4. finished'[x]
    BY <1>0, <2>1, ClientFrame, ThreadFrame, HandlerFrame, InterruptFrame DEF FencesStay, Next,
       Interrupt
  <2>5. Unlisted(x)'
    BY <2>1, <2>2, UnlistedStep DEF BadOut
  <2>6. ~Killing(x)'
    <3>1. ASSUME NEW e \in Entities, queue[e] # <<>>, x = Head(queue[e]) PROVE FALSE
      BY <1>0, <2>2, <3>1, HeadQueued
    <3> QED
      BY <1>0, <2>1, <3>1, KillStep DEF KillMoves
  <2>7. ASSUME bad' = x PROVE bad = x
    <3>1. ASSUME NEW t \in Scheds, pending_list[t] # <<>>, x = Head(pending_list[t]) PROVE FALSE
      <4>1. x \in Range(pending_list[t])
        BY <1>0, <3>1, RangeTail DEF PendingInv, Pending
      <4> QED
        BY <2>1, <4>1 DEF Unlisted
    <3> QED
      BY <1>0, <1>x, <2>7, <3>1, BadStep
  <2>8. ASSUME bad' = x PROVE tpc' \in {"start", "jobs", "end"} /\ ~free_guilty'[sched'[x]]
    <3>1. bad' = bad /\ tpc \in {"start", "jobs", "end"} /\ ~free_guilty[sched[x]]
      BY <2>1, <2>7, <2>8
    <3> QED
      BY <1>0, <2>3, <3>1, HandlerGoesOn
  <2> QED
    BY <2>3, <2>4, <2>5, <2>6, <2>8
<1>2. ASSUME freed' = freed PROVE Gone
  BY <1>1, <1>2
<1> HIDE DEF Gone
<1>3. ASSUME NEW e \in Entities, NEW j \in Jobs, NEW D \in SUBSET Jobs, NEW s \in Scheds,
             PushJob(e, j, D, s)
      PROVE  Gone
  BY <1>2, <1>3 DEF PushJob
<1>4. ASSUME NEW e \in Entities, PushStopped(e) PROVE Gone
  BY <1>2, <1>4 DEF PushStopped
<1>5. ASSUME NEW e \in Entities, AddEntity(e) PROVE Gone
  BY <1>2, <1>5 DEF AddEntity
<1>6. ASSUME NEW e \in Entities, PushWake(e) PROVE Gone
  BY <1>2, <1>6 DEF PushWake
<1>7. ASSUME NEW e \in Entities, Flush(e) PROVE Gone
  BY <1>2, <1>7 DEF Flush
<1>8. ASSUME NEW e \in Entities, FlushSleep(e) PROVE Gone
  BY <1>2, <1>8 DEF FlushSleep
<1>9. ASSUME NEW e \in Entities, NEW kill \in BOOLEAN, NEW next \in {"open", "fini"},
             FlushEnd(e, kill, next)
      PROVE  Gone
  BY <1>2, <1>9 DEF FlushEnd
<1>10. ASSUME NEW e \in Entities, Fini(e) PROVE Gone
  BY <1>2, <1>10 DEF Fini
<1>11. ASSUME NEW e \in Entities, ClearDependency(e) PROVE Gone
  BY <1>2, <1>11 DEF ClearDependency
<1>12. ASSUME NEW e \in Entities, KillJob(e) PROVE Gone
  BY <1>2, <1>12 DEF KillJob
<1>13. ASSUME NEW e \in Entities, PutLast(e) PROVE Gone
  BY <1>2, <1>13 DEF PutLast
<1>14. ASSUME NEW s \in Scheds, GetCleanupJob(s) PROVE Gone
  BY <1>2, <1>14 DEF GetCleanupJob
<1>15. ASSUME NEW s \in Scheds, FreeJob(s) PROVE Gone
  <2>1. /\ spc[s] = "free" /\ freed' = [freed EXCEPT ![sjob[s]] = TRUE]
        /\ sjob' = [sjob EXCEPT ![s] = None]
        /\ UNCHANGED <<finished, ent, sched, finish_cb, work, pending_list, free_guilty>> /\ UNCHANGED tdrVars
    BY <1>15 DEF FreeJob, fenceVars, pushVars, killVars, schedVars, listVars
  <2>2. CASE freed[x]
    BY <1>1, <2>2 DEF Gone
  <2>3. CASE ~freed[x]
    <3>1. x = sjob[s]
      BY <1>0, <2>1, <2>3
    <3>2. /\ finished[x] /\ sched[x] = s /\ x \notin Range(pending_list[s])
          /\ BadOut => bad # x
      BY <1>0, <2>1, <3>1 DEF FreeInv
    <3>3. ent[x] # None
      BY <1>0, <3>2 DEF JobsInv, Fresh, Unseen
    <3>4. Unlisted(x)'
      <4>1. ASSUME NEW t \in Scheds PROVE sjob'[t] # x
        <5>1. t # s => sjob[t] # x
          BY <1>0, <1>x, <3>2, TheThread
        <5> QED
          BY <1>0, <1>x, <2>1, <5>1
      <4>2. ASSUME NEW t \in Scheds PROVE x \notin Range(pending_list[t])
        BY <1>0, <3>2 DEF PendingInv, Pending
      <4> QED
        BY <2>1, <4>1, <4>2 DEF Unlisted
    <3>5. ~Killing(x)'
      BY <1>0, <2>1, <3>1 DEF KillInv, Killing, Unlisted
    <3>6. ASSUME bad = x PROVE tpc \in {"start", "jobs", "end"} /\ ~free_guilty[s]
      <4>1. ~free_guilty[s]
        BY <1>0, <3>1, <3>6 DEF GuiltyInv, Unlisted
      <4>2. s \notin ToPark \/ (tpc = "parking" /\ cur = s)
        BY <1>0, <2>1 DEF ParkInv
      <4>3. ~BadOut /\ tpc # "idle" /\ tpc \in TdrPcs
        BY <1>0, <1>x, <3>2, <3>6 DEF ParkInv, Types, TdrType
      <4> QED
        BY <3>2, <3>6, <4>1, <4>2, <4>3 DEF ToPark, BadOut, TdrPcs
    <3> QED
      BY <2>1, <3>2, <3>3, <3>4, <3>5, <3>6 DEF Gone, tdrVars
  <2> QED
    BY <2>2, <2>3
<1>16. ASSUME NEW s \in Scheds, NoCleanupJob(s) PROVE Gone
  BY <1>2, <1>16 DEF NoCleanupJob
<1>17. ASSUME NEW s \in Scheds, Park(s) PROVE Gone
  BY <1>2, <1>17 DEF Park
<1>18. ASSUME NEW s \in Scheds, Unpark(s) PROVE Gone
  BY <1>2, <1>18 DEF Unpark
<1>19. ASSUME NEW s \in Scheds, NEW e \in Range(entities[s]), SelectEntity(s, e) PROVE Gone
  BY <1>2, <1>19 DEF SelectEntity
<1>20. ASSUME NEW s \in Scheds, Sleep(s) PROVE Gone
  BY <1>2, <1>20 DEF Sleep
<1>21. ASSUME NEW s \in Scheds, WakeUp(s) PROVE Gone
  BY <1>2, <1>21 DEF WakeUp
<1>22. ASSUME NEW s \in Scheds, NEW d \in Jobs, PopNextDep(s, d) PROVE Gone
  BY <1>2, <1>22 DEF PopNextDep
<1>23. ASSUME NEW s \in Scheds, NEW d \in Jobs, PopWaitDep(s, d) PROVE Gone
  BY <1>2, <1>23 DEF PopWaitDep
<1>24. ASSUME NEW s \in Scheds, PopJob(s) PROVE Gone
  BY <1>2, <1>24 DEF PopJob
<1>25. ASSUME NEW s \in Scheds, NEW r \in BOOLEAN, RunJob(s, r) PROVE Gone
  BY <1>2, <1>25 DEF RunJob
<1>26. ASSUME NEW s \in Scheds, AddDoneCb(s) PROVE Gone
  BY <1>2, <1>26 DEF AddDoneCb
<1>27. ASSUME NEW s \in Scheds, DoneAtOnce(s) PROVE Gone
  BY <1>2, <1>27 DEF DoneAtOnce
<1>28. ASSUME NEW s \in Scheds, NEW j \in Jobs, HwSilent(s, j) PROVE Gone
  BY <1>2, <1>28 DEF HwSilent
<1>29. ASSUME NEW s \in Scheds, NEW j \in Jobs, HwDone(s, j) PROVE Gone
  BY <1>2, <1>29 DEF HwDone
<1>30. ASSUME NEW s \in Scheds, DoneWake(s) PROVE Gone
  BY <1>2, <1>30 DEF DoneWake
<1>31. ASSUME NEW s \in Scheds, TdrFire(s) PROVE Gone
  BY <1>2, <1>31 DEF TdrFire
<1>32. ASSUME SoftRecover PROVE Gone
  BY <1>2, <1>32 DEF SoftRecover
<1>33. ASSUME Recover PROVE Gone
  BY <1>2, <1>33 DEF Recover
<1>34. ASSUME NEW s \in Scheds, ParkThread(s) PROVE Gone
  BY <1>2, <1>34 DEF ParkThread
<1>35. ASSUME ReinsertBad PROVE Gone
  BY <1>2, <1>35 DEF ReinsertBad
<1>36. ASSUME UnhookJob PROVE Gone
  BY <1>2, <1>36 DEF UnhookJob
<1>37. ASSUME RemoveJob PROVE Gone
  <2> DEFINE q == pending_list[cur]
             j == q[left]
  <2>1. /\ tpc = "unhook" /\ left > 0 /\ finished[j]
        /\ UNCHANGED <<bad, finished, ent, sjob, finish_cb, work>>
        /\ pending_list' = [pending_list EXCEPT ![cur] = Without(@, j)]
        /\ freed' = [freed EXCEPT ![j] = @ \/ j # bad]
    BY <1>37 DEF RemoveJob, FreesInStop, fenceVars, pushVars, threadVars, killVars
  <2>2. cur \in Scheds /\ q \in Seq(Jobs) /\ left \in 1 .. Len(q)
    BY <1>0, <2>1 DEF CleanInv, ParkInv, Types, TdrType
  <2>3. CASE freed[x]
    BY <1>1, <2>3 DEF Gone
  <2>4. CASE ~freed[x]
    <3>1. x = j /\ j # bad
      BY <1>0, <2>1, <2>2, <2>4
    <3>2. sched[x] = cur /\ x \in Range(q)
      BY <1>0, <2>2, <3>1, InRange DEF PendingInv, Pending
    <3>3. ent[x] # None
      BY <1>0, <2>1, <3>1 DEF JobsInv, Fresh, Unseen
    <3>4. ASSUME NEW t \in Scheds, x \in Range(pending_list'[t]) PROVE FALSE
      <4>1. CASE t = cur
        <5>1. pending_list'[cur] = Without(q, j)
          BY <1>0, <2>1, <2>2
        <5>2. \A y : y \in Range(Without(q, j)) <=> y \in Range(q) /\ y # j
          BY <1>0, <2>2, WithoutFacts DEF PendingInv, Pending
        <5> QED
          BY <3>1, <3>4, <4>1, <5>1, <5>2
      <4>2. CASE t # cur
        <5>1. pending_list'[t] = pending_list[t]
          BY <1>0, <2>1, <4>2
        <5>2. sched[x] = t
          BY <1>0, <3>4, <5>1 DEF PendingInv, Pending
        <5> QED
          BY <3>2, <4>2, <5>2
      <4> QED
        BY <4>1, <4>2
    <3>5. ASSUME NEW t \in Scheds, sjob[t] = x PROVE FALSE
      <4>1. spc[cur] = "parked"
        BY <1>0, <2>1, <2>2, StoppedParked
      <4>2. t # cur
        BY <1>0, <1>x, <3>5, <4>1 DEF ThreadInv
      <4>3. sched[x] = t
        BY <1>0, <1>x, <3>5, TheThread
      <4> QED
        BY <3>2, <4>2, <4>3
    <3>6. ~Killing(x)
      BY <1>0, <2>2, <3>2 DEF KillInv, Unlisted
    <3> QED
      BY <2>1, <3>1, <3>3, <3>4, <3>5, <3>6 DEF Gone, Unlisted, Killing
  <2> QED
    BY <2>3, <2>4
<1>38. ASSUME StopDone PROVE Gone
  BY <1>2, <1>38 DEF StopDone
<1>39. ASSUME SkipReset PROVE Gone
  BY <1>2, <1>39 DEF SkipReset
<1>40. ASSUME NEW r \in BOOLEAN, Reset(r) PROVE Gone
  BY <1>2, <1>40 DEF Reset
<1>41. ASSUME NEW s \in Scheds, NoResubmit(s) PROVE Gone
  BY <1>2, <1>41 DEF NoResubmit
<1>42. ASSUME NEW s \in Scheds, NEW F \in SUBSET Jobs, Resubmit(s, F) PROVE Gone
  BY <1>2, <1>42 DEF Resubmit
<1>43. ASSUME StartJob PROVE Gone
  BY <1>2, <1>43 DEF StartJob
<1>44. ASSUME StartDone PROVE Gone
  BY <1>2, <1>44 DEF StartDone
<1>45. ASSUME StartFailed PROVE Gone
  BY <1>2, <1>45 DEF StartFailed
<1>46. ASSUME UnparkThread PROVE Gone
  BY <1>2, <1>46 DEF UnparkThread
<1>47. ASSUME TdrEnd PROVE Gone
  <2>1. /\ tpc = "end" /\ bad' = None /\ freed' = [freed EXCEPT ![bad] = @ \/ free_guilty[sched[bad]]]
        /\ UNCHANGED <<finished, ent, sjob, finish_cb, work, pending_list>>
    BY <1>47 DEF TdrEnd, fenceVars, pushVars, threadVars, killVars
  <2>2. CASE freed[x]
    BY <1>1, <2>2 DEF Gone
  <2>3. CASE ~freed[x]
    <3>1. x = bad /\ free_guilty[sched[x]]
      BY <1>0, <2>1, <2>3
    <3>2. ent[x] # None /\ sched[x] \in Scheds
      BY <1>0, <1>x, <3>1 DEF JobsInv, Types, JobType
    <3>3. finished[x] /\ Unlisted(x)
      BY <1>0, <3>1, <3>2 DEF GuiltyInv, Unlisted
    <3>4. ~Killing(x)
      BY <1>0, <3>1 DEF KillInv
    <3> QED
      BY <1>x, <2>1, <3>2, <3>3, <3>4 DEF Gone, Unlisted, Killing
  <2> QED
    BY <2>2, <2>3
<1>48. ASSUME NEW j \in Jobs, KillWork(j) PROVE Gone
  <2>1. /\ j \in work /\ freed' = [freed EXCEPT ![j] = TRUE]
        /\ finished' = [finished EXCEPT ![j] = TRUE] /\ work' = (work \ {j}) \cup Killed(j)
        /\ finish_cb' = [k \in Jobs |-> IF finish_cb[k] = j THEN None ELSE finish_cb[k]]
        /\ UNCHANGED <<ent, sjob, pending_list, bad>>
    BY <1>48 DEF KillWork, SignalFinished, pushVars, threadVars, tdrVars, listVars
  <2>2. CASE freed[x]
    BY <1>1, <2>2 DEF Gone
  <2>3. CASE ~freed[x]
    <3>1. x = j
      BY <1>0, <2>1, <2>3
    <3>2. ent[x] # None /\ finish_cb[x] = None /\ bad # x /\ Unlisted(x)
      BY <1>0, <2>1, <3>1 DEF KillInv, Killing
    <3>3. finished'[x]
      BY <1>0, <2>1, <3>1 DEF Types, JobType
    <3>4. ~Killing(x)'
      BY <1>x, <2>1, <3>1, <3>2 DEF Killing, Killed
    <3> QED
      BY <2>1, <3>2, <3>3, <3>4 DEF Gone, Unlisted
  <2> QED
    BY <2>2, <2>3
<1>49. ASSUME NEW e \in Entities, Client(e) PROVE Gone
  <2>1. CASE Submit(e)
    <3>1. PICK j \in Jobs, D \in SUBSET Jobs, s \in Scheds : PushJob(e, j, D, s)
      BY <1>0, <2>1, NewRqType DEF Submit, Armed
    <3> QED
      BY <1>3, <3>1
  <2> QED
    BY <1>49, <2>1, <1>4, <1>5, <1>6, <1>7, <1>8, <1>9, <1>10, <1>11, <1>12, <1>13, Zenon DEF
       Client
<1>50. ASSUME NEW s \in Scheds, Thread(s) PROVE Gone
  BY <1>50, <1>14, <1>15, <1>16, <1>17, <1>18, <1>19, <1>20, <1>21, <1>22, <1>23, <1>24,
     <1>25, <1>26, <1>27, ZenonT(60) DEF Thread
<1>51. ASSUME NEW s \in Scheds, Hardware(s) PROVE Gone
  BY <1>51, <1>28, <1>29, Zenon DEF Hardware
<1>52. ASSUME Timeout PROVE Gone
  BY <1>52, <1>31, <1>32, <1>33, <1>34, <1>35, <1>36, <1>37, <1>38, <1>39, <1>40, <1>41,
     <1>42, <1>43, <1>44, <1>45, <1>46, <1>47, Zenon DEF Timeout, Armed
<1> QED
  BY <1>49, <1>50, <1>51, <1>52, <1>30, <1>48 DEF Next, Gone

\* A job passes from one owner to the next: from its queue to the pending list or to kill_jobs,
\* from the list to the thread or to the handler, and from each of them to free_job().
LEMMA KeptInvStep ==
  ASSUME IInv, IInv', OwnInv, Next
  PROVE  KeptInv'
<1> USE SchedAssumption DEF killVars, jobVars
<1> SUFFICES ASSUME ~SoftRecovery, NEW x \in Jobs, ent'[x] # None
             PROVE  Kept(x)'
  BY DEF KeptInv, Kept, Killing, BadOut
<1>0. /\ Types /\ ParkInv /\ ThreadInv /\ HoldInv /\ QueueInv /\ PendingInv /\ JobsInv /\ CleanInv
      /\ OwnTypes /\ GuiltyInv
      /\ freed \in [Jobs -> BOOLEAN] /\ free_guilty \in [Scheds -> BOOLEAN]
      /\ pending_list \in [Scheds -> Seq(Jobs)] /\ queue \in [Entities -> Seq(Jobs)]
      /\ sjob \in [Scheds -> JobOrNone] /\ spc \in [Scheds -> ThreadPcs]
      /\ x # None
  BY NoneIsNoJob DEF IInv, OwnInv, OwnTypes, Types, SchedType, EntityType
<1>1. CASE ent[x] = None
  <2>1. PICK e \in Entities, j \in Jobs, s \in Scheds : Arms(e, j, s)
    BY <1>0, <1>1, QueueStep DEF QueueMoves
  <2>2. x = j /\ queue'[e] = Append(queue[e], j) /\ queue[e] \in Seq(Jobs)
    BY <1>0, <1>1, <2>1 DEF Arms, Types, JobType
  <2>3. x \in Range(queue'[e])
    BY <2>2, RangeAppend
  <2> QED
    BY <2>3 DEF Kept
<1> SUFFICES ASSUME ent[x] # None PROVE Kept(x)'
  BY <1>1
<1>2. Kept(x) /\ sched'[x] = sched[x] /\ sched[x] \in Scheds
  BY <1>0, ArmedStays DEF OwnInv, KeptInv, JobsInv, Types, JobType
<1>3. ASSUME freed[x] => freed'[x], Killing(x) => Killing(x)',
             \A e \in Entities : x \in Range(queue[e]) => x \in Range(queue'[e]),
             \A t \in Scheds : x \in Range(pending_list[t]) => x \in Range(pending_list'[t]),
             \A t \in Scheds : spc[t] = "free" /\ sjob[t] = x => spc'[t] = "free" /\ sjob'[t] = sjob[t],
             bad = x /\ (BadOut \/ free_guilty[sched[x]])
                => bad' = x /\ (BadOut' \/ free_guilty'[sched[x]])
      PROVE  Kept(x)'
  BY <1>2, <1>3 DEF Kept
<1>4. ASSUME UNCHANGED <<freed, finish_cb, work, queue, pending_list, sjob, spc, free_guilty>>,
             bad' = bad, BadOut => BadOut'
      PROVE  Kept(x)'
  BY <1>3, <1>4 DEF Killing
<1>5. ASSUME UNCHANGED <<freed, finish_cb, work, queue, pending_list, sjob, spc, free_guilty>>,
             UNCHANGED tdrVars
      PROVE  Kept(x)'
  BY <1>2, <1>3, <1>5 DEF Killing, BadOut, tdrVars, Kept
<1>6. ASSUME UNCHANGED <<freed, finish_cb, work, queue, pending_list, free_guilty>>,
             UNCHANGED tdrVars,
             \A t \in Scheds : spc[t] = "free" => spc'[t] = "free" /\ sjob'[t] = sjob[t]
      PROVE  Kept(x)'
  BY <1>2, <1>3, <1>6 DEF Killing, BadOut, tdrVars, Kept
<1>7. ASSUME UNCHANGED <<freed, queue, pending_list, free_guilty>>, bad' = bad, BadOut => BadOut',
             \A t \in Scheds : spc[t] = "free" => spc'[t] = "free" /\ sjob'[t] = sjob[t],
             Killing(x) => Killing(x)'
      PROVE  Kept(x)'
  BY <1>3, <1>7
<1>8. ASSUME UNCHANGED tdrVars, sched'[bad] = sched[bad] PROVE bad' = bad /\ (BadOut => BadOut')
  BY <1>8 DEF tdrVars, BadOut
<1>9. tpc # "idle" => sched'[bad] = sched[bad] /\ sched[bad] \in Scheds
  <2>1. ASSUME tpc # "idle" PROVE bad \in Jobs /\ ent[bad] # None
    BY <1>0, <2>1 DEF ParkInv, JobsInv, Types, TdrType, JobOrNone
  <2> QED
    BY <1>0, <2>1, ArmedStays DEF JobsInv, Types, JobType
<1> HIDE DEF Kept
<1>10. ASSUME NEW e \in Entities, NEW j \in Jobs, NEW D \in SUBSET Jobs, NEW s \in Scheds,
              PushJob(e, j, D, s)
       PROVE  Kept(x)'
  <2>1. /\ UNCHANGED <<freed, finish_cb, work, pending_list, sjob, spc, free_guilty, bad>> /\ UNCHANGED tdrVars
        /\ queue' = [queue EXCEPT ![e] = Append(@, j)]
    BY <1>10 DEF PushJob, listVars, threadVars, tdrVars
  <2>2. Range(Append(queue[e], j)) = Range(queue[e]) \cup {j}
    BY <1>0, RangeAppend
  <2>3. \A f \in Entities : x \in Range(queue[f]) => x \in Range(queue'[f])
    BY <1>0, <2>1, <2>2
  <2> QED
    BY <1>2, <1>3, <2>1, <2>3 DEF Killing, BadOut, tdrVars
<1>11. ASSUME NEW e \in Entities, PushStopped(e) PROVE Kept(x)'
  BY <1>5, <1>11 DEF PushStopped, placeVars, entityVars, listVars, schedVars, threadVars
<1>12. ASSUME NEW e \in Entities, AddEntity(e) PROVE Kept(x)'
  BY <1>5, <1>12 DEF AddEntity, placeVars, entityVars, listVars, schedVars, threadVars
<1>13. ASSUME NEW e \in Entities, PushWake(e) PROVE Kept(x)'
  BY <1>5, <1>13 DEF PushWake, placeVars, entityVars, listVars, schedVars, threadVars
<1>14. ASSUME NEW e \in Entities, Flush(e) PROVE Kept(x)'
  BY <1>5, <1>14 DEF Flush, placeVars, entityVars, listVars, schedVars, threadVars
<1>15. ASSUME NEW e \in Entities, FlushSleep(e) PROVE Kept(x)'
  BY <1>5, <1>15 DEF FlushSleep, placeVars, entityVars, listVars, schedVars, threadVars
<1>16. ASSUME NEW e \in Entities, NEW kill \in BOOLEAN, NEW next \in {"open", "fini"},
             FlushEnd(e, kill, next)
       PROVE  Kept(x)'
  BY <1>5, <1>16 DEF FlushEnd, placeVars, entityVars, listVars, schedVars, threadVars
<1>17. ASSUME NEW e \in Entities, Fini(e) PROVE Kept(x)'
  BY <1>5, <1>17 DEF Fini, placeVars, entityVars, listVars, schedVars, threadVars
<1>18. ASSUME NEW e \in Entities, ClearDependency(e) PROVE Kept(x)'
  BY <1>5, <1>18 DEF ClearDependency, placeVars, entityVars, listVars, schedVars, threadVars
<1>19. ASSUME NEW e \in Entities, KillJob(e) PROVE Kept(x)'
  <2> DEFINE j == Head(queue[e])
  <2>1. /\ queue[e] # <<>> /\ queue' = [queue EXCEPT ![e] = Tail(@)]
        /\ UNCHANGED <<freed, pending_list, sjob, spc, free_guilty>> /\ UNCHANGED tdrVars
        /\ \A y \in Jobs : y # j => finish_cb'[y] = finish_cb[y] /\ (y \in work => y \in work')
    BY <1>0, <1>19 DEF KillJob, listVars, schedVars, threadVars, Types, JobType
  <2>2. j \in Jobs /\ \A y : y \in Range(Tail(queue[e])) <=> y \in Range(queue[e]) /\ y # j
    <3>1. Queued(e) /\ queue[e] \in Seq(Jobs)
      BY <1>0 DEF QueueInv
    <3>2. j \in Jobs
      BY <2>1, <3>1, TailFacts
    <3>3. \A y : y \in Range(Tail(queue[e])) <=> y \in Range(queue[e]) /\ y # Head(queue[e])
      BY <2>1, <3>1, RangeTail DEF Queued
    <3> QED
      BY <3>2, <3>3
  <2> HIDE DEF j
  <2>3. CASE x = j
    <3>1. \/ work' = work \cup {x}
          \/ /\ finish_cb' = [finish_cb EXCEPT ![x] = last_scheduled[e]]
             /\ last_scheduled[e] # None
      BY <1>19, <2>3 DEF KillJob, j
    <3>2. Killing(x)'
      BY <1>0, <3>1 DEF Killing, Types, JobType
    <3> QED
      BY <3>2 DEF Kept
  <2>4. CASE x # j
    <3>1. \A f \in Entities : x \in Range(queue[f]) => x \in Range(queue'[f])
      BY <1>0, <2>1, <2>2, <2>4
    <3>2. Killing(x) => Killing(x)'
      BY <2>1, <2>4 DEF Killing
    <3>3. bad' = bad /\ (bad = x /\ BadOut => BadOut')
      BY <1>2, <2>1 DEF tdrVars, BadOut
    <3> QED
      BY <1>3, <2>1, <3>1, <3>2, <3>3
  <2> QED
    BY <2>3, <2>4
<1>20. ASSUME NEW e \in Entities, PutLast(e) PROVE Kept(x)'
  BY <1>5, <1>20 DEF PutLast, placeVars, entityVars, listVars, schedVars, threadVars
<1>21. ASSUME NEW s \in Scheds, GetCleanupJob(s) PROVE Kept(x)'
  <2> DEFINE j == Head(pending_list[s])
  <2>1. /\ pending_list[s] # <<>> /\ pending_list' = [pending_list EXCEPT ![s] = Tail(@)]
        /\ UNCHANGED <<freed, finish_cb, work, queue, free_guilty>> /\ UNCHANGED tdrVars
        /\ spc[s] = "top" /\ spc' = [spc EXCEPT ![s] = "free"] /\ sjob' = [sjob EXCEPT ![s] = j]
    BY <1>21 DEF GetCleanupJob, HasCleanupJob, At, entityVars
  <2>2. \A y : y \in Range(Tail(pending_list[s])) <=> y \in Range(pending_list[s]) /\ y # j
    BY <1>0, <2>1, RangeTail DEF PendingInv, Pending
  <2> HIDE DEF j
  <2>3. CASE x = j
    BY <1>0, <2>1, <2>3 DEF Kept
  <2>4. CASE x # j
    <3>1. \A t \in Scheds : x \in Range(pending_list[t]) => x \in Range(pending_list'[t])
      BY <1>0, <2>1, <2>2, <2>4
    <3>2. bad' = bad /\ (bad = x /\ BadOut => BadOut')
      BY <1>2, <2>1 DEF tdrVars, BadOut
    <3>3. \A t \in Scheds : spc[t] = "free" => spc'[t] = "free" /\ sjob'[t] = sjob[t]
      BY <1>0, <2>1
    <3> QED
      BY <1>3, <2>1, <3>1, <3>2, <3>3 DEF Killing
  <2> QED
    BY <2>3, <2>4
<1>22. ASSUME NEW s \in Scheds, FreeJob(s) PROVE Kept(x)'
  <2>1. /\ freed' = [freed EXCEPT ![sjob[s]] = TRUE]
        /\ UNCHANGED <<finish_cb, work, queue, pending_list, free_guilty>> /\ UNCHANGED tdrVars
        /\ spc' = [spc EXCEPT ![s] = "top"] /\ sjob' = [sjob EXCEPT ![s] = None]
    BY <1>22 DEF FreeJob, At, entityVars, schedVars, listVars
  <2>2. CASE sjob[s] = x
    BY <1>0, <2>1, <2>2 DEF Kept
  <2>3. CASE sjob[s] # x
    <3>1. bad' = bad /\ (bad = x /\ BadOut => BadOut')
      BY <1>2, <2>1 DEF tdrVars, BadOut
    <3>2. \A t \in Scheds : spc[t] = "free" /\ sjob[t] = x => spc'[t] = "free" /\ sjob'[t] = sjob[t]
      BY <1>0, <2>1, <2>3
    <3>3. freed[x] => freed'[x]
      BY <1>0, <2>1
    <3> QED
      BY <1>3, <2>1, <3>1, <3>2, <3>3 DEF Killing
  <2> QED
    BY <2>2, <2>3
<1>23. ASSUME NEW s \in Scheds, NoCleanupJob(s) PROVE Kept(x)'
  BY <1>0, <1>6, <1>23 DEF NoCleanupJob, At, entityVars, listVars, schedVars, threadVars
<1>24. ASSUME NEW s \in Scheds, Park(s) PROVE Kept(x)'
  BY <1>0, <1>6, <1>24 DEF Park, At, entityVars, listVars, schedVars, threadVars
<1>25. ASSUME NEW s \in Scheds, Unpark(s) PROVE Kept(x)'
  BY <1>0, <1>6, <1>25 DEF Unpark, At, entityVars, listVars, schedVars, threadVars
<1>26. ASSUME NEW s \in Scheds, NEW e \in Range(entities[s]), SelectEntity(s, e)
       PROVE  Kept(x)'
  BY <1>0, <1>6, <1>26 DEF SelectEntity, At, entityVars, listVars, schedVars, threadVars
<1>27. ASSUME NEW s \in Scheds, Sleep(s) PROVE Kept(x)'
  BY <1>0, <1>6, <1>27 DEF Sleep, At, entityVars, listVars, schedVars, threadVars
<1>28. ASSUME NEW s \in Scheds, WakeUp(s) PROVE Kept(x)'
  BY <1>0, <1>6, <1>28 DEF WakeUp, At, entityVars, listVars, schedVars, threadVars
<1>29. ASSUME NEW s \in Scheds, NEW d \in Jobs, PopNextDep(s, d) PROVE Kept(x)'
  BY <1>0, <1>6, <1>29 DEF PopNextDep, At, entityVars, listVars, schedVars, threadVars
<1>30. ASSUME NEW s \in Scheds, NEW d \in Jobs, PopWaitDep(s, d) PROVE Kept(x)'
  BY <1>0, <1>6, <1>30 DEF PopWaitDep, At, entityVars, listVars, schedVars, threadVars
<1>31. ASSUME NEW s \in Scheds, PopJob(s) PROVE Kept(x)'
  <2> DEFINE e == sent[s]
             j == Head(queue[e])
  <2>1. /\ queue' = [queue EXCEPT ![e] = Tail(@)] /\ pending_list' = [pending_list EXCEPT ![s] = Append(@, j)]
        /\ UNCHANGED <<freed, finish_cb, work, free_guilty>> /\ UNCHANGED tdrVars
        /\ spc[s] = "pop" /\ spc' = [spc EXCEPT ![s] = "run"] /\ sjob' = [sjob EXCEPT ![s] = j]
    BY <1>31 DEF PopJob, JobBegin, At
  <2>2. e \in Entities /\ queue[e] # <<>>
    BY <1>0, <2>1 DEF ThreadInv, HoldInv, Holds, Types, SchedType
  <2>3. j \in Jobs /\ \A y : y \in Range(Tail(queue[e])) <=> y \in Range(queue[e]) /\ y # j
    <3>1. Queued(e) /\ queue[e] \in Seq(Jobs)
      BY <1>0, <2>2 DEF QueueInv
    <3>2. j \in Jobs
      BY <2>2, <3>1, TailFacts
    <3> HIDE DEF e
    <3>3. \A y : y \in Range(Tail(queue[e])) <=> y \in Range(queue[e]) /\ y # Head(queue[e])
      BY <2>2, <3>1, RangeTail DEF Queued
    <3> QED
      BY <3>2, <3>3
  <2>4. Range(Append(pending_list[s], j)) = Range(pending_list[s]) \cup {j}
    BY <1>0, <2>3, RangeAppend
  <2> HIDE DEF j, e
  <2>5. /\ \A t \in Scheds : x \in Range(pending_list[t]) => x \in Range(pending_list'[t])
        /\ j \in Range(pending_list'[s])
    BY <1>0, <2>1, <2>4
  <2>6. CASE x = j
    BY <2>5, <2>6 DEF Kept
  <2>7. CASE x # j
    <3>1. \A f \in Entities : x \in Range(queue[f]) => x \in Range(queue'[f])
      BY <1>0, <2>1, <2>2, <2>3, <2>7
    <3>2. bad' = bad /\ (bad = x /\ BadOut => BadOut')
      BY <1>2, <2>1 DEF tdrVars, BadOut
    <3>3. \A t \in Scheds : spc[t] = "free" => spc'[t] = "free" /\ sjob'[t] = sjob[t]
      BY <1>0, <2>1
    <3> QED
      BY <1>3, <2>1, <2>5, <3>1, <3>2, <3>3 DEF Killing
  <2> QED
    BY <2>6, <2>7
<1>32. ASSUME NEW s \in Scheds, NEW r \in BOOLEAN, RunJob(s, r) PROVE Kept(x)'
  BY <1>0, <1>6, <1>32 DEF RunJob, At, entityVars, listVars, schedVars, threadVars
<1>33. ASSUME NEW s \in Scheds, AddDoneCb(s) PROVE Kept(x)'
  BY <1>0, <1>6, <1>33 DEF AddDoneCb, At, entityVars, listVars, schedVars, threadVars
<1>34. ASSUME NEW s \in Scheds, DoneAtOnce(s) PROVE Kept(x)'
  <2>1. /\ UNCHANGED <<freed, queue, pending_list, free_guilty>> /\ UNCHANGED tdrVars
        /\ spc[s] = "parent" /\ spc' = [spc EXCEPT ![s] = "top"] /\ sjob' = [sjob EXCEPT ![s] = None]
        /\ SignalFinished(sjob[s], hw_rq_count', {s}) /\ work' = work \cup Killed(sjob[s])
    BY <1>34 DEF DoneAtOnce, JobDone, At
  <2>2. sjob[s] \in Jobs
    BY <1>0, <2>1 DEF ThreadInv, JobOrNone
  <2>3. Killing(x) => Killing(x)'
    BY <1>0, <2>1, <2>2, KillSignal
  <2>4. \A t \in Scheds : spc[t] = "free" => spc'[t] = "free" /\ sjob'[t] = sjob[t]
    BY <1>0, <2>1
  <2>5. bad' = bad /\ (bad = x /\ BadOut => BadOut')
    BY <1>2, <2>1 DEF tdrVars, BadOut
  <2> QED
    BY <1>3, <2>1, <2>3, <2>4, <2>5
<1>35. ASSUME NEW s \in Scheds, NEW j \in Jobs, HwSilent(s, j) PROVE Kept(x)'
  BY <1>5, <1>35 DEF HwSilent, placeVars, entityVars, listVars, schedVars, threadVars
<1>36. ASSUME NEW s \in Scheds, NEW j \in Jobs, HwDone(s, j) PROVE Kept(x)'
  <2>1. /\ UNCHANGED <<freed, queue, pending_list, free_guilty, spc, sjob>> /\ UNCHANGED tdrVars
        /\ SignalFinished(j, hw_rq_count', {}) /\ work' = work \cup Killed(j)
    BY <1>36 DEF HwDone, JobDone, threadVars
  <2>3. Killing(x) => Killing(x)'
    BY <1>0, <2>1, KillSignal
  <2>5. bad' = bad /\ (bad = x /\ BadOut => BadOut')
    BY <1>2, <2>1 DEF tdrVars, BadOut
  <2> QED
    BY <1>3, <2>1, <2>3, <2>5
<1>37. ASSUME NEW s \in Scheds, DoneWake(s) PROVE Kept(x)'
  BY <1>5, <1>37 DEF DoneWake, placeVars, entityVars, listVars, schedVars, threadVars
<1>38. ASSUME NEW s \in Scheds, TdrFire(s) PROVE Kept(x)'
  <2>1. tpc = "idle" /\ bad # x /\ UNCHANGED <<freed, finish_cb, work, queue, sjob, spc, free_guilty>>
    BY <1>0, <1>38 DEF TdrFire, ParkInv, entityVars, threadVars
  <2>2. CASE pending_list[s] = <<>>
    BY <1>3, <1>38, <2>1, <2>2 DEF TdrFire, Killing
  <2>3. CASE pending_list[s] # <<>>
    <3> DEFINE j == Head(pending_list[s])
    <3>1. bad' = j /\ pending_list' = [pending_list EXCEPT ![s] = Tail(@)] /\ tpc' = "timedout"
      BY <1>38, <2>3 DEF TdrFire
    <3>2. \A y : y \in Range(Tail(pending_list[s])) <=> y \in Range(pending_list[s]) /\ y # j
      BY <1>0, <2>3, RangeTail DEF PendingInv, Pending
    <3> HIDE DEF j
    <3>3. CASE x = j
      BY <3>1, <3>3 DEF Kept, BadOut
    <3>4. CASE x # j
      <4>1. \A t \in Scheds : x \in Range(pending_list[t]) => x \in Range(pending_list'[t])
        BY <1>0, <3>1, <3>2, <3>4
      <4> QED
        BY <1>3, <2>1, <4>1 DEF Killing
    <3> QED
      BY <3>3, <3>4
  <2> QED
    BY <2>2, <2>3
<1>39. ASSUME SoftRecover PROVE Kept(x)'
  BY <1>39 DEF SoftRecover, SoftRecovered
<1>40. ASSUME Recover PROVE Kept(x)'
  BY <1>0, <1>4, <1>9, <1>40 DEF Recover, BadOut, entityVars, listVars, schedVars, threadVars,
     pushVars
<1>41. ASSUME NEW s \in Scheds, ParkThread(s) PROVE Kept(x)'
  BY <1>0, <1>4, <1>9, <1>41 DEF ParkThread, BadOut, entityVars, listVars, schedVars, threadVars,
     pushVars
<1>42. ASSUME ReinsertBad PROVE Kept(x)'
  <2>1. /\ UNCHANGED <<freed, finish_cb, work, queue, sjob, spc, free_guilty, bad>>
        /\ tpc = "parking" /\ tpc' = "unhook" /\ todo' = todo /\ sched' = sched
        /\ pending_list' = [pending_list EXCEPT ![cur] = WithBad(cur)]
    BY <1>42 DEF ReinsertBad, threadVars, entityVars, pushVars
  <2>2. cur \in Scheds /\ pending_list[cur] \in Seq(Jobs) /\ bad \in Jobs
    BY <1>0, <2>1 DEF ParkInv, Types, TdrType, JobOrNone
  <2>3. /\ \A y \in Range(pending_list[cur]) : y \in Range(WithBad(cur))
        /\ sched[bad] = cur => bad \in Range(WithBad(cur))
    <3>1. CASE sched[bad] = cur
      <4> DEFINE q == pending_list[cur]
                 r == <<bad>> \o q
      <4>1. r \in Seq(Jobs) /\ Len(r) = Len(q) + 1
        BY <2>2, PrependFacts
      <4>2. \A i \in 1 .. Len(q) + 1 : r[i] = IF i = 1 THEN bad ELSE q[i - 1]
        BY <2>2, PrependFacts
      <4>3. q \in Seq(Jobs) /\ Len(q) \in Nat
        BY <2>2, LenProperties
      <4>4. WithBad(cur) = r
        BY <3>1 DEF WithBad
      <4> HIDE DEF q, r
      <4>5. bad \in Range(r)
        <5>1. 1 \in 1 .. Len(r) /\ r[1] = bad
          BY <4>1, <4>2, <4>3
        <5> QED
          BY <4>1, <5>1, InRange
      <4>6. ASSUME NEW y \in Range(q) PROVE y \in Range(r)
        <5>1. PICK i \in 1 .. Len(q) : q[i] = y
          BY <4>3, <4>6, InRange
        <5>2. i + 1 \in 1 .. Len(r) /\ r[i + 1] = y
          BY <4>1, <4>2, <4>3, <5>1
        <5> QED
          BY <4>1, <5>2, InRange
      <4> QED
        BY <4>4, <4>5, <4>6 DEF q
    <3>2. CASE sched[bad] # cur
      <4>1. WithBad(cur) = pending_list[cur]
        BY <2>2, <3>2, ConcatEmptySeq DEF WithBad
      <4> QED
        BY <3>2, <4>1
    <3> QED
      BY <3>1, <3>2
  <2>4. \A t \in Scheds : x \in Range(pending_list[t]) => x \in Range(pending_list'[t])
    BY <1>0, <2>1, <2>2, <2>3
  <2>5. CASE bad = x /\ sched[x] = cur
    <3>1. x \in Range(pending_list'[cur])
      BY <1>0, <2>1, <2>2, <2>3, <2>5
    <3> QED
      BY <2>2, <3>1 DEF Kept
  <2>6. CASE ~(bad = x /\ sched[x] = cur)
    <3>1. bad = x /\ BadOut => BadOut'
      BY <2>1, <2>6 DEF BadOut
    <3> QED
      BY <1>3, <2>1, <2>4, <3>1 DEF Killing
  <2> QED
    BY <2>5, <2>6
<1>43. ASSUME UnhookJob PROVE Kept(x)'
  BY <1>0, <1>4, <1>9, <1>43 DEF UnhookJob, BadOut, entityVars, listVars, schedVars, threadVars,
     pushVars
<1>44. ASSUME RemoveJob PROVE Kept(x)'
  <2> DEFINE q == pending_list[cur]
             j == q[left]
  <2>1. /\ tpc = "unhook" /\ left > 0 /\ tpc' = tpc /\ todo' = todo /\ cur' = cur
        /\ UNCHANGED <<finish_cb, work, queue, sjob, spc, bad, sched>>
        /\ pending_list' = [pending_list EXCEPT ![cur] = Without(@, j)]
        /\ freed' = [freed EXCEPT ![j] = @ \/ j # bad]
        /\ free_guilty' = [free_guilty EXCEPT ![cur] = @ \/ j = bad]
    BY <1>44 DEF RemoveJob, FreesInStop, pushVars, threadVars, entityVars
  <2>2. cur \in Scheds /\ q \in Seq(Jobs) /\ left \in 1 .. Len(q)
    BY <1>0, <2>1 DEF CleanInv, ParkInv, Types, TdrType
  <2>3. j \in Jobs /\ sched[j] = cur
    BY <1>0, <2>2, AtPosition
  <2>4. \A y : y \in Range(Without(q, j)) <=> y \in Range(q) /\ y # j
    <3>1. \A i, l \in 1 .. Len(q) : q[i] = q[l] => i = l
      BY <1>0, <2>2 DEF PendingInv, Pending
    <3> HIDE DEF q, j
    <3> QED
      BY <2>2, <3>1, WithoutFacts
  <2>5. \A t \in Scheds : free_guilty[t] => free_guilty'[t]
    BY <1>0, <2>1
  <2> HIDE DEF j
  <2>6. CASE x = j /\ j # bad
    BY <1>0, <2>1, <2>6 DEF Kept
  <2>7. CASE x = j /\ j = bad
    BY <1>0, <2>1, <2>2, <2>3, <2>7 DEF Kept
  <2>8. CASE x # j
    <3>1. \A t \in Scheds : x \in Range(pending_list[t]) => x \in Range(pending_list'[t])
      BY <1>0, <2>1, <2>2, <2>4, <2>8
    <3>2. (BadOut => BadOut') /\ (freed[x] => freed'[x])
      BY <1>0, <2>1, <2>8 DEF BadOut
    <3> QED
      BY <1>2, <1>3, <2>1, <2>5, <3>1, <3>2 DEF Killing
  <2> QED
    BY <2>6, <2>7, <2>8
<1>45. ASSUME StopDone PROVE Kept(x)'
  BY <1>0, <1>4, <1>9, <1>45 DEF StopDone, BadOut, entityVars, listVars, schedVars, threadVars,
     pushVars
<1>46. ASSUME SkipReset PROVE Kept(x)'
  BY <1>0, <1>4, <1>9, <1>46 DEF SkipReset, BadOut, entityVars, listVars, schedVars, threadVars,
     pushVars
<1>47. ASSUME NEW r \in BOOLEAN, Reset(r) PROVE Kept(x)'
  BY <1>0, <1>4, <1>9, <1>47 DEF Reset, BadOut, entityVars, listVars, schedVars, threadVars,
     pushVars
<1>48. ASSUME NEW s \in Scheds, NoResubmit(s) PROVE Kept(x)'
  BY <1>0, <1>4, <1>9, <1>48 DEF NoResubmit, BadOut, entityVars, listVars, schedVars, threadVars,
     pushVars
<1>49. ASSUME NEW s \in Scheds, NEW F \in SUBSET Jobs, Resubmit(s, F) PROVE Kept(x)'
  BY <1>0, <1>4, <1>9, <1>49 DEF Resubmit, BadOut, entityVars, listVars, schedVars, threadVars,
     pushVars
<1>50. ASSUME StartJob PROVE Kept(x)'
  BY <1>0, <1>4, <1>9, <1>50 DEF StartJob, BadOut, entityVars, listVars, schedVars, threadVars,
     pushVars
<1>51. ASSUME StartDone PROVE Kept(x)'
  <2>1. /\ UNCHANGED <<freed, queue, pending_list, free_guilty, spc, sjob, bad>>
        /\ SignalFinished(pending_list[cur][left + 1], hw_rq_count, {cur})
        /\ work' = work \cup Killed(pending_list[cur][left + 1]) /\ tpc = "jobs" /\ left < Len(pending_list[cur])
    BY <1>51 DEF StartDone, threadVars, listVars
  <2>2. cur \in Scheds /\ left + 1 \in 1 .. Len(pending_list[cur]) /\ pending_list[cur] \in Seq(Jobs)
    BY <1>0, <2>1 DEF ParkInv, Types, TdrType
  <2>3. PICK j \in Jobs : j = pending_list[cur][left + 1]
    <3>1. pending_list[cur][left + 1] \in Jobs
      BY <2>2
    <3> QED
      BY <3>1
  <2>4. Killing(x) => Killing(x)'
    BY <1>0, <2>1, <2>3, KillSignal
  <2>5. ~BadOut
    BY <2>1 DEF BadOut
  <2> QED
    BY <1>3, <2>1, <2>4, <2>5
<1>52. ASSUME StartFailed PROVE Kept(x)'
  BY <1>0, <1>4, <1>9, <1>52 DEF StartFailed, BadOut, entityVars, listVars, schedVars, threadVars,
     pushVars
<1>53. ASSUME UnparkThread PROVE Kept(x)'
  BY <1>0, <1>4, <1>9, <1>53 DEF UnparkThread, BadOut, entityVars, listVars, schedVars,
     threadVars, pushVars
<1>54. ASSUME TdrEnd PROVE Kept(x)'
  <2>1. /\ tpc = "end" /\ freed' = [freed EXCEPT ![bad] = @ \/ free_guilty[sched[bad]]]
        /\ UNCHANGED <<finish_cb, work, queue, sjob, spc, pending_list>>
    BY <1>54 DEF TdrEnd, threadVars, entityVars
  <2>2. ~BadOut
    BY <2>1 DEF BadOut
  <2>3. CASE bad = x /\ free_guilty[sched[x]]
    BY <1>0, <2>1, <2>3 DEF Kept
  <2>4. CASE ~(bad = x /\ free_guilty[sched[x]])
    <3>1. freed[x] => freed'[x]
      BY <1>0, <2>1
    <3> QED
      BY <1>3, <2>1, <2>2, <2>4, <3>1 DEF Killing
  <2> QED
    BY <2>3, <2>4
<1>55. ASSUME NEW j \in Jobs, KillWork(j) PROVE Kept(x)'
  <2>1. /\ UNCHANGED <<queue, pending_list, free_guilty, spc, sjob>> /\ UNCHANGED tdrVars
        /\ freed' = [freed EXCEPT ![j] = TRUE]
        /\ SignalFinished(j, hw_rq_count, {}) /\ work' = (work \ {j}) \cup Killed(j)
    BY <1>55 DEF KillWork, threadVars, listVars
  <2>2. CASE x = j
    BY <1>0, <2>1, <2>2 DEF Kept
  <2>3. CASE x # j
    <3>1. Killing(x) => Killing(x)'
      BY <1>0, <2>1, <2>3, KillSignal
    <3>2. bad' = bad /\ (bad = x /\ BadOut => BadOut')
      BY <1>2, <2>1 DEF tdrVars, BadOut
    <3>3. freed[x] => freed'[x]
      BY <1>0, <2>1
    <3> QED
      BY <1>3, <2>1, <3>1, <3>2, <3>3
  <2> QED
    BY <2>2, <2>3
<1>56. ASSUME NEW e \in Entities, Client(e) PROVE Kept(x)'
  <2>1. CASE Submit(e)
    <3>1. PICK j \in Jobs, D \in SUBSET Jobs, s \in Scheds : PushJob(e, j, D, s)
      BY <1>0, <2>1, NewRqType DEF Submit, Armed
    <3> QED
      BY <1>10, <3>1
  <2> QED
    BY <1>56, <2>1, <1>11, <1>12, <1>13, <1>14, <1>15, <1>16, <1>17, <1>18, <1>19, <1>20,
       Zenon DEF Client
<1>57. ASSUME NEW s \in Scheds, Thread(s) PROVE Kept(x)'
  BY <1>57, <1>21, <1>22, <1>23, <1>24, <1>25, <1>26, <1>27, <1>28, <1>29, <1>30, <1>31,
     <1>32, <1>33, <1>34, ZenonT(60) DEF Thread
<1>58. ASSUME NEW s \in Scheds, Hardware(s) PROVE Kept(x)'
  BY <1>58, <1>35, <1>36, Zenon DEF Hardware
<1>59. ASSUME Timeout PROVE Kept(x)'
  BY <1>59, <1>38, <1>39, <1>40, <1>41, <1>42, <1>43, <1>44, <1>45, <1>46, <1>47, <1>48,
     <1>49, <1>50, <1>51, <1>52, <1>53, <1>54, Zenon DEF Timeout, Armed
<1> QED
  BY <1>56, <1>57, <1>58, <1>59, <1>37, <1>55 DEF Next

\* Initially no job has been armed.
LEMMA InitOwn == Init => OwnInv
<1> SUFFICES ASSUME Init PROVE OwnInv
  OBVIOUS
<1> USE SchedAssumption DEF Init
<1>1. OwnTypes /\ CbInv
  BY DEF OwnTypes, CbInv
<1>2. StopInv /\ KillInv
  BY DEF StopInv, Stopped, KillInv, Killing
<1>3. FreeInv /\ GuiltyInv /\ FreedInv
  BY DEF FreeInv, GuiltyInv, FreedInv
<1>4. KeptInv
  BY DEF KeptInv
<1> QED
  BY <1>1, <1>2, <1>3, <1>4 DEF OwnInv

\* What says nothing of the steps is kept when nothing changes.
LEMMA StutterOwn ==
  ASSUME OwnInv, UNCHANGED vars
  PROVE  OwnInv'
<1> USE DEF OwnInv, vars, pushVars, fenceVars, hwVars, killVars, jobVars, placeVars, entityVars,
        rqVars, listVars, wakeVars, schedVars, threadVars, tdrVars
<1>1. OwnTypes' /\ CbInv'
  BY DEF OwnTypes, CbInv
<1>2. StopInv' /\ KillInv'
  BY DEF StopInv, Stopped, KillInv, Killing, Unlisted
<1>3. FreeInv' /\ GuiltyInv' /\ FreedInv'
  BY DEF FreeInv, GuiltyInv, FreedInv, BadOut, Unlisted, Killing
<1>4. KeptInv'
  BY DEF KeptInv, Kept, Killing, BadOut
<1> QED
  BY <1>1, <1>2, <1>3, <1>4

\* Both invariants of the specification.
LEMMA OwnInvariant == Spec => [](IInv /\ OwnInv)
<1>1. ASSUME IInv, IInv', OwnInv, Next PROVE OwnInv'
  <2>1. OwnTypes'
    BY <1>1, OwnTypesStep DEF OwnInv
  <2>2. CbInv' /\ StopInv'
    BY <1>1, CbInvStep, StopInvStep
  <2>3. KillInv' /\ FreeInv'
    BY <1>1, KillInvStep, FreeInvStep
  <2>4. GuiltyInv' /\ FreedInv' /\ KeptInv'
    BY <1>1, GuiltyInvStep, FreedInvStep, KeptInvStep
  <2> QED
    BY <2>1, <2>2, <2>3, <2>4 DEF OwnInv
<1>2. IInv /\ IInv' /\ OwnInv /\ [Next]_vars => OwnInv'
  BY <1>1, StutterOwn
<1> QED
  BY Invariant, InitOwn, <1>2, PTL DEF Spec

\* The handler has the bad job while it is off the list, or when it is to free it.
LEMMA HeldAs ==
  ASSUME NEW j
  PROVE  HeldByTdr(j) <=> bad = j /\ (BadOut \/ free_guilty[sched[j]])
BY DEF HeldByTdr, BadOut

\* Who can be the owner of a job excludes the others.
LEMMA OwnersAre ==
  ASSUME NEW j, NEW o
  PROVE  o \in Owners(j) <=>
           \/ \E e \in Entities : o = <<"queue", e>> /\ j \in Range(queue[e])
           \/ \E s \in Scheds : o = <<"thread", s>> /\ sjob[s] = j /\ ~Running(s)
           \/ \E s \in Scheds : o = <<"pending", s>> /\ j \in Range(pending_list[s])
           \/ o = <<"tdr", sched[j]>> /\ HeldByTdr(j)
           \/ o = <<"finish_cb", j>> /\ finish_cb[j] # None
           \/ o = <<"work", j>> /\ j \in work
BY Zenon DEF Owners

\* So a job has one owner at most, and one that has been freed has none.
LEMMA SoleOwner ==
  ASSUME IInv, OwnInv, NEW j \in Jobs, NEW o \in Owners(j)
  PROVE  Owners(j) = {o} /\ ~freed[j]
<1>0. /\ ThreadInv /\ JobsInv /\ QueueInv /\ RunInv /\ PendingInv
      /\ KillInv /\ FreeInv /\ GuiltyInv /\ FreedInv /\ j # None
  BY NoneIsNoJob DEF IInv, OwnInv
<1>1. ASSUME NEW e \in Entities, j \in Range(queue[e]) PROVE ent[j] = e /\ Fresh(j)
  BY <1>0, <1>1 DEF QueueInv, Queued
<1>2. ASSUME NEW s \in Scheds, j \in Range(pending_list[s])
      PROVE  /\ sched[j] = s /\ ~Fresh(j) /\ ~Unlisted(j) /\ (BadOut => bad # j)
             /\ \A t \in Scheds : sjob[t] = j => Running(t)
  <2>1. sched[j] = s /\ (BadOut => bad # j)
    BY <1>0, <1>2 DEF PendingInv, Pending
  <2>2. ~Fresh(j) /\ ~Unlisted(j)
    BY <1>2 DEF Fresh, Unlisted
  <2>3. ASSUME NEW t \in Scheds, sjob[t] = j, ~Running(t) PROVE FALSE
    <3>1. spc[t] = "free"
      BY <1>0, <2>3 DEF ThreadInv, Running
    <3> QED
      BY <1>0, <1>2, <2>1, <2>3, <3>1 DEF FreeInv
  <2> QED
    BY <2>1, <2>2, <2>3
<1>3. ASSUME NEW s \in Scheds, sjob[s] = j, ~Running(s)
      PROVE  sched[j] = s /\ ~Fresh(j) /\ ~Unlisted(j) /\ (BadOut => bad # j)
  <2>1. spc[s] = "free"
    BY <1>0, <1>3 DEF ThreadInv, Running
  <2> QED
    BY <1>0, <1>3, <2>1 DEF FreeInv, Fresh, Unlisted
<1>4. ASSUME HeldByTdr(j)
      PROVE  /\ ~Fresh(j) /\ ~Killing(j)
             /\ \A s \in Scheds : j \notin Range(pending_list[s]) /\ (sjob[s] = j => Running(s))
  <2>1. bad = j /\ (BadOut \/ free_guilty[sched[j]])
    BY <1>4, HeldAs
  <2>2. ~Fresh(j) /\ ~Killing(j)
    BY <1>0, <2>1 DEF Fresh, KillInv
  <2>3. ent[j] # None
    BY <1>0, <2>1 DEF JobsInv
  <2>4. sched[j] \in Scheds
    BY <1>0, <2>3 DEF JobsInv, IInv, Types, JobType
  <2>5. ~BadOut => Unlisted(j)
    BY <1>0, <2>1, <2>4 DEF GuiltyInv
  <2> QED
    BY <1>2, <1>3, <2>1, <2>2, <2>5 DEF Unlisted
<1>5. ASSUME Killing(j)
      PROVE  ~Fresh(j) /\ Unlisted(j) /\ ~(finish_cb[j] # None /\ j \in work)
  BY <1>0, <1>5 DEF KillInv, Killing, Fresh, Unseen
<1>6. ~freed[j]
  <2>1. ASSUME freed[j]
        PROVE  /\ ~Fresh(j) /\ Unlisted(j) /\ ~Killing(j)
               /\ bad = j => tpc \in {"start", "jobs", "end"} /\ ~free_guilty[sched[j]]
    BY <1>0, <2>1 DEF FreedInv, Fresh, Unseen
  <2>2. freed[j] => ~HeldByTdr(j)
    BY <2>1, HeldAs DEF BadOut
  <2> QED
    BY <1>1, <1>2, <1>3, <2>1, <2>2, OwnersAre DEF Killing
<1>7. ASSUME NEW p \in Owners(j) PROVE p = o
  <2>1. CASE \E e \in Entities : o = <<"queue", e>> /\ j \in Range(queue[e])
    BY <1>1, <1>2, <1>3, <1>4, <1>5, <2>1, OwnersAre DEF Killing
  <2>2. CASE \E s \in Scheds : o = <<"thread", s>> /\ sjob[s] = j /\ ~Running(s)
    BY <1>1, <1>2, <1>3, <1>4, <1>5, <2>2, OwnersAre DEF Killing
  <2>3. CASE \E s \in Scheds : o = <<"pending", s>> /\ j \in Range(pending_list[s])
    BY <1>1, <1>2, <1>3, <1>4, <1>5, <2>3, OwnersAre DEF Killing
  <2>4. CASE o = <<"tdr", sched[j]>> /\ HeldByTdr(j)
    BY <1>1, <1>2, <1>3, <1>4, <1>5, <2>4, OwnersAre DEF Killing
  <2>5. CASE o = <<"finish_cb", j>> /\ finish_cb[j] # None
    BY <1>1, <1>2, <1>3, <1>4, <1>5, <2>5, OwnersAre DEF Killing
  <2>6. CASE o = <<"work", j>> /\ j \in work
    BY <1>1, <1>2, <1>3, <1>4, <1>5, <2>6, OwnersAre DEF Killing
  <2> QED
    BY <2>1, <2>2, <2>3, <2>4, <2>5, <2>6, OwnersAre
<1> QED
  BY <1>6, <1>7

\* A job that has been freed is not used any more.
LEMMA FreedUnused ==
  ASSUME OwnInv, NEW j \in Jobs, freed[j]
  PROVE  Unused(j)
BY DEF OwnInv, FreedInv, CbInv, Unused, Unlisted

\* OneOwner, but a job may have been lost.
AtMostOneOwner ==
  \A j \in Armed : /\ Cardinality(Owners(j)) <= IF freed[j] THEN 0 ELSE 1
                   /\ freed[j] => Unused(j)

\* Through cleanup, timeout, recovery and kill no job is freed twice, and none is freed while
\* a list, the thread, the handler or the callback of the hardware still has it.
THEOREM JobIsFreedOnce == Spec => []AtMostOneOwner
<1>1. ASSUME IInv, OwnInv PROVE AtMostOneOwner
  <2> SUFFICES ASSUME NEW j \in Jobs
               PROVE  /\ Cardinality(Owners(j)) <= IF freed[j] THEN 0 ELSE 1
                      /\ freed[j] => Unused(j)
    BY DEF AtMostOneOwner, Armed
  <2>1. CASE Owners(j) = {}
    BY <1>1, <2>1, FS_EmptySet, FreedUnused
  <2>2. ASSUME NEW o \in Owners(j) PROVE Cardinality(Owners(j)) = 1 /\ ~freed[j]
    <3>1. Owners(j) = {o} /\ ~freed[j]
      BY <1>1, <2>2, SoleOwner
    <3> QED
      BY <3>1, FS_Singleton
  <2> QED
    BY <2>1, <2>2
<1> QED
  BY OwnInvariant, <1>1, PTL

\* Where the rings cannot be recovered softly no job is lost either: until it is freed there is
\* one who has to see to it.
THEOREM JobHasOneOwner ==
  ASSUME ~SoftRecovery
  PROVE  Spec => []OneOwner
<1>1. ASSUME IInv, OwnInv PROVE OneOwner
  <2> SUFFICES ASSUME NEW j \in Jobs, ent[j] # None
               PROVE  /\ Cardinality(Owners(j)) = IF freed[j] THEN 0 ELSE 1
                      /\ freed[j] => Unused(j)
    BY DEF OneOwner, Armed
  <2>1. CASE Owners(j) = {}
    <3>1. Kept(j)
      BY <1>1 DEF OwnInv, KeptInv
    <3>2. ASSUME NEW s \in Scheds, sjob[s] = j, spc[s] = "free" PROVE ~Running(s)
      BY <3>2 DEF Running
    <3>3. freed[j]
      BY <2>1, <3>1, <3>2, HeldAs, OwnersAre DEF Kept, Killing
    <3> QED
      BY <1>1, <2>1, <3>3, FS_EmptySet, FreedUnused
  <2>2. ASSUME NEW o \in Owners(j) PROVE Cardinality(Owners(j)) = 1 /\ ~freed[j]
    <3>1. Owners(j) = {o} /\ ~freed[j]
      BY <1>1, <2>2, SoleOwner
    <3> QED
      BY <3>1, FS_Singleton
  <2> QED
    BY <2>1, <2>2
<1> QED
  BY OwnInvariant, <1>1, PTL

=============================================================================

---------------------------- MODULE DrmGemProofs ----------------------------
(***************************************************************************)
(* Proofs about DrmGem, for any number of objects, dma-bufs, files,        *)
(* handles and threads: the counts of references and handles are exact,    *)
(* nothing is left behind with the last handle, and the caches are sound.  *)
(***************************************************************************)
EXTENDS DrmGem, Counting, TLAPS

----------------------------------------------------------------------------
(* The inductive invariant                                                 *)

Labels == {"idle", "opening", "uncache", "hput", "final", "unreserve", "release",
           "putobj", "flink", "tofd", "fd", "nofd", "import", "cache", "delete",
           "bufput"}
Ops == {"none", "create", "open", "getfb", "import", "close", "release", "flink", "tofd"}
Calling == [op : Ops, file : Files \cup {None}, h : Handles \cup {0},
            obj : Objs \cup {None}, buf : Bufs \cup {None}, ret : {0, Error}]

TypeOK ==
  /\ born \subseteq Objs /\ ref \in [Objs -> Int] /\ hc \in [Objs -> Nat]
  /\ name \subseteq Objs /\ fb \subseteq Objs /\ fopen \subseteq Files
  /\ dbuf \in [Objs -> Bufs \cup {None}] /\ attach \in [Objs -> Bufs \cup {None}]
  /\ bref \in [Bufs -> Int] /\ fds \in [Bufs -> Nat]
  /\ lost \in [Bufs -> Nat]
  /\ priv \in [Bufs -> Objs \cup {None}]
  /\ table \in [Files -> [Handles -> Objs \cup {Null, Free}]]
  /\ cache \in [Files -> SUBSET (Handles \X Bufs)]
  /\ plock \in [Files -> Threads \cup {None}]
  /\ pc \in [Threads -> Labels] /\ w \in [Threads -> Calling]

\* What the local variables of a call are at each of its steps.
Local(t) ==
  /\ pc[t] = "idle" => w[t] = NoCall
  /\ pc[t] # "idle" => File(t) \in Files
  /\ pc[t] \in {"opening", "uncache", "hput", "final", "unreserve", "putobj", "flink",
                "tofd", "fd", "nofd", "cache", "delete"} => Obj(t) \in Objs
  /\ pc[t] \in {"opening", "uncache", "unreserve", "flink", "tofd", "fd", "nofd", "cache",
                "delete"} => Ok(t) /\ w[t].h \in Handles
  /\ pc[t] \in {"hput", "final"} /\ Ok(t) => w[t].h \in Handles
  /\ pc[t] = "opening" => Creates(t)
  /\ pc[t] \in {"uncache", "unreserve"} => w[t].op \in {"close", "release", "import"}
  /\ pc[t] \in {"hput", "final"} =>
       IF Ok(t) THEN w[t].op \in {"close", "release", "import"} ELSE Creates(t)
  /\ pc[t] = "putobj" => IF Ok(t) THEN w[t].op \in {"flink", "tofd"} ELSE Creates(t)
  /\ pc[t] = "release" => w[t].op = "release"
  /\ pc[t] = "flink" => w[t].op = "flink"
  /\ pc[t] \in {"tofd", "fd", "nofd"} => w[t].op = "tofd"
  /\ pc[t] \in {"import", "cache", "delete", "bufput"} => w[t].op = "import"
  /\ pc[t] = "import" => Ok(t)
  /\ w[t].op = "import" \/ pc[t] \in {"fd", "nofd"} => Buf(t) \in Bufs

LocalInv == \A t \in Threads : Local(t)

\* A file that is being released is used by nobody else.
ReleaseInv ==
  \A t \in Threads :
    /\ w[t].op = "release" => File(t) \notin fopen
    /\ File(t) # None /\ File(t) \notin fopen =>
         w[t].op = "release" /\ \A s \in Threads : File(s) = File(t) => s = t

\* t takes a handle out of the table, which stays reserved; t has made a handle;
\* t has made a handle or looked it up to export the object.
TakesOut(t) == pc[t] \in {"uncache", "hput", "final", "unreserve"} /\ Ok(t)
Makes(t) == pc[t] \in {"opening", "cache", "delete"}
Uses(t)  == Makes(t) \/ pc[t] = "tofd"
Same(s, t) == File(s) = File(t) /\ w[s].h = w[t].h

\* A reserved handle belongs to one thread; and where nobody guesses handles,
\* one that has just been made belongs to its maker.
HandleInv ==
  /\ \A t \in Threads : TakesOut(t) => table[File(t)][w[t].h] = Null
  /\ \A s, t \in Threads : TakesOut(s) /\ TakesOut(t) /\ Same(s, t) => s = t
  /\ \A t \in Threads : Makes(t) /\ File(t) \notin Guessing =>
       table[File(t)][w[t].h] = Obj(t)
  /\ \A s, t \in Threads :
       Makes(s) /\ Uses(t) /\ Same(s, t) /\ File(s) \notin Guessing => s = t

\* Objects that are not there yet, and which dma-bufs belong to which objects.
BufInv ==
  /\ \A o \in Objs : o \notin born => ref[o] = 0 /\ attach[o] = None
  /\ \A o \in Objs : attach[o] # None => attach[o] \in Foreign /\ \A b \in Bufs : priv[b] # o
  /\ \A o \in Objs : dbuf[o] # None => priv[dbuf[o]] = o \/ attach[o] = dbuf[o]
  /\ \A b \in Bufs : priv[b] # None => b \notin Foreign /\ priv[b] \in born
  /\ \A b \in Bufs : b \notin Foreign /\ priv[b] = None => bref[b] = 0

\* t holds prime.lock of its file.
HasLock(t) ==
  \/ w[t].op = "tofd"
  \/ /\ w[t].op = "import"
     /\ pc[t] \in {"opening", "cache"} \/ (pc[t] \in {"hput", "final", "putobj"} /\ ~Ok(t))

\* t is going to add its handle to the cache.
WillCache(t) == pc[t] = "tofd" \/ (w[t].op = "import" /\ pc[t] \in {"opening", "cache"})

\* The handle stands for the object still, or the thread that takes it out waits
\* for prime.lock.
StillThere(f, h, o) ==
  \/ table[f][h] = o
  \/ table[f][h] = Null /\ \E s \in Threads : pc[s] = "uncache" /\ File(s) = f /\ w[s].h = h

LockHeld   == \A t \in Threads : HasLock(t) => plock[File(t)] = t
HandleKept == \A t \in Threads : WillCache(t) => StillThere(File(t), w[t].h, Obj(t))
ImportKept ==
  \A t \in Threads : w[t].op = "import" /\ pc[t] \in {"opening", "cache"} =>
    priv[Buf(t)] = Obj(t) \/ attach[Obj(t)] = Buf(t)

\* A handle is not in the cache before its maker puts it there.
Fresh(t) ==
  (pc[t] = "opening" /\ File(t) \notin Guessing) \/ (WillCache(t) /\ w[t].op = "import")
NotCached == \A t \in Threads : Fresh(t) => Members(File(t), w[t].h) = {}

IInv ==
  /\ TypeOK /\ LocalInv /\ ReleaseInv /\ HandleInv /\ BufInv /\ LockHeld
  /\ HandleKept /\ ImportKept /\ NotCached
  /\ RefsExact /\ HandlesExact /\ NothingLeft /\ CacheSound

----------------------------------------------------------------------------
(* New handles                                                             *)

\* The first half of drm_gem_handle_create_tail() as one of its two outcomes: the
\* handle h is published, or there is none.
Published(t, f, o, r, op, b, h) ==
  /\ h \in Handles /\ table[f][h] = Free
  /\ hc' = [hc EXCEPT ![o] = @ + 1]
  /\ ref' = [ref EXCEPT ![o] = IF hc[o] = 0 THEN r + 1 ELSE r]
  /\ table' = [table EXCEPT ![f][h] = o]
  /\ w' = [w EXCEPT ![t] = Locals(op, f, h, o, b)]
  /\ pc' = [pc EXCEPT ![t] = "opening"]

Unpublished(t, f, o, r, op, b) ==
  /\ hc' = [hc EXCEPT ![o] = @ + 1]
  /\ ref' = [ref EXCEPT ![o] = IF hc[o] = 0 THEN r + 1 ELSE r]
  /\ table' = table
  /\ w' = [w EXCEPT ![t] = [op |-> op, file |-> f, h |-> 0, obj |-> o, buf |-> b, ret |-> Error]]
  /\ pc' = [pc EXCEPT ![t] = "hput"]

\* idr_alloc() returns the smallest handle that is free.
LEMMA NewHandleIsFree ==
  ASSUME TypeOK, NEW f \in Files, HasRoom(f)
  PROVE  NewHandle(f) \in Handles /\ table[f][NewHandle(f)] = Free
<1> DEFINE T == {h \in Handles : table[f][h] = Free}
<1>1. T # {} /\ T \subseteq Nat
  BY GemAssumption DEF HasRoom
<1>2. \E h \in T : \A g \in T : h <= g
  BY <1>1, SmallestMember
<1> QED
  BY <1>2 DEF NewHandle

LEMMA PublishCases ==
  ASSUME TypeOK, NEW t \in Threads, NEW f \in Files, NEW o \in Objs, NEW r, HasRoom(f),
         NEW op, NEW b, Publish(t, f, o, r, op, b)
  PROVE  \/ \E h \in Handles : Published(t, f, o, r, op, b, h)
         \/ Unpublished(t, f, o, r, op, b)
<1>1. [Locals(op, f, 0, o, b) EXCEPT !.ret = Error] =
        [op |-> op, file |-> f, h |-> 0, obj |-> o, buf |-> b, ret |-> Error]
  BY DEF Locals
<1> QED
  BY <1>1, NewHandleIsFree, Zenon DEF Publish, Published, Unpublished, Goto

\* The names of what ImportOwn(t) reads, what it does before the handle is made,
\* and how that ends.
OwnTaken(t, f, o, b) ==
  /\ f \in Files /\ o \in Objs /\ b \in Bufs
  /\ pc[t] = "import" /\ w[t].file = f /\ w[t].buf = b /\ priv[b] = o
  /\ plock[f] = None /\ HasRoom(f)
  /\ plock' = [plock EXCEPT ![f] = t]
  /\ dbuf' = [dbuf EXCEPT ![o] = IF dbuf[o] = None THEN b ELSE dbuf[o]]
  /\ bref' = [bref EXCEPT ![b] = IF dbuf[o] = None THEN bref[b] + 1 ELSE bref[b]]
  /\ born' = born /\ name' = name /\ attach' = attach /\ fb' = fb /\ priv' = priv
  /\ fds' = fds /\ lost' = lost /\ cache' = cache /\ fopen' = fopen

OwnEnds(t, f, o, b) ==
  \/ \E h \in Handles : Published(t, f, o, ref[o] + 1, "import", b, h)
  \/ Unpublished(t, f, o, ref[o] + 1, "import", b)

LEMMA ImportOwnCases ==
  ASSUME TypeOK, LocalInv, NEW t \in Threads, ImportOwn(t)
  PROVE  \E f \in Files, o \in Objs, b \in Bufs : OwnTaken(t, f, o, b) /\ OwnEnds(t, f, o, b)
<1>1. /\ pc[t] = "import" /\ File(t) \in Files /\ Buf(t) \in Bufs
      /\ priv[Buf(t)] \in Objs
  <2>1. pc[t] = "import" /\ priv[Buf(t)] # None
    BY DEF ImportOwn, Imports
  <2>2. File(t) \in Files /\ Buf(t) \in Bufs
    BY <2>1 DEF LocalInv, Local
  <2> QED
    BY <2>1, <2>2 DEF TypeOK
<1> DEFINE f == File(t)
           b == Buf(t)
           o == priv[b]
<1>2. Publish(t, f, o, ref[o] + 1, "import", b) /\ HasRoom(f)
  BY DEF ImportOwn
<1>3. OwnTaken(t, f, o, b)
  BY <1>1, Zenon DEF ImportOwn, Imports, OwnTaken, File, Buf
<1>4. OwnEnds(t, f, o, b)
  <2> HIDE DEF f, o, b
  <2>1. f \in Files /\ o \in Objs
    BY <1>1 DEF f, o, b
  <2> QED
    BY <1>2, <2>1, PublishCases, Zenon DEF OwnEnds
<1> QED
  BY <1>1, <1>3, <1>4, Zenon

\* The names of what ImportDelete(t) reads.
DeleteTakes(t, f, h, o) ==
  /\ f \in Files /\ h \in Handles /\ o \in Objs
  /\ pc[t] = "delete" /\ w[t].file = f /\ w[t].h = h /\ table[f][h] = o
  /\ table' = [table EXCEPT ![f][h] = Null]
  /\ w' = [w EXCEPT ![t].obj = o] /\ pc' = [pc EXCEPT ![t] = "uncache"]
  /\ born' = born /\ ref' = ref /\ hc' = hc /\ name' = name /\ dbuf' = dbuf
  /\ attach' = attach /\ fb' = fb /\ bref' = bref /\ priv' = priv /\ fds' = fds
  /\ lost' = lost /\ cache' = cache /\ plock' = plock /\ fopen' = fopen

LEMMA ImportDeleteCases ==
  ASSUME TypeOK, LocalInv, NEW t \in Threads, ImportDelete(t)
  PROVE  \E f \in Files, h \in Handles, o \in Objs : DeleteTakes(t, f, h, o)
<1> DEFINE f == File(t)
           h == w[t].h
           o == table[f][h]
<1>1. f \in Files /\ h \in Handles
  BY DEF ImportDelete, LocalInv, Local
<1>2. o \in Objs
  <2>1. table[f] \in [Handles -> Objs \cup {Null, Free}] /\ o \notin {Null, Free}
    BY <1>1 DEF TypeOK, ImportDelete, IsObj
  <2> HIDE DEF f
  <2> QED
    BY <1>1, <2>1
<1>3. DeleteTakes(t, f, h, o)
  BY <1>1, <1>2, Zenon DEF ImportDelete, DeleteTakes, Replaced, Goto, File, objVars, bufVars
<1> QED
  BY <1>1, <1>2, <1>3, Zenon

----------------------------------------------------------------------------
(* Types, and the local variables of the calls                             *)

LEMMA SetBuf ==
  ASSUME TypeOK, NEW t \in Threads, NEW b \in Bufs
  PROVE  [w EXCEPT ![t].buf = b] \in [Threads -> Calling]
<1>1. ASSUME NEW c \in Calling PROVE [c EXCEPT !.buf = b] \in Calling
  BY DEF Calling
<1> QED
  BY <1>1 DEF TypeOK

LEMMA SetObj ==
  ASSUME TypeOK, NEW t \in Threads, NEW o \in Objs
  PROVE  [w EXCEPT ![t].obj = o] \in [Threads -> Calling]
<1>1. ASSUME NEW c \in Calling PROVE [c EXCEPT !.obj = o] \in Calling
  BY DEF Calling
<1> QED
  BY <1>1 DEF TypeOK

LEMMA SetError ==
  ASSUME TypeOK, NEW t \in Threads
  PROVE  [w EXCEPT ![t].ret = Error] \in [Threads -> Calling]
<1>1. ASSUME NEW c \in Calling PROVE [c EXCEPT !.ret = Error] \in Calling
  BY DEF Calling
<1> QED
  BY <1>1 DEF TypeOK

LEMMA TypeStep == ASSUME TypeOK, LocalInv, Next PROVE TypeOK' /\ LocalInv'
<1> USE GemAssumption DEF TypeOK, LocalInv, Local, Labels, Ops, Creates, File, Obj, Buf, Ok,
        Error, Null, Free, NoCall, Locals, Goto, Return, objVars, bufVars, fileVars
<1>1. ASSUME NEW t \in Threads, OpenFails(t) PROVE TypeOK' /\ LocalInv'
  <2>1. w' \in [Threads -> Calling]
    BY <1>1, SetError DEF OpenFails, AfterRemove
  <2> QED
    BY <1>1, <2>1 DEF Calling, OpenFails, AfterRemove
<1>2. ASSUME NEW t \in Threads, PutObj(t) PROVE TypeOK' /\ LocalInv'
  <2>1. pc' \in [Threads -> Labels] /\ w' \in [Threads -> Calling]
    BY <1>2 DEF Calling, PutObj, ObjPut
  <2>2. plock' \in [Files -> Threads \cup {None}]
    BY <1>2 DEF Calling, PutObj, ObjPut
  <2>3. \A s \in Threads : s # t => pc'[s] = pc[s] /\ w'[s] = w[s]
    BY <1>2 DEF PutObj, ObjPut
  <2>4. CASE w[t].op = "import"
    <3>1. w'[t] = w[t] /\ pc'[t] = IF Ok(t) THEN "cache" ELSE "bufput"
      BY <1>2, <2>4 DEF PutObj, ObjPut
    <3> QED
      BY <1>2, <2>1, <2>2, <2>3, <2>4, <3>1 DEF Calling, PutObj, ObjPut
  <2>5. CASE w[t].op # "import"
    <3>1. pc'[t] = "idle"
      BY <1>2, <2>5 DEF PutObj, ObjPut
    <3>2. w'[t] = NoCall
      BY <1>2, <2>5, Zenon DEF PutObj, ObjPut
    <3> QED
      BY <1>2, <2>1, <2>2, <2>3, <3>1, <3>2 DEF Calling, PutObj, ObjPut
  <2> QED
    BY <2>4, <2>5
<1>3. ASSUME NEW t \in Threads, Uncache(t) PROVE TypeOK' /\ LocalInv'
  BY <1>3 DEF Calling, Uncache, BufPut, Members
<1>4. ASSUME NEW t \in Threads, UncacheNothing(t) PROVE TypeOK' /\ LocalInv'
  BY <1>4 DEF Calling, UncacheNothing, Members
<1>5. ASSUME NEW t \in Threads, HandlePut(t) PROVE TypeOK' /\ LocalInv'
  BY <1>5 DEF Calling, HandlePut, AfterPut
<1>6. ASSUME NEW t \in Threads, LastHandlePut(t) PROVE TypeOK' /\ LocalInv'
  BY <1>6 DEF Calling, LastHandlePut, BufPut
<1>7. ASSUME NEW t \in Threads, FinalPut(t) PROVE TypeOK' /\ LocalInv'
  BY <1>7 DEF Calling, FinalPut, ObjPut, AfterPut
<1>8. ASSUME NEW t \in Threads, Unreserve(t) PROVE TypeOK' /\ LocalInv'
  BY <1>8 DEF Calling, Unreserve
<1>9. ASSUME NEW t \in Threads, Released(t) PROVE TypeOK' /\ LocalInv'
  BY <1>9 DEF Calling, Released
<1>10. ASSUME NEW t \in Threads, NEW h \in Handles, ReleaseHandle(t, h)
       PROVE  TypeOK' /\ LocalInv'
  BY <1>10 DEF Calling, ReleaseHandle, IsObj
<1>11. ASSUME NEW t \in Threads, FlinkName(t) PROVE TypeOK' /\ LocalInv'
  <2>1. name' \subseteq Objs
    BY <1>11 DEF FlinkName
  <2>2. pc[t] = "flink" /\ pc' = [pc EXCEPT ![t] = "putobj"] /\ w' = w
    BY <1>11 DEF FlinkName
  <2>3. LocalInv'
    BY <2>2 DEF Calling
  <2> QED
    BY <1>11, <2>1, <2>3 DEF FlinkName
<1>12. ASSUME NEW t \in Threads, ToFdCached(t) PROVE TypeOK' /\ LocalInv'
  <2>1. PICK m \in Cached(t) : /\ w' = [w EXCEPT ![t].buf = m[2]]
                               /\ bref' = [bref EXCEPT ![m[2]] = @ + 1]
    BY <1>12 DEF ToFdCached
  <2>2. pc[t] = "tofd" /\ File(t) \in Files /\ m[2] \in Bufs
    BY <1>12, <2>1 DEF Calling, ToFdCached, Cached, Members
  <2>3. w' \in [Threads -> Calling]
    BY <2>1, <2>2, SetBuf
  <2> QED
    BY <1>12, <2>1, <2>2, <2>3 DEF Calling, ToFdCached
<1>13. ASSUME NEW t \in Threads, NEW b \in Bufs, ToFdKnown(t, b) PROVE TypeOK' /\ LocalInv'
  <2>1. w' \in [Threads -> Calling]
    BY <1>13, SetBuf DEF ToFdKnown, IsKnown, CacheAdd, CacheRefs
  <2> QED
    BY <1>13, <2>1 DEF Calling, ToFdKnown, IsKnown, CacheAdd, CacheRefs
<1>14. ASSUME NEW t \in Threads, NEW b \in Bufs, ToFdUncached(t, b) PROVE TypeOK' /\ LocalInv'
  <2>1. w' \in [Threads -> Calling]
    BY <1>14, SetBuf DEF ToFdUncached, IsKnown
  <2> QED
    BY <1>14, <2>1 DEF Calling, ToFdUncached, IsKnown
<1>15. ASSUME NEW t \in Threads, ExportFails(t) PROVE TypeOK' /\ LocalInv'
  BY <1>15 DEF Calling, ExportFails, MayExport
<1>16. ASSUME NEW t \in Threads, InstallFd(t) PROVE TypeOK' /\ LocalInv'
  BY <1>16 DEF Calling, AsksFd, InstallFd
<1>16a. ASSUME NEW t \in Threads, FdFails(t) PROVE TypeOK' /\ LocalInv'
  BY <1>16a DEF Calling, AsksFd, FdFails
<1>17. ASSUME NEW t \in Threads, PutUncached(t) PROVE TypeOK' /\ LocalInv'
  BY <1>17 DEF Calling, PutUncached, BufPut
<1>18. ASSUME NEW t \in Threads, NEW b \in Bufs, Export(t, b) PROVE TypeOK' /\ LocalInv'
  <2>1. w' \in [Threads -> Calling]
    BY <1>18, SetBuf DEF Export, Exported, MayExport, CacheAdd, CacheRefs
  <2> QED
    BY <1>18, <2>1 DEF Calling, Export, Exported, MayExport, CacheAdd, CacheRefs
<1>19. ASSUME NEW t \in Threads, NEW b \in Bufs, ExportUncached(t, b) PROVE TypeOK' /\ LocalInv'
  <2>1. w' \in [Threads -> Calling]
    BY <1>19, SetBuf DEF ExportUncached, Exported, MayExport
  <2> QED
    BY <1>19, <2>1 DEF Calling, ExportUncached, Exported, MayExport
<1>20. ASSUME NEW t \in Threads, ImportSeen(t) PROVE TypeOK' /\ LocalInv'
  BY <1>20 DEF Calling, ImportSeen
<1>21. ASSUME NEW t \in Threads, ImportFails(t) PROVE TypeOK' /\ LocalInv'
  BY <1>21 DEF Calling, ImportFails, Imports
<1>22. ASSUME NEW t \in Threads, ImportCache(t) PROVE TypeOK' /\ LocalInv'
  BY <1>22 DEF Calling, ImportCache, CacheAdd, CacheRefs
<1>23. ASSUME NEW t \in Threads, ImportNoCache(t) PROVE TypeOK' /\ LocalInv'
  BY SMTT(20), <1>23 DEF Calling, ImportNoCache
<1>24. ASSUME NEW t \in Threads, ImportDelete(t) PROVE TypeOK' /\ LocalInv'
  <2>1. PICK f \in Files, h \in Handles, o \in Objs : DeleteTakes(t, f, h, o)
    BY <1>24, ImportDeleteCases
  <2>2. w' \in [Threads -> Calling]
    BY <2>1, SetObj DEF DeleteTakes
  <2>3. LocalInv'
    BY <2>1, <2>2 DEF Calling, DeleteTakes
  <2>4. table' \in [Files -> [Handles -> Objs \cup {Null, Free}]]
    BY <2>1 DEF DeleteTakes
  <2> QED
    BY <2>1, <2>2, <2>3, <2>4 DEF DeleteTakes
<1>25. ASSUME NEW t \in Threads, ImportDeleted(t) PROVE TypeOK' /\ LocalInv'
  BY <1>25 DEF Calling, ImportDeleted
<1>26. ASSUME NEW t \in Threads, ImportPut(t) PROVE TypeOK' /\ LocalInv'
  BY <1>26 DEF Calling, ImportPut, BufPut
<1>27. ASSUME NEW t \in Threads, NEW f \in Files, NEW h \in Handles, Close(t, f, h)
       PROVE  TypeOK' /\ LocalInv'
  BY <1>27 DEF Calling, Close, Calls, Names, IsObj, Replaced
<1>28. ASSUME NEW t \in Threads, NEW f \in Files, NEW h \in Handles, Flink(t, f, h)
       PROVE  TypeOK' /\ LocalInv'
  BY <1>28 DEF Calling, Flink, Lookup, Calls, Names, IsObj
<1>29. ASSUME NEW t \in Threads, NEW f \in Files, NEW h \in Handles, ToFd(t, f, h)
       PROVE  TypeOK' /\ LocalInv'
  BY <1>29 DEF Calling, ToFd, Lookup, Calls, Names, IsObj
<1>30. ASSUME NEW t \in Threads, NEW f \in Files, NEW h \in Handles, AddFb(t, f, h)
       PROVE  TypeOK' /\ LocalInv'
  BY <1>30 DEF Calling, AddFb, Calls, Names, IsObj
<1>31. ASSUME NEW t \in Threads, NEW f \in Files, NEW b \in Bufs, FdToHandle(t, f, b)
       PROVE  TypeOK' /\ LocalInv'
  BY <1>31 DEF Calling, FdToHandle, Calls
<1>32. ASSUME NEW t \in Threads, NEW f \in Files, ReleaseFile(t, f) PROVE TypeOK' /\ LocalInv'
  BY <1>32 DEF Calling, ReleaseFile, Calls
<1>33. ASSUME NEW b \in Bufs, CloseFd(b) PROVE TypeOK' /\ LocalInv'
  BY <1>33 DEF Calling, CloseFd, BufPut
<1>34. ASSUME NEW o \in Objs, RmFb(o) PROVE TypeOK' /\ LocalInv'
  BY <1>34 DEF Calling, RmFb, ObjPut
<1>35. ASSUME NEW t \in Threads, NEW f \in Files, NEW o \in Objs, Create(t, f, o)
       PROVE  TypeOK' /\ LocalInv'
  <2>1. \/ \E h \in Handles : Published(t, f, o, 1, "create", None, h)
        \/ Unpublished(t, f, o, 1, "create", None)
    BY <1>35, PublishCases DEF Calling, Create, Calls
  <2>2. CASE Unpublished(t, f, o, 1, "create", None)
    BY <1>35, <2>2 DEF Calling, Unpublished, Create, Calls
  <2>3. ASSUME NEW h \in Handles, Published(t, f, o, 1, "create", None, h)
        PROVE  TypeOK' /\ LocalInv'
    BY <1>35, <2>3 DEF Calling, Published, Create, Calls
  <2> QED
    BY <2>1, <2>2, <2>3
<1>36. ASSUME NEW t \in Threads, NEW f \in Files, NEW o \in Objs, OpenName(t, f, o)
       PROVE  TypeOK' /\ LocalInv'
  <2>1. \/ \E h \in Handles : Published(t, f, o, ref[o] + 1, "open", None, h)
        \/ Unpublished(t, f, o, ref[o] + 1, "open", None)
    BY <1>36, PublishCases DEF Calling, OpenName, Calls
  <2>2. CASE Unpublished(t, f, o, ref[o] + 1, "open", None)
    BY <1>36, <2>2 DEF Calling, Unpublished, OpenName, Calls
  <2>3. ASSUME NEW h \in Handles, Published(t, f, o, ref[o] + 1, "open", None, h)
        PROVE  TypeOK' /\ LocalInv'
    BY <1>36, <2>3 DEF Calling, Published, OpenName, Calls
  <2> QED
    BY <2>1, <2>2, <2>3
<1>37. ASSUME NEW t \in Threads, NEW f \in Files, NEW o \in Objs, GetFb(t, f, o)
       PROVE  TypeOK' /\ LocalInv'
  <2>1. \/ \E h \in Handles : Published(t, f, o, ref[o] + 1, "getfb", None, h)
        \/ Unpublished(t, f, o, ref[o] + 1, "getfb", None)
    BY <1>37, PublishCases DEF Calling, GetFb, Calls
  <2>2. CASE Unpublished(t, f, o, ref[o] + 1, "getfb", None)
    BY <1>37, <2>2 DEF Calling, Unpublished, GetFb, Calls
  <2>3. ASSUME NEW h \in Handles, Published(t, f, o, ref[o] + 1, "getfb", None, h)
        PROVE  TypeOK' /\ LocalInv'
    BY <1>37, <2>3 DEF Calling, Published, GetFb, Calls
  <2> QED
    BY <2>1, <2>2, <2>3
<1>38. ASSUME NEW t \in Threads, ImportOwn(t) PROVE TypeOK' /\ LocalInv'
  <2>0. PICK f \in Files, o \in Objs, b \in Bufs : OwnTaken(t, f, o, b) /\ OwnEnds(t, f, o, b)
    BY <1>38, ImportOwnCases
  <2>1. OwnTaken(t, f, o, b)
    BY <2>0
  <2>2. CASE Unpublished(t, f, o, ref[o] + 1, "import", b)
    BY SMTT(60), <2>1, <2>2 DEF Calling, Unpublished, OwnTaken
  <2>3. ASSUME NEW h \in Handles, Published(t, f, o, ref[o] + 1, "import", b, h)
        PROVE  TypeOK' /\ LocalInv'
    BY SMTT(60), <2>1, <2>3 DEF Calling, Published, OwnTaken
  <2> QED
    BY <2>0, <2>2, <2>3 DEF OwnEnds
<1>39. ASSUME NEW t \in Threads, NEW o \in Objs, ImportForeign(t, o) PROVE TypeOK' /\ LocalInv'
  <2>1. \/ \E h \in Handles : Published(t, File(t), o, 1, "import", Buf(t), h)
        \/ Unpublished(t, File(t), o, 1, "import", Buf(t))
    BY <1>39, PublishCases DEF Calling, ImportForeign, Imports
  <2>2. CASE Unpublished(t, File(t), o, 1, "import", Buf(t))
    BY <1>39, <2>2 DEF Calling, Unpublished, ImportForeign, Imports
  <2>3. ASSUME NEW h \in Handles, Published(t, File(t), o, 1, "import", Buf(t), h)
        PROVE  TypeOK' /\ LocalInv'
    BY <1>39, <2>3 DEF Calling, Published, ImportForeign, Imports
  <2> QED
    BY <2>1, <2>2, <2>3
<1> HIDE GemAssumption DEF TypeOK, LocalInv, Local, Labels, Ops, Creates, File, Obj, Buf, Ok,
        Error, Null, Free, NoCall, Locals, Goto, Return, objVars, bufVars, fileVars
<1> QED
  BY Zenon, <1>1, <1>2, <1>3, <1>4, <1>5, <1>6, <1>7, <1>8, <1>9, <1>10, <1>11, <1>12, <1>13, <1>14,
       <1>15, <1>16, <1>16a, <1>17, <1>18, <1>19, <1>20, <1>21, <1>22, <1>23, <1>24, <1>25, <1>26,
       <1>27, <1>28, <1>29, <1>30, <1>31, <1>32, <1>33, <1>34, <1>35, <1>36, <1>37, <1>38,
       <1>39 DEF Next, Step, Call

----------------------------------------------------------------------------
(* A file that is released                                                 *)

LEMMA ReleaseStep ==
  ASSUME TypeOK, LocalInv, ReleaseInv, Next PROVE ReleaseInv'
<1> USE GemAssumption DEF TypeOK, LocalInv, Local, ReleaseInv, Creates, File, Obj, Buf, Ok,
        Calling, NoCall, Locals, Goto, Return, objVars, bufVars, fileVars
<1>1. ASSUME NEW t \in Threads, NEW f \in Files, NEW o \in Objs, Create(t, f, o)
      PROVE  ReleaseInv'
  <2>1. \/ \E h \in Handles : Published(t, f, o, 1, "create", None, h)
        \/ Unpublished(t, f, o, 1, "create", None)
    BY <1>1, PublishCases DEF Create, Calls
  <2>2. CASE Unpublished(t, f, o, 1, "create", None)
    BY <1>1, <2>2 DEF Unpublished, Create, Calls
  <2>3. ASSUME NEW h \in Handles, Published(t, f, o, 1, "create", None, h)
        PROVE  ReleaseInv'
    BY <1>1, <2>3 DEF Published, Create, Calls
  <2> QED
    BY <2>1, <2>2, <2>3
<1>2. ASSUME NEW t \in Threads, NEW f \in Files, NEW o \in Objs, OpenName(t, f, o)
      PROVE  ReleaseInv'
  <2>1. \/ \E h \in Handles : Published(t, f, o, ref[o] + 1, "open", None, h)
        \/ Unpublished(t, f, o, ref[o] + 1, "open", None)
    BY <1>2, PublishCases DEF OpenName, Calls
  <2>2. CASE Unpublished(t, f, o, ref[o] + 1, "open", None)
    BY <1>2, <2>2 DEF Unpublished, OpenName, Calls
  <2>3. ASSUME NEW h \in Handles, Published(t, f, o, ref[o] + 1, "open", None, h)
        PROVE  ReleaseInv'
    BY <1>2, <2>3 DEF Published, OpenName, Calls
  <2> QED
    BY <2>1, <2>2, <2>3
<1>3. ASSUME NEW t \in Threads, NEW f \in Files, NEW o \in Objs, GetFb(t, f, o)
      PROVE  ReleaseInv'
  <2>1. \/ \E h \in Handles : Published(t, f, o, ref[o] + 1, "getfb", None, h)
        \/ Unpublished(t, f, o, ref[o] + 1, "getfb", None)
    BY <1>3, PublishCases DEF GetFb, Calls
  <2>2. CASE Unpublished(t, f, o, ref[o] + 1, "getfb", None)
    BY <1>3, <2>2 DEF Unpublished, GetFb, Calls
  <2>3. ASSUME NEW h \in Handles, Published(t, f, o, ref[o] + 1, "getfb", None, h)
        PROVE  ReleaseInv'
    BY <1>3, <2>3 DEF Published, GetFb, Calls
  <2> QED
    BY <2>1, <2>2, <2>3
<1>4. ASSUME NEW t \in Threads, ImportOwn(t) PROVE ReleaseInv'
  <2>0. PICK f \in Files, o \in Objs, b \in Bufs : OwnTaken(t, f, o, b) /\ OwnEnds(t, f, o, b)
    BY <1>4, ImportOwnCases
  <2>1. OwnTaken(t, f, o, b)
    BY <2>0
  <2>2. CASE Unpublished(t, f, o, ref[o] + 1, "import", b)
    BY <2>1, <2>2 DEF Unpublished, OwnTaken
  <2>3. ASSUME NEW h \in Handles, Published(t, f, o, ref[o] + 1, "import", b, h)
        PROVE  ReleaseInv'
    BY <2>1, <2>3 DEF Published, OwnTaken
  <2> QED
    BY <2>0, <2>2, <2>3 DEF OwnEnds
<1>5. ASSUME NEW t \in Threads, NEW o \in Objs, ImportForeign(t, o) PROVE ReleaseInv'
  <2>1. \/ \E h \in Handles : Published(t, File(t), o, 1, "import", Buf(t), h)
        \/ Unpublished(t, File(t), o, 1, "import", Buf(t))
    BY <1>5, PublishCases DEF ImportForeign, Imports
  <2>2. CASE Unpublished(t, File(t), o, 1, "import", Buf(t))
    BY <1>5, <2>2 DEF Unpublished, ImportForeign, Imports
  <2>3. ASSUME NEW h \in Handles, Published(t, File(t), o, 1, "import", Buf(t), h)
        PROVE  ReleaseInv'
    BY <1>5, <2>3 DEF Published, ImportForeign, Imports
  <2> QED
    BY <2>1, <2>2, <2>3
<1>6. ASSUME NEW t \in Threads, OpenFails(t) PROVE ReleaseInv'
  BY <1>6 DEF OpenFails, AfterRemove
<1>7. ASSUME NEW t \in Threads, PutObj(t) PROVE ReleaseInv'
  BY <1>7 DEF PutObj, ObjPut
<1>8. ASSUME NEW t \in Threads, Uncache(t) PROVE ReleaseInv'
  BY <1>8 DEF Uncache, BufPut, Members
<1>9. ASSUME NEW t \in Threads, UncacheNothing(t) PROVE ReleaseInv'
  BY <1>9 DEF UncacheNothing, Members
<1>10. ASSUME NEW t \in Threads, HandlePut(t) PROVE ReleaseInv'
  BY <1>10 DEF HandlePut, AfterPut
<1>11. ASSUME NEW t \in Threads, LastHandlePut(t) PROVE ReleaseInv'
  BY <1>11 DEF LastHandlePut, BufPut
<1>12. ASSUME NEW t \in Threads, FinalPut(t) PROVE ReleaseInv'
  BY <1>12 DEF FinalPut, ObjPut, AfterPut
<1>13. ASSUME NEW t \in Threads, Unreserve(t) PROVE ReleaseInv'
  BY <1>13 DEF Unreserve
<1>14. ASSUME NEW t \in Threads, Released(t) PROVE ReleaseInv'
  BY <1>14 DEF Released
<1>15. ASSUME NEW t \in Threads, NEW h \in Handles, ReleaseHandle(t, h) PROVE ReleaseInv'
  BY <1>15 DEF ReleaseHandle, IsObj
<1>16. ASSUME NEW t \in Threads, FlinkName(t) PROVE ReleaseInv'
  BY <1>16 DEF FlinkName, HasHandles
<1>17. ASSUME NEW t \in Threads, ToFdCached(t) PROVE ReleaseInv'
  BY <1>17 DEF ToFdCached, Cached, Members
<1>18. ASSUME NEW t \in Threads, NEW b \in Bufs, ToFdKnown(t, b) PROVE ReleaseInv'
  BY <1>18 DEF ToFdKnown, IsKnown, CacheAdd, CacheRefs
<1>19. ASSUME NEW t \in Threads, NEW b \in Bufs, ToFdUncached(t, b) PROVE ReleaseInv'
  BY <1>19 DEF ToFdUncached, IsKnown
<1>20. ASSUME NEW t \in Threads, ExportFails(t) PROVE ReleaseInv'
  BY <1>20 DEF ExportFails, MayExport
<1>21. ASSUME NEW t \in Threads, InstallFd(t) PROVE ReleaseInv'
  BY <1>21 DEF AsksFd, InstallFd
<1>21a. ASSUME NEW t \in Threads, FdFails(t) PROVE ReleaseInv'
  BY <1>21a DEF AsksFd, FdFails
<1>22. ASSUME NEW t \in Threads, PutUncached(t) PROVE ReleaseInv'
  BY <1>22 DEF PutUncached, BufPut
<1>23. ASSUME NEW t \in Threads, NEW b \in Bufs, Export(t, b) PROVE ReleaseInv'
  BY <1>23 DEF Export, Exported, MayExport, CacheAdd, CacheRefs
<1>24. ASSUME NEW t \in Threads, NEW b \in Bufs, ExportUncached(t, b) PROVE ReleaseInv'
  BY <1>24 DEF ExportUncached, Exported, MayExport
<1>25. ASSUME NEW t \in Threads, ImportSeen(t) PROVE ReleaseInv'
  BY <1>25 DEF ImportSeen
<1>26. ASSUME NEW t \in Threads, ImportFails(t) PROVE ReleaseInv'
  BY <1>26 DEF ImportFails, Imports
<1>27. ASSUME NEW t \in Threads, ImportCache(t) PROVE ReleaseInv'
  BY <1>27 DEF ImportCache, CacheAdd, CacheRefs
<1>28. ASSUME NEW t \in Threads, ImportNoCache(t) PROVE ReleaseInv'
  BY <1>28 DEF ImportNoCache
<1>29. ASSUME NEW t \in Threads, ImportDelete(t) PROVE ReleaseInv'
  BY <1>29 DEF ImportDelete, IsObj, Replaced
<1>30. ASSUME NEW t \in Threads, ImportDeleted(t) PROVE ReleaseInv'
  BY <1>30 DEF ImportDeleted
<1>31. ASSUME NEW t \in Threads, ImportPut(t) PROVE ReleaseInv'
  BY <1>31 DEF ImportPut, BufPut
<1>32. ASSUME NEW t \in Threads, NEW f \in Files, NEW h \in Handles, Close(t, f, h)
       PROVE  ReleaseInv'
  BY <1>32 DEF Close, Calls, Names, IsObj, Replaced
<1>33. ASSUME NEW t \in Threads, NEW f \in Files, NEW h \in Handles, Flink(t, f, h)
       PROVE  ReleaseInv'
  BY <1>33 DEF Flink, Lookup, Calls, Names, IsObj
<1>34. ASSUME NEW t \in Threads, NEW f \in Files, NEW h \in Handles, ToFd(t, f, h)
       PROVE  ReleaseInv'
  BY <1>34 DEF ToFd, Lookup, Calls, Names, IsObj
<1>35. ASSUME NEW t \in Threads, NEW f \in Files, NEW h \in Handles, AddFb(t, f, h)
       PROVE  ReleaseInv'
  BY <1>35 DEF AddFb, Calls, Names, IsObj
<1>36. ASSUME NEW t \in Threads, NEW f \in Files, NEW b \in Bufs, FdToHandle(t, f, b)
       PROVE  ReleaseInv'
  BY <1>36 DEF FdToHandle, Calls
<1>37. ASSUME NEW t \in Threads, NEW f \in Files, ReleaseFile(t, f) PROVE ReleaseInv'
  BY <1>37 DEF ReleaseFile, Calls
<1>38. ASSUME NEW b \in Bufs, CloseFd(b) PROVE ReleaseInv'
  BY <1>38 DEF CloseFd, BufPut
<1>39. ASSUME NEW o \in Objs, RmFb(o) PROVE ReleaseInv'
  BY <1>39 DEF RmFb, ObjPut
<1> HIDE GemAssumption DEF TypeOK, LocalInv, Local, ReleaseInv, Creates, File, Obj, Buf, Ok,
        Calling, NoCall, Locals, Goto, Return, objVars, bufVars, fileVars
<1> QED
  BY Zenon, <1>1, <1>2, <1>3, <1>4, <1>5, <1>6, <1>7, <1>8, <1>9, <1>10, <1>11, <1>12, <1>13, <1>14,
      <1>15, <1>16, <1>17, <1>18, <1>19, <1>20, <1>21, <1>21a, <1>22, <1>23, <1>24, <1>25, <1>26,
      <1>27, <1>28, <1>29, <1>30, <1>31, <1>32, <1>33, <1>34, <1>35, <1>36, <1>37, <1>38, <1>39 DEF Next, Step, Call

----------------------------------------------------------------------------
(* Handles that are made and taken out                                     *)

\* Nobody uses a handle that is free.
LEMMA PublishedHandle ==
  ASSUME TypeOK, LocalInv, HandleInv, HandleKept, NEW t \in Threads, pc[t] \in {"idle", "import"},
         NEW f \in Files, NEW o \in Objs, NEW r, NEW op, NEW b, NEW h \in Handles,
         Published(t, f, o, r, op, b, h)
  PROVE  HandleInv'
<1> USE GemAssumption DEF TypeOK, LocalInv, Local, HandleInv, TakesOut, Makes, Uses, Same,
        File, Obj, Ok, Null, Free
<1>1. /\ pc'[t] = "opening" /\ w'[t].file = f /\ w'[t].h = h /\ w'[t].obj = o
      /\ \A s \in Threads : s # t => pc'[s] = pc[s] /\ w'[s] = w[s]
  BY DEF Published, Locals
<1>2. /\ table'[f][h] = o
      /\ \A g \in Files, k \in Handles : (g # f \/ k # h) => table'[g][k] = table[g][k]
  BY DEF Published
<1>3. ASSUME NEW s \in Threads, TakesOut(s) \/ (Makes(s) /\ File(s) \notin Guessing) \/ pc[s] = "tofd"
      PROVE  table[File(s)][w[s].h] # Free /\ File(s) \in Files /\ w[s].h \in Handles /\ s # t
  BY <1>3 DEF HandleKept, WillCache, StillThere
<1>4. ASSUME NEW s \in Threads, TakesOut(s) \/ (Makes(s) /\ File(s) \notin Guessing) \/ pc[s] = "tofd"
      PROVE  File(s) # f \/ w[s].h # h
  BY <1>3, <1>4 DEF Published
<1>5. \A s \in Threads : TakesOut(s)' => table'[w'[s].file][w'[s].h] = Null
  <2>1. ASSUME NEW s \in Threads, s # t, TakesOut(s) PROVE table'[File(s)][w[s].h] = Null
    <3>1. /\ File(s) \in Files /\ w[s].h \in Handles /\ (File(s) # f \/ w[s].h # h)
          /\ table[File(s)][w[s].h] = Null
      BY <1>3, <1>4, <2>1
    <3> HIDE DEF TypeOK, LocalInv, HandleInv
    <3> QED
      BY <1>2, <3>1
  <2> QED
    BY <1>1, <2>1
<1>6. \A s, u \in Threads : TakesOut(s)' /\ TakesOut(u)' /\ Same(s, u)' => s = u
  BY <1>1
<1>7. \A s \in Threads : Makes(s)' /\ w'[s].file \notin Guessing => table'[w'[s].file][w'[s].h] = w'[s].obj
  <2>1. ASSUME NEW s \in Threads, s # t, Makes(s), File(s) \notin Guessing
        PROVE  table'[File(s)][w[s].h] = Obj(s)
    <3>1. /\ File(s) \in Files /\ w[s].h \in Handles /\ (File(s) # f \/ w[s].h # h)
          /\ table[File(s)][w[s].h] = Obj(s)
      BY <1>3, <1>4, <2>1
    <3> HIDE DEF TypeOK, LocalInv, HandleInv
    <3> QED
      BY <1>2, <3>1
  <2> QED
    BY <1>1, <1>2, <2>1
<1>8. \A s, u \in Threads :
        Makes(s)' /\ Uses(u)' /\ Same(s, u)' /\ w'[s].file \notin Guessing => s = u
  <2>1. ASSUME NEW s \in Threads, s # t, Uses(s), f \notin Guessing PROVE ~Same(s, t)'
    BY <1>1, <1>4, <2>1
  <2> QED
    BY <1>1, <2>1
<1> QED
  BY <1>5, <1>6, <1>7, <1>8

\* Steps of t after which it has no handle to publish: the others keep theirs,
\* and t takes out, or looks up, none of them.
LEMMA HandleOthers ==
  ASSUME HandleInv, NEW t \in Threads,
         \A s \in Threads : s # t => pc'[s] = pc[s] /\ w'[s] = w[s],
         \A s \in Threads : s # t /\ (TakesOut(s) \/ (Makes(s) /\ File(s) \notin Guessing)) =>
           table'[File(s)][w[s].h] = table[File(s)][w[s].h],
         TakesOut(t)' => /\ table'[w'[t].file][w'[t].h] = Null
                         /\ \A s \in Threads : s # t /\ TakesOut(s) => ~Same(s, t)',
         ~Makes(t)',
         Uses(t)' => \A s \in Threads :
                       s # t /\ Makes(s) /\ File(s) \notin Guessing => ~Same(s, t)'
  PROVE  HandleInv'
<1> USE DEF HandleInv, File, Obj, Same
<1>1. \A s \in Threads : s # t => /\ TakesOut(s)' = TakesOut(s) /\ Makes(s)' = Makes(s)
                                  /\ Uses(s)' = Uses(s)
  BY DEF TakesOut, Makes, Uses, Ok
<1>2. \A s \in Threads : TakesOut(s)' => table'[w'[s].file][w'[s].h] = Null
  BY <1>1
<1>3. \A s, u \in Threads : TakesOut(s)' /\ TakesOut(u)' /\ Same(s, u)' => s = u
  BY <1>1
<1>4. \A s \in Threads :
        Makes(s)' /\ w'[s].file \notin Guessing => table'[w'[s].file][w'[s].h] = w'[s].obj
  BY <1>1
<1>5. \A s, u \in Threads :
        Makes(s)' /\ Uses(u)' /\ Same(s, u)' /\ w'[s].file \notin Guessing => s = u
  BY <1>1
<1> QED
  BY <1>2, <1>3, <1>4, <1>5

LEMMA HandleStep ==
  ASSUME TypeOK, LocalInv, ReleaseInv, HandleInv, HandleKept, Next PROVE HandleInv'
<1> USE GemAssumption DEF TypeOK, LocalInv, Local, ReleaseInv, HandleInv, TakesOut, Makes, Uses, Same,
        Creates, File, Obj, Buf, Ok, Error, Null, Free,
        Calling, NoCall, Locals, Goto, Return, objVars, bufVars, fileVars
<1>1. ASSUME NEW t \in Threads, NEW f \in Files, NEW o \in Objs, Create(t, f, o)
      PROVE  HandleInv'
  <2>1. \/ \E h \in Handles : Published(t, f, o, 1, "create", None, h)
        \/ Unpublished(t, f, o, 1, "create", None)
    BY <1>1, PublishCases DEF Create, Calls
  <2>2. CASE Unpublished(t, f, o, 1, "create", None)
    BY <1>1, <2>2 DEF Unpublished, Create, Calls
  <2>3. ASSUME NEW h \in Handles, Published(t, f, o, 1, "create", None, h)
        PROVE  HandleInv'
    <3>1. pc[t] = "idle"
      BY <1>1 DEF Create, Calls
    <3> HIDE GemAssumption DEF TypeOK, LocalInv, HandleInv
    <3> QED
      BY <2>3, <3>1, PublishedHandle
  <2> QED
    BY <2>1, <2>2, <2>3
<1>2. ASSUME NEW t \in Threads, NEW f \in Files, NEW o \in Objs, OpenName(t, f, o)
      PROVE  HandleInv'
  <2>1. \/ \E h \in Handles : Published(t, f, o, ref[o] + 1, "open", None, h)
        \/ Unpublished(t, f, o, ref[o] + 1, "open", None)
    BY <1>2, PublishCases DEF OpenName, Calls
  <2>2. CASE Unpublished(t, f, o, ref[o] + 1, "open", None)
    BY <1>2, <2>2 DEF Unpublished, OpenName, Calls
  <2>3. ASSUME NEW h \in Handles, Published(t, f, o, ref[o] + 1, "open", None, h)
        PROVE  HandleInv'
    <3>1. pc[t] = "idle"
      BY <1>2 DEF OpenName, Calls
    <3> HIDE GemAssumption DEF TypeOK, LocalInv, HandleInv
    <3> QED
      BY <2>3, <3>1, PublishedHandle
  <2> QED
    BY <2>1, <2>2, <2>3
<1>3. ASSUME NEW t \in Threads, NEW f \in Files, NEW o \in Objs, GetFb(t, f, o) PROVE HandleInv'
  <2>1. \/ \E h \in Handles : Published(t, f, o, ref[o] + 1, "getfb", None, h)
        \/ Unpublished(t, f, o, ref[o] + 1, "getfb", None)
    BY <1>3, PublishCases DEF GetFb, Calls
  <2>2. CASE Unpublished(t, f, o, ref[o] + 1, "getfb", None)
    BY <1>3, <2>2 DEF Unpublished, GetFb, Calls
  <2>3. ASSUME NEW h \in Handles, Published(t, f, o, ref[o] + 1, "getfb", None, h)
        PROVE  HandleInv'
    <3>1. pc[t] = "idle"
      BY <1>3 DEF GetFb, Calls
    <3> HIDE GemAssumption DEF TypeOK, LocalInv, HandleInv
    <3> QED
      BY <2>3, <3>1, PublishedHandle
  <2> QED
    BY <2>1, <2>2, <2>3
<1>4. ASSUME NEW t \in Threads, ImportOwn(t) PROVE HandleInv'
  <2>0. PICK f \in Files, o \in Objs, b \in Bufs : OwnTaken(t, f, o, b) /\ OwnEnds(t, f, o, b)
    BY <1>4, ImportOwnCases
  <2>1. OwnTaken(t, f, o, b)
    BY <2>0
  <2>2. CASE Unpublished(t, f, o, ref[o] + 1, "import", b)
    BY SMTT(60), <2>1, <2>2 DEF Unpublished, OwnTaken
  <2>3. ASSUME NEW h \in Handles, Published(t, f, o, ref[o] + 1, "import", b, h)
        PROVE  HandleInv'
    <3>1. pc[t] = "import"
      BY <2>1 DEF OwnTaken
    <3> HIDE GemAssumption DEF TypeOK, LocalInv, HandleInv
    <3> QED
      BY <2>3, <3>1, PublishedHandle
  <2> QED
    BY <2>0, <2>2, <2>3 DEF OwnEnds
<1>5. ASSUME NEW t \in Threads, NEW o \in Objs, ImportForeign(t, o) PROVE HandleInv'
  <2>1. \/ \E h \in Handles : Published(t, File(t), o, 1, "import", Buf(t), h)
        \/ Unpublished(t, File(t), o, 1, "import", Buf(t))
    BY <1>5, PublishCases DEF ImportForeign, Imports
  <2>2. CASE Unpublished(t, File(t), o, 1, "import", Buf(t))
    BY <1>5, <2>2 DEF Unpublished, ImportForeign, Imports
  <2>3. ASSUME NEW h \in Handles, Published(t, File(t), o, 1, "import", Buf(t), h)
        PROVE  HandleInv'
    <3>1. pc[t] = "import" /\ File(t) \in Files
      BY <1>5 DEF ImportForeign, Imports
    <3> HIDE GemAssumption DEF TypeOK, LocalInv, HandleInv
    <3> QED
      BY <2>3, <3>1, PublishedHandle
  <2> QED
    BY <2>1, <2>2, <2>3
<1>6. ASSUME NEW t \in Threads, OpenFails(t) PROVE HandleInv'
  <2>1. /\ Makes(t) /\ File(t) \in Files \ Guessing /\ w[t].h \in Handles
        /\ table' = [table EXCEPT ![File(t)][w[t].h] = Free]
        /\ \A s \in Threads : s # t => pc'[s] = pc[s] /\ w'[s] = w[s]
    BY <1>6 DEF OpenFails, AfterRemove
  <2>2. pc'[t] = "hput" /\ w'[t].ret = Error
    BY <1>6 DEF OpenFails, AfterRemove
  <2>3. \A s \in Threads : s # t /\ (TakesOut(s) \/ (Makes(s) /\ File(s) \notin Guessing)) =>
          /\ File(s) \in Files /\ w[s].h \in Handles
          /\ File(s) # File(t) \/ w[s].h # w[t].h
    BY <2>1
  <2>4. ASSUME NEW s \in Threads, s # t, TakesOut(s) \/ (Makes(s) /\ File(s) \notin Guessing)
        PROVE  table'[File(s)][w[s].h] = table[File(s)][w[s].h]
    <3> HIDE DEF LocalInv, ReleaseInv, HandleInv, TakesOut, Makes, File
    <3> QED
      BY <2>1, <2>3, <2>4
  <2>5. ~TakesOut(t)' /\ ~Makes(t)' /\ ~Uses(t)'
    BY <2>2
  <2> HIDE GemAssumption DEF TypeOK, LocalInv, Local, ReleaseInv, HandleInv, TakesOut, Makes,
             Uses, Same, File
  <2> QED
    BY <2>1, <2>4, <2>5, HandleOthers
<1>7. ASSUME NEW t \in Threads, PutObj(t) PROVE HandleInv'
  <2>1. /\ table' = table /\ pc'[t] \in {"idle", "cache", "bufput"}
        /\ pc'[t] = "cache" => /\ pc[t] = "opening" /\ w'[t] = w[t]
        /\ \A s \in Threads : s # t => pc'[s] = pc[s] /\ w'[s] = w[s]
    <3>1. pc[t] \in {"opening", "putobj"} /\ (pc[t] = "putobj" /\ Ok(t) => w[t].op # "import")
      BY <1>7 DEF PutObj
    <3>2. /\ table' = table
          /\ pc' = [pc EXCEPT ![t] = IF w[t].op # "import" THEN "idle"
                                     ELSE IF w[t].ret = 0 THEN "cache" ELSE "bufput"]
          /\ w' = [w EXCEPT ![t] = IF w[t].op = "import" THEN w[t] ELSE NoCall]
      BY <1>7, Zenon DEF PutObj
    <3> QED
      BY <3>1, <3>2
  <2>2. CASE pc'[t] = "cache"
    <3>1. /\ Makes(t) /\ \A s \in Threads : w'[s] = w[s]
          /\ \A s \in Threads : /\ TakesOut(s)' = TakesOut(s) /\ Makes(s)' = Makes(s)
                                /\ Uses(s)' = Uses(s)
      BY <2>1, <2>2
    <3> HIDE GemAssumption DEF TypeOK, LocalInv, TakesOut, Makes, Uses
    <3> QED
      BY <2>1, <3>1
  <2>3. CASE pc'[t] # "cache"
    <3>1. ~TakesOut(t)' /\ ~Makes(t)' /\ ~Uses(t)'
      BY <2>1, <2>3
    <3> HIDE GemAssumption DEF TypeOK, LocalInv, Local, ReleaseInv, HandleInv, TakesOut, Makes,
               Uses, Same, File
    <3> QED
      BY <2>1, <3>1, HandleOthers
  <2> QED
    BY <2>2, <2>3
<1>8. ASSUME NEW t \in Threads, Uncache(t) PROVE HandleInv'
  BY <1>8 DEF Uncache, BufPut, Members
<1>9. ASSUME NEW t \in Threads, UncacheNothing(t) PROVE HandleInv'
  BY <1>9 DEF UncacheNothing, Members
<1>10. ASSUME NEW t \in Threads, HandlePut(t) PROVE HandleInv'
  BY <1>10 DEF HandlePut, AfterPut
<1>11. ASSUME NEW t \in Threads, LastHandlePut(t) PROVE HandleInv'
  BY <1>11 DEF LastHandlePut, BufPut
<1>12. ASSUME NEW t \in Threads, FinalPut(t) PROVE HandleInv'
  BY <1>12 DEF FinalPut, ObjPut, AfterPut
<1>13. ASSUME NEW t \in Threads, Unreserve(t) PROVE HandleInv'
  <2>1. /\ TakesOut(t) /\ File(t) \in Files /\ w[t].h \in Handles
        /\ table' = [table EXCEPT ![File(t)][w[t].h] = Free]
        /\ \A s \in Threads : s # t => pc'[s] = pc[s] /\ w'[s] = w[s]
    BY <1>13 DEF Unreserve
  <2>2. pc'[t] \in {"idle", "bufput", "release"}
    BY <1>13 DEF Unreserve
  <2>3. \A s \in Threads : s # t /\ (TakesOut(s) \/ (Makes(s) /\ File(s) \notin Guessing)) =>
          /\ File(s) \in Files /\ w[s].h \in Handles
          /\ File(s) # File(t) \/ w[s].h # w[t].h
    BY <2>1
  <2>4. ASSUME NEW s \in Threads, s # t, TakesOut(s) \/ (Makes(s) /\ File(s) \notin Guessing)
        PROVE  table'[File(s)][w[s].h] = table[File(s)][w[s].h]
    <3> HIDE DEF LocalInv, ReleaseInv, HandleInv, TakesOut, Makes, File
    <3> QED
      BY <2>1, <2>3, <2>4
  <2>5. ~TakesOut(t)' /\ ~Makes(t)' /\ ~Uses(t)'
    BY <2>2
  <2> HIDE GemAssumption DEF TypeOK, LocalInv, Local, ReleaseInv, HandleInv, TakesOut, Makes,
             Uses, Same, File
  <2> QED
    BY <2>1, <2>4, <2>5, HandleOthers
<1>14. ASSUME NEW t \in Threads, Released(t) PROVE HandleInv'
  BY <1>14 DEF Released
<1>15. ASSUME NEW t \in Threads, NEW h \in Handles, ReleaseHandle(t, h) PROVE HandleInv'
  <2> DEFINE f == File(t)
  <2>1. /\ f \in Files /\ table[f][h] \in Objs /\ f \notin fopen
        /\ pc'[t] = "uncache" /\ w'[t].file = f /\ w'[t].h = h /\ w'[t].ret = 0
    BY <1>15 DEF ReleaseHandle, IsObj
  <2>2. /\ \A s \in Threads : s # t => pc'[s] = pc[s] /\ w'[s] = w[s] /\ File(s) # f
        /\ table' = [table EXCEPT ![f][h] = Null]
    BY <1>15, <2>1 DEF ReleaseHandle
  <2>3. ASSUME NEW s \in Threads, s # t, TakesOut(s) \/ Makes(s)
        PROVE  table'[File(s)][w[s].h] = table[File(s)][w[s].h]
    <3>1. File(s) \in Files /\ File(s) # f
      BY <2>2, <2>3
    <3> HIDE DEF LocalInv, ReleaseInv, HandleInv, TakesOut, Makes, File, f
    <3> QED
      BY <2>2, <3>1
  <2>4. /\ TakesOut(t)' /\ ~Makes(t)' /\ ~Uses(t)' /\ table'[f][h] = Null
        /\ \A s \in Threads : s # t => ~Same(s, t)'
    BY <2>1, <2>2
  <2> HIDE GemAssumption DEF TypeOK, LocalInv, Local, ReleaseInv, HandleInv, TakesOut, Makes,
             Uses, Same, File
  <2> QED
    BY <2>1, <2>2, <2>3, <2>4, HandleOthers
<1>16. ASSUME NEW t \in Threads, FlinkName(t) PROVE HandleInv'
  BY <1>16 DEF FlinkName, HasHandles
<1>17. ASSUME NEW t \in Threads, ToFdCached(t) PROVE HandleInv'
  BY <1>17 DEF ToFdCached, Cached, Members
<1>18. ASSUME NEW t \in Threads, NEW b \in Bufs, ToFdKnown(t, b) PROVE HandleInv'
  BY <1>18 DEF ToFdKnown, IsKnown, CacheAdd, CacheRefs
<1>19. ASSUME NEW t \in Threads, NEW b \in Bufs, ToFdUncached(t, b) PROVE HandleInv'
  BY <1>19 DEF ToFdUncached, IsKnown
<1>20. ASSUME NEW t \in Threads, ExportFails(t) PROVE HandleInv'
  BY <1>20 DEF ExportFails, MayExport
<1>21. ASSUME NEW t \in Threads, InstallFd(t) PROVE HandleInv'
  BY <1>21 DEF AsksFd, InstallFd
<1>21a. ASSUME NEW t \in Threads, FdFails(t) PROVE HandleInv'
  BY <1>21a DEF AsksFd, FdFails
<1>22. ASSUME NEW t \in Threads, PutUncached(t) PROVE HandleInv'
  BY <1>22 DEF PutUncached, BufPut
<1>23. ASSUME NEW t \in Threads, NEW b \in Bufs, Export(t, b) PROVE HandleInv'
  BY <1>23 DEF Export, Exported, MayExport, CacheAdd, CacheRefs
<1>24. ASSUME NEW t \in Threads, NEW b \in Bufs, ExportUncached(t, b) PROVE HandleInv'
  BY <1>24 DEF ExportUncached, Exported, MayExport
<1>25. ASSUME NEW t \in Threads, ImportSeen(t) PROVE HandleInv'
  BY <1>25 DEF ImportSeen
<1>26. ASSUME NEW t \in Threads, ImportFails(t) PROVE HandleInv'
  BY <1>26 DEF ImportFails, Imports
<1>27. ASSUME NEW t \in Threads, ImportCache(t) PROVE HandleInv'
  BY <1>27 DEF ImportCache, CacheAdd, CacheRefs
<1>28. ASSUME NEW t \in Threads, ImportNoCache(t) PROVE HandleInv'
  BY <1>28 DEF ImportNoCache
<1>29. ASSUME NEW t \in Threads, ImportDelete(t) PROVE HandleInv'
  <2>1. PICK f \in Files, h \in Handles, o \in Objs : DeleteTakes(t, f, h, o)
    BY <1>29, ImportDeleteCases
  <2>2. /\ pc'[t] = "uncache" /\ w'[t].file = f /\ w'[t].h = h /\ Ok(t)'
        /\ \A s \in Threads : s # t => pc'[s] = pc[s] /\ w'[s] = w[s]
    BY <2>1 DEF DeleteTakes
  <2>3. /\ \A s \in Threads : s # t /\ TakesOut(s) => File(s) # f \/ w[s].h # h
        /\ \A s \in Threads : s # t /\ Makes(s) /\ File(s) \notin Guessing =>
             File(s) # f \/ w[s].h # h
    BY <2>1 DEF DeleteTakes
  <2>4. ASSUME NEW s \in Threads, s # t, TakesOut(s) \/ (Makes(s) /\ File(s) \notin Guessing)
        PROVE  table'[File(s)][w[s].h] = table[File(s)][w[s].h]
    <3>1. File(s) \in Files /\ w[s].h \in Handles /\ (File(s) # f \/ w[s].h # h)
      BY <2>3, <2>4
    <3> HIDE DEF LocalInv, ReleaseInv, HandleInv, TakesOut, Makes, File
    <3> QED
      BY <2>1, <3>1 DEF DeleteTakes
  <2>5. table'[f][h] = Null
    BY <2>1 DEF DeleteTakes
  <2>6. /\ TakesOut(t)' /\ ~Makes(t)' /\ ~Uses(t)'
        /\ \A s \in Threads : s # t /\ TakesOut(s) => ~Same(s, t)'
    BY <2>2, <2>3
  <2> HIDE GemAssumption DEF TypeOK, LocalInv, Local, ReleaseInv, HandleInv, TakesOut, Makes,
             Uses, Same, File
  <2> QED
    BY <2>2, <2>4, <2>5, <2>6, HandleOthers
<1>30. ASSUME NEW t \in Threads, ImportDeleted(t) PROVE HandleInv'
  BY <1>30 DEF ImportDeleted
<1>31. ASSUME NEW t \in Threads, ImportPut(t) PROVE HandleInv'
  BY <1>31 DEF ImportPut, BufPut
<1>32. ASSUME NEW t \in Threads, NEW f \in Files, NEW h \in Handles, Close(t, f, h)
       PROVE  HandleInv'
  <2>a. table[f][h] \in Objs
    BY <1>32 DEF Close, Names, IsObj, TypeOK
  <2>b. table' = [table EXCEPT ![f][h] = Null]
    BY <1>32 DEF Close, Replaced
  <2>c. /\ pc' = [pc EXCEPT ![t] = "uncache"]
        /\ w' = [w EXCEPT ![t] = Locals("close", f, h, table[f][h], None)]
    BY <1>32 DEF Close, Goto
  <2>0. /\ table[f][h] \in Objs /\ table' = [table EXCEPT ![f][h] = Null]
        /\ pc' = [pc EXCEPT ![t] = "uncache"]
        /\ w' = [w EXCEPT ![t] = Locals("close", f, h, table[f][h], None)]
    BY <2>a, <2>b, <2>c
  <2> DEFINE l == Locals("close", f, h, table[f][h], None)
  <2>d. l.file = f /\ l.h = h /\ l.ret = 0
    BY DEF Locals
  <2> HIDE DEF l
  <2>e. pc'[t] = "uncache" /\ w'[t] = l /\ \A s \in Threads : s # t => pc'[s] = pc[s] /\ w'[s] = w[s]
    BY <2>0 DEF TypeOK, l
  <2>1. /\ table[f][h] \in Objs /\ table' = [table EXCEPT ![f][h] = Null]
        /\ pc'[t] = "uncache" /\ w'[t].file = f /\ w'[t].h = h /\ Ok(t)'
        /\ \A s \in Threads : s # t => pc'[s] = pc[s] /\ w'[s] = w[s]
    BY <2>0, <2>d, <2>e DEF Ok
  <2>2. /\ \A s \in Threads : s # t /\ TakesOut(s) => File(s) # f \/ w[s].h # h
        /\ \A s \in Threads : s # t /\ Makes(s) /\ File(s) \notin Guessing =>
             File(s) # f \/ w[s].h # h
    BY <1>32, <2>1 DEF Close, Names, Given
  <2>3. ASSUME NEW s \in Threads, s # t, TakesOut(s) \/ (Makes(s) /\ File(s) \notin Guessing)
        PROVE  table'[File(s)][w[s].h] = table[File(s)][w[s].h]
    <3>1. File(s) \in Files /\ w[s].h \in Handles /\ (File(s) # f \/ w[s].h # h)
      BY <2>2, <2>3
    <3> HIDE DEF LocalInv, ReleaseInv, HandleInv, TakesOut, Makes, File
    <3> QED
      BY <2>1, <3>1
  <2>4. /\ TakesOut(t)' /\ ~Makes(t)' /\ ~Uses(t)' /\ table'[f][h] = Null
        /\ \A s \in Threads : s # t /\ TakesOut(s) => ~Same(s, t)'
    BY <2>1, <2>2
  <2> HIDE GemAssumption DEF TypeOK, LocalInv, Local, ReleaseInv, HandleInv, TakesOut, Makes,
             Uses, Same, File
  <2> QED
    BY <2>1, <2>3, <2>4, HandleOthers
<1>33. ASSUME NEW t \in Threads, NEW f \in Files, NEW h \in Handles, Flink(t, f, h)
       PROVE  HandleInv'
  BY <1>33 DEF Flink, Lookup, Calls, Names, IsObj
<1>34. ASSUME NEW t \in Threads, NEW f \in Files, NEW h \in Handles, ToFd(t, f, h)
       PROVE  HandleInv'
  <2>1. /\ table' = table /\ pc'[t] = "tofd" /\ w'[t].file = f /\ w'[t].h = h
        /\ \A s \in Threads : s # t => pc'[s] = pc[s] /\ w'[s] = w[s]
    BY <1>34 DEF ToFd, Lookup
  <2>2. \A s \in Threads : s # t /\ Makes(s) /\ File(s) \notin Guessing =>
          File(s) # f \/ w[s].h # h
    BY <1>34 DEF ToFd, Lookup, Names, Given
  <2>3. /\ ~TakesOut(t)' /\ ~Makes(t)'
        /\ \A s \in Threads : s # t /\ Makes(s) /\ File(s) \notin Guessing => ~Same(s, t)'
    BY <2>1, <2>2
  <2> HIDE GemAssumption DEF TypeOK, LocalInv, Local, ReleaseInv, HandleInv, TakesOut, Makes,
             Uses, Same, File
  <2> QED
    BY <2>1, <2>3, HandleOthers
<1>35. ASSUME NEW t \in Threads, NEW f \in Files, NEW h \in Handles, AddFb(t, f, h)
       PROVE  HandleInv'
  BY <1>35 DEF AddFb, Calls, Names, IsObj
<1>36. ASSUME NEW t \in Threads, NEW f \in Files, NEW b \in Bufs, FdToHandle(t, f, b)
       PROVE  HandleInv'
  BY <1>36 DEF FdToHandle, Calls
<1>37. ASSUME NEW t \in Threads, NEW f \in Files, ReleaseFile(t, f) PROVE HandleInv'
  BY <1>37 DEF ReleaseFile, Calls
<1>38. ASSUME NEW b \in Bufs, CloseFd(b) PROVE HandleInv'
  BY <1>38 DEF CloseFd, BufPut
<1>39. ASSUME NEW o \in Objs, RmFb(o) PROVE HandleInv'
  BY <1>39 DEF RmFb, ObjPut
<1> HIDE GemAssumption DEF TypeOK, LocalInv, Local, ReleaseInv, HandleInv, TakesOut, Makes, Uses, Same,
        Creates, File, Obj, Buf, Ok, Error, Null, Free,
        Calling, NoCall, Locals, Goto, Return, objVars, bufVars, fileVars
<1> QED
  BY Zenon, <1>1, <1>2, <1>3, <1>4, <1>5, <1>6, <1>7, <1>8, <1>9, <1>10, <1>11, <1>12, <1>13, <1>14,
      <1>15, <1>16, <1>17, <1>18, <1>19, <1>20, <1>21, <1>21a, <1>22, <1>23, <1>24, <1>25, <1>26,
      <1>27, <1>28, <1>29, <1>30, <1>31, <1>32, <1>33, <1>34, <1>35, <1>36, <1>37, <1>38, <1>39 DEF Next, Step, Call

----------------------------------------------------------------------------
(* The counts, when one thread, handle, object or dma-buf changes          *)

\* Steps of t, which may be no thread at all.
OnlyThread(t) == \A s \in Threads : s # t => pc'[s] = pc[s] /\ w'[s] = w[s]

\* An object counted for a thread before or after the step.
Differ(x, S, T) == Bit(x \in T) - Bit(x \in S)

\* CountChange, in these terms.
LEMMA CountDiffer ==
  ASSUME NEW S, NEW D, IsFiniteSet(D), NEW T, NEW x, S \subseteq D,
         \A y : y # x => (y \in S <=> y \in T)
  PROVE  /\ Num(S) \in Nat /\ Num(T) \in Nat /\ Num(T) = Num(S) + Differ(x, S, T)
         /\ x \in S => Num(S) > 0
<1>1. IsFiniteSet(S)
  BY CountPart
<1>2. /\ IsFiniteSet(T) /\ Cardinality(S) \in Nat /\ Cardinality(T) \in Nat
      /\ Cardinality(T) = Cardinality(S) + (IF x \in T THEN 1 ELSE 0)
                                         - (IF x \in S THEN 1 ELSE 0)
  BY <1>1, CountChange
<1>3. x \in S => Cardinality(S) > 0
  BY <1>1, CountType
<1> QED
  BY <1>2, <1>3 DEF Num, Differ, Bit

LEMMA HandleCounts ==
  ASSUME TypeOK, NEW o \in Objs, NEW t, OnlyThread(t), NEW f, NEW h,
         \A g \in Files, k \in Handles : g # f \/ k # h => table'[g][k] = table[g][k],
         hc[o] = Num(InTable(o)) + Num(TakenOut(o)),
         hc'[o] = hc[o] + Differ(<<f, h>>, InTable(o), InTable(o)')
                        + Differ(t, TakenOut(o), TakenOut(o)')
  PROVE  hc'[o] = Num(InTable(o)') + Num(TakenOut(o)')
<1>1. IsFiniteSet(Threads) /\ IsFiniteSet(Files \X Handles)
  BY GemAssumption, FS_Product
<1>2. /\ Num(TakenOut(o)) \in Nat /\ Num(TakenOut(o)') \in Nat
      /\ Num(TakenOut(o)') = Num(TakenOut(o)) + Differ(t, TakenOut(o), TakenOut(o)')
  <2>1. \A y : y # t => (y \in TakenOut(o) <=> y \in TakenOut(o)')
    BY DEF OnlyThread, TakenOut, Obj
  <2> QED
    BY <1>1, <2>1, CountDiffer DEF TakenOut
<1>3. /\ Num(InTable(o)) \in Nat /\ Num(InTable(o)') \in Nat
      /\ Num(InTable(o)') = Num(InTable(o)) + Differ(<<f, h>>, InTable(o), InTable(o)')
  <2>1. \A y : y # <<f, h>> => (y \in InTable(o) <=> y \in InTable(o)')
    <3>1. ASSUME NEW y \in Files \X Handles, y # <<f, h>>
          PROVE  table'[y[1]][y[2]] = table[y[1]][y[2]]
      BY <3>1
    <3> QED
      BY <3>1 DEF InTable
  <2> QED
    BY <1>1, <2>1, CountDiffer DEF InTable
<1> QED
  BY <1>2, <1>3 DEF TypeOK, Differ, Bit

----------------------------------------------------------------------------
(* handle_count                                                            *)

\* A step that takes no handle out, puts none in and leaves handle_count alone.
LEMMA HandlesSame ==
  ASSUME HandlesExact, hc' = hc, table' = table,
         \A s \in Threads : /\ pc'[s] \in {"uncache", "hput"} <=> pc[s] \in {"uncache", "hput"}
                            /\ pc[s] \in {"uncache", "hput"} => w'[s].obj = w[s].obj
  PROVE  HandlesExact'
<1>1. \A o \in Objs : InTable(o)' = InTable(o)
  BY DEF InTable
<1>2. \A o \in Objs : TakenOut(o)' = TakenOut(o)
  BY DEF TakenOut, Obj
<1> QED
  BY <1>1, <1>2 DEF HandlesExact, Num

\* An object in a table, or with a handle that is being taken out, has handles.
LEMMA HasHandle ==
  ASSUME TypeOK, HandlesExact
  PROVE  /\ \A f \in Files, h \in Handles : table[f][h] \in Objs => hc[table[f][h]] > 0
         /\ \A t \in Threads : pc[t] \in {"uncache", "hput"} /\ Obj(t) \in Objs => hc[Obj(t)] > 0
<1>1. ASSUME NEW o \in Objs
      PROVE  /\ Num(InTable(o)) \in Nat /\ (\A x \in InTable(o) : Num(InTable(o)) > 0)
             /\ Num(TakenOut(o)) \in Nat /\ (\A x \in TakenOut(o) : Num(TakenOut(o)) > 0)
  <2>1. IsFiniteSet(InTable(o)) /\ IsFiniteSet(TakenOut(o))
    BY GemAssumption, FS_Product, CountPart DEF InTable, TakenOut
  <2> QED
    BY <2>1, CountType DEF Num
<1>2. ASSUME NEW f \in Files, NEW h \in Handles, table[f][h] \in Objs
      PROVE  hc[table[f][h]] > 0
  <2>1. <<f, h>> \in InTable(table[f][h])
    BY DEF InTable
  <2> QED
    BY <1>1, <1>2, <2>1 DEF HandlesExact
<1>3. ASSUME NEW t \in Threads, pc[t] \in {"uncache", "hput"}, Obj(t) \in Objs
      PROVE  hc[Obj(t)] > 0
  <2>1. t \in TakenOut(Obj(t))
    BY <1>3 DEF TakenOut
  <2> QED
    BY <1>1, <1>3, <2>1 DEF HandlesExact
<1> QED
  BY <1>2, <1>3

LEMMA HandlesStep ==
  ASSUME TypeOK, LocalInv, HandleInv, HandlesExact, Next PROVE HandlesExact'
<1> USE GemAssumption DEF TypeOK, LocalInv, Local, File, Obj, Buf, Ok, Calling, NoCall, Locals,
        Goto, Return, objVars, bufVars, fileVars
<1>1. ASSUME NEW t \in Threads, NEW f \in Files, NEW o \in Objs, Create(t, f, o)
      PROVE  HandlesExact'
  <2>1. \/ \E h \in Handles : Published(t, f, o, 1, "create", None, h)
        \/ Unpublished(t, f, o, 1, "create", None)
    BY <1>1, PublishCases DEF Create, Calls
  <2>2. CASE Unpublished(t, f, o, 1, "create", None)
    <3>1. OnlyThread(t)
      BY <1>1, <2>2 DEF OnlyThread, Unpublished, Create, Calls
    <3>2. \A g \in Files, k \in Handles : g # None \/ k # 0 => table'[g][k] = table[g][k]
      BY <1>1, <2>2 DEF Unpublished, Create, Calls
    <3>3. ASSUME NEW p \in Objs
         PROVE  hc'[p] = hc[p] + Differ(<<None, 0>>, InTable(p), InTable(p)')
                              + Differ(t, TakenOut(p), TakenOut(p)')
      BY <1>1, <2>2 DEF Differ, Bit, InTable, TakenOut, Null, Free, Unpublished, Create, Calls
    <3> QED
      BY <3>1, <3>2, <3>3, HandleCounts DEF HandlesExact
  <2>3. ASSUME NEW h \in Handles, Published(t, f, o, 1, "create", None, h)
        PROVE  HandlesExact'
    <3>1. OnlyThread(t)
      BY <1>1, <2>3 DEF OnlyThread, Published, Create, Calls
    <3>2. \A g \in Files, k \in Handles : g # f \/ k # h => table'[g][k] = table[g][k]
      BY <1>1, <2>3 DEF Published, Create, Calls
    <3>3. ASSUME NEW p \in Objs
         PROVE  hc'[p] = hc[p] + Differ(<<f, h>>, InTable(p), InTable(p)')
                              + Differ(t, TakenOut(p), TakenOut(p)')
      BY <1>1, <2>3 DEF Differ, Bit, InTable, TakenOut, Null, Free, Published, Create, Calls
    <3> QED
      BY <3>1, <3>2, <3>3, HandleCounts DEF HandlesExact
  <2> QED
    BY <2>1, <2>2, <2>3
<1>2. ASSUME NEW t \in Threads, NEW f \in Files, NEW o \in Objs, OpenName(t, f, o)
      PROVE  HandlesExact'
  <2>1. \/ \E h \in Handles : Published(t, f, o, ref[o] + 1, "open", None, h)
        \/ Unpublished(t, f, o, ref[o] + 1, "open", None)
    BY <1>2, PublishCases DEF OpenName, Calls
  <2>2. CASE Unpublished(t, f, o, ref[o] + 1, "open", None)
    <3>1. OnlyThread(t)
      BY <1>2, <2>2 DEF OnlyThread, Unpublished, OpenName, Calls
    <3>2. \A g \in Files, k \in Handles : g # None \/ k # 0 => table'[g][k] = table[g][k]
      BY <1>2, <2>2 DEF Unpublished, OpenName, Calls
    <3>3. ASSUME NEW p \in Objs
         PROVE  hc'[p] = hc[p] + Differ(<<None, 0>>, InTable(p), InTable(p)')
                              + Differ(t, TakenOut(p), TakenOut(p)')
      BY <1>2, <2>2 DEF Differ, Bit, InTable, TakenOut, Null, Free, Unpublished, OpenName, Calls
    <3> QED
      BY <3>1, <3>2, <3>3, HandleCounts DEF HandlesExact
  <2>3. ASSUME NEW h \in Handles, Published(t, f, o, ref[o] + 1, "open", None, h)
        PROVE  HandlesExact'
    <3>1. OnlyThread(t)
      BY <1>2, <2>3 DEF OnlyThread, Published, OpenName, Calls
    <3>2. \A g \in Files, k \in Handles : g # f \/ k # h => table'[g][k] = table[g][k]
      BY <1>2, <2>3 DEF Published, OpenName, Calls
    <3>3. ASSUME NEW p \in Objs
         PROVE  hc'[p] = hc[p] + Differ(<<f, h>>, InTable(p), InTable(p)')
                              + Differ(t, TakenOut(p), TakenOut(p)')
      BY <1>2, <2>3 DEF Differ, Bit, InTable, TakenOut, Null, Free, Published, OpenName, Calls
    <3> QED
      BY <3>1, <3>2, <3>3, HandleCounts DEF HandlesExact
  <2> QED
    BY <2>1, <2>2, <2>3
<1>3. ASSUME NEW t \in Threads, NEW f \in Files, NEW o \in Objs, GetFb(t, f, o)
      PROVE  HandlesExact'
  <2>1. \/ \E h \in Handles : Published(t, f, o, ref[o] + 1, "getfb", None, h)
        \/ Unpublished(t, f, o, ref[o] + 1, "getfb", None)
    BY <1>3, PublishCases DEF GetFb, Calls
  <2>2. CASE Unpublished(t, f, o, ref[o] + 1, "getfb", None)
    <3>1. OnlyThread(t)
      BY <1>3, <2>2 DEF OnlyThread, Unpublished, GetFb, Calls
    <3>2. \A g \in Files, k \in Handles : g # None \/ k # 0 => table'[g][k] = table[g][k]
      BY <1>3, <2>2 DEF Unpublished, GetFb, Calls
    <3>3. ASSUME NEW p \in Objs
         PROVE  hc'[p] = hc[p] + Differ(<<None, 0>>, InTable(p), InTable(p)')
                              + Differ(t, TakenOut(p), TakenOut(p)')
      BY <1>3, <2>2 DEF Differ, Bit, InTable, TakenOut, Null, Free, Unpublished, GetFb, Calls
    <3> QED
      BY <3>1, <3>2, <3>3, HandleCounts DEF HandlesExact
  <2>3. ASSUME NEW h \in Handles, Published(t, f, o, ref[o] + 1, "getfb", None, h)
        PROVE  HandlesExact'
    <3>1. OnlyThread(t)
      BY <1>3, <2>3 DEF OnlyThread, Published, GetFb, Calls
    <3>2. \A g \in Files, k \in Handles : g # f \/ k # h => table'[g][k] = table[g][k]
      BY <1>3, <2>3 DEF Published, GetFb, Calls
    <3>3. ASSUME NEW p \in Objs
         PROVE  hc'[p] = hc[p] + Differ(<<f, h>>, InTable(p), InTable(p)')
                              + Differ(t, TakenOut(p), TakenOut(p)')
      BY <1>3, <2>3 DEF Differ, Bit, InTable, TakenOut, Null, Free, Published, GetFb, Calls
    <3> QED
      BY <3>1, <3>2, <3>3, HandleCounts DEF HandlesExact
  <2> QED
    BY <2>1, <2>2, <2>3
<1>4. ASSUME NEW t \in Threads, ImportOwn(t) PROVE HandlesExact'
  <2>0. PICK f \in Files, o \in Objs, b \in Bufs : OwnTaken(t, f, o, b) /\ OwnEnds(t, f, o, b)
    BY <1>4, ImportOwnCases
  <2>1. OwnTaken(t, f, o, b)
    BY <2>0
  <2>2. CASE Unpublished(t, f, o, ref[o] + 1, "import", b)
    <3>1. OnlyThread(t)
      BY <2>1, <2>2 DEF OnlyThread, Unpublished, OwnTaken
    <3>2. \A g \in Files, k \in Handles : g # None \/ k # 0 => table'[g][k] = table[g][k]
      BY <2>1, <2>2 DEF Unpublished, OwnTaken
    <3>3. ASSUME NEW p \in Objs
         PROVE  hc'[p] = hc[p] + Differ(<<None, 0>>, InTable(p), InTable(p)')
                              + Differ(t, TakenOut(p), TakenOut(p)')
      BY <2>1, <2>2 DEF Differ, Bit, InTable, TakenOut, Null, Free, Unpublished, OwnTaken
    <3> QED
      BY <3>1, <3>2, <3>3, HandleCounts DEF HandlesExact
  <2>3. ASSUME NEW h \in Handles, Published(t, f, o, ref[o] + 1, "import", b, h)
        PROVE  HandlesExact'
    <3>1. OnlyThread(t)
      BY <2>1, <2>3 DEF OnlyThread, Published, OwnTaken
    <3>2. \A g \in Files, k \in Handles : g # f \/ k # h => table'[g][k] = table[g][k]
      BY <2>1, <2>3 DEF Published, OwnTaken
    <3>3. ASSUME NEW p \in Objs
         PROVE  hc'[p] = hc[p] + Differ(<<f, h>>, InTable(p), InTable(p)')
                              + Differ(t, TakenOut(p), TakenOut(p)')
      <4>1. (<<f, h>> \in InTable(p)') <=> p = o
        BY <2>1, <2>3 DEF InTable, Published, OwnTaken
      <4>2. <<f, h>> \notin InTable(p)
        BY <2>1, <2>3 DEF InTable, Null, Free, Published, OwnTaken
      <4>3. t \notin TakenOut(p) /\ t \notin TakenOut(p)'
        BY <2>1, <2>3 DEF TakenOut, Published, OwnTaken
      <4>4. hc[p] \in Int /\ hc'[p] = hc[p] + Bit(p = o)
        BY <2>1, <2>3 DEF Bit, Published, OwnTaken
      <4> QED
        BY <4>1, <4>2, <4>3, <4>4 DEF Differ, Bit
    <3> QED
      BY <3>1, <3>2, <3>3, HandleCounts DEF HandlesExact
  <2> QED
    BY <2>0, <2>2, <2>3 DEF OwnEnds
<1>5. ASSUME NEW t \in Threads, NEW o \in Objs, ImportForeign(t, o) PROVE HandlesExact'
  <2>1. \/ \E h \in Handles : Published(t, File(t), o, 1, "import", Buf(t), h)
        \/ Unpublished(t, File(t), o, 1, "import", Buf(t))
    BY <1>5, PublishCases DEF ImportForeign, Imports
  <2>2. CASE Unpublished(t, File(t), o, 1, "import", Buf(t))
    <3>1. OnlyThread(t)
      BY <1>5, <2>2 DEF OnlyThread, Unpublished, ImportForeign, Imports
    <3>2. \A g \in Files, k \in Handles : g # None \/ k # 0 => table'[g][k] = table[g][k]
      BY <1>5, <2>2 DEF Unpublished, ImportForeign, Imports
    <3>3. ASSUME NEW p \in Objs
         PROVE  hc'[p] = hc[p] + Differ(<<None, 0>>, InTable(p), InTable(p)')
                              + Differ(t, TakenOut(p), TakenOut(p)')
      BY <1>5, <2>2 DEF Differ, Bit, InTable, TakenOut, Null, Free, Unpublished,
           ImportForeign, Imports
    <3> QED
      BY <3>1, <3>2, <3>3, HandleCounts DEF HandlesExact
  <2>3. ASSUME NEW h \in Handles, Published(t, File(t), o, 1, "import", Buf(t), h)
        PROVE  HandlesExact'
    <3>1. OnlyThread(t)
      BY <1>5, <2>3 DEF OnlyThread, Published, ImportForeign, Imports
    <3>2. \A g \in Files, k \in Handles : g # File(t) \/ k # h => table'[g][k] = table[g][k]
      BY <1>5, <2>3 DEF Published, ImportForeign, Imports
    <3>3. ASSUME NEW p \in Objs
         PROVE  hc'[p] = hc[p] + Differ(<<File(t), h>>, InTable(p), InTable(p)')
                              + Differ(t, TakenOut(p), TakenOut(p)')
      BY <1>5, <2>3 DEF Differ, Bit, InTable, TakenOut, Null, Free, Published, ImportForeign,
           Imports
    <3> QED
      BY <3>1, <3>2, <3>3, HandleCounts DEF HandlesExact
  <2> QED
    BY <2>1, <2>2, <2>3
<1>6. ASSUME NEW t \in Threads, OpenFails(t) PROVE HandlesExact'
  <2>1. OnlyThread(t)
    BY <1>6 DEF OnlyThread, OpenFails, AfterRemove, HandleInv, TakesOut, Makes
  <2>2. \A g \in Files, k \in Handles : g # File(t) \/ k # w[t].h => table'[g][k] = table[g][k]
    BY <1>6 DEF OpenFails, AfterRemove, HandleInv, TakesOut, Makes
  <2>3. ASSUME NEW p \in Objs
       PROVE  hc'[p] = hc[p] + Differ(<<File(t), w[t].h>>, InTable(p), InTable(p)')
                            + Differ(t, TakenOut(p), TakenOut(p)')
    BY <1>6 DEF Differ, Bit, InTable, TakenOut, Null, Free, OpenFails, AfterRemove, HandleInv,
         TakesOut, Makes
  <2> QED
    BY <2>1, <2>2, <2>3, HandleCounts DEF HandlesExact
<1>7. ASSUME NEW t \in Threads, PutObj(t) PROVE HandlesExact'
  BY <1>7, HandlesSame DEF PutObj, ObjPut
<1>8. ASSUME NEW t \in Threads, Uncache(t) PROVE HandlesExact'
  BY <1>8, HandlesSame DEF Uncache, BufPut, Members
<1>9. ASSUME NEW t \in Threads, UncacheNothing(t) PROVE HandlesExact'
  BY <1>9, HandlesSame DEF UncacheNothing, Members
<1>10. ASSUME NEW t \in Threads, HandlePut(t) PROVE HandlesExact'
  <2>1. OnlyThread(t)
    BY <1>10, HasHandle DEF OnlyThread, HandlePut, AfterPut
  <2>2. \A g \in Files, k \in Handles : g # None \/ k # 0 => table'[g][k] = table[g][k]
    BY <1>10, HasHandle DEF HandlePut, AfterPut
  <2>3. ASSUME NEW p \in Objs
       PROVE  hc'[p] = hc[p] + Differ(<<None, 0>>, InTable(p), InTable(p)')
                            + Differ(t, TakenOut(p), TakenOut(p)')
    BY <1>10, HasHandle DEF Differ, Bit, InTable, TakenOut, Null, Free, HandlePut, AfterPut
  <2> QED
    BY <2>1, <2>2, <2>3, HandleCounts DEF HandlesExact
<1>11. ASSUME NEW t \in Threads, LastHandlePut(t) PROVE HandlesExact'
  <2>1. OnlyThread(t)
    BY <1>11 DEF OnlyThread, LastHandlePut, BufPut
  <2>2. \A g \in Files, k \in Handles : g # None \/ k # 0 => table'[g][k] = table[g][k]
    BY <1>11 DEF LastHandlePut, BufPut
  <2>3. ASSUME NEW p \in Objs
       PROVE  hc'[p] = hc[p] + Differ(<<None, 0>>, InTable(p), InTable(p)')
                            + Differ(t, TakenOut(p), TakenOut(p)')
    BY <1>11 DEF Differ, Bit, InTable, TakenOut, Null, Free, LastHandlePut, BufPut
  <2> QED
    BY <2>1, <2>2, <2>3, HandleCounts DEF HandlesExact
<1>12. ASSUME NEW t \in Threads, FinalPut(t) PROVE HandlesExact'
  BY <1>12, HandlesSame DEF FinalPut, ObjPut, AfterPut
<1>13. ASSUME NEW t \in Threads, Unreserve(t) PROVE HandlesExact'
  <2>1. OnlyThread(t)
    BY <1>13 DEF OnlyThread, Unreserve, HandleInv, TakesOut, Makes
  <2>2. \A g \in Files, k \in Handles : g # File(t) \/ k # w[t].h => table'[g][k] = table[g][k]
    BY <1>13 DEF Unreserve, HandleInv, TakesOut, Makes
  <2>3. ASSUME NEW p \in Objs
       PROVE  hc'[p] = hc[p] + Differ(<<File(t), w[t].h>>, InTable(p), InTable(p)')
                            + Differ(t, TakenOut(p), TakenOut(p)')
    BY <1>13 DEF Differ, Bit, InTable, TakenOut, Null, Free, Unreserve, HandleInv, TakesOut,
         Makes
  <2> QED
    BY <2>1, <2>2, <2>3, HandleCounts DEF HandlesExact
<1>14. ASSUME NEW t \in Threads, Released(t) PROVE HandlesExact'
  BY <1>14, HandlesSame DEF Released
<1>15. ASSUME NEW t \in Threads, NEW h \in Handles, ReleaseHandle(t, h) PROVE HandlesExact'
  <2>1. OnlyThread(t)
    BY <1>15 DEF OnlyThread, ReleaseHandle, IsObj
  <2>2. \A g \in Files, k \in Handles : g # File(t) \/ k # h => table'[g][k] = table[g][k]
    BY <1>15 DEF ReleaseHandle, IsObj
  <2>3. ASSUME NEW p \in Objs
       PROVE  hc'[p] = hc[p] + Differ(<<File(t), h>>, InTable(p), InTable(p)')
                            + Differ(t, TakenOut(p), TakenOut(p)')
    BY <1>15 DEF Differ, Bit, InTable, TakenOut, Null, Free, ReleaseHandle, IsObj
  <2> QED
    BY <2>1, <2>2, <2>3, HandleCounts DEF HandlesExact
<1>16. ASSUME NEW t \in Threads, FlinkName(t) PROVE HandlesExact'
  BY <1>16, HandlesSame DEF FlinkName, HasHandles
<1>17. ASSUME NEW t \in Threads, ToFdCached(t) PROVE HandlesExact'
  BY <1>17, HandlesSame DEF ToFdCached, Cached, Members
<1>18. ASSUME NEW t \in Threads, NEW b \in Bufs, ToFdKnown(t, b) PROVE HandlesExact'
  BY <1>18, HandlesSame DEF ToFdKnown, IsKnown, CacheAdd, CacheRefs
<1>19. ASSUME NEW t \in Threads, NEW b \in Bufs, ToFdUncached(t, b) PROVE HandlesExact'
  BY <1>19, HandlesSame DEF ToFdUncached, IsKnown
<1>20. ASSUME NEW t \in Threads, ExportFails(t) PROVE HandlesExact'
  BY <1>20, HandlesSame DEF ExportFails, MayExport
<1>21. ASSUME NEW t \in Threads, InstallFd(t) PROVE HandlesExact'
  BY <1>21, HandlesSame DEF AsksFd, InstallFd
<1>21a. ASSUME NEW t \in Threads, FdFails(t) PROVE HandlesExact'
  BY <1>21a, HandlesSame DEF AsksFd, FdFails
<1>22. ASSUME NEW t \in Threads, PutUncached(t) PROVE HandlesExact'
  BY <1>22, HandlesSame DEF PutUncached, BufPut
<1>23. ASSUME NEW t \in Threads, NEW b \in Bufs, Export(t, b) PROVE HandlesExact'
  BY <1>23, HandlesSame DEF Export, Exported, MayExport, CacheAdd, CacheRefs
<1>24. ASSUME NEW t \in Threads, NEW b \in Bufs, ExportUncached(t, b) PROVE HandlesExact'
  BY <1>24, HandlesSame DEF ExportUncached, Exported, MayExport
<1>25. ASSUME NEW t \in Threads, ImportSeen(t) PROVE HandlesExact'
  BY <1>25, HandlesSame DEF ImportSeen
<1>26. ASSUME NEW t \in Threads, ImportFails(t) PROVE HandlesExact'
  BY <1>26, HandlesSame DEF ImportFails, Imports
<1>27. ASSUME NEW t \in Threads, ImportCache(t) PROVE HandlesExact'
  BY <1>27, HandlesSame DEF ImportCache, CacheAdd, CacheRefs
<1>28. ASSUME NEW t \in Threads, ImportNoCache(t) PROVE HandlesExact'
  BY <1>28, HandlesSame DEF ImportNoCache
<1>29. ASSUME NEW t \in Threads, ImportDelete(t) PROVE HandlesExact'
  <2>1. OnlyThread(t)
    BY <1>29 DEF OnlyThread, ImportDelete, IsObj, Replaced
  <2>2. \A g \in Files, k \in Handles : g # File(t) \/ k # w[t].h => table'[g][k] = table[g][k]
    BY <1>29 DEF ImportDelete, IsObj, Replaced
  <2>3. ASSUME NEW p \in Objs
       PROVE  hc'[p] = hc[p] + Differ(<<File(t), w[t].h>>, InTable(p), InTable(p)')
                            + Differ(t, TakenOut(p), TakenOut(p)')
    BY <1>29 DEF Differ, Bit, InTable, TakenOut, Null, Free, ImportDelete, IsObj, Replaced
  <2> QED
    BY <2>1, <2>2, <2>3, HandleCounts DEF HandlesExact
<1>30. ASSUME NEW t \in Threads, ImportDeleted(t) PROVE HandlesExact'
  BY <1>30, HandlesSame DEF ImportDeleted
<1>31. ASSUME NEW t \in Threads, ImportPut(t) PROVE HandlesExact'
  BY <1>31, HandlesSame DEF ImportPut, BufPut
<1>32. ASSUME NEW t \in Threads, NEW f \in Files, NEW h \in Handles, Close(t, f, h)
       PROVE  HandlesExact'
  <2>1. OnlyThread(t)
    BY <1>32 DEF OnlyThread, Close, Calls, Names, IsObj, Replaced
  <2>2. \A g \in Files, k \in Handles : g # f \/ k # h => table'[g][k] = table[g][k]
    BY <1>32 DEF Close, Calls, Names, IsObj, Replaced
  <2>3. ASSUME NEW p \in Objs
       PROVE  hc'[p] = hc[p] + Differ(<<f, h>>, InTable(p), InTable(p)')
                            + Differ(t, TakenOut(p), TakenOut(p)')
    BY <1>32 DEF Differ, Bit, InTable, TakenOut, Null, Free, Close, Calls, Names, IsObj,
         Replaced
  <2> QED
    BY <2>1, <2>2, <2>3, HandleCounts DEF HandlesExact
<1>33. ASSUME NEW t \in Threads, NEW f \in Files, NEW h \in Handles, Flink(t, f, h)
       PROVE  HandlesExact'
  BY <1>33, HandlesSame DEF Flink, Lookup, Calls, Names, IsObj
<1>34. ASSUME NEW t \in Threads, NEW f \in Files, NEW h \in Handles, ToFd(t, f, h)
       PROVE  HandlesExact'
  BY <1>34, HandlesSame DEF ToFd, Lookup, Calls, Names, IsObj
<1>35. ASSUME NEW t \in Threads, NEW f \in Files, NEW h \in Handles, AddFb(t, f, h)
       PROVE  HandlesExact'
  BY <1>35, HandlesSame DEF AddFb, Calls, Names, IsObj
<1>36. ASSUME NEW t \in Threads, NEW f \in Files, NEW b \in Bufs, FdToHandle(t, f, b)
       PROVE  HandlesExact'
  BY <1>36, HandlesSame DEF FdToHandle, Calls
<1>37. ASSUME NEW t \in Threads, NEW f \in Files, ReleaseFile(t, f) PROVE HandlesExact'
  BY <1>37, HandlesSame DEF ReleaseFile, Calls
<1>38. ASSUME NEW b \in Bufs, CloseFd(b) PROVE HandlesExact'
  BY <1>38, HandlesSame DEF CloseFd, BufPut
<1>39. ASSUME NEW o \in Objs, RmFb(o) PROVE HandlesExact'
  BY <1>39, HandlesSame DEF RmFb, ObjPut
<1> HIDE GemAssumption DEF TypeOK, LocalInv, Local, File, Obj, Buf, Ok, Calling, NoCall, Locals,
        Goto, Return, objVars, bufVars, fileVars
<1> QED
  BY Zenon, <1>1, <1>2, <1>3, <1>4, <1>5, <1>6, <1>7, <1>8, <1>9, <1>10, <1>11, <1>12, <1>13, <1>14,
      <1>15, <1>16, <1>17, <1>18, <1>19, <1>20, <1>21, <1>21a, <1>22, <1>23, <1>24, <1>25, <1>26,
      <1>27, <1>28, <1>29, <1>30, <1>31, <1>32, <1>33, <1>34, <1>35, <1>36, <1>37, <1>38, <1>39 DEF Next, Step, Call

----------------------------------------------------------------------------
(* Names and exported dma-bufs                                             *)

LEMMA NothingLeftStep ==
  ASSUME TypeOK, LocalInv, HandlesExact, NothingLeft, Next PROVE NothingLeft'
<1> USE GemAssumption DEF TypeOK, LocalInv, Local, NothingLeft, File, Obj, Buf, Ok, Calling,
        NoCall, Locals, Goto, Return, objVars, bufVars, fileVars
<1>1. ASSUME NEW t \in Threads, NEW f \in Files, NEW o \in Objs, Create(t, f, o)
      PROVE  NothingLeft'
  <2>1. \/ \E h \in Handles : Published(t, f, o, 1, "create", None, h)
        \/ Unpublished(t, f, o, 1, "create", None)
    BY <1>1, PublishCases DEF Create, Calls
  <2>2. CASE Unpublished(t, f, o, 1, "create", None)
    BY <1>1, <2>2 DEF Unpublished, Create, Calls
  <2>3. ASSUME NEW h \in Handles, Published(t, f, o, 1, "create", None, h)
        PROVE  NothingLeft'
    BY <1>1, <2>3 DEF Published, Create, Calls
  <2> QED
    BY <2>1, <2>2, <2>3
<1>2. ASSUME NEW t \in Threads, NEW f \in Files, NEW o \in Objs, OpenName(t, f, o)
      PROVE  NothingLeft'
  <2>1. \/ \E h \in Handles : Published(t, f, o, ref[o] + 1, "open", None, h)
        \/ Unpublished(t, f, o, ref[o] + 1, "open", None)
    BY <1>2, PublishCases DEF OpenName, Calls
  <2>2. CASE Unpublished(t, f, o, ref[o] + 1, "open", None)
    BY <1>2, <2>2 DEF Unpublished, OpenName, Calls
  <2>3. ASSUME NEW h \in Handles, Published(t, f, o, ref[o] + 1, "open", None, h)
        PROVE  NothingLeft'
    BY <1>2, <2>3 DEF Published, OpenName, Calls
  <2> QED
    BY <2>1, <2>2, <2>3
<1>3. ASSUME NEW t \in Threads, NEW f \in Files, NEW o \in Objs, GetFb(t, f, o)
      PROVE  NothingLeft'
  <2>1. \/ \E h \in Handles : Published(t, f, o, ref[o] + 1, "getfb", None, h)
        \/ Unpublished(t, f, o, ref[o] + 1, "getfb", None)
    BY <1>3, PublishCases DEF GetFb, Calls
  <2>2. CASE Unpublished(t, f, o, ref[o] + 1, "getfb", None)
    BY <1>3, <2>2 DEF Unpublished, GetFb, Calls
  <2>3. ASSUME NEW h \in Handles, Published(t, f, o, ref[o] + 1, "getfb", None, h)
        PROVE  NothingLeft'
    BY <1>3, <2>3 DEF Published, GetFb, Calls
  <2> QED
    BY <2>1, <2>2, <2>3
<1>4. ASSUME NEW t \in Threads, ImportOwn(t) PROVE NothingLeft'
  <2>0. PICK f \in Files, o \in Objs, b \in Bufs : OwnTaken(t, f, o, b) /\ OwnEnds(t, f, o, b)
    BY <1>4, ImportOwnCases
  <2>1. OwnTaken(t, f, o, b)
    BY <2>0
  <2>2. CASE Unpublished(t, f, o, ref[o] + 1, "import", b)
    BY <2>1, <2>2 DEF Unpublished, OwnTaken
  <2>3. ASSUME NEW h \in Handles, Published(t, f, o, ref[o] + 1, "import", b, h)
        PROVE  NothingLeft'
    BY <2>1, <2>3 DEF Published, OwnTaken
  <2> QED
    BY <2>0, <2>2, <2>3 DEF OwnEnds
<1>5. ASSUME NEW t \in Threads, NEW o \in Objs, ImportForeign(t, o) PROVE NothingLeft'
  <2>1. \/ \E h \in Handles : Published(t, File(t), o, 1, "import", Buf(t), h)
        \/ Unpublished(t, File(t), o, 1, "import", Buf(t))
    BY <1>5, PublishCases DEF ImportForeign, Imports
  <2>2. CASE Unpublished(t, File(t), o, 1, "import", Buf(t))
    BY <1>5, <2>2 DEF Unpublished, ImportForeign, Imports
  <2>3. ASSUME NEW h \in Handles, Published(t, File(t), o, 1, "import", Buf(t), h)
        PROVE  NothingLeft'
    BY <1>5, <2>3 DEF Published, ImportForeign, Imports
  <2> QED
    BY <2>1, <2>2, <2>3
<1>6. ASSUME NEW t \in Threads, OpenFails(t) PROVE NothingLeft'
  BY <1>6 DEF OpenFails, AfterRemove
<1>7. ASSUME NEW t \in Threads, PutObj(t) PROVE NothingLeft'
  BY <1>7 DEF PutObj, ObjPut
<1>8. ASSUME NEW t \in Threads, Uncache(t) PROVE NothingLeft'
  BY <1>8 DEF Uncache, BufPut, Members
<1>9. ASSUME NEW t \in Threads, UncacheNothing(t) PROVE NothingLeft'
  BY <1>9 DEF UncacheNothing, Members
<1>10. ASSUME NEW t \in Threads, HandlePut(t) PROVE NothingLeft'
  BY <1>10 DEF HandlePut, AfterPut
<1>11. ASSUME NEW t \in Threads, LastHandlePut(t) PROVE NothingLeft'
  BY <1>11 DEF LastHandlePut, BufPut
<1>12. ASSUME NEW t \in Threads, FinalPut(t) PROVE NothingLeft'
  BY <1>12 DEF FinalPut, ObjPut, AfterPut
<1>13. ASSUME NEW t \in Threads, Unreserve(t) PROVE NothingLeft'
  BY <1>13 DEF Unreserve
<1>14. ASSUME NEW t \in Threads, Released(t) PROVE NothingLeft'
  BY <1>14 DEF Released
<1>15. ASSUME NEW t \in Threads, NEW h \in Handles, ReleaseHandle(t, h) PROVE NothingLeft'
  BY <1>15 DEF ReleaseHandle, IsObj
<1>16. ASSUME NEW t \in Threads, FlinkName(t) PROVE NothingLeft'
  BY <1>16 DEF FlinkName, HasHandles
<1>17. ASSUME NEW t \in Threads, ToFdCached(t) PROVE NothingLeft'
  BY <1>17 DEF ToFdCached, Cached, Members
<1>18. ASSUME NEW t \in Threads, NEW b \in Bufs, ToFdKnown(t, b) PROVE NothingLeft'
  BY <1>18 DEF ToFdKnown, IsKnown, CacheAdd, CacheRefs
<1>19. ASSUME NEW t \in Threads, NEW b \in Bufs, ToFdUncached(t, b) PROVE NothingLeft'
  BY <1>19 DEF ToFdUncached, IsKnown
<1>20. ASSUME NEW t \in Threads, ExportFails(t) PROVE NothingLeft'
  BY <1>20 DEF ExportFails, MayExport
<1>21. ASSUME NEW t \in Threads, InstallFd(t) PROVE NothingLeft'
  BY <1>21 DEF AsksFd, InstallFd
<1>21a. ASSUME NEW t \in Threads, FdFails(t) PROVE NothingLeft'
  BY <1>21a DEF AsksFd, FdFails
<1>22. ASSUME NEW t \in Threads, PutUncached(t) PROVE NothingLeft'
  BY <1>22 DEF PutUncached, BufPut
<1>23. ASSUME NEW t \in Threads, NEW b \in Bufs, Export(t, b) PROVE NothingLeft'
  BY <1>23 DEF Export, HasHandles, Exported, MayExport, CacheAdd, CacheRefs
<1>24. ASSUME NEW t \in Threads, NEW b \in Bufs, ExportUncached(t, b) PROVE NothingLeft'
  BY <1>24 DEF ExportUncached, HasHandles, Exported, MayExport
<1>25. ASSUME NEW t \in Threads, ImportSeen(t) PROVE NothingLeft'
  BY <1>25 DEF ImportSeen
<1>26. ASSUME NEW t \in Threads, ImportFails(t) PROVE NothingLeft'
  BY <1>26 DEF ImportFails, Imports
<1>27. ASSUME NEW t \in Threads, ImportCache(t) PROVE NothingLeft'
  BY <1>27 DEF ImportCache, CacheAdd, CacheRefs
<1>28. ASSUME NEW t \in Threads, ImportNoCache(t) PROVE NothingLeft'
  BY <1>28 DEF ImportNoCache
<1>29. ASSUME NEW t \in Threads, ImportDelete(t) PROVE NothingLeft'
  BY <1>29 DEF ImportDelete, IsObj, Replaced
<1>30. ASSUME NEW t \in Threads, ImportDeleted(t) PROVE NothingLeft'
  BY <1>30 DEF ImportDeleted
<1>31. ASSUME NEW t \in Threads, ImportPut(t) PROVE NothingLeft'
  BY <1>31 DEF ImportPut, BufPut
<1>32. ASSUME NEW t \in Threads, NEW f \in Files, NEW h \in Handles, Close(t, f, h)
       PROVE  NothingLeft'
  BY <1>32 DEF Close, Calls, Names, IsObj, Replaced
<1>33. ASSUME NEW t \in Threads, NEW f \in Files, NEW h \in Handles, Flink(t, f, h)
       PROVE  NothingLeft'
  BY <1>33 DEF Flink, Lookup, Calls, Names, IsObj
<1>34. ASSUME NEW t \in Threads, NEW f \in Files, NEW h \in Handles, ToFd(t, f, h)
       PROVE  NothingLeft'
  BY <1>34 DEF ToFd, Lookup, Calls, Names, IsObj
<1>35. ASSUME NEW t \in Threads, NEW f \in Files, NEW h \in Handles, AddFb(t, f, h)
       PROVE  NothingLeft'
  BY <1>35 DEF AddFb, Calls, Names, IsObj
<1>36. ASSUME NEW t \in Threads, NEW f \in Files, NEW b \in Bufs, FdToHandle(t, f, b)
       PROVE  NothingLeft'
  BY <1>36 DEF FdToHandle, Calls
<1>37. ASSUME NEW t \in Threads, NEW f \in Files, ReleaseFile(t, f) PROVE NothingLeft'
  BY <1>37 DEF ReleaseFile, Calls
<1>38. ASSUME NEW b \in Bufs, CloseFd(b) PROVE NothingLeft'
  BY <1>38 DEF CloseFd, BufPut
<1>39. ASSUME NEW o \in Objs, RmFb(o) PROVE NothingLeft'
  BY <1>39 DEF RmFb, ObjPut
<1> HIDE GemAssumption DEF TypeOK, LocalInv, Local, NothingLeft, File, Obj, Buf, Ok, Calling,
        NoCall, Locals, Goto, Return, objVars, bufVars, fileVars
<1> QED
  BY Zenon, <1>1, <1>2, <1>3, <1>4, <1>5, <1>6, <1>7, <1>8, <1>9, <1>10, <1>11, <1>12, <1>13, <1>14,
      <1>15, <1>16, <1>17, <1>18, <1>19, <1>20, <1>21, <1>21a, <1>22, <1>23, <1>24, <1>25, <1>26,
      <1>27, <1>28, <1>29, <1>30, <1>31, <1>32, <1>33, <1>34, <1>35, <1>36, <1>37, <1>38, <1>39 DEF Next, Step, Call

----------------------------------------------------------------------------
(* Reference counts: what is referred to is there                          *)

LEMMA FiniteParts ==
  ASSUME TypeOK
  PROVE  /\ \A o \in Objs : /\ IsFiniteSet(Exports(o)) /\ IsFiniteSet(Holders(o))
                            /\ IsFiniteSet(TwiceHeld(o))
         /\ \A b \in Bufs : /\ IsFiniteSet(Exporters(b)) /\ IsFiniteSet(Importers(b))
                            /\ IsFiniteSet(CachedFor(b)) /\ IsFiniteSet(BufHolders(b))
<1>1. IsFiniteSet(Objs) /\ IsFiniteSet(Bufs) /\ IsFiniteSet(Threads) /\ IsFiniteSet(Files \X Handles)
  BY GemAssumption, FS_Product
<1>2. ASSUME NEW o \in Objs
      PROVE  IsFiniteSet(Exports(o)) /\ IsFiniteSet(Holders(o)) /\ IsFiniteSet(TwiceHeld(o))
  BY <1>1, CountPart DEF Exports, Holders, TwiceHeld
<1>3. ASSUME NEW b \in Bufs
      PROVE  /\ IsFiniteSet(Exporters(b)) /\ IsFiniteSet(Importers(b))
             /\ IsFiniteSet(CachedFor(b)) /\ IsFiniteSet(BufHolders(b))
  BY <1>1, CountPart DEF Exporters, Importers, CachedFor, BufHolders
<1> QED
  BY <1>2, <1>3

LEMMA ObjThere ==
  ASSUME TypeOK, RefsExact, NEW o \in Objs
  PROVE  /\ ref[o] \in Nat
         /\ hc[o] > 0 \/ o \in fb => ref[o] > 0
         /\ \A t \in Threads : HoldsObj(t, o) => ref[o] > 0
         /\ \A b \in Bufs : priv[b] = o /\ bref[b] > 0 => ref[o] > 0
<1>1. /\ Num(Exports(o)) \in Nat /\ (\A x \in Exports(o) : Num(Exports(o)) > 0)
      /\ Num(Holders(o)) \in Nat /\ (\A x \in Holders(o) : Num(Holders(o)) > 0)
      /\ Num(TwiceHeld(o)) \in Nat
  BY FiniteParts, CountType DEF Num
<1>2. ref[o] = Bit(hc[o] > 0) + Bit(o \in fb) + Num(Exports(o)) + Num(Holders(o)) + Num(TwiceHeld(o))
  BY DEF RefsExact
<1>3. /\ \A t \in Threads : HoldsObj(t, o) => t \in Holders(o)
      /\ \A b \in Bufs : priv[b] = o /\ bref[b] > 0 => b \in Exports(o)
  BY DEF Holders, Exports
<1> QED
  BY <1>1, <1>2, <1>3 DEF Bit

LEMMA BufThere ==
  ASSUME TypeOK, RefsExact, NEW b \in Bufs
  PROVE  /\ bref[b] \in Nat
         /\ fds[b] > 0 => bref[b] > 0
         /\ \A o \in Objs : dbuf[o] = b \/ (attach[o] = b /\ ref[o] > 0) => bref[b] > 0
         /\ \A f \in Files, m \in Handles \X Bufs : m \in cache[f] /\ m[2] = b => bref[b] > 0
         /\ \A t \in Threads : HoldsBuf(t, b) => bref[b] > 0
<1>1. /\ Num(Exporters(b)) \in Nat /\ (\A x \in Exporters(b) : Num(Exporters(b)) > 0)
      /\ Num(Importers(b)) \in Nat /\ (\A x \in Importers(b) : Num(Importers(b)) > 0)
      /\ Num(CachedFor(b)) \in Nat /\ (\A x \in CachedFor(b) : Num(CachedFor(b)) > 0)
      /\ Num(BufHolders(b)) \in Nat /\ (\A x \in BufHolders(b) : Num(BufHolders(b)) > 0)
  BY FiniteParts, CountType DEF Num
<1>2. bref[b] = fds[b] + lost[b] + Num(Exporters(b)) + Num(Importers(b)) + Num(CachedFor(b)) + Num(BufHolders(b))
  BY DEF RefsExact
<1>3. /\ \A o \in Objs : /\ dbuf[o] = b => o \in Exporters(b)
                         /\ attach[o] = b /\ ref[o] > 0 => o \in Importers(b)
      /\ \A t \in Threads : HoldsBuf(t, b) => t \in BufHolders(b)
  BY DEF Exporters, Importers, BufHolders
<1>4. ASSUME NEW f \in Files, NEW m \in Handles \X Bufs, m \in cache[f], m[2] = b
      PROVE  <<f, m[1]>> \in CachedFor(b)
  BY <1>4 DEF CachedFor
<1>5. fds[b] \in Nat /\ lost[b] \in Nat
  BY DEF TypeOK
<1>6. \A f \in Files, m \in Handles \X Bufs : m \in cache[f] /\ m[2] = b => bref[b] > 0
  <2>1. ASSUME NEW f \in Files, NEW m \in Handles \X Bufs, m \in cache[f], m[2] = b
        PROVE  Num(CachedFor(b)) > 0
    BY <1>1, <1>4, <2>1
  <2> QED
    BY <1>1, <1>2, <1>5, <2>1
<1> QED
  BY <1>1, <1>2, <1>3, <1>5, <1>6

----------------------------------------------------------------------------
(* Which dma-bufs belong to which objects                                  *)

\* A reference to a dma-buf is dropped, or taken.
LEMMA BelongPut ==
  ASSUME TypeOK, BufInv, RefsExact, NEW b \in Bufs, bref[b] > 0, BufPut(b),
         born' = born, attach' = attach, priv' = priv, dbuf' = dbuf
  PROVE  BufInv'
<1>1. priv[b] # None => ref[priv[b]] > 0
  BY ObjThere DEF TypeOK
<1> QED
  BY <1>1 DEF TypeOK, BufInv, BufPut

LEMMA BelongGet ==
  ASSUME TypeOK, BufInv, NEW b \in Bufs, bref[b] > 0,
         \A c \in Bufs : c # b => bref'[c] = bref[c],
         ref' = ref, born' = born, attach' = attach, priv' = priv, dbuf' = dbuf
  PROVE  BufInv'
BY DEF TypeOK, BufInv

LEMMA HeldBuf ==
  ASSUME TypeOK, RefsExact, NEW t \in Threads, Buf(t) \in Bufs, HoldsBuf(t, Buf(t))
  PROVE  bref[Buf(t)] > 0
BY BufThere

LEMMA CachedBuf ==
  ASSUME TypeOK, RefsExact, NEW f \in Files, NEW m \in cache[f]
  PROVE  m \in Handles \X Bufs /\ m[2] \in Bufs /\ bref[m[2]] > 0
<1>1. m \in Handles \X Bufs
  BY SMTT(20) DEF TypeOK
<1> QED
  BY <1>1, BufThere

LEMMA BufInvStep ==
  ASSUME TypeOK, LocalInv, BufInv, RefsExact, HandlesExact, NothingLeft, Next PROVE BufInv'
<1>0. /\ \A o \in Objs : /\ ref[o] \in Nat /\ (o \in name \/ o \in fb => ref[o] > 0)
                       /\ \A t \in Threads : HoldsObj(t, o) => ref[o] > 0
                       /\ \A b \in Bufs : priv[b] = o /\ bref[b] > 0 => ref[o] > 0
      /\ \A f \in Files, h \in Handles : table[f][h] \in Objs => ref[table[f][h]] > 0
      /\ \A b \in Bufs : /\ bref[b] \in Nat /\ (fds[b] > 0 => bref[b] > 0)
                       /\ \A o \in Objs : dbuf[o] = b \/ (attach[o] = b /\ ref[o] > 0) => bref[b] > 0
                       /\ \A f \in Files, m \in Handles \X Bufs : m \in cache[f] /\ m[2] = b => bref[b] > 0
                       /\ \A t \in Threads : HoldsBuf(t, b) => bref[b] > 0
  BY ObjThere, BufThere, HasHandle DEF NothingLeft, TypeOK
<1> USE GemAssumption DEF TypeOK, LocalInv, Local, BufInv, File, Obj, Buf, Ok, Calling,
        NoCall, Locals, Goto, Return, objVars, bufVars, fileVars
<1>1. ASSUME NEW t \in Threads, NEW f \in Files, NEW o \in Objs, Create(t, f, o) PROVE BufInv'
  <2>1. \/ \E h \in Handles : Published(t, f, o, 1, "create", None, h)
        \/ Unpublished(t, f, o, 1, "create", None)
    BY <1>1, PublishCases DEF Create, Calls
  <2>2. CASE Unpublished(t, f, o, 1, "create", None)
    BY <1>1, <2>2, <1>0 DEF HoldsObj, HoldsBuf, Unpublished, Create, Calls
  <2>3. ASSUME NEW h \in Handles, Published(t, f, o, 1, "create", None, h)
        PROVE  BufInv'
    BY <1>1, <2>3, <1>0 DEF HoldsObj, HoldsBuf, Published, Create, Calls
  <2> QED
    BY <2>1, <2>2, <2>3
<1>2. ASSUME NEW t \in Threads, NEW f \in Files, NEW o \in Objs, OpenName(t, f, o) PROVE BufInv'
  <2>1. \/ \E h \in Handles : Published(t, f, o, ref[o] + 1, "open", None, h)
        \/ Unpublished(t, f, o, ref[o] + 1, "open", None)
    BY <1>2, PublishCases DEF OpenName, Calls
  <2>2. CASE Unpublished(t, f, o, ref[o] + 1, "open", None)
    BY <1>2, <2>2, <1>0 DEF HoldsObj, HoldsBuf, Unpublished, OpenName, Calls
  <2>3. ASSUME NEW h \in Handles, Published(t, f, o, ref[o] + 1, "open", None, h)
        PROVE  BufInv'
    BY <1>2, <2>3, <1>0 DEF HoldsObj, HoldsBuf, Published, OpenName, Calls
  <2> QED
    BY <2>1, <2>2, <2>3
<1>3. ASSUME NEW t \in Threads, NEW f \in Files, NEW o \in Objs, GetFb(t, f, o) PROVE BufInv'
  <2>1. \/ \E h \in Handles : Published(t, f, o, ref[o] + 1, "getfb", None, h)
        \/ Unpublished(t, f, o, ref[o] + 1, "getfb", None)
    BY <1>3, PublishCases DEF GetFb, Calls
  <2>2. CASE Unpublished(t, f, o, ref[o] + 1, "getfb", None)
    BY <1>3, <2>2, <1>0 DEF HoldsObj, HoldsBuf, Unpublished, GetFb, Calls
  <2>3. ASSUME NEW h \in Handles, Published(t, f, o, ref[o] + 1, "getfb", None, h)
        PROVE  BufInv'
    BY <1>3, <2>3, <1>0 DEF HoldsObj, HoldsBuf, Published, GetFb, Calls
  <2> QED
    BY <2>1, <2>2, <2>3
<1>4. ASSUME NEW t \in Threads, ImportOwn(t) PROVE BufInv'
  <2>0. PICK f \in Files, o \in Objs, b \in Bufs : OwnTaken(t, f, o, b) /\ OwnEnds(t, f, o, b)
    BY <1>4, ImportOwnCases
  <2>1. OwnTaken(t, f, o, b)
    BY <2>0
  <2>2. CASE Unpublished(t, f, o, ref[o] + 1, "import", b)
    BY SMTT(60), <2>1, <2>2, <1>0 DEF HoldsObj, HoldsBuf, Unpublished, OwnTaken
  <2>3. ASSUME NEW h \in Handles, Published(t, f, o, ref[o] + 1, "import", b, h)
        PROVE  BufInv'
    BY SMTT(60), <2>1, <2>3, <1>0 DEF HoldsObj, HoldsBuf, Published, OwnTaken
  <2> QED
    BY <2>0, <2>2, <2>3 DEF OwnEnds
<1>5. ASSUME NEW t \in Threads, NEW o \in Objs, ImportForeign(t, o) PROVE BufInv'
  <2>1. \/ \E h \in Handles : Published(t, File(t), o, 1, "import", Buf(t), h)
        \/ Unpublished(t, File(t), o, 1, "import", Buf(t))
    BY <1>5, PublishCases DEF ImportForeign, Imports
  <2>2. CASE Unpublished(t, File(t), o, 1, "import", Buf(t))
    BY <1>5, <2>2, <1>0 DEF HoldsObj, HoldsBuf, Unpublished, ImportForeign, Imports
  <2>3. ASSUME NEW h \in Handles, Published(t, File(t), o, 1, "import", Buf(t), h)
        PROVE  BufInv'
    BY <1>5, <2>3, <1>0 DEF HoldsObj, HoldsBuf, Published, ImportForeign, Imports
  <2> QED
    BY <2>1, <2>2, <2>3
<1>6. ASSUME NEW t \in Threads, OpenFails(t) PROVE BufInv'
  BY <1>6, <1>0 DEF HoldsObj, HoldsBuf, OpenFails, AfterRemove
<1>7. ASSUME NEW t \in Threads, PutObj(t) PROVE BufInv'
  BY <1>7, <1>0 DEF HoldsObj, HoldsBuf, PutObj, ObjPut
<1>8. ASSUME NEW t \in Threads, Uncache(t) PROVE BufInv'
  <2>0. PICK m \in cache[File(t)] : BufPut(m[2])
    BY <1>8 DEF Uncache, Members
  <2>a. File(t) \in Files /\ m \in Handles \X Bufs
    BY <1>8 DEF Uncache
  <2>1. m[2] \in Bufs /\ bref[m[2]] > 0
    BY <2>0, <2>a, CachedBuf
  <2> QED
    BY <1>8, <2>1, BelongPut, <2>0 DEF BufPut, Uncache, Members
<1>9. ASSUME NEW t \in Threads, UncacheNothing(t) PROVE BufInv'
  BY <1>9, <1>0 DEF HoldsObj, HoldsBuf, UncacheNothing, Members
<1>10. ASSUME NEW t \in Threads, HandlePut(t) PROVE BufInv'
  BY <1>10, <1>0 DEF HoldsObj, HoldsBuf, HandlePut, AfterPut
<1>11. ASSUME NEW t \in Threads, LastHandlePut(t) PROVE BufInv'
  BY <1>11, <1>0 DEF HoldsObj, HoldsBuf, LastHandlePut, BufPut
<1>12. ASSUME NEW t \in Threads, FinalPut(t) PROVE BufInv'
  BY <1>12, <1>0 DEF HoldsObj, HoldsBuf, FinalPut, ObjPut, AfterPut
<1>13. ASSUME NEW t \in Threads, Unreserve(t) PROVE BufInv'
  BY <1>13, <1>0 DEF HoldsObj, HoldsBuf, Unreserve
<1>14. ASSUME NEW t \in Threads, Released(t) PROVE BufInv'
  BY <1>14, <1>0 DEF HoldsObj, HoldsBuf, Released
<1>15. ASSUME NEW t \in Threads, NEW h \in Handles, ReleaseHandle(t, h) PROVE BufInv'
  BY <1>15, <1>0 DEF HoldsObj, HoldsBuf, ReleaseHandle, IsObj
<1>16. ASSUME NEW t \in Threads, FlinkName(t) PROVE BufInv'
  BY <1>16, <1>0 DEF HoldsObj, HoldsBuf, FlinkName, HasHandles
<1>17. ASSUME NEW t \in Threads, ToFdCached(t) PROVE BufInv'
  <2>0. PICK m \in cache[File(t)] : bref' = [bref EXCEPT ![m[2]] = @ + 1]
    BY <1>17 DEF ToFdCached, Cached, Members
  <2>a. File(t) \in Files /\ m \in Handles \X Bufs
    BY <1>17 DEF ToFdCached
  <2>1. m[2] \in Bufs /\ bref[m[2]] > 0
    BY <2>0, <2>a, CachedBuf
  <2>2. bref'[m[2]] > 0 /\ \A c \in Bufs : c # m[2] => bref'[c] = bref[c]
    BY <1>17, <1>0, <2>1, <2>0 DEF ToFdCached, Members
  <2> QED
    BY <1>17, <2>1, <2>2, BelongGet, <2>0 DEF ToFdCached, Members
<1>18. ASSUME NEW t \in Threads, NEW b \in Bufs, ToFdKnown(t, b) PROVE BufInv'
  <2>1. b \in Bufs /\ bref[b] > 0
    BY <1>18, <1>0 DEF HoldsObj, HoldsBuf, ToFdKnown, IsKnown, Known, CacheRefs, HoldsObj
  <2>2. bref'[b] > 0 /\ \A c \in Bufs : c # b => bref'[c] = bref[c]
    BY <1>18, <1>0, <2>1 DEF ToFdKnown, IsKnown, Known, CacheRefs, HoldsObj
  <2>3. ref' = ref /\ born' = born /\ attach' = attach /\ priv' = priv /\ dbuf' = dbuf
    BY <1>18, Zenon DEF ToFdKnown
  <2> HIDE DEF TypeOK, LocalInv, BufInv
  <2> QED
    BY <2>1, <2>2, <2>3, BelongGet
<1>19. ASSUME NEW t \in Threads, NEW b \in Bufs, ToFdUncached(t, b) PROVE BufInv'
  <2>1. b \in Bufs /\ bref[b] > 0
    BY <1>19, <1>0 DEF HoldsObj, HoldsBuf, ToFdUncached, IsKnown, Known, HoldsObj
  <2>2. bref'[b] > 0 /\ \A c \in Bufs : c # b => bref'[c] = bref[c]
    BY <1>19, <1>0, <2>1 DEF ToFdUncached, IsKnown, Known, HoldsObj
  <2>3. ref' = ref /\ born' = born /\ attach' = attach /\ priv' = priv /\ dbuf' = dbuf
    BY <1>19, Zenon DEF ToFdUncached
  <2> HIDE DEF TypeOK, LocalInv, BufInv
  <2> QED
    BY <2>1, <2>2, <2>3, BelongGet
<1>20. ASSUME NEW t \in Threads, ExportFails(t) PROVE BufInv'
  BY <1>20, <1>0 DEF HoldsObj, HoldsBuf, ExportFails, MayExport
<1>21. ASSUME NEW t \in Threads, InstallFd(t) PROVE BufInv'
  BY <1>21, <1>0 DEF HoldsObj, HoldsBuf, AsksFd, InstallFd
<1>21a. ASSUME NEW t \in Threads, FdFails(t) PROVE BufInv'
  BY <1>21a, <1>0 DEF HoldsObj, HoldsBuf, AsksFd, FdFails
<1>22. ASSUME NEW t \in Threads, PutUncached(t) PROVE BufInv'
  <2>0. Buf(t) \in Bufs /\ HoldsBuf(t, Buf(t))
    BY <1>22 DEF HoldsBuf, PutUncached
  <2>1. bref[Buf(t)] > 0
    BY <2>0, HeldBuf
  <2> QED
    BY <1>22, <2>0, <2>1, BelongPut DEF BufPut, PutUncached
<1>23. ASSUME NEW t \in Threads, NEW b \in Bufs, Export(t, b) PROVE BufInv'
  <2>1. Obj(t) \in born /\ attach[Obj(t)] = None /\ Obj(t) \in Objs
    BY <1>23, <1>0 DEF HoldsObj, HoldsBuf, Known, Export, Exported, MayExport, CacheRefs
  <2>2. /\ b \notin Foreign /\ priv[b] = None /\ priv' = [priv EXCEPT ![b] = Obj(t)]
        /\ dbuf' = [dbuf EXCEPT ![Obj(t)] = b] /\ attach' = attach /\ born' = born
        /\ ref' = [ref EXCEPT ![Obj(t)] = @ + 1]
    BY <1>23 DEF Export, Exported, MayExport, CacheRefs
  <2>3. \A c \in Bufs : c # b => bref'[c] = bref[c]
    BY <1>23 DEF Export, Exported, MayExport, CacheRefs
  <2>4. \A o \in Objs : dbuf[o] = b => FALSE
    BY <2>2
  <2> HIDE DEF LocalInv
  <2> QED
    BY <2>1, <2>2, <2>3, <2>4
<1>24. ASSUME NEW t \in Threads, NEW b \in Bufs, ExportUncached(t, b) PROVE BufInv'
  <2>1. Obj(t) \in born /\ attach[Obj(t)] = None /\ Obj(t) \in Objs
    BY <1>24, <1>0 DEF HoldsObj, HoldsBuf, Known, ExportUncached, Exported, MayExport
  <2>2. /\ b \notin Foreign /\ priv[b] = None /\ priv' = [priv EXCEPT ![b] = Obj(t)]
        /\ dbuf' = [dbuf EXCEPT ![Obj(t)] = b] /\ attach' = attach /\ born' = born
        /\ ref' = [ref EXCEPT ![Obj(t)] = @ + 1]
    BY <1>24 DEF ExportUncached, Exported, MayExport
  <2>3. \A c \in Bufs : c # b => bref'[c] = bref[c]
    BY <1>24 DEF ExportUncached, Exported, MayExport
  <2>4. \A o \in Objs : dbuf[o] = b => FALSE
    BY <2>2
  <2> HIDE DEF LocalInv
  <2> QED
    BY <2>1, <2>2, <2>3, <2>4
<1>25. ASSUME NEW t \in Threads, ImportSeen(t) PROVE BufInv'
  BY <1>25, <1>0 DEF HoldsObj, HoldsBuf, ImportSeen
<1>26. ASSUME NEW t \in Threads, ImportFails(t) PROVE BufInv'
  BY <1>26, <1>0 DEF HoldsObj, HoldsBuf, ImportFails, Imports
<1>27. ASSUME NEW t \in Threads, ImportCache(t) PROVE BufInv'
  <2>0. Buf(t) \in Bufs /\ HoldsBuf(t, Buf(t))
    BY <1>27 DEF HoldsBuf, ImportCache
  <2>1. bref[Buf(t)] > 0
    BY <2>0, HeldBuf
  <2> QED
    BY <1>27, <2>0, <2>1, BelongGet DEF ImportCache, CacheRefs
<1>28. ASSUME NEW t \in Threads, ImportNoCache(t) PROVE BufInv'
  BY <1>28, <1>0 DEF HoldsObj, HoldsBuf, ImportNoCache
<1>29. ASSUME NEW t \in Threads, ImportDelete(t) PROVE BufInv'
  BY <1>29, <1>0 DEF HoldsObj, HoldsBuf, ImportDelete, IsObj, Replaced
<1>30. ASSUME NEW t \in Threads, ImportDeleted(t) PROVE BufInv'
  BY <1>30, <1>0 DEF HoldsObj, HoldsBuf, ImportDeleted
<1>31. ASSUME NEW t \in Threads, ImportPut(t) PROVE BufInv'
  <2>0. Buf(t) \in Bufs /\ HoldsBuf(t, Buf(t))
    BY <1>31 DEF HoldsBuf, ImportPut
  <2>1. bref[Buf(t)] > 0
    BY <2>0, HeldBuf
  <2> QED
    BY <1>31, <2>0, <2>1, BelongPut DEF BufPut, ImportPut
<1>32. ASSUME NEW t \in Threads, NEW f \in Files, NEW h \in Handles, Close(t, f, h)
       PROVE  BufInv'
  BY <1>32, <1>0 DEF HoldsObj, HoldsBuf, Close, Calls, Names, IsObj, Replaced
<1>33. ASSUME NEW t \in Threads, NEW f \in Files, NEW h \in Handles, Flink(t, f, h)
       PROVE  BufInv'
  BY <1>33, <1>0 DEF HoldsObj, HoldsBuf, Flink, Lookup, Calls, Names, IsObj
<1>34. ASSUME NEW t \in Threads, NEW f \in Files, NEW h \in Handles, ToFd(t, f, h) PROVE BufInv'
  BY <1>34, <1>0 DEF HoldsObj, HoldsBuf, ToFd, Lookup, Calls, Names, IsObj
<1>35. ASSUME NEW t \in Threads, NEW f \in Files, NEW h \in Handles, AddFb(t, f, h)
       PROVE  BufInv'
  BY <1>35, <1>0 DEF HoldsObj, HoldsBuf, AddFb, Calls, Names, IsObj
<1>36. ASSUME NEW t \in Threads, NEW f \in Files, NEW b \in Bufs, FdToHandle(t, f, b)
       PROVE  BufInv'
  BY <1>36, <1>0 DEF HoldsObj, HoldsBuf, FdToHandle, Calls
<1>37. ASSUME NEW t \in Threads, NEW f \in Files, ReleaseFile(t, f) PROVE BufInv'
  BY <1>37, <1>0 DEF HoldsObj, HoldsBuf, ReleaseFile, Calls
<1>38. ASSUME NEW b \in Bufs, CloseFd(b) PROVE BufInv'
  BY <1>38, <1>0 DEF HoldsObj, HoldsBuf, CloseFd, BufPut
<1>39. ASSUME NEW o \in Objs, RmFb(o) PROVE BufInv'
  BY <1>39, <1>0 DEF HoldsObj, HoldsBuf, RmFb, ObjPut
<1> HIDE GemAssumption DEF TypeOK, LocalInv, Local, BufInv, File, Obj, Buf, Ok, Calling,
        NoCall, Locals, Goto, Return, objVars, bufVars, fileVars
<1> QED
  BY Zenon, <1>1, <1>2, <1>3, <1>4, <1>5, <1>6, <1>7, <1>8, <1>9, <1>10, <1>11, <1>12, <1>13, <1>14,
      <1>15, <1>16, <1>17, <1>18, <1>19, <1>20, <1>21, <1>21a, <1>22, <1>23, <1>24, <1>25, <1>26,
      <1>27, <1>28, <1>29, <1>30, <1>31, <1>32, <1>33, <1>34, <1>35, <1>36, <1>37, <1>38, <1>39 DEF Next, Step, Call

----------------------------------------------------------------------------
(* Reference counts: who takes and drops references in a step              *)

\* The references to objects that thread t, or dma-buf x, takes or drops.
ObjBalance(t, x) ==
  /\ OnlyThread(t)
  /\ \A c \in Bufs : c # x =>
       priv'[c] = priv[c] /\ (priv[c] # None => (bref'[c] > 0 <=> bref[c] > 0))
  /\ \A o \in Objs : ref'[o] =
       ref[o] + Bit(hc'[o] > 0) - Bit(hc[o] > 0) + Bit(o \in fb') - Bit(o \in fb)
       + Differ(x, Exports(o), Exports(o)') + Differ(t, Holders(o), Holders(o)')
       + Differ(t, TwiceHeld(o), TwiceHeld(o)')

\* The references to dma-bufs that thread t, object y (its dma_buf), object z (what
\* it was imported from) or the cache of file f for handle h takes or drops.
BufBalance(t, y, z, f, h) ==
  /\ OnlyThread(t)
  /\ \A o \in Objs : o # y => dbuf'[o] = dbuf[o]
  /\ \A o \in Objs : o # z =>
       attach'[o] = attach[o] /\ (attach[o] # None => (ref'[o] > 0 <=> ref[o] > 0))
  /\ \A g \in Files, k \in Handles, c \in Bufs : g # f \/ k # h =>
       (<<k, c>> \in cache'[g] <=> <<k, c>> \in cache[g])
  /\ \A b \in Bufs : bref'[b] =
       bref[b] + fds'[b] - fds[b] + lost'[b] - lost[b] + Differ(y, Exporters(b), Exporters(b)')
       + Differ(z, Importers(b), Importers(b)')
       + Differ(<<f, h>>, CachedFor(b), CachedFor(b)') + Differ(t, BufHolders(b), BufHolders(b)')

LEMMA Balanced ==
  ASSUME TypeOK, TypeOK', RefsExact, NEW t, NEW x, NEW y, NEW z, NEW f, NEW h,
         ObjBalance(t, x), BufBalance(t, y, z, f, h)
  PROVE  RefsExact'
<1>1. IsFiniteSet(Objs) /\ IsFiniteSet(Bufs) /\ IsFiniteSet(Threads) /\ IsFiniteSet(Files \X Handles)
  BY GemAssumption, FS_Product
<1>2. ASSUME NEW o \in Objs
      PROVE  ref'[o] = Bit(hc'[o] > 0) + Bit(o \in fb') + Num(Exports(o)') + Num(Holders(o)')
                       + Num(TwiceHeld(o)')
  <2>1. \A c : c # x => (c \in Exports(o) <=> c \in Exports(o)')
    BY GemAssumption DEF ObjBalance, Exports
  <2>2. /\ \A s : s # t => (s \in Holders(o) <=> s \in Holders(o)')
        /\ \A s : s # t => (s \in TwiceHeld(o) <=> s \in TwiceHeld(o)')
    BY DEF ObjBalance, OnlyThread, Holders, TwiceHeld, HoldsObj, Obj, Ok
  <2>3. /\ Exports(o) \subseteq Bufs /\ Holders(o) \subseteq Threads
        /\ TwiceHeld(o) \subseteq Threads
    BY DEF Exports, Holders, TwiceHeld
  <2>4. /\ Num(Exports(o)) \in Nat /\ Num(Exports(o)') \in Nat
        /\ Num(Exports(o)') = Num(Exports(o)) + Differ(x, Exports(o), Exports(o)')
    BY <1>1, <2>1, <2>3, CountDiffer
  <2>5. /\ Num(Holders(o)) \in Nat /\ Num(Holders(o)') \in Nat
        /\ Num(Holders(o)') = Num(Holders(o)) + Differ(t, Holders(o), Holders(o)')
    BY <1>1, <2>2, <2>3, CountDiffer
  <2>6. /\ Num(TwiceHeld(o)) \in Nat /\ Num(TwiceHeld(o)') \in Nat
        /\ Num(TwiceHeld(o)') = Num(TwiceHeld(o)) + Differ(t, TwiceHeld(o), TwiceHeld(o)')
    BY <1>1, <2>2, <2>3, CountDiffer
  <2>7. ref[o] = Bit(hc[o] > 0) + Bit(o \in fb) + Num(Exports(o)) + Num(Holders(o))
                 + Num(TwiceHeld(o))
    BY DEF RefsExact
  <2>8. ref'[o] = ref[o] + Bit(hc'[o] > 0) - Bit(hc[o] > 0) + Bit(o \in fb') - Bit(o \in fb)
          + Differ(x, Exports(o), Exports(o)') + Differ(t, Holders(o), Holders(o)')
          + Differ(t, TwiceHeld(o), TwiceHeld(o)')
    BY DEF ObjBalance
  <2> QED
    BY <2>4, <2>5, <2>6, <2>7, <2>8 DEF Bit, Differ
<1>3. ASSUME NEW b \in Bufs
      PROVE  bref'[b] = fds'[b] + lost'[b] + Num(Exporters(b)') + Num(Importers(b)') + Num(CachedFor(b)')
                        + Num(BufHolders(b)')
  <2>1. \A o : o # y => (o \in Exporters(b) <=> o \in Exporters(b)')
    BY DEF BufBalance, Exporters
  <2>2. \A o : o # z => (o \in Importers(b) <=> o \in Importers(b)')
    BY GemAssumption DEF BufBalance, Importers
  <2>3. \A s : s # t => (s \in BufHolders(b) <=> s \in BufHolders(b)')
    BY DEF BufBalance, OnlyThread, BufHolders, HoldsBuf, Buf
  <2>4. \A e : e # <<f, h>> => (e \in CachedFor(b) <=> e \in CachedFor(b)')
    <3>1. ASSUME NEW e \in Files \X Handles, e # <<f, h>>
          PROVE  <<e[2], b>> \in cache'[e[1]] <=> <<e[2], b>> \in cache[e[1]]
      BY <3>1 DEF BufBalance
    <3> QED
      BY <3>1 DEF CachedFor
  <2>5. /\ Exporters(b) \subseteq Objs /\ Importers(b) \subseteq Objs
        /\ CachedFor(b) \subseteq Files \X Handles /\ BufHolders(b) \subseteq Threads
    BY DEF Exporters, Importers, CachedFor, BufHolders
  <2>6. /\ Num(Exporters(b)) \in Nat /\ Num(Exporters(b)') \in Nat
        /\ Num(Exporters(b)') = Num(Exporters(b)) + Differ(y, Exporters(b), Exporters(b)')
    BY ZenonT(60), <1>1, <2>1, <2>5, CountDiffer
  <2>7. /\ Num(Importers(b)) \in Nat /\ Num(Importers(b)') \in Nat
        /\ Num(Importers(b)') = Num(Importers(b)) + Differ(z, Importers(b), Importers(b)')
    BY ZenonT(60), <1>1, <2>2, <2>5, CountDiffer
  <2>8. /\ Num(CachedFor(b)) \in Nat /\ Num(CachedFor(b)') \in Nat
        /\ Num(CachedFor(b)') = Num(CachedFor(b)) + Differ(<<f, h>>, CachedFor(b), CachedFor(b)')
    BY ZenonT(60), <1>1, <2>4, <2>5, CountDiffer
  <2>9. /\ Num(BufHolders(b)) \in Nat /\ Num(BufHolders(b)') \in Nat
        /\ Num(BufHolders(b)') = Num(BufHolders(b)) + Differ(t, BufHolders(b), BufHolders(b)')
    BY ZenonT(60), <1>1, <2>3, <2>5, CountDiffer
  <2>10. bref[b] = fds[b] + lost[b] + Num(Exporters(b)) + Num(Importers(b)) + Num(CachedFor(b))
                   + Num(BufHolders(b))
    BY DEF RefsExact
  <2>11. bref'[b] =
          bref[b] + fds'[b] - fds[b] + lost'[b] - lost[b] + Differ(y, Exporters(b), Exporters(b)')
          + Differ(z, Importers(b), Importers(b)')
          + Differ(<<f, h>>, CachedFor(b), CachedFor(b)') + Differ(t, BufHolders(b), BufHolders(b)')
    BY DEF BufBalance
  <2>12. fds[b] \in Nat /\ fds'[b] \in Nat /\ lost[b] \in Nat /\ lost'[b] \in Nat
    BY DEF TypeOK
  <2> QED
    BY <2>6, <2>7, <2>8, <2>9, <2>10, <2>11, <2>12 DEF Bit, Differ
<1> QED
  BY <1>2, <1>3 DEF RefsExact

\* Dropping a reference to a dma-buf: the last one is also the end of its reference
\* to the object it was exported from, which is not imported.
BufDropped(c) ==
  /\ \A o \in Objs : ref'[o] = ref[o] + Differ(c, Exports(o), Exports(o)')
  /\ \A o \in Objs : attach[o] # None => ref'[o] = ref[o]
  /\ bref'[c] = bref[c] - 1 /\ \A d \in Bufs : d # c => bref'[d] = bref[d]

LEMMA BufPutRefs ==
  ASSUME TypeOK, BufInv, RefsExact, NEW c \in Bufs, bref[c] > 0, BufPut(c), priv' = priv
  PROVE  BufDropped(c)
<1>1. bref[c] \in Nat /\ \A o \in Objs : ref[o] \in Nat
  BY ObjThere, BufThere
<1>2. bref'[c] = bref[c] - 1 /\ \A d \in Bufs : d # c => bref'[d] = bref[d]
  BY DEF BufPut, TypeOK
<1>3. ASSUME NEW o \in Objs
      PROVE  ref'[o] = ref[o] + Differ(c, Exports(o), Exports(o)')
  BY <1>1, <1>2, GemAssumption DEF BufPut, TypeOK, Differ, Bit, Exports
<1>4. ASSUME NEW o \in Objs, attach[o] # None PROVE ref'[o] = ref[o]
  BY <1>4 DEF BufPut, TypeOK, BufInv
<1> QED
  BY <1>2, <1>3, <1>4 DEF BufDropped

\* Dropping a reference to an object: the last one is also the end of its reference
\* to the dma-buf it was imported from, which was not exported here.
ObjDropped(p) ==
  /\ \A b \in Bufs : bref'[b] = bref[b] + Differ(p, Importers(b), Importers(b)')
  /\ \A b \in Bufs : priv[b] # None => bref'[b] = bref[b]
  /\ ref'[p] = ref[p] - 1 /\ \A q \in Objs : q # p => ref'[q] = ref[q]

LEMMA ObjPutRefs ==
  ASSUME TypeOK, BufInv, RefsExact, NEW p \in Objs, ref[p] > 0, ObjPut(p), attach' = attach
  PROVE  ObjDropped(p)
<1>1. ref[p] \in Nat /\ \A b \in Bufs : bref[b] \in Nat
  BY ObjThere, BufThere
<1>2. ref'[p] = ref[p] - 1 /\ \A q \in Objs : q # p => ref'[q] = ref[q]
  BY DEF ObjPut, TypeOK
<1>3. ASSUME NEW b \in Bufs
      PROVE  bref'[b] = bref[b] + Differ(p, Importers(b), Importers(b)')
  BY <1>1, <1>2, GemAssumption DEF ObjPut, TypeOK, Differ, Bit, Importers
<1>4. ASSUME NEW b \in Bufs, priv[b] # None PROVE bref'[b] = bref[b]
  BY <1>4 DEF ObjPut, TypeOK, BufInv
<1> QED
  BY <1>2, <1>3, <1>4 DEF ObjDropped

LEMMA RefsStep ==
  ASSUME IInv, TypeOK', Next PROVE RefsExact'
<1>0. /\ \A o \in Objs : /\ ref[o] \in Nat /\ (hc[o] > 0 \/ o \in fb \/ o \in name => ref[o] > 0)
      /\ \A f \in Files, h \in Handles : table[f][h] \in Objs => ref[table[f][h]] > 0
      /\ \A t \in Threads : pc[t] = "hput" => hc[Obj(t)] > 0
      /\ \A b \in Bufs : bref[b] \in Nat
  BY ObjThere, BufThere, HasHandle DEF TypeOK, IInv, LocalInv, Local, NothingLeft
<1> USE GemAssumption DEF IInv, TypeOK, LocalInv, Local, BufInv, File, Obj, Buf, Ok, Calling,
        NoCall, Locals, Goto, Return, objVars, bufVars, fileVars
<1>1. ASSUME NEW t \in Threads, NEW f \in Files, NEW o \in Objs, Create(t, f, o)
      PROVE  RefsExact'
  <2>1. \/ \E h \in Handles : Published(t, f, o, 1, "create", None, h)
        \/ Unpublished(t, f, o, 1, "create", None)
    BY <1>1, PublishCases DEF Create, Calls
  <2>2. CASE Unpublished(t, f, o, 1, "create", None)
    <3>1. ObjBalance(t, None)
      BY <1>1, <2>2, <1>0 DEF ObjBalance, Differ, Bit, OnlyThread, Exports, Holders,
           TwiceHeld, HoldsObj, Unpublished, Error, Create, Calls
    <3>2. BufBalance(t, None, None, None, 0)
      BY <1>1, <2>2, <1>0 DEF BufBalance, Differ, Bit, OnlyThread, Exporters, Importers,
           CachedFor, BufHolders, HoldsBuf, Unpublished, Error, Create, Calls
    <3> QED
      BY <3>1, <3>2, Balanced
  <2>3. ASSUME NEW h \in Handles, Published(t, f, o, 1, "create", None, h)
        PROVE  RefsExact'
    <3>1. ObjBalance(t, None)
      BY <1>1, <2>3, <1>0 DEF ObjBalance, Differ, Bit, OnlyThread, Exports, Holders,
           TwiceHeld, HoldsObj, Published, Create, Calls
    <3>2. BufBalance(t, None, None, None, 0)
      BY <1>1, <2>3, <1>0 DEF BufBalance, Differ, Bit, OnlyThread, Exporters, Importers,
           CachedFor, BufHolders, HoldsBuf, Published, Create, Calls
    <3> QED
      BY <3>1, <3>2, Balanced
  <2> QED
    BY <2>1, <2>2, <2>3
<1>2. ASSUME NEW t \in Threads, NEW f \in Files, NEW o \in Objs, OpenName(t, f, o)
      PROVE  RefsExact'
  <2>1. \/ \E h \in Handles : Published(t, f, o, ref[o] + 1, "open", None, h)
        \/ Unpublished(t, f, o, ref[o] + 1, "open", None)
    BY <1>2, PublishCases DEF OpenName, Calls
  <2>2. CASE Unpublished(t, f, o, ref[o] + 1, "open", None)
    <3>1. ObjBalance(t, None)
      BY <1>2, <2>2, <1>0 DEF ObjBalance, Differ, Bit, OnlyThread, Exports, Holders,
           TwiceHeld, HoldsObj, Unpublished, Error, OpenName, Calls
    <3>2. BufBalance(t, None, None, None, 0)
      BY <1>2, <2>2, <1>0 DEF BufBalance, Differ, Bit, OnlyThread, Exporters, Importers,
           CachedFor, BufHolders, HoldsBuf, Unpublished, Error, OpenName, Calls
    <3> QED
      BY <3>1, <3>2, Balanced
  <2>3. ASSUME NEW h \in Handles, Published(t, f, o, ref[o] + 1, "open", None, h)
        PROVE  RefsExact'
    <3>1. ObjBalance(t, None)
      BY <1>2, <2>3, <1>0 DEF ObjBalance, Differ, Bit, OnlyThread, Exports, Holders,
           TwiceHeld, HoldsObj, Published, OpenName, Calls
    <3>2. BufBalance(t, None, None, None, 0)
      BY <1>2, <2>3, <1>0 DEF BufBalance, Differ, Bit, OnlyThread, Exporters, Importers,
           CachedFor, BufHolders, HoldsBuf, Published, OpenName, Calls
    <3> QED
      BY <3>1, <3>2, Balanced
  <2> QED
    BY <2>1, <2>2, <2>3
<1>3. ASSUME NEW t \in Threads, NEW f \in Files, NEW o \in Objs, GetFb(t, f, o) PROVE RefsExact'
  <2>1. \/ \E h \in Handles : Published(t, f, o, ref[o] + 1, "getfb", None, h)
        \/ Unpublished(t, f, o, ref[o] + 1, "getfb", None)
    BY <1>3, PublishCases DEF GetFb, Calls
  <2>2. CASE Unpublished(t, f, o, ref[o] + 1, "getfb", None)
    <3>1. ObjBalance(t, None)
      BY <1>3, <2>2, <1>0 DEF ObjBalance, Differ, Bit, OnlyThread, Exports, Holders,
           TwiceHeld, HoldsObj, Unpublished, Error, GetFb, Calls
    <3>2. BufBalance(t, None, None, None, 0)
      BY <1>3, <2>2, <1>0 DEF BufBalance, Differ, Bit, OnlyThread, Exporters, Importers,
           CachedFor, BufHolders, HoldsBuf, Unpublished, Error, GetFb, Calls
    <3> QED
      BY <3>1, <3>2, Balanced
  <2>3. ASSUME NEW h \in Handles, Published(t, f, o, ref[o] + 1, "getfb", None, h)
        PROVE  RefsExact'
    <3>1. ObjBalance(t, None)
      BY <1>3, <2>3, <1>0 DEF ObjBalance, Differ, Bit, OnlyThread, Exports, Holders,
           TwiceHeld, HoldsObj, Published, GetFb, Calls
    <3>2. BufBalance(t, None, None, None, 0)
      BY <1>3, <2>3, <1>0 DEF BufBalance, Differ, Bit, OnlyThread, Exporters, Importers,
           CachedFor, BufHolders, HoldsBuf, Published, GetFb, Calls
    <3> QED
      BY <3>1, <3>2, Balanced
  <2> QED
    BY <2>1, <2>2, <2>3
<1>4. ASSUME NEW t \in Threads, ImportOwn(t) PROVE RefsExact'
  <2>0. PICK f \in Files, o \in Objs, b \in Bufs : OwnTaken(t, f, o, b) /\ OwnEnds(t, f, o, b)
    BY <1>4, ImportOwnCases
  <2>1. OwnTaken(t, f, o, b)
    BY <2>0
  <2>2. CASE Unpublished(t, f, o, ref[o] + 1, "import", b)
    <3>1. b \in Bufs /\ bref[b] > 0 /\ o \in Objs /\ ref[o] > 0
      <4>1. b \in Bufs /\ HoldsBuf(t, b) /\ o \in Objs
        BY SMTT(20), <2>1, <2>2 DEF HoldsBuf, Unpublished, Error, OwnTaken
      <4>2. Buf(t) = b /\ priv[b] = o
        BY <2>1 DEF OwnTaken
      <4>3. IInv /\ TypeOK /\ RefsExact
        BY DEF IInv
      <4> HIDE GemAssumption DEF IInv, TypeOK, LocalInv, Buf
      <4> QED
        BY <4>1, <4>2, <4>3, HeldBuf, ObjThere
    <3>2. ObjBalance(t, None)
      BY SMTT(60), <2>1, <2>2, <3>1, <1>0 DEF ObjBalance, Differ, Bit, OnlyThread, Exports, Holders,
           TwiceHeld, HoldsObj, Unpublished, Error, OwnTaken
    <3>3. BufBalance(t, o, None, None, 0)
      BY SMTT(60), <2>1, <2>2, <3>1, <1>0 DEF BufBalance, Differ, Bit, OnlyThread, Exporters, Importers,
           CachedFor, BufHolders, HoldsBuf, Unpublished, Error, OwnTaken
    <3> QED
      BY <3>2, <3>3, Balanced
  <2>3. ASSUME NEW h \in Handles, Published(t, f, o, ref[o] + 1, "import", b, h)
        PROVE  RefsExact'
    <3>1. b \in Bufs /\ bref[b] > 0 /\ o \in Objs /\ ref[o] > 0
      <4>1. b \in Bufs /\ HoldsBuf(t, b) /\ o \in Objs
        BY <2>1, <2>3 DEF HoldsBuf, Published, OwnTaken
      <4>2. Buf(t) = b /\ priv[b] = o
        BY <2>1 DEF OwnTaken
      <4>3. IInv /\ TypeOK /\ RefsExact
        BY DEF IInv
      <4> HIDE GemAssumption DEF IInv, TypeOK, LocalInv, Buf
      <4> QED
        BY <4>1, <4>2, <4>3, HeldBuf, ObjThere
    <3>2. ObjBalance(t, None)
      <4>1. OnlyThread(t)
        BY SMTT(60), <2>1, <2>3, <3>1 DEF OnlyThread, Published, OwnTaken
      <4>2. \A c \in Bufs : priv'[c] = priv[c] /\ (bref'[c] > 0 <=> bref[c] > 0)
        BY SMTT(60), <2>1, <2>3, <3>1, <1>0 DEF Published, OwnTaken
      <4>3. ASSUME NEW p \in Objs
            PROVE  ref'[p] = ref[p] + Bit(hc'[p] > 0) - Bit(hc[p] > 0) + Bit(p \in fb') - Bit(p \in fb)
                     + Differ(None, Exports(p), Exports(p)') + Differ(t, Holders(p), Holders(p)')
                     + Differ(t, TwiceHeld(p), TwiceHeld(p)')
        BY SMTT(60), <2>1, <2>3, <3>1, <1>0 DEF Differ, Bit, Exports, Holders, TwiceHeld, HoldsObj,
             Published, OwnTaken
      <4> QED
        BY SMTT(20), <4>1, <4>2, <4>3 DEF ObjBalance
    <3>3. BufBalance(t, o, None, None, 0)
      BY SMTT(60), <2>1, <2>3, <3>1, <1>0 DEF BufBalance, Differ, Bit, OnlyThread, Exporters, Importers,
           CachedFor, BufHolders, HoldsBuf, Published, OwnTaken
    <3> QED
      BY <3>2, <3>3, Balanced
  <2> QED
    BY <2>0, <2>2, <2>3 DEF OwnEnds
<1>5. ASSUME NEW t \in Threads, NEW o \in Objs, ImportForeign(t, o) PROVE RefsExact'
  <2>1. \/ \E h \in Handles : Published(t, File(t), o, 1, "import", Buf(t), h)
        \/ Unpublished(t, File(t), o, 1, "import", Buf(t))
    BY <1>5, PublishCases DEF ImportForeign, Imports
  <2>2. CASE Unpublished(t, File(t), o, 1, "import", Buf(t))
    <3>1. ObjBalance(t, None)
      BY <1>5, <2>2, <1>0 DEF ObjBalance, Differ, Bit, OnlyThread, Exports, Holders,
           TwiceHeld, HoldsObj, Unpublished, Error, ImportForeign, Imports
    <3>2. BufBalance(t, o, o, None, 0)
      BY SMTT(40), <1>5, <2>2, <1>0 DEF BufBalance, Differ, Bit, OnlyThread, Exporters, Importers,
           CachedFor, BufHolders, HoldsBuf, Unpublished, Error, ImportForeign, Imports
    <3> QED
      BY <3>1, <3>2, Balanced
  <2>3. ASSUME NEW h \in Handles, Published(t, File(t), o, 1, "import", Buf(t), h)
        PROVE  RefsExact'
    <3>1. ObjBalance(t, None)
      BY <1>5, <2>3, <1>0 DEF ObjBalance, Differ, Bit, OnlyThread, Exports, Holders,
           TwiceHeld, HoldsObj, Published, ImportForeign, Imports
    <3>2. BufBalance(t, o, o, None, 0)
      BY <1>5, <2>3, <1>0 DEF BufBalance, Differ, Bit, OnlyThread, Exporters, Importers,
           CachedFor, BufHolders, HoldsBuf, Published, ImportForeign, Imports
    <3> QED
      BY <3>1, <3>2, Balanced
  <2> QED
    BY <2>1, <2>2, <2>3
<1>6. ASSUME NEW t \in Threads, OpenFails(t) PROVE RefsExact'
  <2>1. ObjBalance(t, None)
    BY <1>6, <1>0 DEF ObjBalance, Differ, Bit, OnlyThread, Exports, Holders, TwiceHeld,
         HoldsObj, OpenFails, AfterRemove, Error
  <2>2. BufBalance(t, None, None, None, 0)
    BY <1>6, <1>0 DEF BufBalance, Differ, Bit, OnlyThread, Exporters, Importers, CachedFor,
         BufHolders, HoldsBuf, OpenFails, AfterRemove, Error
  <2> QED
    BY <2>1, <2>2, Balanced
<1>7. ASSUME NEW t \in Threads, PutObj(t) PROVE RefsExact'
  <2>1. ObjDropped(Obj(t))
    <3>1. Obj(t) \in Objs /\ ObjPut(Obj(t)) /\ attach' = attach /\ HoldsObj(t, Obj(t))
      BY <1>7 DEF HoldsObj, PutObj, ObjPut
    <3>2. ref[Obj(t)] > 0
      BY <3>1, ObjThere
    <3> QED
      BY <3>1, <3>2, ObjPutRefs
  <2>2. ObjBalance(t, None)
    BY <1>7, <2>1, <1>0 DEF ObjBalance, Differ, Bit, OnlyThread, ObjDropped, Exports, Holders,
         TwiceHeld, HoldsObj, PutObj
  <2>3. BufBalance(t, None, Obj(t), None, 0)
    BY <1>7, <2>1, <1>0 DEF BufBalance, Differ, Bit, OnlyThread, Exporters, ObjDropped,
         CachedFor, BufHolders, HoldsBuf, PutObj
  <2> QED
    BY <2>2, <2>3, Balanced
<1>8. ASSUME NEW t \in Threads, Uncache(t) PROVE RefsExact'
  <2>0. PICK m \in Members(File(t), w[t].h) :
          cache' = [cache EXCEPT ![File(t)] = @ \ {m}] /\ BufPut(m[2])
    BY <1>8 DEF Uncache
  <2>1. /\ pc[t] = "uncache" /\ File(t) \in Files /\ w[t].h \in Handles
        /\ pc' = [pc EXCEPT ![t] = "hput"] /\ Ok(t)
        /\ UNCHANGED <<hc, dbuf, attach, fb, priv, fds, lost, w>>
    BY <1>8, <2>0 DEF Uncache
  <2>2. m \in cache[File(t)] /\ m[1] = w[t].h
    BY <2>0 DEF Members
  <2>3. m[2] \in Bufs /\ bref[m[2]] > 0 /\ m = <<w[t].h, m[2]>>
    BY <2>1, <2>2, CachedBuf
  <2>4. BufDropped(m[2])
    BY <2>0, <2>1, <2>3, BufPutRefs
  <2>5. ObjBalance(t, m[2])
    BY <2>1, <2>4, <1>0 DEF ObjBalance, Differ, Bit, OnlyThread, BufDropped, Holders,
         TwiceHeld, HoldsObj
  <2>6. \A g \in Files, k \in Handles, c \in Bufs :
          <<k, c>> \in cache'[g] <=>
            <<k, c>> \in cache[g] /\ ~(g = File(t) /\ k = w[t].h /\ c = m[2])
    <3>1. /\ cache'[File(t)] = cache[File(t)] \ {<<w[t].h, m[2]>>}
          /\ \A g \in Files : g # File(t) => cache'[g] = cache[g]
      BY ZenonT(60), <2>0, <2>1, <2>3
    <3>2. \A k \in Handles, c \in Bufs : <<k, c>> = <<w[t].h, m[2]>> <=> k = w[t].h /\ c = m[2]
      OBVIOUS
    <3> HIDE DEF TypeOK, IInv, LocalInv
    <3> QED
      BY <3>1, <3>2
  <2>7. BufBalance(t, None, None, File(t), w[t].h)
    <3>1. ASSUME NEW b \in Bufs
          PROVE  /\ bref'[b] = bref[b] + Differ(<<File(t), w[t].h>>, CachedFor(b), CachedFor(b)')
                 /\ BufHolders(b)' = BufHolders(b) /\ Exporters(b)' = Exporters(b)
                 /\ None \notin Exporters(b) /\ None \notin Importers(b) /\ None \notin Importers(b)'
      <4>1. <<File(t), w[t].h>> \in CachedFor(b) <=> <<w[t].h, b>> \in cache[File(t)]
        BY <2>1 DEF CachedFor
      <4>2. <<File(t), w[t].h>> \in CachedFor(b)' <=> <<w[t].h, b>> \in cache'[File(t)]
        BY <2>1 DEF CachedFor
      <4>3. bref'[b] = bref[b] + Differ(<<File(t), w[t].h>>, CachedFor(b), CachedFor(b)')
        <5>1. bref[b] \in Nat /\ w[t].h \in Handles /\ File(t) \in Files
          BY <1>0, <2>1
        <5>2. bref'[b] = IF b = m[2] THEN bref[b] - 1 ELSE bref[b]
          BY <2>4 DEF BufDropped
        <5>3. <<w[t].h, b>> \in cache'[File(t)] <=> <<w[t].h, b>> \in cache[File(t)] /\ b # m[2]
          BY ZenonT(60), <2>6, <5>1
        <5>4. <<w[t].h, m[2]>> \in cache[File(t)]
          BY <2>2, <2>3
        <5> HIDE GemAssumption DEF TypeOK, IInv, LocalInv
        <5> QED
          BY <4>1, <4>2, <5>1, <5>2, <5>3, <5>4 DEF Differ, Bit
      <4> QED
        BY <2>1, <4>3 DEF BufHolders, HoldsBuf, Exporters, Importers
    <3>2. OnlyThread(t) /\ \A b \in Bufs : bref[b] \in Nat /\ fds[b] \in Nat /\ lost[b] \in Nat
      BY <1>0, <2>1 DEF OnlyThread
    <3>3. /\ dbuf' = dbuf /\ fds' = fds /\ lost' = lost
          /\ \A o \in Objs : attach'[o] = attach[o] /\ (attach[o] # None => ref'[o] = ref[o])
      BY <2>1, <2>4 DEF BufDropped
    <3>4. \A g \in Files, k \in Handles, c \in Bufs : g # File(t) \/ k # w[t].h =>
            (<<k, c>> \in cache'[g] <=> <<k, c>> \in cache[g])
      BY <2>6
    <3> HIDE GemAssumption DEF TypeOK, IInv, LocalInv
    <3>5. ASSUME NEW b \in Bufs
          PROVE  bref'[b] =
                   bref[b] + fds'[b] - fds[b] + lost'[b] - lost[b] + Differ(None, Exporters(b), Exporters(b)')
                   + Differ(None, Importers(b), Importers(b)')
                   + Differ(<<File(t), w[t].h>>, CachedFor(b), CachedFor(b)')
                   + Differ(t, BufHolders(b), BufHolders(b)')
      BY <3>1, <3>2, <3>3 DEF Differ, Bit
    <3> QED
      BY <3>2, <3>3, <3>4, <3>5 DEF BufBalance
  <2> QED
    BY <2>5, <2>7, Balanced
<1>9. ASSUME NEW t \in Threads, UncacheNothing(t) PROVE RefsExact'
  <2>1. ObjBalance(t, None)
    BY <1>9, <1>0 DEF ObjBalance, Differ, Bit, OnlyThread, Exports, Holders, TwiceHeld,
         HoldsObj, UncacheNothing, Members
  <2>2. BufBalance(t, None, None, None, 0)
    BY <1>9, <1>0 DEF BufBalance, Differ, Bit, OnlyThread, Exporters, Importers, CachedFor,
         BufHolders, HoldsBuf, UncacheNothing, Members
  <2> QED
    BY <2>1, <2>2, Balanced
<1>10. ASSUME NEW t \in Threads, HandlePut(t) PROVE RefsExact'
  <2>1. ObjBalance(t, None)
    BY <1>10, <1>0 DEF ObjBalance, Differ, Bit, OnlyThread, Exports, Holders, TwiceHeld,
         HoldsObj, HandlePut, AfterPut
  <2>2. BufBalance(t, None, None, None, 0)
    BY <1>10, <1>0 DEF BufBalance, Differ, Bit, OnlyThread, Exporters, Importers, CachedFor,
         BufHolders, HoldsBuf, HandlePut, AfterPut
  <2> QED
    BY <2>1, <2>2, Balanced
<1>11. ASSUME NEW t \in Threads, LastHandlePut(t) PROVE RefsExact'
  <2>1. /\ pc[t] = "hput" /\ Obj(t) \in Objs /\ hc[Obj(t)] = 1 /\ hc' = [hc EXCEPT ![Obj(t)] = 0]
        /\ dbuf' = [dbuf EXCEPT ![Obj(t)] = None] /\ pc' = [pc EXCEPT ![t] = "final"]
        /\ UNCHANGED <<attach, fb, priv, fds, lost, cache, w>>
    BY <1>11 DEF LastHandlePut
  <2>2. CASE dbuf[Obj(t)] = None
    <3>1. ref' = ref /\ bref' = bref
      BY <1>11, <2>2 DEF LastHandlePut
    <3>2. ObjBalance(t, None)
      BY <2>1, <2>2, <3>1, <1>0 DEF ObjBalance, Differ, Bit, OnlyThread, Exports, Holders,
           TwiceHeld, HoldsObj
    <3>3. BufBalance(t, Obj(t), None, None, 0)
      BY <2>1, <2>2, <3>1, <1>0 DEF BufBalance, Differ, Bit, OnlyThread, Exporters, Importers,
           CachedFor, BufHolders, HoldsBuf
    <3> QED
      BY <3>2, <3>3, Balanced
  <2>3. CASE dbuf[Obj(t)] # None
    <3>1. dbuf[Obj(t)] \in Bufs /\ BufPut(dbuf[Obj(t)])
      BY <1>11, <2>1, <2>3 DEF LastHandlePut
    <3>2. bref[dbuf[Obj(t)]] > 0
      BY <2>1, <3>1, BufThere
    <3>3. BufDropped(dbuf[Obj(t)])
      BY <2>1, <3>1, <3>2, BufPutRefs
    <3>4. ObjBalance(t, dbuf[Obj(t)])
      BY <2>1, <3>3, <1>0 DEF ObjBalance, Differ, Bit, OnlyThread, BufDropped, Holders,
           TwiceHeld, HoldsObj
    <3>5. BufBalance(t, Obj(t), None, None, 0)
      BY <2>1, <2>3, <3>1, <3>3, <1>0 DEF BufBalance, Differ, Bit, OnlyThread, BufDropped,
           Exporters, Importers, CachedFor, BufHolders, HoldsBuf
    <3> QED
      BY <3>4, <3>5, Balanced
  <2> QED
    BY <2>2, <2>3
<1>12. ASSUME NEW t \in Threads, FinalPut(t) PROVE RefsExact'
  <2>1. ObjDropped(Obj(t))
    <3>1. Obj(t) \in Objs /\ ObjPut(Obj(t)) /\ attach' = attach /\ HoldsObj(t, Obj(t))
      BY <1>12 DEF HoldsObj, FinalPut, ObjPut, AfterPut
    <3>2. ref[Obj(t)] > 0
      BY <3>1, ObjThere
    <3> QED
      BY <3>1, <3>2, ObjPutRefs
  <2>2. ObjBalance(t, None)
    BY <1>12, <2>1, <1>0 DEF ObjBalance, Differ, Bit, OnlyThread, ObjDropped, Exports,
         Holders, TwiceHeld, HoldsObj, FinalPut, AfterPut
  <2>3. BufBalance(t, None, Obj(t), None, 0)
    BY <1>12, <2>1, <1>0 DEF BufBalance, Differ, Bit, OnlyThread, Exporters, ObjDropped,
         CachedFor, BufHolders, HoldsBuf, FinalPut, AfterPut
  <2> QED
    BY <2>2, <2>3, Balanced
<1>13. ASSUME NEW t \in Threads, Unreserve(t) PROVE RefsExact'
  <2>1. ObjBalance(t, None)
    BY <1>13, <1>0 DEF ObjBalance, Differ, Bit, OnlyThread, Exports, Holders, TwiceHeld,
         HoldsObj, Unreserve
  <2>2. BufBalance(t, None, None, None, 0)
    BY <1>13, <1>0 DEF BufBalance, Differ, Bit, OnlyThread, Exporters, Importers, CachedFor,
         BufHolders, HoldsBuf, Unreserve
  <2> QED
    BY <2>1, <2>2, Balanced
<1>14. ASSUME NEW t \in Threads, Released(t) PROVE RefsExact'
  <2>1. ObjBalance(t, None)
    BY <1>14, <1>0 DEF ObjBalance, Differ, Bit, OnlyThread, Exports, Holders, TwiceHeld,
         HoldsObj, Released
  <2>2. BufBalance(t, None, None, None, 0)
    BY <1>14, <1>0 DEF BufBalance, Differ, Bit, OnlyThread, Exporters, Importers, CachedFor,
         BufHolders, HoldsBuf, Released
  <2> QED
    BY <2>1, <2>2, Balanced
<1>15. ASSUME NEW t \in Threads, NEW h \in Handles, ReleaseHandle(t, h) PROVE RefsExact'
  <2>1. ObjBalance(t, None)
    BY <1>15, <1>0 DEF ObjBalance, Differ, Bit, OnlyThread, Exports, Holders, TwiceHeld,
         HoldsObj, ReleaseHandle, IsObj
  <2>2. BufBalance(t, None, None, None, 0)
    BY <1>15, <1>0 DEF BufBalance, Differ, Bit, OnlyThread, Exporters, Importers, CachedFor,
         BufHolders, HoldsBuf, ReleaseHandle, IsObj
  <2> QED
    BY <2>1, <2>2, Balanced
<1>16. ASSUME NEW t \in Threads, FlinkName(t) PROVE RefsExact'
  <2>1. ObjBalance(t, None)
    BY <1>16, <1>0 DEF ObjBalance, Differ, Bit, OnlyThread, Exports, Holders, TwiceHeld,
         HoldsObj, FlinkName, HasHandles
  <2>2. BufBalance(t, None, None, None, 0)
    BY <1>16, <1>0 DEF BufBalance, Differ, Bit, OnlyThread, Exporters, Importers, CachedFor,
         BufHolders, HoldsBuf, FlinkName, HasHandles
  <2> QED
    BY <2>1, <2>2, Balanced
<1>17. ASSUME NEW t \in Threads, ToFdCached(t) PROVE RefsExact'
  <2>1. \A m \in Cached(t) : m[2] \in Bufs /\ bref[m[2]] > 0
    BY <1>17, CachedBuf DEF ToFdCached, Cached, Members
  <2>2. ObjBalance(t, None)
    BY <1>17, <2>1, <1>0 DEF ObjBalance, Differ, Bit, OnlyThread, Exports, Holders, TwiceHeld,
         HoldsObj, ToFdCached, Cached, Members
  <2>3. BufBalance(t, None, None, None, 0)
    BY <1>17, <2>1, <1>0 DEF BufBalance, Differ, Bit, OnlyThread, Exporters, Importers,
         CachedFor, BufHolders, HoldsBuf, ToFdCached, Cached, Members
  <2> QED
    BY <2>2, <2>3, Balanced
<1>18. ASSUME NEW t \in Threads, NEW b \in Bufs, ToFdKnown(t, b) PROVE RefsExact'
  <2>1. bref[b] > 0
    <3>1. Obj(t) \in Objs /\ HoldsObj(t, Obj(t))
      BY <1>18 DEF HoldsObj, ToFdKnown, IsKnown, CacheAdd, CacheRefs, Cached, Members
    <3>2. ref[Obj(t)] > 0
      BY <3>1, ObjThere
    <3> QED
      BY <1>18, <3>1, <3>2, BufThere DEF Known, ToFdKnown, IsKnown, CacheAdd, CacheRefs,
           Cached, Members
  <2>2. ObjBalance(t, None)
    BY <1>18, <2>1, <1>0 DEF ObjBalance, Differ, Bit, OnlyThread, Exports, Holders, TwiceHeld,
         HoldsObj, ToFdKnown, IsKnown, CacheAdd, CacheRefs, Cached, Members
  <2>3. BufBalance(t, None, None, File(t), w[t].h)
    BY <1>18, <2>1, <1>0 DEF BufBalance, Differ, Bit, OnlyThread, Exporters, Importers,
         CachedFor, BufHolders, HoldsBuf, ToFdKnown, IsKnown, CacheAdd, CacheRefs, Cached,
         Members
  <2> QED
    BY SMTT(20), <2>2, <2>3, Balanced
<1>19. ASSUME NEW t \in Threads, NEW b \in Bufs, ToFdUncached(t, b) PROVE RefsExact'
  <2>1. bref[b] > 0
    <3>1. Obj(t) \in Objs /\ HoldsObj(t, Obj(t))
      BY <1>19 DEF HoldsObj, ToFdUncached, IsKnown
    <3>2. ref[Obj(t)] > 0
      BY <3>1, ObjThere
    <3> QED
      BY <1>19, <3>1, <3>2, BufThere DEF Known, ToFdUncached, IsKnown
  <2>2. ObjBalance(t, None)
    BY <1>19, <2>1, <1>0 DEF ObjBalance, Differ, Bit, OnlyThread, Exports, Holders, TwiceHeld,
         HoldsObj, ToFdUncached, IsKnown
  <2>3. BufBalance(t, None, None, None, 0)
    BY <1>19, <2>1, <1>0 DEF BufBalance, Differ, Bit, OnlyThread, Exporters, Importers,
         CachedFor, BufHolders, HoldsBuf, ToFdUncached, IsKnown
  <2> QED
    BY <2>2, <2>3, Balanced
<1>20. ASSUME NEW t \in Threads, ExportFails(t) PROVE RefsExact'
  <2>1. ObjBalance(t, None)
    BY <1>20, <1>0 DEF ObjBalance, Differ, Bit, OnlyThread, Exports, Holders, TwiceHeld,
         HoldsObj, ExportFails, MayExport
  <2>2. BufBalance(t, None, None, None, 0)
    BY <1>20, <1>0 DEF BufBalance, Differ, Bit, OnlyThread, Exporters, Importers, CachedFor,
         BufHolders, HoldsBuf, ExportFails, MayExport
  <2> QED
    BY <2>1, <2>2, Balanced
<1>21. ASSUME NEW t \in Threads, InstallFd(t) PROVE RefsExact'
  <2>1. ObjBalance(t, None)
    BY <1>21, <1>0 DEF ObjBalance, Differ, Bit, OnlyThread, Exports, Holders, TwiceHeld,
         HoldsObj, AsksFd, InstallFd
  <2>2. BufBalance(t, None, None, None, 0)
    BY <1>21, <1>0 DEF BufBalance, Differ, Bit, OnlyThread, Exporters, Importers, CachedFor,
         BufHolders, HoldsBuf, AsksFd, InstallFd
  <2> QED
    BY <2>1, <2>2, Balanced
<1>21a. ASSUME NEW t \in Threads, FdFails(t) PROVE RefsExact'
  <2>1. ObjBalance(t, None)
    BY <1>21a, <1>0 DEF ObjBalance, Differ, Bit, OnlyThread, Exports, Holders, TwiceHeld,
         HoldsObj, AsksFd, FdFails
  <2>2. BufBalance(t, None, None, None, 0)
    BY <1>21a, <1>0 DEF BufBalance, Differ, Bit, OnlyThread, Exporters, Importers, CachedFor,
         BufHolders, HoldsBuf, AsksFd, FdFails
  <2> QED
    BY <2>1, <2>2, Balanced
<1>22. ASSUME NEW t \in Threads, PutUncached(t) PROVE RefsExact'
  <2>1. BufDropped(Buf(t))
    <3>1. Buf(t) \in Bufs /\ BufPut(Buf(t)) /\ priv' = priv /\ HoldsBuf(t, Buf(t))
      BY <1>22 DEF HoldsBuf, PutUncached, BufPut
    <3>2. bref[Buf(t)] > 0
      BY <1>22, <3>1, HeldBuf
    <3> QED
      BY <3>1, <3>2, BufPutRefs
  <2>2. ObjBalance(t, Buf(t))
    BY <1>22, <2>1, <1>0 DEF ObjBalance, Differ, Bit, OnlyThread, BufDropped, Holders,
         TwiceHeld, HoldsObj, PutUncached
  <2>3. BufBalance(t, None, None, None, 0)
    BY <1>22, <2>1, <1>0 DEF BufBalance, Differ, Bit, OnlyThread, BufDropped, Exporters,
         Importers, CachedFor, BufHolders, HoldsBuf, PutUncached
  <2> QED
    BY <2>2, <2>3, Balanced
<1>23. ASSUME NEW t \in Threads, NEW b \in Bufs, Export(t, b) PROVE RefsExact'
  <2>1. dbuf[Obj(t)] = None /\ bref[b] = 0
    BY <1>23 DEF Known, Export, HasHandles, Exported, MayExport, CacheAdd, CacheRefs, Cached,
         Members
  <2>2. ObjBalance(t, b)
    BY <1>23, <2>1, <1>0 DEF ObjBalance, Differ, Bit, OnlyThread, Exports, Holders, TwiceHeld,
         HoldsObj, Export, HasHandles, Exported, MayExport, CacheAdd, CacheRefs, Cached,
         Members
  <2>3. BufBalance(t, Obj(t), None, File(t), w[t].h)
    BY <1>23, <2>1, <1>0 DEF BufBalance, Differ, Bit, OnlyThread, Exporters, Importers,
         CachedFor, BufHolders, HoldsBuf, Export, HasHandles, Exported, MayExport, CacheAdd,
         CacheRefs, Cached, Members
  <2> QED
    BY <2>2, <2>3, Balanced
<1>24. ASSUME NEW t \in Threads, NEW b \in Bufs, ExportUncached(t, b) PROVE RefsExact'
  <2>1. dbuf[Obj(t)] = None /\ bref[b] = 0
    BY <1>24 DEF Known, ExportUncached, HasHandles, Exported, MayExport
  <2>2. ObjBalance(t, b)
    BY <1>24, <2>1, <1>0 DEF ObjBalance, Differ, Bit, OnlyThread, Exports, Holders, TwiceHeld,
         HoldsObj, ExportUncached, HasHandles, Exported, MayExport
  <2>3. BufBalance(t, Obj(t), None, None, 0)
    BY <1>24, <2>1, <1>0 DEF BufBalance, Differ, Bit, OnlyThread, Exporters, Importers,
         CachedFor, BufHolders, HoldsBuf, ExportUncached, HasHandles, Exported, MayExport
  <2> QED
    BY <2>2, <2>3, Balanced
<1>25. ASSUME NEW t \in Threads, ImportSeen(t) PROVE RefsExact'
  <2>1. ObjBalance(t, None)
    BY <1>25, <1>0 DEF ObjBalance, Differ, Bit, OnlyThread, Exports, Holders, TwiceHeld,
         HoldsObj, ImportSeen
  <2>2. BufBalance(t, None, None, None, 0)
    BY <1>25, <1>0 DEF BufBalance, Differ, Bit, OnlyThread, Exporters, Importers, CachedFor,
         BufHolders, HoldsBuf, ImportSeen
  <2> QED
    BY <2>1, <2>2, Balanced
<1>26. ASSUME NEW t \in Threads, ImportFails(t) PROVE RefsExact'
  <2>1. ObjBalance(t, None)
    BY <1>26, <1>0 DEF ObjBalance, Differ, Bit, OnlyThread, Exports, Holders, TwiceHeld,
         HoldsObj, ImportFails, Imports
  <2>2. BufBalance(t, None, None, None, 0)
    BY <1>26, <1>0 DEF BufBalance, Differ, Bit, OnlyThread, Exporters, Importers, CachedFor,
         BufHolders, HoldsBuf, ImportFails, Imports
  <2> QED
    BY <2>1, <2>2, Balanced
<1>27. ASSUME NEW t \in Threads, ImportCache(t) PROVE RefsExact'
  <2>1. Buf(t) \in Bufs /\ bref[Buf(t)] > 0
    <3>1. Buf(t) \in Bufs /\ HoldsBuf(t, Buf(t))
      BY <1>27 DEF HoldsBuf, ImportCache, CacheAdd, CacheRefs, NotCached, Fresh, WillCache, Members
    <3> QED
      BY <3>1, HeldBuf
  <2>2. ObjBalance(t, None)
    BY <1>27, <2>1, <1>0 DEF ObjBalance, Differ, Bit, OnlyThread, Exports, Holders, TwiceHeld,
         HoldsObj, ImportCache, CacheAdd, CacheRefs, NotCached, Fresh, WillCache, Members
  <2>3. BufBalance(t, None, None, File(t), w[t].h)
    BY <1>27, <2>1, <1>0 DEF BufBalance, Differ, Bit, OnlyThread, Exporters, Importers,
         CachedFor, BufHolders, HoldsBuf, ImportCache, CacheAdd, CacheRefs, NotCached,
         Fresh, WillCache, Members
  <2> QED
    BY <2>2, <2>3, Balanced
<1>28. ASSUME NEW t \in Threads, ImportNoCache(t) PROVE RefsExact'
  <2>1. ObjBalance(t, None)
    BY <1>28, <1>0 DEF ObjBalance, Differ, Bit, OnlyThread, Exports, Holders, TwiceHeld,
         HoldsObj, ImportNoCache
  <2>2. BufBalance(t, None, None, None, 0)
    BY <1>28, <1>0 DEF BufBalance, Differ, Bit, OnlyThread, Exporters, Importers, CachedFor,
         BufHolders, HoldsBuf, ImportNoCache
  <2> QED
    BY <2>1, <2>2, Balanced
<1>29. ASSUME NEW t \in Threads, ImportDelete(t) PROVE RefsExact'
  <2>0. PICK f \in Files, h \in Handles, o \in Objs : DeleteTakes(t, f, h, o)
    BY <1>29, ImportDeleteCases
  <2>1. ObjBalance(t, None)
    BY <2>0, <1>0 DEF ObjBalance, Differ, Bit, OnlyThread, Exports, Holders, TwiceHeld,
         HoldsObj, DeleteTakes
  <2>2. BufBalance(t, None, None, None, 0)
    BY <2>0, <1>0 DEF BufBalance, Differ, Bit, OnlyThread, Exporters, Importers, CachedFor,
         BufHolders, HoldsBuf, DeleteTakes
  <2> QED
    BY <2>1, <2>2, Balanced
<1>30. ASSUME NEW t \in Threads, ImportDeleted(t) PROVE RefsExact'
  <2>1. ObjBalance(t, None)
    BY <1>30, <1>0 DEF ObjBalance, Differ, Bit, OnlyThread, Exports, Holders, TwiceHeld,
         HoldsObj, ImportDeleted
  <2>2. BufBalance(t, None, None, None, 0)
    BY <1>30, <1>0 DEF BufBalance, Differ, Bit, OnlyThread, Exporters, Importers, CachedFor,
         BufHolders, HoldsBuf, ImportDeleted
  <2> QED
    BY <2>1, <2>2, Balanced
<1>31. ASSUME NEW t \in Threads, ImportPut(t) PROVE RefsExact'
  <2>1. BufDropped(Buf(t))
    <3>1. Buf(t) \in Bufs /\ BufPut(Buf(t)) /\ priv' = priv /\ HoldsBuf(t, Buf(t))
      BY <1>31 DEF HoldsBuf, ImportPut, BufPut
    <3>2. bref[Buf(t)] > 0
      BY <1>31, <3>1, HeldBuf
    <3> QED
      BY <3>1, <3>2, BufPutRefs
  <2>2. ObjBalance(t, Buf(t))
    BY <1>31, <2>1, <1>0 DEF ObjBalance, Differ, Bit, OnlyThread, BufDropped, Holders,
         TwiceHeld, HoldsObj, ImportPut
  <2>3. BufBalance(t, None, None, None, 0)
    BY <1>31, <2>1, <1>0 DEF BufBalance, Differ, Bit, OnlyThread, BufDropped, Exporters,
         Importers, CachedFor, BufHolders, HoldsBuf, ImportPut
  <2> QED
    BY <2>2, <2>3, Balanced
<1>32. ASSUME NEW t \in Threads, NEW f \in Files, NEW h \in Handles, Close(t, f, h)
       PROVE  RefsExact'
  <2>1. ObjBalance(t, None)
    BY <1>32, <1>0 DEF ObjBalance, Differ, Bit, OnlyThread, Exports, Holders, TwiceHeld,
         HoldsObj, Close, Calls, Names, IsObj, Replaced
  <2>2. BufBalance(t, None, None, None, 0)
    BY <1>32, <1>0 DEF BufBalance, Differ, Bit, OnlyThread, Exporters, Importers, CachedFor,
         BufHolders, HoldsBuf, Close, Calls, Names, IsObj, Replaced
  <2> QED
    BY <2>1, <2>2, Balanced
<1>33. ASSUME NEW t \in Threads, NEW f \in Files, NEW h \in Handles, Flink(t, f, h)
       PROVE  RefsExact'
  <2>1. ObjBalance(t, None)
    BY <1>33, <1>0 DEF ObjBalance, Differ, Bit, OnlyThread, Exports, Holders, TwiceHeld,
         HoldsObj, Flink, Lookup, Calls, Names, IsObj
  <2>2. BufBalance(t, None, None, None, 0)
    BY <1>33, <1>0 DEF BufBalance, Differ, Bit, OnlyThread, Exporters, Importers, CachedFor,
         BufHolders, HoldsBuf, Flink, Lookup, Calls, Names, IsObj
  <2> QED
    BY <2>1, <2>2, Balanced
<1>34. ASSUME NEW t \in Threads, NEW f \in Files, NEW h \in Handles, ToFd(t, f, h)
       PROVE  RefsExact'
  <2>1. ObjBalance(t, None)
    BY <1>34, <1>0 DEF ObjBalance, Differ, Bit, OnlyThread, Exports, Holders, TwiceHeld,
         HoldsObj, ToFd, Lookup, Calls, Names, IsObj
  <2>2. BufBalance(t, None, None, None, 0)
    BY <1>34, <1>0 DEF BufBalance, Differ, Bit, OnlyThread, Exporters, Importers, CachedFor,
         BufHolders, HoldsBuf, ToFd, Lookup, Calls, Names, IsObj
  <2> QED
    BY <2>1, <2>2, Balanced
<1>35. ASSUME NEW t \in Threads, NEW f \in Files, NEW h \in Handles, AddFb(t, f, h)
       PROVE  RefsExact'
  <2>1. ObjBalance(t, None)
    BY <1>35, <1>0 DEF ObjBalance, Differ, Bit, OnlyThread, Exports, Holders, TwiceHeld,
         HoldsObj, AddFb, Calls, Names, IsObj
  <2>2. BufBalance(t, None, None, None, 0)
    BY <1>35, <1>0 DEF BufBalance, Differ, Bit, OnlyThread, Exporters, Importers, CachedFor,
         BufHolders, HoldsBuf, AddFb, Calls, Names, IsObj
  <2> QED
    BY <2>1, <2>2, Balanced
<1>36. ASSUME NEW t \in Threads, NEW f \in Files, NEW b \in Bufs, FdToHandle(t, f, b)
       PROVE  RefsExact'
  <2>1. bref[b] > 0
    BY <1>36, BufThere DEF FdToHandle, Calls
  <2>2. ObjBalance(t, None)
    BY <1>36, <2>1, <1>0 DEF ObjBalance, Differ, Bit, OnlyThread, Exports, Holders, TwiceHeld,
         HoldsObj, FdToHandle, Calls
  <2>3. BufBalance(t, None, None, None, 0)
    BY <1>36, <2>1, <1>0 DEF BufBalance, Differ, Bit, OnlyThread, Exporters, Importers,
         CachedFor, BufHolders, HoldsBuf, FdToHandle, Calls
  <2> QED
    BY <2>2, <2>3, Balanced
<1>37. ASSUME NEW t \in Threads, NEW f \in Files, ReleaseFile(t, f) PROVE RefsExact'
  <2>1. ObjBalance(t, None)
    BY <1>37, <1>0 DEF ObjBalance, Differ, Bit, OnlyThread, Exports, Holders, TwiceHeld,
         HoldsObj, ReleaseFile, Calls
  <2>2. BufBalance(t, None, None, None, 0)
    BY <1>37, <1>0 DEF BufBalance, Differ, Bit, OnlyThread, Exporters, Importers, CachedFor,
         BufHolders, HoldsBuf, ReleaseFile, Calls
  <2> QED
    BY <2>1, <2>2, Balanced
<1>38. ASSUME NEW b \in Bufs, CloseFd(b) PROVE RefsExact'
  <2>1. BufDropped(b)
    <3>1. b \in Bufs /\ BufPut(b) /\ priv' = priv /\ fds[b] > 0
      BY <1>38 DEF CloseFd, BufPut
    <3>2. bref[b] > 0
      BY <1>38, <3>1, BufThere
    <3> QED
      BY <3>1, <3>2, BufPutRefs
  <2>2. ObjBalance(None, b)
    BY <1>38, <2>1, <1>0 DEF ObjBalance, Differ, Bit, OnlyThread, BufDropped, Holders,
         TwiceHeld, HoldsObj, CloseFd
  <2>3. BufBalance(None, None, None, None, 0)
    BY <1>38, <2>1, <1>0 DEF BufBalance, Differ, Bit, OnlyThread, BufDropped, Exporters,
         Importers, CachedFor, BufHolders, HoldsBuf, CloseFd
  <2> QED
    BY <2>2, <2>3, Balanced
<1>39. ASSUME NEW o \in Objs, RmFb(o) PROVE RefsExact'
  <2>1. ObjDropped(o)
    <3>1. o \in Objs /\ ObjPut(o) /\ attach' = attach /\ o \in fb
      BY <1>39 DEF RmFb, ObjPut
    <3>2. ref[o] > 0
      BY <3>1, ObjThere
    <3> QED
      BY <3>1, <3>2, ObjPutRefs
  <2>2. ObjBalance(None, None)
    BY <1>39, <2>1, <1>0 DEF ObjBalance, Differ, Bit, OnlyThread, ObjDropped, Exports,
         Holders, TwiceHeld, HoldsObj, RmFb
  <2>3. BufBalance(None, None, o, None, 0)
    BY <1>39, <2>1, <1>0 DEF BufBalance, Differ, Bit, OnlyThread, Exporters, ObjDropped,
         CachedFor, BufHolders, HoldsBuf, RmFb
  <2> QED
    BY <2>2, <2>3, Balanced
<1> HIDE GemAssumption DEF IInv, TypeOK, LocalInv, Local, BufInv, File, Obj, Buf, Ok, Calling,
        NoCall, Locals, Goto, Return, objVars, bufVars, fileVars
<1> QED
  BY Zenon, <1>1, <1>2, <1>3, <1>4, <1>5, <1>6, <1>7, <1>8, <1>9, <1>10, <1>11, <1>12, <1>13, <1>14,
      <1>15, <1>16, <1>17, <1>18, <1>19, <1>20, <1>21, <1>21a, <1>22, <1>23, <1>24, <1>25, <1>26,
      <1>27, <1>28, <1>29, <1>30, <1>31, <1>32, <1>33, <1>34, <1>35, <1>36, <1>37, <1>38, <1>39 DEF Next, Step, Call

----------------------------------------------------------------------------
(* prime.lock                                                              *)

LEMMA LockHeldStep ==
  ASSUME TypeOK, LocalInv, LockHeld, Next PROVE LockHeld'
<1> USE GemAssumption DEF TypeOK, LocalInv, Local, File, Obj, Buf, Ok, Calling, NoCall, Locals,
        Goto, Return, objVars, bufVars, fileVars, Error, LockHeld, HasLock
<1>1. ASSUME NEW t \in Threads, NEW f \in Files, NEW o \in Objs, Create(t, f, o) PROVE LockHeld'
  <2>1. \/ \E h \in Handles : Published(t, f, o, 1, "create", None, h)
        \/ Unpublished(t, f, o, 1, "create", None)
    BY <1>1, PublishCases DEF Create, Calls
  <2>2. CASE Unpublished(t, f, o, 1, "create", None)
    BY <1>1, <2>2 DEF Unpublished, Create, Calls
  <2>3. ASSUME NEW h \in Handles, Published(t, f, o, 1, "create", None, h)
        PROVE  LockHeld'
    BY <1>1, <2>3 DEF Published, Create, Calls
  <2> QED
    BY <2>1, <2>2, <2>3
<1>2. ASSUME NEW t \in Threads, NEW f \in Files, NEW o \in Objs, OpenName(t, f, o)
      PROVE  LockHeld'
  <2>1. \/ \E h \in Handles : Published(t, f, o, ref[o] + 1, "open", None, h)
        \/ Unpublished(t, f, o, ref[o] + 1, "open", None)
    BY <1>2, PublishCases DEF OpenName, Calls
  <2>2. CASE Unpublished(t, f, o, ref[o] + 1, "open", None)
    BY <1>2, <2>2 DEF Unpublished, OpenName, Calls
  <2>3. ASSUME NEW h \in Handles, Published(t, f, o, ref[o] + 1, "open", None, h)
        PROVE  LockHeld'
    BY <1>2, <2>3 DEF Published, OpenName, Calls
  <2> QED
    BY <2>1, <2>2, <2>3
<1>3. ASSUME NEW t \in Threads, NEW f \in Files, NEW o \in Objs, GetFb(t, f, o) PROVE LockHeld'
  <2>1. \/ \E h \in Handles : Published(t, f, o, ref[o] + 1, "getfb", None, h)
        \/ Unpublished(t, f, o, ref[o] + 1, "getfb", None)
    BY <1>3, PublishCases DEF GetFb, Calls
  <2>2. CASE Unpublished(t, f, o, ref[o] + 1, "getfb", None)
    BY <1>3, <2>2 DEF Unpublished, GetFb, Calls
  <2>3. ASSUME NEW h \in Handles, Published(t, f, o, ref[o] + 1, "getfb", None, h)
        PROVE  LockHeld'
    BY <1>3, <2>3 DEF Published, GetFb, Calls
  <2> QED
    BY <2>1, <2>2, <2>3
<1>4. ASSUME NEW t \in Threads, ImportOwn(t) PROVE LockHeld'
  <2>0. PICK f \in Files, o \in Objs, b \in Bufs : OwnTaken(t, f, o, b) /\ OwnEnds(t, f, o, b)
    BY <1>4, ImportOwnCases
  <2>1. OwnTaken(t, f, o, b)
    BY <2>0
  <2>2. CASE Unpublished(t, f, o, ref[o] + 1, "import", b)
    BY <2>1, <2>2 DEF Unpublished, OwnTaken
  <2>3. ASSUME NEW h \in Handles, Published(t, f, o, ref[o] + 1, "import", b, h)
        PROVE  LockHeld'
    BY <2>1, <2>3 DEF Published, OwnTaken
  <2> QED
    BY <2>0, <2>2, <2>3 DEF OwnEnds
<1>5. ASSUME NEW t \in Threads, NEW o \in Objs, ImportForeign(t, o) PROVE LockHeld'
  <2>1. \/ \E h \in Handles : Published(t, File(t), o, 1, "import", Buf(t), h)
        \/ Unpublished(t, File(t), o, 1, "import", Buf(t))
    BY <1>5, PublishCases DEF ImportForeign, Imports
  <2>2. CASE Unpublished(t, File(t), o, 1, "import", Buf(t))
    BY <1>5, <2>2 DEF Unpublished, ImportForeign, Imports
  <2>3. ASSUME NEW h \in Handles, Published(t, File(t), o, 1, "import", Buf(t), h)
        PROVE  LockHeld'
    BY <1>5, <2>3 DEF Published, ImportForeign, Imports
  <2> QED
    BY <2>1, <2>2, <2>3
<1>6. ASSUME NEW t \in Threads, OpenFails(t) PROVE LockHeld'
  BY <1>6 DEF OpenFails, AfterRemove
<1>7. ASSUME NEW t \in Threads, PutObj(t) PROVE LockHeld'
  BY <1>7 DEF PutObj, ObjPut
<1>8. ASSUME NEW t \in Threads, Uncache(t) PROVE LockHeld'
  BY <1>8 DEF Uncache, BufPut, Members
<1>9. ASSUME NEW t \in Threads, UncacheNothing(t) PROVE LockHeld'
  BY <1>9 DEF UncacheNothing, Members
<1>10. ASSUME NEW t \in Threads, HandlePut(t) PROVE LockHeld'
  BY <1>10 DEF HandlePut, AfterPut
<1>11. ASSUME NEW t \in Threads, LastHandlePut(t) PROVE LockHeld'
  BY <1>11 DEF LastHandlePut, BufPut
<1>12. ASSUME NEW t \in Threads, FinalPut(t) PROVE LockHeld'
  BY <1>12 DEF FinalPut, ObjPut, AfterPut
<1>13. ASSUME NEW t \in Threads, Unreserve(t) PROVE LockHeld'
  BY <1>13 DEF Unreserve
<1>14. ASSUME NEW t \in Threads, Released(t) PROVE LockHeld'
  BY <1>14 DEF Released
<1>15. ASSUME NEW t \in Threads, NEW h \in Handles, ReleaseHandle(t, h) PROVE LockHeld'
  BY <1>15 DEF ReleaseHandle, IsObj
<1>16. ASSUME NEW t \in Threads, FlinkName(t) PROVE LockHeld'
  BY <1>16 DEF FlinkName, HasHandles
<1>17. ASSUME NEW t \in Threads, ToFdCached(t) PROVE LockHeld'
  BY <1>17 DEF ToFdCached, Cached, Members
<1>18. ASSUME NEW t \in Threads, NEW b \in Bufs, ToFdKnown(t, b) PROVE LockHeld'
  BY <1>18 DEF ToFdKnown, IsKnown, CacheAdd, CacheRefs
<1>19. ASSUME NEW t \in Threads, NEW b \in Bufs, ToFdUncached(t, b) PROVE LockHeld'
  BY <1>19 DEF ToFdUncached, IsKnown
<1>20. ASSUME NEW t \in Threads, ExportFails(t) PROVE LockHeld'
  BY <1>20 DEF ExportFails, MayExport
<1>21. ASSUME NEW t \in Threads, InstallFd(t) PROVE LockHeld'
  BY <1>21 DEF AsksFd, InstallFd
<1>21a. ASSUME NEW t \in Threads, FdFails(t) PROVE LockHeld'
  BY <1>21a DEF AsksFd, FdFails
<1>22. ASSUME NEW t \in Threads, PutUncached(t) PROVE LockHeld'
  BY <1>22 DEF PutUncached, BufPut
<1>23. ASSUME NEW t \in Threads, NEW b \in Bufs, Export(t, b) PROVE LockHeld'
  BY <1>23 DEF Export, HasHandles, Exported, MayExport, CacheAdd, CacheRefs
<1>24. ASSUME NEW t \in Threads, NEW b \in Bufs, ExportUncached(t, b) PROVE LockHeld'
  BY <1>24 DEF ExportUncached, HasHandles, Exported, MayExport
<1>25. ASSUME NEW t \in Threads, ImportSeen(t) PROVE LockHeld'
  BY <1>25 DEF ImportSeen
<1>26. ASSUME NEW t \in Threads, ImportFails(t) PROVE LockHeld'
  BY <1>26 DEF ImportFails, Imports
<1>27. ASSUME NEW t \in Threads, ImportCache(t) PROVE LockHeld'
  BY <1>27 DEF ImportCache, CacheAdd, CacheRefs
<1>28. ASSUME NEW t \in Threads, ImportNoCache(t) PROVE LockHeld'
  BY <1>28 DEF ImportNoCache
<1>29. ASSUME NEW t \in Threads, ImportDelete(t) PROVE LockHeld'
  BY <1>29 DEF ImportDelete, IsObj, Replaced
<1>30. ASSUME NEW t \in Threads, ImportDeleted(t) PROVE LockHeld'
  BY <1>30 DEF ImportDeleted
<1>31. ASSUME NEW t \in Threads, ImportPut(t) PROVE LockHeld'
  BY <1>31 DEF ImportPut, BufPut
<1>32. ASSUME NEW t \in Threads, NEW f \in Files, NEW h \in Handles, Close(t, f, h)
       PROVE  LockHeld'
  BY <1>32 DEF Close, Calls, Names, IsObj, Replaced
<1>33. ASSUME NEW t \in Threads, NEW f \in Files, NEW h \in Handles, Flink(t, f, h)
       PROVE  LockHeld'
  BY <1>33 DEF Flink, Lookup, Calls, Names, IsObj
<1>34. ASSUME NEW t \in Threads, NEW f \in Files, NEW h \in Handles, ToFd(t, f, h)
       PROVE  LockHeld'
  BY <1>34 DEF ToFd, Lookup, Calls, Names, IsObj
<1>35. ASSUME NEW t \in Threads, NEW f \in Files, NEW h \in Handles, AddFb(t, f, h)
       PROVE  LockHeld'
  BY <1>35 DEF AddFb, Calls, Names, IsObj
<1>36. ASSUME NEW t \in Threads, NEW f \in Files, NEW b \in Bufs, FdToHandle(t, f, b)
       PROVE  LockHeld'
  BY <1>36 DEF FdToHandle, Calls
<1>37. ASSUME NEW t \in Threads, NEW f \in Files, ReleaseFile(t, f) PROVE LockHeld'
  BY <1>37 DEF ReleaseFile, Calls
<1>38. ASSUME NEW b \in Bufs, CloseFd(b) PROVE LockHeld'
  BY <1>38 DEF CloseFd, BufPut
<1>39. ASSUME NEW o \in Objs, RmFb(o) PROVE LockHeld'
  BY <1>39 DEF RmFb, ObjPut
<1> HIDE GemAssumption DEF TypeOK, LocalInv, Local, File, Obj, Buf, Ok, Calling, NoCall, Locals,
        Goto, Return, objVars, bufVars, fileVars, Error, LockHeld, HasLock
<1> QED
  BY Zenon, <1>1, <1>2, <1>3, <1>4, <1>5, <1>6, <1>7, <1>8, <1>9, <1>10, <1>11, <1>12, <1>13, <1>14,
      <1>15, <1>16, <1>17, <1>18, <1>19, <1>20, <1>21, <1>21a, <1>22, <1>23, <1>24, <1>25, <1>26,
      <1>27, <1>28, <1>29, <1>30, <1>31, <1>32, <1>33, <1>34, <1>35, <1>36, <1>37, <1>38, <1>39 DEF Next, Step, Call

----------------------------------------------------------------------------
(* The dma-buf of an import                                                *)

LEMMA ImportKeptStep ==
  ASSUME TypeOK, LocalInv, ImportKept, BufInv, Next PROVE ImportKept'
<1> USE GemAssumption DEF TypeOK, LocalInv, Local, File, Obj, Buf, Ok, Calling, NoCall, Locals,
        Goto, Return, objVars, bufVars, fileVars, Error, ImportKept, BufInv
<1>1. ASSUME NEW t \in Threads, NEW f \in Files, NEW o \in Objs, Create(t, f, o)
      PROVE  ImportKept'
  <2>1. \/ \E h \in Handles : Published(t, f, o, 1, "create", None, h)
        \/ Unpublished(t, f, o, 1, "create", None)
    BY <1>1, PublishCases DEF Create, Calls
  <2>2. CASE Unpublished(t, f, o, 1, "create", None)
    BY <1>1, <2>2 DEF Unpublished, Create, Calls
  <2>3. ASSUME NEW h \in Handles, Published(t, f, o, 1, "create", None, h)
        PROVE  ImportKept'
    BY <1>1, <2>3 DEF Published, Create, Calls
  <2> QED
    BY <2>1, <2>2, <2>3
<1>2. ASSUME NEW t \in Threads, NEW f \in Files, NEW o \in Objs, OpenName(t, f, o)
      PROVE  ImportKept'
  <2>1. \/ \E h \in Handles : Published(t, f, o, ref[o] + 1, "open", None, h)
        \/ Unpublished(t, f, o, ref[o] + 1, "open", None)
    BY <1>2, PublishCases DEF OpenName, Calls
  <2>2. CASE Unpublished(t, f, o, ref[o] + 1, "open", None)
    BY <1>2, <2>2 DEF Unpublished, OpenName, Calls
  <2>3. ASSUME NEW h \in Handles, Published(t, f, o, ref[o] + 1, "open", None, h)
        PROVE  ImportKept'
    BY <1>2, <2>3 DEF Published, OpenName, Calls
  <2> QED
    BY <2>1, <2>2, <2>3
<1>3. ASSUME NEW t \in Threads, NEW f \in Files, NEW o \in Objs, GetFb(t, f, o)
      PROVE  ImportKept'
  <2>1. \/ \E h \in Handles : Published(t, f, o, ref[o] + 1, "getfb", None, h)
        \/ Unpublished(t, f, o, ref[o] + 1, "getfb", None)
    BY <1>3, PublishCases DEF GetFb, Calls
  <2>2. CASE Unpublished(t, f, o, ref[o] + 1, "getfb", None)
    BY <1>3, <2>2 DEF Unpublished, GetFb, Calls
  <2>3. ASSUME NEW h \in Handles, Published(t, f, o, ref[o] + 1, "getfb", None, h)
        PROVE  ImportKept'
    BY <1>3, <2>3 DEF Published, GetFb, Calls
  <2> QED
    BY <2>1, <2>2, <2>3
<1>4. ASSUME NEW t \in Threads, ImportOwn(t) PROVE ImportKept'
  <2>0. PICK f \in Files, o \in Objs, b \in Bufs : OwnTaken(t, f, o, b) /\ OwnEnds(t, f, o, b)
    BY <1>4, ImportOwnCases
  <2>1. OwnTaken(t, f, o, b)
    BY <2>0
  <2>2. CASE Unpublished(t, f, o, ref[o] + 1, "import", b)
    BY <2>1, <2>2 DEF Unpublished, OwnTaken
  <2>3. ASSUME NEW h \in Handles, Published(t, f, o, ref[o] + 1, "import", b, h)
        PROVE  ImportKept'
    <3>1. /\ \A s \in Threads : s # t => pc'[s] = pc[s] /\ w'[s] = w[s]
          /\ w'[t].obj = o /\ w'[t].buf = b /\ priv' = priv /\ attach' = attach /\ priv[b] = o
      BY <2>1, <2>3 DEF Published, OwnTaken
    <3> HIDE GemAssumption DEF TypeOK, LocalInv, BufInv
    <3> QED
      BY <3>1
  <2> QED
    BY <2>0, <2>2, <2>3 DEF OwnEnds
<1>5. ASSUME NEW t \in Threads, NEW o \in Objs, ImportForeign(t, o) PROVE ImportKept'
  <2>1. \/ \E h \in Handles : Published(t, File(t), o, 1, "import", Buf(t), h)
        \/ Unpublished(t, File(t), o, 1, "import", Buf(t))
    BY <1>5, PublishCases DEF ImportForeign, Imports
  <2>2. CASE Unpublished(t, File(t), o, 1, "import", Buf(t))
    BY <1>5, <2>2 DEF Unpublished, ImportForeign, Imports
  <2>3. ASSUME NEW h \in Handles, Published(t, File(t), o, 1, "import", Buf(t), h)
        PROVE  ImportKept'
    <3>1. ASSUME NEW s \in Threads, s # t, w[s].op = "import", pc[s] \in {"opening", "cache"}
          PROVE  priv[Buf(s)] = Obj(s) \/ (attach[Obj(s)] = Buf(s) /\ Obj(s) # o)
      <4>1. Buf(s) \in Bufs /\ Obj(s) \in Objs /\ attach[o] = None
        BY <1>5, <3>1 DEF ImportForeign
      <4> QED
        BY <3>1, <4>1
    <3> QED
      BY SMTT(40), <1>5, <2>3, <3>1 DEF Published, ImportForeign, Imports
  <2> QED
    BY <2>1, <2>2, <2>3
<1>6. ASSUME NEW t \in Threads, OpenFails(t) PROVE ImportKept'
  BY <1>6 DEF OpenFails, AfterRemove
<1>7. ASSUME NEW t \in Threads, PutObj(t) PROVE ImportKept'
  BY SMTT(20), <1>7 DEF PutObj, ObjPut
<1>8. ASSUME NEW t \in Threads, Uncache(t) PROVE ImportKept'
  BY SMTT(60), <1>8 DEF Uncache, BufPut, Members
<1>9. ASSUME NEW t \in Threads, UncacheNothing(t) PROVE ImportKept'
  BY <1>9 DEF UncacheNothing, Members
<1>10. ASSUME NEW t \in Threads, HandlePut(t) PROVE ImportKept'
  BY SMTT(20), <1>10 DEF HandlePut, AfterPut
<1>11. ASSUME NEW t \in Threads, LastHandlePut(t) PROVE ImportKept'
  BY SMTT(20), <1>11 DEF LastHandlePut, BufPut
<1>12. ASSUME NEW t \in Threads, FinalPut(t) PROVE ImportKept'
  BY SMTT(60), <1>12 DEF FinalPut, ObjPut, AfterPut
<1>13. ASSUME NEW t \in Threads, Unreserve(t) PROVE ImportKept'
  BY <1>13 DEF Unreserve
<1>14. ASSUME NEW t \in Threads, Released(t) PROVE ImportKept'
  BY <1>14 DEF Released
<1>15. ASSUME NEW t \in Threads, NEW h \in Handles, ReleaseHandle(t, h) PROVE ImportKept'
  BY <1>15 DEF ReleaseHandle, IsObj
<1>16. ASSUME NEW t \in Threads, FlinkName(t) PROVE ImportKept'
  BY SMTT(40), <1>16 DEF FlinkName, HasHandles
<1>17. ASSUME NEW t \in Threads, ToFdCached(t) PROVE ImportKept'
  BY <1>17 DEF ToFdCached, Cached, Members
<1>18. ASSUME NEW t \in Threads, NEW b \in Bufs, ToFdKnown(t, b) PROVE ImportKept'
  BY <1>18 DEF ToFdKnown, IsKnown, CacheAdd, CacheRefs
<1>19. ASSUME NEW t \in Threads, NEW b \in Bufs, ToFdUncached(t, b) PROVE ImportKept'
  BY <1>19 DEF ToFdUncached, IsKnown
<1>20. ASSUME NEW t \in Threads, ExportFails(t) PROVE ImportKept'
  BY <1>20 DEF ExportFails, MayExport
<1>21. ASSUME NEW t \in Threads, InstallFd(t) PROVE ImportKept'
  BY <1>21 DEF AsksFd, InstallFd
<1>21a. ASSUME NEW t \in Threads, FdFails(t) PROVE ImportKept'
  BY <1>21a DEF AsksFd, FdFails
<1>22. ASSUME NEW t \in Threads, PutUncached(t) PROVE ImportKept'
  BY <1>22 DEF PutUncached, BufPut
<1>23. ASSUME NEW t \in Threads, NEW b \in Bufs, Export(t, b) PROVE ImportKept'
  BY <1>23 DEF Export, HasHandles, Exported, MayExport, CacheAdd, CacheRefs
<1>24. ASSUME NEW t \in Threads, NEW b \in Bufs, ExportUncached(t, b) PROVE ImportKept'
  BY <1>24 DEF ExportUncached, HasHandles, Exported, MayExport
<1>25. ASSUME NEW t \in Threads, ImportSeen(t) PROVE ImportKept'
  BY <1>25 DEF ImportSeen
<1>26. ASSUME NEW t \in Threads, ImportFails(t) PROVE ImportKept'
  BY SMTT(40), <1>26 DEF ImportFails, Imports
<1>27. ASSUME NEW t \in Threads, ImportCache(t) PROVE ImportKept'
  BY <1>27 DEF ImportCache, CacheAdd, CacheRefs
<1>28. ASSUME NEW t \in Threads, ImportNoCache(t) PROVE ImportKept'
  <2>1. /\ pc[t] = "cache" /\ pc' = [pc EXCEPT ![t] = "delete"]
        /\ UNCHANGED <<w, priv, attach>>
    BY <1>28 DEF ImportNoCache
  <2>2. ASSUME NEW s \in Threads, pc'[s] \in {"opening", "cache"} PROVE pc'[s] = pc[s]
    BY <2>1, <2>2
  <2> QED
    BY <2>1, <2>2
<1>29. ASSUME NEW t \in Threads, ImportDelete(t) PROVE ImportKept'
  BY <1>29 DEF ImportDelete, IsObj, Replaced
<1>30. ASSUME NEW t \in Threads, ImportDeleted(t) PROVE ImportKept'
  BY SMTT(40), <1>30 DEF ImportDeleted
<1>31. ASSUME NEW t \in Threads, ImportPut(t) PROVE ImportKept'
  BY <1>31 DEF ImportPut, BufPut
<1>32. ASSUME NEW t \in Threads, NEW f \in Files, NEW h \in Handles, Close(t, f, h)
       PROVE  ImportKept'
  BY <1>32 DEF Close, Calls, Names, IsObj, Replaced
<1>33. ASSUME NEW t \in Threads, NEW f \in Files, NEW h \in Handles, Flink(t, f, h)
       PROVE  ImportKept'
  BY <1>33 DEF Flink, Lookup, Calls, Names, IsObj
<1>34. ASSUME NEW t \in Threads, NEW f \in Files, NEW h \in Handles, ToFd(t, f, h)
       PROVE  ImportKept'
  BY <1>34 DEF ToFd, Lookup, Calls, Names, IsObj
<1>35. ASSUME NEW t \in Threads, NEW f \in Files, NEW h \in Handles, AddFb(t, f, h)
       PROVE  ImportKept'
  BY <1>35 DEF AddFb, Calls, Names, IsObj
<1>36. ASSUME NEW t \in Threads, NEW f \in Files, NEW b \in Bufs, FdToHandle(t, f, b)
       PROVE  ImportKept'
  BY <1>36 DEF FdToHandle, Calls
<1>37. ASSUME NEW t \in Threads, NEW f \in Files, ReleaseFile(t, f) PROVE ImportKept'
  BY <1>37 DEF ReleaseFile, Calls
<1>38. ASSUME NEW b \in Bufs, CloseFd(b) PROVE ImportKept'
  BY <1>38 DEF CloseFd, BufPut
<1>39. ASSUME NEW o \in Objs, RmFb(o) PROVE ImportKept'
  BY <1>39 DEF RmFb, ObjPut
<1> HIDE GemAssumption DEF TypeOK, LocalInv, Local, File, Obj, Buf, Ok, Calling, NoCall, Locals,
        Goto, Return, objVars, bufVars, fileVars, Error, ImportKept, BufInv
<1> QED
  BY Zenon, <1>1, <1>2, <1>3, <1>4, <1>5, <1>6, <1>7, <1>8, <1>9, <1>10, <1>11, <1>12, <1>13, <1>14,
      <1>15, <1>16, <1>17, <1>18, <1>19, <1>20, <1>21, <1>21a, <1>22, <1>23, <1>24, <1>25, <1>26,
      <1>27, <1>28, <1>29, <1>30, <1>31, <1>32, <1>33, <1>34, <1>35, <1>36, <1>37, <1>38, <1>39 DEF Next, Step, Call

----------------------------------------------------------------------------
(* The handles of exports and imports                                      *)

\* A step of t, for the threads that are going to add their handle to the cache: t
\* leaves their handle alone, or begins to take it out.
LEMMA KeptByOthers ==
  ASSUME HandleKept, NEW t \in Threads, OnlyThread(t),
         \A s \in Threads : s # t /\ WillCache(s) =>
           \/ /\ table'[File(s)][w[s].h] = table[File(s)][w[s].h]
              /\ pc[t] = "uncache" => File(t) # File(s)
           \/ /\ table'[File(s)][w[s].h] = Null /\ pc'[t] = "uncache"
              /\ File(t)' = File(s) /\ w'[t].h = w[s].h,
         WillCache(t)' => StillThere(File(t), w[t].h, Obj(t))'
  PROVE  HandleKept'
<1>1. ASSUME NEW s \in Threads, s # t, WillCache(s)'
      PROVE  StillThere(File(s), w[s].h, Obj(s))'
  <2>1. WillCache(s) /\ w'[s] = w[s]
    BY <1>1 DEF OnlyThread, WillCache
  <2>2. StillThere(File(s), w[s].h, Obj(s))
    BY <2>1 DEF HandleKept
  <2>3. CASE /\ table'[File(s)][w[s].h] = Null /\ pc'[t] = "uncache"
             /\ File(t)' = File(s) /\ w'[t].h = w[s].h
    BY <2>1, <2>3 DEF StillThere, File
  <2>4. CASE /\ table'[File(s)][w[s].h] = table[File(s)][w[s].h]
             /\ pc[t] = "uncache" => File(t) # File(s)
    <3>1. CASE table[File(s)][w[s].h] = Obj(s)
      BY <2>1, <2>4, <3>1 DEF StillThere, File, Obj
    <3>2. ASSUME NEW u \in Threads, pc[u] = "uncache", File(u) = File(s), w[u].h = w[s].h,
                 table[File(s)][w[s].h] = Null
          PROVE  StillThere(File(s), w[s].h, Obj(s))'
      <4>1. pc'[u] = pc[u] /\ w'[u] = w[u]
        BY <2>4, <3>2 DEF OnlyThread
      <4> QED
        BY <2>1, <2>4, <3>2, <4>1 DEF StillThere, File
    <3> QED
      BY <2>2, <3>1, <3>2 DEF StillThere
  <2> QED
    BY <1>1, <2>1, <2>3, <2>4
<1> QED
  BY <1>1 DEF HandleKept

\* A step that neither changes the table nor ends drm_prime_remove_buf_handle().
LEMMA KeptSame ==
  ASSUME HandleKept, NEW t \in Threads, OnlyThread(t), table' = table, pc[t] # "uncache",
         WillCache(t)' => WillCache(t) /\ w'[t] = w[t]
  PROVE  HandleKept'
<1>1. ASSUME WillCache(t)' PROVE StillThere(File(t), w[t].h, Obj(t))'
  <2>1. StillThere(File(t), w[t].h, Obj(t)) /\ w'[t] = w[t]
    BY <1>1 DEF HandleKept
  <2>2. ASSUME NEW u \in Threads, pc[u] = "uncache" PROVE pc'[u] = pc[u] /\ w'[u] = w[u]
    BY <2>2 DEF OnlyThread
  <2> QED
    BY <2>1, <2>2 DEF StillThere, File, Obj
<1> QED
  BY <1>1, KeptByOthers

LEMMA HandleKeptStep ==
  ASSUME TypeOK, LocalInv, ReleaseInv, HandleInv, LockHeld, HandleKept, Next PROVE HandleKept'
<1> USE GemAssumption DEF TypeOK, LocalInv, Local, File, Obj, Buf, Ok, Calling, NoCall, Locals,
        Goto, Return, objVars, bufVars, fileVars, Error
<1>1. ASSUME NEW t \in Threads, NEW f \in Files, NEW o \in Objs, Create(t, f, o)
      PROVE  HandleKept'
  <2>1. \/ \E h \in Handles : Published(t, f, o, 1, "create", None, h)
        \/ Unpublished(t, f, o, 1, "create", None)
    BY <1>1, PublishCases DEF Create, Calls
  <2>2. CASE Unpublished(t, f, o, 1, "create", None)
    <3>1. OnlyThread(t)
      BY <1>1, <2>2 DEF OnlyThread, Unpublished
    <3>2. table' = table /\ pc[t] # "uncache" /\ ~WillCache(t)'
      BY <1>1, <2>2 DEF WillCache, Unpublished, Create, Calls
    <3> QED
      BY <3>1, <3>2, KeptSame
  <2>3. ASSUME NEW h \in Handles, Published(t, f, o, 1, "create", None, h)
        PROVE  HandleKept'
    <3>1. OnlyThread(t)
      BY <1>1, <2>3 DEF OnlyThread, Published
    <3>2. ASSUME NEW s \in Threads, s # t, WillCache(s)
          PROVE  table'[File(s)][w[s].h] = table[File(s)][w[s].h] /\ pc[t] # "uncache"
      BY <1>1, <2>3, <3>2 DEF HandleKept, StillThere, WillCache, Null, Free, Published,
           Create, Calls
    <3>3. StillThere(File(t), w[t].h, Obj(t))'
      BY <1>1, <2>3 DEF StillThere, Published, Create, Calls
    <3> QED
      BY <3>1, <3>2, <3>3, KeptByOthers
  <2> QED
    BY <2>1, <2>2, <2>3
<1>2. ASSUME NEW t \in Threads, NEW f \in Files, NEW o \in Objs, OpenName(t, f, o)
      PROVE  HandleKept'
  <2>1. \/ \E h \in Handles : Published(t, f, o, ref[o] + 1, "open", None, h)
        \/ Unpublished(t, f, o, ref[o] + 1, "open", None)
    BY <1>2, PublishCases DEF OpenName, Calls
  <2>2. CASE Unpublished(t, f, o, ref[o] + 1, "open", None)
    <3>1. OnlyThread(t)
      BY <1>2, <2>2 DEF OnlyThread, Unpublished
    <3>2. table' = table /\ pc[t] # "uncache" /\ ~WillCache(t)'
      BY <1>2, <2>2 DEF WillCache, Unpublished, OpenName, Calls
    <3> QED
      BY <3>1, <3>2, KeptSame
  <2>3. ASSUME NEW h \in Handles, Published(t, f, o, ref[o] + 1, "open", None, h)
        PROVE  HandleKept'
    <3>1. OnlyThread(t)
      BY <1>2, <2>3 DEF OnlyThread, Published
    <3>2. ASSUME NEW s \in Threads, s # t, WillCache(s)
          PROVE  table'[File(s)][w[s].h] = table[File(s)][w[s].h] /\ pc[t] # "uncache"
      BY <1>2, <2>3, <3>2 DEF HandleKept, StillThere, WillCache, Null, Free, Published,
           OpenName, Calls
    <3>3. StillThere(File(t), w[t].h, Obj(t))'
      BY <1>2, <2>3 DEF StillThere, Published, OpenName, Calls
    <3> QED
      BY <3>1, <3>2, <3>3, KeptByOthers
  <2> QED
    BY <2>1, <2>2, <2>3
<1>3. ASSUME NEW t \in Threads, NEW f \in Files, NEW o \in Objs, GetFb(t, f, o)
      PROVE  HandleKept'
  <2>1. \/ \E h \in Handles : Published(t, f, o, ref[o] + 1, "getfb", None, h)
        \/ Unpublished(t, f, o, ref[o] + 1, "getfb", None)
    BY <1>3, PublishCases DEF GetFb, Calls
  <2>2. CASE Unpublished(t, f, o, ref[o] + 1, "getfb", None)
    <3>1. OnlyThread(t)
      BY <1>3, <2>2 DEF OnlyThread, Unpublished
    <3>2. table' = table /\ pc[t] # "uncache" /\ ~WillCache(t)'
      BY <1>3, <2>2 DEF WillCache, Unpublished, GetFb, Calls
    <3> QED
      BY <3>1, <3>2, KeptSame
  <2>3. ASSUME NEW h \in Handles, Published(t, f, o, ref[o] + 1, "getfb", None, h)
        PROVE  HandleKept'
    <3>1. OnlyThread(t)
      BY <1>3, <2>3 DEF OnlyThread, Published
    <3>2. ASSUME NEW s \in Threads, s # t, WillCache(s)
          PROVE  table'[File(s)][w[s].h] = table[File(s)][w[s].h] /\ pc[t] # "uncache"
      BY <1>3, <2>3, <3>2 DEF HandleKept, StillThere, WillCache, Null, Free, Published, GetFb,
           Calls
    <3>3. StillThere(File(t), w[t].h, Obj(t))'
      BY <1>3, <2>3 DEF StillThere, Published, GetFb, Calls
    <3> QED
      BY <3>1, <3>2, <3>3, KeptByOthers
  <2> QED
    BY <2>1, <2>2, <2>3
<1>4. ASSUME NEW t \in Threads, ImportOwn(t) PROVE HandleKept'
  <2>0. PICK f \in Files, o \in Objs, b \in Bufs : OwnTaken(t, f, o, b) /\ OwnEnds(t, f, o, b)
    BY <1>4, ImportOwnCases
  <2>1. OwnTaken(t, f, o, b)
    BY <2>0
  <2>2. CASE Unpublished(t, f, o, ref[o] + 1, "import", b)
    <3>1. OnlyThread(t)
      BY <2>1, <2>2 DEF OnlyThread, Unpublished
    <3>2. table' = table /\ pc[t] # "uncache" /\ ~WillCache(t)'
      BY <2>1, <2>2 DEF WillCache, Unpublished, OwnTaken
    <3> QED
      BY <3>1, <3>2, KeptSame
  <2>3. ASSUME NEW h \in Handles, Published(t, f, o, ref[o] + 1, "import", b, h)
        PROVE  HandleKept'
    <3>1. OnlyThread(t)
      BY <2>1, <2>3 DEF OnlyThread, Published
    <3>2. ASSUME NEW s \in Threads, s # t, WillCache(s)
          PROVE  table'[File(s)][w[s].h] = table[File(s)][w[s].h] /\ pc[t] # "uncache"
      BY SMTT(40), <2>1, <2>3, <3>2 DEF HandleKept, StillThere, WillCache, Null, Free, Published,
           OwnTaken
    <3>3. StillThere(File(t), w[t].h, Obj(t))'
      BY <2>1, <2>3 DEF StillThere, Published, OwnTaken
    <3> QED
      BY <3>1, <3>2, <3>3, KeptByOthers
  <2> QED
    BY <2>0, <2>2, <2>3 DEF OwnEnds
<1>5. ASSUME NEW t \in Threads, NEW o \in Objs, ImportForeign(t, o) PROVE HandleKept'
  <2>1. \/ \E h \in Handles : Published(t, File(t), o, 1, "import", Buf(t), h)
        \/ Unpublished(t, File(t), o, 1, "import", Buf(t))
    BY <1>5, PublishCases DEF ImportForeign, Imports
  <2>2. CASE Unpublished(t, File(t), o, 1, "import", Buf(t))
    <3>1. OnlyThread(t)
      BY <1>5, <2>2 DEF OnlyThread, Unpublished
    <3>2. table' = table /\ pc[t] # "uncache" /\ ~WillCache(t)'
      BY <1>5, <2>2 DEF WillCache, Unpublished, ImportForeign, Imports
    <3> QED
      BY <3>1, <3>2, KeptSame
  <2>3. ASSUME NEW h \in Handles, Published(t, File(t), o, 1, "import", Buf(t), h)
        PROVE  HandleKept'
    <3>1. OnlyThread(t)
      BY <1>5, <2>3 DEF OnlyThread, Published
    <3>2. ASSUME NEW s \in Threads, s # t, WillCache(s)
          PROVE  table'[File(s)][w[s].h] = table[File(s)][w[s].h] /\ pc[t] # "uncache"
      BY <1>5, <2>3, <3>2 DEF HandleKept, StillThere, WillCache, Null, Free, Published,
           ImportForeign, Imports
    <3>3. StillThere(File(t), w[t].h, Obj(t))'
      BY <1>5, <2>3 DEF StillThere, Published, ImportForeign, Imports
    <3> QED
      BY <3>1, <3>2, <3>3, KeptByOthers
  <2> QED
    BY <2>1, <2>2, <2>3
<1>6. ASSUME NEW t \in Threads, OpenFails(t) PROVE HandleKept'
  <2>1. OnlyThread(t)
    BY <1>6 DEF OnlyThread, OpenFails, AfterRemove
  <2>2. ASSUME NEW s \in Threads, s # t, WillCache(s)
        PROVE  table'[File(s)][w[s].h] = table[File(s)][w[s].h] /\ pc[t] # "uncache"
    BY <1>6, <2>2 DEF WillCache, HandleInv, Makes, Uses, Same, OpenFails, AfterRemove
  <2>3. ~WillCache(t)'
    BY <1>6 DEF WillCache, OpenFails, AfterRemove
  <2> QED
    BY <2>1, <2>2, <2>3, KeptByOthers
<1>7. ASSUME NEW t \in Threads, PutObj(t) PROVE HandleKept'
  <2>1. OnlyThread(t)
    BY <1>7 DEF OnlyThread, PutObj, ObjPut
  <2>2. table' = table /\ pc[t] # "uncache" /\ (WillCache(t)' => WillCache(t) /\ w'[t] = w[t])
    BY <1>7 DEF WillCache, PutObj, ObjPut
  <2> QED
    BY <2>1, <2>2, KeptSame
<1>8. ASSUME NEW t \in Threads, Uncache(t) PROVE HandleKept'
  <2>1. OnlyThread(t)
    BY <1>8 DEF OnlyThread, Uncache, BufPut, Members
  <2>2. ASSUME NEW s \in Threads, s # t, WillCache(s)
        PROVE  table'[File(s)][w[s].h] = table[File(s)][w[s].h] /\ File(t) # File(s)
    BY <1>8, <2>2 DEF WillCache, LockHeld, HasLock, Uncache, BufPut, Members
  <2>3. ~WillCache(t)'
    BY <1>8 DEF WillCache, Uncache, BufPut, Members
  <2> QED
    BY <2>1, <2>2, <2>3, KeptByOthers
<1>9. ASSUME NEW t \in Threads, UncacheNothing(t) PROVE HandleKept'
  <2>1. OnlyThread(t)
    BY <1>9 DEF OnlyThread, UncacheNothing, Members
  <2>2. ASSUME NEW s \in Threads, s # t, WillCache(s)
        PROVE  table'[File(s)][w[s].h] = table[File(s)][w[s].h] /\ File(t) # File(s)
    BY <1>9, <2>2 DEF WillCache, LockHeld, HasLock, UncacheNothing, Members
  <2>3. ~WillCache(t)'
    BY <1>9 DEF WillCache, UncacheNothing, Members
  <2> QED
    BY <2>1, <2>2, <2>3, KeptByOthers
<1>10. ASSUME NEW t \in Threads, HandlePut(t) PROVE HandleKept'
  <2>1. OnlyThread(t)
    BY <1>10 DEF OnlyThread, HandlePut, AfterPut
  <2>2. table' = table /\ pc[t] # "uncache" /\ (WillCache(t)' => WillCache(t) /\ w'[t] = w[t])
    BY <1>10 DEF WillCache, HandlePut, AfterPut
  <2> QED
    BY <2>1, <2>2, KeptSame
<1>11. ASSUME NEW t \in Threads, LastHandlePut(t) PROVE HandleKept'
  <2>1. OnlyThread(t)
    BY <1>11 DEF OnlyThread, LastHandlePut, BufPut
  <2>2. table' = table /\ pc[t] # "uncache" /\ (WillCache(t)' => WillCache(t) /\ w'[t] = w[t])
    BY <1>11 DEF WillCache, LastHandlePut, BufPut
  <2> QED
    BY <2>1, <2>2, KeptSame
<1>12. ASSUME NEW t \in Threads, FinalPut(t) PROVE HandleKept'
  <2>1. OnlyThread(t)
    BY <1>12 DEF OnlyThread, FinalPut, ObjPut, AfterPut
  <2>2. table' = table /\ pc[t] # "uncache" /\ (WillCache(t)' => WillCache(t) /\ w'[t] = w[t])
    BY <1>12 DEF WillCache, FinalPut, ObjPut, AfterPut
  <2> QED
    BY <2>1, <2>2, KeptSame
<1>13. ASSUME NEW t \in Threads, Unreserve(t) PROVE HandleKept'
  <2>1. OnlyThread(t)
    BY <1>13 DEF OnlyThread, Unreserve
  <2>2. ASSUME NEW s \in Threads, s # t, WillCache(s)
        PROVE  table'[File(s)][w[s].h] = table[File(s)][w[s].h] /\ pc[t] # "uncache"
    <3>1. /\ pc[t] = "unreserve" /\ File(t) \in Files /\ w[t].h \in Handles /\ Ok(t)
          /\ table' = [table EXCEPT ![File(t)][w[t].h] = Free]
      BY <1>13 DEF Unreserve
    <3>2. table[File(t)][w[t].h] = Null /\ \A u \in Threads : TakesOut(u) /\ Same(u, t) => u = t
      BY <3>1 DEF HandleInv, TakesOut
    <3>3. File(s) \in Files /\ w[s].h \in Handles /\ Obj(s) \in Objs
      BY <2>2 DEF WillCache
    <3>4. StillThere(File(s), w[s].h, Obj(s))
      BY <2>2 DEF HandleKept
    <3>5. \A u \in Threads : pc[u] = "uncache" => TakesOut(u) /\ u # t
      BY <3>1 DEF TakesOut
    <3>6. File(s) # File(t) \/ w[s].h # w[t].h
      BY <3>2, <3>3, <3>4, <3>5 DEF StillThere, Same, Null
    <3> HIDE DEF File, LocalInv, TypeOK
    <3> QED
      BY <3>1, <3>3, <3>6
  <2>3. ~WillCache(t)'
    BY <1>13 DEF WillCache, Unreserve
  <2> QED
    BY <2>1, <2>2, <2>3, KeptByOthers
<1>14. ASSUME NEW t \in Threads, Released(t) PROVE HandleKept'
  <2>1. OnlyThread(t)
    BY <1>14 DEF OnlyThread, Released
  <2>2. table' = table /\ pc[t] # "uncache" /\ (WillCache(t)' => WillCache(t) /\ w'[t] = w[t])
    BY <1>14 DEF WillCache, Released
  <2> QED
    BY <2>1, <2>2, KeptSame
<1>15. ASSUME NEW t \in Threads, NEW h \in Handles, ReleaseHandle(t, h) PROVE HandleKept'
  <2>1. OnlyThread(t)
    BY <1>15 DEF OnlyThread, ReleaseHandle, IsObj
  <2>2. ASSUME NEW s \in Threads, s # t, WillCache(s)
        PROVE  \/ /\ table'[File(s)][w[s].h] = Null /\ pc'[t] = "uncache"
                  /\ File(t)' = File(s) /\ w'[t].h = w[s].h
               \/ table'[File(s)][w[s].h] = table[File(s)][w[s].h] /\ pc[t] # "uncache"
    BY <1>15, <2>2 DEF WillCache, ReleaseHandle, IsObj
  <2>3. ~WillCache(t)'
    BY <1>15 DEF WillCache, ReleaseHandle, IsObj
  <2> QED
    BY <2>1, <2>2, <2>3, KeptByOthers
<1>16. ASSUME NEW t \in Threads, FlinkName(t) PROVE HandleKept'
  <2>1. OnlyThread(t)
    BY <1>16 DEF OnlyThread, FlinkName, HasHandles
  <2>2. table' = table /\ pc[t] # "uncache" /\ (WillCache(t)' => WillCache(t) /\ w'[t] = w[t])
    BY <1>16 DEF WillCache, FlinkName, HasHandles
  <2> QED
    BY <2>1, <2>2, KeptSame
<1>17. ASSUME NEW t \in Threads, ToFdCached(t) PROVE HandleKept'
  <2>1. OnlyThread(t)
    BY <1>17 DEF OnlyThread, ToFdCached, Cached, Members
  <2>2. table' = table /\ pc[t] # "uncache" /\ (WillCache(t)' => WillCache(t) /\ w'[t] = w[t])
    BY <1>17 DEF WillCache, ToFdCached, Cached, Members
  <2> QED
    BY <2>1, <2>2, KeptSame
<1>18. ASSUME NEW t \in Threads, NEW b \in Bufs, ToFdKnown(t, b) PROVE HandleKept'
  <2>1. OnlyThread(t)
    BY <1>18 DEF OnlyThread, ToFdKnown, IsKnown, CacheAdd, CacheRefs
  <2>2. table' = table /\ pc[t] # "uncache" /\ (WillCache(t)' => WillCache(t) /\ w'[t] = w[t])
    BY <1>18 DEF WillCache, ToFdKnown, IsKnown, CacheAdd, CacheRefs
  <2> QED
    BY <2>1, <2>2, KeptSame
<1>19. ASSUME NEW t \in Threads, NEW b \in Bufs, ToFdUncached(t, b) PROVE HandleKept'
  <2>1. OnlyThread(t)
    BY <1>19 DEF OnlyThread, ToFdUncached, IsKnown
  <2>2. table' = table /\ pc[t] # "uncache" /\ (WillCache(t)' => WillCache(t) /\ w'[t] = w[t])
    BY <1>19 DEF WillCache, ToFdUncached, IsKnown
  <2> QED
    BY <2>1, <2>2, KeptSame
<1>20. ASSUME NEW t \in Threads, ExportFails(t) PROVE HandleKept'
  <2>1. OnlyThread(t)
    BY <1>20 DEF OnlyThread, ExportFails, MayExport
  <2>2. table' = table /\ pc[t] # "uncache" /\ (WillCache(t)' => WillCache(t) /\ w'[t] = w[t])
    BY <1>20 DEF WillCache, ExportFails, MayExport
  <2> QED
    BY <2>1, <2>2, KeptSame
<1>21. ASSUME NEW t \in Threads, InstallFd(t) PROVE HandleKept'
  <2>1. OnlyThread(t)
    BY <1>21 DEF OnlyThread, AsksFd, InstallFd
  <2>2. table' = table /\ pc[t] # "uncache" /\ (WillCache(t)' => WillCache(t) /\ w'[t] = w[t])
    BY <1>21 DEF WillCache, AsksFd, InstallFd
  <2> QED
    BY <2>1, <2>2, KeptSame
<1>21a. ASSUME NEW t \in Threads, FdFails(t) PROVE HandleKept'
  <2>1. OnlyThread(t)
    BY <1>21a DEF OnlyThread, AsksFd, FdFails
  <2>2. table' = table /\ pc[t] # "uncache" /\ (WillCache(t)' => WillCache(t) /\ w'[t] = w[t])
    BY <1>21a DEF WillCache, AsksFd, FdFails
  <2> QED
    BY <2>1, <2>2, KeptSame
<1>22. ASSUME NEW t \in Threads, PutUncached(t) PROVE HandleKept'
  <2>1. OnlyThread(t)
    BY <1>22 DEF OnlyThread, PutUncached, BufPut
  <2>2. table' = table /\ pc[t] # "uncache" /\ (WillCache(t)' => WillCache(t) /\ w'[t] = w[t])
    BY <1>22 DEF WillCache, PutUncached, BufPut
  <2> QED
    BY <2>1, <2>2, KeptSame
<1>23. ASSUME NEW t \in Threads, NEW b \in Bufs, Export(t, b) PROVE HandleKept'
  <2>1. OnlyThread(t)
    BY <1>23 DEF OnlyThread, Export, HasHandles, Exported, MayExport, CacheAdd, CacheRefs
  <2>2. table' = table /\ pc[t] # "uncache" /\ (WillCache(t)' => WillCache(t) /\ w'[t] = w[t])
    BY <1>23 DEF WillCache, Export, HasHandles, Exported, MayExport, CacheAdd, CacheRefs
  <2> QED
    BY <2>1, <2>2, KeptSame
<1>24. ASSUME NEW t \in Threads, NEW b \in Bufs, ExportUncached(t, b) PROVE HandleKept'
  <2>1. OnlyThread(t)
    BY <1>24 DEF OnlyThread, ExportUncached, HasHandles, Exported, MayExport
  <2>2. table' = table /\ pc[t] # "uncache" /\ (WillCache(t)' => WillCache(t) /\ w'[t] = w[t])
    BY <1>24 DEF WillCache, ExportUncached, HasHandles, Exported, MayExport
  <2> QED
    BY <2>1, <2>2, KeptSame
<1>25. ASSUME NEW t \in Threads, ImportSeen(t) PROVE HandleKept'
  <2>1. OnlyThread(t)
    BY <1>25 DEF OnlyThread, ImportSeen
  <2>2. table' = table /\ pc[t] # "uncache" /\ (WillCache(t)' => WillCache(t) /\ w'[t] = w[t])
    BY <1>25 DEF WillCache, ImportSeen
  <2> QED
    BY <2>1, <2>2, KeptSame
<1>26. ASSUME NEW t \in Threads, ImportFails(t) PROVE HandleKept'
  <2>1. OnlyThread(t)
    BY <1>26 DEF OnlyThread, ImportFails, Imports
  <2>2. table' = table /\ pc[t] # "uncache" /\ (WillCache(t)' => WillCache(t) /\ w'[t] = w[t])
    BY <1>26 DEF WillCache, ImportFails, Imports
  <2> QED
    BY <2>1, <2>2, KeptSame
<1>27. ASSUME NEW t \in Threads, ImportCache(t) PROVE HandleKept'
  <2>1. OnlyThread(t)
    BY <1>27 DEF OnlyThread, ImportCache, CacheAdd, CacheRefs
  <2>2. table' = table /\ pc[t] # "uncache" /\ (WillCache(t)' => WillCache(t) /\ w'[t] = w[t])
    BY <1>27 DEF WillCache, ImportCache, CacheAdd, CacheRefs
  <2> QED
    BY <2>1, <2>2, KeptSame
<1>28. ASSUME NEW t \in Threads, ImportNoCache(t) PROVE HandleKept'
  <2>1. OnlyThread(t)
    BY <1>28 DEF OnlyThread, ImportNoCache
  <2>2. table' = table /\ pc[t] # "uncache" /\ (WillCache(t)' => WillCache(t) /\ w'[t] = w[t])
    BY <1>28 DEF WillCache, ImportNoCache
  <2> QED
    BY <2>1, <2>2, KeptSame
<1>29. ASSUME NEW t \in Threads, ImportDelete(t) PROVE HandleKept'
  <2>1. OnlyThread(t)
    BY <1>29 DEF OnlyThread, ImportDelete, IsObj, Replaced
  <2>2. ASSUME NEW s \in Threads, s # t, WillCache(s)
        PROVE  \/ /\ table'[File(s)][w[s].h] = Null /\ pc'[t] = "uncache"
                  /\ File(t)' = File(s) /\ w'[t].h = w[s].h
               \/ table'[File(s)][w[s].h] = table[File(s)][w[s].h] /\ pc[t] # "uncache"
    BY <1>29, <2>2 DEF WillCache, ImportDelete, IsObj, Replaced
  <2>3. ~WillCache(t)'
    BY <1>29 DEF WillCache, ImportDelete, IsObj, Replaced
  <2> QED
    BY <2>1, <2>2, <2>3, KeptByOthers
<1>30. ASSUME NEW t \in Threads, ImportDeleted(t) PROVE HandleKept'
  <2>1. OnlyThread(t)
    BY <1>30 DEF OnlyThread, ImportDeleted
  <2>2. table' = table /\ pc[t] # "uncache" /\ (WillCache(t)' => WillCache(t) /\ w'[t] = w[t])
    BY <1>30 DEF WillCache, ImportDeleted
  <2> QED
    BY <2>1, <2>2, KeptSame
<1>31. ASSUME NEW t \in Threads, ImportPut(t) PROVE HandleKept'
  <2>1. OnlyThread(t)
    BY <1>31 DEF OnlyThread, ImportPut, BufPut
  <2>2. table' = table /\ pc[t] # "uncache" /\ (WillCache(t)' => WillCache(t) /\ w'[t] = w[t])
    BY <1>31 DEF WillCache, ImportPut, BufPut
  <2> QED
    BY <2>1, <2>2, KeptSame
<1>32. ASSUME NEW t \in Threads, NEW f \in Files, NEW h \in Handles, Close(t, f, h)
       PROVE  HandleKept'
  <2>1. OnlyThread(t)
    BY <1>32 DEF OnlyThread, Close, Calls, Names, IsObj, Replaced
  <2>2. ASSUME NEW s \in Threads, s # t, WillCache(s)
        PROVE  \/ /\ table'[File(s)][w[s].h] = Null /\ pc'[t] = "uncache"
                  /\ File(t)' = File(s) /\ w'[t].h = w[s].h
               \/ table'[File(s)][w[s].h] = table[File(s)][w[s].h] /\ pc[t] # "uncache"
    BY <1>32, <2>2 DEF WillCache, Close, Calls, Names, IsObj, Replaced
  <2>3. ~WillCache(t)'
    BY <1>32 DEF WillCache, Close, Calls, Names, IsObj, Replaced
  <2> QED
    BY <2>1, <2>2, <2>3, KeptByOthers
<1>33. ASSUME NEW t \in Threads, NEW f \in Files, NEW h \in Handles, Flink(t, f, h)
       PROVE  HandleKept'
  <2>1. OnlyThread(t)
    BY <1>33 DEF OnlyThread, Flink, Lookup, Calls, Names, IsObj
  <2>2. table' = table /\ pc[t] # "uncache" /\ (WillCache(t)' => WillCache(t) /\ w'[t] = w[t])
    BY <1>33 DEF WillCache, Flink, Lookup, Calls, Names, IsObj
  <2> QED
    BY <2>1, <2>2, KeptSame
<1>34. ASSUME NEW t \in Threads, NEW f \in Files, NEW h \in Handles, ToFd(t, f, h)
       PROVE  HandleKept'
  <2>1. OnlyThread(t)
    BY <1>34 DEF OnlyThread, ToFd, Lookup, Calls, Names, IsObj
  <2>2. ASSUME NEW s \in Threads, s # t, WillCache(s)
        PROVE  table'[File(s)][w[s].h] = table[File(s)][w[s].h] /\ pc[t] # "uncache"
    BY <1>34, <2>2 DEF WillCache, ToFd, Lookup, Calls, Names, IsObj
  <2>3. StillThere(File(t), w[t].h, Obj(t))'
    BY <1>34 DEF WillCache, StillThere, ToFd, Lookup, Calls, Names, IsObj
  <2> QED
    BY <2>1, <2>2, <2>3, KeptByOthers
<1>35. ASSUME NEW t \in Threads, NEW f \in Files, NEW h \in Handles, AddFb(t, f, h)
       PROVE  HandleKept'
  <2>1. OnlyThread(t)
    BY <1>35 DEF OnlyThread, AddFb, Calls, Names, IsObj
  <2>2. table' = table /\ pc[t] # "uncache" /\ (WillCache(t)' => WillCache(t) /\ w'[t] = w[t])
    BY <1>35 DEF WillCache, AddFb, Calls, Names, IsObj
  <2> QED
    BY <2>1, <2>2, KeptSame
<1>36. ASSUME NEW t \in Threads, NEW f \in Files, NEW b \in Bufs, FdToHandle(t, f, b)
       PROVE  HandleKept'
  <2>1. OnlyThread(t)
    BY <1>36 DEF OnlyThread, FdToHandle, Calls
  <2>2. table' = table /\ pc[t] # "uncache" /\ (WillCache(t)' => WillCache(t) /\ w'[t] = w[t])
    BY <1>36 DEF WillCache, FdToHandle, Calls
  <2> QED
    BY <2>1, <2>2, KeptSame
<1>37. ASSUME NEW t \in Threads, NEW f \in Files, ReleaseFile(t, f) PROVE HandleKept'
  <2>1. OnlyThread(t)
    BY <1>37 DEF OnlyThread, ReleaseFile, Calls
  <2>2. table' = table /\ pc[t] # "uncache" /\ (WillCache(t)' => WillCache(t) /\ w'[t] = w[t])
    BY <1>37 DEF WillCache, ReleaseFile, Calls
  <2> QED
    BY <2>1, <2>2, KeptSame
<1>38. ASSUME NEW b \in Bufs, CloseFd(b) PROVE HandleKept'
  BY <1>38 DEF HandleKept, WillCache, StillThere, CloseFd, BufPut
<1>39. ASSUME NEW o \in Objs, RmFb(o) PROVE HandleKept'
  BY <1>39 DEF HandleKept, WillCache, StillThere, RmFb, ObjPut
<1> HIDE GemAssumption DEF TypeOK, LocalInv, Local, File, Obj, Buf, Ok, Calling, NoCall, Locals,
        Goto, Return, objVars, bufVars, fileVars, Error
<1> QED
  BY Zenon, <1>1, <1>2, <1>3, <1>4, <1>5, <1>6, <1>7, <1>8, <1>9, <1>10, <1>11, <1>12, <1>13, <1>14,
      <1>15, <1>16, <1>17, <1>18, <1>19, <1>20, <1>21, <1>21a, <1>22, <1>23, <1>24, <1>25, <1>26,
      <1>27, <1>28, <1>29, <1>30, <1>31, <1>32, <1>33, <1>34, <1>35, <1>36, <1>37, <1>38, <1>39 DEF Next, Step, Call

----------------------------------------------------------------------------
(* The caches, part by part                                                *)

Waits(t, f, h) == pc[t] = "uncache" /\ File(t) = f /\ w[t].h = h
Paired(f, m) ==
  \/ IsObj(table[f][m[1]]) /\ (priv[m[2]] = table[f][m[1]] \/ attach[table[f][m[1]]] = m[2])
  \/ table[f][m[1]] = Null /\ \E t \in Threads : Waits(t, f, m[1])

CachePaired  == \A f \in Files : \A m \in cache[f] : Paired(f, m)
CacheUnique  == \A f \in Files : \A m, n \in cache[f] : m[1] = n[1] => m = n
CacheEmptied ==
  \A f \in Files : f \notin fopen /\ (\A t \in Threads : File(t) # f) => cache[f] = {}

LEMMA CacheParts == CacheSound <=> CachePaired /\ CacheUnique /\ CacheEmptied
BY DEF CacheSound, CachePaired, CacheUnique, CacheEmptied, Paired, Waits

\* A handle that is free is in no cache.
LEMMA FreeNotCached ==
  ASSUME CachePaired, NEW f \in Files, NEW h, table[f][h] = Free
  PROVE  Members(f, h) = {}
BY DEF CachePaired, Paired, Members, IsObj, Null, Free

\* A step of t, for the handles in the caches: t leaves them alone, or begins to take
\* them out, or they are of the right object, or another thread is taking them out.
LeavesPaired(t) ==
  /\ OnlyThread(t)
  /\ \A o \in Objs : attach[o] # None => attach'[o] = attach[o]
  /\ \A b \in Bufs : priv[b] # None => priv'[b] = priv[b]
  /\ \A f \in Files : \A m \in cache'[f] :
       \/ /\ m \in cache[f] /\ table'[f][m[1]] = table[f][m[1]]
          /\ ~(pc[t] = "uncache" /\ w[t].file = f /\ w[t].h = m[1])
       \/ table'[f][m[1]] = Null /\ pc'[t] = "uncache" /\ w'[t].file = f /\ w'[t].h = m[1]
       \/ /\ IsObj(table'[f][m[1]])
          /\ priv'[m[2]] = table'[f][m[1]] \/ attach'[table'[f][m[1]]] = m[2]
       \/ /\ table'[f][m[1]] = Null
          /\ \E u \in Threads : u # t /\ pc[u] = "uncache" /\ w[u].file = f /\ w[u].h = m[1]

LEMMA PairedBy ==
  ASSUME TypeOK, CachePaired, NEW t \in Threads, LeavesPaired(t)
  PROVE  CachePaired'
<1>1. ASSUME NEW f \in Files, NEW m \in cache'[f] PROVE Paired(f, m)'
  <2>1. CASE /\ IsObj(table'[f][m[1]])
             /\ priv'[m[2]] = table'[f][m[1]] \/ attach'[table'[f][m[1]]] = m[2]
    BY <2>1 DEF Paired, IsObj
  <2>2. CASE table'[f][m[1]] = Null /\ pc'[t] = "uncache" /\ w'[t].file = f /\ w'[t].h = m[1]
    BY <2>2 DEF Paired, Waits, File
  <2>3. ASSUME NEW u \in Threads, u # t, pc[u] = "uncache", w[u].file = f, w[u].h = m[1],
               table'[f][m[1]] = Null
        PROVE  Paired(f, m)'
    <3>1. pc'[u] = pc[u] /\ w'[u] = w[u]
      BY <2>3 DEF LeavesPaired, OnlyThread
    <3> QED
      BY <2>3, <3>1 DEF Paired, Waits, File
  <2>4. CASE /\ m \in cache[f] /\ table'[f][m[1]] = table[f][m[1]]
             /\ ~(pc[t] = "uncache" /\ w[t].file = f /\ w[t].h = m[1])
    <3>1. m[1] \in Handles /\ m[2] \in Bufs
      BY <2>4 DEF TypeOK
    <3>2. table[f][m[1]] \in Objs \cup {Null, Free}
      BY <3>1 DEF TypeOK
    <3>3. Paired(f, m)
      BY <2>4 DEF CachePaired
    <3>4. CASE IsObj(table[f][m[1]]) /\ priv[m[2]] = table[f][m[1]]
      <4>1. priv[m[2]] # None
        BY <3>2, <3>4, GemAssumption DEF IsObj
      <4> QED
        BY <2>4, <3>1, <3>4, <4>1 DEF Paired, IsObj, LeavesPaired
    <3>5. CASE IsObj(table[f][m[1]]) /\ attach[table[f][m[1]]] = m[2]
      <4>1. table[f][m[1]] \in Objs /\ m[2] # None
        BY <3>1, <3>2, <3>5, GemAssumption DEF IsObj
      <4> QED
        BY <2>4, <3>5, <4>1 DEF Paired, IsObj, LeavesPaired
    <3>6. ASSUME NEW u \in Threads, Waits(u, f, m[1]), table[f][m[1]] = Null
          PROVE  Paired(f, m)'
      <4>1. pc'[u] = pc[u] /\ w'[u] = w[u]
        BY <2>4, <3>6 DEF LeavesPaired, OnlyThread, Waits, File
      <4> QED
        BY <2>4, <3>6, <4>1 DEF Paired, Waits, File
    <3> QED
      BY <3>3, <3>4, <3>5, <3>6 DEF Paired
  <2> QED
    BY <2>1, <2>2, <2>3, <2>4 DEF LeavesPaired
<1> QED
  BY <1>1 DEF CachePaired

----------------------------------------------------------------------------
(* New handles are in no cache                                             *)

\* A step of t, which adds at most its own handle h to the cache of file f.
AddsAtMost(t, f, h) ==
  /\ OnlyThread(t)
  /\ \A g \in Files : \A m \in cache'[g] : m \in cache[g] \/ (g = f /\ m[1] = h)
  /\ \A s \in Threads : s # t /\ Fresh(s) => File(s) # f \/ w[s].h # h

LEMMA NotCachedBy ==
  ASSUME NotCached, NEW t \in Threads, NEW f, NEW h, AddsAtMost(t, f, h),
         \A s \in Threads : Fresh(s) => File(s) \in Files /\ w[s].h \in Handles,
         Fresh(t)' => \A m \in cache'[w'[t].file] : m[1] # w'[t].h
  PROVE  NotCached'
<1>1. ASSUME NEW s \in Threads, s # t, Fresh(s)' PROVE Members(File(s), w[s].h)' = {}
  <2>1. Fresh(s) /\ w'[s] = w[s]
    BY <1>1 DEF AddsAtMost, OnlyThread, Fresh, WillCache, File
  <2>2. Members(File(s), w[s].h) = {} /\ File(s) \in Files
    BY <2>1 DEF NotCached
  <2>3. \A m \in cache'[File(s)] : m[1] # w[s].h
    BY <1>1, <2>1, <2>2 DEF Members, AddsAtMost
  <2> QED
    BY <2>1, <2>3 DEF File, Members
<1>2. ASSUME Fresh(t)' PROVE Members(File(t), w[t].h)' = {}
  BY <1>2 DEF Members, File
<1> QED
  BY <1>1, <1>2 DEF NotCached

LEMMA NotCachedStep ==
  ASSUME TypeOK, LocalInv, HandleInv, LockHeld, NotCached, CachePaired, Next PROVE NotCached'
<1>0. \A s \in Threads : Fresh(s) => File(s) \in Files /\ w[s].h \in Handles
  BY DEF Fresh, WillCache, LocalInv, Local
<1> USE GemAssumption DEF TypeOK, LocalInv, Local, File, Obj, Buf, Ok, Calling, NoCall, Locals,
        Goto, Return, objVars, bufVars, fileVars, Error
<1>1. ASSUME NEW t \in Threads, NEW f \in Files, NEW o \in Objs, Create(t, f, o)
      PROVE  NotCached'
  <2>1. \/ \E h \in Handles : Published(t, f, o, 1, "create", None, h)
        \/ Unpublished(t, f, o, 1, "create", None)
    BY <1>1, PublishCases DEF Create, Calls
  <2>2. CASE Unpublished(t, f, o, 1, "create", None)
    <3>1. AddsAtMost(t, None, 0)
      BY <1>1, <2>2 DEF AddsAtMost, OnlyThread, Fresh, WillCache, Unpublished, Create, Calls
    <3>2. ~Fresh(t)'
      BY <1>1, <2>2 DEF Fresh, WillCache, Unpublished, Create, Calls
    <3> QED
      BY <1>0, <3>1, <3>2, NotCachedBy
  <2>3. ASSUME NEW h \in Handles, Published(t, f, o, 1, "create", None, h)
        PROVE  NotCached'
    <3>0. f \in Files /\ Members(f, h) = {} /\ cache' = cache
      BY <1>1, <2>3, FreeNotCached DEF Published, Create, Calls
    <3>1. AddsAtMost(t, None, 0)
      BY <1>1, <2>3, <3>0 DEF AddsAtMost, OnlyThread, Fresh, WillCache, Published, Create, Calls
    <3>2. \A m \in cache'[w'[t].file] : m[1] # w'[t].h
      BY <1>1, <2>3, <3>0 DEF Members, Fresh, WillCache, Published, Create, Calls
    <3> QED
      BY <1>0, <3>1, <3>2, NotCachedBy
  <2> QED
    BY <2>1, <2>2, <2>3
<1>2. ASSUME NEW t \in Threads, NEW f \in Files, NEW o \in Objs, OpenName(t, f, o)
      PROVE  NotCached'
  <2>1. \/ \E h \in Handles : Published(t, f, o, ref[o] + 1, "open", None, h)
        \/ Unpublished(t, f, o, ref[o] + 1, "open", None)
    BY <1>2, PublishCases DEF OpenName, Calls
  <2>2. CASE Unpublished(t, f, o, ref[o] + 1, "open", None)
    <3>1. AddsAtMost(t, None, 0)
      BY <1>2, <2>2 DEF AddsAtMost, OnlyThread, Fresh, WillCache, Unpublished, OpenName, Calls
    <3>2. ~Fresh(t)'
      BY <1>2, <2>2 DEF Fresh, WillCache, Unpublished, OpenName, Calls
    <3> QED
      BY <1>0, <3>1, <3>2, NotCachedBy
  <2>3. ASSUME NEW h \in Handles, Published(t, f, o, ref[o] + 1, "open", None, h)
        PROVE  NotCached'
    <3>0. f \in Files /\ Members(f, h) = {} /\ cache' = cache
      BY <1>2, <2>3, FreeNotCached DEF Published, OpenName, Calls
    <3>1. AddsAtMost(t, None, 0)
      BY <1>2, <2>3, <3>0 DEF AddsAtMost, OnlyThread, Fresh, WillCache, Published, OpenName,
           Calls
    <3>2. \A m \in cache'[w'[t].file] : m[1] # w'[t].h
      BY <1>2, <2>3, <3>0 DEF Members, Fresh, WillCache, Published, OpenName, Calls
    <3> QED
      BY <1>0, <3>1, <3>2, NotCachedBy
  <2> QED
    BY <2>1, <2>2, <2>3
<1>3. ASSUME NEW t \in Threads, NEW f \in Files, NEW o \in Objs, GetFb(t, f, o) PROVE NotCached'
  <2>1. \/ \E h \in Handles : Published(t, f, o, ref[o] + 1, "getfb", None, h)
        \/ Unpublished(t, f, o, ref[o] + 1, "getfb", None)
    BY <1>3, PublishCases DEF GetFb, Calls
  <2>2. CASE Unpublished(t, f, o, ref[o] + 1, "getfb", None)
    <3>1. AddsAtMost(t, None, 0)
      BY <1>3, <2>2 DEF AddsAtMost, OnlyThread, Fresh, WillCache, Unpublished, GetFb, Calls
    <3>2. ~Fresh(t)'
      BY <1>3, <2>2 DEF Fresh, WillCache, Unpublished, GetFb, Calls
    <3> QED
      BY <1>0, <3>1, <3>2, NotCachedBy
  <2>3. ASSUME NEW h \in Handles, Published(t, f, o, ref[o] + 1, "getfb", None, h)
        PROVE  NotCached'
    <3>0. f \in Files /\ Members(f, h) = {} /\ cache' = cache
      BY <1>3, <2>3, FreeNotCached DEF Published, GetFb, Calls
    <3>1. AddsAtMost(t, None, 0)
      BY <1>3, <2>3, <3>0 DEF AddsAtMost, OnlyThread, Fresh, WillCache, Published, GetFb, Calls
    <3>2. \A m \in cache'[w'[t].file] : m[1] # w'[t].h
      BY <1>3, <2>3, <3>0 DEF Members, Fresh, WillCache, Published, GetFb, Calls
    <3> QED
      BY <1>0, <3>1, <3>2, NotCachedBy
  <2> QED
    BY <2>1, <2>2, <2>3
<1>4. ASSUME NEW t \in Threads, ImportOwn(t) PROVE NotCached'
  <2>0. PICK f \in Files, o \in Objs, b \in Bufs : OwnTaken(t, f, o, b) /\ OwnEnds(t, f, o, b)
    BY <1>4, ImportOwnCases
  <2>1. OwnTaken(t, f, o, b)
    BY <2>0
  <2>2. CASE Unpublished(t, f, o, ref[o] + 1, "import", b)
    <3>1. AddsAtMost(t, None, 0)
      BY <2>1, <2>2 DEF AddsAtMost, OnlyThread, Fresh, WillCache, Unpublished, OwnTaken
    <3>2. ~Fresh(t)'
      BY <2>1, <2>2 DEF Fresh, WillCache, Unpublished, OwnTaken
    <3> QED
      BY <1>0, <3>1, <3>2, NotCachedBy
  <2>3. ASSUME NEW h \in Handles, Published(t, f, o, ref[o] + 1, "import", b, h)
        PROVE  NotCached'
    <3>0. f \in Files /\ Members(f, h) = {} /\ cache' = cache
      BY <2>1, <2>3, FreeNotCached DEF Published, OwnTaken
    <3>1. AddsAtMost(t, None, 0)
      BY <2>1, <2>3, <3>0 DEF AddsAtMost, OnlyThread, Fresh, WillCache, Published, OwnTaken
    <3>2. \A m \in cache'[w'[t].file] : m[1] # w'[t].h
      BY <2>1, <2>3, <3>0 DEF Members, Fresh, WillCache, Published, OwnTaken
    <3> QED
      BY <1>0, <3>1, <3>2, NotCachedBy
  <2> QED
    BY <2>0, <2>2, <2>3 DEF OwnEnds
<1>5. ASSUME NEW t \in Threads, NEW o \in Objs, ImportForeign(t, o) PROVE NotCached'
  <2>1. \/ \E h \in Handles : Published(t, File(t), o, 1, "import", Buf(t), h)
        \/ Unpublished(t, File(t), o, 1, "import", Buf(t))
    BY <1>5, PublishCases DEF ImportForeign, Imports
  <2>2. CASE Unpublished(t, File(t), o, 1, "import", Buf(t))
    <3>1. AddsAtMost(t, None, 0)
      BY <1>5, <2>2 DEF AddsAtMost, OnlyThread, Fresh, WillCache, Unpublished, ImportForeign,
           Imports
    <3>2. ~Fresh(t)'
      BY <1>5, <2>2 DEF Fresh, WillCache, Unpublished, ImportForeign, Imports
    <3> QED
      BY <1>0, <3>1, <3>2, NotCachedBy
  <2>3. ASSUME NEW h \in Handles, Published(t, File(t), o, 1, "import", Buf(t), h)
        PROVE  NotCached'
    <3>0. File(t) \in Files /\ Members(File(t), h) = {} /\ cache' = cache
      BY <1>5, <2>3, FreeNotCached DEF Published, ImportForeign, Imports
    <3>1. AddsAtMost(t, None, 0)
      BY <1>5, <2>3, <3>0 DEF AddsAtMost, OnlyThread, Fresh, WillCache, Published,
           ImportForeign, Imports
    <3>2. \A m \in cache'[w'[t].file] : m[1] # w'[t].h
      BY <1>5, <2>3, <3>0 DEF Members, Fresh, WillCache, Published, ImportForeign, Imports
    <3> QED
      BY <1>0, <3>1, <3>2, NotCachedBy
  <2> QED
    BY <2>1, <2>2, <2>3
<1>6. ASSUME NEW t \in Threads, OpenFails(t) PROVE NotCached'
  <2>1. AddsAtMost(t, None, 0)
    BY <1>6 DEF AddsAtMost, OnlyThread, Fresh, WillCache, OpenFails, AfterRemove
  <2>2. ~Fresh(t)'
    BY <1>6 DEF Fresh, WillCache, OpenFails, AfterRemove
  <2> QED
    BY <1>0, <2>1, <2>2, NotCachedBy
<1>7. ASSUME NEW t \in Threads, PutObj(t) PROVE NotCached'
  <2>1. AddsAtMost(t, None, 0)
    BY <1>7 DEF AddsAtMost, OnlyThread, Fresh, WillCache, PutObj, ObjPut
  <2>2. Fresh(t)' => \A m \in cache'[w'[t].file] : m[1] # w'[t].h
    BY <1>7 DEF NotCached, Members, Fresh, WillCache, PutObj, ObjPut
  <2> QED
    BY <1>0, <2>1, <2>2, NotCachedBy
<1>8. ASSUME NEW t \in Threads, Uncache(t) PROVE NotCached'
  <2>1. AddsAtMost(t, None, 0)
    BY <1>8 DEF AddsAtMost, OnlyThread, Fresh, WillCache, Uncache, BufPut, Members
  <2>2. ~Fresh(t)'
    BY <1>8 DEF Fresh, WillCache, Uncache, BufPut, Members
  <2> QED
    BY <1>0, <2>1, <2>2, NotCachedBy
<1>9. ASSUME NEW t \in Threads, UncacheNothing(t) PROVE NotCached'
  <2>1. AddsAtMost(t, None, 0)
    BY <1>9 DEF AddsAtMost, OnlyThread, Fresh, WillCache, UncacheNothing, Members
  <2>2. ~Fresh(t)'
    BY <1>9 DEF Fresh, WillCache, UncacheNothing, Members
  <2> QED
    BY <1>0, <2>1, <2>2, NotCachedBy
<1>10. ASSUME NEW t \in Threads, HandlePut(t) PROVE NotCached'
  <2>1. AddsAtMost(t, None, 0)
    BY <1>10 DEF AddsAtMost, OnlyThread, Fresh, WillCache, HandlePut, AfterPut
  <2>2. ~Fresh(t)'
    BY <1>10 DEF Fresh, WillCache, HandlePut, AfterPut
  <2> QED
    BY <1>0, <2>1, <2>2, NotCachedBy
<1>11. ASSUME NEW t \in Threads, LastHandlePut(t) PROVE NotCached'
  <2>1. AddsAtMost(t, None, 0)
    BY <1>11 DEF AddsAtMost, OnlyThread, Fresh, WillCache, LastHandlePut, BufPut
  <2>2. ~Fresh(t)'
    BY <1>11 DEF Fresh, WillCache, LastHandlePut, BufPut
  <2> QED
    BY <1>0, <2>1, <2>2, NotCachedBy
<1>12. ASSUME NEW t \in Threads, FinalPut(t) PROVE NotCached'
  <2>1. AddsAtMost(t, None, 0)
    BY <1>12 DEF AddsAtMost, OnlyThread, Fresh, WillCache, FinalPut, ObjPut, AfterPut
  <2>2. ~Fresh(t)'
    BY <1>12 DEF Fresh, WillCache, FinalPut, ObjPut, AfterPut
  <2> QED
    BY <1>0, <2>1, <2>2, NotCachedBy
<1>13. ASSUME NEW t \in Threads, Unreserve(t) PROVE NotCached'
  <2>1. AddsAtMost(t, None, 0)
    BY <1>13 DEF AddsAtMost, OnlyThread, Fresh, WillCache, Unreserve
  <2>2. ~Fresh(t)'
    BY <1>13 DEF Fresh, WillCache, Unreserve
  <2> QED
    BY <1>0, <2>1, <2>2, NotCachedBy
<1>14. ASSUME NEW t \in Threads, Released(t) PROVE NotCached'
  <2>1. AddsAtMost(t, None, 0)
    BY <1>14 DEF AddsAtMost, OnlyThread, Fresh, WillCache, Released
  <2>2. ~Fresh(t)'
    BY <1>14 DEF Fresh, WillCache, Released
  <2> QED
    BY <1>0, <2>1, <2>2, NotCachedBy
<1>15. ASSUME NEW t \in Threads, NEW h \in Handles, ReleaseHandle(t, h) PROVE NotCached'
  <2>1. AddsAtMost(t, None, 0)
    BY <1>15 DEF AddsAtMost, OnlyThread, Fresh, WillCache, ReleaseHandle, IsObj
  <2>2. ~Fresh(t)'
    BY <1>15 DEF Fresh, WillCache, ReleaseHandle, IsObj
  <2> QED
    BY <1>0, <2>1, <2>2, NotCachedBy
<1>16. ASSUME NEW t \in Threads, FlinkName(t) PROVE NotCached'
  <2>1. AddsAtMost(t, None, 0)
    BY <1>16 DEF AddsAtMost, OnlyThread, Fresh, WillCache, FlinkName, HasHandles
  <2>2. ~Fresh(t)'
    BY <1>16 DEF Fresh, WillCache, FlinkName, HasHandles
  <2> QED
    BY <1>0, <2>1, <2>2, NotCachedBy
<1>17. ASSUME NEW t \in Threads, ToFdCached(t) PROVE NotCached'
  <2>1. AddsAtMost(t, None, 0)
    BY <1>17 DEF AddsAtMost, OnlyThread, Fresh, WillCache, ToFdCached, Cached, Members
  <2>2. ~Fresh(t)'
    BY <1>17 DEF Fresh, WillCache, ToFdCached, Cached, Members
  <2> QED
    BY <1>0, <2>1, <2>2, NotCachedBy
<1>18. ASSUME NEW t \in Threads, NEW b \in Bufs, ToFdKnown(t, b) PROVE NotCached'
  <2>1. AddsAtMost(t, File(t), w[t].h)
    BY <1>18 DEF AddsAtMost, OnlyThread, HandleInv, Makes, Uses, Same, LockHeld, HasLock,
         Fresh, WillCache, ToFdKnown, IsKnown, CacheAdd, CacheRefs
  <2>2. ~Fresh(t)'
    BY <1>18 DEF Fresh, WillCache, ToFdKnown, IsKnown, CacheAdd, CacheRefs
  <2> QED
    BY <1>0, <2>1, <2>2, NotCachedBy
<1>19. ASSUME NEW t \in Threads, NEW b \in Bufs, ToFdUncached(t, b) PROVE NotCached'
  <2>1. AddsAtMost(t, None, 0)
    BY <1>19 DEF AddsAtMost, OnlyThread, Fresh, WillCache, ToFdUncached, IsKnown
  <2>2. ~Fresh(t)'
    BY <1>19 DEF Fresh, WillCache, ToFdUncached, IsKnown
  <2> QED
    BY <1>0, <2>1, <2>2, NotCachedBy
<1>20. ASSUME NEW t \in Threads, ExportFails(t) PROVE NotCached'
  <2>1. AddsAtMost(t, None, 0)
    BY <1>20 DEF AddsAtMost, OnlyThread, Fresh, WillCache, ExportFails, MayExport
  <2>2. ~Fresh(t)'
    BY <1>20 DEF Fresh, WillCache, ExportFails, MayExport
  <2> QED
    BY <1>0, <2>1, <2>2, NotCachedBy
<1>21. ASSUME NEW t \in Threads, InstallFd(t) PROVE NotCached'
  <2>1. AddsAtMost(t, None, 0)
    BY <1>21 DEF AddsAtMost, OnlyThread, Fresh, WillCache, AsksFd, InstallFd
  <2>2. ~Fresh(t)'
    BY <1>21 DEF Fresh, WillCache, AsksFd, InstallFd
  <2> QED
    BY <1>0, <2>1, <2>2, NotCachedBy
<1>21a. ASSUME NEW t \in Threads, FdFails(t) PROVE NotCached'
  <2>1. AddsAtMost(t, None, 0)
    BY <1>21a DEF AddsAtMost, OnlyThread, Fresh, WillCache, AsksFd, FdFails
  <2>2. ~Fresh(t)'
    BY <1>21a DEF Fresh, WillCache, AsksFd, FdFails
  <2> QED
    BY <1>0, <2>1, <2>2, NotCachedBy
<1>22. ASSUME NEW t \in Threads, PutUncached(t) PROVE NotCached'
  <2>1. AddsAtMost(t, None, 0)
    BY <1>22 DEF AddsAtMost, OnlyThread, Fresh, WillCache, PutUncached, BufPut
  <2>2. ~Fresh(t)'
    BY <1>22 DEF Fresh, WillCache, PutUncached, BufPut
  <2> QED
    BY <1>0, <2>1, <2>2, NotCachedBy
<1>23. ASSUME NEW t \in Threads, NEW b \in Bufs, Export(t, b) PROVE NotCached'
  <2>1. AddsAtMost(t, File(t), w[t].h)
    BY <1>23 DEF AddsAtMost, OnlyThread, HandleInv, Makes, Uses, Same, LockHeld, HasLock,
         Fresh, WillCache, Export, HasHandles, Exported, MayExport, CacheAdd, CacheRefs
  <2>2. ~Fresh(t)'
    BY <1>23 DEF Fresh, WillCache, Export, HasHandles, Exported, MayExport, CacheAdd, CacheRefs
  <2> QED
    BY <1>0, <2>1, <2>2, NotCachedBy
<1>24. ASSUME NEW t \in Threads, NEW b \in Bufs, ExportUncached(t, b) PROVE NotCached'
  <2>1. AddsAtMost(t, None, 0)
    BY <1>24 DEF AddsAtMost, OnlyThread, Fresh, WillCache, ExportUncached, HasHandles,
         Exported, MayExport
  <2>2. ~Fresh(t)'
    BY <1>24 DEF Fresh, WillCache, ExportUncached, HasHandles, Exported, MayExport
  <2> QED
    BY <1>0, <2>1, <2>2, NotCachedBy
<1>25. ASSUME NEW t \in Threads, ImportSeen(t) PROVE NotCached'
  <2>1. AddsAtMost(t, None, 0)
    BY <1>25 DEF AddsAtMost, OnlyThread, Fresh, WillCache, ImportSeen
  <2>2. ~Fresh(t)'
    BY <1>25 DEF Fresh, WillCache, ImportSeen
  <2> QED
    BY <1>0, <2>1, <2>2, NotCachedBy
<1>26. ASSUME NEW t \in Threads, ImportFails(t) PROVE NotCached'
  <2>1. AddsAtMost(t, None, 0)
    BY <1>26 DEF AddsAtMost, OnlyThread, Fresh, WillCache, ImportFails, Imports
  <2>2. ~Fresh(t)'
    BY <1>26 DEF Fresh, WillCache, ImportFails, Imports
  <2> QED
    BY <1>0, <2>1, <2>2, NotCachedBy
<1>27. ASSUME NEW t \in Threads, ImportCache(t) PROVE NotCached'
  <2>1. AddsAtMost(t, File(t), w[t].h)
    BY <1>27 DEF AddsAtMost, OnlyThread, HandleInv, Makes, Uses, Same, LockHeld, HasLock,
         Fresh, WillCache, ImportCache, CacheAdd, CacheRefs
  <2>2. ~Fresh(t)'
    BY <1>27 DEF Fresh, WillCache, ImportCache, CacheAdd, CacheRefs
  <2> QED
    BY <1>0, <2>1, <2>2, NotCachedBy
<1>28. ASSUME NEW t \in Threads, ImportNoCache(t) PROVE NotCached'
  <2>1. AddsAtMost(t, None, 0)
    BY <1>28 DEF AddsAtMost, OnlyThread, Fresh, WillCache, ImportNoCache
  <2>2. ~Fresh(t)'
    BY <1>28 DEF Fresh, WillCache, ImportNoCache
  <2> QED
    BY <1>0, <2>1, <2>2, NotCachedBy
<1>29. ASSUME NEW t \in Threads, ImportDelete(t) PROVE NotCached'
  <2>1. AddsAtMost(t, None, 0)
    BY <1>29 DEF AddsAtMost, OnlyThread, Fresh, WillCache, ImportDelete, IsObj, Replaced
  <2>2. ~Fresh(t)'
    BY <1>29 DEF Fresh, WillCache, ImportDelete, IsObj, Replaced
  <2> QED
    BY <1>0, <2>1, <2>2, NotCachedBy
<1>30. ASSUME NEW t \in Threads, ImportDeleted(t) PROVE NotCached'
  <2>1. AddsAtMost(t, None, 0)
    BY <1>30 DEF AddsAtMost, OnlyThread, Fresh, WillCache, ImportDeleted
  <2>2. ~Fresh(t)'
    BY <1>30 DEF Fresh, WillCache, ImportDeleted
  <2> QED
    BY <1>0, <2>1, <2>2, NotCachedBy
<1>31. ASSUME NEW t \in Threads, ImportPut(t) PROVE NotCached'
  <2>1. AddsAtMost(t, None, 0)
    BY <1>31 DEF AddsAtMost, OnlyThread, Fresh, WillCache, ImportPut, BufPut
  <2>2. ~Fresh(t)'
    BY <1>31 DEF Fresh, WillCache, ImportPut, BufPut
  <2> QED
    BY <1>0, <2>1, <2>2, NotCachedBy
<1>32. ASSUME NEW t \in Threads, NEW f \in Files, NEW h \in Handles, Close(t, f, h)
       PROVE  NotCached'
  <2>1. AddsAtMost(t, None, 0)
    BY <1>32 DEF AddsAtMost, OnlyThread, Fresh, WillCache, Close, Calls, Names, IsObj, Replaced
  <2>2. ~Fresh(t)'
    BY <1>32 DEF Fresh, WillCache, Close, Calls, Names, IsObj, Replaced
  <2> QED
    BY <1>0, <2>1, <2>2, NotCachedBy
<1>33. ASSUME NEW t \in Threads, NEW f \in Files, NEW h \in Handles, Flink(t, f, h)
       PROVE  NotCached'
  <2>1. AddsAtMost(t, None, 0)
    BY <1>33 DEF AddsAtMost, OnlyThread, Fresh, WillCache, Flink, Lookup, Calls, Names, IsObj
  <2>2. ~Fresh(t)'
    BY <1>33 DEF Fresh, WillCache, Flink, Lookup, Calls, Names, IsObj
  <2> QED
    BY <1>0, <2>1, <2>2, NotCachedBy
<1>34. ASSUME NEW t \in Threads, NEW f \in Files, NEW h \in Handles, ToFd(t, f, h)
       PROVE  NotCached'
  <2>1. AddsAtMost(t, None, 0)
    BY <1>34 DEF AddsAtMost, OnlyThread, Fresh, WillCache, ToFd, Lookup, Calls, Names, IsObj
  <2>2. ~Fresh(t)'
    BY <1>34 DEF Fresh, WillCache, ToFd, Lookup, Calls, Names, IsObj
  <2> QED
    BY <1>0, <2>1, <2>2, NotCachedBy
<1>35. ASSUME NEW t \in Threads, NEW f \in Files, NEW h \in Handles, AddFb(t, f, h)
       PROVE  NotCached'
  <2>1. AddsAtMost(t, None, 0)
    BY <1>35 DEF AddsAtMost, OnlyThread, Fresh, WillCache, AddFb, Calls, Names, IsObj
  <2>2. ~Fresh(t)'
    BY <1>35 DEF Fresh, WillCache, AddFb, Calls, Names, IsObj
  <2> QED
    BY <1>0, <2>1, <2>2, NotCachedBy
<1>36. ASSUME NEW t \in Threads, NEW f \in Files, NEW b \in Bufs, FdToHandle(t, f, b)
       PROVE  NotCached'
  <2>1. AddsAtMost(t, None, 0)
    BY <1>36 DEF AddsAtMost, OnlyThread, Fresh, WillCache, FdToHandle, Calls
  <2>2. ~Fresh(t)'
    BY <1>36 DEF Fresh, WillCache, FdToHandle, Calls
  <2> QED
    BY <1>0, <2>1, <2>2, NotCachedBy
<1>37. ASSUME NEW t \in Threads, NEW f \in Files, ReleaseFile(t, f) PROVE NotCached'
  <2>1. AddsAtMost(t, None, 0)
    BY <1>37 DEF AddsAtMost, OnlyThread, Fresh, WillCache, ReleaseFile, Calls
  <2>2. ~Fresh(t)'
    BY <1>37 DEF Fresh, WillCache, ReleaseFile, Calls
  <2> QED
    BY <1>0, <2>1, <2>2, NotCachedBy
<1>38. ASSUME NEW b \in Bufs, CloseFd(b) PROVE NotCached'
  BY <1>38 DEF NotCached, Fresh, WillCache, Members, CloseFd, BufPut
<1>39. ASSUME NEW o \in Objs, RmFb(o) PROVE NotCached'
  BY <1>39 DEF NotCached, Fresh, WillCache, Members, RmFb, ObjPut
<1> HIDE GemAssumption DEF TypeOK, LocalInv, Local, File, Obj, Buf, Ok, Calling, NoCall, Locals,
        Goto, Return, objVars, bufVars, fileVars, Error
<1> QED
  BY Zenon, <1>1, <1>2, <1>3, <1>4, <1>5, <1>6, <1>7, <1>8, <1>9, <1>10, <1>11, <1>12, <1>13, <1>14,
      <1>15, <1>16, <1>17, <1>18, <1>19, <1>20, <1>21, <1>21a, <1>22, <1>23, <1>24, <1>25, <1>26,
      <1>27, <1>28, <1>29, <1>30, <1>31, <1>32, <1>33, <1>34, <1>35, <1>36, <1>37, <1>38, <1>39 DEF Next, Step, Call

----------------------------------------------------------------------------
(* What the caches hold                                                    *)

LEMMA CachePairedStep ==
  ASSUME TypeOK, LocalInv, HandleInv, BufInv, HandleKept, ImportKept,
         NotCached, CachePaired, CacheUnique, Next PROVE CachePaired'
<1> USE GemAssumption DEF TypeOK, LocalInv, Local, File, Obj, Buf, Ok, Calling, NoCall, Locals,
        Goto, Return, objVars, bufVars, fileVars, Error
<1>1. ASSUME NEW t \in Threads, NEW f \in Files, NEW o \in Objs, Create(t, f, o)
      PROVE  CachePaired'
  <2>1. \/ \E h \in Handles : Published(t, f, o, 1, "create", None, h)
        \/ Unpublished(t, f, o, 1, "create", None)
    BY <1>1, PublishCases DEF Create, Calls
  <2>2. CASE Unpublished(t, f, o, 1, "create", None)
    <3>1. LeavesPaired(t)
      BY <1>1, <2>2 DEF LeavesPaired, OnlyThread, Unpublished, Create, Calls
    <3> QED
      BY <3>1, PairedBy
  <2>3. ASSUME NEW h \in Handles, Published(t, f, o, 1, "create", None, h)
        PROVE  CachePaired'
    <3>0. f \in Files /\ Members(f, h) = {} /\ cache' = cache
      BY <1>1, <2>3, FreeNotCached DEF Published, Create, Calls
    <3>1. LeavesPaired(t)
      BY <1>1, <2>3, <3>0 DEF LeavesPaired, OnlyThread, Members, Published, Create, Calls
    <3> QED
      BY <3>1, PairedBy
  <2> QED
    BY <2>1, <2>2, <2>3
<1>2. ASSUME NEW t \in Threads, NEW f \in Files, NEW o \in Objs, OpenName(t, f, o)
      PROVE  CachePaired'
  <2>1. \/ \E h \in Handles : Published(t, f, o, ref[o] + 1, "open", None, h)
        \/ Unpublished(t, f, o, ref[o] + 1, "open", None)
    BY <1>2, PublishCases DEF OpenName, Calls
  <2>2. CASE Unpublished(t, f, o, ref[o] + 1, "open", None)
    <3>1. LeavesPaired(t)
      BY <1>2, <2>2 DEF LeavesPaired, OnlyThread, Unpublished, OpenName, Calls
    <3> QED
      BY <3>1, PairedBy
  <2>3. ASSUME NEW h \in Handles, Published(t, f, o, ref[o] + 1, "open", None, h)
        PROVE  CachePaired'
    <3>0. f \in Files /\ Members(f, h) = {} /\ cache' = cache
      BY <1>2, <2>3, FreeNotCached DEF Published, OpenName, Calls
    <3>1. LeavesPaired(t)
      BY <1>2, <2>3, <3>0 DEF LeavesPaired, OnlyThread, Members, Published, OpenName, Calls
    <3> QED
      BY <3>1, PairedBy
  <2> QED
    BY <2>1, <2>2, <2>3
<1>3. ASSUME NEW t \in Threads, NEW f \in Files, NEW o \in Objs, GetFb(t, f, o)
      PROVE  CachePaired'
  <2>1. \/ \E h \in Handles : Published(t, f, o, ref[o] + 1, "getfb", None, h)
        \/ Unpublished(t, f, o, ref[o] + 1, "getfb", None)
    BY <1>3, PublishCases DEF GetFb, Calls
  <2>2. CASE Unpublished(t, f, o, ref[o] + 1, "getfb", None)
    <3>1. LeavesPaired(t)
      BY <1>3, <2>2 DEF LeavesPaired, OnlyThread, Unpublished, GetFb, Calls
    <3> QED
      BY <3>1, PairedBy
  <2>3. ASSUME NEW h \in Handles, Published(t, f, o, ref[o] + 1, "getfb", None, h)
        PROVE  CachePaired'
    <3>0. f \in Files /\ Members(f, h) = {} /\ cache' = cache
      BY <1>3, <2>3, FreeNotCached DEF Published, GetFb, Calls
    <3>1. LeavesPaired(t)
      BY <1>3, <2>3, <3>0 DEF LeavesPaired, OnlyThread, Members, Published, GetFb, Calls
    <3> QED
      BY <3>1, PairedBy
  <2> QED
    BY <2>1, <2>2, <2>3
<1>4. ASSUME NEW t \in Threads, ImportOwn(t) PROVE CachePaired'
  <2>0. PICK f \in Files, o \in Objs, b \in Bufs : OwnTaken(t, f, o, b) /\ OwnEnds(t, f, o, b)
    BY <1>4, ImportOwnCases
  <2>1. OwnTaken(t, f, o, b)
    BY <2>0
  <2>2. CASE Unpublished(t, f, o, ref[o] + 1, "import", b)
    <3>1. LeavesPaired(t)
      BY <2>1, <2>2 DEF LeavesPaired, OnlyThread, Unpublished, OwnTaken
    <3> QED
      BY <3>1, PairedBy
  <2>3. ASSUME NEW h \in Handles, Published(t, f, o, ref[o] + 1, "import", b, h)
        PROVE  CachePaired'
    <3>0. f \in Files /\ Members(f, h) = {} /\ cache' = cache
      BY SMTT(20), <2>1, <2>3, FreeNotCached DEF Published, OwnTaken
    <3>1. LeavesPaired(t)
      BY SMTT(60), <2>1, <2>3, <3>0 DEF LeavesPaired, OnlyThread, Members, Published, OwnTaken
    <3> QED
      BY <3>1, PairedBy
  <2> QED
    BY <2>0, <2>2, <2>3 DEF OwnEnds
<1>5. ASSUME NEW t \in Threads, NEW o \in Objs, ImportForeign(t, o) PROVE CachePaired'
  <2>1. \/ \E h \in Handles : Published(t, File(t), o, 1, "import", Buf(t), h)
        \/ Unpublished(t, File(t), o, 1, "import", Buf(t))
    BY <1>5, PublishCases DEF ImportForeign, Imports
  <2>2. CASE Unpublished(t, File(t), o, 1, "import", Buf(t))
    <3>1. LeavesPaired(t)
      BY <1>5, <2>2 DEF LeavesPaired, OnlyThread, BufInv, Unpublished, ImportForeign, Imports
    <3> QED
      BY <3>1, PairedBy
  <2>3. ASSUME NEW h \in Handles, Published(t, File(t), o, 1, "import", Buf(t), h)
        PROVE  CachePaired'
    <3>0. File(t) \in Files /\ Members(File(t), h) = {} /\ cache' = cache
      BY <1>5, <2>3, FreeNotCached DEF Published, ImportForeign, Imports
    <3>1. LeavesPaired(t)
      <4>1. /\ \A s \in Threads : s # t => pc'[s] = pc[s] /\ w'[s] = w[s]
            /\ table' = [table EXCEPT ![File(t)][h] = o] /\ pc[t] = "import"
        BY <1>5, <2>3, ZenonT(60) DEF Published, ImportForeign, Imports
      <4>2. /\ priv' = priv /\ attach' = [attach EXCEPT ![o] = Buf(t)] /\ attach[o] = None
        BY <1>5 DEF BufInv, ImportForeign, Imports
      <4>3. \A f \in Files : \A m \in cache[f] : m[1] \in Handles /\ (f # File(t) \/ m[1] # h)
        BY <3>0 DEF Members
      <4>4. \A f \in Files, g \in Handles :
              f # File(t) \/ g # h => table'[f][g] = table[f][g]
        BY <4>1
      <4> HIDE DEF LocalInv, TypeOK, File, Buf
      <4>5. /\ \A p \in Objs : attach[p] # None => attach'[p] = attach[p]
            /\ \A b \in Bufs : priv[b] # None => priv'[b] = priv[b]
        BY <4>2 DEF TypeOK
      <4>6. \A f \in Files : \A m \in cache'[f] :
              m \in cache[f] /\ table'[f][m[1]] = table[f][m[1]]
        BY <3>0, <4>3, <4>4
      <4> QED
        BY <4>1, <4>5, <4>6 DEF LeavesPaired, OnlyThread
    <3> QED
      BY <3>1, PairedBy
  <2> QED
    BY <2>1, <2>2, <2>3
<1>6. ASSUME NEW t \in Threads, OpenFails(t) PROVE CachePaired'
  <2>1. LeavesPaired(t)
    BY <1>6 DEF LeavesPaired, OnlyThread, NotCached, Fresh, Members, OpenFails, AfterRemove
  <2> QED
    BY <2>1, PairedBy
<1>7. ASSUME NEW t \in Threads, PutObj(t) PROVE CachePaired'
  <2>1. LeavesPaired(t)
    BY <1>7 DEF LeavesPaired, OnlyThread, PutObj, ObjPut
  <2> QED
    BY <2>1, PairedBy
<1>8. ASSUME NEW t \in Threads, Uncache(t) PROVE CachePaired'
  <2>0. PICK m \in Members(File(t), w[t].h) : cache' = [cache EXCEPT ![File(t)] = @ \ {m}]
    BY <1>8 DEF Uncache
  <2>2. /\ OnlyThread(t) /\ File(t) \in Files /\ m \in cache[File(t)] /\ m[1] = w[t].h
        /\ UNCHANGED <<attach, priv, table>>
    BY <1>8, <2>0 DEF OnlyThread, Uncache, Members
  <2>3. ASSUME NEW f \in Files, NEW n \in cache'[f]
        PROVE  n \in cache[f] /\ ~(w[t].file = f /\ w[t].h = n[1])
    <3>1. n \in cache[f] /\ (f = File(t) => n # m)
      BY <2>0, <2>2, <2>3
    <3> QED
      BY <2>2, <3>1 DEF CacheUnique
  <2>4. LeavesPaired(t)
    BY <2>2, <2>3 DEF LeavesPaired
  <2> QED
    BY <2>4, PairedBy
<1>9. ASSUME NEW t \in Threads, UncacheNothing(t) PROVE CachePaired'
  <2>1. LeavesPaired(t)
    BY <1>9 DEF LeavesPaired, OnlyThread, UncacheNothing, Members
  <2> QED
    BY <2>1, PairedBy
<1>10. ASSUME NEW t \in Threads, HandlePut(t) PROVE CachePaired'
  <2>1. LeavesPaired(t)
    BY <1>10 DEF LeavesPaired, OnlyThread, HandlePut, AfterPut
  <2> QED
    BY <2>1, PairedBy
<1>11. ASSUME NEW t \in Threads, LastHandlePut(t) PROVE CachePaired'
  <2>1. LeavesPaired(t)
    BY <1>11 DEF LeavesPaired, OnlyThread, LastHandlePut, BufPut
  <2> QED
    BY <2>1, PairedBy
<1>12. ASSUME NEW t \in Threads, FinalPut(t) PROVE CachePaired'
  <2>1. LeavesPaired(t)
    BY <1>12 DEF LeavesPaired, OnlyThread, FinalPut, ObjPut, AfterPut
  <2> QED
    BY <2>1, PairedBy
<1>13. ASSUME NEW t \in Threads, Unreserve(t) PROVE CachePaired'
  <2>1. LeavesPaired(t)
    <3>1. /\ pc[t] = "unreserve" /\ Ok(t) /\ w[t].h \in Handles /\ File(t) \in Files
          /\ table' = [table EXCEPT ![File(t)][w[t].h] = Free]
          /\ cache' = cache /\ attach' = attach /\ priv' = priv
          /\ \A s \in Threads : s # t => pc'[s] = pc[s] /\ w'[s] = w[s]
      BY <1>13 DEF Unreserve
    <3>2. table[File(t)][w[t].h] = Null /\ \A u \in Threads : TakesOut(u) /\ Same(u, t) => u = t
      BY <3>1 DEF HandleInv, TakesOut
    <3>3. \A u \in Threads : pc[u] = "uncache" => TakesOut(u) /\ u # t
      BY <3>1 DEF TakesOut
    <3>4. ASSUME NEW f \in Files, NEW m \in cache[f]
          PROVE  m[1] \in Handles /\ (f # File(t) \/ m[1] # w[t].h)
      <4>1. m[1] \in Handles
        BY <3>4
      <4> HIDE DEF TypeOK, LocalInv, TakesOut
      <4> QED
        BY <3>2, <3>3, <3>4, <4>1 DEF CachePaired, Paired, Waits, IsObj, Null, Same
    <3> HIDE DEF File, LocalInv, TypeOK
    <3>5. \A f \in Files : \A m \in cache'[f] : table'[f][m[1]] = table[f][m[1]]
      BY <3>1, <3>4
    <3> QED
      BY <3>1, <3>5 DEF LeavesPaired, OnlyThread
  <2> QED
    BY <2>1, PairedBy
<1>14. ASSUME NEW t \in Threads, Released(t) PROVE CachePaired'
  <2>1. LeavesPaired(t)
    BY <1>14 DEF LeavesPaired, OnlyThread, Released
  <2> QED
    BY <2>1, PairedBy
<1>15. ASSUME NEW t \in Threads, NEW h \in Handles, ReleaseHandle(t, h) PROVE CachePaired'
  <2>1. LeavesPaired(t)
    <3>1. /\ pc[t] = "release" /\ pc'[t] = "uncache" /\ File(t) \in Files
          /\ w'[t].file = File(t) /\ w'[t].h = h
          /\ table' = [table EXCEPT ![File(t)][h] = Null]
          /\ cache' = cache /\ attach' = attach /\ priv' = priv
          /\ \A s \in Threads : s # t => pc'[s] = pc[s] /\ w'[s] = w[s]
      BY <1>15 DEF ReleaseHandle
    <3>2. \A f \in Files : \A m \in cache[f] : m[1] \in Handles
      OBVIOUS
    <3> HIDE DEF File, LocalInv, TypeOK
    <3>3. \A f \in Files, g \in Handles :
            table'[f][g] = IF f = File(t) /\ g = h THEN Null ELSE table[f][g]
      BY <3>1 DEF TypeOK
    <3> QED
      BY <3>1, <3>2, <3>3 DEF LeavesPaired, OnlyThread
  <2> QED
    BY <2>1, PairedBy
<1>16. ASSUME NEW t \in Threads, FlinkName(t) PROVE CachePaired'
  <2>1. LeavesPaired(t)
    BY <1>16 DEF LeavesPaired, OnlyThread, FlinkName, HasHandles
  <2> QED
    BY <2>1, PairedBy
<1>17. ASSUME NEW t \in Threads, ToFdCached(t) PROVE CachePaired'
  <2>1. LeavesPaired(t)
    BY <1>17 DEF LeavesPaired, OnlyThread, ToFdCached, Cached, Members
  <2> QED
    BY <2>1, PairedBy
<1>18. ASSUME NEW t \in Threads, NEW b \in Bufs, ToFdKnown(t, b) PROVE CachePaired'
  <2>1. LeavesPaired(t)
    BY SMTT(40), <1>18 DEF LeavesPaired, OnlyThread, Known, HandleKept, WillCache, StillThere, BufInv,
         Null, Free, IsObj, ToFdKnown, IsKnown, CacheAdd, CacheRefs
  <2> QED
    BY <2>1, PairedBy
<1>19. ASSUME NEW t \in Threads, NEW b \in Bufs, ToFdUncached(t, b) PROVE CachePaired'
  <2>1. LeavesPaired(t)
    BY <1>19 DEF LeavesPaired, OnlyThread, ToFdUncached, IsKnown
  <2> QED
    BY <2>1, PairedBy
<1>20. ASSUME NEW t \in Threads, ExportFails(t) PROVE CachePaired'
  <2>1. LeavesPaired(t)
    BY <1>20 DEF LeavesPaired, OnlyThread, ExportFails, MayExport
  <2> QED
    BY <2>1, PairedBy
<1>21. ASSUME NEW t \in Threads, InstallFd(t) PROVE CachePaired'
  <2>1. LeavesPaired(t)
    BY <1>21 DEF LeavesPaired, OnlyThread, AsksFd, InstallFd
  <2> QED
    BY <2>1, PairedBy
<1>21a. ASSUME NEW t \in Threads, FdFails(t) PROVE CachePaired'
  <2>1. LeavesPaired(t)
    BY <1>21a DEF LeavesPaired, OnlyThread, AsksFd, FdFails
  <2> QED
    BY <2>1, PairedBy
<1>22. ASSUME NEW t \in Threads, PutUncached(t) PROVE CachePaired'
  <2>1. LeavesPaired(t)
    BY <1>22 DEF LeavesPaired, OnlyThread, PutUncached, BufPut
  <2> QED
    BY <2>1, PairedBy
<1>23. ASSUME NEW t \in Threads, NEW b \in Bufs, Export(t, b) PROVE CachePaired'
  <2>1. LeavesPaired(t)
    BY SMTT(40), <1>23 DEF LeavesPaired, OnlyThread, Known, HandleKept, WillCache, StillThere, BufInv,
         Null, Free, IsObj, Export, HasHandles, Exported, MayExport, CacheAdd, CacheRefs
  <2> QED
    BY <2>1, PairedBy
<1>24. ASSUME NEW t \in Threads, NEW b \in Bufs, ExportUncached(t, b) PROVE CachePaired'
  <2>1. LeavesPaired(t)
    BY <1>24 DEF LeavesPaired, OnlyThread, ExportUncached, HasHandles, Exported, MayExport
  <2> QED
    BY <2>1, PairedBy
<1>25. ASSUME NEW t \in Threads, ImportSeen(t) PROVE CachePaired'
  <2>1. LeavesPaired(t)
    BY <1>25 DEF LeavesPaired, OnlyThread, ImportSeen
  <2> QED
    BY <2>1, PairedBy
<1>26. ASSUME NEW t \in Threads, ImportFails(t) PROVE CachePaired'
  <2>1. LeavesPaired(t)
    BY <1>26 DEF LeavesPaired, OnlyThread, ImportFails, Imports
  <2> QED
    BY <2>1, PairedBy
<1>27. ASSUME NEW t \in Threads, ImportCache(t) PROVE CachePaired'
  <2>2. /\ OnlyThread(t) /\ File(t) \in Files /\ pc[t] = "cache" /\ w[t].h \in Handles
        /\ Obj(t) \in Objs /\ UNCHANGED <<attach, priv, table>>
        /\ cache' = [cache EXCEPT ![File(t)] = @ \cup {<<w[t].h, Buf(t)>>}]
    BY <1>27 DEF OnlyThread, ImportCache, CacheAdd
  <2>3. StillThere(File(t), w[t].h, Obj(t)) /\ (priv[Buf(t)] = Obj(t) \/ attach[Obj(t)] = Buf(t))
    BY <1>27 DEF HandleKept, ImportKept, WillCache, ImportCache
  <2>4. ASSUME NEW f \in Files, NEW m \in cache'[f]
        PROVE  m \in cache[f] \/ (f = File(t) /\ m[1] = w[t].h /\ m[2] = Buf(t))
    BY <2>2, <2>4
  <2>5. LeavesPaired(t)
    BY <2>2, <2>3, <2>4 DEF LeavesPaired, StillThere, IsObj, Null, Free
  <2> QED
    BY <2>5, PairedBy
<1>28. ASSUME NEW t \in Threads, ImportNoCache(t) PROVE CachePaired'
  <2>1. LeavesPaired(t)
    BY <1>28 DEF LeavesPaired, OnlyThread, ImportNoCache
  <2> QED
    BY <2>1, PairedBy
<1>29. ASSUME NEW t \in Threads, ImportDelete(t) PROVE CachePaired'
  <2>0. PICK f \in Files, h \in Handles, o \in Objs : DeleteTakes(t, f, h, o)
    BY <1>29, ImportDeleteCases
  <2>1. LeavesPaired(t)
    BY <2>0 DEF LeavesPaired, OnlyThread, DeleteTakes
  <2> QED
    BY <2>1, PairedBy
<1>30. ASSUME NEW t \in Threads, ImportDeleted(t) PROVE CachePaired'
  <2>1. LeavesPaired(t)
    BY <1>30 DEF LeavesPaired, OnlyThread, ImportDeleted
  <2> QED
    BY <2>1, PairedBy
<1>31. ASSUME NEW t \in Threads, ImportPut(t) PROVE CachePaired'
  <2>1. LeavesPaired(t)
    BY <1>31 DEF LeavesPaired, OnlyThread, ImportPut, BufPut
  <2> QED
    BY <2>1, PairedBy
<1>32. ASSUME NEW t \in Threads, NEW f \in Files, NEW h \in Handles, Close(t, f, h)
       PROVE  CachePaired'
  <2>1. LeavesPaired(t)
    BY <1>32 DEF LeavesPaired, OnlyThread, Close, Calls, Names, IsObj, Replaced
  <2> QED
    BY <2>1, PairedBy
<1>33. ASSUME NEW t \in Threads, NEW f \in Files, NEW h \in Handles, Flink(t, f, h)
       PROVE  CachePaired'
  <2>1. LeavesPaired(t)
    BY <1>33 DEF LeavesPaired, OnlyThread, Flink, Lookup, Calls, Names, IsObj
  <2> QED
    BY <2>1, PairedBy
<1>34. ASSUME NEW t \in Threads, NEW f \in Files, NEW h \in Handles, ToFd(t, f, h)
       PROVE  CachePaired'
  <2>1. LeavesPaired(t)
    BY <1>34 DEF LeavesPaired, OnlyThread, ToFd, Lookup, Calls, Names, IsObj
  <2> QED
    BY <2>1, PairedBy
<1>35. ASSUME NEW t \in Threads, NEW f \in Files, NEW h \in Handles, AddFb(t, f, h)
       PROVE  CachePaired'
  <2>1. LeavesPaired(t)
    BY <1>35 DEF LeavesPaired, OnlyThread, AddFb, Calls, Names, IsObj
  <2> QED
    BY <2>1, PairedBy
<1>36. ASSUME NEW t \in Threads, NEW f \in Files, NEW b \in Bufs, FdToHandle(t, f, b)
       PROVE  CachePaired'
  <2>1. LeavesPaired(t)
    BY <1>36 DEF LeavesPaired, OnlyThread, FdToHandle, Calls
  <2> QED
    BY <2>1, PairedBy
<1>37. ASSUME NEW t \in Threads, NEW f \in Files, ReleaseFile(t, f) PROVE CachePaired'
  <2>1. LeavesPaired(t)
    BY <1>37 DEF LeavesPaired, OnlyThread, ReleaseFile, Calls
  <2> QED
    BY <2>1, PairedBy
<1>38. ASSUME NEW b \in Bufs, CloseFd(b) PROVE CachePaired'
  BY <1>38 DEF CachePaired, Paired, Waits, IsObj, CloseFd, BufPut
<1>39. ASSUME NEW o \in Objs, RmFb(o) PROVE CachePaired'
  BY <1>39 DEF CachePaired, Paired, Waits, IsObj, RmFb, ObjPut
<1> HIDE GemAssumption DEF TypeOK, LocalInv, Local, File, Obj, Buf, Ok, Calling, NoCall, Locals,
        Goto, Return, objVars, bufVars, fileVars, Error
<1> QED
  BY Zenon, <1>1, <1>2, <1>3, <1>4, <1>5, <1>6, <1>7, <1>8, <1>9, <1>10, <1>11, <1>12, <1>13, <1>14,
      <1>15, <1>16, <1>17, <1>18, <1>19, <1>20, <1>21, <1>21a, <1>22, <1>23, <1>24, <1>25, <1>26,
      <1>27, <1>28, <1>29, <1>30, <1>31, <1>32, <1>33, <1>34, <1>35, <1>36, <1>37, <1>38, <1>39 DEF Next, Step, Call

----------------------------------------------------------------------------
(* One dma-buf for a handle                                                *)

LEMMA CacheUniqueStep ==
  ASSUME TypeOK, LocalInv, NotCached, CacheUnique, Next PROVE CacheUnique'
<1> USE GemAssumption DEF TypeOK, LocalInv, Local, File, Obj, Buf, Ok, Calling, NoCall, Locals,
        Goto, Return, objVars, bufVars, fileVars, Error, CacheUnique
<1>1. ASSUME NEW t \in Threads, NEW f \in Files, NEW o \in Objs, Create(t, f, o)
      PROVE  CacheUnique'
  <2>1. \/ \E h \in Handles : Published(t, f, o, 1, "create", None, h)
        \/ Unpublished(t, f, o, 1, "create", None)
    BY <1>1, PublishCases DEF Create, Calls
  <2>2. CASE Unpublished(t, f, o, 1, "create", None)
    BY <1>1, <2>2 DEF Unpublished, Create, Calls
  <2>3. ASSUME NEW h \in Handles, Published(t, f, o, 1, "create", None, h)
        PROVE  CacheUnique'
    BY <1>1, <2>3 DEF Published, Create, Calls
  <2> QED
    BY <2>1, <2>2, <2>3
<1>2. ASSUME NEW t \in Threads, NEW f \in Files, NEW o \in Objs, OpenName(t, f, o)
      PROVE  CacheUnique'
  <2>1. \/ \E h \in Handles : Published(t, f, o, ref[o] + 1, "open", None, h)
        \/ Unpublished(t, f, o, ref[o] + 1, "open", None)
    BY <1>2, PublishCases DEF OpenName, Calls
  <2>2. CASE Unpublished(t, f, o, ref[o] + 1, "open", None)
    BY <1>2, <2>2 DEF Unpublished, OpenName, Calls
  <2>3. ASSUME NEW h \in Handles, Published(t, f, o, ref[o] + 1, "open", None, h)
        PROVE  CacheUnique'
    BY <1>2, <2>3 DEF Published, OpenName, Calls
  <2> QED
    BY <2>1, <2>2, <2>3
<1>3. ASSUME NEW t \in Threads, NEW f \in Files, NEW o \in Objs, GetFb(t, f, o)
      PROVE  CacheUnique'
  <2>1. \/ \E h \in Handles : Published(t, f, o, ref[o] + 1, "getfb", None, h)
        \/ Unpublished(t, f, o, ref[o] + 1, "getfb", None)
    BY <1>3, PublishCases DEF GetFb, Calls
  <2>2. CASE Unpublished(t, f, o, ref[o] + 1, "getfb", None)
    BY <1>3, <2>2 DEF Unpublished, GetFb, Calls
  <2>3. ASSUME NEW h \in Handles, Published(t, f, o, ref[o] + 1, "getfb", None, h)
        PROVE  CacheUnique'
    BY <1>3, <2>3 DEF Published, GetFb, Calls
  <2> QED
    BY <2>1, <2>2, <2>3
<1>4. ASSUME NEW t \in Threads, ImportOwn(t) PROVE CacheUnique'
  <2>0. PICK f \in Files, o \in Objs, b \in Bufs : OwnTaken(t, f, o, b) /\ OwnEnds(t, f, o, b)
    BY <1>4, ImportOwnCases
  <2>1. OwnTaken(t, f, o, b)
    BY <2>0
  <2>2. CASE Unpublished(t, f, o, ref[o] + 1, "import", b)
    BY <2>1, <2>2 DEF Unpublished, OwnTaken
  <2>3. ASSUME NEW h \in Handles, Published(t, f, o, ref[o] + 1, "import", b, h)
        PROVE  CacheUnique'
    BY <2>1, <2>3 DEF Published, OwnTaken
  <2> QED
    BY <2>0, <2>2, <2>3 DEF OwnEnds
<1>5. ASSUME NEW t \in Threads, NEW o \in Objs, ImportForeign(t, o) PROVE CacheUnique'
  <2>1. \/ \E h \in Handles : Published(t, File(t), o, 1, "import", Buf(t), h)
        \/ Unpublished(t, File(t), o, 1, "import", Buf(t))
    BY <1>5, PublishCases DEF ImportForeign, Imports
  <2>2. CASE Unpublished(t, File(t), o, 1, "import", Buf(t))
    BY <1>5, <2>2 DEF Unpublished, ImportForeign, Imports
  <2>3. ASSUME NEW h \in Handles, Published(t, File(t), o, 1, "import", Buf(t), h)
        PROVE  CacheUnique'
    BY <1>5, <2>3 DEF Published, ImportForeign, Imports
  <2> QED
    BY <2>1, <2>2, <2>3
<1>6. ASSUME NEW t \in Threads, OpenFails(t) PROVE CacheUnique'
  BY <1>6 DEF OpenFails, AfterRemove
<1>7. ASSUME NEW t \in Threads, PutObj(t) PROVE CacheUnique'
  BY <1>7 DEF PutObj, ObjPut
<1>8. ASSUME NEW t \in Threads, Uncache(t) PROVE CacheUnique'
  BY <1>8 DEF Uncache, BufPut, Members
<1>9. ASSUME NEW t \in Threads, UncacheNothing(t) PROVE CacheUnique'
  BY <1>9 DEF UncacheNothing, Members
<1>10. ASSUME NEW t \in Threads, HandlePut(t) PROVE CacheUnique'
  BY <1>10 DEF HandlePut, AfterPut
<1>11. ASSUME NEW t \in Threads, LastHandlePut(t) PROVE CacheUnique'
  BY <1>11 DEF LastHandlePut, BufPut
<1>12. ASSUME NEW t \in Threads, FinalPut(t) PROVE CacheUnique'
  BY <1>12 DEF FinalPut, ObjPut, AfterPut
<1>13. ASSUME NEW t \in Threads, Unreserve(t) PROVE CacheUnique'
  BY <1>13 DEF Unreserve
<1>14. ASSUME NEW t \in Threads, Released(t) PROVE CacheUnique'
  BY <1>14 DEF Released
<1>15. ASSUME NEW t \in Threads, NEW h \in Handles, ReleaseHandle(t, h) PROVE CacheUnique'
  BY <1>15 DEF ReleaseHandle, IsObj
<1>16. ASSUME NEW t \in Threads, FlinkName(t) PROVE CacheUnique'
  BY <1>16 DEF FlinkName, HasHandles
<1>17. ASSUME NEW t \in Threads, ToFdCached(t) PROVE CacheUnique'
  BY <1>17 DEF ToFdCached, Cached, Members
<1>18. ASSUME NEW t \in Threads, NEW b \in Bufs, ToFdKnown(t, b) PROVE CacheUnique'
  <2>1. /\ File(t) \in Files /\ Members(File(t), w[t].h) = {}
        /\ cache' = [cache EXCEPT ![File(t)] = @ \cup {<<w[t].h, b>>}]
    BY <1>18 DEF ToFdKnown, IsKnown, Cached, CacheAdd
  <2>2. ASSUME NEW f \in Files, NEW m \in cache'[f]
        PROVE  m \in cache[f] \/ (f = File(t) /\ m = <<w[t].h, b>>)
    BY <2>1, <2>2
  <2>3. ASSUME NEW f \in Files, NEW m \in cache'[f], NEW n \in cache'[f], m[1] = n[1]
        PROVE  m = n
    <3>1. f = File(t) => \A k \in cache[f] : k[1] # w[t].h
      BY <2>1 DEF Members
    <3>2. <<w[t].h, b>>[1] = w[t].h
      OBVIOUS
    <3> HIDE GemAssumption DEF TypeOK, LocalInv
    <3> QED
      BY <2>2, <2>3, <3>1, <3>2
  <2> QED
    BY <2>3
<1>19. ASSUME NEW t \in Threads, NEW b \in Bufs, ToFdUncached(t, b) PROVE CacheUnique'
  BY <1>19 DEF ToFdUncached, IsKnown
<1>20. ASSUME NEW t \in Threads, ExportFails(t) PROVE CacheUnique'
  BY <1>20 DEF ExportFails, MayExport
<1>21. ASSUME NEW t \in Threads, InstallFd(t) PROVE CacheUnique'
  BY <1>21 DEF AsksFd, InstallFd
<1>21a. ASSUME NEW t \in Threads, FdFails(t) PROVE CacheUnique'
  BY <1>21a DEF AsksFd, FdFails
<1>22. ASSUME NEW t \in Threads, PutUncached(t) PROVE CacheUnique'
  BY <1>22 DEF PutUncached, BufPut
<1>23. ASSUME NEW t \in Threads, NEW b \in Bufs, Export(t, b) PROVE CacheUnique'
  <2>1. /\ File(t) \in Files /\ Members(File(t), w[t].h) = {}
        /\ cache' = [cache EXCEPT ![File(t)] = @ \cup {<<w[t].h, b>>}]
    BY <1>23 DEF Export, Exported, MayExport, Cached, CacheAdd
  <2>2. ASSUME NEW f \in Files, NEW m \in cache'[f]
        PROVE  m \in cache[f] \/ (f = File(t) /\ m = <<w[t].h, b>>)
    BY <2>1, <2>2
  <2>3. ASSUME NEW f \in Files, NEW m \in cache'[f], NEW n \in cache'[f], m[1] = n[1]
        PROVE  m = n
    <3>1. f = File(t) => \A k \in cache[f] : k[1] # w[t].h
      BY <2>1 DEF Members
    <3>2. <<w[t].h, b>>[1] = w[t].h
      OBVIOUS
    <3> HIDE GemAssumption DEF TypeOK, LocalInv
    <3> QED
      BY <2>2, <2>3, <3>1, <3>2
  <2> QED
    BY <2>3
<1>24. ASSUME NEW t \in Threads, NEW b \in Bufs, ExportUncached(t, b) PROVE CacheUnique'
  BY <1>24 DEF ExportUncached, HasHandles, Exported, MayExport
<1>25. ASSUME NEW t \in Threads, ImportSeen(t) PROVE CacheUnique'
  BY <1>25 DEF ImportSeen
<1>26. ASSUME NEW t \in Threads, ImportFails(t) PROVE CacheUnique'
  BY <1>26 DEF ImportFails, Imports
<1>27. ASSUME NEW t \in Threads, ImportCache(t) PROVE CacheUnique'
  BY SMTT(60), <1>27 DEF NotCached, Fresh, WillCache, Members, ImportCache, CacheAdd, CacheRefs
<1>28. ASSUME NEW t \in Threads, ImportNoCache(t) PROVE CacheUnique'
  BY <1>28 DEF ImportNoCache
<1>29. ASSUME NEW t \in Threads, ImportDelete(t) PROVE CacheUnique'
  BY <1>29 DEF ImportDelete, IsObj, Replaced
<1>30. ASSUME NEW t \in Threads, ImportDeleted(t) PROVE CacheUnique'
  BY <1>30 DEF ImportDeleted
<1>31. ASSUME NEW t \in Threads, ImportPut(t) PROVE CacheUnique'
  BY <1>31 DEF ImportPut, BufPut
<1>32. ASSUME NEW t \in Threads, NEW f \in Files, NEW h \in Handles, Close(t, f, h)
       PROVE  CacheUnique'
  BY <1>32 DEF Close, Calls, Names, IsObj, Replaced
<1>33. ASSUME NEW t \in Threads, NEW f \in Files, NEW h \in Handles, Flink(t, f, h)
       PROVE  CacheUnique'
  BY <1>33 DEF Flink, Lookup, Calls, Names, IsObj
<1>34. ASSUME NEW t \in Threads, NEW f \in Files, NEW h \in Handles, ToFd(t, f, h)
       PROVE  CacheUnique'
  BY <1>34 DEF ToFd, Lookup, Calls, Names, IsObj
<1>35. ASSUME NEW t \in Threads, NEW f \in Files, NEW h \in Handles, AddFb(t, f, h)
       PROVE  CacheUnique'
  BY <1>35 DEF AddFb, Calls, Names, IsObj
<1>36. ASSUME NEW t \in Threads, NEW f \in Files, NEW b \in Bufs, FdToHandle(t, f, b)
       PROVE  CacheUnique'
  BY <1>36 DEF FdToHandle, Calls
<1>37. ASSUME NEW t \in Threads, NEW f \in Files, ReleaseFile(t, f) PROVE CacheUnique'
  BY <1>37 DEF ReleaseFile, Calls
<1>38. ASSUME NEW b \in Bufs, CloseFd(b) PROVE CacheUnique'
  BY <1>38 DEF CloseFd, BufPut
<1>39. ASSUME NEW o \in Objs, RmFb(o) PROVE CacheUnique'
  BY <1>39 DEF RmFb, ObjPut
<1> HIDE GemAssumption DEF TypeOK, LocalInv, Local, File, Obj, Buf, Ok, Calling, NoCall, Locals,
        Goto, Return, objVars, bufVars, fileVars, Error, CacheUnique
<1> QED
  BY Zenon, <1>1, <1>2, <1>3, <1>4, <1>5, <1>6, <1>7, <1>8, <1>9, <1>10, <1>11, <1>12, <1>13, <1>14,
      <1>15, <1>16, <1>17, <1>18, <1>19, <1>20, <1>21, <1>21a, <1>22, <1>23, <1>24, <1>25, <1>26,
      <1>27, <1>28, <1>29, <1>30, <1>31, <1>32, <1>33, <1>34, <1>35, <1>36, <1>37, <1>38, <1>39 DEF Next, Step, Call

----------------------------------------------------------------------------
(* The cache of a file that is gone                                        *)

\* A step of t within a call, which changes at most the cache of its own file.
LEMMA EmptiedWithin ==
  ASSUME CacheEmptied, NEW t \in Threads, OnlyThread(t), fopen' = fopen,
         w'[t].file = w[t].file,
         \A g \in Files : g # w[t].file => cache'[g] = cache[g]
  PROVE  CacheEmptied'
BY DEF CacheEmptied, OnlyThread, File

\* A call begins, or ends with its file open.
LEMMA EmptiedCall ==
  ASSUME CacheEmptied, NEW t \in Threads, OnlyThread(t), fopen' = fopen, cache' = cache,
         w[t].file = None \/ w[t].file \in fopen
  PROVE  CacheEmptied'
BY GemAssumption DEF CacheEmptied, OnlyThread, File

LEMMA CacheEmptiedStep ==
  ASSUME TypeOK, LocalInv, ReleaseInv, CachePaired, CacheEmptied, Next PROVE CacheEmptied'
<1> USE GemAssumption DEF TypeOK, LocalInv, Local, File, Obj, Buf, Ok, Calling, NoCall, Locals,
        Goto, Return, objVars, bufVars, fileVars, Error
<1>1. ASSUME NEW t \in Threads, NEW f \in Files, NEW o \in Objs, Create(t, f, o)
      PROVE  CacheEmptied'
  <2>1. \/ \E h \in Handles : Published(t, f, o, 1, "create", None, h)
        \/ Unpublished(t, f, o, 1, "create", None)
    BY <1>1, PublishCases DEF Create, Calls
  <2>2. CASE Unpublished(t, f, o, 1, "create", None)
    <3>1. OnlyThread(t) /\ fopen' = fopen /\ cache' = cache
      BY <1>1, <2>2 DEF OnlyThread, Unpublished, Create, Calls
    <3>2. File(t) = None \/ File(t) \in fopen
      BY <1>1, <2>2 DEF ReleaseInv, Unpublished, Create, Calls
    <3> HIDE GemAssumption DEF TypeOK, LocalInv
    <3> QED
      BY <3>1, <3>2, EmptiedCall
  <2>3. ASSUME NEW h \in Handles, Published(t, f, o, 1, "create", None, h)
        PROVE  CacheEmptied'
    <3>1. OnlyThread(t) /\ fopen' = fopen /\ cache' = cache
      BY <1>1, <2>3 DEF OnlyThread, Published, Create, Calls
    <3>2. File(t) = None \/ File(t) \in fopen
      BY <1>1, <2>3 DEF ReleaseInv, Published, Create, Calls
    <3> HIDE GemAssumption DEF TypeOK, LocalInv
    <3> QED
      BY <3>1, <3>2, EmptiedCall
  <2> QED
    BY <2>1, <2>2, <2>3
<1>2. ASSUME NEW t \in Threads, NEW f \in Files, NEW o \in Objs, OpenName(t, f, o)
      PROVE  CacheEmptied'
  <2>1. \/ \E h \in Handles : Published(t, f, o, ref[o] + 1, "open", None, h)
        \/ Unpublished(t, f, o, ref[o] + 1, "open", None)
    BY <1>2, PublishCases DEF OpenName, Calls
  <2>2. CASE Unpublished(t, f, o, ref[o] + 1, "open", None)
    <3>1. OnlyThread(t) /\ fopen' = fopen /\ cache' = cache
      BY <1>2, <2>2 DEF OnlyThread, Unpublished, OpenName, Calls
    <3>2. File(t) = None \/ File(t) \in fopen
      BY <1>2, <2>2 DEF ReleaseInv, Unpublished, OpenName, Calls
    <3> HIDE GemAssumption DEF TypeOK, LocalInv
    <3> QED
      BY <3>1, <3>2, EmptiedCall
  <2>3. ASSUME NEW h \in Handles, Published(t, f, o, ref[o] + 1, "open", None, h)
        PROVE  CacheEmptied'
    <3>1. OnlyThread(t) /\ fopen' = fopen /\ cache' = cache
      BY <1>2, <2>3 DEF OnlyThread, Published, OpenName, Calls
    <3>2. File(t) = None \/ File(t) \in fopen
      BY <1>2, <2>3 DEF ReleaseInv, Published, OpenName, Calls
    <3> HIDE GemAssumption DEF TypeOK, LocalInv
    <3> QED
      BY <3>1, <3>2, EmptiedCall
  <2> QED
    BY <2>1, <2>2, <2>3
<1>3. ASSUME NEW t \in Threads, NEW f \in Files, NEW o \in Objs, GetFb(t, f, o)
      PROVE  CacheEmptied'
  <2>1. \/ \E h \in Handles : Published(t, f, o, ref[o] + 1, "getfb", None, h)
        \/ Unpublished(t, f, o, ref[o] + 1, "getfb", None)
    BY <1>3, PublishCases DEF GetFb, Calls
  <2>2. CASE Unpublished(t, f, o, ref[o] + 1, "getfb", None)
    <3>1. OnlyThread(t) /\ fopen' = fopen /\ cache' = cache
      BY <1>3, <2>2 DEF OnlyThread, Unpublished, GetFb, Calls
    <3>2. File(t) = None \/ File(t) \in fopen
      BY <1>3, <2>2 DEF ReleaseInv, Unpublished, GetFb, Calls
    <3> HIDE GemAssumption DEF TypeOK, LocalInv
    <3> QED
      BY <3>1, <3>2, EmptiedCall
  <2>3. ASSUME NEW h \in Handles, Published(t, f, o, ref[o] + 1, "getfb", None, h)
        PROVE  CacheEmptied'
    <3>1. OnlyThread(t) /\ fopen' = fopen /\ cache' = cache
      BY <1>3, <2>3 DEF OnlyThread, Published, GetFb, Calls
    <3>2. File(t) = None \/ File(t) \in fopen
      BY <1>3, <2>3 DEF ReleaseInv, Published, GetFb, Calls
    <3> HIDE GemAssumption DEF TypeOK, LocalInv
    <3> QED
      BY <3>1, <3>2, EmptiedCall
  <2> QED
    BY <2>1, <2>2, <2>3
<1>4. ASSUME NEW t \in Threads, ImportOwn(t) PROVE CacheEmptied'
  <2>0. PICK f \in Files, o \in Objs, b \in Bufs : OwnTaken(t, f, o, b) /\ OwnEnds(t, f, o, b)
    BY <1>4, ImportOwnCases
  <2>1. OwnTaken(t, f, o, b)
    BY <2>0
  <2>2. CASE Unpublished(t, f, o, ref[o] + 1, "import", b)
    <3>1. OnlyThread(t) /\ fopen' = fopen /\ cache' = cache
      BY <2>1, <2>2 DEF OnlyThread, Unpublished, OwnTaken
    <3>2. w[t].file = None \/ w[t].file \in fopen
      BY <2>1, <2>2 DEF ReleaseInv, Unpublished, OwnTaken
    <3> HIDE GemAssumption DEF TypeOK, LocalInv
    <3> QED
      BY <3>1, <3>2, EmptiedCall
  <2>3. ASSUME NEW h \in Handles, Published(t, f, o, ref[o] + 1, "import", b, h)
        PROVE  CacheEmptied'
    <3>1. OnlyThread(t) /\ fopen' = fopen /\ cache' = cache
      BY <2>1, <2>3 DEF OnlyThread, Published, OwnTaken
    <3>2. w[t].file = None \/ w[t].file \in fopen
      BY <2>1, <2>3 DEF ReleaseInv, Published, OwnTaken
    <3> HIDE GemAssumption DEF TypeOK, LocalInv
    <3> QED
      BY <3>1, <3>2, EmptiedCall
  <2> QED
    BY <2>0, <2>2, <2>3 DEF OwnEnds
<1>5. ASSUME NEW t \in Threads, NEW o \in Objs, ImportForeign(t, o) PROVE CacheEmptied'
  <2>1. \/ \E h \in Handles : Published(t, File(t), o, 1, "import", Buf(t), h)
        \/ Unpublished(t, File(t), o, 1, "import", Buf(t))
    BY <1>5, PublishCases DEF ImportForeign, Imports
  <2>2. CASE Unpublished(t, File(t), o, 1, "import", Buf(t))
    <3>1. OnlyThread(t) /\ fopen' = fopen /\ cache' = cache
      BY <1>5, <2>2 DEF OnlyThread, Unpublished, ImportForeign, Imports
    <3>2. File(t) = None \/ File(t) \in fopen
      BY <1>5, <2>2 DEF ReleaseInv, Unpublished, ImportForeign, Imports
    <3> HIDE GemAssumption DEF TypeOK, LocalInv
    <3> QED
      BY <3>1, <3>2, EmptiedCall
  <2>3. ASSUME NEW h \in Handles, Published(t, File(t), o, 1, "import", Buf(t), h)
        PROVE  CacheEmptied'
    <3>1. OnlyThread(t) /\ fopen' = fopen /\ cache' = cache
      BY <1>5, <2>3 DEF OnlyThread, Published, ImportForeign, Imports
    <3>2. File(t) = None \/ File(t) \in fopen
      BY <1>5, <2>3 DEF ReleaseInv, Published, ImportForeign, Imports
    <3> HIDE GemAssumption DEF TypeOK, LocalInv
    <3> QED
      BY <3>1, <3>2, EmptiedCall
  <2> QED
    BY <2>1, <2>2, <2>3
<1>6. ASSUME NEW t \in Threads, OpenFails(t) PROVE CacheEmptied'
  <2>1. OnlyThread(t) /\ fopen' = fopen
    BY <1>6 DEF OnlyThread, OpenFails, AfterRemove
  <2>2. w'[t].file = w[t].file /\ \A g \in Files : g # w[t].file => cache'[g] = cache[g]
    BY <1>6 DEF OpenFails, AfterRemove
  <2> QED
    BY <2>1, <2>2, EmptiedWithin
<1>7. ASSUME NEW t \in Threads, PutObj(t) PROVE CacheEmptied'
  <2>1. OnlyThread(t) /\ fopen' = fopen /\ cache' = cache
    BY <1>7 DEF OnlyThread, PutObj, ObjPut
  <2>2. File(t) = None \/ File(t) \in fopen
    BY <1>7 DEF ReleaseInv, Creates, PutObj, ObjPut
  <2> QED
    BY <2>1, <2>2, EmptiedCall
<1>8. ASSUME NEW t \in Threads, Uncache(t) PROVE CacheEmptied'
  <2>1. OnlyThread(t) /\ fopen' = fopen
    BY <1>8 DEF OnlyThread, Uncache, BufPut, Members
  <2>2. w'[t].file = w[t].file /\ \A g \in Files : g # w[t].file => cache'[g] = cache[g]
    BY <1>8 DEF Uncache, BufPut, Members
  <2> QED
    BY <2>1, <2>2, EmptiedWithin
<1>9. ASSUME NEW t \in Threads, UncacheNothing(t) PROVE CacheEmptied'
  <2>1. OnlyThread(t) /\ fopen' = fopen
    BY <1>9 DEF OnlyThread, UncacheNothing, Members
  <2>2. w'[t].file = w[t].file /\ \A g \in Files : g # w[t].file => cache'[g] = cache[g]
    BY <1>9 DEF UncacheNothing, Members
  <2> QED
    BY <2>1, <2>2, EmptiedWithin
<1>10. ASSUME NEW t \in Threads, HandlePut(t) PROVE CacheEmptied'
  <2>1. OnlyThread(t) /\ fopen' = fopen
    BY <1>10 DEF OnlyThread, HandlePut, AfterPut
  <2>2. w'[t].file = w[t].file /\ \A g \in Files : g # w[t].file => cache'[g] = cache[g]
    BY <1>10 DEF HandlePut, AfterPut
  <2> QED
    BY <2>1, <2>2, EmptiedWithin
<1>11. ASSUME NEW t \in Threads, LastHandlePut(t) PROVE CacheEmptied'
  <2>1. OnlyThread(t) /\ fopen' = fopen
    BY <1>11 DEF OnlyThread, LastHandlePut, BufPut
  <2>2. w'[t].file = w[t].file /\ \A g \in Files : g # w[t].file => cache'[g] = cache[g]
    BY <1>11 DEF LastHandlePut, BufPut
  <2> QED
    BY <2>1, <2>2, EmptiedWithin
<1>12. ASSUME NEW t \in Threads, FinalPut(t) PROVE CacheEmptied'
  <2>1. OnlyThread(t) /\ fopen' = fopen
    BY <1>12 DEF OnlyThread, FinalPut, ObjPut, AfterPut
  <2>2. w'[t].file = w[t].file /\ \A g \in Files : g # w[t].file => cache'[g] = cache[g]
    BY <1>12 DEF FinalPut, ObjPut, AfterPut
  <2> QED
    BY <2>1, <2>2, EmptiedWithin
<1>13. ASSUME NEW t \in Threads, Unreserve(t) PROVE CacheEmptied'
  <2>1. OnlyThread(t) /\ fopen' = fopen /\ cache' = cache
    BY <1>13 DEF OnlyThread, Unreserve
  <2>2. CASE w[t].op = "close"
    <3>1. File(t) \in fopen
      BY <1>13, <2>2 DEF ReleaseInv, Unreserve
    <3> QED
      BY <2>1, <3>1, EmptiedCall
  <2>3. CASE w[t].op # "close"
    <3>1. w'[t].file = w[t].file
      BY <1>13, <2>3 DEF Unreserve
    <3> QED
      BY <2>1, <3>1, EmptiedWithin
  <2> QED
    BY <2>2, <2>3
<1>14. ASSUME NEW t \in Threads, Released(t) PROVE CacheEmptied'
  <2>1. /\ OnlyThread(t) /\ fopen' = fopen /\ cache' = cache /\ pc[t] = "release"
        /\ File(t) \in Files
    BY <1>14 DEF OnlyThread, Released
  <2>2. ASSUME NEW m \in cache[File(t)] PROVE FALSE
    <3>1. Paired(File(t), m) /\ m[1] \in Handles
      BY <2>1 DEF CachePaired
    <3>2. \E s \in Threads : Waits(s, File(t), m[1])
      BY <1>14, <3>1 DEF Paired, Released
    <3> QED
      BY <2>1, <3>2 DEF ReleaseInv, Waits
  <2>3. cache[File(t)] = {}
    BY <2>2
  <2>4. ASSUME NEW f \in Files, f \notin fopen, \A s \in Threads : w'[s].file # f
        PROVE  cache[f] = {}
    <3>1. f # File(t) => \A s \in Threads : File(s) # f
      BY <2>1, <2>4 DEF OnlyThread
    <3> QED
      BY <2>3, <2>4, <3>1 DEF CacheEmptied
  <2> QED
    BY <2>1, <2>4 DEF CacheEmptied
<1>15. ASSUME NEW t \in Threads, NEW h \in Handles, ReleaseHandle(t, h) PROVE CacheEmptied'
  <2>1. OnlyThread(t) /\ fopen' = fopen
    BY <1>15 DEF OnlyThread, ReleaseHandle, IsObj
  <2>2. w'[t].file = w[t].file /\ \A g \in Files : g # w[t].file => cache'[g] = cache[g]
    BY <1>15 DEF ReleaseHandle, IsObj
  <2> QED
    BY <2>1, <2>2, EmptiedWithin
<1>16. ASSUME NEW t \in Threads, FlinkName(t) PROVE CacheEmptied'
  <2>1. OnlyThread(t) /\ fopen' = fopen
    BY <1>16 DEF OnlyThread, FlinkName, HasHandles
  <2>2. w'[t].file = w[t].file /\ \A g \in Files : g # w[t].file => cache'[g] = cache[g]
    BY <1>16 DEF FlinkName, HasHandles
  <2> QED
    BY <2>1, <2>2, EmptiedWithin
<1>17. ASSUME NEW t \in Threads, ToFdCached(t) PROVE CacheEmptied'
  <2>1. OnlyThread(t) /\ fopen' = fopen
    BY <1>17 DEF OnlyThread, ToFdCached, Cached, Members
  <2>2. w'[t].file = w[t].file /\ \A g \in Files : g # w[t].file => cache'[g] = cache[g]
    BY <1>17 DEF ToFdCached, Cached, Members
  <2> QED
    BY <2>1, <2>2, EmptiedWithin
<1>18. ASSUME NEW t \in Threads, NEW b \in Bufs, ToFdKnown(t, b) PROVE CacheEmptied'
  <2>1. OnlyThread(t) /\ fopen' = fopen
    BY <1>18 DEF OnlyThread, ToFdKnown, IsKnown, CacheAdd, CacheRefs
  <2>2. w'[t].file = w[t].file /\ \A g \in Files : g # w[t].file => cache'[g] = cache[g]
    BY <1>18 DEF ToFdKnown, IsKnown, CacheAdd, CacheRefs
  <2> QED
    BY <2>1, <2>2, EmptiedWithin
<1>19. ASSUME NEW t \in Threads, NEW b \in Bufs, ToFdUncached(t, b) PROVE CacheEmptied'
  <2>1. OnlyThread(t) /\ fopen' = fopen
    BY <1>19 DEF OnlyThread, ToFdUncached, IsKnown
  <2>2. w'[t].file = w[t].file /\ \A g \in Files : g # w[t].file => cache'[g] = cache[g]
    BY <1>19 DEF ToFdUncached, IsKnown
  <2> QED
    BY <2>1, <2>2, EmptiedWithin
<1>20. ASSUME NEW t \in Threads, ExportFails(t) PROVE CacheEmptied'
  <2>1. OnlyThread(t) /\ fopen' = fopen
    BY <1>20 DEF OnlyThread, ExportFails, MayExport
  <2>2. w'[t].file = w[t].file /\ \A g \in Files : g # w[t].file => cache'[g] = cache[g]
    BY <1>20 DEF ExportFails, MayExport
  <2> QED
    BY <2>1, <2>2, EmptiedWithin
<1>21. ASSUME NEW t \in Threads, InstallFd(t) PROVE CacheEmptied'
  <2>1. OnlyThread(t) /\ fopen' = fopen
    BY <1>21 DEF OnlyThread, AsksFd, InstallFd
  <2>2. w'[t].file = w[t].file /\ \A g \in Files : g # w[t].file => cache'[g] = cache[g]
    BY <1>21 DEF AsksFd, InstallFd
  <2> QED
    BY <2>1, <2>2, EmptiedWithin
<1>21a. ASSUME NEW t \in Threads, FdFails(t) PROVE CacheEmptied'
  <2>1. OnlyThread(t) /\ fopen' = fopen
    BY <1>21a DEF OnlyThread, AsksFd, FdFails
  <2>2. w'[t].file = w[t].file /\ \A g \in Files : g # w[t].file => cache'[g] = cache[g]
    BY <1>21a DEF AsksFd, FdFails
  <2> QED
    BY <2>1, <2>2, EmptiedWithin
<1>22. ASSUME NEW t \in Threads, PutUncached(t) PROVE CacheEmptied'
  <2>1. OnlyThread(t) /\ fopen' = fopen
    BY <1>22 DEF OnlyThread, PutUncached, BufPut
  <2>2. w'[t].file = w[t].file /\ \A g \in Files : g # w[t].file => cache'[g] = cache[g]
    BY <1>22 DEF PutUncached, BufPut
  <2> QED
    BY <2>1, <2>2, EmptiedWithin
<1>23. ASSUME NEW t \in Threads, NEW b \in Bufs, Export(t, b) PROVE CacheEmptied'
  <2>1. OnlyThread(t) /\ fopen' = fopen
    BY <1>23 DEF OnlyThread, Export, HasHandles, Exported, MayExport, CacheAdd, CacheRefs
  <2>2. w'[t].file = w[t].file /\ \A g \in Files : g # w[t].file => cache'[g] = cache[g]
    BY <1>23 DEF Export, HasHandles, Exported, MayExport, CacheAdd, CacheRefs
  <2> QED
    BY <2>1, <2>2, EmptiedWithin
<1>24. ASSUME NEW t \in Threads, NEW b \in Bufs, ExportUncached(t, b) PROVE CacheEmptied'
  <2>1. OnlyThread(t) /\ fopen' = fopen
    BY <1>24 DEF OnlyThread, ExportUncached, HasHandles, Exported, MayExport
  <2>2. w'[t].file = w[t].file /\ \A g \in Files : g # w[t].file => cache'[g] = cache[g]
    BY <1>24 DEF ExportUncached, HasHandles, Exported, MayExport
  <2> QED
    BY <2>1, <2>2, EmptiedWithin
<1>25. ASSUME NEW t \in Threads, ImportSeen(t) PROVE CacheEmptied'
  <2>1. OnlyThread(t) /\ fopen' = fopen
    BY <1>25 DEF OnlyThread, ImportSeen
  <2>2. w'[t].file = w[t].file /\ \A g \in Files : g # w[t].file => cache'[g] = cache[g]
    BY <1>25 DEF ImportSeen
  <2> QED
    BY <2>1, <2>2, EmptiedWithin
<1>26. ASSUME NEW t \in Threads, ImportFails(t) PROVE CacheEmptied'
  <2>1. OnlyThread(t) /\ fopen' = fopen
    BY <1>26 DEF OnlyThread, ImportFails, Imports
  <2>2. w'[t].file = w[t].file /\ \A g \in Files : g # w[t].file => cache'[g] = cache[g]
    BY <1>26 DEF ImportFails, Imports
  <2> QED
    BY <2>1, <2>2, EmptiedWithin
<1>27. ASSUME NEW t \in Threads, ImportCache(t) PROVE CacheEmptied'
  <2>1. OnlyThread(t) /\ fopen' = fopen
    BY <1>27 DEF OnlyThread, ImportCache, CacheAdd, CacheRefs
  <2>2. w'[t].file = w[t].file /\ \A g \in Files : g # w[t].file => cache'[g] = cache[g]
    BY <1>27 DEF ImportCache, CacheAdd, CacheRefs
  <2> QED
    BY <2>1, <2>2, EmptiedWithin
<1>28. ASSUME NEW t \in Threads, ImportNoCache(t) PROVE CacheEmptied'
  <2>1. OnlyThread(t) /\ fopen' = fopen
    BY <1>28 DEF OnlyThread, ImportNoCache
  <2>2. w'[t].file = w[t].file /\ \A g \in Files : g # w[t].file => cache'[g] = cache[g]
    BY <1>28 DEF ImportNoCache
  <2> QED
    BY <2>1, <2>2, EmptiedWithin
<1>29. ASSUME NEW t \in Threads, ImportDelete(t) PROVE CacheEmptied'
  <2>1. OnlyThread(t) /\ fopen' = fopen
    BY <1>29 DEF OnlyThread, ImportDelete, IsObj, Replaced
  <2>2. w'[t].file = w[t].file /\ \A g \in Files : g # w[t].file => cache'[g] = cache[g]
    BY <1>29 DEF ImportDelete, IsObj, Replaced
  <2> QED
    BY <2>1, <2>2, EmptiedWithin
<1>30. ASSUME NEW t \in Threads, ImportDeleted(t) PROVE CacheEmptied'
  <2>1. OnlyThread(t) /\ fopen' = fopen
    BY <1>30 DEF OnlyThread, ImportDeleted
  <2>2. w'[t].file = w[t].file /\ \A g \in Files : g # w[t].file => cache'[g] = cache[g]
    BY <1>30 DEF ImportDeleted
  <2> QED
    BY <2>1, <2>2, EmptiedWithin
<1>31. ASSUME NEW t \in Threads, ImportPut(t) PROVE CacheEmptied'
  <2>1. OnlyThread(t) /\ fopen' = fopen /\ cache' = cache
    BY <1>31 DEF OnlyThread, ImportPut, BufPut
  <2>2. File(t) = None \/ File(t) \in fopen
    BY <1>31 DEF ReleaseInv, Creates, ImportPut, BufPut
  <2> QED
    BY <2>1, <2>2, EmptiedCall
<1>32. ASSUME NEW t \in Threads, NEW f \in Files, NEW h \in Handles, Close(t, f, h)
       PROVE  CacheEmptied'
  <2>1. OnlyThread(t) /\ fopen' = fopen /\ cache' = cache
    BY <1>32 DEF OnlyThread, Close, Calls, Names, IsObj, Replaced
  <2>2. File(t) = None \/ File(t) \in fopen
    BY <1>32 DEF ReleaseInv, Creates, Close, Calls, Names, IsObj, Replaced
  <2> QED
    BY <2>1, <2>2, EmptiedCall
<1>33. ASSUME NEW t \in Threads, NEW f \in Files, NEW h \in Handles, Flink(t, f, h)
       PROVE  CacheEmptied'
  <2>1. OnlyThread(t) /\ fopen' = fopen /\ cache' = cache
    BY <1>33 DEF OnlyThread, Flink, Lookup, Calls, Names, IsObj
  <2>2. File(t) = None \/ File(t) \in fopen
    BY <1>33 DEF ReleaseInv, Creates, Flink, Lookup, Calls, Names, IsObj
  <2> QED
    BY <2>1, <2>2, EmptiedCall
<1>34. ASSUME NEW t \in Threads, NEW f \in Files, NEW h \in Handles, ToFd(t, f, h)
       PROVE  CacheEmptied'
  <2>1. OnlyThread(t) /\ fopen' = fopen /\ cache' = cache
    BY <1>34 DEF OnlyThread, ToFd, Lookup, Calls, Names, IsObj
  <2>2. File(t) = None \/ File(t) \in fopen
    BY <1>34 DEF ReleaseInv, Creates, ToFd, Lookup, Calls, Names, IsObj
  <2> QED
    BY <2>1, <2>2, EmptiedCall
<1>35. ASSUME NEW t \in Threads, NEW f \in Files, NEW h \in Handles, AddFb(t, f, h)
       PROVE  CacheEmptied'
  BY <1>35 DEF CacheEmptied, AddFb, Calls, Names, IsObj
<1>36. ASSUME NEW t \in Threads, NEW f \in Files, NEW b \in Bufs, FdToHandle(t, f, b)
       PROVE  CacheEmptied'
  <2>1. OnlyThread(t) /\ fopen' = fopen /\ cache' = cache
    BY <1>36 DEF OnlyThread, FdToHandle, Calls
  <2>2. File(t) = None \/ File(t) \in fopen
    BY <1>36 DEF ReleaseInv, Creates, FdToHandle, Calls
  <2> QED
    BY <2>1, <2>2, EmptiedCall
<1>37. ASSUME NEW t \in Threads, NEW f \in Files, ReleaseFile(t, f) PROVE CacheEmptied'
  BY <1>37 DEF CacheEmptied, ReleaseFile, Calls
<1>38. ASSUME NEW b \in Bufs, CloseFd(b) PROVE CacheEmptied'
  BY <1>38 DEF CacheEmptied, CloseFd, BufPut
<1>39. ASSUME NEW o \in Objs, RmFb(o) PROVE CacheEmptied'
  BY <1>39 DEF CacheEmptied, RmFb, ObjPut
<1> HIDE GemAssumption DEF TypeOK, LocalInv, Local, File, Obj, Buf, Ok, Calling, NoCall, Locals,
        Goto, Return, objVars, bufVars, fileVars, Error
<1> QED
  BY Zenon, <1>1, <1>2, <1>3, <1>4, <1>5, <1>6, <1>7, <1>8, <1>9, <1>10, <1>11, <1>12, <1>13, <1>14,
      <1>15, <1>16, <1>17, <1>18, <1>19, <1>20, <1>21, <1>21a, <1>22, <1>23, <1>24, <1>25, <1>26,
      <1>27, <1>28, <1>29, <1>30, <1>31, <1>32, <1>33, <1>34, <1>35, <1>36, <1>37, <1>38, <1>39 DEF Next, Step, Call

----------------------------------------------------------------------------
(* The theorems                                                            *)

LEMMA InitIInv == Init => IInv
<1> SUFFICES ASSUME Init PROVE IInv
  OBVIOUS
<1> USE GemAssumption
<1>1. TypeOK
  BY DEF Init, TypeOK, Labels, Ops, Calling, NoCall, Locals, Error, Null, Free
<1>2. \A t \in Threads : pc[t] = "idle" /\ w[t] = NoCall
  BY DEF Init
<1>3. LocalInv /\ ReleaseInv
  BY <1>2 DEF LocalInv, Local, ReleaseInv, NoCall, Locals, File, Obj, Buf, Ok
<1>4. HandleInv /\ LockHeld /\ HandleKept /\ ImportKept /\ NotCached
  BY <1>2 DEF HandleInv, TakesOut, Makes, Uses, LockHeld, HasLock, HandleKept, WillCache,
              ImportKept, NotCached, Fresh, NoCall, Locals
<1>5. BufInv /\ NothingLeft
  BY DEF Init, BufInv, NothingLeft
<1>6. CacheSound
  BY DEF Init, CacheSound
<1>7. HandlesExact
  <2>1. ASSUME NEW o \in Objs PROVE InTable(o) = {} /\ TakenOut(o) = {}
    BY <1>2 DEF Init, InTable, TakenOut, Free
  <2>2. Num({}) = 0 /\ \A o \in Objs : hc[o] = 0
    BY FS_EmptySet DEF Init, Num
  <2> QED
    BY <2>1, <2>2 DEF HandlesExact
<1>8. RefsExact
  <2>1. ASSUME NEW o \in Objs PROVE Exports(o) = {} /\ Holders(o) = {} /\ TwiceHeld(o) = {}
    BY <1>2 DEF Init, Exports, Holders, HoldsObj, TwiceHeld, Obj
  <2>2. ASSUME NEW b \in Bufs
        PROVE  /\ Exporters(b) = {} /\ Importers(b) = {} /\ CachedFor(b) = {}
               /\ BufHolders(b) = {}
    BY <1>2 DEF Init, Exporters, Importers, CachedFor, BufHolders, HoldsBuf, NoCall, Locals
  <2>3. Num({}) = 0
    BY FS_EmptySet DEF Num
  <2>4. ASSUME NEW o \in Objs
        PROVE  ref[o] = Bit(hc[o] > 0) + Bit(o \in fb) + Num(Exports(o)) + Num(Holders(o))
                        + Num(TwiceHeld(o))
    <3>1. ref[o] = 0 /\ hc[o] = 0 /\ o \notin fb
      BY DEF Init
    <3> QED
      BY <2>1, <2>3, <3>1 DEF Bit
  <2>5. ASSUME NEW b \in Bufs
        PROVE  bref[b] = fds[b] + lost[b] + Num(Exporters(b)) + Num(Importers(b)) + Num(CachedFor(b))
                         + Num(BufHolders(b))
    <3>1. bref[b] = fds[b] /\ fds[b] \in Nat /\ lost[b] = 0
      BY DEF Init
    <3> QED
      BY SMTT(20), <2>2, <2>3, <3>1
  <2> QED
    BY <2>4, <2>5 DEF RefsExact
<1> QED
  BY <1>1, <1>3, <1>4, <1>5, <1>6, <1>7, <1>8 DEF IInv

LEMMA SameIInv == IInv /\ UNCHANGED vars => IInv'
<1> SUFFICES ASSUME IInv, UNCHANGED vars PROVE IInv'
  OBVIOUS
<1> USE DEF IInv, vars, objVars, bufVars, fileVars
<1>1. TypeOK' /\ LocalInv' /\ ReleaseInv'
  BY DEF TypeOK, LocalInv, Local, ReleaseInv, Creates, File, Obj, Buf, Ok
<1>2. HandleInv' /\ LockHeld' /\ BufInv' /\ NothingLeft'
  BY DEF HandleInv, TakesOut, Makes, Uses, Same, LockHeld, HasLock, BufInv, NothingLeft, File,
         Obj, Ok
<1>3. HandleKept' /\ ImportKept' /\ NotCached'
  BY DEF HandleKept, WillCache, StillThere, ImportKept, NotCached, Fresh, Members, File, Obj,
         Buf
<1>4. CacheSound'
  BY DEF CacheSound, IsObj, File
<1>5. HandlesExact'
  <2>1. ASSUME NEW o \in Objs PROVE InTable(o)' = InTable(o) /\ TakenOut(o)' = TakenOut(o)
    BY DEF InTable, TakenOut, Obj
  <2> QED
    BY <2>1 DEF HandlesExact, Num
<1>6. RefsExact'
  <2>1. ASSUME NEW o \in Objs
        PROVE  /\ Exports(o)' = Exports(o) /\ Holders(o)' = Holders(o)
               /\ TwiceHeld(o)' = TwiceHeld(o)
    BY DEF Exports, Holders, HoldsObj, TwiceHeld, Obj, Ok
  <2>2. ASSUME NEW b \in Bufs
        PROVE  /\ Exporters(b)' = Exporters(b) /\ Importers(b)' = Importers(b)
               /\ CachedFor(b)' = CachedFor(b) /\ BufHolders(b)' = BufHolders(b)
    BY DEF Exporters, Importers, CachedFor, BufHolders, HoldsBuf, Buf
  <2> QED
    BY <2>1, <2>2 DEF RefsExact, Num, Bit
<1> QED
  BY <1>1, <1>2, <1>3, <1>4, <1>5, <1>6

LEMMA NextIInv == IInv /\ Next => IInv'
<1> SUFFICES ASSUME IInv, Next PROVE IInv'
  OBVIOUS
<1> USE DEF IInv
<1>1. TypeOK' /\ LocalInv'
  BY TypeStep
<1>2. ReleaseInv' /\ HandleInv'
  BY ReleaseStep, HandleStep
<1>3. BufInv' /\ NothingLeft' /\ HandlesExact'
  BY BufInvStep, NothingLeftStep, HandlesStep
<1>4. RefsExact'
  BY <1>1, RefsStep
<1>5. LockHeld' /\ HandleKept' /\ ImportKept'
  BY LockHeldStep, HandleKeptStep, ImportKeptStep
<1>6. CachePaired /\ CacheUnique /\ CacheEmptied
  BY CacheParts
<1>7. NotCached' /\ CachePaired' /\ CacheUnique' /\ CacheEmptied'
  BY <1>6, NotCachedStep, CachePairedStep, CacheUniqueStep, CacheEmptiedStep
<1>8. CacheSound'
  BY <1>7 DEF CacheSound, CachePaired, CacheUnique, CacheEmptied, Paired, Waits
<1> QED
  BY <1>1, <1>2, <1>3, <1>4, <1>5, <1>7, <1>8

LEMMA Invariant == Spec => []IInv
<1>1. IInv /\ [Next]_vars => IInv'
  BY NextIInv, SameIInv
<1> QED
  BY InitIInv, <1>1, PTL DEF Spec

\* Whatever calls, closes, exports and imports do at the same time, and wherever they
\* fail, the reference counts of objects and dma-bufs are exactly the references of
\* handles, names, framebuffers, descriptors, caches, calls and of each other.
THEOREM RefsAreExact == Spec => []RefsExact
<1>1. IInv => RefsExact
  BY DEF IInv
<1> QED
  BY Invariant, <1>1, PTL

\* handle_count is the number of handles in the tables and of those that
\* drm_gem_handle_delete() and drm_gem_release() are taking out.
THEOREM HandlesAreExact == Spec => []HandlesExact
<1>1. IInv => HandlesExact
  BY DEF IInv
<1> QED
  BY Invariant, <1>1, PTL

\* drm_gem_object_handle_put_unlocked() leaves neither a name nor a dma-buf behind:
\* flink and export, which race with it, look at handle_count under object_name_lock.
THEOREM NothingIsLeft == Spec => []NothingLeft
<1>1. IInv => NothingLeft
  BY DEF IInv
<1> QED
  BY Invariant, <1>1, PTL

\* The cache of a file pairs each handle with the dma-buf of its object, one only, also
\* while handles are taken out and used again; drm_prime_destroy_file_private() finds
\* it empty.
THEOREM CachesAreSound == Spec => []CacheSound
<1>1. IInv => CacheSound
  BY DEF IInv
<1> QED
  BY Invariant, <1>1, PTL

=============================================================================

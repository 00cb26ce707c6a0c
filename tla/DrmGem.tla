------------------------------- MODULE DrmGem -------------------------------
(***************************************************************************)
(* GEM objects with their handles, names and exported dma-bufs:            *)
(* drivers/gpu/drm/drm_gem.c and drivers/gpu/drm/drm_prime.c.              *)
(*                                                                         *)
(* A file has a table of handles, and a cache that says which dma-buf was  *)
(* exported from or imported to which handle.  An object counts its        *)
(* handles over all files; with the last one its name goes and so does its *)
(* reference to the dma-buf, which refers to the object itself.            *)
(*                                                                         *)
(* Grain of atomicity.  What is done under object_name_lock is one step,   *)
(* nothing in it can be seen before the lock is dropped except the handle, *)
(* which is published last.  The lock of a file's cache is held over       *)
(* several steps and is a variable.  Dropping a reference is a step.       *)
(*                                                                         *)
(* Data.  A buffer of another device is in Foreign.  Objects and buffers   *)
(* are not used again when they are freed; handles are.  The bounds are    *)
(* the numbers of objects, buffers, handles and descriptors: a call that   *)
(* would need more is not made, or waits.                                  *)
(***************************************************************************)
EXTENDS Integers, FiniteSets

CONSTANTS
  Objs, Bufs, Foreign, Files, Threads,
  Handles,         \* the handles of a file, numbers
  MaxFds,          \* the descriptors of a dma-buf that are open or could not be installed
  MaxHandles,      \* the handles in use, of all files
  Guessing,        \* files whose tasks use handles that no call has returned yet
  None

ASSUME GemAssumption ==
  /\ Foreign \subseteq Bufs /\ Handles \subseteq Nat
  /\ \A S \in {Objs, Bufs, Files, Threads, Handles} : IsFiniteSet(S)
  /\ None \notin Objs \cup Bufs \cup Files \cup Threads
  /\ {"null", "free"} \cap Objs = {}
  /\ MaxFds \in Nat /\ MaxHandles \in Nat
  /\ Guessing \subseteq Files

VARIABLES
  \* objects
  born,    \* allocated so far
  ref,     \* refcount
  hc,      \* handle_count
  name,    \* object_name_idr: the objects that have a name
  dbuf,    \* dma_buf
  attach,  \* import_attach->dmabuf
  fb,      \* the objects that a framebuffer refers to
  \* dma-bufs
  bref,    \* reference count of the file
  priv,    \* the object it was exported from
  fds,     \* open descriptors
  lost,    \* history: the references that no put will ever drop
  \* files
  table,   \* object_idr: an object, "null" (reserved) or "free"
  cache,   \* prime: pairs of a handle and a dma-buf
  plock,   \* prime.lock
  fopen,   \* the files that are open
  \* threads
  pc, w

objVars  == <<born, ref, hc, name, dbuf, attach, fb>>
bufVars  == <<bref, priv, fds, lost>>
fileVars == <<table, cache, plock, fopen>>
vars == <<objVars, bufVars, fileVars, pc, w>>

\* The local variables of a call, without an error so far.
Locals(op, f, h, o, b) ==
  [op |-> op, file |-> f, h |-> h, obj |-> o, buf |-> b, ret |-> 0]
NoCall == Locals("none", None, 0, None, None)
Null == "null"
Free == "free"
IsObj(x) == x \notin {Null, Free}

Init ==
  /\ born = {} /\ ref = [o \in Objs |-> 0] /\ hc = [o \in Objs |-> 0]
  /\ name = {} /\ dbuf = [o \in Objs |-> None]
  /\ attach = [o \in Objs |-> None] /\ fb = {}
  /\ bref = [b \in Bufs |-> IF b \in Foreign THEN 1 ELSE 0]
  /\ fds = [b \in Bufs |-> IF b \in Foreign THEN 1 ELSE 0]
  /\ lost = [b \in Bufs |-> 0] /\ priv = [b \in Bufs |-> None]
  /\ table = [f \in Files |-> [h \in Handles |-> Free]]
  /\ cache = [f \in Files |-> {}] /\ plock = [f \in Files |-> None]
  /\ fopen = Files
  /\ pc = [t \in Threads |-> "idle"] /\ w = [t \in Threads |-> NoCall]

Goto(t, l) == pc' = [pc EXCEPT ![t] = l]
File(t) == w[t].file
Obj(t)  == w[t].obj
Buf(t)  == w[t].buf
Error   == -1
Ok(t)   == w[t].ret = 0     \* no error so far

\* drm_gem_object_put(); the free callback of an imported object drops its
\* reference to the dma-buf (drm_prime_gem_destroy()).
ObjPut(o) ==
  /\ ref' = [ref EXCEPT ![o] = @ - 1]
  /\ bref' = IF ref[o] = 1 /\ attach[o] # None THEN [bref EXCEPT ![attach[o]] = @ - 1]
             ELSE bref

\* dma_buf_put(); the last one calls drm_gem_dmabuf_release().
BufPut(b) ==
  /\ bref' = [bref EXCEPT ![b] = @ - 1]
  /\ ref' = IF bref[b] = 1 /\ priv[b] # None THEN [ref EXCEPT ![priv[b]] = @ - 1] ELSE ref

----------------------------------------------------------------------------
(* drm_gem_handle_create_tail()                                            *)

HasRoom(f) ==
  /\ \E h \in Handles : table[f][h] = Free
  /\ Cardinality({x \in Files \X Handles : table[x[1]][x[2]] # Free}) < MaxHandles
NewHandle(f) == CHOOSE h \in Handles : /\ table[f][h] = Free
                                       /\ \A g \in Handles : table[f][g] = Free => h <= g

\* Up to the end of object_name_lock: r is what refcount was before.  idr_alloc()
\* may fail, which leads to err_unref.
Publish(t, f, o, r, op, b) ==
  /\ hc' = [hc EXCEPT ![o] = @ + 1]
  /\ ref' = [ref EXCEPT ![o] = IF hc[o] = 0 THEN r + 1 ELSE r]
  /\ \/ /\ table' = [table EXCEPT ![f][NewHandle(f)] = o]
        /\ w' = [w EXCEPT ![t] = Locals(op, f, NewHandle(f), o, b)] /\ Goto(t, "opening")
     \/ /\ w' = [w EXCEPT ![t] = [Locals(op, f, 0, o, b) EXCEPT !.ret = Error]]
        /\ Goto(t, "hput") /\ UNCHANGED table

Calls(t, f) == pc[t] = "idle" /\ f \in fopen

\* The driver creates an object and a handle to it: drm_gem_handle_create().
Create(t, f, o) ==
  /\ Calls(t, f) /\ HasRoom(f) /\ o \notin born
  /\ born' = born \cup {o}
  /\ Publish(t, f, o, 1, "create", None)
  /\ UNCHANGED <<name, dbuf, attach, fb, bufVars, cache, plock, fopen>>

\* drm_gem_open_ioctl()
OpenName(t, f, o) ==
  /\ Calls(t, f) /\ HasRoom(f) /\ o \in name
  /\ Publish(t, f, o, ref[o] + 1, "open", None)
  /\ UNCHANGED <<born, name, dbuf, attach, fb, bufVars, cache, plock, fopen>>

\* The GETFB ioctl makes a handle for the object of a framebuffer, to which it
\* has a reference: the object cannot go before the call ends.
GetFb(t, f, o) ==
  /\ Calls(t, f) /\ HasRoom(f) /\ o \in fb
  /\ Publish(t, f, o, ref[o] + 1, "getfb", None)
  /\ UNCHANGED <<born, name, dbuf, attach, fb, bufVars, cache, plock, fopen>>

\* drm_vma_node_allow() or the open callback of the driver fails: err_remove, and
\* err_unref after it.  When they succeed, PutObj follows at once.
\* Mutant: the handle is taken out of the table and stays counted.
AfterRemoveNothing == "putobj"
AfterRemove == "hput"
OpenFails(t) ==
  /\ pc[t] = "opening" /\ File(t) \notin Guessing /\ Goto(t, AfterRemove)
  /\ table' = [table EXCEPT ![File(t)][w[t].h] = Free]
  /\ w' = [w EXCEPT ![t].ret = Error]
  /\ UNCHANGED <<objVars, bufVars, cache, plock, fopen>>

----------------------------------------------------------------------------
(* drm_gem_handle_delete() and drm_gem_release()                           *)

Creates(t) == w[t].op \in {"create", "open", "getfb", "import"}

\* The tasks know of handle h.  In the files of Guessing they may use it before
\* the call that makes it has returned, and then that call must not fail: its
\* error path takes the handle out as if nobody else could have done so.
Given(f, h) ==
  f \notin Guessing =>
    ~\E t \in Threads : Creates(t) /\ Ok(t) /\ File(t) = f /\ w[t].h = h

Names(f, h) == IsObj(table[f][h]) /\ Given(f, h)

\* Mutant: the handle can be allocated again at once.
ReplacedFree == Free
Replaced == Null

Close(t, f, h) ==
  /\ Calls(t, f) /\ Names(f, h)
  /\ table' = [table EXCEPT ![f][h] = Replaced]
  /\ w' = [w EXCEPT ![t] = Locals("close", f, h, table[f][h], None)]
  /\ Goto(t, "uncache")
  /\ UNCHANGED <<objVars, bufVars, cache, plock, fopen>>

\* drm_prime_remove_buf_handle()
Members(f, h) == {m \in cache[f] : m[1] = h}

Uncache(t) ==
  /\ pc[t] = "uncache" /\ plock[File(t)] = None
  /\ \E m \in Members(File(t), w[t].h) :
       cache' = [cache EXCEPT ![File(t)] = @ \ {m}] /\ BufPut(m[2])
  /\ Goto(t, "hput")
  /\ UNCHANGED <<born, hc, name, dbuf, attach, fb, priv, fds, lost, table, plock, fopen, w>>

UncacheNothing(t) ==
  /\ pc[t] = "uncache" /\ plock[File(t)] = None /\ Members(File(t), w[t].h) = {}
  /\ Goto(t, "hput")
  /\ UNCHANGED <<objVars, bufVars, fileVars, w>>

\* drm_gem_object_handle_put_unlocked()
AfterPut(t) == IF Ok(t) THEN "unreserve" ELSE "putobj"

HandlePut(t) ==
  /\ pc[t] = "hput" /\ hc[Obj(t)] # 1
  /\ hc' = [hc EXCEPT ![Obj(t)] = IF @ = 0 THEN 0 ELSE @ - 1] /\ Goto(t, AfterPut(t))
  /\ UNCHANGED <<born, ref, name, dbuf, attach, fb, bufVars, fileVars, w>>

\* The last handle: the name and the exported dma-buf go with it.
LastHandlePut(t) ==
  /\ pc[t] = "hput" /\ hc[Obj(t)] = 1
  /\ hc' = [hc EXCEPT ![Obj(t)] = 0] /\ name' = name \ {Obj(t)}
  /\ dbuf' = [dbuf EXCEPT ![Obj(t)] = None]
  /\ IF dbuf[Obj(t)] = None THEN UNCHANGED <<ref, bref>> ELSE BufPut(dbuf[Obj(t)])
  /\ Goto(t, "final")
  /\ UNCHANGED <<born, attach, fb, priv, fds, lost, fileVars, w>>

FinalPut(t) ==
  /\ pc[t] = "final" /\ ObjPut(Obj(t)) /\ Goto(t, AfterPut(t))
  /\ UNCHANGED <<born, hc, name, dbuf, attach, fb, priv, fds, lost, fileVars, w>>

Return(t) == Goto(t, "idle") /\ w' = [w EXCEPT ![t] = NoCall]

\* The handle may be allocated again.
Unreserve(t) ==
  /\ pc[t] = "unreserve"
  /\ table' = [table EXCEPT ![File(t)][w[t].h] = Free]
  /\ w' = [w EXCEPT ![t] = IF @.op = "close" THEN NoCall ELSE @]
  /\ Goto(t, CASE w[t].op = "close" -> "idle" [] w[t].op = "import" -> "bufput"
               [] OTHER -> "release")
  /\ UNCHANGED <<objVars, bufVars, cache, plock, fopen>>

\* drm_gem_release(), with the last reference to the file: handle by handle.
\* Nobody can see the table any more, and the model clears it as it goes.
ReleaseFile(t, f) ==
  /\ Calls(t, f) /\ \A s \in Threads : File(s) # f
  /\ fopen' = fopen \ {f}
  /\ w' = [w EXCEPT ![t] = Locals("release", f, 0, None, None)]
  /\ Goto(t, "release")
  /\ UNCHANGED <<objVars, bufVars, table, cache, plock>>

ReleaseHandle(t, h) ==
  /\ pc[t] = "release" /\ IsObj(table[File(t)][h])
  /\ \A g \in Handles : g < h => ~IsObj(table[File(t)][g])
  /\ table' = [table EXCEPT ![File(t)][h] = Null]
  /\ w' = [w EXCEPT ![t] = Locals("release", File(t), h, table[File(t)][h], None)]
  /\ Goto(t, "uncache")
  /\ UNCHANGED <<objVars, bufVars, cache, plock, fopen>>

Released(t) ==
  /\ pc[t] = "release" /\ \A h \in Handles : ~IsObj(table[File(t)][h])
  /\ Return(t)
  /\ UNCHANGED <<objVars, bufVars, fileVars>>

----------------------------------------------------------------------------
(* Names and framebuffers                                                  *)

\* drm_gem_object_lookup()
Lookup(t, f, h, op) ==
  /\ Calls(t, f) /\ Names(f, h)
  /\ ref' = [ref EXCEPT ![table[f][h]] = @ + 1]
  /\ w' = [w EXCEPT ![t] = Locals(op, f, h, table[f][h], None)]

\* drm_gem_flink_ioctl(); when there is no room for a name, nothing changes.
Flink(t, f, h) ==
  /\ Lookup(t, f, h, "flink") /\ Goto(t, "flink")
  /\ UNCHANGED <<born, hc, name, dbuf, attach, fb, bufVars, fileVars>>

\* Mutant: the last handle may have been closed meanwhile.
HasHandlesUnchecked(o) == TRUE
HasHandles(o) == hc[o] > 0

FlinkName(t) ==
  /\ pc[t] = "flink"
  /\ \/ name' = name \cup {o \in {Obj(t)} : HasHandles(o)}
     \/ UNCHANGED name   \* idr_alloc() fails
  /\ Goto(t, "putobj")
  /\ UNCHANGED <<born, ref, hc, dbuf, attach, fb, bufVars, fileVars, w>>

AddFb(t, f, h) ==
  /\ Calls(t, f) /\ Names(f, h) /\ table[f][h] \notin fb
  /\ fb' = fb \cup {table[f][h]}
  /\ ref' = [ref EXCEPT ![table[f][h]] = @ + 1]
  /\ UNCHANGED <<born, hc, name, dbuf, attach, bufVars, fileVars, pc, w>>

RmFb(o) ==
  /\ o \in fb /\ fb' = fb \ {o} /\ ObjPut(o)
  /\ UNCHANGED <<born, hc, name, dbuf, attach, priv, fds, lost, fileVars, pc, w>>

\* The reference of the call is dropped, and its lock.
PutObj(t) ==
  /\ pc[t] \in {"opening", "putobj"} /\ ObjPut(Obj(t))
  /\ w' = [w EXCEPT ![t] = IF @.op = "import" THEN @ ELSE NoCall]
  /\ Goto(t, IF w[t].op # "import" THEN "idle" ELSE IF Ok(t) THEN "cache" ELSE "bufput")
  /\ plock' = [plock EXCEPT ![File(t)] =
                 IF w[t].op = "tofd" \/ (w[t].op = "import" /\ ~Ok(t)) THEN None ELSE @]
  /\ UNCHANGED <<born, hc, name, dbuf, attach, fb, priv, fds, lost, table, cache, fopen>>

----------------------------------------------------------------------------
(* drm_gem_prime_handle_to_fd()                                            *)

ToFd(t, f, h) ==
  /\ plock[f] = None /\ plock' = [plock EXCEPT ![f] = t]
  /\ Lookup(t, f, h, "tofd") /\ Goto(t, "tofd")
  /\ UNCHANGED <<born, hc, name, dbuf, attach, fb, bufVars, table, cache, fopen>>

Cached(t) == Members(File(t), w[t].h)

\* The dma-buf is in the cache,
ToFdCached(t) ==
  /\ pc[t] = "tofd"
  /\ \E m \in Cached(t) : /\ w' = [w EXCEPT ![t].buf = m[2]]
                          /\ bref' = [bref EXCEPT ![m[2]] = @ + 1]
  /\ Goto(t, "fd")
  /\ UNCHANGED <<objVars, priv, fds, lost, fileVars>>

\* or it is the one that was imported, or exported before: it is added to the
\* cache, which may fail.
Known(o) == IF attach[o] # None THEN attach[o] ELSE dbuf[o]

\* Mutant: the cache does not refer to the dma-buf.
CacheRefsNone == 0
CacheRefs == 1

CacheAdd(t, b) == cache' = [cache EXCEPT ![File(t)] = @ \cup {<<w[t].h, b>>}]

IsKnown(t, b) ==
  pc[t] = "tofd" /\ Cached(t) = {} /\ b = Known(Obj(t)) /\ w' = [w EXCEPT ![t].buf = b]

ToFdKnown(t, b) ==
  /\ IsKnown(t, b)
  /\ bref' = [bref EXCEPT ![b] = @ + 1 + CacheRefs] /\ CacheAdd(t, b) /\ Goto(t, "fd")
  /\ UNCHANGED <<objVars, priv, fds, lost, table, plock, fopen>>

ToFdUncached(t, b) ==
  /\ IsKnown(t, b)
  /\ bref' = [bref EXCEPT ![b] = @ + 1] /\ Goto(t, "nofd")
  /\ UNCHANGED <<objVars, priv, fds, lost, fileVars>>

MayExport(t) == pc[t] = "tofd" /\ Cached(t) = {} /\ Known(Obj(t)) = None

\* or export_and_register_object() makes a new one,
Exported(t, b) ==
  /\ MayExport(t) /\ HasHandles(Obj(t)) /\ b \notin Foreign /\ priv[b] = None
  /\ priv' = [priv EXCEPT ![b] = Obj(t)] /\ ref' = [ref EXCEPT ![Obj(t)] = @ + 1]
  /\ dbuf' = [dbuf EXCEPT ![Obj(t)] = b]
  /\ w' = [w EXCEPT ![t].buf = b]
  /\ UNCHANGED <<born, hc, name, attach, fb, fds, lost, table, plock, fopen>>

Export(t, b) ==
  /\ Exported(t, b)
  /\ bref' = [bref EXCEPT ![b] = 2 + CacheRefs] /\ CacheAdd(t, b) /\ Goto(t, "fd")

ExportUncached(t, b) ==
  /\ Exported(t, b)
  /\ bref' = [bref EXCEPT ![b] = 2] /\ Goto(t, "nofd") /\ UNCHANGED cache

\* unless that fails, or the last handle has been closed.
ExportFails(t) ==
  /\ MayExport(t) /\ Goto(t, "putobj")
  /\ UNCHANGED <<objVars, bufVars, fileVars, w>>

AsksFd(t) == pc[t] = "fd" /\ fds[Buf(t)] + lost[Buf(t)] < MaxFds

\* dma_buf_fd(): the descriptor takes over the reference.
InstallFd(t) ==
  /\ AsksFd(t)
  /\ fds' = [fds EXCEPT ![Buf(t)] = @ + 1] /\ Goto(t, "putobj")
  /\ UNCHANGED <<objVars, bref, priv, lost, fileVars, w>>

\* finstall() fails with an errno, which dma_buf_fd() returns as it is: it is not
\* negative, the caller takes it for a descriptor and does not put the dma-buf.
FdFails(t) ==
  /\ AsksFd(t)
  /\ lost' = [lost EXCEPT ![Buf(t)] = @ + 1] /\ Goto(t, "putobj")
  /\ UNCHANGED <<objVars, bref, priv, fds, fileVars, w>>

\* fail_put_dmabuf, which only a failure to add to the cache leads to.
PutUncached(t) ==
  /\ pc[t] = "nofd" /\ BufPut(Buf(t)) /\ Goto(t, "putobj")
  /\ UNCHANGED <<born, hc, name, dbuf, attach, fb, priv, fds, lost, fileVars, w>>

CloseFd(b) ==
  /\ fds[b] > 0 /\ fds' = [fds EXCEPT ![b] = @ - 1] /\ BufPut(b)
  /\ UNCHANGED <<born, hc, name, dbuf, attach, fb, priv, lost, fileVars, pc, w>>

----------------------------------------------------------------------------
(* drm_gem_prime_fd_to_handle()                                            *)

FdToHandle(t, f, b) ==
  /\ Calls(t, f) /\ fds[b] > 0
  /\ bref' = [bref EXCEPT ![b] = @ + 1]
  /\ w' = [w EXCEPT ![t] = Locals("import", f, 0, None, b)]
  /\ Goto(t, "import")
  /\ UNCHANGED <<objVars, priv, fds, lost, fileVars>>

Seen(t) == \E m \in cache[File(t)] : m[2] = Buf(t)
Imports(t) == pc[t] = "import" /\ plock[File(t)] = None /\ ~Seen(t)

\* The file has a handle for the dma-buf already.
ImportSeen(t) ==
  /\ pc[t] = "import" /\ plock[File(t)] = None /\ Seen(t) /\ Goto(t, "bufput")
  /\ UNCHANGED <<objVars, bufVars, fileVars, w>>

\* drm_gem_prime_import() fails.
ImportFails(t) ==
  /\ Imports(t) /\ Buf(t) \in Foreign /\ Goto(t, "bufput")
  /\ UNCHANGED <<objVars, bufVars, fileVars, w>>

\* It was exported from an object of this device, and the handle is one more
\* to that object.
ImportOwn(t) ==
  LET o == priv[Buf(t)] IN
  /\ Imports(t) /\ o # None /\ HasRoom(File(t))
  /\ plock' = [plock EXCEPT ![File(t)] = t]
  /\ dbuf' = [dbuf EXCEPT ![o] = IF @ = None THEN Buf(t) ELSE @]
  /\ bref' = [bref EXCEPT ![Buf(t)] = IF dbuf[o] = None THEN @ + 1 ELSE @]
  /\ Publish(t, File(t), o, ref[o] + 1, "import", Buf(t))
  /\ UNCHANGED <<born, name, attach, fb, priv, fds, lost, cache, fopen>>

\* It is of another device, and a new object is attached to it.
ImportForeign(t, o) ==
  /\ Imports(t) /\ Buf(t) \in Foreign /\ HasRoom(File(t)) /\ o \notin born
  /\ plock' = [plock EXCEPT ![File(t)] = t]
  /\ born' = born \cup {o}
  /\ attach' = [attach EXCEPT ![o] = Buf(t)] /\ dbuf' = [dbuf EXCEPT ![o] = Buf(t)]
  /\ bref' = [bref EXCEPT ![Buf(t)] = @ + 2]
  /\ Publish(t, File(t), o, 1, "import", Buf(t))
  /\ UNCHANGED <<name, fb, priv, fds, lost, cache, fopen>>

\* drm_prime_add_buf_handle(), and prime.lock is dropped.
ImportCache(t) ==
  /\ pc[t] = "cache" /\ CacheAdd(t, Buf(t))
  /\ bref' = [bref EXCEPT ![Buf(t)] = @ + CacheRefs]
  /\ plock' = [plock EXCEPT ![File(t)] = None] /\ Goto(t, "bufput")
  /\ UNCHANGED <<objVars, priv, fds, lost, table, fopen, w>>

\* When it fails, the handle is deleted, if nobody has done that before.
ImportNoCache(t) ==
  /\ pc[t] = "cache" /\ plock' = [plock EXCEPT ![File(t)] = None]
  /\ Goto(t, "delete")
  /\ UNCHANGED <<objVars, bufVars, table, cache, fopen, w>>

ImportDelete(t) ==
  /\ pc[t] = "delete" /\ IsObj(table[File(t)][w[t].h])
  /\ table' = [table EXCEPT ![File(t)][w[t].h] = Replaced]
  /\ w' = [w EXCEPT ![t].obj = table[File(t)][w[t].h]] /\ Goto(t, "uncache")
  /\ UNCHANGED <<objVars, bufVars, cache, plock, fopen>>

ImportDeleted(t) ==
  /\ pc[t] = "delete" /\ ~IsObj(table[File(t)][w[t].h]) /\ Goto(t, "bufput")
  /\ UNCHANGED <<objVars, bufVars, fileVars, w>>

ImportPut(t) ==
  /\ pc[t] = "bufput" /\ BufPut(Buf(t)) /\ Return(t)
  /\ UNCHANGED <<born, hc, name, dbuf, attach, fb, priv, fds, lost, fileVars>>

----------------------------------------------------------------------------
Step(t) ==
  \/ OpenFails(t) \/ PutObj(t)
  \/ Uncache(t) \/ UncacheNothing(t) \/ HandlePut(t) \/ LastHandlePut(t) \/ FinalPut(t)
  \/ Unreserve(t) \/ Released(t) \/ \E h \in Handles : ReleaseHandle(t, h)
  \/ FlinkName(t)
  \/ ToFdCached(t) \/ ExportFails(t) \/ InstallFd(t) \/ FdFails(t) \/ PutUncached(t)
  \/ \E b \in Bufs : \/ ToFdKnown(t, b) \/ ToFdUncached(t, b)
                     \/ Export(t, b) \/ ExportUncached(t, b)
  \/ ImportSeen(t) \/ ImportFails(t) \/ ImportOwn(t) \/ ImportCache(t) \/ ImportNoCache(t)
  \/ ImportDelete(t) \/ ImportDeleted(t) \/ ImportPut(t)
  \/ \E o \in Objs : ImportForeign(t, o)

Call(t, f) ==
  \/ \E o \in Objs : Create(t, f, o) \/ OpenName(t, f, o) \/ GetFb(t, f, o)
  \/ \E h \in Handles : Close(t, f, h) \/ Flink(t, f, h) \/ ToFd(t, f, h) \/ AddFb(t, f, h)
  \/ \E b \in Bufs : FdToHandle(t, f, b)
  \/ ReleaseFile(t, f)

Next ==
  \/ \E t \in Threads : Step(t) \/ \E f \in Files : Call(t, f)
  \/ \E b \in Bufs : CloseFd(b)
  \/ \E o \in Objs : RmFb(o)

Spec == Init /\ [][Next]_vars

----------------------------------------------------------------------------
Num(S) == Cardinality(S)
Bit(b) == IF b THEN 1 ELSE 0

\* The references to object o: of threads, and of dma-bufs that are not freed.
HoldsObj(t, o) ==
  /\ Obj(t) = o
  /\ \/ pc[t] \in {"opening", "putobj", "flink", "tofd", "fd", "nofd", "final"}
     \/ pc[t] = "hput" /\ ~Ok(t)

Holders(o)   == {t \in Threads : HoldsObj(t, o)}
TwiceHeld(o) == {t \in Threads : pc[t] = "final" /\ ~Ok(t) /\ Obj(t) = o}
Exports(o)   == {b \in Bufs : priv[b] = o /\ bref[b] > 0}

\* The references to dma-buf b: of objects it was exported from or imported to,
\* of caches and of threads.
HoldsBuf(t, b) ==
  Buf(t) = b /\ (w[t].op = "import" \/ pc[t] \in {"fd", "nofd"})

Exporters(b)  == {o \in Objs : dbuf[o] = b}
Importers(b)  == {o \in Objs : attach[o] = b /\ ref[o] > 0}
CachedFor(b)  == {x \in Files \X Handles : <<x[2], b>> \in cache[x[1]]}
BufHolders(b) == {t \in Threads : HoldsBuf(t, b)}

\* Objects and dma-bufs have exactly the references that handles, framebuffers,
\* descriptors, caches, imported objects, each other and the calls in progress
\* own, and each failure of finstall() leaves one more behind.  So nothing is
\* freed while it can be reached, and a dma-buf for which a descriptor could
\* always be installed does not outlive its last handle and descriptor, nor does
\* the object in the cycle with it.
RefsExact ==
  /\ \A o \in Objs : ref[o] =
       Bit(hc[o] > 0) + Bit(o \in fb) + Num(Exports(o)) + Num(Holders(o)) + Num(TwiceHeld(o))
  /\ \A b \in Bufs : bref[b] =
       fds[b] + lost[b] + Num(Exporters(b)) + Num(Importers(b)) + Num(CachedFor(b))
       + Num(BufHolders(b))

\* Of a descriptor that cannot be installed drm_prime.c says "Closing the handle
\* will clean out the cache anyway, so we don't leak."  It does leak: this fails
\* when finstall() does, the dma-buf outlives all that could drop a reference.
NothingLeaked ==
  \A b \in Bufs \ Foreign : bref[b] > 0 =>
    \/ fds[b] > 0 \/ CachedFor(b) # {}
    \/ Exporters(b) # {} \/ Importers(b) # {} \/ BufHolders(b) # {}

InTable(o)  == {x \in Files \X Handles : table[x[1]][x[2]] = o}
TakenOut(o) == {t \in Threads : pc[t] \in {"uncache", "hput"} /\ Obj(t) = o}

\* handle_count is the number of handles in the tables and of those being
\* taken out, over all files: drm_gem_object_handle_put_unlocked() never meets
\* the count 0 that it warns of.
HandlesExact ==
  \A o \in Objs : hc[o] = Num(InTable(o)) + Num(TakenOut(o))

\* Without handles an object has no name and no exported dma-buf, whatever
\* flink, export and import do at the time of the last close.
NothingLeft == \A o \in Objs : hc[o] = 0 => o \notin name /\ dbuf[o] = None

\* A file's cache pairs a handle in use with a dma-buf of the object the
\* handle stands for, so that export and import answer with the right one;
\* and it is empty when the file is gone (drm_prime_destroy_file_private()).
CacheSound ==
  \A f \in Files :
    /\ \A m \in cache[f] :
         LET o == table[f][m[1]] IN
         \/ IsObj(o) /\ (priv[m[2]] = o \/ attach[o] = m[2])
         \/ o = Null /\ \E t \in Threads : pc[t] = "uncache" /\ File(t) = f /\ w[t].h = m[1]
    /\ \A m, n \in cache[f] : m[1] = n[1] => m = n
    /\ f \notin fopen /\ (\A t \in Threads : File(t) # f) => cache[f] = {}

\* WARN_ON(obj->dma_buf != dma_buf) in drm_gem_prime_fd_to_handle()
OneBuf ==
  \A t \in Threads : w[t].op = "import" /\ pc[t] = "opening" => dbuf[Obj(t)] = Buf(t)
============================================================================

--------------------------- MODULE DmaResvProofs ---------------------------
(***************************************************************************)
(* Proofs about the reservation object, for any number of fences, lists,   *)
(* readers and slots.                                                      *)
(*                                                                         *)
(* IInv is inductive.  It says where the writer is in the lists, what the  *)
(* reader has seen of the list it walks, which of the fences there cannot  *)
(* be freed under it, and where each fence that it must not miss is found. *)
(***************************************************************************)
EXTENDS DmaResv, Counting, SequenceTheorems, TLAPS

MaybeFence == Fences \cup {None}
MaybeList  == 0 .. MaxLists

WriterPcs == {"locked", "copy", "drop", "add", "addput", "addcount", "repl", "replput",
              "fini", "dead"}
ReaderPcs == {"idle", "restart", "walk", "get", "test", "check", "body", "next", "done"}
Ops       == {"none", "test", "wait", "get", "copy"}

CursorType == [usage : 0 .. 3, fence : MaybeFence, index : Nat, fences : MaybeList,
               num : Nat, restarted : {0, 1}]

FenceType == ref \in [Fences -> Int] /\ sig \subseteq Fences /\ grace \in [Fences -> SUBSET Readers]

ListType ==
  /\ fences \in MaybeList /\ num \in [Lists -> Nat] /\ max \in [Lists -> Nat]
  /\ table \in [Lists -> Seq(Entry)] /\ freed \subseteq Lists
  /\ lgrace \in [Lists -> SUBSET Readers]

WriterType ==
  /\ wpc \in WriterPcs /\ wi \in Nat /\ wk \in Nat /\ wold \in MaybeList
  /\ wfence \in MaybeFence /\ wusage \in 0 .. 3 /\ wput \in MaybeFence
  /\ wnew \in MaybeList /\ slots \in Nat

ReaderType ==
  /\ pc \in [Readers -> ReaderPcs] /\ op \in [Readers -> Ops]
  /\ cursor \in [Readers -> CursorType] /\ cand \in [Readers -> Entry]
  /\ got \in [Readers -> Seq(Fences)] /\ room \in [Readers -> Nat]

OwedType == owed \in [Readers -> SUBSET SUBSET Fences]

TypeOK == FenceType /\ ListType /\ WriterType /\ ReaderType /\ OwedType

\* Which lists there are.
ListsInv ==
  /\ wnew = IF wpc = "copy" THEN fences + 1 ELSE fences
  /\ wpc = "copy" => wold = fences
  /\ wpc = "drop" => wold = fences - 1 /\ wold # None
  /\ wpc \in {"add", "addput", "addcount", "repl", "replput", "fini"} => fences # None
  /\ \A l \in freed : l < fences \/ (l = fences /\ wpc = "dead")
  /\ wpc = "drop" => wold \notin freed

\* What is in the lists.
TablesInv ==
  /\ \A l \in Lists : l > wnew => num[l] = 0
  /\ \A l \in Lists : l <= fences =>
       /\ num[l] <= Len(table[l]) /\ max[l] <= Len(table[l]) /\ num[l] <= max[l]
       /\ \A j \in 1 .. num[l] : table[l][j].fence \in Fences

\* A new list, while it is filled and after it was published.
CopyInv ==
  /\ wpc = "copy" =>
       /\ wi >= 1 /\ wi <= NumFences + 1 /\ max[wnew] = Len(table[wnew])
       /\ num[wnew] + (max[wnew] - wk) = wi - 1 /\ wk <= max[wnew]
       /\ NumFences + slots <= max[wnew]
       /\ \A j \in 1 .. num[wnew] : table[wnew][j].fence \in Fences
       /\ \A j \in wk + 1 .. max[wnew] : table[wnew][j].fence \in Fences
  /\ wpc = "drop" =>
       /\ max[wnew] = Len(table[wnew]) /\ wi >= 1 /\ wi > num[wnew] /\ wi <= max[wnew] + 1
       /\ \A j \in wi .. max[wnew] : table[wnew][j].fence \in Fences

\* The slots that were reserved are there.
SlotsInv ==
  /\ wpc # "copy" /\ slots > 0 => fences # None /\ num[fences] + slots <= max[fences]
  /\ wpc \in {"add", "addcount"} => num[fences] + slots + 1 <= max[fences]

\* The arguments and the position of a call of the writer.
ArgsInv ==
  /\ wpc \in {"add", "addcount", "repl", "replput"} => wfence \in Fences
  /\ IF wpc \in {"addput", "replput"} THEN wput \in Fences ELSE wput = None
  /\ wpc \in {"repl", "replput"} => wfence \notin sig
  /\ wpc \in {"add", "repl", "replput", "fini"} => wi >= 1 /\ wi <= num[fences] + 1
  /\ wpc = "addcount" => wi = num[fences] + 1 /\ table[fences][wi].fence = wfence
  /\ wpc = "replput" => wi <= num[fences]

\* The last entry read has not been collected.
Pends(r) == pc[r] \in {"get", "test", "body"} \/ (pc[r] = "check" /\ cursor[r].fence # None)

CursorOk(r) ==
  LET c == cursor[r] IN
  /\ c.fences <= fences /\ c.index <= c.num
  /\ c.num <= IF c.fences = None THEN 0 ELSE num[c.fences]
  /\ pc[r] \in {"walk", "get", "test", "body", "next"} => c.fences # None
  /\ pc[r] \in {"idle", "restart", "get", "done"} => c.fence = None
  /\ pc[r] \in {"body", "test", "next"} => c.fence \in Fences
  /\ pc[r] \in {"get", "test"} => cand[r].fence \in Fences
  /\ pc[r] = "test" => c.fence = cand[r].fence
  /\ c.fences = None => c.fence = None
  /\ pc[r] \in {"check", "done"} /\ c.fence = None => c.index = c.num
  /\ pc[r] \in {"idle", "restart"} => c.fences = None
  /\ Pends(r) => c.index >= 1
  /\ pc[r] # "idle" => wpc \notin {"fini", "dead"}

CursorInv == \A r \in Readers : CursorOk(r)

\* What a call has collected fits, and does so until it begins again.
Fresh(r) == cursor[r].restarted = 0 \/ pc[r] = "next"

RoomOk(r) ==
  /\ pc[r] \in {"idle", "restart"} \/ op[r] \notin {"get", "copy"} => got[r] = <<>>
  /\ Len(got[r]) <= room[r]
  /\ op[r] \in {"get", "copy"} /\ pc[r] \notin {"restart", "done"} /\ Fresh(r) =>
       /\ cursor[r].num <= room[r]
       /\ Len(got[r]) <= IF Pends(r) THEN cursor[r].index - 1 ELSE cursor[r].index
  /\ pc[r] = "idle" => op[r] = "none"

RoomInv == \A r \in Readers : RoomOk(r)

\* A list in use under RCU is kept.
RcuLists ==
  \A r \in Readers : InRcu(r) /\ cursor[r].fences \in freed => r \in lgrace[cursor[r].fences]

\* So are the fences that may be read from it.
Kept(f, r) == ref[f] > 0 \/ r \in grace[f]

RcuFences ==
  \A r \in Readers : InRcu(r) =>
    /\ cursor[r].fences # None =>
         \A j \in 1 .. cursor[r].num : Kept(table[cursor[r].fences][j].fence, r)
    /\ pc[r] = "get" => Kept(cand[r].fence, r)

\* The references carried over to a new list: its entries with f, and those
\* of the old list that they were copied from.
CopyFrom(f) == {j \in 1 .. wi - 1 : table[wold][j].fence = f}
AtFront(f)  == {j \in 1 .. num[wnew] : table[wnew][j].fence = f}
AtBack(f)   == {j \in wk + 1 .. max[wnew] : table[wnew][j].fence = f}

CopyRefs ==
  wpc = "copy" /\ wold # None =>
    \A f \in Fences :
      Cardinality(CopyFrom(f)) = Cardinality(AtFront(f)) + Cardinality(AtBack(f))

PlacesFinite == \A f \in Fences : IsFiniteSet(Places(f))

\* Within a context the fences signal in the order of emission.
Ordered == \A f \in sig, g \in Fences : Context[g] = Context[f] /\ g < f => g \in sig

\* Entry j of list l is one that reader r is to see, of the group S.
Shows(r, S, l, j) == table[l][j].fence \in S /\ table[l][j].usage <= cursor[r].usage

OwedInv ==
  \A r \in Readers : \A S \in owed[r] :
    /\ S \cap sig = {}
    /\ pc[r] # "idle"
    /\ \E j \in 1 .. NumFences : Shows(r, S, fences, j)

\* The active entries of the old list are in the new one.
CopyShows ==
  wpc = "copy" /\ wold # None =>
    \A j \in 1 .. wi - 1 :
      table[wold][j].fence \in sig \/ \E k \in 1 .. num[wnew] : table[wnew][k] = table[wold][j]

\* A reader of the list that is published has seen or will see a fence of S.
Seen(r, S) ==
  \/ \E j \in cursor[r].index + 1 .. cursor[r].num : Shows(r, S, fences, j)
  \/ Fresh(r) /\ S \cap GotFences(r) # {}
  \/ pc[r] \in {"get", "test"} /\ cand[r].fence \in S /\ cand[r].usage <= cursor[r].usage
  \/ pc[r] \in {"check", "body"} /\ cursor[r].fence \in S

SeenInv ==
  \A r \in Readers : \A S \in owed[r] :
    pc[r] \notin {"idle", "restart"} /\ (cursor[r].fences = fences \/ pc[r] = "done") =>
      Seen(r, S)

IInv ==
  /\ TypeOK /\ ListsInv /\ TablesInv /\ CopyInv /\ SlotsInv /\ ArgsInv /\ CursorInv /\ RoomInv
  /\ RcuLists /\ RcuFences /\ CopyRefs /\ PlacesFinite /\ RefsExact
  /\ Ordered /\ OwedInv /\ CopyShows /\ SeenInv

\* The readers write neither to the lists nor to the variables of the writer,
Quiet == UNCHANGED <<sig, fences, num, max, table, freed, wpc, wi, wk, wold, wfence, wusage, wctx,
                     wput, wnew, adds, slots>>

ReaderStep ==
  \/ \E r \in Readers, o \in ReaderOps, u \in Usages \cup {Bookkeep} : Call(r, o, u)
  \/ \E r \in Readers : ReaderGoesOn(r) \/ WaitFails(r) \/ CollectFails(r)

LEMMA ReadersAreQuiet ==
  ASSUME ReaderStep
  PROVE  Quiet
<1> USE DEF Quiet
<1>1. ASSUME NEW r \in Readers, NEW o \in ReaderOps, NEW u \in Usages \cup {Bookkeep}, Call(r, o, u)
      PROVE  Quiet
  BY <1>1 DEF Call, Goto, fenceVars, memVars, listVars, argVars, callVars, writerVars, readerVars
<1>2. ASSUME NEW r \in Readers, Restart(r)
      PROVE  Quiet
  BY <1>2 DEF Restart, Goto, Restarted, fenceVars, memVars, listVars, argVars, callVars, writerVars, readerVars
<1>3. ASSUME NEW r \in Readers, WalkEnd(r)
      PROVE  Quiet
  BY <1>3 DEF WalkEnd, Put, Goto, WithFence, fenceVars, memVars, listVars, argVars, callVars, writerVars, readerVars
<1>4. ASSUME NEW r \in Readers, WalkEntry(r)
      PROVE  Quiet
  BY <1>4 DEF WalkEntry, Put, Goto, Moved, NextIndex, fenceVars, memVars, listVars, argVars, callVars, writerVars, readerVars
<1>5. ASSUME NEW r \in Readers, WalkGet(r)
      PROVE  Quiet
  BY <1>5 DEF WalkGet, Goto, WithFence, fenceVars, memVars, listVars, argVars, callVars, writerVars, readerVars
<1>6. ASSUME NEW r \in Readers, WalkGetFails(r)
      PROVE  Quiet
  BY <1>6 DEF WalkGetFails, Goto, Restarted, fenceVars, memVars, listVars, argVars, callVars, writerVars, readerVars
<1>7. ASSUME NEW r \in Readers, WalkTest(r)
      PROVE  Quiet
  BY <1>7 DEF WalkTest, Goto, fenceVars, memVars, listVars, argVars, callVars, writerVars, readerVars
<1>8. ASSUME NEW r \in Readers, WalkAgain(r)
      PROVE  Quiet
  BY <1>8 DEF WalkAgain, Goto, Restarted, Exchanged, fenceVars, memVars, listVars, argVars, callVars, writerVars, readerVars
<1>9. ASSUME NEW r \in Readers, WalkReturn(r)
      PROVE  Quiet
  BY <1>9 DEF WalkReturn, Goto, RcuUnlock, Exchanged, fenceVars, memVars, listVars, argVars, callVars, writerVars, readerVars
<1>10. ASSUME NEW r \in Readers, NextSame(r)
      PROVE  Quiet
  BY <1>10 DEF NextSame, Goto, Exchanged, fenceVars, memVars, listVars, argVars, callVars, writerVars, readerVars
<1>11. ASSUME NEW r \in Readers, NextRestart(r)
      PROVE  Quiet
  BY <1>11 DEF NextRestart, Goto, Restarted, Exchanged, fenceVars, memVars, listVars, argVars, callVars, writerVars, readerVars
<1>12. ASSUME NEW r \in Readers, TestFails(r)
      PROVE  Quiet
  BY <1>12 DEF TestFails, IterEnd, Put, Goto, fenceVars, memVars, listVars, argVars, callVars, writerVars, readerVars
<1>13. ASSUME NEW r \in Readers, Waited(r)
      PROVE  Quiet
  BY <1>13 DEF Waited, Goto, fenceVars, memVars, listVars, argVars, callVars, writerVars, readerVars
<1>14. ASSUME NEW r \in Readers, WaitFails(r)
      PROVE  Quiet
  BY <1>14 DEF WaitFails, IterEnd, Put, Goto, fenceVars, memVars, listVars, argVars, callVars, writerVars, readerVars
<1>15. ASSUME NEW r \in Readers, CollectDrop(r)
      PROVE  Quiet
  BY <1>15 DEF CollectDrop, Collects, BeginsAgain, PutLast, Put, fenceVars, memVars, listVars, argVars, callVars, writerVars, readerVars
<1>16. ASSUME NEW r \in Readers, CollectFails(r)
      PROVE  Quiet
  BY <1>16 DEF CollectFails, Collects, BeginsAgain, IterEnd, Put, Goto, fenceVars, memVars, listVars, argVars, callVars, writerVars, readerVars
<1>17. ASSUME NEW r \in Readers, Collect(r)
      PROVE  Quiet
  BY <1>17 DEF Collect, Collects, BeginsAgain, Goto, fenceVars, memVars, listVars, argVars, callVars, writerVars, readerVars
<1>18. ASSUME NEW r \in Readers, Release(r)
      PROVE  Quiet
  BY <1>18 DEF Release, PutLast, Put, fenceVars, memVars, listVars, argVars, callVars, writerVars, readerVars
<1>19. ASSUME NEW r \in Readers, Return(r)
      PROVE  Quiet
  BY <1>19 DEF Return, Goto, fenceVars, memVars, listVars, argVars, callVars, writerVars, readerVars
<1> QED
  BY <1>1, <1>2, <1>3, <1>4, <1>5, <1>6, <1>7, <1>8, <1>9, <1>10, <1>11, <1>12, <1>13, <1>14, <1>15, <1>16, <1>17, <1>18, <1>19 DEF ReaderStep, ReaderGoesOn

\* and the writer and the driver not to those of the readers.
Calm == UNCHANGED <<pc, op, cursor, cand, got, room>>

WriterActs == (\E f \in Fences : Signal(f)) \/ WriterStep \/ WriterGoesOn

LEMMA WriterIsCalm ==
  ASSUME WriterActs
  PROVE  Calm
<1> USE DEF Calm
<1>1. ASSUME NEW f \in Fences, Signal(f)
      PROVE  Calm
  BY <1>1 DEF Signal, Put, fenceVars, memVars, listVars, argVars, callVars, writerVars, readerVars
<1>2. ASSUME Unlock
      PROVE  Calm
  BY <1>2 DEF Unlock, fenceVars, memVars, listVars, argVars, callVars, writerVars, readerVars
<1>3. ASSUME NEW n \in 1 .. MaxReserve, ReserveEnough(n)
      PROVE  Calm
  BY <1>3 DEF ReserveEnough, fenceVars, memVars, listVars, argVars, callVars, writerVars, readerVars
<1>4. ASSUME NEW n \in 1 .. MaxReserve, ReserveAlloc(n)
      PROVE  Calm
  BY <1>4 DEF ReserveAlloc, fenceVars, memVars, listVars, argVars, callVars, writerVars, readerVars
<1>5. ASSUME ReserveCopySignaled
      PROVE  Calm
  BY <1>5 DEF ReserveCopySignaled, fenceVars, memVars, listVars, argVars, callVars, writerVars, readerVars
<1>6. ASSUME ReserveCopyActive
      PROVE  Calm
  BY <1>6 DEF ReserveCopyActive, fenceVars, memVars, listVars, argVars, callVars, writerVars, readerVars
<1>7. ASSUME ReserveFirst
      PROVE  Calm
  BY <1>7 DEF ReserveFirst, CallEnds, fenceVars, memVars, listVars, argVars, callVars, writerVars, readerVars
<1>8. ASSUME ReservePublish
      PROVE  Calm
  BY <1>8 DEF ReservePublish, fenceVars, memVars, listVars, argVars, callVars, writerVars, readerVars
<1>9. ASSUME ReserveDrop
      PROVE  Calm
  BY <1>9 DEF ReserveDrop, Put, fenceVars, memVars, listVars, argVars, callVars, writerVars, readerVars
<1>10. ASSUME ReserveFree
      PROVE  Calm
  BY <1>10 DEF ReserveFree, KfreeRcu, CallEnds, fenceVars, memVars, listVars, argVars, callVars, writerVars, readerVars
<1>11. ASSUME NEW f \in Fences, NEW u \in Usages, AddFence(f, u)
      PROVE  Calm
  BY <1>11 DEF AddFence, fenceVars, memVars, listVars, argVars, callVars, writerVars, readerVars
<1>12. ASSUME AddScan
      PROVE  Calm
  BY <1>12 DEF AddScan, fenceVars, memVars, listVars, argVars, callVars, writerVars, readerVars
<1>13. ASSUME AddReplace
      PROVE  Calm
  BY <1>13 DEF AddReplace, fenceVars, memVars, listVars, argVars, callVars, writerVars, readerVars
<1>14. ASSUME AddPut
      PROVE  Calm
  BY <1>14 DEF AddPut, Put, CallEnds, fenceVars, memVars, listVars, argVars, callVars, writerVars, readerVars
<1>15. ASSUME AddSet
      PROVE  Calm
  BY <1>15 DEF AddSet, fenceVars, memVars, listVars, argVars, callVars, writerVars, readerVars
<1>16. ASSUME AddCount
      PROVE  Calm
  BY <1>16 DEF AddCount, CallEnds, fenceVars, memVars, listVars, argVars, callVars, writerVars, readerVars
<1>17. ASSUME NEW c \in Contexts, NEW f \in Fences, NEW u \in Usages, ReplaceFences(c, f, u)
      PROVE  Calm
  BY <1>17 DEF ReplaceFences, fenceVars, memVars, listVars, argVars, callVars, writerVars, readerVars
<1>18. ASSUME ReplaceSkip
      PROVE  Calm
  BY <1>18 DEF ReplaceSkip, fenceVars, memVars, listVars, argVars, callVars, writerVars, readerVars
<1>19. ASSUME ReplaceSet
      PROVE  Calm
  BY <1>19 DEF ReplaceSet, fenceVars, memVars, listVars, argVars, callVars, writerVars, readerVars
<1>20. ASSUME ReplacePut
      PROVE  Calm
  BY <1>20 DEF ReplacePut, Put, fenceVars, memVars, listVars, argVars, callVars, writerVars, readerVars
<1>21. ASSUME ReplaceDone
      PROVE  Calm
  BY <1>21 DEF ReplaceDone, CallEnds, fenceVars, memVars, listVars, argVars, callVars, writerVars, readerVars
<1>22. ASSUME Fini
      PROVE  Calm
  BY <1>22 DEF Fini, fenceVars, memVars, listVars, argVars, callVars, writerVars, readerVars
<1>23. ASSUME FiniPut
      PROVE  Calm
  BY <1>23 DEF FiniPut, Put, fenceVars, memVars, listVars, argVars, callVars, writerVars, readerVars
<1>24. ASSUME FiniFree
      PROVE  Calm
  BY <1>24 DEF FiniFree, KfreeRcu, fenceVars, memVars, listVars, argVars, callVars, writerVars, readerVars
<1> QED
  BY <1>1, <1>2, <1>3, <1>4, <1>5, <1>6, <1>7, <1>8, <1>9, <1>10, <1>11, <1>12, <1>13, <1>14, <1>15, <1>16, <1>17, <1>18, <1>19, <1>20, <1>21, <1>22, <1>23, <1>24 DEF WriterActs, WriterStep, WriterGoesOn

LEMMA Roundup ==
  ASSUME NEW n \in 1 .. MaxReserve
  PROVE  RoundupPowOfTwo(n) \in Nat /\ RoundupPowOfTwo(n) >= n
<1> DEFINE P == {2^k : k \in 0 .. n}
           p == RoundupPowOfTwo(n)
<1>1. PICK k \in 0 .. n : 2^k \in n .. 2 * n - 1
  BY PowerAssumption
<1>2. n \in Nat /\ 2^k \in P /\ n <= 2^k /\ 2^k < 2 * n
  BY <1>1, ResvAssumption
<1>3. p = CHOOSE q \in P : n <= q /\ q < 2 * n
  BY DEF RoundupPowOfTwo
<1> HIDE DEF P, p
<1>4. p \in P /\ n <= p
  BY <1>2, <1>3
<1>5. p \in Nat
  BY <1>4 DEF P
<1> QED
  BY <1>4, <1>5 DEF p

LEMMA ListNumber ==
  ASSUME TypeOK
  PROVE  /\ fences \in Nat /\ wnew \in Nat /\ MaxLists \in Nat
         /\ fences # None <=> fences \in Lists
         /\ fences = None <=> fences = 0
BY ResvAssumption DEF TypeOK, ListType, WriterType, MaybeList, Lists, None

LEMMA NewMaxFits ==
  ASSUME TypeOK, ListsInv, TablesInv, NEW n \in 1 .. MaxReserve
  PROVE  NewMax(fences, n) \in Nat /\ NewMax(fences, n) >= NumFences + n /\ NumFences \in Nat
<1>1. RoundupPowOfTwo(n) \in Nat /\ RoundupPowOfTwo(n) >= n /\ MinSlots \in Nat /\ n \in Nat
  BY Roundup, ResvAssumption
<1>2. CASE fences = None
  BY <1>1, <1>2 DEF NewMax, Larger, NumFences
<1>3. CASE fences # None
  <2>1. fences \in Lists /\ num[fences] \in Nat /\ max[fences] \in Nat /\ num[fences] <= max[fences]
    <3>1. fences \in Lists /\ fences <= fences
      BY <1>3, ListNumber
    <3>2. num[fences] \in Nat /\ max[fences] \in Nat
      BY <3>1 DEF TypeOK, ListType
    <3> QED
      BY <3>1, <3>2 DEF TablesInv
  <2> QED
    BY <1>1, <1>3, <2>1 DEF NewMax, Larger, NumFences
<1> QED
  BY <1>2, <1>3

LEMMA PutEntry ==
  ASSUME TypeOK, NEW l, NEW j, NEW e \in Entry
  PROVE  [table EXCEPT ![l][j] = e] \in [Lists -> Seq(Entry)]
<1> DEFINE T == [table EXCEPT ![l][j] = e]
<1>1. ASSUME NEW k \in Lists PROVE T[k] \in Seq(Entry)
  <2>1. table[k] \in Seq(Entry)
    BY DEF TypeOK, ListType
  <2>2. [table[k] EXCEPT ![j] = e] \in Seq(Entry)
    <3> DEFINE s == table[k]
    <3>1. PICK n \in Nat : s \in [1 .. n -> Entry]
      BY <2>1
    <3> HIDE DEF s
    <3>2. [s EXCEPT ![j] = e] \in [1 .. n -> Entry]
      BY <3>1
    <3>3. \A q \in [1 .. n -> Entry] : q \in Seq(Entry)
      BY <3>1
    <3> QED
      BY <3>2, <3>3 DEF s
  <2>3. T[k] = IF k = l THEN [table[k] EXCEPT ![j] = e] ELSE table[k]
    BY DEF TypeOK, ListType
  <2> QED
    BY <2>1, <2>2, <2>3
<1> QED
  BY <1>1 DEF TypeOK, ListType

\* The entries that the writer looks at
LEMMA OldType ==
  ASSUME TypeOK, ListsInv, TablesInv, ArgsInv, wi <= num[fences],
         wpc \in {"add", "repl", "replput", "fini"}
  PROVE  /\ Old \in Entry /\ Old.fence \in Fences
         /\ fences \in Lists /\ num[fences] \in Nat /\ wi \in 1 .. num[fences]
         /\ wi \in DOMAIN table[fences]
<1>1. fences \in Lists /\ fences \in Nat
  BY ListNumber DEF ListsInv
<1>2. /\ num[fences] \in Nat /\ num[fences] <= Len(table[fences])
      /\ \A j \in 1 .. num[fences] : table[fences][j].fence \in Fences
  BY <1>1 DEF TypeOK, ListType, TablesInv
<1>3. wi \in 1 .. num[fences]
  BY <1>2 DEF ArgsInv, TypeOK, WriterType
<1>4. table[fences] \in Seq(Entry) /\ Len(table[fences]) \in Nat
  BY <1>1 DEF TypeOK, ListType
<1>5. wi \in 1 .. Len(table[fences])
  BY <1>2, <1>3, <1>4
<1>6. wi \in DOMAIN table[fences] /\ table[fences][wi] \in Entry
  BY <1>4, <1>5
<1> QED
  BY <1>1, <1>2, <1>3, <1>6 DEF Old

LEMMA CopiedType ==
  ASSUME TypeOK, ListsInv, TablesInv, CopyInv, wpc = "copy", Copies
  PROVE  /\ Copied \in Entry /\ Copied.fence \in Fences /\ wold = fences
         /\ fences \in Lists /\ num[fences] \in Nat /\ wi \in 1 .. num[fences]
<1>1. wold = fences /\ fences \in Lists /\ fences \in Nat
  BY ListNumber DEF ListsInv, Copies
<1>2. /\ num[fences] \in Nat /\ num[fences] <= Len(table[fences])
      /\ \A j \in 1 .. num[fences] : table[fences][j].fence \in Fences
  BY <1>1 DEF TypeOK, ListType, TablesInv
<1>3. wi \in 1 .. num[fences]
  BY <1>1, <1>2 DEF CopyInv, TypeOK, WriterType, Copies
<1>4. table[fences] \in Seq(Entry) /\ Len(table[fences]) \in Nat
  BY <1>1 DEF TypeOK, ListType
<1>5. wi \in 1 .. Len(table[fences])
  BY <1>2, <1>3, <1>4
<1>6. table[fences][wi] \in Entry
  BY <1>4, <1>5
<1> QED
  BY <1>1, <1>2, <1>3, <1>6 DEF Copied

\* and the places in the new list.
LEMMA CopyPlace ==
  ASSUME TypeOK, ListsInv, TablesInv, CopyInv, wpc = "copy"
  PROVE  /\ wnew \in Lists /\ wnew = fences + 1 /\ wnew # fences /\ num[wnew] \in Nat
         /\ NumFences \in Nat /\ max[wnew] \in Nat /\ Len(table[wnew]) = max[wnew]
         /\ table[wnew] \in Seq(Entry) /\ DOMAIN table[wnew] = 1 .. max[wnew]
         /\ Copies => wk >= 1 /\ wk \in 1 .. max[wnew] /\ num[wnew] + 1 \in 1 .. max[wnew]
                      /\ num[wnew] + 1 <= wk
<1>1. wnew = fences + 1 /\ fences \in Nat /\ wnew \in MaybeList /\ MaxLists \in Nat
  BY ListNumber DEF ListsInv, TypeOK, WriterType
<1>2. wnew \in Lists /\ wnew # fences
  BY <1>1 DEF MaybeList, Lists
<1>3. /\ num[wnew] \in Nat /\ max[wnew] \in Nat /\ table[wnew] \in Seq(Entry)
      /\ Len(table[wnew]) = max[wnew]
  BY <1>2 DEF TypeOK, ListType, CopyInv
<1>4. DOMAIN table[wnew] = 1 .. max[wnew]
  BY <1>3
<1>5. NumFences \in Nat
  BY ListNumber DEF NumFences, TypeOK, ListType
<1>6. ASSUME Copies PROVE /\ wk >= 1 /\ wk \in 1 .. max[wnew] /\ num[wnew] + 1 \in 1 .. max[wnew]
                          /\ num[wnew] + 1 <= wk
  <2>1. wi <= NumFences /\ wi \in Nat /\ wk \in Nat /\ slots \in Nat
    BY <1>6, CopiedType DEF Copies, NumFences, TypeOK, WriterType, ListsInv
  <2>2. /\ wi >= 1 /\ num[wnew] + (max[wnew] - wk) = wi - 1
        /\ NumFences + slots <= max[wnew] /\ wk <= max[wnew]
    BY DEF CopyInv
  <2> DEFINE n == num[wnew]  m == max[wnew]
  <2>3. n \in Nat /\ m \in Nat /\ n + (m - wk) = wi - 1 /\ NumFences + slots <= m /\ wk <= m
    BY <1>3, <2>2
  <2> HIDE DEF n, m
  <2>4. wk >= 1 /\ n + 1 <= wk
    BY <1>5, <2>1, <2>2, <2>3
  <2>5. wk \in 1 .. m /\ n + 1 \in 1 .. m
    BY <2>1, <2>3, <2>4
  <2> QED
    BY <2>4, <2>5 DEF n, m
<1> QED
  BY <1>1, <1>2, <1>3, <1>4, <1>5, <1>6

\* The entry that a reader reads.
LEMMA EntryRead ==
  ASSUME TypeOK, TablesInv, CursorInv, NEW r \in Readers, NEW j \in 1 .. cursor[r].num
  PROVE  /\ table[cursor[r].fences][j] \in Entry /\ table[cursor[r].fences][j].fence \in Fences
         /\ cursor[r].fences \in Lists /\ cursor[r].fences <= fences /\ j \in 1 .. num[cursor[r].fences]
<1> DEFINE l == cursor[r].fences
<1>1. /\ l \in MaybeList /\ cursor[r].num \in Nat /\ l <= fences /\ fences \in Nat
      /\ cursor[r].num <= IF l = None THEN 0 ELSE num[l]
  BY ListNumber DEF TypeOK, ReaderType, CursorType, CursorInv, CursorOk
<1> HIDE DEF l
<1>2. l \in Lists
  BY <1>1, ResvAssumption DEF MaybeList, Lists, None
<1>3. /\ num[l] \in Nat /\ num[l] <= Len(table[l])
      /\ \A k \in 1 .. num[l] : table[l][k].fence \in Fences
  BY <1>1, <1>2 DEF TypeOK, ListType, TablesInv
<1>4. table[l] \in Seq(Entry) /\ Len(table[l]) \in Nat
  BY <1>2 DEF TypeOK, ListType
<1>5. j \in 1 .. num[l] /\ j \in 1 .. Len(table[l])
  BY <1>1, <1>2, <1>3, <1>4 DEF Lists, None
<1>6. table[l][j] \in Entry
  BY <1>4, <1>5
<1> QED
  BY <1>1, <1>2, <1>3, <1>5, <1>6 DEF l

\* The fences that are visible now
LEMMA SeenFences ==
  ASSUME TypeOK, TablesInv, NEW u
  PROVE  /\ NumFences \in Nat /\ Visible(u) \subseteq Fences
         /\ {{f} : f \in Visible(u) \ sig} \in SUBSET SUBSET Fences
         /\ NumFences # 0 => fences \in Lists
<1>1. NumFences \in Nat /\ (NumFences # 0 => fences \in Lists /\ NumFences = num[fences] /\ fences \in Nat)
  BY ListNumber DEF NumFences, TypeOK, ListType
<1>2. \A j \in 1 .. NumFences : table[fences][j].fence \in Fences
  BY <1>1 DEF TablesInv
<1>3. Visible(u) \subseteq Fences
  BY <1>2 DEF Visible
<1> QED
  BY <1>1, <1>3

\* The array without its last element.
LEMMA FrontOf ==
  ASSUME TypeOK, NEW r \in Readers, got[r] # <<>>
  PROVE  /\ got[r] \in Seq(Fences) /\ Len(got[r]) \in Nat \ {0} /\ got[r][Len(got[r])] \in Fences
         /\ SubSeq(got[r], 1, Len(got[r]) - 1) \in Seq(Fences)
         /\ Len(SubSeq(got[r], 1, Len(got[r]) - 1)) = Len(got[r]) - 1
         /\ \A j \in 1 .. Len(got[r]) - 1 : SubSeq(got[r], 1, Len(got[r]) - 1)[j] = got[r][j]
<1> DEFINE s == got[r]  n == Len(s)
<1>1. s \in Seq(Fences) /\ s # <<>>
  BY DEF TypeOK, ReaderType
<1> HIDE DEF s
<1>2. n \in Nat \ {0} /\ s[n] \in Fences
  BY <1>1
<1> DEFINE m == n - 1
<1>3. m \in Nat /\ SubSeq(s, 1, m) \in Seq(Fences) /\ Len(SubSeq(s, 1, m)) = m
      /\ \A j \in 1 .. m : SubSeq(s, 1, m)[j] = s[j]
  <2>1. m \in Nat /\ 1 \in Int /\ m - 1 + 1 = m
    BY <1>2
  <2>2. \A k \in 1 .. m : s[k] \in Fences
    <3>1. ASSUME NEW k \in 1 .. m PROVE s[k] \in Fences
      <4>1. k \in 1 .. Len(s)
        BY <1>2
      <4> QED
        BY <1>1, <4>1, ElementOfSeq
    <3> QED
      BY <3>1
  <2> HIDE DEF m
  <2>3. \A k \in 1 .. m - 1 + 1 : SubSeq(s, 1, m)[k] = s[1 + k - 1]
    BY <2>1, <2>2, SubSeqProperties
  <2>4. ASSUME NEW k \in 1 .. m PROVE SubSeq(s, 1, m)[k] = s[k]
    <3>1. k \in 1 .. m - 1 + 1 /\ 1 + k - 1 = k
      BY <2>1
    <3> QED
      BY <2>3, <3>1
  <2>5. SubSeq(s, 1, m) \in Seq(Fences) /\ Len(SubSeq(s, 1, m)) = IF 1 <= m THEN m - 1 + 1 ELSE 0
    BY <2>1, <2>2, SubSeqProperties
  <2> QED
    BY <2>1, <2>4, <2>5
<1> QED
  BY <1>1, <1>2, <1>3 DEF s

LEMMA PutType ==
  ASSUME FenceType, NEW f, Put(f)
  PROVE  ref' \in [Fences -> Int] /\ grace' \in [Fences -> SUBSET Readers]
BY DEF FenceType, Put, RcuReaders

LEMMA GetType ==
  ASSUME FenceType, NEW f
  PROVE  [ref EXCEPT ![f] = @ + 1] \in [Fences -> Int]
<1>1. CASE f \in Fences
  BY <1>1 DEF FenceType
<1>2. CASE f \notin Fences
  <2>1. [ref EXCEPT ![f] = @ + 1] = ref
    BY <1>2 DEF FenceType
  <2> QED
    BY <2>1 DEF FenceType
<1> QED
  BY <1>1, <1>2

LEMMA FenceTypeStep ==
  ASSUME FenceType, Next
  PROVE  FenceType'
<1> USE DEF FenceType
<1>1. ASSUME NEW f \in Fences, Signal(f)
      PROVE  FenceType'
  <2>1. ref' \in [Fences -> Int] /\ grace' \in [Fences -> SUBSET Readers]
    BY <1>1, PutType DEF Signal
  <2> QED
    BY <1>1, <2>1 DEF Signal
<1>2. ASSUME Unlock
      PROVE  FenceType'
  BY <1>2 DEF Unlock, fenceVars, memVars, listVars, argVars, callVars, writerVars, readerVars
<1>3. ASSUME NEW n \in 1 .. MaxReserve, ReserveEnough(n)
      PROVE  FenceType'
  BY <1>3 DEF ReserveEnough, fenceVars, memVars, listVars, argVars, callVars, writerVars, readerVars
<1>4. ASSUME NEW n \in 1 .. MaxReserve, ReserveAlloc(n)
      PROVE  FenceType'
  BY <1>4 DEF ReserveAlloc, fenceVars, memVars, listVars, argVars, callVars, writerVars, readerVars
<1>5. ASSUME ReserveCopySignaled
      PROVE  FenceType'
  BY <1>5 DEF ReserveCopySignaled, fenceVars, memVars, listVars, argVars, callVars, writerVars, readerVars
<1>6. ASSUME ReserveCopyActive
      PROVE  FenceType'
  BY <1>6 DEF ReserveCopyActive, fenceVars, memVars, listVars, argVars, callVars, writerVars, readerVars
<1>7. ASSUME ReserveFirst
      PROVE  FenceType'
  BY <1>7 DEF ReserveFirst, CallEnds, fenceVars, memVars, listVars, argVars, callVars, writerVars, readerVars
<1>8. ASSUME ReservePublish
      PROVE  FenceType'
  BY <1>8 DEF ReservePublish, fenceVars, memVars, listVars, argVars, callVars, writerVars, readerVars
<1>9. ASSUME ReserveDrop
      PROVE  FenceType'
  BY <1>9, PutType DEF ReserveDrop, fenceVars, memVars, listVars, argVars, callVars, writerVars, readerVars
<1>10. ASSUME ReserveFree
      PROVE  FenceType'
  BY <1>10 DEF ReserveFree, KfreeRcu, CallEnds, fenceVars, memVars, listVars, argVars, callVars, writerVars, readerVars
<1>11. ASSUME NEW f \in Fences, NEW u \in Usages, AddFence(f, u)
      PROVE  FenceType'
  BY <1>11 DEF AddFence, fenceVars, memVars, listVars, argVars, callVars, writerVars, readerVars
<1>12. ASSUME AddScan
      PROVE  FenceType'
  BY <1>12 DEF AddScan, fenceVars, memVars, listVars, argVars, callVars, writerVars, readerVars
<1>13. ASSUME AddReplace
      PROVE  FenceType'
  BY <1>13 DEF AddReplace, fenceVars, memVars, listVars, argVars, callVars, writerVars, readerVars
<1>14. ASSUME AddPut
      PROVE  FenceType'
  BY <1>14, PutType DEF AddPut, CallEnds, fenceVars, memVars, listVars, argVars, callVars, writerVars, readerVars
<1>15. ASSUME AddSet
      PROVE  FenceType'
  BY <1>15 DEF AddSet, fenceVars, memVars, listVars, argVars, callVars, writerVars, readerVars
<1>16. ASSUME AddCount
      PROVE  FenceType'
  BY <1>16 DEF AddCount, CallEnds, fenceVars, memVars, listVars, argVars, callVars, writerVars, readerVars
<1>17. ASSUME NEW c \in Contexts, NEW f \in Fences, NEW u \in Usages, ReplaceFences(c, f, u)
      PROVE  FenceType'
  BY <1>17 DEF ReplaceFences, fenceVars, memVars, listVars, argVars, callVars, writerVars, readerVars
<1>18. ASSUME ReplaceSkip
      PROVE  FenceType'
  BY <1>18 DEF ReplaceSkip, fenceVars, memVars, listVars, argVars, callVars, writerVars, readerVars
<1>19. ASSUME ReplaceSet
      PROVE  FenceType'
  BY <1>19, GetType DEF ReplaceSet
<1>20. ASSUME ReplacePut
      PROVE  FenceType'
  BY <1>20, PutType DEF ReplacePut, fenceVars, memVars, listVars, argVars, callVars, writerVars, readerVars
<1>21. ASSUME ReplaceDone
      PROVE  FenceType'
  BY <1>21 DEF ReplaceDone, CallEnds, fenceVars, memVars, listVars, argVars, callVars, writerVars, readerVars
<1>22. ASSUME Fini
      PROVE  FenceType'
  BY <1>22 DEF Fini, fenceVars, memVars, listVars, argVars, callVars, writerVars, readerVars
<1>23. ASSUME FiniPut
      PROVE  FenceType'
  BY <1>23, PutType DEF FiniPut, fenceVars, memVars, listVars, argVars, callVars, writerVars, readerVars
<1>24. ASSUME FiniFree
      PROVE  FenceType'
  BY <1>24 DEF FiniFree, KfreeRcu, fenceVars, memVars, listVars, argVars, callVars, writerVars, readerVars
<1>25. ASSUME NEW r \in Readers, NEW o \in ReaderOps, NEW u \in Usages \cup {Bookkeep}, Call(r, o, u)
      PROVE  FenceType'
  BY <1>25 DEF Call, Goto, fenceVars, memVars, listVars, argVars, callVars, writerVars, readerVars
<1>26. ASSUME NEW r \in Readers, Restart(r)
      PROVE  FenceType'
  BY <1>26 DEF Restart, Goto, Restarted, fenceVars, memVars, listVars, argVars, callVars, writerVars, readerVars
<1>27. ASSUME NEW r \in Readers, WalkEnd(r)
      PROVE  FenceType'
  BY <1>27, PutType DEF WalkEnd, Goto, WithFence, fenceVars, memVars, listVars, argVars, callVars, writerVars, readerVars
<1>28. ASSUME NEW r \in Readers, WalkEntry(r)
      PROVE  FenceType'
  BY <1>28, PutType DEF WalkEntry, Goto, Moved, NextIndex, fenceVars, memVars, listVars, argVars, callVars, writerVars, readerVars
<1>29. ASSUME NEW r \in Readers, WalkGet(r)
      PROVE  FenceType'
  BY <1>29, GetType DEF WalkGet
<1>30. ASSUME NEW r \in Readers, WalkGetFails(r)
      PROVE  FenceType'
  BY <1>30 DEF WalkGetFails, Goto, Restarted, fenceVars, memVars, listVars, argVars, callVars, writerVars, readerVars
<1>31. ASSUME NEW r \in Readers, WalkTest(r)
      PROVE  FenceType'
  BY <1>31 DEF WalkTest, Goto, fenceVars, memVars, listVars, argVars, callVars, writerVars, readerVars
<1>32. ASSUME NEW r \in Readers, WalkAgain(r)
      PROVE  FenceType'
  BY <1>32 DEF WalkAgain, Goto, Restarted, Exchanged, fenceVars, memVars, listVars, argVars, callVars, writerVars, readerVars
<1>33. ASSUME NEW r \in Readers, WalkReturn(r)
      PROVE  FenceType'
  BY <1>33 DEF WalkReturn, Goto, RcuUnlock, Exchanged, fenceVars, memVars, listVars, argVars, callVars, writerVars, readerVars
<1>34. ASSUME NEW r \in Readers, NextSame(r)
      PROVE  FenceType'
  BY <1>34 DEF NextSame, Goto, Exchanged, fenceVars, memVars, listVars, argVars, callVars, writerVars, readerVars
<1>35. ASSUME NEW r \in Readers, NextRestart(r)
      PROVE  FenceType'
  BY <1>35 DEF NextRestart, Goto, Restarted, Exchanged, fenceVars, memVars, listVars, argVars, callVars, writerVars, readerVars
<1>36. ASSUME NEW r \in Readers, TestFails(r)
      PROVE  FenceType'
  BY <1>36, PutType DEF TestFails, IterEnd, Goto, fenceVars, memVars, listVars, argVars, callVars, writerVars, readerVars
<1>37. ASSUME NEW r \in Readers, Waited(r)
      PROVE  FenceType'
  BY <1>37 DEF Waited, Goto, fenceVars, memVars, listVars, argVars, callVars, writerVars, readerVars
<1>38. ASSUME NEW r \in Readers, WaitFails(r)
      PROVE  FenceType'
  BY <1>38, PutType DEF WaitFails, IterEnd, Goto, fenceVars, memVars, listVars, argVars, callVars, writerVars, readerVars
<1>39. ASSUME NEW r \in Readers, CollectDrop(r)
      PROVE  FenceType'
  BY <1>39, PutType DEF CollectDrop, Collects, BeginsAgain, PutLast, fenceVars, memVars, listVars, argVars, callVars, writerVars, readerVars
<1>40. ASSUME NEW r \in Readers, CollectFails(r)
      PROVE  FenceType'
  BY <1>40, PutType DEF CollectFails, Collects, BeginsAgain, IterEnd, Goto, fenceVars, memVars, listVars, argVars, callVars, writerVars, readerVars
<1>41. ASSUME NEW r \in Readers, Collect(r)
      PROVE  FenceType'
  BY <1>41, GetType DEF Collect
<1>42. ASSUME NEW r \in Readers, Release(r)
      PROVE  FenceType'
  BY <1>42, PutType DEF Release, PutLast, fenceVars, memVars, listVars, argVars, callVars, writerVars, readerVars
<1>43. ASSUME NEW r \in Readers, Return(r)
      PROVE  FenceType'
  BY <1>43 DEF Return, Goto, fenceVars, memVars, listVars, argVars, callVars, writerVars, readerVars
<1> QED
  BY <1>1, <1>2, <1>3, <1>4, <1>5, <1>6, <1>7, <1>8, <1>9, <1>10, <1>11, <1>12, <1>13, <1>14, <1>15, <1>16, <1>17, <1>18, <1>19, <1>20, <1>21, <1>22, <1>23, <1>24, <1>25, <1>26, <1>27, <1>28, <1>29, <1>30, <1>31, <1>32, <1>33, <1>34, <1>35, <1>36, <1>37, <1>38, <1>39, <1>40, <1>41, <1>42, <1>43 DEF Next, WriterStep, WriterGoesOn, ReaderGoesOn

LEMMA ListTypeStep ==
  ASSUME TypeOK, ListsInv, TablesInv, CopyInv, ArgsInv, Next
  PROVE  ListType'
<1>0. ListType
  BY DEF TypeOK
<1> USE <1>0 DEF ListType
<1>1. ASSUME NEW f \in Fences, Signal(f)
      PROVE  ListType'
  BY <1>1 DEF Signal, Put, fenceVars, memVars, listVars, argVars, callVars, writerVars, readerVars
<1>2. ASSUME Unlock
      PROVE  ListType'
  BY <1>2 DEF Unlock, fenceVars, memVars, listVars, argVars, callVars, writerVars, readerVars
<1>3. ASSUME NEW n \in 1 .. MaxReserve, ReserveEnough(n)
      PROVE  ListType'
  BY <1>3 DEF ReserveEnough, fenceVars, memVars, listVars, argVars, callVars, writerVars, readerVars
<1>4. ASSUME NEW n \in 1 .. MaxReserve, ReserveAlloc(n)
      PROVE  ListType'
  <2>1. /\ wnew < MaxLists /\ wnew' = wnew + 1
        /\ max' = [max EXCEPT ![wnew + 1] = NewMax(fences, n)]
        /\ table' = [table EXCEPT ![wnew + 1] = [j \in 1 .. NewMax(fences, n) |-> NoEntry]]
        /\ UNCHANGED <<fences, num, freed, lgrace>>
    BY <1>4 DEF ReserveAlloc, memVars
  <2>2. NewMax(fences, n) \in Nat
    BY NewMaxFits DEF TypeOK, ListType
  <2>3. NoEntry \in Entry
    BY DEF NoEntry, Entry, None
  <2>4. [j \in 1 .. NewMax(fences, n) |-> NoEntry] \in Seq(Entry)
    <3> DEFINE m == NewMax(fences, n)  e == NoEntry
    <3> HIDE DEF m, e
    <3>1. [j \in 1 .. m |-> e] \in [1 .. m -> Entry] /\ m \in Nat
      BY <2>2, <2>3 DEF m, e
    <3>2. \A q \in [1 .. m -> Entry] : q \in Seq(Entry)
      BY <3>1
    <3> QED
      BY <3>1, <3>2 DEF m, e
  <2> QED
    BY <2>1, <2>2, <2>4
<1>5. ASSUME ReserveCopySignaled
      PROVE  ListType'
  <2>1. [fence |-> Copied.fence, usage |-> 0] \in Entry
    BY <1>5, CopiedType DEF ReserveCopySignaled, Entry
  <2>2. table' \in [Lists -> Seq(Entry)]
    BY <1>5, <2>1, PutEntry DEF ReserveCopySignaled
  <2> QED
    BY <1>5, <2>2 DEF ReserveCopySignaled, memVars
<1>6. ASSUME ReserveCopyActive
      PROVE  ListType'
  <2>1. Copied \in Entry
    BY <1>6, CopiedType DEF ReserveCopyActive
  <2>2. table' \in [Lists -> Seq(Entry)]
    BY <1>6, <2>1, PutEntry DEF ReserveCopyActive
  <2> QED
    BY <1>6, <2>2 DEF ReserveCopyActive, memVars
<1>7. ASSUME ReserveFirst
      PROVE  ListType'
  BY <1>7 DEF ReserveFirst, TypeOK, WriterType, memVars
<1>8. ASSUME ReservePublish
      PROVE  ListType'
  BY <1>8 DEF ReservePublish, TypeOK, WriterType, memVars
<1>9. ASSUME ReserveDrop
      PROVE  ListType'
  BY <1>9 DEF ReserveDrop, Put, fenceVars, memVars, listVars, argVars, callVars, writerVars, readerVars
<1>10. ASSUME ReserveFree
      PROVE  ListType'
  <2>1. wold \in Lists
    BY <1>10, ResvAssumption DEF ReserveFree, ListsInv, TypeOK, WriterType, MaybeList, Lists, None
  <2> QED
    BY <1>10, <2>1 DEF ReserveFree, KfreeRcu, RcuReaders
<1>11. ASSUME NEW f \in Fences, NEW u \in Usages, AddFence(f, u)
      PROVE  ListType'
  BY <1>11 DEF AddFence, fenceVars, memVars, listVars, argVars, callVars, writerVars, readerVars
<1>12. ASSUME AddScan
      PROVE  ListType'
  BY <1>12 DEF AddScan, fenceVars, memVars, listVars, argVars, callVars, writerVars, readerVars
<1>13. ASSUME AddReplace
      PROVE  ListType'
  <2>1. New \in Entry
    BY <1>13 DEF AddReplace, ArgsInv, New, Entry, TypeOK, WriterType
  <2>2. table' \in [Lists -> Seq(Entry)]
    BY <1>13, <2>1, PutEntry DEF AddReplace
  <2> QED
    BY <1>13, <2>2 DEF AddReplace, memVars
<1>14. ASSUME AddPut
      PROVE  ListType'
  BY <1>14 DEF AddPut, Put, CallEnds, fenceVars, memVars, listVars, argVars, callVars, writerVars, readerVars
<1>15. ASSUME AddSet
      PROVE  ListType'
  <2>1. New \in Entry
    BY <1>15 DEF AddSet, ArgsInv, New, Entry, TypeOK, WriterType
  <2>2. table' \in [Lists -> Seq(Entry)]
    BY <1>15, <2>1, PutEntry DEF AddSet
  <2> QED
    BY <1>15, <2>2 DEF AddSet, memVars
<1>16. ASSUME AddCount
      PROVE  ListType'
  BY <1>16, ListNumber DEF AddCount, ListsInv, memVars
<1>17. ASSUME NEW c \in Contexts, NEW f \in Fences, NEW u \in Usages, ReplaceFences(c, f, u)
      PROVE  ListType'
  BY <1>17 DEF ReplaceFences, fenceVars, memVars, listVars, argVars, callVars, writerVars, readerVars
<1>18. ASSUME ReplaceSkip
      PROVE  ListType'
  BY <1>18 DEF ReplaceSkip, fenceVars, memVars, listVars, argVars, callVars, writerVars, readerVars
<1>19. ASSUME ReplaceSet
      PROVE  ListType'
  <2>1. New \in Entry
    BY <1>19 DEF ReplaceSet, ArgsInv, New, Entry, TypeOK, WriterType
  <2>2. table' \in [Lists -> Seq(Entry)]
    BY <1>19, <2>1, PutEntry DEF ReplaceSet
  <2> QED
    BY <1>19, <2>2 DEF ReplaceSet, memVars
<1>20. ASSUME ReplacePut
      PROVE  ListType'
  BY <1>20 DEF ReplacePut, Put, fenceVars, memVars, listVars, argVars, callVars, writerVars, readerVars
<1>21. ASSUME ReplaceDone
      PROVE  ListType'
  BY <1>21 DEF ReplaceDone, CallEnds, fenceVars, memVars, listVars, argVars, callVars, writerVars, readerVars
<1>22. ASSUME Fini
      PROVE  ListType'
  BY <1>22 DEF Fini, fenceVars, memVars, listVars, argVars, callVars, writerVars, readerVars
<1>23. ASSUME FiniPut
      PROVE  ListType'
  BY <1>23 DEF FiniPut, Put, fenceVars, memVars, listVars, argVars, callVars, writerVars, readerVars
<1>24. ASSUME FiniFree
      PROVE  ListType'
  <2>1. fences \in Lists
    BY <1>24, ListNumber DEF FiniFree, ListsInv
  <2> QED
    BY <1>24, <2>1 DEF FiniFree, KfreeRcu, RcuReaders
<1>25. ASSUME NEW r \in Readers, NEW o \in ReaderOps, NEW u \in Usages \cup {Bookkeep}, Call(r, o, u)
      PROVE  ListType'
  BY <1>25 DEF Call, Goto, fenceVars, memVars, listVars, argVars, callVars, writerVars, readerVars
<1>26. ASSUME NEW r \in Readers, Restart(r)
      PROVE  ListType'
  BY <1>26 DEF Restart, Goto, Restarted, fenceVars, memVars, listVars, argVars, callVars, writerVars, readerVars
<1>27. ASSUME NEW r \in Readers, WalkEnd(r)
      PROVE  ListType'
  BY <1>27 DEF WalkEnd, Put, Goto, WithFence, fenceVars, memVars, listVars, argVars, callVars, writerVars, readerVars
<1>28. ASSUME NEW r \in Readers, WalkEntry(r)
      PROVE  ListType'
  BY <1>28 DEF WalkEntry, Put, Goto, Moved, NextIndex, fenceVars, memVars, listVars, argVars, callVars, writerVars, readerVars
<1>29. ASSUME NEW r \in Readers, WalkGet(r)
      PROVE  ListType'
  BY <1>29 DEF WalkGet, Goto, WithFence, fenceVars, memVars, listVars, argVars, callVars, writerVars, readerVars
<1>30. ASSUME NEW r \in Readers, WalkGetFails(r)
      PROVE  ListType'
  BY <1>30 DEF WalkGetFails, Goto, Restarted, fenceVars, memVars, listVars, argVars, callVars, writerVars, readerVars
<1>31. ASSUME NEW r \in Readers, WalkTest(r)
      PROVE  ListType'
  BY <1>31 DEF WalkTest, Goto, fenceVars, memVars, listVars, argVars, callVars, writerVars, readerVars
<1>32. ASSUME NEW r \in Readers, WalkAgain(r)
      PROVE  ListType'
  BY <1>32 DEF WalkAgain, Goto, Restarted, Exchanged, fenceVars, memVars, listVars, argVars, callVars, writerVars, readerVars
<1>33. ASSUME NEW r \in Readers, WalkReturn(r)
      PROVE  ListType'
  BY <1>33 DEF WalkReturn, Goto, RcuUnlock, Exchanged, fenceVars, memVars, listVars, argVars, callVars, writerVars, readerVars
<1>34. ASSUME NEW r \in Readers, NextSame(r)
      PROVE  ListType'
  BY <1>34 DEF NextSame, Goto, Exchanged, fenceVars, memVars, listVars, argVars, callVars, writerVars, readerVars
<1>35. ASSUME NEW r \in Readers, NextRestart(r)
      PROVE  ListType'
  BY <1>35 DEF NextRestart, Goto, Restarted, Exchanged, fenceVars, memVars, listVars, argVars, callVars, writerVars, readerVars
<1>36. ASSUME NEW r \in Readers, TestFails(r)
      PROVE  ListType'
  BY <1>36 DEF TestFails, IterEnd, Put, Goto, fenceVars, memVars, listVars, argVars, callVars, writerVars, readerVars
<1>37. ASSUME NEW r \in Readers, Waited(r)
      PROVE  ListType'
  BY <1>37 DEF Waited, Goto, fenceVars, memVars, listVars, argVars, callVars, writerVars, readerVars
<1>38. ASSUME NEW r \in Readers, WaitFails(r)
      PROVE  ListType'
  BY <1>38 DEF WaitFails, IterEnd, Put, Goto, fenceVars, memVars, listVars, argVars, callVars, writerVars, readerVars
<1>39. ASSUME NEW r \in Readers, CollectDrop(r)
      PROVE  ListType'
  BY <1>39 DEF CollectDrop, Collects, BeginsAgain, PutLast, Put, fenceVars, memVars, listVars, argVars, callVars, writerVars, readerVars
<1>40. ASSUME NEW r \in Readers, CollectFails(r)
      PROVE  ListType'
  BY <1>40 DEF CollectFails, Collects, BeginsAgain, IterEnd, Put, Goto, fenceVars, memVars, listVars, argVars, callVars, writerVars, readerVars
<1>41. ASSUME NEW r \in Readers, Collect(r)
      PROVE  ListType'
  BY <1>41 DEF Collect, Collects, BeginsAgain, Goto, fenceVars, memVars, listVars, argVars, callVars, writerVars, readerVars
<1>42. ASSUME NEW r \in Readers, Release(r)
      PROVE  ListType'
  BY <1>42 DEF Release, PutLast, Put, fenceVars, memVars, listVars, argVars, callVars, writerVars, readerVars
<1>43. ASSUME NEW r \in Readers, Return(r)
      PROVE  ListType'
  BY <1>43 DEF Return, Goto, fenceVars, memVars, listVars, argVars, callVars, writerVars, readerVars
<1> QED
  BY <1>1, <1>2, <1>3, <1>4, <1>5, <1>6, <1>7, <1>8, <1>9, <1>10, <1>11, <1>12, <1>13, <1>14, <1>15, <1>16, <1>17, <1>18, <1>19, <1>20, <1>21, <1>22, <1>23, <1>24, <1>25, <1>26, <1>27, <1>28, <1>29, <1>30, <1>31, <1>32, <1>33, <1>34, <1>35, <1>36, <1>37, <1>38, <1>39, <1>40, <1>41, <1>42, <1>43 DEF Next, WriterStep, WriterGoesOn, ReaderGoesOn

LEMMA WriterTypeStep ==
  ASSUME TypeOK, ListsInv, TablesInv, CopyInv, ArgsInv, Next
  PROVE  WriterType'
<1>0. WriterType
  BY DEF TypeOK
<1> USE <1>0 DEF WriterType, WriterPcs
<1>1. ASSUME NEW f \in Fences, Signal(f)
      PROVE  WriterType'
  BY <1>1 DEF Signal, Put, fenceVars, memVars, listVars, argVars, callVars, writerVars, readerVars
<1>2. ASSUME Unlock
      PROVE  WriterType'
  BY <1>2 DEF Unlock, fenceVars, memVars, listVars, argVars, callVars, writerVars, readerVars
<1>3. ASSUME NEW n \in 1 .. MaxReserve, ReserveEnough(n)
      PROVE  WriterType'
  BY <1>3, ResvAssumption DEF ReserveEnough, fenceVars, memVars, listVars, argVars, callVars, writerVars, readerVars
<1>4. ASSUME NEW n \in 1 .. MaxReserve, ReserveAlloc(n)
      PROVE  WriterType'
  <2>1. NewMax(fences, n) \in Nat /\ n \in Nat
    BY NewMaxFits, ResvAssumption
  <2>2. wnew' \in MaybeList /\ fences \in MaybeList
    BY <1>4, ResvAssumption DEF ReserveAlloc, MaybeList, TypeOK, ListType
  <2> QED
    BY <1>4, <2>1, <2>2 DEF ReserveAlloc, argVars
<1>5. ASSUME ReserveCopySignaled
      PROVE  WriterType'
  <2>1. wk - 1 \in Nat
    BY <1>5, CopyPlace DEF ReserveCopySignaled
  <2> QED
    BY <1>5, <2>1 DEF ReserveCopySignaled, argVars
<1>6. ASSUME ReserveCopyActive
      PROVE  WriterType'
  BY <1>6 DEF ReserveCopyActive, fenceVars, memVars, listVars, argVars, callVars, writerVars, readerVars
<1>7. ASSUME ReserveFirst
      PROVE  WriterType'
  BY <1>7, ResvAssumption DEF ReserveFirst, CallEnds, MaybeFence, MaybeList, None
<1>8. ASSUME ReservePublish
      PROVE  WriterType'
  BY <1>8 DEF ReservePublish, fenceVars, memVars, listVars, argVars, callVars, writerVars, readerVars
<1>9. ASSUME ReserveDrop
      PROVE  WriterType'
  BY <1>9 DEF ReserveDrop, Put, fenceVars, memVars, listVars, argVars, callVars, writerVars, readerVars
<1>10. ASSUME ReserveFree
      PROVE  WriterType'
  BY <1>10, ResvAssumption DEF ReserveFree, KfreeRcu, CallEnds, MaybeFence, MaybeList, None
<1>11. ASSUME NEW f \in Fences, NEW u \in Usages, AddFence(f, u)
      PROVE  WriterType'
  BY <1>11, ResvAssumption DEF AddFence, MaybeFence
<1>12. ASSUME AddScan
      PROVE  WriterType'
  BY <1>12 DEF AddScan, fenceVars, memVars, listVars, argVars, callVars, writerVars, readerVars
<1>13. ASSUME AddReplace
      PROVE  WriterType'
  BY <1>13, OldType DEF AddReplace, PutOld, MaybeFence, argVars
<1>14. ASSUME AddPut
      PROVE  WriterType'
  BY <1>14, ResvAssumption DEF AddPut, Put, CallEnds, MaybeFence, MaybeList, None, argVars
<1>15. ASSUME AddSet
      PROVE  WriterType'
  BY <1>15 DEF AddSet, fenceVars, memVars, listVars, argVars, callVars, writerVars, readerVars
<1>16. ASSUME AddCount
      PROVE  WriterType'
  BY <1>16, ResvAssumption DEF AddCount, CallEnds, MaybeFence, MaybeList, None, argVars
<1>17. ASSUME NEW c \in Contexts, NEW f \in Fences, NEW u \in Usages, ReplaceFences(c, f, u)
      PROVE  WriterType'
  BY <1>17, ResvAssumption DEF ReplaceFences, MaybeFence
<1>18. ASSUME ReplaceSkip
      PROVE  WriterType'
  BY <1>18 DEF ReplaceSkip, fenceVars, memVars, listVars, argVars, callVars, writerVars, readerVars
<1>19. ASSUME ReplaceSet
      PROVE  WriterType'
  BY <1>19, OldType DEF ReplaceSet, MaybeFence, argVars
<1>20. ASSUME ReplacePut
      PROVE  WriterType'
  BY <1>20, ResvAssumption DEF ReplacePut, Put, MaybeFence, MaybeList, None, argVars
<1>21. ASSUME ReplaceDone
      PROVE  WriterType'
  BY <1>21, ResvAssumption DEF ReplaceDone, CallEnds, MaybeFence, MaybeList, None, argVars
<1>22. ASSUME Fini
      PROVE  WriterType'
  BY <1>22 DEF Fini, fenceVars, memVars, listVars, argVars, callVars, writerVars, readerVars
<1>23. ASSUME FiniPut
      PROVE  WriterType'
  BY <1>23 DEF FiniPut, Put, fenceVars, memVars, listVars, argVars, callVars, writerVars, readerVars
<1>24. ASSUME FiniFree
      PROVE  WriterType'
  BY <1>24 DEF FiniFree, KfreeRcu, fenceVars, memVars, listVars, argVars, callVars, writerVars, readerVars
<1>25. ASSUME ReaderStep
       PROVE  WriterType'
  BY <1>25, ReadersAreQuiet DEF Quiet
<1> QED
  BY <1>1, <1>2, <1>3, <1>4, <1>5, <1>6, <1>7, <1>8, <1>9, <1>10, <1>11, <1>12, <1>13, <1>14, <1>15, <1>16, <1>17, <1>18, <1>19, <1>20, <1>21, <1>22, <1>23, <1>24, <1>25 DEF Next, WriterStep, WriterGoesOn, ReaderStep

LEMMA IdleType == Idle \in CursorType /\ NoEntry \in Entry
BY ResvAssumption DEF Idle, CursorType, Cursor, MaybeFence, MaybeList, None, NoEntry, Entry

LEMMA NextCursor ==
  ASSUME TypeOK, NEW r \in Readers
  PROVE  Restarted(cursor[r]) \in CursorType
<1>1. cursor[r] \in CursorType /\ fences \in MaybeList /\ NumFences \in Nat
  BY ListNumber DEF TypeOK, ReaderType, ListType, NumFences
<1> QED
  BY <1>1 DEF CursorType, Restarted, Cursor

LEMMA FenceCursor ==
  ASSUME TypeOK, NEW r \in Readers, NEW f \in MaybeFence
  PROVE  WithFence(cursor[r], f) \in CursorType
<1>1. cursor[r] \in CursorType
  BY DEF TypeOK, ReaderType
<1> QED
  BY <1>1 DEF CursorType, WithFence, Cursor

LEMMA MovedCursor ==
  ASSUME TypeOK, NEW r \in Readers
  PROVE  Moved(cursor[r]) \in CursorType
<1>1. cursor[r] \in CursorType
  BY DEF TypeOK, ReaderType
<1> QED
  BY <1>1 DEF CursorType, Moved, NextIndex, Cursor, MaybeFence

LEMMA SameCursor ==
  ASSUME TypeOK, NEW r \in Readers
  PROVE  Cursor(cursor[r].usage, cursor[r].fence, cursor[r].index, cursor[r].fences,
                cursor[r].num, 0) \in CursorType
<1>1. cursor[r] \in CursorType
  BY DEF TypeOK, ReaderType
<1> QED
  BY <1>1 DEF CursorType, Cursor

LEMMA ReaderTypeStep ==
  ASSUME TypeOK, TablesInv, CursorInv, Next
  PROVE  ReaderType'
<1>0. ReaderType
  BY DEF TypeOK
<1> USE <1>0 DEF ReaderType, ReaderPcs, Ops
<1>1. ASSUME NEW r \in Readers, NEW o \in ReaderOps, NEW u \in Usages \cup {Bookkeep}, Call(r, o, u)
      PROVE  ReaderType'
  <2>1. Cursor(u, None, 0, None, 0, 0) \in CursorType
    BY ResvAssumption DEF CursorType, Cursor, MaybeFence, MaybeList, None, Bookkeep
  <2>2. o \in Ops
    BY ResvAssumption DEF Ops
  <2> QED
    BY <1>1, <2>1, <2>2 DEF Call, Goto
<1>2. ASSUME NEW r \in Readers, Restart(r)
      PROVE  ReaderType'
  <2>1. Restarted(cursor[r]) \in CursorType
    BY NextCursor
  <2> QED
    BY <1>2, <2>1, IdleType DEF Restart, Goto, Walk, Room
<1>3. ASSUME NEW r \in Readers, WalkEnd(r)
      PROVE  ReaderType'
  <2>1. WithFence(cursor[r], None) \in CursorType
    BY FenceCursor DEF TypeOK, ReaderType, MaybeFence
  <2> QED
    BY <1>3, <2>1, IdleType DEF WalkEnd, Goto, Walk, Room
<1>4. ASSUME NEW r \in Readers, WalkEntry(r)
      PROVE  ReaderType'
  <2>1. table[cursor[r].fences][cursor[r].index + 1] \in Entry
    <3>1. cursor[r].index \in Nat /\ cursor[r].num \in Nat /\ cursor[r].index < cursor[r].num
      BY <1>4 DEF WalkEntry, CursorType
    <3>2. cursor[r].index + 1 \in 1 .. cursor[r].num
      BY <3>1
    <3> QED
      BY <3>2, EntryRead
  <2>2. Moved(cursor[r]) \in CursorType
    BY MovedCursor
  <2> QED
    BY <1>4, <2>1, <2>2 DEF WalkEntry, Goto
<1>5. ASSUME NEW r \in Readers, WalkGet(r)
      PROVE  ReaderType'
  <2>1. WithFence(cursor[r], cand[r].fence) \in CursorType
    BY FenceCursor DEF TypeOK, ReaderType, Entry, MaybeFence
  <2> QED
    BY <1>5, <2>1, IdleType DEF WalkGet, Goto, Walk, Room
<1>6. ASSUME NEW r \in Readers, WalkGetFails(r)
      PROVE  ReaderType'
  <2>1. Restarted(cursor[r]) \in CursorType
    BY NextCursor
  <2> QED
    BY <1>6, <2>1, IdleType DEF WalkGetFails, Goto, Walk, Room
<1>7. ASSUME NEW r \in Readers, WalkTest(r)
      PROVE  ReaderType'
  BY <1>7 DEF WalkTest, Goto, fenceVars, memVars, listVars, argVars, callVars, writerVars, readerVars
<1>8. ASSUME NEW r \in Readers, WalkAgain(r)
      PROVE  ReaderType'
  <2>1. Restarted(cursor[r]) \in CursorType
    BY NextCursor
  <2> QED
    BY <1>8, <2>1, IdleType DEF WalkAgain, Goto, Exchanged, Walk, Room
<1>9. ASSUME NEW r \in Readers, WalkReturn(r)
      PROVE  ReaderType'
  BY <1>9 DEF WalkReturn, Goto, RcuUnlock, Exchanged, fenceVars, memVars, listVars, argVars, callVars, writerVars, readerVars
<1>10. ASSUME NEW r \in Readers, NextSame(r)
      PROVE  ReaderType'
  <2>1. Cursor(cursor[r].usage, cursor[r].fence, cursor[r].index, cursor[r].fences, cursor[r].num, 0) \in CursorType
    BY SameCursor
  <2> QED
    BY <1>10, <2>1, IdleType DEF NextSame, Goto, Exchanged, Walk, Room
<1>11. ASSUME NEW r \in Readers, NextRestart(r)
      PROVE  ReaderType'
  <2>1. Restarted(cursor[r]) \in CursorType
    BY NextCursor
  <2> QED
    BY <1>11, <2>1, IdleType DEF NextRestart, Goto, Exchanged, Walk, Room
<1>12. ASSUME NEW r \in Readers, TestFails(r)
      PROVE  ReaderType'
  <2>1. Idle \in CursorType
    BY IdleType
  <2> QED
    BY <1>12, <2>1, IdleType DEF TestFails, IterEnd, Goto, Walk, Room
<1>13. ASSUME NEW r \in Readers, Waited(r)
      PROVE  ReaderType'
  BY <1>13 DEF Waited, Goto, fenceVars, memVars, listVars, argVars, callVars, writerVars, readerVars
<1>14. ASSUME NEW r \in Readers, WaitFails(r)
      PROVE  ReaderType'
  <2>1. Idle \in CursorType
    BY IdleType
  <2> QED
    BY <1>14, <2>1, IdleType DEF WaitFails, IterEnd, Goto, Walk, Room
<1>15. ASSUME NEW r \in Readers, CollectDrop(r)
      PROVE  ReaderType'
  <2>1. SubSeq(got[r], 1, Len(got[r]) - 1) \in Seq(Fences)
    BY <1>15, FrontOf DEF CollectDrop
  <2> QED
    BY <1>15, <2>1 DEF CollectDrop, PutLast
<1>16. ASSUME NEW r \in Readers, CollectFails(r)
      PROVE  ReaderType'
  <2>1. Idle \in CursorType
    BY IdleType
  <2> QED
    BY <1>16, <2>1, IdleType DEF CollectFails, Collects, BeginsAgain, IterEnd, Goto, Walk, Room
<1>17. ASSUME NEW r \in Readers, Collect(r)
      PROVE  ReaderType'
  <2>1. cursor[r].fence \in Fences /\ Room(r) \in Nat
    BY <1>17 DEF Collect, Collects, CursorInv, CursorOk, Room, CursorType
  <2>2. Append(got[r], cursor[r].fence) \in Seq(Fences)
    BY <2>1
  <2> QED
    BY <1>17, <2>1, <2>2 DEF Collect, Goto
<1>18. ASSUME NEW r \in Readers, Release(r)
      PROVE  ReaderType'
  <2>1. SubSeq(got[r], 1, Len(got[r]) - 1) \in Seq(Fences)
    BY <1>18, FrontOf DEF Release
  <2> QED
    BY <1>18, <2>1 DEF Release, PutLast
<1>19. ASSUME NEW r \in Readers, Return(r)
      PROVE  ReaderType'
  <2>1. Idle \in CursorType
    BY IdleType
  <2> QED
    BY <1>19, <2>1, IdleType DEF Return, Goto, Walk, Room
<1>20. ASSUME WriterActs
       PROVE  ReaderType'
  BY <1>20, WriterIsCalm DEF Calm
<1> QED
  BY <1>1, <1>2, <1>3, <1>4, <1>5, <1>6, <1>7, <1>8, <1>9, <1>10, <1>11, <1>12, <1>13, <1>14, <1>15, <1>16, <1>17, <1>18, <1>19, <1>20 DEF Next, WriterActs, ReaderGoesOn

LEMMA OwedTypeStep ==
  ASSUME TypeOK, TablesInv, ArgsInv, Next
  PROVE  OwedType'
<1>0. OwedType
  BY DEF TypeOK
<1> USE <1>0 DEF OwedType
<1>1. ASSUME NEW f \in Fences, Signal(f)
      PROVE  OwedType'
  <2>1. \A r \in Readers : {S \in owed[r] : f \notin S} \in SUBSET SUBSET Fences
    OBVIOUS
  <2> QED
    BY <1>1, <2>1 DEF Signal
<1>2. ASSUME Unlock
      PROVE  OwedType'
  BY <1>2 DEF Unlock, fenceVars, memVars, listVars, argVars, callVars, writerVars, readerVars
<1>3. ASSUME NEW n \in 1 .. MaxReserve, ReserveEnough(n)
      PROVE  OwedType'
  BY <1>3 DEF ReserveEnough, fenceVars, memVars, listVars, argVars, callVars, writerVars, readerVars
<1>4. ASSUME NEW n \in 1 .. MaxReserve, ReserveAlloc(n)
      PROVE  OwedType'
  BY <1>4 DEF ReserveAlloc, fenceVars, memVars, listVars, argVars, callVars, writerVars, readerVars
<1>5. ASSUME ReserveCopySignaled
      PROVE  OwedType'
  BY <1>5 DEF ReserveCopySignaled, fenceVars, memVars, listVars, argVars, callVars, writerVars, readerVars
<1>6. ASSUME ReserveCopyActive
      PROVE  OwedType'
  BY <1>6 DEF ReserveCopyActive, fenceVars, memVars, listVars, argVars, callVars, writerVars, readerVars
<1>7. ASSUME ReserveFirst
      PROVE  OwedType'
  BY <1>7 DEF ReserveFirst, CallEnds, fenceVars, memVars, listVars, argVars, callVars, writerVars, readerVars
<1>8. ASSUME ReservePublish
      PROVE  OwedType'
  BY <1>8 DEF ReservePublish, fenceVars, memVars, listVars, argVars, callVars, writerVars, readerVars
<1>9. ASSUME ReserveDrop
      PROVE  OwedType'
  BY <1>9 DEF ReserveDrop, Put, fenceVars, memVars, listVars, argVars, callVars, writerVars, readerVars
<1>10. ASSUME ReserveFree
      PROVE  OwedType'
  BY <1>10 DEF ReserveFree, KfreeRcu, CallEnds, fenceVars, memVars, listVars, argVars, callVars, writerVars, readerVars
<1>11. ASSUME NEW f \in Fences, NEW u \in Usages, AddFence(f, u)
      PROVE  OwedType'
  BY <1>11 DEF AddFence, fenceVars, memVars, listVars, argVars, callVars, writerVars, readerVars
<1>12. ASSUME AddScan
      PROVE  OwedType'
  BY <1>12 DEF AddScan, fenceVars, memVars, listVars, argVars, callVars, writerVars, readerVars
<1>13. ASSUME AddReplace
      PROVE  OwedType'
  <2>1. wfence \in Fences
    BY <1>13 DEF AddReplace, ArgsInv
  <2>2. ASSUME NEW r \in Readers
        PROVE  {IF Later /\ Old.fence \in S /\ Old.usage <= cursor[r].usage
                THEN S \cup {wfence} ELSE S : S \in owed[r]} \in SUBSET SUBSET Fences
    BY <2>1
  <2> QED
    BY <1>13, <2>2 DEF AddReplace, Succeeds
<1>14. ASSUME AddPut
      PROVE  OwedType'
  BY <1>14 DEF AddPut, Put, CallEnds, fenceVars, memVars, listVars, argVars, callVars, writerVars, readerVars
<1>15. ASSUME AddSet
      PROVE  OwedType'
  BY <1>15 DEF AddSet, fenceVars, memVars, listVars, argVars, callVars, writerVars, readerVars
<1>16. ASSUME AddCount
      PROVE  OwedType'
  BY <1>16 DEF AddCount, CallEnds, fenceVars, memVars, listVars, argVars, callVars, writerVars, readerVars
<1>17. ASSUME NEW c \in Contexts, NEW f \in Fences, NEW u \in Usages, ReplaceFences(c, f, u)
      PROVE  OwedType'
  BY <1>17 DEF ReplaceFences, fenceVars, memVars, listVars, argVars, callVars, writerVars, readerVars
<1>18. ASSUME ReplaceSkip
      PROVE  OwedType'
  BY <1>18 DEF ReplaceSkip, fenceVars, memVars, listVars, argVars, callVars, writerVars, readerVars
<1>19. ASSUME ReplaceSet
      PROVE  OwedType'
  <2>1. wfence \in Fences
    BY <1>19 DEF ReplaceSet, ArgsInv
  <2>2. ASSUME NEW r \in Readers
        PROVE  {IF Old.fence \in S /\ Old.usage <= cursor[r].usage THEN S \cup {wfence} ELSE S :
                  S \in {T \in owed[r] : Old.fence \in T => wusage <= cursor[r].usage}}
                  \in SUBSET SUBSET Fences
    BY <2>1
  <2> QED
    BY <1>19, <2>2 DEF ReplaceSet, SucceedsFor
<1>20. ASSUME ReplacePut
      PROVE  OwedType'
  BY <1>20 DEF ReplacePut, Put, fenceVars, memVars, listVars, argVars, callVars, writerVars, readerVars
<1>21. ASSUME ReplaceDone
      PROVE  OwedType'
  BY <1>21 DEF ReplaceDone, CallEnds, fenceVars, memVars, listVars, argVars, callVars, writerVars, readerVars
<1>22. ASSUME Fini
      PROVE  OwedType'
  BY <1>22 DEF Fini, fenceVars, memVars, listVars, argVars, callVars, writerVars, readerVars
<1>23. ASSUME FiniPut
      PROVE  OwedType'
  BY <1>23 DEF FiniPut, Put, fenceVars, memVars, listVars, argVars, callVars, writerVars, readerVars
<1>24. ASSUME FiniFree
      PROVE  OwedType'
  BY <1>24 DEF FiniFree, KfreeRcu, fenceVars, memVars, listVars, argVars, callVars, writerVars, readerVars
<1>25. ASSUME NEW r \in Readers, NEW o \in ReaderOps, NEW u \in Usages \cup {Bookkeep}, Call(r, o, u)
      PROVE  OwedType'
  <2>1. {{f} : f \in Visible(u) \ sig} \in SUBSET SUBSET Fences
    BY SeenFences
  <2> QED
    BY <1>25, <2>1 DEF Call
<1>26. ASSUME NEW r \in Readers, Restart(r)
      PROVE  OwedType'
  BY <1>26 DEF Restart, Goto, Restarted, fenceVars, memVars, listVars, argVars, callVars, writerVars, readerVars
<1>27. ASSUME NEW r \in Readers, WalkEnd(r)
      PROVE  OwedType'
  BY <1>27 DEF WalkEnd, Put, Goto, WithFence, fenceVars, memVars, listVars, argVars, callVars, writerVars, readerVars
<1>28. ASSUME NEW r \in Readers, WalkEntry(r)
      PROVE  OwedType'
  BY <1>28 DEF WalkEntry, Put, Goto, Moved, NextIndex, fenceVars, memVars, listVars, argVars, callVars, writerVars, readerVars
<1>29. ASSUME NEW r \in Readers, WalkGet(r)
      PROVE  OwedType'
  BY <1>29 DEF WalkGet, Goto, WithFence, fenceVars, memVars, listVars, argVars, callVars, writerVars, readerVars
<1>30. ASSUME NEW r \in Readers, WalkGetFails(r)
      PROVE  OwedType'
  BY <1>30 DEF WalkGetFails, Goto, Restarted, fenceVars, memVars, listVars, argVars, callVars, writerVars, readerVars
<1>31. ASSUME NEW r \in Readers, WalkTest(r)
      PROVE  OwedType'
  BY <1>31 DEF WalkTest, Goto, fenceVars, memVars, listVars, argVars, callVars, writerVars, readerVars
<1>32. ASSUME NEW r \in Readers, WalkAgain(r)
      PROVE  OwedType'
  BY <1>32 DEF WalkAgain, Goto, Restarted, Exchanged, fenceVars, memVars, listVars, argVars, callVars, writerVars, readerVars
<1>33. ASSUME NEW r \in Readers, WalkReturn(r)
      PROVE  OwedType'
  BY <1>33 DEF WalkReturn, Goto, RcuUnlock, Exchanged, fenceVars, memVars, listVars, argVars, callVars, writerVars, readerVars
<1>34. ASSUME NEW r \in Readers, NextSame(r)
      PROVE  OwedType'
  BY <1>34 DEF NextSame, Goto, Exchanged, fenceVars, memVars, listVars, argVars, callVars, writerVars, readerVars
<1>35. ASSUME NEW r \in Readers, NextRestart(r)
      PROVE  OwedType'
  BY <1>35 DEF NextRestart, Goto, Restarted, Exchanged, fenceVars, memVars, listVars, argVars, callVars, writerVars, readerVars
<1>36. ASSUME NEW r \in Readers, TestFails(r)
      PROVE  OwedType'
  BY <1>36 DEF TestFails, IterEnd, Put, Goto, fenceVars, memVars, listVars, argVars, callVars, writerVars, readerVars
<1>37. ASSUME NEW r \in Readers, Waited(r)
      PROVE  OwedType'
  BY <1>37 DEF Waited, Goto, fenceVars, memVars, listVars, argVars, callVars, writerVars, readerVars
<1>38. ASSUME NEW r \in Readers, WaitFails(r)
      PROVE  OwedType'
  BY <1>38 DEF WaitFails, IterEnd, Put, Goto, fenceVars, memVars, listVars, argVars, callVars, writerVars, readerVars
<1>39. ASSUME NEW r \in Readers, CollectDrop(r)
      PROVE  OwedType'
  BY <1>39 DEF CollectDrop, Collects, BeginsAgain, PutLast, Put, fenceVars, memVars, listVars, argVars, callVars, writerVars, readerVars
<1>40. ASSUME NEW r \in Readers, CollectFails(r)
      PROVE  OwedType'
  BY <1>40 DEF CollectFails, Collects, BeginsAgain, IterEnd, Put, Goto, fenceVars, memVars, listVars, argVars, callVars, writerVars, readerVars
<1>41. ASSUME NEW r \in Readers, Collect(r)
      PROVE  OwedType'
  BY <1>41 DEF Collect, Collects, BeginsAgain, Goto, fenceVars, memVars, listVars, argVars, callVars, writerVars, readerVars
<1>42. ASSUME NEW r \in Readers, Release(r)
      PROVE  OwedType'
  BY <1>42 DEF Release, PutLast, Put, fenceVars, memVars, listVars, argVars, callVars, writerVars, readerVars
<1>43. ASSUME NEW r \in Readers, Return(r)
      PROVE  OwedType'
  BY <1>43 DEF Return, Goto, fenceVars, memVars, listVars, argVars, callVars, writerVars, readerVars
<1> QED
  BY <1>1, <1>2, <1>3, <1>4, <1>5, <1>6, <1>7, <1>8, <1>9, <1>10, <1>11, <1>12, <1>13, <1>14, <1>15, <1>16, <1>17, <1>18, <1>19, <1>20, <1>21, <1>22, <1>23, <1>24, <1>25, <1>26, <1>27, <1>28, <1>29, <1>30, <1>31, <1>32, <1>33, <1>34, <1>35, <1>36, <1>37, <1>38, <1>39, <1>40, <1>41, <1>42, <1>43 DEF Next, WriterStep, WriterGoesOn, ReaderGoesOn

LEMMA TypeStep ==
  ASSUME TypeOK, ListsInv, TablesInv, CopyInv, ArgsInv, CursorInv, Next
  PROVE  TypeOK'
BY FenceTypeStep, ListTypeStep, WriterTypeStep, ReaderTypeStep, OwedTypeStep DEF TypeOK

\* A write to an entry
WritesTo(l, j, e) == table' = [table EXCEPT ![l][j] = e]

LEMMA PutAt ==
  ASSUME TypeOK, NEW l \in Lists, NEW j \in DOMAIN table[l], NEW e,
         WritesTo(l, j, e)
  PROVE  \A k \in Lists :
           /\ Len(table'[k]) = Len(table[k]) /\ Len(table[k]) \in Nat
           /\ DOMAIN table[k] = 1 .. Len(table[k])
           /\ k # l => table'[k] = table[k]
           /\ \A n \in 1 .. Len(table[k]) :
                table'[k][n] = IF k = l /\ n = j THEN e ELSE table[k][n]
<1>1. ASSUME NEW k \in Lists
      PROVE  /\ Len(table'[k]) = Len(table[k]) /\ Len(table[k]) \in Nat
             /\ DOMAIN table[k] = 1 .. Len(table[k])
             /\ k # l => table'[k] = table[k]
             /\ \A n \in 1 .. Len(table[k]) :
                  table'[k][n] = IF k = l /\ n = j THEN e ELSE table[k][n]
  <2> DEFINE s == table[k]
  <2>1. s \in Seq(Entry) /\ Len(s) \in Nat /\ DOMAIN s = 1 .. Len(s)
    BY DEF TypeOK, ListType
  <2>2. table'[k] = IF k = l THEN [s EXCEPT ![j] = e] ELSE s
    BY DEF TypeOK, ListType, WritesTo
  <2> HIDE DEF s
  <2>3. \A n \in 1 .. Len(s) : [s EXCEPT ![j] = e][n] = IF n = j THEN e ELSE s[n]
    BY <2>1
  <2>4. DOMAIN [s EXCEPT ![j] = e] = 1 .. Len(s)
    BY <2>1
  <2>5. Len([s EXCEPT ![j] = e]) = Len(s)
    BY <2>1, <2>4
  <2>6. Len(table'[k]) = Len(s) /\ (k # l => table'[k] = s)
    BY <2>2, <2>5
  <2>7. \A n \in 1 .. Len(s) : table'[k][n] = IF k = l /\ n = j THEN e ELSE s[n]
    BY <2>2, <2>3
  <2> QED
    BY <2>1, <2>6, <2>7 DEF s
<1> QED
  BY <1>1

LEMMA ListsStep ==
  ASSUME TypeOK, ListsInv, SlotsInv, Next
  PROVE  ListsInv'
<1>0. fences \in Nat /\ wnew \in Nat /\ wold \in Int /\ freed \subseteq Lists /\ \A l \in Lists : l \in Nat
  BY ListNumber, ResvAssumption DEF TypeOK, ListType, WriterType, MaybeList, Lists
<1> USE <1>0 DEF ListsInv, None
<1>1. ASSUME NEW f \in Fences, Signal(f)
      PROVE  ListsInv'
  BY <1>1 DEF Signal, Put, fenceVars, memVars, listVars, argVars, callVars, writerVars, readerVars
<1>2. ASSUME Unlock
      PROVE  ListsInv'
  BY <1>2 DEF Unlock, fenceVars, memVars, listVars, argVars, callVars, writerVars, readerVars
<1>3. ASSUME NEW n \in 1 .. MaxReserve, ReserveEnough(n)
      PROVE  ListsInv'
  BY <1>3 DEF ReserveEnough, fenceVars, memVars, listVars, argVars, callVars, writerVars, readerVars
<1>4. ASSUME NEW n \in 1 .. MaxReserve, ReserveAlloc(n)
      PROVE  ListsInv'
  BY <1>4 DEF ReserveAlloc, fenceVars, memVars, listVars, argVars, callVars, writerVars, readerVars
<1>5. ASSUME ReserveCopySignaled
      PROVE  ListsInv'
  BY <1>5 DEF ReserveCopySignaled, fenceVars, memVars, listVars, argVars, callVars, writerVars, readerVars
<1>6. ASSUME ReserveCopyActive
      PROVE  ListsInv'
  BY <1>6 DEF ReserveCopyActive, fenceVars, memVars, listVars, argVars, callVars, writerVars, readerVars
<1>7. ASSUME ReserveFirst
      PROVE  ListsInv'
  BY <1>7 DEF ReserveFirst, CallEnds, memVars
<1>8. ASSUME ReservePublish
      PROVE  ListsInv'
  BY <1>8 DEF ReservePublish, memVars
<1>9. ASSUME ReserveDrop
      PROVE  ListsInv'
  BY <1>9 DEF ReserveDrop, Put, fenceVars, memVars, listVars, argVars, callVars, writerVars, readerVars
<1>10. ASSUME ReserveFree
      PROVE  ListsInv'
  BY <1>10 DEF ReserveFree, KfreeRcu, CallEnds, memVars
<1>11. ASSUME NEW f \in Fences, NEW u \in Usages, AddFence(f, u)
      PROVE  ListsInv'
  BY <1>11 DEF AddFence, SlotsInv, listVars, memVars
<1>12. ASSUME AddScan
      PROVE  ListsInv'
  BY <1>12 DEF AddScan, fenceVars, memVars, listVars, argVars, callVars, writerVars, readerVars
<1>13. ASSUME AddReplace
      PROVE  ListsInv'
  BY <1>13 DEF AddReplace, fenceVars, memVars, listVars, argVars, callVars, writerVars, readerVars
<1>14. ASSUME AddPut
      PROVE  ListsInv'
  BY <1>14 DEF AddPut, Put, CallEnds, fenceVars, memVars, listVars, argVars, callVars, writerVars, readerVars
<1>15. ASSUME AddSet
      PROVE  ListsInv'
  BY <1>15 DEF AddSet, fenceVars, memVars, listVars, argVars, callVars, writerVars, readerVars
<1>16. ASSUME AddCount
      PROVE  ListsInv'
  BY <1>16 DEF AddCount, CallEnds, memVars
<1>17. ASSUME NEW c \in Contexts, NEW f \in Fences, NEW u \in Usages, ReplaceFences(c, f, u)
      PROVE  ListsInv'
  BY <1>17 DEF ReplaceFences, fenceVars, memVars, listVars, argVars, callVars, writerVars, readerVars
<1>18. ASSUME ReplaceSkip
      PROVE  ListsInv'
  BY <1>18 DEF ReplaceSkip, fenceVars, memVars, listVars, argVars, callVars, writerVars, readerVars
<1>19. ASSUME ReplaceSet
      PROVE  ListsInv'
  BY <1>19 DEF ReplaceSet, fenceVars, memVars, listVars, argVars, callVars, writerVars, readerVars
<1>20. ASSUME ReplacePut
      PROVE  ListsInv'
  BY <1>20 DEF ReplacePut, Put, fenceVars, memVars, listVars, argVars, callVars, writerVars, readerVars
<1>21. ASSUME ReplaceDone
      PROVE  ListsInv'
  BY <1>21 DEF ReplaceDone, CallEnds, fenceVars, memVars, listVars, argVars, callVars, writerVars, readerVars
<1>22. ASSUME Fini
      PROVE  ListsInv'
  BY <1>22 DEF Fini, fenceVars, memVars, listVars, argVars, callVars, writerVars, readerVars
<1>23. ASSUME FiniPut
      PROVE  ListsInv'
  BY <1>23 DEF FiniPut, Put, fenceVars, memVars, listVars, argVars, callVars, writerVars, readerVars
<1>24. ASSUME FiniFree
      PROVE  ListsInv'
  BY <1>24 DEF FiniFree, KfreeRcu, memVars
<1>25. ASSUME ReaderStep
       PROVE  ListsInv'
  BY <1>25, ReadersAreQuiet DEF Quiet, ListsInv
<1> QED
  BY <1>1, <1>2, <1>3, <1>4, <1>5, <1>6, <1>7, <1>8, <1>9, <1>10, <1>11, <1>12, <1>13, <1>14, <1>15, <1>16, <1>17, <1>18, <1>19, <1>20, <1>21, <1>22, <1>23, <1>24, <1>25 DEF Next, WriterStep, WriterGoesOn, ReaderStep

LEMMA TablesStep ==
  ASSUME TypeOK, ListsInv, TablesInv, CopyInv, SlotsInv, ArgsInv, Next
  PROVE  TablesInv'
<1>0. /\ fences \in Nat /\ wnew \in Nat /\ \A l \in Lists : l \in Nat
      /\ \A l \in Lists : num[l] \in Nat /\ max[l] \in Nat /\ Len(table[l]) \in Nat
  <2>1. \A l \in Lists : num[l] \in Nat /\ max[l] \in Nat
    BY DEF TypeOK, ListType
  <2>2. \A l \in Lists : Len(table[l]) \in Nat
    BY DEF TypeOK, ListType
  <2> QED
    BY <2>1, <2>2, ListNumber DEF Lists
<1>00. fences # None => fences \in Lists
  BY ListNumber
<1> USE <1>0, <1>00 DEF TablesInv
<1>1. ASSUME NEW f \in Fences, Signal(f)
      PROVE  TablesInv'
  BY <1>1 DEF Signal, Put, fenceVars, memVars, listVars, argVars, callVars, writerVars, readerVars
<1>2. ASSUME Unlock
      PROVE  TablesInv'
  <2>1. UNCHANGED <<fences, wnew, num, table>>
    BY <1>2 DEF Unlock, memVars
  <2>2. \A l \in Lists : max'[l] = max[l] \/ (l = fences /\ max'[l] = num[l])
    BY <1>2 DEF Unlock, TypeOK, ListType
  <2>9. ASSUME NEW l \in Lists, l <= fences'
        PROVE  /\ num'[l] <= Len(table'[l]) /\ max'[l] <= Len(table'[l]) /\ num'[l] <= max'[l]
               /\ \A j \in 1 .. num'[l] : table'[l][j].fence \in Fences
    BY <2>1, <2>2, <2>9
  <2>10. \A l \in Lists : l > wnew' => num'[l] = 0
    BY <2>1, <2>2
  <2> QED
    BY <2>9, <2>10
<1>3. ASSUME NEW n \in 1 .. MaxReserve, ReserveEnough(n)
      PROVE  TablesInv'
  BY <1>3 DEF ReserveEnough, fenceVars, memVars, listVars, argVars, callVars, writerVars, readerVars
<1>4. ASSUME NEW n \in 1 .. MaxReserve, ReserveAlloc(n)
      PROVE  TablesInv'
  <2>1. UNCHANGED <<fences, num>> /\ wnew' = wnew + 1 /\ wnew = fences
    BY <1>4 DEF ReserveAlloc, ListsInv
  <2>2. \A l \in Lists : l # wnew + 1 => table'[l] = table[l] /\ max'[l] = max[l]
    BY <1>4 DEF ReserveAlloc, TypeOK, ListType
  <2>9. ASSUME NEW l \in Lists, l <= fences'
        PROVE  /\ num'[l] <= Len(table'[l]) /\ max'[l] <= Len(table'[l]) /\ num'[l] <= max'[l]
               /\ \A j \in 1 .. num'[l] : table'[l][j].fence \in Fences
    BY <2>1, <2>2, <2>9
  <2>10. \A l \in Lists : l > wnew' => num'[l] = 0
    BY <2>1, <2>2
  <2> QED
    BY <2>9, <2>10
<1>5. ASSUME ReserveCopySignaled
      PROVE  TablesInv'
  <2>1. UNCHANGED <<fences, wnew, max>> /\ wnew = fences + 1 /\ wnew \in Lists
    BY <1>5, CopyPlace DEF ReserveCopySignaled, memVars
  <2>2. \A l \in Lists : l # wnew => table'[l] = table[l] /\ num'[l] = num[l]
    BY <1>5 DEF ReserveCopySignaled, TypeOK, ListType
  <2>9. ASSUME NEW l \in Lists, l <= fences'
        PROVE  /\ num'[l] <= Len(table'[l]) /\ max'[l] <= Len(table'[l]) /\ num'[l] <= max'[l]
               /\ \A j \in 1 .. num'[l] : table'[l][j].fence \in Fences
    <3>1. l # wnew /\ l <= fences
      BY <2>1, <2>9
    <3> QED
      BY <2>1, <2>2, <3>1
  <2>10. \A l \in Lists : l > wnew' => num'[l] = 0
    BY <2>1, <2>2
  <2> QED
    BY <2>9, <2>10
<1>6. ASSUME ReserveCopyActive
      PROVE  TablesInv'
  <2>1. UNCHANGED <<fences, wnew, max>> /\ wnew = fences + 1 /\ wnew \in Lists
    BY <1>6, CopyPlace DEF ReserveCopyActive, memVars
  <2>2. \A l \in Lists : l # wnew => table'[l] = table[l] /\ num'[l] = num[l]
    BY <1>6 DEF ReserveCopyActive, TypeOK, ListType
  <2>9. ASSUME NEW l \in Lists, l <= fences'
        PROVE  /\ num'[l] <= Len(table'[l]) /\ max'[l] <= Len(table'[l]) /\ num'[l] <= max'[l]
               /\ \A j \in 1 .. num'[l] : table'[l][j].fence \in Fences
    <3>1. l # wnew /\ l <= fences
      BY <2>1, <2>9
    <3> QED
      BY <2>1, <2>2, <3>1
  <2>10. \A l \in Lists : l > wnew' => num'[l] = 0
    BY <2>1, <2>2
  <2> QED
    BY <2>9, <2>10
<1>7. ASSUME ReserveFirst
      PROVE  TablesInv'
  <2>1. fences' = wnew /\ wnew = fences + 1 /\ wnew \in Lists /\ UNCHANGED <<wnew, num, max, table>>
    BY <1>7, CopyPlace DEF ReserveFirst, memVars
  <2>2. num[wnew] <= max[wnew] /\ max[wnew] = Len(table[wnew])
    <3> DEFINE n == num[wnew]  m == max[wnew]
    <3>1. n \in Nat /\ m \in Nat /\ n + (m - wk) = wi - 1 /\ wk <= m /\ wi <= NumFences + 1
          /\ NumFences + slots <= m /\ wk \in Nat /\ wi \in Nat /\ slots \in Nat /\ NumFences \in Nat
          /\ m = Len(table[wnew])
      BY <1>7, CopyPlace DEF ReserveFirst, CopyInv, TypeOK, WriterType
    <3> HIDE DEF n, m
    <3>2. n <= m
      BY <3>1
    <3> QED
      BY <3>1, <3>2 DEF n, m
  <2>3. \A j \in 1 .. num[wnew] : table[wnew][j].fence \in Fences
    BY <1>7 DEF ReserveFirst, CopyInv
  <2> QED
    BY <2>1, <2>2, <2>3
<1>8. ASSUME ReservePublish
      PROVE  TablesInv'
  <2>1. fences' = wnew /\ wnew = fences + 1 /\ wnew \in Lists /\ UNCHANGED <<wnew, num, max, table>>
    BY <1>8, CopyPlace DEF ReservePublish, memVars
  <2>2. num[wnew] <= max[wnew] /\ max[wnew] = Len(table[wnew])
    <3> DEFINE n == num[wnew]  m == max[wnew]
    <3>1. n \in Nat /\ m \in Nat /\ n + (m - wk) = wi - 1 /\ wk <= m /\ wi <= NumFences + 1
          /\ NumFences + slots <= m /\ wk \in Nat /\ wi \in Nat /\ slots \in Nat /\ NumFences \in Nat
          /\ m = Len(table[wnew])
      BY <1>8, CopyPlace DEF ReservePublish, CopyInv, TypeOK, WriterType
    <3> HIDE DEF n, m
    <3>2. n <= m
      BY <3>1
    <3> QED
      BY <3>1, <3>2 DEF n, m
  <2>3. \A j \in 1 .. num[wnew] : table[wnew][j].fence \in Fences
    BY <1>8 DEF ReservePublish, CopyInv
  <2> QED
    BY <2>1, <2>2, <2>3
<1>9. ASSUME ReserveDrop
      PROVE  TablesInv'
  BY <1>9 DEF ReserveDrop, Put, fenceVars, memVars, listVars, argVars, callVars, writerVars, readerVars
<1>10. ASSUME ReserveFree
      PROVE  TablesInv'
  BY <1>10 DEF ReserveFree, KfreeRcu, CallEnds, fenceVars, memVars, listVars, argVars, callVars, writerVars, readerVars
<1>11. ASSUME NEW f \in Fences, NEW u \in Usages, AddFence(f, u)
      PROVE  TablesInv'
  BY <1>11 DEF AddFence, fenceVars, memVars, listVars, argVars, callVars, writerVars, readerVars
<1>12. ASSUME AddScan
      PROVE  TablesInv'
  BY <1>12 DEF AddScan, fenceVars, memVars, listVars, argVars, callVars, writerVars, readerVars
<1>13. ASSUME AddReplace
      PROVE  TablesInv'
  <2>1. /\ fences \in Lists /\ wi \in 1 .. num[fences] /\ wi \in DOMAIN table[fences]
        /\ New.fence \in Fences /\ table' = [table EXCEPT ![fences][wi] = New]
        /\ UNCHANGED <<fences, wnew, num, max>>
    BY <1>13, OldType DEF AddReplace, ArgsInv, New
  <2>2. \A l \in Lists : l <= fences => Len(table'[l]) = Len(table[l])
          /\ \A j \in 1 .. num[l] : table'[l][j].fence \in Fences
    BY <2>1, PutAt DEF WritesTo
  <2> QED
    BY <2>1, <2>2
<1>14. ASSUME AddPut
      PROVE  TablesInv'
  BY <1>14 DEF AddPut, Put, CallEnds, fenceVars, memVars, listVars, argVars, callVars, writerVars, readerVars
<1>15. ASSUME AddSet
      PROVE  TablesInv'
  <2>1. /\ fences \in Lists /\ wi = num[fences] + 1 /\ wi \in DOMAIN table[fences]
        /\ UNCHANGED <<fences, wnew, max>> /\ num[fences] < max[fences]
    <3>1. fences \in Lists /\ wi = num[fences] + 1 /\ num[fences] + slots + 1 <= max[fences]
          /\ slots \in Nat
      BY <1>15 DEF AddSet, ArgsInv, ListsInv, SlotsInv, TypeOK, WriterType
    <3>2. num[fences] + 1 <= Len(table[fences]) /\ num[fences] < max[fences]
      BY <3>1
    <3>3. DOMAIN table[fences] = 1 .. Len(table[fences])
      BY <3>1 DEF TypeOK, ListType
    <3> QED
      BY <1>15, <3>1, <3>2, <3>3 DEF AddSet, memVars
  <2>2. num' = num /\ table' = [table EXCEPT ![fences][wi] = New]
    BY <1>15 DEF AddSet
  <2>3. \A l \in Lists : l <= fences => Len(table'[l]) = Len(table[l])
          /\ \A j \in 1 .. num[l] : table'[l][j].fence \in Fences
    BY <2>1, <2>2, PutAt DEF WritesTo
  <2> QED
    BY <2>1, <2>2, <2>3
<1>16. ASSUME AddCount
      PROVE  TablesInv'
  <2>1. /\ fences \in Lists /\ wi = num[fences] + 1 /\ wi \in DOMAIN table[fences]
        /\ UNCHANGED <<fences, wnew, max>> /\ num[fences] < max[fences]
    <3>1. fences \in Lists /\ wi = num[fences] + 1 /\ num[fences] + slots + 1 <= max[fences]
          /\ slots \in Nat
      BY <1>16 DEF AddCount, ArgsInv, ListsInv, SlotsInv, TypeOK, WriterType
    <3>2. num[fences] + 1 <= Len(table[fences]) /\ num[fences] < max[fences]
      BY <3>1
    <3>3. DOMAIN table[fences] = 1 .. Len(table[fences])
      BY <3>1 DEF TypeOK, ListType
    <3> QED
      BY <1>16, <3>1, <3>2, <3>3 DEF AddCount, memVars
  <2>2. table' = table /\ \A l \in Lists : num'[l] = IF l = fences THEN num[l] + 1 ELSE num[l]
    BY <1>16 DEF AddCount, TypeOK, ListType, memVars
  <2>3. table[fences][num[fences] + 1].fence \in Fences
    BY <1>16 DEF AddCount, ArgsInv
  <2>4. num[fences] + 1 <= max[fences] /\ wnew = fences
    BY <1>16, <2>1 DEF AddCount, ListsInv
  <2>9. ASSUME NEW l \in Lists, l <= fences'
        PROVE  /\ num'[l] <= Len(table'[l]) /\ max'[l] <= Len(table'[l]) /\ num'[l] <= max'[l]
               /\ \A j \in 1 .. num'[l] : table'[l][j].fence \in Fences
    <3>1. CASE l = fences
      <4>1. num'[l] = num[l] + 1 /\ table'[l] = table[l] /\ max'[l] = max[l]
        BY <2>1, <2>2, <3>1
      <4>2. \A j \in 1 .. num[l] + 1 : table[l][j].fence \in Fences
        <5>1. ASSUME NEW j \in 1 .. num[l] + 1 PROVE table[l][j].fence \in Fences
          <6>1. num[l] \in Nat /\ j \in Int /\ (j = num[l] + 1 \/ j \in 1 .. num[l])
            BY <5>1
          <6> QED
            BY <6>1, <3>1, <2>3, <2>1
        <5> QED
          BY <5>1
      <4>3. num[l] + 1 <= max[l] /\ max[l] <= Len(table[l])
        BY <2>1, <2>4, <3>1
      <4> QED
        BY <4>1, <4>2, <4>3
    <3>2. CASE l # fences
      <4>1. num'[l] = num[l] /\ table'[l] = table[l] /\ max'[l] = max[l]
        BY <2>1, <2>2, <3>2
      <4> QED
        BY <4>1, <2>9, <2>1
    <3> QED
      BY <3>1, <3>2
  <2>10. \A l \in Lists : l > wnew' => num'[l] = 0
    BY <2>1, <2>2, <2>4
  <2> QED
    BY <2>9, <2>10
<1>17. ASSUME NEW c \in Contexts, NEW f \in Fences, NEW u \in Usages, ReplaceFences(c, f, u)
      PROVE  TablesInv'
  BY <1>17 DEF ReplaceFences, fenceVars, memVars, listVars, argVars, callVars, writerVars, readerVars
<1>18. ASSUME ReplaceSkip
      PROVE  TablesInv'
  BY <1>18 DEF ReplaceSkip, fenceVars, memVars, listVars, argVars, callVars, writerVars, readerVars
<1>19. ASSUME ReplaceSet
      PROVE  TablesInv'
  <2>1. /\ fences \in Lists /\ wi \in 1 .. num[fences] /\ wi \in DOMAIN table[fences]
        /\ New.fence \in Fences /\ table' = [table EXCEPT ![fences][wi] = New]
        /\ UNCHANGED <<fences, wnew, num, max>>
    BY <1>19, OldType DEF ReplaceSet, ArgsInv, New
  <2>2. \A l \in Lists : l <= fences => Len(table'[l]) = Len(table[l])
          /\ \A j \in 1 .. num[l] : table'[l][j].fence \in Fences
    BY <2>1, PutAt DEF WritesTo
  <2> QED
    BY <2>1, <2>2
<1>20. ASSUME ReplacePut
      PROVE  TablesInv'
  BY <1>20 DEF ReplacePut, Put, fenceVars, memVars, listVars, argVars, callVars, writerVars, readerVars
<1>21. ASSUME ReplaceDone
      PROVE  TablesInv'
  BY <1>21 DEF ReplaceDone, CallEnds, fenceVars, memVars, listVars, argVars, callVars, writerVars, readerVars
<1>22. ASSUME Fini
      PROVE  TablesInv'
  BY <1>22 DEF Fini, fenceVars, memVars, listVars, argVars, callVars, writerVars, readerVars
<1>23. ASSUME FiniPut
      PROVE  TablesInv'
  BY <1>23 DEF FiniPut, Put, fenceVars, memVars, listVars, argVars, callVars, writerVars, readerVars
<1>24. ASSUME FiniFree
      PROVE  TablesInv'
  BY <1>24 DEF FiniFree, KfreeRcu, fenceVars, memVars, listVars, argVars, callVars, writerVars, readerVars
<1>25. ASSUME ReaderStep
       PROVE  TablesInv'
  BY <1>25, ReadersAreQuiet DEF Quiet, TablesInv
<1> QED
  BY <1>1, <1>2, <1>3, <1>4, <1>5, <1>6, <1>7, <1>8, <1>9, <1>10, <1>11, <1>12, <1>13, <1>14, <1>15, <1>16, <1>17, <1>18, <1>19, <1>20, <1>21, <1>22, <1>23, <1>24, <1>25 DEF Next, WriterStep, WriterGoesOn, ReaderStep

\* The writer's entries
LEMMA WritesNew ==
  ASSUME TypeOK, fences \in Lists, wi \in DOMAIN table[fences], WritesTo(fences, wi, New)
  PROVE  /\ \A l \in Lists : Len(table'[l]) = Len(table[l]) /\ (l # fences => table'[l] = table[l])
         /\ \A n \in 1 .. Len(table[fences]) : table'[fences][n] = IF n = wi THEN New ELSE table[fences][n]
         /\ table'[fences][wi] = New /\ wi \in 1 .. Len(table[fences])
BY PutAt

\* and those of a new list.
LEMMA WritesSignaled ==
  ASSUME TypeOK, ListsInv, TablesInv, CopyInv, ReserveCopySignaled
  PROVE  /\ \A l \in Lists : l # wnew => table'[l] = table[l]
         /\ Len(table'[wnew]) = Len(table[wnew])
         /\ \A n \in 1 .. max[wnew] : table'[wnew][n] =
              IF n = wk THEN [fence |-> Copied.fence, usage |-> 0] ELSE table[wnew][n]
<1> DEFINE e == [fence |-> Copied.fence, usage |-> 0]
<1>1. wpc = "copy" /\ Copies /\ WritesTo(wnew, wk, e)
  BY DEF ReserveCopySignaled, WritesTo
<1>2. wnew \in Lists /\ Len(table[wnew]) = max[wnew] /\ wk \in DOMAIN table[wnew]
  BY <1>1, CopyPlace
<1> HIDE DEF e
<1>3. /\ \A l \in Lists : l # wnew => table'[l] = table[l]
      /\ Len(table'[wnew]) = Len(table[wnew])
      /\ \A n \in 1 .. Len(table[wnew]) : table'[wnew][n] = IF n = wk THEN e ELSE table[wnew][n]
  BY <1>1, <1>2, PutAt
<1> QED
  BY <1>2, <1>3 DEF e

LEMMA WritesActive ==
  ASSUME TypeOK, ListsInv, TablesInv, CopyInv, ReserveCopyActive
  PROVE  /\ \A l \in Lists : l # wnew => table'[l] = table[l]
         /\ Len(table'[wnew]) = Len(table[wnew])
         /\ \A n \in 1 .. max[wnew] : table'[wnew][n] = IF n = num[wnew] + 1 THEN Copied ELSE table[wnew][n]
<1> DEFINE m == num[wnew] + 1
<1>1. wpc = "copy" /\ Copies /\ WritesTo(wnew, m, Copied)
  BY DEF ReserveCopyActive, WritesTo
<1>2. wnew \in Lists /\ Len(table[wnew]) = max[wnew] /\ m \in DOMAIN table[wnew]
  BY <1>1, CopyPlace
<1> HIDE DEF m
<1>3. /\ \A l \in Lists : l # wnew => table'[l] = table[l]
      /\ Len(table'[wnew]) = Len(table[wnew])
      /\ \A n \in 1 .. Len(table[wnew]) : table'[wnew][n] = IF n = m THEN Copied ELSE table[wnew][n]
  BY <1>1, <1>2, PutAt
<1> QED
  BY <1>2, <1>3 DEF m

LEMMA CopyStep ==
  ASSUME TypeOK, ListsInv, TablesInv, CopyInv, Next
  PROVE  CopyInv'
<1> USE DEF CopyInv
<1>1. ASSUME NEW f \in Fences, Signal(f)
      PROVE  CopyInv'
  BY <1>1 DEF Signal, listVars, memVars, writerVars, callVars, NumFences
<1>2. ASSUME Unlock
      PROVE  CopyInv'
  BY <1>2 DEF Unlock
<1>3. ASSUME NEW n \in 1 .. MaxReserve, ReserveEnough(n)
      PROVE  CopyInv'
  BY <1>3 DEF ReserveEnough
<1>4. ASSUME NEW n \in 1 .. MaxReserve, ReserveAlloc(n)
      PROVE  CopyInv'
  <2> DEFINE l == wnew + 1  m == NewMax(fences, n)
  <2>1. m \in Nat /\ m >= NumFences + n /\ NumFences \in Nat
    BY NewMaxFits
  <2>2. l \in Lists /\ l > wnew
    BY <1>4, ListNumber DEF ReserveAlloc, Lists
  <2>3. wpc' = "copy" /\ wi' = 1 /\ wk' = m /\ wnew' = l /\ slots' = n /\ UNCHANGED <<fences, num>>
    BY <1>4 DEF ReserveAlloc
  <2>4. max' = [max EXCEPT ![l] = m] /\ table' = [table EXCEPT ![l] = [j \in 1 .. m |-> NoEntry]]
    BY <1>4 DEF ReserveAlloc
  <2> HIDE DEF m
  <2>5. max'[l] = m /\ Len(table'[l]) = m
    BY <2>1, <2>2, <2>4 DEF TypeOK, ListType
  <2>6. num'[l] = 0
    BY <2>2, <2>3 DEF TablesInv
  <2>7. NumFences' = NumFences
    BY <2>3 DEF NumFences
  <2> HIDE DEF l
  <2> QED
    BY <2>1, <2>3, <2>5, <2>6, <2>7
<1>5. ASSUME ReserveCopySignaled
      PROVE  CopyInv'
  <2> DEFINE n == num[wnew]  m == max[wnew]
  <2>1. /\ wpc = "copy" /\ Copies /\ wpc' = "copy" /\ wi' = wi + 1 /\ wk' = wk - 1
        /\ UNCHANGED <<wnew, slots, fences, num, max>>
        /\ table' = [table EXCEPT ![wnew][wk] = [fence |-> Copied.fence, usage |-> 0]]
    BY <1>5 DEF ReserveCopySignaled
  <2>2. /\ wnew \in Lists /\ n \in Nat /\ m \in Nat /\ Len(table[wnew]) = m
        /\ wk \in DOMAIN table[wnew] /\ wk \in 1 .. m /\ n + 1 <= wk /\ NumFences \in Nat
    BY <2>1, CopyPlace
  <2>3. wi <= NumFences /\ NumFences' = NumFences /\ wi \in Nat /\ wk \in Nat /\ Copied.fence \in Fences
    BY <2>1, CopiedType DEF NumFences, None, Lists, TypeOK, WriterType
  <2>4. /\ Len(table'[wnew]) = m
        /\ \A j \in 1 .. m : table'[wnew][j] = IF j = wk THEN [fence |-> Copied.fence, usage |-> 0]
                                                ELSE table[wnew][j]
    BY <1>5, <2>2, WritesSignaled
  <2>5. n' = n /\ m' = m /\ wnew' = wnew
    BY <2>1
  <2>6. /\ wi >= 1 /\ n + (m - wk) = wi - 1 /\ wk <= m /\ NumFences + slots <= m
        /\ \A j \in 1 .. n : table[wnew][j].fence \in Fences
        /\ \A j \in wk + 1 .. m : table[wnew][j].fence \in Fences
    BY <2>1
  <2> HIDE DEF n, m
  <2>7. \A j \in 1 .. n : table'[wnew][j].fence \in Fences
    <3>1. \A j \in 1 .. n : j \in 1 .. m /\ j # wk
      BY <2>2
    <3> QED
      BY <3>1, <2>4, <2>6
  <2>8. \A j \in wk - 1 + 1 .. m : table'[wnew][j].fence \in Fences
    <3>1. \A j \in wk - 1 + 1 .. m : j \in 1 .. m /\ (j = wk \/ j \in wk + 1 .. m)
      BY <2>2, <2>3
    <3> QED
      BY <3>1, <2>3, <2>4, <2>6
  <2>9. n + (m - (wk - 1)) = wi + 1 - 1 /\ wk - 1 <= m /\ wi + 1 >= 1 /\ wi + 1 <= NumFences + 1
    <3>1. wi >= 1 /\ n + (m - wk) = wi - 1 /\ wk <= m
      BY <2>6
    <3>2. n \in Int /\ m \in Int /\ wk \in Int /\ wi \in Int /\ NumFences \in Int /\ wi <= NumFences
      BY <2>2, <2>3
    <3> HIDE DEF CopyInv
    <3>3. n + (m - (wk - 1)) = wi + 1 - 1
      BY <3>1, <3>2
    <3>4. wk - 1 <= m /\ wi + 1 >= 1 /\ wi + 1 <= NumFences + 1
      BY <3>1, <3>2
    <3> QED
      BY <3>3, <3>4
  <2>10. /\ m' = Len(table'[wnew']) /\ n' + (m' - wk') = wi' - 1 /\ wk' <= m' /\ NumFences' + slots' <= m'
         /\ wi' >= 1 /\ wi' <= NumFences' + 1
         /\ \A j \in 1 .. n' : table'[wnew'][j].fence \in Fences
         /\ \A j \in wk' + 1 .. m' : table'[wnew'][j].fence \in Fences
    BY <2>1, <2>3, <2>4, <2>5, <2>6, <2>7, <2>8, <2>9
  <2> QED
    BY <2>1, <2>10 DEF n, m
<1>6. ASSUME ReserveCopyActive
      PROVE  CopyInv'
  <2> DEFINE n == num[wnew]  m == max[wnew]
  <2>1. /\ wpc = "copy" /\ Copies /\ wpc' = "copy" /\ wi' = wi + 1
        /\ UNCHANGED <<wk, wnew, slots, fences, max>>
        /\ table' = [table EXCEPT ![wnew][num[wnew] + 1] = Copied]
        /\ num' = [num EXCEPT ![wnew] = @ + 1]
    BY <1>6 DEF ReserveCopyActive
  <2>2. /\ wnew \in Lists /\ n \in Nat /\ m \in Nat /\ Len(table[wnew]) = m /\ wnew # fences
        /\ n + 1 \in DOMAIN table[wnew] /\ n + 1 \in 1 .. m /\ n + 1 <= wk /\ NumFences \in Nat
    BY <2>1, CopyPlace
  <2>3. wi <= NumFences /\ NumFences' = NumFences /\ wi \in Nat /\ wk \in Nat /\ Copied.fence \in Fences
    BY <2>1, <2>2, CopiedType DEF NumFences, None, Lists, TypeOK, WriterType, ListType
  <2>4. /\ Len(table'[wnew]) = m
        /\ \A j \in 1 .. m : table'[wnew][j] = IF j = n + 1 THEN Copied ELSE table[wnew][j]
    BY <1>6, <2>2, WritesActive
  <2>5. n' = n + 1 /\ m' = m /\ wnew' = wnew
    BY <2>1, <2>2 DEF TypeOK, ListType
  <2>6. /\ wi >= 1 /\ n + (m - wk) = wi - 1 /\ wk <= m /\ NumFences + slots <= m
        /\ \A j \in 1 .. n : table[wnew][j].fence \in Fences
        /\ \A j \in wk + 1 .. m : table[wnew][j].fence \in Fences
    BY <2>1
  <2> HIDE DEF n, m
  <2>7. \A j \in 1 .. n + 1 : table'[wnew][j].fence \in Fences
    <3>1. \A j \in 1 .. n + 1 : j \in 1 .. m /\ (j = n + 1 \/ j \in 1 .. n)
      BY <2>2
    <3> QED
      BY <3>1, <2>3, <2>4, <2>6
  <2>8. \A j \in wk + 1 .. m : table'[wnew][j].fence \in Fences
    <3>1. \A j \in wk + 1 .. m : j \in 1 .. m /\ j # n + 1
      BY <2>2, <2>3
    <3> QED
      BY <3>1, <2>4, <2>6
  <2>9. n + 1 + (m - wk) = wi + 1 - 1 /\ wi + 1 >= 1 /\ wi + 1 <= NumFences + 1
    BY <2>2, <2>3, <2>6
  <2>10. /\ m' = Len(table'[wnew']) /\ n' + (m' - wk') = wi' - 1 /\ wk' <= m' /\ NumFences' + slots' <= m'
         /\ wi' >= 1 /\ wi' <= NumFences' + 1
         /\ \A j \in 1 .. n' : table'[wnew'][j].fence \in Fences
         /\ \A j \in wk' + 1 .. m' : table'[wnew'][j].fence \in Fences
    BY <2>1, <2>3, <2>4, <2>5, <2>6, <2>7, <2>8, <2>9
  <2> QED
    BY <2>1, <2>10 DEF n, m
<1>7. ASSUME ReserveFirst
      PROVE  CopyInv'
  BY <1>7 DEF ReserveFirst, CallEnds
<1>8. ASSUME ReservePublish
      PROVE  CopyInv'
  <2> DEFINE n == num[wnew]  m == max[wnew]
  <2>1. /\ wpc = "copy" /\ wold # None /\ ~Copies /\ wpc' = "drop" /\ wi' = wk + 1
        /\ UNCHANGED <<wnew, num, max, table>>
    BY <1>8 DEF ReservePublish, memVars
  <2>2. n \in Nat /\ m \in Nat /\ wi \in Nat /\ wk \in Nat /\ slots \in Nat /\ Len(table[wnew]) = m
        /\ NumFences \in Nat
    BY <2>1, CopyPlace DEF TypeOK, WriterType
  <2>3. /\ wi >= 1 /\ wi <= NumFences + 1 /\ n + (m - wk) = wi - 1 /\ wk <= m /\ NumFences + slots <= m
        /\ \A j \in wk + 1 .. m : table[wnew][j].fence \in Fences
    BY <2>1
  <2>4. n' = n /\ m' = m
    BY <2>1
  <2> HIDE DEF n, m
  <2>5. wk + 1 >= 1 /\ wk + 1 > n /\ wk + 1 <= m + 1
    BY <2>2, <2>3
  <2>6. /\ m' = Len(table'[wnew']) /\ wi' >= 1 /\ wi' > n' /\ wi' <= m' + 1
        /\ \A j \in wi' .. m' : table'[wnew'][j].fence \in Fences
    BY <2>1, <2>2, <2>3, <2>4, <2>5
  <2> QED
    BY <2>1, <2>6 DEF n, m
<1>9. ASSUME ReserveDrop
      PROVE  CopyInv'
  <2> DEFINE n == num[wnew]  m == max[wnew]
  <2>1. /\ wpc = "drop" /\ wi <= m /\ wpc' = "drop" /\ wi' = wi + 1 /\ UNCHANGED <<wnew, num, max, table>>
    BY <1>9 DEF ReserveDrop, listVars
  <2>2. n \in Nat /\ m \in Nat /\ wi \in Nat
    <3>1. wnew \in Lists
      BY <2>1, ListNumber DEF ListsInv, TypeOK, WriterType, MaybeList, Lists, None
    <3> QED
      BY <3>1 DEF TypeOK, ListType, WriterType
  <2>3. /\ m = Len(table[wnew]) /\ wi >= 1 /\ wi > n
        /\ \A j \in wi .. m : table[wnew][j].fence \in Fences
    BY <2>1
  <2>4. n' = n /\ m' = m
    BY <2>1
  <2> HIDE DEF n, m
  <2>5. wi + 1 >= 1 /\ wi + 1 > n /\ wi + 1 <= m + 1 /\ wi + 1 .. m \subseteq wi .. m
    BY <2>1, <2>2, <2>3
  <2>6. /\ m' = Len(table'[wnew']) /\ wi' >= 1 /\ wi' > n' /\ wi' <= m' + 1
        /\ \A j \in wi' .. m' : table'[wnew'][j].fence \in Fences
    BY <2>1, <2>3, <2>4, <2>5
  <2> QED
    BY <2>1, <2>6 DEF n, m
<1>10. ASSUME ReserveFree
      PROVE  CopyInv'
  BY <1>10 DEF ReserveFree, CallEnds
<1>11. ASSUME NEW f \in Fences, NEW u \in Usages, AddFence(f, u)
      PROVE  CopyInv'
  BY <1>11 DEF AddFence
<1>12. ASSUME AddScan
      PROVE  CopyInv'
  BY <1>12 DEF AddScan
<1>13. ASSUME AddReplace
      PROVE  CopyInv'
  BY <1>13 DEF AddReplace
<1>14. ASSUME AddPut
      PROVE  CopyInv'
  BY <1>14 DEF AddPut, CallEnds
<1>15. ASSUME AddSet
      PROVE  CopyInv'
  BY <1>15 DEF AddSet
<1>16. ASSUME AddCount
      PROVE  CopyInv'
  BY <1>16 DEF AddCount, CallEnds
<1>17. ASSUME NEW c \in Contexts, NEW f \in Fences, NEW u \in Usages, ReplaceFences(c, f, u)
      PROVE  CopyInv'
  BY <1>17 DEF ReplaceFences
<1>18. ASSUME ReplaceSkip
      PROVE  CopyInv'
  BY <1>18 DEF ReplaceSkip
<1>19. ASSUME ReplaceSet
      PROVE  CopyInv'
  BY <1>19 DEF ReplaceSet
<1>20. ASSUME ReplacePut
      PROVE  CopyInv'
  BY <1>20 DEF ReplacePut
<1>21. ASSUME ReplaceDone
      PROVE  CopyInv'
  BY <1>21 DEF ReplaceDone, CallEnds
<1>22. ASSUME Fini
      PROVE  CopyInv'
  BY <1>22 DEF Fini
<1>23. ASSUME FiniPut
      PROVE  CopyInv'
  BY <1>23 DEF FiniPut
<1>24. ASSUME FiniFree
      PROVE  CopyInv'
  BY <1>24 DEF FiniFree
<1>25. ASSUME ReaderStep
       PROVE  CopyInv'
  BY <1>25, ReadersAreQuiet DEF Quiet, NumFences, CopyInv
<1> QED
  BY <1>1, <1>2, <1>3, <1>4, <1>5, <1>6, <1>7, <1>8, <1>9, <1>10, <1>11, <1>12, <1>13, <1>14, <1>15, <1>16, <1>17, <1>18, <1>19, <1>20, <1>21, <1>22, <1>23, <1>24, <1>25 DEF Next, WriterStep, WriterGoesOn, ReaderStep

LEMMA SlotsStep ==
  ASSUME TypeOK, ListsInv, TablesInv, CopyInv, SlotsInv, Next
  PROVE  SlotsInv'
<1>0. /\ fences \in Nat /\ slots \in Nat /\ (fences # None => fences \in Lists)
      /\ \A l \in Lists : num[l] \in Nat /\ max[l] \in Nat
  <2>1. \A l \in Lists : num[l] \in Nat /\ max[l] \in Nat
    BY DEF TypeOK, ListType
  <2> QED
    BY <2>1, ListNumber DEF TypeOK, WriterType
<1> USE <1>0 DEF SlotsInv
<1>1. ASSUME NEW f \in Fences, Signal(f)
      PROVE  SlotsInv'
  BY <1>1 DEF Signal, listVars, memVars, writerVars, callVars
<1>2. ASSUME Unlock
      PROVE  SlotsInv'
  BY <1>2 DEF Unlock
<1>3. ASSUME NEW n \in 1 .. MaxReserve, ReserveEnough(n)
      PROVE  SlotsInv'
  <2>1. fences # None /\ num[fences] + n <= max[fences] /\ slots' = n /\ wpc' = "locked"
        /\ UNCHANGED <<fences, num, max>>
    BY <1>3 DEF ReserveEnough, HasSpace, listVars
  <2> QED
    BY <2>1
<1>4. ASSUME NEW n \in 1 .. MaxReserve, ReserveAlloc(n)
      PROVE  SlotsInv'
  BY <1>4 DEF ReserveAlloc
<1>5. ASSUME ReserveCopySignaled
      PROVE  SlotsInv'
  BY <1>5 DEF ReserveCopySignaled
<1>6. ASSUME ReserveCopyActive
      PROVE  SlotsInv'
  BY <1>6 DEF ReserveCopyActive
<1>7. ASSUME ReserveFirst
      PROVE  SlotsInv'
  <2> DEFINE n == num[wnew]  m == max[wnew]
  <2>1. /\ wpc = "copy" /\ fences' = wnew /\ wpc' \notin {"copy", "add", "addcount"}
        /\ UNCHANGED <<slots, num, max>>
    BY <1>7 DEF ReserveFirst, CallEnds, memVars
  <2>2. n \in Nat /\ m \in Nat /\ wi \in Nat /\ wk \in Nat /\ slots \in Nat /\ wnew # None
        /\ NumFences \in Nat
    BY <2>1, CopyPlace DEF TypeOK, WriterType, Lists, None
  <2>3. wi <= NumFences + 1 /\ n + (m - wk) = wi - 1 /\ wk <= m /\ NumFences + slots <= m
    BY <2>1 DEF CopyInv
  <2> HIDE DEF n, m
  <2>4. n + slots <= m
    BY <2>2, <2>3
  <2> QED
    BY <2>1, <2>2, <2>4 DEF n, m
<1>8. ASSUME ReservePublish
      PROVE  SlotsInv'
  <2> DEFINE n == num[wnew]  m == max[wnew]
  <2>1. /\ wpc = "copy" /\ fences' = wnew /\ wpc' \notin {"copy", "add", "addcount"}
        /\ UNCHANGED <<slots, num, max>>
    BY <1>8 DEF ReservePublish, memVars
  <2>2. n \in Nat /\ m \in Nat /\ wi \in Nat /\ wk \in Nat /\ slots \in Nat /\ wnew # None
        /\ NumFences \in Nat
    BY <2>1, CopyPlace DEF TypeOK, WriterType, Lists, None
  <2>3. wi <= NumFences + 1 /\ n + (m - wk) = wi - 1 /\ wk <= m /\ NumFences + slots <= m
    BY <2>1 DEF CopyInv
  <2> HIDE DEF n, m
  <2>4. n + slots <= m
    BY <2>2, <2>3
  <2> QED
    BY <2>1, <2>2, <2>4 DEF n, m
<1>9. ASSUME ReserveDrop
      PROVE  SlotsInv'
  BY <1>9 DEF ReserveDrop, listVars, memVars, writerVars, callVars
<1>10. ASSUME ReserveFree
      PROVE  SlotsInv'
  BY <1>10 DEF ReserveFree, CallEnds, listVars, memVars, writerVars, callVars
<1>11. ASSUME NEW f \in Fences, NEW u \in Usages, AddFence(f, u)
      PROVE  SlotsInv'
  <2>1. /\ wpc = "locked" /\ slots > 0 /\ slots' = slots - 1 /\ wpc' = "add"
        /\ UNCHANGED <<fences, num, max>>
    BY <1>11 DEF AddFence, listVars
  <2>2. fences # None /\ num[fences] + slots <= max[fences]
    BY <2>1
  <2> DEFINE n == num[fences]  m == max[fences]
  <2>3. n \in Nat /\ m \in Nat /\ n + slots <= m /\ n' = n /\ m' = m
    BY <2>1, <2>2
  <2> HIDE DEF n, m
  <2>4. fences' # None /\ n' + slots' + 1 <= m' /\ n' + slots' <= m'
    BY <2>1, <2>2, <2>3
  <2> QED
    BY <2>1, <2>4 DEF n, m
<1>12. ASSUME AddScan
      PROVE  SlotsInv'
  BY <1>12 DEF AddScan, listVars, memVars, writerVars, callVars
<1>13. ASSUME AddReplace
      PROVE  SlotsInv'
  BY <1>13 DEF AddReplace, listVars, memVars, writerVars, callVars
<1>14. ASSUME AddPut
      PROVE  SlotsInv'
  BY <1>14 DEF AddPut, CallEnds, listVars, memVars, writerVars, callVars
<1>15. ASSUME AddSet
      PROVE  SlotsInv'
  BY <1>15 DEF AddSet, listVars, memVars, writerVars, callVars
<1>16. ASSUME AddCount
      PROVE  SlotsInv'
  <2>1. /\ wpc = "addcount" /\ wpc' = "locked" /\ num' = [num EXCEPT ![fences] = @ + 1]
        /\ UNCHANGED <<slots, fences, max>> /\ fences # None
    BY <1>16 DEF AddCount, CallEnds, ListsInv
  <2>2. num'[fences] = num[fences] + 1
    BY <2>1 DEF TypeOK, ListType
  <2>3. num[fences] + slots + 1 <= max[fences]
    BY <2>1
  <2> DEFINE n == num[fences]  m == max[fences]
  <2>4. n \in Nat /\ m \in Nat /\ n + slots + 1 <= m /\ n' = n + 1 /\ m' = m
    BY <2>1, <2>2, <2>3
  <2> HIDE DEF n, m
  <2>5. n' + slots' <= m'
    BY <2>1, <2>4
  <2> QED
    BY <2>1, <2>5 DEF n, m
<1>17. ASSUME NEW c \in Contexts, NEW f \in Fences, NEW u \in Usages, ReplaceFences(c, f, u)
      PROVE  SlotsInv'
  BY <1>17 DEF ReplaceFences, listVars, memVars, writerVars, callVars
<1>18. ASSUME ReplaceSkip
      PROVE  SlotsInv'
  BY <1>18 DEF ReplaceSkip, listVars, memVars, writerVars, callVars
<1>19. ASSUME ReplaceSet
      PROVE  SlotsInv'
  BY <1>19 DEF ReplaceSet, listVars, memVars, writerVars, callVars
<1>20. ASSUME ReplacePut
      PROVE  SlotsInv'
  BY <1>20 DEF ReplacePut, listVars, memVars, writerVars, callVars
<1>21. ASSUME ReplaceDone
      PROVE  SlotsInv'
  BY <1>21 DEF ReplaceDone, CallEnds, listVars, memVars, writerVars, callVars
<1>22. ASSUME Fini
      PROVE  SlotsInv'
  BY <1>22 DEF Fini, listVars, memVars, writerVars, callVars
<1>23. ASSUME FiniPut
      PROVE  SlotsInv'
  BY <1>23 DEF FiniPut, listVars, memVars, writerVars, callVars
<1>24. ASSUME FiniFree
      PROVE  SlotsInv'
  BY <1>24 DEF FiniFree, listVars, memVars, writerVars, callVars
<1>25. ASSUME ReaderStep
       PROVE  SlotsInv'
  BY <1>25, ReadersAreQuiet DEF Quiet, SlotsInv
<1> QED
  BY <1>1, <1>2, <1>3, <1>4, <1>5, <1>6, <1>7, <1>8, <1>9, <1>10, <1>11, <1>12, <1>13, <1>14, <1>15, <1>16, <1>17, <1>18, <1>19, <1>20, <1>21, <1>22, <1>23, <1>24, <1>25 DEF Next, WriterStep, WriterGoesOn, ReaderStep

LEMMA ArgsStep ==
  ASSUME TypeOK, ListsInv, TablesInv, SlotsInv, ArgsInv, Next
  PROVE  ArgsInv'
<1>0. /\ fences \in Nat /\ wi \in Nat /\ (fences # None => fences \in Lists)
      /\ \A l \in Lists : num[l] \in Nat
  <2>1. \A l \in Lists : num[l] \in Nat
    BY DEF TypeOK, ListType
  <2> QED
    BY <2>1, ListNumber DEF TypeOK, WriterType
<1> USE <1>0 DEF ArgsInv
<1>1. ASSUME NEW f \in Fences, Signal(f)
      PROVE  ArgsInv'
  BY <1>1 DEF Signal, listVars, memVars, argVars, callVars, writerVars, fenceVars
<1>2. ASSUME Unlock
      PROVE  ArgsInv'
  BY <1>2 DEF Unlock, callVars, argVars, fenceVars
<1>3. ASSUME NEW n \in 1 .. MaxReserve, ReserveEnough(n)
      PROVE  ArgsInv'
  BY <1>3 DEF ReserveEnough, listVars, memVars, argVars, callVars, writerVars, fenceVars
<1>4. ASSUME NEW n \in 1 .. MaxReserve, ReserveAlloc(n)
      PROVE  ArgsInv'
  BY <1>4 DEF ReserveAlloc, listVars, memVars, argVars, callVars, writerVars, fenceVars
<1>5. ASSUME ReserveCopySignaled
      PROVE  ArgsInv'
  BY <1>5 DEF ReserveCopySignaled, listVars, memVars, argVars, callVars, writerVars, fenceVars
<1>6. ASSUME ReserveCopyActive
      PROVE  ArgsInv'
  BY <1>6 DEF ReserveCopyActive, listVars, memVars, argVars, callVars, writerVars, fenceVars
<1>7. ASSUME ReserveFirst
      PROVE  ArgsInv'
  BY <1>7 DEF ReserveFirst, CallEnds, None
<1>8. ASSUME ReservePublish
      PROVE  ArgsInv'
  BY <1>8 DEF ReservePublish, listVars, memVars, argVars, callVars, writerVars, fenceVars
<1>9. ASSUME ReserveDrop
      PROVE  ArgsInv'
  BY <1>9 DEF ReserveDrop, listVars, memVars, argVars, callVars, writerVars, fenceVars
<1>10. ASSUME ReserveFree
      PROVE  ArgsInv'
  BY <1>10 DEF ReserveFree, CallEnds, listVars, memVars, argVars, callVars, writerVars, fenceVars
<1>11. ASSUME NEW f \in Fences, NEW u \in Usages, AddFence(f, u)
      PROVE  ArgsInv'
  BY <1>11, ListNumber DEF AddFence, SlotsInv, None, listVars
<1>12. ASSUME AddScan
      PROVE  ArgsInv'
  <2>1. fences \in Lists /\ wpc = "add"
    BY <1>12 DEF AddScan, ListsInv
  <2>2. wi >= 1 /\ wi <= num[fences] /\ num[fences] \in Nat
    BY <1>12, <2>1 DEF AddScan
  <2>3. UNCHANGED <<fences, num, sig, wfence>> /\ wi' = wi + 1 /\ wpc' \in {"add", "repl", "fini"} /\ wput' = None
        /\ (wpc' = "add" => wpc = "add") /\ (wpc' = "repl" => wpc \in {"repl", "replput"})
    BY <1>12 DEF AddScan, listVars, memVars, argVars, callVars, writerVars, fenceVars
  <2>4. wi' >= 1 /\ wi' <= num'[fences'] + 1
    BY <2>2, <2>3
  <2> QED
    BY <2>1, <2>3, <2>4
<1>13. ASSUME AddReplace
      PROVE  ArgsInv'
  BY <1>13, OldType DEF AddReplace, PutOld, argVars
<1>14. ASSUME AddPut
      PROVE  ArgsInv'
  BY <1>14 DEF AddPut, CallEnds
<1>15. ASSUME AddSet
      PROVE  ArgsInv'
  <2>1. /\ wpc = "add" /\ wi > num[fences] /\ wpc' = "addcount" /\ WritesTo(fences, wi, New)
        /\ UNCHANGED <<wi, wfence, wput, fences, num, sig>>
    BY <1>15 DEF AddSet, callVars, argVars, fenceVars, WritesTo
  <2>2. fences \in Lists /\ wi = num[fences] + 1 /\ num[fences] + slots + 1 <= max[fences] /\ slots \in Nat
        /\ max[fences] <= Len(table[fences]) /\ max[fences] \in Nat /\ fences \in Nat
    BY <2>1 DEF ListsInv, SlotsInv, TablesInv, TypeOK, WriterType, ListType
  <2>3. Len(table[fences]) \in Nat /\ DOMAIN table[fences] = 1 .. Len(table[fences])
    BY <2>2 DEF TypeOK, ListType
  <2>4. wi \in DOMAIN table[fences] /\ wi \in 1 .. Len(table[fences])
    BY SMTT(60), <2>2, <2>3
  <2>5. table'[fences][wi] = New
    BY <2>1, <2>2, <2>4, WritesNew
  <2> QED
    BY <2>1, <2>2, <2>5 DEF New
<1>16. ASSUME AddCount
      PROVE  ArgsInv'
  BY <1>16 DEF AddCount, CallEnds
<1>17. ASSUME NEW c \in Contexts, NEW f \in Fences, NEW u \in Usages, ReplaceFences(c, f, u)
      PROVE  ArgsInv'
  BY <1>17, ListNumber DEF ReplaceFences, None, fenceVars, listVars
<1>18. ASSUME ReplaceSkip
      PROVE  ArgsInv'
  <2>1. fences \in Lists /\ wpc = "repl"
    BY <1>18 DEF ReplaceSkip, ListsInv
  <2>2. wi >= 1 /\ wi <= num[fences] /\ num[fences] \in Nat
    BY <1>18, <2>1 DEF ReplaceSkip
  <2>3. UNCHANGED <<fences, num, sig, wfence>> /\ wi' = wi + 1 /\ wpc' \in {"add", "repl", "fini"} /\ wput' = None
        /\ (wpc' = "add" => wpc = "add") /\ (wpc' = "repl" => wpc \in {"repl", "replput"})
    BY <1>18 DEF ReplaceSkip, listVars, memVars, argVars, callVars, writerVars, fenceVars
  <2>4. wi' >= 1 /\ wi' <= num'[fences'] + 1
    BY <2>2, <2>3
  <2> QED
    BY <2>1, <2>3, <2>4
<1>19. ASSUME ReplaceSet
      PROVE  ArgsInv'
  BY <1>19, OldType DEF ReplaceSet, argVars
<1>20. ASSUME ReplacePut
      PROVE  ArgsInv'
  <2>1. fences \in Lists /\ wpc = "replput"
    BY <1>20 DEF ReplacePut, ListsInv
  <2>2. wi >= 1 /\ wi <= num[fences] /\ num[fences] \in Nat
    BY <1>20, <2>1 DEF ReplacePut
  <2>3. UNCHANGED <<fences, num, sig, wfence>> /\ wi' = wi + 1 /\ wpc' \in {"add", "repl", "fini"} /\ wput' = None
        /\ (wpc' = "add" => wpc = "add") /\ (wpc' = "repl" => wpc \in {"repl", "replput"})
    BY <1>20 DEF ReplacePut, listVars, memVars, argVars, callVars, writerVars, fenceVars
  <2>4. wi' >= 1 /\ wi' <= num'[fences'] + 1
    BY <2>2, <2>3
  <2> QED
    BY <2>1, <2>3, <2>4
<1>21. ASSUME ReplaceDone
      PROVE  ArgsInv'
  BY <1>21 DEF ReplaceDone, CallEnds, listVars, memVars, argVars, callVars, writerVars, fenceVars
<1>22. ASSUME Fini
      PROVE  ArgsInv'
  <2>1. wpc = "locked" /\ wi' = 1 /\ wpc' \in {"dead", "fini"} /\ (wpc' = "fini" => fences # None)
        /\ UNCHANGED <<wput, fences, num>>
    BY <1>22 DEF Fini, listVars
  <2> QED
    BY <2>1
<1>23. ASSUME FiniPut
      PROVE  ArgsInv'
  <2>1. fences \in Lists /\ wpc = "fini"
    BY <1>23 DEF FiniPut, ListsInv
  <2>2. wi >= 1 /\ wi <= num[fences] /\ num[fences] \in Nat
    BY <1>23, <2>1 DEF FiniPut
  <2>3. UNCHANGED <<fences, num, sig, wfence>> /\ wi' = wi + 1 /\ wpc' \in {"add", "repl", "fini"} /\ wput' = None
        /\ (wpc' = "add" => wpc = "add") /\ (wpc' = "repl" => wpc \in {"repl", "replput"})
    BY <1>23 DEF FiniPut, listVars, memVars, argVars, callVars, writerVars, fenceVars
  <2>4. wi' >= 1 /\ wi' <= num'[fences'] + 1
    BY <2>2, <2>3
  <2> QED
    BY <2>1, <2>3, <2>4
<1>24. ASSUME FiniFree
      PROVE  ArgsInv'
  BY <1>24 DEF FiniFree, listVars, memVars, argVars, callVars, writerVars, fenceVars
<1>25. ASSUME ReaderStep
       PROVE  ArgsInv'
  BY <1>25, ReadersAreQuiet DEF Quiet, ArgsInv
<1> QED
  BY <1>1, <1>2, <1>3, <1>4, <1>5, <1>6, <1>7, <1>8, <1>9, <1>10, <1>11, <1>12, <1>13, <1>14, <1>15, <1>16, <1>17, <1>18, <1>19, <1>20, <1>21, <1>22, <1>23, <1>24, <1>25 DEF Next, WriterStep, WriterGoesOn, ReaderStep

\* What the steps of a reader do, by the kind of step
Others(r) ==
  \A q \in Readers : q # r =>
    /\ pc'[q] = pc[q] /\ op'[q] = op[q] /\ cursor'[q] = cursor[q] /\ cand'[q] = cand[q]
    /\ got'[q] = got[q] /\ room'[q] = room[q] /\ owed'[q] = owed[q]

CursorIs(r, u, f, n, l, m, a) ==
  /\ cursor'[r].usage = u /\ cursor'[r].fence = f /\ cursor'[r].index = n
  /\ cursor'[r].fences = l /\ cursor'[r].num = m /\ cursor'[r].restarted = a

SameCall(r)   == op'[r] = op[r] /\ owed'[r] = owed[r]
SameEntry(r)  == cand'[r] = cand[r]
SameResult(r) == got'[r] = got[r] /\ room'[r] = room[r]
SameRefs      == ref' = ref /\ grace' = grace
SameLists     == lgrace' = lgrace

Starts(r, o, u) ==
  /\ pc[r] = "idle" /\ wpc \notin {"fini", "dead"} /\ pc'[r] = "restart"
  /\ op'[r] = o /\ CursorIs(r, u, None, 0, None, 0, 0)
  /\ SameEntry(r) /\ SameResult(r) /\ SameRefs /\ SameLists
  /\ owed'[r] = {{f} : f \in Visible(u) \ sig}

BeginsWalk(r) ==
  /\ pc[r] \in {"restart", "get", "check", "next"} /\ pc'[r] = Walk(fences)
  /\ pc[r] = "check" => fences # cursor[r].fences
  /\ pc[r] = "get" => ref[cand[r].fence] = 0
  /\ CursorIs(r, cursor[r].usage, cursor[r].fence, 0, fences, NumFences, 1)
  /\ SameCall(r) /\ SameEntry(r) /\ SameResult(r) /\ SameRefs /\ SameLists

EndsWalk(r) ==
  /\ pc[r] = "walk" /\ cursor[r].index >= cursor[r].num /\ pc'[r] = "check"
  /\ CursorIs(r, cursor[r].usage, None, cursor[r].index, cursor[r].fences, cursor[r].num,
              cursor[r].restarted)
  /\ SameCall(r) /\ SameEntry(r) /\ SameResult(r) /\ SameLists /\ Put(cursor[r].fence)

Reads(r) ==
  /\ pc[r] = "walk" /\ cursor[r].index < cursor[r].num /\ pc'[r] = "get"
  /\ CursorIs(r, cursor[r].usage, None, cursor[r].index + 1, cursor[r].fences, cursor[r].num,
              cursor[r].restarted)
  /\ cand'[r] = table[cursor[r].fences][cursor[r].index + 1]
  /\ SameCall(r) /\ SameResult(r) /\ SameLists /\ Put(cursor[r].fence)

Gets(r) ==
  /\ pc[r] = "get" /\ ref[cand[r].fence] > 0 /\ pc'[r] = "test"
  /\ CursorIs(r, cursor[r].usage, cand[r].fence, cursor[r].index, cursor[r].fences, cursor[r].num,
              cursor[r].restarted)
  /\ SameCall(r) /\ SameEntry(r) /\ SameResult(r) /\ SameLists
  /\ ref' = [ref EXCEPT ![cand[r].fence] = @ + 1] /\ grace' = grace

SameCursorOf(r) ==
  CursorIs(r, cursor[r].usage, cursor[r].fence, cursor[r].index, cursor[r].fences, cursor[r].num,
           cursor[r].restarted)

Tests(r) ==
  /\ pc[r] = "test" /\ pc'[r] \in {"check", "walk"}
  /\ pc'[r] = "check" <=> cursor[r].fence \notin sig /\ cursor[r].usage >= cand[r].usage
  /\ SameCursorOf(r) /\ SameCall(r) /\ SameEntry(r) /\ SameResult(r) /\ SameRefs /\ SameLists

Returns(r) ==
  /\ pc[r] = "check" /\ fences = cursor[r].fences
  /\ pc'[r] = IF cursor[r].fence = None THEN "done" ELSE "body"
  /\ SameCursorOf(r) /\ SameCall(r) /\ SameEntry(r) /\ SameResult(r) /\ ref' = ref /\ RcuUnlock(r)

GoesOn(r) ==
  /\ pc[r] = "next" /\ fences = cursor[r].fences /\ pc'[r] = Walk(cursor[r].fences)
  /\ CursorIs(r, cursor[r].usage, cursor[r].fence, cursor[r].index, cursor[r].fences,
              cursor[r].num, 0)
  /\ SameCall(r) /\ SameEntry(r) /\ SameResult(r) /\ SameRefs /\ SameLists

HasWaited(r) ==
  /\ pc[r] = "body" /\ op[r] = "wait" /\ cursor[r].fence \in sig /\ pc'[r] = "next"
  /\ SameCursorOf(r) /\ SameCall(r) /\ SameEntry(r) /\ SameResult(r) /\ SameRefs /\ SameLists

Stops(r) ==
  /\ pc[r] \in {"body", "done"} /\ got[r] = <<>> /\ pc'[r] = "idle" /\ op'[r] = "none"
  /\ CursorIs(r, 0, None, 0, None, 0, 0) /\ cand'[r] = NoEntry
  /\ got'[r] = got[r] /\ room'[r] = 0 /\ owed'[r] = {} /\ SameLists /\ Put(cursor[r].fence)

Drops(r) ==
  /\ pc[r] \in {"body", "done"} /\ got[r] # <<>> /\ pc'[r] = pc[r] /\ op'[r] = op[r]
  /\ pc[r] = "body" => cursor[r].restarted = 1
  /\ owed'[r] = (IF pc[r] = "done" THEN {} ELSE owed[r])
  /\ SameCursorOf(r) /\ SameEntry(r) /\ room'[r] = room[r] /\ SameLists
  /\ Put(got[r][Len(got[r])]) /\ got'[r] = SubSeq(got[r], 1, Len(got[r]) - 1)

Keeps(r) ==
  /\ pc[r] = "body" /\ op[r] \in {"get", "copy"} /\ pc'[r] = "next"
  /\ cursor[r].restarted = 1 => got[r] = <<>>
  /\ room'[r] = (IF cursor[r].restarted = 1 THEN Room(r) ELSE room[r])
  /\ got'[r] = Append(got[r], cursor[r].fence)
  /\ SameCursorOf(r) /\ SameCall(r) /\ SameEntry(r) /\ SameLists
  /\ ref' = [ref EXCEPT ![cursor[r].fence] = @ + 1] /\ grace' = grace

Does(r) ==
  \/ \E o \in ReaderOps, u \in 0 .. 3 : Starts(r, o, u)
  \/ BeginsWalk(r) \/ EndsWalk(r) \/ Reads(r) \/ Gets(r) \/ Tests(r) \/ Returns(r) \/ GoesOn(r)
  \/ HasWaited(r) \/ Stops(r) \/ Drops(r) \/ Keeps(r)

LEMMA ReaderDoes ==
  ASSUME TypeOK, CursorInv, RoomInv, ReaderStep
  PROVE  \E q \in Readers : Others(q) /\ Does(q)
<1>0. ReaderType /\ OwedType
  BY DEF TypeOK
<1> USE <1>0 DEF ReaderType, OwedType
<1>1. ASSUME NEW r \in Readers, NEW o \in ReaderOps, NEW u \in Usages \cup {Bookkeep}, Call(r, o, u)
      PROVE  \E q \in Readers : Others(q) /\ Does(q)
  <2>8. Others(r)
    BY <1>1 DEF Others, Call, Goto, readerVars
  <2>9. Starts(r, o, u) /\ u \in 0 .. 3
    BY <1>1, ResvAssumption DEF Starts, Call, Goto, SameCall, SameEntry, SameResult, SameRefs, SameLists, SameCursorOf, CursorIs, Cursor, readerVars, fenceVars, listVars, memVars, Bookkeep
  <2> QED
    BY <2>8, <2>9 DEF Does
<1>2. ASSUME NEW r \in Readers, Restart(r)
      PROVE  \E q \in Readers : Others(q) /\ Does(q)
  <2>8. Others(r)
    BY <1>2 DEF Others, Restart, Goto, Restarted, readerVars
  <2>9. BeginsWalk(r)
    BY <1>2 DEF BeginsWalk, Restart, Goto, Restarted, SameCall, SameEntry, SameResult, SameRefs, SameLists, SameCursorOf, CursorIs, Cursor, Restarted, WithFence, Moved, NextIndex, Exchanged, Walk, BeginsAgain, Idle, readerVars, fenceVars, listVars, memVars
  <2> QED
    BY <2>8, <2>9 DEF Does
<1>3. ASSUME NEW r \in Readers, WalkEnd(r)
      PROVE  \E q \in Readers : Others(q) /\ Does(q)
  <2>8. Others(r)
    BY <1>3 DEF Others, WalkEnd, Goto, WithFence, readerVars
  <2>9. EndsWalk(r)
    BY <1>3 DEF EndsWalk, WalkEnd, Goto, WithFence, SameCall, SameEntry, SameResult, SameRefs, SameLists, SameCursorOf, CursorIs, Cursor, Restarted, WithFence, Moved, NextIndex, Exchanged, Walk, BeginsAgain, Idle, readerVars, fenceVars, listVars, memVars
  <2> QED
    BY <2>8, <2>9 DEF Does
<1>4. ASSUME NEW r \in Readers, WalkEntry(r)
      PROVE  \E q \in Readers : Others(q) /\ Does(q)
  <2>8. Others(r)
    BY <1>4 DEF Others, WalkEntry, Goto, Moved, NextIndex, readerVars
  <2>9. Reads(r)
    BY <1>4 DEF Reads, WalkEntry, Goto, Moved, NextIndex, SameCall, SameEntry, SameResult, SameRefs, SameLists, SameCursorOf, CursorIs, Cursor, Restarted, WithFence, Moved, NextIndex, Exchanged, Walk, BeginsAgain, Idle, readerVars, fenceVars, listVars, memVars
  <2> QED
    BY <2>8, <2>9 DEF Does
<1>5. ASSUME NEW r \in Readers, WalkGet(r)
      PROVE  \E q \in Readers : Others(q) /\ Does(q)
  <2>8. Others(r)
    BY <1>5 DEF Others, WalkGet, Goto, WithFence, readerVars
  <2>9. Gets(r)
    BY <1>5 DEF Gets, WalkGet, Goto, WithFence, SameCall, SameEntry, SameResult, SameRefs, SameLists, SameCursorOf, CursorIs, Cursor, Restarted, WithFence, Moved, NextIndex, Exchanged, Walk, BeginsAgain, Idle, readerVars, fenceVars, listVars, memVars
  <2> QED
    BY <2>8, <2>9 DEF Does
<1>6. ASSUME NEW r \in Readers, WalkGetFails(r)
      PROVE  \E q \in Readers : Others(q) /\ Does(q)
  <2>1. fences # None
    BY <1>6, ListNumber DEF WalkGetFails, CursorInv, CursorOk, TypeOK, ReaderType, CursorType, MaybeList, None
  <2>8. Others(r)
    BY <1>6 DEF Others, WalkGetFails, Goto, Restarted, readerVars
  <2>9. BeginsWalk(r)
    BY <1>6, <2>1, IdleType DEF BeginsWalk, WalkGetFails, Goto, Restarted, SameCall, SameEntry, SameResult, SameRefs, SameLists, SameCursorOf, CursorIs, Cursor, Restarted, WithFence, Moved, NextIndex, Exchanged, Walk, BeginsAgain, Idle, readerVars, fenceVars, listVars, memVars
  <2> QED
    BY <2>8, <2>9 DEF Does
<1>7. ASSUME NEW r \in Readers, WalkTest(r)
      PROVE  \E q \in Readers : Others(q) /\ Does(q)
  <2>8. Others(r)
    BY <1>7 DEF Others, WalkTest, Goto, readerVars
  <2>9. Tests(r)
    BY <1>7 DEF Tests, WalkTest, Goto, SameCall, SameEntry, SameResult, SameRefs, SameLists, SameCursorOf, CursorIs, Cursor, Restarted, WithFence, Moved, NextIndex, Exchanged, Walk, BeginsAgain, Idle, readerVars, fenceVars, listVars, memVars
  <2> QED
    BY <2>8, <2>9 DEF Does
<1>8. ASSUME NEW r \in Readers, WalkAgain(r)
      PROVE  \E q \in Readers : Others(q) /\ Does(q)
  <2>8. Others(r)
    BY <1>8 DEF Others, WalkAgain, Goto, Restarted, Exchanged, readerVars
  <2>9. BeginsWalk(r)
    BY <1>8 DEF BeginsWalk, WalkAgain, Goto, Restarted, Exchanged, SameCall, SameEntry, SameResult, SameRefs, SameLists, SameCursorOf, CursorIs, Cursor, Restarted, WithFence, Moved, NextIndex, Exchanged, Walk, BeginsAgain, Idle, readerVars, fenceVars, listVars, memVars
  <2> QED
    BY <2>8, <2>9 DEF Does
<1>9. ASSUME NEW r \in Readers, WalkReturn(r)
      PROVE  \E q \in Readers : Others(q) /\ Does(q)
  <2>8. Others(r)
    BY <1>9 DEF Others, WalkReturn, Goto, Exchanged, readerVars
  <2>9. Returns(r)
    BY <1>9 DEF Returns, WalkReturn, Goto, Exchanged, SameCall, SameEntry, SameResult, SameRefs, SameLists, SameCursorOf, CursorIs, Cursor, Restarted, WithFence, Moved, NextIndex, Exchanged, Walk, BeginsAgain, Idle, readerVars, fenceVars, listVars, memVars
  <2> QED
    BY <2>8, <2>9 DEF Does
<1>10. ASSUME NEW r \in Readers, NextSame(r)
      PROVE  \E q \in Readers : Others(q) /\ Does(q)
  <2>8. Others(r)
    BY <1>10 DEF Others, NextSame, Goto, Exchanged, readerVars
  <2>9. GoesOn(r)
    BY <1>10 DEF GoesOn, NextSame, Goto, Exchanged, SameCall, SameEntry, SameResult, SameRefs, SameLists, SameCursorOf, CursorIs, Cursor, Restarted, WithFence, Moved, NextIndex, Exchanged, Walk, BeginsAgain, Idle, readerVars, fenceVars, listVars, memVars
  <2> QED
    BY <2>8, <2>9 DEF Does
<1>11. ASSUME NEW r \in Readers, NextRestart(r)
      PROVE  \E q \in Readers : Others(q) /\ Does(q)
  <2>8. Others(r)
    BY <1>11 DEF Others, NextRestart, Goto, Restarted, Exchanged, readerVars
  <2>9. BeginsWalk(r)
    BY <1>11 DEF BeginsWalk, NextRestart, Goto, Restarted, Exchanged, SameCall, SameEntry, SameResult, SameRefs, SameLists, SameCursorOf, CursorIs, Cursor, Restarted, WithFence, Moved, NextIndex, Exchanged, Walk, BeginsAgain, Idle, readerVars, fenceVars, listVars, memVars
  <2> QED
    BY <2>8, <2>9 DEF Does
<1>12. ASSUME NEW r \in Readers, TestFails(r)
      PROVE  \E q \in Readers : Others(q) /\ Does(q)
  <2>1. got[r] = <<>> /\ pc[r] \in {"body", "done"}
    BY <1>12 DEF TestFails, IterEnd, Goto, RoomInv, RoomOk
  <2>8. Others(r)
    BY <1>12 DEF Others, TestFails, IterEnd, Goto, readerVars
  <2>9. Stops(r)
    BY <1>12, <2>1, IdleType DEF Stops, TestFails, IterEnd, Goto, SameCall, SameEntry, SameResult, SameRefs, SameLists, SameCursorOf, CursorIs, Cursor, Restarted, WithFence, Moved, NextIndex, Exchanged, Walk, BeginsAgain, Idle, readerVars, fenceVars, listVars, memVars
  <2> QED
    BY <2>8, <2>9 DEF Does
<1>13. ASSUME NEW r \in Readers, Waited(r)
      PROVE  \E q \in Readers : Others(q) /\ Does(q)
  <2>8. Others(r)
    BY <1>13 DEF Others, Waited, Goto, readerVars
  <2>9. HasWaited(r)
    BY <1>13 DEF HasWaited, Waited, Goto, SameCall, SameEntry, SameResult, SameRefs, SameLists, SameCursorOf, CursorIs, Cursor, Restarted, WithFence, Moved, NextIndex, Exchanged, Walk, BeginsAgain, Idle, readerVars, fenceVars, listVars, memVars
  <2> QED
    BY <2>8, <2>9 DEF Does
<1>14. ASSUME NEW r \in Readers, WaitFails(r)
      PROVE  \E q \in Readers : Others(q) /\ Does(q)
  <2>1. got[r] = <<>> /\ pc[r] \in {"body", "done"}
    BY <1>14 DEF WaitFails, IterEnd, Goto, RoomInv, RoomOk
  <2>8. Others(r)
    BY <1>14 DEF Others, WaitFails, IterEnd, Goto, readerVars
  <2>9. Stops(r)
    BY <1>14, <2>1, IdleType DEF Stops, WaitFails, IterEnd, Goto, SameCall, SameEntry, SameResult, SameRefs, SameLists, SameCursorOf, CursorIs, Cursor, Restarted, WithFence, Moved, NextIndex, Exchanged, Walk, BeginsAgain, Idle, readerVars, fenceVars, listVars, memVars
  <2> QED
    BY <2>8, <2>9 DEF Does
<1>15. ASSUME NEW r \in Readers, CollectDrop(r)
      PROVE  \E q \in Readers : Others(q) /\ Does(q)
  <2>8. Others(r)
    BY <1>15 DEF Others, CollectDrop, Collects, BeginsAgain, PutLast, readerVars
  <2>9. Drops(r)
    BY <1>15 DEF Drops, CollectDrop, Collects, BeginsAgain, PutLast, SameCall, SameEntry, SameResult, SameRefs, SameLists, SameCursorOf, CursorIs, Cursor, Restarted, WithFence, Moved, NextIndex, Exchanged, Walk, BeginsAgain, Idle, readerVars, fenceVars, listVars, memVars
  <2> QED
    BY <2>8, <2>9 DEF Does
<1>16. ASSUME NEW r \in Readers, CollectFails(r)
      PROVE  \E q \in Readers : Others(q) /\ Does(q)
  <2>1. got[r] = <<>> /\ pc[r] \in {"body", "done"}
    BY <1>16 DEF CollectFails, Collects, BeginsAgain, IterEnd, Goto, RoomInv, RoomOk
  <2>8. Others(r)
    BY <1>16 DEF Others, CollectFails, Collects, BeginsAgain, IterEnd, Goto, readerVars
  <2>9. Stops(r)
    BY <1>16, <2>1, IdleType DEF Stops, CollectFails, Collects, BeginsAgain, IterEnd, Goto, SameCall, SameEntry, SameResult, SameRefs, SameLists, SameCursorOf, CursorIs, Cursor, Restarted, WithFence, Moved, NextIndex, Exchanged, Walk, BeginsAgain, Idle, readerVars, fenceVars, listVars, memVars
  <2> QED
    BY <2>8, <2>9 DEF Does
<1>17. ASSUME NEW r \in Readers, Collect(r)
      PROVE  \E q \in Readers : Others(q) /\ Does(q)
  <2>8. Others(r)
    BY <1>17 DEF Others, Collect, Collects, BeginsAgain, Goto, readerVars
  <2>9. Keeps(r)
    BY <1>17 DEF Keeps, Collect, Collects, BeginsAgain, Goto, SameCall, SameEntry, SameResult, SameRefs, SameLists, SameCursorOf, CursorIs, Cursor, Restarted, WithFence, Moved, NextIndex, Exchanged, Walk, BeginsAgain, Idle, readerVars, fenceVars, listVars, memVars
  <2> QED
    BY <2>8, <2>9 DEF Does
<1>18. ASSUME NEW r \in Readers, Release(r)
      PROVE  \E q \in Readers : Others(q) /\ Does(q)
  <2>8. Others(r)
    BY <1>18 DEF Others, Release, PutLast, readerVars
  <2>9. Drops(r)
    BY <1>18 DEF Drops, Release, PutLast, SameCall, SameEntry, SameResult, SameRefs, SameLists, SameCursorOf, CursorIs, Cursor, Restarted, WithFence, Moved, NextIndex, Exchanged, Walk, BeginsAgain, Idle, readerVars, fenceVars, listVars, memVars
  <2> QED
    BY <2>8, <2>9 DEF Does
<1>19. ASSUME NEW r \in Readers, Return(r)
      PROVE  \E q \in Readers : Others(q) /\ Does(q)
  <2>1. got[r] = <<>> /\ pc[r] \in {"body", "done"}
    BY <1>19 DEF Return, Goto, RoomInv, RoomOk
  <2>2. Put(cursor[r].fence)
    <3>1. cursor[r].fence = None /\ None \notin Fences
      BY <1>19, ResvAssumption DEF Return, CursorInv, CursorOk, None
    <3>2. ref = [g \in Fences |-> ref[g]] /\ grace = [g \in Fences |-> grace[g]]
      BY DEF TypeOK, FenceType
    <3>3. ref' = ref /\ grace' = grace
      BY <1>19 DEF Return, fenceVars
    <3> QED
      BY <3>1, <3>2, <3>3 DEF Put
  <2>8. Others(r)
    BY <1>19 DEF Others, Return, Goto, readerVars
  <2>9. Stops(r)
    BY <1>19, <2>1, IdleType, <2>2 DEF Stops, Return, Goto, SameCall, SameEntry, SameResult, SameRefs, SameLists, SameCursorOf, CursorIs, Cursor, Restarted, WithFence, Moved, NextIndex, Exchanged, Walk, BeginsAgain, Idle, readerVars, fenceVars, listVars, memVars
  <2> QED
    BY <2>8, <2>9 DEF Does
<1> QED
  BY <1>1, <1>2, <1>3, <1>4, <1>5, <1>6, <1>7, <1>8, <1>9, <1>10, <1>11, <1>12, <1>13, <1>14, <1>15, <1>16, <1>17, <1>18, <1>19 DEF ReaderStep, ReaderGoesOn

\* What the writer and the driver do to the lists that readers may be walking
Grows ==
  /\ fences' \in Nat /\ fences' >= fences
  /\ \A l \in Lists : l <= fences => num'[l] \in Nat /\ num'[l] >= num[l]
  /\ wpc' \in {"fini", "dead"} => wpc \in {"fini", "dead"} \/ \A r \in Readers : pc[r] = "idle"

LEMMA ListsGrow ==
  ASSUME TypeOK, ListsInv, TablesInv, CopyInv, WriterActs
  PROVE  Grows
<1>0. fences \in Nat /\ (\A l \in Lists : l \in Nat) /\ num \in [Lists -> Nat]
  BY ListNumber DEF TypeOK, ListType, Lists
<1> USE <1>0 DEF Grows
<1>1. ASSUME NEW f \in Fences, Signal(f)
      PROVE  Grows
  BY <1>1 DEF Signal, listVars, memVars, writerVars, callVars
<1>2. ASSUME Unlock
      PROVE  Grows
  BY <1>2 DEF Unlock, listVars, memVars, writerVars, callVars
<1>3. ASSUME NEW n \in 1 .. MaxReserve, ReserveEnough(n)
      PROVE  Grows
  BY <1>3 DEF ReserveEnough, listVars, memVars, writerVars, callVars
<1>4. ASSUME NEW n \in 1 .. MaxReserve, ReserveAlloc(n)
      PROVE  Grows
  BY <1>4 DEF ReserveAlloc, listVars, memVars, writerVars, callVars
<1>5. ASSUME ReserveCopySignaled
      PROVE  Grows
  BY <1>5 DEF ReserveCopySignaled, listVars, memVars, writerVars, callVars
<1>6. ASSUME ReserveCopyActive
      PROVE  Grows
  <2>1. /\ wpc = "copy" /\ wpc' = wpc /\ fences' = fences /\ wnew = fences + 1 /\ wnew \in Lists
        /\ num' = [num EXCEPT ![wnew] = @ + 1]
    BY <1>6, CopyPlace DEF ReserveCopyActive
  <2>2. \A l \in Lists : l <= fences => l # wnew
    BY <2>1
  <2> QED
    BY <2>1, <2>2
<1>7. ASSUME ReserveFirst
      PROVE  Grows
  BY <1>7, CopyPlace DEF ReserveFirst, CallEnds, Lists
<1>8. ASSUME ReservePublish
      PROVE  Grows
  BY <1>8, CopyPlace DEF ReservePublish, Lists
<1>9. ASSUME ReserveDrop
      PROVE  Grows
  BY <1>9 DEF ReserveDrop, listVars, memVars, writerVars, callVars
<1>10. ASSUME ReserveFree
      PROVE  Grows
  BY <1>10 DEF ReserveFree, CallEnds, listVars, memVars, writerVars, callVars
<1>11. ASSUME NEW f \in Fences, NEW u \in Usages, AddFence(f, u)
      PROVE  Grows
  BY <1>11 DEF AddFence, listVars, memVars, writerVars, callVars
<1>12. ASSUME AddScan
      PROVE  Grows
  BY <1>12 DEF AddScan, listVars, memVars, writerVars, callVars
<1>13. ASSUME AddReplace
      PROVE  Grows
  BY <1>13 DEF AddReplace, listVars, memVars, writerVars, callVars
<1>14. ASSUME AddPut
      PROVE  Grows
  BY <1>14 DEF AddPut, CallEnds, listVars, memVars, writerVars, callVars
<1>15. ASSUME AddSet
      PROVE  Grows
  BY <1>15 DEF AddSet, listVars, memVars, writerVars, callVars
<1>16. ASSUME AddCount
      PROVE  Grows
  <2>1. /\ wpc' = "locked" /\ fences' = fences /\ num' = [num EXCEPT ![fences] = @ + 1]
    BY <1>16 DEF AddCount, CallEnds
  <2>2. \A l \in Lists : num'[l] = num[l] \/ num'[l] = num[l] + 1
    BY <2>1 DEF TypeOK, ListType
  <2> QED
    BY <2>1, <2>2
<1>17. ASSUME NEW c \in Contexts, NEW f \in Fences, NEW u \in Usages, ReplaceFences(c, f, u)
      PROVE  Grows
  BY <1>17 DEF ReplaceFences, listVars, memVars, writerVars, callVars
<1>18. ASSUME ReplaceSkip
      PROVE  Grows
  BY <1>18 DEF ReplaceSkip, listVars, memVars, writerVars, callVars
<1>19. ASSUME ReplaceSet
      PROVE  Grows
  BY <1>19 DEF ReplaceSet, listVars, memVars, writerVars, callVars
<1>20. ASSUME ReplacePut
      PROVE  Grows
  BY <1>20 DEF ReplacePut, listVars, memVars, writerVars, callVars
<1>21. ASSUME ReplaceDone
      PROVE  Grows
  BY <1>21 DEF ReplaceDone, CallEnds, listVars, memVars, writerVars, callVars
<1>22. ASSUME Fini
      PROVE  Grows
  BY <1>22 DEF Fini, listVars, memVars, writerVars, callVars
<1>23. ASSUME FiniPut
      PROVE  Grows
  BY <1>23 DEF FiniPut, listVars, memVars, writerVars, callVars
<1>24. ASSUME FiniFree
      PROVE  Grows
  BY <1>24 DEF FiniFree, listVars, memVars, writerVars, callVars
<1> QED
  BY <1>1, <1>2, <1>3, <1>4, <1>5, <1>6, <1>7, <1>8, <1>9, <1>10, <1>11, <1>12, <1>13, <1>14, <1>15, <1>16, <1>17, <1>18, <1>19, <1>20, <1>21, <1>22, <1>23, <1>24 DEF WriterActs, WriterStep, WriterGoesOn

LEMMA CursorWriter ==
  ASSUME TypeOK, CursorInv, Calm, Grows
  PROVE  CursorInv'
<1>1. ASSUME NEW r \in Readers
      PROVE  CursorOk(r)'
  <2> DEFINE l == cursor[r].fences
  <2>1. CursorOk(r) /\ cursor[r] \in CursorType /\ fences \in Nat
    BY ListNumber DEF CursorInv, TypeOK, ReaderType
  <2>2. cursor'[r] = cursor[r] /\ pc'[r] = pc[r] /\ cand'[r] = cand[r]
    BY DEF Calm
  <2>3. l <= fences' /\ l \in Nat
    BY <2>1 DEF CursorOk, Grows, CursorType, MaybeList
  <2>4. cursor[r].num <= IF l = None THEN 0 ELSE num'[l]
    <3>1. CASE l = None
      BY <2>1, <3>1 DEF CursorOk
    <3>2. CASE l # None
      <4>1. l \in Lists
        BY <2>1, <3>2, ResvAssumption DEF CursorType, MaybeList, Lists, None
      <4>2. num'[l] \in Nat /\ num'[l] >= num[l] /\ num[l] \in Nat /\ cursor[r].num \in Nat
        BY <4>1, <2>1 DEF Grows, CursorOk, TypeOK, ListType, CursorType
      <4>3. cursor[r].num <= num[l]
        BY <2>1, <3>2 DEF CursorOk
      <4> QED
        BY <3>2, <4>2, <4>3
    <3> QED
      BY <3>1, <3>2
  <2>5. pc[r] # "idle" => wpc' \notin {"fini", "dead"}
    BY <2>1 DEF Grows, CursorOk
  <2> QED
    BY <2>1, <2>2, <2>3, <2>4, <2>5 DEF CursorOk, Pends
<1> QED
  BY <1>1 DEF CursorInv

LEMMA CursorReader ==
  ASSUME TypeOK, TablesInv, CursorInv, Quiet, NEW r \in Readers, Others(r), Does(r)
  PROVE  CursorInv'
<1>1. CursorOk(r)'
  <2>0. /\ CursorOk(r) /\ cursor[r] \in CursorType /\ fences \in Nat /\ NumFences \in Nat
        /\ NumFences = (IF fences = None THEN 0 ELSE num[fences])
        /\ fences' = fences /\ num' = num /\ wpc' = wpc
        /\ None \notin Fences /\ cursor[r].fence \in Fences \cup {None} /\ cursor[r].fences \in Nat
    <3>1. CursorOk(r) /\ cursor[r] \in CursorType
      BY DEF CursorInv, TypeOK, ReaderType
    <3>2. cursor[r].fence \in Fences \cup {None} /\ cursor[r].fences \in Nat
      BY <3>1 DEF CursorType, MaybeFence, MaybeList
    <3>3. None \notin Fences
      BY ResvAssumption DEF None
    <3>4. fences \in Nat /\ NumFences \in Nat
      BY SeenFences, ListNumber
    <3> QED
      BY <3>1, <3>2, <3>3, <3>4 DEF Quiet, NumFences
  <2> USE <2>0 DEF CursorOk, CursorType, Pends, Walk, None
<2>1. ASSUME NEW o \in ReaderOps, NEW u \in 0 .. 3, Starts(r, o, u)
      PROVE  CursorOk(r)'
  BY <2>1 DEF Starts, CursorIs, SameCursorOf, SameCall, SameEntry, SameResult, SameRefs, SameLists
<2>2. ASSUME BeginsWalk(r)
      PROVE  CursorOk(r)'
    <3>1. CASE fences = None
      <4>1. cursor[r].fence = None
        BY <2>2, <3>1 DEF BeginsWalk
      <4> QED
        BY <2>2, <3>1, <4>1 DEF BeginsWalk, CursorIs, SameCursorOf, SameCall, SameEntry, SameResult, SameRefs, SameLists
    <3>2. CASE fences # None
      BY <2>2, <3>2 DEF BeginsWalk, CursorIs, SameCursorOf, SameCall, SameEntry, SameResult, SameRefs, SameLists
    <3> QED
      BY <3>1, <3>2
<2>3. ASSUME EndsWalk(r)
      PROVE  CursorOk(r)'
  BY <2>3 DEF EndsWalk, CursorIs, SameCursorOf, SameCall, SameEntry, SameResult, SameRefs, SameLists
<2>4. ASSUME Reads(r)
      PROVE  CursorOk(r)'
    <3>1. cursor[r].index + 1 \in 1 .. cursor[r].num
      BY <2>4 DEF Reads, CursorType
    <3>2. cand'[r].fence \in Fences
      BY <2>4, <3>1, EntryRead DEF Reads
    <3> QED
      BY <2>4, <3>1, <3>2 DEF Reads, CursorIs, SameCursorOf, SameCall, SameEntry, SameResult, SameRefs, SameLists
<2>5. ASSUME Gets(r)
      PROVE  CursorOk(r)'
  BY <2>5 DEF Gets, CursorIs, SameCursorOf, SameCall, SameEntry, SameResult, SameRefs, SameLists
<2>6. ASSUME Tests(r)
      PROVE  CursorOk(r)'
  BY <2>6 DEF Tests, CursorIs, SameCursorOf, SameCall, SameEntry, SameResult, SameRefs, SameLists
<2>7. ASSUME Returns(r)
      PROVE  CursorOk(r)'
  BY <2>7 DEF Returns, CursorIs, SameCursorOf, SameCall, SameEntry, SameResult, SameRefs, SameLists
<2>8. ASSUME GoesOn(r)
      PROVE  CursorOk(r)'
  BY <2>8 DEF GoesOn, CursorIs, SameCursorOf, SameCall, SameEntry, SameResult, SameRefs, SameLists
<2>9. ASSUME HasWaited(r)
      PROVE  CursorOk(r)'
  BY <2>9 DEF HasWaited, CursorIs, SameCursorOf, SameCall, SameEntry, SameResult, SameRefs, SameLists
<2>10. ASSUME Stops(r)
      PROVE  CursorOk(r)'
  BY <2>10 DEF Stops, CursorIs, SameCursorOf, SameCall, SameEntry, SameResult, SameRefs, SameLists
<2>11. ASSUME Drops(r)
      PROVE  CursorOk(r)'
  BY <2>11 DEF Drops, CursorIs, SameCursorOf, SameCall, SameEntry, SameResult, SameRefs, SameLists
<2>12. ASSUME Keeps(r)
      PROVE  CursorOk(r)'
  BY <2>12 DEF Keeps, CursorIs, SameCursorOf, SameCall, SameEntry, SameResult, SameRefs, SameLists
  <2> QED
    BY <2>1, <2>2, <2>3, <2>4, <2>5, <2>6, <2>7, <2>8, <2>9, <2>10, <2>11, <2>12 DEF Does
<1>2. ASSUME NEW q \in Readers, q # r
      PROVE  CursorOk(q)'
  <2>1. CursorOk(q) /\ pc'[q] = pc[q] /\ cursor'[q] = cursor[q] /\ cand'[q] = cand[q]
    BY <1>2 DEF CursorInv, Others
  <2>2. fences' = fences /\ num' = num /\ wpc' = wpc
    BY DEF Quiet
  <2> QED
    BY <2>1, <2>2 DEF CursorOk, Pends
<1> QED
  BY <1>1, <1>2 DEF CursorInv

LEMMA CursorStep ==
  ASSUME TypeOK, ListsInv, TablesInv, CopyInv, CursorInv, RoomInv, Next
  PROVE  CursorInv'
<1>1. CASE ReaderStep
  <2>1. PICK r \in Readers : Others(r) /\ Does(r)
    BY <1>1, ReaderDoes
  <2> QED
    BY <1>1, <2>1, CursorReader, ReadersAreQuiet
<1>2. CASE WriterActs
  BY <1>2, ListsGrow, WriterIsCalm, CursorWriter
<1> QED
  BY <1>1, <1>2 DEF Next, ReaderStep, WriterActs

LEMMA RoomReader ==
  ASSUME TypeOK, CursorInv, RoomInv, NEW r \in Readers, Others(r), Does(r)
  PROVE  RoomInv'
<1>1. RoomOk(r)'
  <2>0. /\ RoomOk(r) /\ cursor[r].index \in Nat /\ cursor[r].num \in Nat /\ room[r] \in Nat
        /\ Len(got[r]) \in Nat /\ (got[r] = <<>> => Len(got[r]) = 0)
    <3>1. RoomOk(r)
      BY DEF RoomInv
    <3>2. cursor[r].index \in Nat /\ cursor[r].num \in Nat /\ room[r] \in Nat
      BY DEF TypeOK, ReaderType, CursorType
    <3>3. Len(got[r]) \in Nat /\ (got[r] = <<>> => Len(got[r]) = 0)
      BY DEF TypeOK, ReaderType
    <3> QED
      BY <3>1, <3>2, <3>3
  <2> USE <2>0 DEF RoomOk, Fresh, Pends, None
<2>1. ASSUME NEW o \in ReaderOps, NEW u \in 0 .. 3, Starts(r, o, u)
      PROVE  RoomOk(r)'
  BY <2>1 DEF Starts, CursorIs, SameCursorOf, SameCall, SameEntry, SameResult, SameRefs, SameLists
<2>2. ASSUME BeginsWalk(r)
      PROVE  RoomOk(r)'
    BY <2>2 DEF BeginsWalk, Walk, CursorIs, SameCursorOf, SameCall, SameEntry, SameResult, SameRefs, SameLists
<2>3. ASSUME EndsWalk(r)
      PROVE  RoomOk(r)'
  BY <2>3 DEF EndsWalk, CursorIs, SameCursorOf, SameCall, SameEntry, SameResult, SameRefs, SameLists
<2>4. ASSUME Reads(r)
      PROVE  RoomOk(r)'
    <3>1. op'[r] = op[r] /\ got'[r] = got[r] /\ room'[r] = room[r] /\ pc[r] = "walk" /\ pc'[r] = "get"
          /\ cursor'[r].index = cursor[r].index + 1 /\ cursor'[r].num = cursor[r].num
          /\ cursor'[r].restarted = cursor[r].restarted
      BY <2>4 DEF Reads, CursorIs, SameCursorOf, SameCall, SameEntry, SameResult, SameRefs, SameLists
    <3> QED
      BY <3>1
<2>5. ASSUME Gets(r)
      PROVE  RoomOk(r)'
  BY <2>5 DEF Gets, CursorIs, SameCursorOf, SameCall, SameEntry, SameResult, SameRefs, SameLists
<2>6. ASSUME Tests(r)
      PROVE  RoomOk(r)'
  BY <2>6 DEF Tests, CursorIs, SameCursorOf, SameCall, SameEntry, SameResult, SameRefs, SameLists
<2>7. ASSUME Returns(r)
      PROVE  RoomOk(r)'
  BY <2>7 DEF Returns, CursorIs, SameCursorOf, SameCall, SameEntry, SameResult, SameRefs, SameLists
<2>8. ASSUME GoesOn(r)
      PROVE  RoomOk(r)'
    <3>1. pc'[r] = "walk"
      BY <2>8 DEF GoesOn, CursorInv, CursorOk, Walk
    <3> QED
      BY <2>8, <3>1 DEF GoesOn, CursorIs, SameCursorOf, SameCall, SameEntry, SameResult, SameRefs, SameLists
<2>9. ASSUME HasWaited(r)
      PROVE  RoomOk(r)'
  BY <2>9 DEF HasWaited, CursorIs, SameCursorOf, SameCall, SameEntry, SameResult, SameRefs, SameLists
<2>10. ASSUME Stops(r)
      PROVE  RoomOk(r)'
  BY <2>10 DEF Stops, CursorIs, SameCursorOf, SameCall, SameEntry, SameResult, SameRefs, SameLists
<2>11. ASSUME Drops(r)
      PROVE  RoomOk(r)'
    <3>1. Len(got'[r]) = Len(got[r]) - 1 /\ got[r] # <<>>
      BY <2>11, FrontOf DEF Drops
    <3>2. op'[r] = op[r] /\ room'[r] = room[r] /\ pc'[r] = pc[r] /\ pc[r] \in {"body", "done"}
          /\ (pc[r] = "body" => cursor'[r].restarted = 1)
      BY <2>11 DEF Drops, CursorIs, SameCursorOf, SameCall, SameEntry, SameResult, SameRefs, SameLists
    <3> QED
      BY <3>1, <3>2
<2>12. ASSUME Keeps(r)
      PROVE  RoomOk(r)'
    <3>1. Len(got'[r]) = Len(got[r]) + 1
      <4>1. got[r] \in Seq(Fences) /\ cursor[r].fence \in Fences /\ got'[r] = Append(got[r], cursor[r].fence)
        BY <2>12 DEF Keeps, CursorInv, CursorOk, TypeOK, ReaderType
      <4> QED
        BY <4>1
    <3>2. op'[r] = op[r] /\ op[r] \in {"get", "copy"} /\ pc[r] = "body" /\ pc'[r] = "next"
          /\ cursor'[r].index = cursor[r].index /\ cursor'[r].num = cursor[r].num
      BY <2>12 DEF Keeps, CursorIs, SameCursorOf, SameCall, SameEntry, SameResult, SameRefs, SameLists
    <3>3. cursor[r].index >= 1 /\ cursor[r].index <= cursor[r].num
      BY <3>2 DEF CursorInv, CursorOk
    <3>4. CASE cursor[r].restarted = 1
      <4>1. Len(got[r]) = 0 /\ room'[r] \in {cursor[r].num, cursor[r].num + 1}
        BY <2>12, <3>4 DEF Keeps, Room
      <4> QED
        BY <3>1, <3>2, <3>3, <4>1
    <3>5. CASE cursor[r].restarted # 1
      <4>1. cursor[r].restarted = 0
        BY <3>5 DEF TypeOK, ReaderType, CursorType
      <4>2. room'[r] = room[r] /\ Len(got[r]) <= cursor[r].index - 1 /\ cursor[r].num <= room[r]
        BY <2>12, <3>2, <3>5, <4>1 DEF Keeps
      <4> QED
        BY SMTT(60), <3>1, <3>2, <3>3, <4>2
    <3> QED
      BY <3>4, <3>5
  <2> QED
    BY <2>1, <2>2, <2>3, <2>4, <2>5, <2>6, <2>7, <2>8, <2>9, <2>10, <2>11, <2>12 DEF Does
<1>2. ASSUME NEW q \in Readers, q # r
      PROVE  RoomOk(q)'
  <2>1. RoomOk(q) /\ pc'[q] = pc[q] /\ op'[q] = op[q] /\ cursor'[q] = cursor[q] /\ got'[q] = got[q]
        /\ room'[q] = room[q]
    BY <1>2 DEF RoomInv, Others
  <2> QED
    BY <2>1 DEF RoomOk, Fresh, Pends
<1> QED
  BY <1>1, <1>2 DEF RoomInv

LEMMA RoomStep ==
  ASSUME TypeOK, CursorInv, RoomInv, Next
  PROVE  RoomInv'
<1>1. CASE ReaderStep
  <2>1. PICK r \in Readers : Others(r) /\ Does(r)
    BY <1>1, ReaderDoes
  <2> QED
    BY <2>1, RoomReader
<1>2. CASE WriterActs
  BY <1>2, WriterIsCalm DEF Calm, RoomInv, RoomOk, Fresh, Pends
<1> QED
  BY <1>1, <1>2 DEF Next, ReaderStep, WriterActs

\* A list that is in use is not freed.
LEMMA NotFreed ==
  ASSUME TypeOK, ListsInv, CursorInv, NEW r \in Readers, pc[r] # "idle"
  PROVE  fences \notin freed /\ None \notin freed
<1>1. wpc # "dead" /\ fences \in Nat /\ freed \subseteq Lists
  BY ListNumber DEF CursorInv, CursorOk, TypeOK, ListType
<1>2. \A l \in freed : l < fences
  BY <1>1 DEF ListsInv
<1> QED
  BY <1>1, <1>2 DEF Lists, None

LEMMA RcuListsWriter ==
  ASSUME TypeOK, ListsInv, RcuLists, WriterActs
  PROVE  RcuLists'
<1>0. Calm
  BY WriterIsCalm
<1>1. ASSUME ReserveFree
      PROVE  RcuLists'
  <2>1. KfreeRcu(wold) /\ UNCHANGED readerVars
    BY <1>1 DEF ReserveFree
  <2>2. \A r \in Readers : cursor'[r] = cursor[r] /\ (InRcu(r)' <=> InRcu(r))
    BY <2>1 DEF readerVars, InRcu
  <2>3. ASSUME NEW r \in Readers, InRcu(r), cursor[r].fences \in freed'
        PROVE  r \in lgrace'[cursor[r].fences]
    <3>1. r \in RcuReaders
      BY <2>3 DEF RcuReaders
    <3>3. CASE cursor[r].fences = wold
      <4>1. cursor[r].fences \in Lists
        BY <3>3, <1>1, ListNumber DEF ReserveFree, ListsInv, TypeOK, WriterType, MaybeList, Lists, None
      <4> QED
        BY <2>1, <3>1, <3>3, <4>1 DEF KfreeRcu, TypeOK, ListType
    <3>4. CASE cursor[r].fences # wold
      <4>1. cursor[r].fences \in freed /\ cursor[r].fences \in Lists
        BY <2>1, <2>3, <3>4 DEF KfreeRcu, TypeOK, ListType
      <4> QED
        BY <2>1, <2>3, <3>4, <4>1 DEF KfreeRcu, RcuLists, TypeOK, ListType
    <3> QED
      BY <3>3, <3>4
  <2> QED
    BY <2>2, <2>3 DEF RcuLists
<1>2. ASSUME FiniFree
      PROVE  RcuLists'
  <2>1. KfreeRcu(fences) /\ UNCHANGED readerVars
    BY <1>2 DEF FiniFree
  <2>2. \A r \in Readers : cursor'[r] = cursor[r] /\ (InRcu(r)' <=> InRcu(r))
    BY <2>1 DEF readerVars, InRcu
  <2>3. ASSUME NEW r \in Readers, InRcu(r), cursor[r].fences \in freed'
        PROVE  r \in lgrace'[cursor[r].fences]
    <3>1. r \in RcuReaders
      BY <2>3 DEF RcuReaders
    <3>3. CASE cursor[r].fences = fences
      <4>1. cursor[r].fences \in Lists
        BY <3>3, <1>2, ListNumber DEF FiniFree, ListsInv, TypeOK, WriterType, MaybeList, Lists, None
      <4> QED
        BY <2>1, <3>1, <3>3, <4>1 DEF KfreeRcu, TypeOK, ListType
    <3>4. CASE cursor[r].fences # fences
      <4>1. cursor[r].fences \in freed /\ cursor[r].fences \in Lists
        BY <2>1, <2>3, <3>4 DEF KfreeRcu, TypeOK, ListType
      <4> QED
        BY <2>1, <2>3, <3>4, <4>1 DEF KfreeRcu, RcuLists, TypeOK, ListType
    <3> QED
      BY <3>3, <3>4
  <2> QED
    BY <2>2, <2>3 DEF RcuLists
<1>3. ASSUME NEW f \in Fences, Signal(f)
      PROVE  freed' = freed /\ lgrace' = lgrace
  BY <1>3 DEF Signal, listVars, memVars
<1>4. ASSUME Unlock
      PROVE  freed' = freed /\ lgrace' = lgrace
  BY <1>4 DEF Unlock, listVars, memVars
<1>5. ASSUME NEW n \in 1 .. MaxReserve, ReserveEnough(n)
      PROVE  freed' = freed /\ lgrace' = lgrace
  BY <1>5 DEF ReserveEnough, listVars, memVars
<1>6. ASSUME NEW n \in 1 .. MaxReserve, ReserveAlloc(n)
      PROVE  freed' = freed /\ lgrace' = lgrace
  BY <1>6 DEF ReserveAlloc, listVars, memVars
<1>7. ASSUME ReserveCopySignaled
      PROVE  freed' = freed /\ lgrace' = lgrace
  BY <1>7 DEF ReserveCopySignaled, listVars, memVars
<1>8. ASSUME ReserveCopyActive
      PROVE  freed' = freed /\ lgrace' = lgrace
  BY <1>8 DEF ReserveCopyActive, listVars, memVars
<1>9. ASSUME ReserveFirst
      PROVE  freed' = freed /\ lgrace' = lgrace
  BY <1>9 DEF ReserveFirst, listVars, memVars
<1>10. ASSUME ReservePublish
      PROVE  freed' = freed /\ lgrace' = lgrace
  BY <1>10 DEF ReservePublish, listVars, memVars
<1>11. ASSUME ReserveDrop
      PROVE  freed' = freed /\ lgrace' = lgrace
  BY <1>11 DEF ReserveDrop, listVars, memVars
<1>12. ASSUME NEW f \in Fences, NEW u \in Usages, AddFence(f, u)
      PROVE  freed' = freed /\ lgrace' = lgrace
  BY <1>12 DEF AddFence, listVars, memVars
<1>13. ASSUME AddScan
      PROVE  freed' = freed /\ lgrace' = lgrace
  BY <1>13 DEF AddScan, listVars, memVars
<1>14. ASSUME AddReplace
      PROVE  freed' = freed /\ lgrace' = lgrace
  BY <1>14 DEF AddReplace, listVars, memVars
<1>15. ASSUME AddPut
      PROVE  freed' = freed /\ lgrace' = lgrace
  BY <1>15 DEF AddPut, listVars, memVars
<1>16. ASSUME AddSet
      PROVE  freed' = freed /\ lgrace' = lgrace
  BY <1>16 DEF AddSet, listVars, memVars
<1>17. ASSUME AddCount
      PROVE  freed' = freed /\ lgrace' = lgrace
  BY <1>17 DEF AddCount, listVars, memVars
<1>18. ASSUME NEW c \in Contexts, NEW f \in Fences, NEW u \in Usages, ReplaceFences(c, f, u)
      PROVE  freed' = freed /\ lgrace' = lgrace
  BY <1>18 DEF ReplaceFences, listVars, memVars
<1>19. ASSUME ReplaceSkip
      PROVE  freed' = freed /\ lgrace' = lgrace
  BY <1>19 DEF ReplaceSkip, listVars, memVars
<1>20. ASSUME ReplaceSet
      PROVE  freed' = freed /\ lgrace' = lgrace
  BY <1>20 DEF ReplaceSet, listVars, memVars
<1>21. ASSUME ReplacePut
      PROVE  freed' = freed /\ lgrace' = lgrace
  BY <1>21 DEF ReplacePut, listVars, memVars
<1>22. ASSUME ReplaceDone
      PROVE  freed' = freed /\ lgrace' = lgrace
  BY <1>22 DEF ReplaceDone, listVars, memVars
<1>23. ASSUME Fini
      PROVE  freed' = freed /\ lgrace' = lgrace
  BY <1>23 DEF Fini, listVars, memVars
<1>24. ASSUME FiniPut
      PROVE  freed' = freed /\ lgrace' = lgrace
  BY <1>24 DEF FiniPut, listVars, memVars
<1> QED
  BY <1>0, <1>1, <1>2, <1>3, <1>4, <1>5, <1>6, <1>7, <1>8, <1>9, <1>10, <1>11, <1>12, <1>13, <1>14, <1>15, <1>16, <1>17, <1>18, <1>19, <1>20, <1>21, <1>22, <1>23, <1>24 DEF WriterActs, WriterStep, WriterGoesOn, RcuLists, Calm, InRcu

LEMMA RcuListsReader ==
  ASSUME TypeOK, ListsInv, CursorInv, RcuLists, Quiet, NEW r \in Readers, Others(r), Does(r)
  PROVE  RcuLists'
<1>1. freed' = freed /\ (pc[r] # "idle" => fences \notin freed) /\ None \notin freed
  BY NotFreed DEF Quiet, TypeOK, ListType, Lists, None
<1>2. InRcu(r)' /\ cursor'[r].fences \in freed' => r \in lgrace'[cursor'[r].fences]
  <2>0. /\ InRcu(r) /\ cursor[r].fences \in freed => r \in lgrace[cursor[r].fences]
    BY DEF RcuLists
  <2> USE <1>1, <2>0 DEF InRcu
<2>1. ASSUME NEW o \in ReaderOps, NEW u \in 0 .. 3, Starts(r, o, u)
      PROVE  InRcu(r)' /\ cursor'[r].fences \in freed' => r \in lgrace'[cursor'[r].fences]
  BY <2>1 DEF Starts, CursorIs, SameCursorOf, SameCall, SameEntry, SameResult, SameRefs, SameLists
<2>2. ASSUME BeginsWalk(r)
      PROVE  InRcu(r)' /\ cursor'[r].fences \in freed' => r \in lgrace'[cursor'[r].fences]
  BY <2>2 DEF BeginsWalk, CursorIs, SameCursorOf, SameCall, SameEntry, SameResult, SameRefs, SameLists
<2>3. ASSUME EndsWalk(r)
      PROVE  InRcu(r)' /\ cursor'[r].fences \in freed' => r \in lgrace'[cursor'[r].fences]
  BY <2>3 DEF EndsWalk, CursorIs, SameCursorOf, SameCall, SameEntry, SameResult, SameRefs, SameLists
<2>4. ASSUME Reads(r)
      PROVE  InRcu(r)' /\ cursor'[r].fences \in freed' => r \in lgrace'[cursor'[r].fences]
  BY <2>4 DEF Reads, CursorIs, SameCursorOf, SameCall, SameEntry, SameResult, SameRefs, SameLists
<2>5. ASSUME Gets(r)
      PROVE  InRcu(r)' /\ cursor'[r].fences \in freed' => r \in lgrace'[cursor'[r].fences]
  BY <2>5 DEF Gets, CursorIs, SameCursorOf, SameCall, SameEntry, SameResult, SameRefs, SameLists
<2>6. ASSUME Tests(r)
      PROVE  InRcu(r)' /\ cursor'[r].fences \in freed' => r \in lgrace'[cursor'[r].fences]
  BY <2>6 DEF Tests, CursorIs, SameCursorOf, SameCall, SameEntry, SameResult, SameRefs, SameLists
<2>7. ASSUME Returns(r)
      PROVE  InRcu(r)' /\ cursor'[r].fences \in freed' => r \in lgrace'[cursor'[r].fences]
    BY <2>7 DEF Returns, InRcu
<2>8. ASSUME GoesOn(r)
      PROVE  InRcu(r)' /\ cursor'[r].fences \in freed' => r \in lgrace'[cursor'[r].fences]
  BY <2>8 DEF GoesOn, CursorIs, SameCursorOf, SameCall, SameEntry, SameResult, SameRefs, SameLists
<2>9. ASSUME HasWaited(r)
      PROVE  InRcu(r)' /\ cursor'[r].fences \in freed' => r \in lgrace'[cursor'[r].fences]
  BY <2>9 DEF HasWaited, CursorIs, SameCursorOf, SameCall, SameEntry, SameResult, SameRefs, SameLists
<2>10. ASSUME Stops(r)
      PROVE  InRcu(r)' /\ cursor'[r].fences \in freed' => r \in lgrace'[cursor'[r].fences]
  BY <2>10 DEF Stops, CursorIs, SameCursorOf, SameCall, SameEntry, SameResult, SameRefs, SameLists
<2>11. ASSUME Drops(r)
      PROVE  InRcu(r)' /\ cursor'[r].fences \in freed' => r \in lgrace'[cursor'[r].fences]
  BY <2>11 DEF Drops, CursorIs, SameCursorOf, SameCall, SameEntry, SameResult, SameRefs, SameLists
<2>12. ASSUME Keeps(r)
      PROVE  InRcu(r)' /\ cursor'[r].fences \in freed' => r \in lgrace'[cursor'[r].fences]
  BY <2>12 DEF Keeps, CursorIs, SameCursorOf, SameCall, SameEntry, SameResult, SameRefs, SameLists
  <2> QED
    BY <2>1, <2>2, <2>3, <2>4, <2>5, <2>6, <2>7, <2>8, <2>9, <2>10, <2>11, <2>12 DEF Does
<1>3. ASSUME NEW l \in Lists, NEW q \in Readers, q # r, q \in lgrace[l]
      PROVE  q \in lgrace'[l]
  <2>1. CASE lgrace' = lgrace
    BY <1>3, <2>1
  <2>2. CASE RcuUnlock(r)
    BY <1>3, <2>2 DEF RcuUnlock, TypeOK, ListType
  <2> QED
    BY <2>1, <2>2 DEF Does, Starts, BeginsWalk, EndsWalk, Reads, Gets, Tests, Returns, GoesOn, HasWaited, Stops, Drops,
                      Keeps, SameLists
<1>4. ASSUME NEW q \in Readers, q # r, InRcu(q)', cursor'[q].fences \in freed'
      PROVE  q \in lgrace'[cursor'[q].fences]
  <2>1. cursor'[q] = cursor[q] /\ InRcu(q)
    BY <1>4 DEF Others, InRcu
  <2>2. cursor[q].fences \in freed /\ cursor[q].fences \in Lists
    BY <1>1, <1>4, <2>1 DEF TypeOK, ListType
  <2>3. q \in lgrace[cursor[q].fences]
    BY <2>1, <2>2 DEF RcuLists
  <2> QED
    BY <1>3, <1>4, <2>1, <2>2, <2>3
<1> QED
  BY <1>2, <1>4 DEF RcuLists

LEMMA RcuListsStep ==
  ASSUME TypeOK, ListsInv, CursorInv, RoomInv, RcuLists, Next
  PROVE  RcuLists'
<1>1. CASE ReaderStep
  <2>1. PICK r \in Readers : Others(r) /\ Does(r)
    BY <1>1, ReaderDoes
  <2> QED
    BY <1>1, <2>1, RcuListsReader, ReadersAreQuiet
<1>2. CASE WriterActs
  BY <1>2, RcuListsWriter
<1> QED
  BY <1>1, <1>2 DEF Next, ReaderStep, WriterActs

\* The references of the lists, of the writer and of the driver, and those of the readers
WriterHeld(f) ==
    Bit(f \notin sig) + Cardinality(Listed(f)) + Cardinality(Dropping(f))
  + Bit(wfence = f /\ wpc \in {"add", "addcount"}) + Bit(wput = f)

ReaderHeld(f) == Cardinality(Cursors(f)) + Cardinality(Places(f))

LEMMA BitType == ASSUME NEW b PROVE Bit(b) \in {0, 1}
BY DEF Bit

LEMMA HeldParts ==
  ASSUME TypeOK, ListsInv, PlacesFinite, NEW f \in Fences
  PROVE  /\ IsFiniteSet(Listed(f)) /\ IsFiniteSet(Dropping(f))
         /\ IsFiniteSet(Cursors(f)) /\ IsFiniteSet(Places(f))
         /\ Cardinality(Listed(f)) \in Nat /\ Cardinality(Dropping(f)) \in Nat
         /\ Cardinality(Cursors(f)) \in Nat /\ Cardinality(Places(f)) \in Nat
         /\ WriterHeld(f) \in Nat /\ ReaderHeld(f) \in Nat
         /\ Held(f) = WriterHeld(f) + ReaderHeld(f)
<1>1. IsFiniteSet(Listed(f))
  <2> DEFINE n == NumFences
  <2>1. n \in Nat
    BY ListNumber DEF NumFences, TypeOK, ListType
  <2>2. Listed(f) \subseteq 1 .. n
    BY DEF Listed
  <2> HIDE DEF n
  <2>3. IsFiniteSet(1 .. n)
    BY <2>1, FS_Interval
  <2> QED
    BY <2>2, <2>3, FS_Subset
<1>2. IsFiniteSet(Dropping(f))
  <2>1. CASE wpc # "drop"
    <3>1. Dropping(f) = {}
      BY <2>1 DEF Dropping
    <3> QED
      BY <3>1, FS_EmptySet
  <2>2. CASE wpc = "drop"
    <3> DEFINE n == max[wnew]
    <3>1. n \in Int
      <4>1. wnew \in Lists
        BY <2>2, ListNumber DEF ListsInv, TypeOK, WriterType, MaybeList, Lists, None
      <4> QED
        BY <4>1 DEF TypeOK, ListType
    <3> QED
      <4>1. Dropping(f) \subseteq wi .. n /\ wi \in Int
        BY <2>2 DEF Dropping, TypeOK, WriterType
      <4> HIDE DEF n
      <4>2. IsFiniteSet(wi .. n)
        BY <3>1, <4>1, FS_Interval
      <4> QED
        BY <4>1, <4>2, FS_Subset
  <2> QED
    BY <2>1, <2>2
<1>3. IsFiniteSet(Cursors(f))
  <2>1. Cursors(f) \subseteq Readers /\ IsFiniteSet(Readers)
    BY ResvAssumption DEF Cursors
  <2> QED
    BY <2>1, FS_Subset
<1>4. IsFiniteSet(Places(f))
  BY DEF PlacesFinite
<1>5. /\ Cardinality(Listed(f)) \in Nat /\ Cardinality(Dropping(f)) \in Nat
      /\ Cardinality(Cursors(f)) \in Nat /\ Cardinality(Places(f)) \in Nat
  BY <1>1, <1>2, <1>3, <1>4, FS_CardinalityType
<1> DEFINE a == Bit(f \notin sig)  b == Cardinality(Listed(f))  c == Cardinality(Dropping(f))
           d == Bit(wfence = f /\ wpc \in {"add", "addcount"})  e == Bit(wput = f)
           g == Cardinality(Cursors(f))  h == Cardinality(Places(f))
<1>6. a \in Nat /\ d \in Nat /\ e \in Nat /\ b \in Nat /\ c \in Nat /\ g \in Nat /\ h \in Nat
  BY <1>5, BitType
<1>7. WriterHeld(f) = a + b + c + d + e /\ ReaderHeld(f) = g + h /\ Held(f) = a + b + c + d + e + g + h
  BY DEF WriterHeld, ReaderHeld, Held
<1> HIDE DEF a, b, c, d, e, g, h
<1>8. WriterHeld(f) \in Nat /\ ReaderHeld(f) \in Nat /\ Held(f) = WriterHeld(f) + ReaderHeld(f)
  BY <1>6, <1>7
<1> QED
  BY <1>1, <1>2, <1>3, <1>4, <1>5, <1>8

\* Who keeps a fence
LEMMA RefPositive ==
  ASSUME TypeOK, ListsInv, PlacesFinite, RefsExact, NEW f \in Fences,
         \/ f \notin sig
         \/ Listed(f) # {}
         \/ Dropping(f) # {}
         \/ wfence = f /\ wpc \in {"add", "addcount"}
         \/ wput = f
         \/ Cursors(f) # {}
         \/ Places(f) # {}
  PROVE  ref[f] > 0
<1> DEFINE a == Bit(f \notin sig)  b == Cardinality(Listed(f))  c == Cardinality(Dropping(f))
           d == Bit(wfence = f /\ wpc \in {"add", "addcount"})  e == Bit(wput = f)
           g == Cardinality(Cursors(f))  h == Cardinality(Places(f))
<1>1. a \in Nat /\ d \in Nat /\ e \in Nat /\ b \in Nat /\ c \in Nat /\ g \in Nat /\ h \in Nat
  BY HeldParts, BitType
<1>2. ref[f] = a + b + c + d + e + g + h
  BY DEF RefsExact, Held
<1>3. a > 0 \/ b > 0 \/ c > 0 \/ d > 0 \/ e > 0 \/ g > 0 \/ h > 0
  <2>1. /\ Listed(f) # {} => b > 0
        /\ Dropping(f) # {} => c > 0
        /\ Cursors(f) # {} => g > 0
        /\ Places(f) # {} => h > 0
    BY HeldParts, CountType
  <2>2. /\ f \notin sig => a > 0
        /\ wfence = f /\ wpc \in {"add", "addcount"} => d > 0
        /\ wput = f => e > 0
    BY DEF Bit
  <2> QED
    BY <2>1, <2>2
<1> HIDE DEF a, b, c, d, e, g, h
<1> QED
  BY <1>1, <1>2, <1>3

\* dma_fence_get()
Get(g) == ref' = [ref EXCEPT ![g] = @ + 1]

LEMMA PutBy ==
  ASSUME TypeOK, NEW g, Put(g), NEW f \in Fences
  PROVE  ref'[f] \in Int /\ ref[f] \in Int /\ ref'[f] = ref[f] - Bit(g = f)
<1>1. ref[f] \in Int
  BY DEF TypeOK, FenceType
<1>2. ref'[f] = IF f = g THEN ref[f] - 1 ELSE ref[f]
  BY DEF Put
<1>3. CASE f = g
  BY <1>1, <1>2, <1>3 DEF Bit
<1>4. CASE f # g
  BY <1>1, <1>2, <1>4 DEF Bit
<1> QED
  BY <1>3, <1>4

LEMMA GetBy ==
  ASSUME TypeOK, NEW g, Get(g), NEW f \in Fences
  PROVE  ref'[f] \in Int /\ ref[f] \in Int /\ ref'[f] = ref[f] + Bit(g = f)
<1>1. ref[f] \in Int
  BY DEF TypeOK, FenceType
<1>2. CASE f = g
  <2>1. ref'[f] = ref[f] + 1
    BY <1>2 DEF Get, TypeOK, FenceType
  <2> QED
    BY <1>1, <1>2, <2>1 DEF Bit
<1>3. CASE f # g
  <2>1. ref'[f] = ref[f]
    BY <1>3 DEF Get, TypeOK, FenceType
  <2> QED
    BY <1>1, <1>3, <2>1 DEF Bit
<1> QED
  BY <1>2, <1>3

\* What the readers do does not change what the writer holds, and the other way round.
LEMMA WriterHoldsOn ==
  ASSUME Quiet, NEW f
  PROVE  WriterHeld(f)' = WriterHeld(f)
BY DEF Quiet, WriterHeld, Listed, Dropping, NumFences, Bit

LEMMA ReaderHoldsOn ==
  ASSUME Calm, NEW f
  PROVE  Cursors(f)' = Cursors(f) /\ Places(f)' = Places(f) /\ ReaderHeld(f)' = ReaderHeld(f)
BY DEF Calm, ReaderHeld, Cursors, Places

\* The cursor of r gets another fence.
LEMMA CursorMoves ==
  ASSUME TypeOK, ListsInv, PlacesFinite, NEW r \in Readers, Others(r), NEW f \in Fences
  PROVE  /\ Cardinality(Cursors(f))' \in Int /\ Cardinality(Cursors(f)) \in Int
         /\ Cardinality(Cursors(f))' =
              Cardinality(Cursors(f)) + Bit(cursor'[r].fence = f) - Bit(cursor[r].fence = f)
<1> DEFINE S == Cursors(f)  T == Cursors(f)'
<1>1. IsFiniteSet(S)
  BY HeldParts
<1>2. \A q : q # r => (q \in S <=> q \in T)
  BY DEF Cursors, Others
<1>3. (r \in S <=> cursor[r].fence = f) /\ (r \in T <=> cursor'[r].fence = f)
  BY DEF Cursors
<1> HIDE DEF S, T
<1>4. /\ Cardinality(S) \in Nat /\ Cardinality(T) \in Nat
      /\ Cardinality(T) = Cardinality(S) + (IF r \in T THEN 1 ELSE 0) - (IF r \in S THEN 1 ELSE 0)
  BY <1>1, <1>2, CountChange
<1>5. Bit(cursor'[r].fence = f) = (IF r \in T THEN 1 ELSE 0) /\ Bit(cursor[r].fence = f) = (IF r \in S THEN 1 ELSE 0)
  BY <1>3 DEF Bit
<1>6. Cardinality(T) = Cardinality(S) + Bit(cursor'[r].fence = f) - Bit(cursor[r].fence = f)
  BY <1>4, <1>5
<1> QED
  BY <1>4, <1>6 DEF S, T

LEMMA CursorStays ==
  ASSUME NEW r \in Readers, Others(r), cursor'[r].fence = cursor[r].fence, NEW f
  PROVE  Cursors(f)' = Cursors(f)
BY DEF Cursors, Others

LEMMA PlacesStay ==
  ASSUME NEW r \in Readers, Others(r), got'[r] = got[r], NEW f
  PROVE  Places(f)' = Places(f)
<1>1. \A q \in Readers : got'[q] = got[q]
  BY DEF Others
<1> QED
  BY <1>1 DEF Places

\* The place of r's array with number n is filled or emptied.
OnlyPlace(r, n, f) ==
  \A j : j # n => (j \in DOMAIN got[r] /\ got[r][j] = f <=> j \in DOMAIN got'[r] /\ got'[r][j] = f)

LEMMA PlaceMoves ==
  ASSUME TypeOK, PlacesFinite, NEW r \in Readers, Others(r), NEW n, NEW f \in Fences,
         OnlyPlace(r, n, f)
  PROVE  /\ IsFiniteSet(Places(f))'
         /\ Cardinality(Places(f))' \in Int /\ Cardinality(Places(f)) \in Int
         /\ Cardinality(Places(f))' =
              Cardinality(Places(f)) + Bit(n \in DOMAIN got'[r] /\ got'[r][n] = f)
                                     - Bit(n \in DOMAIN got[r] /\ got[r][n] = f)
<1> DEFINE S == Places(f)  T == Places(f)'  x == <<r, n>>
<1>1. IsFiniteSet(S)
  BY DEF PlacesFinite
<1>2. \A q : q \in S <=> \E p \in Readers : \E j : q = <<p, j>> /\ j \in DOMAIN got[p] /\ got[p][j] = f
  BY DEF Places
<1>3. \A q : q \in T <=> \E p \in Readers : \E j : q = <<p, j>> /\ j \in DOMAIN got'[p] /\ got'[p][j] = f
  BY DEF Places
<1>4. ASSUME NEW q, q # x
      PROVE  q \in S <=> q \in T
  <2>1. ASSUME q \in S PROVE q \in T
    <3>1. PICK p, j : p \in Readers /\ q = <<p, j>> /\ j \in DOMAIN got[p] /\ got[p][j] = f
      BY <1>2, <2>1
    <3>2. CASE p = r
      <4>1. j # n
        BY <1>4, <3>1, <3>2
      <4>2. j \in DOMAIN got'[p] /\ got'[p][j] = f
        BY <3>1, <3>2, <4>1 DEF OnlyPlace
      <4> QED
        BY <1>3, <3>1, <4>2
    <3>3. CASE p # r
      <4>1. got'[p] = got[p]
        BY <3>1, <3>3 DEF Others
      <4> QED
        BY <1>3, <3>1, <4>1
    <3> QED
      BY <3>2, <3>3
  <2>2. ASSUME q \in T PROVE q \in S
    <3>1. PICK p, j : p \in Readers /\ q = <<p, j>> /\ j \in DOMAIN got'[p] /\ got'[p][j] = f
      BY <1>3, <2>2
    <3>2. CASE p = r
      <4>1. j # n
        BY <1>4, <3>1, <3>2
      <4>2. j \in DOMAIN got[p] /\ got[p][j] = f
        BY <3>1, <3>2, <4>1 DEF OnlyPlace
      <4> QED
        BY <1>2, <3>1, <4>2
    <3>3. CASE p # r
      <4>1. got'[p] = got[p]
        BY <3>1, <3>3 DEF Others
      <4> QED
        BY <1>2, <3>1, <4>1
    <3> QED
      BY <3>2, <3>3
  <2> QED
    BY <2>1, <2>2
<1>5. /\ x \in S <=> n \in DOMAIN got[r] /\ got[r][n] = f
      /\ x \in T <=> n \in DOMAIN got'[r] /\ got'[r][n] = f
  BY <1>2, <1>3
<1> HIDE DEF S, T, x
<1>6. /\ Cardinality(S) \in Nat /\ Cardinality(T) \in Nat /\ IsFiniteSet(T)
      /\ Cardinality(T) = Cardinality(S) + (IF x \in T THEN 1 ELSE 0) - (IF x \in S THEN 1 ELSE 0)
  BY <1>1, <1>4, CountChange
<1>7. /\ Bit(n \in DOMAIN got'[r] /\ got'[r][n] = f) = (IF x \in T THEN 1 ELSE 0)
      /\ Bit(n \in DOMAIN got[r] /\ got[r][n] = f) = (IF x \in S THEN 1 ELSE 0)
  BY <1>5 DEF Bit
<1>8. Cardinality(T) = Cardinality(S) + Bit(n \in DOMAIN got'[r] /\ got'[r][n] = f)
                                      - Bit(n \in DOMAIN got[r] /\ got[r][n] = f)
  BY <1>6, <1>7
<1> QED
  BY <1>6, <1>8 DEF S, T

LEMMA HeldReader ==
  ASSUME TypeOK, ListsInv, PlacesFinite, Quiet, NEW f \in Fences,
         Cardinality(Cursors(f))' \in Int, Cardinality(Places(f))' \in Int
  PROVE  Held(f)' = WriterHeld(f) + Cardinality(Cursors(f))' + Cardinality(Places(f))'
<1> DEFINE a == Bit(f \notin sig)  b == Cardinality(Listed(f))  c == Cardinality(Dropping(f))
           d == Bit(wfence = f /\ wpc \in {"add", "addcount"})  e == Bit(wput = f)
           g == Cardinality(Cursors(f))  h == Cardinality(Places(f))
<1>1. a \in Nat /\ d \in Nat /\ e \in Nat /\ b \in Nat /\ c \in Nat
  BY HeldParts, BitType
<1>2. WriterHeld(f) = a + b + c + d + e /\ Held(f)' = a' + b' + c' + d' + e' + g' + h'
  BY DEF WriterHeld, Held
<1>3. a' = a /\ b' = b /\ c' = c /\ d' = d /\ e' = e
  BY DEF Quiet, Listed, Dropping, NumFences, Bit
<1>4. g' \in Int /\ h' \in Int
  OBVIOUS
<1>5. WriterHeld(f) + Cardinality(Cursors(f))' + Cardinality(Places(f))' = WriterHeld(f) + g' + h'
  OBVIOUS
<1> HIDE DEF a, b, c, d, e, g, h
<1> QED
  BY <1>1, <1>2, <1>3, <1>4, <1>5

LEMMA RefsReader ==
  ASSUME TypeOK, ListsInv, CursorInv, PlacesFinite, RefsExact, Quiet, NEW r \in Readers, Others(r), Does(r)
  PROVE  RefsExact' /\ PlacesFinite'
<1>1. ASSUME NEW f \in Fences
      PROVE  ref'[f] = Held(f)' /\ IsFiniteSet(Places(f))'
  <2> DEFINE g == Cardinality(Cursors(f))  h == Cardinality(Places(f))
  <2>0. g \in Int /\ h \in Int /\ IsFiniteSet(Places(f)) /\ ref[f] \in Int
    BY HeldParts DEF TypeOK, FenceType
<2>1. ASSUME NEW o \in ReaderOps, NEW u \in 0 .. 3, Starts(r, o, u)
      PROVE  ref'[f] = ref[f] + (g' - g) + (h' - h) /\ g' \in Int /\ h' \in Int /\ IsFiniteSet(Places(f))'
    <3>1. ref' = ref /\ cursor'[r].fence = cursor[r].fence /\ got'[r] = got[r]
      BY <2>1 DEF Starts, CursorInv, CursorOk, CursorIs, SameCursorOf, SameCall, SameEntry, SameResult, SameRefs, SameLists
    <3>2. Cursors(f)' = Cursors(f) /\ Places(f)' = Places(f)
      BY <3>1, CursorStays, PlacesStay
    <3>3. g' = g /\ h' = h
      BY <3>2
    <3>4. ref'[f] = ref[f]
      BY <3>1
    <3> HIDE DEF g, h
    <3> QED
      BY <2>0, <3>2, <3>3, <3>4
<2>2. ASSUME BeginsWalk(r)
      PROVE  ref'[f] = ref[f] + (g' - g) + (h' - h) /\ g' \in Int /\ h' \in Int /\ IsFiniteSet(Places(f))'
    <3>1. ref' = ref /\ cursor'[r].fence = cursor[r].fence /\ got'[r] = got[r]
      BY <2>2 DEF BeginsWalk, CursorIs, SameCursorOf, SameCall, SameEntry, SameResult, SameRefs, SameLists
    <3>2. Cursors(f)' = Cursors(f) /\ Places(f)' = Places(f)
      BY <3>1, CursorStays, PlacesStay
    <3>3. g' = g /\ h' = h
      BY <3>2
    <3>4. ref'[f] = ref[f]
      BY <3>1
    <3> HIDE DEF g, h
    <3> QED
      BY <2>0, <3>2, <3>3, <3>4
<2>3. ASSUME EndsWalk(r)
      PROVE  ref'[f] = ref[f] + (g' - g) + (h' - h) /\ g' \in Int /\ h' \in Int /\ IsFiniteSet(Places(f))'
    <3>1. Put(cursor[r].fence) /\ cursor'[r].fence = None /\ got'[r] = got[r]
      BY <2>3 DEF EndsWalk, CursorIs, SameCursorOf, SameCall, SameEntry, SameResult, SameRefs, SameLists
    <3>2. Places(f)' = Places(f)
      BY <3>1, PlacesStay
    <3>3. g' \in Int /\ g' = g + Bit(cursor'[r].fence = f) - Bit(cursor[r].fence = f)
      BY CursorMoves
    <3>4. Bit(cursor'[r].fence = f) = 0
      BY <3>1, ResvAssumption DEF Bit, None
    <3>5. ref'[f] = ref[f] - Bit(cursor[r].fence = f)
      BY <3>1, PutBy
    <3>6. h' = h /\ Bit(cursor[r].fence = f) \in Int
      BY <3>2, BitType
    <3> HIDE DEF g, h
    <3> QED
      BY <2>0, <3>2, <3>3, <3>4, <3>5, <3>6
<2>4. ASSUME Reads(r)
      PROVE  ref'[f] = ref[f] + (g' - g) + (h' - h) /\ g' \in Int /\ h' \in Int /\ IsFiniteSet(Places(f))'
    <3>1. Put(cursor[r].fence) /\ cursor'[r].fence = None /\ got'[r] = got[r]
      BY <2>4 DEF Reads, CursorIs, SameCursorOf, SameCall, SameEntry, SameResult, SameRefs, SameLists
    <3>2. Places(f)' = Places(f)
      BY <3>1, PlacesStay
    <3>3. g' \in Int /\ g' = g + Bit(cursor'[r].fence = f) - Bit(cursor[r].fence = f)
      BY CursorMoves
    <3>4. Bit(cursor'[r].fence = f) = 0
      BY <3>1, ResvAssumption DEF Bit, None
    <3>5. ref'[f] = ref[f] - Bit(cursor[r].fence = f)
      BY <3>1, PutBy
    <3>6. h' = h /\ Bit(cursor[r].fence = f) \in Int
      BY <3>2, BitType
    <3> HIDE DEF g, h
    <3> QED
      BY <2>0, <3>2, <3>3, <3>4, <3>5, <3>6
<2>5. ASSUME Gets(r)
      PROVE  ref'[f] = ref[f] + (g' - g) + (h' - h) /\ g' \in Int /\ h' \in Int /\ IsFiniteSet(Places(f))'
    <3>1. Get(cand[r].fence) /\ cursor'[r].fence = cand[r].fence /\ cursor[r].fence = None /\ got'[r] = got[r]
      BY <2>5 DEF Gets, Get, CursorInv, CursorOk, CursorIs, SameCursorOf, SameCall, SameEntry, SameResult, SameRefs, SameLists
    <3>2. Places(f)' = Places(f)
      BY <3>1, PlacesStay
    <3>3. g' \in Int /\ g' = g + Bit(cursor'[r].fence = f) - Bit(cursor[r].fence = f)
      BY CursorMoves
    <3>4. Bit(cursor[r].fence = f) = 0 /\ Bit(cursor'[r].fence = f) = Bit(cand[r].fence = f)
      BY <3>1, ResvAssumption DEF Bit, None
    <3>7. g' = g + Bit(cand[r].fence = f)
      <4> DEFINE x == Bit(cursor'[r].fence = f)  y == Bit(cand[r].fence = f)  z == Bit(cursor[r].fence = f)
      <4>1. x = y /\ z = 0 /\ g' = g + x - z /\ y \in Int
        BY <3>3, <3>4, BitType
      <4> HIDE DEF x, y, z, g
      <4>2. g' = g + y
        BY <4>1, <2>0
      <4> QED
        BY <4>2 DEF y
    <3>5. ref'[f] = ref[f] + Bit(cand[r].fence = f)
      BY <3>1, GetBy
    <3>6. h' = h /\ Bit(cand[r].fence = f) \in Int
      BY <3>2, BitType
    <3>8. g' \in Int
      BY <3>3
    <3> DEFINE y == Bit(cand[r].fence = f)
    <3>9. y \in Int /\ g' = g + y /\ ref'[f] = ref[f] + y /\ h' = h
      BY <3>5, <3>6, <3>7
    <3> HIDE DEF g, h, y
    <3> QED
      BY <2>0, <3>2, <3>8, <3>9
<2>6. ASSUME Tests(r)
      PROVE  ref'[f] = ref[f] + (g' - g) + (h' - h) /\ g' \in Int /\ h' \in Int /\ IsFiniteSet(Places(f))'
    <3>1. ref' = ref /\ cursor'[r].fence = cursor[r].fence /\ got'[r] = got[r]
      BY <2>6 DEF Tests, CursorIs, SameCursorOf, SameCall, SameEntry, SameResult, SameRefs, SameLists
    <3>2. Cursors(f)' = Cursors(f) /\ Places(f)' = Places(f)
      BY <3>1, CursorStays, PlacesStay
    <3>3. g' = g /\ h' = h
      BY <3>2
    <3>4. ref'[f] = ref[f]
      BY <3>1
    <3> HIDE DEF g, h
    <3> QED
      BY <2>0, <3>2, <3>3, <3>4
<2>7. ASSUME Returns(r)
      PROVE  ref'[f] = ref[f] + (g' - g) + (h' - h) /\ g' \in Int /\ h' \in Int /\ IsFiniteSet(Places(f))'
    <3>1. ref' = ref /\ cursor'[r].fence = cursor[r].fence /\ got'[r] = got[r]
      BY <2>7 DEF Returns, CursorIs, SameCursorOf, SameCall, SameEntry, SameResult, SameRefs, SameLists
    <3>2. Cursors(f)' = Cursors(f) /\ Places(f)' = Places(f)
      BY <3>1, CursorStays, PlacesStay
    <3>3. g' = g /\ h' = h
      BY <3>2
    <3>4. ref'[f] = ref[f]
      BY <3>1
    <3> HIDE DEF g, h
    <3> QED
      BY <2>0, <3>2, <3>3, <3>4
<2>8. ASSUME GoesOn(r)
      PROVE  ref'[f] = ref[f] + (g' - g) + (h' - h) /\ g' \in Int /\ h' \in Int /\ IsFiniteSet(Places(f))'
    <3>1. ref' = ref /\ cursor'[r].fence = cursor[r].fence /\ got'[r] = got[r]
      BY <2>8 DEF GoesOn, CursorIs, SameCursorOf, SameCall, SameEntry, SameResult, SameRefs, SameLists
    <3>2. Cursors(f)' = Cursors(f) /\ Places(f)' = Places(f)
      BY <3>1, CursorStays, PlacesStay
    <3>3. g' = g /\ h' = h
      BY <3>2
    <3>4. ref'[f] = ref[f]
      BY <3>1
    <3> HIDE DEF g, h
    <3> QED
      BY <2>0, <3>2, <3>3, <3>4
<2>9. ASSUME HasWaited(r)
      PROVE  ref'[f] = ref[f] + (g' - g) + (h' - h) /\ g' \in Int /\ h' \in Int /\ IsFiniteSet(Places(f))'
    <3>1. ref' = ref /\ cursor'[r].fence = cursor[r].fence /\ got'[r] = got[r]
      BY <2>9 DEF HasWaited, CursorIs, SameCursorOf, SameCall, SameEntry, SameResult, SameRefs, SameLists
    <3>2. Cursors(f)' = Cursors(f) /\ Places(f)' = Places(f)
      BY <3>1, CursorStays, PlacesStay
    <3>3. g' = g /\ h' = h
      BY <3>2
    <3>4. ref'[f] = ref[f]
      BY <3>1
    <3> HIDE DEF g, h
    <3> QED
      BY <2>0, <3>2, <3>3, <3>4
<2>10. ASSUME Stops(r)
      PROVE  ref'[f] = ref[f] + (g' - g) + (h' - h) /\ g' \in Int /\ h' \in Int /\ IsFiniteSet(Places(f))'
    <3>1. Put(cursor[r].fence) /\ cursor'[r].fence = None /\ got'[r] = got[r]
      BY <2>10 DEF Stops, CursorIs, SameCursorOf, SameCall, SameEntry, SameResult, SameRefs, SameLists
    <3>2. Places(f)' = Places(f)
      BY <3>1, PlacesStay
    <3>3. g' \in Int /\ g' = g + Bit(cursor'[r].fence = f) - Bit(cursor[r].fence = f)
      BY CursorMoves
    <3>4. Bit(cursor'[r].fence = f) = 0
      BY <3>1, ResvAssumption DEF Bit, None
    <3>5. ref'[f] = ref[f] - Bit(cursor[r].fence = f)
      BY <3>1, PutBy
    <3>6. h' = h /\ Bit(cursor[r].fence = f) \in Int
      BY <3>2, BitType
    <3> HIDE DEF g, h
    <3> QED
      BY <2>0, <3>2, <3>3, <3>4, <3>5, <3>6
<2>11. ASSUME Drops(r)
      PROVE  ref'[f] = ref[f] + (g' - g) + (h' - h) /\ g' \in Int /\ h' \in Int /\ IsFiniteSet(Places(f))'
    <3> DEFINE s == got[r]  n == Len(got[r])
    <3>1. /\ Put(s[n]) /\ cursor'[r].fence = cursor[r].fence /\ got'[r] = SubSeq(s, 1, n - 1) /\ s # <<>>
      BY <2>11 DEF Drops, CursorIs, SameCursorOf, SameCall, SameEntry, SameResult, SameRefs, SameLists
    <3>2. /\ s \in Seq(Fences) /\ n \in Nat \ {0} /\ DOMAIN s = 1 .. n /\ DOMAIN got'[r] = 1 .. n - 1
          /\ \A j \in 1 .. n - 1 : got'[r][j] = s[j]
      BY <3>1, FrontOf
    <3>3. OnlyPlace(r, n, f)
      <4>1. \A j : j # n => (j \in DOMAIN s <=> j \in DOMAIN got'[r])
        BY <3>2
      <4> QED
        BY <3>2, <4>1 DEF OnlyPlace
    <3>4. n \in DOMAIN s /\ n \notin DOMAIN got'[r]
      BY <3>2
    <3>5. /\ IsFiniteSet(Places(f))' /\ h' \in Int
          /\ h' = h + Bit(n \in DOMAIN got'[r] /\ got'[r][n] = f) - Bit(n \in DOMAIN got[r] /\ got[r][n] = f)
      BY <3>3, PlaceMoves
    <3>6. Bit(n \in DOMAIN got'[r] /\ got'[r][n] = f) = 0 /\ Bit(n \in DOMAIN got[r] /\ got[r][n] = f) = Bit(s[n] = f)
      BY <3>4 DEF Bit
    <3>7. Cursors(f)' = Cursors(f)
      BY <3>1, CursorStays
    <3>8. ref'[f] = ref[f] - Bit(s[n] = f)
      BY <3>1, PutBy
    <3>9. g' = g /\ Bit(s[n] = f) \in Int
      BY <3>7, BitType
    <3> HIDE DEF g, h, s, n
    <3> QED
      BY <2>0, <3>5, <3>6, <3>8, <3>9
<2>12. ASSUME Keeps(r)
      PROVE  ref'[f] = ref[f] + (g' - g) + (h' - h) /\ g' \in Int /\ h' \in Int /\ IsFiniteSet(Places(f))'
    <3> DEFINE s == got[r]  n == Len(got[r]) + 1  e == cursor[r].fence
    <3>1. /\ Get(e) /\ cursor'[r].fence = cursor[r].fence /\ got'[r] = Append(s, e) /\ e \in Fences
      BY <2>12 DEF Keeps, Get, CursorInv, CursorOk, CursorIs, SameCursorOf, SameCall, SameEntry, SameResult, SameRefs, SameLists
    <3>2. /\ s \in Seq(Fences) /\ n \in Nat /\ DOMAIN s = 1 .. n - 1 /\ DOMAIN got'[r] = 1 .. n
          /\ \A j \in 1 .. n - 1 : got'[r][j] = s[j]
          /\ got'[r][n] = e
      <4>1. s \in Seq(Fences) /\ Len(s) \in Nat
        BY DEF TypeOK, ReaderType
      <4> HIDE DEF s, e
      <4>2. /\ DOMAIN Append(s, e) = 1 .. Len(s) + 1 /\ Append(s, e)[Len(s) + 1] = e
            /\ \A j \in 1 .. Len(s) : Append(s, e)[j] = s[j]
        BY <4>1
      <4>3. DOMAIN s = 1 .. Len(s) /\ Len(s) = n - 1 /\ n = Len(s) + 1
        BY <4>1 DEF s
      <4> QED
        BY <3>1, <4>1, <4>2, <4>3
    <3>3. OnlyPlace(r, n, f)
      <4>1. \A j : j # n => (j \in DOMAIN s <=> j \in DOMAIN got'[r])
        BY <3>2
      <4> QED
        BY <3>2, <4>1 DEF OnlyPlace
    <3>4. n \notin DOMAIN s /\ n \in DOMAIN got'[r]
      BY <3>2
    <3>5. /\ IsFiniteSet(Places(f))' /\ h' \in Int
          /\ h' = h + Bit(n \in DOMAIN got'[r] /\ got'[r][n] = f) - Bit(n \in DOMAIN got[r] /\ got[r][n] = f)
      BY <3>3, PlaceMoves
    <3>6. Bit(n \in DOMAIN got[r] /\ got[r][n] = f) = 0 /\ Bit(n \in DOMAIN got'[r] /\ got'[r][n] = f) = Bit(e = f)
      BY <3>2, <3>4 DEF Bit
    <3>7. Cursors(f)' = Cursors(f)
      BY <3>1, CursorStays
    <3>8. ref'[f] = ref[f] + Bit(e = f)
      BY <3>1, GetBy
    <3>9. g' = g /\ Bit(e = f) \in Int
      BY <3>7, BitType
    <3> HIDE DEF g, h, s, n, e
    <3> QED
      BY <2>0, <3>5, <3>6, <3>8, <3>9
  <2>20. ref'[f] = ref[f] + (g' - g) + (h' - h) /\ g' \in Int /\ h' \in Int /\ IsFiniteSet(Places(f))'
    BY <2>1, <2>2, <2>3, <2>4, <2>5, <2>6, <2>7, <2>8, <2>9, <2>10, <2>11, <2>12 DEF Does
  <2>21. Held(f)' = WriterHeld(f) + g' + h'
    BY <2>20, HeldReader
  <2>22. ref[f] = WriterHeld(f) + (g + h) /\ WriterHeld(f) \in Int
    BY HeldParts DEF RefsExact, ReaderHeld
  <2> HIDE DEF g, h
  <2>23. ref'[f] = Held(f)'
    BY <2>0, <2>20, <2>21, <2>22
  <2> QED
    BY <2>20, <2>23
<1> QED
  BY <1>1 DEF RefsExact, PlacesFinite

\* The references of a fence change with those who hold it.
Balance(x) ==
  /\ Cardinality(Listed(x))' \in Int /\ Cardinality(Dropping(x))' \in Int
  /\ ref'[x] = ref[x]
      + (Bit(x \notin sig)' - Bit(x \notin sig))
      + (Cardinality(Listed(x))' - Cardinality(Listed(x)))
      + (Cardinality(Dropping(x))' - Cardinality(Dropping(x)))
      + (Bit(wfence = x /\ wpc \in {"add", "addcount"})' - Bit(wfence = x /\ wpc \in {"add", "addcount"}))
      + (Bit(wput = x)' - Bit(wput = x))

LEMMA BalanceHeld ==
  ASSUME TypeOK, ListsInv, PlacesFinite, RefsExact, Calm, NEW x \in Fences, Balance(x)
  PROVE  ref'[x] = Held(x)'
<1> DEFINE a == Bit(x \notin sig)  b == Cardinality(Listed(x))  c == Cardinality(Dropping(x))
           d == Bit(wfence = x /\ wpc \in {"add", "addcount"})  e == Bit(wput = x)
           g == Cardinality(Cursors(x))  h == Cardinality(Places(x))
<1>1. a \in Int /\ d \in Int /\ e \in Int /\ b \in Int /\ c \in Int /\ g \in Int /\ h \in Int
  BY HeldParts, BitType
<1>2. a' \in Int /\ d' \in Int /\ e' \in Int
  BY DEF Bit
<1>3. b' \in Int /\ c' \in Int
  BY DEF Balance
<1>4. g' = g /\ h' = h
  BY ReaderHoldsOn
<1>5. ref[x] = a + b + c + d + e + g + h /\ Held(x)' = a' + b' + c' + d' + e' + g' + h'
  BY DEF RefsExact, Held
<1>6. ref'[x] = ref[x] + (a' - a) + (b' - b) + (c' - c) + (d' - d) + (e' - e)
  BY DEF Balance
<1> HIDE DEF a, b, c, d, e, g, h
<1> QED
  BY <1>1, <1>2, <1>3, <1>4, <1>5, <1>6

SameHolders(x) ==
  /\ ref' = ref /\ sig' = sig /\ Listed(x)' = Listed(x) /\ Dropping(x)' = Dropping(x)
  /\ (wfence = x /\ wpc \in {"add", "addcount"})' <=> wfence = x /\ wpc \in {"add", "addcount"}
  /\ wput' = wput

LEMMA SameBalance ==
  ASSUME TypeOK, ListsInv, PlacesFinite, NEW x \in Fences, SameHolders(x)
  PROVE  Balance(x)
<1> DEFINE a == Bit(x \notin sig)  b == Cardinality(Listed(x))  c == Cardinality(Dropping(x))
           d == Bit(wfence = x /\ wpc \in {"add", "addcount"})  e == Bit(wput = x)
<1>1. a \in Int /\ d \in Int /\ e \in Int /\ b \in Int /\ c \in Int /\ ref[x] \in Int
  BY HeldParts, BitType DEF TypeOK, FenceType
<1>2. a' = a /\ b' = b /\ c' = c /\ d' = d /\ e' = e /\ ref'[x] = ref[x]
  BY DEF SameHolders, Bit
<1> HIDE DEF a, b, c, d, e
<1>3. /\ b' \in Int /\ c' \in Int
      /\ ref'[x] = ref[x] + (a' - a) + (b' - b) + (c' - c) + (d' - d) + (e' - e)
  BY <1>1, <1>2
<1> QED
  BY <1>3 DEF Balance, a, b, c, d, e

\* Entry n comes or goes.
OnlyListed(n, x) == \A j : j # n => (j \in Listed(x) <=> j \in Listed(x)')

LEMMA ListedMoves ==
  ASSUME TypeOK, ListsInv, PlacesFinite, NEW x \in Fences, NEW n, OnlyListed(n, x)
  PROVE  /\ Cardinality(Listed(x))' \in Int
         /\ Cardinality(Listed(x))' = Cardinality(Listed(x)) + Bit(n \in Listed(x)') - Bit(n \in Listed(x))
<1> DEFINE S == Listed(x)  T == Listed(x)'
<1>1. IsFiniteSet(S) /\ \A j : j # n => (j \in S <=> j \in T)
  BY HeldParts DEF OnlyListed
<1> HIDE DEF S, T
<1>2. /\ Cardinality(S) \in Nat /\ Cardinality(T) \in Nat
      /\ Cardinality(T) = Cardinality(S) + (IF n \in T THEN 1 ELSE 0) - (IF n \in S THEN 1 ELSE 0)
  BY <1>1, CountChange
<1>3. Bit(n \in T) = (IF n \in T THEN 1 ELSE 0) /\ Bit(n \in S) = (IF n \in S THEN 1 ELSE 0)
  BY DEF Bit
<1>4. Cardinality(T) = Cardinality(S) + Bit(n \in T) - Bit(n \in S) /\ Cardinality(T) \in Int
  BY <1>2, <1>3
<1> QED
  BY <1>4 DEF S, T

OnlyDropping(n, x) == \A j : j # n => (j \in Dropping(x) <=> j \in Dropping(x)')

LEMMA DroppingMoves ==
  ASSUME TypeOK, ListsInv, PlacesFinite, NEW x \in Fences, NEW n, OnlyDropping(n, x)
  PROVE  /\ Cardinality(Dropping(x))' \in Int
         /\ Cardinality(Dropping(x))' =
              Cardinality(Dropping(x)) + Bit(n \in Dropping(x)') - Bit(n \in Dropping(x))
<1> DEFINE S == Dropping(x)  T == Dropping(x)'
<1>1. IsFiniteSet(S) /\ \A j : j # n => (j \in S <=> j \in T)
  BY HeldParts DEF OnlyDropping
<1> HIDE DEF S, T
<1>2. /\ Cardinality(S) \in Nat /\ Cardinality(T) \in Nat
      /\ Cardinality(T) = Cardinality(S) + (IF n \in T THEN 1 ELSE 0) - (IF n \in S THEN 1 ELSE 0)
  BY <1>1, CountChange
<1>3. Bit(n \in T) = (IF n \in T THEN 1 ELSE 0) /\ Bit(n \in S) = (IF n \in S THEN 1 ELSE 0)
  BY DEF Bit
<1>4. Cardinality(T) = Cardinality(S) + Bit(n \in T) - Bit(n \in S) /\ Cardinality(T) \in Int
  BY <1>2, <1>3
<1> QED
  BY <1>4 DEF S, T

LEMMA DropType ==
  ASSUME TypeOK, ListsInv, wpc = "drop"
  PROVE  wnew \in Lists /\ wnew = fences /\ max[wnew] \in Nat /\ wi \in Nat
<1>1. wnew = fences /\ wold = fences - 1 /\ wold # None /\ wold \in Nat /\ fences \in Nat /\ fences # None
  BY ListNumber DEF ListsInv, TypeOK, WriterType, MaybeList, None
<1>2. wnew \in Lists
  BY <1>1, ListNumber
<1> QED
  BY <1>1, <1>2 DEF TypeOK, ListType, WriterType

LEMMA WriterBalance ==
  ASSUME TypeOK, ListsInv, TablesInv, CopyInv, SlotsInv, ArgsInv, CopyRefs, PlacesFinite, WriterActs,
         NEW x \in Fences
  PROVE  Balance(x)
<1>1. ASSUME NEW f \in Fences, Signal(f)
      PROVE  Balance(x)
  <2> DEFINE a == Bit(x \notin sig)  b == Cardinality(Listed(x))  c == Cardinality(Dropping(x))
             d == Bit(wfence = x /\ wpc \in {"add", "addcount"})  e == Bit(wput = x)
  <2>0. a \in Int /\ d \in Int /\ e \in Int /\ b \in Int /\ c \in Int /\ ref[x] \in Int
    BY HeldParts, BitType DEF TypeOK, FenceType
  <2>1. f \notin sig /\ sig' = sig \cup {f} /\ Put(f)
    BY <1>1 DEF Signal
  <2> DEFINE w == Bit(f = x)
  <2>20. w \in Int
    BY BitType
  <2>21. a' = a - w
    BY <2>1 DEF Bit
  <2>22. b' = b
    <3>1. Listed(x)' = Listed(x)
      BY <1>1 DEF Signal, Listed, NumFences, fenceVars, memVars, listVars, argVars, callVars, writerVars
    <3> QED
      BY <3>1
  <2>23. c' = c
    <3>1. Dropping(x)' = Dropping(x)
      BY <1>1 DEF Signal, Dropping, fenceVars, memVars, listVars, argVars, callVars, writerVars
    <3> QED
      BY <3>1
  <2>24. d' = d
    BY <1>1 DEF Signal, fenceVars, memVars, listVars, argVars, callVars, writerVars, Bit
  <2>25. e' = e
    BY <1>1 DEF Signal, ArgsInv, fenceVars, memVars, listVars, argVars, callVars, writerVars, Bit
  <2>26. ref'[x] = ref[x] - w
    BY <2>1, PutBy
  <2> HIDE DEF a, b, c, d, e, w
  <2>30. /\ b' \in Int /\ c' \in Int
         /\ ref'[x] = ref[x] + (a' - a) + (b' - b) + (c' - c) + (d' - d) + (e' - e)
    BY <2>0, <2>21, <2>22, <2>23, <2>24, <2>25, <2>26, <2>20
  <2> QED
    BY <2>30 DEF Balance, a, b, c, d, e
<1>2. ASSUME Unlock
      PROVE  Balance(x)
  <2>1. ref' = ref /\ sig' = sig /\ wput' = wput
    BY <1>2 DEF Unlock, ArgsInv, fenceVars, memVars, listVars, argVars, callVars, writerVars
  <2>2. (wfence = x /\ wpc \in {"add", "addcount"})' <=> wfence = x /\ wpc \in {"add", "addcount"}
    BY <1>2 DEF Unlock, fenceVars, memVars, listVars, argVars, callVars, writerVars
  <2>3. Listed(x)' = Listed(x)
    BY <1>2 DEF Unlock, Listed, NumFences, fenceVars, memVars, listVars, argVars, callVars, writerVars
  <2>4. Dropping(x)' = Dropping(x)
    BY <1>2 DEF Unlock, Dropping, fenceVars, memVars, listVars, argVars, callVars, writerVars
  <2> QED
    BY <2>1, <2>2, <2>3, <2>4, SameBalance DEF SameHolders
<1>3. ASSUME NEW n \in 1 .. MaxReserve, ReserveEnough(n)
      PROVE  Balance(x)
  <2>1. ref' = ref /\ sig' = sig /\ wput' = wput
    BY <1>3 DEF ReserveEnough, ArgsInv, fenceVars, memVars, listVars, argVars, callVars, writerVars
  <2>2. (wfence = x /\ wpc \in {"add", "addcount"})' <=> wfence = x /\ wpc \in {"add", "addcount"}
    BY <1>3 DEF ReserveEnough, fenceVars, memVars, listVars, argVars, callVars, writerVars
  <2>3. Listed(x)' = Listed(x)
    BY <1>3 DEF ReserveEnough, Listed, NumFences, fenceVars, memVars, listVars, argVars, callVars, writerVars
  <2>4. Dropping(x)' = Dropping(x)
    BY <1>3 DEF ReserveEnough, Dropping, fenceVars, memVars, listVars, argVars, callVars, writerVars
  <2> QED
    BY <2>1, <2>2, <2>3, <2>4, SameBalance DEF SameHolders
<1>4. ASSUME NEW n \in 1 .. MaxReserve, ReserveAlloc(n)
      PROVE  Balance(x)
  <2>1. ref' = ref /\ sig' = sig /\ wput' = wput
    BY <1>4 DEF ReserveAlloc, ArgsInv, fenceVars, memVars, listVars, argVars, callVars, writerVars
  <2>2. (wfence = x /\ wpc \in {"add", "addcount"})' <=> wfence = x /\ wpc \in {"add", "addcount"}
    BY <1>4 DEF ReserveAlloc, fenceVars, memVars, listVars, argVars, callVars, writerVars
  <2>3. Listed(x)' = Listed(x)
    <3>1. UNCHANGED <<fences, num>> /\ wpc = "locked" /\ wpc' = "copy" /\ wnew = fences
      BY <1>4 DEF ReserveAlloc, ListsInv
    <3>2. fences # None => table'[fences] = table[fences]
      BY <1>4, <3>1, ListNumber DEF ReserveAlloc, TypeOK, ListType
    <3> QED
      BY <3>1, <3>2 DEF Listed, NumFences
  <2>4. Dropping(x)' = Dropping(x)
    BY <1>4 DEF ReserveAlloc, Dropping, fenceVars, memVars, listVars, argVars, callVars, writerVars
  <2> QED
    BY <2>1, <2>2, <2>3, <2>4, SameBalance DEF SameHolders
<1>5. ASSUME ReserveCopySignaled
      PROVE  Balance(x)
  <2>1. ref' = ref /\ sig' = sig /\ wput' = wput
    BY <1>5 DEF ReserveCopySignaled, ArgsInv, fenceVars, memVars, listVars, argVars, callVars, writerVars
  <2>2. (wfence = x /\ wpc \in {"add", "addcount"})' <=> wfence = x /\ wpc \in {"add", "addcount"}
    BY <1>5 DEF ReserveCopySignaled, fenceVars, memVars, listVars, argVars, callVars, writerVars
  <2>3. Listed(x)' = Listed(x)
    <3>1. fences' = fences /\ wpc = "copy" /\ wpc' = "copy" /\ wnew # fences /\ Copies
      BY <1>5, CopyPlace DEF ReserveCopySignaled
    <3>2. fences \in Lists
      BY <3>1, CopiedType
    <3>3. table'[fences] = table[fences] /\ num'[fences] = num[fences]
      BY <1>5, <3>1, <3>2, WritesSignaled DEF ReserveCopySignaled, TypeOK, ListType
    <3> QED
      BY <3>1, <3>3 DEF Listed, NumFences
  <2>4. Dropping(x)' = Dropping(x)
    BY <1>5 DEF ReserveCopySignaled, Dropping, fenceVars, memVars, listVars, argVars, callVars, writerVars
  <2> QED
    BY <2>1, <2>2, <2>3, <2>4, SameBalance DEF SameHolders
<1>6. ASSUME ReserveCopyActive
      PROVE  Balance(x)
  <2>1. ref' = ref /\ sig' = sig /\ wput' = wput
    BY <1>6 DEF ReserveCopyActive, ArgsInv, fenceVars, memVars, listVars, argVars, callVars, writerVars
  <2>2. (wfence = x /\ wpc \in {"add", "addcount"})' <=> wfence = x /\ wpc \in {"add", "addcount"}
    BY <1>6 DEF ReserveCopyActive, fenceVars, memVars, listVars, argVars, callVars, writerVars
  <2>3. Listed(x)' = Listed(x)
    <3>1. fences' = fences /\ wpc = "copy" /\ wpc' = "copy" /\ wnew # fences /\ Copies
      BY <1>6, CopyPlace DEF ReserveCopyActive
    <3>2. fences \in Lists
      BY <3>1, CopiedType
    <3>3. table'[fences] = table[fences] /\ num'[fences] = num[fences]
      BY <1>6, <3>1, <3>2, WritesActive DEF ReserveCopyActive, TypeOK, ListType
    <3> QED
      BY <3>1, <3>3 DEF Listed, NumFences
  <2>4. Dropping(x)' = Dropping(x)
    BY <1>6 DEF ReserveCopyActive, Dropping, fenceVars, memVars, listVars, argVars, callVars, writerVars
  <2> QED
    BY <2>1, <2>2, <2>3, <2>4, SameBalance DEF SameHolders
<1>7. ASSUME ReserveFirst
      PROVE  Balance(x)
  <2>1. ref' = ref /\ sig' = sig /\ wput' = wput
    BY <1>7 DEF ReserveFirst, CallEnds, ArgsInv, fenceVars, memVars, listVars, argVars, callVars, writerVars
  <2>2. (wfence = x /\ wpc \in {"add", "addcount"})' <=> wfence = x /\ wpc \in {"add", "addcount"}
    BY <1>7 DEF ReserveFirst, CallEnds, fenceVars, memVars, listVars, argVars, callVars, writerVars
  <2>3. Listed(x)' = Listed(x)
    <3> DEFINE n == num[wnew]  m == max[wnew]
    <3>1. /\ wpc = "copy" /\ wold = None /\ wpc' = "locked" /\ fences' = wnew /\ num' = num /\ fences = None
      BY <1>7 DEF ReserveFirst, CallEnds, ListsInv
    <3>2. n \in Nat /\ m \in Nat /\ wi \in Nat /\ wk \in Nat /\ NumFences = 0
      BY <3>1, CopyPlace DEF TypeOK, WriterType, NumFences
    <3>3. wi <= NumFences + 1 /\ n + (m - wk) = wi - 1 /\ wk <= m
      BY <3>1 DEF CopyInv
    <3> HIDE DEF n, m
    <3>4. n = 0
      BY <3>2, <3>3
    <3>5. NumFences' = 0
      BY <3>1, <3>4 DEF NumFences, n
    <3> QED
      BY <3>2, <3>5 DEF Listed
  <2>4. Dropping(x)' = Dropping(x)
    BY <1>7 DEF ReserveFirst, CallEnds, Dropping, fenceVars, memVars, listVars, argVars, callVars, writerVars
  <2> QED
    BY <2>1, <2>2, <2>3, <2>4, SameBalance DEF SameHolders
<1>8. ASSUME ReservePublish
      PROVE  Balance(x)
  <2> DEFINE a == Bit(x \notin sig)  b == Cardinality(Listed(x))  c == Cardinality(Dropping(x))
             d == Bit(wfence = x /\ wpc \in {"add", "addcount"})  e == Bit(wput = x)
  <2>0. a \in Int /\ d \in Int /\ e \in Int /\ b \in Int /\ c \in Int /\ ref[x] \in Int
    BY HeldParts, BitType DEF TypeOK, FenceType
  <2>1. /\ wpc = "copy" /\ wold # None /\ ~Copies /\ wpc' = "drop" /\ wi' = wk + 1 /\ fences' = wnew
        /\ UNCHANGED <<wnew, num, max, table>>
    BY <1>8 DEF ReservePublish, memVars
  <2>2. /\ wold = fences /\ wi \in Nat /\ wk \in Nat /\ NumFences \in Nat /\ num[wnew] \in Nat /\ wnew # None
        /\ max[wnew] \in Nat
    BY <2>1, CopyPlace DEF ListsInv, TypeOK, WriterType, Lists, None
  <2>3. wi - 1 = NumFences /\ NumFences' = num[wnew]
    BY <2>1, <2>2 DEF Copies, CopyInv, NumFences
  <2> DEFINE s == Cardinality({j \in 1 .. num[wnew] : table[wnew][j].fence = x})
             t == Cardinality({j \in wk + 1 .. max[wnew] : table[wnew][j].fence = x})
  <2>4. b = s + t
    <3>1. Listed(x) = {j \in 1 .. wi - 1 : table[wold][j].fence = x}
      BY <2>1, <2>2, <2>3 DEF Listed
    <3> QED
      BY <2>1, <3>1 DEF CopyRefs, CopyFrom, AtFront, AtBack
  <2>20. s \in Int /\ t \in Int /\ b = s + t
    <3> DEFINE n == num[wnew]  m == max[wnew]
               S == {j \in 1 .. n : table[wnew][j].fence = x}
               T == {j \in wk + 1 .. m : table[wnew][j].fence = x}
    <3>1. S \subseteq 1 .. n /\ T \subseteq wk + 1 .. m
      OBVIOUS
    <3>2. n \in Int /\ m \in Int /\ wk + 1 \in Int
      BY <2>2
    <3> HIDE DEF n, m, S, T
    <3>3. IsFiniteSet(1 .. n) /\ IsFiniteSet(wk + 1 .. m)
      BY <3>2, FS_Interval
    <3>4. Cardinality(S) \in Nat /\ Cardinality(T) \in Nat
      BY <3>1, <3>3, FS_Subset, FS_CardinalityType
    <3> QED
      BY <2>4, <3>4 DEF n, m, S, T
  <2>21. a' = a
    BY <1>8 DEF ReservePublish, fenceVars, memVars, listVars, argVars, callVars, writerVars, Bit
  <2>22. b' = s
    <3>1. Listed(x)' = {j \in 1 .. num[wnew] : table[wnew][j].fence = x}
      BY <2>1, <2>3 DEF Listed
    <3> QED
      BY <3>1
  <2>23. c' = t /\ c = 0
    <3>1. Dropping(x)' = {j \in wk + 1 .. max[wnew] : table[wnew][j].fence = x}
      BY <2>1 DEF Dropping
    <3>2. Dropping(x) = {}
      BY <2>1 DEF Dropping
    <3> QED
      BY <3>1, <3>2, FS_EmptySet
  <2>24. d' = d
    BY <1>8 DEF ReservePublish, fenceVars, memVars, listVars, argVars, callVars, writerVars, Bit
  <2>25. e' = e
    BY <1>8 DEF ReservePublish, ArgsInv, fenceVars, memVars, listVars, argVars, callVars, writerVars, Bit
  <2>26. ref'[x] = ref[x]
    BY <1>8 DEF ReservePublish, fenceVars
  <2> HIDE DEF a, b, c, d, e, s, t
  <2>30. /\ b' \in Int /\ c' \in Int
         /\ ref'[x] = ref[x] + (a' - a) + (b' - b) + (c' - c) + (d' - d) + (e' - e)
    BY <2>0, <2>21, <2>22, <2>23, <2>24, <2>25, <2>26, <2>20
  <2> QED
    BY <2>30 DEF Balance, a, b, c, d, e
<1>9. ASSUME ReserveDrop
      PROVE  Balance(x)
  <2> DEFINE a == Bit(x \notin sig)  b == Cardinality(Listed(x))  c == Cardinality(Dropping(x))
             d == Bit(wfence = x /\ wpc \in {"add", "addcount"})  e == Bit(wput = x)
  <2>0. a \in Int /\ d \in Int /\ e \in Int /\ b \in Int /\ c \in Int /\ ref[x] \in Int
    BY HeldParts, BitType DEF TypeOK, FenceType
  <2>1. /\ wpc = "drop" /\ wi <= max[wnew] /\ Put(table[wnew][wi].fence) /\ wi' = wi + 1 /\ wpc' = "drop"
        /\ UNCHANGED <<max, table, wnew>>
    BY <1>9 DEF ReserveDrop, listVars
  <2>2. max[wnew] \in Nat /\ wi \in Nat
    BY <2>1, DropType
  <2> DEFINE w == Bit(table[wnew][wi].fence = x)
  <2>20. w \in Int
    BY BitType
  <2>21. a' = a
    BY <1>9 DEF ReserveDrop, fenceVars, memVars, listVars, argVars, callVars, writerVars, Bit
  <2>22. b' = b
    <3>1. Listed(x)' = Listed(x)
      BY <1>9 DEF ReserveDrop, Listed, NumFences, fenceVars, memVars, listVars, argVars, callVars, writerVars
    <3> QED
      BY <3>1
  <2>23. c' = c - w
    <3>1. OnlyDropping(wi, x)
      <4>1. \A j : j # wi => (j \in wi .. max[wnew] <=> j \in wi + 1 .. max[wnew])
        BY <2>2
      <4> QED
        BY <2>1, <4>1 DEF OnlyDropping, Dropping
    <3>2. c' = c + Bit(wi \in Dropping(x)') - Bit(wi \in Dropping(x))
      BY <3>1, DroppingMoves
    <3>3. wi \in wi .. max[wnew] /\ wi \notin wi + 1 .. max[wnew]
      BY <2>1, <2>2
    <3>4. Bit(wi \in Dropping(x)') = 0 /\ Bit(wi \in Dropping(x)) = w
      BY <2>1, <3>3 DEF Dropping, Bit
    <3> HIDE DEF c, w
    <3> QED
      BY <2>0, <2>20, <3>2, <3>4
  <2>24. d' = d
    BY <1>9 DEF ReserveDrop, fenceVars, memVars, listVars, argVars, callVars, writerVars, Bit
  <2>25. e' = e
    BY <1>9 DEF ReserveDrop, ArgsInv, fenceVars, memVars, listVars, argVars, callVars, writerVars, Bit
  <2>26. ref'[x] = ref[x] - w
    BY <2>1, PutBy
  <2> HIDE DEF a, b, c, d, e, w
  <2>30. /\ b' \in Int /\ c' \in Int
         /\ ref'[x] = ref[x] + (a' - a) + (b' - b) + (c' - c) + (d' - d) + (e' - e)
    BY <2>0, <2>21, <2>22, <2>23, <2>24, <2>25, <2>26, <2>20
  <2> QED
    BY <2>30 DEF Balance, a, b, c, d, e
<1>10. ASSUME ReserveFree
      PROVE  Balance(x)
  <2>1. ref' = ref /\ sig' = sig /\ wput' = wput
    BY <1>10 DEF ReserveFree, CallEnds, ArgsInv, fenceVars, memVars, listVars, argVars, callVars, writerVars
  <2>2. (wfence = x /\ wpc \in {"add", "addcount"})' <=> wfence = x /\ wpc \in {"add", "addcount"}
    BY <1>10 DEF ReserveFree, CallEnds, fenceVars, memVars, listVars, argVars, callVars, writerVars
  <2>3. Listed(x)' = Listed(x)
    BY <1>10 DEF ReserveFree, CallEnds, Listed, NumFences
  <2>4. Dropping(x)' = Dropping(x)
    <3>1. wpc = "drop" /\ wpc' = "locked" /\ wi > max[wnew]
      BY <1>10 DEF ReserveFree, CallEnds
    <3>2. max[wnew] \in Nat /\ wi \in Nat
      BY <3>1, DropType
    <3>3. Dropping(x) = {}
      BY <3>1, <3>2 DEF Dropping
    <3> QED
      BY <3>1, <3>3 DEF Dropping
  <2> QED
    BY <2>1, <2>2, <2>3, <2>4, SameBalance DEF SameHolders
<1>11. ASSUME NEW f \in Fences, NEW u \in Usages, AddFence(f, u)
      PROVE  Balance(x)
  <2> DEFINE a == Bit(x \notin sig)  b == Cardinality(Listed(x))  c == Cardinality(Dropping(x))
             d == Bit(wfence = x /\ wpc \in {"add", "addcount"})  e == Bit(wput = x)
  <2>0. a \in Int /\ d \in Int /\ e \in Int /\ b \in Int /\ c \in Int /\ ref[x] \in Int
    BY HeldParts, BitType DEF TypeOK, FenceType
  <2>1. wpc = "locked" /\ Get(f) /\ wpc' = "add" /\ wfence' = f
    BY <1>11 DEF AddFence, Get
  <2> DEFINE w == Bit(f = x)
  <2>20. w \in Int
    BY BitType
  <2>21. a' = a
    BY <1>11 DEF AddFence, fenceVars, memVars, listVars, argVars, callVars, writerVars, Bit
  <2>22. b' = b
    <3>1. Listed(x)' = Listed(x)
      BY <1>11 DEF AddFence, Listed, NumFences, fenceVars, memVars, listVars, argVars, callVars, writerVars
    <3> QED
      BY <3>1
  <2>23. c' = c
    <3>1. Dropping(x)' = Dropping(x)
      BY <1>11 DEF AddFence, Dropping, fenceVars, memVars, listVars, argVars, callVars, writerVars
    <3> QED
      BY <3>1
  <2>24. d' = w /\ d = 0
    BY <2>1 DEF Bit
  <2>25. e' = e
    BY <1>11 DEF AddFence, ArgsInv, fenceVars, memVars, listVars, argVars, callVars, writerVars, Bit
  <2>26. ref'[x] = ref[x] + w
    BY <2>1, GetBy
  <2> HIDE DEF a, b, c, d, e, w
  <2>30. /\ b' \in Int /\ c' \in Int
         /\ ref'[x] = ref[x] + (a' - a) + (b' - b) + (c' - c) + (d' - d) + (e' - e)
    BY <2>0, <2>21, <2>22, <2>23, <2>24, <2>25, <2>26, <2>20
  <2> QED
    BY <2>30 DEF Balance, a, b, c, d, e
<1>12. ASSUME AddScan
      PROVE  Balance(x)
  <2>1. ref' = ref /\ sig' = sig /\ wput' = wput
    BY <1>12 DEF AddScan, ArgsInv, fenceVars, memVars, listVars, argVars, callVars, writerVars
  <2>2. (wfence = x /\ wpc \in {"add", "addcount"})' <=> wfence = x /\ wpc \in {"add", "addcount"}
    BY <1>12 DEF AddScan, fenceVars, memVars, listVars, argVars, callVars, writerVars
  <2>3. Listed(x)' = Listed(x)
    BY <1>12 DEF AddScan, Listed, NumFences, fenceVars, memVars, listVars, argVars, callVars, writerVars
  <2>4. Dropping(x)' = Dropping(x)
    BY <1>12 DEF AddScan, Dropping, fenceVars, memVars, listVars, argVars, callVars, writerVars
  <2> QED
    BY <2>1, <2>2, <2>3, <2>4, SameBalance DEF SameHolders
<1>13. ASSUME AddReplace
      PROVE  Balance(x)
  <2> DEFINE a == Bit(x \notin sig)  b == Cardinality(Listed(x))  c == Cardinality(Dropping(x))
             d == Bit(wfence = x /\ wpc \in {"add", "addcount"})  e == Bit(wput = x)
  <2>0. a \in Int /\ d \in Int /\ e \in Int /\ b \in Int /\ c \in Int /\ ref[x] \in Int
    BY HeldParts, BitType DEF TypeOK, FenceType
  <2>1. /\ wpc = "add" /\ wi <= num[fences] /\ WritesTo(fences, wi, New) /\ wput' = Old.fence /\ wpc' = "addput"
        /\ UNCHANGED <<fences, num, wfence, wi>> /\ wput = None
    BY <1>13 DEF AddReplace, WritesTo, argVars, PutOld, ArgsInv
  <2>2. /\ fences \in Lists /\ fences \in Nat /\ num[fences] \in Nat /\ wi \in 1 .. num[fences]
        /\ wi \in DOMAIN table[fences]
        /\ num[fences] <= Len(table[fences]) /\ Len(table[fences]) \in Nat
    BY <2>1, OldType, ListNumber DEF TablesInv, TypeOK, ListType
  <2> DEFINE w == Bit(wfence = x)  v == Bit(Old.fence = x)
  <2>20. w \in Int /\ v \in Int
    BY BitType
  <2>21. a' = a
    BY <1>13 DEF AddReplace, fenceVars, memVars, listVars, argVars, callVars, writerVars, Bit
  <2>22. b' = b + w - v
    <3>1. OnlyListed(wi, x)
      <4>1. \A j \in 1 .. num[fences] : j # wi => table'[fences][j] = table[fences][j]
        <5>1. \A j \in 1 .. num[fences] : j \in 1 .. Len(table[fences])
          BY <2>2
        <5> QED
          BY <2>1, <2>2, <5>1, WritesNew
      <4> QED
        BY <2>1, <2>2, <4>1 DEF OnlyListed, Listed, NumFences, None, Lists
    <3>2. b' = b + Bit(wi \in Listed(x)') - Bit(wi \in Listed(x))
      BY <3>1, ListedMoves
    <3>3. table'[fences][wi].fence = wfence
      BY <2>1, <2>2, WritesNew DEF New
    <3>4. wi \in Listed(x) <=> Old.fence = x
      BY <2>1, <2>2 DEF Listed, NumFences, Old, None, Lists
    <3>5. wi \in Listed(x)' <=> wfence = x
      BY <2>1, <2>2, <3>3 DEF Listed, NumFences, Old, None, Lists
    <3>6. Bit(wi \in Listed(x)') = w /\ Bit(wi \in Listed(x)) = v
      BY <3>4, <3>5 DEF Bit
    <3> HIDE DEF b, w, v
    <3> QED
      BY <2>0, <2>20, <3>2, <3>6
  <2>23. c' = c
    <3>1. Dropping(x)' = Dropping(x)
      BY <1>13 DEF AddReplace, Dropping, fenceVars, memVars, listVars, argVars, callVars, writerVars
    <3> QED
      BY <3>1
  <2>24. d' = 0 /\ d = w
    BY <2>1 DEF Bit
  <2>25. e' = v /\ e = 0
    BY <2>1, ResvAssumption DEF Bit, None
  <2>26. ref'[x] = ref[x]
    BY <1>13 DEF AddReplace, fenceVars
  <2> HIDE DEF a, b, c, d, e, w, v
  <2>30. /\ b' \in Int /\ c' \in Int
         /\ ref'[x] = ref[x] + (a' - a) + (b' - b) + (c' - c) + (d' - d) + (e' - e)
    BY <2>0, <2>21, <2>22, <2>23, <2>24, <2>25, <2>26, <2>20
  <2> QED
    BY <2>30 DEF Balance, a, b, c, d, e
<1>14. ASSUME AddPut
      PROVE  Balance(x)
  <2> DEFINE a == Bit(x \notin sig)  b == Cardinality(Listed(x))  c == Cardinality(Dropping(x))
             d == Bit(wfence = x /\ wpc \in {"add", "addcount"})  e == Bit(wput = x)
  <2>0. a \in Int /\ d \in Int /\ e \in Int /\ b \in Int /\ c \in Int /\ ref[x] \in Int
    BY HeldParts, BitType DEF TypeOK, FenceType
  <2>1. Put(wput) /\ wput' = None
    BY <1>14 DEF AddPut, CallEnds
  <2> DEFINE w == Bit(wput = x)
  <2>20. w \in Int
    BY BitType
  <2>21. a' = a
    BY <1>14 DEF AddPut, CallEnds, fenceVars, memVars, listVars, argVars, callVars, writerVars, Bit
  <2>22. b' = b
    <3>1. Listed(x)' = Listed(x)
      BY <1>14 DEF AddPut, CallEnds, Listed, NumFences, fenceVars, memVars, listVars, argVars, callVars, writerVars
    <3> QED
      BY <3>1
  <2>23. c' = c
    <3>1. Dropping(x)' = Dropping(x)
      BY <1>14 DEF AddPut, CallEnds, Dropping, fenceVars, memVars, listVars, argVars, callVars, writerVars
    <3> QED
      BY <3>1
  <2>24. d' = d
    BY <1>14 DEF AddPut, CallEnds, fenceVars, memVars, listVars, argVars, callVars, writerVars, Bit
  <2>25. e' = 0 /\ e = w
    BY <2>1, ResvAssumption DEF Bit, None
  <2>26. ref'[x] = ref[x] - w
    BY <2>1, PutBy
  <2> HIDE DEF a, b, c, d, e, w
  <2>30. /\ b' \in Int /\ c' \in Int
         /\ ref'[x] = ref[x] + (a' - a) + (b' - b) + (c' - c) + (d' - d) + (e' - e)
    BY <2>0, <2>21, <2>22, <2>23, <2>24, <2>25, <2>26, <2>20
  <2> QED
    BY <2>30 DEF Balance, a, b, c, d, e
<1>15. ASSUME AddSet
      PROVE  Balance(x)
  <2>1. ref' = ref /\ sig' = sig /\ wput' = wput
    BY <1>15 DEF AddSet, ArgsInv, fenceVars, memVars, listVars, argVars, callVars, writerVars
  <2>2. (wfence = x /\ wpc \in {"add", "addcount"})' <=> wfence = x /\ wpc \in {"add", "addcount"}
    BY <1>15 DEF AddSet, fenceVars, memVars, listVars, argVars, callVars, writerVars
  <2>3. Listed(x)' = Listed(x)
    <3>1. /\ wpc = "add" /\ wi > num[fences] /\ wpc' = "addcount" /\ WritesTo(fences, wi, New)
          /\ UNCHANGED <<fences, num>>
      BY <1>15 DEF AddSet, WritesTo
    <3>2. fences \in Lists /\ wi = num[fences] + 1 /\ num[fences] + slots + 1 <= max[fences] /\ slots \in Nat
          /\ max[fences] <= Len(table[fences]) /\ max[fences] \in Nat /\ fences \in Nat /\ num[fences] \in Nat
      BY SMTT(60), <3>1, ListNumber DEF ListsInv, ArgsInv, SlotsInv, TablesInv, TypeOK, WriterType, ListType
    <3>3. Len(table[fences]) \in Nat /\ DOMAIN table[fences] = 1 .. Len(table[fences])
      BY <3>2 DEF TypeOK, ListType
    <3>4. wi \in DOMAIN table[fences] /\ \A j \in 1 .. num[fences] : j \in 1 .. Len(table[fences]) /\ j # wi
      <4> DEFINE n == num[fences]  m == max[fences]  k == Len(table[fences])
      <4>1. n \in Nat /\ m \in Nat /\ k \in Nat /\ n + slots + 1 <= m /\ m <= k /\ wi = n + 1 /\ slots \in Nat
        BY <3>2, <3>3
      <4> HIDE DEF n, m, k
      <4>2. wi \in 1 .. k /\ \A j \in 1 .. n : j \in 1 .. k /\ j # wi
        BY <4>1
      <4> QED
        BY <3>3, <4>2 DEF k, n
    <3>5. \A j \in 1 .. num[fences] : table'[fences][j] = table[fences][j]
      BY <3>1, <3>2, <3>4, WritesNew
    <3> QED
      BY SMTT(60), <3>1, <3>2, <3>5 DEF Listed, NumFences, None, Lists
  <2>4. Dropping(x)' = Dropping(x)
    BY <1>15 DEF AddSet, Dropping, fenceVars, memVars, listVars, argVars, callVars, writerVars
  <2> QED
    BY <2>1, <2>2, <2>3, <2>4, SameBalance DEF SameHolders
<1>16. ASSUME AddCount
      PROVE  Balance(x)
  <2> DEFINE a == Bit(x \notin sig)  b == Cardinality(Listed(x))  c == Cardinality(Dropping(x))
             d == Bit(wfence = x /\ wpc \in {"add", "addcount"})  e == Bit(wput = x)
  <2>0. a \in Int /\ d \in Int /\ e \in Int /\ b \in Int /\ c \in Int /\ ref[x] \in Int
    BY HeldParts, BitType DEF TypeOK, FenceType
  <2>1. /\ wpc = "addcount" /\ wpc' = "locked" /\ num' = [num EXCEPT ![fences] = @ + 1]
        /\ UNCHANGED <<fences, table>>
    BY <1>16 DEF AddCount, CallEnds, memVars
  <2>2. /\ fences \in Lists /\ num[fences] \in Nat /\ table[fences][num[fences] + 1].fence = wfence
        /\ wput = None
    BY <2>1, ListNumber DEF ListsInv, TypeOK, ListType, ArgsInv
  <2> DEFINE w == Bit(wfence = x)  n == num[fences] + 1
  <2>3. NumFences = num[fences] /\ NumFences' = n
    BY <2>1, <2>2 DEF NumFences, None, Lists, TypeOK, ListType
  <2>20. w \in Int
    BY BitType
  <2>21. a' = a
    BY <1>16 DEF AddCount, CallEnds, fenceVars, memVars, listVars, argVars, callVars, writerVars, Bit
  <2>22. b' = b + w
    <3>0. \A j : j # n => (j \in 1 .. num[fences] <=> j \in 1 .. n)
      BY <2>2
    <3>1. OnlyListed(n, x)
      BY <2>1, <2>3, <3>0 DEF OnlyListed, Listed
    <3>2. b' = b + Bit(n \in Listed(x)') - Bit(n \in Listed(x))
      BY <3>1, ListedMoves
    <3>3. n \notin 1 .. num[fences] /\ n \in 1 .. n
      BY <2>2
    <3>4. Bit(n \in Listed(x)') = w /\ Bit(n \in Listed(x)) = 0
      BY <2>1, <2>2, <2>3, <3>3 DEF Listed, Bit
    <3> HIDE DEF b, w
    <3> QED
      BY <2>0, <2>20, <3>2, <3>4
  <2>23. c' = c
    <3>1. Dropping(x)' = Dropping(x)
      BY <1>16 DEF AddCount, CallEnds, Dropping, fenceVars, memVars, listVars, argVars, callVars, writerVars
    <3> QED
      BY <3>1
  <2>24. d' = 0 /\ d = w
    BY <2>1 DEF Bit
  <2>25. e' = e
    BY <1>16, <2>2 DEF AddCount, CallEnds
  <2>26. ref'[x] = ref[x]
    BY <1>16 DEF AddCount, fenceVars
  <2> HIDE DEF a, b, c, d, e, w
  <2>30. /\ b' \in Int /\ c' \in Int
         /\ ref'[x] = ref[x] + (a' - a) + (b' - b) + (c' - c) + (d' - d) + (e' - e)
    BY <2>0, <2>21, <2>22, <2>23, <2>24, <2>25, <2>26, <2>20
  <2> QED
    BY <2>30 DEF Balance, a, b, c, d, e
<1>17. ASSUME NEW c \in Contexts, NEW f \in Fences, NEW u \in Usages, ReplaceFences(c, f, u)
      PROVE  Balance(x)
  <2>1. ref' = ref /\ sig' = sig /\ wput' = wput
    BY <1>17 DEF ReplaceFences, ArgsInv, fenceVars, memVars, listVars, argVars, callVars, writerVars
  <2>2. (wfence = x /\ wpc \in {"add", "addcount"})' <=> wfence = x /\ wpc \in {"add", "addcount"}
    BY <1>17 DEF ReplaceFences, fenceVars, memVars, listVars, argVars, callVars, writerVars
  <2>3. Listed(x)' = Listed(x)
    BY <1>17 DEF ReplaceFences, Listed, NumFences, fenceVars, memVars, listVars, argVars, callVars, writerVars
  <2>4. Dropping(x)' = Dropping(x)
    BY <1>17 DEF ReplaceFences, Dropping, fenceVars, memVars, listVars, argVars, callVars, writerVars
  <2> QED
    BY <2>1, <2>2, <2>3, <2>4, SameBalance DEF SameHolders
<1>18. ASSUME ReplaceSkip
      PROVE  Balance(x)
  <2>1. ref' = ref /\ sig' = sig /\ wput' = wput
    BY <1>18 DEF ReplaceSkip, ArgsInv, fenceVars, memVars, listVars, argVars, callVars, writerVars
  <2>2. (wfence = x /\ wpc \in {"add", "addcount"})' <=> wfence = x /\ wpc \in {"add", "addcount"}
    BY <1>18 DEF ReplaceSkip, fenceVars, memVars, listVars, argVars, callVars, writerVars
  <2>3. Listed(x)' = Listed(x)
    BY <1>18 DEF ReplaceSkip, Listed, NumFences, fenceVars, memVars, listVars, argVars, callVars, writerVars
  <2>4. Dropping(x)' = Dropping(x)
    BY <1>18 DEF ReplaceSkip, Dropping, fenceVars, memVars, listVars, argVars, callVars, writerVars
  <2> QED
    BY <2>1, <2>2, <2>3, <2>4, SameBalance DEF SameHolders
<1>19. ASSUME ReplaceSet
      PROVE  Balance(x)
  <2> DEFINE a == Bit(x \notin sig)  b == Cardinality(Listed(x))  c == Cardinality(Dropping(x))
             d == Bit(wfence = x /\ wpc \in {"add", "addcount"})  e == Bit(wput = x)
  <2>0. a \in Int /\ d \in Int /\ e \in Int /\ b \in Int /\ c \in Int /\ ref[x] \in Int
    BY HeldParts, BitType DEF TypeOK, FenceType
  <2>1. /\ wpc = "repl" /\ wi <= num[fences] /\ WritesTo(fences, wi, New) /\ wput' = Old.fence /\ wpc' = "replput"
        /\ UNCHANGED <<fences, num, wfence, wi>> /\ wput = None
    BY <1>19 DEF ReplaceSet, WritesTo, argVars, PutOld, ArgsInv
  <2>2. /\ fences \in Lists /\ fences \in Nat /\ num[fences] \in Nat /\ wi \in 1 .. num[fences]
        /\ wi \in DOMAIN table[fences]
        /\ num[fences] <= Len(table[fences]) /\ Len(table[fences]) \in Nat
    BY <2>1, OldType, ListNumber DEF TablesInv, TypeOK, ListType
  <2> DEFINE w == Bit(wfence = x)  v == Bit(Old.fence = x)
  <2>20. w \in Int /\ v \in Int
    BY BitType
  <2>21. a' = a
    BY <1>19 DEF ReplaceSet, fenceVars, memVars, listVars, argVars, callVars, writerVars, Bit
  <2>22. b' = b + w - v
    <3>1. OnlyListed(wi, x)
      <4>1. \A j \in 1 .. num[fences] : j # wi => table'[fences][j] = table[fences][j]
        <5>1. \A j \in 1 .. num[fences] : j \in 1 .. Len(table[fences])
          BY <2>2
        <5> QED
          BY <2>1, <2>2, <5>1, WritesNew
      <4> QED
        BY <2>1, <2>2, <4>1 DEF OnlyListed, Listed, NumFences, None, Lists
    <3>2. b' = b + Bit(wi \in Listed(x)') - Bit(wi \in Listed(x))
      BY <3>1, ListedMoves
    <3>3. table'[fences][wi].fence = wfence
      BY <2>1, <2>2, WritesNew DEF New
    <3>4. wi \in Listed(x) <=> Old.fence = x
      BY <2>1, <2>2 DEF Listed, NumFences, Old, None, Lists
    <3>5. wi \in Listed(x)' <=> wfence = x
      BY <2>1, <2>2, <3>3 DEF Listed, NumFences, Old, None, Lists
    <3>6. Bit(wi \in Listed(x)') = w /\ Bit(wi \in Listed(x)) = v
      BY <3>4, <3>5 DEF Bit
    <3> HIDE DEF b, w, v
    <3> QED
      BY <2>0, <2>20, <3>2, <3>6
  <2>23. c' = c
    <3>1. Dropping(x)' = Dropping(x)
      BY <1>19 DEF ReplaceSet, Dropping, fenceVars, memVars, listVars, argVars, callVars, writerVars
    <3> QED
      BY <3>1
  <2>24. d' = 0 /\ d = 0
    BY <2>1 DEF Bit
  <2>25. e' = v /\ e = 0
    BY <2>1, ResvAssumption DEF Bit, None
  <2>26. ref'[x] = ref[x] + w
    <3>1. Get(wfence)
      BY <1>19 DEF ReplaceSet, Get
    <3> QED
      BY <3>1, GetBy
  <2> HIDE DEF a, b, c, d, e, w, v
  <2>30. /\ b' \in Int /\ c' \in Int
         /\ ref'[x] = ref[x] + (a' - a) + (b' - b) + (c' - c) + (d' - d) + (e' - e)
    BY <2>0, <2>21, <2>22, <2>23, <2>24, <2>25, <2>26, <2>20
  <2> QED
    BY <2>30 DEF Balance, a, b, c, d, e
<1>20. ASSUME ReplacePut
      PROVE  Balance(x)
  <2> DEFINE a == Bit(x \notin sig)  b == Cardinality(Listed(x))  c == Cardinality(Dropping(x))
             d == Bit(wfence = x /\ wpc \in {"add", "addcount"})  e == Bit(wput = x)
  <2>0. a \in Int /\ d \in Int /\ e \in Int /\ b \in Int /\ c \in Int /\ ref[x] \in Int
    BY HeldParts, BitType DEF TypeOK, FenceType
  <2>1. Put(wput) /\ wput' = None
    BY <1>20 DEF ReplacePut
  <2> DEFINE w == Bit(wput = x)
  <2>20. w \in Int
    BY BitType
  <2>21. a' = a
    BY <1>20 DEF ReplacePut, fenceVars, memVars, listVars, argVars, callVars, writerVars, Bit
  <2>22. b' = b
    <3>1. Listed(x)' = Listed(x)
      BY <1>20 DEF ReplacePut, Listed, NumFences, fenceVars, memVars, listVars, argVars, callVars, writerVars
    <3> QED
      BY <3>1
  <2>23. c' = c
    <3>1. Dropping(x)' = Dropping(x)
      BY <1>20 DEF ReplacePut, Dropping, fenceVars, memVars, listVars, argVars, callVars, writerVars
    <3> QED
      BY <3>1
  <2>24. d' = d
    BY <1>20 DEF ReplacePut, fenceVars, memVars, listVars, argVars, callVars, writerVars, Bit
  <2>25. e' = 0 /\ e = w
    BY <2>1, ResvAssumption DEF Bit, None
  <2>26. ref'[x] = ref[x] - w
    BY <2>1, PutBy
  <2> HIDE DEF a, b, c, d, e, w
  <2>30. /\ b' \in Int /\ c' \in Int
         /\ ref'[x] = ref[x] + (a' - a) + (b' - b) + (c' - c) + (d' - d) + (e' - e)
    BY <2>0, <2>21, <2>22, <2>23, <2>24, <2>25, <2>26, <2>20
  <2> QED
    BY <2>30 DEF Balance, a, b, c, d, e
<1>21. ASSUME ReplaceDone
      PROVE  Balance(x)
  <2>1. ref' = ref /\ sig' = sig /\ wput' = wput
    BY <1>21 DEF ReplaceDone, CallEnds, ArgsInv, fenceVars, memVars, listVars, argVars, callVars, writerVars
  <2>2. (wfence = x /\ wpc \in {"add", "addcount"})' <=> wfence = x /\ wpc \in {"add", "addcount"}
    BY <1>21 DEF ReplaceDone, CallEnds, fenceVars, memVars, listVars, argVars, callVars, writerVars
  <2>3. Listed(x)' = Listed(x)
    BY <1>21 DEF ReplaceDone, CallEnds, Listed, NumFences, fenceVars, memVars, listVars, argVars, callVars, writerVars
  <2>4. Dropping(x)' = Dropping(x)
    BY <1>21 DEF ReplaceDone, CallEnds, Dropping, fenceVars, memVars, listVars, argVars, callVars, writerVars
  <2> QED
    BY <2>1, <2>2, <2>3, <2>4, SameBalance DEF SameHolders
<1>22. ASSUME Fini
      PROVE  Balance(x)
  <2>1. ref' = ref /\ sig' = sig /\ wput' = wput /\ UNCHANGED <<fences, num, table>>
        /\ wpc = "locked" /\ wi' = 1 /\ wpc' = IF fences = None THEN "dead" ELSE "fini"
    BY <1>22 DEF Fini, fenceVars, memVars, listVars, argVars, callVars, writerVars
  <2>2. (wfence = x /\ wpc \in {"add", "addcount"})' <=> wfence = x /\ wpc \in {"add", "addcount"}
    BY <2>1
  <2>3. Listed(x)' = Listed(x)
    <3>1. CASE fences = None
      <4>1. NumFences = 0
        BY <3>1 DEF NumFences
      <4> QED
        BY <2>1, <3>1, <4>1 DEF Listed
    <3>2. CASE fences # None
      <4>1. NumFences \in Nat /\ NumFences' = NumFences /\ wpc' = "fini"
        BY <2>1, <3>2, SeenFences DEF NumFences
      <4>2. \A j \in 1 .. NumFences : j >= 1
        BY <4>1
      <4> QED
        BY <2>1, <4>1, <4>2 DEF Listed
    <3> QED
      BY <3>1, <3>2
  <2>4. Dropping(x)' = Dropping(x)
    BY <2>1 DEF Dropping
  <2> QED
    BY <2>1, <2>2, <2>3, <2>4, SameBalance DEF SameHolders
<1>23. ASSUME FiniPut
      PROVE  Balance(x)
  <2> DEFINE a == Bit(x \notin sig)  b == Cardinality(Listed(x))  c == Cardinality(Dropping(x))
             d == Bit(wfence = x /\ wpc \in {"add", "addcount"})  e == Bit(wput = x)
  <2>0. a \in Int /\ d \in Int /\ e \in Int /\ b \in Int /\ c \in Int /\ ref[x] \in Int
    BY HeldParts, BitType DEF TypeOK, FenceType
  <2>1. /\ wpc = "fini" /\ wi <= num[fences] /\ Put(Old.fence) /\ wi' = wi + 1 /\ wpc' = "fini"
        /\ UNCHANGED <<fences, num, table>>
    BY <1>23 DEF FiniPut, listVars
  <2>2. fences \in Lists /\ num[fences] \in Nat /\ wi \in 1 .. num[fences] /\ wi \in Nat
    BY <2>1, OldType
  <2>3. NumFences = num[fences] /\ NumFences' = num[fences]
    BY <2>1, <2>2 DEF NumFences, None, Lists
  <2> DEFINE w == Bit(Old.fence = x)
  <2>20. w \in Int
    BY BitType
  <2>21. a' = a
    BY <1>23 DEF FiniPut, fenceVars, memVars, listVars, argVars, callVars, writerVars, Bit
  <2>22. b' = b - w
    <3>0. \A j : j # wi /\ j \in 1 .. num[fences] => (j >= wi <=> j >= wi + 1)
      BY <2>2
    <3>1. OnlyListed(wi, x)
      BY <2>1, <2>3, <3>0 DEF OnlyListed, Listed
    <3>2. b' = b + Bit(wi \in Listed(x)') - Bit(wi \in Listed(x))
      BY <3>1, ListedMoves
    <3>3. ~(wi >= wi + 1) /\ wi >= wi
      BY <2>2
    <3>4. Bit(wi \in Listed(x)') = 0 /\ Bit(wi \in Listed(x)) = w
      BY <2>1, <2>2, <2>3, <3>3 DEF Listed, Bit, Old
    <3> HIDE DEF b, w
    <3> QED
      BY <2>0, <2>20, <3>2, <3>4
  <2>23. c' = c
    <3>1. Dropping(x)' = Dropping(x)
      BY <1>23 DEF FiniPut, Dropping, fenceVars, memVars, listVars, argVars, callVars, writerVars
    <3> QED
      BY <3>1
  <2>24. d' = d
    BY <1>23 DEF FiniPut, fenceVars, memVars, listVars, argVars, callVars, writerVars, Bit
  <2>25. e' = e
    BY <1>23 DEF FiniPut, ArgsInv, fenceVars, memVars, listVars, argVars, callVars, writerVars, Bit
  <2>26. ref'[x] = ref[x] - w
    BY <2>1, PutBy
  <2> HIDE DEF a, b, c, d, e, w
  <2>30. /\ b' \in Int /\ c' \in Int
         /\ ref'[x] = ref[x] + (a' - a) + (b' - b) + (c' - c) + (d' - d) + (e' - e)
    BY <2>0, <2>21, <2>22, <2>23, <2>24, <2>25, <2>26, <2>20
  <2> QED
    BY <2>30 DEF Balance, a, b, c, d, e
<1>24. ASSUME FiniFree
      PROVE  Balance(x)
  <2>1. ref' = ref /\ sig' = sig /\ wput' = wput
    BY <1>24 DEF FiniFree, ArgsInv, fenceVars, memVars, listVars, argVars, callVars, writerVars
  <2>2. (wfence = x /\ wpc \in {"add", "addcount"})' <=> wfence = x /\ wpc \in {"add", "addcount"}
    BY <1>24 DEF FiniFree, fenceVars, memVars, listVars, argVars, callVars, writerVars
  <2>3. Listed(x)' = Listed(x)
    <3>1. wpc = "fini" /\ wpc' = "dead" /\ wi > num[fences] /\ fences # None
      BY <1>24 DEF FiniFree, ListsInv
    <3>2. num[fences] \in Nat /\ wi \in Nat
      BY <3>1, ListNumber DEF TypeOK, ListType, WriterType
    <3>3. ~\E j \in 1 .. num[fences] : j >= wi
      BY <3>1, <3>2
    <3> QED
      BY <3>1, <3>3 DEF Listed, NumFences
  <2>4. Dropping(x)' = Dropping(x)
    BY <1>24 DEF FiniFree, Dropping, fenceVars, memVars, listVars, argVars, callVars, writerVars
  <2> QED
    BY <2>1, <2>2, <2>3, <2>4, SameBalance DEF SameHolders
<1> QED
  BY <1>1, <1>2, <1>3, <1>4, <1>5, <1>6, <1>7, <1>8, <1>9, <1>10, <1>11, <1>12, <1>13, <1>14, <1>15, <1>16, <1>17, <1>18, <1>19, <1>20, <1>21, <1>22, <1>23, <1>24 DEF WriterActs, WriterStep, WriterGoesOn

LEMMA RefsStep ==
  ASSUME TypeOK, ListsInv, TablesInv, CopyInv, SlotsInv, ArgsInv, CursorInv, RoomInv, CopyRefs, PlacesFinite,
         RefsExact, Next
  PROVE  RefsExact' /\ PlacesFinite'
<1>1. CASE ReaderStep
  <2>1. PICK r \in Readers : Others(r) /\ Does(r)
    BY <1>1, ReaderDoes
  <2> QED
    BY <1>1, <2>1, RefsReader, ReadersAreQuiet
<1>2. CASE WriterActs
  <2>1. Calm
    BY <1>2, WriterIsCalm
  <2>2. \A x \in Fences : ref'[x] = Held(x)'
    BY <1>2, <2>1, WriterBalance, BalanceHeld
  <2>3. PlacesFinite'
    <3>1. \A x \in Fences : Places(x)' = Places(x)
      BY <2>1, ReaderHoldsOn
    <3> QED
      BY <3>1 DEF PlacesFinite
  <2> QED
    BY <2>2, <2>3 DEF RefsExact
<1> QED
  BY <1>1, <1>2 DEF Next, ReaderStep, WriterActs

LEMMA CopySetsFinite ==
  ASSUME NEW f, wi \in Nat, wk \in Nat, num[wnew] \in Nat, max[wnew] \in Nat
  PROVE  IsFiniteSet(CopyFrom(f)) /\ IsFiniteSet(AtFront(f)) /\ IsFiniteSet(AtBack(f))
<1> DEFINE n == num[wnew]  m == max[wnew]  i == wi - 1  k == wk + 1
           S == CopyFrom(f)  F == AtFront(f)  B == AtBack(f)
<1>1. n \in Int /\ m \in Int /\ i \in Int /\ k \in Int
  OBVIOUS
<1>2. S \subseteq 1 .. i /\ F \subseteq 1 .. n /\ B \subseteq k .. m
  BY DEF CopyFrom, AtFront, AtBack
<1> HIDE DEF n, m, i, k, S, F, B
<1>3. IsFiniteSet(1 .. i)
  BY <1>1, FS_Interval
<1>5. IsFiniteSet(1 .. n)
  BY <1>1, FS_Interval
<1>6. IsFiniteSet(k .. m)
  BY <1>1, FS_Interval
<1>4. IsFiniteSet(S) /\ IsFiniteSet(F) /\ IsFiniteSet(B)
  BY <1>2, <1>3, <1>5, <1>6, FS_Subset
<1> QED
  BY <1>4 DEF S, F, B

LEMMA CopyRefsStep ==
  ASSUME TypeOK, ListsInv, TablesInv, CopyInv, CopyRefs, Next
  PROVE  CopyRefs'
<1> USE DEF CopyRefs
<1>1. ASSUME NEW f \in Fences, Signal(f)
      PROVE  CopyRefs'
  BY <1>1 DEF Signal, writerVars, listVars, callVars, CopyFrom, AtFront, AtBack
<1>2. ASSUME Unlock
      PROVE  CopyRefs'
  BY <1>2 DEF Unlock
<1>3. ASSUME NEW n \in 1 .. MaxReserve, ReserveEnough(n)
      PROVE  CopyRefs'
  BY <1>3 DEF ReserveEnough
<1>4. ASSUME NEW n \in 1 .. MaxReserve, ReserveAlloc(n)
      PROVE  CopyRefs'
  <2> DEFINE l == wnew + 1  m == NewMax(fences, n)
  <2>1. m \in Nat
    BY NewMaxFits
  <2>2. l \in Lists /\ l > wnew
    BY <1>4, ListNumber DEF ReserveAlloc, Lists
  <2>3. /\ wi' = 1 /\ wk' = m /\ wnew' = l /\ num' = num /\ max' = [max EXCEPT ![l] = m]
    BY <1>4 DEF ReserveAlloc
  <2>4. max'[l] = m /\ num'[l] = 0
    BY <2>2, <2>3 DEF TypeOK, ListType, TablesInv
  <2> HIDE DEF m, l
  <2>5. 1 .. wi' - 1 = {} /\ 1 .. num'[wnew'] = {} /\ wk' + 1 .. max'[wnew'] = {}
    BY <2>1, <2>3, <2>4
  <2>6. ASSUME NEW f \in Fences
        PROVE  Cardinality(CopyFrom(f))' = Cardinality(AtFront(f))' + Cardinality(AtBack(f))'
    <3>1. CopyFrom(f)' = {} /\ AtFront(f)' = {} /\ AtBack(f)' = {}
      BY <2>5 DEF CopyFrom, AtFront, AtBack
    <3> QED
      BY <3>1, FS_EmptySet
  <2> QED
    BY <2>6
<1>5. ASSUME ReserveCopySignaled
      PROVE  CopyRefs'
  <2>1. /\ wpc = "copy" /\ Copies /\ wi' = wi + 1 /\ wk' = wk - 1 /\ UNCHANGED <<wold, wnew, max>>
    BY <1>5 DEF ReserveCopySignaled
  <2>2. /\ wold = fences /\ fences \in Lists /\ wi \in 1 .. num[fences] /\ wi \in Nat /\ wk \in Nat
        /\ wnew \in Lists /\ wnew # fences /\ num[wnew] \in Nat /\ max[wnew] \in Nat
        /\ wk \in 1 .. max[wnew] /\ num[wnew] + 1 <= wk /\ wold # None
    BY <2>1, CopiedType, CopyPlace DEF TypeOK, WriterType, Copies
  <2>3. /\ table'[wold] = table[wold]
        /\ \A j \in 1 .. max[wnew] : table'[wnew][j] = IF j = wk THEN [fence |-> Copied.fence, usage |-> 0] ELSE table[wnew][j]
    BY <1>5, <2>2, WritesSignaled
  <2>4. num'[wnew] = num[wnew]
    BY <1>5, <2>2 DEF ReserveCopySignaled, TypeOK, ListType
  <2>5. ASSUME NEW f \in Fences
        PROVE  Cardinality(CopyFrom(f))' = Cardinality(AtFront(f))' + Cardinality(AtBack(f))'
    <3> DEFINE S == CopyFrom(f)  F == AtFront(f)  B == AtBack(f)
    <3>1. Cardinality(S) = Cardinality(F) + Cardinality(B)
      BY <2>1, <2>2 DEF CopyRefs
    <3>2. IsFiniteSet(S) /\ IsFiniteSet(F) /\ IsFiniteSet(B)
      BY <2>2, CopySetsFinite
    <3>3. S' = (IF Copied.fence = f THEN S \cup {wi} ELSE S) /\ wi \notin S
      <4>1. \A j : j \in 1 .. wi + 1 - 1 <=> j \in 1 .. wi - 1 \/ j = wi
        BY <2>2
      <4>2. wi \notin 1 .. wi - 1
        BY <2>2
      <4>3. S' = {j \in 1 .. wi + 1 - 1 : table[wold][j].fence = f}
        <5> DEFINE n == wi - 1  t == table[wold]
        <5>1. n' = wi + 1 - 1
          <6>1. wi' = wi + 1 /\ wi \in Nat
            BY <2>1, <2>2
          <6> QED
            BY <6>1
        <5>3. table'[wold'] = table[wold]
          BY <2>1, <2>3
        <5>4. t' = t
          BY <5>3
        <5>2. S' = {j \in 1 .. n' : t'[j].fence = f} /\ t = table[wold]
          BY DEF CopyFrom
        <5> HIDE DEF S, n, t
        <5> QED
          BY <5>1, <5>2, <5>4
      <4>4. S = {j \in 1 .. wi - 1 : table[wold][j].fence = f} /\ Copied.fence = table[wold][wi].fence
        BY DEF CopyFrom, Copied
      <4> HIDE DEF S
      <4> QED
        BY <4>1, <4>2, <4>3, <4>4
    <3>4. F' = F
      <4>1. \A j \in 1 .. num[wnew] : j \in 1 .. max[wnew] /\ j # wk
        BY <2>2
      <4>2. \A j \in 1 .. num[wnew] : table'[wnew][j] = table[wnew][j]
        BY <2>3, <4>1
      <4> QED
        BY <2>1, <2>4, <4>2 DEF AtFront
    <3>5. B' = (IF Copied.fence = f THEN B \cup {wk} ELSE B) /\ wk \notin B
      <4>1. \A j : j \in wk - 1 + 1 .. max[wnew] <=> j \in wk + 1 .. max[wnew] \/ j = wk
        BY <2>2
      <4>2. wk \notin wk + 1 .. max[wnew]
        BY <2>2
      <4>3. \A j \in wk + 1 .. max[wnew] : j \in 1 .. max[wnew] /\ j # wk
        BY <2>2
      <4>4. B' = {j \in wk - 1 + 1 .. max[wnew] : table'[wnew][j].fence = f}
        BY <2>1 DEF AtBack
      <4>5. B = {j \in wk + 1 .. max[wnew] : table[wnew][j].fence = f}
        BY DEF AtBack
      <4>6. table'[wnew][wk].fence = Copied.fence /\ \A j \in wk + 1 .. max[wnew] : table'[wnew][j] = table[wnew][j]
        BY <2>2, <2>3, <4>3
      <4> HIDE DEF B
      <4> QED
        BY <4>1, <4>2, <4>4, <4>5, <4>6
    <3> HIDE DEF S, F, B
    <3>6. CASE Copied.fence = f
      <4>1. S' = S \cup {wi} /\ wi \notin S /\ B' = B \cup {wk} /\ wk \notin B /\ F' = F
        BY <3>3, <3>4, <3>5, <3>6
      <4>2. Cardinality(S') = Cardinality(S) + 1 /\ Cardinality(B') = Cardinality(B) + 1
        BY <3>2, <4>1, FS_AddElement
      <4>3. Cardinality(F) \in Nat /\ Cardinality(B) \in Nat /\ Cardinality(F') = Cardinality(F)
        BY <3>2, <4>1, FS_CardinalityType
      <4>4. Cardinality(S') = Cardinality(F') + Cardinality(B')
        BY <3>1, <4>2, <4>3
      <4> QED
        BY <4>4 DEF S, F, B
    <3>7. CASE Copied.fence # f
      <4>1. S' = S /\ F' = F /\ B' = B
        BY <3>3, <3>4, <3>5, <3>7
      <4>2. Cardinality(S') = Cardinality(F') + Cardinality(B')
        BY <3>1, <4>1
      <4> QED
        BY <4>2 DEF S, F, B
    <3> QED
      BY <3>6, <3>7
  <2> QED
    BY <2>5
<1>6. ASSUME ReserveCopyActive
      PROVE  CopyRefs'
  <2>1. /\ wpc = "copy" /\ Copies /\ wi' = wi + 1 /\ wk' = wk /\ UNCHANGED <<wold, wnew, max>>
    BY <1>6 DEF ReserveCopyActive
  <2>2. /\ wold = fences /\ fences \in Lists /\ wi \in 1 .. num[fences] /\ wi \in Nat /\ wk \in Nat
        /\ wnew \in Lists /\ wnew # fences /\ num[wnew] \in Nat /\ max[wnew] \in Nat
        /\ wk \in 1 .. max[wnew] /\ num[wnew] + 1 <= wk /\ wold # None
    BY <2>1, CopiedType, CopyPlace DEF TypeOK, WriterType, Copies
  <2>3. /\ table'[wold] = table[wold]
        /\ \A j \in 1 .. max[wnew] : table'[wnew][j] = IF j = num[wnew] + 1 THEN Copied ELSE table[wnew][j]
    BY <1>6, <2>2, WritesActive
  <2>4. num'[wnew] = num[wnew] + 1
    BY <1>6, <2>2 DEF ReserveCopyActive, TypeOK, ListType
  <2>5. ASSUME NEW f \in Fences
        PROVE  Cardinality(CopyFrom(f))' = Cardinality(AtFront(f))' + Cardinality(AtBack(f))'
    <3> DEFINE S == CopyFrom(f)  F == AtFront(f)  B == AtBack(f)
    <3>1. Cardinality(S) = Cardinality(F) + Cardinality(B)
      BY <2>1, <2>2 DEF CopyRefs
    <3>2. IsFiniteSet(S) /\ IsFiniteSet(F) /\ IsFiniteSet(B)
      BY <2>2, CopySetsFinite
    <3>3. S' = (IF Copied.fence = f THEN S \cup {wi} ELSE S) /\ wi \notin S
      <4>1. \A j : j \in 1 .. wi + 1 - 1 <=> j \in 1 .. wi - 1 \/ j = wi
        BY <2>2
      <4>2. wi \notin 1 .. wi - 1
        BY <2>2
      <4>3. S' = {j \in 1 .. wi + 1 - 1 : table[wold][j].fence = f}
        <5> DEFINE n == wi - 1  t == table[wold]
        <5>1. n' = wi + 1 - 1
          <6>1. wi' = wi + 1 /\ wi \in Nat
            BY <2>1, <2>2
          <6> QED
            BY <6>1
        <5>3. table'[wold'] = table[wold]
          BY <2>1, <2>3
        <5>4. t' = t
          BY <5>3
        <5>2. S' = {j \in 1 .. n' : t'[j].fence = f} /\ t = table[wold]
          BY DEF CopyFrom
        <5> HIDE DEF S, n, t
        <5> QED
          BY <5>1, <5>2, <5>4
      <4>4. S = {j \in 1 .. wi - 1 : table[wold][j].fence = f} /\ Copied.fence = table[wold][wi].fence
        BY DEF CopyFrom, Copied
      <4> HIDE DEF S
      <4> QED
        BY <4>1, <4>2, <4>3, <4>4
    <3>4. F' = (IF Copied.fence = f THEN F \cup {num[wnew] + 1} ELSE F) /\ num[wnew] + 1 \notin F
      <4> DEFINE n == num[wnew]  m == max[wnew]
      <4>0. n \in Nat /\ m \in Nat /\ n + 1 <= m
        BY <2>2
      <4>3. /\ num'[wnew] = n + 1 /\ num[wnew] + 1 = n + 1
            /\ \A j \in 1 .. m : table'[wnew][j] = IF j = n + 1 THEN Copied ELSE table[wnew][j]
        BY <2>3, <2>4
      <4>4. F = {j \in 1 .. n : table[wnew][j].fence = f}
        BY DEF AtFront
      <4>5. F' = {j \in 1 .. n + 1 : table'[wnew][j].fence = f}
        BY <2>1, <2>4 DEF AtFront
      <4> HIDE DEF n, m, F
      <4>1. \A j : j \in 1 .. n + 1 <=> j \in 1 .. n \/ j = n + 1
        BY <4>0
      <4>2. n + 1 \notin 1 .. n /\ n + 1 \in 1 .. m /\ \A j \in 1 .. n : j \in 1 .. m /\ j # n + 1
        BY <4>0
      <4>6. table'[wnew][n + 1] = Copied /\ \A j \in 1 .. n : table'[wnew][j] = table[wnew][j]
        BY <4>2, <4>3
      <4> QED
        BY <4>1, <4>2, <4>3, <4>4, <4>5, <4>6
    <3>5. B' = B
      <4>1. \A j \in wk + 1 .. max[wnew] : j \in 1 .. max[wnew] /\ j # num[wnew] + 1
        BY <2>2
      <4>2. \A j \in wk + 1 .. max[wnew] : table'[wnew][j] = table[wnew][j]
        BY <2>3, <4>1
      <4> QED
        BY <2>1, <4>2 DEF AtBack
    <3> HIDE DEF S, F, B
    <3>6. CASE Copied.fence = f
      <4>1. S' = S \cup {wi} /\ wi \notin S /\ F' = F \cup {num[wnew] + 1} /\ num[wnew] + 1 \notin F /\ B' = B
        BY <3>3, <3>4, <3>5, <3>6
      <4>2. Cardinality(S') = Cardinality(S) + 1 /\ Cardinality(F') = Cardinality(F) + 1
        BY <3>2, <4>1, FS_AddElement
      <4>3. Cardinality(F) \in Nat /\ Cardinality(B) \in Nat /\ Cardinality(B') = Cardinality(B)
        BY <3>2, <4>1, FS_CardinalityType
      <4>4. Cardinality(S') = Cardinality(F') + Cardinality(B')
        BY <3>1, <4>2, <4>3
      <4> QED
        BY <4>4 DEF S, F, B
    <3>7. CASE Copied.fence # f
      <4>1. S' = S /\ F' = F /\ B' = B
        BY <3>3, <3>4, <3>5, <3>7
      <4>2. Cardinality(S') = Cardinality(F') + Cardinality(B')
        BY <3>1, <4>1
      <4> QED
        BY <4>2 DEF S, F, B
    <3> QED
      BY <3>6, <3>7
  <2> QED
    BY <2>5
<1>7. ASSUME ReserveFirst
      PROVE  CopyRefs'
  BY <1>7 DEF ReserveFirst, CallEnds
<1>8. ASSUME ReservePublish
      PROVE  CopyRefs'
  BY <1>8 DEF ReservePublish
<1>9. ASSUME ReserveDrop
      PROVE  CopyRefs'
  BY <1>9 DEF ReserveDrop
<1>10. ASSUME ReserveFree
      PROVE  CopyRefs'
  BY <1>10 DEF ReserveFree, CallEnds
<1>11. ASSUME NEW f \in Fences, NEW u \in Usages, AddFence(f, u)
      PROVE  CopyRefs'
  BY <1>11 DEF AddFence
<1>12. ASSUME AddScan
      PROVE  CopyRefs'
  BY <1>12 DEF AddScan
<1>13. ASSUME AddReplace
      PROVE  CopyRefs'
  BY <1>13 DEF AddReplace
<1>14. ASSUME AddPut
      PROVE  CopyRefs'
  BY <1>14 DEF AddPut, CallEnds
<1>15. ASSUME AddSet
      PROVE  CopyRefs'
  BY <1>15 DEF AddSet
<1>16. ASSUME AddCount
      PROVE  CopyRefs'
  BY <1>16 DEF AddCount, CallEnds
<1>17. ASSUME NEW c \in Contexts, NEW f \in Fences, NEW u \in Usages, ReplaceFences(c, f, u)
      PROVE  CopyRefs'
  BY <1>17 DEF ReplaceFences
<1>18. ASSUME ReplaceSkip
      PROVE  CopyRefs'
  BY <1>18 DEF ReplaceSkip
<1>19. ASSUME ReplaceSet
      PROVE  CopyRefs'
  BY <1>19 DEF ReplaceSet
<1>20. ASSUME ReplacePut
      PROVE  CopyRefs'
  BY <1>20 DEF ReplacePut
<1>21. ASSUME ReplaceDone
      PROVE  CopyRefs'
  BY <1>21 DEF ReplaceDone, CallEnds
<1>22. ASSUME Fini
      PROVE  CopyRefs'
  BY <1>22 DEF Fini
<1>23. ASSUME FiniPut
      PROVE  CopyRefs'
  BY <1>23 DEF FiniPut
<1>24. ASSUME FiniFree
      PROVE  CopyRefs'
  BY <1>24 DEF FiniFree
<1>25. ASSUME ReaderStep
       PROVE  CopyRefs'
  BY <1>25, ReadersAreQuiet DEF Quiet, CopyFrom, AtFront, AtBack
<1> QED
  BY <1>1, <1>2, <1>3, <1>4, <1>5, <1>6, <1>7, <1>8, <1>9, <1>10, <1>11, <1>12, <1>13, <1>14, <1>15, <1>16, <1>17, <1>18, <1>19, <1>20, <1>21, <1>22, <1>23, <1>24, <1>25 DEF Next, WriterStep, WriterGoesOn, ReaderStep

\* An entry that can be read is written only when a fence takes the place of another.
Writes ==
  \A l \in Lists : l <= fences =>
    \A j \in 1 .. num[l] :
      \/ table'[l][j] = table[l][j]
      \/ (AddReplace \/ ReplaceSet) /\ l = fences /\ j = wi /\ table'[l][j] = New

\* The free entry that add_fence() takes
LEMMA AddAt ==
  ASSUME TypeOK, ListsInv, TablesInv, SlotsInv, ArgsInv, wpc = "add", wi > num[fences]
  PROVE  fences \in Lists /\ wi = num[fences] + 1 /\ wi \in DOMAIN table[fences]
<1>1. fences \in Lists /\ fences \in Nat
  BY ListNumber DEF ListsInv
<1> DEFINE n == num[fences]  m == max[fences]  k == Len(table[fences])
<1>2. /\ n \in Nat /\ m \in Nat /\ k \in Nat /\ DOMAIN table[fences] = 1 .. k
      /\ wi \in Nat /\ slots \in Nat
  BY <1>1 DEF TypeOK, ListType, WriterType
<1>3. m <= k /\ wi > n /\ wi <= n + 1
  BY <1>1 DEF TablesInv, ArgsInv
<1>4. n + slots + 1 <= m
  BY DEF SlotsInv
<1> HIDE DEF n, m, k
<1>5. wi = n + 1 /\ wi \in 1 .. k
  BY <1>2, <1>3, <1>4
<1> QED
  BY <1>1, <1>2, <1>5 DEF n

LEMMA WriterWrites ==
  ASSUME TypeOK, ListsInv, TablesInv, CopyInv, SlotsInv, ArgsInv, WriterActs
  PROVE  Writes
<1> USE DEF Writes
<1>1. ASSUME NEW f \in Fences, Signal(f)
      PROVE  Writes
  BY <1>1 DEF Signal, listVars
<1>2. ASSUME Unlock
      PROVE  Writes
  BY <1>2 DEF Unlock, listVars
<1>3. ASSUME NEW n \in 1 .. MaxReserve, ReserveEnough(n)
      PROVE  Writes
  BY <1>3 DEF ReserveEnough, listVars
<1>4. ASSUME NEW n \in 1 .. MaxReserve, ReserveAlloc(n)
      PROVE  Writes
  <2>1. table' = [table EXCEPT ![wnew + 1] = [j \in 1 .. NewMax(fences, n) |-> NoEntry]] /\ wpc # "copy"
    BY <1>4 DEF ReserveAlloc
  <2>2. \A l \in Lists : l <= fences => l # wnew + 1
    BY <2>1, ListNumber DEF ListsInv, Lists, TypeOK, WriterType, MaybeList
  <2> QED
    BY <2>1, <2>2 DEF TypeOK, ListType
<1>5. ASSUME ReserveCopySignaled
      PROVE  Writes
  <2>1. wnew = fences + 1
    BY <1>5, CopyPlace DEF ReserveCopySignaled
  <2>2. \A l \in Lists : l <= fences => l # wnew
    BY <2>1, ListNumber DEF Lists
  <2> QED
    BY <1>5, <2>2, WritesSignaled
<1>6. ASSUME ReserveCopyActive
      PROVE  Writes
  <2>1. wnew = fences + 1
    BY <1>6, CopyPlace DEF ReserveCopyActive
  <2>2. \A l \in Lists : l <= fences => l # wnew
    BY <2>1, ListNumber DEF Lists
  <2> QED
    BY <1>6, <2>2, WritesActive
<1>7. ASSUME ReserveFirst
      PROVE  Writes
  BY <1>7 DEF ReserveFirst, listVars
<1>8. ASSUME ReservePublish
      PROVE  Writes
  BY <1>8 DEF ReservePublish, listVars
<1>9. ASSUME ReserveDrop
      PROVE  Writes
  BY <1>9 DEF ReserveDrop, listVars
<1>10. ASSUME ReserveFree
      PROVE  Writes
  BY <1>10 DEF ReserveFree, listVars
<1>11. ASSUME NEW f \in Fences, NEW u \in Usages, AddFence(f, u)
      PROVE  Writes
  BY <1>11 DEF AddFence, listVars
<1>12. ASSUME AddScan
      PROVE  Writes
  BY <1>12 DEF AddScan, listVars
<1>13. ASSUME AddReplace
      PROVE  Writes
  <2>1. WritesTo(fences, wi, New) /\ wpc = "add" /\ wi <= num[fences]
    BY <1>13 DEF AddReplace, WritesTo
  <2>2. fences \in Lists /\ wi \in DOMAIN table[fences]
    BY <2>1, OldType
  <2>3. \A j \in 1 .. num[fences] : j \in 1 .. Len(table[fences])
    BY SMTT(60), <2>1, <2>2, ListNumber DEF TypeOK, ListType, WriterType, TablesInv
  <2> QED
    BY <1>13, <2>1, <2>2, <2>3, WritesNew
<1>14. ASSUME AddPut
      PROVE  Writes
  BY <1>14 DEF AddPut, listVars
<1>15. ASSUME AddSet
      PROVE  Writes
  <2>1. WritesTo(fences, wi, New) /\ wpc = "add" /\ wi > num[fences]
    BY <1>15 DEF AddSet, WritesTo
  <2>2. fences \in Lists /\ wi \in DOMAIN table[fences]
    BY <1>15, AddAt DEF AddSet
  <2>3. \A j \in 1 .. num[fences] : j # wi /\ j \in 1 .. Len(table[fences])
    BY <2>1, <2>2, ListNumber DEF TypeOK, ListType, WriterType, TablesInv
  <2> QED
    BY <2>1, <2>2, <2>3, WritesNew
<1>16. ASSUME AddCount
      PROVE  Writes
  BY <1>16 DEF AddCount, listVars
<1>17. ASSUME NEW c \in Contexts, NEW f \in Fences, NEW u \in Usages, ReplaceFences(c, f, u)
      PROVE  Writes
  BY <1>17 DEF ReplaceFences, listVars
<1>18. ASSUME ReplaceSkip
      PROVE  Writes
  BY <1>18 DEF ReplaceSkip, listVars
<1>19. ASSUME ReplaceSet
      PROVE  Writes
  <2>1. WritesTo(fences, wi, New) /\ wpc = "repl" /\ wi <= num[fences]
    BY <1>19 DEF ReplaceSet, WritesTo
  <2>2. fences \in Lists /\ wi \in DOMAIN table[fences]
    BY <2>1, OldType
  <2>3. \A j \in 1 .. num[fences] : j \in 1 .. Len(table[fences])
    BY SMTT(60), <2>1, <2>2, ListNumber DEF TypeOK, ListType, WriterType, TablesInv
  <2> QED
    BY <1>19, <2>1, <2>2, <2>3, WritesNew
<1>20. ASSUME ReplacePut
      PROVE  Writes
  BY <1>20 DEF ReplacePut, listVars
<1>21. ASSUME ReplaceDone
      PROVE  Writes
  BY <1>21 DEF ReplaceDone, listVars
<1>22. ASSUME Fini
      PROVE  Writes
  BY <1>22 DEF Fini, listVars
<1>23. ASSUME FiniPut
      PROVE  Writes
  BY <1>23 DEF FiniPut, listVars
<1>24. ASSUME FiniFree
      PROVE  Writes
  BY <1>24 DEF FiniFree, listVars
<1> QED
  BY <1>1, <1>2, <1>3, <1>4, <1>5, <1>6, <1>7, <1>8, <1>9, <1>10, <1>11, <1>12, <1>13, <1>14, <1>15, <1>16, <1>17, <1>18, <1>19, <1>20, <1>21, <1>22, <1>23, <1>24 DEF WriterActs, WriterStep, WriterGoesOn

\* What r may read is not freed by this step.
StillKept(r) == \A f \in Fences : Kept(f, r) => Kept(f, r)'

LEMMA SameKept ==
  ASSUME NEW r, ref' = ref, grace' = grace
  PROVE  StillKept(r)
BY DEF StillKept, Kept

LEMMA GetKeeps ==
  ASSUME TypeOK, NEW r, NEW f, Get(f), grace' = grace
  PROVE  StillKept(r)
<1>1. ASSUME NEW g \in Fences, ref[g] > 0
      PROVE  ref'[g] > 0
  <2>1. ref'[g] \in Int /\ ref[g] \in Int /\ ref'[g] = ref[g] + Bit(f = g)
    BY GetBy
  <2> QED
    BY <1>1, <2>1, BitType
<1> QED
  BY <1>1 DEF StillKept, Kept

LEMMA PutKeeps ==
  ASSUME TypeOK, NEW r \in Readers, InRcu(r), NEW f, Put(f)
  PROVE  StillKept(r)
<1>1. ASSUME NEW g \in Fences, Kept(g, r)
      PROVE  Kept(g, r)'
  <2>1. /\ ref[g] \in Int /\ ref'[g] = IF g = f THEN ref[g] - 1 ELSE ref[g]
        /\ grace'[g] = IF g = f /\ ref[g] = 1 THEN RcuReaders ELSE grace[g]
    BY DEF Put, TypeOK, FenceType
  <2>2. r \in RcuReaders
    BY DEF RcuReaders
  <2>3. CASE g = f /\ ref[g] = 1
    BY <2>1, <2>2, <2>3 DEF Kept
  <2>4. CASE ~(g = f /\ ref[g] = 1)
    <3>1. grace'[g] = grace[g] /\ (ref[g] > 0 => ref'[g] > 0)
      BY <2>1, <2>4
    <3> QED
      BY <1>1, <3>1 DEF Kept
  <2> QED
    BY <2>3, <2>4
<1> QED
  BY <1>1 DEF StillKept

LEMMA WriterKeeps ==
  ASSUME TypeOK, WriterActs
  PROVE  \A r \in Readers : InRcu(r) => StillKept(r)
<1>1. ASSUME NEW f \in Fences, Signal(f)
      PROVE  \A r \in Readers : InRcu(r) => StillKept(r)
  BY <1>1, PutKeeps DEF Signal
<1>2. ASSUME Unlock
      PROVE  \A r \in Readers : InRcu(r) => StillKept(r)
  BY <1>2, SameKept DEF Unlock, fenceVars
<1>3. ASSUME NEW n \in 1 .. MaxReserve, ReserveEnough(n)
      PROVE  \A r \in Readers : InRcu(r) => StillKept(r)
  BY <1>3, SameKept DEF ReserveEnough, fenceVars
<1>4. ASSUME NEW n \in 1 .. MaxReserve, ReserveAlloc(n)
      PROVE  \A r \in Readers : InRcu(r) => StillKept(r)
  BY <1>4, SameKept DEF ReserveAlloc, fenceVars
<1>5. ASSUME ReserveCopySignaled
      PROVE  \A r \in Readers : InRcu(r) => StillKept(r)
  BY <1>5, SameKept DEF ReserveCopySignaled, fenceVars
<1>6. ASSUME ReserveCopyActive
      PROVE  \A r \in Readers : InRcu(r) => StillKept(r)
  BY <1>6, SameKept DEF ReserveCopyActive, fenceVars
<1>7. ASSUME ReserveFirst
      PROVE  \A r \in Readers : InRcu(r) => StillKept(r)
  BY <1>7, SameKept DEF ReserveFirst, fenceVars
<1>8. ASSUME ReservePublish
      PROVE  \A r \in Readers : InRcu(r) => StillKept(r)
  BY <1>8, SameKept DEF ReservePublish, fenceVars
<1>9. ASSUME ReserveDrop
      PROVE  \A r \in Readers : InRcu(r) => StillKept(r)
  BY <1>9, PutKeeps DEF ReserveDrop
<1>10. ASSUME ReserveFree
      PROVE  \A r \in Readers : InRcu(r) => StillKept(r)
  BY <1>10, SameKept DEF ReserveFree, fenceVars
<1>11. ASSUME NEW f \in Fences, NEW u \in Usages, AddFence(f, u)
      PROVE  \A r \in Readers : InRcu(r) => StillKept(r)
  <2>1. Get(f) /\ grace' = grace
    BY <1>11 DEF AddFence, Get
  <2> QED
    BY <2>1, GetKeeps
<1>12. ASSUME AddScan
      PROVE  \A r \in Readers : InRcu(r) => StillKept(r)
  BY <1>12, SameKept DEF AddScan, fenceVars
<1>13. ASSUME AddReplace
      PROVE  \A r \in Readers : InRcu(r) => StillKept(r)
  BY <1>13, SameKept DEF AddReplace, fenceVars
<1>14. ASSUME AddPut
      PROVE  \A r \in Readers : InRcu(r) => StillKept(r)
  BY <1>14, PutKeeps DEF AddPut
<1>15. ASSUME AddSet
      PROVE  \A r \in Readers : InRcu(r) => StillKept(r)
  BY <1>15, SameKept DEF AddSet, fenceVars
<1>16. ASSUME AddCount
      PROVE  \A r \in Readers : InRcu(r) => StillKept(r)
  BY <1>16, SameKept DEF AddCount, fenceVars
<1>17. ASSUME NEW c \in Contexts, NEW f \in Fences, NEW u \in Usages, ReplaceFences(c, f, u)
      PROVE  \A r \in Readers : InRcu(r) => StillKept(r)
  BY <1>17, SameKept DEF ReplaceFences, fenceVars
<1>18. ASSUME ReplaceSkip
      PROVE  \A r \in Readers : InRcu(r) => StillKept(r)
  BY <1>18, SameKept DEF ReplaceSkip, fenceVars
<1>19. ASSUME ReplaceSet
      PROVE  \A r \in Readers : InRcu(r) => StillKept(r)
  <2>1. Get(wfence) /\ grace' = grace
    BY <1>19 DEF ReplaceSet, Get
  <2> QED
    BY <2>1, GetKeeps
<1>20. ASSUME ReplacePut
      PROVE  \A r \in Readers : InRcu(r) => StillKept(r)
  BY <1>20, PutKeeps DEF ReplacePut
<1>21. ASSUME ReplaceDone
      PROVE  \A r \in Readers : InRcu(r) => StillKept(r)
  BY <1>21, SameKept DEF ReplaceDone, fenceVars
<1>22. ASSUME Fini
      PROVE  \A r \in Readers : InRcu(r) => StillKept(r)
  BY <1>22, SameKept DEF Fini, fenceVars
<1>23. ASSUME FiniPut
      PROVE  \A r \in Readers : InRcu(r) => StillKept(r)
  BY <1>23, PutKeeps DEF FiniPut
<1>24. ASSUME FiniFree
      PROVE  \A r \in Readers : InRcu(r) => StillKept(r)
  BY <1>24, SameKept DEF FiniFree, fenceVars
<1> QED
  BY <1>1, <1>2, <1>3, <1>4, <1>5, <1>6, <1>7, <1>8, <1>9, <1>10, <1>11, <1>12, <1>13, <1>14, <1>15, <1>16, <1>17, <1>18, <1>19, <1>20, <1>21, <1>22, <1>23, <1>24 DEF WriterActs, WriterStep, WriterGoesOn

LEMMA RcuFencesWriter ==
  ASSUME TypeOK, ListsInv, TablesInv, CopyInv, SlotsInv, ArgsInv, CursorInv, RcuFences,
         PlacesFinite, RefsExact, WriterActs
  PROVE  RcuFences'
<1>1. ASSUME NEW r \in Readers, InRcu(r)'
      PROVE  /\ cursor'[r].fences # None =>
                  \A j \in 1 .. cursor'[r].num : Kept(table[cursor[r].fences][j].fence, r)'
             /\ pc'[r] = "get" => Kept(cand[r].fence, r)'
  <2>1. InRcu(r) /\ cursor'[r] = cursor[r] /\ cand'[r] = cand[r] /\ pc'[r] = pc[r]
    BY <1>1, WriterIsCalm DEF Calm, InRcu
  <2>2. StillKept(r)
    BY <2>1, WriterKeeps
  <2>3. pc[r] = "get" => cand[r].fence \in Fences /\ Kept(cand[r].fence, r)
    BY <2>1 DEF RcuFences, CursorInv, CursorOk
  <2>4. ASSUME cursor[r].fences # None, NEW j \in 1 .. cursor[r].num
        PROVE  Kept(table[cursor[r].fences][j].fence, r)'
    <3> DEFINE l == cursor[r].fences
    <3>1. l \in Lists /\ l <= fences /\ j \in 1 .. num[l] /\ table[l][j].fence \in Fences
      BY EntryRead
    <3>2. Kept(table[l][j].fence, r) /\ l' = l
      BY <2>1, <2>4 DEF RcuFences
    <3> HIDE DEF l
    <3>3. CASE table'[l][j] = table[l][j]
      <4>1. Kept(table[l][j].fence, r)' <=> ref'[table[l][j].fence] > 0 \/ r \in grace'[table[l][j].fence]
        BY <3>2, <3>3 DEF Kept
      <4> QED
        BY <2>2, <3>1, <3>2, <4>1 DEF StillKept, Kept, l
    <3>4. CASE (AddReplace \/ ReplaceSet) /\ table'[l][j] = New
      <4>1. wfence \in Fences /\ table'[l][j].fence = wfence
        BY <3>4 DEF ArgsInv, AddReplace, ReplaceSet, New
      <4>2. ref[wfence] > 0
        BY <3>4, <4>1, RefPositive DEF ArgsInv, AddReplace, ReplaceSet
      <4>3. Kept(wfence, r)
        BY <4>2 DEF Kept
      <4>4. ref'[wfence] > 0 \/ r \in grace'[wfence]
        BY <2>2, <4>1, <4>3 DEF StillKept, Kept
      <4> QED
        BY <3>2, <4>1, <4>4 DEF Kept, l
    <3> QED
      BY <3>1, <3>3, <3>4, WriterWrites DEF Writes
  <2> QED
    BY <2>1, <2>2, <2>3, <2>4 DEF StillKept, Kept
<1> QED
  BY <1>1 DEF RcuFences

\* A fence of the published list has a reference.
LEMMA ListedKept ==
  ASSUME TypeOK, ListsInv, TablesInv, PlacesFinite, RefsExact, wpc \notin {"fini", "dead"},
         NEW j \in 1 .. NumFences
  PROVE  table[fences][j].fence \in Fences /\ ref[table[fences][j].fence] > 0
<1>1. NumFences \in Nat /\ fences \in Lists /\ NumFences = num[fences] /\ fences \in Nat
  BY SeenFences, ListNumber DEF NumFences
<1>2. table[fences][j].fence \in Fences
  BY <1>1 DEF TablesInv
<1> DEFINE f == table[fences][j].fence
<1>3. j \in Listed(f)
  BY DEF Listed
<1> QED
  BY <1>2, <1>3, RefPositive

\* What RcuFences says of r, after the step
OkAfter(r) ==
  InRcu(r)' =>
    /\ cursor'[r].fences # None =>
         \A j \in 1 .. cursor'[r].num :
           LET f == table'[cursor'[r].fences][j].fence IN ref'[f] > 0 \/ r \in grace'[f]
    /\ pc'[r] = "get" => ref'[cand'[r].fence] > 0 \/ r \in grace'[cand'[r].fence]

LEMMA OkForAll ==
  ASSUME \A r \in Readers : OkAfter(r)
  PROVE  RcuFences'
BY DEF RcuFences, OkAfter, Kept

\* The fences of a list stay kept for those who go on walking it.
LEMMA ListKept ==
  ASSUME TypeOK, TablesInv, CursorInv, RcuFences, Quiet, NEW r \in Readers, InRcu(r),
         StillKept(r), cursor'[r].fences = cursor[r].fences, cursor'[r].num = cursor[r].num
  PROVE  /\ cursor'[r].fences # None =>
              \A j \in 1 .. cursor'[r].num :
                LET f == table'[cursor'[r].fences][j].fence IN ref'[f] > 0 \/ r \in grace'[f]
         /\ pc[r] = "get" =>
              cand[r].fence \in Fences
              /\ (ref'[cand[r].fence] > 0 \/ r \in grace'[cand[r].fence])
<1>1. table' = table
  BY DEF Quiet
<1>2. ASSUME cursor[r].fences # None, NEW j \in 1 .. cursor[r].num
      PROVE  LET f == table[cursor[r].fences][j].fence IN ref'[f] > 0 \/ r \in grace'[f]
  <2>1. table[cursor[r].fences][j].fence \in Fences
    BY EntryRead
  <2>2. Kept(table[cursor[r].fences][j].fence, r)
    BY <1>2 DEF RcuFences
  <2> QED
    BY <2>1, <2>2 DEF StillKept, Kept
<1>3. pc[r] = "get" => cand[r].fence \in Fences /\ Kept(cand[r].fence, r)
  BY DEF RcuFences, CursorInv, CursorOk
<1> QED
  BY <1>1, <1>2, <1>3 DEF StillKept, Kept

LEMMA RcuFencesReader ==
  ASSUME TypeOK, ListsInv, TablesInv, CursorInv, RcuFences, PlacesFinite, RefsExact, Quiet,
         NEW r \in Readers, Others(r), Does(r)
  PROVE  RcuFences'
<1>1. OkAfter(r)
<2>1. ASSUME NEW o \in ReaderOps, NEW u \in 0 .. 3, Starts(r, o, u)
      PROVE  OkAfter(r)
  BY <2>1 DEF Starts, CursorIs, OkAfter
<2>2. ASSUME BeginsWalk(r)
      PROVE  OkAfter(r)
    <3>1. /\ pc[r] # "idle" /\ pc'[r] # "get" /\ cursor'[r].fences = fences
          /\ cursor'[r].num \in Nat /\ (cursor'[r].fences # None => cursor'[r].num <= NumFences) /\ NumFences \in Nat
      BY <2>2, SeenFences DEF BeginsWalk, CursorIs, Walk
    <3>2. wpc \notin {"fini", "dead"} /\ ref' = ref /\ table' = table
      BY <2>2, <3>1 DEF CursorInv, CursorOk, BeginsWalk, SameRefs, Quiet
    <3>3. ASSUME fences # None, NEW j \in 1 .. cursor'[r].num
          PROVE  ref[table[fences][j].fence] > 0
      <4>1. j \in 1 .. NumFences
        BY <3>1, <3>3
      <4> QED
        BY <3>2, <4>1, ListedKept
    <3> QED
      BY <3>1, <3>2, <3>3 DEF OkAfter, Kept
<2>3. ASSUME EndsWalk(r)
      PROVE  OkAfter(r)
    <3>1. StillKept(r)
      BY <2>3, PutKeeps DEF EndsWalk, InRcu
    <3>2. InRcu(r) /\ cursor'[r].fences = cursor[r].fences /\ cursor'[r].num = cursor[r].num
      BY <2>3 DEF EndsWalk, InRcu, CursorIs, SameCursorOf
    <3> QED
      BY <2>3, <3>1, <3>2, ListKept DEF OkAfter, EndsWalk
<2>4. ASSUME Reads(r)
      PROVE  OkAfter(r)
    <3>1. StillKept(r)
      BY <2>4, PutKeeps DEF Reads, InRcu
    <3>2. InRcu(r) /\ cursor'[r].fences = cursor[r].fences /\ cursor'[r].num = cursor[r].num
      BY <2>4 DEF Reads, InRcu, CursorIs, SameCursorOf
    <3>3. cursor[r].index + 1 \in 1 .. cursor[r].num /\ cursor[r].fences # None
      BY <2>4 DEF Reads, CursorInv, CursorOk, TypeOK, ReaderType, CursorType
    <3>4. cand'[r].fence \in Fences /\ Kept(cand'[r].fence, r)
      BY <2>4, <3>2, <3>3, EntryRead DEF Reads, RcuFences
    <3> QED
      BY <2>4, <3>1, <3>2, <3>4, ListKept DEF StillKept, OkAfter, Kept
<2>5. ASSUME Gets(r)
      PROVE  OkAfter(r)
    <3>1. StillKept(r)
      BY <2>5, GetKeeps DEF Gets, Get
    <3>2. InRcu(r) /\ cursor'[r].fences = cursor[r].fences /\ cursor'[r].num = cursor[r].num
      BY <2>5 DEF Gets, InRcu, CursorIs, SameCursorOf
    <3> QED
      BY <2>5, <3>1, <3>2, ListKept DEF OkAfter, Gets
<2>6. ASSUME Tests(r)
      PROVE  OkAfter(r)
    <3>1. StillKept(r)
      BY <2>6, SameKept DEF Tests, SameRefs
    <3>2. InRcu(r) /\ cursor'[r].fences = cursor[r].fences /\ cursor'[r].num = cursor[r].num
      BY <2>6 DEF Tests, InRcu, CursorIs, SameCursorOf
    <3> QED
      BY <2>6, <3>1, <3>2, ListKept DEF OkAfter, Tests
<2>7. ASSUME Returns(r)
      PROVE  OkAfter(r)
  BY <2>7 DEF Returns, OkAfter, InRcu
<2>8. ASSUME GoesOn(r)
      PROVE  OkAfter(r)
    <3>1. /\ pc[r] # "idle" /\ pc'[r] # "get" /\ cursor'[r].fences = fences
          /\ cursor'[r].num \in Nat /\ (cursor'[r].fences # None => cursor'[r].num <= NumFences) /\ NumFences \in Nat
      BY <2>8, SeenFences DEF GoesOn, CursorIs, Walk, CursorInv, CursorOk, TypeOK, ReaderType, CursorType, NumFences
    <3>2. wpc \notin {"fini", "dead"} /\ ref' = ref /\ table' = table
      BY <2>8, <3>1 DEF CursorInv, CursorOk, GoesOn, SameRefs, Quiet
    <3>3. ASSUME fences # None, NEW j \in 1 .. cursor'[r].num
          PROVE  ref[table[fences][j].fence] > 0
      <4>1. j \in 1 .. NumFences
        BY <3>1, <3>3
      <4> QED
        BY <3>2, <4>1, ListedKept
    <3> QED
      BY <3>1, <3>2, <3>3 DEF OkAfter, Kept
<2>9. ASSUME HasWaited(r)
      PROVE  OkAfter(r)
  BY <2>9 DEF HasWaited, OkAfter, InRcu
<2>10. ASSUME Stops(r)
      PROVE  OkAfter(r)
  BY <2>10 DEF Stops, OkAfter, InRcu
<2>11. ASSUME Drops(r)
      PROVE  OkAfter(r)
  BY <2>11 DEF Drops, OkAfter, InRcu
<2>12. ASSUME Keeps(r)
      PROVE  OkAfter(r)
  BY <2>12 DEF Keeps, OkAfter, InRcu
  <2> QED
    BY <2>1, <2>2, <2>3, <2>4, <2>5, <2>6, <2>7, <2>8, <2>9, <2>10, <2>11, <2>12 DEF Does
<1>2. ASSUME NEW q \in Readers, q # r, InRcu(q)
      PROVE  StillKept(q)
  <2>1. CASE SameRefs
    BY <2>1, SameKept DEF SameRefs
  <2>2. ASSUME NEW f, Put(f)
        PROVE  StillKept(q)
    BY <1>2, <2>2, PutKeeps
  <2>3. ASSUME NEW f, ref' = [ref EXCEPT ![f] = @ + 1], grace' = grace
        PROVE  StillKept(q)
    BY <2>3, GetKeeps DEF Get
  <2>4. CASE ref' = ref /\ RcuUnlock(r)
    BY <1>2, <2>4 DEF RcuUnlock, StillKept, Kept
  <2> QED
    BY <2>1, <2>2, <2>3, <2>4 DEF Does, Starts, BeginsWalk, EndsWalk, Reads, Gets, Tests, Returns, GoesOn,
                             HasWaited, Stops, Drops, Keeps
<1>3. ASSUME NEW q \in Readers, q # r
      PROVE  OkAfter(q)
  <2>1. pc'[q] = pc[q] /\ cursor'[q] = cursor[q] /\ cand'[q] = cand[q] /\ (InRcu(q)' <=> InRcu(q))
    BY <1>3 DEF Others, InRcu
  <2> QED
    BY <1>2, <1>3, <2>1, ListKept DEF OkAfter
<1> QED
  BY <1>1, <1>3, OkForAll

LEMMA RcuFencesStep ==
  ASSUME TypeOK, ListsInv, TablesInv, CopyInv, SlotsInv, ArgsInv, CursorInv, RoomInv, RcuFences,
         PlacesFinite, RefsExact, Next
  PROVE  RcuFences'
<1>1. CASE ReaderStep
  <2>1. PICK r \in Readers : Others(r) /\ Does(r)
    BY <1>1, ReaderDoes
  <2> QED
    BY <1>1, <2>1, RcuFencesReader, ReadersAreQuiet
<1>2. CASE WriterActs
  BY <1>2, RcuFencesWriter
<1> QED
  BY <1>1, <1>2 DEF Next, ReaderStep, WriterActs

LEMMA OrderedStep ==
  ASSUME TypeOK, Ordered, Next
  PROVE  Ordered'
<1>1. ASSUME NEW f \in Fences, Signal(f)
      PROVE  Ordered'
  BY <1>1 DEF Signal, Ordered
<1>2. ASSUME Unlock
      PROVE  Ordered'
  BY <1>2 DEF Ordered, fenceVars, Unlock
<1>3. ASSUME NEW n \in 1 .. MaxReserve, ReserveEnough(n)
      PROVE  Ordered'
  BY <1>3 DEF Ordered, fenceVars, ReserveEnough
<1>4. ASSUME NEW n \in 1 .. MaxReserve, ReserveAlloc(n)
      PROVE  Ordered'
  BY <1>4 DEF Ordered, fenceVars, ReserveAlloc
<1>5. ASSUME ReserveCopySignaled
      PROVE  Ordered'
  BY <1>5 DEF Ordered, fenceVars, ReserveCopySignaled
<1>6. ASSUME ReserveCopyActive
      PROVE  Ordered'
  BY <1>6 DEF Ordered, fenceVars, ReserveCopyActive
<1>7. ASSUME ReserveFirst
      PROVE  Ordered'
  BY <1>7 DEF Ordered, fenceVars, ReserveFirst
<1>8. ASSUME ReservePublish
      PROVE  Ordered'
  BY <1>8 DEF Ordered, fenceVars, ReservePublish
<1>9. ASSUME ReserveDrop
      PROVE  Ordered'
  BY <1>9 DEF Ordered, fenceVars, ReserveDrop
<1>10. ASSUME ReserveFree
      PROVE  Ordered'
  BY <1>10 DEF Ordered, fenceVars, ReserveFree
<1>11. ASSUME NEW f \in Fences, NEW u \in Usages, AddFence(f, u)
      PROVE  Ordered'
  BY <1>11 DEF Ordered, fenceVars, AddFence
<1>12. ASSUME AddScan
      PROVE  Ordered'
  BY <1>12 DEF Ordered, fenceVars, AddScan
<1>13. ASSUME AddReplace
      PROVE  Ordered'
  BY <1>13 DEF Ordered, fenceVars, AddReplace
<1>14. ASSUME AddPut
      PROVE  Ordered'
  BY <1>14 DEF Ordered, fenceVars, AddPut
<1>15. ASSUME AddSet
      PROVE  Ordered'
  BY <1>15 DEF Ordered, fenceVars, AddSet
<1>16. ASSUME AddCount
      PROVE  Ordered'
  BY <1>16 DEF Ordered, fenceVars, AddCount
<1>17. ASSUME NEW c \in Contexts, NEW f \in Fences, NEW u \in Usages, ReplaceFences(c, f, u)
      PROVE  Ordered'
  BY <1>17 DEF Ordered, fenceVars, ReplaceFences
<1>18. ASSUME ReplaceSkip
      PROVE  Ordered'
  BY <1>18 DEF Ordered, fenceVars, ReplaceSkip
<1>19. ASSUME ReplaceSet
      PROVE  Ordered'
  BY <1>19 DEF Ordered, fenceVars, ReplaceSet
<1>20. ASSUME ReplacePut
      PROVE  Ordered'
  BY <1>20 DEF Ordered, fenceVars, ReplacePut
<1>21. ASSUME ReplaceDone
      PROVE  Ordered'
  BY <1>21 DEF Ordered, fenceVars, ReplaceDone
<1>22. ASSUME Fini
      PROVE  Ordered'
  BY <1>22 DEF Ordered, fenceVars, Fini
<1>23. ASSUME FiniPut
      PROVE  Ordered'
  BY <1>23 DEF Ordered, fenceVars, FiniPut
<1>24. ASSUME FiniFree
      PROVE  Ordered'
  BY <1>24 DEF Ordered, fenceVars, FiniFree
<1>25. ASSUME ReaderStep
       PROVE  Ordered'
  BY <1>25, ReadersAreQuiet DEF Quiet, Ordered
<1> QED
  BY <1>1, <1>2, <1>3, <1>4, <1>5, <1>6, <1>7, <1>8, <1>9, <1>10, <1>11, <1>12, <1>13, <1>14, <1>15, <1>16, <1>17, <1>18, <1>19, <1>20, <1>21, <1>22, <1>23, <1>24, <1>25 DEF Next, WriterStep, WriterGoesOn, ReaderStep

\* The published list is where it was, and holds what it held.
Extends ==
  /\ UNCHANGED <<sig, owed, fences>>
  /\ fences \in Lists =>
       num'[fences] >= num[fences] /\ \A j \in 1 .. num[fences] : table'[fences][j] = table[fences][j]

LEMMA SeenNumbers ==
  ASSUME TypeOK, TablesInv
  PROVE  /\ fences \in Nat /\ (fences # None <=> fences \in Lists)
         /\ fences \in Lists => num[fences] \in Nat /\ NumFences = num[fences]
         /\ fences = None => NumFences = 0
<1>1. fences \in Nat /\ (fences # None <=> fences \in Lists)
  BY ListNumber DEF TypeOK, ListType, MaybeList, Lists, None
<1> QED
  BY <1>1 DEF NumFences, TypeOK, ListType

LEMMA WriterKind ==
  ASSUME TypeOK, ListsInv, TablesInv, CopyInv, SlotsInv, ArgsInv, WriterActs
  PROVE  \/ \E f \in Fences : Signal(f)
         \/ AddReplace \/ ReplaceSet \/ ReserveFirst \/ ReservePublish
         \/ Extends
<1>0. fences \in Nat /\ (fences \in Lists => num[fences] \in Nat /\ fences # fences + 1)
  BY SeenNumbers
<1> USE <1>0 DEF Extends
<1>1. ASSUME Unlock
      PROVE  Extends
  BY <1>1 DEF Unlock, listVars, fenceVars, memVars
<1>2. ASSUME NEW n \in 1 .. MaxReserve, ReserveEnough(n)
      PROVE  Extends
  BY <1>2 DEF ReserveEnough, listVars, fenceVars, memVars
<1>3. ASSUME NEW n \in 1 .. MaxReserve, ReserveAlloc(n)
      PROVE  Extends
  <2>1. /\ wnew = fences /\ UNCHANGED <<sig, owed, fences, num>>
        /\ table' = [table EXCEPT ![wnew + 1] = [j \in 1 .. NewMax(fences, n) |-> NoEntry]]
    BY <1>3 DEF ReserveAlloc, fenceVars, ListsInv
  <2>2. \A l \in Lists : l # wnew + 1 => table'[l] = table[l]
    BY <2>1 DEF TypeOK, ListType
  <2> QED
    BY <2>1, <2>2
<1>4. ASSUME ReserveCopySignaled
      PROVE  Extends
  <2>1. /\ wnew = fences + 1 /\ UNCHANGED <<sig, owed, fences>>
        /\ num' = num \/ num' = [num EXCEPT ![wnew] = @ + 1]
    BY <1>4, CopyPlace DEF ReserveCopySignaled, fenceVars
  <2>2. \A l \in Lists : l # wnew => table'[l] = table[l] /\ num'[l] = num[l]
    BY <1>4, <2>1, WritesSignaled DEF TypeOK, ListType
  <2> QED
    BY <2>1, <2>2
<1>5. ASSUME ReserveCopyActive
      PROVE  Extends
  <2>1. /\ wnew = fences + 1 /\ UNCHANGED <<sig, owed, fences>>
        /\ num' = num \/ num' = [num EXCEPT ![wnew] = @ + 1]
    BY <1>5, CopyPlace DEF ReserveCopyActive, fenceVars
  <2>2. \A l \in Lists : l # wnew => table'[l] = table[l] /\ num'[l] = num[l]
    BY <1>5, <2>1, WritesActive DEF TypeOK, ListType
  <2> QED
    BY <2>1, <2>2
<1>6. ASSUME ReserveDrop
      PROVE  Extends
  BY <1>6 DEF ReserveDrop, listVars, fenceVars, memVars
<1>7. ASSUME ReserveFree
      PROVE  Extends
  BY <1>7 DEF ReserveFree, listVars, fenceVars, memVars
<1>8. ASSUME NEW f \in Fences, NEW u \in Usages, AddFence(f, u)
      PROVE  Extends
  BY <1>8 DEF AddFence, listVars, fenceVars, memVars
<1>9. ASSUME AddScan
      PROVE  Extends
  BY <1>9 DEF AddScan, listVars, fenceVars, memVars
<1>10. ASSUME AddPut
      PROVE  Extends
  BY <1>10 DEF AddPut, listVars, fenceVars, memVars
<1>11. ASSUME AddSet
      PROVE  Extends
  <2>1. WritesTo(fences, wi, New) /\ wpc = "add" /\ wi > num[fences]
    BY <1>11 DEF AddSet, WritesTo
  <2>2. fences \in Lists /\ wi \in DOMAIN table[fences]
    BY <2>1, AddAt
  <2>3. \A j \in 1 .. num[fences] : j # wi /\ j \in 1 .. Len(table[fences])
    BY <2>1, <2>2, SeenNumbers DEF TypeOK, ListType, WriterType, TablesInv
  <2>4. UNCHANGED <<sig, owed, fences, num>>
    BY <1>11 DEF AddSet, fenceVars
  <2> QED
    BY <2>1, <2>2, <2>3, <2>4, WritesNew
<1>12. ASSUME AddCount
      PROVE  Extends
  <2>1. /\ UNCHANGED <<sig, owed, fences, table>> /\ num' = [num EXCEPT ![fences] = @ + 1]
    BY <1>12 DEF AddCount, fenceVars
  <2>2. fences \in Lists => num'[fences] = num[fences] + 1
    BY <2>1 DEF TypeOK, ListType
  <2> QED
    BY <2>1, <2>2
<1>13. ASSUME NEW c \in Contexts, NEW f \in Fences, NEW u \in Usages, ReplaceFences(c, f, u)
      PROVE  Extends
  BY <1>13 DEF ReplaceFences, listVars, fenceVars, memVars
<1>14. ASSUME ReplaceSkip
      PROVE  Extends
  BY <1>14 DEF ReplaceSkip, listVars, fenceVars, memVars
<1>15. ASSUME ReplacePut
      PROVE  Extends
  BY <1>15 DEF ReplacePut, listVars, fenceVars, memVars
<1>16. ASSUME ReplaceDone
      PROVE  Extends
  BY <1>16 DEF ReplaceDone, listVars, fenceVars, memVars
<1>17. ASSUME Fini
      PROVE  Extends
  BY <1>17 DEF Fini, listVars, fenceVars, memVars
<1>18. ASSUME FiniPut
      PROVE  Extends
  BY <1>18 DEF FiniPut, listVars, fenceVars, memVars
<1>19. ASSUME FiniFree
      PROVE  Extends
  BY <1>19 DEF FiniFree, listVars, fenceVars, memVars
<1> QED
  BY <1>1, <1>2, <1>3, <1>4, <1>5, <1>6, <1>7, <1>8, <1>9, <1>10, <1>11, <1>12, <1>13, <1>14, <1>15, <1>16, <1>17, <1>18, <1>19 DEF WriterActs, WriterStep, WriterGoesOn

LEMMA CopyShowsStep ==
  ASSUME TypeOK, ListsInv, TablesInv, CopyInv, CopyShows, Next
  PROVE  CopyShows'
<1> USE DEF CopyShows
<1>1. ASSUME NEW f \in Fences, Signal(f)
      PROVE  CopyShows'
  BY <1>1 DEF Signal, writerVars, listVars, callVars
<1>2. ASSUME Unlock
      PROVE  CopyShows'
  BY <1>2 DEF Unlock
<1>3. ASSUME NEW n \in 1 .. MaxReserve, ReserveEnough(n)
      PROVE  CopyShows'
  BY <1>3 DEF ReserveEnough
<1>4. ASSUME NEW n \in 1 .. MaxReserve, ReserveAlloc(n)
      PROVE  CopyShows'
  <2>1. wi' = 1
    BY <1>4 DEF ReserveAlloc
  <2>2. 1 .. wi' - 1 = {}
    BY <2>1
  <2> QED
    BY <2>2
<1>5. ASSUME ReserveCopySignaled
      PROVE  CopyShows'
  <2>1. /\ wpc = "copy" /\ Copies /\ wi' = wi + 1 /\ UNCHANGED <<wold, wnew, sig>>
    BY <1>5 DEF ReserveCopySignaled, fenceVars
  <2>2. /\ wold = fences /\ fences \in Lists /\ wi \in 1 .. num[fences] /\ wi \in Nat /\ wk \in Nat
        /\ wnew \in Lists /\ wnew # fences /\ num[wnew] \in Nat /\ max[wnew] \in Nat
        /\ wk \in 1 .. max[wnew] /\ num[wnew] + 1 <= wk /\ wold # None
    BY <2>1, CopiedType, CopyPlace DEF TypeOK, WriterType, Copies
  <2>3. table'[wold] = table[wold]
    BY <1>5, <2>2, WritesSignaled
  <2>4. num'[wnew] = num[wnew]
    BY <1>5, <2>2 DEF ReserveCopySignaled, TypeOK, ListType
  <2>5. \A m \in 1 .. num[wnew] : table'[wnew][m] = table[wnew][m]
    <3>1. \A m \in 1 .. num[wnew] : m \in 1 .. max[wnew] /\ m # wk
      BY <2>2
    <3> QED
      BY <1>5, <3>1, WritesSignaled
  <2>6. ASSUME NEW j \in 1 .. wi' - 1
        PROVE  table[wold][j].fence \in sig \/ \E m \in 1 .. num'[wnew] : table'[wnew][m] = table[wold][j]
    <3>1. CASE j = wi
      BY <1>5, <3>1 DEF ReserveCopySignaled, Copied
    <3>2. CASE j # wi
      <4>1. j \in 1 .. wi - 1
        BY <2>1, <2>2, <3>2
      <4>2. table[wold][j].fence \in sig \/ \E m \in 1 .. num[wnew] : table[wnew][m] = table[wold][j]
        BY <2>1, <2>2, <4>1 DEF CopyShows
      <4>3. \A m \in 1 .. num[wnew] : m \in 1 .. num'[wnew]
        BY <2>2, <2>4
      <4> QED
        BY <2>5, <4>2, <4>3
    <3> QED
      BY <3>1, <3>2
  <2> QED
    BY <2>1, <2>3, <2>6
<1>6. ASSUME ReserveCopyActive
      PROVE  CopyShows'
  <2>1. /\ wpc = "copy" /\ Copies /\ wi' = wi + 1 /\ UNCHANGED <<wold, wnew, sig>>
    BY <1>6 DEF ReserveCopyActive, fenceVars
  <2>2. /\ wold = fences /\ fences \in Lists /\ wi \in 1 .. num[fences] /\ wi \in Nat /\ wk \in Nat
        /\ wnew \in Lists /\ wnew # fences /\ num[wnew] \in Nat /\ max[wnew] \in Nat
        /\ wk \in 1 .. max[wnew] /\ num[wnew] + 1 <= wk /\ wold # None
    BY <2>1, CopiedType, CopyPlace DEF TypeOK, WriterType, Copies
  <2>3. table'[wold] = table[wold]
    BY <1>6, <2>2, WritesActive
  <2>4. num'[wnew] = num[wnew] + 1
    BY <1>6, <2>2 DEF ReserveCopyActive, TypeOK, ListType
  <2>5. \A m \in 1 .. num[wnew] : table'[wnew][m] = table[wnew][m]
    <3>1. \A m \in 1 .. num[wnew] : m \in 1 .. max[wnew] /\ m # num[wnew] + 1
      BY <2>2
    <3> QED
      BY <1>6, <3>1, WritesActive
  <2>6. ASSUME NEW j \in 1 .. wi' - 1
        PROVE  table[wold][j].fence \in sig \/ \E m \in 1 .. num'[wnew] : table'[wnew][m] = table[wold][j]
    <3>1. CASE j = wi
      <4>1. num[wnew] + 1 \in 1 .. max[wnew] /\ num[wnew] + 1 \in 1 .. num'[wnew]
        BY <2>2, <2>4
      <4>2. table'[wnew][num[wnew] + 1] = Copied
        BY <1>6, <4>1, WritesActive
      <4> QED
        BY <3>1, <4>1, <4>2 DEF Copied
    <3>2. CASE j # wi
      <4>1. j \in 1 .. wi - 1
        BY <2>1, <2>2, <3>2
      <4>2. table[wold][j].fence \in sig \/ \E m \in 1 .. num[wnew] : table[wnew][m] = table[wold][j]
        BY <2>1, <2>2, <4>1 DEF CopyShows
      <4>3. \A m \in 1 .. num[wnew] : m \in 1 .. num'[wnew]
        BY <2>2, <2>4
      <4> QED
        BY <2>5, <4>2, <4>3
    <3> QED
      BY <3>1, <3>2
  <2> QED
    BY <2>1, <2>3, <2>6
<1>7. ASSUME ReserveFirst
      PROVE  CopyShows'
  BY <1>7 DEF ReserveFirst, CallEnds
<1>8. ASSUME ReservePublish
      PROVE  CopyShows'
  BY <1>8 DEF ReservePublish
<1>9. ASSUME ReserveDrop
      PROVE  CopyShows'
  BY <1>9 DEF ReserveDrop
<1>10. ASSUME ReserveFree
      PROVE  CopyShows'
  BY <1>10 DEF ReserveFree, CallEnds
<1>11. ASSUME NEW f \in Fences, NEW u \in Usages, AddFence(f, u)
      PROVE  CopyShows'
  BY <1>11 DEF AddFence
<1>12. ASSUME AddScan
      PROVE  CopyShows'
  BY <1>12 DEF AddScan
<1>13. ASSUME AddReplace
      PROVE  CopyShows'
  BY <1>13 DEF AddReplace
<1>14. ASSUME AddPut
      PROVE  CopyShows'
  BY <1>14 DEF AddPut, CallEnds
<1>15. ASSUME AddSet
      PROVE  CopyShows'
  BY <1>15 DEF AddSet
<1>16. ASSUME AddCount
      PROVE  CopyShows'
  BY <1>16 DEF AddCount, CallEnds
<1>17. ASSUME NEW c \in Contexts, NEW f \in Fences, NEW u \in Usages, ReplaceFences(c, f, u)
      PROVE  CopyShows'
  BY <1>17 DEF ReplaceFences
<1>18. ASSUME ReplaceSkip
      PROVE  CopyShows'
  BY <1>18 DEF ReplaceSkip
<1>19. ASSUME ReplaceSet
      PROVE  CopyShows'
  BY <1>19 DEF ReplaceSet
<1>20. ASSUME ReplacePut
      PROVE  CopyShows'
  BY <1>20 DEF ReplacePut
<1>21. ASSUME ReplaceDone
      PROVE  CopyShows'
  BY <1>21 DEF ReplaceDone, CallEnds
<1>22. ASSUME Fini
      PROVE  CopyShows'
  BY <1>22 DEF Fini
<1>23. ASSUME FiniPut
      PROVE  CopyShows'
  BY <1>23 DEF FiniPut
<1>24. ASSUME FiniFree
      PROVE  CopyShows'
  BY <1>24 DEF FiniFree
<1>25. ASSUME ReaderStep
       PROVE  CopyShows'
  BY <1>25, ReadersAreQuiet DEF Quiet
<1> QED
  BY <1>1, <1>2, <1>3, <1>4, <1>5, <1>6, <1>7, <1>8, <1>9, <1>10, <1>11, <1>12, <1>13, <1>14, <1>15, <1>16, <1>17, <1>18, <1>19, <1>20, <1>21, <1>22, <1>23, <1>24, <1>25 DEF Next, WriterStep, WriterGoesOn, ReaderStep

\* Every entry that shows r a fence of S then shows it one of S2.
StillShows(r, S, S2) ==
  \A j \in 1 .. NumFences :
    Shows(r, S, fences, j) => table'[fences][j].fence \in S2 /\ table'[fences][j].usage <= cursor[r].usage

\* Each group that is owed after the step comes from one that was owed before.
Follows ==
  /\ fences' = fences /\ NumFences' >= NumFences
  /\ \A r \in Readers : \A S2 \in owed'[r] : \E S \in owed[r] :
       S \subseteq S2 /\ S2 \cap sig' = {} /\ StillShows(r, S, S2)

\* Where the list published now still counts for r
Counts(r) == pc[r] \notin {"idle", "restart"} /\ (cursor[r].fences = fences \/ pc[r] = "done")

\* The entries that r has still to read are in the published list.
LEMMA RestOfList ==
  ASSUME TypeOK, TablesInv, CursorInv, NEW r \in Readers, Counts(r)
  PROVE  /\ \A j \in cursor[r].index + 1 .. cursor[r].num : j \in 1 .. NumFences /\ pc[r] # "done"
         /\ cursor[r].index \in Nat /\ cursor[r].num \in Nat
<1>1. /\ cursor[r].index \in Nat /\ cursor[r].num \in Nat /\ NumFences \in Nat
      /\ (pc[r] = "done" => cursor[r].index = cursor[r].num)
      /\ cursor[r].num <= IF cursor[r].fences = None THEN 0 ELSE num[cursor[r].fences]
  BY SeenFences DEF CursorInv, CursorOk, TypeOK, ReaderType, CursorType
<1>2. CASE pc[r] = "done"
  BY <1>1, <1>2
<1>3. CASE pc[r] # "done"
  <2>1. cursor[r].num <= NumFences
    BY <1>1, <1>3 DEF Counts, NumFences
  <2> QED
    BY <1>1, <1>3, <2>1
<1> QED
  BY <1>2, <1>3

LEMMA FollowsOwed ==
  ASSUME TypeOK, TypeOK', TablesInv, CursorInv, OwedInv, SeenInv, Calm, Follows
  PROVE  OwedInv' /\ SeenInv'
<1>0. NumFences \in Nat /\ NumFences' \in Int /\ fences' = fences /\ NumFences' >= NumFences
  <2>1. NumFences' \in Int
    <3>1. fences' \in MaybeList /\ num' \in [Lists -> Nat]
      BY DEF TypeOK, ListType
    <3>2. fences' # None => fences' \in Lists
      BY <3>1, ListNumber DEF MaybeList, Lists, None
    <3> QED
      BY <3>1, <3>2 DEF NumFences
  <2> QED
    BY <2>1, SeenFences DEF Follows
<1>1. ASSUME NEW r \in Readers, NEW S2 \in owed'[r]
      PROVE  /\ S2 \cap sig' = {} /\ pc'[r] # "idle"
             /\ \E j \in 1 .. NumFences' : Shows(r, S2, fences, j)'
             /\ Counts(r)' => Seen(r, S2)'
  <2>1. PICK S \in owed[r] : S \subseteq S2 /\ S2 \cap sig' = {} /\ StillShows(r, S, S2)
    BY DEF Follows
  <2>2. pc'[r] = pc[r] /\ cursor'[r] = cursor[r] /\ cand'[r] = cand[r] /\ got'[r] = got[r]
    BY DEF Calm
  <2>3. \A j \in 1 .. NumFences : Shows(r, S, fences, j) => Shows(r, S2, fences, j)'
    BY <1>0, <2>1, <2>2 DEF StillShows, Shows
  <2>4. pc[r] # "idle" /\ \E j \in 1 .. NumFences : Shows(r, S, fences, j)
    BY DEF OwedInv
  <2>5. \A j \in 1 .. NumFences : j \in 1 .. NumFences'
    BY <1>0
  <2>6. ASSUME Counts(r)'
        PROVE  Seen(r, S2)'
    <3>1. Counts(r)
      BY <1>0, <2>2, <2>6 DEF Counts
    <3>2. Seen(r, S)
      BY <3>1 DEF SeenInv, Counts
    <3>3. \A j \in cursor[r].index + 1 .. cursor[r].num : j \in 1 .. NumFences
      BY <3>1, RestOfList
    <3>4. CASE \E j \in cursor[r].index + 1 .. cursor[r].num : Shows(r, S, fences, j)
      <4>1. \E j \in cursor[r].index + 1 .. cursor[r].num : Shows(r, S2, fences, j)'
        BY <2>3, <3>3, <3>4
      <4> QED
        BY <2>2, <4>1 DEF Seen
    <3>5. CASE Fresh(r) /\ S \cap GotFences(r) # {}
      BY <2>1, <2>2, <3>5 DEF Seen, Fresh, GotFences
    <3>6. CASE pc[r] \in {"get", "test"} /\ cand[r].fence \in S /\ cand[r].usage <= cursor[r].usage
      BY <2>1, <2>2, <3>6 DEF Seen
    <3>7. CASE pc[r] \in {"check", "body"} /\ cursor[r].fence \in S
      BY <2>1, <2>2, <3>7 DEF Seen
    <3> QED
      BY <3>2, <3>4, <3>5, <3>6, <3>7 DEF Seen
  <2> QED
    BY <2>1, <2>2, <2>3, <2>4, <2>5, <2>6
<1> QED
  BY <1>1 DEF OwedInv, SeenInv, Counts

LEMMA SignalFollows ==
  ASSUME TypeOK, TablesInv, OwedInv, NEW f \in Fences, Signal(f)
  PROVE  Follows
<1>1. /\ fences' = fences /\ num' = num /\ table' = table /\ sig' = sig \cup {f}
      /\ owed' = [r \in Readers |-> {S \in owed[r] : f \notin S}]
  BY DEF Signal, listVars
<1>2. NumFences' = NumFences /\ NumFences \in Nat
  BY <1>1, SeenFences DEF NumFences
<1>3. ASSUME NEW r \in Readers, NEW S2 \in owed'[r]
      PROVE  S2 \in owed[r] /\ S2 \cap sig' = {} /\ StillShows(r, S2, S2)
  <2>1. S2 \in owed[r] /\ f \notin S2
    BY <1>1
  <2>2. S2 \cap sig = {}
    BY <2>1 DEF OwedInv
  <2> QED
    BY <1>1, <2>1, <2>2 DEF StillShows, Shows
<1> QED
  BY <1>1, <1>2, <1>3 DEF Follows

LEMMA ExtendsFollows ==
  ASSUME TypeOK, TablesInv, OwedInv, Extends
  PROVE  Follows
<1>1. UNCHANGED <<sig, owed, fences>>
  BY DEF Extends
<1>2. CASE fences = None
  <2>1. NumFences = 0 /\ NumFences' = 0
    BY <1>1, <1>2 DEF NumFences
  <2>2. \A r \in Readers : owed[r] = {}
    BY <2>1 DEF OwedInv
  <2> QED
    BY <1>1, <2>1, <2>2 DEF Follows
<1>3. CASE fences # None
  <2>1. fences \in Lists /\ NumFences = num[fences] /\ NumFences' = num'[fences]
    BY <1>1, <1>3, SeenNumbers DEF NumFences
  <2>2. num'[fences] >= num[fences] /\ \A j \in 1 .. num[fences] : table'[fences][j] = table[fences][j]
    BY <2>1 DEF Extends
  <2>3. \A r \in Readers : \A S : StillShows(r, S, S)
    BY <2>1, <2>2 DEF StillShows, Shows
  <2>4. \A r \in Readers : \A S \in owed[r] : S \cap sig = {}
    BY DEF OwedInv
  <2> QED
    BY <1>1, <2>1, <2>2, <2>3, <2>4 DEF Follows
<1> QED
  BY <1>2, <1>3

\* A fence takes the place of another in the eyes of r.
LEMMA ExchangeShows ==
  ASSUME TypeOK, ListsInv, TablesInv, ArgsInv, wpc \in {"add", "repl"}, wi <= num[fences],
         WritesTo(fences, wi, New), NEW r \in Readers, NEW S, NEW S2, S \subseteq S2,
         Old.fence \in S /\ Old.usage <= cursor[r].usage => wfence \in S2 /\ wusage <= cursor[r].usage
  PROVE  StillShows(r, S, S2)
<1>1. fences \in Lists /\ wi \in DOMAIN table[fences] /\ NumFences = num[fences]
  BY OldType, SeenNumbers
<1>2. /\ \A n \in 1 .. Len(table[fences]) : table'[fences][n] = IF n = wi THEN New ELSE table[fences][n]
  BY <1>1, WritesNew
<1>3. \A j \in 1 .. num[fences] : j \in 1 .. Len(table[fences])
  BY <1>1, SeenNumbers DEF TypeOK, ListType, TablesInv
<1>4. ASSUME NEW j \in 1 .. NumFences, Shows(r, S, fences, j)
      PROVE  table'[fences][j].fence \in S2 /\ table'[fences][j].usage <= cursor[r].usage
  <2>1. table'[fences][j] = IF j = wi THEN New ELSE table[fences][j]
    BY <1>1, <1>2, <1>3
  <2>2. CASE j = wi
    BY <1>4, <2>1, <2>2 DEF Shows, New, Old
  <2>3. CASE j # wi
    BY <1>4, <2>1, <2>3 DEF Shows
  <2> QED
    BY <2>2, <2>3
<1> QED
  BY <1>4 DEF StillShows

\* The comparison of sequence numbers agrees with the order of emission.
LEMMA LaterSeqno ==
  ASSUME NEW f \in Fences, NEW g \in Fences
  PROVE  IsLater(Seqno(f), Seqno(g)) <=> f > g
<1>1. SignBit \in Nat \ {0} /\ FirstSeqno \in Nat /\ f \in 1 .. SignBit /\ g \in 1 .. SignBit
  BY ResvAssumption, SeqnoAssumption
<1> DEFINE d == (((FirstSeqno + f) % (2 * SignBit)) - ((FirstSeqno + g) % (2 * SignBit))) % (2 * SignBit)
<1>2. IsLater(Seqno(f), Seqno(g)) <=> (0 < d /\ d < SignBit)
  BY DEF IsLater, Seqno
<1> HIDE DEF d
<1>3. d = (((FirstSeqno + f) % (2 * SignBit)) - ((FirstSeqno + g) % (2 * SignBit))) % (2 * SignBit)
  BY DEF d
<1>4. (0 < d /\ d < SignBit) <=> f > g
  BY SMTT(60), <1>1, <1>3, LaterOfTwo
<1> QED
  BY <1>2, <1>4

\* add_fence() may leave out a fence that was emitted earlier.
LEMMA ReplaceableIsLater ==
  ASSUME TypeOK, wfence \in Fences, Old.fence \in Fences, Old.fence \notin sig, Replaceable(Old)
  PROVE  Later /\ Old.usage >= wusage
<1> DEFINE f == wfence  g == Old.fence
<1>1. Context[g] = Context[f] /\ Old.usage >= wusage /\ IsLater(Seqno(f), Seqno(g))
  BY DEF Replaceable
<1>3. f > g
  BY <1>1, LaterSeqno
<1> QED
  BY <1>1, <1>3 DEF Later

LEMMA AddFollows ==
  ASSUME TypeOK, ListsInv, TablesInv, ArgsInv, Ordered, OwedInv, AddReplace
  PROVE  Follows
<1>1. /\ wpc = "add" /\ wi <= num[fences] /\ Replaceable(Old) /\ WritesTo(fences, wi, New)
      /\ fences' = fences /\ num' = num /\ sig' = sig /\ Succeeds
  BY DEF AddReplace, WritesTo, fenceVars
<1>2. NumFences' = NumFences /\ NumFences \in Nat
  BY <1>1, SeenFences DEF NumFences
<1>3. wfence \in Fences /\ Old.fence \in Fences /\ wusage \in Int /\ Old.usage \in Int
  BY <1>1, OldType DEF ArgsInv, TypeOK, WriterType, Entry
<1>4. ASSUME NEW r \in Readers, NEW S2 \in owed'[r]
      PROVE  \E S \in owed[r] : S \subseteq S2 /\ S2 \cap sig' = {} /\ StillShows(r, S, S2)
  <2>1. PICK S \in owed[r] : S2 = IF Later /\ Old.fence \in S /\ Old.usage <= cursor[r].usage
                                 THEN S \cup {wfence} ELSE S
    BY <1>1 DEF Succeeds
  <2>2. S \cap sig = {} /\ S \subseteq S2
    BY <2>1 DEF OwedInv
  <2>3. Old.fence \in S => Old.fence \notin sig /\ Later /\ Old.usage >= wusage
    BY <1>1, <1>3, <2>2, ReplaceableIsLater
  <2>4. Old.fence \in S /\ Later => wfence \notin sig
    BY <1>3, <2>3 DEF Ordered, Later
  <2>5. S2 \cap sig' = {}
    BY <1>1, <2>1, <2>2, <2>4
  <2>6. cursor[r].usage \in Int
    <3>1. cursor[r] \in CursorType
      BY DEF TypeOK, ReaderType
    <3> QED
      BY <3>1 DEF CursorType
  <2>7. Old.fence \in S /\ Old.usage <= cursor[r].usage => wfence \in S2 /\ wusage <= cursor[r].usage
    BY <1>3, <2>1, <2>3, <2>6
  <2>8. StillShows(r, S, S2)
    BY <1>1, <2>2, <2>7, ExchangeShows
  <2> QED
    BY <2>2, <2>5, <2>8
<1> QED
  BY <1>1, <1>2, <1>4 DEF Follows

LEMMA ReplaceFollows ==
  ASSUME TypeOK, ListsInv, TablesInv, ArgsInv, OwedInv, ReplaceSet
  PROVE  Follows
<1>1. /\ wpc = "repl" /\ wi <= num[fences] /\ WritesTo(fences, wi, New)
      /\ fences' = fences /\ num' = num /\ sig' = sig /\ SucceedsFor
  BY DEF ReplaceSet, WritesTo
<1>2. NumFences' = NumFences /\ NumFences \in Nat
  BY <1>1, SeenFences DEF NumFences
<1>3. wfence \notin sig
  BY <1>1 DEF ArgsInv
<1>4. ASSUME NEW r \in Readers, NEW S2 \in owed'[r]
      PROVE  \E S \in owed[r] : S \subseteq S2 /\ S2 \cap sig' = {} /\ StillShows(r, S, S2)
  <2>1. PICK S \in owed[r] :
          /\ Old.fence \in S => wusage <= cursor[r].usage
          /\ S2 = IF Old.fence \in S /\ Old.usage <= cursor[r].usage THEN S \cup {wfence} ELSE S
    BY <1>1 DEF SucceedsFor
  <2>2. S \cap sig = {} /\ S \subseteq S2
    BY <2>1 DEF OwedInv
  <2>3. S2 \cap sig' = {}
    BY <1>1, <1>3, <2>1, <2>2
  <2>4. Old.fence \in S /\ Old.usage <= cursor[r].usage => wfence \in S2 /\ wusage <= cursor[r].usage
    BY <2>1
  <2>5. StillShows(r, S, S2)
    BY <1>1, <2>2, <2>4, ExchangeShows
  <2> QED
    BY <2>2, <2>3, <2>5
<1> QED
  BY <1>1, <1>2, <1>4 DEF Follows

\* A new list is published: no call has walked it, and the result of one that
\* has returned does not depend on it.
LEMMA PublishOwed ==
  ASSUME TypeOK, ListsInv, TablesInv, CopyInv, CursorInv, OwedInv, SeenInv, CopyShows,
         ReserveFirst \/ ReservePublish
  PROVE  OwedInv' /\ SeenInv'
<1>0. /\ wpc = "copy" /\ fences' = wnew /\ num' = num /\ table' = table /\ sig' = sig /\ owed' = owed
      /\ UNCHANGED <<pc, cursor, cand, got>>
  BY DEF ReserveFirst, ReservePublish, fenceVars, readerVars
<1>1. wold = fences /\ wnew = fences + 1 /\ wnew \in Lists /\ fences \in Nat /\ num[wnew] \in Nat
      /\ NumFences' = num[wnew]
  BY <1>0, CopyPlace, SeenNumbers DEF ListsInv, NumFences, Lists, None
<1>2. ASSUME NEW r \in Readers, NEW S \in owed[r]
      PROVE  \E k \in 1 .. num[wnew] : Shows(r, S, wnew, k)
  <2>1. PICK j \in 1 .. NumFences : Shows(r, S, fences, j)
    BY DEF OwedInv
  <2>2. NumFences \in Nat /\ fences # None
    BY <2>1, SeenFences, SeenNumbers
  <2>3. ReservePublish /\ wold # None /\ NumFences = num[fences] /\ wi \in Nat /\ ~(wi <= num[fences])
    BY <1>1, <2>2 DEF ReserveFirst, ReservePublish, NumFences, Copies, TypeOK, WriterType
  <2>4. j \in 1 .. wi - 1
    BY <2>1, <2>2, <2>3
  <2>5. table[fences][j].fence \notin sig
    BY <2>1 DEF OwedInv, Shows
  <2>6. PICK k \in 1 .. num[wnew] : table[wnew][k] = table[fences][j]
    BY <1>0, <1>1, <2>3, <2>4, <2>5 DEF CopyShows
  <2> QED
    BY <2>1, <2>6 DEF Shows
<1>3. OwedInv'
  BY <1>0, <1>1, <1>2 DEF OwedInv, Shows
<1>4. ASSUME NEW r \in Readers, NEW S \in owed[r], Counts(r)'
      PROVE  Seen(r, S)'
  <2>1. cursor[r].fences <= fences /\ cursor[r].fences \in Nat
    <3>1. cursor[r] \in CursorType
      BY DEF TypeOK, ReaderType
    <3> QED
      BY <3>1, ListNumber DEF CursorInv, CursorOk, CursorType, MaybeList
  <2>2. pc[r] = "done"
    BY <1>0, <1>1, <1>4, <2>1 DEF Counts
  <2>3. Counts(r)
    BY <2>2 DEF Counts
  <2>4. Seen(r, S)
    BY <2>3 DEF SeenInv, Counts
  <2>5. Fresh(r) /\ S \cap GotFences(r) # {}
    BY <2>2, <2>3, <2>4, RestOfList DEF Seen
  <2> QED
    BY <1>0, <2>5 DEF Seen, Fresh, GotFences
<1> QED
  BY <1>0, <1>3, <1>4 DEF SeenInv, Counts

LEMMA OwedWriter ==
  ASSUME TypeOK, ListsInv, TablesInv, CopyInv, SlotsInv, ArgsInv, CursorInv, Ordered, OwedInv,
         CopyShows, SeenInv, WriterActs
  PROVE  OwedInv' /\ SeenInv'
<1>1. Calm
  BY WriterIsCalm
<1>2. CASE ReserveFirst \/ ReservePublish
  BY <1>2, PublishOwed
<1>3. TypeOK'
  BY TypeStep DEF Next, WriterActs
<1>4. CASE Follows
  BY <1>1, <1>3, <1>4, FollowsOwed
<1> QED
  BY <1>2, <1>4, WriterKind, SignalFollows, AddFollows, ReplaceFollows, ExtendsFollows

\* What OwedInv says of r, after the step of a reader
Shown(r, S, j) == table[fences][j].fence \in S /\ table[fences][j].usage <= cursor'[r].usage

OwedFor(r) ==
  \A S \in owed'[r] :
    S \cap sig = {} /\ pc'[r] # "idle" /\ \E j \in 1 .. NumFences : Shown(r, S, j)

LEMMA OwedReader ==
  ASSUME TypeOK, OwedInv, Quiet, NEW r \in Readers, Others(r), Does(r)
  PROVE  OwedInv'
<1>1. OwedFor(r)
<2>1. ASSUME NEW o \in ReaderOps, NEW u \in 0 .. 3, Starts(r, o, u)
      PROVE  OwedFor(r)
    <3>1. ASSUME NEW S \in owed'[r]
          PROVE  S \cap sig = {} /\ \E j \in 1 .. NumFences : Shown(r, S, j)
      <4>1. PICK f \in Visible(u) \ sig : S = {f}
        BY <2>1, <3>1 DEF Starts
      <4>2. PICK j \in {k \in 1 .. NumFences : table[fences][k].usage <= u} : f = table[fences][j].fence
        BY <4>1 DEF Visible
      <4>3. Shown(r, S, j)
        BY <2>1, <4>1, <4>2 DEF Shown, Starts, CursorIs
      <4> QED
        BY <4>1, <4>2, <4>3
    <3> QED
      BY <2>1, <3>1 DEF Starts, OwedFor
<2>2. ASSUME BeginsWalk(r)
      PROVE  OwedFor(r)
    <3>1. owed'[r] = owed[r] /\ cursor'[r].usage = cursor[r].usage /\ pc'[r] # "idle"
      BY <2>2 DEF BeginsWalk, SameCall, CursorIs, SameCursorOf, Walk
    <3> QED
      BY <3>1 DEF OwedInv, OwedFor, Shown, Shows
<2>3. ASSUME EndsWalk(r)
      PROVE  OwedFor(r)
    <3>1. owed'[r] = owed[r] /\ cursor'[r].usage = cursor[r].usage /\ pc'[r] # "idle"
      BY <2>3 DEF EndsWalk, SameCall, CursorIs, SameCursorOf, Walk
    <3> QED
      BY <3>1 DEF OwedInv, OwedFor, Shown, Shows
<2>4. ASSUME Reads(r)
      PROVE  OwedFor(r)
    <3>1. owed'[r] = owed[r] /\ cursor'[r].usage = cursor[r].usage /\ pc'[r] # "idle"
      BY <2>4 DEF Reads, SameCall, CursorIs, SameCursorOf, Walk
    <3> QED
      BY <3>1 DEF OwedInv, OwedFor, Shown, Shows
<2>5. ASSUME Gets(r)
      PROVE  OwedFor(r)
    <3>1. owed'[r] = owed[r] /\ cursor'[r].usage = cursor[r].usage /\ pc'[r] # "idle"
      BY <2>5 DEF Gets, SameCall, CursorIs, SameCursorOf, Walk
    <3> QED
      BY <3>1 DEF OwedInv, OwedFor, Shown, Shows
<2>6. ASSUME Tests(r)
      PROVE  OwedFor(r)
    <3>1. owed'[r] = owed[r] /\ cursor'[r].usage = cursor[r].usage /\ pc'[r] # "idle"
      BY <2>6 DEF Tests, SameCall, CursorIs, SameCursorOf, Walk
    <3> QED
      BY <3>1 DEF OwedInv, OwedFor, Shown, Shows
<2>7. ASSUME Returns(r)
      PROVE  OwedFor(r)
    <3>1. owed'[r] = owed[r] /\ cursor'[r].usage = cursor[r].usage /\ pc'[r] # "idle"
      BY <2>7 DEF Returns, SameCall, CursorIs, SameCursorOf, Walk
    <3> QED
      BY <3>1 DEF OwedInv, OwedFor, Shown, Shows
<2>8. ASSUME GoesOn(r)
      PROVE  OwedFor(r)
    <3>1. owed'[r] = owed[r] /\ cursor'[r].usage = cursor[r].usage /\ pc'[r] # "idle"
      BY <2>8 DEF GoesOn, SameCall, CursorIs, SameCursorOf, Walk
    <3> QED
      BY <3>1 DEF OwedInv, OwedFor, Shown, Shows
<2>9. ASSUME HasWaited(r)
      PROVE  OwedFor(r)
    <3>1. owed'[r] = owed[r] /\ cursor'[r].usage = cursor[r].usage /\ pc'[r] # "idle"
      BY <2>9 DEF HasWaited, SameCall, CursorIs, SameCursorOf, Walk
    <3> QED
      BY <3>1 DEF OwedInv, OwedFor, Shown, Shows
<2>10. ASSUME Stops(r)
      PROVE  OwedFor(r)
    BY <2>10 DEF Stops, OwedFor
<2>11. ASSUME Drops(r)
      PROVE  OwedFor(r)
    <3>1. (owed'[r] = {} \/ owed'[r] = owed[r]) /\ cursor'[r].usage = cursor[r].usage /\ pc'[r] # "idle"
      BY <2>11 DEF Drops, CursorIs, SameCursorOf
    <3> QED
      BY <3>1 DEF OwedInv, OwedFor, Shown, Shows
<2>12. ASSUME Keeps(r)
      PROVE  OwedFor(r)
    <3>1. owed'[r] = owed[r] /\ cursor'[r].usage = cursor[r].usage /\ pc'[r] # "idle"
      BY <2>12 DEF Keeps, SameCall, CursorIs, SameCursorOf, Walk
    <3> QED
      BY <3>1 DEF OwedInv, OwedFor, Shown, Shows
  <2> QED
    BY <2>1, <2>2, <2>3, <2>4, <2>5, <2>6, <2>7, <2>8, <2>9, <2>10, <2>11, <2>12 DEF Does
<1>2. ASSUME NEW q \in Readers, q # r
      PROVE  OwedFor(q)
  BY <1>2 DEF OwedInv, OwedFor, Others, Shown, Shows
<1>3. sig' = sig /\ fences' = fences /\ table' = table /\ NumFences' = NumFences
  BY DEF Quiet, NumFences
<1> QED
  BY <1>1, <1>2, <1>3 DEF OwedInv, OwedFor, Shown, Shows

\* What SeenInv says of r, after the step of a reader
CountsAfter(r) == pc'[r] \notin {"idle", "restart"} /\ (cursor'[r].fences = fences \/ pc'[r] = "done")

SeenAfter(r, S) ==
  \/ \E j \in cursor'[r].index + 1 .. cursor'[r].num : Shown(r, S, j)
  \/ /\ cursor'[r].restarted = 0 \/ pc'[r] = "next"
     /\ \E i \in DOMAIN got'[r] : got'[r][i] \in S
  \/ pc'[r] \in {"get", "test"} /\ cand'[r].fence \in S /\ cand'[r].usage <= cursor'[r].usage
  \/ pc'[r] \in {"check", "body"} /\ cursor'[r].fence \in S

SeenFor(r) == \A S \in owed'[r] : CountsAfter(r) => SeenAfter(r, S)

LEMMA CountsSeen ==
  ASSUME SeenInv, NEW r \in Readers, NEW S \in owed[r], Counts(r)
  PROVE  Seen(r, S)
BY DEF SeenInv, Counts

\* A fence that is collected is in the result, with all that was there.
LEMMA KeptLast ==
  ASSUME TypeOK, CursorInv, NEW r \in Readers, pc[r] = "body", got'[r] = Append(got[r], cursor[r].fence)
  PROVE  /\ \A x \in GotFences(r) : \E i \in DOMAIN got'[r] : got'[r][i] = x
         /\ \E i \in DOMAIN got'[r] : got'[r][i] = cursor[r].fence
<1> DEFINE s == got[r]  f == cursor[r].fence  t == Append(s, f)
<1>1. s \in Seq(Fences) /\ f \in Fences
  BY DEF TypeOK, ReaderType, CursorInv, CursorOk
<1>2. GotFences(r) = {s[i] : i \in DOMAIN s}
  BY DEF GotFences
<1>3. got'[r] = t
  OBVIOUS
<1> HIDE DEF s, f
<1>4. Len(s) \in Nat /\ DOMAIN s = 1 .. Len(s) /\ DOMAIN t = 1 .. Len(s) + 1
  BY <1>1
<1>5. (\A i \in DOMAIN s : i \in DOMAIN t /\ t[i] = s[i]) /\ Len(s) + 1 \in DOMAIN t /\ t[Len(s) + 1] = f
  BY <1>1, <1>4
<1> QED
  BY <1>2, <1>3, <1>5 DEF f

LEMMA SeenReader ==
  ASSUME TypeOK, TablesInv, CursorInv, OwedInv, SeenInv, Quiet, NEW r \in Readers, Others(r),
         Does(r)
  PROVE  SeenInv'
<1>1. SeenFor(r)
<2>1. ASSUME NEW o \in ReaderOps, NEW u \in 0 .. 3, Starts(r, o, u)
      PROVE  SeenFor(r)
    BY <2>1 DEF Starts, SeenFor, CountsAfter
<2>2. ASSUME BeginsWalk(r)
      PROVE  SeenFor(r)
    <3> SUFFICES ASSUME NEW S \in owed'[r], CountsAfter(r)
                 PROVE  SeenAfter(r, S)
      BY DEF SeenFor
    <3>1. /\ cursor'[r].usage = cursor[r].usage /\ cursor'[r].index = 0 /\ cursor'[r].num = NumFences
          /\ owed'[r] = owed[r]
      BY <2>2 DEF BeginsWalk, CursorIs, SameCall
    <3>2. PICK j \in 1 .. NumFences : Shows(r, S, fences, j)
      BY <3>1 DEF OwedInv
    <3>3. j \in 0 + 1 .. NumFences /\ Shown(r, S, j)
      BY <3>1, <3>2 DEF Shows, Shown
    <3> QED
      BY <3>1, <3>3 DEF SeenAfter
<2>3. ASSUME EndsWalk(r)
      PROVE  SeenFor(r)
    <3> SUFFICES ASSUME NEW S \in owed'[r], CountsAfter(r)
                 PROVE  SeenAfter(r, S)
      BY DEF SeenFor
    <3>1. /\ cursor'[r].usage = cursor[r].usage /\ cursor'[r].fences = cursor[r].fences /\ cursor'[r].num = cursor[r].num
          /\ cursor'[r].index = cursor[r].index /\ cursor'[r].restarted = cursor[r].restarted
          /\ got'[r] = got[r] /\ owed'[r] = owed[r]
          /\ pc[r] = "walk" /\ pc'[r] = "check"
          /\ cursor[r].index >= cursor[r].num
      BY <2>3 DEF EndsWalk, CursorIs, SameCursorOf, SameCall, SameEntry, SameResult
    <3>2. Counts(r) /\ Seen(r, S)
      BY <3>1, CountsSeen DEF Counts, CountsAfter
    <3>10. ASSUME NEW j \in cursor[r].index + 1 .. cursor[r].num, Shows(r, S, fences, j)
           PROVE  SeenAfter(r, S)
      <4>1. cursor[r].index \in Nat /\ cursor[r].num \in Nat
        BY <3>2, RestOfList
      <4> QED
        BY <3>1, <3>10, <4>1
    <3>11. ASSUME Fresh(r), S \cap GotFences(r) # {}
           PROVE  SeenAfter(r, S)
      BY <3>1, <3>11 DEF SeenAfter, Fresh, GotFences
    <3>12. ASSUME pc[r] \in {"get", "test"}, cand[r].fence \in S, cand[r].usage <= cursor[r].usage
           PROVE  SeenAfter(r, S)
      BY <3>1, <3>12
    <3>13. ASSUME pc[r] \in {"check", "body"}, cursor[r].fence \in S
           PROVE  SeenAfter(r, S)
      BY <3>1, <3>13
    <3> QED
      BY <3>2, <3>10, <3>11, <3>12, <3>13 DEF Seen
<2>4. ASSUME Reads(r)
      PROVE  SeenFor(r)
    <3> SUFFICES ASSUME NEW S \in owed'[r], CountsAfter(r)
                 PROVE  SeenAfter(r, S)
      BY DEF SeenFor
    <3>1. /\ cursor'[r].usage = cursor[r].usage /\ cursor'[r].fences = cursor[r].fences /\ cursor'[r].num = cursor[r].num
          /\ cursor'[r].index = cursor[r].index + 1 /\ cursor'[r].restarted = cursor[r].restarted
          /\ got'[r] = got[r] /\ owed'[r] = owed[r]
          /\ pc[r] = "walk" /\ pc'[r] = "get"
          /\ cand'[r] = table[cursor[r].fences][cursor[r].index + 1]
      BY <2>4 DEF Reads, CursorIs, SameCursorOf, SameCall, SameEntry, SameResult
    <3>2. Counts(r) /\ Seen(r, S)
      BY <3>1, CountsSeen DEF Counts, CountsAfter
    <3>10. ASSUME NEW j \in cursor[r].index + 1 .. cursor[r].num, Shows(r, S, fences, j)
           PROVE  SeenAfter(r, S)
      <4>1. cursor[r].index \in Nat /\ cursor[r].num \in Nat
        BY <3>2, RestOfList
      <4>2. cursor[r].fences = fences
        BY <3>1, <3>2 DEF Counts
      <4>3. CASE j = cursor[r].index + 1
        BY <3>1, <3>10, <4>2, <4>3 DEF SeenAfter, Shows
      <4>4. CASE j # cursor[r].index + 1
        <5>1. j \in cursor[r].index + 1 + 1 .. cursor[r].num
          BY <4>1, <4>4
        <5> QED
          BY <3>1, <3>10, <5>1 DEF SeenAfter, Shown, Shows
      <4> QED
        BY <4>3, <4>4
    <3>11. ASSUME Fresh(r), S \cap GotFences(r) # {}
           PROVE  SeenAfter(r, S)
      BY <3>1, <3>11 DEF SeenAfter, Fresh, GotFences
    <3>12. ASSUME pc[r] \in {"get", "test"}, cand[r].fence \in S, cand[r].usage <= cursor[r].usage
           PROVE  SeenAfter(r, S)
      BY <3>1, <3>12
    <3>13. ASSUME pc[r] \in {"check", "body"}, cursor[r].fence \in S
           PROVE  SeenAfter(r, S)
      BY <3>1, <3>13
    <3> QED
      BY <3>2, <3>10, <3>11, <3>12, <3>13 DEF Seen
<2>5. ASSUME Gets(r)
      PROVE  SeenFor(r)
    <3> SUFFICES ASSUME NEW S \in owed'[r], CountsAfter(r)
                 PROVE  SeenAfter(r, S)
      BY DEF SeenFor
    <3>1. /\ cursor'[r].usage = cursor[r].usage /\ cursor'[r].fences = cursor[r].fences /\ cursor'[r].num = cursor[r].num
          /\ cursor'[r].index = cursor[r].index /\ cursor'[r].restarted = cursor[r].restarted
          /\ got'[r] = got[r] /\ owed'[r] = owed[r]
          /\ pc[r] = "get" /\ pc'[r] = "test" /\ cand'[r] = cand[r]
      BY <2>5 DEF Gets, CursorIs, SameCursorOf, SameCall, SameEntry, SameResult
    <3>2. Counts(r) /\ Seen(r, S)
      BY <3>1, CountsSeen DEF Counts, CountsAfter
    <3>10. ASSUME NEW j \in cursor[r].index + 1 .. cursor[r].num, Shows(r, S, fences, j)
           PROVE  SeenAfter(r, S)
      BY <3>1, <3>10 DEF SeenAfter, Shown, Shows
    <3>11. ASSUME Fresh(r), S \cap GotFences(r) # {}
           PROVE  SeenAfter(r, S)
      BY <3>1, <3>11 DEF SeenAfter, Fresh, GotFences
    <3>12. ASSUME pc[r] \in {"get", "test"}, cand[r].fence \in S, cand[r].usage <= cursor[r].usage
           PROVE  SeenAfter(r, S)
      BY <3>1, <3>12 DEF SeenAfter
    <3>13. ASSUME pc[r] \in {"check", "body"}, cursor[r].fence \in S
           PROVE  SeenAfter(r, S)
      BY <3>1, <3>13
    <3> QED
      BY <3>2, <3>10, <3>11, <3>12, <3>13 DEF Seen
<2>6. ASSUME Tests(r)
      PROVE  SeenFor(r)
    <3> SUFFICES ASSUME NEW S \in owed'[r], CountsAfter(r)
                 PROVE  SeenAfter(r, S)
      BY DEF SeenFor
    <3>1. /\ cursor'[r].usage = cursor[r].usage /\ cursor'[r].fences = cursor[r].fences /\ cursor'[r].num = cursor[r].num
          /\ cursor'[r].index = cursor[r].index /\ cursor'[r].restarted = cursor[r].restarted
          /\ got'[r] = got[r] /\ owed'[r] = owed[r]
          /\ cursor'[r].fence = cursor[r].fence
          /\ pc[r] = "test" /\ pc'[r] \in {"check", "walk"}
          /\ pc'[r] = "check" <=> cursor[r].fence \notin sig /\ cursor[r].usage >= cand[r].usage
      BY <2>6 DEF Tests, CursorIs, SameCursorOf, SameCall, SameEntry, SameResult
    <3>2. Counts(r) /\ Seen(r, S)
      BY <3>1, CountsSeen DEF Counts, CountsAfter
    <3>10. ASSUME NEW j \in cursor[r].index + 1 .. cursor[r].num, Shows(r, S, fences, j)
           PROVE  SeenAfter(r, S)
      BY <3>1, <3>10 DEF SeenAfter, Shown, Shows
    <3>11. ASSUME Fresh(r), S \cap GotFences(r) # {}
           PROVE  SeenAfter(r, S)
      BY <3>1, <3>11 DEF SeenAfter, Fresh, GotFences
    <3>12. ASSUME pc[r] \in {"get", "test"}, cand[r].fence \in S, cand[r].usage <= cursor[r].usage
           PROVE  SeenAfter(r, S)
      <4>1. cursor[r].fence = cand[r].fence /\ cursor[r].usage \in Int /\ cand[r].usage \in Int
        <5>1. cursor[r] \in CursorType /\ cand[r] \in Entry
          BY DEF TypeOK, ReaderType
        <5> QED
          BY <3>1, <5>1 DEF CursorInv, CursorOk, CursorType, Entry
      <4>2. S \cap sig = {}
        BY <3>1 DEF OwedInv
      <4> QED
        BY <3>1, <3>12, <4>1, <4>2 DEF SeenAfter
    <3>13. ASSUME pc[r] \in {"check", "body"}, cursor[r].fence \in S
           PROVE  SeenAfter(r, S)
      BY <3>1, <3>13
    <3> QED
      BY <3>2, <3>10, <3>11, <3>12, <3>13 DEF Seen
<2>7. ASSUME Returns(r)
      PROVE  SeenFor(r)
    <3> SUFFICES ASSUME NEW S \in owed'[r], CountsAfter(r)
                 PROVE  SeenAfter(r, S)
      BY DEF SeenFor
    <3>1. /\ cursor'[r].usage = cursor[r].usage /\ cursor'[r].fences = cursor[r].fences /\ cursor'[r].num = cursor[r].num
          /\ cursor'[r].index = cursor[r].index /\ cursor'[r].restarted = cursor[r].restarted
          /\ got'[r] = got[r] /\ owed'[r] = owed[r]
          /\ cursor'[r].fence = cursor[r].fence /\ fences = cursor[r].fences
          /\ pc[r] = "check" /\ pc'[r] = (IF cursor[r].fence = None THEN "done" ELSE "body")
      BY <2>7 DEF Returns, CursorIs, SameCursorOf, SameCall, SameEntry, SameResult
    <3>2. Counts(r) /\ Seen(r, S)
      BY <3>1, CountsSeen DEF Counts, CountsAfter
    <3>10. ASSUME NEW j \in cursor[r].index + 1 .. cursor[r].num, Shows(r, S, fences, j)
           PROVE  SeenAfter(r, S)
      BY <3>1, <3>10 DEF SeenAfter, Shown, Shows
    <3>11. ASSUME Fresh(r), S \cap GotFences(r) # {}
           PROVE  SeenAfter(r, S)
      BY <3>1, <3>11 DEF SeenAfter, Fresh, GotFences
    <3>12. ASSUME pc[r] \in {"get", "test"}, cand[r].fence \in S, cand[r].usage <= cursor[r].usage
           PROVE  SeenAfter(r, S)
      BY <3>1, <3>12
    <3>13. ASSUME pc[r] \in {"check", "body"}, cursor[r].fence \in S
           PROVE  SeenAfter(r, S)
      <4>1. cursor[r].fence # None
        BY <3>1, <3>13, ResvAssumption DEF TypeOK, OwedType, None
      <4> QED
        BY <3>1, <3>13, <4>1 DEF SeenAfter
    <3> QED
      BY <3>2, <3>10, <3>11, <3>12, <3>13 DEF Seen
<2>8. ASSUME GoesOn(r)
      PROVE  SeenFor(r)
    <3> SUFFICES ASSUME NEW S \in owed'[r], CountsAfter(r)
                 PROVE  SeenAfter(r, S)
      BY DEF SeenFor
    <3>1. /\ cursor'[r].usage = cursor[r].usage /\ cursor'[r].fences = cursor[r].fences /\ cursor'[r].num = cursor[r].num
          /\ cursor'[r].index = cursor[r].index /\ cursor'[r].restarted = 0
          /\ got'[r] = got[r] /\ owed'[r] = owed[r]
          /\ fences = cursor[r].fences
          /\ pc[r] = "next" /\ pc'[r] \in {"check", "walk"}
      BY <2>8 DEF GoesOn, CursorIs, SameCursorOf, SameCall, SameEntry, SameResult, Walk
    <3>2. Counts(r) /\ Seen(r, S)
      BY <3>1, CountsSeen DEF Counts, CountsAfter
    <3>10. ASSUME NEW j \in cursor[r].index + 1 .. cursor[r].num, Shows(r, S, fences, j)
           PROVE  SeenAfter(r, S)
      BY <3>1, <3>10 DEF SeenAfter, Shown, Shows
    <3>11. ASSUME Fresh(r), S \cap GotFences(r) # {}
           PROVE  SeenAfter(r, S)
      BY <3>1, <3>11 DEF SeenAfter, Fresh, GotFences
    <3>12. ASSUME pc[r] \in {"get", "test"}, cand[r].fence \in S, cand[r].usage <= cursor[r].usage
           PROVE  SeenAfter(r, S)
      BY <3>1, <3>12
    <3>13. ASSUME pc[r] \in {"check", "body"}, cursor[r].fence \in S
           PROVE  SeenAfter(r, S)
      BY <3>1, <3>13
    <3> QED
      BY <3>2, <3>10, <3>11, <3>12, <3>13 DEF Seen
<2>9. ASSUME HasWaited(r)
      PROVE  SeenFor(r)
    <3> SUFFICES ASSUME NEW S \in owed'[r], CountsAfter(r)
                 PROVE  SeenAfter(r, S)
      BY DEF SeenFor
    <3>1. /\ cursor'[r].usage = cursor[r].usage /\ cursor'[r].fences = cursor[r].fences /\ cursor'[r].num = cursor[r].num
          /\ cursor'[r].index = cursor[r].index /\ cursor'[r].restarted = cursor[r].restarted
          /\ got'[r] = got[r] /\ owed'[r] = owed[r]
          /\ cursor[r].fence \in sig
          /\ pc[r] = "body" /\ pc'[r] = "next"
      BY <2>9 DEF HasWaited, CursorIs, SameCursorOf, SameCall, SameEntry, SameResult
    <3>2. Counts(r) /\ Seen(r, S)
      BY <3>1, CountsSeen DEF Counts, CountsAfter
    <3>10. ASSUME NEW j \in cursor[r].index + 1 .. cursor[r].num, Shows(r, S, fences, j)
           PROVE  SeenAfter(r, S)
      BY <3>1, <3>10 DEF SeenAfter, Shown, Shows
    <3>11. ASSUME Fresh(r), S \cap GotFences(r) # {}
           PROVE  SeenAfter(r, S)
      BY <3>1, <3>11 DEF SeenAfter, Fresh, GotFences
    <3>12. ASSUME pc[r] \in {"get", "test"}, cand[r].fence \in S, cand[r].usage <= cursor[r].usage
           PROVE  SeenAfter(r, S)
      BY <3>1, <3>12
    <3>13. ASSUME pc[r] \in {"check", "body"}, cursor[r].fence \in S
           PROVE  SeenAfter(r, S)
      <4>1. S \cap sig = {}
        BY <3>1 DEF OwedInv
      <4> QED
        BY <3>1, <3>13, <4>1
    <3> QED
      BY <3>2, <3>10, <3>11, <3>12, <3>13 DEF Seen
<2>10. ASSUME Stops(r)
      PROVE  SeenFor(r)
    BY <2>10 DEF Stops, SeenFor
<2>11. ASSUME Drops(r)
      PROVE  SeenFor(r)
    <3> SUFFICES ASSUME NEW S \in owed'[r], CountsAfter(r)
                 PROVE  SeenAfter(r, S)
      BY DEF SeenFor
    <3>0. owed'[r] = owed[r] /\ pc[r] = "body"
      BY <2>11 DEF Drops
    <3>1. /\ cursor'[r].usage = cursor[r].usage /\ cursor'[r].fences = cursor[r].fences /\ cursor'[r].num = cursor[r].num
          /\ cursor'[r].index = cursor[r].index /\ cursor'[r].restarted = cursor[r].restarted /\ cursor[r].restarted = 1
          /\ cursor'[r].fence = cursor[r].fence /\ owed'[r] = owed[r]
          /\ pc[r] = "body" /\ pc'[r] = "body"
      BY <2>11, <3>0 DEF Drops, CursorIs, SameCursorOf
    <3>2. Counts(r) /\ Seen(r, S)
      BY <3>1, CountsSeen DEF Counts, CountsAfter
    <3>10. ASSUME NEW j \in cursor[r].index + 1 .. cursor[r].num, Shows(r, S, fences, j)
           PROVE  SeenAfter(r, S)
      BY <3>1, <3>10 DEF SeenAfter, Shown, Shows
    <3>11. ASSUME Fresh(r), S \cap GotFences(r) # {}
           PROVE  SeenAfter(r, S)
      BY <3>1, <3>11 DEF Fresh
    <3>12. ASSUME pc[r] \in {"get", "test"}, cand[r].fence \in S, cand[r].usage <= cursor[r].usage
           PROVE  SeenAfter(r, S)
      BY <3>1, <3>12
    <3>13. ASSUME pc[r] \in {"check", "body"}, cursor[r].fence \in S
           PROVE  SeenAfter(r, S)
      BY <3>1, <3>13 DEF SeenAfter
    <3> QED
      BY <3>2, <3>10, <3>11, <3>12, <3>13 DEF Seen
<2>12. ASSUME Keeps(r)
      PROVE  SeenFor(r)
    <3> SUFFICES ASSUME NEW S \in owed'[r], CountsAfter(r)
                 PROVE  SeenAfter(r, S)
      BY DEF SeenFor
    <3>1. /\ cursor'[r].usage = cursor[r].usage /\ cursor'[r].fences = cursor[r].fences /\ cursor'[r].num = cursor[r].num
          /\ cursor'[r].index = cursor[r].index /\ cursor'[r].restarted = cursor[r].restarted
          /\ owed'[r] = owed[r]
          /\ pc[r] = "body" /\ pc'[r] = "next"
          /\ got'[r] = Append(got[r], cursor[r].fence)
      BY <2>12 DEF Keeps, CursorIs, SameCursorOf, SameCall
    <3>2. Counts(r) /\ Seen(r, S)
      BY <3>1, CountsSeen DEF Counts, CountsAfter
    <3>3. /\ \A x \in GotFences(r) : \E i \in DOMAIN got'[r] : got'[r][i] = x
          /\ \E i \in DOMAIN got'[r] : got'[r][i] = cursor[r].fence
      BY <3>1, KeptLast
    <3>10. ASSUME NEW j \in cursor[r].index + 1 .. cursor[r].num, Shows(r, S, fences, j)
           PROVE  SeenAfter(r, S)
      BY <3>1, <3>10 DEF SeenAfter, Shown, Shows
    <3>11. ASSUME Fresh(r), S \cap GotFences(r) # {}
           PROVE  SeenAfter(r, S)
      BY <3>1, <3>3, <3>11 DEF SeenAfter
    <3>12. ASSUME pc[r] \in {"get", "test"}, cand[r].fence \in S, cand[r].usage <= cursor[r].usage
           PROVE  SeenAfter(r, S)
      BY <3>1, <3>12
    <3>13. ASSUME pc[r] \in {"check", "body"}, cursor[r].fence \in S
           PROVE  SeenAfter(r, S)
      BY <3>1, <3>3, <3>13 DEF SeenAfter
    <3> QED
      BY <3>2, <3>10, <3>11, <3>12, <3>13 DEF Seen
  <2> QED
    BY <2>1, <2>2, <2>3, <2>4, <2>5, <2>6, <2>7, <2>8, <2>9, <2>10, <2>11, <2>12 DEF Does
<1>2. ASSUME NEW q \in Readers, q # r, NEW S \in owed'[q], CountsAfter(q)
      PROVE  SeenAfter(q, S)
  <2>1. /\ pc'[q] = pc[q] /\ cursor'[q] = cursor[q] /\ cand'[q] = cand[q] /\ got'[q] = got[q]
        /\ owed'[q] = owed[q]
    BY <1>2 DEF Others
  <2>2. Seen(q, S)
    BY <1>2, <2>1, CountsSeen DEF Counts, CountsAfter
  <2> QED
    BY <2>1, <2>2 DEF Seen, SeenAfter, Shown, Shows, Fresh, GotFences
<1>3. fences' = fences /\ table' = table
  BY DEF Quiet
<1>4. ASSUME NEW q \in Readers, NEW S \in owed'[q], CountsAfter(q)
      PROVE  Seen(q, S)'
  <2>1. SeenAfter(q, S)
    BY <1>1, <1>2, <1>4 DEF SeenFor
  <2> QED
    BY <1>3, <2>1 DEF SeenAfter, Seen, Shown, Shows, Fresh, GotFences
<1> QED
  BY <1>3, <1>4 DEF SeenInv, CountsAfter

LEMMA OwedStep ==
  ASSUME TypeOK, ListsInv, TablesInv, CopyInv, SlotsInv, ArgsInv, CursorInv, RoomInv, Ordered, OwedInv,
         CopyShows, SeenInv, Next
  PROVE  OwedInv' /\ SeenInv'
<1>1. CASE ReaderStep
  <2>1. PICK r \in Readers : Others(r) /\ Does(r)
    BY <1>1, ReaderDoes
  <2> QED
    BY <1>1, <2>1, OwedReader, SeenReader, ReadersAreQuiet
<1>2. CASE WriterActs
  BY <1>2, OwedWriter
<1> QED
  BY <1>1, <1>2 DEF Next, ReaderStep, WriterActs

LEMMA InitIInv == Init => IInv
<1> SUFFICES ASSUME Init
             PROVE  IInv
  OBVIOUS
<1>1. FenceType /\ OwedType
  BY DEF Init, FenceType, OwedType
<1>2. ListType
  <2>1. 0 \in MaybeList
    BY ResvAssumption DEF MaybeList
  <2>2. <<>> \in Seq(Entry)
    OBVIOUS
  <2> QED
    BY <2>1, <2>2 DEF Init, ListType, None
<1>3. WriterType
  <2>1. 0 \in MaybeList /\ 0 \in MaybeFence
    BY ResvAssumption DEF MaybeList, MaybeFence, None
  <2> QED
    BY <2>1 DEF Init, WriterType, WriterPcs, None
<1>4. ReaderType
  BY IdleType DEF Init, ReaderType, ReaderPcs, Ops
<1>5. NumFences = 0 /\ 1 .. NumFences = {}
  BY DEF Init, NumFences
<1>6. ListsInv /\ CopyInv /\ SlotsInv /\ ArgsInv
  BY DEF Init, ListsInv, CopyInv, SlotsInv, ArgsInv
<1>7. TablesInv
  BY DEF Init, TablesInv, Lists, None
<1>8. CursorInv
  BY DEF Init, CursorInv, CursorOk, Pends, Idle, Cursor, None
<1>9. RoomInv
  BY DEF Init, RoomInv, RoomOk
<1>10. RcuLists /\ RcuFences
  BY DEF Init, RcuLists, RcuFences, InRcu
<1>11. CopyRefs /\ CopyShows /\ Ordered /\ OwedInv /\ SeenInv
  BY DEF Init, CopyRefs, CopyShows, Ordered, OwedInv, SeenInv
<1>12. ASSUME NEW f \in Fences
       PROVE  IsFiniteSet(Places(f)) /\ ref[f] = Held(f)
  <2>1. Listed(f) = {} /\ Dropping(f) = {}
    BY <1>5 DEF Init, Listed, Dropping
  <2>2. Cursors(f) = {}
    BY ResvAssumption DEF Init, Cursors, Idle, Cursor, None
  <2>3. Places(f) = {}
    BY DEF Init, Places
  <2>4. IsFiniteSet({}) /\ Cardinality({}) = 0
    BY FS_EmptySet
  <2>5. Bit(f \notin sig) = 1
    BY DEF Init, Bit
  <2>6. Bit(wfence = f /\ wpc \in {"add", "addcount"}) = 0
    BY DEF Init, Bit
  <2>7. Bit(wput = f) = 0
    BY ResvAssumption DEF Init, Bit, None
  <2>8. Held(f) = 1 + 0 + 0 + 0 + 0 + 0 + 0
    BY <2>1, <2>2, <2>3, <2>4, <2>5, <2>6, <2>7 DEF Held
  <2>9. ref[f] = 1
    BY DEF Init
  <2> QED
    BY <2>3, <2>4, <2>8, <2>9
<1> QED
  BY <1>1, <1>2, <1>3, <1>4, <1>6, <1>7, <1>8, <1>9, <1>10, <1>11, <1>12 DEF IInv, TypeOK, PlacesFinite, RefsExact

LEMMA NextIInv ==
  ASSUME IInv, Next
  PROVE  IInv'
<1>1. TypeOK' /\ ListsInv' /\ TablesInv' /\ CopyInv' /\ SlotsInv' /\ ArgsInv' /\ CursorInv' /\ RoomInv'
  BY TypeStep, ListsStep, TablesStep, CopyStep, SlotsStep, ArgsStep, CursorStep, RoomStep DEF IInv
<1>2. RcuLists' /\ RcuFences' /\ CopyRefs' /\ PlacesFinite' /\ RefsExact'
  BY RcuListsStep, RcuFencesStep, CopyRefsStep, RefsStep DEF IInv
<1>3. Ordered' /\ OwedInv' /\ CopyShows' /\ SeenInv'
  BY OrderedStep, OwedStep, CopyShowsStep DEF IInv
<1> QED
  BY <1>1, <1>2, <1>3 DEF IInv

LEMMA StutterIInv ==
  ASSUME IInv, UNCHANGED vars
  PROVE  IInv'
<1> USE DEF vars, fenceVars, listVars, memVars, writerVars, callVars, argVars, readerVars
<1>1. TypeOK'
  BY DEF IInv, TypeOK, FenceType, ListType, WriterType, ReaderType, OwedType
<1>2. ListsInv' /\ TablesInv' /\ CopyInv' /\ SlotsInv' /\ ArgsInv'
  BY DEF IInv, ListsInv, TablesInv, CopyInv, SlotsInv, ArgsInv, NumFences
<1>3. CursorInv' /\ RoomInv'
  BY DEF IInv, CursorInv, CursorOk, Pends, RoomInv, RoomOk, Fresh
<1>4. RcuLists' /\ RcuFences'
  BY DEF IInv, RcuLists, RcuFences, InRcu, Kept
<1>5. CopyRefs' /\ PlacesFinite'
  BY DEF IInv, CopyRefs, CopyFrom, AtFront, AtBack, PlacesFinite, Places
<1>6. RefsExact'
  <2>1. \A f : Listed(f)' = Listed(f) /\ Dropping(f)' = Dropping(f) /\ Cursors(f)' = Cursors(f) /\ Places(f)' = Places(f)
    BY DEF Listed, Dropping, Cursors, Places, NumFences
  <2>2. \A f : Held(f)' = Held(f)
    BY <2>1 DEF Held
  <2> QED
    BY <2>2 DEF IInv, RefsExact
<1>7. Ordered' /\ OwedInv' /\ CopyShows'
  BY DEF IInv, Ordered, OwedInv, Shows, CopyShows, NumFences
<1>8. SeenInv'
  BY DEF IInv, SeenInv, Seen, Shows, Fresh, GotFences
<1> QED
  BY <1>1, <1>2, <1>3, <1>4, <1>5, <1>6, <1>7, <1>8 DEF IInv

\* IInv holds in every state of the object, of its writer and of its readers.
THEOREM Invariant == Spec => []IInv
<1>1. IInv /\ [Next]_vars => IInv'
  BY NextIInv, StutterIInv
<1> QED
  BY InitIInv, <1>1, PTL DEF Spec

\* dma_resv_add_fence() finds the slot that dma_resv_reserve_fences() promised:
\* its BUG_ON() does not strike, however many fences signal, are replaced or
\* are thrown out of the list in between.  The arrays of dma_resv_get_fences()
\* and dma_resv_copy_fences() are large enough, however often the walk begins
\* again.
THEOREM SlotsAreEnough == Spec => []SlotsSuffice
<1>1. IInv => SlotsSuffice
  <2> SUFFICES ASSUME IInv
               PROVE  SlotsSuffice
    OBVIOUS
  <2>1. ASSUME wpc = "add", wi > num[fences]
        PROVE  num[fences] < max[fences]
    <3> DEFINE n == num[fences]  m == max[fences]
    <3>1. fences \in Lists
      BY <2>1, AddAt DEF IInv
    <3>2. n \in Nat /\ m \in Nat /\ slots \in Nat /\ n + slots + 1 <= m
      BY <2>1, <3>1 DEF IInv, TypeOK, ListType, WriterType, SlotsInv
    <3> HIDE DEF n, m
    <3>3. n < m
      BY <3>2
    <3> QED
      BY <3>3 DEF n, m
  <2> QED
    BY <2>1 DEF SlotsSuffice, IInv, RoomInv, RoomOk
<1> QED
  BY Invariant, <1>1, PTL

\* No reader of the unlocked iterator touches a list or a fence that has been
\* freed, while writers exchange the list and drop its fences.
THEOREM ReadersAreSafe == Spec => []NoWildRead
<1>1. IInv => NoWildRead
  <2> SUFFICES ASSUME IInv, NEW r \in Readers
               PROVE  /\ pc[r] = "walk" /\ cursor[r].index < cursor[r].num => ~ListGone(cursor[r].fences)
                      /\ pc[r] = "get" => cand[r].fence # None /\ ~FenceGone(cand[r].fence)
                      /\ cursor[r].fence # None => ref[cursor[r].fence] > 0
    BY DEF NoWildRead
  <2>1. pc[r] = "walk" => ~ListGone(cursor[r].fences)
    BY DEF IInv, RcuLists, InRcu, ListGone
  <2>2. ASSUME pc[r] = "get"
        PROVE  cand[r].fence # None /\ ~FenceGone(cand[r].fence)
    <3>1. cand[r].fence \in Fences
      BY <2>2 DEF IInv, CursorInv, CursorOk
    <3>2. Kept(cand[r].fence, r)
      BY <2>2 DEF IInv, RcuFences, InRcu
    <3> QED
      BY <3>1, <3>2, ResvAssumption DEF Kept, FenceGone, None
  <2>3. ASSUME cursor[r].fence # None
        PROVE  ref[cursor[r].fence] > 0
    <3>1. cursor[r] \in CursorType
      BY DEF IInv, TypeOK, ReaderType
    <3>2. cursor[r].fence \in Fences
      BY <2>3, <3>1 DEF CursorType, MaybeFence
    <3>3. r \in Cursors(cursor[r].fence)
      BY DEF Cursors
    <3> QED
      BY <3>2, <3>3, RefPositive DEF IInv
  <2> QED
    BY <2>1, <2>2, <2>3
<1> QED
  BY Invariant, <1>1, PTL

\* The references of a fence are those of the driver, of the published list, of
\* the writer, of the cursors and of the collected arrays, also while
\* dma_resv_reserve_fences() moves them to another list and an entry is replaced:
\* none is lost and none is dropped twice.
THEOREM RefsAreExact == Spec => []RefsExact
<1>1. IInv => RefsExact
  BY DEF IInv
<1> QED
  BY Invariant, <1>1, PTL

\* A call that returns success has waited for, or has in its result, every fence
\* that was in the object when it began and that its usage asks for, or one that
\* took the place of that fence, although it held no lock.
THEOREM NothingIsMissed == Spec => []NothingMissed
<1>1. IInv => NothingMissed
  <2> SUFFICES ASSUME IInv, NEW r \in Readers, pc[r] = "done", NEW S \in owed[r]
               PROVE  S \cap GotFences(r) # {}
    BY DEF NothingMissed
  <2>1. Counts(r)
    BY DEF Counts
  <2>2. Seen(r, S)
    BY <2>1, CountsSeen DEF IInv
  <2> QED
    BY <2>1, <2>2, RestOfList DEF IInv, Seen
<1> QED
  BY Invariant, <1>1, PTL

============================================================================

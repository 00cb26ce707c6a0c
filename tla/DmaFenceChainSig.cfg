SPECIFICATION FairSpec
CONSTANTS
  u1 = u1
  u2 = u2
  u3 = u3
  driver = driver
  worker = worker
  Nodes = {1, 2}
  Adders = {u1}
  Readers = {u2}
  Worker = worker
  Drivers = {driver}
  ReaderOps = {"enable", "find"}
  AdderOps = {"point", "replace"}
  MaxPoint = 2
  HeapContents = {0}
INVARIANTS
  RefcountExact
  ChainSignalSound
  CallbackSlotFree
  FindSound
PROPERTIES
  EnableSignals

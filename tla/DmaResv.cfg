SPECIFICATION FairSpec
CONSTANTS
  r1 = r1
  Fences = {1, 3}
  Contexts = {0, 1}
  Context <- TwoContexts
  SignBit = 4
  FirstSeqno = 5
  Readers = {r1}
  ReaderOps = {"test", "wait", "copy"}
  Usages = {1, 2}
  MinSlots = 2
  MaxReserve = 1
  MaxLists = 2
  MaxAdds = 2
  DebugMutexes = TRUE
  Replaces = TRUE
INVARIANTS
  NothingMissed
  RefsExact
  NoWildRead
  SlotsSuffice
PROPERTIES
  CallReturns
CHECK_DEADLOCK FALSE

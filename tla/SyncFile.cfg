SPECIFICATION FairSpec
CONSTANTS
  p1 = p1
  p2 = p2
  c1 = c1
  Fences = {1, 2, 3}
  Context <- TwoContexts
  SignBit = 4
  FirstSeqno = 5
  Inputs <- ShortInputs
  Pollers = {p1, p2}
  Clients = {c1}
INVARIANTS
  MergeSound
  ArraySignalSound
  RefsExact
PROPERTIES
  CallsReturn
CHECK_DEADLOCK FALSE

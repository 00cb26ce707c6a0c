SPECIFICATION Spec
CONSTANTS
  u1 = u1
  u2 = u2
  u3 = u3
  driver = driver
  worker = worker
  Nodes = {1, 2}
  Adders = {u1}
  Readers = {u2}
  Worker = worker
  Drivers = {}
  ReaderOps = {"find"}
  AdderOps = {"point", "replace", "reset"}
  MaxPoint = 2
  HeapContents = {0, 7}
INVARIANTS
  FindSound

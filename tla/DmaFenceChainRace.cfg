SPECIFICATION Spec
CONSTANTS
  u1 = u1
  u2 = u2
  u3 = u3
  driver = driver
  worker = worker
  Nodes = {1, 2, 3}
  Adders = {u1}
  Readers = {u2, u3}
  Worker = worker
  Drivers = {}
  ReaderOps = {"poll"}
  AdderOps = {"point", "reset"}
  MaxPoint = 1
  HeapContents = {0}
SYMMETRY Symmetric
INVARIANTS
  RefcountExact
  PendingKept

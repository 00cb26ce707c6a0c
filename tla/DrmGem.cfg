SPECIFICATION Spec
CONSTANTS
  t1 = t1
  t2 = t2
  file1 = file1
  file2 = file2
  o1 = o1
  own = own
  other = other
  None = None
  Objs = {o1}
  Bufs = {own, other}
  Foreign = {other}
  Files = {file1, file2}
  Threads = {t1, t2}
  Handles = {1, 2}
  MaxHandles = 2
  MaxFds = 1
  Guessing = {file1}
SYMMETRY Symmetric
VIEW View
INVARIANTS
  RefsExact
  HandlesExact
  NothingLeft
  CacheSound
CHECK_DEADLOCK FALSE

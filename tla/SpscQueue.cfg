SPECIFICATION FairSpec
CONSTANTS
  a = a
  b = b
  c = c
  d = d
  null = null
  root = root
  Nodes = {a, b, c, d}
  NULL = null
  Root = root
INVARIANTS
  WritesQueuedNode
  CountLags
PROPERTIES
  ImplementsFifo
  PopReturns

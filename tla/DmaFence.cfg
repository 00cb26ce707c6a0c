SPECIFICATION FairSpec
CONSTANTS
  f1 = f1
  w1 = w1
  c1 = c1
  irq = irq
  Fences = {f1}
  SwFences = {}
  Waiters = {w1}
  Clients = {c1}
  CallTimeouts = {"zero", "finite", "long", "forever"}
  Irq = irq
INVARIANTS
  NodesLive
  HeadNotClobbered
  NoCallbackLost
  NoLostWakeup
  WaitResultSound
PROPERTIES
  RemoveDecides
  WaitReturns
  CallbackCalled

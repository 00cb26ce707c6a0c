SPECIFICATION Spec
CONSTANTS
  s1 = s1
  s2 = s2
  e1 = e1
  e2 = e2
  Scheds = {s1}
  Entities = {e1, e2}
  Jobs = {1, 2}
  sched_list <- Every
  TdrScheds = {s1}
  HwLimit = 2
  MaxDeps = 1
  DontPipeline = {}
  SoftRecovery = FALSE
  ResetMayFail = FALSE
  Closing = {}
  MayKill = FALSE
INVARIANTS
  FinishedIsDone
CHECK_DEADLOCK FALSE

SPECIFICATION FairSpec
CONSTANTS
  Jobs = {j1, j2}
  Sched = Sched
  Gpus = {g1, g2}
  NoGpu = NoGpu
  LlmGpus = {g1, g2}
  DefaultGpu = g1
  Capacity = 3
  SttMb = 2
  LlmMb = 2
  FacadeMb = 2
  MinFree = 0
  MaxRequests = 2
  IdleUnload = TRUE
INVARIANTS
  TypeOK
  LockIsHeld
  AdmittedFit
PROPERTIES
  LlmServed
  JobsServed
CHECK_DEADLOCK FALSE

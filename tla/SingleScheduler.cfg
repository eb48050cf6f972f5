SPECIFICATION FairSpec
CONSTANTS
  Jobs = {j1}
  NoJob = NoJob
  Processes = {p1, p2, p3}
  NoProcess = NoProcess
  All = {p2}
  MaxFaults = 2
INVARIANTS
  TypeOK
  SingleDrain
PROPERTIES
  RunsStand
  QueueServed
CHECK_DEADLOCK FALSE

SPECIFICATION Spec
CONSTANTS
  web = web
  gpu = gpu
  w1 = w1
  w2 = w2
  g1 = g1
  Machines = {web, gpu}
  Threads = {w1, w2, g1}
  Files = {f1}
  On <- OnMachine
  Writes <- AllWrite
  Lazy = {web}
  MaxVersions = 2
SYMMETRY Requests
INVARIANTS
  TypeOK
  SyncedIsShared
PROPERTIES
  UnpushedKept
  SavedIsDurable

SPECIFICATION Spec
CONSTANTS
  Jobs = {j1, j2}
  NoJob = NoJob
  Handlers = {h1}
  MaxWorkers = 2
  Calendar = {0, 1}
  Kinds = {"process"}
  Waits = {"deferred", "waiting_vram"}
  Prompt = TRUE
  Overlaps = FALSE
  Planned = TRUE
  AudioLoss = FALSE
  MaxCrashes = 0
SYMMETRY Symmetry
INVARIANTS
  TypeOK
  NoZombie
  OutcomesAgree
PROPERTIES
  FollowsLifecycle

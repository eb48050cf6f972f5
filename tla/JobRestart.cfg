SPECIFICATION FairSpec
CONSTANTS
  Jobs = {j1}
  NoJob = NoJob
  Handlers = {h1}
  MaxWorkers = 1
  Calendar = {1}
  Kinds = {"process", "reprocess"}
  Waits = {"deferred", "waiting_vram"}
  Prompt = TRUE
  Overlaps = TRUE
  Planned = FALSE
  AudioLoss = FALSE
  MaxCrashes = 2
INVARIANTS
  NoGhostRun
PROPERTIES
  RunsEnd
CHECK_DEADLOCK FALSE

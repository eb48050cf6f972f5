SPECIFICATION Spec
CONSTANTS
  Jobs = {j1}
  NoJob = NoJob
  Handlers = {h1}
  MaxWorkers = 1
  Calendar = {1}
  Kinds = {"process", "cancel"}
  Waits = {}
  Prompt = TRUE
  Overlaps = FALSE
  Planned = FALSE
  AudioLoss = FALSE
  MaxCrashes = 0
INVARIANTS
  LaunchesAreKept

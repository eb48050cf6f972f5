SPECIFICATION Spec
CONSTANTS
  Jobs = {j1}
  NoJob = NoJob
  Handlers = {h1, h2}
  MaxWorkers = 1
  Calendar = {1}
  Kinds = {"process", "cancel", "pause", "resume"}
  Waits = {"deferred", "waiting_vram"}
  Prompt = FALSE
  Overlaps = TRUE
  Planned = TRUE
  AudioLoss = FALSE
  MaxCrashes = 0
SYMMETRY Symmetry
VIEW Visible
INVARIANTS
  SlotsAreOwned
  NoSecondThread
PROPERTIES
  CancelIsKept

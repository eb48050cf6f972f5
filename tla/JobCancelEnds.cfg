SPECIFICATION FairSpec
CONSTANTS
  Jobs = {j1}
  NoJob = NoJob
  Handlers = {h1}
  MaxWorkers = 1
  Calendar = {1}
  Kinds = {"process", "cancel", "queue_cancel"}
  Waits = {}
  Prompt = TRUE
  Overlaps = FALSE
  Planned = TRUE
  AudioLoss = TRUE
  MaxCrashes = 0
PROPERTIES
  CancelsEnd

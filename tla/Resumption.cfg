SPECIFICATION Spec
CONSTANTS
  Profiles = {{"preprocess", "transcription", "diarization", "correction", "final_review", "quality", "export"}, {"preprocess", "transcription", "multi_stt_review", "correction", "type_fields", "export"}}
  Users = {"lexicon", "speakers", "meeting", "summary", "invite", "transcript"}
  MaxLaunches = 2
  MaxDispatches = 3
  MaxEdits = 1
INVARIANTS
  TypeOK
  NothingStale
PROPERTIES
  NoRework
CHECK_DEADLOCK FALSE

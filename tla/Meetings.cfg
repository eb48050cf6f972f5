SPECIFICATION FairSpec
CONSTANTS
  Sessions = {s1, s2}
  Runners = {r1, r2}
  None = None
  Capacity = 1
  MaxAttempts = 2
  MaxClaims <- OnceMore
  SlowAdmission = FALSE
  Mishaps = {"none", "lost", "crash", "stale"}
  Booked <- OneBooked
  Dated = {s1}
  Meeting <- SameMeeting
INVARIANTS
  TypeOK
  OneBot
  CancelReaches
PROPERTIES
  VerdictsStand
  SessionsSettle
CHECK_DEADLOCK FALSE

SPECIFICATION FairSpec
CONSTANTS
  Jobs = {j1, j2}
  Priorities = {1, 2}
  Default = 1
  Interval = 2
  MaxBonus = 3
  Limit = 2
  Capacity = 1
  MaxRun = 2
  MaxDeferrals = 1
  MaxOps = 1
  MaxPosition = 3
INVARIANTS
  TypeOK
PROPERTIES
  NoOvertaking
  EntriesServed

SPECIFICATION FairSpec
CONSTANTS
  m1 = m1
  c1 = c1
  w1 = w1
  w2 = w2
  MaxQuestions = 2
  Meetings = {m1, c1}
  Confidential = {c1}
  Open = {1}
  Workers = {w1, w2}
  First = w1
  MaxRestarts = 1
  AtOnce = 1
INVARIANTS
  TypeOK
  HandledOnce
  AllOrNothing
  NoGhostMeeting
  OnlyAllowed
PROPERTIES
  QuestionsEnd

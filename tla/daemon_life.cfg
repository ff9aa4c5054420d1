CONSTANTS
  c1 = c1
  c2 = c2
  core = core
  Callers = {c1, c2}
  Core = core
  MaxIds = 5
  MaxNotices = 1
SPECIFICATION FairSpec
INVARIANT TypeOK
INVARIANT AnswersMatch
PROPERTY CallsReturn
PROPERTY ShutdownEnds
CHECK_DEADLOCK FALSE

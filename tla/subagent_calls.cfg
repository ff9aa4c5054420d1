CONSTANTS
  MaxAgents = 4
  MaxCancels = 2
SPECIFICATION FairSpec
INVARIANT TypeOK
INVARIANT ForegroundNests
INVARIANT CompletedIsQuiet
PROPERTY AgentsEnd
CHECK_DEADLOCK FALSE

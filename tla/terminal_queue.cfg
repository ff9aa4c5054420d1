CONSTANTS
  MaxMsgs = 3
  MaxExtras = 3
SPECIFICATION FairSpec
INVARIANT TypeOK
INVARIANT InterruptSpares
INVARIANT NothingStrands
PROPERTY NoOvertaking
PROPERTY QueueDrains
CHECK_DEADLOCK FALSE

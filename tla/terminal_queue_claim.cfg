CONSTANTS
  MaxMsgs = 3
  MaxExtras = 0
SPECIFICATION Spec
INVARIANT QueuedIsTaken
CHECK_DEADLOCK FALSE

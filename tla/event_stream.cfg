CONSTANTS
  r1 = r1
  r2 = r2
  c1 = c1
  c2 = c2
  None = None
  Runs = {r1, r2}
  Clients = {c1, c2}
  Requests <- SomeRequests
  MaxEvents <- SomeEvents
SPECIFICATION FairSpec
INVARIANT TypeOK
INVARIANT SeenInOrder
INVARIANT LiveIsComplete
INVARIANT GoneAreForgotten
PROPERTY RunsEnd
CHECK_DEADLOCK FALSE

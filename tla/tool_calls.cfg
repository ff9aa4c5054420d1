CONSTANTS
  q1 = q1
  q2 = q2
  a = a
  bash = bash
  None = None
  Requests = {q1, q2}
  Sessions = {a}
  Tools = {bash}
  Bash = bash
  Default <- Policies
  HasTimeout = TRUE
  MaxRetries = 1
SPECIFICATION FairSpec
INVARIANT TypeOK
INVARIANT OnlyWhenAllowed
INVARIANT ToldAsItWas
PROPERTY CallsReturn

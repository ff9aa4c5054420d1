CONSTANTS
  q1 = q1
  q2 = q2
  q3 = q3
  a = a
  b = b
  bash = bash
  write = write
  None = None
  Requests = {q1, q2, q3}
  Sessions = {a, b}
  Tools = {bash, write}
  Bash = bash
  Default <- Policies
  HasTimeout = TRUE
SPECIFICATION Spec
SYMMETRY Symmetry
INVARIANT TypeOK
INVARIANT PendingIsOpen
INVARIANT OutsideNeedsConsent
INVARIANT AutoAllowHasAuthor
PROPERTY DecisionsStand

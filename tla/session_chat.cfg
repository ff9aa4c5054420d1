CONSTANTS
  s1 = s1
  r1 = r1
  r2 = r2
  r3 = r3
  c1 = c1
  c2 = c2
  None = None
  AutoCompacts = FALSE
  Sids = {s1}
  Aliases = {}
  Runs = {r1, r2, r3}
  Callers = {c1, c2}
  Modes = {"chat"}
  Contents = {"text"}
SPECIFICATION Spec
SYMMETRY Symmetry
INVARIANT TypeOK
INVARIANT SerialRuns
INVARIANT Exclusive
PROPERTY NothingLost

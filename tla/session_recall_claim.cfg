CONSTANTS
  s1 = s1
  r1 = r1
  r2 = r2
  c1 = c1
  None = None
  AutoCompacts = FALSE
  Sids = {s1}
  Aliases = {}
  Runs = {r1, r2}
  Callers = {c1}
  Modes = {"chat"}
  Contents = {"text"}
SPECIFICATION Spec
INVARIANT RecallsSucceeded

CONSTANTS
  s1 = s1
  s2 = s2
  w = w
  r1 = r1
  r2 = r2
  c1 = c1
  None = None
  AutoCompacts = TRUE
  Sids = {s1, s2}
  Aliases = {w}
  Runs = {r1, r2}
  Callers = {c1}
  Modes = {"one_shot"}
  Contents = {"skill", "blank"}
SPECIFICATION Spec
SYMMETRY Symmetry
INVARIANT AliasesUnique
INVARIANT OneShotRunsOnce

SPECIFICATION Spec
CONSTANTS
  Pool = {"holding", "borderline", "scratch"}
  None = None
  Item = {i1, i2}
  Handler = {h1, h2}
  MaxRestarts = 2
INVARIANTS
  SettledOnce
  AnsweredIsDurable
  SettledStays
SYMMETRY Symmetry
CHECK_DEADLOCK FALSE

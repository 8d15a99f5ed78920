SPECIFICATION Spec
CONSTANTS
  Pool = {"holding", "borderline"}
  None = None
  Item = {i1}
  Handler = {h1, h2}
  MaxRestarts = 0
INVARIANTS
  AnsweredOnce
CHECK_DEADLOCK FALSE

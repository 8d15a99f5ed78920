SPECIFICATION Spec
CONSTANTS
  None = None
  Turn = {m1, m2}
  Topic = {garden}
  MaxEnds = 1
INVARIANT NoPartialRecord
CHECK_DEADLOCK FALSE

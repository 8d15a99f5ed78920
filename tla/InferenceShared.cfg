SPECIFICATION Spec
CONSTANTS
  None = None
  Caller = {relational, flush}
  Seeding = None
  MaxCalls = 1
INVARIANT
  OwnContext
CHECK_DEADLOCK FALSE

SPECIFICATION FairSpec
CONSTANTS
  None = None
  Caller = {seeding, turn}
  Seeding = seeding
  MaxCalls = 2
INVARIANTS
  OneClient
  OwnContextWhenAlone
PROPERTY
  CallsEnd
CHECK_DEADLOCK FALSE

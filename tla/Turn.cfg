SPECIFICATION Spec
CONSTANTS
  Salience <- MCSalience
  Window = 2
  None = None
  Threshold = 72
  Nothing = Nothing
  Unavailable = Unavailable
  Turn = {1, 2, 3, 4, 5, 6, 7, 8}
  Thread = {"a", "b", "c"}
  Item <- MCItem
  Kind <- MCKind
  Scenario <- MCScenario
INVARIANTS
  TypeOK
  ForegroundLeads
  ShownOnce
PROPERTIES
  ReferencedIsKept
  FloatingKept
  CorrectionHelps
CHECK_DEADLOCK FALSE

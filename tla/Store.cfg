SPECIFICATION Spec
CONSTANTS
  None = None
  MaxEdits = 5
  MaxStops = 3
  MaxReseeds = 1
INVARIANTS
  TypeOK
  VersionsKept
  NewestIsCurrent
PROPERTY
  ArchivesNeverChange
CHECK_DEADLOCK FALSE

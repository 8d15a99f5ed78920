SPECIFICATION FairSpec
CONSTANTS
  None = None
  Turn = {m1, m2}
  Topic = {garden, music}
  MaxEnds = 2
INVARIANTS
  TypeOK
  TurnIdsAreUnique
  FilesRefer
  EpisodesMatchRecord
PROPERTIES
  ImplementsContract
  FlushedIsCleared
CHECK_DEADLOCK FALSE

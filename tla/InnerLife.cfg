SPECIFICATION Spec
CONSTANTS
  Name = {n1}
  Spelling = {s1, s2}
  NoTopic = NoTopic
  Thread = {t1, t2}
  Threshold = 1
  DedupTime = 0
  CeilingTime = 1
  MaxTime = 1
  MaxThoughts = 4
INVARIANTS
  TypeOK
  PerspectivesSpaced
  PushesSpaced
  InsightsTrace
PROPERTY
  PromotionStands
SYMMETRY Symmetry
CHECK_DEADLOCK FALSE

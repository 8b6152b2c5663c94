CONSTANTS
  Thread = {t1, t2}
  NULL = NULL
SPECIFICATION FairSpec
INVARIANTS
  TypeOK
  FaultNeedsEarly
  NothingLeft
PROPERTY
  KillEnds

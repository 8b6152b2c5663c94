CONSTANTS
  p1 = p1
  p2 = p2
  s1 = s1
  s2 = s2
  s3 = s3
  s4 = s4
  NULL = NULL
  Proc <- MCProc
  Sock <- MCSock
SPECIFICATION Spec
SYMMETRY Symmetry
INVARIANTS
  TypeOK
  CrashNeedsOverlap
  QuiescentPointers
  Accounted
  SoloListens

CONSTANTS
  AnswerLen = 2
  PartLen = 3
  MaxBytes = 6
SPECIFICATION Spec
INVARIANTS
  TypeOK
  NoSocketLeft
  InOrder
  LoadedComplete
PROPERTY
  SignalEnds

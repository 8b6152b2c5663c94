CONSTANTS
  AnswerLen = 2
  PartLen = 3
  MaxBytes = 6
SPECIFICATION Spec
INVARIANT
  FaithfulCopy

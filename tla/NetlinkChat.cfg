CONSTANTS
  User = {u1, u2}
  FileParts = 2
  SndCap = 1
  Backlog = 0
  MaxChunks = 2
  MaxMessages = 2
SPECIFICATION FairSpec
INVARIANTS
  TypeOK
  SafeOnceAccepted
  LeftByFailure
  OutInOrder
PROPERTY
  Heard

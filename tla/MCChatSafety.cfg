CONSTANTS
  c1 = c1
  c2 = c2
  F = F
  G = G
  a = a
  b = b
  NUL = NUL
  NoOne = NoOne
  Client = {c1, c2}
  Allowed = {c1}
  Cell <- MCCell
  Tag <- MCTag
  BufLen = 4
  NameLen = 2
  InitBuffers <- DirtyStack
  FileParts <- TwoFiles
  Unreadable <- BadB
  Lines <- LongAndFile
  MaxLines = 2
  Backlog = 0
  SndCap = 2
SPECIFICATION Spec
INVARIANTS
  TypeOK
  DeniedGetNothing
  NoMessageDeadlock
  CopyInOrder
  

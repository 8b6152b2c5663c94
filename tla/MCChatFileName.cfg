CONSTANTS
  c1 = c1
  c2 = c2
  F = F
  G = G
  a = a
  b = b
  NUL = NUL
  NoOne = NoOne
  Client = {c1}
  Allowed = {c1}
  Cell <- MCCell
  Tag <- MCTag
  BufLen = 4
  NameLen = 2
  InitBuffers <- BlankStack
  FileParts <- TailFiles
  Unreadable = {}
  Lines <- Tails
  MaxLines = 2
  Backlog = 0
  SndCap = 2
SPECIFICATION Spec
INVARIANT
  FileAsAsked

CONSTANTS
  c1 = c1
  c2 = c2
  F = F
  G = G
  a = a
  b = b
  NUL = NUL
  NoOne = NoOne
  Client = {c1, c2}
  Allowed = {c1, c2}
  Cell <- MCCell
  Tag <- MCTag
  BufLen = 3
  NameLen = 1
  InitBuffers <- MCStack
  FileParts <- MCFiles
  Unreadable <- MCUnreadable
  Lines <- MCLines
  MaxLines = 1
  Backlog = 0
  SndCap = 1
SPECIFICATION ModFairSpec
INVARIANTS
  ModTypeOK
  EchoesOwn
  GreetsServed
  UnloadedClosed
PROPERTIES
  AnsweredOrQueued
  GoneReleased
  LoopEnds

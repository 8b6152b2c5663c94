CONSTANTS
  c1 = c1
  c2 = c2
  F = F
  G = G
  a = a
  b = b
  NUL = NUL
  NoOne = NoOne
  Client = {c1, c2}
  Allowed = {c1, c2}
  Cell <- MCCell
  Tag <- MCTag
  BufLen = 4
  NameLen = 2
  InitBuffers <- BlankStack
  FileParts <- TwoFiles
  Unreadable <- BadB
  Lines <- Mixed
  MaxLines = 1
  Backlog = 1
  SndCap = 2
SPECIFICATION SocialSpec
PROPERTIES
  DisconnectReleased
  Answered
  SignalStops
  TakesTurns

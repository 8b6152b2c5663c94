CONSTANTS
  Client = {c1, c2}
  Name = {n1}
  Addr = {a1, a2}
  NoAddr = NoAddr
  NoJob = NoJob
  NoClient = NoClient
  MaxSent = 3
  SendMayFail = TRUE
SPECIFICATION Spec
INVARIANTS
  TypeOK
  AnswersGrounded
  InStep
PROPERTIES
  Serves
  ImplementsRegistry

SPECIFICATION Spec
CONSTANTS
  Calls = {c1, c2}
  Kinds <- AllKinds
  Requests <- PlainLists
  NilRequest = NilRequest
  HasSql = TRUE
  HasWorkload = TRUE
  WorkloadResults <- OkOrError
SYMMETRY Renaming
INVARIANTS
  TypeOK
  AnswerAfterRequests
  ExactFanOut
PROPERTIES
  ImplementsService
CHECK_DEADLOCK FALSE

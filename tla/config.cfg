SPECIFICATION ListSpec
CONSTANTS
  Inputs <- AllInputs
  BadCount = BadCount
  NoRequest = NoRequest
  MiB <- SmallMiB
  Word <- SmallWord
INVARIANTS
  OutcomeIsRight
  ListIsRight
CHECK_DEADLOCK FALSE

SPECIFICATION LinkFairSpec
CONSTANTS
  Word = 64
  Chunk = 2
  MiB = 8
  Room = 3
  PerRead = 2
INVARIANTS
  SentExactly
  WorkloadAfterPayload
PROPERTIES
  BothGetThrough
  ImplementsRequest
CHECK_DEADLOCK FALSE

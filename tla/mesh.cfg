SPECIFICATION FairSpec
CONSTANTS
  Services <- abc
  Topologies <- All
  Entry = "a"
  MaxDepth = 4
  MaxCrashes = 2
INVARIANTS
  AnswerCoversTree
PROPERTIES
  AllCallsEnd
  CyclesRunAway
CHECK_DEADLOCK FALSE

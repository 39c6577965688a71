SPECIFICATION ServerFairSpec
CONSTANTS
  Messages = 4
  MaxCrashes = 2
INVARIANTS
  AtMostOnce
  LossIsBounded
PROPERTIES
  EveryMessageCounts
CHECK_DEADLOCK FALSE

SPECIFICATION FairSpec
CONSTANT N = 5
INVARIANTS
  AllTermsSummed
PROPERTIES
  Returns
CHECK_DEADLOCK FALSE

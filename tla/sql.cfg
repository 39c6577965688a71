SPECIFICATION FairSpec
CONSTANTS
  Callers = {g1, g2, g3}
  NoPool = NoPool
  RepeatCount = 1
  RepeatCountMax = 2
  MaxOpen = 1
INVARIANTS
  SettledPoolConfigured
  NoQueryOnNil
  RepeatsInRange
PROPERTIES
  SettledPoolStays
  EveryCallReturns
CHECK_DEADLOCK FALSE

SPECIFICATION Spec
CONSTANTS
  Callers = {g1, g2, g3}
  None = None
  Base = Base
INVARIANTS
  NoNilClient
  LogsUnderACall
  CutForAReason
PROPERTIES
  DeadForGood
  LostClientsLeak
CHECK_DEADLOCK FALSE

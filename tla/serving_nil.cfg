SPECIFICATION FairSpec
CONSTANTS
  Calls = {c1, c2}
  Kinds <- AllKinds
  Requests <- NilLists
  NilRequest = NilRequest
  HasSql = TRUE
  HasWorkload = TRUE
  WorkloadResults <- OnlyOk
INVARIANTS
  PanicCutsTheList
PROPERTIES
  NilIsMet
  NoInternalStall
CHECK_DEADLOCK FALSE

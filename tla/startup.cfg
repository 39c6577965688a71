SPECIFICATION FairSpec
CONSTANTS
  Kinds <- AllKinds
  Order <- MainOrder
  Addresses <- Ports
  Unset = Unset
  Default <- DefaultPort
  Configs <- AllConfigs
INVARIANTS
  ExitReason
  ServedListIsGood
  NoSilentEnd
PROPERTIES
  BadServerIsFatal
  AllGetToServe
  ClashShows
CHECK_DEADLOCK FALSE

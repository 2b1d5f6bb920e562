CONSTANTS
  Values = {v1, v2}
  NoValue = NoValue
  MaxSlots = 4
  MaxGeneration = 4
SPECIFICATION StorageSpec
INVARIANTS
  StorageTypeOK
  FreeIsVacancies
  GenerationsDistinct
  ReleaseNeedsNoRoom
PROPERTIES
  ImplementsLeases
CHECK_DEADLOCK FALSE

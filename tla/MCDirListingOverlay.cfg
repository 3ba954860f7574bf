CONSTANTS
  Directories <- FullPage
  PageSize = 21
  KeyGroup = 1
  SlotBytes = 19
  CacheRows = 21
  BufferBytes = 400
  Jumps = FALSE
  SdFails = FALSE
SPECIFICATION Spec
INVARIANTS
  EveryRowOpensShown

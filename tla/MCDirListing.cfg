CONSTANTS
  Directories <- ListingDirectories
  PageSize = 3
  KeyGroup = 2
  SlotBytes = 5
  CacheRows = 3
  BufferBytes = 16
  Jumps = TRUE
  SdFails = TRUE
SPECIFICATION Spec
INVARIANTS
  TypeOK
  PageShown
  RowOpensShown
  RowEntersShown
PROPERTIES
  ForwardStaysRight

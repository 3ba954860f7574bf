CONSTANTS
  Page = 4
  Words = 32
  BRIDGE = 20
  LOW = 4
  BUFFER_SIZE = 2
  Programs <- SomePrograms
  DataFiles = {0, 4, 7, 13, 34}
  CardFails = TRUE
SPECIFICATION Spec
CHECK_DEADLOCK FALSE
INVARIANTS
  TypeOK
  ReadsInOrder
  CallsEndSession
  RunsWhole

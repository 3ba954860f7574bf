CONSTANTS
  Page = 4
  Words = 32
  BRIDGE = 20
  LOW = 4
  BUFFER_SIZE = 2
  Programs <- SomePrograms
  DataFiles = {0}
  CardFails = FALSE
SPECIFICATION Spec
CHECK_DEADLOCK FALSE
INVARIANT LaunchesWhole

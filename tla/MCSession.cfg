CONSTANTS
  Programs <- AllPrograms
  WRITE_BUFFER_SIZE = 2
SPECIFICATION Spec
CHECK_DEADLOCK FALSE
INVARIANTS
  TypeOK
  Framed
PROPERTIES
  OwnStatus
  Answered
  Reopens

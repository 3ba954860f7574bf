CONSTANTS
  DOUBLE_BUFFER_SIZE = 2
  Block = 3
  Sizes <- MCSizes
  MaxLag = 2
  STREAM_TIMEOUT = 2
  FALL_TIMEOUT = 2
  FIRST_TIMEOUT = 6
  SETUP = 3
  PAUSE = 5
  CARD = 1
  MaxFailures = 1
SPECIFICATION Spec
INVARIANTS TypeOK InOrder SameEnd
PROPERTY StreamEnds

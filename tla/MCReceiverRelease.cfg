CONSTANTS
  Bits = 2
  IDENTIFIER_1 <- Identifier1
  IDENTIFIER_2 <- Identifier2
  IDENTIFIER_3 <- Identifier3
  Sessions <- SomeSessions
  Arguments <- ArgumentsOf
  END_TALKING <- EndTalking
  Capacity = 3
  LogEdges = 1
  MaxNoise = 6
SPECIFICATION Spec
CHECK_DEADLOCK FALSE
INVARIANTS
  TypeOK
  InOrder
  HiddenOutsideSession
PROPERTIES
  Delivered
  Recovers

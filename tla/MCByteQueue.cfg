CONSTANTS
  QUEUE_MAX_SIZE = 4
  Bytes = {0, 1}
SPECIFICATION QueueSpec
INVARIANTS
  QueueTypeOK
  ReaderSlotStable
  CommandFirst
PROPERTY ImplementsFifo

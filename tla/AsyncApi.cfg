CONSTANTS
  MaxMessages = 2
  Length = 2
  RECEV_SIZE = 2
SPECIFICATION Spec
CHECK_DEADLOCK FALSE
INVARIANT QueuedInOrder

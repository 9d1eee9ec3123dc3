\* The client dies in the middle of a request.
SPECIFICATION Spec
CONSTANTS
  MaxAddr = 1
  ObjectSizes = {1}
  Bytes = {0, 1}
  BufferSize = 1
  NATIVE_MEMORY_SIZE = 1
  Symbols = 2
  MaxRequests = 1
INVARIANTS ReceivesInFull
CHECK_DEADLOCK FALSE

\* Calls with objects larger than the dirty buffer, and with more objects
\* than native_memory has entries.
SPECIFICATION FairSpec
CONSTANTS
  MaxAddr = 3
  ObjectSizes = {2, 3}
  Bytes = {0, 1}
  BufferSize = 2
  NATIVE_MEMORY_SIZE = 2
  Symbols = 2
  MaxRequests = 4
INVARIANTS InStep ArgumentsArrive MemoryReturned TableInBounds
PROPERTIES Answered
CHECK_DEADLOCK FALSE

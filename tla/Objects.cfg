\* Locals, the heap and filled locals.
SPECIFICATION FairSpec
CONSTANTS
  trap = trap
  uninit = uninit
  MaxBase = 2
  MaxLen = 2
  maxHeapBound = 1
  Bits = {0, 1}
  Programs <- AllPrograms
INVARIANTS TypeOK BufferedWritesLand
PROPERTIES MemorySpec StuckOnlyOnFill
CHECK_DEADLOCK FALSE

\* Calls, blocks, jumps, a signal and exit handlers.
SPECIFICATION FairSpec
CONSTANTS
  Programs <- AllPrograms
  b = b
  c = c
  JmpBufs = {b, c}
  Computational = {fpe}
  OtherSignals = {usr}
  MaxCalls = 3
  MaxBlocks = 4
  MaxSaved = 2
  MaxHandlers = 2
INVARIANTS LabelDecides LocalsLive SignalReports HandlersRun
PROPERTIES StackKept JumpEnds
CHECK_DEADLOCK FALSE

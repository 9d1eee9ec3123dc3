\* One thread that separates output from input.
SPECIFICATION FairSpec
CONSTANTS
  a = a
  nl = nl
  Chars = {a, nl}
  Streams = {1, 3}
  stdout = 1
  uri <- OwnFile
  Threads = {0}
  bufSiz = 2
  BufSizes = {1}
  MaxString = 2
  MaxFile = 3
  Programs <- SingleThreaded
INVARIANTS TypeOK StdoutComplete
PROPERTIES StreamSpec CallsReturn
CHECK_DEADLOCK FALSE

\* Two threads, and input that may follow output.
SPECIFICATION FairSpec
CONSTANTS
  a = a
  nl = nl
  Chars = {a, nl}
  Streams = {1, 3}
  stdout = 1
  uri <- OwnFile
  Threads = {0, 1}
  bufSiz = 2
  BufSizes = {1}
  MaxString = 2
  MaxFile = 4
  Programs <- Shared
INVARIANT NothingLost
PROPERTY CallsReturn
CHECK_DEADLOCK FALSE

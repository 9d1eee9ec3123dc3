\* exit with a stream of the program's own still open.
SPECIFICATION Spec
CONSTANTS
  a = a
  nl = nl
  Chars = {a, nl}
  Streams = {1, 3}
  stdout = 1
  uri <- OwnFile
  Threads = {0}
  bufSiz = 2
  BufSizes = {1}
  MaxString = 2
  MaxFile = 3
  Programs <- OutputOnly
INVARIANTS FilesComplete
CHECK_DEADLOCK FALSE

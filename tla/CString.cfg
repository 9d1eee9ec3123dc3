\* A program that copies, compares, searches and tokenizes; and arithmetic.
SPECIFICATION Spec
CONSTANTS
  Size <- SmallSize
  Literal <- SmallLiteral
  CharValues = 256
  IntArgs <- SmallIntArgs
  Numbers <- SmallNumbers
  Base = 2
  Digit = 48
  Delimiters = {0, 1, 2}
  MaxOffset = 1
  MaxCount = 3
INVARIANTS TypeOK SearchesAgree ComparisonsAgree CopiesAgree NumbersAgree
PROPERTIES TakesTokens
CHECK_DEADLOCK FALSE

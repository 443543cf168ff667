CONSTANTS
  WordBits = 8
  BufLen = 4
  MaxPrecision = 6
  TTY_WIDTH = 4
  TTY_HEIGHT = 3
  MaxDepth = 4
  Calls <- MCCalls
SPECIFICATION Spec
CHECK_DEADLOCK FALSE
INVARIANTS
  TypeOK
  PrintedAsSpecified
  ScreenShowsLastLines
PROPERTIES
  ReturnsUnlessUnknown

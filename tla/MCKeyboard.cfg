CONSTANTS
  TTY_WIDTH = 2
  TTY_HEIGHT = 2
  Keys <- MCKeys
  MaxKeys = 2
  Text <- MCText
SPECIFICATION Spec
CHECK_DEADLOCK FALSE
INVARIANTS
  TypeOK
  AnswersMatched
  CursorOnScreen
PROPERTIES
  KeysReported

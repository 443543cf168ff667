CONSTANTS
  FifoSize = 4
  Threshold = 2
  Text <- MCText
  Input <- MCInput
SPECIFICATION Spec
INVARIANTS
  TypeOK
  HandlersReady
  OutputInOrder
PROPERTY
  InputTakenUnlessStuck

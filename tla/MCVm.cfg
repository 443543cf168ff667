CONSTANTS
  PageSpace = 20
  KernelOffset = 5
  BootMapped = 8
  ManagedEnd = 14
  StealPages = 1
  ItemsPerPage = 1
  NumBuddies = 3
  Capacity <- MCCapacity
  NFrames = 4
  Requests = {1, 2, 3, 4}
  PAGE_SIZE = 2
  FbAddr = 20
  FbSizes = {3, 4}
SPECIFICATION SoundSpec
INVARIANTS
  TypeOK
  FramesExclusive
  NoFrameLeaks
  MappedAsOwned
  KeptNodesOwnTheirFrames
PROPERTY
  FreeFailsOnlyForWantOfANode
CHECK_DEADLOCK FALSE

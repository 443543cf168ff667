CONSTANTS
  NumBuddies = 3
  Capacity <- MCCapacity
  NFrames = 8
  Requests = {1, 2, 4}
  PAGE_SIZE = 4
  FramesPerByte = 1
  DwordBytes = 1
  AddressLimit = 128
  KERNEL_END_PHYS = 6
  UpperBounds <- MCUpperBounds
SPECIFICATION Spec
INVARIANTS
  TypeOK
  BlocksAligned
  NoDoubleAllocation
  NoFrameLost
  SingleFrameRefusedOnlyWhenFull
  MarkUsedReturnsTheRest
  FramesInMemory

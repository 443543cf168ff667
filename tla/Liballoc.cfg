CONSTANTS
  TagSize = 1
  PageSize = 16
  PageCount = 1
  MINEXP = 1
  MAXEXP = 5
  MAXCOMPLETE = 1
  NPages = 3
  Sizes = {0, 4, 8, 20}
  MaxHeld = 3
SPECIFICATION Spec
INVARIANTS
  TypeOK
  RunsTiled
  HeldBlocksApart
  FreeListsExact
  CompleteCounted

CONSTANTS
  PageSpace = 16
  BootMapped = 8
  ManagedEnd = 14
  StealPages = 1
  ItemsPerPage = 2
  Requests = {1, 2}
SPECIFICATION Spec
INVARIANT
  PopAssertionHolds

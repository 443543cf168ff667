CONSTANTS
  PageSpace = 16
  BootMapped = 8
  ManagedEnd = 14
  StealPages = 1
  ItemsPerPage = 2
  Requests = {2, 3}
SPECIFICATION Spec
INVARIANT
  ReservedBelowManagedEnd

CONSTANTS
  PageSpace = 11
  BootMapped = 5
  ManagedEnd = 10
  StealPages = 1
  ItemsPerPage = 1
  Requests = {1, 2}
SPECIFICATION Spec
INVARIANTS
  TypeOK
  NodesInOneList
  BucketsSortedAndJoined
  AppendFailsOnlyAtTheEnd
PROPERTY
  ImplementsVmSpace

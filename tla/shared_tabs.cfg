SPECIFICATION FairSpec
CONSTANTS
  one = one
  two = two
  Tabs = {one, two}
  InitialBytes <- MCInitialBytes
  MaxRecords = 3
  MaxRevision = 3
  MaxRequestId = 5
  None = None
INVARIANTS
  StoreTypeOK
  ViewsAreProven
  OperationsAgree
PROPERTIES
  SharedLogSpec
  OperationsEnd
  CommitsDecode

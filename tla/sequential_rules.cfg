SPECIFICATION MCSpec
CONSTANTS
  Bytes <- MCBytes
  MaxChunk = 2
  MaxResponse = 8
  Expected = "ApiVersion"
  Lengths = {0, 3, 4, 5, 8, 9, 10, 53, 54, 55, 56, 255}
  PrefixValues = {0, 1, 255}
  None = None
  Identities <- MCIdentities
  Packs <- MCPacks
  MaxPacks = 3
  UserChoices <- MCUserChoices
  Settings <- MCSettings
  MaxAssignments = 3
  MaxChanges = 2
INVARIANTS
  AccumulatorTypeOK
  SegmentationFree
  NeverReadsPastTheEnd
  AcceptsOnlyTheLayout
  ReviewedIsInScope
  ChoicesAreTheUsers
PROPERTIES
  DocumentedIsAccepted
  KnowledgeIsUnique
CHECK_DEADLOCK FALSE

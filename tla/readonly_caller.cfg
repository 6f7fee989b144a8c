SPECIFICATION CallerSpec
CONSTANTS
  None = None
  MaxRequestId = 7
  TraceLimit = 4
  Labels = {"Timeout", "NotALabel"}
INVARIANTS
  InFlightAgrees
  IdentityIsEarned
PROPERTIES
  RefusalsAreInert

SPECIFICATION SerialSpec
CONSTANTS
  None = None
  MaxRequestId = 7
  TraceLimit = 32
  Devices <- MCDevices
  MaxAttempts = 2
  MaxChunks = 3
INVARIANTS
  OnlyLateRepliesPoison
  ReleasedOrReported
  HostIsNeverRefused
PROPERTIES
  ReadsTheTruth
CHECK_DEADLOCK FALSE

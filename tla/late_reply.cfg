SPECIFICATION SerialSpec
CONSTANTS
  None = None
  MaxRequestId = 7
  TraceLimit = 32
  Devices <- MCDevices
  MaxAttempts = 2
  MaxChunks = 3
INVARIANTS
  NotPoisoned
CHECK_DEADLOCK FALSE

SPECIFICATION ParitySpec
CONSTANTS
  None = None
  MaxRequestId = 7
  Worlds <- MCWorlds
  CallerStates <- MCStates
  Recoveries <- MCRecoveries
  Flags <- MCFlags
  MaxFrames = 2
INVARIANTS
  NothingOutstanding
  OnlyApprovedWritesArrive
  NoDivergenceMeansFaithful
  Parity
PROPERTIES
  AnswersMatchTheDevice
CHECK_DEADLOCK FALSE

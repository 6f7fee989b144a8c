SPECIFICATION FairSpec
CONSTANTS
  Units = {fc, other}
  InScope = {fc, other}
  Rest = {r0}
  Dshot = {d0}
  EditKinds = {}
  Goal = "Enable"
  JournalLimits = {17, 27, 36, 45, 56, 70, 79, 90, 99, 110, 118, 127, 4096}
  MaxRuns = 2
  None = None
INVARIANTS
  TypeOK
  AuthorityHeld
  FreshAbortIsClean
  FreshReportRebuilds
PROPERTIES
  OnlyTheBackedUpUnit
  EngineStops

SPECIFICATION Spec
CONSTANTS
  Units = {fc}
  InScope = {fc}
  Rest = {r0}
  Dshot = {d0}
  EditKinds = {}
  Goal = "Disable"
  JournalLimits = {4096}
  MaxRuns = 3
  None = None
INVARIANTS
  RebuildIsIdempotent

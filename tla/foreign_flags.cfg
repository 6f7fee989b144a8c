SPECIFICATION Spec
CONSTANTS
  Units = {fc, other}
  InScope = {fc}
  Rest = {r0, r1}
  Dshot = {d0, d1}
  EditKinds = {"saved"}
  Goal = "Disable"
  JournalLimits = {4096}
  MaxRuns = 2
  None = None
INVARIANTS
  VerifiedIsPersistent
  RestoredIsPersistent

\* A versioned file that stays readable: any failing file operation, windows
\* dying anywhere, a clock that steps back.
SPECIFICATION Spec
CONSTANTS
  w1 = w1
  w2 = w2
  Windows = {w1, w2}
  InitialDocs <- VersionedOrNone
  MaximumBackups = 1
  Faults <- FaultKinds
  PeekingWindows = {}
  BlindWriters = {}
  DyingWindows = {w1, w2}
  ClockStepsBack = TRUE
  MaxWrites = 3
  MaxDamage = 0
  MaxBackupFiles = 3
  MaxMissing = 1
SYMMETRY Symmetry
INVARIANTS
  KnownMeansSeen
PROPERTIES
  NoLostUpdate

\* A legacy or versioned file that becomes unreadable twice, a window that
\* reads without showing, windows that die only between operations.
SPECIFICATION Spec
CONSTANTS
  w1 = w1
  w2 = w2
  Windows = {w1, w2}
  InitialDocs <- LegacyOrVersioned
  MaximumBackups = 2
  Faults <- DamageFaults
  PeekingWindows = {w1}
  BlindWriters = {}
  DyingWindows = {}
  ClockStepsBack = FALSE
  MaxWrites = 3
  MaxDamage = 2
  MaxBackupFiles = 3
  MaxMissing = 0
INVARIANTS
  DocumentSurvives
PROPERTIES
  RecoveryLosesAtMostOne
  RegisterSpec

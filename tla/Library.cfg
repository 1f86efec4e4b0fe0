\* Any two disturbances of the environments; exports chosen and confirmed three times; four bodies.
SPECIFICATION LibrarySpec
CONSTANTS
  e1 = e1
  e2 = e2
  v1 = v1
  v2 = v2
  Environments = {e1, e2}
  Values = {v1, v2}
  PreviewLimit = 1
  PreviewIds = {1, 2, 3, 4, 5, 6}
  MaxEvents = 2
  Exports = {v1, v2}
  MaxExportCalls = 3
  MaxExportChanges = 2
  MaxExportResets = 1
  Senders = {e1, e2}
  Sizes = {1, 2, 4}
  MaximumBytes = 3
  MaximumEntries = 2
  MaxBodies = 4
  MaxBodyResets = 1
SYMMETRY MCSymmetry
CHECK_DEADLOCK FALSE
INVARIANTS
  ImportedAtMostOnce
  KeptIsCurrent
PROPERTIES
  NothingNewerIsReplaced
  SavesWhatIsKept

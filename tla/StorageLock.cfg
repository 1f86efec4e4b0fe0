\* Two of three windows may die anywhere, writes and unlinks may fail; the
\* third window lives, and can always unlink.
SPECIFICATION BusySpec
CONSTANTS
  w1 = w1
  w2 = w2
  w3 = w3
  Processes = {w1, w2, w3}
  MayCrash = {w1, w2}
  WriteFaults = {w1, w2, w3}
  UnlinkFaults = {w1, w2}
INVARIANTS
  ExclusionUnlessOrphaned
PROPERTIES
  OnlyOwnerUnlinks
  EveryRequestEnds
  CompleteOrphanReclaimed

\* Configuring, saving, creating, deleting and discarding in two windows.
SPECIFICATION Spec
CONSTANTS
  w1 = w1
  w2 = w2
  q1 = q1
  q2 = q2
  s1 = s1
  s2 = s2
  s3 = s3
  Windows = {w1, w2}
  Requests = {q1, q2}
  Refs = {s1, s2, s3}
  Faults = {"store", "delete", "write", "acknowledge"}
  InitialDocuments <- CredentialAndHeader
  MaxRevision = 3
  MaxMisreported = 2
SYMMETRY Symmetry
INVARIANTS
  SavedUnlessDisowned
  StagedUnlessDisowned
  NoLeak
  MemoryIsDisk
PROPERTIES
  OnlyNamedRequestsChange

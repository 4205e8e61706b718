\* A reopen shows a commit whose fsync failed.
SPECIFICATION Spec
CONSTANTS
  k1 = k1
  k2 = k2
  v1 = v1
  v2 = v2
  None = None
  Keys <- MCKeys1
  Values <- MCValues1
  Origins = {"new"}
  ForeignFiles <- NoFiles
  LegacyJournals <- NoJournals
  MaxRecords = 1
  MaxOps = 1
  MaxRot = 0
  MaxLength = 0
INVARIANTS
  VisibleIsDurable

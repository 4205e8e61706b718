\* A commit in a file whose directory entry no open made durable.
SPECIFICATION SharedSpec
CONSTANTS
  k1 = k1
  v1 = v1
  None = None
  Keys <- MCKeys
  Values <- MCValues
  Origins = {"new"}
  ForeignFiles <- NoFiles
  LegacyJournals <- NoJournals
  DirectoryFsync = {"done"}
  MaxRecords = 1
  MaxOps = 1
  MaxRot = 0
  MaxLength = 0
INVARIANTS
  EntryIsDurable

\* A reader beside the writer of a new or a v0.1.x file.
SPECIFICATION SharedSpec
CONSTANTS
  k1 = k1
  v1 = v1
  None = None
  Keys <- MCKeys
  Values <- MCValues
  Origins = {"new", "legacy"}
  ForeignFiles <- NoFiles
  LegacyJournals <- MCLegacyJournals
  DirectoryFsync = {"done", "unsupported", "failed"}
  MaxRecords = 2
  MaxOps = 1
  MaxRot = 0
  MaxLength = 0
INVARIANTS
  ReaderSeesCommits
  ReaderRefusedForCause
  NamedAndDurable

\* Every kind of file a path may name: new, v0.1.x and foreign, with kills, power
\* losses, append and fsync failures, short reads, throwing callbacks and opens, and
\* two damaged cells.
SPECIFICATION Spec
CONSTANTS
  k1 = k1
  k2 = k2
  v1 = v1
  v2 = v2
  None = None
  Keys <- MCKeys1
  Values <- MCValues1
  Origins = {"new", "legacy", "foreign"}
  ForeignFiles <- MCForeignFiles
  LegacyJournals <- MCLegacyJournals
  MaxRecords = 2
  MaxOps = 1
  MaxRot = 2
  MaxLength = 2
INVARIANTS
  TypeOK
  AckedDurable
  CommittedIsLog
  RefusalLosesNothing
  RefusedUntouched
  NoLeak
  JournalRedoesWorking
  DamageCostsLastCommit
PROPERTIES
  ImplementsDurableStore
  ForeignUntouched
  OpenEnds
  CommitEnds

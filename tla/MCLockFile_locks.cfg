\* Two processes on one host lock and release, any number of times, and die anywhere,
\* with and without force, around every kind of file that may be found at the path.
SPECIFICATION Spec
CONSTANTS
  p1 = p1
  p2 = p2
  p3 = p3
  Ghost = Ghost
  NoFile = NoFile
  Procs <- TwoProcs
  Remote = {}
  Leftovers = {"none", "owner", "anonymous", "foreign"}
  Forces = {TRUE, FALSE}
  CrashAt <- Anywhere
  MaxCalls = 2
  Once = {p2}
INVARIANTS
  TypeOK
  DeletesNoLiveLock
  StaleLockYields
  ExclusionUnlessStray
  NoOrphan
PROPERTIES
  CallsEnd
CHECK_DEADLOCK FALSE

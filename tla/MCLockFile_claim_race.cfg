\* A third process finds the path free while a live lock is being judged.
SPECIFICATION Spec
CONSTANTS
  p1 = p1
  p2 = p2
  p3 = p3
  Ghost = Ghost
  NoFile = NoFile
  Procs <- ThreeProcs
  Remote = {p3}
  Leftovers = {"owner"}
  Forces = {FALSE}
  CrashAt <- Nowhere
  MaxCalls = 1
  Once = {p1, p2, p3}
INVARIANTS
  MutualExclusion
CHECK_DEADLOCK FALSE

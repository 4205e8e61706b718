\* The rows of one table paired with each other.
SPECIFICATION Spec
CONSTANTS
  MaxKey = 2
  None = None
  Names <- MCNames
  Rows <- MCRows
  Predicates = {"bare", "joined"}
  Contents <- MCContents
  Asked <- MCSelfJoin
  Inherited <- MCInherited
  Value <- MCValue
  Part = {"a", "b", "d", "id", "v", "w", "toString", "__proto__"}
INVARIANTS
  EveryColumnOfBothSides

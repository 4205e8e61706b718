\* Two tables and a collection of two rows and one, seven queries of up to three steps.
SPECIFICATION Spec
CONSTANTS
  MaxKey = 2
  None = None
  Names <- MCNames
  Rows <- MCRows
  Predicates = {"bare", "joined"}
  Contents <- MCContents
  Asked <- MCAsked
  Inherited <- MCInherited
  Value <- MCValue
  Part = {"a", "b", "d", "id", "v", "w", "toString", "__proto__"}
INVARIANTS
  PassIsTheRelation

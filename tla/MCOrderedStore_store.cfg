\* Arrays of up to four entries over seven keys.
SPECIFICATION Spec
CONSTANTS
  v1 = v1
  v2 = v2
  None = None
  MaxByte = 2
  Colon = 1
  CatalogTail <- MCCatalogTail
  Keys <- MCKeys
  Values <- MCValues
  MaxEntries = 4
INVARIANTS
  TypeOK
  StaysSorted
  SearchInv
PROPERTIES
  ImplementsOrderedMap
  CallsReturn

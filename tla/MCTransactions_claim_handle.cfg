\* The handle of the last committed transaction may be used: two keys,
\* up to three transactions and opens of two writes each.
SPECIFICATION Spec
CONSTANTS
  k1 = k1
  k2 = k2
  v1 = v1
  None = None
  Keys <- MCKeys
  Values <- MCValues
  KeyOrder <- MCKeyOrder
  MaxArrays = 3
  MaxOps = 2
  MaxLate = 1
  LateInCommitted = TRUE
INVARIANT
  OnlyTransactionsWrite

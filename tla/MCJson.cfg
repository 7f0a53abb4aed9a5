SPECIFICATION Spec
CONSTANTS
  Names = {n1, n2, n3, n4}
  Values = {v1, v2, v3, v4}
  HashCodes = {0, 6, 7}
  STARTING_CAPACITY = 2
  MaxCapacity = 8
  Documents <- MCDocuments
  Char <- MCChar
  MAX_NESTING = 2
SYMMETRY Sym
INVARIANTS
  TableWhole
  ValuesOwned
  RoundTrip
  CutIsRefused
  EqualByContent
PROPERTY
  IsDictionary
CHECK_DEADLOCK FALSE

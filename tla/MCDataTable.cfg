SPECIFICATION Spec
CONSTANTS
  Width = 4
  Configs <- MCConfigs
  Headers <- MCHeaders
  Cells <- MCCells
  MaxRows = 2
INVARIANTS
  Pivoted
  NumbersKept
  TagsComplete
CHECK_DEADLOCK FALSE

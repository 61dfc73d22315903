CONSTANTS
  MaxSize = 8
  Lengths = {2, 3, 4}
  Limits = {0, 1, 2, 3, 5}
  Terminator = 1
  Escapes = FALSE
SPECIFICATION FairSpec
INVARIANTS WithinLimits
PROPERTIES RowsNotTorn AllRead

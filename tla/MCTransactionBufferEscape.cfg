CONSTANTS
  MaxSize = 6
  Lengths = {2, 3, 4}
  Limits = {0, 1, 2, 3, 5}
  Terminator = 1
  Escapes = TRUE
SPECIFICATION FairSpec
PROPERTY RowsNotTorn

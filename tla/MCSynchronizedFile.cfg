CONSTANTS
  MaxSize = 5
  MaxLength = 3
  Limits = {1, 2, 3, 4}
SPECIFICATION FairSpec
INVARIANTS HandedOver
PROPERTIES RowsNotTorn Ends

CONSTANTS
  c1 = c1
  c2 = c2
  t1 = t1
  t2 = t2
  None = None
  Chunks = {c1}
  Workers = {w1}
  RowEnds <- MCRowEnds
  Size <- MCSize
  Table <- TwoTables
  NoKey = {}
  MaxRuns = 3
SPECIFICATION Spec
CHECK_DEADLOCK FALSE
INVARIANT KeyedExactAlways

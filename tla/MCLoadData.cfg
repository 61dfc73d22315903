CONSTANTS
  c1 = c1
  c2 = c2
  t1 = t1
  t2 = t2
  None = None
  Chunks = {c1, c2}
  Workers = {w1, w2}
  RowEnds <- MCRowEnds
  Size <- MCSize
  Table <- TwoTables
  NoKey = {t2}
  MaxRuns = 3
SPECIFICATION Spec
CHECK_DEADLOCK FALSE
INVARIANTS TypeOK DoneIsLoaded SkipsOnlyLoaded KeyedExact EventOfCurrentTask
SYMMETRY Symmetry

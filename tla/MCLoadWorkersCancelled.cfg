CONSTANTS
  ddl = ddl
  data1 = data1
  data2 = data2
  bulk = bulk
  index = index
  None = None
  Workers = {w1, w2, w3}
  Tasks = {ddl, data1, data2, bulk, index}
  Stages = 2
  Stage <- MCStage
  Weight <- MCWeight
  Requires <- MCRequires
SPECIFICATION Spec
SYMMETRY Symmetry
INVARIANT CancelledByUser

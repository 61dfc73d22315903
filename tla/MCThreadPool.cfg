CONSTANTS
  t1 = t1
  t2 = t2
  t3 = t3
  Guard = Guard
  None = None
  Client = Client
  Proc = Proc
  Workers = {w1, w2}
  Tasks = {t1, t2, t3}
  Children <- MCChildren
  High = {t2}
SPECIFICATION FairSpec
CHECK_DEADLOCK FALSE
INVARIANTS ReturnedMeansProcessed FailureVisible
PROPERTY Ends

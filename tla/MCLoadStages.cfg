SPECIFICATION FairSpec
CONSTANTS
  s1 = s1
  s2 = s2
  t1 = t1
  v1 = v1
  v2 = v2
  None = None
  Schemas = {s1, s2}
  Tables = {t1}
  Views = {v1, v2}
  Home <- MCHome
  Indexes <- MCIndexes
  ForeignKeys = {t1}
  Engines = {t1}
  Triggers = {t1}
  Workers = {w1, w2}
  OptionSets <- MCOptionSets
  Existing <- MCExisting
  MaxRuns = 3
INVARIANTS DoneIsThere StatementsAccepted OkMeansComplete
PROPERTY RunsEnd

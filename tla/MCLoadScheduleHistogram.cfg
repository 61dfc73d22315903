CONSTANTS
  t1 = t1
  t2 = t2
  p1 = p1
  p2 = p2
  p3 = p3
  None = None
  Tables = {t1, t2}
  Parts = {p1, p2, p3}
  Owner <- MCOwner
  Chunks <- MCChunks
  Size <- MCSize
  Checksums <- MCChecksums
  Indexed = {t1}
  Histograms = {t2}
  ThreadsCount = 2
  Workers = {w1, w2}
  OptionSets <- MCHistogram
  LogSets <- MCLogs
  Unchunked = {p3}
  Missing = {t1}
SPECIFICATION FairSpec
PROPERTY Ends

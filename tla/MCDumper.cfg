CONSTANTS
    Workers = {w1, w2}
    Schemas = {s1}
    Views = {}
    Tables = {t1}
    Parts <- MCParts
    MaxChunks = 2
    OptionSets <- MCOptionSets
    MaxInterrupts = 1
    MaxFailures = 1
    MaxWrites = 1
    MaxDdl = 1
SPECIFICATION FairSpec
INVARIANTS OneSnapshot ConsistentDdl DoneMeansComplete ResultTruthful
PROPERTY Ends
CHECK_DEADLOCK FALSE

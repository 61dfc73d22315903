CONSTANTS
    Workers = {w1, w2}
    Schemas = {s1}
    Views = {v1}
    Tables = {t1}
    Parts <- MCParts
    MaxChunks = 2
    OptionSets <- MCUnblocked
    MaxInterrupts = 0
    MaxFailures = 0
    MaxWrites = 1
    MaxDdl = 1
SPECIFICATION Spec
INVARIANT CheckedMeansUnchanged

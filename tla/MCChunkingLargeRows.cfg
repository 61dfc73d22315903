CONSTANTS
    SignBit = 8
    Scale = 2
    MaxDecimal = 12
    k_chunker_retries = 3
    k_chunker_iterations = 2
    Statistics <- MCStatistics
    MaxRows = 4
    MaxChanges = 2
SPECIFICATION ChunkingSpec
INVARIANT LargeRowsHandled

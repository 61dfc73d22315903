CONSTANTS
    SignBit = 8
    Scale = 2
    MaxDecimal = 12
    k_chunker_retries = 3
    k_chunker_iterations = 3
    Statistics <- MCStatistics
    MaxRows = 4
    MaxChanges = 2
SPECIFICATION FairChunkingSpec
INVARIANTS EachRowOnce OneLastChunk
PROPERTIES ChunksAdvance ChunkingEnds

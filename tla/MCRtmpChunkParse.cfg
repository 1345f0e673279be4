SPECIFICATION Spec
CONSTANTS
    Csids = {3, 64, 321}
    DefaultChunk = 1
    MaxChunk = 2
    TsMax = 4
    TsMod = 8
    Timestamps <- MCTimestamps
    Lengths <- MCLengths
    ChunkSizes <- MCChunkSizes
    Fmts <- MCFmts
    ExtendedDeltas = FALSE
    MaxMsgs = 3
INVARIANTS
    TypeOK
    DeliveredIntact
    NothingHeldBack
CHECK_DEADLOCK FALSE

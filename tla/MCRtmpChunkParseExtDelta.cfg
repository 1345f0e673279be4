SPECIFICATION Spec
CONSTANTS
    Csids = {3}
    DefaultChunk = 2
    MaxChunk = 2
    TsMax = 4
    TsMod = 8
    Timestamps <- MCDeltaTimestamps
    Lengths <- MCDeltaLengths
    ChunkSizes <- MCNoSizes
    Fmts <- MCFmts01
    ExtendedDeltas = TRUE
    MaxMsgs = 2
INVARIANTS
    DeliveredIntact
CHECK_DEADLOCK FALSE

SPECIFICATION Spec
CONSTANTS
    Csids = {3}
    DefaultChunk = 1
    MaxChunk = 1
    TsMax = 4
    TsMod = 8
    Timestamps <- MCStickyTimestamps
    Lengths <- MCStickyLengths
    ChunkSizes <- MCNoSizes
    Fmts <- MCFmts01
    ExtendedDeltas = FALSE
    MaxMsgs = 3
INVARIANTS
    DeliveredIntact
CHECK_DEADLOCK FALSE

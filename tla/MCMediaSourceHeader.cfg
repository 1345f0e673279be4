SPECIFICATION Spec
CONSTANTS
    Viewers = {v1}
    MaxGop = 2
    MaxPackets = 1
    SentHeaders = {"videoHeader"}
    MaxHeaders = 2
INVARIANTS
    CachedKeyframesDecodable
CHECK_DEADLOCK FALSE

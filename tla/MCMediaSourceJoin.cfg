SPECIFICATION Spec
CONSTANTS
    Viewers = {v1, v2}
    MaxGop = 3
    MaxPackets = 3
    SentHeaders = {}
    MaxHeaders = 0
SYMMETRY Symmetry
INVARIANTS
    ViewerUnbroken
CHECK_DEADLOCK FALSE

SPECIFICATION Spec
CONSTANTS
    Viewers = {v1, v2}
    MaxGop = 2
    MaxPackets = 3
    SentHeaders = {"videoHeader"}
    MaxHeaders = 2
SYMMETRY Symmetry
INVARIANTS
    TypeOK
    GopFromLatestKeyframe
    LocalViewerUnbroken
    ViewerStartsAtKeyframe
    ViewerInOrder
    StoredHeaderKeyframesDecodable
PROPERTIES
    NoDeliveryAfterRemove
CHECK_DEADLOCK FALSE

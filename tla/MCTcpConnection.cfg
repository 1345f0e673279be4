SPECIFICATION FairSpec
CONSTANTS
    Others = {t1, t2}
    Loop = t0
    MaxSends = 2
INVARIANTS
    TypeOK
    WriteBufferPinned
    NoLostWakeup
    NeverDeaf
    SenderOrder
PROPERTIES
    ChannelSpec
    SentIsWritten
    ClosedQuiesces
CHECK_DEADLOCK FALSE

SPECIFICATION FairSpec
CONSTANTS
    K = 2
    Names = {"", "a"}
    MaxMessages = 2
    Clients = {"eager", "patient"}
    WaitsForGreeting = FALSE
INVARIANTS
    TypeOK
    FramingIntact
    AnswersInOrder
    ChunksFit
PROPERTIES
    BadVersionRefused
    PatientClientServed
    LeavingQuiesces
CHECK_DEADLOCK FALSE

SPECIFICATION FairSpec
CONSTANTS
    K = 2
    Names = {"", "a"}
    MaxMessages = 1
    Clients = {"eager"}
    WaitsForGreeting = TRUE
PROPERTIES
    GreetingArrives
CHECK_DEADLOCK FALSE

SPECIFICATION Spec
CONSTANTS
    N = 3
    MaxAccepts = 6
    NextLimit = 4
INVARIANTS TypeOK PooledLoopsRun NoThreadLeft
PROPERTIES StartCompletes SignalEndsServer
CHECK_DEADLOCK FALSE

SPECIFICATION FairSpec
CONSTANTS
    HandshakeTimeout = 5
    Reserve = 3
    MinWindow = 2
    RetryWait = 1
    MaxBudget = 14
    MaxDial = 2
INVARIANTS DeadlineFallsBack NoSessionLeft
PROPERTIES ZombieIsOvertaken DropIsNoticed
CHECK_DEADLOCK FALSE

SPECIFICATION FairSpec
CONSTANTS
    Trader = Trader
    Bookkeeper = Bookkeeper
    Callers <- TwoCallers
    Methods <- AllAndExecutions
    IDs = {1, 2, 3, 4, 5}
    Codes = {200, 309, 354, 2152, 10089, 10167}
INVARIANTS NothingLeaks CauseKept 
PROPERTIES TimedCallsReturn CallsReturn

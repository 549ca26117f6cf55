CONSTANTS
    Servers = {ticker}
    Commands = {command}
    Execs = {e1}
    Window = 4
    Gap = 2
    MaxNow = 7
    Reconcilers = {r1, r2}
    Batches <- Payloads
    Symbols = {"A"}
    Markets <- Closes
    Grace = 2
    LastDay = 5
    Judges = {j1, j2}
    Checkpoints = {2, 3}
    Directions = {"up"}
    Market <- Rises
    Threshold = 1
    Tolerance = 1
    Retention = 2
    LastQuarter = 4
    AsOf = 7
    Histories <- Fillings
SPECIFICATION JournalsSpec
SYMMETRY Symmetry
INVARIANTS NoSilentLoss SettledByExpiryClose ScoredWithoutHindsight FirstInFirstOut PositionKept ReviewsAddUp
PROPERTIES AppendOnly 
CHECK_DEADLOCK FALSE

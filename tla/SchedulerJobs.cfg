SPECIFICATION Spec
CONSTANTS
    Symbols = {A}
    Workers = {w1, w2}
    Intervals = {1}
    QueueSize = 1
    BatchSize = 1
    JobIds = {j1, j2, j3, j4}
    None = None
    MaxTimers = 1
    MaxCrashes = 0
SYMMETRY Symmetry
INVARIANTS RetriesAreOfFailures
PROPERTY ImplementsAttempts
CONSTRAINT StayUp

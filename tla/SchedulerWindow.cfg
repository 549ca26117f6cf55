SPECIFICATION HSpec
CONSTANTS
    Symbols = {A, B}
    Workers = {w1}
    Intervals = {2}
    QueueSize = 2
    BatchSize = 1
    JobIds = {j1, j2, j3}
    None = None
    MaxTimers = 0
    MaxCrashes = 0
SYMMETRY Symmetry
INVARIANT WithinOneWindow
CONSTRAINT Pacing

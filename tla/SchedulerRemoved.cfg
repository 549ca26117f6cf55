SPECIFICATION Spec
CONSTANTS
    Symbols = {A}
    Workers = {w1}
    Intervals = {1}
    QueueSize = 1
    BatchSize = 1
    JobIds = {j1, j2}
    None = None
    MaxTimers = 0
    MaxCrashes = 0
SYMMETRY Symmetry
INVARIANT RemovedStaysGone

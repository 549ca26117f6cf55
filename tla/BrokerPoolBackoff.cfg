SPECIFICATION HSpec
CONSTANTS
    Slots = {s1}
    Requests = {r1}
    Conns = {c1, c2}
    NoSlot = NoSlot
    NoConn = NoConn
    MaxBackoff = 6
    MaxNow = 10
CONSTRAINT StayOpen
SYMMETRY Symmetry
PROPERTIES FailuresPaced FlapNeverClears
CHECK_DEADLOCK FALSE

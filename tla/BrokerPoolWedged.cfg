SPECIFICATION FairSpec
CONSTANTS
    Slots = {s1}
    Requests = {r1}
    Conns = {c1, c2}
    NoSlot = NoSlot
    NoConn = NoConn
    MaxBackoff = 2
    MaxNow = 2
PROPERTY SlotsAlwaysComeBack
CHECK_DEADLOCK FALSE

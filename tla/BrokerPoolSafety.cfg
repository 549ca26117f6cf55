SPECIFICATION Spec
CONSTANTS
    Slots = {s1, s2}
    Requests = {r1}
    Conns = {c1, c2}
    NoSlot = NoSlot
    NoConn = NoConn
    MaxBackoff = 4
    MaxNow = 2
SYMMETRY Symmetry
 
PROPERTY ImplementsLease
CHECK_DEADLOCK FALSE

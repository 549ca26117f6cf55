SPECIFICATION FairSpec
CONSTANTS
    Slots = {s1}
    Requests = {r1, r2}
    Conns = {c1, c2}
    NoSlot = NoSlot
    NoConn = NoConn
    MaxBackoff = 2
    MaxNow = 2
INVARIANTS SlotsAccountedFor
PROPERTIES UsedBrokerIntact AcquireAnswered SlotsComeBack CloseReturns
CHECK_DEADLOCK FALSE

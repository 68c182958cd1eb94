SPECIFICATION Spec
CONSTANTS
    o1 = o1
    c1 = c1
    c2 = c2
    Nobody = Nobody
    NoRef = NoRef
    EmptyRef = EmptyRef
    Orders <- MCOrders
    Calls <- MCCalls
    MaxIntents = 2
    MaxRefunds = 2
INVARIANTS
    TypeOK
    CapturedWasPaid
    EventsTellTheStatus
    RefundsAccounted
CHECK_DEADLOCK FALSE

SPECIFICATION Spec
CONSTANTS
    gold = gold
    silver = silver
    c1 = c1
    c2 = c2
    MaxTime = 2
    PriceWrites <- MCPriceWrites
    Never = 9
    Plans <- MCPlans
    Duration <- MCDuration
    FreeFrom <- MCFreeFrom
    Calls <- MCCalls
    MaxMembers = 2
    MaxLines = 3
    MaxOrders = 1
    MaxRequests = 8
SYMMETRY CallSymmetry
INVARIANTS
    TypeOK
    OneMembershipUnlessRaced
    ChargedAsShown
PROPERTIES
    EndedStaysEnded
CHECK_DEADLOCK FALSE

SPECIFICATION Spec
CONSTANTS
    u1 = u1
    u2 = u2
    v1 = v1
    v2 = v2
    t1 = t1
    t2 = t2
    Nobody = Nobody
    Users <- MCUsers
    Variants <- MCVariants
    Checkouts <- MCCheckouts
    OnHand <- MCOnHand
    MaxUses = 2
    MaxPerUser = 1
    Points = 3
    Spend = 3
    Award = 1
    Starts <- MCStarts
    MaxQty = 2
    MaxEdits = 2
INVARIANTS
    TypeOK
    ClosedOnlyWhenUsedUp
    RedemptionStaysCovered
PROPERTIES
    StockTakenAtomically
    OnlyOrderedLinesCleared
    CheckoutsEnd
CHECK_DEADLOCK FALSE

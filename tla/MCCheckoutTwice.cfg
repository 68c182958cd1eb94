SPECIFICATION Spec
CONSTANTS
    u1 = u1
    u2 = u2
    v1 = v1
    v2 = v2
    t1 = t1
    t2 = t2
    Nobody = Nobody
    Users <- MCUsers
    Variants <- MCVariants
    Checkouts <- MCCheckouts
    OnHand <- MCOnHand
    MaxUses = 1
    MaxPerUser = 1
    Points = 3
    Spend = 3
    Award = 1
    Starts <- SmallStarts
    MaxQty = 2
    MaxEdits = 1
INVARIANTS
    LineOrderedOnce
CHECK_DEADLOCK FALSE

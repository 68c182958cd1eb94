SPECIFICATION Spec
CONSTANTS
    p1 = p1
    p2 = p2
    u1 = u1
    u2 = u2
    v1 = v1
    v2 = v2
    c1 = c1
    c2 = c2
    Nobody = Nobody
    Parties <- MCParties
    Users <- MCUsers
    Hosts <- MCHosts
    Variants <- MCVariants
    Calls <- MCCalls
    OnHand <- MCOnHand
    Bundles <- MCBundles
    MaxSeats = 3
    MaxQty <- MCMaxQty
    MaxOrders = 2
SYMMETRY Symmetry
INVARIANTS
    TypeOK
    OrdersMatchTheCart
    OrderedOncePerLock
PROPERTIES
    StockTakenAtomically
CHECK_DEADLOCK FALSE

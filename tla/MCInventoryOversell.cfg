SPECIFICATION Spec
CONSTANTS
    s1 = s1
    h1 = h1
    h2 = h2
    h3 = h3
    a1 = a1
    a2 = a2
    r1 = r1
    r2 = r2
    Stock <- MCStock
    HoldKeys <- MCHoldKeys
    AdjKeys <- MCAdjKeys
    Releasers <- MCReleasers
    MaxQty = 2
    MaxOnHand = 3
    MaxClock = 1
SYMMETRY Symmetry
INVARIANT NoOversell

SPECIFICATION Spec
CONSTANTS
    c1 = c1
    c2 = c2
    p1 = p1
    p2 = p2
    s1 = s1
    s2 = s2
    Nobody = Nobody
    MaxAddresses = 2
    Places <- MCPlaces
    Pins <- MCPins
    Locations = {1, 2}
    CoverageWrites <- MCCoverageWrites
    Ages = {17, 19, 25}
    LegalAge <- MCLegalAge
    Calls <- MCCalls
    MaxRequests = 6
SYMMETRY Symmetry
INVARIANTS
    TypeOK
    OneDefault
    OrdersSuitTheirAddress
    MinorsNeverBuy
CHECK_DEADLOCK FALSE

SPECIFICATION SessionSpec
CONSTANTS
    r1 = r1
    r2 = r2
    r3 = r3
    NoRequest = NoRequest
    MaxSessions = 4
    Requests <- MCRequests
INVARIANTS
    SessionTypeOK
    OneActivePerFamily
    ReuseLeavesOnlyRacers
PROPERTIES
    RequestsEnd
CHECK_DEADLOCK FALSE

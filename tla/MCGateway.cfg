SPECIFICATION TrackingSpec
CONSTANTS
    w1 = w1
    w2 = w2
    c1 = c1
    MaxEvents = 3
    StartKinds <- MCKinds
    Workers <- MCWorkers
    BatchSize = 2
    MaxFailures = 1
    Clients <- MCClients
INVARIANTS
    TrackingTypeOK
    BroadcastsAccounted
    OnlyTheGapIsMissed
PROPERTIES
    RoutedEventsAtLeastOnce
    LiveClientsHear
CHECK_DEADLOCK FALSE

SPECIFICATION Spec
CONSTANTS
    o1 = o1
    o2 = o2
    s1 = s1
    c1 = c1
    c2 = c2
    Nobody = Nobody
    NoSlot = NoSlot
    Orders <- MCOrders
    Slots <- MCSlots
    Calls <- MCCalls
    Capacity <- MCCapacity
    Expected = 2
    MaxPicked = 2
INVARIANTS
    TypeOK
    SlotWithinCapacity
    FulfilledTogether
PROPERTIES
    OnlyDispatchSetsBack
    RequestsEnd

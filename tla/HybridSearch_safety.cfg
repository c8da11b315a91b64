SPECIFICATION HybridSpec
CONSTANTS
    o1 = o1
    o2 = o2
    v1 = v1
    v2 = v2
    Orders = {o1, o2}
    Vehicles = {v1, v2}
    Weight <- McWeight
    Service <- McService
    Window <- McWindow
    Spot <- McSpot
    Permitted <- McPermitted
    Depot <- McDepot
    Payload <- McPayload
    Shift <- McShift
    Fixed <- McFixed
    SameDay = {v1, v2}
    Duration <- McDuration
    Profile <- McProfile
    FastFits <- McFastFits
    Placeable <- McPlaceable
    Penalty = 3
    Guidance = 2
    MaxRemove = 1
    Patience = 2
    MaxIterations = 2
    AuditSlots = 2
    MaxPerCount = 1
INVARIANT ValidMeansServed
INVARIANT CompleteStartIsKept
CHECK_DEADLOCK FALSE

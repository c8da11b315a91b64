SPECIFICATION Spec
CONSTANTS
    a = a
    b = b
    c = c
    p1 = p1
    p2 = p2
    p3 = p3
    p4 = p4
    A = A
    B = B
    C = C
    D = D
    Trucks <- McTrucks
    DayCount = 2
    Items <- McItems
    Holds <- McHolds
    Licensed <- McLicensed
    InShift <- McInShift
    Price <- McPrice
    Wage <- McWage
    Salary = 3
    Routable <- McRoutable
    Runnable <- McRunnable
    Rosters <- McRosters
    Backlogs <- McBacklogs
    TinyOrders = 2
    TinyTrucks = 3
    MaxCandidates = 2
    MaxRuns = 2
INVARIANT AllocationsAreAccounted
INVARIANT RoutesCanBeStaffed
INVARIANT AppliedIsSound
INVARIANT FullServiceLacksOnlyBenchmarks
CHECK_DEADLOCK FALSE

SPECIFICATION Spec
CONSTANTS
    Length = 3
    Width = 2
    Payload = 10
    MaxLayouts = 32
    Plans <- McPlans
INVARIANT InputOrderIsTried
CHECK_DEADLOCK FALSE

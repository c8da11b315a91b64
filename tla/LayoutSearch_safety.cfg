SPECIFICATION Spec
CONSTANTS
    Length = 3
    Width = 2
    Payload = 10
    MaxLayouts = 32
    Plans <- McPlans
INVARIANT AcceptedIsExecutable
INVARIANT PruningLosesNothing
INVARIANT FastIsConservative
CHECK_DEADLOCK FALSE

SPECIFICATION Spec
CONSTANTS
    MaxSpeed = 1
    NoTwist = NoTwist
    TargetSpeed = 1
    DriveWrites = 2
    Reverse <- NoReverse
    Faults = FALSE
INVARIANTS
    DegradedNodeExits

SPECIFICATION Spec
CONSTANTS
    MaxSpeed = 1
    Reverse <- LeftReversed
    Faults = FALSE
INVARIANTS
    WriteReachesPort

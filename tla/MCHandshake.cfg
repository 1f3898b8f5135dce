SPECIFICATION FairSpec
CONSTANTS
    MaxSpeed = 1
    Reverse <- LeftReversed
    Faults = TRUE
    MaxEmpty = 1
    MaxInc = 1
    MaxLines = 2
INVARIANTS
    HandshakeTypeOK
    PortReleased
    MotionMeansActive
    ArmedMeansFirmware
PROPERTIES
    ConfigureReturns
    ImplementsManager

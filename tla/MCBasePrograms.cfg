SPECIFICATION Spec
CONSTANTS
    MaxSpeed = 2
    NoTwist = NoTwist
    TargetSpeed = 2
    DriveWrites = 3
    Reverse <- NoReverse
    Faults = TRUE
INVARIANTS
    TypeOK
    MotionHasOwner
    BodyFollowsTwist
    ReturnedStopped

SPECIFICATION Spec
CONSTANTS
    BufSize = 9
    Reverse <- LeftReversed
    MaxConfigures = 2
    MaxTick = 5
    MaxPending = 20
INVARIANTS
    FeedbackWasReported

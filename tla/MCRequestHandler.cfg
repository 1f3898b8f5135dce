SPECIFICATION Spec
CONSTANTS
    NumRequests = 3
    CounterMod = 5
    MaxFrames = 6
    WeakMemory = TRUE
INVARIANTS
    TypeOK
    NeverThrows
    CounterExact
    NoLostWakeup
    ExclusiveBuffers
    NoRequestLost

SPECIFICATION FairSpec
CONSTANTS
    NumRequests = 3
    CounterMod = 5
    MaxFrames = 6
    WeakMemory = FALSE
PROPERTIES
    EveryRequestRequeued
    StopReturns
    ImplementsFrameCycle

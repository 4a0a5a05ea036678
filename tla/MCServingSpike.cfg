\* A steady coin, nothing fails.
CONSTANTS
    Order <- MCOrder
    Stream <- SteadyStream
    Flushes <- SteadyFlushes
    Tuning = "default"
    MaxInflight = 1
    MaxLag = 1
    MaxCrashes = 0
    MaxFaults = 0
SPECIFICATION Spec
INVARIANT SteadyIsNoSpike

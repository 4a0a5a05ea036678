\* A slow loop, one burst; a debt of one tick is caught up.
CONSTANTS
    Times <- MCTimes
    CheckEvery = 1
    FlushEvery = 1
    PublishEvery = 2
    MaxDebt = 1
    BurstTicks = 2
    Slow = TRUE
    MaxBursts = 1
    MaxClock = 6
SPECIFICATION Spec
INVARIANTS NeverAhead CatchUpBounded WindowsLagBounded BurstStateRefreshed
\* The clock is bounded.
CHECK_DEADLOCK FALSE

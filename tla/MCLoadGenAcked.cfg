\* Two workers, one failed write.
CONSTANTS
    k1 = k1
    k2 = k2
    Rows <- MCRows
    Invocations <- MCLoadGenOnly
    Mode = "concurrent"
    MaxInflight = 1
    PipeCap = 1
    MaxErrors = 1
    MaxDeaths = 0
    Reads = 0
    Threads = 1
SPECIFICATION Spec
INVARIANT AckedWereAcknowledged

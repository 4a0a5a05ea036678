\* Two writing or two reading workers, one of which may raise; one of them has
\* three rows for two permits; one failed write, reads that fail or miss as they
\* like.
CONSTANTS
    k1 = k1
    k2 = k2
    Rows <- MCRows
    Invocations <- MCInvocations
    Mode = "pipeline"
    MaxInflight = 2
    PipeCap = 1
    MaxErrors = 1
    MaxDeaths = 1
    Reads = 9
    Threads = 2
SPECIFICATION FairSpec
INVARIANTS BarrierHolds ReportComplete TotalsComplete ReadsAccounted
PROPERTY ParentReports
\* A worker that raises leaves the parent waiting for its result.
CHECK_DEADLOCK FALSE

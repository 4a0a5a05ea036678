\* The 'tuned' writer, two windows, one write in flight, a crash and a failed
\* request.
CONSTANTS
    Order <- MCOrder
    Stream <- MCStream
    Flushes <- MCFlushes
    Tuning = "tuned"
    MaxInflight = 1
    MaxLag = 1
    MaxCrashes = 1
    MaxFaults = 1
SPECIFICATION FairSpec
INVARIANT FreshAsFlushed
PROPERTIES ServesThisRun ScoresConverge

\* Batches of two rows, a burst of one tick, one permit in each process.
CONSTANTS
    b1 = b1
    b2 = b2
    i = i
    Baseline <- MCBaseline
    BurstOnly <- MCBurstOnly
    Ingest = i
    Batch = 2
    MaxInflight = 1
    CheckTicks = 1
    PublishTicks = 2
    BurstTicks = 1
    MaxWrites = 4
    MaxLost = 1
    MaxPresses = 1
SPECIFICATION FairSpec
INVARIANT BurstEndsPromptly
PROPERTIES TotalOnlyGrows FleetIsCounted

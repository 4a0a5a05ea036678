CONSTANTS
    a1 = a1
    a2 = a2
    c1 = c1
    c2 = c2
    Addrs = {a1, a2}
    Coins = {c1, c2}
    Fills <- MCFills
    MaxFills = 12
    LargeNotional = 6
    Replays <- MCReplays
SPECIFICATION ReplaySpec
INVARIANTS GroupsAgree EntryIsOfItsLeg SnapshotsSane VolumeConserved
INVARIANTS ScoresSane WholeFilesReplayed TotalsIndependentOfTies
INVARIANTS OpenBucketsExact ClosedOnce OrderedLosesNothing WindowsNested
PROPERTY BucketsAdvance

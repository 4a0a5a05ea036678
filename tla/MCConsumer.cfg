\* One crash and one failed write, two writes in flight.
CONSTANTS
    a1 = a1
    c1 = c1
    Stream <- MCStream
    RawSink = "bucket"
    MaxInflight = 2
    MaxFailures = 1
    MaxCrashes = 1
SPECIFICATION Spec
INVARIANTS WriteThroughCurrent FlushedCurrent FinalTablesExact
PROPERTY RowsNeverRegress

\* Two permits for four requests, every second one sampled, a deque of one.
CONSTANTS
    MaxInflight = 2
    SampleEvery = 2
    MaxSamples = 1
    MaxRequests = 4
SPECIFICATION FairSpec
INVARIANTS TypeOK PermitsConserved DrainIsQuiescent CountersExact LatenciesExact
PROPERTIES ImplementsContract DrainTerminates EveryWriteCounted

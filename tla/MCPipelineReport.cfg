CONSTANTS
    MaxInflight = 1
    SampleEvery = 2
    MaxSamples = 1
    MaxRequests = 2
SPECIFICATION Spec
INVARIANT ReportCountsEveryRequest

CONSTANTS
    Nodes = {r1, r2, r3, r4}
    Replicas = {r1, r2, r3}
    Tuning = "default"
    MaxProbes = 3
SPECIFICATION Spec
INVARIANTS ProbeSeesItsWrite
SYMMETRY Symmetry
\* The reader thread stops for good once a request of its fails.
CHECK_DEADLOCK FALSE

SPECIFICATION Spec
CONSTANTS
    Clusters = {c1}
    Machines = {m1}
    Addresses = {a1, a2}
    NoAddress = NoAddress
    NoCluster = NoCluster
    FreshReads = TRUE
    MaxFaults = 0
    MaxCrashes = 0
SYMMETRY Symmetry
INVARIANTS
    NoPanic
CHECK_DEADLOCK FALSE

SPECIFICATION Spec
CONSTANTS
    Clusters = {c1, c2}
    Machines = {}
    Addresses = {a1, a2}
    NoAddress = NoAddress
    NoCluster = NoCluster
    FreshReads = TRUE
    MaxFaults = 0
    MaxCrashes = 0
SYMMETRY Symmetry
INVARIANTS
    ReadyEndpointsDistinct
CHECK_DEADLOCK FALSE

SPECIFICATION Spec
CONSTANTS
    Clusters = {c1}
    Machines = {m1}
    Addresses = {a1, a2}
    NoAddress = NoAddress
    NoCluster = NoCluster
    FreshReads = FALSE
    MaxFaults = 0
    MaxCrashes = 0
SYMMETRY Symmetry
INVARIANTS
    EndpointServed
CHECK_DEADLOCK FALSE

SPECIFICATION Spec
CONSTANTS
    Clusters = {c1}
    Machines = {m1}
    Addresses = {a1, a2}
    NoAddress = NoAddress
    NoCluster = NoCluster
    FreshReads = TRUE
    MaxFaults = 2
    MaxCrashes = 1
SYMMETRY Symmetry
INVARIANTS
    TypeOK
    GoneIsClean
    EndpointServed
CHECK_DEADLOCK FALSE

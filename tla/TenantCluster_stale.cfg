SPECIFICATION Spec
CONSTANTS
    Clusters = {c1}
    Machines = {m1}
    Addresses = {a1, a2}
    NoAddress = NoAddress
    NoCluster = NoCluster
    FreshReads = FALSE
    MaxFaults = 2
    MaxCrashes = 1
SYMMETRY Symmetry
INVARIANTS
    ReadyHasResources
    DependencyOrder
PROPERTIES
    NoResurrection
    TeardownAfterMachines
    ImplementsLifecycle
CHECK_DEADLOCK FALSE

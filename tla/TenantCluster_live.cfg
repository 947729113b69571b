SPECIFICATION FairSpec
CONSTANTS
    Clusters = {c1}
    Machines = {m1}
    Addresses = {a1}
    NoAddress = NoAddress
    NoCluster = NoCluster
    FreshReads = FALSE
    MaxFaults = 2
    MaxCrashes = 1
PROPERTIES
    EventuallyReady
    DeletionCompletes
CHECK_DEADLOCK FALSE

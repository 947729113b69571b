SPECIFICATION FairSpec
CONSTANTS
    Cluster = c1
    Machines = {m1}
    Addresses = {a1}
    NoAddress = NoAddress
    NoCluster = NoCluster
    NoMachine = NoMachine
    FreshReads = TRUE
    RunningAccepted = TRUE
    MaxClusterFaults = 0
    MaxMachineFaults = 0
    MaxPatchFaults = 0
    MaxCrashes = 1
INVARIANTS
    NothingLeftBehind
    ControlPlaneReachable
PROPERTIES
    ServesMachines
    ServesCluster
    DeletionCompletes
CHECK_DEADLOCK FALSE

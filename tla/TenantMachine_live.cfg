SPECIFICATION FairSpec
CONSTANTS
    Machines = {m1}
    ControlPlanes = {{}, {m1}}
    SizedSets = {{}}
    NoMachine = NoMachine
    FreshReads = FALSE
    RunningAccepted = FALSE
    MaxFaults = 1
    MaxPatchFaults = 0
    MaxCrashes = 1
PROPERTIES
    EventuallyReady
    DeletionCompletes
CHECK_DEADLOCK FALSE

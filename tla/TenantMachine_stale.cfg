SPECIFICATION Spec
CONSTANTS
    Machines = {m1}
    ControlPlanes = {{}, {m1}}
    SizedSets = {{}, {m1}}
    NoMachine = NoMachine
    FreshReads = FALSE
    RunningAccepted = TRUE
    MaxFaults = 1
    MaxPatchFaults = 1
    MaxCrashes = 1
INVARIANTS
    TypeOK
    BootConfigured
    ReadyRuns
    NoOrphanVM
CHECK_DEADLOCK FALSE

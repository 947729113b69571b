SPECIFICATION Spec
CONSTANTS
    Machines = {m1, m2}
    ControlPlanes = {{m1, m2}}
    SizedSets = {{}}
    NoMachine = NoMachine
    FreshReads = TRUE
    RunningAccepted = TRUE
    MaxFaults = 1
    MaxPatchFaults = 0
    MaxCrashes = 0
SYMMETRY Symmetry
INVARIANTS
    GoneLeavesIPSet
PROPERTIES
    MembersKept
CHECK_DEADLOCK FALSE

SPECIFICATION Spec
CONSTANTS
    NotAnAddress = NotAnAddress
    Instances <- MCInstances
    Bootstraps = {b1, b2}
    MaxAttempts = 2
INVARIANTS
    DisksAsSpecified
    UnitsDistinct
    DiskPanicNeedsNegativeSize
    PropertiesCurrent
    MetadataFromReference
PROPERTIES
    RetryIsStable
CHECK_DEADLOCK FALSE

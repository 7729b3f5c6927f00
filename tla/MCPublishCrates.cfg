SPECIFICATION Spec
CONSTANTS
    Crate <- Workspace
    Deps <- CargoDeps
    crates <- Order
    MaxTries = 2
    MaxFaults = 2
INVARIANTS
    TypeOK
    DoneMeansReleased
PROPERTIES
    ImplementsRelease
    SkipsWhatExists
\* A release that is done stops.
CHECK_DEADLOCK FALSE

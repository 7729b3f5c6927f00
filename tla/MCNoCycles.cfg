SPECIFICATION Spec
CONSTANTS
    CrateId <- Crates
    ModuleId <- Modules
    ExternalCrateId <- Externals
    CrateOf <- ModuleCrate
    Display <- IdText
    SliceName <- Slices
    Edges <- SomeEdges
    Matches <- SliceMatches
    Selections <- SomeSelections
INVARIANTS
    PassesIffLayered
    EventsAreEvidenced
    RepresentativesBelong
\* The condition ends with its events.
CHECK_DEADLOCK FALSE

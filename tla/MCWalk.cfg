SPECIFICATION Spec
CONSTANTS
    Target <- Targets
    Node <- Nodes
    Parent <- Parents
    Form <- FormOf
    Files <- FilesOf
    CfgOptions <- Loaded
    Programs <- SomePrograms
    None = None
INVARIANTS
    FindsWhatIsThere
    NothingIsFoundTwice
    RecursionIsBounded
PROPERTIES
    Terminates
\* A walk ends.
CHECK_DEADLOCK FALSE

SPECIFICATION Spec
CONSTANTS
    Target <- Targets
    Node <- Nodes
    Parent <- Parents
    Form <- FormOf
    Files <- FilesOf
    CfgOptions <- Loaded
    Programs <- SomePrograms
    None = None
INVARIANTS
    NoPathIsOmitted
CHECK_DEADLOCK FALSE

SPECIFICATION Spec
CONSTANTS
    Member <- Members
    Outside <- Others
    Target <- Targets
    PrimarySrc <- Sources
    Requires <- Requirements
    HirCrate <- Crates
    HirModule <- Modules
    Reference <- References
    Loads <- SomeLoads
    None = None
    MaxEvidence = 8
INVARIANTS
    TypeOK
    BuilderNeverRefuses
    FailsClosed
    BindingsAgree
    EdgesHaveCauses
\* An analysis ends.
CHECK_DEADLOCK FALSE

SPECIFICATION CheckSpec
CONSTANTS
    None = None
    Crate <- Crate2
    Module <- Domain
    ExternalCrate <- External2
    CrateOf <- CrateOfDomain
    PackageName <- Packages2
    CrateName <- Names2
    TargetKind <- Kinds2
    RuleId = {"a", "b"}
    LayerName = {"inner", "outer"}
    Toolchain <- Std
    PatternMeans <- Patterns
    Inputs <- SomeInputs
    Members <- SomeMembers
    Name <- SomeNames
    Path <- SomePaths
    Absolute <- SomeAbsolute
    Dependencies <- SomeDependencies
INVARIANTS
    ExitCodeIsTheOutcome
    VerdictFollowsConfiguration
    NothingRunsOnWrongConfiguration
    FlagsWin
    OutputFormatIsAsked
\* The process exits.
CHECK_DEADLOCK FALSE

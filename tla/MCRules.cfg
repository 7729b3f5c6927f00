SPECIFICATION Spec
CONSTANTS
    Crate <- TheCrates
    Module <- TheModules
    ExternalCrate <- TheExternals
    CrateOf <- TheCrateOf
    PackageName <- ThePackageName
    CrateName <- TheCrateName
    TargetKind <- TheTargetKind
    Toolchain <- TheToolchain
    Definitions <- SomeDefinitions
    CustomRule <- SomeCustom
    Edges <- SomeEdges
    RuleId = {"r1", "r2", "r3", "r4", "r5"}
    LayerName = {"domain", "library", "app", "api"}
    MaxRules = 2
INVARIANT
    LayersAreForbids
PROPERTIES
    ModifiersStayWithTheirRule
    FailsIffARuleFails

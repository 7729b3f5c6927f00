SPECIFICATION Spec
CONSTANTS
    PackageId = {p1, p2}
    CrateId = {c1}
    ModuleId = {m1}
    ExternalCrateId = {x1}
    None = None
    Evidence <- TwoEvidence
    Diagnostic = {d1}
    MaxEdges = 2
    MaxDiagnostics = 1
SYMMETRY Symmetry
INVARIANTS
    TypeOK
    ReferentialIntegrity
    UniqueIds
    EvidenceIsProper
    GraphIsCanonical
PROPERTIES
    OnlyGrows
\* A finished build accepts no further call.
CHECK_DEADLOCK FALSE

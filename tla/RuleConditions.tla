--------------------------- MODULE RuleConditions ---------------------------
(***************************************************************************)
(* Selectors and the edge conditions of the built-in rules:                *)
(* SelectorSpec::compile of bylaw-core/src/selector.rs, and the forbid,    *)
(* only and layers conditions of bylaw-core/src/builtin.rs.  The no-cycles *)
(* condition has modules of its own (GroupedGraph, CycleSearch, NoCycles). *)
(*                                                                         *)
(* A compiled selector is the set of components it matches, a condition    *)
(* the set of edges it reports in a graph, which is its set of edges: the  *)
(* ends of an edge are components (GraphBuilder: ReferentialIntegrity).    *)
(***************************************************************************)
EXTENDS Naturals, Sequences

CONSTANTS
    Crate, Module, ExternalCrate, \* the components of the graph
    CrateOf,     \* module -> its crate
    PackageName, \* crate or module -> name of its package
    CrateName,   \* component -> its crate name
    TargetKind,  \* crate -> its target kind
    RuleId,      \* ids of rules
    LayerName,   \* names of layers
    Toolchain    \* the external crates that come with the toolchain

Workspace == Crate \cup Module
Component == Workspace \cup ExternalCrate
Edge == [origin : Component, target : Component, scope : {"actual", "declared"}]
Scopes == {"actual", "declared", "both"}

ASSUME ModulesHaveCrates == CrateOf \in [Module -> Crate]
ASSUME ToolchainIsExternal == Toolchain \subseteq ExternalCrate
ASSUME VariantsAreDisjoint ==
    /\ Crate \cap Module = {}
    /\ ExternalCrate \cap Workspace = {}

-----------------------------------------------------------------------------
(* Selectors *)

All == Component
Packages(names) == {c \in Workspace : PackageName[c] \in names}
Crates(names) == {c \in Workspace : CrateName[c] \in names}
ExternalCrates(names) == {c \in ExternalCrate : CrateName[c] \in names}

\* The patterns are represented by the modules one of them matches.
Modules(matched) == matched \cap Module

\* A module has the target kind of its crate.
TargetKinds(kinds) ==
    {c \in Workspace : TargetKind[IF c \in Module THEN CrateOf[c] ELSE c] \in kinds}

ComponentKinds(kinds) ==
    UNION {CASE k = "crate" -> Crate
             [] k = "module" -> Module
             [] k = "external-crate" -> ExternalCrate : k \in kinds}

AnyOf(selectors) == UNION selectors
AllOf(selectors) == {c \in Component : \A s \in selectors : c \in s}
Not(selector) == Component \ selector

-----------------------------------------------------------------------------
(* Conditions *)

Includes(scopes, edge) == scopes \in {"both", edge.scope}

\* forbid_dependencies_condition
Forbidden(edges, from, to, scopes) ==
    {e \in edges : e.origin \in from /\ Includes(scopes, e) /\ e.target \in to}

SameWorkspacePackage(a, b) ==
    /\ {a, b} \subseteq Workspace
    /\ PackageName[a] = PackageName[b]

\* only_dependencies_condition
Disallowed(edges, from, allowed, scopes, allowToolchain, allowSelf) ==
    {e \in edges :
        /\ e.origin \in from
        /\ Includes(scopes, e)
        /\ e.origin # e.target
        /\ ~(allowSelf /\ SameWorkspacePackage(e.origin, e.target))
        /\ ~(allowToolchain /\ e.target \in Toolchain)
        /\ e.target \notin allowed}

Elements(s) == {s[i] : i \in DOMAIN s}

\* The layers, [name, selector], whose selector matches c.
LayersOf(layers, c) == {l \in Elements(layers) : c \in l.selector}

\* Defect: the entries for a layer add up.
PermittedByAny(dependencies, from) ==
    UNION {dependencies[i].mayDependOn :
              i \in {j \in DOMAIN dependencies : dependencies[j].from = from}}

\* may_depend_on of a layer.  The entries are collected into a map, in which a
\* later entry for the same layer replaces an earlier one.
Permitted(dependencies, from) ==
    LET entries == {i \in DOMAIN dependencies : dependencies[i].from = from}
    IN  UNION {dependencies[i].mayDependOn :
                  i \in {j \in entries : \A k \in entries : k <= j}}

\* layers_condition
Crossing(edges, layers, dependencies, scopes) ==
    {e \in edges :
        /\ Includes(scopes, e)
        /\ \E a \in LayersOf(layers, e.origin), b \in LayersOf(layers, e.target) :
              a.name # b.name /\ b.name \notin Permitted(dependencies, a.name)}

-----------------------------------------------------------------------------
(* Rule specs *)

Severity == {"info", "warning", "error"}
Layer == [name : LayerName, selector : SUBSET Component]
LayerDependency == [from : LayerName, mayDependOn : SUBSET LayerName]

ForbidSpec ==
    [kind : {"forbid"}, id : RuleId, severity : Severity, scopes : Scopes,
     from : SUBSET Component, to : SUBSET Component]
OnlySpec ==
    [kind : {"only"}, id : RuleId, severity : Severity, scopes : Scopes,
     from : SUBSET Component, allowed : SUBSET Component,
     allowToolchain : BOOLEAN, allowSelf : BOOLEAN]
LayersSpec ==
    [kind : {"layers"}, id : RuleId, severity : Severity, scopes : Scopes,
     layers : Seq(Layer), dependencies : Seq(LayerDependency)]
RuleSpec == ForbidSpec \cup OnlySpec \cup LayersSpec

\* What the condition of a compiled spec reports.
Reported(spec, edges) ==
    IF spec.kind = "forbid"
    THEN Forbidden(edges, spec.from, spec.to, spec.scopes)
    ELSE IF spec.kind = "only"
    THEN Disallowed(edges, spec.from, spec.allowed, spec.scopes,
                    spec.allowToolchain, spec.allowSelf)
    ELSE Crossing(edges, spec.layers, spec.dependencies, spec.scopes)

\* compile_named_selectors and validate_layer_dependencies.
Names(layers) == {layers[i].name : i \in DOMAIN layers}
LayersError(layers, dependencies) ==
    IF \E i, j \in DOMAIN layers : i # j /\ layers[i].name = layers[j].name
    THEN "DuplicateSelector"
    ELSE IF \A i \in DOMAIN dependencies : dependencies[i].from \in Names(layers)
                                        /\ dependencies[i].mayDependOn \subseteq Names(layers)
    THEN "Ok"
    ELSE "UnknownLayer"

\* The error of BuiltInRuleSpec::compile, or "Ok".  Ids, layer names and
\* patterns are proper here (CheckCommand has those that are not).
BuildError(spec) ==
    IF spec.kind = "layers" THEN LayersError(spec.layers, spec.dependencies) ELSE "Ok"
=============================================================================

---------------------------- MODULE GraphBuilder ----------------------------
(***************************************************************************)
(* The architecture graph under construction: GraphBuilder of              *)
(* bylaw-core/src/graph.rs.                                                *)
(*                                                                         *)
(* Every caller (the analyzer, the tests, a user's custom provider) drives *)
(* the builder through add_package, add_component, add_dependency and      *)
(* add_diagnostic in whatever order it likes; each call either changes the *)
(* builder or returns an error and changes nothing.  finish consumes the   *)
(* builder and sorts what it holds into the ArchitectureGraph that every   *)
(* rule is evaluated against.                                              *)
(*                                                                         *)
(* The variant of a ComponentId (Crate, Module, ExternalCrate) is the set  *)
(* it belongs to.  A component is a record [id, package, crate]: an        *)
(* external crate has neither package nor containing crate (None).         *)
(* Evidence is numbered in the order finish sorts it, by kind, span and    *)
(* description, which is total on distinct pieces of evidence.             *)
(***************************************************************************)
EXTENDS Naturals, Sequences, FiniteSets

CONSTANTS
    PackageId,       \* ids of the packages a caller may add
    CrateId,         \* ComponentId::Crate
    ModuleId,        \* ComponentId::Module
    ExternalCrateId, \* ComponentId::ExternalCrate
    None,            \* Option::None
    Evidence,        \* pieces of evidence: their ranks in the order of finish
    Diagnostic,      \* diagnostics a caller may add
    MaxEdges,        \* bound on the edges of one build
    MaxDiagnostics   \* bound on the diagnostics of one build

ComponentId == CrateId \cup ModuleId \cup ExternalCrateId
DependencyScope == {"actual", "declared"}

ASSUME DisjointIds ==
    /\ CrateId \cap ModuleId = {}
    /\ CrateId \cap ExternalCrateId = {}
    /\ ModuleId \cap ExternalCrateId = {}
ASSUME NoneIsNoId == None \notin CrateId \cup PackageId
ASSUME EvidenceIsRanked == Evidence \subseteq Nat
ASSUME BoundsAreNat == MaxEdges \in Nat /\ MaxDiagnostics \in Nat

VARIABLES
    packages,    \* GraphBuilder::packages: the ids added so far
    components,  \* GraphBuilder::components: the records added so far
    edges,       \* GraphBuilder::edges: EdgeKey -> sequence of evidence
    diagnostics, \* GraphBuilder::diagnostics
    graph,       \* what finish returned: none before, one afterwards
    result       \* outcome of the last call

vars == <<packages, components, edges, diagnostics, graph, result>>

-----------------------------------------------------------------------------
(* Data *)

\* The component records a caller can construct: the type says which of the
\* fields a variant has.  A module may name any crate and any package.
CrateNode == {[id |-> c, package |-> p, crate |-> c] :
                 c \in CrateId, p \in PackageId}
ModuleNode == {[id |-> m, package |-> p, crate |-> c] :
                  m \in ModuleId, p \in PackageId, c \in CrateId}
ExternalCrateNode == {[id |-> x, package |-> None, crate |-> None] :
                         x \in ExternalCrateId}
Component == CrateNode \cup ModuleNode \cup ExternalCrateNode

EdgeKey == [origin : ComponentId, target : ComponentId, scope : DependencyScope]

\* Defect: an edge key that forgets the scope.
KeyWithoutScope(o, t, s) == [origin |-> o, target |-> t]

KeyOf(o, t, s) == [origin |-> o, target |-> t, scope |-> s]

KnownIds == {c.id : c \in components}

Elements(s) == {s[i] : i \in DOMAIN s}

NoRepeats(s) == \A i, j \in DOMAIN s : s[i] = s[j] => i = j

\* Defect: finish leaves the evidence in the order of the calls.
Unsorted(s) == {s}

\* What sort_by may make of s: a rearrangement of it that never descends.
SortsOf(s) ==
    {t \in [DOMAIN s -> Elements(s)] :
        /\ \A i, j \in DOMAIN t : i < j => t[i] <= t[j]
        /\ \E p \in [DOMAIN s -> DOMAIN s] :
              NoRepeats(p) /\ \A i \in DOMAIN s : t[i] = s[p[i]]}

-----------------------------------------------------------------------------
(* Operations *)

Building == graph = <<>>

Fail(error) ==
    /\ result' = error
    /\ UNCHANGED <<packages, components, edges, diagnostics, graph>>

AddPackage(p) ==
    /\ Building
    /\ \/ /\ p \in packages
          /\ Fail("DuplicatePackage")
       \/ /\ p \notin packages
          /\ packages' = packages \cup {p}
          /\ result' = "Ok"
          /\ UNCHANGED <<components, edges, diagnostics, graph>>

\* Defects: add_component that does not look for the crate of a module, and
\* one that does not look for its own id.
ErrorWithoutCrate(c) ==
    IF c.id \in KnownIds THEN "DuplicateComponent"
    ELSE IF c.id \notin ExternalCrateId /\ c.package \notin packages THEN "UnknownPackage"
    ELSE "Ok"
ErrorWithoutId(c) ==
    IF c.id \notin ExternalCrateId /\ c.package \notin packages THEN "UnknownPackage"
    ELSE "Ok"

\* The error of add_component, or "Ok": the id is checked first, then the
\* package, then the crate of a module.  Neither the parent of a module nor
\* the agreement of its package with its crate's is looked at.
ComponentError(c) ==
    IF c.id \in KnownIds THEN "DuplicateComponent"
    ELSE IF c.id \notin ExternalCrateId /\ c.package \notin packages THEN "UnknownPackage"
    ELSE IF c.id \in ModuleId /\ c.crate \notin KnownIds THEN "UnknownCrate"
    ELSE "Ok"

AddComponent(c) ==
    /\ Building
    /\ \/ /\ ComponentError(c) # "Ok"
          /\ Fail(ComponentError(c))
       \/ /\ ComponentError(c) = "Ok"
          /\ components' = components \cup {c}
          /\ result' = "Ok"
          /\ UNCHANGED <<packages, edges, diagnostics, graph>>

\* Defects: evidence pushed without the contains check, and an existing edge
\* replaced by a new one.
WithRepeatedEvidence(key, e) ==
    LET old == IF key \in DOMAIN edges THEN edges[key] ELSE <<>>
    IN  [k \in DOMAIN edges \cup {key} |-> IF k = key THEN Append(old, e) ELSE edges[k]]
WithOnlyNewEvidence(key, e) ==
    [k \in DOMAIN edges \cup {key} |-> IF k = key THEN <<e>> ELSE edges[k]]

\* entry(key).or_insert_with(empty), then push unless already contained.
WithEvidence(key, e) ==
    LET old == IF key \in DOMAIN edges THEN edges[key] ELSE <<>>
        new == IF e \in Elements(old) THEN old ELSE Append(old, e)
    IN  [k \in DOMAIN edges \cup {key} |-> IF k = key THEN new ELSE edges[k]]

AddDependency(o, t, s, e) ==
    /\ Building
    /\ \/ /\ o \notin KnownIds
          /\ Fail("UnknownOrigin")
       \/ /\ o \in KnownIds /\ t \notin KnownIds
          /\ Fail("UnknownTarget")
       \/ /\ o \in KnownIds /\ t \in KnownIds
          /\ Cardinality(DOMAIN edges \cup {KeyOf(o, t, s)}) <= MaxEdges
          /\ edges' = WithEvidence(KeyOf(o, t, s), e)
          /\ result' = "Ok"
          /\ UNCHANGED <<packages, components, diagnostics, graph>>

AddDiagnostic(d) ==
    /\ Building
    /\ Len(diagnostics) < MaxDiagnostics
    /\ diagnostics' = Append(diagnostics, d)
    /\ result' = "Ok"
    /\ UNCHANGED <<packages, components, edges, graph>>

\* finish sorts the evidence of every edge; the maps it sorts by key are
\* functions here, and the diagnostics keep their order.  What is sorted is
\* named by CHOOSE, and that it is one of SortsOf, which no sequence of
\* numbers is without, is said next to it.
Finish ==
    LET sorted == [k \in DOMAIN edges |-> CHOOSE s \in SortsOf(edges[k]) : TRUE]
    IN  /\ Building
        /\ \A k \in DOMAIN edges : sorted[k] \in SortsOf(edges[k])
        /\ graph' = <<[packages |-> packages, components |-> components,
                       edges |-> sorted, diagnostics |-> diagnostics]>>
        /\ result' = "Ok"
        /\ UNCHANGED <<packages, components, edges, diagnostics>>

Init ==
    /\ packages = {}
    /\ components = {}
    /\ edges = <<>>
    /\ diagnostics = <<>>
    /\ graph = <<>>
    /\ result = "Ok"

Next ==
    \/ \E p \in PackageId : AddPackage(p)
    \/ \E c \in Component : AddComponent(c)
    \/ \E o, t \in ComponentId, s \in DependencyScope, e \in Evidence :
          AddDependency(o, t, s, e)
    \/ \E d \in Diagnostic : AddDiagnostic(d)
    \/ Finish

Spec == Init /\ [][Next]_vars
-----------------------------------------------------------------------------
(* Properties *)

\* The type invariant of the builder.
TypeOK ==
    /\ packages \subseteq PackageId
    /\ components \subseteq Component
    /\ DOMAIN edges \subseteq EdgeKey
    /\ edges \in [DOMAIN edges -> Seq(Evidence)]
    /\ diagnostics \in Seq(Diagnostic)
    /\ result \in {"Ok", "DuplicatePackage", "DuplicateComponent", "UnknownPackage",
                   "UnknownCrate", "UnknownOrigin", "UnknownTarget"}

\* Nothing in the builder dangles, whatever the order of the calls: the ends
\* of every edge are components, the crate of every module is a component
\* (so target kinds are inherited and crates are grouped without a miss),
\* and every package a component names is there.
ReferentialIntegrity ==
    /\ \A k \in DOMAIN edges : k.origin \in KnownIds /\ k.target \in KnownIds
    /\ \A c \in components : c.id \in ModuleId => c.crate \in KnownIds
    /\ \A c \in components : c.id \notin ExternalCrateId => c.package \in packages

\* One id names one component: a second add_component with the same id and
\* other fields is refused and does not replace the first.
UniqueIds == \A c, d \in components : c.id = d.id => c = d

\* An edge exists only with a reason, and no reason is listed twice however
\* often the analyzer meets the same path.
EvidenceIsProper ==
    \A k \in DOMAIN edges : edges[k] # <<>> /\ NoRepeats(edges[k])

\* The finished graph does not betray the order of the calls: the evidence of
\* an edge strictly ascends, so the list is a function of the set of accepted
\* calls, and that set is all that was accepted, edge by edge.
GraphIsCanonical ==
    \A g \in Elements(graph) :
        /\ DOMAIN g.edges = DOMAIN edges
        /\ \A k \in DOMAIN edges :
              /\ Elements(g.edges[k]) = Elements(edges[k])
              /\ \A i, j \in DOMAIN g.edges[k] : i < j => g.edges[k][i] < g.edges[k][j]

\* No call revises what an earlier call reported: packages and components
\* stay, an edge keeps its evidence in the order it came and only gains more,
\* and a call that returns an error changes nothing at all.
OnlyGrows ==
    [][/\ packages \subseteq packages'
       /\ components \subseteq components'
       /\ \A k \in DOMAIN edges :
             /\ k \in DOMAIN edges'
             /\ Len(edges[k]) <= Len(edges'[k])
             /\ \A i \in DOMAIN edges[k] : edges'[k][i] = edges[k][i]
       /\ result' # "Ok" =>
             UNCHANGED <<packages, components, edges, diagnostics, graph>>]_vars
=============================================================================

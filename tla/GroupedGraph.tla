---------------------------- MODULE GroupedGraph ----------------------------
(***************************************************************************)
(* The graph of groups that the no-cycles condition searches:              *)
(* GroupedGraph::build and groups_for of bylaw-core/src/builtin.rs.        *)
(*                                                                         *)
(* The finished architecture graph lists its edges in sorted order; build  *)
(* folds them, one at a time, into adjacency, representatives and evidence *)
(* of groups.  A component can belong to no group, to one, or, when slices *)
(* overlap, to several.  The evaluated selectors are sets of component     *)
(* ids.  Ids are numbers, ordered as the code orders them: crates before   *)
(* modules before external crates.  A group is keyed by a text, another    *)
(* number: the text of an id says nothing of its kind, so components of    *)
(* different kinds can have the same, and sorts otherwise than the id.     *)
(***************************************************************************)
EXTENDS Naturals, Sequences, FiniteSets

CONSTANTS
    CrateId, ModuleId, ExternalCrateId, \* components of the graph
    CrateOf,                            \* module -> its crate
    Display,                            \* component -> the text of its id
    SliceName,                          \* names of the configured slices
    Edges,                              \* the edges a graph may have
    Matches,                            \* slice -> the components it selects
    Selections                          \* component sets `within` may select

Workspace == CrateId \cup ModuleId
ComponentId == Workspace \cup ExternalCrateId
Key == {Display[c] : c \in ComponentId} \cup SliceName

ASSUME OrderedIds ==
    /\ ComponentId \cup SliceName \subseteq Nat
    /\ IsFiniteSet(ComponentId \cup SliceName)
    /\ \A c \in CrateId, m \in ModuleId, x \in ExternalCrateId : c < m /\ m < x
ASSUME TextsAreOfOneKind ==
    /\ Display \in [ComponentId -> Nat]
    /\ \A Kind \in {CrateId, ModuleId, ExternalCrateId} :
          \A i, j \in Kind : Display[i] = Display[j] => i = j
ASSUME ModulesHaveCrates == CrateOf \in [ModuleId -> CrateId]
ASSUME EdgesConnectComponents ==
    Edges \subseteq [origin : ComponentId, target : ComponentId,
                     scope : {"actual", "declared"}]
ASSUME SelectionsOfComponents == Selections \subseteq SUBSET ComponentId
ASSUME SlicesSelectComponents == Matches \in [SliceName -> SUBSET ComponentId]

VARIABLES
    edges,           \* edges of the finished graph
    selected,        \* components the `within` selector matches
    grouping,        \* CompiledGrouping
    scopes,          \* DependencyScopes of the rule
    todo,            \* edges build has not folded in
    adjacency,       \* key -> keys it depends on
    representatives, \* key -> the component that names it in a report
    evidence         \* <<key, key>> -> evidence for that hop

input == <<edges, selected, grouping, scopes>>
grouped == <<adjacency, representatives, evidence>>

-----------------------------------------------------------------------------

ContainingCrate(id) == IF id \in CrateId THEN id ELSE CrateOf[id]

SelectedCrates == {ContainingCrate(id) : id \in selected \cap Workspace}

Includes(s) == scopes \in {"both", s}

Texts(S) == {Display[i] : i \in S}

\* groups_for.  The Crates grouping asks for the crate only: a module that is
\* not selected still counts when some component of its crate is.  Components
\* whose ids read the same are one group.
GroupsFor(id) ==
    CASE grouping = "components" -> Texts({id} \cap selected)
      [] grouping = "modules" -> Texts({id} \cap selected \cap ModuleId)
      [] grouping = "crates" ->
           Texts({ContainingCrate(i) : i \in {id} \cap Workspace} \cap SelectedCrates)
      [] grouping = "slices" -> {n \in SliceName : id \in selected \cap Matches[n]}

\* A declared edge has no span, so the evidence of two of them can be equal;
\* the evidence of an actual edge points at its place in the source.
EvidenceOf(e) == [scope |-> e.scope,
                  at |-> IF e.scope = "declared" THEN <<>> ELSE <<e.origin, e.target>>]

Elements(s) == {s[i] : i \in DOMAIN s}

\* Pairs of distinct groups the edge connects, in the order of the loops.
Pairs(e) == {p \in GroupsFor(e.origin) \X GroupsFor(e.target) : p[1] # p[2]}
Before(p, q) == p[1] < q[1] \/ (p[1] = q[1] /\ p[2] < q[2])
FirstPair(S) == CHOOSE p \in S : \A q \in S \ {p} : Before(p, q)

\* Defect: a group is represented by the origin of the edge, on either side.
RepresentByOrigin(e, k) == e.origin

\* or_insert_with: the first pair that mentions a key decides who represents
\* it, the origin of the edge or its target.
Represent(e, k) ==
    LET mentions == {p \in Pairs(e) : k \in {p[1], p[2]}}
    IN  IF FirstPair(mentions)[1] = k THEN e.origin ELSE e.target

-----------------------------------------------------------------------------

InitBuild ==
    /\ edges \in SUBSET Edges
    /\ selected \in Selections
    /\ grouping \in {"components", "modules", "crates", "slices"}
    /\ scopes \in {"actual", "declared", "both"}
    /\ todo = {e \in edges : Includes(e.scope)}
    /\ adjacency = [k \in Key |-> {}]
    /\ representatives = <<>>
    /\ evidence = <<>>

\* The next edge in the order of ArchitectureGraph::edges.
Precedes(d, e) ==
    \/ d.origin < e.origin
    \/ d.origin = e.origin /\ d.target < e.target
    \/ d.origin = e.origin /\ d.target = e.target /\ d.scope = "actual" /\ e.scope = "declared"

\* Defects: an edge with both ends in one group is skipped for the other
\* groups of its ends as well; evidence is filed under the opposite hop.
FoldUnlessShared(e) ==
    /\ todo' = todo \ {e}
    /\ IF GroupsFor(e.origin) \cap GroupsFor(e.target) # {}
       THEN UNCHANGED grouped
       ELSE /\ adjacency' = [k \in Key |-> adjacency[k] \cup {p[2] : p \in {q \in Pairs(e) : q[1] = k}}]
            /\ representatives' =
                 [k \in DOMAIN representatives \cup UNION {{p[1], p[2]} : p \in Pairs(e)} |->
                    IF k \in DOMAIN representatives THEN representatives[k] ELSE Represent(e, k)]
            /\ evidence' =
                 [p \in DOMAIN evidence \cup Pairs(e) |->
                    IF p \in DOMAIN evidence THEN evidence[p] ELSE <<EvidenceOf(e)>>]
    /\ UNCHANGED input
FoldReversed(e) ==
    /\ todo' = todo \ {e}
    /\ adjacency' = [k \in Key |-> adjacency[k] \cup {p[2] : p \in {q \in Pairs(e) : q[1] = k}}]
    /\ representatives' =
         [k \in DOMAIN representatives \cup UNION {{p[1], p[2]} : p \in Pairs(e)} |->
            IF k \in DOMAIN representatives THEN representatives[k] ELSE Represent(e, k)]
    /\ evidence' =
         [p \in DOMAIN evidence \cup Pairs(e) \cup {<<q[2], q[1]>> : q \in Pairs(e)} |->
            IF <<p[2], p[1]>> \in Pairs(e) THEN <<EvidenceOf(e)>>
            ELSE IF p \in DOMAIN evidence THEN evidence[p] ELSE <<>>]
    /\ UNCHANGED input

\* One round of the loop of build.
Fold(e) ==
    /\ todo' = todo \ {e}
    /\ adjacency' = [k \in Key |-> adjacency[k] \cup {p[2] : p \in {q \in Pairs(e) : q[1] = k}}]
    /\ representatives' =
         [k \in DOMAIN representatives \cup UNION {{p[1], p[2]} : p \in Pairs(e)} |->
            IF k \in DOMAIN representatives THEN representatives[k] ELSE Represent(e, k)]
    /\ evidence' =
         [p \in DOMAIN evidence \cup Pairs(e) |->
            LET old == IF p \in DOMAIN evidence THEN evidence[p] ELSE <<>>
            IN  IF p \notin Pairs(e) \/ EvidenceOf(e) \in Elements(old)
                THEN old ELSE Append(old, EvidenceOf(e))]
    /\ UNCHANGED input

FoldNext == \E e \in todo : (\A d \in todo \ {e} : Precedes(e, d)) /\ Fold(e)
=============================================================================

--------------------------- MODULE NoCyclesProofs ---------------------------
(***************************************************************************)
(* Proofs about the no-cycles condition as a whole, for every architecture *)
(* graph, grouping, selection and overlap of slices: it passes exactly     *)
(* when the groups can be layered, and what it reports is backed by edges. *)
(*                                                                         *)
(* CycleSearchProofs says what the search does on the graph of groups it   *)
(* is given.  Here that graph is related to the edges it was folded from,  *)
(* and cyclic components to sets of groups that cannot be layered.         *)
(***************************************************************************)
EXTENDS NoCycles, SequenceTheorems, FiniteSetTheorems, TLAPS

SearchProofs == INSTANCE CycleSearchProofs

LEMMA KeysAreOrdered == SearchProofs!KeysAreOrdered
<1>1. IsFiniteSet(ComponentId) /\ IsFiniteSet(SliceName)
    BY OrderedIds, FS_Subset DEF OrderedIds
<1>2. IsFiniteSet({Display[c] : c \in ComponentId})
  <2> DEFINE T == {Display[c] : c \in ComponentId}
  <2>1. Display \in Surjection(ComponentId, T)
      BY TextsAreOfOneKind DEF TextsAreOfOneKind, Surjection
  <2> QED
      BY <1>1, <2>1, FS_Surjection
<1>3. IsFiniteSet(Key)
    BY <1>1, <1>2, FS_Union DEF Key
<1>4. Key \subseteq Nat
    BY OrderedIds, TextsAreOfOneKind DEF OrderedIds, TextsAreOfOneKind, Key
<1> QED
    BY <1>3, <1>4 DEF SearchProofs!KeysAreOrdered, SearchProofs!IsFiniteSet, IsFiniteSet

-----------------------------------------------------------------------------
(* Groups *)

InputIsInput ==
    /\ edges \subseteq Edges
    /\ selected \subseteq ComponentId
    /\ grouping \in {"components", "modules", "crates", "slices"}
    /\ todo \subseteq {e \in edges : Includes(e.scope)}

\* groups_for gives keys.
LEMMA GroupsAreKeys ==
    ASSUME InputIsInput, NEW id \in ComponentId
    PROVE  GroupsFor(id) \subseteq Key
<1>1. \A i \in Workspace : ContainingCrate(i) \in CrateId
    BY ModulesHaveCrates DEF ModulesHaveCrates, ContainingCrate, Workspace
<1>2. CASE grouping = "components"
    BY <1>2 DEF GroupsFor, Texts, Key
<1>3. CASE grouping = "modules"
    BY <1>3 DEF GroupsFor, Texts, Key
<1>4. CASE grouping = "crates"
    BY <1>1, <1>4 DEF GroupsFor, Texts, Key, ComponentId, Workspace
<1>5. CASE grouping = "slices"
    BY <1>5 DEF GroupsFor, Key
<1> QED
    BY <1>2, <1>3, <1>4, <1>5 DEF InputIsInput

\* The groups of an edge of the graph.
LEMMA PairsAreKeys ==
    ASSUME InputIsInput, NEW e \in edges
    PROVE  /\ e.origin \in ComponentId /\ e.target \in ComponentId
           /\ \A p \in Pairs(e) : /\ p \in Key \X Key /\ p[1] # p[2]
                                  /\ p[1] \in GroupsFor(e.origin)
                                  /\ p[2] \in GroupsFor(e.target)
<1>1. e.origin \in ComponentId /\ e.target \in ComponentId
    BY EdgesConnectComponents DEF EdgesConnectComponents, InputIsInput
<1> QED
    BY <1>1, GroupsAreKeys DEF Pairs

\* The order of pairs has a least one.
LEMMA FirstPairIsOne ==
    ASSUME NEW S, S \subseteq Nat \X Nat, S # {}
    PROVE  FirstPair(S) \in S
<1> DEFINE Firsts == {p[1] : p \in S}
           k == SearchProofs!Least(Firsts)
           Seconds == {p[2] : p \in {q \in S : q[1] = k}}
           l == SearchProofs!Least(Seconds)
<1>1. Firsts \subseteq Nat /\ Firsts # {}
    OBVIOUS
<1>2. k \in Firsts /\ \A i \in Firsts : k <= i
    BY <1>1, KeysAreOrdered, SearchProofs!LeastIsLeast
<1> HIDE DEF k
<1>3. Seconds \subseteq Nat /\ Seconds # {}
    BY <1>2
<1>4. l \in Seconds /\ \A i \in Seconds : l <= i
    BY <1>3, KeysAreOrdered, SearchProofs!LeastIsLeast
<1> HIDE DEF l
<1>5. PICK p \in S : p[1] = k /\ p[2] = l
    BY <1>4
<1>6. \A q \in S \ {p} : Before(p, q)
  <2> TAKE q \in S \ {p}
  <2>1. q \in Nat \X Nat /\ p \in Nat \X Nat
      OBVIOUS
  <2>2. k <= q[1] /\ (q[1] = k => l <= q[2])
      BY <1>2, <1>4
  <2>3. ~(q[1] = k /\ q[2] = l)
      BY <1>5, <2>1
  <2> QED
      BY <1>5, <2>1, <2>2, <2>3 DEF Before
<1> QED
    BY <1>6 DEF FirstPair

\* What represents a group of an edge is in it.
LEMMA RepresentativeBelongs ==
    ASSUME InputIsInput, NEW e \in edges, NEW p \in Pairs(e), NEW k \in {p[1], p[2]}
    PROVE  Represent(e, k) \in ComponentId /\ k \in GroupsFor(Represent(e, k))
<1> DEFINE mentions == {q \in Pairs(e) : k \in {q[1], q[2]}}
           f == FirstPair(mentions)
<1>1. Pairs(e) \subseteq Nat \X Nat
    BY PairsAreKeys, KeysAreOrdered DEF SearchProofs!KeysAreOrdered
<1>2. f \in mentions
    BY <1>1, FirstPairIsOne
<1>3. f[1] \in GroupsFor(e.origin) /\ f[2] \in GroupsFor(e.target) /\ k \in {f[1], f[2]}
    BY <1>2, PairsAreKeys
<1> QED
    BY <1>3, PairsAreKeys DEF Represent

-----------------------------------------------------------------------------
(* What build has made of the edges it has folded *)

\* Edge e, of those in D, makes k depend on l.
Connects(e, k, l) ==
    /\ Includes(e.scope)
    /\ k \in GroupsFor(e.origin)
    /\ l \in GroupsFor(e.target)

\* The graph of groups has the dependencies of the edges folded so far.
FoldsDependencies ==
    adjacency = [k \in Key |->
        {l \in Key : l # k /\ \E e \in edges \ todo : Connects(e, k, l)}]

\* Piece of evidence x is from an edge from group p[1] to group p[2].
Backs(x, p) == \E e \in edges : Connects(e, p[1], p[2]) /\ EvidenceOf(e) = x

\* Every dependency has evidence, and no evidence is made up.
HasEvidence ==
    /\ \A k \in Key : \A l \in adjacency[k] : <<k, l>> \in DOMAIN evidence
    /\ \A p \in DOMAIN evidence :
          /\ evidence[p] \in Seq({EvidenceOf(e) : e \in edges})
          /\ evidence[p] # <<>>
          /\ \A x \in Elements(evidence[p]) : Backs(x, p)

\* The groups that depend on others, and those, are represented by members.
HasRepresentatives ==
    /\ \A k \in DOMAIN representatives :
          \E id \in ComponentId : id = representatives[k] /\ k \in GroupsFor(id)
    /\ \A k \in Key : adjacency[k] # {} =>
          {k} \cup adjacency[k] \subseteq DOMAIN representatives

Built == InputIsInput /\ FoldsDependencies /\ HasEvidence /\ HasRepresentatives

LEMMA InitBuilds == Init => Built
<1> SUFFICES ASSUME Init PROVE Built
    OBVIOUS
<1>1. InputIsInput
    BY SelectionsOfComponents DEF SelectionsOfComponents, Init, InitBuild, InputIsInput
<1>2. adjacency = [k \in Key |-> {}] /\ evidence = <<>> /\ representatives = <<>>
    BY DEF Init, InitBuild
<1>3. FoldsDependencies
    BY <1>2 DEF Init, InitBuild, FoldsDependencies, Connects
<1>4. HasEvidence /\ HasRepresentatives
    BY <1>2 DEF HasEvidence, HasRepresentatives
<1> QED
    BY <1>1, <1>3, <1>4 DEF Built

LEMMA FoldBuilds ==
    ASSUME Built, NEW e \in todo, Fold(e)
    PROVE  Built'
<1> USE DEF Built
<1>1. UNCHANGED <<edges, selected, grouping, scopes>> /\ todo' = todo \ {e}
    BY DEF Fold, input
<1>2. e \in edges /\ Includes(e.scope)
    BY DEF InputIsInput
<1>3. /\ \A id : GroupsFor(id)' = GroupsFor(id)
      /\ \A s : Includes(s)' <=> Includes(s)
    BY <1>1 DEF GroupsFor, Texts, SelectedCrates, Includes
<1>4. \A d, k, l : Connects(d, k, l)' <=> Connects(d, k, l)
    BY <1>3 DEF Connects
<1>5. InputIsInput'
    BY <1>1, <1>3 DEF InputIsInput
<1>6. \A p \in Pairs(e) : /\ p \in Key \X Key /\ p[1] # p[2]
                          /\ Connects(e, p[1], p[2]) /\ p = <<p[1], p[2]>>
    BY <1>2, PairsAreKeys DEF Connects
<1>7. \A k, l \in Key : k # l /\ Connects(e, k, l) => <<k, l>> \in Pairs(e)
    BY DEF Connects, Pairs
<1>8. FoldsDependencies'
  <2>1. adjacency' = [k \in Key |-> adjacency[k] \cup {p[2] : p \in {q \in Pairs(e) : q[1] = k}}]
      BY DEF Fold
  <2>2. ASSUME NEW k \in Key
        PROVE  adjacency[k] \cup {p[2] : p \in {q \in Pairs(e) : q[1] = k}} =
               {l \in Key : l # k /\ \E d \in edges \ (todo \ {e}) : Connects(d, k, l)}
    <3>1. adjacency[k] = {l \in Key : l # k /\ \E d \in edges \ todo : Connects(d, k, l)}
        BY DEF FoldsDependencies
    <3>2. {p[2] : p \in {q \in Pairs(e) : q[1] = k}} = {l \in Key : l # k /\ Connects(e, k, l)}
        BY <1>6, <1>7
    <3> QED
        BY <1>2, <3>1, <3>2
  <2> QED
      BY <1>1, <1>4, <2>1, <2>2 DEF FoldsDependencies
<1>9. HasEvidence'
  <2> DEFINE Pieces == {EvidenceOf(d) : d \in edges}
             x == EvidenceOf(e)
             old(p) == IF p \in DOMAIN evidence THEN evidence[p] ELSE <<>>
             new(p) == IF p \notin Pairs(e) \/ x \in Elements(old(p))
                       THEN old(p) ELSE Append(old(p), x)
  <2>1. evidence' = [p \in DOMAIN evidence \cup Pairs(e) |-> new(p)]
      BY DEF Fold
  <2>2. x \in Pieces /\ \A p \in Pairs(e) : Backs(x, p)
      BY <1>2, <1>6 DEF Backs
  <2>3. \A p, y : Backs(y, p)' <=> Backs(y, p)
      BY <1>1, <1>4 DEF Backs, EvidenceOf
  <2> HIDE DEF Pieces, x
  <2>4. ASSUME NEW p \in DOMAIN evidence \cup Pairs(e)
        PROVE  /\ new(p) \in Seq(Pieces)
               /\ new(p) # <<>>
               /\ \A y \in Elements(new(p)) : Backs(y, p)
    <3>1. old(p) \in Seq(Pieces) /\ \A y \in Elements(old(p)) : Backs(y, p)
      <4>1. CASE p \in DOMAIN evidence
          BY <4>1 DEF HasEvidence, Pieces
      <4>2. CASE p \notin DOMAIN evidence
          BY <4>2 DEF Elements
      <4> QED
          BY <4>1, <4>2
    <3>2. CASE p \notin Pairs(e)
        BY <3>1, <3>2 DEF HasEvidence
    <3>3. CASE x \in Elements(old(p))
      <4>1. old(p) # <<>>
          BY <3>3 DEF Elements
      <4> QED
          BY <3>1, <3>3, <4>1
    <3>4. CASE p \in Pairs(e) /\ x \notin Elements(old(p))
      <4> DEFINE o == old(p)
      <4>1. new(p) = Append(o, x) /\ o \in Seq(Pieces) /\ \A y \in Elements(o) : Backs(y, p)
          BY <3>1, <3>4
      <4> HIDE DEF o, new
      <4>2. /\ new(p) \in Seq(Pieces) /\ new(p) # <<>> /\ DOMAIN new(p) = 1..Len(o) + 1
            /\ new(p)[Len(o) + 1] = x /\ \A i \in 1..Len(o) : new(p)[i] = o[i]
            /\ DOMAIN o = 1..Len(o) /\ Len(o) \in Nat
          BY <2>2, <4>1, AppendProperties
      <4>3. Elements(new(p)) = Elements(o) \cup {x}
          BY <4>2 DEF Elements
      <4> QED
          BY <2>2, <3>4, <4>1, <4>2, <4>3
    <3> QED
        BY <3>2, <3>3, <3>4
  <2> HIDE DEF new
  <2>5. \A p \in DOMAIN evidence' :
            /\ evidence'[p] \in Seq(Pieces)
            /\ evidence'[p] # <<>>
            /\ \A y \in Elements(evidence'[p]) : Backs(y, p)'
      BY <2>1, <2>3, <2>4
  <2>6. ASSUME NEW k \in Key, NEW l \in adjacency'[k] PROVE <<k, l>> \in DOMAIN evidence'
    <3>1. l \in adjacency[k] \/ \E p \in Pairs(e) : p[1] = k /\ p[2] = l
        BY DEF Fold
    <3>2. <<k, l>> \in DOMAIN evidence \/ <<k, l>> \in Pairs(e)
        BY <1>6, <3>1 DEF HasEvidence
    <3> QED
        BY <2>1, <3>2
  <2>7. Pieces' = Pieces
      BY <1>1 DEF Pieces, EvidenceOf
  <2> QED
      BY <2>5, <2>6, <2>7 DEF HasEvidence, Pieces, Elements
<1>10. HasRepresentatives'
  <2> DEFINE r == representatives
             mentioned == UNION {{p[1], p[2]} : p \in Pairs(e)}
  <2>1. representatives' = [k \in DOMAIN r \cup mentioned |->
                              IF k \in DOMAIN r THEN r[k] ELSE Represent(e, k)]
      BY DEF Fold
  <2>2. \A k \in mentioned : Represent(e, k) \in ComponentId /\ k \in GroupsFor(Represent(e, k))
    <3> TAKE k \in mentioned
    <3>1. PICK p \in Pairs(e) : k \in {p[1], p[2]}
        OBVIOUS
    <3> QED
        BY <1>2, <3>1, RepresentativeBelongs
  <2>3. \A k \in DOMAIN representatives' :
            \E id \in ComponentId : id = representatives'[k] /\ k \in GroupsFor(id)'
      BY <1>3, <2>1, <2>2 DEF HasRepresentatives
  <2>4. ASSUME NEW k \in Key, adjacency'[k] # {}
        PROVE  {k} \cup adjacency'[k] \subseteq DOMAIN representatives'
    <3>1. adjacency'[k] = adjacency[k] \cup {p[2] : p \in {q \in Pairs(e) : q[1] = k}}
        BY DEF Fold
    <3>2. adjacency[k] # {} => {k} \cup adjacency[k] \subseteq DOMAIN r
        BY DEF HasRepresentatives
    <3>3. \A p \in Pairs(e) : p[1] \in mentioned /\ p[2] \in mentioned
        OBVIOUS
    <3> QED
        BY <2>1, <2>4, <3>1, <3>2, <3>3
  <2> QED
      BY <2>3, <2>4 DEF HasRepresentatives
<1> QED
    BY <1>5, <1>8, <1>9, <1>10

-----------------------------------------------------------------------------
(* Building, then searching *)

\* Until the search begins it has its initial state, and while it goes on its
\* own invariant holds of the graph that was built.
IInv ==
    /\ Built
    /\ searching \in BOOLEAN
    /\ ~searching => reported = <<>> /\ phase = "idle" /\ pending = {} /\ members = {}
                     /\ starts = {} /\ path = <<>> /\ active = {} /\ remaining = <<>>
    /\ searching => todo = {} /\ SearchProofs!IInv

\* The search of NoCycles is the one that the proofs are about.
LEMMA SameSearch ==
    /\ Search!Next <=> SearchProofs!Next
    /\ Search!Reports!CyclicComponents(adjacency) =
          SearchProofs!Reports!CyclicComponents(adjacency)
<1> USE DEF Search!Depth, SearchProofs!Depth, Search!Start, SearchProofs!Start,
            Search!Untried, SearchProofs!Untried, Search!Least, SearchProofs!Least,
            Search!Neighbor, SearchProofs!Neighbor, Search!Advance, SearchProofs!Advance,
            Search!Pop, SearchProofs!Pop,
            Search!PhaseAfterReturn, SearchProofs!PhaseAfterReturn
<1>1. Search!NextComponent <=> SearchProofs!NextComponent
    BY DEF Search!NextComponent, SearchProofs!NextComponent
<1>2. Search!TryStart <=> SearchProofs!TryStart
    BY DEF Search!TryStart, SearchProofs!TryStart
<1>3. Search!SkipNeighbor <=> SearchProofs!SkipNeighbor
    BY DEF Search!SkipNeighbor, SearchProofs!SkipNeighbor
<1>4. Search!CloseCycle <=> SearchProofs!CloseCycle
    BY DEF Search!CloseCycle, SearchProofs!CloseCycle
<1>5. Search!Descend <=> SearchProofs!Descend
    BY DEF Search!Descend, SearchProofs!Descend
<1>6. Search!Return <=> SearchProofs!Return
    BY DEF Search!Return, SearchProofs!Return
<1>7. Search!Next <=> SearchProofs!Next
    BY <1>1, <1>2, <1>3, <1>4, <1>5, <1>6 DEF Search!Next, SearchProofs!Next
<1>8. Search!Reports!CyclicComponents(adjacency) =
          SearchProofs!Reports!CyclicComponents(adjacency)
    BY DEF Search!Reports!CyclicComponents, SearchProofs!Reports!CyclicComponents,
           Search!Reports!ComponentOf, SearchProofs!Reports!ComponentOf,
           Search!Reports!Reaches, SearchProofs!Reports!Reaches,
           Search!Reports!Closed, SearchProofs!Reports!Closed
<1> QED
    BY <1>7, <1>8

\* What has been built is a graph without loops.
LEMMA BuiltIsGraph == Built => adjacency \in SearchProofs!Reports!Loopless
BY DEF Built, FoldsDependencies, SearchProofs!Reports!Loopless

LEMMA StartIsProper == SearchProofs!Init => SearchProofs!IInv
BY KeysAreOrdered, SearchProofs!InitEstablishes

LEMMA StartIsProperNext == SearchProofs!Init' => SearchProofs!IInv'
BY StartIsProper, PTL

LEMMA SearchBegins ==
    ASSUME IInv, StartSearch
    PROVE  SearchProofs!IInv'
<1>1. /\ phase' = "idle" /\ members' = {} /\ starts' = {} /\ path' = <<>> /\ active' = {}
      /\ remaining' = <<>> /\ reported' = <<>> /\ adjacency' = adjacency
      /\ pending' = SearchProofs!Reports!CyclicComponents(adjacency)
    BY SameSearch DEF StartSearch, IInv, grouped
<1>2. adjacency' \in SearchProofs!Reports!Loopless
    BY <1>1, BuiltIsGraph DEF IInv
<1>3. SearchProofs!Init'
    BY <1>1, <1>2 DEF SearchProofs!Init
<1> QED
    BY <1>3, StartIsProperNext

LEMMA Unfolded ==
    ASSUME Built, UNCHANGED <<input, todo, grouped>>
    PROVE  Built'
<1>1. /\ UNCHANGED <<edges, selected, grouping, scopes, todo>>
      /\ UNCHANGED <<adjacency, representatives, evidence>>
    BY DEF input, grouped
<1>2. /\ \A id : GroupsFor(id)' = GroupsFor(id)
      /\ \A s : Includes(s)' <=> Includes(s)
    BY <1>1 DEF GroupsFor, Texts, SelectedCrates, Includes
<1>3. /\ \A e, k, l : Connects(e, k, l)' <=> Connects(e, k, l)
      /\ \A x, p : Backs(x, p)' <=> Backs(x, p)
    BY <1>1, <1>2 DEF Connects, Backs, EvidenceOf
<1>4. InputIsInput' /\ FoldsDependencies'
    BY <1>1, <1>2, <1>3 DEF Built, InputIsInput, FoldsDependencies
<1>5. HasEvidence'
    BY <1>1, <1>3 DEF Built, HasEvidence, Elements, EvidenceOf
<1>6. HasRepresentatives'
    BY <1>1, <1>2 DEF Built, HasRepresentatives
<1> QED
    BY <1>4, <1>5, <1>6 DEF Built

LEMMA InitEstablishes == Init => IInv
BY InitBuilds DEF Init, IInv

LEMMA NextKeeps == IInv /\ [Next]_vars => IInv'
<1> SUFFICES ASSUME IInv, [Next]_vars PROVE IInv'
    OBVIOUS
<1>1. CASE Build
  <2>1. PICK e \in todo : Fold(e)
      BY <1>1 DEF Build, FoldNext
  <2>2. ~searching
      BY <2>1 DEF IInv
  <2>3. Built'
      BY <2>1, FoldBuilds DEF IInv
  <2>4. UNCHANGED <<search, searching>>
      BY <1>1 DEF Build
  <2> QED
      BY <2>2, <2>3, <2>4 DEF IInv, search
<1>2. CASE StartSearch
  <2>1. Built'
      BY <1>2, Unfolded DEF StartSearch, IInv
  <2>2. todo' = {} /\ searching' = TRUE
      BY <1>2 DEF StartSearch
  <2> QED
      BY <1>2, <2>1, <2>2, SearchBegins DEF IInv
<1>3. CASE SearchStep
  <2>1. SearchProofs!IInv /\ SearchProofs!Next
      BY <1>3, SameSearch DEF SearchStep, IInv
  <2>2. SearchProofs!IInv'
      BY <2>1, KeysAreOrdered, SearchProofs!NextKeeps DEF SearchProofs!Kept
  <2>3. adjacency' = adjacency
      BY <2>1 DEF SearchProofs!Next, SearchProofs!NextComponent, SearchProofs!TryStart,
                  SearchProofs!SkipNeighbor, SearchProofs!CloseCycle, SearchProofs!Descend,
                  SearchProofs!Return
  <2>4. Built'
      BY <1>3, <2>3, Unfolded DEF SearchStep, IInv, grouped
  <2> QED
      BY <1>3, <2>2, <2>4 DEF SearchStep, IInv
<1>4. CASE UNCHANGED vars
  <2>1. Built'
      BY <1>4, Unfolded DEF vars, IInv
  <2>2. UNCHANGED SearchProofs!vars
      BY <1>4 DEF vars, search, grouped, SearchProofs!vars
  <2>3. searching => SearchProofs!IInv'
      BY <2>2, KeysAreOrdered, SearchProofs!NextKeeps DEF SearchProofs!Kept, IInv
  <2> QED
      BY <1>4, <2>1, <2>3 DEF vars, search, IInv
<1> QED
    BY <1>1, <1>2, <1>3, <1>4 DEF Next

LEMMA Inductive == Spec => []IInv
BY InitEstablishes, NextKeeps, PTL DEF Spec

-----------------------------------------------------------------------------
(* Cyclic components and layers *)

\* With all edges folded, the graph of groups is what the rule is about.
LEMMA GraphIsDependsOn ==
    ASSUME Built, todo = {}, NEW k \in Key, NEW l \in Key
    PROVE  l \in adjacency[k] <=> k # l /\ DependsOn(k, l)
BY DEF Built, FoldsDependencies, DependsOn, Connects

\* A cyclic component is a set of groups that cannot be layered.
LEMMA ComponentsHaveNoLayers ==
    ASSUME Built, todo = {}, NEW C \in SearchProofs!Reports!CyclicComponents(adjacency)
    PROVE  ~CanBeLayered
<1>1. adjacency \in SearchProofs!Reports!Loopless /\ adjacency \in SearchProofs!Graph
    BY BuiltIsGraph DEF SearchProofs!Reports!Loopless, SearchProofs!Graph
<1>2. C # {} /\ C \subseteq Key
    BY <1>1, KeysAreOrdered, SearchProofs!ComponentsAreInhabited
<1>3. ASSUME NEW k \in C PROVE \E l \in C \ {k} : DependsOn(k, l)
  <2>1. PICK c : SearchProofs!IsRound(adjacency, C, k, c)
      BY <1>1, KeysAreOrdered, SearchProofs!CycleThrough
  <2>2. c[1] = k /\ c[2] \in C /\ c[2] \in adjacency[k]
      BY <2>1 DEF SearchProofs!IsRound
  <2> QED
      BY <1>2, <2>2, GraphIsDependsOn
<1>4. C \subseteq UNION {GroupsFor(id) : id \in ComponentId}
  <2>1. ASSUME NEW k \in C PROVE \E id \in ComponentId : k \in GroupsFor(id)
    <3>1. PICK e \in edges : k \in GroupsFor(e.origin)
        BY <1>3 DEF DependsOn
    <3> QED
        BY <3>1, PairsAreKeys DEF Built
  <2> QED
      BY <2>1
<1> QED
    BY <1>2, <1>3, <1>4 DEF CanBeLayered

\* What x reaches.
From(x) == {y \in Key : SearchProofs!Reports!Reaches(adjacency, x, y)}

\* Where there is no cyclic component, groups reach less the farther down they
\* are, so a set of groups has one that depends on no other: one that reaches
\* the fewest.
LEMMA NoComponentsNoCycles ==
    ASSUME Built, todo = {}, SearchProofs!Reports!CyclicComponents(adjacency) = {}
    PROVE  CanBeLayered
<1>1. adjacency \in SearchProofs!Graph /\ IsFiniteSet(Key)
    BY BuiltIsGraph, KeysAreOrdered
       DEF SearchProofs!Reports!Loopless, SearchProofs!Graph,
           SearchProofs!KeysAreOrdered, SearchProofs!IsFiniteSet, IsFiniteSet
<1>2. \A x, y \in Key : x # y /\ y \in From(x) => x \notin From(y)
  <2>1. ASSUME NEW x \in Key, NEW y \in Key, x # y, y \in From(x), x \in From(y)
        PROVE  FALSE
    <3>1. x \in SearchProofs!Reports!ComponentOf(adjacency, x)
        BY KeysAreOrdered, SearchProofs!ReachesItself DEF SearchProofs!Reports!ComponentOf
    <3>2. y \in SearchProofs!Reports!ComponentOf(adjacency, x)
        BY <2>1 DEF SearchProofs!Reports!ComponentOf, From
    <3> QED
        BY <2>1, <3>1, <3>2 DEF SearchProofs!Reports!CyclicComponents
  <2> QED
      BY <2>1
<1>3. ASSUME NEW k \in Key, NEW l \in Key, k # l, DependsOn(k, l)
      PROVE  Cardinality(From(l)) < Cardinality(From(k))
  <2>1. l \in adjacency[k]
      BY <1>3, GraphIsDependsOn
  <2>2. SearchProofs!Reports!Reaches(adjacency, k, l)
      BY <1>1, <2>1, KeysAreOrdered, SearchProofs!ReachesNext
  <2>3. From(l) \subseteq From(k)
      BY <1>1, <2>2, KeysAreOrdered, SearchProofs!ReachesFurther DEF From
  <2>4. k \in From(k) /\ k \notin From(l)
      BY <1>2, <1>3, <2>2, KeysAreOrdered, SearchProofs!ReachesItself DEF From
  <2>5. IsFiniteSet(From(k))
      BY <1>1, FS_Subset DEF From
  <2>6. IsFiniteSet(From(l)) /\ From(l) # From(k)
      BY <2>3, <2>4, <2>5, FS_Subset
  <2>7. /\ Cardinality(From(l)) <= Cardinality(From(k))
        /\ Cardinality(From(l)) # Cardinality(From(k))
      BY <2>3, <2>5, <2>6, FS_Subset
  <2>8. Cardinality(From(l)) \in Nat /\ Cardinality(From(k)) \in Nat
      BY <2>5, <2>6, FS_CardinalityType
  <2> QED
      BY <2>7, <2>8
<1>4. SUFFICES ASSUME NEW S \in SUBSET UNION {GroupsFor(id) : id \in ComponentId}, S # {}
               PROVE  \E k \in S : \A l \in S \ {k} : ~DependsOn(k, l)
    BY DEF CanBeLayered
<1>5. S \subseteq Key
    BY GroupsAreKeys DEF Built
<1> DEFINE Sizes == {Cardinality(From(k)) : k \in S}
<1>6. Sizes \subseteq Nat /\ Sizes # {}
  <2>1. \A k \in S : IsFiniteSet(From(k))
      BY <1>1, FS_Subset DEF From
  <2>2. \A k \in S : Cardinality(From(k)) \in Nat
      BY <2>1, FS_CardinalityType
  <2> QED
      BY <1>4, <2>2
<1>7. PICK k \in S : \A l \in S : Cardinality(From(k)) <= Cardinality(From(l))
  <2>1. PICK n \in Sizes : \A i \in Sizes : n <= i
      BY <1>6, KeysAreOrdered, SearchProofs!LeastIsLeast
  <2> QED
      BY <2>1
<1>8. \A l \in S : Cardinality(From(l)) \in Nat
    BY <1>6
<1>9. \A l \in S \ {k} : ~DependsOn(k, l)
    BY <1>3, <1>5, <1>7, <1>8
<1> QED
    BY <1>9

-----------------------------------------------------------------------------
(* The theorems *)

LEMMA VerdictFollows == IInv => PassesIffLayered
<1> SUFFICES ASSUME IInv, Done PROVE reported = <<>> <=> CanBeLayered
    BY DEF PassesIffLayered
<1>1. Built /\ todo = {} /\ SearchProofs!Open = {} /\ SearchProofs!ReportsComponents
    BY DEF Done, IInv, SearchProofs!IInv, SearchProofs!Open
<1>2. reported \in Seq(Seq(Key))
    BY DEF Done, IInv, SearchProofs!IInv, SearchProofs!TypeOK
<1>3. reported = <<>> <=> SearchProofs!Reports!CyclicComponents(adjacency) = {}
    BY <1>1, <1>2 DEF SearchProofs!ReportsComponents, SearchProofs!Cyclic
<1> QED
    BY <1>1, <1>3, ComponentsHaveNoLayers, NoComponentsNoCycles

LEMMA EvidenceFollows == IInv => EventsAreEvidenced
<1> SUFFICES ASSUME IInv, NEW i \in DOMAIN reported PROVE
        LET c == reported[i]
            shown == Event(c).evidence
        IN  \A j \in DOMAIN shown :
              /\ shown[j] # <<>>
              /\ \A piece \in Elements(shown[j]) :
                    \E e \in edges :
                        /\ Includes(e.scope)
                        /\ EvidenceOf(e) = piece
                        /\ c[j] \in GroupsFor(e.origin)
                        /\ c[j + 1] \in GroupsFor(e.target)
    BY DEF EventsAreEvidenced
<1> DEFINE c == reported[i]
<1>1. searching /\ Built
    BY DEF IInv
<1>2. c \in Seq(Key) /\ SearchProofs!Reports!IsCycle(adjacency, c)
    BY <1>1 DEF IInv, SearchProofs!IInv, SearchProofs!TypeOK, SearchProofs!ReportsComponents
<1>3. Event(c).evidence = [j \in 1..Len(c) - 1 |-> evidence[<<c[j], c[j + 1]>>]]
    BY DEF Event, Hops
<1> HIDE DEF c
<1>4. ASSUME NEW j \in 1..Len(c) - 1
      PROVE  LET p == <<c[j], c[j + 1]>> IN
             evidence[p] # <<>> /\ \A x \in Elements(evidence[p]) : Backs(x, p)
  <2>1. c[j] \in Key /\ c[j + 1] \in adjacency[c[j]]
      BY <1>2 DEF SearchProofs!Reports!IsCycle
  <2> QED
      BY <1>1, <2>1 DEF Built, HasEvidence
<1>5. ASSUME NEW j \in 1..Len(c) - 1, NEW x, Backs(x, <<c[j], c[j + 1]>>)
      PROVE  \E e \in edges : /\ Includes(e.scope)
                              /\ EvidenceOf(e) = x
                              /\ c[j] \in GroupsFor(e.origin)
                              /\ c[j + 1] \in GroupsFor(e.target)
    BY <1>5 DEF Backs, Connects
<1> QED
    BY <1>3, <1>4, <1>5 DEF c

LEMMA RepresentativesFollow == IInv => RepresentativesBelong
BY DEF IInv, Built, HasRepresentatives, RepresentativesBelong

\* no_cycles_condition passes exactly when the groups can be layered, for every
\* graph, grouping, scope and `within`, whatever slices overlap.
THEOREM VerdictIsRight == Spec => []PassesIffLayered
BY Inductive, VerdictFollows, PTL

\* Each hop of a reported cycle has evidence, and each piece of it is from an
\* edge in scope between the two groups.
THEOREM EvidenceIsReal == Spec => []EventsAreEvidenced
BY Inductive, EvidenceFollows, PTL

\* or_insert_with of GroupedGraph::build makes a member of each group its
\* representative, and leaves no group of an edge without one.
THEOREM RepresentativesAreMembers == Spec => []RepresentativesBelong
BY Inductive, RepresentativesFollow, PTL
=============================================================================

------------------------- MODULE GraphBuilderProofs -------------------------
(***************************************************************************)
(* Proofs about GraphBuilder: for any sets of ids and evidence, and any    *)
(* order of calls, what the builder holds is well typed, has no dangling   *)
(* reference, one component per id and no repeated evidence, a call never  *)
(* revises an earlier one, and the finished graph does not depend on the   *)
(* order of the calls.                                                     *)
(***************************************************************************)
EXTENDS GraphBuilder, FiniteSetTheorems, TLAPS

-----------------------------------------------------------------------------
(* Evidence lists *)

\* Appending a piece of evidence that a list lacks adds exactly that piece
\* and keeps the list free of repetitions.
LEMMA AppendEvidence ==
    ASSUME NEW s \in Seq(Evidence), NEW e \in Evidence,
           NoRepeats(s), e \notin Elements(s)
    PROVE  /\ Append(s, e) \in Seq(Evidence)
           /\ Append(s, e) # <<>>
           /\ NoRepeats(Append(s, e))
  BY DEF NoRepeats, Elements

\* An injection of a finite interval into itself reaches every index.
LEMMA InjectionIsOnto ==
    ASSUME NEW n \in Nat, NEW p \in [1..n -> 1..n], NoRepeats(p), NEW k \in 1..n
    PROVE  \E i \in 1..n : p[i] = k
  <1> SUFFICES ASSUME \A i \in 1..n : p[i] # k PROVE FALSE
    OBVIOUS
  <1> DEFINE S == 1..n
             T == S \ {k}
  <1>1. p \in [S -> T]
    OBVIOUS
  <1>2. IsFiniteSet(S) /\ Cardinality(S) = n
    BY FS_Interval
  <1>3. IsFiniteSet(T) /\ Cardinality(T) = n - 1
    BY <1>2, FS_RemoveElement
  <1>4. Cardinality(T) < Cardinality(S)
    BY <1>2, <1>3
  <1> HIDE DEF S, T
  <1>5. \A f \in [S -> T] : \E i, j \in S : i # j /\ f[i] = f[j]
    BY <1>2, <1>3, <1>4, FS_PigeonHole
  <1>6. \E i, j \in S : i # j /\ p[i] = p[j]
    BY <1>1, <1>5
  <1> QED
    BY <1>6 DEF NoRepeats, S

\* Sorting a list without repetitions keeps its members and leaves them
\* strictly ascending.
LEMMA SortedEvidence ==
    ASSUME NEW s \in Seq(Evidence), NoRepeats(s), NEW t \in SortsOf(s)
    PROVE  /\ Elements(t) = Elements(s)
           /\ \A i, j \in DOMAIN t : i < j => t[i] < t[j]
  <1> DEFINE n == Len(s)
  <1>1. /\ n \in Nat
        /\ DOMAIN s = 1..n
        /\ \A i \in 1..n : s[i] \in Nat
    <2>1. s \in [1..n -> Evidence] /\ n \in Nat
      OBVIOUS
    <2> QED
      BY <2>1, EvidenceIsRanked DEF EvidenceIsRanked
  <1>2. /\ DOMAIN t = 1..n
        /\ \A i, j \in 1..n : i < j => t[i] <= t[j]
    BY <1>1 DEF SortsOf
  <1>3. PICK p \in [1..n -> 1..n] : NoRepeats(p) /\ \A i \in 1..n : t[i] = s[p[i]]
    BY <1>1 DEF SortsOf
  <1>4. ASSUME NEW i \in 1..n, NEW j \in 1..n, i < j
        PROVE  t[i] < t[j]
    <2>1. p[i] # p[j]
      BY <1>3, <1>4 DEF NoRepeats
    <2>2. s[p[i]] # s[p[j]]
      BY <1>1, <1>3, <2>1 DEF NoRepeats
    <2>3. t[i] \in Nat /\ t[j] \in Nat /\ t[i] # t[j]
      BY <1>1, <1>3, <2>2
    <2> QED
      BY <1>2, <1>4, <2>3
  <1>5. Elements(t) \subseteq Elements(s)
    BY <1>1, <1>2, <1>3 DEF Elements
  <1>6. Elements(s) \subseteq Elements(t)
    <2> SUFFICES ASSUME NEW k \in 1..n PROVE s[k] \in Elements(t)
      BY <1>1 DEF Elements
    <2>1. PICK i \in 1..n : p[i] = k
      BY <1>1, <1>3, InjectionIsOnto
    <2> QED
      BY <1>2, <1>3, <2>1 DEF Elements
  <1> QED
    BY <1>2, <1>4, <1>5, <1>6

-----------------------------------------------------------------------------
(* The inductive invariant *)

IInv ==
    /\ TypeOK
    /\ ReferentialIntegrity
    /\ UniqueIds
    /\ EvidenceIsProper
    /\ GraphIsCanonical

LEMMA InitEstablishes == Init => IInv
  BY DEF Init, IInv, TypeOK, ReferentialIntegrity, UniqueIds, EvidenceIsProper,
         GraphIsCanonical, KnownIds, Elements, NoRepeats

\* A call that fails keeps everything but its result.
LEMMA FailKeeps ==
    ASSUME IInv, NEW error, Fail(error),
           error \in {"DuplicatePackage", "DuplicateComponent", "UnknownPackage",
                      "UnknownCrate", "UnknownOrigin", "UnknownTarget"}
    PROVE  IInv'
  BY DEF IInv, Fail, TypeOK, ReferentialIntegrity, UniqueIds, EvidenceIsProper,
         GraphIsCanonical, KnownIds

LEMMA AddPackageKeeps ==
    ASSUME IInv, NEW p \in PackageId, AddPackage(p)
    PROVE  IInv'
  <1>1. CASE Fail("DuplicatePackage")
    BY <1>1, FailKeeps
  <1>2. CASE /\ Building
             /\ packages' = packages \cup {p}
             /\ result' = "Ok"
             /\ UNCHANGED <<components, edges, diagnostics, graph>>
    BY <1>2 DEF IInv, TypeOK, ReferentialIntegrity, UniqueIds, EvidenceIsProper,
                GraphIsCanonical, KnownIds, Building, Elements
  <1> QED
    BY <1>1, <1>2 DEF AddPackage

LEMMA AddComponentKeeps ==
    ASSUME IInv, NEW c \in Component, AddComponent(c)
    PROVE  IInv'
  <1>1. CASE ComponentError(c) # "Ok" /\ Fail(ComponentError(c))
    <2>1. ComponentError(c) \in {"DuplicateComponent", "UnknownPackage", "UnknownCrate"}
      BY <1>1 DEF ComponentError
    <2> QED
      BY <1>1, <2>1, FailKeeps
  <1>2. CASE /\ Building
             /\ ComponentError(c) = "Ok"
             /\ components' = components \cup {c}
             /\ result' = "Ok"
             /\ UNCHANGED <<packages, edges, diagnostics, graph>>
    <2>1. /\ c.id \notin KnownIds
          /\ c.id \notin ExternalCrateId => c.package \in packages
          /\ c.id \in ModuleId => c.crate \in KnownIds
      BY <1>2, DisjointIds DEF ComponentError
    <2>2. KnownIds' = KnownIds \cup {c.id}
      BY <1>2 DEF KnownIds
    <2>3. TypeOK'
      BY <1>2 DEF IInv, TypeOK
    <2>4. ReferentialIntegrity'
      BY <1>2, <2>1, <2>2 DEF IInv, ReferentialIntegrity
    <2>5. UniqueIds'
      BY <1>2, <2>1 DEF IInv, UniqueIds, KnownIds
    <2> QED
      BY <1>2, <2>3, <2>4, <2>5
         DEF IInv, EvidenceIsProper, GraphIsCanonical, Building, Elements
  <1> QED
    BY <1>1, <1>2 DEF AddComponent

LEMMA AddDependencyKeeps ==
    ASSUME IInv, NEW o \in ComponentId, NEW t \in ComponentId,
           NEW s \in DependencyScope, NEW e \in Evidence, AddDependency(o, t, s, e)
    PROVE  IInv'
  <1> DEFINE key == KeyOf(o, t, s)
             old == IF key \in DOMAIN edges THEN edges[key] ELSE <<>>
             new == IF e \in Elements(old) THEN old ELSE Append(old, e)
  <1>1. CASE Fail("UnknownOrigin") \/ Fail("UnknownTarget")
    BY <1>1, FailKeeps
  <1>2. CASE /\ Building
             /\ o \in KnownIds /\ t \in KnownIds
             /\ edges' = WithEvidence(key, e)
             /\ result' = "Ok"
             /\ UNCHANGED <<packages, components, diagnostics, graph>>
    <2>1. key \in EdgeKey /\ key.origin = o /\ key.target = t
      BY DEF KeyOf, EdgeKey
    <2>2. /\ DOMAIN edges' = DOMAIN edges \cup {key}
          /\ \A k \in DOMAIN edges' : edges'[k] = IF k = key THEN new ELSE edges[k]
          /\ edges' = [k \in DOMAIN edges \cup {key} |-> IF k = key THEN new ELSE edges[k]]
      BY <1>2 DEF WithEvidence
    <2>3. old \in Seq(Evidence) /\ NoRepeats(old)
      BY DEF IInv, TypeOK, EvidenceIsProper, NoRepeats
    <2>4. new \in Seq(Evidence) /\ new # <<>> /\ NoRepeats(new)
      <3>1. CASE e \in Elements(old)
        BY <2>3, <3>1 DEF Elements
      <3>2. CASE e \notin Elements(old)
        BY <2>3, <3>2, AppendEvidence
      <3> QED
        BY <3>1, <3>2
    <2> HIDE DEF key, new
    <2>5. TypeOK'
      BY <1>2, <2>1, <2>2, <2>4 DEF IInv, TypeOK
    <2>6. ReferentialIntegrity'
      BY <1>2, <2>1, <2>2 DEF IInv, ReferentialIntegrity, KnownIds
    <2>7. EvidenceIsProper'
      BY <2>2, <2>4 DEF IInv, EvidenceIsProper
    <2> QED
      BY <1>2, <2>5, <2>6, <2>7 DEF IInv, UniqueIds, GraphIsCanonical, Building, Elements
  <1> QED
    BY <1>1, <1>2 DEF AddDependency

LEMMA AddDiagnosticKeeps ==
    ASSUME IInv, NEW d \in Diagnostic, AddDiagnostic(d)
    PROVE  IInv'
  BY DEF IInv, AddDiagnostic, TypeOK, ReferentialIntegrity, UniqueIds,
         EvidenceIsProper, GraphIsCanonical, KnownIds

LEMMA FinishKeeps ==
    ASSUME IInv, Finish
    PROVE  IInv'
  <1>1. PICK sorted \in [DOMAIN edges -> UNION {SortsOf(edges[k]) : k \in DOMAIN edges}] :
           /\ \A k \in DOMAIN edges : sorted[k] \in SortsOf(edges[k])
           /\ graph' = <<[packages |-> packages, components |-> components,
                          edges |-> sorted, diagnostics |-> diagnostics]>>
    BY DEF Finish
  <1>2. \A k \in DOMAIN edges : edges[k] \in Seq(Evidence) /\ NoRepeats(edges[k])
    BY DEF IInv, TypeOK, EvidenceIsProper
  <1>3. \A k \in DOMAIN edges :
           /\ Elements(sorted[k]) = Elements(edges[k])
           /\ \A i, j \in DOMAIN sorted[k] : i < j => sorted[k][i] < sorted[k][j]
    BY <1>1, <1>2, SortedEvidence
  <1>4. \A g \in Elements(graph') : g.edges = sorted
    BY <1>1 DEF Elements
  <1>5. UNCHANGED <<packages, components, edges, diagnostics>> /\ result' = "Ok"
    BY DEF Finish
  <1>6. GraphIsCanonical'
    BY <1>1, <1>3, <1>4, <1>5 DEF GraphIsCanonical
  <1> QED
    BY <1>5, <1>6 DEF IInv, TypeOK, ReferentialIntegrity, UniqueIds, EvidenceIsProper,
                      KnownIds

\* The invariant is inductive: every call of every caller preserves it.
LEMMA NextKeeps ==
    ASSUME IInv, [Next]_vars
    PROVE  IInv'
  <1>1. CASE UNCHANGED vars
    BY <1>1 DEF vars, IInv, TypeOK, ReferentialIntegrity, UniqueIds, EvidenceIsProper,
                GraphIsCanonical, KnownIds
  <1>2. CASE Next
    BY <1>2, AddPackageKeeps, AddComponentKeeps, AddDependencyKeeps, AddDiagnosticKeeps,
       FinishKeeps DEF Next
  <1> QED
    BY <1>1, <1>2

-----------------------------------------------------------------------------
(* Theorems *)

THEOREM Inductive == Spec => []IInv
  BY InitEstablishes, NextKeeps, PTL DEF Spec

\* The builder is well typed after any calls.
THEOREM TypeCorrect == Spec => []TypeOK
  <1>1. IInv => TypeOK
    BY DEF IInv
  <1> QED
    BY <1>1, Inductive, PTL

\* No reference of the builder dangles after any calls (add_component and
\* add_dependency check what they name, and nothing is ever removed).
THEOREM NothingDangles == Spec => []ReferentialIntegrity
  <1>1. IInv => ReferentialIntegrity
    BY DEF IInv
  <1> QED
    BY <1>1, Inductive, PTL

\* One component per id, after any calls.
THEOREM OneComponentPerId == Spec => []UniqueIds
  <1>1. IInv => UniqueIds
    BY DEF IInv
  <1> QED
    BY <1>1, Inductive, PTL

\* Every edge has evidence, none of it twice.
THEOREM EdgesHaveProperEvidence == Spec => []EvidenceIsProper
  <1>1. IInv => EvidenceIsProper
    BY DEF IInv
  <1> QED
    BY <1>1, Inductive, PTL

\* What finish returns is determined by what was accepted, not by its order.
THEOREM FinishedGraphIsCanonical == Spec => []GraphIsCanonical
  <1>1. IInv => GraphIsCanonical
    BY DEF IInv
  <1> QED
    BY <1>1, Inductive, PTL

\* No call revises what an earlier one reported, and a failing call changes
\* nothing but the result.
THEOREM CallsOnlyAdd == Spec => OnlyGrows
  <1> DEFINE Grows ==
        /\ packages \subseteq packages'
        /\ components \subseteq components'
        /\ \A k \in DOMAIN edges :
              /\ k \in DOMAIN edges'
              /\ Len(edges[k]) <= Len(edges'[k])
              /\ \A i \in DOMAIN edges[k] : edges'[k][i] = edges[k][i]
        /\ result' # "Ok" =>
              UNCHANGED <<packages, components, edges, diagnostics, graph>>
  <1>1. ASSUME IInv, Next PROVE Grows
    <2>0. \A k \in DOMAIN edges : edges[k] \in Seq(Evidence)
      BY <1>1 DEF IInv, TypeOK
    <2>1. ASSUME NEW p \in PackageId, AddPackage(p) PROVE Grows
      BY <2>0, <2>1 DEF AddPackage, Fail
    <2>2. ASSUME NEW c \in Component, AddComponent(c) PROVE Grows
      BY <2>0, <2>2 DEF AddComponent, Fail
    <2>3. ASSUME NEW o \in ComponentId, NEW t \in ComponentId,
                 NEW s \in DependencyScope, NEW e \in Evidence, AddDependency(o, t, s, e)
          PROVE  Grows
      <3>1. CASE edges' = edges
        BY <2>0, <2>3, <3>1 DEF AddDependency, Fail
      <3>2. CASE edges' = WithEvidence(KeyOf(o, t, s), e) /\ result' = "Ok"
        BY <2>0, <2>3, <3>2 DEF AddDependency, Fail, WithEvidence
      <3> QED
        BY <2>3, <3>1, <3>2 DEF AddDependency, Fail
    <2>4. ASSUME NEW d \in Diagnostic, AddDiagnostic(d) PROVE Grows
      BY <2>0, <2>4 DEF AddDiagnostic
    <2>5. ASSUME Finish PROVE Grows
      BY <2>0, <2>5 DEF Finish
    <2> QED
      BY <1>1, <2>1, <2>2, <2>3, <2>4, <2>5 DEF Next
  <1>2. IInv /\ [Next]_vars => [Grows]_vars
    BY <1>1
  <1> QED
    BY <1>2, Inductive, PTL DEF Spec, OnlyGrows
=============================================================================

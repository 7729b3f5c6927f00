---------------------------- MODULE AnalyzerProofs ----------------------------
(***************************************************************************)
(* Proofs about the import of a workspace, for every workspace, selection  *)
(* of targets and outcome of the load, and for every order in which the    *)
(* stages meet what they loop over: the builder refuses none of the calls, *)
(* nothing selected is left out without a diagnostic, and every edge has a *)
(* cause.                                                                  *)
(*                                                                         *)
(* Each stage relies on what the ones before it registered.  The invariant *)
(* relates the set a stage has yet to see (todo) to what is registered and *)
(* to what was said of the rest.                                           *)
(***************************************************************************)
EXTENDS Analyzer, SequenceTheorems, FiniteSetTheorems, TLAPS

-----------------------------------------------------------------------------
(* Ids *)

\* The kinds of ids differ: they are tuples of different lengths.
LEMMA IdsDiffer ==
    /\ CrateIds \cap ModuleIds = {}
    /\ CrateIds \cap ExternalIds = {}
    /\ ModuleIds \cap ExternalIds = {}
BY DEF CrateIds, ModuleIds, ExternalIds, CrateIdOf, ModuleIdOf, ExternalIdOf, ToolchainIdOf

LEMMA CrateIdsTell ==
    ASSUME NEW t \in Target, NEW u \in Target, CrateIdOf(t) = CrateIdOf(u)
    PROVE  t = u
BY CargoTargets DEF CrateIdOf

LEMMA ModuleIdsTell ==
    ASSUME NEW t \in Target, NEW m \in HirModule, NEW u \in Target, NEW n \in HirModule,
           ModuleIdOf(t, m) = ModuleIdOf(u, n)
    PROVE  t = u
BY CargoTargets DEF ModuleIdOf

-----------------------------------------------------------------------------
(* The components there can be *)

CrateComponent(t) == [id |-> CrateIdOf(t), package |-> t.package, crate |-> CrateIdOf(t)]

\* A component of a target, of a module or from outside.
IsImported(c) ==
    \/ \E t \in Target : c = CrateComponent(t)
    \/ \E t \in Target, m \in HirModule : c = ModuleComponent(t, m)
    \/ \E id \in ExternalIds : c = External(id)

LEMMA TargetsGiveIds ==
    ASSUME NEW t \in Target
    PROVE  /\ CrateIdOf(t) \in CrateIds /\ CrateIdOf(t) # None /\ t.package \in Member
           /\ \A m \in HirModule : ModuleIdOf(t, m) \in ModuleIds /\ ModuleIdOf(t, m) # None
<1>1. CrateIdOf(t) \in CrateIds /\ \A m \in HirModule : ModuleIdOf(t, m) \in ModuleIds
    BY DEF CrateIds, ModuleIds
<1> QED
    BY <1>1, NoneIsNothingElse, Packages

LEMMA ImportedAreComponents ==
    ASSUME NEW c, IsImported(c)
    PROVE  c \in Builder!Component
<1>1. CASE \E t \in Target : c = CrateComponent(t)
    BY <1>1, TargetsGiveIds DEF CrateComponent, Builder!Component, Builder!CrateNode
<1>2. CASE \E t \in Target, m \in HirModule : c = ModuleComponent(t, m)
    BY <1>2, TargetsGiveIds DEF ModuleComponent, Builder!Component, Builder!ModuleNode
<1>3. CASE \E id \in ExternalIds : c = External(id)
    BY <1>3 DEF External, Builder!Component, Builder!ExternalCrateNode
<1> QED
    BY <1>1, <1>2, <1>3 DEF IsImported

-----------------------------------------------------------------------------
(* Calls to the builder *)

AnyEvidence == {r.evidence : r \in Requires} \cup {x.evidence : x \in Reference}

\* A call that is accepted and what it may not lose.
Accepted ==
    /\ result' = "Ok"
    /\ components \subseteq components'
    /\ \A d : Told(d) => Told(d)'
    /\ \A k \in DOMAIN edges : \A i \in DOMAIN edges[k] :
          k \in DOMAIN edges' /\ \E j \in DOMAIN edges'[k] : edges'[k][j] = edges[k][i]

LEMMA ComponentIsAdded ==
    ASSUME NEW c, Builder!AddComponent(c), ~Registered(c.id),
           c.id \notin ExternalIds => c.package \in packages,
           c.id \in ModuleIds => Registered(c.crate)
    PROVE  /\ components' = components \cup {c}
           /\ UNCHANGED <<packages, edges, diagnostics, graph>>
           /\ Accepted
<1>1. Builder!ComponentError(c) = "Ok"
    BY DEF Builder!ComponentError, Builder!KnownIds, Registered
<1>2. /\ components' = components \cup {c} /\ result' = "Ok"
      /\ UNCHANGED <<packages, edges, diagnostics, graph>>
    BY <1>1 DEF Builder!AddComponent, Builder!Fail
<1> QED
    BY <1>2 DEF Accepted, Told, Evident

LEMMA DiagnosticIsAdded ==
    ASSUME NEW d, Builder!AddDiagnostic(d), d \in Diagnostics, diagnostics \in Seq(Diagnostics)
    PROVE  /\ diagnostics' \in Seq(Diagnostics) /\ Told(d)'
           /\ UNCHANGED <<packages, components, edges, graph>>
           /\ Accepted
<1>1. /\ diagnostics' = Append(diagnostics, d) /\ result' = "Ok"
      /\ UNCHANGED <<packages, components, edges, graph>>
    BY DEF Builder!AddDiagnostic
<1>2. /\ diagnostics' \in Seq(Diagnostics)
      /\ DOMAIN diagnostics' = 1..Len(diagnostics) + 1
      /\ diagnostics'[Len(diagnostics) + 1] = d
      /\ DOMAIN diagnostics = 1..Len(diagnostics) /\ Len(diagnostics) \in Nat
      /\ \A i \in 1..Len(diagnostics) : diagnostics'[i] = diagnostics[i]
    BY <1>1
<1>3. Told(d)' /\ \A other : Told(other) => Told(other)'
    BY <1>2 DEF Told
<1> QED
    BY <1>1, <1>2, <1>3 DEF Accepted, Evident

\* The edges have sequences of evidence.
EdgesAreBacked == \A k \in DOMAIN edges : edges[k] \in Seq(AnyEvidence)

LEMMA DependencyIsAdded ==
    ASSUME NEW o, NEW t, NEW s, NEW e \in AnyEvidence, Builder!AddDependency(o, t, s, e),
           Registered(o), Registered(t), EdgesAreBacked
    PROVE  /\ UNCHANGED <<packages, components, diagnostics, graph>>
           /\ EdgesAreBacked'
           /\ \A k \in DOMAIN edges' : \A i \in DOMAIN edges'[k] :
                 \/ k \in DOMAIN edges /\ \E j \in DOMAIN edges[k] : edges[k][j] = edges'[k][i]
                 \/ k = Builder!KeyOf(o, t, s) /\ edges'[k][i] = e
           /\ \A O, T : o \in O /\ t \in T => Evident(s, O, T, e)'
           /\ Accepted
<1> DEFINE key == Builder!KeyOf(o, t, s)
           old == IF key \in DOMAIN edges THEN edges[key] ELSE <<>>
           new == IF e \in Builder!Elements(old) THEN old ELSE Append(old, e)
<1>1. /\ edges' = [k \in DOMAIN edges \cup {key} |-> IF k = key THEN new ELSE edges[k]]
      /\ result' = "Ok"
      /\ UNCHANGED <<packages, components, diagnostics, graph>>
    BY DEF Builder!AddDependency, Builder!KnownIds, Registered, Builder!Fail,
           Builder!WithEvidence
<1>2. key.origin = o /\ key.target = t /\ key.scope = s
    BY DEF Builder!KeyOf
<1>3. old \in Seq(AnyEvidence)
    BY DEF EdgesAreBacked
<1>4. /\ new \in Seq(AnyEvidence)
      /\ \E i \in DOMAIN new : new[i] = e
      /\ \A i \in DOMAIN old : i \in DOMAIN new /\ new[i] = old[i]
      /\ \A i \in DOMAIN new : (i \in DOMAIN old /\ new[i] = old[i]) \/ new[i] = e
  <2> HIDE DEF old
  <2>1. CASE e \in Builder!Elements(old)
      BY <1>3, <2>1 DEF Builder!Elements
  <2>2. CASE e \notin Builder!Elements(old)
    <3>1. /\ new \in Seq(AnyEvidence) /\ DOMAIN new = 1..Len(old) + 1
          /\ DOMAIN old = 1..Len(old) /\ Len(old) \in Nat
          /\ new[Len(old) + 1] = e /\ \A i \in 1..Len(old) : new[i] = old[i]
        BY <1>3, <2>2
    <3> QED
        BY <3>1
  <2> QED
      BY <2>1, <2>2
<1> HIDE DEF new, key
<1>5. /\ DOMAIN edges' = DOMAIN edges \cup {key} /\ edges'[key] = new
      /\ \A k \in DOMAIN edges : k # key => edges'[k] = edges[k]
    BY <1>1
<1>6. EdgesAreBacked'
    BY <1>4, <1>5 DEF EdgesAreBacked
<1>7. \A k \in DOMAIN edges' : \A i \in DOMAIN edges'[k] :
         \/ k \in DOMAIN edges /\ \E j \in DOMAIN edges[k] : edges[k][j] = edges'[k][i]
         \/ k = key /\ edges'[k][i] = e
  <2> TAKE k \in DOMAIN edges'
  <2>1. CASE k # key
      BY <1>5, <2>1
  <2>2. CASE k = key /\ k \in DOMAIN edges
      BY <1>4, <1>5, <2>2
  <2>3. CASE k = key /\ k \notin DOMAIN edges
      BY <1>4, <1>5, <2>3
  <2> QED
      BY <2>1, <2>2, <2>3
<1>8. \A O, T : o \in O /\ t \in T => Evident(s, O, T, e)'
    BY <1>2, <1>4, <1>5 DEF Evident
<1>9. \A k \in DOMAIN edges : \A i \in DOMAIN edges[k] :
         k \in DOMAIN edges' /\ \E j \in DOMAIN edges'[k] : edges'[k][j] = edges[k][i]
  <2> TAKE k \in DOMAIN edges
  <2>1. CASE k # key
      BY <1>5, <2>1
  <2>2. CASE k = key
      BY <1>4, <1>5, <2>2
  <2> QED
      BY <2>1, <2>2
<1> QED
    BY <1>1, <1>6, <1>7, <1>8, <1>9 DEF Accepted, Told, key

LEMMA NothingIsAdded == NoCall /\ result = "Ok" => Accepted
BY DEF NoCall, builder, Accepted, Told, Evident

-----------------------------------------------------------------------------
(* What a crate is bound to *)

BoundTo(k) ==
    IF SelectTarget(k) # None THEN CrateIdOf(SelectTarget(k)) ELSE ExternalOf(k)

LEMMA OneOfMany ==
    ASSUME NEW S, IsFiniteSet(S), NEW x \in S, NEW y \in S, x # y
    PROVE  Cardinality(S) > 1
<1>1. IsFiniteSet({x}) /\ Cardinality({x}) = 1
    BY FS_Singleton
<1>2. {x} \in SUBSET S /\ S # {x}
    OBVIOUS
<1>3. Cardinality({x}) <= Cardinality(S) /\ Cardinality(S) # Cardinality({x})
    BY <1>2, FS_Subset
<1>4. Cardinality(S) \in Nat
    BY FS_CardinalityType
<1> QED
    BY <1>1, <1>3, <1>4

\* The target of a crate has its root file, and its name if there is such a one.
LEMMA SelectedTargets ==
    ASSUME NEW k
    PROVE  /\ SelectTarget(k) # None => SelectTarget(k) \in Target /\ SelectTarget(k).src = k.root
           /\ \A t \in Target :
                 t.src = k.root /\ t.name = k.name =>
                    SelectTarget(k) # None /\ SelectTarget(k).name = k.name
<1> DEFINE there == Candidates(k)
           named == {t \in there : t.name = k.name}
<1>1. there \subseteq Target /\ \A t \in there : t.src = k.root
    BY DEF Candidates
<1>2. IsFiniteSet(there) /\ None \notin there
    BY <1>1, Packages, NoneIsNothingElse, FS_Subset
<1>3. SelectTarget(k) = IF there = {} THEN None
                        ELSE IF Cardinality(there) > 1 /\ named # {} THEN CHOOSE t \in named : TRUE
                        ELSE CHOOSE t \in there : TRUE
    BY DEF SelectTarget
<1>4. named \subseteq there /\ (named # {} => (CHOOSE t \in named : TRUE) \in named)
    OBVIOUS
<1>5. there # {} => (CHOOSE t \in there : TRUE) \in there
    OBVIOUS
<1>6. there # {} => SelectTarget(k) \in there
    BY <1>3, <1>4, <1>5
<1>7. ASSUME NEW t \in Target, t.src = k.root, t.name = k.name
      PROVE  SelectTarget(k) # None /\ SelectTarget(k).name = k.name
  <2>1. t \in named /\ there # {}
      BY <1>7 DEF Candidates
  <2>2. SelectTarget(k) \in there
      BY <1>6, <2>1
  <2>3. CASE Cardinality(there) > 1
      BY <1>2, <1>3, <1>4, <2>1, <2>2, <2>3
  <2>4. CASE ~(Cardinality(there) > 1)
      BY <1>2, <1>7, <2>1, <2>2, <2>4, OneOfMany
  <2> QED
      BY <2>3, <2>4
<1> HIDE DEF there
<1> QED
    BY <1>1, <1>3, <1>6, <1>7

LEMMA BoundToIds ==
    ASSUME NEW k \in HirCrate
    PROVE  /\ ExternalOf(k) \in ExternalIds
           /\ BoundTo(k) \in CrateIds \cup ExternalIds /\ BoundTo(k) # None
           /\ SelectTarget(k) # None => BoundTo(k) \in CrateIds
<1>1. ExternalOf(k) \in ExternalIds
  <2>1. CASE \E p \in Outside : PrimarySrc[p] = k.root
    <3>1. (CHOOSE p \in Outside : PrimarySrc[p] = k.root) \in Outside
        BY <2>1
    <3> QED
        BY <2>1, <3>1 DEF ExternalOf, ExternalIds
  <2>2. CASE ~\E p \in Outside : PrimarySrc[p] = k.root
      BY <2>2 DEF ExternalOf, ExternalIds
  <2> QED
      BY <2>1, <2>2
<1>2. SelectTarget(k) # None => CrateIdOf(SelectTarget(k)) \in CrateIds
    BY SelectedTargets, TargetsGiveIds
<1> QED
    BY <1>1, <1>2, NoneIsNothingElse DEF BoundTo

-----------------------------------------------------------------------------
(* The invariant *)

Input ==
    /\ selected \subseteq Target /\ loaded \subseteq HirCrate
    /\ \A f \in DOMAIN owner :
          owner[f] \in HirModule /\ owner[f].file = f /\ owner[f].crate \in loaded
    /\ \A m \in HirModule : m.crate \in loaded => m.file \in DOMAIN owner

\* Crates and modules are bound to what is registered.
Bindings ==
    /\ \A k \in HirCrate :
          crateOf[k] # None => crateOf[k] = BoundTo(k) /\ Registered(crateOf[k])
    /\ \A m \in HirModule :
          moduleOf[m] # None =>
             /\ SelectTarget(m.crate) # None /\ crateOf[m.crate] # None
             /\ moduleOf[m] = ModuleIdOf(SelectTarget(m.crate), m) /\ Registered(moduleOf[m])
    /\ files \in [Target -> SUBSET DOMAIN owner]

\* A module that is yet to be bound comes after its crate, which was bound to
\* a target.
IsReady(m) ==
    /\ m \in HirModule /\ m.crate \in loaded
    /\ SelectTarget(m.crate) # None /\ crateOf[m.crate] # None

BeforeEdges == {"packages", "crates", "load", "bind", "skipped"}

\* What each stage has yet to see, and what it finds registered.
Stages ==
    /\ pc = "packages" => todo \subseteq Member /\ packages = Member \ todo /\ components = {}
    /\ pc \notin {"packages", "failed"} => packages = Member
    /\ pc = "crates" =>
          /\ todo \subseteq Target
          /\ \A t \in Target : Registered(CrateIdOf(t)) <=> t \notin todo
    /\ pc \notin {"packages", "crates", "failed"} => \A t \in Target : Registered(CrateIdOf(t))
    /\ pc = "bind" => \A w \in todo : w \in loaded \/ IsReady(w)
    /\ pc = "skipped" => todo \subseteq selected
    /\ pc = "declared" => todo \subseteq DeclaredWork
    /\ pc = "actual" => todo \subseteq ActualWork
    /\ pc \in BeforeEdges => edges = <<>>

\* Once crates and modules have been seen, every loaded crate is bound.
AfterBind == {"skipped", "declared", "actual"}
CratesAreBound ==
    /\ pc = "bind" => \A k \in loaded : k \in todo \/ crateOf[k] # None
    /\ pc \in AfterBind => \A k \in loaded : crateOf[k] # None

IsLoadedOrTold(t) == Loaded(t) \/ Told(<<"skipped-target", CrateIdOf(t)>>)
IsDeclared(t, r) ==
    \/ Evident("declared", {CrateIdOf(t)}, {c.id : c \in components}, r.evidence)
    \/ Told(<<"unmapped-declared-dependency", CrateIdOf(t), r>>)
IsRecorded(t, x) ==
    \/ x.as = "benign" \/ Resolution(x) = Origin(t, x)
    \/ Evident("actual", {Origin(t, x)}, {Resolution(x)}, x.evidence)
    \/ Told(<<"unresolved", x>>) \/ Told(<<"unmapped", x>>)

\* What a stage has seen has its answer in the graph.
Answers ==
    /\ \A t \in selected :
          \/ pc \in {"packages", "crates", "load", "bind", "failed"}
          \/ pc = "skipped" /\ t \in todo
          \/ IsLoadedOrTold(t)
    /\ \A t \in selected, r \in Requires :
          Concerns(r, t) =>
             \/ pc \in BeforeEdges \cup {"failed"}
             \/ pc = "declared" /\ <<t, r>> \in todo
             \/ IsDeclared(t, r)
    /\ \A t \in selected, x \in Reference :
          x.file \in files[t] =>
             \/ pc \in BeforeEdges \cup {"declared", "failed"}
             \/ pc = "actual" /\ <<t, x>> \in todo
             \/ IsRecorded(t, x)

Imports == \A c \in components : IsImported(c)

IInv ==
    /\ TypeOK /\ Input /\ Imports /\ Bindings /\ Stages /\ CratesAreBound /\ Answers
    /\ EdgesAreBacked /\ EdgesHaveCauses
    /\ result = "Ok"

LEMMA InitEstablishes == Init => IInv
<1> SUFFICES ASSUME Init PROVE IInv
    OBVIOUS
<1>1. /\ packages = {} /\ components = {} /\ edges = <<>> /\ diagnostics = <<>> /\ result = "Ok"
      /\ DOMAIN edges = {}
    BY DEF Init, Builder!Init
<1>2. Input
  <2>1. selected \subseteq Target
      BY DEF Init, Selections
  <2>2. loaded \subseteq HirCrate
      BY LoadsAreCrates DEF Init
  <2> QED
      BY <2>1, <2>2 DEF Init, Owners, Input
<1>3. TypeOK
    BY <1>1 DEF Init, TypeOK
<1>4. Bindings
    BY DEF Init, Bindings
<1>5. Stages
    BY <1>1 DEF Init, Stages
<1>6. Answers
    BY DEF Init, Answers, BeforeEdges
<1>7. Imports /\ EdgesAreBacked /\ EdgesHaveCauses
    BY <1>1 DEF Imports, EdgesAreBacked, EdgesHaveCauses
<1>8. CratesAreBound
    BY DEF Init, CratesAreBound, AfterBind
<1> QED
    BY <1>8, <1>1, <1>2, <1>3, <1>4, <1>5, <1>6, <1>7 DEF IInv

-----------------------------------------------------------------------------
(* What calls leave as it is *)

Stage ==
    {"packages", "crates", "load", "bind", "skipped", "declared", "actual", "done", "failed"}

LEMMA RegisteredStays ==
    ASSUME Accepted, NEW id, Registered(id)
    PROVE  Registered(id)'
BY DEF Accepted, Registered

LEMMA ImportedStays ==
    ASSUME Imports, NEW c, components' = components \cup {c}, IsImported(c)
    PROVE  Imports'
BY DEF Imports, IsImported, CrateComponent, ModuleComponent, External

\* A step that binds nothing leaves the bindings and every answer.
LEMMA BoundStays ==
    ASSUME IInv, Accepted, UNCHANGED <<given, bound>>
    PROVE  /\ Input' /\ Bindings'
           /\ pc' \in Stage /\ packages' \subseteq Member /\ Imports'
                 /\ diagnostics' \in Seq(Diagnostics) => TypeOK'
           /\ \A t : IsLoadedOrTold(t) => IsLoadedOrTold(t)'
           /\ \A t, r : IsDeclared(t, r) => IsDeclared(t, r)'
           /\ \A t, x : IsRecorded(t, x) => IsRecorded(t, x)'
           /\ \A key, e : HasCause(key, e) => HasCause(key, e)'
           /\ UNCHANGED edges => EdgesAreBacked' /\ EdgesHaveCauses'
           /\ DeclaredWork' = DeclaredWork /\ ActualWork' = ActualWork
<1>1. /\ selected' = selected /\ loaded' = loaded /\ owner' = owner
      /\ dependencyTarget' = dependencyTarget /\ crateOf' = crateOf
      /\ moduleOf' = moduleOf /\ files' = files
    BY DEF given, bound
<1>2. Input'
    BY <1>1 DEF IInv, Input
<1>3. Bindings'
    BY <1>1, RegisteredStays DEF IInv, Bindings
<1>4. \A t : Loaded(t)' <=> Loaded(t)
    BY <1>1 DEF Loaded
<1>5. ASSUME pc' \in Stage, packages' \subseteq Member, Imports',
             diagnostics' \in Seq(Diagnostics)
      PROVE  TypeOK'
  <2>1. components' \subseteq Builder!Component
      BY <1>5, ImportedAreComponents DEF Imports
  <2> QED
      BY <1>1, <1>4, <1>5, <2>1 DEF IInv, TypeOK, Stage
<1>6. \A x : Resolution(x)' = Resolution(x)
    BY <1>1 DEF Resolution
<1>7. \A t, x : Origin(t, x)' = Origin(t, x)
    BY <1>1 DEF Origin
<1>8. \A t : IsLoadedOrTold(t) => IsLoadedOrTold(t)'
    BY <1>4 DEF IsLoadedOrTold, Accepted
<1>9. \A t, r : IsDeclared(t, r) => IsDeclared(t, r)'
  <2> TAKE t, r
  <2> DEFINE known == {c.id : c \in components}
  <2>1. ASSUME Evident("declared", {CrateIdOf(t)}, known, r.evidence)
        PROVE  Evident("declared", {CrateIdOf(t)}, known, r.evidence)'
    <3>1. known \subseteq known'
        BY DEF Accepted
    <3> HIDE DEF known
    <3> QED
        BY <2>1, <3>1 DEF Evident, Accepted
  <2>2. Told(<<"unmapped-declared-dependency", CrateIdOf(t), r>>)
           => Told(<<"unmapped-declared-dependency", CrateIdOf(t), r>>)'
      BY DEF Accepted
  <2> QED
      BY <2>1, <2>2 DEF IsDeclared
<1>10. \A t, x : IsRecorded(t, x) => IsRecorded(t, x)'
  <2> TAKE t, x
  <2> DEFINE O == {Origin(t, x)}
             T == {Resolution(x)}
  <2>1. ASSUME Evident("actual", O, T, x.evidence)
        PROVE  Evident("actual", O, T, x.evidence)'
    <3>1. O' = O /\ T' = T
        BY <1>6, <1>7
    <3> HIDE DEF O, T
    <3> QED
        BY <2>1, <3>1 DEF Evident, Accepted
  <2>2. Told(<<"unresolved", x>>) \/ Told(<<"unmapped", x>>)
           => (Told(<<"unresolved", x>>) \/ Told(<<"unmapped", x>>))'
      BY DEF Accepted
  <2> QED
      BY <1>6, <1>7, <2>1, <2>2 DEF IsRecorded
<1>0. \A key, e : HasCause(key, e) => HasCause(key, e)'
    BY <1>1, <1>6 DEF HasCause, IsDeclaredCause, IsActualCause
<1>11. ASSUME UNCHANGED edges
       PROVE  EdgesAreBacked' /\ EdgesHaveCauses'
  <2>1. EdgesAreBacked'
      BY <1>11 DEF IInv, EdgesAreBacked
  <2>2. EdgesHaveCauses'
      BY <1>0, <1>11 DEF IInv, EdgesHaveCauses
  <2> QED
      BY <2>1, <2>2
<1>12. DeclaredWork' = DeclaredWork /\ ActualWork' = ActualWork
    BY <1>1 DEF DeclaredWork, ActualWork
<1> QED
    BY <1>0, <1>2, <1>3, <1>5, <1>8, <1>9, <1>10, <1>11, <1>12

\* Crates stay bound, and all are when that stage is over.
LEMMA BoundStayBound ==
    ASSUME IInv, UNCHANGED <<given, bound>>,
           \/ pc' \notin {"bind"} \cup AfterBind
           \/ pc \in AfterBind
           \/ pc = "bind" /\ pc' # "bind" /\ todo = {},
           pc' = "bind" => pc = "bind"
    PROVE  CratesAreBound'
BY DEF IInv, CratesAreBound, AfterBind, given, bound

\* In a stage, what has been answered stays answered, and what is taken from
\* todo has got its answer.
LEMMA AnswersStay ==
    ASSUME IInv, Accepted, UNCHANGED <<given, bound>>, pc' = pc,
           \A t : pc = "skipped" /\ t \in todo \ todo' => IsLoadedOrTold(t)',
           \A t, r : pc = "declared" /\ <<t, r>> \in todo \ todo' => IsDeclared(t, r)',
           \A t, x : pc = "actual" /\ <<t, x>> \in todo \ todo' /\ x \in Reference
                       => IsRecorded(t, x)'
    PROVE  Answers'
<1>1. selected' = selected /\ files' = files
    BY DEF given, bound
<1>2. \A t \in selected :
         \/ pc \in {"packages", "crates", "load", "bind", "failed"}
         \/ pc = "skipped" /\ t \in todo'
         \/ IsLoadedOrTold(t)'
    BY BoundStays DEF IInv, Answers
<1>3. ASSUME NEW t \in selected, NEW r \in Requires, Concerns(r, t)
      PROVE  \/ pc \in BeforeEdges \cup {"failed"}
             \/ pc = "declared" /\ <<t, r>> \in todo'
             \/ IsDeclared(t, r)'
    BY <1>3, BoundStays DEF IInv, Answers
<1>4. ASSUME NEW t \in selected, NEW x \in Reference, x.file \in files[t]
      PROVE  \/ pc \in BeforeEdges \cup {"declared", "failed"}
             \/ pc = "actual" /\ <<t, x>> \in todo'
             \/ IsRecorded(t, x)'
    BY <1>4, BoundStays DEF IInv, Answers
<1> QED
    BY <1>1, <1>2, <1>3, <1>4 DEF Answers

-----------------------------------------------------------------------------
(* Packages and crates *)

LEMMA AddPackageKeeps ==
    ASSUME IInv, NEW p \in Member, AddPackage(p)
    PROVE  IInv'
<1>1. pc = "packages" /\ p \in todo /\ p \notin packages /\ todo' = todo \ {p}
    BY DEF AddPackage, IInv, Stages
<1>2. /\ packages' = packages \cup {p} /\ result' = "Ok"
      /\ UNCHANGED <<components, edges, diagnostics, graph, given, bound>>
    BY <1>1 DEF AddPackage, Builder!AddPackage
<1>3. pc' = "packages"
    BY <1>2 DEF AddPackage, Continue
<1>4. Accepted
    BY <1>2 DEF Accepted, Told
<1>5. Imports' /\ packages' \subseteq Member /\ diagnostics' \in Seq(Diagnostics)
    BY <1>2 DEF IInv, Imports, IsImported, CrateComponent, ModuleComponent, External, TypeOK
<1>6. Stages'
    BY <1>1, <1>2, <1>3 DEF IInv, Stages
<1>7. Answers'
    BY <1>3 DEF Answers, BeforeEdges
<1>8. CratesAreBound'
    BY <1>2, <1>3, <1>4, BoundStayBound DEF AfterBind
<1> QED
    BY <1>8, <1>2, <1>3, <1>4, <1>5, <1>6, <1>7, BoundStays DEF IInv, Stage

LEMMA AddCrateKeeps ==
    ASSUME IInv, NEW t \in Target, AddCrate(t)
    PROVE  IInv'
<1> DEFINE c == CrateComponent(t)
<1>1. /\ pc = "crates" /\ t \in todo /\ todo' = todo \ {t}
      /\ Builder!AddComponent(c) /\ Continue("crates")
      /\ UNCHANGED <<given, crateOf, moduleOf, files>>
    BY DEF AddCrate, CrateComponent
<1>2. c.id = CrateIdOf(t) /\ c.package = t.package
    BY DEF CrateComponent
<1>3. packages = Member /\ ~Registered(c.id) /\ edges = <<>>
    BY <1>1, <1>2 DEF IInv, Stages, BeforeEdges
<1>4. c.package \in packages /\ c.id \notin ModuleIds
    BY <1>2, <1>3, TargetsGiveIds, IdsDiffer
<1>5. /\ components' = components \cup {c} /\ Accepted
      /\ UNCHANGED <<packages, edges, diagnostics, graph>>
  <2> HIDE DEF c
  <2> QED
      BY <1>1, <1>3, <1>4, ComponentIsAdded
<1>6. pc' = "crates" /\ result' = "Ok"
    BY <1>1, <1>5 DEF Continue, Accepted
<1>7. Imports'
  <2>1. IsImported(c)
      BY DEF IsImported
  <2> HIDE DEF c
  <2> QED
      BY <1>5, <2>1, ImportedStays DEF IInv
<1>8. \A p \in Member :
         dependencyTarget'[p] = None
           \/ \E u \in Target : /\ u.package = p /\ u.kind \in {"library", "proc-macro"}
                                /\ dependencyTarget'[p] = CrateIdOf(u)
  <2> TAKE p \in Member
  <2>1. dependencyTarget' = dependencyTarget
           \/ /\ Rank(t.kind) > RankSoFar(t.package)
              /\ dependencyTarget' = [dependencyTarget EXCEPT ![t.package] = CrateIdOf(t)]
      BY DEF AddCrate
  <2>2. Rank(t.kind) > RankSoFar(t.package) => t.kind \in {"library", "proc-macro"}
      BY DEF Rank, RankSoFar
  <2>3. dependencyTarget'[p] = dependencyTarget[p]
           \/ /\ p = t.package /\ dependencyTarget'[p] = CrateIdOf(t)
              /\ t.kind \in {"library", "proc-macro"}
      BY <2>1, <2>2 DEF IInv, TypeOK
  <2> QED
      BY <2>3 DEF IInv, TypeOK
<1>9. TypeOK'
  <2>1. components' \subseteq Builder!Component
      BY <1>7, ImportedAreComponents DEF Imports
  <2>2. \A u \in Target : Loaded(u)' <=> Loaded(u)
      BY <1>1 DEF Loaded, given
  <2>3. dependencyTarget' \in [Member -> CrateIds \cup {None}]
    <3>1. dependencyTarget \in [Member -> CrateIds \cup {None}]
        BY DEF IInv, TypeOK
    <3> QED
        BY <3>1, TargetsGiveIds DEF AddCrate
  <2> QED
      BY <1>1, <1>5, <1>6, <1>8, <2>1, <2>2, <2>3 DEF IInv, TypeOK
<1>10. Input' /\ Bindings'
  <2>1. \A id : Registered(id) => Registered(id)'
      BY <1>5, RegisteredStays
  <2> QED
      BY <1>1, <2>1 DEF IInv, Input, Bindings, given
<1>11. Stages'
  <2>1. \A u \in Target : Registered(CrateIdOf(u))' <=> u \notin todo'
    <3> TAKE u \in Target
    <3>1. Registered(CrateIdOf(u))' <=> Registered(CrateIdOf(u)) \/ CrateIdOf(u) = CrateIdOf(t)
        BY <1>2, <1>5 DEF Registered
    <3> QED
        BY <1>1, <3>1, CrateIdsTell DEF IInv, Stages
  <2>2. todo' \subseteq Target
      BY <1>1 DEF IInv, Stages
  <2> QED
      BY <1>3, <1>5, <1>6, <2>1, <2>2 DEF Stages
<1>12. Answers'
    BY <1>6 DEF Answers, BeforeEdges
<1>13. EdgesAreBacked' /\ EdgesHaveCauses'
    BY <1>3, <1>5 DEF EdgesAreBacked, EdgesHaveCauses
<1>14. CratesAreBound'
    BY <1>6 DEF CratesAreBound, AfterBind
<1> QED
    BY <1>14, <1>6, <1>7, <1>9, <1>10, <1>11, <1>12, <1>13 DEF IInv

LEMMA LoadSessionKeeps ==
    ASSUME IInv, LoadSession
    PROVE  IInv'
<1>1. /\ pc = "load" /\ pc' = "bind" /\ todo' = loaded
      /\ UNCHANGED <<given, bound>>
    BY DEF LoadSession
<1>2. /\ UNCHANGED <<packages, components, edges, graph>>
      /\ Accepted /\ diagnostics' \in Seq(Diagnostics)
  <2>1. CASE NoCall
      BY <2>1, NothingIsAdded DEF NoCall, builder, IInv, TypeOK
  <2>2. CASE Builder!AddDiagnostic(<<"proc-macro-server-unavailable">>)
      BY <2>2, DiagnosticIsAdded DEF Diagnostics, IInv, TypeOK
  <2> QED
      BY <2>1, <2>2 DEF LoadSession
<1>3. Imports' /\ packages' \subseteq Member
    BY <1>2 DEF IInv, Imports, IsImported, CrateComponent, ModuleComponent, External, TypeOK
<1>4. Stages'
    BY <1>1, <1>2 DEF IInv, Stages, Registered, given, BeforeEdges
<1>5. Answers'
    BY <1>1 DEF Answers, BeforeEdges
<1>6. CratesAreBound'
    BY <1>1 DEF given, CratesAreBound, AfterBind
<1> QED
    BY <1>6, <1>1, <1>2, <1>3, <1>4, <1>5, BoundStays DEF IInv, Stage, Accepted

-----------------------------------------------------------------------------
(* bind_workspace_components *)

LEMMA EnsureRegisters ==
    ASSUME IInv, NEW id \in ExternalIds, Ensure(id)
    PROVE  /\ UNCHANGED <<packages, edges, diagnostics, graph>>
           /\ Accepted /\ Imports' /\ Registered(id)'
<1>1. CASE Registered(id)
  <2>1. UNCHANGED builder
      BY <1>1 DEF Ensure, NoCall
  <2> QED
      BY <1>1, <2>1, NothingIsAdded
         DEF NoCall, builder, IInv, Imports, IsImported, CrateComponent, ModuleComponent,
             External, Registered
<1>2. CASE ~Registered(id)
  <2> DEFINE c == External(id)
  <2>1. Builder!AddComponent(c)
      BY <1>2 DEF Ensure
  <2>2. c.id = id /\ IsImported(c)
      BY DEF External, IsImported
  <2>3. c.id \notin ModuleIds
      BY <2>2, IdsDiffer
  <2> HIDE DEF c
  <2>4. /\ components' = components \cup {c} /\ Accepted
        /\ UNCHANGED <<packages, edges, diagnostics, graph>>
      BY <1>2, <2>1, <2>2, <2>3, ComponentIsAdded
  <2>5. Imports'
      BY <2>2, <2>4, ImportedStays DEF IInv
  <2> QED
      BY <2>2, <2>4, <2>5 DEF Registered
<1> QED
    BY <1>1, <1>2

LEMMA BindCrateKeeps ==
    ASSUME IInv, NEW k \in HirCrate, BindCrate(k)
    PROVE  IInv'
<1>1. /\ pc = "bind" /\ k \in todo
      /\ UNCHANGED <<given, dependencyTarget, moduleOf, files>>
    BY DEF BindCrate
<1>2. k \in loaded
    BY <1>1, HirCratesHaveRoots DEF IInv, Stages, IsReady
<1>3. /\ UNCHANGED <<packages, edges, diagnostics, graph>>
      /\ Accepted /\ Imports' /\ Registered(BoundTo(k))'
      /\ crateOf' = [crateOf EXCEPT ![k] = BoundTo(k)]
      /\ pc' = "bind"
      /\ todo' \subseteq (todo \ {k})
                         \cup {m \in HirModule : m.crate = k /\ SelectTarget(k) # None}
  <2>1. CASE SelectTarget(k) # None
    <3>1. /\ UNCHANGED builder /\ crateOf' = [crateOf EXCEPT ![k] = BoundTo(k)]
          /\ pc' = pc /\ todo' = (todo \ {k}) \cup ModulesOf(k)
        BY <2>1 DEF BindCrate, NoCall, BoundTo
    <3>2. Registered(BoundTo(k))
        BY <1>1, <2>1, SelectedTargets DEF BoundTo, IInv, Stages
    <3>3. Accepted /\ Imports' /\ Registered(BoundTo(k))'
        BY <3>1, <3>2, NothingIsAdded
           DEF NoCall, builder, IInv, Imports, IsImported, CrateComponent, ModuleComponent,
               External, Registered
    <3> QED
        BY <1>1, <2>1, <3>1, <3>3 DEF ModulesOf, builder
  <2>2. CASE ~(SelectTarget(k) # None)
    <3>1. /\ Ensure(ExternalOf(k)) /\ Continue("bind") /\ todo' = todo \ {k}
          /\ crateOf' = [crateOf EXCEPT ![k] = BoundTo(k)] /\ BoundTo(k) = ExternalOf(k)
        BY <2>2 DEF BindCrate, BoundTo
    <3>2. /\ UNCHANGED <<packages, edges, diagnostics, graph>>
          /\ Accepted /\ Imports' /\ Registered(BoundTo(k))'
        BY <3>1, BoundToIds, EnsureRegisters
    <3> QED
        BY <3>1, <3>2 DEF Continue, Accepted
  <2> QED
      BY <2>1, <2>2
<1>4. /\ crateOf' \in [HirCrate -> CrateIds \cup ExternalIds \cup {None}]
      /\ crateOf'[k] = BoundTo(k)
      /\ \A l \in HirCrate : l # k => crateOf'[l] = crateOf[l]
  <2>1. crateOf \in [HirCrate -> CrateIds \cup ExternalIds \cup {None}]
      BY DEF IInv, TypeOK
  <2> QED
      BY <1>3, <2>1, BoundToIds
<1>5. \A l \in HirCrate : crateOf[l] # None => crateOf'[l] = crateOf[l]
    BY <1>4 DEF IInv, Bindings
<1>6. Bindings'
  <2>1. \A id : Registered(id) => Registered(id)'
      BY <1>3, RegisteredStays
  <2>2. \A l \in HirCrate :
           crateOf'[l] # None => crateOf'[l] = BoundTo(l) /\ Registered(BoundTo(l))'
    <3> TAKE l \in HirCrate
    <3>1. CASE l = k
        BY <1>3, <1>4, <3>1
    <3>2. CASE l # k
        BY <1>4, <2>1, <3>2 DEF IInv, Bindings
    <3> QED
        BY <3>1, <3>2
  <2>3. \A m \in HirModule :
           moduleOf[m] # None =>
              /\ SelectTarget(m.crate) # None /\ crateOf'[m.crate] # None
              /\ moduleOf[m] = ModuleIdOf(SelectTarget(m.crate), m)
              /\ Registered(ModuleIdOf(SelectTarget(m.crate), m))'
      BY <1>5, <2>1, HirCratesHaveRoots DEF IInv, Bindings
  <2> QED
      BY <1>1, <2>2, <2>3 DEF IInv, Bindings, given
<1>7. TypeOK'
  <2>1. components' \subseteq Builder!Component
      BY <1>3, ImportedAreComponents DEF Imports
  <2>2. \A t \in Target : files[t] # {} => \E l \in loaded : crateOf'[l] = CrateIdOf(t)
    <3> SUFFICES ASSUME NEW t \in Target, files[t] # {}
                 PROVE  \E l \in loaded : crateOf'[l] = CrateIdOf(t)
        OBVIOUS
    <3>1. PICK l \in loaded : crateOf[l] = CrateIdOf(t)
        BY DEF IInv, TypeOK, Loaded
    <3>2. l \in HirCrate /\ crateOf[l] # None
        BY <3>1, TargetsGiveIds DEF IInv, Input
    <3> QED
        BY <1>5, <3>1, <3>2
  <2>3. \A m \in HirModule : moduleOf[m] # None => crateOf'[m.crate] \in CrateIds
      BY <1>5, HirCratesHaveRoots DEF IInv, TypeOK, Bindings
  <2> QED
      BY <1>1, <1>3, <1>4, <2>1, <2>2, <2>3 DEF IInv, TypeOK, Loaded, given
<1>8. Stages'
  <2>1. \A w \in todo' : w \in loaded \/ IsReady(w)'
    <3> TAKE w \in todo'
    <3>1. CASE w \in todo
        BY <1>1, <1>5, <3>1, HirCratesHaveRoots DEF IInv, Stages, IsReady, given
    <3>2. CASE w \in HirModule /\ w.crate = k /\ SelectTarget(k) # None
        BY <1>1, <1>2, <1>4, <3>2, BoundToIds DEF IsReady, given
    <3> QED
        BY <1>3, <3>1, <3>2
  <2>2. \A t \in Target : Registered(CrateIdOf(t))'
      BY <1>1, <1>3, RegisteredStays DEF IInv, Stages
  <2> QED
      BY <1>1, <1>3, <2>1, <2>2 DEF IInv, Stages, BeforeEdges, given
<1>9. Input' /\ Answers'
    BY <1>1, <1>3 DEF IInv, Input, Answers, BeforeEdges, given
<1>10. EdgesAreBacked' /\ EdgesHaveCauses'
  <2>1. edges = <<>>
      BY <1>1 DEF IInv, Stages, BeforeEdges
  <2> QED
      BY <1>3, <2>1 DEF EdgesAreBacked, EdgesHaveCauses
<1>11. CratesAreBound'
  <2>1. todo \ {k} \subseteq todo'
      BY DEF BindCrate
  <2>2. \A l \in loaded : l \in HirCrate /\ (l \in todo \/ crateOf[l] # None)
      BY <1>1 DEF IInv, Input, CratesAreBound
  <2>3. \A l \in loaded : l \in todo' \/ crateOf'[l] # None
      BY <1>4, <2>1, <2>2, BoundToIds
  <2> QED
      BY <1>1, <1>3, <2>3 DEF given, CratesAreBound, AfterBind
<1> QED
    BY <1>11, <1>3, <1>6, <1>7, <1>8, <1>9, <1>10 DEF IInv, Accepted

LEMMA BindModuleKeeps ==
    ASSUME IInv, NEW m \in HirModule, BindModule(m)
    PROVE  IInv'
<1> DEFINE t == SelectTarget(m.crate)
           id == ModuleIdOf(t, m)
           c == ModuleComponent(t, m)
<1>1. /\ pc = "bind" /\ m \in todo /\ todo' = todo \ {m}
      /\ IF Registered(id) THEN NoCall ELSE Builder!AddComponent(c)
      /\ Continue("bind")
      /\ moduleOf' = [moduleOf EXCEPT ![m] = id]
      /\ files' = [files EXCEPT ![t] = @ \cup {m.file}]
      /\ UNCHANGED <<given, dependencyTarget, crateOf>>
    BY DEF BindModule
<1>2. /\ m.crate \in loaded /\ m.crate \in HirCrate /\ m.file \in DOMAIN owner
      /\ t # None /\ t \in Target /\ crateOf[m.crate] # None
  <2>1. IsReady(m)
      BY <1>1, HirCratesHaveRoots DEF IInv, Stages, Input
  <2> QED
      BY <2>1, SelectedTargets, HirCratesHaveRoots DEF IsReady, IInv, Input
<1>3. /\ crateOf[m.crate] = CrateIdOf(t)
      /\ id \in ModuleIds /\ id # None /\ CrateIdOf(t) \in CrateIds
      /\ t.package \in Member
    BY <1>2, TargetsGiveIds DEF IInv, Bindings, BoundTo
<1>4. c.id = id /\ c.package = t.package /\ c.crate = CrateIdOf(t) /\ IsImported(c)
  <2>1. c.id = id /\ c.package = t.package /\ c.crate = CrateIdOf(t)
      BY DEF ModuleComponent
  <2>2. IsImported(c)
      BY <1>2 DEF IsImported
  <2> QED
      BY <2>1, <2>2
<1> HIDE DEF t, id, c
<1>5. packages = Member /\ Registered(CrateIdOf(t)) /\ edges = <<>>
    BY <1>1, <1>2 DEF IInv, Stages, BeforeEdges
<1>6. /\ UNCHANGED <<packages, edges, diagnostics, graph>>
      /\ Accepted /\ Imports' /\ Registered(id)'
  <2>1. CASE Registered(id)
      BY <1>1, <2>1, NothingIsAdded
         DEF NoCall, builder, IInv, Imports, IsImported, CrateComponent, ModuleComponent,
             External, Registered
  <2>2. CASE ~Registered(id)
    <3>1. /\ components' = components \cup {c} /\ Accepted
          /\ UNCHANGED <<packages, edges, diagnostics, graph>>
        BY <1>1, <1>3, <1>4, <1>5, <2>2, ComponentIsAdded
    <3>2. Imports'
        BY <1>4, <3>1, ImportedStays DEF IInv
    <3> QED
        BY <1>4, <3>1, <3>2 DEF Registered
  <2> QED
      BY <2>1, <2>2
<1>7. pc' = "bind"
    BY <1>1, <1>6 DEF Continue, Accepted
<1>8. /\ moduleOf' \in [HirModule -> ModuleIds \cup {None}] /\ moduleOf'[m] = id
      /\ \A n \in HirModule : n # m => moduleOf'[n] = moduleOf[n]
  <2>1. moduleOf \in [HirModule -> ModuleIds \cup {None}]
      BY DEF IInv, TypeOK
  <2> QED
      BY <1>1, <1>3, <2>1
<1>9. /\ files' \in [Target -> SUBSET DOMAIN owner]
      /\ \A u \in Target : u # t => files'[u] = files[u]
  <2>1. files \in [Target -> SUBSET DOMAIN owner]
      BY DEF IInv, Bindings
  <2> QED
      BY <1>1, <1>2, <2>1
<1>10. Bindings'
  <2>1. \A i : Registered(i) => Registered(i)'
      BY <1>6, RegisteredStays
  <2>2. \A k \in HirCrate :
           crateOf[k] # None => crateOf[k] = BoundTo(k) /\ Registered(BoundTo(k))'
      BY <2>1 DEF IInv, Bindings
  <2>3. ASSUME NEW n \in HirModule, moduleOf'[n] # None
        PROVE  /\ SelectTarget(n.crate) # None /\ crateOf[n.crate] # None
               /\ moduleOf'[n] = ModuleIdOf(SelectTarget(n.crate), n)
               /\ Registered(ModuleIdOf(SelectTarget(n.crate), n))'
    <3>1. CASE n = m
        BY <1>2, <1>6, <1>8, <3>1 DEF id, t
    <3>2. CASE n # m
        BY <1>8, <2>1, <2>3, <3>2 DEF IInv, Bindings
    <3> QED
        BY <3>1, <3>2
  <2> QED
      BY <1>1, <1>9, <2>2, <2>3 DEF IInv, Bindings, given
<1>11. TypeOK'
  <2>1. components' \subseteq Builder!Component
      BY <1>6, ImportedAreComponents DEF Imports
  <2>2. \A u \in Target : files'[u] # {} => \E l \in loaded : crateOf[l] = CrateIdOf(u)
      BY <1>2, <1>3, <1>9 DEF IInv, TypeOK, Loaded
  <2>3. \A n \in HirModule : moduleOf'[n] # None => crateOf[n.crate] \in CrateIds
      BY <1>3, <1>8 DEF IInv, TypeOK
  <2> QED
      BY <1>1, <1>6, <1>7, <1>8, <2>1, <2>2, <2>3 DEF IInv, TypeOK, Loaded, given
<1>12. Stages'
  <2>1. \A w \in todo' : w \in loaded \/ IsReady(w)'
      BY <1>1 DEF IInv, Stages, IsReady, given
  <2>2. \A u \in Target : Registered(CrateIdOf(u))'
      BY <1>1, <1>6, RegisteredStays DEF IInv, Stages
  <2> QED
      BY <1>1, <1>5, <1>6, <1>7, <2>1, <2>2 DEF Stages, BeforeEdges, given
<1>13. Input' /\ Answers'
    BY <1>1, <1>7 DEF IInv, Input, Answers, BeforeEdges, given
<1>14. EdgesAreBacked' /\ EdgesHaveCauses'
    BY <1>5, <1>6 DEF EdgesAreBacked, EdgesHaveCauses
<1>15. CratesAreBound'
  <2>1. todo \cap loaded \subseteq todo'
      BY <1>1, HirCratesHaveRoots DEF IInv, Input
  <2> QED
      BY <1>1, <1>7, <2>1 DEF given, IInv, CratesAreBound, AfterBind
<1> QED
    BY <1>15, <1>6, <1>10, <1>11, <1>12, <1>13, <1>14 DEF IInv, Accepted

-----------------------------------------------------------------------------
(* What was not loaded, and dependencies *)

LEMMA TurnIsNext ==
    ASSUME NEW w, todo # {}, Turn = w
    PROVE  w \in todo
BY DEF Turn

LEMMA ReportSkippedKeeps ==
    ASSUME IInv, NEW t \in Target, ReportSkipped(t)
    PROVE  IInv'
<1>1. /\ pc = "skipped" /\ pc' = pc /\ t \in todo /\ todo' = todo \ {t}
      /\ UNCHANGED <<given, bound>>
    BY TurnIsNext DEF ReportSkipped
<1>2. /\ UNCHANGED <<packages, components, edges, graph>>
      /\ Accepted /\ diagnostics' \in Seq(Diagnostics)
      /\ Loaded(t) \/ Told(<<"skipped-target", CrateIdOf(t)>>)'
  <2>1. CASE Loaded(t)
      BY <2>1, NothingIsAdded DEF ReportSkipped, NoCall, builder, IInv, TypeOK
  <2>2. CASE ~Loaded(t)
      BY <2>2, DiagnosticIsAdded DEF ReportSkipped, Diagnostics, IInv, TypeOK
  <2> QED
      BY <2>1, <2>2
<1>3. IsLoadedOrTold(t)'
    BY <1>1, <1>2 DEF IsLoadedOrTold, Loaded, given, bound
<1>4. Imports' /\ packages' \subseteq Member
    BY <1>2 DEF IInv, Imports, IsImported, CrateComponent, ModuleComponent, External, TypeOK
<1>5. Stages'
    BY <1>1, <1>2 DEF IInv, Stages, Registered, given, BeforeEdges
<1>6. Answers'
    BY <1>1, <1>2, <1>3, AnswersStay
<1>7. CratesAreBound'
    BY <1>1, <1>2, BoundStayBound DEF AfterBind
<1> QED
    BY <1>7, <1>1, <1>2, <1>4, <1>5, <1>6, BoundStays DEF IInv, Stage, Accepted

\* A call that adds a dependency with a cause.
LEMMA CausedEdgeKeeps ==
    ASSUME IInv, UNCHANGED <<given, bound>>,
           NEW o, NEW u, NEW s, NEW e \in AnyEvidence, Builder!AddDependency(o, u, s, e),
           Registered(o), Registered(u), HasCause(Builder!KeyOf(o, u, s), e)
    PROVE  /\ UNCHANGED <<packages, components, diagnostics, graph>>
           /\ Accepted /\ EdgesAreBacked' /\ EdgesHaveCauses'
           /\ \A O, T : o \in O /\ u \in T => Evident(s, O, T, e)'
<1>1. EdgesAreBacked
    BY DEF IInv
<1>2. /\ UNCHANGED <<packages, components, diagnostics, graph>>
      /\ Accepted /\ EdgesAreBacked'
      /\ \A k \in DOMAIN edges' : \A i \in DOMAIN edges'[k] :
            \/ k \in DOMAIN edges /\ \E j \in DOMAIN edges[k] : edges[k][j] = edges'[k][i]
            \/ k = Builder!KeyOf(o, u, s) /\ edges'[k][i] = e
      /\ \A O, T : o \in O /\ u \in T => Evident(s, O, T, e)'
    BY <1>1, DependencyIsAdded
<1>3. \A k, f : HasCause(k, f) => HasCause(k, f)'
    BY <1>2, BoundStays
<1>4. \A k \in DOMAIN edges' : \A i \in DOMAIN edges'[k] : HasCause(k, edges'[k][i])
    BY <1>2 DEF IInv, EdgesHaveCauses
<1>5. EdgesHaveCauses'
    BY <1>3, <1>4 DEF EdgesHaveCauses
<1> QED
    BY <1>2, <1>5

LEMMA DeclareKeeps ==
    ASSUME IInv, NEW t \in Target, NEW r \in Requires, Declare(t, r)
    PROVE  IInv'
<1>1. /\ pc = "declared" /\ <<t, r>> \in todo /\ todo # {}
      /\ Continue("declared") /\ UNCHANGED <<given, bound>>
    BY TurnIsNext DEF Declare
<1>2. t \in selected /\ Concerns(r, t)
    BY <1>1 DEF IInv, Stages, DeclaredWork
<1>3. r.evidence \in AnyEvidence /\ Registered(CrateIdOf(t)) /\ packages = Member
    BY <1>1 DEF AnyEvidence, IInv, Stages
<1>4. r.from = t.package /\ (r.kind = "build") = (t.kind = "build-script")
      /\ (r.kind = "dev" => t.kind \in {"test", "example", "bench"})
    BY <1>2 DEF Concerns
<1> DEFINE Kept ==
              /\ UNCHANGED packages /\ Accepted /\ Imports' /\ diagnostics' \in Seq(Diagnostics)
              /\ EdgesAreBacked' /\ EdgesHaveCauses' /\ todo' \subseteq todo
              /\ \A u, q : <<u, q>> \in todo \ todo' => IsDeclared(u, q)'
<1> HIDE DEF Kept
<1>5. ASSUME NEW id, Registered(id), todo' = todo \ {<<t, r>>},
             Builder!AddDependency(CrateIdOf(t), id, "declared", r.evidence),
             id = IF r.to \in Member THEN dependencyTarget[r.to] ELSE ExternalIdOf(r.to)
      PROVE  Kept
  <2> DEFINE key == Builder!KeyOf(CrateIdOf(t), id, "declared")
  <2>1. key.origin = CrateIdOf(t) /\ key.target = id /\ key.scope = "declared"
      BY DEF Builder!KeyOf
  <2> HIDE DEF key
  <2>2. HasCause(key, r.evidence)
      BY <1>2, <1>4, <1>5, <2>1 DEF HasCause, IsDeclaredCause
  <2>3. /\ UNCHANGED <<packages, components, diagnostics, graph>>
        /\ Accepted /\ EdgesAreBacked' /\ EdgesHaveCauses'
        /\ \A O, T : CrateIdOf(t) \in O /\ id \in T => Evident("declared", O, T, r.evidence)'
      BY <1>1, <1>3, <1>5, <2>2, CausedEdgeKeeps DEF key
  <2>4. IsDeclared(t, r)'
    <3> DEFINE known == {c.id : c \in components}
    <3>1. id \in known /\ known' = known
        BY <1>5, <2>3 DEF Registered
    <3>2. \A T : id \in T => Evident("declared", {CrateIdOf(t)}, T, r.evidence)'
        BY <2>3
    <3> HIDE DEF known
    <3>3. Evident("declared", {CrateIdOf(t)}, known, r.evidence)'
        BY <3>1, <3>2 DEF Evident
    <3> QED
        BY <3>3 DEF IsDeclared, known
  <2>5. Imports' /\ diagnostics' \in Seq(Diagnostics)
      BY <2>3 DEF IInv, Imports, IsImported, CrateComponent, ModuleComponent, External, TypeOK
  <2>6. \A u, q : <<u, q>> \in todo \ todo' => u = t /\ q = r
      BY <1>5
  <2> QED
      BY <1>5, <2>3, <2>4, <2>5, <2>6 DEF Kept
<1>6. ASSUME r.to \in Member, dependencyTarget[r.to] # None, todo' = todo \ {<<t, r>>},
             Builder!AddDependency(CrateIdOf(t), dependencyTarget[r.to], "declared", r.evidence)
      PROVE  Kept
  <2>1. Registered(dependencyTarget[r.to])
      BY <1>1, <1>6 DEF IInv, TypeOK, Stages
  <2> QED
      BY <1>5, <1>6, <2>1
<1>7. ASSUME Builder!AddDiagnostic(<<"unmapped-declared-dependency", CrateIdOf(t), r>>),
             todo' = todo \ {<<t, r>>}
      PROVE  Kept
  <2> DEFINE d == <<"unmapped-declared-dependency", CrateIdOf(t), r>>
  <2>1. d \in Diagnostics /\ diagnostics \in Seq(Diagnostics)
      BY DEF Diagnostics, IInv, TypeOK
  <2> HIDE DEF d
  <2>2. /\ UNCHANGED <<packages, components, edges, graph>>
        /\ Accepted /\ diagnostics' \in Seq(Diagnostics) /\ Told(d)'
      BY <1>7, <2>1, DiagnosticIsAdded DEF d
  <2>3. IsDeclared(t, r)'
      BY <2>2 DEF IsDeclared, d
  <2>4. Imports'
      BY <2>2 DEF IInv, Imports, IsImported, CrateComponent, ModuleComponent, External
  <2>5. \A u, q : <<u, q>> \in todo \ todo' => u = t /\ q = r
      BY <1>7
  <2> QED
      BY <1>1, <1>7, <2>2, <2>3, <2>4, <2>5, BoundStays DEF Kept
<1>8. ASSUME r.to \in Outside, ~Registered(ExternalIdOf(r.to)), todo' = todo,
             Builder!AddComponent(External(ExternalIdOf(r.to)))
      PROVE  Kept
  <2>1. ExternalIdOf(r.to) \in ExternalIds
      BY <1>8 DEF ExternalIds
  <2>2. Ensure(ExternalIdOf(r.to))
      BY <1>8 DEF Ensure
  <2>3. UNCHANGED <<packages, edges, diagnostics, graph>> /\ Accepted /\ Imports'
      BY <2>1, <2>2, EnsureRegisters
  <2>4. diagnostics' \in Seq(Diagnostics)
      BY <2>3 DEF IInv, TypeOK
  <2> QED
      BY <1>1, <1>8, <2>3, <2>4, BoundStays DEF Kept
<1>9. ASSUME r.to \in Outside, Registered(ExternalIdOf(r.to)), todo' = todo \ {<<t, r>>},
             Builder!AddDependency(CrateIdOf(t), ExternalIdOf(r.to), "declared", r.evidence)
      PROVE  Kept
    BY <1>5, <1>9, Packages
<1>10. Kept
    BY <1>6, <1>7, <1>8, <1>9 DEF Declare, AddRequired
<1>11. pc' = "declared"
    BY <1>1, <1>10 DEF Continue, Accepted, Kept
<1>12. Stages'
  <2>1. \A u \in Target : Registered(CrateIdOf(u))'
      BY <1>1, <1>10, RegisteredStays DEF IInv, Stages, Kept
  <2>2. todo' \subseteq DeclaredWork'
      BY <1>1, <1>10, BoundStays DEF IInv, Stages, Kept
  <2> QED
      BY <1>3, <1>10, <1>11, <2>1, <2>2 DEF Stages, Kept, BeforeEdges
<1>13. Answers'
    BY <1>1, <1>10, <1>11, AnswersStay DEF Kept
<1>14. CratesAreBound'
    BY <1>1, <1>10, <1>11, BoundStayBound DEF AfterBind
<1> QED
    BY <1>14, <1>1, <1>3, <1>10, <1>11, <1>12, <1>13, BoundStays DEF IInv, Stage, Accepted, Kept

\* Both ends of a reference are components.
LEMMA EndsAreRegistered ==
    ASSUME IInv, pc = "actual", NEW t \in selected, NEW x \in Reference, x.file \in files[t]
    PROVE  /\ Registered(Origin(t, x))
           /\ Resolution(x) # None => Registered(Resolution(x))
<1>1. t \in Target /\ x.file \in DOMAIN owner
    BY DEF IInv, Input, Bindings
<1>2. owner[x.file] \in HirModule /\ owner[x.file].crate \in HirCrate
    BY <1>1, HirCratesHaveRoots DEF IInv, Input
<1>3. Registered(CrateIdOf(t))
    BY <1>1 DEF IInv, Stages
<1>4. Registered(Origin(t, x))
    BY <1>2, <1>3 DEF Origin, IInv, Bindings
<1>5. x.as = "module" => x.to \in HirModule /\ x.to.crate \in HirCrate
    BY ReferencesResolve, HirCratesHaveRoots
<1>6. Resolution(x) # None => Registered(Resolution(x))
    BY <1>5 DEF Resolution, IInv, Bindings
<1> QED
    BY <1>4, <1>6

LEMMA AddActualKeeps ==
    ASSUME IInv, NEW t \in Target, NEW x \in Reference \cup {None}, AddActual(t, x)
    PROVE  IInv'
<1>1. /\ pc = "actual" /\ <<t, x>> \in todo /\ todo' = todo \ {<<t, x>>}
      /\ Continue("actual") /\ UNCHANGED <<given, bound>>
    BY TurnIsNext DEF AddActual
<1>2. t \in selected /\ (x # None => x \in Reference /\ x.file \in files[t])
    BY <1>1 DEF IInv, Stages, ActualWork
<1> DEFINE Kept ==
              /\ UNCHANGED packages /\ Accepted /\ Imports' /\ diagnostics' \in Seq(Diagnostics)
              /\ EdgesAreBacked' /\ EdgesHaveCauses'
              /\ x \in Reference => IsRecorded(t, x)'
<1>3. \A y : Resolution(y)' = Resolution(y) /\ Origin(t, y)' = Origin(t, y)
    BY <1>1 DEF Resolution, Origin, given, bound
<1>4. ASSUME NEW d \in Diagnostics, Builder!AddDiagnostic(d),
             x \in Reference => d \in {<<"unresolved", x>>, <<"unmapped", x>>}
      PROVE  Kept
  <2>1. diagnostics \in Seq(Diagnostics)
      BY DEF IInv, TypeOK
  <2>2. /\ UNCHANGED <<packages, components, edges, graph>>
        /\ Accepted /\ diagnostics' \in Seq(Diagnostics) /\ Told(d)'
      BY <1>4, <2>1, DiagnosticIsAdded
  <2>3. x \in Reference => IsRecorded(t, x)'
      BY <1>4, <2>2 DEF IsRecorded
  <2>4. Imports'
      BY <2>2 DEF IInv, Imports, IsImported, CrateComponent, ModuleComponent, External
  <2> QED
      BY <1>1, <2>2, <2>3, <2>4, BoundStays
<1>5. ASSUME x \in Reference, Objection(x) = None, Resolution(x) \in {None, Origin(t, x)}, NoCall
      PROVE  Kept
  <2>1. x.as = "benign" \/ Resolution(x) = Origin(t, x)
      BY <1>5, ReferencesResolve, NoneIsNothingElse DEF Objection, Diagnostics
  <2>2. IsRecorded(t, x)'
      BY <1>3, <2>1 DEF IsRecorded
  <2>3. UNCHANGED builder /\ Accepted
      BY <1>5, NothingIsAdded DEF NoCall, IInv
  <2>4. Imports' /\ diagnostics' \in Seq(Diagnostics)
      BY <2>3 DEF builder, IInv, Imports, IsImported, CrateComponent, ModuleComponent,
                  External, TypeOK
  <2> QED
      BY <1>1, <2>2, <2>3, <2>4, BoundStays DEF builder
<1>6. ASSUME NEW o, o = Origin(t, x), NEW u, u = Resolution(x), u \notin {None, o},
             x \in Reference, Builder!AddDependency(o, u, "actual", x.evidence)
      PROVE  Kept
  <2> DEFINE key == Builder!KeyOf(o, u, "actual")
  <2>1. key.origin = o /\ key.target = u /\ key.scope = "actual"
      BY DEF Builder!KeyOf
  <2> HIDE DEF key
  <2>2. x.file \in files[t]
      BY <1>2, <1>6, NoneIsNothingElse
  <2>3. HasCause(key, x.evidence)
    <3> DEFINE m == owner[x.file]
    <3>1. m \in HirModule /\ m.file = x.file /\ crateOf[m.crate] # None
        BY <1>1, <1>2, <2>2 DEF IInv, Input, Bindings, CratesAreBound, AfterBind
    <3>2. o = IF moduleOf[m] # None THEN moduleOf[m] ELSE crateOf[m.crate]
        BY <1>6, <3>1 DEF Origin
    <3> HIDE DEF m
    <3>3. IsActualCause(t, x, key, x.evidence)
        BY <1>6, <2>1, <2>2, <3>1, <3>2 DEF IsActualCause
    <3> QED
        BY <1>2, <1>6, <2>1, <2>2, <3>3, NoneIsNothingElse DEF HasCause
  <2>4. Registered(o) /\ Registered(u) /\ x.evidence \in AnyEvidence
      BY <1>1, <1>2, <1>6, <2>2, EndsAreRegistered DEF AnyEvidence
  <2>5. /\ UNCHANGED <<packages, components, diagnostics, graph>>
        /\ Accepted /\ EdgesAreBacked' /\ EdgesHaveCauses'
        /\ \A O, T : o \in O /\ u \in T => Evident("actual", O, T, x.evidence)'
      BY <1>1, <1>6, <2>3, <2>4, CausedEdgeKeeps DEF key
  <2>6. IsRecorded(t, x)'
    <3> DEFINE O == {Origin(t, x)}
               T == {Resolution(x)}
    <3>1. O' = O /\ T' = T /\ o \in O /\ u \in T
        BY <1>3, <1>6
    <3>2. \A A, B : o \in A /\ u \in B => Evident("actual", A, B, x.evidence)'
        BY <2>5
    <3> HIDE DEF O, T
    <3>3. Evident("actual", O, T, x.evidence)'
        BY <3>1, <3>2 DEF Evident
    <3> QED
        BY <3>3 DEF IsRecorded, O, T
  <2>7. Imports' /\ diagnostics' \in Seq(Diagnostics)
      BY <2>5 DEF IInv, Imports, IsImported, CrateComponent, ModuleComponent, External, TypeOK
  <2> QED
      BY <2>5, <2>6, <2>7
<1> HIDE DEF Kept
<1>7. Kept
  <2>1. ASSUME x = None PROVE Kept
    <3>1. <<"skipped-target", CrateIdOf(t)>> \in Diagnostics
        BY DEF Diagnostics
    <3> QED
        BY <1>4, <2>1, <3>1, NoneIsNothingElse DEF AddActual
  <2>2. ASSUME x # None, Objection(x) # None PROVE Kept
    <3>1. Objection(x) \in {<<"unresolved", x>>, <<"unmapped", x>>}
        BY <2>2 DEF Objection
    <3>2. Objection(x) \in Diagnostics
        BY <1>2, <2>2, <3>1 DEF Diagnostics
    <3>3. Builder!AddDiagnostic(Objection(x))
        BY <2>2 DEF AddActual, Record
    <3>4. PICK d \in Diagnostics :
             d \in {<<"unresolved", x>>, <<"unmapped", x>>} /\ d = Objection(x)
        BY <3>1, <3>2
    <3>5. Builder!AddDiagnostic(d)
        BY <3>3, <3>4 DEF Builder!AddDiagnostic
    <3> QED
        BY <1>4, <3>4, <3>5
  <2>3. ASSUME x # None, Objection(x) = None PROVE Kept
    <3>1. CASE Resolution(x) \in {None, Origin(t, x)}
        BY <1>2, <1>5, <2>3, <3>1 DEF AddActual, Record
    <3>2. CASE Resolution(x) \notin {None, Origin(t, x)}
      <4>1. Builder!AddDependency(Origin(t, x), Resolution(x), "actual", x.evidence)
          BY <2>3, <3>2 DEF AddActual, Record
      <4>2. PICK o, u : o = Origin(t, x) /\ u = Resolution(x)
          OBVIOUS
      <4>3. Builder!AddDependency(o, u, "actual", x.evidence)
          BY <4>1, <4>2 DEF Builder!AddDependency, Builder!KnownIds, Builder!Fail,
                            Builder!KeyOf, Builder!WithEvidence
      <4> QED
          BY <1>2, <1>6, <2>3, <3>2, <4>2, <4>3
    <3> QED
        BY <3>1, <3>2
  <2> QED
      BY <2>1, <2>2, <2>3
<1>8. pc' = "actual"
    BY <1>1, <1>7 DEF Continue, Accepted, Kept
<1>9. Stages'
  <2>1. \A u \in Target : Registered(CrateIdOf(u))'
      BY <1>1, <1>7, RegisteredStays DEF IInv, Stages, Kept
  <2>2. todo' \subseteq ActualWork'
      BY <1>1, <1>7, BoundStays DEF IInv, Stages, Kept
  <2>3. packages' = Member
      BY <1>1, <1>7 DEF IInv, Stages, Kept
  <2> QED
      BY <1>8, <2>1, <2>2, <2>3 DEF Stages, BeforeEdges
<1>10. Answers'
  <2>1. \A u, y : <<u, y>> \in todo \ todo' => u = t /\ y = x
      BY <1>1
  <2> QED
      BY <1>1, <1>7, <1>8, <2>1, AnswersStay DEF Kept
<1>11. packages' \subseteq Member
    BY <1>7 DEF IInv, TypeOK, Kept
<1>12. CratesAreBound'
    BY <1>1, <1>7, <1>8, BoundStayBound DEF AfterBind
<1> QED
    BY <1>12, <1>1, <1>7, <1>8, <1>9, <1>10, <1>11, BoundStays DEF IInv, Stage, Accepted, Kept

-----------------------------------------------------------------------------
(* The order of the stages *)

LEMMA NextStageKeeps ==
    ASSUME IInv, NextStage
    PROVE  IInv'
<1>1. todo = {} /\ UNCHANGED <<given, bound, builder>>
    BY DEF NextStage
<1>2. /\ UNCHANGED <<packages, components, edges, diagnostics, graph, result>>
      /\ UNCHANGED <<given, bound>> /\ Accepted
    BY <1>1, NothingIsAdded DEF builder, NoCall, IInv
<1>3. Imports' /\ packages' \subseteq Member /\ diagnostics' \in Seq(Diagnostics)
    BY <1>2 DEF IInv, Imports, IsImported, CrateComponent, ModuleComponent, External, TypeOK
<1>4. /\ \A id : Registered(id)' <=> Registered(id)
      /\ selected' = selected /\ DeclaredWork' = DeclaredWork /\ ActualWork' = ActualWork
    BY <1>2, BoundStays DEF Registered, given
<1>5. selected \subseteq Target /\ loaded \subseteq HirCrate
    BY DEF IInv, Input
<1>6. /\ \A t : IsLoadedOrTold(t) => IsLoadedOrTold(t)'
      /\ \A t, r : IsDeclared(t, r) => IsDeclared(t, r)'
      /\ \A t, x : IsRecorded(t, x) => IsRecorded(t, x)'
      /\ files' = files
    BY <1>2, BoundStays DEF bound
<1>7. CASE pc = "packages" /\ pc' = "crates" /\ todo' = Target
  <2>1. packages' = Member /\ components' = {} /\ edges' = <<>>
      BY <1>1, <1>2, <1>7 DEF IInv, Stages, BeforeEdges
  <2>2. \A t \in Target : Registered(CrateIdOf(t))' <=> t \notin todo'
      BY <1>7, <2>1 DEF Registered
  <2>3. Stages'
      BY <1>7, <2>1, <2>2 DEF Stages, BeforeEdges
  <2>4. Answers'
      BY <1>7 DEF Answers, BeforeEdges
  <2>6. CratesAreBound'
      BY <1>1, <1>2, <1>7, BoundStayBound DEF AfterBind
  <2> QED
      BY <2>6, <1>2, <1>3, <1>7, <2>3, <2>4, BoundStays DEF IInv, Stage
<1>8. CASE pc = "crates" /\ pc' = "load" /\ todo' = {}
  <2>1. \A t \in Target : Registered(CrateIdOf(t))'
      BY <1>1, <1>4, <1>8 DEF IInv, Stages
  <2>2. Stages'
      BY <1>2, <1>8, <2>1 DEF IInv, Stages, BeforeEdges
  <2>3. Answers'
      BY <1>8 DEF Answers, BeforeEdges
  <2>6. CratesAreBound'
      BY <1>1, <1>2, <1>8, BoundStayBound DEF AfterBind
  <2> QED
      BY <2>6, <1>2, <1>3, <1>8, <2>2, <2>3, BoundStays DEF IInv, Stage
<1>9. CASE pc = "bind" /\ pc' = "skipped" /\ todo' = selected
  <2>1. Stages'
      BY <1>2, <1>4, <1>9 DEF IInv, Stages, BeforeEdges
  <2>2. Answers'
      BY <1>4, <1>9 DEF Answers, BeforeEdges
  <2>6. CratesAreBound'
      BY <1>1, <1>2, <1>9, BoundStayBound DEF AfterBind
  <2> QED
      BY <2>6, <1>2, <1>3, <1>9, <2>1, <2>2, BoundStays DEF IInv, Stage
<1>10. CASE pc = "skipped" /\ pc' = "declared" /\ todo' = DeclaredWork
  <2>1. Stages'
      BY <1>2, <1>4, <1>10 DEF IInv, Stages, BeforeEdges
  <2>2. \A t \in selected : IsLoadedOrTold(t)'
      BY <1>1, <1>6, <1>10 DEF IInv, Answers
  <2>3. \A t \in selected, r \in Requires : Concerns(r, t) => <<t, r>> \in todo'
      BY <1>10 DEF DeclaredWork
  <2>4. Answers'
      BY <1>4, <1>10, <2>2, <2>3 DEF Answers, BeforeEdges
  <2>6. CratesAreBound'
      BY <1>1, <1>2, <1>10, BoundStayBound DEF AfterBind
  <2> QED
      BY <2>6, <1>2, <1>3, <1>10, <2>1, <2>4, BoundStays DEF IInv, Stage
<1>11. CASE pc = "declared" /\ pc' = "actual" /\ todo' = ActualWork
  <2>1. Stages'
      BY <1>2, <1>4, <1>11 DEF IInv, Stages, BeforeEdges
  <2>2. \A t \in selected : IsLoadedOrTold(t)'
      BY <1>6, <1>11 DEF IInv, Answers
  <2>3. \A t \in selected, r \in Requires : Concerns(r, t) => IsDeclared(t, r)'
      BY <1>1, <1>6, <1>11 DEF IInv, Answers, BeforeEdges
  <2>4. \A t \in selected, x \in Reference : x.file \in files[t] => <<t, x>> \in todo'
      BY <1>11 DEF ActualWork
  <2>5. Answers'
      BY <1>4, <1>6, <1>11, <2>2, <2>3, <2>4 DEF Answers
  <2>6. CratesAreBound'
      BY <1>1, <1>2, <1>11, BoundStayBound DEF AfterBind
  <2> QED
      BY <2>6, <1>2, <1>3, <1>11, <2>1, <2>5, BoundStays DEF IInv, Stage
<1> QED
    BY <1>7, <1>8, <1>9, <1>10, <1>11 DEF NextStage

LEMMA FinishKeeps ==
    ASSUME IInv, Finish
    PROVE  IInv'
<1>1. /\ pc = "actual" /\ pc' = "done" /\ todo = {} /\ todo' = {}
      /\ UNCHANGED <<given, bound>>
    BY DEF Finish
<1>2. UNCHANGED <<packages, components, edges, diagnostics>> /\ result' = "Ok"
    BY DEF Finish, Builder!Finish
<1>3. Accepted
    BY <1>2 DEF Accepted, Told
<1>4. Imports' /\ packages' \subseteq Member /\ diagnostics' \in Seq(Diagnostics)
    BY <1>2 DEF IInv, Imports, IsImported, CrateComponent, ModuleComponent, External, TypeOK
<1>5. Stages'
    BY <1>1, <1>2 DEF IInv, Stages, Registered, BeforeEdges
<1>6. Answers'
  <2>1. selected' = selected /\ files' = files
      BY <1>1 DEF given, bound
  <2>2. /\ \A t \in selected : IsLoadedOrTold(t)'
        /\ \A t \in selected, r \in Requires : Concerns(r, t) => IsDeclared(t, r)'
        /\ \A t \in selected, x \in Reference : x.file \in files[t] => IsRecorded(t, x)'
      BY <1>1, <1>3, BoundStays DEF IInv, Answers, BeforeEdges
  <2> QED
      BY <2>1, <2>2 DEF Answers
<1>7. CratesAreBound'
    BY <1>1, <1>3, BoundStayBound DEF AfterBind
<1> QED
    BY <1>7, <1>1, <1>2, <1>3, <1>4, <1>5, <1>6, BoundStays DEF IInv, Stage

LEMMA AbortKeeps ==
    ASSUME IInv, Abort
    PROVE  IInv'
<1>1. pc' = "failed" /\ UNCHANGED <<given, todo, bound, builder>>
    BY DEF Abort
<1>2. /\ UNCHANGED <<packages, components, edges, diagnostics, graph, result>>
      /\ UNCHANGED <<given, bound>> /\ Accepted
    BY <1>1, NothingIsAdded DEF builder, NoCall, IInv
<1>3. Imports' /\ packages' \subseteq Member /\ diagnostics' \in Seq(Diagnostics)
    BY <1>2 DEF IInv, Imports, IsImported, CrateComponent, ModuleComponent, External, TypeOK
<1>4. Stages'
    BY <1>1 DEF Stages, BeforeEdges
<1>5. Answers'
    BY <1>1 DEF Answers
<1>6. CratesAreBound'
    BY <1>1, <1>2, BoundStayBound DEF AfterBind
<1> QED
    BY <1>6, <1>1, <1>2, <1>3, <1>4, <1>5, BoundStays DEF IInv, Stage

LEMMA StutterKeeps ==
    ASSUME IInv, UNCHANGED vars
    PROVE  IInv'
<1>1. /\ UNCHANGED <<given, bound, builder, pc, todo>>
      /\ UNCHANGED <<packages, components, edges, diagnostics, graph, result>>
    BY DEF vars, builder
<1>2. UNCHANGED <<given, bound>> /\ Accepted
    BY <1>1, NothingIsAdded DEF NoCall, IInv
<1>3. Imports' /\ packages' \subseteq Member /\ diagnostics' \in Seq(Diagnostics)
    BY <1>1 DEF IInv, Imports, IsImported, CrateComponent, ModuleComponent, External, TypeOK
<1>4. Stages'
  <2>1. /\ \A id : Registered(id)' <=> Registered(id)
        /\ \A w : IsReady(w)' <=> IsReady(w)
        /\ selected' = selected /\ loaded' = loaded
        /\ DeclaredWork' = DeclaredWork /\ ActualWork' = ActualWork
      BY <1>1, <1>2, BoundStays DEF Registered, IsReady, given, bound
  <2> QED
      BY <1>1, <2>1 DEF IInv, Stages
<1>5. Answers'
    BY <1>1, <1>2, AnswersStay
<1>6. pc' \in Stage
    BY <1>1 DEF IInv, TypeOK, Stage
<1>7. CratesAreBound'
    BY <1>1 DEF IInv, given, bound, CratesAreBound, AfterBind
<1> QED
    BY <1>7, <1>1, <1>2, <1>3, <1>4, <1>5, <1>6, BoundStays DEF IInv

LEMMA NextKeeps == IInv /\ [Next]_vars => IInv'
<1> SUFFICES ASSUME IInv, [Next]_vars PROVE IInv'
    OBVIOUS
<1>1. CASE \E p \in Member : AddPackage(p)
    BY <1>1, AddPackageKeeps
<1>2. CASE \E t \in Target : AddCrate(t)
    BY <1>2, AddCrateKeeps
<1>3. CASE LoadSession
    BY <1>3, LoadSessionKeeps
<1>4. CASE \E k \in HirCrate : BindCrate(k)
    BY <1>4, BindCrateKeeps
<1>5. CASE \E m \in HirModule : BindModule(m)
    BY <1>5, BindModuleKeeps
<1>6. CASE \E t \in Target : ReportSkipped(t)
    BY <1>6, ReportSkippedKeeps
<1>7. CASE \E t \in Target, r \in Requires : Declare(t, r)
    BY <1>7, DeclareKeeps
<1>8. CASE \E t \in Target, x \in Reference \cup {None} : AddActual(t, x)
    BY <1>8, AddActualKeeps
<1>9. CASE NextStage
    BY <1>9, NextStageKeeps
<1>10. CASE Finish
    BY <1>10, FinishKeeps
<1>11. CASE Abort
    BY <1>11, AbortKeeps
<1>12. CASE UNCHANGED vars
    BY <1>12, StutterKeeps
<1> QED
    BY <1>1, <1>2, <1>3, <1>4, <1>5, <1>6, <1>7, <1>8, <1>9, <1>10, <1>11, <1>12 DEF Next

LEMMA Inductive == Spec => []IInv
BY InitEstablishes, NextKeeps, PTL DEF Spec

-----------------------------------------------------------------------------
(* Theorems *)

\* Types, among them that a package is depended upon through a library or
\* procedural macro of its own and that files are walked of bound targets.
THEOREM TypeCorrect == Spec => []TypeOK
<1>1. IInv => TypeOK
    BY DEF IInv
<1> QED
    BY <1>1, Inductive, PTL

\* The builder refuses no call of an import, in whatever order it comes to
\* targets, crates, modules and dependencies, and whatever was loaded.
THEOREM NothingIsRefused == Spec => []BuilderNeverRefuses
<1>1. IInv => BuilderNeverRefuses
    BY DEF IInv, BuilderNeverRefuses
<1> QED
    BY <1>1, Inductive, PTL

\* An import that ends well leaves nothing selected out without a diagnostic.
THEOREM NothingIsLeftOut == Spec => []FailsClosed
<1>1. ASSUME IInv, pc = "done", NEW t \in selected
      PROVE  /\ Loaded(t) \/ Told(<<"skipped-target", CrateIdOf(t)>>)
             /\ \A r \in Requires : Concerns(r, t) => IsDeclared(t, r)
             /\ \A x \in Reference : x.file \in files[t] => IsRecorded(t, x)
    BY <1>1 DEF IInv, Answers, BeforeEdges, IsLoadedOrTold
<1>2. IInv => FailsClosed
    BY <1>1 DEF FailsClosed, IsDeclared, IsRecorded
<1> QED
    BY <1>2, Inductive, PTL

\* Crates are bound to targets with their root file, to one of their name if
\* there is one, and modules to components of that crate and its package.
THEOREM BindingsAreRight == Spec => []BindingsAgree
<1>1. ASSUME IInv, NEW k \in HirCrate, NEW t \in Target, crateOf[k] # None,
             t.src = k.root, t.name = k.name
      PROVE  \E u \in Target : u.src = k.root /\ u.name = k.name /\ crateOf[k] = CrateIdOf(u)
  <2>1. crateOf[k] = BoundTo(k)
      BY <1>1 DEF IInv, Bindings
  <2> QED
      BY <1>1, <2>1, SelectedTargets DEF BoundTo
<1>2. ASSUME IInv, NEW k \in HirCrate, NEW t \in Target, crateOf[k] = CrateIdOf(t)
      PROVE  SelectTarget(k) = t /\ t.src = k.root
  <2>1. crateOf[k] = BoundTo(k) /\ CrateIdOf(t) \in CrateIds
      BY <1>2, TargetsGiveIds DEF IInv, Bindings
  <2>2. SelectTarget(k) # None
      BY <1>2, <2>1, BoundToIds, IdsDiffer DEF BoundTo
  <2> QED
      BY <1>2, <2>1, <2>2, SelectedTargets, CrateIdsTell DEF BoundTo
<1>3. ASSUME IInv, NEW k \in HirCrate, NEW t \in Target, crateOf[k] = CrateIdOf(t),
             NEW m \in ModulesOf(k), moduleOf[m] # None
      PROVE  [id |-> moduleOf[m], package |-> t.package, crate |-> CrateIdOf(t)] \in components
  <2>1. m \in HirModule /\ m.crate = k
      BY DEF ModulesOf
  <2>2. moduleOf[m] = ModuleIdOf(t, m) /\ Registered(moduleOf[m])
      BY <1>2, <1>3, <2>1 DEF IInv, Bindings
  <2>3. PICK c \in components : c.id = ModuleIdOf(t, m)
      BY <2>2 DEF Registered
  <2>4. c.id \in ModuleIds /\ IsImported(c)
      BY <1>3, <2>1, <2>3, TargetsGiveIds DEF IInv, Imports
  <2>5. PICK u \in Target, n \in HirModule : c = ModuleComponent(u, n)
    <3>1. \A u \in Target : c # CrateComponent(u)
        BY <2>4, TargetsGiveIds, IdsDiffer DEF CrateComponent
    <3>2. \A id \in ExternalIds : c # External(id)
        BY <2>4, IdsDiffer DEF External
    <3> QED
        BY <2>4, <3>1, <3>2 DEF IsImported
  <2>6. u = t
    <3>1. ModuleIdOf(u, n) = ModuleIdOf(t, m)
        BY <2>3, <2>5 DEF ModuleComponent
    <3> QED
        BY <2>1, <3>1, ModuleIdsTell
  <2>7. c = [id |-> ModuleIdOf(u, n), package |-> t.package, crate |-> CrateIdOf(t)]
      BY <2>5, <2>6 DEF ModuleComponent
  <2>8. c.id = ModuleIdOf(u, n)
      BY <2>7
  <2> QED
      BY <2>2, <2>3, <2>7, <2>8
<1>4. IInv => BindingsAgree
    BY <1>1, <1>2, <1>3 DEF BindingsAgree
<1> QED
    BY <1>4, Inductive, PTL

\* No edge of the graph is without a cause in a selected target.
THEOREM EdgesAreCaused == Spec => []EdgesHaveCauses
<1>1. IInv => EdgesHaveCauses
    BY DEF IInv
<1> QED
    BY <1>1, Inductive, PTL
=============================================================================

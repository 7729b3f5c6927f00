------------------------------- MODULE Analyzer -------------------------------
(***************************************************************************)
(* The import of a Cargo workspace into an architecture graph: Analyzer    *)
(* and RaSession::bind_workspace_components of                             *)
(* bylaw-analyzer/src/analyzer.rs, driving a GraphBuilder.                 *)
(*                                                                         *)
(* The stages follow each other: workspace packages, their crate targets,  *)
(* the rust-analyzer session, the binding of its crates and modules to     *)
(* components, a look for selected targets it did not load, declared       *)
(* dependencies, actual dependencies.  An action is one round of a stage's *)
(* loop.  The code sorts most of what it loops over; here the order of     *)
(* packages, targets, crates and modules is open, so what holds does not   *)
(* depend on it, and from then on it is some fixed one (Turn).             *)
(*                                                                         *)
(* External: cargo metadata (packages, targets, and the resolve graph: a   *)
(* member it has no node for is passed over, as one that requires nothing) *)
(* and rust-analyzer (crates and modules it loaded, what a reference in a  *)
(* file resolves to, and which module it takes a file to be, see owner).   *)
(* The references of a file are those that the walk of its syntax trees    *)
(* and macro expansions meets.                                             *)
(***************************************************************************)
EXTENDS Naturals, Sequences, FiniteSets

CONSTANTS
    Member, Outside, \* cargo packages: workspace members and the others
    Target,      \* targets of the members: [package, kind, name, src]
    PrimarySrc,  \* primary_dependency_target of an outside package: its src
    Requires,    \* resolve graph: [from, to, kind, evidence]
    HirCrate,    \* crates rust-analyzer may load: [name, root], and whatever
                 \* else tells two of them apart
    HirModule,   \* their modules: [crate, path, file]
    Reference,   \* [file, as, to, evidence]: what it resolves to, as
                 \* one of the forms below, and if it is a module which
    Loads,       \* sets of crates that rust-analyzer may come to load
    None,        \* Option::None
    MaxEvidence  \* bound on ranks of evidence

ASSUME Packages ==
    /\ Member \cap Outside = {}
    /\ IsFiniteSet(Target) /\ \A t \in Target : t.package \in Member
    /\ \A r \in Requires : r.from \in Member /\ r.to \in Member \cup Outside
    /\ PrimarySrc \in [Outside -> {PrimarySrc[p] : p \in Outside}]
\* Cargo: a package has one target of a kind and name, and one library at most.
ASSUME CargoTargets ==
    \A t, u \in Target :
        t.package = u.package /\ t.kind = u.kind
            /\ (t.name = u.name \/ t.kind \in {"library", "proc-macro"}) => t = u
ASSUME LoadsAreCrates == \A l \in Loads : l \subseteq HirCrate
ASSUME HirCratesHaveRoots ==
    /\ \A m \in HirModule : m.crate \in HirCrate
    /\ HirCrate \cap HirModule = {}
    /\ \A m, n \in HirModule : m.crate = n.crate /\ m.path = n.path => m = n

\* A reference is not resolved, or to what never is a dependency (local, type
\* parameter, builtin type, ...), to what has no component (or from text of
\* no module), or in a module.
ASSUME ReferencesResolve ==
    \A x \in Reference :
        \/ x.as \in {"unresolved", "benign", "unmappable"} /\ x.to = None
        \/ x.as = "module" /\ x.to \in HirModule

VARIABLES
    selected,    \* targets to analyze (those with origin_selected)
    loaded,      \* crates rust-analyzer did load
    owner,       \* file -> the module Semantics takes its text to belong to
    pc,          \* stage
    todo,        \* what the loop of the stage has not seen
    dependencyTarget, \* package -> crate that a dependency on it means
    crateOf,     \* ra_crate_component_ids
    moduleOf,    \* module_component_ids
    files,       \* crate_source_files
    packages, components, edges, diagnostics, graph, result \* GraphBuilder

given == <<selected, loaded, owner>>
bound == <<dependencyTarget, crateOf, moduleOf, files>>
builder == <<packages, components, edges, diagnostics, graph, result>>
vars == <<given, pc, todo, bound, builder>>

-----------------------------------------------------------------------------
(* Ids and what they are made of *)

\* stable_workspace_crate_id, stable_module_id, stable_external_crate_id and
\* the id of a toolchain crate.
CrateIdOf(t) == <<t.package, t.kind, t.name>>
ModuleIdOf(t, m) == <<t.package, t.kind, t.name, m.path>>
ExternalIdOf(p) == <<"external", p>>
ToolchainIdOf(k) == <<"toolchain", k.name>>

CrateIds == {CrateIdOf(t) : t \in Target}
ModuleIds == {ModuleIdOf(t, m) : t \in Target, m \in HirModule}
ExternalIds == {ExternalIdOf(p) : p \in Outside} \cup {ToolchainIdOf(k) : k \in HirCrate}

Diagnostics ==
    {<<"proc-macro-server-unavailable">>}
        \cup {<<"skipped-target", CrateIdOf(t)>> : t \in Target}
        \cup {<<"unmapped-declared-dependency", CrateIdOf(t), r>> : t \in Target, r \in Requires}
        \cup ({"unresolved", "unmapped"} \X Reference)

ASSUME NoneIsNothingElse ==
    None \notin CrateIds \cup ModuleIds \cup ExternalIds \cup Diagnostics
                 \cup Member \cup Target \cup HirModule \cup Reference

Builder == INSTANCE GraphBuilder WITH
    PackageId <- Member, CrateId <- CrateIds, ModuleId <- ModuleIds,
    ExternalCrateId <- ExternalIds, Evidence <- 1..MaxEvidence, Diagnostic <- Diagnostics,
    MaxEdges <- (Cardinality(Requires) + Cardinality(Reference)) * Cardinality(Target),
    MaxDiagnostics <- Cardinality(Diagnostics) * (1 + Cardinality(Target))

External(id) == [id |-> id, package |-> None, crate |-> None]
Registered(id) == \E c \in components : c.id = id

\* The graph is left alone.
NoCall == UNCHANGED builder

\* What the loop comes to next.
Turn == CHOOSE w \in todo : TRUE

\* A call to the builder; `?` ends the analysis when it is refused.
Continue(stage) == pc' = IF result' = "Ok" THEN stage ELSE "failed"

-----------------------------------------------------------------------------
(* Packages and crates *)

\* resolve_selected_packages and included_target_kinds: the targets of some
\* kinds of some members.
Selections ==
    {{t \in Target : t.package \in P /\ t.kind \in K} :
        P \in SUBSET Member \ {{}}, K \in SUBSET {t.kind : t \in Target} \ {{}}}

\* Semantics has one module for a file, though several may have been loaded
\* from it.
Owners(l) ==
    LET there == {m \in HirModule : m.crate \in l}
    IN  {o \in [{m.file : m \in there} -> there] : \A f \in DOMAIN o : o[f].file = f}

Init ==
    /\ selected \in Selections
    /\ loaded \in Loads
    /\ owner \in Owners(loaded)
    /\ pc = "packages"
    /\ todo = Member
    /\ dependencyTarget = [p \in Member |-> None]
    /\ crateOf = [k \in HirCrate |-> None]
    /\ moduleOf = [m \in HirModule |-> None]
    /\ files = [t \in Target |-> {}]
    /\ Builder!Init

AddPackage(p) ==
    /\ pc = "packages"
    /\ p \in todo
    /\ Builder!AddPackage(p)
    /\ Continue("packages")
    /\ todo' = todo \ {p}
    /\ UNCHANGED <<given, bound>>

\* Defect: any target will do when there is no library.
RankAny(kind) == IF kind = "library" THEN 2 ELSE 1

\* dependency_target_rank: what can be depended upon is a library or, failing
\* that, a procedural macro.
Rank(kind) == IF kind = "library" THEN 2 ELSE IF kind = "proc-macro" THEN 1 ELSE 0
RankSoFar(p) == IF dependencyTarget[p] = None THEN 0 ELSE Rank(dependencyTarget[p][2])

AddCrate(t) ==
    /\ pc = "crates"
    /\ t \in todo
    /\ Builder!AddComponent([id |-> CrateIdOf(t), package |-> t.package, crate |-> CrateIdOf(t)])
    /\ Continue("crates")
    /\ todo' = todo \ {t}
    /\ dependencyTarget' =
         IF Rank(t.kind) > RankSoFar(t.package)
         THEN [dependencyTarget EXCEPT ![t.package] = CrateIdOf(t)]
         ELSE dependencyTarget
    /\ UNCHANGED <<given, crateOf, moduleOf, files>>

\* RaSession::load, with or without the proc-macro server it wants.
LoadSession ==
    /\ pc = "load"
    /\ \/ NoCall
       \/ Builder!AddDiagnostic(<<"proc-macro-server-unavailable">>)
    /\ pc' = "bind"
    /\ todo' = loaded
    /\ UNCHANGED <<given, bound>>

-----------------------------------------------------------------------------
(* bind_workspace_components *)

Candidates(k) == {t \in Target : t.src = k.root}

\* Defect: a crate is looked up by its root file only.
SelectByRoot(k) ==
    IF Candidates(k) = {} THEN None
    ELSE CHOOSE t \in Candidates(k) : TRUE

\* select_workspace_target_for_ra_crate: by root file; among several targets
\* with one root file by name, and if that fails any of them (the first).
SelectTarget(k) ==
    LET named == {t \in Candidates(k) : t.name = k.name}
    IN  IF Candidates(k) = {} THEN None
        ELSE IF Cardinality(Candidates(k)) > 1 /\ named # {}
        THEN CHOOSE t \in named : TRUE
        ELSE CHOOSE t \in Candidates(k) : TRUE

\* The external component of a crate that is no target of the workspace: that
\* of the package with this root file, or one of the toolchain.
ExternalOf(k) ==
    IF \E p \in Outside : PrimarySrc[p] = k.root
    THEN ExternalIdOf(CHOOSE p \in Outside : PrimarySrc[p] = k.root)
    ELSE ToolchainIdOf(k)

\* Defect: ensure_external_component that does not look whether it is there.
EnsureAlways(id) == Builder!AddComponent(External(id))

\* ensure_external_component and ensure_toolchain_component.
Ensure(id) ==
    IF Registered(id) THEN NoCall ELSE Builder!AddComponent(External(id))

\* The modules of a crate come next in the loop.
ModulesOf(k) == {m \in HirModule : m.crate = k}

BindCrate(k) ==
    /\ pc = "bind"
    /\ k \in todo \cap HirCrate
    /\ todo \cap HirModule = {}
    /\ IF SelectTarget(k) # None
       THEN /\ NoCall
            /\ crateOf' = [crateOf EXCEPT ![k] = CrateIdOf(SelectTarget(k))]
            /\ todo' = (todo \ {k}) \cup ModulesOf(k)
            /\ UNCHANGED pc
       ELSE /\ Ensure(ExternalOf(k))
            /\ crateOf' = [crateOf EXCEPT ![k] = ExternalOf(k)]
            /\ todo' = todo \ {k}
            /\ Continue("bind")
    /\ UNCHANGED <<given, dependencyTarget, moduleOf, files>>

ModuleComponent(t, m) ==
    [id |-> ModuleIdOf(t, m), package |-> t.package, crate |-> CrateIdOf(t)]

\* Two crates bound to one target have the same module ids: added_module_ids.
BindModule(m) ==
    LET t == SelectTarget(m.crate)
    IN  /\ pc = "bind"
        /\ m \in todo
        /\ IF Registered(ModuleIdOf(t, m)) THEN NoCall
           ELSE Builder!AddComponent(ModuleComponent(t, m))
        /\ Continue("bind")
        /\ todo' = todo \ {m}
        /\ moduleOf' = [moduleOf EXCEPT ![m] = ModuleIdOf(t, m)]
        /\ files' = [files EXCEPT ![t] = @ \cup {m.file}]
        /\ UNCHANGED <<given, dependencyTarget, crateOf>>

Loaded(t) == \E k \in loaded : crateOf[k] = CrateIdOf(t)

\* A selected target that no crate was bound to.
ReportSkipped(t) ==
    /\ pc = "skipped"
    /\ todo # {} /\ Turn = t
    /\ IF Loaded(t) THEN NoCall
       ELSE Builder!AddDiagnostic(<<"skipped-target", CrateIdOf(t)>>)
    /\ todo' = todo \ {t}
    /\ UNCHANGED <<given, pc, bound>>

-----------------------------------------------------------------------------
(* Declared dependencies *)

\* Defect: every kind of dependency is one of every target.
ConcernsAll(r, t) == r.from = t.package

\* declared_edge_kind_for_target
Concerns(r, t) ==
    /\ r.from = t.package
    /\ r.kind \in IF t.kind = "build-script" THEN {"build"}
                  ELSE IF t.kind \in {"test", "example", "bench"} THEN {"normal", "dev"}
                  ELSE {"normal"}

\* component_for_declared_dependency: the package becomes a component in a step
\* before its edge.  A refusal of the builder would make the dependency one
\* that cannot be mapped (`.ok()`), not an error.
AddRequired(t, r) ==
    LET c == External(ExternalIdOf(r.to))
    IN  IF Builder!ComponentError(c) = "Ok"
        THEN Builder!AddComponent(c) /\ UNCHANGED todo
        ELSE /\ Builder!AddDiagnostic(<<"unmapped-declared-dependency", CrateIdOf(t), r>>)
             /\ todo' = todo \ {<<t, r>>}

DeclaredWork == {w \in selected \X Requires : Concerns(w[2], w[1])}

\* Defect: a dependency that cannot be mapped is passed over.
DeclareMapped(t, r) ==
    /\ pc = "declared"
    /\ todo # {} /\ Turn = <<t, r>>
    /\ \/ /\ r.to \in Member /\ dependencyTarget[r.to] # None
          /\ Builder!AddDependency(CrateIdOf(t), dependencyTarget[r.to], "declared", r.evidence)
          /\ todo' = todo \ {<<t, r>>}
       \/ /\ r.to \in Member /\ dependencyTarget[r.to] = None
          /\ NoCall
          /\ todo' = todo \ {<<t, r>>}
       \/ /\ r.to \in Outside /\ ~Registered(ExternalIdOf(r.to))
          /\ AddRequired(t, r)
       \/ /\ r.to \in Outside /\ Registered(ExternalIdOf(r.to))
          /\ Builder!AddDependency(CrateIdOf(t), ExternalIdOf(r.to), "declared", r.evidence)
          /\ todo' = todo \ {<<t, r>>}
    /\ Continue("declared")
    /\ UNCHANGED <<given, bound>>

\* One dependency of one selected target: on a member that can be depended
\* upon, on one that cannot, on an outside package seen for the first time,
\* and on one that is known.
Declare(t, r) ==
    /\ pc = "declared"
    /\ todo # {} /\ Turn = <<t, r>>
    /\ \/ /\ r.to \in Member /\ dependencyTarget[r.to] # None
          /\ Builder!AddDependency(CrateIdOf(t), dependencyTarget[r.to], "declared", r.evidence)
          /\ todo' = todo \ {<<t, r>>}
       \/ /\ r.to \in Member /\ dependencyTarget[r.to] = None
          /\ Builder!AddDiagnostic(<<"unmapped-declared-dependency", CrateIdOf(t), r>>)
          /\ todo' = todo \ {<<t, r>>}
       \/ /\ r.to \in Outside /\ ~Registered(ExternalIdOf(r.to))
          /\ AddRequired(t, r)
       \/ /\ r.to \in Outside /\ Registered(ExternalIdOf(r.to))
          /\ Builder!AddDependency(CrateIdOf(t), ExternalIdOf(r.to), "declared", r.evidence)
          /\ todo' = todo \ {<<t, r>>}
    /\ Continue("declared")
    /\ UNCHANGED <<given, bound>>

-----------------------------------------------------------------------------
(* Actual dependencies *)

\* The files of a selected target are walked and their references recorded; a
\* selected target without files is reported once more.
ActualWork ==
    {w \in selected \X Reference : w[2].file \in files[w[1]]}
        \cup {w \in selected \X {None} : files[w[1]] = {}}

\* origin_component_for_node: the text belongs to a module, whichever target
\* is being walked; its crate or that target stand in for an unbound module.
Origin(t, x) ==
    LET m == owner[x.file]
    IN  IF moduleOf[m] # None THEN moduleOf[m]
        ELSE IF crateOf[m.crate] # None THEN crateOf[m.crate]
        ELSE CrateIdOf(t)

\* What the reference resolves to: nothing of a crate that was not loaded.
Resolution(x) ==
    IF x.as # "module" THEN None
    ELSE IF moduleOf[x.to] # None THEN moduleOf[x.to]
    ELSE crateOf[x.to.crate]

\* The diagnostic of a reference, None if it gets none.
Objection(x) ==
    IF x.as = "unresolved" \/ (x.as = "module" /\ Resolution(x) = None) THEN <<"unresolved", x>>
    ELSE IF x.as = "unmappable" THEN <<"unmapped", x>>
    ELSE None

\* record_path_reference and record_macro_reference, which differ in what the
\* name may resolve to.
Record(t, x) ==
    IF Objection(x) # None THEN Builder!AddDiagnostic(Objection(x))
    ELSE IF Resolution(x) \in {None, Origin(t, x)} THEN NoCall
    ELSE Builder!AddDependency(Origin(t, x), Resolution(x), "actual", x.evidence)

AddActual(t, x) ==
    /\ pc = "actual"
    /\ todo # {} /\ Turn = <<t, x>>
    /\ IF x = None THEN Builder!AddDiagnostic(<<"skipped-target", CrateIdOf(t)>>)
       ELSE Record(t, x)
    /\ Continue("actual")
    /\ todo' = todo \ {<<t, x>>}
    /\ UNCHANGED <<given, bound>>

-----------------------------------------------------------------------------

\* A stage is over when its loop is.
NextStage ==
    /\ todo = {}
    /\ \/ pc = "packages" /\ pc' = "crates" /\ todo' = Target
       \/ pc = "crates" /\ pc' = "load" /\ todo' = {}
       \/ pc = "bind" /\ pc' = "skipped" /\ todo' = selected
       \/ pc = "skipped" /\ pc' = "declared" /\ todo' = DeclaredWork
       \/ pc = "declared" /\ pc' = "actual" /\ todo' = ActualWork
    /\ UNCHANGED <<given, bound, builder>>

Finish ==
    /\ pc = "actual"
    /\ todo = {}
    /\ Builder!Finish
    /\ pc' = "done"
    /\ UNCHANGED <<given, todo, bound>>

\* rust-analyzer or a file cannot be read: the error ends the analysis.
Abort ==
    /\ pc \in {"load", "bind", "actual"}
    /\ pc' = "failed"
    /\ UNCHANGED <<given, todo, bound, builder>>

Next ==
    \/ \E p \in Member : AddPackage(p)
    \/ \E t \in Target : AddCrate(t)
    \/ LoadSession
    \/ \E k \in HirCrate : BindCrate(k)
    \/ \E m \in HirModule : BindModule(m)
    \/ \E t \in Target : ReportSkipped(t)
    \/ \E t \in Target, r \in Requires : Declare(t, r)
    \/ \E t \in Target, x \in Reference \cup {None} : AddActual(t, x)
    \/ NextStage
    \/ Finish
    \/ Abort

Spec == Init /\ [][Next]_vars
-----------------------------------------------------------------------------
(* Properties *)

\* Types: a package is depended upon through a library or procedural macro of
\* its own, a module is bound after its crate, files are walked of targets
\* that were bound.
TypeOK ==
    /\ pc \in {"packages", "crates", "load", "bind", "skipped", "declared", "actual",
              "done", "failed"}
    /\ dependencyTarget \in [Member -> CrateIds \cup {None}]
    /\ \A p \in Member :
          dependencyTarget[p] = None
            \/ \E t \in Target : /\ t.package = p /\ t.kind \in {"library", "proc-macro"}
                                 /\ dependencyTarget[p] = CrateIdOf(t)
    /\ crateOf \in [HirCrate -> CrateIds \cup ExternalIds \cup {None}]
    /\ moduleOf \in [HirModule -> ModuleIds \cup {None}]
    /\ \A m \in HirModule : moduleOf[m] # None => crateOf[m.crate] \in CrateIds
    /\ \A t \in Target : files[t] # {} => Loaded(t)
    /\ packages \subseteq Member
    /\ components \subseteq Builder!Component
    /\ diagnostics \in Seq(Diagnostics)

\* The analysis meets targets, crates, modules and dependencies in an order
\* in which the builder, which refuses what is there already and what names
\* an unknown component, refuses none of its calls; add_*_component and
\* add_dependency would end the analysis with an error.
BuilderNeverRefuses == result = "Ok"

Told(d) == \E i \in DOMAIN diagnostics : diagnostics[i] = d
Evident(scope, origins, targets, e) ==
    \E k \in DOMAIN edges :
        /\ k.scope = scope /\ k.origin \in origins /\ k.target \in targets
        /\ \E i \in DOMAIN edges[k] : edges[k][i] = e

\* Fails closed: nothing selected is left out without a word.  When the
\* analysis is done, every selected target was loaded or is reported, every
\* dependency of its kind that the resolve graph has is an edge of the target
\* with its evidence or is reported, and so is every reference in a file of it
\* to another component than the one its text belongs to.
FailsClosed ==
    pc = "done" =>
        \A t \in selected :
            /\ Loaded(t) \/ Told(<<"skipped-target", CrateIdOf(t)>>)
            /\ \A r \in Requires :
                  Concerns(r, t) =>
                      \/ Evident("declared", {CrateIdOf(t)}, {c.id : c \in components}, r.evidence)
                      \/ Told(<<"unmapped-declared-dependency", CrateIdOf(t), r>>)
            /\ \A x \in Reference :
                  x.file \in files[t] =>
                      \/ x.as = "benign" \/ Resolution(x) = Origin(t, x)
                      \/ Evident("actual", {Origin(t, x)}, {Resolution(x)}, x.evidence)
                      \/ Told(<<"unresolved", x>>) \/ Told(<<"unmapped", x>>)

\* What the session binds agrees with Cargo: a crate rust-analyzer loaded is
\* bound to a target with its root file, and among targets that share the
\* file to one of its name if there is any; its modules are components of that crate, in
\* the package of that target (which the builder does not look at).
BindingsAgree ==
    \A k \in HirCrate, t \in Target :
        /\ crateOf[k] # None /\ t.src = k.root /\ t.name = k.name =>
              \E u \in Target :
                  u.src = k.root /\ u.name = k.name /\ crateOf[k] = CrateIdOf(u)
        /\ crateOf[k] = CrateIdOf(t) =>
              /\ t.src = k.root
              /\ \A m \in ModulesOf(k) :
                    moduleOf[m] # None =>
                        [id |-> moduleOf[m], package |-> t.package, crate |-> CrateIdOf(t)]
                            \in components

\* Why a target depends on what it does: its package requires it, in a way
\* that matters to the target (no development dependency is one of a library,
\* no build dependency one of anything but a build script), ...
IsDeclaredCause(t, r, key, e) ==
    /\ key.origin = CrateIdOf(t) /\ r.from = t.package /\ e = r.evidence
    /\ (r.kind = "build") = (t.kind = "build-script")
    /\ r.kind = "dev" => t.kind \in {"test", "example", "bench"}
    /\ key.target = IF r.to \in Member THEN dependencyTarget[r.to] ELSE ExternalIdOf(r.to)

\* ... or a file of the target has a reference to it, in the text of a module
\* that was loaded from that file.
IsActualCause(t, x, key, e) ==
    /\ x.file \in files[t] /\ e = x.evidence
    /\ key.target = Resolution(x) /\ key.origin # key.target
    /\ \E m \in HirModule :
          m.file = x.file
            /\ key.origin = IF moduleOf[m] # None THEN moduleOf[m] ELSE crateOf[m.crate]

HasCause(key, e) ==
    \/ /\ key.scope = "declared"
       /\ \E t \in selected, r \in Requires : IsDeclaredCause(t, r, key, e)
    \/ /\ key.scope = "actual"
       /\ \E t \in selected, x \in Reference : IsActualCause(t, x, key, e)

\* No edge without a cause in a selected target, whatever other targets of
\* its package, or of the same files, are for.
EdgesHaveCauses ==
    \A key \in DOMAIN edges : \A i \in DOMAIN edges[key] : HasCause(key, edges[key][i])
=============================================================================

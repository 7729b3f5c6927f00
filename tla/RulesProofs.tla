----------------------------- MODULE RulesProofs -----------------------------
(***************************************************************************)
(* Theorems about rules, for all components, definitions, files and edges. *)
(*                                                                         *)
(* First the fluent API (Rules): where modifiers go, what a layers rule    *)
(* reports, the verdict of a check.                                        *)
(*                                                                         *)
(* Then the configuration (Configuration): a selector matches, and a rule  *)
(* reports, what the file says when it is read as docs/configuration.md    *)
(* tells its author to.                                                    *)
(*                                                                         *)
(* Last the check command (CheckCommand).  Its stages trust each other:    *)
(* what Analyze starts from was looked at by Load, CompileSelectors and    *)
(* CompileRule, and the exit code is right because of what got past them.  *)
(***************************************************************************)
EXTENDS Rules, CheckCommand, FiniteSetTheorems, WellFoundedInduction, TLAPS

-----------------------------------------------------------------------------
(* The fluent API *)

\* The rule that last_builtin points at is the one the last defining call
\* pushed.
LastIsNewest ==
    lastBuiltin # 0 =>
        /\ lastBuiltin = Len(specs)
        /\ chain # <<>>
        /\ chain[Len(chain)] = "builtin"

\* Types of the chain, without its report.
ChainTyped ==
    /\ specs \in Seq(RuleSpec)
    /\ custom \in Seq(CustomRule)
    /\ lastBuiltin \in Nat
    /\ edges \subseteq Edges
    /\ chain \in Seq({"builtin", "custom"})

ChainInv == ChainTyped /\ LastIsNewest

-----------------------------------------------------------------------------

\* A modifier makes a spec of a spec: the field it sets is one of the kind's.
LEMMA ModifiedSpecs ==
    ASSUME NEW s \in RuleSpec
    PROVE  /\ \A v \in Severity : [s EXCEPT !["severity"] = v] \in RuleSpec
           /\ \A v \in Scopes : [s EXCEPT !["scopes"] = v] \in RuleSpec
           /\ s.kind = "only" =>
                /\ [s EXCEPT !["allowSelf"] = FALSE] \in RuleSpec
                /\ [s EXCEPT !["allowToolchain"] = FALSE] \in RuleSpec
<1>1. CASE s \in ForbidSpec
    BY <1>1 DEF RuleSpec, ForbidSpec
<1>2. CASE s \in OnlySpec
  <2>1. s.kind = "only"
      BY <1>2 DEF OnlySpec
  <2>2. /\ \A v \in Severity : [s EXCEPT !["severity"] = v] \in OnlySpec
        /\ \A v \in Scopes : [s EXCEPT !["scopes"] = v] \in OnlySpec
      BY <1>2 DEF OnlySpec
  <2>3. /\ [s EXCEPT !["allowSelf"] = FALSE] \in OnlySpec
        /\ [s EXCEPT !["allowToolchain"] = FALSE] \in OnlySpec
      BY <1>2 DEF OnlySpec
  <2> QED BY <2>1, <2>2, <2>3 DEF RuleSpec
<1>3. CASE s \in LayersSpec
    BY <1>3 DEF RuleSpec, LayersSpec
<1> QED BY <1>1, <1>2, <1>3 DEF RuleSpec

\* What the modifiers do to the chain.
LEMMA ModifyKeepsInvariant ==
    ASSUME ChainInv, NEW field, NEW value, Modify(field, value),
           [specs[lastBuiltin] EXCEPT ![field] = value] \in RuleSpec
    PROVE  ChainInv'
<1>1. lastBuiltin \in 1..Len(specs) /\ specs' = [specs EXCEPT ![lastBuiltin][field] = value]
    BY DEF Modify, ChainInv, ChainTyped, LastIsNewest
<1>2. specs' \in Seq(RuleSpec) /\ Len(specs') = Len(specs)
    BY <1>1 DEF ChainInv, ChainTyped
<1> QED
    BY <1>2 DEF Modify, ChainInv, ChainTyped, LastIsNewest

LEMMA LastSpecIsSpec ==
    ASSUME ChainInv, lastBuiltin # 0
    PROVE  specs[lastBuiltin] \in RuleSpec
BY DEF ChainInv, ChainTyped, LastIsNewest

\* The invariant of the chain is inductive.
THEOREM ChainInductive == Spec => []ChainInv
<1>1. Init => ChainInv
  <2> SUFFICES ASSUME Init PROVE ChainInv
      OBVIOUS
  <2>1. CASE specs = <<>>
      BY <2>1 DEF Init, ChainInv, ChainTyped, LastIsNewest
  <2>2. CASE \E d \in Definitions : specs = <<d>>
    <3>1. PICK d \in Definitions : specs = <<d>>
        BY <2>2
    <3>2. specs \in Seq(RuleSpec) /\ Len(specs) = 1 /\ specs # <<>>
        BY <3>1, DefinitionsAreSpecs DEF DefinitionsAreSpecs
    <3>3. chain = <<"builtin">>
        BY <3>2 DEF Init
    <3> QED BY <3>2, <3>3 DEF Init, ChainInv, ChainTyped, LastIsNewest
  <2> QED BY <2>1, <2>2 DEF Init
<1>2. ChainInv /\ [Next]_vars => ChainInv'
  <2> SUFFICES ASSUME ChainInv, [Next]_vars PROVE ChainInv'
      OBVIOUS
  <2>1. ASSUME NEW d \in Definitions, Define(d) PROVE ChainInv'
    <3>1. d \in RuleSpec
        BY DefinitionsAreSpecs DEF DefinitionsAreSpecs
    <3>2. ChainTyped'
        BY <2>1, <3>1 DEF Define, DropReport, ChainInv, ChainTyped
    <3>3. LastIsNewest'
      <4>1. Len(specs') = Len(specs) + 1
          BY <2>1, <3>1 DEF Define, ChainInv, ChainTyped
      <4>2. chain' # <<>> /\ chain'[Len(chain')] = "builtin"
          BY <2>1 DEF Define, ChainInv, ChainTyped
      <4> QED BY <2>1, <4>1, <4>2 DEF Define, LastIsNewest
    <3> QED BY <3>2, <3>3 DEF ChainInv
  <2>2. ASSUME NEW r \in CustomRule, WithCustom(r) PROVE ChainInv'
      BY <2>2 DEF WithCustom, DropReport, ChainInv, ChainTyped, LastIsNewest
  <2>3. ASSUME NEW s \in Severity, WithSeverity(s) PROVE ChainInv'
    <3>1. lastBuiltin # 0 /\ Modify("severity", s)
        BY <2>3 DEF WithSeverity, Modify
    <3> QED BY <3>1, LastSpecIsSpec, ModifiedSpecs, ModifyKeepsInvariant
  <2>4. ASSUME ActualDependencies PROVE ChainInv'
    <3>1. lastBuiltin # 0 /\ Modify("scopes", "actual")
        BY <2>4 DEF ActualDependencies, Modify
    <3>2. "actual" \in Scopes
        BY DEF Scopes
    <3> QED BY <3>1, <3>2, LastSpecIsSpec, ModifiedSpecs, ModifyKeepsInvariant
  <2>5. ASSUME DeclaredDependencies PROVE ChainInv'
    <3>1. lastBuiltin # 0 /\ Modify("scopes", "declared")
        BY <2>5 DEF DeclaredDependencies, Modify
    <3>2. "declared" \in Scopes
        BY DEF Scopes
    <3> QED BY <3>1, <3>2, LastSpecIsSpec, ModifiedSpecs, ModifyKeepsInvariant
  <2>6. ASSUME CheckSelfDependencies PROVE ChainInv'
    <3>1. /\ lastBuiltin # 0 /\ specs[lastBuiltin].kind = "only"
          /\ Modify("allowSelf", FALSE)
        BY <2>6 DEF CheckSelfDependencies, AllowList
    <3> QED BY <3>1, LastSpecIsSpec, ModifiedSpecs, ModifyKeepsInvariant
  <2>7. ASSUME CheckToolchainDependencies PROVE ChainInv'
    <3>1. /\ lastBuiltin # 0 /\ specs[lastBuiltin].kind = "only"
          /\ Modify("allowToolchain", FALSE)
        BY <2>7 DEF CheckToolchainDependencies, AllowList
    <3> QED BY <3>1, LastSpecIsSpec, ModifiedSpecs, ModifyKeepsInvariant
  <2>8. ASSUME Check PROVE ChainInv'
      BY <2>8 DEF Check, ChainInv, ChainTyped, LastIsNewest
  <2>9. ASSUME NEW e \in Edges, AddEdge(e) PROVE ChainInv'
      BY <2>9 DEF AddEdge, DropReport, ChainInv, ChainTyped, LastIsNewest
  <2>10. CASE UNCHANGED vars
      BY <2>10 DEF vars, ChainInv, ChainTyped, LastIsNewest
  <2> QED
      BY <2>1, <2>2, <2>3, <2>4, <2>5, <2>6, <2>7, <2>8, <2>9, <2>10 DEF Next
<1> QED BY <1>1, <1>2, PTL DEF Spec

-----------------------------------------------------------------------------

\* A modifier reaches only the rule defined right before it.
THEOREM ModifiersAreLocal == Spec => ModifiersStayWithTheirRule
<1>1. ChainInv /\ [Next]_vars =>
        [\A i \in DOMAIN specs :
            specs'[i] # specs[i] => i = Len(specs) /\ chain[Len(chain)] = "builtin"]_vars
  <2> SUFFICES ASSUME ChainInv, [Next]_vars, NEW i \in DOMAIN specs, specs'[i] # specs[i]
               PROVE  i = Len(specs) /\ chain[Len(chain)] = "builtin"
      OBVIOUS
  <2>1. ASSUME NEW field, NEW value, Modify(field, value)
        PROVE  i = Len(specs) /\ chain[Len(chain)] = "builtin"
    <3>1. lastBuiltin \in DOMAIN specs /\ specs' = [specs EXCEPT ![lastBuiltin][field] = value]
        BY <2>1 DEF Modify, ChainInv, ChainTyped, LastIsNewest
    <3>2. i = lastBuiltin
        BY <3>1
    <3> QED BY <2>1, <3>2 DEF Modify, ChainInv, LastIsNewest
  <2>2. ASSUME NEW d \in Definitions, Define(d) PROVE FALSE
    <3>1. specs \in Seq(RuleSpec) /\ specs' = Append(specs, d) /\ d \in RuleSpec
        BY <2>2, DefinitionsAreSpecs DEF Define, ChainInv, ChainTyped, DefinitionsAreSpecs
    <3> QED BY <3>1
  <2>3. ASSUME UNCHANGED specs PROVE FALSE
      BY <2>3
  <2> QED
      BY <2>1, <2>2, <2>3
      DEF Next, WithCustom, WithSeverity, ActualDependencies, DeclaredDependencies,
          CheckSelfDependencies, CheckToolchainDependencies, Check, AddEdge, vars
<1> QED BY <1>1, ChainInductive, PTL DEF Spec, ModifiersStayWithTheirRule

-----------------------------------------------------------------------------

\* Collecting the entries into a map leaves the last one for each layer.
LEMMA LastEntryPermits ==
    ASSUME NEW dependencies, NEW a, NEW b
    PROVE  b \in Permitted(dependencies, a) <=> LastEntryLists(dependencies, a, b)
BY DEF Permitted, LastEntryLists

\* A layers rule, whatever its layers and entries, is the union of the forbid
\* rules for the directions that no last entry permits.
THEOREM LayersAreForbidRules == Spec => []LayersAreForbids
<1>1. LayersAreForbids
  <2> SUFFICES ASSUME NEW s \in Elements(specs), s.kind = "layers"
               PROVE  Reported(s, edges) =
                        UNION {Forbidden(edges, p[1].selector, p[2].selector, s.scopes) :
                                  p \in {q \in Elements(s.layers) \X Elements(s.layers) :
                                            /\ q[1].name # q[2].name
                                            /\ ~LastEntryLists(s.dependencies, q[1].name, q[2].name)}}
      BY DEF LayersAreForbids
  <2> DEFINE L == Elements(s.layers)
             P == {q \in L \X L : /\ q[1].name # q[2].name
                                  /\ ~LastEntryLists(s.dependencies, q[1].name, q[2].name)}
             F(p) == Forbidden(edges, p[1].selector, p[2].selector, s.scopes)
  <2>1. Reported(s, edges) = Crossing(edges, s.layers, s.dependencies, s.scopes)
      BY DEF Reported
  <2>2. ASSUME NEW c PROVE LayersOf(s.layers, c) = {l \in L : c \in l.selector}
      BY DEF LayersOf, Elements
  <2>3. ASSUME NEW e \in Crossing(edges, s.layers, s.dependencies, s.scopes)
        PROVE  e \in UNION {F(p) : p \in P}
    <3>1. PICK a \in L, b \in L :
             /\ e.origin \in a.selector /\ e.target \in b.selector
             /\ a.name # b.name /\ b.name \notin Permitted(s.dependencies, a.name)
        BY <2>2 DEF Crossing
    <3>2. <<a, b>> \in P
        BY <3>1, LastEntryPermits
    <3>3. e \in F(<<a, b>>)
        BY <3>1 DEF Crossing, Forbidden
    <3> QED BY <3>2, <3>3
  <2>4. ASSUME NEW p \in P, NEW e \in F(p)
        PROVE  e \in Crossing(edges, s.layers, s.dependencies, s.scopes)
    <3>1. p[1] \in LayersOf(s.layers, e.origin) /\ p[2] \in LayersOf(s.layers, e.target)
        BY <2>2 DEF Forbidden
    <3> QED BY <3>1, LastEntryPermits DEF Crossing, Forbidden
  <2> QED BY <2>1, <2>3, <2>4
<1> QED BY <1>1, PTL

-----------------------------------------------------------------------------

\* Where no rule is wrong the ids are distinct.
LEMMA CompiledIdsDiffer ==
    ASSUME WrongRules = {}, specs \in Seq(RuleSpec), custom \in Seq(CustomRule)
    PROVE  \A i, j \in DOMAIN Ids : Ids[i] = Ids[j] => i = j
<1>1. DOMAIN Ids = 1..Len(specs) + Len(custom)
    BY DEF Ids
<1>2. \A i \in DOMAIN Ids : ~Repeats(i)
    BY DEF WrongRules
<1> QED BY <1>1, <1>2 DEF Repeats

\* What rule i of a chain reports by itself, as a result.
BuiltInResult(i) == Result(specs[i].id, specs[i].severity, Reported(specs[i], edges))
CustomResult(i) ==
    Result(custom[i].id, custom[i].severity, edges \cap custom[i].reports)

\* The results of a check are those of its rules.
LEMMA ResultsAreOfRules ==
    ASSUME NEW q
    PROVE  q \in Evaluate <=> \/ \E i \in DOMAIN specs : q = BuiltInResult(i)
                              \/ \E i \in DOMAIN custom : q = CustomResult(i)
BY DEF Evaluate, Elements, BuiltInResult, CustomResult

\* A rule has one result in a report, its own.
LEMMA OneResultPerRule ==
    ASSUME WrongRules = {}, specs \in Seq(RuleSpec), custom \in Seq(CustomRule)
    PROVE  /\ \A i \in DOMAIN specs :
                 {q \in Evaluate : q.id = specs[i].id} = {BuiltInResult(i)}
           /\ \A i \in DOMAIN custom :
                 {q \in Evaluate : q.id = custom[i].id} = {CustomResult(i)}
<1>1. \A i \in DOMAIN specs : i \in DOMAIN Ids /\ Ids[i] = specs[i].id /\ i <= Len(specs)
    BY DEF Ids
<1>2. \A i \in DOMAIN custom : /\ Len(specs) + i \in DOMAIN Ids
                               /\ Ids[Len(specs) + i] = custom[i].id
                               /\ i \in Nat /\ i > 0 /\ Len(specs) \in Nat
    BY DEF Ids
<1>3. /\ \A i, j \in DOMAIN specs : specs[i].id = specs[j].id => i = j
      /\ \A i \in DOMAIN specs, j \in DOMAIN custom : specs[i].id # custom[j].id
      /\ \A i, j \in DOMAIN custom : custom[i].id = custom[j].id => i = j
  <2>1. \A i, j \in DOMAIN specs : specs[i].id = specs[j].id => i = j
      BY <1>1, CompiledIdsDiffer
  <2>2. ASSUME NEW i \in DOMAIN specs, NEW j \in DOMAIN custom, specs[i].id = custom[j].id
        PROVE  FALSE
    <3>1. i = Len(specs) + j
        BY <1>1, <1>2, <2>2, CompiledIdsDiffer
    <3> QED BY <1>1, <1>2, <3>1
  <2>3. ASSUME NEW i \in DOMAIN custom, NEW j \in DOMAIN custom, custom[i].id = custom[j].id
        PROVE  i = j
    <3>1. Len(specs) + i = Len(specs) + j
        BY <1>2, <2>3, CompiledIdsDiffer
    <3> QED BY <1>2, <3>1
  <2> QED BY <2>1, <2>2, <2>3
<1>4. /\ \A i : BuiltInResult(i).id = specs[i].id
      /\ \A i : CustomResult(i).id = custom[i].id
    BY DEF BuiltInResult, CustomResult, Result
<1>5. ASSUME NEW i \in DOMAIN specs
      PROVE  {q \in Evaluate : q.id = specs[i].id} = {BuiltInResult(i)}
  <2>1. BuiltInResult(i) \in Evaluate
      BY ResultsAreOfRules
  <2>2. ASSUME NEW q \in Evaluate, q.id = specs[i].id PROVE q = BuiltInResult(i)
      BY <1>3, <1>4, <2>2, ResultsAreOfRules
  <2> QED BY <1>4, <2>1, <2>2
<1>6. ASSUME NEW i \in DOMAIN custom
      PROVE  {q \in Evaluate : q.id = custom[i].id} = {CustomResult(i)}
  <2>1. CustomResult(i) \in Evaluate
      BY ResultsAreOfRules
  <2>2. ASSUME NEW q \in Evaluate, q.id = custom[i].id PROVE q = CustomResult(i)
      BY <1>3, <1>4, <2>2, ResultsAreOfRules
  <2> QED BY <1>4, <2>1, <2>2
<1> QED BY <1>5, <1>6

\* A check has one result for every rule, and fails exactly when a rule of
\* severity error reports something.
THEOREM VerdictsAreFaithful == Spec => FailsIffARuleFails
<1> DEFINE Silent ==
        /\ \A i \in DOMAIN specs :
              specs[i].severity = "error" => Reported(specs[i], edges) = {}
        /\ \A i \in DOMAIN custom :
              custom[i].severity = "error" => edges \cap custom[i].reports = {}
           OneEach ==
        /\ \A i \in DOMAIN specs :
              {q \in report' : q.id = specs[i].id} =
                  {Result(specs[i].id, specs[i].severity, Reported(specs[i], edges))}
        /\ \A i \in DOMAIN custom :
              {q \in report' : q.id = custom[i].id} =
                  {Result(custom[i].id, custom[i].severity, edges \cap custom[i].reports)}
<1>1. ChainInv /\ [Next]_vars => [checked' = "report" => OneEach /\ (IsSuccess' <=> Silent)]_vars
  <2> SUFFICES ASSUME ChainInv, Next, checked' = "report"
               PROVE  OneEach /\ (IsSuccess' <=> Silent)
      OBVIOUS
  <2>1. Check
      BY DEF Next, Define, WithCustom, WithSeverity, ActualDependencies, DeclaredDependencies,
             CheckSelfDependencies, CheckToolchainDependencies, Modify, AddEdge, DropReport
  <2>2. WrongRules = {} /\ report' = Evaluate
    <3> SUFFICES ASSUME NEW i \in WrongRules,
                        checked' = IF Repeats(i) THEN "DuplicateRuleId" ELSE BuildError(specs[i])
                 PROVE  FALSE
        BY <2>1 DEF Check
    <3>1. BuildError(specs[i]) # "report"
        BY DEF BuildError, LayersError
    <3> QED BY <3>1
  <2>3. specs \in Seq(RuleSpec) /\ custom \in Seq(CustomRule)
      BY DEF ChainInv, ChainTyped
  <2>4. OneEach
      BY <2>2, <2>3, OneResultPerRule DEF BuiltInResult, CustomResult
  <2>5. /\ \A i : /\ BuiltInResult(i).severity = specs[i].severity
                  /\ BuiltInResult(i).violations = Reported(specs[i], edges)
        /\ \A i : /\ CustomResult(i).severity = custom[i].severity
                  /\ CustomResult(i).violations = edges \cap custom[i].reports
      BY DEF BuiltInResult, CustomResult, Result
  <2>6. IsSuccess' <=> \A q \in Evaluate : ~(q.severity = "error" /\ q.violations # {})
      BY <2>2 DEF IsSuccess
  <2>7. IsSuccess' <=> Silent
      BY <2>5, <2>6, ResultsAreOfRules
  <2> QED BY <2>4, <2>7
<1> QED BY <1>1, ChainInductive, PTL DEF Spec, FailsIffARuleFails

-----------------------------------------------------------------------------
(* The configuration *)

\* A selector table in which the given names resolve to selectors that have
\* some value and proper patterns.
Proper(names, selectors) ==
    \A n \in names :
        /\ n \in DOMAIN selectors
        /\ IsSelectorConfig(selectors[n])
        /\ SelectorLowers(selectors[n])
        /\ SelectorCompiles(selectors[n])

-----------------------------------------------------------------------------
\* The fields of a selector restrict each other: what a lowered selector
\* matches is what fits each field that was given (SelectorConfig::lower).
THEOREM SelectorsAreRead ==
    ASSUME NEW config, IsSelectorConfig(config), SelectorCompiles(config),
           NEW c \in Component
    PROVE  c \in Selector(config) <=> Fits(c, config)
<1>1. c \in Selector(config) <=> \A f \in Fields : config[f] = {} \/ c \in Matcher(config, f)
  BY DEF Selector, AllOf, Given
<1>2. c \in Matcher(config, "packages") <=> c \in Workspace /\ PackageName[c] \in config.packages
  BY DEF Matcher, Packages
<1>3. c \in Matcher(config, "crates") <=> c \in Workspace /\ CrateName[c] \in config.crates
  BY DEF Matcher, Crates
<1>4. c \in Matcher(config, "modules") <=> \E p \in config.modules : c \in PatternMeans[p]
  <2>1. config.modules \cap DOMAIN PatternMeans = config.modules
    BY DEF SelectorCompiles
  <2>2. Matcher(config, "modules") = (UNION {PatternMeans[p] : p \in config.modules}) \cap Module
    BY <2>1 DEF Matcher, Modules
  <2> QED BY <2>2, PatternsMatchModules DEF SelectorCompiles
<1>5. c \in Matcher(config, "externalCrates")
        <=> c \in ExternalCrate /\ CrateName[c] \in config.externalCrates
  BY DEF Matcher, ExternalCrates
<1>6. c \in Matcher(config, "targetKinds") <=> \E k \in config.targetKinds : c \in TargetKinds({k})
  BY DEF Matcher, TargetKinds
<1>7. c \in Matcher(config, "componentKinds")
        <=> \E k \in config.componentKinds :
               \/ k = "crate" /\ c \in Crate
               \/ k = "module" /\ c \in Module
               \/ k = "external-crate" /\ c \in ExternalCrate
  BY DEF Matcher, ComponentKinds, IsSelectorConfig
<1> QED BY <1>1, <1>2, <1>3, <1>4, <1>5, <1>6, <1>7 DEF Fits, Fields, IsSelectorConfig

\* A reference to several selectors matches what one of them does.
LEMMA ReferencesAreRead ==
    ASSUME NEW names, NEW selectors, Proper(names, selectors), NEW c \in Component
    PROVE  c \in Referenced(names, selectors) <=> FitsOne(c, names, selectors)
BY SelectorsAreRead DEF Proper, Referenced, AnyOf, FitsOne

LEMMA ForbidIsRead ==
    ASSUME NEW rule, NEW selectors, NEW links, links \subseteq Edge, rule.kind = "forbid",
           Proper(rule.from, selectors), Proper(rule.to, selectors)
    PROVE  Reports(rule, selectors, links) <=> BrokenByFile(rule, selectors, links)
<1>1. \A e \in links : /\ e.origin \in Component /\ e.target \in Component
                       /\ InScope(e, rule) <=> Includes(rule.scopes, e)
  BY DEF Edge, InScope, Includes
<1>2. \A e \in links :
        /\ e.origin \in Referenced(rule.from, selectors) <=> FitsOne(e.origin, rule.from, selectors)
        /\ e.target \in Referenced(rule.to, selectors) <=> FitsOne(e.target, rule.to, selectors)
  BY <1>1, ReferencesAreRead
<1> QED BY <1>1, <1>2 DEF Reports, Forbidden, BrokenByFile, ForbiddenByFile

LEMMA OnlyIsRead ==
    ASSUME NEW rule, NEW selectors, NEW links, links \subseteq Edge, rule.kind = "only",
           Proper(rule.from, selectors), Proper(rule.allowed, selectors)
    PROVE  Reports(rule, selectors, links) <=> BrokenByFile(rule, selectors, links)
<1>1. \A e \in links : /\ e.origin \in Component /\ e.target \in Component
                       /\ InScope(e, rule) <=> Includes(rule.scopes, e)
  BY DEF Edge, InScope, Includes
<1>2. \A e \in links :
        /\ e.origin \in Referenced(rule.from, selectors) <=> FitsOne(e.origin, rule.from, selectors)
        /\ e.target \in Referenced(rule.allowed, selectors)
             <=> FitsOne(e.target, rule.allowed, selectors)
  BY <1>1, ReferencesAreRead
<1>3. Disallowed(links, Referenced(rule.from, selectors), Referenced(rule.allowed, selectors),
                 rule.scopes, rule.allowToolchain, rule.allowSelf)
        = {e \in links : InScope(e, rule) /\ NotAllowedByFile(e, rule, selectors)}
  BY <1>1, <1>2 DEF Disallowed, NotAllowedByFile, SameWorkspacePackage
<1> QED BY <1>3 DEF Reports, BrokenByFile

\* The layers of a rule have different names and resolve.
ProperLayers(rule, selectors) ==
    /\ rule.layers \in Seq(Elements(rule.layers))
    /\ rule.dependencies \in Seq(Elements(rule.dependencies))
    /\ \A i, j \in DOMAIN rule.layers : rule.layers[i].name = rule.layers[j].name => i = j
    /\ Proper({l.selector : l \in Elements(rule.layers)}, selectors)

LEMMA LayersAreRead ==
    ASSUME NEW rule, NEW selectors, NEW links, links \subseteq Edge, rule.kind = "layers",
           ProperLayers(rule, selectors)
    PROVE  Reports(rule, selectors, links) <=> BrokenByFile(rule, selectors, links)
<1> DEFINE lowered == Named(rule.layers, selectors)
           may(from) == Permitted(rule.dependencies, from)
<1>1. \A e \in links : /\ e.origin \in Component /\ e.target \in Component
                       /\ InScope(e, rule) <=> Includes(rule.scopes, e)
  BY DEF Edge, InScope, Includes
<1>2. \A a, b : b.name \in may(a.name) <=> MayDependOn(a, b, rule)
  BY DEF Permitted, MayDependOn
<1>3. \A c \in Component, l \in Elements(rule.layers) :
        c \in Selector(selectors[l.selector]) <=> Fits(c, selectors[l.selector])
  BY SelectorsAreRead DEF ProperLayers, Proper
<1>4. ASSUME NEW c \in Component
      PROVE  LayersOf(lowered, c)
               = {[name |-> l.name, selector |-> Selector(selectors[l.selector])] :
                     l \in {k \in Elements(rule.layers) : Fits(c, selectors[k.selector])}}
  <2>1. {lowered[i] : i \in DOMAIN lowered}
          = {[name |-> l.name, selector |-> Selector(selectors[l.selector])] :
                l \in Elements(rule.layers)}
    BY DEF Named, Elements
  <2> QED BY <1>3, <2>1 DEF LayersOf, Elements
<1>5. ASSUME NEW e \in links
      PROVE  (\E a \in LayersOf(lowered, e.origin), b \in LayersOf(lowered, e.target) :
                 a.name # b.name /\ b.name \notin may(a.name))
               <=> CrossesByFile(e, rule, selectors)
  <2>1. \A a, b \in Elements(rule.layers) : a # b <=> a.name # b.name
    BY DEF ProperLayers, Elements
  <2> DEFINE in(c) == {k \in Elements(rule.layers) : Fits(c, selectors[k.selector])}
             lower(l) == [name |-> l.name, selector |-> Selector(selectors[l.selector])]
  <2>2. /\ LayersOf(lowered, e.origin) = {lower(l) : l \in in(e.origin)}
        /\ LayersOf(lowered, e.target) = {lower(l) : l \in in(e.target)}
    BY <1>1, <1>4
  <2>3. \A l : lower(l).name = l.name
    OBVIOUS
  <2>4. (\E a \in LayersOf(lowered, e.origin), b \in LayersOf(lowered, e.target) :
            a.name # b.name /\ b.name \notin may(a.name))
          <=> \E a \in in(e.origin), b \in in(e.target) :
                 a.name # b.name /\ b.name \notin may(a.name)
    <3> HIDE DEF in, lower, may
    <3> QED BY <2>2, <2>3
  <2>5. (\E a \in in(e.origin), b \in in(e.target) : a.name # b.name /\ b.name \notin may(a.name))
          <=> CrossesByFile(e, rule, selectors)
    <3> HIDE DEF may
    <3> QED BY <1>2, <2>1 DEF CrossesByFile
  <2> QED BY <2>4, <2>5
<1>6. Crossing(links, lowered, rule.dependencies, rule.scopes)
        = {e \in links : InScope(e, rule) /\ CrossesByFile(e, rule, selectors)}
  BY <1>1, <1>5 DEF Crossing
<1> QED BY <1>6 DEF Reports, BrokenByFile

-----------------------------------------------------------------------------
(* No-cycles rules *)

\* Induction over the numbers is by the least counterexample.
Below == {p \in Nat \X Nat : p[1] < p[2]}

LEMMA LeastNatural ==
    ASSUME NEW T, T \subseteq Nat, T # {}
    PROVE  \E n \in T : \A m \in T : n <= m
<1>1. IsWellFoundedOn(Below, Nat)
  BY NatLessThanWellFounded, Zenon DEF OpToRel, Below
<1>2. PICK n \in T : \A m \in T : <<m, n>> \notin Below
  BY <1>1, WFMin, Zenon
<1>3. \A m \in T : ~(m < n)
  <2>1. \A m \in T : <<m, n>> \in Nat \X Nat /\ <<m, n>>[1] = m /\ <<m, n>>[2] = n
    BY <1>2
  <2> QED BY <1>2, <2>1 DEF Below
<1> QED BY <1>3

LEMMA ImagesAreFinite ==
    ASSUME NEW S, IsFiniteSet(S), NEW f, f = [x \in S |-> f[x]]
    PROVE  IsFiniteSet({f[x] : x \in S})
<1>1. f \in Surjection(S, {f[x] : x \in S})
  BY DEF Surjection
<1> QED BY <1>1, FS_Surjection

\* Where every member of a finite set has a hop to another one there are walks
\* of every length; one of as many hops as there are members meets itself, and
\* what is between is a walk around.
LEMMA WalkAround ==
    ASSUME NEW hops, NEW units, IsFiniteSet(units),
           NEW S, S \subseteq units, S # {},
           \A g \in S : \E h \in S : g # h /\ <<g, h>> \in hops
    PROVE  \E n \in 2..Cardinality(units) : \E walk \in [0..n - 1 -> units] :
              \A i \in 0..n - 1 : /\ walk[i] # walk[(i + 1) % n]
                                  /\ <<walk[i], walk[(i + 1) % n]>> \in hops
<1> DEFINE IsWalk(w, n) ==
             /\ w \in [0..n -> S]
             /\ \A i \in 0..n - 1 : w[i] # w[i + 1] /\ <<w[i], w[i + 1]>> \in hops
<1>1. ASSUME NEW n \in Nat PROVE \E w : IsWalk(w, n)
  <2> DEFINE None_ == {k \in Nat : ~\E w : IsWalk(w, k)}
  <2> SUFFICES ASSUME None_ # {} PROVE FALSE
    OBVIOUS
  <2>1. PICK k \in None_ : \A m \in None_ : k <= m
    BY LeastNatural
  <2>2. k \in Nat /\ ~\E w : IsWalk(w, k)
    BY <2>1
  <2>3. CASE k = 0
    <3>1. PICK g \in S : TRUE
      OBVIOUS
    <3>2. IsWalk([i \in 0..0 |-> g], 0)
      OBVIOUS
    <3> QED BY <2>2, <2>3, <3>2
  <2>4. CASE k # 0
    <3>1. k - 1 \in Nat /\ ~(k <= k - 1)
      BY <2>2, <2>4
    <3>2. PICK w : IsWalk(w, k - 1)
      BY <2>1, <3>1
    <3>3. w[k - 1] \in S
      BY <3>1, <3>2
    <3>4. PICK h \in S : w[k - 1] # h /\ <<w[k - 1], h>> \in hops
      BY <3>3
    <3> DEFINE v == [i \in 0..k |-> IF i = k THEN h ELSE w[i]]
    <3>5. \A i \in 0..k : i = k \/ i \in 0..k - 1
      BY <2>2
    <3>6. v \in [0..k -> S]
      BY <3>2, <3>5
    <3>7. ASSUME NEW i \in 0..k - 1
          PROVE  v[i] # v[i + 1] /\ <<v[i], v[i + 1]>> \in hops
      <4>1. i \in 0..k /\ i + 1 \in 0..k /\ i # k /\ v[i] = w[i]
        BY <2>2
      <4>2. CASE i = k - 1
        BY <3>4, <4>1, <4>2, <2>2
      <4>3. CASE i # k - 1
        <5>1. i \in 0..(k - 1) - 1 /\ i + 1 # k
          BY <4>3, <2>2
        <5> QED BY <3>2, <4>1, <5>1
      <4> QED BY <4>2, <4>3
    <3>8. IsWalk(v, k)
      BY <3>6, <3>7
    <3> QED BY <2>2, <3>8
  <2> QED BY <2>3, <2>4
<1> DEFINE c == Cardinality(S)
<1>2. IsFiniteSet(S) /\ c \in Nat /\ c <= Cardinality(units) /\ Cardinality(units) \in Nat
  BY FS_Subset, FS_CardinalityType
<1>3. PICK w : IsWalk(w, c)
  BY <1>1, <1>2
<1>4. \E x, y \in 0..c : x # y /\ w[x] = w[y]
  <2>1. IsFiniteSet(0..c) /\ Cardinality(0..c) = c + 1
    BY <1>2, FS_Interval
  <2>2. Cardinality(S) < Cardinality(0..c)
    BY <1>2, <2>1
  <2> HIDE DEF c
  <2> QED BY <1>2, <1>3, <2>1, <2>2, FS_PigeonHole
<1>5. PICK x \in 0..c, y \in 0..c : x < y /\ w[x] = w[y]
  <2>1. PICK a \in 0..c, b \in 0..c : a # b /\ w[a] = w[b]
    BY <1>4
  <2>2. a < b \/ b < a
    BY <2>1, <1>2
  <2> QED BY <2>1, <2>2
<1> DEFINE n == y - x
           walk == [i \in 0..n - 1 |-> w[x + i]]
<1>6. n \in Nat /\ n <= c /\ n # 0 /\ x \in Nat /\ y \in Nat /\ y <= c /\ x + n = y
  BY <1>2, <1>5
<1>7. n # 1
  <2>1. x \in 0..c - 1
    BY <1>2, <1>5
  <2>2. w[x] # w[x + 1]
    BY <1>3, <2>1
  <2> QED BY <1>5, <1>6, <2>2
<1>8. n \in 2..Cardinality(units)
  BY <1>2, <1>6, <1>7
<1>9. walk \in [0..n - 1 -> units]
  <2>1. \A i \in 0..n - 1 : x + i \in 0..c
    BY <1>6, <1>2
  <2> QED BY <1>3, <2>1
<1>10. ASSUME NEW i \in 0..n - 1
       PROVE  /\ walk[i] # walk[(i + 1) % n]
              /\ <<walk[i], walk[(i + 1) % n]>> \in hops
  <2> HIDE DEF n
  <2>1. x + i \in 0..c - 1
    BY <1>6, <1>2
  <2>2. w[x + i] # w[x + i + 1] /\ <<w[x + i], w[x + i + 1]>> \in hops
    BY <1>3, <2>1
  <2>3. walk[(i + 1) % n] = w[x + i + 1]
    <3>1. CASE i = n - 1
      <4>1. (i + 1) % n = 0 /\ 0 \in 0..n - 1 /\ x + i + 1 = y /\ x + 0 = x
        BY <3>1, <1>6
      <4> QED BY <4>1, <1>5
    <3>2. CASE i # n - 1
      <4>1. (i + 1) % n = i + 1 /\ i + 1 \in 0..n - 1 /\ x + (i + 1) = x + i + 1
        BY <3>2, <1>6
      <4> QED BY <4>1
    <3> QED BY <3>1, <3>2
  <2>4. walk[i] = w[x + i]
    OBVIOUS
  <2> HIDE DEF walk
  <2> QED BY <2>2, <2>3, <2>4
<1> HIDE DEF walk, n
<1> QED BY <1>8, <1>9, <1>10

\* What a rule needs for its groups to be read off the file.
ProperCycles(rule, selectors) ==
    /\ rule.grouping \in {"components", "modules", "crates", "slices"}
    /\ Proper(rule.within, selectors)
    /\ rule.slices \in Seq(Elements(rule.slices))
    /\ rule.grouping = "slices" =>
          Proper({l.selector : l \in Elements(rule.slices)}, selectors)

\* The groups of a component are the units it counts as.
LEMMA GroupsAreUnits ==
    ASSUME NEW rule, NEW selectors, ProperCycles(rule, selectors), NEW c \in Component
    PROVE  GroupsOf(rule, selectors, c) = Units(c, rule, selectors)
<1> DEFINE within == Referenced(rule.within, selectors)
<1>1. \A d \in Component : d \in within <=> Inside(d, rule, selectors)
  BY ReferencesAreRead DEF ProperCycles, Inside
<1>2. within \subseteq Component
  BY DEF Referenced, AnyOf, Selector, AllOf
<1>3. CASE rule.grouping = "components"
  BY <1>1, <1>3 DEF GroupsOf, Units
<1>4. CASE rule.grouping = "modules"
  BY <1>1, <1>4 DEF GroupsOf, Units
<1>5. CASE rule.grouping = "crates"
  <2>1. \A m \in Module : m \in Component /\ CrateOf[m] \in Crate /\ m \notin Crate
    BY ModulesHaveCrates, VariantsAreDisjoint DEF Component, Workspace
  <2>2. ASSUME NEW k
        PROVE  k \in SelectedCrates(within)
                 <=> k \in Crate /\ \E d \in {k} \cup {m \in Module : CrateOf[m] = k} :
                                       Inside(d, rule, selectors)
    <3>1. ASSUME k \in Crate PROVE k \in Component /\ k \in Workspace /\ k \notin Module
      BY <3>1, VariantsAreDisjoint DEF Component, Workspace
    <3>2. k \in SelectedCrates(within)
            <=> \E d \in within \cap Workspace : k = IF d \in Module THEN CrateOf[d] ELSE d
      BY DEF SelectedCrates
    <3>3. \A d \in within \cap Workspace : d \in Module \/ (d \in Crate /\ d \notin Module)
      BY VariantsAreDisjoint DEF Workspace
    <3>4. \A m \in Module : m \in Workspace
      BY DEF Workspace
    <3> QED BY <1>1, <1>2, <2>1, <3>1, <3>2, <3>3, <3>4
  <2>3. GroupsOf(rule, selectors, c)
          = {IF d \in Module THEN CrateOf[d] ELSE d : d \in {c} \cap Workspace}
               \cap SelectedCrates(within)
    BY <1>5 DEF GroupsOf
  <2>4. Units(c, rule, selectors)
          = {k \in Crate : /\ k = c \/ (c \in Module /\ CrateOf[c] = k)
                           /\ \E d \in {k} \cup {m \in Module : CrateOf[m] = k} :
                                 Inside(d, rule, selectors)}
    BY <1>5 DEF Units
  <2>5. ASSUME NEW k \in Crate
        PROVE  k \in {IF d \in Module THEN CrateOf[d] ELSE d : d \in {c} \cap Workspace}
                 <=> k = c \/ (c \in Module /\ CrateOf[c] = k)
    BY <2>1, VariantsAreDisjoint DEF Workspace
  <2> HIDE DEF within
  <2> QED BY <2>2, <2>3, <2>4, <2>5
<1>6. CASE rule.grouping = "slices"
  <2> DEFINE lowered == Named(rule.slices, selectors)
  <2>1. Elements(lowered)
          = {[name |-> l.name, selector |-> Selector(selectors[l.selector])] :
                l \in Elements(rule.slices)}
    BY DEF Named, Elements
  <2>2. \A l \in Elements(rule.slices) :
          c \in Selector(selectors[l.selector]) <=> Fits(c, selectors[l.selector])
    BY <1>6, SelectorsAreRead DEF ProperCycles, Proper
  <2>3. GroupsOf(rule, selectors, c)
          = {l.name : l \in {k \in Elements(lowered) : c \in k.selector \cap within}}
    BY <1>6 DEF GroupsOf
  <2>4. Units(c, rule, selectors)
          = {n \in {l.name : l \in Elements(rule.slices)} :
               /\ Inside(c, rule, selectors)
               /\ \E l \in Elements(rule.slices) :
                     l.name = n /\ Fits(c, selectors[l.selector])}
    BY <1>6 DEF Units
  <2>5. ASSUME NEW n
        PROVE  n \in GroupsOf(rule, selectors, c)
                 <=> /\ c \in within
                     /\ \E l \in Elements(rule.slices) :
                           l.name = n /\ c \in Selector(selectors[l.selector])
    <3> HIDE DEF within, lowered
    <3>1. n \in GroupsOf(rule, selectors, c)
            <=> \E k \in Elements(lowered) : k.name = n /\ c \in k.selector /\ c \in within
      BY <2>3
    <3>2. \A k : k \in Elements(lowered)
            <=> \E l \in Elements(rule.slices) :
                   k = [name |-> l.name, selector |-> Selector(selectors[l.selector])]
      BY <2>1
    <3>3. ASSUME NEW k \in Elements(lowered), k.name = n, c \in k.selector
          PROVE  \E l \in Elements(rule.slices) :
                    l.name = n /\ c \in Selector(selectors[l.selector])
      <4>1. PICK l \in Elements(rule.slices) :
               k = [name |-> l.name, selector |-> Selector(selectors[l.selector])]
        BY <3>2, <3>3
      <4>2. k.name = l.name /\ k.selector = Selector(selectors[l.selector])
        BY <4>1
      <4> QED BY <3>3, <4>2
    <3>4. ASSUME NEW l \in Elements(rule.slices), l.name = n, c \in Selector(selectors[l.selector])
          PROVE  \E k \in Elements(lowered) : k.name = n /\ c \in k.selector
      <4> DEFINE k == [name |-> l.name, selector |-> Selector(selectors[l.selector])]
      <4>1. k \in Elements(lowered)
        BY <3>2
      <4>2. k.name = n /\ c \in k.selector
        BY <3>4
      <4> QED BY <4>1, <4>2
    <3> QED BY <3>1, <3>3, <3>4
  <2> HIDE DEF within, lowered
  <2> QED BY <1>1, <2>2, <2>4, <2>5
<1> QED BY <1>3, <1>4, <1>5, <1>6 DEF ProperCycles

\* A component counts as finitely many units, and finitely many edges have
\* finitely many.
LEMMA UnitsAreFinite ==
    ASSUME NEW rule, NEW selectors, NEW links, IsFiniteSet(links),
           ProperCycles(rule, selectors), \A e \in links : e.origin \in Component
    PROVE  IsFiniteSet({h[1] : h \in UNION {Units(e.origin, rule, selectors)
                                               \X Units(e.target, rule, selectors) :
                                               e \in {d \in links : InScope(d, rule)}}})
<1> DEFINE relevant == {d \in links : InScope(d, rule)}
           Of(e) == Units(e.origin, rule, selectors)
           f == [e \in relevant |-> Of(e)]
           hops == UNION {Of(e) \X Units(e.target, rule, selectors) : e \in relevant}
<1>1. ASSUME NEW e \in relevant PROVE IsFiniteSet(Of(e))
  <2> DEFINE c == e.origin
  <2>1. CASE rule.grouping \in {"components", "modules"}
    <3>1. Of(e) \subseteq {c}
      BY <2>1 DEF Units
    <3>2. IsFiniteSet({c})
      BY FS_Singleton
    <3> HIDE DEF Of
    <3> QED BY <3>1, <3>2, FS_Subset
  <2>2. CASE rule.grouping = "crates"
    <3>1. Of(e) \subseteq {c} \cup {CrateOf[c]}
      BY <2>2 DEF Units
    <3>2. IsFiniteSet({c} \cup {CrateOf[c]})
      BY FS_Singleton, FS_AddElement
    <3> QED BY <3>1, <3>2, FS_Subset
  <2>3. CASE rule.grouping = "slices"
    <3> DEFINE names == {rule.slices[i].name : i \in DOMAIN rule.slices}
               g == [i \in DOMAIN rule.slices |-> rule.slices[i].name]
    <3>1. Of(e) \subseteq names
      BY <2>3 DEF Units, Elements
    <3>2. IsFiniteSet(DOMAIN rule.slices)
      <4>1. DOMAIN rule.slices = 1..Len(rule.slices) /\ Len(rule.slices) \in Nat
        BY DEF ProperCycles
      <4> QED BY <4>1, FS_Interval
    <3>3. IsFiniteSet({g[i] : i \in DOMAIN rule.slices})
      BY <3>2, ImagesAreFinite
    <3>4. {g[i] : i \in DOMAIN rule.slices} = names
      OBVIOUS
    <3> HIDE DEF names
    <3> QED BY <3>1, <3>3, <3>4, FS_Subset
  <2> QED BY <2>1, <2>2, <2>3 DEF ProperCycles
<1>2. IsFiniteSet(relevant)
  BY FS_Subset
<1>3. IsFiniteSet({f[e] : e \in relevant})
  <2> HIDE DEF relevant, Of
  <2> QED BY <1>2, ImagesAreFinite
<1>4. IsFiniteSet(UNION {f[e] : e \in relevant})
  <2> HIDE DEF relevant, Of
  <2>1. \A T \in {f[e] : e \in relevant} : IsFiniteSet(T)
    BY <1>1
  <2> QED BY <1>3, <2>1, FS_UNION
<1>5. {h[1] : h \in hops} \subseteq UNION {f[e] : e \in relevant}
  <2> SUFFICES ASSUME NEW e \in relevant, NEW h \in Of(e) \X Units(e.target, rule, selectors)
               PROVE  h[1] \in f[e]
    OBVIOUS
  <2> HIDE DEF relevant, Of
  <2> QED OBVIOUS
<1> QED BY <1>4, <1>5, FS_Subset

\* A no-cycles rule reports something exactly when the file has a walk that
\* leaves a unit and comes back to it.
LEMMA CyclesAreRead ==
    ASSUME NEW rule, NEW selectors, NEW links, links \subseteq Edge, IsFiniteSet(links),
           rule.kind = "no-cycles", ProperCycles(rule, selectors)
    PROVE  Reports(rule, selectors, links) <=> BrokenByFile(rule, selectors, links)
<1> DEFINE relevant == {d \in links : InScope(d, rule)}
           Hops(e) == Units(e.origin, rule, selectors) \X Units(e.target, rule, selectors)
           hops == UNION {Hops(e) : e \in relevant}
           units == {h[1] : h \in hops}
           groups == UNION {GroupsOf(rule, selectors, c) : c \in Component}
           HasHop(g, h) == \E e \in links : /\ Includes(rule.scopes, e)
                                            /\ g \in GroupsOf(rule, selectors, e.origin)
                                            /\ h \in GroupsOf(rule, selectors, e.target)
           Around(n) == \E walk \in [0..n - 1 -> units] :
                           \A i \in 0..n - 1 : /\ walk[i] # walk[(i + 1) % n]
                                               /\ <<walk[i], walk[(i + 1) % n]>> \in hops
           Stuck(S) == \A g \in S : \E h \in S \ {g} : HasHop(g, h)
<1>1. \A e \in links : /\ e.origin \in Component /\ e.target \in Component
                       /\ InScope(e, rule) <=> Includes(rule.scopes, e)
  BY DEF Edge, InScope, Includes
<1>2. ASSUME NEW g, NEW h PROVE HasHop(g, h) <=> <<g, h>> \in hops
  <2>1. \A e \in links : /\ GroupsOf(rule, selectors, e.origin) = Units(e.origin, rule, selectors)
                         /\ GroupsOf(rule, selectors, e.target) = Units(e.target, rule, selectors)
    BY <1>1, GroupsAreUnits
  <2>2. <<g, h>> \in hops <=> \E e \in relevant : /\ g \in Units(e.origin, rule, selectors)
                                                  /\ h \in Units(e.target, rule, selectors)
    OBVIOUS
  <2> HIDE DEF hops
  <2> QED BY <1>1, <2>1, <2>2
<1>3. IsFiniteSet(units)
  BY <1>1, UnitsAreFinite
<1>4. Reports(rule, selectors, links) <=> \E S \in (SUBSET groups) \ {{}} : Stuck(S)
  BY DEF Reports, HasCycle
<1>5. BrokenByFile(rule, selectors, links) <=> \E n \in 2..Cardinality(units) : Around(n)
  BY DEF BrokenByFile, CyclicByFile
<1>6. ASSUME NEW S \in (SUBSET groups) \ {{}}, Stuck(S)
      PROVE  \E n \in 2..Cardinality(units) : Around(n)
  <2> HIDE DEF hops, groups, HasHop
  <2>1. \A g \in S : \E h \in S : g # h /\ <<g, h>> \in hops
    BY <1>2, <1>6
  <2>2. S \subseteq units
    <3>1. \A g \in S : \E p \in hops : p[1] = g
      BY <2>1
    <3> QED BY <3>1
  <2> HIDE DEF units
  <2> QED BY <1>3, <2>1, <2>2, WalkAround
<1>7. ASSUME NEW n \in 2..Cardinality(units), Around(n)
      PROVE  \E S \in (SUBSET groups) \ {{}} : Stuck(S)
  <2>0. n \in Nat /\ n >= 2
    BY <1>3, FS_CardinalityType
  <2>1. PICK walk \in [0..n - 1 -> units] :
           \A i \in 0..n - 1 : /\ walk[i] # walk[(i + 1) % n]
                               /\ <<walk[i], walk[(i + 1) % n]>> \in hops
    BY <1>7
  <2> DEFINE S == {walk[i] : i \in 0..n - 1}
  <2>2. \A i \in 0..n - 1 : (i + 1) % n \in 0..n - 1
    BY <2>0
  <2>3. units \subseteq groups
    <3>1. \A p \in hops : \E e \in links : p[1] \in GroupsOf(rule, selectors, e.origin)
      <4> SUFFICES ASSUME NEW e \in relevant, NEW p \in Hops(e)
                   PROVE  \E d \in links : p[1] \in GroupsOf(rule, selectors, d.origin)
        OBVIOUS
      <4>1. p[1] \in Units(e.origin, rule, selectors)
        OBVIOUS
      <4> QED BY <1>1, <4>1, GroupsAreUnits
    <3> HIDE DEF hops
    <3> QED BY <1>1, <3>1
  <2> HIDE DEF hops, HasHop, units, groups
  <2>4. S \in (SUBSET groups) \ {{}}
    <3>1. walk[0] \in S
      BY <2>0
    <3> QED BY <2>1, <2>3, <3>1
  <2>5. Stuck(S)
    <3> SUFFICES ASSUME NEW i \in 0..n - 1
                 PROVE  \E h \in S \ {walk[i]} : HasHop(walk[i], h)
      OBVIOUS
    <3>1. walk[(i + 1) % n] \in S \ {walk[i]}
      BY <2>1, <2>2
    <3> QED BY <1>2, <2>1, <3>1
  <2> QED BY <2>4, <2>5
<1> HIDE DEF Around, Stuck, units, groups
<1> QED BY <1>4, <1>5, <1>6, <1>7

-----------------------------------------------------------------------------
\* Types, and which of the optional values exist at which stage.
Types ==
    /\ args \in Args
    /\ file \in Files
    /\ directory \in BOOLEAN /\ workspace \in {"loads", "fails"}
    /\ pc \in {"load", "selectors", "rules", "analyze", "check", "exited"}
    /\ compiled \in Seq(Elements(file.rules))
    /\ options \in AnalysisOptions \cup {None}
    /\ graph \in Graph \cup {None}
    /\ exit \in (0..3) \cup {None}
    /\ output \in Output \cup {None}

Stages ==
    /\ pc \in {"load", "selectors", "rules"} => options = None
    /\ pc \in {"analyze", "check"} => options # None
    /\ pc \in {"load", "selectors", "rules", "analyze"} => graph = None
    /\ pc = "check" => graph # None
    /\ graph # None => options # None
    /\ pc = "exited" <=> exit # None

\* What has been looked at when a stage starts.
Loaded ==
    /\ pc \in {"selectors", "rules", "analyze", "check"} \/ options # None =>
          ~Undiscoverable /\ file.text = "parsed" /\ ~Invalid
    /\ pc \in {"rules", "analyze", "check"} \/ options # None => SelectorsLower(file.selectors)

Sound(rule) ==
    /\ rule.id # Blank
    /\ RuleLowers(rule, file.selectors)
    /\ RuleCompiles(rule, file.selectors)

\* The compiled rules are the first ones of the file, and sound.
Prefix ==
    /\ Len(compiled) <= Len(file.rules)
    /\ \A i \in DOMAIN compiled : compiled[i] = file.rules[i] /\ Sound(file.rules[i])
    /\ \A i, j \in DOMAIN compiled : compiled[i].id = compiled[j].id => i = j
    /\ ids = {compiled[i].id : i \in DOMAIN compiled}

\* The options are the merged ones, and the graph keeps to them.
FromOptions ==
    /\ options # None =>
          Len(compiled) = Len(file.rules) /\ ~Unlocatable /\ options = Merged
    /\ graph # None =>
          /\ ~Unresolvable /\ workspace = "loads"
          /\ graph.missing \in {"none", IF options.allowIncomplete THEN "warning" ELSE "error"}

\* A verdict is about the rules of the file and the edges of the graph.
Judged ==
    exit \in {0, 1} =>
        /\ options # None
        /\ graph # None
        /\ violated = {i \in DOMAIN compiled : Reports(compiled[i], file.selectors, graph.edges)}

IInv ==
    /\ Types
    /\ Stages
    /\ Loaded
    /\ Prefix
    /\ FromOptions
    /\ Judged
    /\ ExitCodeIsTheOutcome
    /\ OutputFormatIsAsked

-----------------------------------------------------------------------------
\* The options of the command line and those of a valid file never merge
\* into a conflict: Merge fails only for want of a current directory.
LEMMA MergeAgrees ==
    ASSUME args \in Args, file \in Files, ~Invalid
    PROVE  /\ Merged \in AnalysisOptions
           /\ ~(Merged.allFeatures /\ Merged.noDefaultFeatures)
<1>1. /\ HasSettings(args) /\ HasSettings(file)
      /\ ~(args.allFeatures /\ args.noDefaultFeatures)
  BY ArgsAreArgs, FilesAreFiles
<1>2. ~(Merged.allFeatures /\ Merged.noDefaultFeatures)
  BY <1>1 DEF Merged, HasSettings, Invalid
<1>3. \A path \in Path, base \in {"config", "current"} :
         Located(path, base) \in [base : {"root", "config", "current"}, path : Path]
  BY DEF Located
<1>4. Merged.manifest \in [base : {"root", "config", "current"}, path : Path]
  <2>1. CASE args.manifest # None
    BY <1>1, <1>3, <2>1 DEF Merged, HasSettings
  <2>2. CASE args.manifest = None
    BY <1>1, <1>3, <2>2, CargoTomlIsPath DEF Merged, HasSettings, Or
  <2> QED BY <2>1, <2>2
<1>5. Merged.packages \subseteq Name /\ Merged.kinds \subseteq Kind
  BY <1>1 DEF Merged, Chosen, HasSettings
<1>6. Merged.features \subseteq Name
  BY <1>1 DEF Merged, Chosen, Normalized, HasSettings
<1>7. Merged.target \in Name \cup {None}
  BY <1>1 DEF Merged, Or, HasSettings
<1>8. {Merged.allFeatures, Merged.noDefaultFeatures, Merged.allowIncomplete} \subseteq BOOLEAN
  BY <1>1 DEF Merged, HasSettings
<1>9. Merged = [manifest |-> Merged.manifest, packages |-> Merged.packages,
                features |-> Merged.features, target |-> Merged.target,
                kinds |-> Merged.kinds, allFeatures |-> Merged.allFeatures,
                noDefaultFeatures |-> Merged.noDefaultFeatures,
                allowIncomplete |-> Merged.allowIncomplete]
  BY DEF Merged
<1> HIDE DEF Merged
<1> QED BY <1>2, <1>4, <1>5, <1>6, <1>7, <1>8, <1>9 DEF AnalysisOptions

LEMMA FilesHaveRules ==
    ASSUME file \in Files
    PROVE  /\ file.rules \in Seq(Elements(file.rules))
           /\ Len(file.rules) \in Nat
           /\ DOMAIN file.rules = 1..Len(file.rules)
           /\ file.format \in Format
           /\ \A i \in DOMAIN file.rules : file.rules[i] \in Elements(file.rules)
<1>1. file.rules \in Seq(Elements(file.rules)) /\ file.format \in Format
  BY FilesAreFiles
<1> QED BY <1>1 DEF Elements

\* The run cannot go on, for its configuration or for the current directory.
CannotStart == ConfigurationIsWrong \/ (NeedsDirectory /\ ~directory)

\* A file with its text, settings, selectors and rules in order is not wrong,
\* and where there are options the current directory was there when needed.
LEMMA OptionsCameFromSoundInputs ==
    ASSUME IInv, options # None
    PROVE  ~ConfigurationIsWrong /\ ~CannotStart
<1>1. DOMAIN compiled = DOMAIN file.rules
  BY FilesHaveRules DEF IInv, Types, FromOptions
<1>2. \A r \in Elements(file.rules) : Sound(r)
  BY <1>1 DEF IInv, Prefix, Elements
<1>3. \A i, j \in DOMAIN file.rules : file.rules[i].id = file.rules[j].id => i = j
  BY <1>1 DEF IInv, Prefix
<1>4. ~ConfigurationIsWrong
  BY <1>2, <1>3 DEF IInv, Loaded, ConfigurationIsWrong, Sound
<1>5. ~(NeedsDirectory /\ ~directory)
  BY DEF IInv, Loaded, FromOptions, NeedsDirectory, Undiscoverable, Unlocatable
<1> QED BY <1>4, <1>5 DEF CannotStart

\* What from_options and resolve_selected_packages refuse is what clashes, or
\* names a stranger, in command line and file.
LEMMA RefusedOptions ==
    ASSUME IInv, options # None
    PROVE  Unresolvable <=> FeaturesClash \/ AsksForStranger
<1>1. /\ options = Merged /\ file.kinds # {}
      /\ ~(Merged.allFeatures /\ Merged.noDefaultFeatures)
  BY MergeAgrees DEF IInv, Types, FromOptions, Loaded, Invalid
<1>2. options.kinds # {}
  BY <1>1 DEF Merged, Chosen
<1>3. options.features # {} <=>
        IF args.features = {} THEN \E l \in file.features : l # {}
                              ELSE \E l \in args.features : l # {}
  <2>1. \A F : UNION F # {} <=> \E l \in F : l # {}
    OBVIOUS
  <2> QED BY <1>1, <2>1 DEF Merged, Chosen, Normalized
<1>4. options.allFeatures <=> args.allFeatures \/ (file.allFeatures /\ ~args.noDefaultFeatures)
  BY <1>1 DEF Merged
<1>5. ~(options.packages \subseteq Members) <=> AsksForStranger
  BY <1>1 DEF Merged, Chosen, AsksForStranger
<1> QED BY <1>1, <1>2, <1>3, <1>4, <1>5 DEF Unresolvable, FeaturesClash

\* A stage that fails leaves the invariant, if the code says why.
LEMMA FailKeepsInvariant ==
    ASSUME IInv, pc # "exited", graph = None,
           NEW code, NEW format,
           \/ code = ConfigurationError /\ CannotStart
           \/ /\ code = AnalysisError /\ ~CannotStart
              /\ FeaturesClash \/ AsksForStranger \/ workspace = "fails",
           format = IF ~Undiscoverable /\ file.text = "parsed" /\ ~Invalid
                    THEN Formatted ELSE args.format,
           Fail(code, format)
    PROVE  IInv'
<1> USE DEF Fail, inputs, ConfigurationError, AnalysisError
<1>0. format \in Format \cup {None}
  BY FilesHaveRules, ArgsAreArgs DEF IInv, Types, Formatted, Or
<1>1. Types'
  BY DEF IInv, Types, Output, Format
<1>2. Stages'
  BY NoneIsNoValue DEF IInv, Stages
<1>3. Loaded'
  BY DEF IInv, Loaded, Invalid, Undiscoverable
<1>4. Prefix'
  BY DEF IInv, Prefix, Sound
<1>5. FromOptions'
  BY DEF IInv, FromOptions, Merged, Unlocatable, Unresolvable
<1>8. Judged'
  BY DEF Judged
<1>6. ExitCodeIsTheOutcome'
  <2>1. /\ ConfigurationIsWrong' <=> ConfigurationIsWrong
        /\ NeedsDirectory' <=> NeedsDirectory
        /\ FeaturesClash' <=> FeaturesClash
        /\ AsksForStranger' <=> AsksForStranger
        /\ UNCHANGED <<directory, workspace, graph>>
    BY DEF ConfigurationIsWrong, Invalid, NeedsDirectory, FeaturesClash, AsksForStranger
  <2> QED BY <2>1 DEF ExitCodeIsTheOutcome, CannotStart
<1>7. OutputFormatIsAsked'
  <2>1. args.format \in Format \cup {None} /\ file.format \in Format
    BY FilesHaveRules, ArgsAreArgs DEF IInv, Types
  <2>2. output' \in Output
    BY <1>1, <1>0 DEF Types, Output, Format
  <2>3. output'.format = IF "json" \in {format, args.format} THEN "json" ELSE "human"
    OBVIOUS
  <2>4. output' # None
    BY <2>2, NoneIsNoValue
  <2>5. ASSUME args.format # None PROVE output'.format = args.format
    BY <2>1, <2>3, <2>5 DEF Formatted, Or, Format
  <2>6. ASSUME args.format = None, args.config \/ directory, file.text = "parsed", ~Invalid
        PROVE  output'.format = file.format
    BY <2>1, <2>3, <2>6, NoneIsNoValue DEF Formatted, Or, Format, Undiscoverable
  <2> QED BY <2>4, <2>5, <2>6 DEF OutputFormatIsAsked, Invalid
<1> QED BY <1>1, <1>2, <1>3, <1>4, <1>5, <1>6, <1>7, <1>8 DEF IInv

\* A stage that passes changes no outcome, so only what the next stage relies
\* on is left to show.
LEMMA PassKeepsOutcome ==
    ASSUME IInv, pc # "exited", NEW stage, Pass(stage), stage # "exited"
    PROVE  /\ exit = None /\ exit' = None /\ pc' # "exited"
           /\ ExitCodeIsTheOutcome'
           /\ OutputFormatIsAsked'
           /\ Judged'
<1>1. exit = None /\ exit' = None /\ pc' # "exited"
  BY DEF IInv, Stages, Pass
<1>2. exit' \notin {0, 1}
  BY <1>1, NoneIsNoValue
<1> QED BY <1>1, <1>2 DEF Judged, ExitCodeIsTheOutcome, OutputFormatIsAsked

LEMMA LoadKeepsInvariant == IInv /\ Load => IInv'
<1> SUFFICES ASSUME IInv, Load PROVE IInv'
  OBVIOUS
<1>1. CASE /\ Undiscoverable \/ file.text # "parsed" \/ Invalid
           /\ Fail(ConfigurationError, args.format)
  <2>1. CannotStart
    BY <1>1 DEF CannotStart, ConfigurationIsWrong, Undiscoverable, NeedsDirectory
  <2>2. pc # "exited" /\ graph = None
    BY DEF Load, IInv, Stages
  <2> QED BY <1>1, <2>1, <2>2, FailKeepsInvariant
<1>2. CASE /\ ~Undiscoverable /\ file.text = "parsed" /\ ~Invalid
           /\ Pass("selectors")
           /\ UNCHANGED <<ids, compiled, options, graph, violated>>
  <2>1. Types' /\ Stages' /\ Loaded'
    BY <1>2 DEF Load, Pass, inputs, IInv, Types, Stages, Loaded, Invalid, Undiscoverable
  <2>2. Prefix' /\ FromOptions'
    BY <1>2 DEF Pass, inputs, IInv, Prefix, Sound, FromOptions, Merged, Unlocatable, Unresolvable
  <2> QED BY <1>2, <2>1, <2>2, PassKeepsOutcome DEF IInv, Load
<1> QED BY <1>1, <1>2 DEF Load

LEMMA CompileSelectorsKeepsInvariant == IInv /\ CompileSelectors => IInv'
<1> SUFFICES ASSUME IInv, CompileSelectors PROVE IInv'
  OBVIOUS
<1>0. ~Undiscoverable /\ file.text = "parsed" /\ ~Invalid /\ pc = "selectors" /\ graph = None
  BY DEF CompileSelectors, IInv, Loaded, Stages
<1>1. CASE (Invalid \/ ~SelectorsLower(file.selectors)) /\ Fail(ConfigurationError, Formatted)
  <2>1. CannotStart
    BY <1>1 DEF CannotStart, ConfigurationIsWrong
  <2> QED BY <1>0, <1>1, <2>1, FailKeepsInvariant
<1>2. CASE /\ ~Invalid /\ SelectorsLower(file.selectors)
           /\ Pass("rules")
           /\ UNCHANGED <<ids, compiled, options, graph, violated>>
  <2>1. Types' /\ Stages' /\ Loaded'
    BY <1>0, <1>2 DEF Pass, inputs, IInv, Types, Stages, Loaded, Invalid, Undiscoverable
  <2>2. Prefix' /\ FromOptions'
    BY <1>2 DEF Pass, inputs, IInv, Prefix, Sound, FromOptions, Merged, Unlocatable, Unresolvable
  <2> QED BY <1>0, <1>2, <2>1, <2>2, PassKeepsOutcome DEF IInv
<1> QED BY <1>1, <1>2 DEF CompileSelectors

LEMMA CompileRuleKeepsInvariant == IInv /\ CompileRule => IInv'
<1> SUFFICES ASSUME IInv, CompileRule PROVE IInv'
  OBVIOUS
<1> DEFINE rule == file.rules[Position]
<1>0. /\ ~Undiscoverable /\ file.text = "parsed" /\ ~Invalid
      /\ pc = "rules" /\ graph = None /\ options = None
  BY DEF CompileRule, IInv, Loaded, Stages
<1>1. /\ compiled \in Seq(Elements(file.rules)) /\ Len(compiled) \in Nat
      /\ DOMAIN compiled = 1..Len(compiled)
      /\ Position \in DOMAIN file.rules /\ rule \in Elements(file.rules)
      /\ Position = Len(compiled) + 1
  BY FilesHaveRules DEF CompileRule, IInv, Types, Position
<1>2. CASE Wrong(rule) /\ Fail(ConfigurationError, Formatted)
  <2>1. ConfigurationIsWrong
    <3>1. CASE rule.id \in ids
      <4>1. PICK i \in DOMAIN compiled : compiled[i].id = rule.id
        BY <3>1 DEF IInv, Prefix
      <4>2. i \in DOMAIN file.rules /\ i # Position /\ file.rules[i].id = rule.id
        BY <1>1, <4>1, FilesHaveRules DEF IInv, Types, Prefix
      <4> QED BY <1>1, <4>2 DEF ConfigurationIsWrong
    <3>2. CASE rule.id \notin ids
      BY <1>1, <1>2, <3>2 DEF Wrong, ConfigurationIsWrong
    <3> QED BY <3>1, <3>2
  <2> QED BY <1>0, <1>2, <2>1, FailKeepsInvariant DEF CannotStart
<1>3. CASE /\ ~Wrong(rule)
           /\ ids' = ids \cup {rule.id}
           /\ compiled' = Append(compiled, rule)
           /\ Pass("rules")
           /\ UNCHANGED <<options, graph, violated>>
  <2>1. Types' /\ Stages' /\ Loaded' /\ FromOptions'
    BY <1>0, <1>1, <1>3
    DEF Pass, inputs, IInv, Types, Stages, Loaded, Invalid, Undiscoverable, FromOptions, Merged,
        Unlocatable, Unresolvable
  <2>2. Prefix'
    <3>1. /\ DOMAIN compiled' = DOMAIN compiled \cup {Position}
          /\ Len(compiled') = Position
          /\ compiled'[Position] = rule
          /\ \A i \in DOMAIN compiled : compiled'[i] = compiled[i] /\ i # Position
      BY <1>1, <1>3
    <3>2. Sound(rule)
      BY <1>3 DEF Wrong, Sound
    <3>3. rule.id \notin ids
      BY <1>3 DEF Wrong
    <3>4. Len(compiled') <= Len(file.rules)
      BY <1>1, <3>1, FilesHaveRules DEF IInv, Types
    <3>5. \A i \in DOMAIN compiled' : compiled'[i] = file.rules[i] /\ Sound(file.rules[i])
      BY <3>1, <3>2 DEF IInv, Prefix
    <3>6. \A i, j \in DOMAIN compiled' : compiled'[i].id = compiled'[j].id => i = j
      BY <3>1, <3>3 DEF IInv, Prefix
    <3>7. ids' = {compiled'[i].id : i \in DOMAIN compiled'}
      BY <1>3, <3>1 DEF IInv, Prefix
    <3> QED BY <1>3, <3>4, <3>5, <3>6, <3>7 DEF Pass, inputs, Prefix, Sound
  <2> QED BY <1>0, <1>3, <2>1, <2>2, PassKeepsOutcome DEF IInv
<1> QED BY <1>2, <1>3 DEF CompileRule

LEMMA MergeKeepsInvariant == IInv /\ Merge => IInv'
<1> SUFFICES ASSUME IInv, Merge PROVE IInv'
  OBVIOUS
<1>0. /\ ~Undiscoverable /\ file.text = "parsed" /\ ~Invalid /\ SelectorsLower(file.selectors)
      /\ pc = "rules" /\ graph = None /\ options = None
  BY DEF Merge, IInv, Loaded, Stages
<1>1. Merged \in AnalysisOptions /\ ~(Merged.allFeatures /\ Merged.noDefaultFeatures)
  BY <1>0, MergeAgrees DEF IInv, Types
<1>2. CASE Unlocatable /\ Fail(ConfigurationError, Formatted)
  <2>1. CannotStart
    BY <1>2 DEF CannotStart, Unlocatable, NeedsDirectory
  <2> QED BY <1>0, <1>2, <2>1, FailKeepsInvariant
<1>3. CASE /\ ~Unlocatable /\ options' = Merged
           /\ Pass("analyze") /\ UNCHANGED <<ids, compiled, graph, violated>>
  <2>1. Len(compiled) = Len(file.rules)
    BY FilesHaveRules DEF Merge, Position, IInv, Types, Prefix
  <2>2. Types' /\ Stages' /\ Loaded'
    BY <1>0, <1>1, <1>3, NoneIsNoValue
    DEF Pass, inputs, IInv, Types, Stages, Loaded, Invalid, Undiscoverable
  <2>3. Prefix'
    BY <1>3 DEF Pass, inputs, IInv, Prefix, Sound
  <2>4. FromOptions'
    BY <1>0, <1>3, <2>1 DEF Pass, inputs, FromOptions, Merged, Unlocatable
  <2> QED BY <1>0, <1>3, <2>2, <2>3, <2>4, PassKeepsOutcome DEF IInv
<1> QED BY <1>1, <1>2, <1>3 DEF Merge

LEMMA AnalyzeKeepsInvariant == IInv /\ Analyze => IInv'
<1> SUFFICES ASSUME IInv, Analyze PROVE IInv'
  OBVIOUS
<1>0. /\ ~Undiscoverable /\ file.text = "parsed" /\ ~Invalid
      /\ pc = "analyze" /\ graph = None /\ options # None
  BY DEF Analyze, IInv, Loaded, Stages
<1>1. ~CannotStart /\ (Unresolvable <=> FeaturesClash \/ AsksForStranger)
  BY <1>0, OptionsCameFromSoundInputs, RefusedOptions
<1>2. CASE (Unresolvable \/ workspace = "fails") /\ Fail(AnalysisError, Formatted)
  BY <1>0, <1>1, <1>2, FailKeepsInvariant
<1>3. CASE /\ ~Unresolvable /\ workspace = "loads"
           /\ graph' \in [edges : SUBSET Dependencies,
                          missing : {"none", IF options.allowIncomplete THEN "warning" ELSE "error"}]
           /\ Pass("check")
           /\ UNCHANGED <<ids, compiled, options, violated>>
  <2>1. graph' \in Graph
    BY <1>3 DEF Graph
  <2>2. Types' /\ Stages' /\ Loaded'
    BY <1>0, <1>3, <2>1, NoneIsNoValue
    DEF Pass, inputs, IInv, Types, Stages, Loaded, Invalid, Undiscoverable
  <2>3. Prefix'
    BY <1>3 DEF Pass, inputs, IInv, Prefix, Sound
  <2>4. FromOptions'
    BY <1>0, <1>3 DEF Pass, inputs, IInv, FromOptions, Merged, Unlocatable, Unresolvable
  <2> QED BY <1>0, <1>3, <2>2, <2>3, <2>4, PassKeepsOutcome DEF IInv
<1> QED BY <1>2, <1>3 DEF Analyze

\* Compiling again what has been compiled cannot fail: CheckRules always reports.
LEMMA CheckKeepsInvariant == IInv /\ CheckRules => IInv'
<1> SUFFICES ASSUME IInv, CheckRules PROVE IInv'
  OBVIOUS
<1>0. /\ ~Undiscoverable /\ file.text = "parsed" /\ ~Invalid /\ pc = "check"
      /\ graph \in Graph /\ options # None /\ graph # None
  BY DEF CheckRules, IInv, Loaded, Stages, Types
<1>1. ~CannotStart /\ ~FeaturesClash /\ ~AsksForStranger /\ workspace = "loads"
  BY <1>0, OptionsCameFromSoundInputs, RefusedOptions DEF IInv, FromOptions
<1>2. CompiledAgain
  BY DEF CompiledAgain, IInv, Prefix, Sound
<1>3. /\ violated' = {i \in DOMAIN compiled : Reports(compiled[i], file.selectors, graph.edges)}
      /\ output' = [stream |-> "stdout", format |-> Formatted]
      /\ exit' = ExitOf(graph.missing, violated')
      /\ pc' = "exited"
      /\ UNCHANGED <<inputs, ids, compiled, options, graph>>
  BY <1>2 DEF CheckRules
<1>4. exit' \in {0, 1, 3}
  BY <1>3 DEF ExitOf, AnalysisError
<1>5. Formatted \in Format
  BY FilesHaveRules, ArgsAreArgs DEF IInv, Types, Formatted, Or
<1>6. Types'
  BY <1>3, <1>4, <1>5 DEF inputs, IInv, Types, Output
<1>7. Stages'
  BY <1>0, <1>3, <1>4, NoneIsNoValue DEF Stages
<1>8. Loaded' /\ Prefix' /\ FromOptions'
  BY <1>0, <1>3
  DEF inputs, IInv, Loaded, Invalid, Undiscoverable, Prefix, Sound, FromOptions, Merged,
      Unlocatable, Unresolvable
<1>11. Judged'
  BY <1>0, <1>3 DEF inputs, Judged
<1>9. ExitCodeIsTheOutcome'
  <2>1. /\ ~ConfigurationIsWrong' /\ ~(NeedsDirectory' /\ ~directory')
        /\ ~FeaturesClash' /\ ~AsksForStranger' /\ workspace' = "loads"
    BY <1>1, <1>3 DEF inputs, CannotStart, ConfigurationIsWrong, Invalid, NeedsDirectory,
                      FeaturesClash, AsksForStranger
  <2>2. graph' = graph /\ file' = file
    BY <1>3 DEF inputs
  <2>3. \A i \in violated' : compiled[i].severity = file.rules[i].severity
    BY <1>3 DEF IInv, Prefix
  <2>4. exit' = 3 <=> graph.missing = "error"
    BY <1>3 DEF ExitOf, AnalysisError
  <2>5. exit' = 1 <=> /\ graph.missing # "error"
                      /\ \E i \in violated' : file.rules[i].severity = "error"
    BY <1>3, <2>3 DEF ExitOf, Succeeds, AnalysisError
  <2> QED BY <1>0, <1>4, <2>1, <2>2, <2>4, <2>5 DEF ExitCodeIsTheOutcome
<1>10. OutputFormatIsAsked'
  <2>1. output' \in Output /\ output'.format = Formatted
    BY <1>3, <1>5 DEF Output
  <2> QED BY <1>3, <2>1, NoneIsNoValue DEF inputs, OutputFormatIsAsked, Formatted, Or
<1> QED BY <1>6, <1>7, <1>8, <1>9, <1>10, <1>11 DEF IInv

-----------------------------------------------------------------------------
THEOREM Inductive == CheckSpec => []IInv
<1>1. CheckInit => IInv
  <2> SUFFICES ASSUME CheckInit PROVE IInv
    OBVIOUS
  <2>1. Types /\ Stages /\ Loaded /\ FromOptions
    BY NoneIsNoValue, InputsAreInputs
    DEF CheckInit, Types, Stages, Loaded, FromOptions, Args, Files
  <2>2. Prefix
    BY <2>1, FilesHaveRules DEF CheckInit, Prefix, Types
  <2>3. ExitCodeIsTheOutcome /\ OutputFormatIsAsked
    BY DEF CheckInit, ExitCodeIsTheOutcome, OutputFormatIsAsked
  <2>4. Judged
    BY NoneIsNoValue DEF CheckInit, Judged
  <2> QED BY <2>1, <2>2, <2>3, <2>4 DEF IInv
<1>2. IInv /\ [CheckNext]_checkVars => IInv'
  <2> SUFFICES ASSUME IInv, [CheckNext]_checkVars PROVE IInv'
    OBVIOUS
  <2>1. CASE UNCHANGED checkVars
    BY <2>1 DEF checkVars, IInv, Types, Judged, Stages, Loaded, Invalid, Prefix, Sound, FromOptions, Merged,
        ExitCodeIsTheOutcome, OutputFormatIsAsked, ConfigurationIsWrong, inputs, Undiscoverable,
        Unlocatable, Unresolvable, NeedsDirectory, FeaturesClash, AsksForStranger
  <2> QED BY <2>1, LoadKeepsInvariant, CompileSelectorsKeepsInvariant, CompileRuleKeepsInvariant,
             MergeKeepsInvariant, AnalyzeKeepsInvariant, CheckKeepsInvariant DEF CheckNext
<1> QED BY <1>1, <1>2, PTL DEF CheckSpec

\* The exit code tells the four outcomes apart, for every file, command line,
\* workspace and current directory, and each of its values has the causes that
\* ExitCodeIsTheOutcome reads off the inputs.
THEOREM ExitCodeIsRight == CheckSpec => []ExitCodeIsTheOutcome
<1>1. IInv => ExitCodeIsTheOutcome
  BY DEF IInv
<1> QED BY <1>1, Inductive, PTL

\* An error is printed in the format asked for, at whatever stage it happens.
THEOREM FormatIsRight == CheckSpec => []OutputFormatIsAsked
<1>1. IInv => OutputFormatIsAsked
  BY DEF IInv
<1> QED BY <1>1, Inductive, PTL

\* No build script or proc macro runs on a configuration with an error.
THEOREM NothingRunsTooEarly == CheckSpec => []NothingRunsOnWrongConfiguration
<1>1. IInv => NothingRunsOnWrongConfiguration
  BY OptionsCameFromSoundInputs DEF NothingRunsOnWrongConfiguration
<1> QED BY <1>1, Inductive, PTL

\* A flag of the command line is never contradicted by what the analysis got.
THEOREM FlagsAlwaysWin == CheckSpec => []FlagsWin
<1>1. IInv => FlagsWin
  <2> SUFFICES ASSUME IInv, options # None PROVE FlagsWin
    BY DEF FlagsWin
  <2>1. /\ args \in Args /\ file \in Files
        /\ options = Merged /\ Merged \in AnalysisOptions
        /\ graph # None =>
              /\ ~Unresolvable
              /\ graph.missing \in {"none", IF options.allowIncomplete THEN "warning" ELSE "error"}
    BY MergeAgrees DEF IInv, Types, Stages, FromOptions, Loaded
  <2>2. /\ HasSettings(args) /\ HasSettings(file)
        /\ ~(args.allFeatures /\ args.noDefaultFeatures)
    BY <2>1, ArgsAreArgs, FilesAreFiles
  <2>3. \A f \in {"packages", "kinds"} :
           options[f] = IF args[f] # {} THEN args[f] ELSE file[f]
    BY <2>1 DEF Merged, Chosen
  <2>4. \A n \in Name : n \in options.features <=>
              \/ \E l \in args.features : n \in l
              \/ args.features = {} /\ \E l \in file.features : n \in l
    BY <2>1 DEF Merged, Chosen, Normalized
  <2>5. \/ args.target # None /\ options.target = args.target
        \/ args.target = None /\ options.target = file.target
    BY <2>1 DEF Merged, Or
  <2>6. /\ args.manifest # None =>
              /\ options.manifest.path = args.manifest
              /\ options.manifest.base # "config"
        /\ args.manifest = None => options.manifest.base # "current"
    BY <2>1 DEF Merged, Located
  <2>7. /\ args.allFeatures => options.allFeatures
        /\ args.noDefaultFeatures => options.noDefaultFeatures /\ ~options.allFeatures
        /\ ~args.allFeatures /\ ~args.noDefaultFeatures =>
              /\ options.allFeatures = file.allFeatures
              /\ options.noDefaultFeatures = file.noDefaultFeatures
    BY <2>1, <2>2 DEF Merged, HasSettings
  <2>8. graph # None =>
              /\ args.allowIncomplete => graph.missing # "error"
              /\ options.allFeatures => options.features = {} /\ ~options.noDefaultFeatures
    BY <2>1, <2>2 DEF Merged, HasSettings, Unresolvable
  <2> QED BY <2>3, <2>4, <2>5, <2>6, <2>7, <2>8 DEF FlagsWin
<1> QED BY <1>1, Inductive, PTL

\* What a rule reports once it is lowered and compiled is what the file says
\* of it, whatever its kind.
LEMMA SoundRulesAreRead ==
    ASSUME file \in Files, SelectorsLower(file.selectors), graph \in Graph,
           NEW r \in Elements(file.rules), Sound(r)
    PROVE  Reports(r, file.selectors, graph.edges) <=> BrokenByFile(r, file.selectors, graph.edges)
<1>1. graph.edges \subseteq Edge /\ IsFiniteSet(graph.edges)
  <2>1. graph.edges \subseteq Dependencies
    BY DEF Graph
  <2> QED BY <2>1, DependenciesAreEdges, FS_Subset
<1>2. ASSUME NEW names, Resolves(names, file.selectors), ReferenceCompiles(names, file.selectors)
      PROVE  Proper(names, file.selectors)
  BY <1>2, FilesAreFiles DEF Resolves, ReferenceCompiles, Proper, SelectorsLower
<1>3. ASSUME NEW named, NamedLower(named, file.selectors), NamedCompile(named, file.selectors)
      PROVE  Proper({l.selector : l \in Elements(named)}, file.selectors)
  BY <1>3, FilesAreFiles DEF NamedLower, NamedCompile, Resolves, Proper, SelectorsLower
<1>4. CASE r.kind = "forbid"
  <2>1. Proper(r.from, file.selectors) /\ Proper(r.to, file.selectors)
    BY <1>2, <1>4 DEF Sound, RuleLowers, RuleCompiles, ReferenceCompiles
  <2> QED BY <1>1, <1>4, <2>1, ForbidIsRead
<1>5. CASE r.kind = "only"
  <2>1. Proper(r.from, file.selectors) /\ Proper(r.allowed, file.selectors)
    BY <1>2, <1>5 DEF Sound, RuleLowers, RuleCompiles, ReferenceCompiles
  <2> QED BY <1>1, <1>5, <2>1, OnlyIsRead
<1>6. CASE r.kind = "layers"
  <2>1. NamedLower(r.layers, file.selectors) /\ NamedCompile(r.layers, file.selectors)
    BY <1>6 DEF Sound, RuleLowers, RuleCompiles
  <2>2. Proper({l.selector : l \in Elements(r.layers)}, file.selectors)
    BY <1>3, <2>1
  <2>3. /\ r.layers \in Seq(Elements(r.layers))
        /\ r.dependencies \in Seq(Elements(r.dependencies))
    BY <1>6, FilesAreFiles
  <2>4. ProperLayers(r, file.selectors)
    BY <2>1, <2>2, <2>3 DEF ProperLayers, NamedCompile
  <2> QED BY <1>1, <1>6, <2>4, LayersAreRead
<1>7. CASE r.kind = "no-cycles"
  <2>1. Proper(r.within, file.selectors)
    BY <1>2, <1>7 DEF Sound, RuleLowers, RuleCompiles
  <2>2. ASSUME r.grouping = "slices"
        PROVE  Proper({l.selector : l \in Elements(r.slices)}, file.selectors)
    BY <1>3, <1>7, <2>2 DEF Sound, RuleLowers, RuleCompiles
  <2>3. /\ r.grouping \in {"components", "modules", "crates", "slices"}
        /\ r.slices \in Seq(Elements(r.slices))
    BY <1>7, FilesAreFiles
  <2>4. ProperCycles(r, file.selectors)
    BY <2>1, <2>2, <2>3 DEF ProperCycles
  <2> QED BY <1>1, <1>7, <2>4, CyclesAreRead
<1> QED BY <1>4, <1>5, <1>6, <1>7, FilesAreFiles

\* From the file to the exit code: for every configuration, command line and
\* graph the run fails exactly if an error rule is broken as the file reads.
THEOREM VerdictIsWhatTheFileSays == CheckSpec => []VerdictFollowsConfiguration
<1>1. IInv => VerdictFollowsConfiguration
  <2> SUFFICES ASSUME IInv, exit \in {0, 1}
               PROVE  exit = 1 <=> \E r \in Elements(file.rules) :
                                      /\ r.severity = "error"
                                      /\ BrokenByFile(r, file.selectors, graph.edges)
    BY DEF VerdictFollowsConfiguration
  <2>1. /\ options # None /\ graph # None
        /\ violated = {i \in DOMAIN compiled : Reports(compiled[i], file.selectors, graph.edges)}
        /\ graph \in Graph /\ file \in Files
        /\ SelectorsLower(file.selectors)
    BY DEF IInv, Types, Judged, Loaded
  <2>2. DOMAIN compiled = DOMAIN file.rules
    BY <2>1, FilesHaveRules DEF IInv, Types, FromOptions
  <2>3. \A i \in DOMAIN file.rules :
          /\ compiled[i] = file.rules[i] /\ Sound(file.rules[i])
          /\ file.rules[i] \in Elements(file.rules)
    BY <2>1, <2>2, FilesHaveRules DEF IInv, Prefix
  <2>4. \A i \in DOMAIN file.rules :
          i \in violated <=> BrokenByFile(file.rules[i], file.selectors, graph.edges)
    BY <2>1, <2>2, <2>3, SoundRulesAreRead
  <2>5. ~ConfigurationIsWrong
    BY <2>1, OptionsCameFromSoundInputs
  <2>6. exit = 1 <=> \E i \in violated : file.rules[i].severity = "error"
    BY <2>1, <2>5, NoneIsNoValue DEF IInv, ExitCodeIsTheOutcome
  <2>7. violated \subseteq DOMAIN file.rules
    BY <2>1, <2>2
  <2> QED BY <2>4, <2>6, <2>7 DEF Elements
<1> QED BY <1>1, Inductive, PTL
=============================================================================

----------------------------- MODULE Configuration -----------------------------
(***************************************************************************)
(* The selectors and rules of a bylaw.toml and what they are lowered to:   *)
(* SelectorConfig, SelectorReference and RuleConfig of                     *)
(* bylaw-config/src/lib.rs, and BuiltInRuleSpec::compile, which looks at   *)
(* what they were lowered to, of bylaw-core/src/builtin.rs.                *)
(*                                                                         *)
(* Whatever is wrong ends the command in the same way, so an error is a    *)
(* FALSE here; nothing depends on which of several is found first.  A list *)
(* of the file whose order says nothing is a set.                          *)
(***************************************************************************)
EXTENDS RuleConditions, FiniteSets

CONSTANT
    PatternMeans \* path pattern -> the modules it matches (PathPattern); a
                 \* string outside of its domain is refused by it
ASSUME PatternsMatchModules ==
    \A p \in DOMAIN PatternMeans : PatternMeans[p] \subseteq Module

\* A name that is missing or blank.
Blank == ""

-----------------------------------------------------------------------------
(* Selectors *)

Fields == {"packages", "crates", "modules", "externalCrates", "targetKinds", "componentKinds"}

\* SelectorConfig: a set of values for each field.
IsSelectorConfig(c) ==
    /\ DOMAIN c = Fields
    /\ c.componentKinds \subseteq {"crate", "module", "external-crate"}

\* The compiled form of one field.
Matcher(c, field) ==
    CASE field = "packages" -> Packages(c.packages)
      [] field = "crates" -> Crates(c.crates)
      [] field = "modules" -> Modules(UNION {PatternMeans[p] : p \in c.modules \cap DOMAIN PatternMeans})
      [] field = "externalCrates" -> ExternalCrates(c.externalCrates)
      [] field = "targetKinds" -> TargetKinds(c.targetKinds)
      [] field = "componentKinds" -> ComponentKinds(c.componentKinds)

Given(c) == {f \in Fields : c[f] # {}}

\* SelectorConfig::lower: no blank values, and some value.
SelectorLowers(c) ==
    /\ Blank \notin c.packages \cup c.crates \cup c.modules \cup c.externalCrates
    /\ Given(c) # {}

\* Defect: fields are alternatives, like the values in them.
AnyField(c) == AnyOf({Matcher(c, f) : f \in Given(c)})

\* What it lowers to, once compiled.
Selector(c) == AllOf({Matcher(c, f) : f \in Given(c)})

\* Compiling it reads its patterns.
SelectorCompiles(c) == c.modules \subseteq DOMAIN PatternMeans

\* The loop over the selectors in Config::compile.
SelectorsLower(selectors) ==
    \A n \in DOMAIN selectors : n # Blank /\ SelectorLowers(selectors[n])

\* SelectorReference::resolve
Resolves(names, selectors) == names # {} /\ names \subseteq DOMAIN selectors
Referenced(names, selectors) == AnyOf({Selector(selectors[n]) : n \in names})
ReferenceCompiles(names, selectors) == \A n \in names : SelectorCompiles(selectors[n])

-----------------------------------------------------------------------------
(* Rules *)

\* LayerConfig, of layers and slices, is [name, selector].

\* lower_named_selectors
NamedLower(named, selectors) ==
    \A l \in Elements(named) : l.name # Blank /\ Resolves({l.selector}, selectors)

\* RuleConfig::lower.  Slices are looked at when the grouping asks for them.
RuleLowers(rule, selectors) ==
    CASE rule.kind = "forbid" -> Resolves(rule.from, selectors) /\ Resolves(rule.to, selectors)
      [] rule.kind = "only" -> Resolves(rule.from, selectors) /\ Resolves(rule.allowed, selectors)
      [] rule.kind = "layers" -> NamedLower(rule.layers, selectors)
      [] rule.kind = "no-cycles" ->
           /\ rule.grouping = "slices" =>
                NamedLower(rule.slices, selectors) /\ rule.slices # <<>>
           /\ Resolves(rule.within, selectors)

\* compile_named_selectors
NamedCompile(named, selectors) ==
    /\ \A i, j \in DOMAIN named : named[i].name = named[j].name => i = j
    /\ \A l \in Elements(named) : SelectorCompiles(selectors[l.selector])

\* BuiltInRuleSpec::compile of what a rule was lowered to.
RuleCompiles(rule, selectors) ==
    CASE rule.kind = "forbid" -> ReferenceCompiles(rule.from \cup rule.to, selectors)
      [] rule.kind = "only" -> ReferenceCompiles(rule.from \cup rule.allowed, selectors)
      [] rule.kind = "layers" ->
           /\ NamedCompile(rule.layers, selectors)
           /\ LayersError(rule.layers, rule.dependencies) = "Ok"
      [] rule.kind = "no-cycles" ->
           /\ rule.grouping = "slices" => NamedCompile(rule.slices, selectors)
           /\ ReferenceCompiles(rule.within, selectors)

Named(named, selectors) ==
    [i \in DOMAIN named |->
        [name |-> named[i].name, selector |-> Selector(selectors[named[i].selector])]]

\* The groups of a component under a no-cycles rule: groups_for, of which
\* GroupedGraph has the details.  The ids that the analyzer gives differ in
\* their texts, so a text is as good as an id here.
SelectedCrates(within) == {IF c \in Module THEN CrateOf[c] ELSE c : c \in within \cap Workspace}
GroupsOf(rule, selectors, c) ==
    LET within == Referenced(rule.within, selectors)
    IN  CASE rule.grouping = "components" -> {c} \cap within
          [] rule.grouping = "modules" -> {c} \cap within \cap Module
          [] rule.grouping = "crates" ->
               {IF d \in Module THEN CrateOf[d] ELSE d : d \in {c} \cap Workspace}
                  \cap SelectedCrates(within)
          [] rule.grouping = "slices" ->
               {l.name : l \in {k \in Elements(Named(rule.slices, selectors)) :
                                  c \in k.selector \cap within}}

\* no_cycles_condition reports something unless the groups can be layered
\* (NoCycles: PassesIffLayered).
HasCycle(rule, selectors, edges) ==
    LET dependsOn(g, h) ==
          \E e \in edges : /\ Includes(rule.scopes, e)
                           /\ g \in GroupsOf(rule, selectors, e.origin)
                           /\ h \in GroupsOf(rule, selectors, e.target)
        groups == UNION {GroupsOf(rule, selectors, c) : c \in Component}
    IN  \E S \in (SUBSET groups) \ {{}} : \A g \in S : \E h \in S \ {g} : dependsOn(g, h)

\* Whether the rule, lowered and compiled, reports an edge or a cycle of the
\* graph.
Reports(rule, selectors, edges) ==
    CASE rule.kind = "forbid" ->
           Forbidden(edges, Referenced(rule.from, selectors), Referenced(rule.to, selectors),
                     rule.scopes) # {}
      [] rule.kind = "only" ->
           Disallowed(edges, Referenced(rule.from, selectors),
                      Referenced(rule.allowed, selectors), rule.scopes,
                      rule.allowToolchain, rule.allowSelf) # {}
      [] rule.kind = "layers" ->
           Crossing(edges, Named(rule.layers, selectors), rule.dependencies, rule.scopes) # {}
      [] rule.kind = "no-cycles" -> HasCycle(rule, selectors, edges)

-----------------------------------------------------------------------------
(* What the documentation says of a file: docs/configuration.md *)

\* "Values within a field are alternatives.  Different fields are combined".
\* A field other than external_crates and component_kinds is about workspace
\* components, and one about modules is about them alone.
Fits(c, config) ==
    /\ config.packages = {} \/ (c \in Workspace /\ PackageName[c] \in config.packages)
    /\ config.crates = {} \/ (c \in Workspace /\ CrateName[c] \in config.crates)
    /\ config.modules = {} \/ \E p \in config.modules : c \in PatternMeans[p]
    /\ config.externalCrates = {} \/ (c \in ExternalCrate /\ CrateName[c] \in config.externalCrates)
    /\ config.targetKinds = {} \/ \E k \in config.targetKinds : c \in TargetKinds({k})
    /\ config.componentKinds = {} \/ \E k \in config.componentKinds :
            \/ k = "crate" /\ c \in Crate
            \/ k = "module" /\ c \in Module
            \/ k = "external-crate" /\ c \in ExternalCrate
FitsOne(c, names, selectors) == \E n \in names : Fits(c, selectors[n])

\* A dependency that the rule is broken by.
InScope(e, rule) == rule.scopes = "both" \/ rule.scopes = e.scope
ForbiddenByFile(e, rule, selectors) ==
    /\ FitsOne(e.origin, rule.from, selectors)
    /\ FitsOne(e.target, rule.to, selectors)
NotAllowedByFile(e, rule, selectors) ==
    /\ FitsOne(e.origin, rule.from, selectors)
    /\ ~FitsOne(e.target, rule.allowed, selectors)
    /\ e.origin # e.target
    /\ rule.allowToolchain => e.target \notin Toolchain
    /\ rule.allowSelf /\ {e.origin, e.target} \subseteq Workspace =>
          PackageName[e.origin] # PackageName[e.target]
\* Of several lists for a layer the last one counts.
MayDependOn(a, b, rule) ==
    \E i \in DOMAIN rule.dependencies :
        /\ rule.dependencies[i].from = a.name
        /\ b.name \in rule.dependencies[i].mayDependOn
        /\ \A j \in DOMAIN rule.dependencies : rule.dependencies[j].from = a.name => j <= i
CrossesByFile(e, rule, selectors) ==
    \E a, b \in Elements(rule.layers) :
        /\ Fits(e.origin, selectors[a.selector]) /\ Fits(e.target, selectors[b.selector])
        /\ a # b
        /\ ~MayDependOn(a, b, rule)

\* What a component counts as under a no-cycles rule: itself, its crate if
\* any of that is selected, the slices it is in.
Inside(c, rule, selectors) == FitsOne(c, rule.within, selectors)
Units(c, rule, selectors) ==
    CASE rule.grouping = "components" -> {d \in {c} : Inside(d, rule, selectors)}
      [] rule.grouping = "modules" -> {m \in {c} \cap Module : Inside(m, rule, selectors)}
      [] rule.grouping = "crates" ->
           {k \in Crate : /\ k = c \/ (c \in Module /\ CrateOf[c] = k)
                          /\ \E d \in {k} \cup {m \in Module : CrateOf[m] = k} :
                                Inside(d, rule, selectors)}
      [] rule.grouping = "slices" ->
           {n \in {l.name : l \in Elements(rule.slices)} :
               /\ Inside(c, rule, selectors)
               /\ \E l \in Elements(rule.slices) :
                     l.name = n /\ Fits(c, selectors[l.selector])}

\* A walk over dependencies in scope that leaves a unit and comes back to it;
\* some such walk is no longer than there are units.
CyclicByFile(rule, selectors, edges) ==
    LET hops == UNION {Units(e.origin, rule, selectors) \X Units(e.target, rule, selectors) :
                          e \in {d \in edges : InScope(d, rule)}}
        units == {h[1] : h \in hops}
    IN  \E n \in 2..Cardinality(units) : \E walk \in [0..n - 1 -> units] :
            \A i \in 0..n - 1 : /\ walk[i] # walk[(i + 1) % n]
                                /\ <<walk[i], walk[(i + 1) % n]>> \in hops

BrokenByFile(rule, selectors, edges) ==
    LET relevant == {e \in edges : InScope(e, rule)}
    IN  CASE rule.kind = "forbid" -> \E e \in relevant : ForbiddenByFile(e, rule, selectors)
          [] rule.kind = "only" -> \E e \in relevant : NotAllowedByFile(e, rule, selectors)
          [] rule.kind = "layers" -> \E e \in relevant : CrossesByFile(e, rule, selectors)
          [] rule.kind = "no-cycles" -> CyclicByFile(rule, selectors, edges)
=============================================================================

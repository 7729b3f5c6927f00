# cargo-bylaw: a TLA+ model of its rule engine, its analyzer and its release

cargo-bylaw checks architecture rules ("the domain does not depend on the API",
"these slices have no cycles") on a Cargo workspace.  It imports the workspace
through `cargo metadata` and rust-analyzer into one architecture graph and
evaluates rules on it, either from a test written in Rust (crate `bylaw`) or from
a TOML file (command `cargo bylaw check`).  This directory holds TLA+ modules
translated from that code, TLC configurations that check them, and proofs that
TLAPS checks.  Every definition that stands for code is listed in `PROJECT.json`
under `map`, with the lines it translates.

## The system

| Component | Source | State | Operations |
|---|---|---|---|
| Graph builder, graph | `bylaw-core/src/graph.rs` | packages, components, edges with evidence, diagnostics | `add_package`, `add_component`, `add_dependency`, `add_diagnostic`, `finish` |
| Selectors, edge conditions | `bylaw-core/src/selector.rs`, `builtin.rs` | none | `Selector::evaluate`; `forbid`, `only`, `layers`; the checks of `layers` when it is built |
| Cycle condition | `bylaw-core/src/builtin.rs` | groups, the call stack of the search | `groups_for`, `GroupedGraph::build`, `cycle_events`, `find_cycle`, `find_cycle_from` |
| Path patterns | `bylaw-core/src/selector.rs` | segments; the memo of a match | `PathPattern::new`, `matches`, `matches_from` |
| Rule evaluation, reports | `bylaw-core/src/rule.rs`, `diagnostic.rs` | none | `RuleSet::evaluate`, `is_success` |
| Fluent API | `bylaw/src/lib.rs` | specs, custom rules, `last_builtin` | rule definitions, modifiers, `compile`, `check` |
| Analyzer | `bylaw-analyzer/src/analyzer.rs` | component, crate and module maps; a builder | stages of `Analyzer::analyze` |
| Syntax walk, cfg | `bylaw-analyzer/src/analyzer.rs` | visited expansions | `add_actual_dependencies`, `walk_syntax_tree`, `classify_path`, `syntax_is_cfg_enabled` |
| Line cache, spans | `bylaw-analyzer/src/analyzer.rs` | lines per file | `LineCache` |
| Configuration | `bylaw-config/src/lib.rs` | ids seen, compiled selectors and rules | `Config::load`, `validate`, `compile`, the lowering of selectors and rules |
| Command | `cargo-bylaw/src/main.rs` | options, report, exit code | `main`, `check`, `discover_config`, `merge_analysis_options`, `current_directory` |
| Release | `scripts/publish-crates.sh`, `.github/workflows/release.yml` | crates.io: uploaded and indexed versions | `crate_exists`, `cargo publish`, `wait_for_index` |
| CI and documentation workflows | `.github/workflows` | none | lists of jobs |
| Examples, fixtures, tests | `examples`, `fixtures`, `tests` | none | read for what they expect |

How they interact.  The command loads and compiles a configuration, merges it
with its flags and calls the analyzer, whose five stages make all calls to one
`GraphBuilder`; `finish` turns the builder into an immutable `ArchitectureGraph`.
`Rules::check` compiles the specs of the rules into a `RuleSet` and evaluates
it on that graph: forbid, only and layers test one edge at a time, no-cycles folds
the graph into groups and searches them.  The report decides the exit code.  All of
this is sequential and calls are synchronous.  The release is the distributed
part: a script that can die anywhere against a registry that answers late.

What is hard about it, and what makes each part correct:

- **Builder.**  It is public and is called in any order by any provider.  Whatever
  sequence of calls, refused ones included, ids must not dangle, evidence must stay
  proper, and the result must not depend on the order in which evidence came.
- **Cycle search.**  A recursive search shares `path` and `active` between its calls
  and has no visited set.  It must end, must undo exactly what a failed descent
  did, and must find a cycle in every component, because `filter_map` would drop a
  component without one in silence.
- **Grouping.**  With overlapping slices one edge connects several pairs of groups.
  The verdict must be the one a reader of the docs would compute from the edges.
- **Edge conditions.**  Scopes, exemptions and overlapping layers interact in one
  filter each; a rule must report what its author reads in it.
- **Fluent API.**  A modifier changes the rule an index points at; built-in and
  custom rules share one list of results, in which none may hide another.
- **Analyzer.**  A stage that skips something must say so (the docs promise that it
  fails closed), and no stage may make the builder refuse a call, which would end
  the analysis.
- **Command.**  Six stages can end a run, some for several reasons, one of which is
  not in the configuration at all (a current directory that is gone); exit code, format
  and options must be right for each.
- **Configuration.**  A file is lowered twice, checked in three places and compiled
  twice.  The rules that run must be the ones that the file reads like.
- **Path patterns.**  `**` makes the matcher search; its memo is keyed by position
  and must neither change an answer nor miss a recomputation.
- **Syntax walk.**  It recurses into what macros expand to, which can be itself; the
  set of visited expansions must stop that without skipping a reference that one of
  two targets has and the other has not.
- **Release.**  Crashes, lost replies, late uploads, index lag and reruns must not
  publish out of order, twice, or incompletely.

`PROJECT.json` lists the hazards one by one, each at its line, with the properties
that guard against it.

## The modules

| Module | Models | Composes | Its state and the code's |
|---|---|---|---|
| `GraphBuilder` | `GraphBuilder`, `finish` | | variables are the fields; `result` is the outcome of the last call; `graph` what `finish` returned |
| `CycleReports` | what a search for cycles promises (abstract) | | components not yet passed; cycles reported |
| `CycleSearch` | `cycle_events`, `find_cycle`, `find_cycle_from` | implements `CycleReports` | the call stack is explicit: frame *i* belongs to `path[i]`, `remaining[i]` is what its loop has yet to see |
| `GroupedGraph` | `GroupedGraph::build`, `groups_for` | | one `Fold` per edge, in the order of the graph |
| `NoCycles` | `no_cycles_condition` | `GroupedGraph`, `CycleSearch` | builds, then searches what was built; `Event` is the report |
| `PathPattern` | `PathPattern::new`, `matches`, `matches_from` | | `calls` is the stack of open calls of `matches_from`, `memo` the memo |
| `RuleConditions` | selectors, forbid, only, layers, build errors | | operators only; a selector is the set of components it matches |
| `Rules` | `Rules`, `RuleSet::evaluate`, `is_success` | `RuleConditions` | the fields of `Rules`, plus the graph, the last report and a history of what was defined |
| `Configuration` | `SelectorConfig`, `SelectorReference`, `RuleConfig` and how they are lowered; `BuiltInRuleSpec::compile` | `RuleConditions` | operators only: what is refused, what is made of the rest, and, stated apart, what the file means to a reader |
| `CheckCommand` | `main`, `check`, `Config::load`/`compile`, the options, exit codes | `Configuration` | one action per stage; a failure carries exit code and format |
| `Analyzer` | `Analyzer::analyze` and `bind_workspace_components` | `GraphBuilder` (INSTANCE, every call an action of it) | one action per round of a stage's loop |
| `Walk` | `add_actual_dependencies`, `walk_syntax_tree`, the predicates on paths and `cfg` | | `stack` is what the walks under way have yet to visit; `visited` is `visited_expansions` |
| `Release` | what a release promises (abstract) | | crates published and indexed |
| `PublishCrates` | the release script, crashes, reruns, crates.io | implements `Release` | `pc` is the place in the script; `uploads` is what is under way, with or without a run that waits for it |
| `*Proofs` | | the module it is named after | theorems |
| `MC*` | values of the constants | | |

Representations.  Ids, group keys, evidence and names are numbers or strings with
the order the code gives them; texts (messages, labels, descriptions) are left out.
The group of a component is the text of its id (`Display` in `GroupedGraph`), which
orders groups otherwise than components and does not say which kind of component it is: a
module and an external crate with one text would be one group.  The ids the analyzer
makes have distinct texts, those of another provider need not, so `MCNoCycles` has two
that share one.
A `BTreeSet` or `BTreeMap` is a set or a function, and a loop over one takes its
least element first wherever the order reaches a result (`CycleSearch`,
`GroupedGraph`).  A selector is its set of components because
`Selector::evaluate` sees nothing but the component; the modules that a pattern
selects are a set in `Configuration` and worked out in `PathPattern`.  What the walk
finds is a set in `Analyzer` and worked out in `Walk`.  Where a module has an
operator introduced by the comment "Defect", it is a plausible bug in the
definition below it; the properties are tested against these, and no
specification uses them.

External, modelled from how the code uses it: `petgraph::kosaraju_scc` (the sets of
mutually reachable groups, `CycleReports!ComponentOf`), cargo metadata and
rust-analyzer (the constants of `Analyzer`; the syntax trees, expansions and `cfg`
options of `Walk`), the analysis as the command sees it (`CheckCommand!Analyze`),
crates.io (`PublishCrates!Index`, `Answer`, `Lose`).

## What the runs show

All passing runs are exhaustive.  They let the system stop, because it does: each
program ends.

- **graph** (`MCGraphBuilder`): two packages, a crate, a module, an external
  crate, two pieces of evidence, up to two edges and one diagnostic.  Every sequence
  of calls, refused calls included, keeps `ReferentialIntegrity` (every id that is
  mentioned is there), `UniqueIds`, `EvidenceIsProper` (no duplicate, no edge
  without evidence), `GraphIsCanonical` (the finished graph is sorted and holds what
  was added, nothing else), and `OnlyGrows` (no call, above all no refused one,
  changes or loses what is there).  Two packages let a module and its crate
  disagree, two edges let a call about one disturb the other.  Packages are
  interchangeable, hence the symmetry.
- **cycles** (`MCCycleSearch`): all graphs of four groups.
  Four allow two components at once, and a component in which the search descends
  into keys it has to give up again.  The search implements
  `CycleReports` (`ImplementsReports`), keeps its bookkeeping
  (`PathIsSimpleWalk`), drops no component, needs only the first start
  (`FirstStartSucceeds`: the loop of `find_cycle` never goes on) and ends.
- **no_cycles** (`MCNoCycles`): every subset of eight edges over two crates, three
  modules and an external crate, the four groupings, three scopes, four `within`
  selections, and two slices that share a component.  A run passes exactly when the
  groups can be layered (`PassesIffLayered`, stated over the edges); what it reports
  is evidenced by edges of the right groups and named by members of the groups.
- **patterns** (`MCPathPattern`): every pattern of up to five segments over a name
  and the two wildcards, shorter ones over two names and those that are refused, on
  every path of up to four segments over two names.  The answer is what the pattern
  means, stated as a way to cut the path into one piece per segment
  (`MatchesByMeaning`); no position is worked out twice
  (`NothingIsWorkedOutTwice`), so the number of calls is bounded by the product
  of the two lengths.  Five segments hold two `**` with segments before,
  between and after them.
- **rules** (`MCRules`): every chain of two rules, out of five specs and two custom
  rules, with all modifiers and checks in between, on a graph that gains edges.
  Two rules are what a modifier can confuse and an id can collide in.
  `ModifiersStayWithTheirRule`; `FailsIffARuleFails` (one result per rule, and the verdict
  that follows from them); `LayersAreForbids` (a layers rule is the forbid rules for its
  directions, where the last of several entries for a layer counts).  What scopes and
  exemptions do to a rule is `VerdictFollowsConfiguration`'s, which reads the file
  independently.
- **check** (`MCCheckCommand`): files that deviate in at most two ways from a proper
  one, since it takes two mistakes to make their order matter, and command lines with at
  most two flags that clap lets through, on files that deviate in at most one way; it
  takes a flag and an option of the file to merge them, and two flags to change what
  both mean. The current directory can be used or not, the workspace loads or not, and
  its graph has any of five dependencies. The deviations are of the options of the file,
  of its selectors and of its second rule, which is of any of the four kinds.
  `VerdictFollowsConfiguration`: a graph that can be judged fails the run exactly if a
  rule of severity error is broken as the file reads (`docs/configuration.md`), whatever
  lowering and compiling made of it. `ExitCodeIsTheOutcome` says of
  the inputs when a run ends with 2 (a wrong configuration, or a current directory that
  is needed and cannot be used) and when the analysis fails with 3 (for one, on features
  that only the merge brings into conflict); 3 is for an incomplete graph as well. `NothingRunsOnWrongConfiguration`: build scripts and procedural macros
  run only after the last check of the configuration. `FlagsWin`: every option of the
  analysis, lists of packages, features and kinds included, is what the flag says, and
  the file's without a flag. `OutputFormatIsAsked`.
- **analyzer** (`MCAnalyzer`): two members, five targets of which two share a root
  file and three share a module file, dependencies of three kinds, one of them on a
  member without a library, an external crate loaded twice, a crate of the
  toolchain; four outcomes of the load, every selection of targets and every owner
  of the shared files.  `BuilderNeverRefuses`, `FailsClosed`, `BindingsAgree`,
  `EdgesHaveCauses` (an edge starts at the component its dependency or reference is in,
  also when targets share files).
- **walk** (`MCWalk`): two targets that share a file under different `cfg` options
  and a third that was not loaded; macros that expand to themselves or each other,
  to nothing or with an error; `cfg` and `cfg_attr` on items and in expansions.
  `FindsWhatIsThere` (exactly the references of a target that are enabled for it,
  wherever macros put them, and a report of what did not expand),
  `NothingIsFoundTwice`, `RecursionIsBounded`, `Terminates`.  Without its set of visited
  expansions the walk would not go round in a circle of states: its stack would grow
  without end, which is what `RecursionIsBounded` refutes after a few calls.
- **publish** (`MCPublishCrates`): the five crates with the dependencies of their
  manifests, two polls for the thirty of the script (one that fails and a last
  one), two faults (one in a run, one in its rerun).  `ImplementsRelease`
  includes that the release completes; `DoneMeansReleased`; `SkipsWhatExists` (after
  any crash, timeout or failed query, a run gets into a second upload of a version only in
  the step in which an upload that outlived its run arrives, and then stops without
  publishing anything).

Three more runs end in a violation on purpose; each shows a place where the code
and its documentation differ.

- **same_layer**: `docs/configuration.md:98-99` says that dependencies within the
  same layer are allowed.  When layers overlap, `layers_condition` reports a
  dependency between two components of one layer if one of them is in another
  layer as well.
- **json_errors**: `docs/configuration.md:29-31` says that the output can be set to
  JSON and that errors then are JSON objects.  `Config::load` validates the file
  itself, and its errors know only the format on the command line; a JSON
  configuration that is refused there gets its error in the human format.
- **generic_args**: `docs/architecture.md:45-47` says that omissions are
  diagnostics rather than silent.  `is_terminal_path` takes every path with a path
  above it for a qualifier, also one in a generic argument (`Vec<foo::Bar>`); the walk
  neither records nor reports it.

A further limit is modelled and not counted as a difference: a source file that two
targets share belongs to one module as far as `Semantics` is concerned, so in
`Analyzer` the references in it become edges of the target that owns it.

### Fairness

- `CycleSearch` has `WF_vars(Next)`: a sequential program takes its next step.
- `Walk` has `WF_vars(Step)`: one thread walks.  An analysis that is aborted ends the
  walk too, but nothing depends on that, so `Abort` has no fairness.
- `PublishCrates` has weak fairness of a step of the running script, of the rerun (a
  release that stopped is started again, as `docs/releasing.md` says it can), and
  of the index for each crate.  Nothing is assumed of crashes, of failed queries
  or of uploads whose run is gone: those may arrive, be lost, or stay under way.
  Faults are bounded by `MaxFaults`; with unbounded ones no release need complete.
- The other specifications are safety only.

## What is proved

TLAPS proves the following for all values of the constants that satisfy the named
assumptions.

**`GraphBuilderProofs`** (assumptions: the kinds of ids are disjoint, evidence is
ranked by numbers).  `IInv` is the conjunction of the module's invariants; they
need each other: that an edge has distinct evidence matters to the order of the
finished list, and that components are unique to the references.  Each action has a
lemma, and sorting has two: an injection of an interval into itself is onto
(from the pigeonhole principle), and hence sorting a list without repetitions gives
a strictly ascending list with the same members.  Theorems: `TypeCorrect`,
`NothingDangles`, `OneComponentPerId`, `EdgesHaveProperEvidence`,
`FinishedGraphIsCanonical`, and the action property `CallsOnlyAdd`.

**`CycleSearchProofs`** (assumption: keys are numbers, finitely many). Two facts carry
it. `CycleThrough`: a component has a simple cycle through any of its keys. Reachability
is defined by sets closed under the edges, so instead of an induction over paths the
proof shows that the keys at the end of a simple path form a closed set. `CycleIsAhead`,
a conjunct of `IInv`: while a component is searched, there is a simple cycle through the
start that agrees with the path up to some frame whose loop has yet to look at the next
key of it; so no return fails the outermost call. Theorems: `TypeCorrect`,
`BookkeepingIsRight`, `EveryComponentIsReported`, `OneStartIsEnough`, and
`ReportsAreCycles`, the safety part of the refinement of `CycleReports`. Termination has
a safety part too: `SearchIsBounded` says that every step takes down a vector that
counts the components and starts that are left and, for each frame from the outermost
inwards, what its loop has yet to see (a failed call puts nothing back into the loops
above it), and `LowerIsWellFounded` that vectors in lexicographic order have no infinite
descent.

**`NoCyclesProofs`** (assumptions: ids and slices are numbered and finite, modules have
crates, edges connect components). The proofs of the search are taken over by INSTANCE.
`Built`, the other half of `IInv`, says what folding has made of the edges seen so far:
exactly their pairs of groups, each with evidence and a representative. Then a cyclic
component admits no layering (its layers would have to ascend all the way around), and
without one the number of groups that a group reaches is a layering. Theorems:
`VerdictIsRight` (the condition passes exactly when the groups can be layered),
`EvidenceIsReal`, `RepresentativesAreMembers`.

**`PathPatternProofs`** (assumptions: patterns and paths are split, names have no
wildcards). The meaning of a pattern speaks of the whole path; `EndFits`, `SegmentFits`
and `ManyFits` relate what it is at a position to what it is at later ones, which is
what the code recurses over. `IInv` says that every answer and every memo entry is the
meaning at its position, that each open call waits for the next one and knows of the
alternatives it has given up that they do not fit, and that no position is open twice.
Theorems: `TypesAreRight`, `MatcherIsRight`, `MemoBoundsTheWork`.

**`RulesProofs`** is about rules, from both of their sources (assumptions: definitions
are specs, edges are edges; patterns match modules; command lines and files have the
fields clap and serde give them; a graph has finitely many dependencies).

First the fluent API (`Rules`).  `ChainInv` says that `last_builtin`, unless it is none, is
the last spec and the last thing the chain defined.  Theorems: `ModifiersAreLocal`;
`LayersAreForbidRules`, for all components, selectors, layers and entries;
`VerdictsAreFaithful`, which rests on lemmas that distinct ids give every rule a result of
its own.

Then lowering (`Configuration`).  `SelectorsAreRead`: a selector that is accepted is lowered
to the components its documentation describes.  On it rest `ReferencesAreRead` and, for each
kind of rule, that a rule that is accepted reports what the file says it does:
`ForbidIsRead`, `OnlyIsRead`, `LayersAreRead` (of several lists for a layer the last one
counts) and `CyclesAreRead`.  In the last, what the code looks for is a set of groups that
reach each other and what the file means is a walk that comes back to where it started.
The link is a set of units with a hop out of each to another one inside.  The units on a
closed walk are one, and `WalkAround` is the other way: in such a set there are walks of
every length (otherwise there would be a least length without one), and since it is
finite, the dependencies being so, a walk with as many hops as it has members meets a unit
twice; what is between is a walk around.  `GroupsAreUnits` relates the groups of the code
to the units of the file.

Last the command (`CheckCommand`, whose specification is `CheckSpec`).  No
stage looks again at what an earlier one checked, so `IInv`
has a conjunct per stage for what has been looked at by then: the file is sound once
loaded, the rules up to the current one compile, the options come from file and
flags, the exit code is that of the stage that ended the run.  Theorems:
`ExitCodeIsRight`, `FormatIsRight`, `NothingRunsTooEarly`, `FlagsAlwaysWin`, and
`VerdictIsWhatTheFileSays`, which brings the two together: for rules of all four
kinds and graphs of any size, the run fails exactly if a rule of severity error is broken
as the file reads.

**`AnalyzerProofs`** (assumptions: Cargo's targets are told apart by package, kind and
name, and are finitely many; the crates and the modules of rust-analyzer are disjoint;
`None` is nothing else). Ids of different kinds are tuples of different lengths, and the
ids of two targets differ. What makes the stages of `analyze` work together is never
checked by the code: each relies on what the ones before it registered. In `IInv`,
`Stages` relates `todo`, what the stage under way has yet to see, to what is registered;
`Imports` says that every component is one of a target, of a module or from outside;
`Bindings` that crates and modules are bound to what is registered, `CratesAreBound` that no crate
that was loaded is without a component once that stage is over; `Answers` that what
a stage has seen is in the graph or told of; `EdgesAreBacked` that an edge has a
sequence of evidence of the inputs. Theorems: `TypeCorrect`, `NothingIsRefused`,
`NothingIsLeftOut`, `BindingsAreRight`, `EdgesAreCaused`.

**`PublishCratesProofs`** (assumptions: the script lists every crate, dependencies
first). `DoneMeansReleased` is not inductive by itself. `IInv` adds what the script
relies on: crates before the current one are in the index, an upload (even an orphan)
left after its dependencies were in the index, an upload has a run waiting for it only
while that run is at its crate, only a release that may be published gets past the
checks. Theorems: `TypeCorrect`, `SuccessIsComplete`, and `ReleasesInOrder`, the safety
part of the refinement: initial states map to initial states of `Release` and every step
to a step of it or a stutter. `RerunsSkipWhatExists` is `SkipsWhatExists` for any number of
polls, faults and reruns; from `IInv` it follows action by action, since a version that
is about to be uploaded in vain is that of the current crate.

**`WalkProofs`** (assumptions: nodes are numbered in preorder; they and the targets are
finitely many; the children of a macro call are its path and attributes, because its
arguments are a node with nothing but tokens in it, which the walk has no use for and the
model leaves out; a target that has files has
`cfg` options; an expansion is not a file of the workspace, because rust-analyzer
numbers the two apart). `Ancestors` is a recursive function; `AncestorsOf` gets its
equation, and `TreeInduction` takes the least node for which a claim fails where one
would use induction over the tree. `IInv` says at any moment of the walk of a target
what has become of its nodes: those of the trees started are open, each in one frame of
the stack, or done with (`Done`), and what is found for the target is what there is to
be found at the latter (`FoundAt`). An expansion of a node that is done with is in
`visited`, so when no frame and no file is left the trees started are closed under
expansion and, being among them, are `TreesOf(target)`, the least such set. Frames are
disjoint and hold with a node the attribute items above it; that is why the node that is
entered next has not been found before, and why skipping an item never takes more than
its subtree away. Every action has a lemma, and the four that enter a node share
`StepKeepsInvariant`. Theorems: `Inductive`, `NothingTwice`, and `WalkIsExact`:
soundness and completeness of the walk for all trees, attributes, expansions and
targets. `WalkIsBounded` is the safety part of `Terminates`: every step lowers
`StepsLeft`, a number that starts at about two for each target and each node and file of
it, because a node that was entered or skipped is never ahead again. `DepthIsBounded`
rests on `CallsAreVisits`: every call but the first has put an expansion of its own into
`visited`.

Only model-checked:

- liveness (`Terminates` of the search and of the walk, the completion of a release in
  `ImplementsRelease`, the progress in `ImplementsReports`): liveness under fairness
  is beyond TLAPS.  Of the two `Terminates` it is proved that only finitely many steps can
  be taken; that a step can be taken until the end is what remains to TLC;
- the three properties that the runs refute: their counterexamples are what there is to
  show.

All other properties of the runs are stated by a theorem.

## What is not modelled, and why

- **Line cache and spans.**  Pure input and arithmetic on one file.
- **Two states of the analyzer that its inputs leave out.**  A selected member for which
  the resolve graph has no node is passed over in silence by the code
  (`add_declared_dependencies`); cargo resolves every member, and in `Analyzer` such a
  member is one that requires nothing.  If the builder refused an external component,
  the dependency would become a diagnostic (`.ok()`); `AddRequired` has that branch, and
  `BuilderNeverRefuses` shows that it is not taken.
- **Kinds of references.**  `Walk` says whether `classify_path` has a kind for a
  path, and so whether it is recorded, not which; the kind is a label of the evidence.
- **TOML parsing, clap.**  Their outcomes are inputs of `CheckCommand`: a file is
  missing, malformed or parsed; clap refuses the pair of conflicting flags.
- **Rendering** of reports and JSON envelopes, positions of errors in the file,
  `because`, `described_as`: formatting.
- **CI and documentation workflows**: linear lists of jobs without state.

## Plan

The order follows what a wrong verdict would cost: first what every rule stands on
(the graph), then the conditions, then what feeds and surrounds them.

Done: `GraphBuilder`, `CycleReports`/`CycleSearch`, `GroupedGraph`/`NoCycles`,
`PathPattern`, `RuleConditions`/`Rules`, `Configuration`/`CheckCommand`, `Analyzer`,
`Walk`, `Release`/`PublishCrates`, and the eight proof modules.

Left, in this order:

1. A composition of `Walk` and `Analyzer`, in which the references of the one are
   what the other has found and the owner of a shared file decides at each node.
2. The release without faults: a measure like those of the search and the walk, so that
   the script itself ends.

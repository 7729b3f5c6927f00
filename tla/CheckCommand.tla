---------------------------- MODULE CheckCommand ----------------------------
(***************************************************************************)
(* One run of `cargo bylaw check`: main and check of                       *)
(* cargo-bylaw/src/main.rs, with the stages they call: Config::load and    *)
(* Config::compile (bylaw-config/src/lib.rs), ResolvedOptions::from_options*)
(* (bylaw-analyzer/src/analyzer.rs) and Rules::check (bylaw/src/lib.rs).   *)
(*                                                                         *)
(* Each stage either passes what it made to the next one or ends the run   *)
(* with a Failure, which fixes the exit code and the format of the error.  *)
(* Rules are checked twice: compile builds every rule and throws the       *)
(* result away, and Rules::check builds them again after the analysis.     *)
(*                                                                         *)
(* External are the workspace, which loads or not, and whose graph can be  *)
(* incomplete and have any of the Dependencies (what a rule reports of     *)
(* them is worked out from the file, see Configuration), and the current   *)
(* directory, which can be gone or have a name that is not UTF-8.          *)
(***************************************************************************)
EXTENDS Configuration

CONSTANTS
    Inputs,       \* what runs start from: [args, file, directory, workspace]
    Dependencies, \* edges the graph of the workspace may have
    Members,      \* names of the workspace packages
    Name,         \* names of packages and features, target triples
    Path,         \* manifest paths
    Absolute,     \* the absolute ones among them
    None          \* Option::None

Args == {i.args : i \in Inputs}   \* command lines, as clap lets them through
Files == {i.file : i \in Inputs}  \* configurations

Format == {"human", "json"}
Kind == {"library", "binary", "test", "example", "bench", "build-script", "proc-macro"}
CargoToml == "Cargo.toml"

ASSUME InputsAreInputs ==
    \A i \in Inputs : i.directory \in BOOLEAN /\ i.workspace \in {"loads", "fails"}
ASSUME CargoTomlIsPath == CargoToml \in Path

\* What command line and file can both set.  Lists are sets; an entry of a
\* list of features can hold several, with commas or blanks between them, or
\* none.  (The file alone says whether to run proc macros and build scripts.)
HasSettings(r) ==
    /\ r.manifest \in Path \cup {None}
    /\ r.packages \subseteq Name
    /\ r.features \subseteq SUBSET Name
    /\ r.target \in Name \cup {None}
    /\ r.kinds \subseteq Kind
    /\ {r.allFeatures, r.noDefaultFeatures, r.allowIncomplete} \subseteq BOOLEAN

ASSUME ArgsAreArgs ==
    \A a \in Args :
        /\ HasSettings(a)
        /\ a.config \in BOOLEAN    \* --config is given
        /\ a.format \in Format \cup {None}
        /\ ~(a.allFeatures /\ a.noDefaultFeatures)

ASSUME FilesAreFiles ==
    \A f \in Files :
        /\ HasSettings(f)
        /\ f.text \in {"missing", "malformed", "parsed"}
        /\ f.version \in BOOLEAN   \* the version is supported
        /\ f.format \in Format
        /\ f.rules \in Seq(Elements(f.rules))
        /\ \A n \in DOMAIN f.selectors : IsSelectorConfig(f.selectors[n])
        /\ \A r \in Elements(f.rules) :
              /\ r.kind \in {"forbid", "only", "layers", "no-cycles"}
              /\ r.severity \in Severity /\ r.scopes \in Scopes
              /\ r.kind = "layers" =>
                    /\ r.layers \in Seq(Elements(r.layers))
                    /\ r.dependencies \in Seq(Elements(r.dependencies))
              /\ r.kind = "no-cycles" =>
                    /\ r.grouping \in {"components", "modules", "crates", "slices"}
                    /\ r.slices \in Seq(Elements(r.slices))
ASSUME DependenciesAreEdges == Dependencies \subseteq Edge /\ IsFiniteSet(Dependencies)

\* What the stages hand on.
AnalysisOptions ==
    [manifest : [base : {"root", "config", "current"}, path : Path],
     packages : SUBSET Name, features : SUBSET Name, target : Name \cup {None},
     kinds : SUBSET Kind,
     allFeatures : BOOLEAN, noDefaultFeatures : BOOLEAN, allowIncomplete : BOOLEAN]
Graph == [edges : SUBSET Dependencies, missing : {"none", "warning", "error"}]
Output == [stream : {"stdout", "stderr"}, format : Format]
ASSUME NoneIsNoValue ==
    /\ None \notin Format /\ None \notin 0..3
    /\ None \notin Path /\ None \notin Name
    /\ None \notin AnalysisOptions
    /\ None \notin Graph
    /\ None \notin Output

VARIABLES
    args, file,
    directory, \* the current directory can be used
    workspace, \* whether cargo metadata and rust-analyzer load the workspace
    pc,        \* the stage that runs next, "exited" at the end
    ids,       \* rule ids that compile has seen
    compiled,  \* rules that compile has accepted
    options,   \* AnalysisOptions, once merged
    graph,     \* the analyzed graph, once there is one: [edges, missing],
               \* missing the severity of what could not be seen, or "none"
    violated,  \* positions of the rules that report a violation
    output,    \* what was printed: [stream, format]
    exit       \* the exit code

inputs == <<args, file, directory, workspace>>
checkVars == <<inputs, pc, ids, compiled, options, graph, violated, output, exit>>

-----------------------------------------------------------------------------

Or(option, default) == IF option = None THEN default ELSE option

\* The format of a run that got past Config::load.
Formatted == Or(args.format, file.format)

\* Defect: an error is always printed for people.
FailForPeople(code, format) ==
    /\ exit' = code
    /\ output' = [stream |-> "stderr", format |-> "human"]
    /\ pc' = "exited"
    /\ UNCHANGED <<inputs, ids, compiled, options, graph, violated>>

\* A stage fails and main prints the error: as JSON if the failure or the
\* command line says so.
Fail(code, format) ==
    /\ exit' = code
    /\ output' = [stream |-> "stderr",
                  format |-> IF "json" \in {format, args.format} THEN "json" ELSE "human"]
    /\ pc' = "exited"
    /\ UNCHANGED <<inputs, ids, compiled, options, graph, violated>>

\* ExitStatus, of a Failure or of an incomplete graph.
ConfigurationError == 2
AnalysisError == 3

CheckInit ==
    /\ \E i \in Inputs : /\ args = i.args /\ file = i.file
                         /\ directory = i.directory /\ workspace = i.workspace
    /\ pc = "load"
    /\ ids = {}
    /\ compiled = <<>>
    /\ options = None
    /\ graph = None
    /\ violated = {}
    /\ output = None
    /\ exit = None

\* Config::validate
Invalid ==
    \/ ~file.version
    \/ file.allFeatures /\ file.noDefaultFeatures
    \/ file.kinds = {}

Pass(stage) == pc' = stage /\ UNCHANGED <<inputs, output, exit>>

\* discover_config: without --config a file is looked for in the current
\* directory and its ancestors.
Undiscoverable == ~args.config /\ ~directory

\* discover_config and Config::load; the format of the file is not used yet.
Load ==
    /\ pc = "load"
    /\ \/ /\ Undiscoverable \/ file.text # "parsed" \/ Invalid
          /\ Fail(ConfigurationError, args.format)
       \/ /\ ~Undiscoverable /\ file.text = "parsed" /\ ~Invalid
          /\ Pass("selectors")
          /\ UNCHANGED <<ids, compiled, options, graph, violated>>

\* Config::compile: validate again, then the selectors, ...
CompileSelectors ==
    /\ pc = "selectors"
    /\ \/ /\ Invalid \/ ~SelectorsLower(file.selectors)
          /\ Fail(ConfigurationError, Formatted)
       \/ /\ ~Invalid /\ SelectorsLower(file.selectors)
          /\ Pass("rules")
          /\ UNCHANGED <<ids, compiled, options, graph, violated>>

Position == Len(compiled) + 1

\* Defect: a rule is taken without a trial build.
WrongUntilBuilt(rule) ==
    \/ rule.id = Blank \/ rule.id \in ids
    \/ ~RuleLowers(rule, file.selectors)

Wrong(rule) ==
    \/ rule.id = Blank \/ rule.id \in ids
    \/ ~(RuleLowers(rule, file.selectors) /\ RuleCompiles(rule, file.selectors))

\* ... then one rule after the other.
CompileRule ==
    /\ pc = "rules"
    /\ Position <= Len(file.rules)
    /\ \/ /\ Wrong(file.rules[Position])
          /\ Fail(ConfigurationError, Formatted)
       \/ /\ ~Wrong(file.rules[Position])
          /\ ids' = ids \cup {file.rules[Position].id}
          /\ compiled' = Append(compiled, file.rules[Position])
          /\ Pass("rules")
          /\ UNCHANGED <<options, graph, violated>>

\* Defect: the entries of command line and file are put together.
ChosenTogether(given, configured) == given \cup configured

\* A list of the command line replaces that of the file.
Chosen(given, configured) == IF given = {} THEN configured ELSE given

\* normalize_features
Normalized(features) == UNION features

\* A relative path starts at the directory that base names.
Located(path, base) == [base |-> IF path \in Absolute THEN "root" ELSE base, path |-> path]

\* merge_analysis_options: a flag of the command line overrides the file.
Merged ==
    [manifest |-> IF args.manifest # None THEN Located(args.manifest, "current")
                  ELSE Located(Or(file.manifest, CargoToml), "config"),
     packages |-> Chosen(args.packages, file.packages),
     features |-> Normalized(Chosen(args.features, file.features)),
     target |-> Or(args.target, file.target),
     kinds |-> Chosen(args.kinds, file.kinds),
     allFeatures |-> args.allFeatures \/ (~args.noDefaultFeatures /\ file.allFeatures),
     noDefaultFeatures |->
        args.noDefaultFeatures \/ (~args.allFeatures /\ file.noDefaultFeatures),
     allowIncomplete |-> args.allowIncomplete \/ file.allowIncomplete]

\* current_directory is asked for where a flag gives a relative path.
Unlocatable == args.manifest \notin Absolute \cup {None} /\ ~directory

Merge ==
    /\ pc = "rules"
    /\ Position > Len(file.rules)
    /\ \/ /\ Unlocatable \/ (Merged.allFeatures /\ Merged.noDefaultFeatures)
          /\ Fail(ConfigurationError, Formatted)
       \/ /\ ~Unlocatable /\ ~(Merged.allFeatures /\ Merged.noDefaultFeatures)
          /\ options' = Merged
          /\ Pass("analyze")
          /\ UNCHANGED <<ids, compiled, graph, violated>>

\* ResolvedOptions::from_options and resolve_selected_packages
Unresolvable ==
    \/ options.kinds = {}
    \/ options.allFeatures /\ (options.noDefaultFeatures \/ options.features # {})
    \/ ~(options.packages \subseteq Members)

\* analyze_workspace: refuse the options; fail on the workspace; or import it,
\* running its build scripts and proc macros, completely or not.
Analyze ==
    /\ pc = "analyze"
    /\ \/ /\ Unresolvable \/ workspace = "fails"
          /\ Fail(AnalysisError, Formatted)
       \/ /\ ~Unresolvable /\ workspace = "loads"
          /\ graph' \in [edges : SUBSET Dependencies,
                         missing : {"none", IF options.allowIncomplete THEN "warning" ELSE "error"}]
          /\ Pass("check")
          /\ UNCHANGED <<ids, compiled, options, violated>>

\* Rules::compile over what Config::compile handed on.
CompiledAgain ==
    /\ \A i \in DOMAIN compiled :
          compiled[i].id # Blank /\ RuleCompiles(compiled[i], file.selectors)
    /\ \A i, j \in DOMAIN compiled : compiled[i].id = compiled[j].id => i = j

\* EvaluationReport::is_success, and the exit code check makes of the report.
Succeeds(severity, broken) ==
    severity # "error" /\ \A i \in broken : compiled[i].severity # "error"

\* Defect: violations win over an incomplete analysis.
ExitOfViolations(severity, broken) ==
    IF Succeeds("none", broken) THEN (IF severity = "error" THEN AnalysisError ELSE 0) ELSE 1

ExitOf(severity, broken) ==
    IF severity = "error" THEN AnalysisError
    ELSE IF Succeeds(severity, broken) THEN 0 ELSE 1

\* Rules::check, then the report.
CheckRules ==
    /\ pc = "check"
    /\ \/ /\ ~CompiledAgain
          /\ Fail(ConfigurationError, Formatted)
       \/ /\ CompiledAgain
          /\ violated' = {i \in DOMAIN compiled :
                             Reports(compiled[i], file.selectors, graph.edges)}
          /\ output' = [stream |-> "stdout", format |-> Formatted]
          /\ exit' = ExitOf(graph.missing, violated')
          /\ pc' = "exited"
          /\ UNCHANGED <<inputs, ids, compiled, options, graph>>

CheckNext ==
    \/ Load
    \/ CompileSelectors
    \/ CompileRule
    \/ Merge
    \/ Analyze
    \/ CheckRules

CheckSpec == CheckInit /\ [][CheckNext]_checkVars

-----------------------------------------------------------------------------
(* Properties *)

\* Something is wrong with the configuration, whichever stage looks at it.
\* A selector is looked at where it is used: a pattern nobody uses is not read.
ConfigurationIsWrong ==
    \/ file.text # "parsed" \/ Invalid \/ ~SelectorsLower(file.selectors)
    \/ \E r \in Elements(file.rules) :
          \/ r.id = Blank
          \/ ~(RuleLowers(r, file.selectors) /\ RuleCompiles(r, file.selectors))
    \/ \E i, j \in DOMAIN file.rules : i # j /\ file.rules[i].id = file.rules[j].id

\* The run cannot do without a current directory: to look for a configuration,
\* or to place a manifest path of the command line.
NeedsDirectory == ~args.config \/ args.manifest \notin Absolute \cup {None}

\* The features asked for contradict each other: all of them, and a list.  The
\* command line can ask for all, the file for a list, and the other way round.
FeaturesClash ==
    /\ args.allFeatures \/ (file.allFeatures /\ ~args.noDefaultFeatures)
    /\ IF args.features = {} THEN \E l \in file.features : l # {}
                             ELSE \E l \in args.features : l # {}

\* A package is asked for that the workspace does not have.
AsksForStranger ==
    \E p \in IF args.packages = {} THEN file.packages ELSE args.packages : p \notin Members

\* The exit code tells the four outcomes of docs/configuration.md apart,
\* though six stages decide it.  2 is for a wrong configuration, or a current
\* directory that is needed and cannot be used, and for nothing else.  3 is for
\* an analysis that failed, because its options contradict each other or name a
\* package that is not there or because the workspace does not load, and for
\* one that missed something, unless allowed (also when rules are broken).
\* 1 is for broken error rules.
ExitCodeIsTheOutcome ==
    LET wrong == ConfigurationIsWrong \/ (NeedsDirectory /\ ~directory)
        failed == FeaturesClash \/ AsksForStranger \/ workspace = "fails"
        complete == graph # None /\ graph.missing # "error"
    IN  exit # None =>
            /\ exit = 2 <=> wrong
            /\ exit = 3 <=> ~wrong /\ (failed \/ ~complete)
            /\ ~wrong /\ ~failed => graph # None
            /\ exit = 1 <=> complete /\ \E i \in violated : file.rules[i].severity = "error"

\* The verdict is the one docs/configuration.md lets the author of the file
\* expect: with the graph complete enough to judge, the run fails exactly if
\* a rule of severity error is broken as the file reads, field by field and
\* name by name.  Between the file and the verdict the selectors were lowered,
\* resolved into rules, compiled twice and applied to the edges.
VerdictFollowsConfiguration ==
    exit \in {0, 1} =>
        (exit = 1 <=> \E r \in Elements(file.rules) :
                          /\ r.severity = "error"
                          /\ BrokenByFile(r, file.selectors, graph.edges))

\* Nothing of the workspace runs on a wrong configuration: an analysis, which
\* executes build scripts and proc macros, gets its options only when every
\* error that can be found without the graph has been looked for.
NothingRunsOnWrongConfiguration == options # None => ~ConfigurationIsWrong

\* The command line has the last word: what an analysis is given has what each
\* flag says and nothing else, and the file decides where there is no flag, also
\* where a flag changes what another option of the file means (features).  An
\* analysis that ran never had two ways of choosing features.
FlagsWin ==
    options # None =>
        /\ \A f \in {"packages", "kinds"} :
              options[f] = IF args[f] # {} THEN args[f] ELSE file[f]
        /\ \A n \in Name : n \in options.features <=>
              \/ \E l \in args.features : n \in l
              \/ args.features = {} /\ \E l \in file.features : n \in l
        /\ \/ args.target # None /\ options.target = args.target
           \/ args.target = None /\ options.target = file.target
        /\ args.manifest # None =>
              /\ options.manifest.path = args.manifest
              /\ options.manifest.base # "config"
        /\ args.manifest = None => options.manifest.base # "current"
        /\ args.allFeatures => options.allFeatures
        /\ args.noDefaultFeatures => options.noDefaultFeatures /\ ~options.allFeatures
        /\ ~args.allFeatures /\ ~args.noDefaultFeatures =>
              /\ options.allFeatures = file.allFeatures
              /\ options.noDefaultFeatures = file.noDefaultFeatures
        /\ graph # None =>
              /\ args.allowIncomplete => graph.missing # "error"
              /\ options.allFeatures => options.features = {} /\ ~options.noDefaultFeatures

\* No outcome is silent, and report or error, the output has the format asked
\* for: by the command line in any case, by the file once it has been loaded.
OutputFormatIsAsked ==
    exit # None =>
        /\ output # None
        /\ args.format # None => output.format = args.format
        /\ /\ args.format = None
           /\ args.config \/ directory
           /\ file.text = "parsed" /\ ~Invalid
           => output.format = file.format

\* docs/configuration.md: "Output is `human` by default and can be set to
\* `json`; [...] JSON output uses a top-level `version` field and either a
\* structured `report` or `error` object."  (Of a file of another version
\* nothing is expected.)
JsonFileGivesJson ==
    /\ output # None
    /\ file.text = "parsed" /\ file.version /\ file.format = "json"
    /\ args.format = None
    /\ args.config \/ directory
    => output.format = "json"
=============================================================================

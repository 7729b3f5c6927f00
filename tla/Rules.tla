-------------------------------- MODULE Rules --------------------------------
(***************************************************************************)
(* The fluent rule API (Rules of bylaw/src/lib.rs) and the evaluation of   *)
(* what it builds (RuleSet::evaluate, Rule::evaluate and                   *)
(* EvaluationReport::is_success of bylaw-core).                            *)
(*                                                                         *)
(* A test builds rules by a chain of calls: each defining call appends a   *)
(* rule, and the modifiers that follow change the rule the index           *)
(* last_builtin points at, or panic.  check compiles all rules, which can  *)
(* fail, and evaluates them on a graph.  The caller uses the report, may go *)
(* on with the chain, and the graph may have gained edges by the next      *)
(* check.                                                                  *)
(***************************************************************************)
EXTENDS RuleConditions, FiniteSets

CONSTANTS
    Definitions, \* the specs the defining calls may push
    CustomRule,  \* custom rules: records [id, severity, reports]
    Edges,       \* edges the graph may have
    MaxRules     \* bound on the rules of one chain

ASSUME BoundIsNat == MaxRules \in Nat
ASSUME EdgesAreEdges == Edges \subseteq Edge
ASSUME DefinitionsAreSpecs == Definitions \subseteq RuleSpec
ASSUME CustomRulesReport ==
    CustomRule \subseteq [id : RuleId, severity : Severity, reports : SUBSET Edges]

VARIABLES
    specs,       \* Rules::specs
    custom,      \* Rules::custom
    lastBuiltin, \* Rules::last_builtin, 0 for None
    edges,       \* the graph the next check gets
    checked,     \* result of check until the next call: an error or "report"
    report,      \* EvaluationReport::rule_results when checked = "report"
    chain        \* history: what the calls defined, "builtin" or "custom"

vars == <<specs, custom, lastBuiltin, edges, checked, report, chain>>

\* The caller goes on: the last report is gone.
DropReport == checked' = "none" /\ report' = {}

Ids == [i \in 1..Len(specs) + Len(custom) |->
            IF i <= Len(specs) THEN specs[i].id ELSE custom[i - Len(specs)].id]

-----------------------------------------------------------------------------

\* from_specs: the rules of a configuration; rules() starts with none.
Init ==
    /\ specs \in {<<>>} \cup {<<d>> : d \in Definitions}
    /\ custom = <<>>
    /\ lastBuiltin = Len(specs)
    /\ edges = {}
    /\ checked = "none"
    /\ report = {}
    /\ chain = IF specs = <<>> THEN <<>> ELSE <<"builtin">>

\* forbid_dependencies, only_dependencies, layered
Define(d) ==
    /\ Len(chain) < MaxRules
    /\ specs' = Append(specs, d)
    /\ lastBuiltin' = Len(specs) + 1
    /\ chain' = Append(chain, "builtin")
    /\ DropReport
    /\ UNCHANGED <<custom, edges>>

\* Defect: last_builtin is kept.
CustomKeepsLast(r) ==
    /\ Len(chain) < MaxRules
    /\ custom' = Append(custom, r)
    /\ chain' = Append(chain, "custom")
    /\ DropReport
    /\ UNCHANGED <<specs, lastBuiltin, edges>>

WithCustom(r) ==
    /\ Len(chain) < MaxRules
    /\ custom' = Append(custom, r)
    /\ lastBuiltin' = 0
    /\ chain' = Append(chain, "custom")
    /\ DropReport
    /\ UNCHANGED <<specs, edges>>

\* last_spec_mut: without a built-in rule to change the call panics, and the
\* chain, which it owns, is gone.
Modify(field, value) ==
    /\ lastBuiltin # 0
    /\ specs' = [specs EXCEPT ![lastBuiltin][field] = value]
    /\ DropReport
    /\ UNCHANGED <<custom, lastBuiltin, chain, edges>>

WithSeverity(s) == Modify("severity", s)
ActualDependencies == Modify("scopes", "actual")
DeclaredDependencies == Modify("scopes", "declared")

\* Both panic unless the rule is an allow-list.
AllowList == lastBuiltin # 0 /\ specs[lastBuiltin].kind = "only"
CheckSelfDependencies == AllowList /\ Modify("allowSelf", FALSE)
CheckToolchainDependencies == AllowList /\ Modify("allowToolchain", FALSE)

\* Rules::compile goes through the built-in rules, then the custom ones; these
\* are the positions at which it would fail.
Repeats(i) == \E j \in 1..i - 1 : Ids[j] = Ids[i]
WrongRules ==
    {i \in DOMAIN Ids : Repeats(i) \/ (i <= Len(specs) /\ BuildError(specs[i]) # "Ok")}

Result(id, severity, violations) ==
    [id |-> id, severity |-> severity, violations |-> violations]

\* Defect: custom rules are compiled but not evaluated.
EvaluateBuiltIn == {Result(s.id, s.severity, Reported(s, edges)) : s \in Elements(specs)}

\* RuleSet::evaluate: one result per rule.  The results are sorted, and the
\* rules have distinct ids, so they are a set.
Evaluate ==
    {Result(s.id, s.severity, Reported(s, edges)) : s \in Elements(specs)}
        \cup {Result(r.id, r.severity, edges \cap r.reports) : r \in Elements(custom)}

\* The first failure is returned; without one all rules are evaluated.
Check ==
    /\ \/ /\ WrongRules = {}
          /\ checked' = "report"
          /\ report' = Evaluate
       \/ \E i \in WrongRules :
             /\ \A j \in WrongRules : i <= j
             /\ checked' = IF Repeats(i) THEN "DuplicateRuleId" ELSE BuildError(specs[i])
             /\ report' = {}
    /\ UNCHANGED <<specs, custom, lastBuiltin, edges, chain>>

\* The workspace gains a dependency before the next check.
AddEdge(e) ==
    /\ e \notin edges
    /\ edges' = edges \cup {e}
    /\ DropReport
    /\ UNCHANGED <<specs, custom, lastBuiltin, chain>>

Next ==
    \/ \E d \in Definitions : Define(d)
    \/ \E r \in CustomRule : WithCustom(r)
    \/ \E s \in Severity : WithSeverity(s)
    \/ ActualDependencies
    \/ DeclaredDependencies
    \/ CheckSelfDependencies
    \/ CheckToolchainDependencies
    \/ Check
    \/ \E e \in Edges : AddEdge(e)

Spec == Init /\ [][Next]_vars

\* EvaluationReport::is_success, for a graph without error diagnostics.
IsSuccess == \A q \in report : ~(q.severity = "error" /\ q.violations # {})

-----------------------------------------------------------------------------
(* Properties *)

\* A modifier changes the rule defined right before it and no other: no rule
\* defined earlier, and none that a custom rule separates from the modifier.
ModifiersStayWithTheirRule ==
    [][\A i \in DOMAIN specs :
          specs'[i] # specs[i] => i = Len(specs) /\ chain[Len(chain)] = "builtin"]_vars

\* The verdict of a check hides no rule, whatever the rules, their order and
\* their ids: every rule has exactly one result under its id, with what the rule
\* reports by itself, and the check fails exactly when some rule of severity
\* error, built in or custom, reports something.
FailsIffARuleFails ==
    [][checked' = "report" =>
          /\ \A i \in DOMAIN specs :
                {q \in report' : q.id = specs[i].id} =
                    {Result(specs[i].id, specs[i].severity, Reported(specs[i], edges))}
          /\ \A i \in DOMAIN custom :
                {q \in report' : q.id = custom[i].id} =
                    {Result(custom[i].id, custom[i].severity, edges \cap custom[i].reports)}
          /\ IsSuccess' <=>
                /\ \A i \in DOMAIN specs :
                      specs[i].severity = "error" => Reported(specs[i], edges) = {}
                /\ \A i \in DOMAIN custom :
                      custom[i].severity = "error" => edges \cap custom[i].reports = {}]_vars

\* The last entry for layer a lists layer b.
LastEntryLists(dependencies, a, b) ==
    \E i \in DOMAIN dependencies :
        /\ dependencies[i].from = a
        /\ b \in dependencies[i].mayDependOn
        /\ \A j \in DOMAIN dependencies : dependencies[j].from = a => j <= i

\* A layers rule is the forbid rules for its directions, however its layers
\* overlap and however often a layer has an entry: an edge is reported exactly
\* when a forbid rule between two different layers, the second not in the last
\* entry of the first, would report it.
LayersAreForbids ==
    \A s \in Elements(specs) :
        s.kind = "layers" =>
            Reported(s, edges) =
                UNION {Forbidden(edges, p[1].selector, p[2].selector, s.scopes) :
                          p \in {q \in Elements(s.layers) \X Elements(s.layers) :
                                    /\ q[1].name # q[2].name
                                    /\ ~LastEntryLists(s.dependencies, q[1].name, q[2].name)}}

\* docs/configuration.md: "Dependencies within the same layer are allowed."
SameLayerIsAllowed ==
    \A s \in Elements(specs) :
        s.kind = "layers" =>
            \A e \in Reported(s, edges), l \in Elements(s.layers) :
                ~({e.origin, e.target} \subseteq l.selector)
=============================================================================

------------------------------- MODULE MCRules -------------------------------
(***************************************************************************)
(* A package with a library crate and two of its modules, a package with a *)
(* binary, an external crate and the standard library; a forbid rule, an   *)
(* allow-list, a layers rule, one with overlapping layers and an id that   *)
(* is taken, and one that does not build.                                  *)
(***************************************************************************)
EXTENDS Rules

\* Values of the constants.
TheCrates == {"shop", "app"}
TheModules == {"shop::domain", "shop::api"}
TheExternals == {"serde", "std"}
TheCrateOf == [m \in TheModules |-> "shop"]
ThePackageName == [c \in TheCrates \cup TheModules |-> IF c = "app" THEN "app" ELSE "shop"]
TheCrateName ==
    [c \in TheCrates \cup TheModules \cup TheExternals |->
        IF c \in TheModules THEN "shop" ELSE c]
TheTargetKind == [c \in TheCrates |-> IF c = "app" THEN "binary" ELSE "library"]
TheToolchain == {"std"}

E(o, t, s) == [origin |-> o, target |-> t, scope |-> s]
SomeEdges ==
    {E("shop::domain", "shop::api", "actual"), E("app", "shop", "declared"),
     E("shop::domain", "std", "actual"), E("shop", "serde", "declared"),
     E("app", "app", "actual")}

NewLayer(n, s) == [name |-> n, selector |-> s]
Allow(f, S) == [from |-> f, mayDependOn |-> S]
LayersRule(i, l, d) ==
    [kind |-> "layers", id |-> i, severity |-> "error", scopes |-> "both",
     layers |-> l, dependencies |-> d]

Domain == Modules({"shop::domain"})
Library == TargetKinds({"library"})
App == AnyOf({Crates({"app"}), ExternalCrates({"serde"})})

SomeDefinitions ==
    {[kind |-> "forbid", id |-> "r1", severity |-> "error", scopes |-> "both",
      from |-> AllOf({Packages({"shop"}), ComponentKinds({"module"})}),
      to |-> Not(Domain)],
     [kind |-> "only", id |-> "r2", severity |-> "error", scopes |-> "both",
      from |-> AnyOf({Packages({"shop"}), App}), allowed |-> Library \ Domain,
      allowToolchain |-> TRUE, allowSelf |-> TRUE],
     LayersRule("r3", <<NewLayer("domain", Domain), NewLayer("library", Library \ Domain), NewLayer("app", App)>>,
                <<Allow("app", {"library"}), Allow("app", {"domain"})>>),
     LayersRule("r1", <<NewLayer("domain", Domain), NewLayer("library", Library)>>,
                <<Allow("library", {})>>),
     LayersRule("r4", <<NewLayer("domain", All)>>, <<Allow("domain", {"api"})>>)}

SomeCustom ==
    {[id |-> "r2", severity |-> "warning", reports |-> SomeEdges],
     [id |-> "r5", severity |-> "error", reports |-> {E("app", "shop", "declared")}]}
=============================================================================

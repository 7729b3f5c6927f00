--------------------------- MODULE MCCheckCommand ---------------------------
(***************************************************************************)
(* Command lines and files that differ in a few ways from `cargo bylaw     *)
(* check` and a proper file, over two crates, a module and two external    *)
(* crates: in two ways each file, in two ways each command line, or in     *)
(* three ways both together.                                               *)
(***************************************************************************)
EXTENDS CheckCommand, TLC

\* Values of the constants.
Crate2 == {"shop", "app"}
Domain == {"shop::domain"}
External2 == {"serde", "std"}
CrateOfDomain == ("shop::domain" :> "shop")
Packages2 == ("shop" :> "shop") @@ ("shop::domain" :> "shop") @@ ("app" :> "app")
Names2 == [c \in Crate2 \cup External2 \cup Domain |-> IF c \in Domain THEN "shop" ELSE c]
Kinds2 == ("shop" :> "library") @@ ("app" :> "binary")
Patterns == ("shop::**" :> Domain) @@ ("app::*" :> {})
Std == {"std"}

Dep(o, t, s) == [origin |-> o, target |-> t, scope |-> s]
SomeDependencies ==
    {Dep("shop::domain", "app", "actual"), Dep("shop::domain", "shop", "actual"),
     Dep("app", "shop", "actual"), Dep("shop", "serde", "declared"), Dep("app", "std", "actual")}

SomeMembers == {"shop", "app"}
SomeNames == SomeMembers \cup {"other", "json", "sql", "wasm32", "arm64"}
SomePaths == {"Cargo.toml", "shop/Cargo.toml", "/shop/Cargo.toml"}
SomeAbsolute == {"/shop/Cargo.toml"}

\* Command lines.
PlainArgs ==
    [config |-> FALSE, manifest |-> None, packages |-> {}, features |-> {}, target |-> None,
     kinds |-> {}, allFeatures |-> FALSE, noDefaultFeatures |-> FALSE,
     allowIncomplete |-> FALSE, format |-> None]
ArgsNear(a) ==
    {[a EXCEPT !.config = TRUE], [a EXCEPT !.packages = {"app"}],
     [a EXCEPT !.target = "wasm32"], [a EXCEPT !.kinds = {"binary"}],
     [a EXCEPT !.allFeatures = ~a.noDefaultFeatures],
     [a EXCEPT !.noDefaultFeatures = ~a.allFeatures],
     [a EXCEPT !.allowIncomplete = TRUE]}
        \cup {[a EXCEPT !.manifest = m] : m \in {"shop/Cargo.toml", "/shop/Cargo.toml"}}
        \cup {[a EXCEPT !.features = f] : f \in {{{}}, {{"json"}}}}
        \cup {[a EXCEPT !.format = f] : f \in Format}

\* Selectors.
No == [f \in Fields |-> {}]
ProperSelectors ==
    ("domain" :> [No EXCEPT !.crates = {"shop"}, !.modules = {"shop::**"}])
        @@ ("app" :> [No EXCEPT !.packages = {"app"}, !.targetKinds = {"binary"}])
        @@ ("shop" :> [No EXCEPT !.crates = {"shop"}, !.componentKinds = {"crate"}])
        @@ ("out" :> [No EXCEPT !.externalCrates = {"serde"}])
SelectorTables ==
    {[ProperSelectors EXCEPT !["domain"] = d] :
         d \in {No,                                                   \* no matcher
                [No EXCEPT !.crates = {"shop", Blank}],               \* a blank value
                [No EXCEPT !.modules = {"shop::"}],                   \* no pattern
                [No EXCEPT !.crates = {"shop", "app"}],               \* alternatives
                [No EXCEPT !.modules = {"shop::**", "app::*"}]}}
        \cup {ProperSelectors @@ (Blank :> No),                       \* no name
              ProperSelectors @@ ("unused" :> [No EXCEPT !.modules = {"shop::"}])}

\* Rules.
Rule(id, severity, scopes) == [id |-> id, severity |-> severity, scopes |-> scopes]
Forbid(r, from, to) == r @@ [kind |-> "forbid", from |-> from, to |-> to]
Only(r, from, allowed, toolchain, self) ==
    r @@ [kind |-> "only", from |-> from, allowed |-> allowed,
          allowToolchain |-> toolchain, allowSelf |-> self]
Layers(r, layers, dependencies) ==
    r @@ [kind |-> "layers", layers |-> layers, dependencies |-> dependencies]
Acyclic(r, within, grouping, slices) ==
    r @@ [kind |-> "no-cycles", within |-> within, grouping |-> grouping, slices |-> slices]

L(n, s) == [name |-> n, selector |-> s]
TwoLayers == <<L("inner", "domain"), L("outer", "app")>>
Outwards == <<[from |-> "inner", mayDependOn |-> {"outer"}]>>

Good ==
    <<Forbid(Rule("a", "error", "both"), {"domain"}, {"app"}),
      Acyclic(Rule("b", "warning", "actual"), {"shop", "app"}, "crates", <<>>)>>
SecondRule ==
    LET r == Rule("b", "error", "both")
    IN  {Only(r, {"shop", "app", "domain"}, {"app"}, t, s) : t, s \in BOOLEAN}
          \cup {Only(Rule("b", "error", "declared"), {"shop"}, {"out"}, TRUE, TRUE),
                Layers(r, TwoLayers, Outwards),
                Layers(r, TwoLayers, <<>>),
                Layers(r, TwoLayers, <<[from |-> "other", mayDependOn |-> {}]>>),
                Layers(r, TwoLayers, <<[from |-> "inner", mayDependOn |-> {}]>> \o Outwards),
                Layers(r, TwoLayers, Outwards \o <<[from |-> "inner", mayDependOn |-> {}]>>),
                Layers(r, TwoLayers \o <<L("inner", "shop")>>, <<>>),
                Acyclic(r, {"domain", "app"}, "crates", <<>>),
                Acyclic(r, {"domain", "app"}, "components", <<>>),
                Acyclic(r, {"shop", "domain", "app"}, "slices",
                        <<L("in", "domain"), L("in", "shop"), L("out", "app")>>),
                Acyclic(r, {"shop", "domain", "app"}, "slices",
                        <<L("dom", "domain"), L("rest", "shop"), L("out", "app")>>),
                Acyclic(r, {"shop"}, "slices", <<>>),
                Forbid(r, {"app"}, {}), Forbid(r, {"app"}, {"nobody"}),
                Forbid(Rule("b", "info", "both"), {"app"}, {"shop"})}
RuleLists ==
    {Good, <<>>, [Good EXCEPT ![2].id = "a"], [Good EXCEPT ![2].id = Blank]}
        \cup {[Good EXCEPT ![2] = r] : r \in SecondRule}

ProperFile ==
    [text |-> "parsed", version |-> TRUE, manifest |-> None, packages |-> {}, features |-> {},
     target |-> None, kinds |-> {"library", "binary"}, allFeatures |-> FALSE,
     noDefaultFeatures |-> FALSE, allowIncomplete |-> FALSE, format |-> "human",
     selectors |-> ProperSelectors, rules |-> Good]

FilesNear(f) ==
    {[f EXCEPT !.text = t] : t \in {"missing", "malformed"}}
        \cup {[f EXCEPT !.rules = r] : r \in RuleLists}
        \cup {[f EXCEPT !.selectors = t] : t \in SelectorTables}
        \cup {[f EXCEPT !.version = FALSE], [f EXCEPT !.allFeatures = TRUE],
              [f EXCEPT !.noDefaultFeatures = TRUE], [f EXCEPT !.features = {{"sql"}, {}}],
              [f EXCEPT !.kinds = {}], [f EXCEPT !.allowIncomplete = TRUE],
              [f EXCEPT !.format = "json"], [f EXCEPT !.manifest = "shop/Cargo.toml"],
              [f EXCEPT !.packages = {"shop"}], [f EXCEPT !.packages = {"shop", "other"}],
              [f EXCEPT !.target = "arm64"]}

Near(S, neighbours(_)) == S \cup UNION {neighbours(x) : x \in S}
Args1 == Near({PlainArgs}, ArgsNear)
Args2 == Near(Args1, ArgsNear)
Files1 == Near({ProperFile}, FilesNear)
Files2 == Near(Files1, FilesNear)

Start(as, fs, ds, ws) == [args : as, file : fs, directory : ds, workspace : ws]
SomeInputs ==
    Start({PlainArgs}, Files2, {TRUE}, {"loads"})
        \cup Start(Args2, Files1, BOOLEAN, {"loads"})
        \cup Start(Args1, Files1, BOOLEAN, {"fails"})
=============================================================================

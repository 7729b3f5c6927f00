----------------------------- MODULE MCAnalyzer -----------------------------
(***************************************************************************)
(* Analyzer on a workspace of two members: app, with a library, the        *)
(* binaries app and tool built from one root file, and a build script; and *)
(* core, a library.  app's library and binaries share the file foo.rs.     *)
(* Outside of it are serde, which rust-analyzer loads twice, and std.      *)
(***************************************************************************)
EXTENDS Analyzer

Members == {"app", "core"}
Others == {"serde"}
T(p, k, n, s) == [package |-> p, kind |-> k, name |-> n, src |-> s]
Targets ==
    {T("app", "library", "app", "lib.rs"), T("app", "binary", "app", "main.rs"),
     T("app", "binary", "tool", "main.rs"), T("app", "build-script", "build", "build.rs"),
     T("core", "binary", "core", "core.rs")}
Sources == [p \in Others |-> "serde.rs"]

R(f, t, k, e) == [from |-> f, to |-> t, kind |-> k, evidence |-> e]
Requirements ==
    {R("app", "core", "normal", 1), R("app", "serde", "normal", 2),
     R("app", "serde", "build", 3), R("core", "app", "normal", 4)}

K(n, r, h) == [name |-> n, root |-> r, built |-> h]
Lib == K("app", "lib.rs", "target")
Main == K("app", "main.rs", "target")
Tool == K("tool", "main.rs", "target")
CoreBin == K("core", "core.rs", "target")
Serde == K("serde", "serde.rs", "target")
SerdeAtHost == K("serde", "serde.rs", "host")
Std == K("std", "std.rs", "target")
Crates == {Lib, Main, Tool, CoreBin, Serde, SerdeAtHost, Std}
SomeLoads ==
    {Crates, Crates \ {Tool}, Crates \ {Lib, SerdeAtHost}, {CoreBin, Std}}

M(k, p, f) == [crate |-> k, path |-> p, file |-> f]
LibFoo == M(Lib, "foo", "foo.rs")
Modules ==
    {M(Lib, "", "lib.rs"), LibFoo, M(Main, "", "main.rs"), M(Main, "foo", "foo.rs"),
     M(Tool, "", "main.rs"), M(CoreBin, "", "core.rs"), M(Serde, "", "serde.rs")}

X(f, a, t, e) == [file |-> f, as |-> a, to |-> t, evidence |-> e]
References ==
    {X("foo.rs", "module", M(Serde, "", "serde.rs"), 5),
     X("main.rs", "module", LibFoo, 6), X("core.rs", "unmappable", None, 7),
     X("core.rs", "module", LibFoo, 8)}
=============================================================================

-------------------------------- MODULE MCWalk --------------------------------
(***************************************************************************)
(* Walk on two targets that share a file and a third that was not loaded.  *)
(*                                                                         *)
(*   1 file of lib: 2 item { 3 path { 4 other { 5 path } } }, a path with  *)
(*     a generic argument, and 6 macro call { 7 its path }                 *)
(*   8 file of lib and bin: 9 attribute item { 10 attribute { 11 path } }, *)
(*     12 path                                                             *)
(*   13 expansion: 14 macro call { 15 its path }, 16 path                  *)
(*   17 expansion: 18 path                                                 *)
(*                                                                         *)
(* Any of three cfg attributes is on any of three nodes, and the macros    *)
(* expand to either expansion, to none, or with an error.                  *)
(***************************************************************************)
EXTENDS Walk

Targets == {"lib", "bin", "test"}
Nodes == 1..18
P(l, b) == [t \in Targets |-> CASE t = "lib" -> l [] t = "bin" -> b [] t = "test" -> "true"]
Cfg(p) == [form |-> "cfg", predicate |-> p, inner |-> {}]
CfgAttr(p, q) == [form |-> "cfg_attr", predicate |-> p, inner |-> {Cfg(q)}]
SomeMetas ==
    {{}, {Cfg(P("true", "false"))}, {Cfg(P("unknown", "true"))},
     {CfgAttr(P("true", "unknown"), P("false", "false"))}}

Parents ==
    [n \in Nodes |-> CASE n \in {1, 8, 13, 17} -> None
                       [] n \in {2, 6} -> 1
                       [] n \in {9, 12} -> 8
                       [] n \in {14, 16} -> 13
                       [] n \in {3, 4, 5, 7, 10, 11, 15, 18} -> n - 1]
FormOf ==
    [n \in Nodes |-> CASE n \in {3, 5, 7, 11, 12, 15, 16, 18} -> "path"
                       [] n \in {6, 14} -> "macro call"
                       [] n = 9 -> "attribute item"
                       [] n = 10 -> "attribute"
                       [] n \in {1, 2, 4, 8, 13, 17} -> "other"]
Expansions ==
    {[n \in Nodes |-> CASE n = 6 -> a [] n = 9 -> b [] n = 14 -> c [] OTHER -> None] :
        a \in {None, 13, 17}, b \in {13, 17}, c \in {None, 13, 17}}

FilesOf == [t \in Targets |-> CASE t = "lib" -> {1, 8} [] t = "bin" -> {8} [] t = "test" -> {}]
Loaded == {"lib", "bin"}

SomePrograms ==
    {[metas |-> [n \in Nodes |-> CASE n = 2 -> a [] n = 9 -> b [] n = 16 -> a [] OTHER -> {}],
      expansion |-> e, faulty |-> f \cap {n \in Nodes : e[n] # None}] :
        a \in SomeMetas, b \in SomeMetas, e \in Expansions, f \in SUBSET {6, 9}}
=============================================================================

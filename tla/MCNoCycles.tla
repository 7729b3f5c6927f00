----------------------------- MODULE MCNoCycles -----------------------------
(***************************************************************************)
(* Two crates, a module in each and one more in the first, an external     *)
(* crate, and two slices that share a component.  The ids do not sort as    *)
(* their texts do, and module 4 reads like the external crate.             *)
(***************************************************************************)
EXTENDS NoCycles

Crates == {1, 2}
Modules == {3, 4, 5}
Externals == {9}
ModuleCrate == [m \in Modules |-> IF m = 4 THEN 2 ELSE 1]
IdText == [c \in Crates \cup Modules \cup Externals |->
              IF c = 9 THEN 16 ELSE 20 - c]
Slices == {21, 22}
SliceMatches == [s \in Slices |-> IF s = 21 THEN {1, 3, 5} ELSE {2, 4, 5, 9}]

Edge(o, t, s) == [origin |-> o, target |-> t, scope |-> s]
SomeEdges ==
    {Edge(1, 2, "declared"), Edge(2, 1, "declared"), Edge(1, 9, "declared"),
     Edge(3, 4, "actual"), Edge(4, 3, "actual"), Edge(4, 5, "actual"),
     Edge(5, 3, "actual"), Edge(3, 9, "actual")}

\* Everything; the modules; two modules, so that the crate grouping counts
\* what is not selected; one crate with its modules.
SomeSelections == {ComponentId, Modules, {4, 5}, {1, 3, 5}}
=============================================================================

--------------------------- MODULE MCGraphBuilder ---------------------------
(***************************************************************************)
(* GraphBuilder on an instance for TLC: two packages compete for a crate   *)
(* and a module, beside an external crate; two pieces of evidence, and up  *)
(* to two edges, so that an edge can be disturbed by a call about another. *)
(***************************************************************************)
EXTENDS GraphBuilder, TLC

TwoEvidence == {1, 2}

\* No action or property tells one package from another.
Symmetry == Permutations(PackageId)
=============================================================================

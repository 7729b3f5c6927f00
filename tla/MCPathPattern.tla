----------------------------- MODULE MCPathPattern -----------------------------
(***************************************************************************)
(* PathPattern with every pattern of up to five segments over one name and *)
(* the two wildcards (and shorter ones over two), some that are refused,   *)
(* and every path of up to four segments over two names.                   *)
(***************************************************************************)
EXTENDS PathPattern

Names == {"a", "b"}
Upto(n, S) == UNION {[1..k -> S] : k \in 1..n}
SomeSources ==
    Upto(5, {"a", One, Many}) \cup Upto(2, Names \cup {One, Many, "", "partial"})
SomePaths == Upto(4, Names)
=============================================================================

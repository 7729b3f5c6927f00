------------------------------ MODULE Release -------------------------------
(***************************************************************************)
(* What releasing the workspace promises (docs/releasing.md, "crates.io"): *)
(* if the release is wanted, every crate reaches the registry and then its *)
(* index, each only after the crates it depends on reached the index; if   *)
(* it is not wanted nothing is published.  PublishCrates.tla shows that    *)
(* the script does it through faults and reruns.                           *)
(***************************************************************************)
EXTENDS FiniteSets

CONSTANTS
    Crate, \* the workspace packages
    Deps   \* Deps[c]: the workspace packages c depends on

VARIABLES
    wanted,    \* the release may be published
    published, \* crates whose version the registry holds
    indexed    \* crates whose version the index serves

vars == <<wanted, published, indexed>>

Init ==
    /\ wanted \in BOOLEAN
    /\ published = {}
    /\ indexed = {}

Publish(c) ==
    /\ wanted
    /\ c \notin published
    /\ Deps[c] \subseteq indexed
    /\ published' = published \cup {c}
    /\ UNCHANGED <<wanted, indexed>>

Index(c) ==
    /\ c \in published \ indexed
    /\ indexed' = indexed \cup {c}
    /\ UNCHANGED <<wanted, published>>

Next == \E c \in Crate : Publish(c) \/ Index(c)

Spec == Init /\ [][Next]_vars /\ WF_vars(Next)
=============================================================================

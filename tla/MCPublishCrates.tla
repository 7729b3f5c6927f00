-------------------------- MODULE MCPublishCrates ---------------------------
(***************************************************************************)
(* The five crates of the workspace in the order of the script, with the   *)
(* dependencies of their Cargo.toml files.                                 *)
(***************************************************************************)
EXTENDS PublishCrates

Order == <<"bylaw-core", "bylaw-analyzer", "bylaw-config", "bylaw", "cargo-bylaw">>

Workspace == {Order[i] : i \in 1..5}

CargoDeps ==
    [c \in Workspace |->
        CASE c = "bylaw-core" -> {}
          [] c \in {"bylaw-analyzer", "bylaw-config"} -> {"bylaw-core"}
          [] c = "bylaw" -> {"bylaw-core", "bylaw-analyzer", "bylaw-config"}
          [] c = "cargo-bylaw" -> {"bylaw"}]
=============================================================================

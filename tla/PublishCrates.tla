--------------------------- MODULE PublishCrates ----------------------------
(***************************************************************************)
(* The release script scripts/publish-crates.sh, run by the workflow       *)
(* .github/workflows/release.yml against crates.io.                        *)
(*                                                                         *)
(* A run checks tag, package versions, dry-run flag and token, then takes  *)
(* the crates in order: ask the API whether the version exists; if not,    *)
(* upload it; in either case poll the index until it serves the version.   *)
(* The concurrency group of the workflow keeps runs of one tag apart, but  *)
(* a run can end anywhere (runner lost, job cancelled, any failing command *)
(* under set -e) and be started again, and an upload that was under way    *)
(* when its run ended may still arrive, later, or be lost.                 *)
(*                                                                         *)
(* crates.io (external): the API knows a version as soon as the upload is  *)
(* accepted, the index follows some time later, and a version can be       *)
(* uploaded once.  The registry's own check that dependencies exist is not *)
(* relied on.                                                              *)
(***************************************************************************)
EXTENDS Naturals, Sequences, FiniteSets

CONSTANTS
    Crate,     \* the workspace packages
    Deps,      \* their dependencies on each other, as in the Cargo.toml files
    crates,    \* the publishing order of the script
    MaxTries,  \* index polls before wait_for_index times out (30 in the code)
    MaxFaults  \* bound on crashes, lost replies and failed queries

ASSUME CratesListsAll ==
    /\ crates \in Seq(Crate) /\ crates # <<>>
    /\ \A c \in Crate : \E i \in DOMAIN crates : crates[i] = c
ASSUME CratesInDependencyOrder ==
    \A i \in DOMAIN crates : Deps[crates[i]] \subseteq {crates[j] : j \in 1..i - 1}
ASSUME BoundsAreNat == MaxTries \in Nat /\ MaxFaults \in Nat

VARIABLES
    setup,     \* what the run is started with; the same for every rerun
    pc,        \* where the run is; "stopped" between runs
    current,   \* position in crates
    tries,     \* index polls of this wait
    uploads,   \* uploads on their way: [crate, live]; live while its run waits
    published, \* registry: versions the API knows
    indexed,   \* registry: versions the index serves
    faults     \* faults so far

vars == <<setup, pc, current, tries, uploads, published, indexed, faults>>
run == <<setup, current, tries, uploads, published, indexed, faults>>

Setup == [tagMatches : BOOLEAN, dryRun : BOOLEAN, token : BOOLEAN]
Releasable == setup.tagMatches /\ ~setup.dryRun /\ setup.token

Promise == INSTANCE Release WITH wanted <- Releasable

Name == crates[current]
Running == pc \notin {"stopped", "done"}

-----------------------------------------------------------------------------
(* The script *)

Init ==
    /\ setup \in Setup
    /\ pc = "check"
    /\ current = 1
    /\ tries = 0
    /\ uploads = {}
    /\ published = {}
    /\ indexed = {}
    /\ faults = 0

\* Tag and versions, then the dry run, then the token.
CheckSetup ==
    /\ pc = "check"
    /\ pc' = IF ~setup.tagMatches THEN "stopped"
             ELSE IF setup.dryRun THEN "done"
             ELSE IF ~setup.token THEN "stopped"
             ELSE "exists"
    /\ UNCHANGED run

\* Defect: an existing version is not skipped.
AlwaysPublish ==
    /\ pc = "exists"
    /\ pc' = "publish"
    /\ UNCHANGED run

\* crate_exists: 200 skips the upload, 404 publishes, anything else exits.
CrateExists ==
    /\ pc = "exists"
    /\ \/ /\ Name \in published
          /\ pc' = "wait"
          /\ UNCHANGED run
       \/ /\ Name \notin published
          /\ pc' = "publish"
          /\ UNCHANGED run
       \/ /\ faults < MaxFaults
          /\ faults' = faults + 1
          /\ pc' = "stopped"
          /\ UNCHANGED <<setup, current, tries, uploads, published, indexed>>

\* cargo publish sends the package...
Upload ==
    /\ pc = "publish"
    /\ uploads' = uploads \cup {[crate |-> Name, live |-> TRUE]}
    /\ pc' = "uploading"
    /\ UNCHANGED <<setup, current, tries, published, indexed, faults>>

\* ... and returns with the registry's answer: accepted, or refused because
\* the version is there (an upload of an earlier run came through meanwhile).
Answer(u) ==
    /\ u \in uploads
    /\ uploads' = uploads \ {u}
    /\ published' = published \cup {u.crate}
    /\ pc' = IF ~u.live THEN pc
             ELSE IF u.crate \in published THEN "stopped"
             ELSE "wait"
    /\ UNCHANGED <<setup, current, tries, indexed, faults>>

\* Defects: a wait that reports success when it times out, one that polls once
\* more than it may, and one that stops the script before the last crate.
WaitGivesUp ==
    /\ pc = "wait"
    /\ tries < MaxTries
    /\ \/ /\ Name \in indexed \/ tries + 1 = MaxTries
          /\ tries' = 0
          /\ current' = current + 1
          /\ pc' = IF current = Len(crates) THEN "done" ELSE "exists"
       \/ /\ Name \notin indexed /\ tries + 1 < MaxTries
          /\ tries' = tries + 1
          /\ UNCHANGED <<pc, current>>
    /\ UNCHANGED <<setup, uploads, published, indexed, faults>>
WaitOnceMore ==
    /\ pc = "wait"
    /\ \/ /\ Name \in indexed
          /\ tries' = 0
          /\ current' = current + 1
          /\ pc' = IF current = Len(crates) THEN "done" ELSE "exists"
       \/ /\ Name \notin indexed
          /\ tries' = tries + 1
          /\ pc' = IF tries = MaxTries THEN "stopped" ELSE "wait"
          /\ UNCHANGED current
    /\ UNCHANGED <<setup, uploads, published, indexed, faults>>
WaitStopsEarly ==
    /\ pc = "wait"
    /\ Name \in indexed
    /\ tries' = 0
    /\ current' = current + 1
    /\ pc' = IF current = Len(crates) - 1 THEN "done" ELSE "exists"
    /\ UNCHANGED <<setup, uploads, published, indexed, faults>>

\* wait_for_index: found, not yet found, or timed out.
WaitForIndex ==
    /\ pc = "wait"
    /\ tries < MaxTries
    /\ \/ /\ Name \in indexed
          /\ tries' = 0
          /\ current' = current + 1
          /\ pc' = IF current = Len(crates) THEN "done" ELSE "exists"
       \/ /\ Name \notin indexed
          /\ tries' = tries + 1
          /\ pc' = IF tries + 1 = MaxTries THEN "stopped" ELSE "wait"
          /\ UNCHANGED current
    /\ UNCHANGED <<setup, uploads, published, indexed, faults>>

-----------------------------------------------------------------------------
(* The surroundings *)

Orphans(us) == {[u EXCEPT !.live = FALSE] : u \in us}

\* The run ends somewhere; its upload, if any, is still on its way.
Crash ==
    /\ Running
    /\ faults < MaxFaults
    /\ faults' = faults + 1
    /\ pc' = "stopped"
    /\ uploads' = Orphans(uploads)
    /\ UNCHANGED <<setup, current, tries, published, indexed>>

\* An upload without a client is lost.
Lose(u) ==
    /\ u \in uploads
    /\ ~u.live
    /\ uploads' = uploads \ {u}
    /\ UNCHANGED <<setup, pc, current, tries, published, indexed, faults>>

Index(c) ==
    /\ c \in published \ indexed
    /\ indexed' = indexed \cup {c}
    /\ UNCHANGED <<setup, pc, current, tries, uploads, published, faults>>

\* The job is run again, from the first crate.
Rerun ==
    /\ pc = "stopped"
    /\ pc' = "check"
    /\ current' = 1
    /\ tries' = 0
    /\ UNCHANGED <<setup, uploads, published, indexed, faults>>

Step ==
    \/ CheckSetup
    \/ CrateExists
    \/ Upload
    \/ \E u \in uploads : u.live /\ Answer(u)
    \/ WaitForIndex

Next ==
    \/ Step
    \/ \E u \in uploads : ~u.live /\ Answer(u)
    \/ Crash
    \/ \E u \in uploads : Lose(u)
    \/ \E c \in Crate : Index(c)
    \/ Rerun

\* A running script and a registry with work to do go on; a stopped release
\* is run again.  Nothing is assumed of crashes or of orphaned uploads.
Fairness ==
    /\ WF_vars(Step)
    /\ WF_vars(Rerun)
    /\ \A c \in Crate : WF_vars(Index(c))

Spec == Init /\ [][Next]_vars /\ Fairness

-----------------------------------------------------------------------------
(* Properties *)

TypeOK ==
    /\ setup \in Setup
    /\ pc \in {"check", "exists", "publish", "uploading", "wait", "done", "stopped"}
    /\ current \in 1..Len(crates) + 1
    /\ pc \in {"exists", "publish", "uploading", "wait"} => current <= Len(crates)
    /\ tries \in 0..MaxTries
    /\ uploads \subseteq [crate : Crate, live : BOOLEAN]
    /\ published \subseteq Crate
    /\ indexed \subseteq published
    /\ faults \in 0..MaxFaults

\* However often the release is interrupted and run again, it publishes only
\* what may be published, each crate after its dependencies are in the index
\* (late orphans included), and in the end everything is in the index
\* (docs/releasing.md: "waits for each version to reach the crates.io index
\* before publishing its dependents", "can be rerun safely").
ImplementsRelease == Promise!Spec

\* A run that ends well leaves nothing out, whatever earlier runs did.
DoneMeansReleased == pc = "done" /\ ~setup.dryRun => indexed = Crate

\* The run is about to upload, or is uploading, what the registry already has.
Redundant(c) ==
    /\ c \in published
    /\ \/ pc = "publish" /\ Name = c
       \/ \E u \in uploads : u.live /\ u.crate = c

Late(c) == [crate |-> c, live |-> FALSE]

\* Every run, after any crashes, timeouts and failed queries, skips what exists:
\* it gets into a second upload of a version only in a step in which an upload
\* that outlived its run arrives, between the answer of crate_exists and the
\* end of cargo publish.  That run then publishes nothing of its own and stops:
\* it never takes the refusal for a success and waits for the index
\* (crate_exists, `cargo publish` under set -e; docs/releasing.md: it "skips
\* versions that already exist").
SkipsWhatExists ==
    [][\A c \in Crate :
          /\ Redundant(c)' /\ ~Redundant(c) => Late(c) \in uploads \ uploads'
          /\ Redundant(c) =>
                /\ pc' \in {"publish", "uploading", "stopped"}
                /\ \A d \in published' \ published : Late(d) \in uploads]_vars
=============================================================================

------------------------ MODULE PublishCratesProofs -------------------------
(***************************************************************************)
(* Proofs about the release script, for any workspace, any publishing      *)
(* order that lists dependencies first, any number of polls and faults:    *)
(* the script implements the safety part of Release, and a run that ends   *)
(* well leaves no crate out.  That the release completes is liveness and   *)
(* is left to TLC.                                                         *)
(***************************************************************************)
EXTENDS PublishCrates, TLAPS

InRelease == pc \in {"exists", "publish", "uploading", "wait"}

\* Only a release that may be published gets past the checks of the setup.
OnlyIfReleasable == InRelease \/ uploads # {} => Releasable

\* The loop has passed the index wait of every earlier crate.
EarlierAreIndexed == InRelease => \A j \in 1..current - 1 : crates[j] \in indexed

\* An upload, even an orphan, left when its dependencies were in the index.
UploadsAreInOrder == \A u \in uploads : Deps[u.crate] \subseteq indexed

\* An upload has a run waiting for it only while that run is at its crate.
LiveUploadHasRun == \A u \in uploads : u.live => pc = "uploading" /\ u.crate = Name

\* Every run begins with the first crate.
StartsAtFirst == pc = "check" => current = 1

IInv ==
    /\ TypeOK
    /\ StartsAtFirst
    /\ OnlyIfReleasable
    /\ EarlierAreIndexed
    /\ UploadsAreInOrder
    /\ LiveUploadHasRun
    /\ DoneMeansReleased

-----------------------------------------------------------------------------
(* The promise, step by step *)

Kept == IInv' /\ [Promise!Next]_Promise!vars

LEMMA InitEstablishes == Init => IInv /\ Promise!Init
  BY CratesListsAll, BoundsAreNat
     DEF CratesListsAll, BoundsAreNat, Init, IInv, TypeOK, StartsAtFirst, OnlyIfReleasable,
         EarlierAreIndexed, UploadsAreInOrder, LiveUploadHasRun, DoneMeansReleased,
         InRelease, Promise!Init, Setup, Releasable

\* The crate at the loop's position is one of the workspace, and what it
\* depends on comes earlier in the list.
LEMMA NameIsCrate ==
    ASSUME TypeOK, InRelease
    PROVE  /\ current \in DOMAIN crates
           /\ Name \in Crate
           /\ Deps[Name] \subseteq {crates[j] : j \in 1..current - 1}
  <1>1. current \in DOMAIN crates
    BY CratesListsAll DEF CratesListsAll, TypeOK, InRelease
  <1> QED
    BY <1>1, CratesListsAll, CratesInDependencyOrder
       DEF CratesListsAll, CratesInDependencyOrder, Name

LEMMA CheckSetupKeeps ==
    ASSUME IInv, CheckSetup
    PROVE  Kept
  <1>1. UNCHANGED <<setup, current, tries, uploads, published, indexed, faults>>
    BY DEF CheckSetup, run
  <1>2. pc' \in {"stopped", "done", "exists"}
    BY DEF CheckSetup
  <1>3. pc' = "exists" => Releasable
    BY DEF CheckSetup, Releasable
  <1>4. pc' = "done" => setup.dryRun
    BY DEF CheckSetup
  <1>5. current = 1
    BY DEF CheckSetup, IInv, StartsAtFirst
  <1>6. TypeOK'
    <2>1. 1 <= Len(crates) + 1 /\ (pc' = "exists" => current <= Len(crates))
      BY <1>5, CratesListsAll DEF CratesListsAll, IInv, TypeOK
    <2> QED
      BY <1>1, <1>2, <1>5, <2>1 DEF IInv, TypeOK
  <1>7. Promise!vars' = Promise!vars
    BY <1>1 DEF Promise!vars, Releasable
  <1>8. LiveUploadHasRun'
    BY <1>1 DEF IInv, LiveUploadHasRun, CheckSetup
  <1> QED
    BY <1>1, <1>2, <1>3, <1>4, <1>5, <1>6, <1>7, <1>8
       DEF Kept, IInv, StartsAtFirst, OnlyIfReleasable, EarlierAreIndexed,
           UploadsAreInOrder, LiveUploadHasRun, DoneMeansReleased, InRelease,
           Releasable, Name

LEMMA CrateExistsKeeps ==
    ASSUME IInv, CrateExists
    PROVE  Kept
  <1>1. UNCHANGED <<setup, current, tries, uploads, published, indexed>>
    BY DEF CrateExists, run
  <1>2. pc' \in {"wait", "publish", "stopped"} /\ InRelease
    BY DEF CrateExists, InRelease
  <1>3. faults' \in 0..MaxFaults
    BY BoundsAreNat DEF BoundsAreNat, CrateExists, run, IInv, TypeOK
  <1>4. TypeOK'
    BY <1>1, <1>2, <1>3, NameIsCrate DEF IInv, TypeOK, InRelease
  <1>5. Promise!vars' = Promise!vars
    BY <1>1 DEF Promise!vars, Releasable
  <1>6. LiveUploadHasRun'
    BY <1>1 DEF IInv, LiveUploadHasRun, CrateExists
  <1> QED
    BY <1>1, <1>2, <1>4, <1>5, <1>6
       DEF Kept, IInv, StartsAtFirst, OnlyIfReleasable, EarlierAreIndexed,
           UploadsAreInOrder, LiveUploadHasRun, DoneMeansReleased, InRelease,
           Releasable, Name

LEMMA UploadKeeps ==
    ASSUME IInv, Upload
    PROVE  Kept
  <1>1. /\ UNCHANGED <<setup, current, tries, published, indexed, faults>>
        /\ uploads' = uploads \cup {[crate |-> Name, live |-> TRUE]}
        /\ pc' = "uploading" /\ InRelease
    BY DEF Upload, InRelease
  <1>2. Name \in Crate /\ Deps[Name] \subseteq {crates[j] : j \in 1..current - 1}
    BY <1>1, NameIsCrate DEF IInv
  <1>3. TypeOK'
    <2>1. [crate |-> Name, live |-> TRUE] \in [crate : Crate, live : BOOLEAN]
      BY <1>2
    <2>2. uploads' \subseteq [crate : Crate, live : BOOLEAN]
      BY <1>1, <2>1 DEF IInv, TypeOK
    <2> QED
      BY <1>1, <2>2, NameIsCrate DEF IInv, TypeOK, InRelease
  <1>4. Deps[Name] \subseteq indexed
    BY <1>1, <1>2 DEF IInv, EarlierAreIndexed
  <1>5. UploadsAreInOrder'
    BY <1>1, <1>4 DEF IInv, UploadsAreInOrder
  <1>6. LiveUploadHasRun'
    BY <1>1 DEF IInv, LiveUploadHasRun, Upload, Name
  <1>7. Promise!vars' = Promise!vars
    BY <1>1 DEF Promise!vars, Releasable
  <1> QED
    BY <1>1, <1>3, <1>5, <1>6, <1>7
       DEF Kept, IInv, StartsAtFirst, OnlyIfReleasable, EarlierAreIndexed,
           DoneMeansReleased, InRelease, Releasable

\* The registry's answer publishes the crate, unless it is there already.
LEMMA AnswerKeeps ==
    ASSUME IInv, NEW u \in uploads, Answer(u)
    PROVE  Kept
  <1>1. /\ UNCHANGED <<setup, current, tries, indexed, faults>>
        /\ uploads' = uploads \ {u}
        /\ published' = published \cup {u.crate}
    BY DEF Answer
  <1>2. u.crate \in Crate /\ u.live \in BOOLEAN
    BY DEF IInv, TypeOK
  <1>3. pc' = pc \/ (pc = "uploading" /\ pc' \in {"stopped", "wait"})
    BY <1>2 DEF Answer, IInv, LiveUploadHasRun
  <1>4. TypeOK'
    BY <1>1, <1>2, <1>3 DEF IInv, TypeOK
  <1>5. Releasable /\ Deps[u.crate] \subseteq indexed
    BY DEF IInv, OnlyIfReleasable, UploadsAreInOrder
  <1>6. [Promise!Next]_Promise!vars
    <2>1. CASE u.crate \in published
      BY <1>1, <2>1 DEF Promise!vars, Releasable
    <2>2. CASE u.crate \notin published
      <3>1. Promise!Publish(u.crate)
        BY <1>1, <1>5, <2>2 DEF Promise!Publish, Releasable
      <3> QED
        BY <1>2, <3>1 DEF Promise!Next
    <2> QED
      BY <2>1, <2>2
  <1>7. OnlyIfReleasable'
    BY <1>1, <1>5 DEF OnlyIfReleasable, Releasable
  <1>8. StartsAtFirst' /\ EarlierAreIndexed' /\ UploadsAreInOrder' /\ DoneMeansReleased'
    BY <1>1, <1>3 DEF IInv, StartsAtFirst, EarlierAreIndexed, UploadsAreInOrder,
                      DoneMeansReleased, InRelease
  <1>9. LiveUploadHasRun'
    <2>1. ASSUME NEW v \in uploads', v.live
          PROVE  pc' = "uploading" /\ v.crate = Name'
      <3>1. v \in uploads /\ v # u /\ pc = "uploading" /\ v.crate = Name
        BY <1>1, <2>1 DEF IInv, LiveUploadHasRun
      <3>2. ~u.live
        <4>1. \A w \in uploads : w = [crate |-> w.crate, live |-> w.live]
          BY DEF IInv, TypeOK
        <4>2. v.live = TRUE /\ (u.live => u.live = TRUE /\ u.crate = v.crate)
          BY <1>2, <2>1, <3>1 DEF IInv, LiveUploadHasRun, TypeOK
        <4> QED
          BY <3>1, <4>1, <4>2
      <3> QED
        BY <1>1, <3>1, <3>2 DEF Answer, Name
    <2> QED
      BY <2>1 DEF LiveUploadHasRun
  <1> QED
    BY <1>4, <1>6, <1>7, <1>8, <1>9 DEF Kept, IInv

LEMMA WaitForIndexKeeps ==
    ASSUME IInv, WaitForIndex
    PROVE  Kept
  <1>1. UNCHANGED <<setup, uploads, published, indexed, faults>> /\ InRelease
    BY DEF WaitForIndex, InRelease
  <1>2. Promise!vars' = Promise!vars
    BY <1>1 DEF Promise!vars, Releasable
  <1>3. current \in 1..Len(crates) /\ Len(crates) \in Nat
    BY <1>1, NameIsCrate, CratesListsAll DEF CratesListsAll, IInv
  <1>4. CASE /\ Name \in indexed
             /\ tries' = 0
             /\ current' = current + 1
             /\ pc' = IF current = Len(crates) THEN "done" ELSE "exists"
    <2>1. \A j \in 1..current : crates[j] \in indexed
      BY <1>1, <1>3, <1>4 DEF IInv, EarlierAreIndexed, Name
    <2>2. TypeOK'
      BY <1>1, <1>3, <1>4, BoundsAreNat DEF BoundsAreNat, IInv, TypeOK
    <2>3. EarlierAreIndexed'
      BY <1>1, <1>3, <1>4, <2>1 DEF EarlierAreIndexed
    <2>4. DoneMeansReleased'
      <3>1. SUFFICES ASSUME pc' = "done" PROVE indexed = Crate
        BY <1>1 DEF DoneMeansReleased
      <3>2. current = Len(crates)
        BY <1>4, <3>1
      <3>3. Crate \subseteq indexed
        BY <1>3, <2>1, <3>2, CratesListsAll DEF CratesListsAll
      <3> QED
        BY <3>3 DEF IInv, TypeOK
    <2> QED
      BY <1>1, <1>2, <1>4, <2>2, <2>3, <2>4
         DEF Kept, IInv, StartsAtFirst, OnlyIfReleasable, UploadsAreInOrder,
             LiveUploadHasRun, Releasable, InRelease, WaitForIndex
  <1>5. CASE /\ tries < MaxTries
             /\ tries' = tries + 1
             /\ pc' = IF tries + 1 = MaxTries THEN "stopped" ELSE "wait"
             /\ UNCHANGED current
    <2>1. TypeOK'
      BY <1>1, <1>3, <1>5, BoundsAreNat DEF BoundsAreNat, IInv, TypeOK
    <2> QED
      BY <1>1, <1>2, <1>5, <2>1
         DEF Kept, IInv, StartsAtFirst, OnlyIfReleasable, EarlierAreIndexed,
             UploadsAreInOrder, LiveUploadHasRun, DoneMeansReleased, Releasable, InRelease,
             WaitForIndex
  <1> QED
    BY <1>4, <1>5 DEF WaitForIndex

LEMMA CrashKeeps ==
    ASSUME IInv, Crash
    PROVE  Kept
  <1>1. /\ UNCHANGED <<setup, current, tries, published, indexed>>
        /\ uploads' = Orphans(uploads)
        /\ pc' = "stopped"
        /\ faults' \in 0..MaxFaults
    BY BoundsAreNat DEF BoundsAreNat, Crash, IInv, TypeOK
  <1>2. \A v \in uploads' : \E u \in uploads :
           v = [crate |-> u.crate, live |-> FALSE]
    BY <1>1 DEF Orphans, IInv, TypeOK
  <1>3. TypeOK'
    <2>1. \A u \in uploads : [crate |-> u.crate, live |-> FALSE] \in [crate : Crate, live : BOOLEAN]
      BY DEF IInv, TypeOK
    <2>2. uploads' \subseteq [crate : Crate, live : BOOLEAN]
      BY <1>2, <2>1
    <2> QED
      BY <1>1, <2>2 DEF IInv, TypeOK
  <1>4. UploadsAreInOrder' /\ OnlyIfReleasable' /\ LiveUploadHasRun'
    BY <1>1, <1>2 DEF IInv, UploadsAreInOrder, LiveUploadHasRun, OnlyIfReleasable,
                      InRelease, Releasable
  <1>5. Promise!vars' = Promise!vars
    BY <1>1 DEF Promise!vars, Releasable
  <1> QED
    BY <1>1, <1>3, <1>4, <1>5
       DEF Kept, IInv, StartsAtFirst, EarlierAreIndexed, DoneMeansReleased, InRelease

LEMMA LoseKeeps ==
    ASSUME IInv, NEW u \in uploads, Lose(u)
    PROVE  Kept
  BY DEF Lose, Kept, IInv, TypeOK, StartsAtFirst, OnlyIfReleasable, EarlierAreIndexed,
         UploadsAreInOrder, LiveUploadHasRun, DoneMeansReleased, InRelease,
           Releasable, Name, Promise!vars

LEMMA IndexKeeps ==
    ASSUME IInv, NEW c \in Crate, Index(c)
    PROVE  Kept
  <1>1. Promise!Next
    BY DEF Index, Promise!Next, Promise!Index, Releasable
  <1> QED
    BY <1>1 DEF Index, Kept, IInv, TypeOK, StartsAtFirst, OnlyIfReleasable,
                EarlierAreIndexed, UploadsAreInOrder, LiveUploadHasRun,
                DoneMeansReleased, InRelease, Releasable, Name

LEMMA RerunKeeps ==
    ASSUME IInv, Rerun
    PROVE  Kept
  BY CratesListsAll, BoundsAreNat
     DEF CratesListsAll, BoundsAreNat, Rerun, Kept, IInv, TypeOK, StartsAtFirst,
         OnlyIfReleasable, EarlierAreIndexed, UploadsAreInOrder, LiveUploadHasRun,
         DoneMeansReleased, InRelease, Releasable, Promise!vars

LEMMA StutterKeeps ==
    ASSUME IInv, UNCHANGED vars
    PROVE  Kept
  BY DEF vars, Kept, IInv, TypeOK, StartsAtFirst, OnlyIfReleasable, EarlierAreIndexed,
         UploadsAreInOrder, LiveUploadHasRun, DoneMeansReleased, InRelease,
           Releasable, Name, Promise!vars

LEMMA NextKeeps ==
    ASSUME IInv, [Next]_vars
    PROVE  Kept
  <1>1. CASE UNCHANGED vars
    BY <1>1, StutterKeeps
  <1>2. CASE Step
    BY <1>2, CheckSetupKeeps, CrateExistsKeeps, UploadKeeps, AnswerKeeps, WaitForIndexKeeps
       DEF Step
  <1>3. CASE Next /\ ~Step
    BY <1>3, AnswerKeeps, CrashKeeps, LoseKeeps, IndexKeeps, RerunKeeps DEF Next
  <1> QED
    BY <1>1, <1>2, <1>3

-----------------------------------------------------------------------------
(* Theorems *)

THEOREM Inductive == Spec => []IInv
  <1>1. IInv /\ [Next]_vars => IInv'
    BY NextKeeps DEF Kept
  <1> QED
    BY <1>1, InitEstablishes, PTL DEF Spec

\* The state of the script, its uploads and the registry stay well typed.
THEOREM TypeCorrect == Spec => []TypeOK
  <1>1. IInv => TypeOK
    BY DEF IInv
  <1> QED
    BY <1>1, Inductive, PTL

\* A run that ends well, first or rerun, leaves every crate in the index.
THEOREM SuccessIsComplete == Spec => []DoneMeansReleased
  <1>1. IInv => DoneMeansReleased
    BY DEF IInv
  <1> QED
    BY <1>1, Inductive, PTL

\* The safety part of ImplementsRelease: through crashes, timeouts, late and
\* lost uploads and reruns, nothing is published that may not be, and no
\* crate before everything it depends on is in the index.
THEOREM ReleasesInOrder == Spec => Promise!Init /\ [][Promise!Next]_Promise!vars
  <1>1. IInv /\ [Next]_vars => [Promise!Next]_Promise!vars
    BY NextKeeps DEF Kept
  <1> QED
    BY <1>1, InitEstablishes, Inductive, PTL DEF Spec

-----------------------------------------------------------------------------
(* Skipping what exists *)

\* What SkipsWhatExists allows a step to do.
Skipping ==
    \A c \in Crate :
        /\ Redundant(c)' /\ ~Redundant(c) => Late(c) \in uploads \ uploads'
        /\ Redundant(c) =>
              /\ pc' \in {"publish", "uploading", "stopped"}
              /\ \A d \in published' \ published : Late(d) \in uploads

\* A run uploads only the crate it is at.
LEMMA RedundantIsCurrent ==
    ASSUME IInv, NEW c \in Crate, Redundant(c)
    PROVE  pc \in {"publish", "uploading"} /\ c = Name
  BY DEF Redundant, IInv, LiveUploadHasRun

\* The query comes first: only a 404 leads to an upload.
LEMMA ScriptSkips ==
    ASSUME IInv, CheckSetup \/ CrateExists \/ Upload \/ WaitForIndex
    PROVE  Skipping
  <1> SUFFICES ASSUME NEW c \in Crate
               PROVE  /\ Redundant(c)' => Redundant(c)
                      /\ Redundant(c) => pc' = "uploading"
                      /\ published' = published
    BY DEF Skipping
  <1>1. published' = published
    BY DEF CheckSetup, CrateExists, Upload, WaitForIndex, run
  <1>2. CASE Upload
    BY <1>1, <1>2, RedundantIsCurrent DEF Upload, Redundant, Name, IInv, LiveUploadHasRun
  <1>3. CASE CheckSetup \/ CrateExists \/ WaitForIndex
    <2>1. ~Redundant(c)
      BY <1>3, RedundantIsCurrent DEF CheckSetup, CrateExists, WaitForIndex
    <2>2. /\ uploads' = uploads
          /\ \A u \in uploads : ~u.live
          /\ pc' = "publish" => current' = current /\ Name \notin published
      BY <1>3 DEF CheckSetup, CrateExists, WaitForIndex, run, IInv, LiveUploadHasRun
    <2>3. ~Redundant(c)'
      BY <1>1, <2>2 DEF Redundant, Name
    <2> QED BY <1>1, <2>1, <2>3
  <1> QED BY <1>2, <1>3

\* Only an upload without a run can come between query and answer: if the
\* answered upload were live it would be the only live one.
LEMMA AnswerSkips ==
    ASSUME IInv, NEW u \in uploads, Answer(u)
    PROVE  Skipping
  <1>1. /\ u = [crate |-> u.crate, live |-> u.live] /\ u.live \in BOOLEAN
        /\ \A v \in uploads : v = [crate |-> v.crate, live |-> v.live] /\ v.live \in BOOLEAN
    BY DEF IInv, TypeOK
  <1>2. /\ uploads' = uploads \ {u} /\ published' = published \cup {u.crate}
        /\ current' = current
        /\ ~u.live => pc' = pc
        /\ u.live => pc = "uploading" /\ u.crate = Name /\ pc' \in {"stopped", "wait"}
        /\ u.live /\ Name \in published => pc' = "stopped"
    BY DEF Answer, IInv, LiveUploadHasRun
  <1> SUFFICES ASSUME NEW c \in Crate
               PROVE  /\ Redundant(c)' /\ ~Redundant(c) => Late(c) \in uploads \ uploads'
                      /\ Redundant(c) =>
                            /\ pc' \in {"publish", "uploading", "stopped"}
                            /\ \A d \in published' \ published : Late(d) \in uploads
    BY DEF Skipping
  <1>3. ASSUME Redundant(c)', ~Redundant(c)
        PROVE  Late(c) \in uploads \ uploads'
    <2>1. c = u.crate
      BY <1>2, <1>3 DEF Redundant, Name
    <2>2. ~u.live
      <3> SUFFICES ASSUME u.live PROVE FALSE
        OBVIOUS
      <3>1. PICK v \in uploads' : v.live /\ v.crate = c
        BY <1>2, <1>3 DEF Redundant
      <3>2. v.live = TRUE /\ u.live = TRUE
        BY <1>1, <1>2, <3>1
      <3>3. v = u
        BY <1>1, <1>2, <2>1, <3>1, <3>2
      <3> QED BY <1>2, <3>1, <3>3
    <2>3. u = Late(c)
      BY <1>1, <2>1, <2>2 DEF Late
    <2> QED BY <1>2, <2>3
  <1>4. ASSUME Redundant(c)
        PROVE  /\ pc' \in {"publish", "uploading", "stopped"}
               /\ \A d \in published' \ published : Late(d) \in uploads
    <2>1. pc \in {"publish", "uploading"} /\ c = Name /\ c \in published
      BY <1>4, RedundantIsCurrent DEF Redundant
    <2>2. CASE u.live
      BY <1>2, <2>1, <2>2
    <2>3. CASE ~u.live
      <3>1. u = Late(u.crate)
        BY <1>1, <2>3 DEF Late
      <3> QED BY <1>2, <2>1, <2>3, <3>1
    <2> QED BY <2>2, <2>3
  <1> QED BY <1>3, <1>4

\* The surroundings publish nothing, start no upload and leave the run where
\* it is or end it.
LEMMA OthersSkip ==
    ASSUME IInv,
           \/ Crash \/ Rerun
           \/ \E u \in uploads : Lose(u)
           \/ \E c \in Crate : Index(c)
           \/ UNCHANGED vars
    PROVE  Skipping
  <1>1. published' = published
    BY DEF Crash, Rerun, Lose, Index, vars
  <1>2. CASE Crash
    <2>1. pc' = "stopped" /\ \A u \in uploads' : u.live = FALSE
      BY <1>2 DEF Crash, Orphans, IInv, TypeOK
    <2> QED BY <1>1, <2>1 DEF Skipping, Redundant
  <1>3. CASE Rerun
    <2>1. pc = "stopped" /\ pc' = "check" /\ uploads' = uploads
      BY <1>3 DEF Rerun
    <2>2. \A c \in Crate : ~Redundant(c) /\ ~Redundant(c)'
      BY <2>1, RedundantIsCurrent DEF Redundant, IInv, LiveUploadHasRun
    <2> QED BY <2>2 DEF Skipping
  <1>4. CASE ~Crash /\ ~Rerun
    <2>1. pc' = pc /\ current' = current /\ uploads' \subseteq uploads
      BY <1>4 DEF Lose, Index, vars
    <2>2. \A c \in Crate : Redundant(c)' => Redundant(c)
      BY <1>1, <2>1 DEF Redundant, Name
    <2>3. \A c \in Crate : Redundant(c) => pc \in {"publish", "uploading"}
      BY RedundantIsCurrent
    <2> QED BY <1>1, <2>1, <2>2, <2>3 DEF Skipping
  <1> QED BY <1>2, <1>3, <1>4

\* A run comes to upload what the registry has only by an upload that outlived
\* its run and arrives in that step, and then it stops, having published
\* nothing: for any number of crates, polls, crashes, timeouts and reruns.
THEOREM RerunsSkipWhatExists == Spec => SkipsWhatExists
  <1>1. IInv /\ [Next]_vars => Skipping
    BY ScriptSkips, AnswerSkips, OthersSkip DEF Next, Step
  <1>2. Spec => [][Skipping]_vars
    BY <1>1, Inductive, PTL DEF Spec
  <1> QED
    BY <1>2 DEF SkipsWhatExists, Skipping
=============================================================================

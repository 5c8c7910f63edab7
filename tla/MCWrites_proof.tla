---------------------------- MODULE MCWrites_proof ----------------------------
(***************************************************************************)
(* What the program writes, for every value of the constants.              *)
(*                                                                         *)
(* Both executors implement the contract of a Favorites write, and the     *)
(* copied-tree executor never loses the tree it found nor tells its caller *)
(* an untruth: for every set of documents and every plan.  The invariant   *)
(* of the copied tree says where the trees are in each step, what a        *)
(* verdict stands for, and that the backup and the manifest come before    *)
(* the first rename.                                                       *)
(*                                                                         *)
(* Card and provenance of a synchronisation stay together, or somebody     *)
(* knows why not; and of recordings, of their deletion and of provenance   *)
(* nothing is overwritten that was not chosen.                             *)
(*                                                                         *)
(* A document's own calls spare what other hands put on the card, tell     *)
(* their caller the truth, and are steps of the USB write.                 *)
(***************************************************************************)
EXTENDS MCWrites, SequenceTheorems, TLAPS

(***************************************************************************)
(* The USB card, UsbWrite: the write keeps to its types, never leaves a    *)
(* catalog that names a missing document, and what a finished operation    *)
(* left behind is true and final, whatever call fails and whatever step    *)
(* the process dies in.  The invariant ties the step of the workflow to    *)
(* the durable manifest, the manifest to the card, the reports to both,    *)
(* and says of every stage how much of its work is done.                   *)
(***************************************************************************)

\* Where the workflow is: before its manifest, before the card is known to be
\* damaged, in its recovery, and where no report is owed any more.
Early == {"idle", "workspace", "backup", "staging", "prepare"}
Before == {"documents", "catalog", "deletions", "readback", "completing", "required"}
Recovering ==
  {"recover", "restore", "restoreCatalog", "cleanup", "remove", "verify", "recovered", "incomplete"}
Outside == {"idle", "workspace", "release"}

Terminal == {"completed", "recovered", "recovery_incomplete"}

\* A manifest's phase tells its revision.
Known(m) ==
  /\ m \in [revision : 0 .. 5, artifact : BOOLEAN,
            phase : {"none", "prepared", "mutation_started", "recovery_required",
                     "recovery_in_progress"} \cup Terminal]
  /\ m.phase = "none" => m = NoManifest
  /\ m.phase = "prepared" => m.revision = 1
  /\ m.phase = "mutation_started" => m.revision = 2
  /\ m.phase = "recovery_required" => m.revision = 3
  /\ m.phase = "recovery_in_progress" => m.revision = 4

\* The workflow's copy of the manifest is the durable one while it works, and the
\* step it is in tells the phase.
ManifestInv ==
  /\ pc \in Early \cup Before \cup Recovering \cup {"preactivation", "begin", "inProgress", "report", "release"}
  /\ Known(durable) /\ Known(rollback)
  /\ pc \in Early => rollback = NoManifest
  /\ pc \notin Outside => rollback = durable
  /\ pc \in {"backup", "staging", "prepare"} => durable = NoManifest
  /\ pc \in {"preactivation", "begin"} => durable.phase = "prepared"
  /\ pc \in Before => durable.phase \in {"prepared", "mutation_started"}
  /\ pc = "inProgress" => durable.phase = "recovery_required"
  /\ pc \in Recovering => durable.phase = "recovery_in_progress"
  /\ pc = "report" => durable.phase \in {"prepared"} \cup Terminal

\* A manifest exists only beside a verified backup.
BackupInv ==
  /\ durable.phase # "none" \/ pc \in {"staging", "prepare"} => workspace /\ backup = "verified"
  /\ pc = "backup" => workspace /\ backup = "none"
  /\ ~workspace => backup = "none"

\* What the phase says about the card.
CardInv ==
  /\ durable.phase \in {"none", "prepared"} => Untouched /\ file = "none"
  /\ pc = "completing" \/ durable.phase = "completed" => media = intended /\ temp = None
  /\ pc = "recovered" \/ durable.phase = "recovered" => Untouched
  /\ durable.phase = "recovery_incomplete" => durable.artifact = (temp # None)

\* A report is of the phase that is durable, and names a failure exactly when the
\* operation did not complete; a caller is told only what a report says.
ReportInv ==
  /\ pc \in Early \cup (Before \ {"required"}) \cup {"preactivation", "begin"} => failure = "none"
  /\ pc \in {"required", "inProgress"} \cup Recovering => failure # "none"
  /\ pc = "report" => (failure = "none" <=> durable.phase = "completed")
  /\ report # NoReport => pc \in Outside /\ workspace /\ report.phase = durable.phase
  /\ report # NoReport => (report.failure = "none" <=> report.phase = "completed")
  /\ result # "error" => pc \in {"idle", "release"} /\ report # NoReport
  /\ result = "completed" => report.phase = "completed"
  /\ result = "failed" => report.failure # "none"

\* The files a stage still has to treat, and the one it is treating.
StageInv ==
  /\ Rewriting \/ Removing => todo \subseteq Stage(pc)
  /\ file # "none" => Rewriting \/ Removing \/ pc = "release"
  /\ file # "none" /\ pc # "release" => file \in todo

\* The conjuncts of CatalogResolves, one for each content of the catalog.
Resolves ==
  /\ \A f \in Files : baseline[f] # "absent" /\ intended[f] # "absent" => media[f] # "absent"
  /\ intended[Catalog] # baseline[Catalog] /\ media[Catalog] = "old" =>
       \A f \in Files : baseline[f] # "absent" => media[f] # "absent"
  /\ intended[Catalog] # baseline[Catalog] /\ media[Catalog] = "new" =>
       \A f \in Files : intended[f] # "absent" => media[f] # "absent"

\* The types that ManifestInv and the plan leave over.
TypeRest ==
  /\ media \in [Managed -> {"absent", "old", "new", "torn"}]
  /\ temp \in {None} \cup [file : Files, content : {"old", "new"}]
  /\ lock \in BOOLEAN /\ workspace \in BOOLEAN /\ manifestTemp \in BOOLEAN /\ artifact \in BOOLEAN
  /\ backup \in {"none", "partial", "verified"}
  /\ todo \in SUBSET Managed /\ file \in Managed \cup {"none"}
  /\ tries \in {0, 1}
  /\ result \in {"error", "completed", "failed"}

\* How far each stage has come.
MediaInv ==
  /\ pc = "documents" =>
       /\ media[Catalog] = "old"
       /\ \A f \in Files : baseline[f] # "absent" => media[f] # "absent"
       /\ \A f \in Stage("documents") \ todo : media[f] = intended[f]
       /\ \A f \in Files \ Stage("documents") : media[f] = baseline[f]
  /\ pc \in {"catalog", "deletions"} =>
       \A f \in Files : intended[f] # "absent" => media[f] = intended[f]
  /\ pc = "catalog" =>
       /\ \A f \in Files : baseline[f] # "absent" => media[f] # "absent"
       /\ Catalog \notin todo => media[Catalog] = intended[Catalog]
  /\ pc = "deletions" => media[Catalog] = intended[Catalog]
  /\ pc = "restore" => \A f \in Stage("restore") \ todo : media[f] = baseline[f]
  /\ pc \in {"restoreCatalog", "cleanup", "remove", "verify"} =>
       \A f \in Files : baseline[f] # "absent" => media[f] = baseline[f]
  /\ pc = "restoreCatalog" /\ Catalog \notin todo => media[Catalog] = baseline[Catalog]
  /\ pc \in {"cleanup", "remove", "verify"} => media[Catalog] = baseline[Catalog]

\* The inductive invariant.
IInv == TypeOK /\ ManifestInv /\ BackupInv /\ CardInv /\ ReportInv /\ StageInv /\ MediaInv /\ Resolves

\* What a plan's snapshots are.
Typed(p, q) ==
  /\ p \in [Managed -> {"absent", "old"}]
  /\ q \in [Managed -> {"absent", "old", "new"}]
  /\ p[Catalog] = "old" /\ q[Catalog] # "absent"
  /\ \A f \in Files : p[f] = "absent" => q[f] # "old"
  /\ p # q

\* A plan's snapshots are typed, keep a catalog and differ.
LEMMA PlanTyped == ASSUME NEW p, NEW q, <<p, q>> \in Plans PROVE Typed(p, q)
BY DEF Plans, Typed

\* The catalog and the documents are what is managed.
LEMMA ManagedFacts ==
  /\ Catalog \in Managed /\ Files \subseteq Managed /\ "none" \notin Managed
  /\ \A f \in Managed : f = Catalog \/ f \in Files
BY UsbAssumption DEF Managed, Catalog

\* A stage treats managed files.
LEMMA StageTyped == \A name : Stage(name) \subseteq Managed
BY ManagedFacts DEF Stage

\* Resolves is CatalogResolves, content by content.
LEMMA ResolvesFacts == (Resolves => CatalogResolves) /\ (Resolves' => CatalogResolves')
BY DEF Resolves, CatalogResolves

\* TypeOK with its sets taken apart.
LEMMA TypeFacts == TypeOK => TypeRest
BY DEF TypeOK, TypeRest

\* The invariant holds at first.
LEMMA Initially == Init => IInv
<1> SUFFICES ASSUME Init PROVE IInv
  OBVIOUS
<1>0. Typed(baseline, intended) /\ media = baseline /\ <<baseline, intended>> \in Plans
  <2>1. PICK p \in Plans : baseline = p[1] /\ intended = p[2] /\ media = p[1]
    BY DEF Init
  <2>2. p = <<baseline, intended>>
    BY <2>1 DEF Plans
  <2> QED
    BY <2>1, <2>2, PlanTyped
<1>1. TypeOK
  <2>1. media \in [Managed -> {"absent", "old", "new", "torn"}]
    BY <1>0 DEF Typed
  <2>2. {lock, workspace, manifestTemp, artifact} \subseteq BOOLEAN
    BY DEF Init
  <2>3. {durable.revision, rollback.revision} \subseteq 0 .. 5
    BY DEF Init, NoManifest
  <2> QED
    BY <1>0, <2>1, <2>2, <2>3 DEF Init, TypeOK
<1>2. ManifestInv /\ BackupInv
  BY DEF Init, ManifestInv, BackupInv, Known, NoManifest, Early, Before, Recovering, Outside,
    Terminal
<1>3. CardInv
  BY <1>0 DEF Init, CardInv, NoManifest, Untouched
<1>4. ReportInv
  BY DEF Init, ReportInv, NoReport, NoManifest, Before, Recovering, Outside, Early
<1>5. StageInv /\ MediaInv
  BY DEF Init, StageInv, MediaInv, Rewriting, Removing
<1>6. Resolves
  BY <1>0, ManagedFacts DEF Resolves, Typed
<1> QED
  BY <1>1, <1>2, <1>3, <1>4, <1>5, <1>6 DEF IInv

USE DEF planVars, cardVars, hostVars, manifestVars, stepVars, errorVars, cardFrame, Goto, Forget, Fail,
  Early, Before, Recovering, Outside, Terminal

\* A transition of the manifest that _require_usb_rollback_manifest_transition admits
\* leads to the revision its phase has, and never from a terminal phase.
LEMMA AllowedKnown ==
  ASSUME Known(durable), NEW p, NEW b \in BOOLEAN,
         TransitionAllowed(Manifest(durable.revision + 1, p, b))
  PROVE  /\ Known(Manifest(durable.revision + 1, p, b))
         /\ p \in {"prepared", "mutation_started", "recovery_required", "recovery_in_progress"} \cup Terminal
         /\ p = "prepared" <=> durable = NoManifest
         /\ p \in {"mutation_started"} => durable.phase = "prepared"
         /\ p \in {"completed", "recovery_required"} => durable.phase = "mutation_started"
         /\ p \in {"recovery_in_progress"} => durable.phase = "recovery_required"
         /\ p \in {"recovered", "recovery_incomplete"} => durable.phase = "recovery_in_progress"
         /\ durable.phase \notin Terminal
<1> DEFINE m == Manifest(durable.revision + 1, p, b)
<1>1. m.revision = durable.revision + 1 /\ m.phase = p /\ m.artifact = b
  BY DEF Manifest
<1>2. CASE durable = NoManifest
  BY <1>1, <1>2 DEF TransitionAllowed, Known, Manifest, NoManifest, Terminal
<1>3. CASE durable # NoManifest
  <2>1. <<durable.phase, p>> \in Allowed /\ durable.phase # "none"
    BY <1>1, <1>3 DEF TransitionAllowed, Known
  <2> QED
    BY <2>1, <1>3 DEF Allowed, Known, Manifest, Terminal, NoManifest
<1> QED
  BY <1>2, <1>3

\* What a published manifest is.
LEMMA PublishedKnown ==
  ASSUME Known(durable), NEW p, NEW b \in BOOLEAN, Published(Manifest(durable.revision + 1, p, b))
  PROVE  /\ Known(durable)' /\ durable' = Manifest(durable.revision + 1, p, b)
         /\ durable'.phase = p /\ durable'.artifact = b
BY AllowedKnown DEF Published, Manifest, Known

USE DEF planVars, cardVars, hostVars, manifestVars, stepVars, errorVars, cardFrame, Goto, Forget, Fail,
  Early, Before, Recovering, Outside, Terminal

\* Writing the manifest keeps the type of its temporary file.
LEMMA ManifestTempFacts ==
  ASSUME IInv
  PROVE  /\ \A m : Published(m) => manifestTemp' \in BOOLEAN
         /\ NotPublished => manifestTemp' \in BOOLEAN
BY TypeFacts DEF IInv, TypeRest, Published, NotPublished

\* What the PREPARED manifest changes.
LEMMA PrepareFacts ==
  ASSUME IInv, Prepare
  PROVE  /\ pc = "prepare" /\ UNCHANGED <<planVars, cardVars, hostVars, report, stepVars, errorVars, result>>
         /\ Known(rollback') /\ manifestTemp' \in BOOLEAN
         /\ \/ durable' = rollback' /\ durable'.phase = "prepared" /\ pc' \in {"preactivation", "release"}
            \/ durable' = durable /\ pc' = "release"
<1>1. durable = NoManifest /\ NoManifest.revision = 0 /\ Known(durable)
  BY DEF Prepare, NoManifest, IInv, ManifestInv
<1>2. /\ pc = "prepare" /\ manifestTemp' \in BOOLEAN
      /\ UNCHANGED <<planVars, cardVars, hostVars, report, stepVars, errorVars, result>>
  BY ManifestTempFacts DEF Prepare
<1>3. CASE Published(rollback')
  <2>1. rollback' = Manifest(durable.revision + 1, "prepared", FALSE)
    BY <1>1 DEF Prepare, NoManifest
  <2>2. Known(rollback') /\ durable' = rollback' /\ durable'.phase = "prepared"
    BY <1>1, <1>3, <2>1, PublishedKnown
  <2> QED
    BY <1>2, <2>2 DEF Prepare
<1>4. CASE NotPublished /\ pc' = "release"
  <2>1. rollback' = Manifest(1, "prepared", FALSE) /\ Known(rollback')
    BY DEF Prepare, Manifest, Known
  <2> QED
    BY <1>2, <1>4, <2>1 DEF NotPublished
<1> QED
  BY <1>3, <1>4 DEF Prepare

\* What the MUTATION_STARTED manifest changes.
LEMMA BeginMutationFacts ==
  ASSUME IInv, BeginMutation
  PROVE  /\ Activating /\ todo # {} /\ durable.phase = "prepared"
         /\ UNCHANGED <<planVars, cardVars, hostVars, report, todo, result>>
         /\ Known(durable') /\ artifact' = artifact /\ manifestTemp' \in BOOLEAN
         /\ \/ /\ durable'.phase = "mutation_started"
               /\ \/ pc' = pc /\ rollback' = durable' /\ UNCHANGED <<file, failure, tries>>
                  \/ pc' = "required" /\ rollback' = durable' /\ file' = "none" /\ tries' = 0
                     /\ failure' = "activation_failed_after_mutation"
                  \/ pc' = "release" /\ rollback' = rollback /\ UNCHANGED <<file, failure, tries>>
            \/ /\ UNCHANGED <<durable, rollback>>
               /\ \/ pc' = "report" /\ file' = "none" /\ tries' = 0 /\ failure' = "activation_failed_before_mutation"
                  \/ pc' = "release" /\ UNCHANGED <<file, failure, tries>>
<1>1. Known(durable) /\ rollback = durable /\ durable.phase = "prepared"
  BY DEF BeginMutation, IInv, ManifestInv, Activating
<1>2. /\ Activating /\ todo # {} /\ manifestTemp' \in BOOLEAN
      /\ UNCHANGED <<planVars, cardVars, hostVars, report, todo, result, artifact>>
  BY ManifestTempFacts DEF BeginMutation
<1>3. CASE Published(MutationStarted)
  <2>1. MutationStarted = Manifest(durable.revision + 1, "mutation_started", FALSE)
    BY <1>1 DEF MutationStarted
  <2>2. Known(durable') /\ durable'.phase = "mutation_started" /\ durable' = MutationStarted
    BY <1>1, <1>3, <2>1, PublishedKnown
  <2>3. durable' # durable
    BY <1>1, <2>2
  <2> QED
    BY <1>1, <1>2, <2>2, <2>3 DEF BeginMutation, NotPublished
<1>4. CASE ~Published(MutationStarted)
  <2>1. UNCHANGED <<durable, rollback>>
    BY <1>4 DEF BeginMutation, NotPublished
  <2>2. \/ pc' = "report" /\ file' = "none" /\ tries' = 0 /\ failure' = "activation_failed_before_mutation"
        \/ pc' = "release" /\ UNCHANGED <<file, failure, tries>>
    BY <1>4 DEF BeginMutation
  <2> QED
    BY <1>1, <1>2, <2>1, <2>2
<1> QED
  BY <1>3, <1>4

\* What a later manifest says when it is published.
LEMMA ProposedFacts ==
  ASSUME IInv, pc \in Publishing, Published(Proposed)
  PROVE  /\ Known(durable') /\ durable' = Proposed
         /\ durable'.phase = PhaseOf(pc) /\ durable'.artifact = (temp # None)
         /\ durable.phase \notin Terminal /\ rollback = durable
         /\ pc # "incomplete" /\ pc # "recovered" /\ pc # "inProgress" => durable.phase = "mutation_started"
<1>1. Known(durable) /\ rollback = durable /\ (temp # None) \in BOOLEAN
  BY DEF Publishing, IInv, ManifestInv
<1>2. Proposed = Manifest(durable.revision + 1, PhaseOf(pc), temp # None)
  BY <1>1 DEF Proposed
<1>3. Known(durable') /\ durable' = Proposed /\ durable'.phase = PhaseOf(pc) /\ durable'.artifact = (temp # None)
  BY <1>1, <1>2, PublishedKnown
<1>4. /\ durable.phase \notin Terminal
      /\ PhaseOf(pc) \in {"completed", "recovery_required"} => durable.phase = "mutation_started"
  BY <1>1, <1>2, AllowedKnown DEF Published
<1> QED
  BY <1>1, <1>3, <1>4 DEF PhaseOf, Publishing

\* What a published transition changes.
LEMMA PublishTransitionFacts ==
  ASSUME IInv, PublishTransition
  PROVE  /\ pc \in Publishing /\ pc' = Following(pc) /\ tries' = 0
         /\ UNCHANGED <<planVars, cardVars, hostVars, report, todo, file, artifact, result>>
         /\ failure' = IF pc = "incomplete" THEN "recovery_incomplete" ELSE failure
         /\ Known(durable') /\ rollback' = durable'
         /\ durable'.phase = PhaseOf(pc) /\ durable'.artifact = (temp # None)
         /\ durable.phase \notin Terminal /\ manifestTemp' \in BOOLEAN
BY ProposedFacts, ManifestTempFacts DEF PublishTransition

\* What a transition that raised may have changed.
LEMMA PublishRaisesFacts ==
  ASSUME IInv, PublishRaises
  PROVE  /\ pc \in Publishing /\ pc' = "release"
         /\ UNCHANGED <<planVars, cardVars, hostVars, rollback, report, stepVars, errorVars, result>>
         /\ \/ /\ Known(durable')
               /\ durable'.phase = PhaseOf(pc) /\ durable'.artifact = (temp # None)
               /\ durable.phase \notin Terminal
            \/ durable' = durable
         /\ manifestTemp' \in BOOLEAN
BY ProposedFacts, ManifestTempFacts DEF PublishRaises, NotPublished

\* No step changes the plan.
LEMMA PlanKept == [Next]_vars => UNCHANGED planVars
BY DEF Next, vars, WorkflowStep, PrimitiveStep, Begin, MakeWorkspace, CopyBackup, CreateStaging,
    Prepare,
  Preactivation, BeginActivation, BeginMutation, WriteSkip, WriteOpen, RemoveSkip, Displace, WriteFinish,
  WriteBreaks, Unlink, UnlinkBreaks, StepRefused, StageDone, Readback, BeginRecovery, Cleanup, Verify,
  PublishTransition, PublishRetry, PublishRaises, PublishReport, Release, Unwind, Crash

\* The facts about the card that every step's proof needs.
LEMMA MediaFacts ==
  ASSUME IInv
  PROVE  /\ Typed(baseline, intended) /\ Resolves /\ MediaInv
         /\ media \in [Managed -> {"absent", "old", "new", "torn"}]
         /\ Catalog \in Managed /\ Catalog \notin Files /\ Files \subseteq Managed
         /\ \A f \in Managed : f # "none" /\ (f = Catalog \/ f \in Files)
BY PlanTyped, ManagedFacts, UsbAssumption DEF IInv, TypeOK

\* No step breaks the agreement of step and manifest.
LEMMA ManifestKept == IInv /\ [Next]_vars => ManifestInv'
<1> SUFFICES ASSUME IInv, [Next]_vars PROVE ManifestInv'
  OBVIOUS
<1> USE DEF ManifestInv, Known, BackupInv, StageInv, CardInv, Activating, Rewriting, Removing
<1>0. TypeOK /\ ManifestInv /\ BackupInv /\ CardInv /\ ReportInv /\ StageInv
  BY DEF IInv
<1>1. CASE Begin
  BY <1>0, <1>1 DEF Begin
<1>2. CASE MakeWorkspace
  BY <1>0, <1>2 DEF MakeWorkspace
<1>3. CASE CopyBackup
  BY <1>0, <1>3 DEF CopyBackup
<1>4. CASE CreateStaging
  BY <1>0, <1>4 DEF CreateStaging
<1>5. CASE Prepare
  BY <1>0, <1>5, PrepareFacts DEF NoManifest
<1>6. CASE Preactivation
  BY <1>0, <1>6 DEF Preactivation
<1>7. CASE BeginActivation
  BY <1>0, <1>7 DEF BeginActivation
<1>8. CASE BeginMutation
  BY <1>0, <1>8, BeginMutationFacts
<1>9. ASSUME NEW f \in Managed, WriteSkip(f) PROVE ManifestInv'
  BY <1>0, <1>9 DEF WriteSkip, InStep
<1>10. ASSUME NEW f \in Managed, WriteOpen(f) PROVE ManifestInv'
  BY <1>0, <1>10 DEF WriteOpen, InStep
<1>11. ASSUME NEW f \in Managed, RemoveSkip(f) PROVE ManifestInv'
  BY <1>0, <1>11 DEF RemoveSkip, InStep
<1>12. ASSUME NEW f \in Managed, Displace(f) PROVE ManifestInv'
  BY <1>0, <1>12 DEF Displace, InStep
<1>13. CASE WriteFinish
  BY <1>0, <1>13 DEF WriteFinish
<1>14. CASE WriteBreaks
  BY <1>0, <1>14 DEF WriteBreaks, StepFails
<1>15. CASE Unlink
  BY <1>0, <1>15 DEF Unlink
<1>16. CASE UnlinkBreaks
  BY <1>0, <1>16 DEF UnlinkBreaks, StepFails
<1>17. CASE StepRefused
  BY <1>0, <1>17 DEF StepRefused, StepFails, InStep
<1>18. CASE StageDone
  BY <1>0, <1>18 DEF StageDone, After
<1>19. CASE Readback
  BY <1>0, <1>19 DEF Readback
<1>20. CASE BeginRecovery
  BY <1>0, <1>20 DEF BeginRecovery, StepFails
<1>21. CASE Cleanup
  BY <1>0, <1>21 DEF Cleanup, StepFails
<1>22. CASE Verify
  BY <1>0, <1>22 DEF Verify, StepFails
<1>23. CASE PublishTransition
  BY <1>0, <1>23, PublishTransitionFacts DEF Publishing, PhaseOf, Following
<1>24. CASE PublishRetry
  BY <1>0, <1>24 DEF PublishRetry, NotPublished, Publishing
<1>25. CASE PublishRaises
  BY <1>0, <1>25, PublishRaisesFacts DEF Publishing, PhaseOf
<1>26. CASE PublishReport
  BY <1>0, <1>26 DEF PublishReport
<1>27. CASE Release
  BY <1>0, <1>27 DEF Release, NoManifest
<1>28. CASE Unwind
  BY <1>0, <1>28 DEF Unwind
<1>29. CASE Crash
  BY <1>0, <1>29 DEF Crash, NoManifest
<1>30. CASE UNCHANGED vars
  BY <1>0, <1>30 DEF vars
<1> QED
  BY <1>1, <1>2, <1>3, <1>4, <1>5, <1>6, <1>7, <1>8, <1>9, <1>10, <1>11, <1>12, <1>13, <1>14,
    <1>15, <1>16, <1>17, <1>18, <1>19, <1>20, <1>21, <1>22, <1>23, <1>24, <1>25, <1>26, <1>27,
    <1>28, <1>29, <1>30 DEF Next, WorkflowStep, PrimitiveStep

\* No step gives up the backup behind a manifest.
LEMMA BackupKept == IInv /\ [Next]_vars => BackupInv'
<1> SUFFICES ASSUME IInv, [Next]_vars PROVE BackupInv'
  OBVIOUS
<1> USE DEF ManifestInv, Known, BackupInv, Activating, Rewriting, Removing
<1>0. TypeOK /\ ManifestInv /\ BackupInv /\ CardInv /\ ReportInv /\ StageInv
  BY DEF IInv
<1>1. CASE Begin
  BY <1>0, <1>1 DEF Begin
<1>2. CASE MakeWorkspace
  BY <1>0, <1>2 DEF MakeWorkspace
<1>3. CASE CopyBackup
  BY <1>0, <1>3 DEF CopyBackup
<1>4. CASE CreateStaging
  BY <1>0, <1>4 DEF CreateStaging
<1>5. CASE Prepare
  BY <1>0, <1>5, PrepareFacts DEF NoManifest
<1>6. CASE Preactivation
  BY <1>0, <1>6 DEF Preactivation
<1>7. CASE BeginActivation
  BY <1>0, <1>7 DEF BeginActivation
<1>8. CASE BeginMutation
  BY <1>0, <1>8, BeginMutationFacts
<1>9. ASSUME NEW f \in Managed, WriteSkip(f) PROVE BackupInv'
  BY <1>0, <1>9 DEF WriteSkip, InStep
<1>10. ASSUME NEW f \in Managed, WriteOpen(f) PROVE BackupInv'
  BY <1>0, <1>10 DEF WriteOpen, InStep
<1>11. ASSUME NEW f \in Managed, RemoveSkip(f) PROVE BackupInv'
  BY <1>0, <1>11 DEF RemoveSkip, InStep
<1>12. ASSUME NEW f \in Managed, Displace(f) PROVE BackupInv'
  BY <1>0, <1>12 DEF Displace, InStep
<1>13. CASE WriteFinish
  BY <1>0, <1>13 DEF WriteFinish
<1>14. CASE WriteBreaks
  BY <1>0, <1>14 DEF WriteBreaks, StepFails
<1>15. CASE Unlink
  BY <1>0, <1>15 DEF Unlink
<1>16. CASE UnlinkBreaks
  BY <1>0, <1>16 DEF UnlinkBreaks, StepFails
<1>17. CASE StepRefused
  BY <1>0, <1>17 DEF StepRefused, StepFails, InStep
<1>18. CASE StageDone
  BY <1>0, <1>18 DEF StageDone, After
<1>19. CASE Readback
  BY <1>0, <1>19 DEF Readback
<1>20. CASE BeginRecovery
  BY <1>0, <1>20 DEF BeginRecovery, StepFails
<1>21. CASE Cleanup
  BY <1>0, <1>21 DEF Cleanup, StepFails
<1>22. CASE Verify
  BY <1>0, <1>22 DEF Verify, StepFails
<1>23. CASE PublishTransition
  BY <1>0, <1>23, PublishTransitionFacts DEF Publishing, PhaseOf, Following
<1>24. CASE PublishRetry
  BY <1>0, <1>24 DEF PublishRetry, NotPublished, Publishing
<1>25. CASE PublishRaises
  BY <1>0, <1>25, PublishRaisesFacts DEF Publishing, PhaseOf
<1>26. CASE PublishReport
  BY <1>0, <1>26 DEF PublishReport
<1>27. CASE Release
  BY <1>0, <1>27 DEF Release, NoManifest
<1>28. CASE Unwind
  BY <1>0, <1>28 DEF Unwind
<1>29. CASE Crash
  BY <1>0, <1>29 DEF Crash, NoManifest
<1>30. CASE UNCHANGED vars
  BY <1>0, <1>30 DEF vars
<1> QED
  BY <1>1, <1>2, <1>3, <1>4, <1>5, <1>6, <1>7, <1>8, <1>9, <1>10, <1>11, <1>12, <1>13, <1>14,
    <1>15, <1>16, <1>17, <1>18, <1>19, <1>20, <1>21, <1>22, <1>23, <1>24, <1>25, <1>26, <1>27,
    <1>28, <1>29, <1>30 DEF Next, WorkflowStep, PrimitiveStep

\* No step makes the manifest untrue of the card.
LEMMA CardKept == IInv /\ [Next]_vars => CardInv'
<1> SUFFICES ASSUME IInv, [Next]_vars PROVE CardInv'
  OBVIOUS
<1> USE DEF ManifestInv, Known, BackupInv, StageInv, CardInv, Untouched, Activating, Rewriting,
    Removing
<1>0. TypeOK /\ ManifestInv /\ BackupInv /\ CardInv /\ ReportInv /\ StageInv
  BY DEF IInv
<1>1. CASE Begin
  BY <1>0, <1>1 DEF Begin
<1>2. CASE MakeWorkspace
  BY <1>0, <1>2 DEF MakeWorkspace
<1>3. CASE CopyBackup
  BY <1>0, <1>3 DEF CopyBackup
<1>4. CASE CreateStaging
  BY <1>0, <1>4 DEF CreateStaging
<1>5. CASE Prepare
  BY <1>0, <1>5, PrepareFacts DEF NoManifest
<1>6. CASE Preactivation
  BY <1>0, <1>6 DEF Preactivation
<1>7. CASE BeginActivation
  BY <1>0, <1>7 DEF BeginActivation
<1>8. CASE BeginMutation
  BY <1>0, <1>8, BeginMutationFacts
<1>9. ASSUME NEW f \in Managed, WriteSkip(f) PROVE CardInv'
  BY <1>0, <1>9 DEF WriteSkip, InStep
<1>10. ASSUME NEW f \in Managed, WriteOpen(f) PROVE CardInv'
  BY <1>0, <1>10 DEF WriteOpen, InStep
<1>11. ASSUME NEW f \in Managed, RemoveSkip(f) PROVE CardInv'
  BY <1>0, <1>11 DEF RemoveSkip, InStep
<1>12. ASSUME NEW f \in Managed, Displace(f) PROVE CardInv'
  BY <1>0, <1>12 DEF Displace, InStep
<1>13. CASE WriteFinish
  BY <1>0, <1>13 DEF WriteFinish
<1>14. CASE WriteBreaks
  BY <1>0, <1>14 DEF WriteBreaks, StepFails
<1>15. CASE Unlink
  BY <1>0, <1>15 DEF Unlink
<1>16. CASE UnlinkBreaks
  BY <1>0, <1>16 DEF UnlinkBreaks, StepFails
<1>17. CASE StepRefused
  BY <1>0, <1>17 DEF StepRefused, StepFails, InStep
<1>18. CASE StageDone
  BY <1>0, <1>18 DEF StageDone, After
<1>19. CASE Readback
  BY <1>0, <1>19 DEF Readback
<1>20. CASE BeginRecovery
  BY <1>0, <1>20 DEF BeginRecovery, StepFails
<1>21. CASE Cleanup
  BY <1>0, <1>21 DEF Cleanup, StepFails
<1>22. CASE Verify
  BY <1>0, <1>22 DEF Verify, StepFails
<1>23. CASE PublishTransition
  BY <1>0, <1>23, PublishTransitionFacts DEF Publishing, PhaseOf, Following
<1>24. CASE PublishRetry
  BY <1>0, <1>24 DEF PublishRetry, NotPublished, Publishing
<1>25. CASE PublishRaises
  BY <1>0, <1>25, PublishRaisesFacts DEF Publishing, PhaseOf
<1>26. CASE PublishReport
  BY <1>0, <1>26 DEF PublishReport
<1>27. CASE Release
  BY <1>0, <1>27 DEF Release, NoManifest
<1>28. CASE Unwind
  BY <1>0, <1>28 DEF Unwind
<1>29. CASE Crash
  BY <1>0, <1>29 DEF Crash, NoManifest
<1>30. CASE UNCHANGED vars
  BY <1>0, <1>30 DEF vars
<1> QED
  BY <1>1, <1>2, <1>3, <1>4, <1>5, <1>6, <1>7, <1>8, <1>9, <1>10, <1>11, <1>12, <1>13, <1>14,
    <1>15, <1>16, <1>17, <1>18, <1>19, <1>20, <1>21, <1>22, <1>23, <1>24, <1>25, <1>26, <1>27,
    <1>28, <1>29, <1>30 DEF Next, WorkflowStep, PrimitiveStep

\* No step makes a report untrue.
LEMMA ReportKept == IInv /\ [Next]_vars => ReportInv'
<1> SUFFICES ASSUME IInv, [Next]_vars PROVE ReportInv'
  OBVIOUS
<1> USE DEF ManifestInv, Known, BackupInv, ReportInv, NoReport, Activating, Rewriting, Removing
<1>0. TypeOK /\ ManifestInv /\ BackupInv /\ CardInv /\ ReportInv /\ StageInv
  BY DEF IInv
<1>1. CASE Begin
  BY <1>0, <1>1 DEF Begin
<1>2. CASE MakeWorkspace
  BY <1>0, <1>2 DEF MakeWorkspace
<1>3. CASE CopyBackup
  BY <1>0, <1>3 DEF CopyBackup
<1>4. CASE CreateStaging
  BY <1>0, <1>4 DEF CreateStaging
<1>5. CASE Prepare
  BY <1>0, <1>5, PrepareFacts DEF NoManifest
<1>6. CASE Preactivation
  BY <1>0, <1>6 DEF Preactivation
<1>7. CASE BeginActivation
  BY <1>0, <1>7 DEF BeginActivation
<1>8. CASE BeginMutation
  BY <1>0, <1>8, BeginMutationFacts
<1>9. ASSUME NEW f \in Managed, WriteSkip(f) PROVE ReportInv'
  BY <1>0, <1>9 DEF WriteSkip, InStep
<1>10. ASSUME NEW f \in Managed, WriteOpen(f) PROVE ReportInv'
  BY <1>0, <1>10 DEF WriteOpen, InStep
<1>11. ASSUME NEW f \in Managed, RemoveSkip(f) PROVE ReportInv'
  BY <1>0, <1>11 DEF RemoveSkip, InStep
<1>12. ASSUME NEW f \in Managed, Displace(f) PROVE ReportInv'
  BY <1>0, <1>12 DEF Displace, InStep
<1>13. CASE WriteFinish
  BY <1>0, <1>13 DEF WriteFinish
<1>14. CASE WriteBreaks
  BY <1>0, <1>14 DEF WriteBreaks, StepFails
<1>15. CASE Unlink
  BY <1>0, <1>15 DEF Unlink
<1>16. CASE UnlinkBreaks
  BY <1>0, <1>16 DEF UnlinkBreaks, StepFails
<1>17. CASE StepRefused
  BY <1>0, <1>17 DEF StepRefused, StepFails, InStep
<1>18. CASE StageDone
  BY <1>0, <1>18 DEF StageDone, After
<1>19. CASE Readback
  BY <1>0, <1>19 DEF Readback
<1>20. CASE BeginRecovery
  BY <1>0, <1>20 DEF BeginRecovery, StepFails
<1>21. CASE Cleanup
  BY <1>0, <1>21 DEF Cleanup, StepFails
<1>22. CASE Verify
  BY <1>0, <1>22 DEF Verify, StepFails
<1>23. CASE PublishTransition
  BY <1>0, <1>23, PublishTransitionFacts DEF Publishing, PhaseOf, Following
<1>24. CASE PublishRetry
  BY <1>0, <1>24 DEF PublishRetry, NotPublished, Publishing
<1>25. CASE PublishRaises
  BY <1>0, <1>25, PublishRaisesFacts DEF Publishing, PhaseOf
<1>26. CASE PublishReport
  BY <1>0, <1>26 DEF PublishReport
<1>27. CASE Release
  BY <1>0, <1>27 DEF Release, NoManifest
<1>28. CASE Unwind
  BY <1>0, <1>28 DEF Unwind
<1>29. CASE Crash
  BY <1>0, <1>29 DEF Crash, NoManifest
<1>30. CASE UNCHANGED vars
  BY <1>0, <1>30 DEF vars
<1> QED
  BY <1>1, <1>2, <1>3, <1>4, <1>5, <1>6, <1>7, <1>8, <1>9, <1>10, <1>11, <1>12, <1>13, <1>14,
    <1>15, <1>16, <1>17, <1>18, <1>19, <1>20, <1>21, <1>22, <1>23, <1>24, <1>25, <1>26, <1>27,
    <1>28, <1>29, <1>30 DEF Next, WorkflowStep, PrimitiveStep

\* No step treats a file of another stage.
LEMMA StageKept == IInv /\ [Next]_vars => StageInv'
<1> SUFFICES ASSUME IInv, [Next]_vars PROVE StageInv'
  OBVIOUS
<1> USE DEF ManifestInv, StageInv, Stage, Activating, Rewriting, Removing
<1>0. TypeOK /\ ManifestInv /\ BackupInv /\ CardInv /\ ReportInv /\ StageInv
  BY DEF IInv
<1>1. CASE Begin
  BY <1>0, <1>1, StageTyped, ManagedFacts DEF Begin
<1>2. CASE MakeWorkspace
  BY <1>0, <1>2, StageTyped, ManagedFacts DEF MakeWorkspace
<1>3. CASE CopyBackup
  BY <1>0, <1>3, StageTyped, ManagedFacts DEF CopyBackup
<1>4. CASE CreateStaging
  BY <1>0, <1>4, StageTyped, ManagedFacts DEF CreateStaging
<1>5. CASE Prepare
  BY <1>0, <1>5, PrepareFacts, StageTyped, ManagedFacts DEF NoManifest
<1>6. CASE Preactivation
  BY <1>0, <1>6, StageTyped, ManagedFacts DEF Preactivation
<1>7. CASE BeginActivation
  BY <1>0, <1>7, StageTyped, ManagedFacts DEF BeginActivation
<1>8. CASE BeginMutation
  BY <1>0, <1>8, BeginMutationFacts, StageTyped, ManagedFacts
<1>9. ASSUME NEW f \in Managed, WriteSkip(f) PROVE StageInv'
  BY <1>0, <1>9, StageTyped, ManagedFacts DEF WriteSkip, InStep
<1>10. ASSUME NEW f \in Managed, WriteOpen(f) PROVE StageInv'
  BY <1>0, <1>10, StageTyped, ManagedFacts DEF WriteOpen, InStep
<1>11. ASSUME NEW f \in Managed, RemoveSkip(f) PROVE StageInv'
  BY <1>0, <1>11, StageTyped, ManagedFacts DEF RemoveSkip, InStep
<1>12. ASSUME NEW f \in Managed, Displace(f) PROVE StageInv'
  BY <1>0, <1>12, StageTyped, ManagedFacts DEF Displace, InStep
<1>13. CASE WriteFinish
  BY <1>0, <1>13, StageTyped, ManagedFacts DEF WriteFinish
<1>14. CASE WriteBreaks
  BY <1>0, <1>14, StageTyped, ManagedFacts DEF WriteBreaks, StepFails
<1>15. CASE Unlink
  BY <1>0, <1>15, StageTyped, ManagedFacts DEF Unlink
<1>16. CASE UnlinkBreaks
  BY <1>0, <1>16, StageTyped, ManagedFacts DEF UnlinkBreaks, StepFails
<1>17. CASE StepRefused
  BY <1>0, <1>17, StageTyped, ManagedFacts DEF StepRefused, StepFails, InStep
<1>18. CASE StageDone
  BY <1>0, <1>18, StageTyped, ManagedFacts DEF StageDone, After
<1>19. CASE Readback
  BY <1>0, <1>19, StageTyped, ManagedFacts DEF Readback
<1>20. CASE BeginRecovery
  BY <1>0, <1>20, StageTyped, ManagedFacts DEF BeginRecovery, StepFails
<1>21. CASE Cleanup
  BY <1>0, <1>21, StageTyped, ManagedFacts DEF Cleanup, StepFails
<1>22. CASE Verify
  BY <1>0, <1>22, StageTyped, ManagedFacts DEF Verify, StepFails
<1>23. CASE PublishTransition
  BY <1>0, <1>23, PublishTransitionFacts, StageTyped, ManagedFacts DEF Publishing, PhaseOf,
    Following
<1>24. CASE PublishRetry
  BY <1>0, <1>24, StageTyped, ManagedFacts DEF PublishRetry, NotPublished, Publishing
<1>25. CASE PublishRaises
  BY <1>0, <1>25, PublishRaisesFacts, StageTyped, ManagedFacts DEF Publishing, PhaseOf
<1>26. CASE PublishReport
  BY <1>0, <1>26, StageTyped, ManagedFacts DEF PublishReport
<1>27. CASE Release
  BY <1>0, <1>27, StageTyped, ManagedFacts DEF Release, NoManifest
<1>28. CASE Unwind
  BY <1>0, <1>28, StageTyped, ManagedFacts DEF Unwind
<1>29. CASE Crash
  BY <1>0, <1>29, StageTyped, ManagedFacts DEF Crash, NoManifest
<1>30. CASE UNCHANGED vars
  BY <1>0, <1>30, StageTyped, ManagedFacts DEF vars
<1> QED
  BY <1>1, <1>2, <1>3, <1>4, <1>5, <1>6, <1>7, <1>8, <1>9, <1>10, <1>11, <1>12, <1>13, <1>14,
    <1>15, <1>16, <1>17, <1>18, <1>19, <1>20, <1>21, <1>22, <1>23, <1>24, <1>25, <1>26, <1>27,
    <1>28, <1>29, <1>30 DEF Next, WorkflowStep, PrimitiveStep


\* Rewriting a file of the current stage, whether it succeeds or tears the file.
LEMMA RewriteResolves ==
  ASSUME IInv, Rewriting, file \in Stage(pc), file \in Managed, planVars' = planVars,
         media'[file] \in {"torn", Target(file)},
         \A g \in Managed : g # file => media'[g] = media[g]
  PROVE  Resolves'
<1>1. CASE file \in Files
  <2>1. media'[Catalog] = media[Catalog]
    BY <1>1, MediaFacts
  <2>2. media'[file] # "absent"
    BY <1>1, MediaFacts DEF Stage, Target, Activating, Rewriting
  <2>3. \A g \in Files : media[g] # "absent" => media'[g] # "absent"
    BY <2>2, MediaFacts
  <2> QED
    BY <2>1, <2>3, MediaFacts DEF Resolves
<1>2. CASE file = Catalog
  <2>1. \A g \in Files : media'[g] = media[g]
    BY <1>2, MediaFacts
  <2>2. pc \in {"catalog", "restoreCatalog"}
    BY <1>2, MediaFacts DEF Stage, Rewriting
  <2>3. CASE pc = "catalog"
    BY <1>2, <2>1, <2>3, MediaFacts DEF Resolves, MediaInv, Target, Activating, Typed
  <2>4. CASE pc = "restoreCatalog"
    BY <1>2, <2>1, <2>4, MediaFacts DEF Resolves, MediaInv, Target, Activating, Typed
  <2> QED
    BY <2>2, <2>3, <2>4
<1> QED
  BY <1>1, <1>2, MediaFacts

\* No step undoes what a stage has done.
LEMMA MediaKept == IInv /\ [Next]_vars => MediaInv'
<1> SUFFICES ASSUME IInv, [Next]_vars PROVE MediaInv'
  OBVIOUS
<1> USE DEF ManifestInv, MediaInv, StageInv, CardInv, Untouched, Stage, Activating, Rewriting,
    Removing
<1>0. TypeOK /\ ManifestInv /\ BackupInv /\ CardInv /\ ReportInv /\ StageInv
  BY DEF IInv
<1>1. CASE Begin
  BY <1>0, <1>1, MediaFacts DEF Begin
<1>2. CASE MakeWorkspace
  BY <1>0, <1>2, MediaFacts DEF MakeWorkspace
<1>3. CASE CopyBackup
  BY <1>0, <1>3, MediaFacts DEF CopyBackup
<1>4. CASE CreateStaging
  BY <1>0, <1>4, MediaFacts DEF CreateStaging
<1>5. CASE Prepare
  BY <1>0, <1>5, PrepareFacts, MediaFacts DEF NoManifest
<1>6. CASE Preactivation
  BY <1>0, <1>6, MediaFacts DEF Preactivation
<1>7. CASE BeginActivation
  <2>1. media = baseline /\ planVars' = planVars /\ media' = media
    BY <1>0, <1>7 DEF BeginActivation
  <2>2. CASE pc' = "documents" /\ todo' = Stage("documents")
    BY <1>0, <1>7, <2>1, <2>2, MediaFacts DEF Typed
  <2>3. CASE pc' = "report"
    BY <2>3
  <2> QED
    BY <1>0, <1>7, <2>2, <2>3 DEF BeginActivation
<1>8. CASE BeginMutation
  BY <1>0, <1>8, BeginMutationFacts, MediaFacts
<1>9. ASSUME NEW f \in Managed, WriteSkip(f) PROVE MediaInv'
  BY <1>0, <1>9, MediaFacts DEF WriteSkip, InStep, Target, Prior
<1>10. ASSUME NEW f \in Managed, WriteOpen(f) PROVE MediaInv'
  BY <1>0, <1>10, MediaFacts DEF WriteOpen, InStep, Target, Prior
<1>11. ASSUME NEW f \in Managed, RemoveSkip(f) PROVE MediaInv'
  BY <1>0, <1>11, MediaFacts DEF RemoveSkip, InStep, Target, Prior
<1>12. ASSUME NEW f \in Managed, Displace(f) PROVE MediaInv'
  BY <1>0, <1>12, MediaFacts DEF Displace, InStep, Target, Prior
<1>13. CASE WriteFinish
  BY <1>0, <1>13, MediaFacts DEF WriteFinish, Target, Prior
<1>14. CASE WriteBreaks
  BY <1>0, <1>14, MediaFacts DEF WriteBreaks, StepFails, Target, Prior
<1>15. CASE Unlink
  BY <1>0, <1>15, MediaFacts DEF Unlink
<1>16. CASE UnlinkBreaks
  BY <1>0, <1>16, MediaFacts DEF UnlinkBreaks, StepFails
<1>17. CASE StepRefused
  BY <1>0, <1>17, MediaFacts DEF StepRefused, StepFails, InStep
<1>18. CASE StageDone
  <2>1. planVars' = planVars /\ media' = media /\ todo = {} /\ pc' = After(pc)
    BY <1>0, <1>18 DEF StageDone
  <2>2. CASE pc = "documents"
    <3>1. pc' = "catalog" /\ todo' = Stage("catalog") /\ planVars' = planVars /\ media' = media
      BY <2>1, <2>2, <1>0, <1>18 DEF StageDone, After
    <3>2. \A f \in Files : intended[f] # "absent" => media[f] = intended[f]
      BY <2>1, <2>2, MediaFacts
    <3>3. Catalog \notin todo' => media[Catalog] = intended[Catalog]
      BY <2>2, <3>1, MediaFacts DEF Typed
    <3>4. \A f \in Files : baseline[f] # "absent" => media[f] # "absent"
      BY <2>2, MediaFacts
    <3> QED
      BY <3>1, <3>2, <3>3, <3>4
  <2>3. CASE pc = "catalog"
    BY <1>0, <1>18, <2>1, <2>3, MediaFacts DEF After
  <2>4. CASE pc = "deletions"
    BY <1>0, <1>18, <2>1, <2>4 DEF After
  <2>5. CASE pc = "restore"
    <3>1. pc' = "restoreCatalog" /\ todo' = {Catalog} /\ planVars' = planVars /\ media' = media
      BY <2>1, <2>5, <1>0, <1>18 DEF StageDone, After
    <3>2. \A f \in Files : baseline[f] # "absent" => media[f] = baseline[f]
      BY <2>1, <2>5, MediaFacts
    <3> QED
      BY <3>1, <3>2
  <2>6. CASE pc = "restoreCatalog"
    BY <1>0, <1>18, <2>1, <2>6, MediaFacts DEF After
  <2>7. CASE pc = "remove"
    <3>1. pc' = "verify" /\ planVars' = planVars /\ media' = media
      BY <2>1, <2>7 DEF After
    <3> QED
      BY <2>7, <3>1, MediaFacts
  <2> QED
    BY <1>0, <1>18, <2>2, <2>3, <2>4, <2>5, <2>6, <2>7 DEF StageDone
<1>19. CASE Readback
  BY <1>0, <1>19, MediaFacts DEF Readback
<1>20. CASE BeginRecovery
  BY <1>0, <1>20, MediaFacts DEF BeginRecovery, StepFails
<1>21. CASE Cleanup
  BY <1>0, <1>21, MediaFacts DEF Cleanup, StepFails
<1>22. CASE Verify
  BY <1>0, <1>22, MediaFacts DEF Verify, StepFails
<1>23. CASE PublishTransition
  BY <1>0, <1>23, PublishTransitionFacts, MediaFacts DEF Publishing, PhaseOf, Following
<1>24. CASE PublishRetry
  BY <1>0, <1>24, MediaFacts DEF PublishRetry, NotPublished, Publishing
<1>25. CASE PublishRaises
  BY <1>0, <1>25, PublishRaisesFacts, MediaFacts DEF Publishing, PhaseOf
<1>26. CASE PublishReport
  BY <1>0, <1>26, MediaFacts DEF PublishReport
<1>27. CASE Release
  BY <1>0, <1>27, MediaFacts DEF Release, NoManifest
<1>28. CASE Unwind
  BY <1>0, <1>28, MediaFacts DEF Unwind
<1>29. CASE Crash
  BY <1>0, <1>29, MediaFacts DEF Crash, NoManifest
<1>30. CASE UNCHANGED vars
  BY <1>0, <1>30, MediaFacts DEF vars
<1> QED
  BY <1>1, <1>2, <1>3, <1>4, <1>5, <1>6, <1>7, <1>8, <1>9, <1>10, <1>11, <1>12, <1>13, <1>14,
    <1>15, <1>16, <1>17, <1>18, <1>19, <1>20, <1>21, <1>22, <1>23, <1>24, <1>25, <1>26, <1>27,
    <1>28, <1>29, <1>30 DEF Next, WorkflowStep, PrimitiveStep

\* No step leaves the catalog naming a missing document.
LEMMA ResolvesKept == IInv /\ [Next]_vars => Resolves'
<1> SUFFICES ASSUME IInv, [Next]_vars PROVE Resolves'
  OBVIOUS
<1> USE DEF ManifestInv, Resolves, MediaInv, StageInv, Activating, Rewriting, Removing
<1>0. TypeOK /\ ManifestInv /\ BackupInv /\ CardInv /\ ReportInv /\ StageInv
  BY DEF IInv
<1>1. CASE Begin
  BY <1>0, <1>1, MediaFacts DEF Begin
<1>2. CASE MakeWorkspace
  BY <1>0, <1>2, MediaFacts DEF MakeWorkspace
<1>3. CASE CopyBackup
  BY <1>0, <1>3, MediaFacts DEF CopyBackup
<1>4. CASE CreateStaging
  BY <1>0, <1>4, MediaFacts DEF CreateStaging
<1>5. CASE Prepare
  BY <1>0, <1>5, PrepareFacts, MediaFacts DEF NoManifest
<1>6. CASE Preactivation
  BY <1>0, <1>6, MediaFacts DEF Preactivation
<1>7. CASE BeginActivation
  BY <1>0, <1>7, MediaFacts DEF BeginActivation
<1>8. CASE BeginMutation
  BY <1>0, <1>8, BeginMutationFacts, MediaFacts
<1>9. ASSUME NEW f \in Managed, WriteSkip(f) PROVE Resolves'
  BY <1>0, <1>9, MediaFacts DEF WriteSkip, InStep, Stage, Target, Prior
<1>10. ASSUME NEW f \in Managed, WriteOpen(f) PROVE Resolves'
  BY <1>0, <1>10, MediaFacts DEF WriteOpen, InStep, Stage, Target, Prior
<1>11. ASSUME NEW f \in Managed, RemoveSkip(f) PROVE Resolves'
  BY <1>0, <1>11, MediaFacts DEF RemoveSkip, InStep
<1>12. ASSUME NEW f \in Managed, Displace(f) PROVE Resolves'
  <2>1. /\ pc \in {"deletions", "remove"} /\ f \in Files /\ planVars' = planVars
        /\ media' = [media EXCEPT ![f] = "absent"]
        /\ pc = "deletions" => intended[f] = "absent"
        /\ pc = "remove" => baseline[f] = "absent"
    BY <1>0, <1>12, MediaFacts DEF Displace, InStep, Stage
  <2>2. /\ media'[Catalog] = media[Catalog] /\ media'[f] = "absent"
        /\ \A g \in Files : g # f => media'[g] = media[g]
    BY <2>1, MediaFacts
  <2>3. CASE pc = "deletions"
    BY <2>1, <2>2, <2>3, MediaFacts DEF Typed
  <2>4. CASE pc = "remove"
    BY <2>1, <2>2, <2>4, MediaFacts DEF Typed
  <2> QED
    BY <2>1, <2>3, <2>4
<1>13. CASE WriteFinish
  <2>1. /\ Rewriting /\ file \in Stage(pc) /\ file \in Managed /\ planVars' = planVars
        /\ media' = [media EXCEPT ![file] = Target(file)]
    BY <1>0, <1>13, MediaFacts, StageTyped DEF WriteFinish
  <2>2. /\ media'[file] = Target(file)
        /\ \A g \in Managed : g # file => media'[g] = media[g]
    BY <2>1, MediaFacts
  <2> QED
    BY <2>1, <2>2, RewriteResolves
<1>14. CASE WriteBreaks
  <2>1. PICK left \in {"torn", Target(file)} : media' = [media EXCEPT ![file] = left]
    BY <1>0, <1>14 DEF WriteBreaks
  <2>2. Rewriting /\ file \in Stage(pc) /\ file \in Managed /\ planVars' = planVars
    BY <1>0, <1>14, MediaFacts, StageTyped DEF WriteBreaks
  <2>3. /\ media'[file] \in {"torn", Target(file)}
        /\ \A g \in Managed : g # file => media'[g] = media[g]
    BY <2>1, <2>2, MediaFacts
  <2> QED
    BY <2>2, <2>3, RewriteResolves
<1>15. CASE Unlink
  BY <1>0, <1>15, MediaFacts DEF Unlink
<1>16. CASE UnlinkBreaks
  BY <1>0, <1>16, MediaFacts DEF UnlinkBreaks, StepFails
<1>17. CASE StepRefused
  BY <1>0, <1>17, MediaFacts DEF StepRefused, StepFails, InStep
<1>18. CASE StageDone
  BY <1>0, <1>18, MediaFacts DEF StageDone, After
<1>19. CASE Readback
  BY <1>0, <1>19, MediaFacts DEF Readback
<1>20. CASE BeginRecovery
  BY <1>0, <1>20, MediaFacts DEF BeginRecovery, StepFails
<1>21. CASE Cleanup
  BY <1>0, <1>21, MediaFacts DEF Cleanup, StepFails
<1>22. CASE Verify
  BY <1>0, <1>22, MediaFacts DEF Verify, StepFails
<1>23. CASE PublishTransition
  BY <1>0, <1>23, PublishTransitionFacts, MediaFacts DEF Publishing, PhaseOf, Following
<1>24. CASE PublishRetry
  BY <1>0, <1>24, MediaFacts DEF PublishRetry, NotPublished, Publishing
<1>25. CASE PublishRaises
  BY <1>0, <1>25, PublishRaisesFacts, MediaFacts DEF Publishing, PhaseOf
<1>26. CASE PublishReport
  BY <1>0, <1>26, MediaFacts DEF PublishReport
<1>27. CASE Release
  BY <1>0, <1>27, MediaFacts DEF Release, NoManifest
<1>28. CASE Unwind
  BY <1>0, <1>28, MediaFacts DEF Unwind
<1>29. CASE Crash
  BY <1>0, <1>29, MediaFacts DEF Crash, NoManifest
<1>30. CASE UNCHANGED vars
  BY <1>0, <1>30, MediaFacts DEF vars
<1> QED
  BY <1>1, <1>2, <1>3, <1>4, <1>5, <1>6, <1>7, <1>8, <1>9, <1>10, <1>11, <1>12, <1>13, <1>14,
    <1>15, <1>16, <1>17, <1>18, <1>19, <1>20, <1>21, <1>22, <1>23, <1>24, <1>25, <1>26, <1>27,
    <1>28, <1>29, <1>30 DEF Next, WorkflowStep, PrimitiveStep

\* No step leaves the types.
LEMMA TypeKept == IInv /\ [Next]_vars => TypeRest'
<1> SUFFICES ASSUME IInv, [Next]_vars PROVE TypeRest'
  OBVIOUS
<1> USE DEF TypeRest, StageInv, Activating, Rewriting, Removing
<1>0. TypeOK /\ ManifestInv /\ BackupInv /\ CardInv /\ ReportInv /\ StageInv
  BY DEF IInv
<1>1. CASE Begin
  BY <1>0, <1>1, StageTyped, MediaFacts, TypeFacts DEF Begin
<1>2. CASE MakeWorkspace
  BY <1>0, <1>2, StageTyped, MediaFacts, TypeFacts DEF MakeWorkspace
<1>3. CASE CopyBackup
  BY <1>0, <1>3, StageTyped, MediaFacts, TypeFacts DEF CopyBackup
<1>4. CASE CreateStaging
  BY <1>0, <1>4, StageTyped, MediaFacts, TypeFacts DEF CreateStaging
<1>5. CASE Prepare
  BY <1>0, <1>5, PrepareFacts, StageTyped, MediaFacts, TypeFacts DEF NoManifest
<1>6. CASE Preactivation
  BY <1>0, <1>6, StageTyped, MediaFacts, TypeFacts DEF Preactivation
<1>7. CASE BeginActivation
  BY <1>0, <1>7, StageTyped, MediaFacts, TypeFacts DEF BeginActivation
<1>8. CASE BeginMutation
  BY <1>0, <1>8, BeginMutationFacts, StageTyped, MediaFacts, TypeFacts
<1>9. ASSUME NEW f \in Managed, WriteSkip(f) PROVE TypeRest'
  BY <1>0, <1>9, StageTyped, MediaFacts, TypeFacts DEF WriteSkip, InStep
<1>10. ASSUME NEW f \in Managed, WriteOpen(f) PROVE TypeRest'
  BY <1>0, <1>10, StageTyped, MediaFacts, TypeFacts DEF WriteOpen, InStep, Stage, Target, Prior
<1>11. ASSUME NEW f \in Managed, RemoveSkip(f) PROVE TypeRest'
  BY <1>0, <1>11, StageTyped, MediaFacts, TypeFacts DEF RemoveSkip, InStep
<1>12. ASSUME NEW f \in Managed, Displace(f) PROVE TypeRest'
  <2>1. /\ f \in Files /\ media[f] \in {"old", "new"} /\ f \in Managed
        /\ media' = [media EXCEPT ![f] = "absent"]
        /\ temp' = [file |-> f, content |-> media[f]]
    BY <1>0, <1>12, MediaFacts DEF Displace, InStep, Stage, Prior, Typed
  <2>2. /\ UNCHANGED <<lock, workspace, manifestTemp, artifact, backup, todo, tries, result>>
        /\ file' = f
    BY <1>0, <1>12 DEF Displace
  <2>3. media' \in [Managed -> {"absent", "old", "new", "torn"}]
    BY <2>1, MediaFacts
  <2>4. temp' \in [file : Files, content : {"old", "new"}]
    BY <2>1
  <2> QED
    BY <2>1, <2>2, <2>3, <2>4, TypeFacts, <1>0, <1>12
<1>13. CASE WriteFinish
  <2>1. file \in Managed /\ Target(file) \in {"absent", "old", "new"}
    BY <1>0, <1>13, MediaFacts, TypeFacts DEF WriteFinish, Target, Typed
  <2>2. media' \in [Managed -> {"absent", "old", "new", "torn"}]
    BY <1>0, <1>13, <2>1, MediaFacts DEF WriteFinish
  <2> QED
    BY <1>0, <1>13, <2>1, <2>2, TypeFacts DEF WriteFinish
<1>14. CASE WriteBreaks
  <2>1. file \in Managed /\ Target(file) \in {"absent", "old", "new"}
    BY <1>0, <1>14, MediaFacts, TypeFacts DEF WriteBreaks, Target, Typed
  <2>2. media' \in [Managed -> {"absent", "old", "new", "torn"}]
    BY <1>0, <1>14, <2>1, MediaFacts DEF WriteBreaks
  <2> QED
    BY <1>0, <1>14, <2>1, <2>2, TypeFacts DEF WriteBreaks, StepFails
<1>15. CASE Unlink
  BY <1>0, <1>15, StageTyped, MediaFacts, TypeFacts DEF Unlink
<1>16. CASE UnlinkBreaks
  BY <1>0, <1>16, StageTyped, MediaFacts, TypeFacts DEF UnlinkBreaks, StepFails
<1>17. CASE StepRefused
  BY <1>0, <1>17, StageTyped, MediaFacts, TypeFacts DEF StepRefused, StepFails, InStep
<1>18. CASE StageDone
  BY <1>0, <1>18, StageTyped, MediaFacts, TypeFacts DEF StageDone, After
<1>19. CASE Readback
  BY <1>0, <1>19, StageTyped, MediaFacts, TypeFacts DEF Readback
<1>20. CASE BeginRecovery
  BY <1>0, <1>20, StageTyped, MediaFacts, TypeFacts DEF BeginRecovery, StepFails
<1>21. CASE Cleanup
  BY <1>0, <1>21, StageTyped, MediaFacts, TypeFacts DEF Cleanup, StepFails
<1>22. CASE Verify
  BY <1>0, <1>22, StageTyped, MediaFacts, TypeFacts DEF Verify, StepFails
<1>23. CASE PublishTransition
  BY <1>0, <1>23, PublishTransitionFacts, StageTyped, MediaFacts, TypeFacts DEF Publishing,
    PhaseOf, Following
<1>24. CASE PublishRetry
  BY <1>0, <1>24, StageTyped, MediaFacts, TypeFacts DEF PublishRetry, NotPublished, Publishing
<1>25. CASE PublishRaises
  BY <1>0, <1>25, PublishRaisesFacts, StageTyped, MediaFacts, TypeFacts DEF Publishing, PhaseOf
<1>26. CASE PublishReport
  BY <1>0, <1>26, StageTyped, MediaFacts, TypeFacts DEF PublishReport
<1>27. CASE Release
  BY <1>0, <1>27, StageTyped, MediaFacts, TypeFacts DEF Release, NoManifest
<1>28. CASE Unwind
  BY <1>0, <1>28, StageTyped, MediaFacts, TypeFacts DEF Unwind
<1>29. CASE Crash
  BY <1>0, <1>29, StageTyped, MediaFacts, TypeFacts DEF Crash, NoManifest
<1>30. CASE UNCHANGED vars
  BY <1>0, <1>30, StageTyped, MediaFacts, TypeFacts DEF vars
<1> QED
  BY <1>1, <1>2, <1>3, <1>4, <1>5, <1>6, <1>7, <1>8, <1>9, <1>10, <1>11, <1>12, <1>13, <1>14,
    <1>15, <1>16, <1>17, <1>18, <1>19, <1>20, <1>21, <1>22, <1>23, <1>24, <1>25, <1>26, <1>27,
    <1>28, <1>29, <1>30 DEF Next, WorkflowStep, PrimitiveStep

\* The invariant is inductive.
LEMMA IInvKept == IInv /\ [Next]_vars => IInv'
<1> SUFFICES ASSUME IInv, [Next]_vars PROVE IInv'
  OBVIOUS
<1>1. ManifestInv' /\ BackupInv' /\ CardInv' /\ ReportInv' /\ StageInv' /\ MediaInv' /\ Resolves' /\ TypeRest'
  BY ManifestKept, BackupKept, CardKept, ReportKept, StageKept, MediaKept, ResolvesKept, TypeKept
<1>2. (<<baseline, intended>> \in Plans)'
  BY PlanKept DEF IInv, TypeOK
<1>3. ({durable.revision, rollback.revision} \subseteq 0 .. 5)'
  BY <1>1 DEF ManifestInv, Known
<1>4. TypeOK'
  BY <1>1, <1>2, <1>3 DEF TypeOK, TypeRest
<1> QED
  BY <1>1, <1>4 DEF IInv

\* The invariant holds in every reachable state.
LEMMA Invariance == Spec => []IInv
BY Initially, IInvKept, PTL DEF Spec

\* The variables keep to their types.
THEOREM UsbTyped == Spec => []TypeOK
<1>1. IInv => TypeOK
  BY DEF IInv
<1> QED
  BY <1>1, Invariance, PTL

\* Whatever step of a write or of its recovery the process dies in, a whole catalog
\* names no document that is not on the card.
THEOREM CatalogAlwaysResolves == Spec => []CatalogResolves
<1>1. IInv => CatalogResolves
  BY ResolvesFacts DEF IInv
<1> QED
  BY <1>1, Invariance, PTL

\* The durable phase, the report, the answer and the card agree.
LEMMA TruthFacts == IInv => TerminalTrue
<1> SUFFICES ASSUME IInv PROVE TerminalTrue
  OBVIOUS
<1> USE DEF IInv
<1>1. /\ durable.phase = "completed" => media = intended /\ temp = None
      /\ durable.phase = "recovered" => Untouched
      /\ durable.phase = "recovery_incomplete" => durable.artifact = (temp # None)
  BY DEF CardInv
<1>2. report # NoReport =>
        report.phase = durable.phase /\ (report.failure = "none" <=> report.phase = "completed")
  BY DEF ReportInv
<1>3. result = "completed" => media = intended /\ report.phase = "completed"
  BY <1>1, <1>2 DEF ReportInv
<1>4. result = "failed" => report.failure # "none"
  BY DEF ReportInv
<1> QED
  BY <1>1, <1>2, <1>3, <1>4 DEF TerminalTrue

THEOREM TerminalPhasesAreTrue == Spec => []TerminalTrue
BY TruthFacts, Invariance, PTL

\* A step from a terminal phase changes neither the card nor the manifest.
LEMMA FinalFacts ==
  ASSUME IInv, [Next]_vars, durable.phase \in Terminal
  PROVE  UNCHANGED <<media, temp, durable>>
<1>1. pc \in {"report", "idle", "workspace", "release"}
  BY DEF IInv, ManifestInv, NoManifest
<1>2. CASE Begin \/ MakeWorkspace \/ PublishReport \/ Release \/ Unwind \/ Crash
  BY <1>2 DEF Begin, MakeWorkspace, PublishReport, Release, Unwind, Crash
<1>3. CASE \/ CopyBackup \/ CreateStaging \/ Prepare \/ Preactivation \/ BeginActivation \/ BeginMutation
           \/ Readback \/ BeginRecovery \/ Cleanup \/ Verify \/ PublishTransition \/ PublishRetry \/ PublishRaises
  BY <1>1, <1>3 DEF CopyBackup, CreateStaging, Prepare, Preactivation, BeginActivation,
    BeginMutation,
    Activating, Readback, BeginRecovery, Cleanup, Verify, PublishTransition, PublishRetry, PublishRaises, Publishing
<1>4. CASE PrimitiveStep
  BY <1>1, <1>4 DEF PrimitiveStep, WriteSkip, WriteOpen, RemoveSkip, Displace, WriteFinish,
    WriteBreaks,
    Unlink, UnlinkBreaks, StepRefused, StageDone, Rewriting, Removing
<1>5. CASE UNCHANGED vars
  BY <1>5 DEF vars
<1> QED
  BY <1>2, <1>3, <1>4, <1>5 DEF Next, WorkflowStep

\* After its last phase was published nothing changes the card or the manifest.
THEOREM FinishedStaysFinished == Spec => TerminalIsFinal
<1>1. IInv /\ [Next]_vars =>
        (durable.phase \in Terminal => UNCHANGED <<media, temp, durable>>)
  BY FinalFacts
<1> QED
  BY <1>1, Invariance, PTL DEF Spec, TerminalIsFinal


(***************************************************************************)
(* Both executors, and the contract.                                       *)
(***************************************************************************)

\* Before the target changes, and while it is replaced or put back.
Prepared == {"paths", "backup", "manifest", "staging", "check", "displace"}
Replacing == {"activate", "verify", "report", "aside", "restore", "recheck"}

\* Where the trees are in each step.
TreesInv ==
  /\ (active.content = "old") # (displaced.content = "old")
  /\ step \in Prepared \cup {"recheck"} => active.content = "old"
  /\ step \in {"check", "displace", "activate"} => staging = Tree!New
  /\ step \in {"activate", "restore"} => active = Tree!Missing
  /\ step \in {"verify", "report"} => active.content = "new"
  /\ step = "aside" => displaced.content = "old"

\* What the workflow has come to and what its caller was told.
VerdictInv ==
  /\ step \in {"idle", "record", "release"} \cup Prepared \cup Replacing
  /\ step \notin {"record", "release"} => verdict = "none"
  /\ step = "record" => verdict \notin {"none", "completed"}
  /\ step # "idle" => told = "nothing"
  /\ verdict \in {"not_started", "not_needed", "restored"} => active.content = "old"
  /\ verdict = "completed" => active.content = "new" /\ records.report = "completed"
  /\ told \in {"not_started", "not_needed", "restored"} => active.content = "old"
  /\ told = "completed" => active.content = "new" /\ records.report = "completed"
  /\ place = "failure" =>
       step \notin {"idle"} \cup Prepared /\ verdict # "not_started"

\* Nothing happens to the target before the backup and the manifest exist.
AnnouncedInv ==
  /\ step = "backup" => copy = "none"
  /\ step \in {"backup", "manifest"} => ~announced
  /\ step \in {"manifest", "staging", "check", "displace"} \cup Replacing => copy = "verified"
  /\ step \in {"staging", "check", "displace"} \cup Replacing => announced
  /\ announced => copy = "verified"

\* The inductive invariant of the copied tree.
TreeInv == Tree!TypeOK /\ TreesInv /\ VerdictInv /\ AnnouncedInv

USE DEF Tree!treeVars, Tree!recordVars, Tree!workflowVars, Tree!Goto

\* It holds at first.
LEMMA TreeInitially == Tree!Init => TreeInv
<1> SUFFICES ASSUME Tree!Init PROVE TreeInv
  OBVIOUS
<1>1. Tree!Old \in [content : {"none", "old", "new"}, edited : BOOLEAN]
  BY DEF Tree!Old
<1>2. /\ Tree!Missing \in [content : {"none", "old", "new"}, edited : BOOLEAN]
      /\ Tree!Missing \in [content : {"none", "partial", "new"}, edited : BOOLEAN]
  BY DEF Tree!Missing
<1>3. [report |-> "none", failure |-> "none"] \in
        [report : {"none", "not_started", "failed", "completed"}, failure : {"none", "failed"}]
  OBVIOUS
<1>4. Tree!TypeOK
  BY <1>1, <1>2, <1>3 DEF Tree!Init, Tree!TypeOK, Tree!Outcomes
<1>5. active.content = "old" /\ displaced.content = "none"
  BY DEF Tree!Init, Tree!Old, Tree!Missing
<1>6. TreesInv /\ VerdictInv /\ AnnouncedInv
  BY <1>5 DEF Tree!Init, TreesInv, VerdictInv, AnnouncedInv, Prepared, Replacing
<1> QED
  BY <1>4, <1>6 DEF TreeInv

\* No step loses the old tree or takes it for the new one.
LEMMA TreesKept == TreeInv /\ [Tree!Next]_Tree!vars => TreesInv'
<1> SUFFICES ASSUME TreeInv, [Tree!Next]_Tree!vars PROVE TreesInv'
  OBVIOUS
<1> USE DEF TreesInv, Tree!TypeOK, Prepared, Replacing, Tree!Missing, Tree!Old, Tree!New
<1>0. Tree!TypeOK /\ TreesInv /\ VerdictInv /\ AnnouncedInv
  BY DEF TreeInv
<1>1. CASE Tree!Begin
  BY <1>0, <1>1 DEF Tree!Begin
<1>2. CASE Tree!RequirePaths
  BY <1>0, <1>2 DEF Tree!RequirePaths, Tree!Aborts
<1>3. CASE Tree!CreateBackup
  BY <1>0, <1>3 DEF Tree!CreateBackup, Tree!Aborts
<1>4. CASE Tree!WriteManifest
  BY <1>0, <1>4 DEF Tree!WriteManifest, Tree!Aborts, Tree!Writes
<1>5. CASE Tree!CreateStaging
  BY <1>0, <1>5 DEF Tree!CreateStaging, Tree!Aborts, Tree!Partial
<1>6. CASE Tree!CheckAgain
  BY <1>0, <1>6 DEF Tree!CheckAgain, Tree!Aborts
<1>7. CASE Tree!Displace
  BY <1>0, <1>7 DEF Tree!Displace, Tree!Recover, Tree!Fails
<1>8. CASE Tree!Activate
  BY <1>0, <1>8 DEF Tree!Activate, Tree!Recover, Tree!Fails
<1>9. CASE Tree!VerifyActive
  BY <1>0, <1>9 DEF Tree!VerifyActive, Tree!Recover, Tree!Fails
<1>10. CASE Tree!ReportCompleted
  BY <1>0, <1>10 DEF Tree!ReportCompleted, Tree!Recover, Tree!Fails, Tree!Writes
<1>11. CASE Tree!MoveAside
  BY <1>0, <1>11 DEF Tree!MoveAside, Tree!Fails
<1>12. CASE Tree!RestoreDisplaced
  BY <1>0, <1>12 DEF Tree!RestoreDisplaced, Tree!Fails
<1>13. CASE Tree!Recheck
  BY <1>0, <1>13 DEF Tree!Recheck, Tree!Fails
<1>14. CASE Tree!RecordFailure
  BY <1>0, <1>14 DEF Tree!RecordFailure, Tree!Writes
<1>15. CASE Tree!Release
  BY <1>0, <1>15 DEF Tree!Release
<1>16. CASE Tree!Crash
  BY <1>0, <1>16 DEF Tree!Crash
<1>17. CASE Tree!Edit
  BY <1>0, <1>17 DEF Tree!Edit
<1>18. CASE UNCHANGED Tree!vars
  BY <1>0, <1>18 DEF Tree!vars
<1> QED
  BY <1>1, <1>2, <1>3, <1>4, <1>5, <1>6, <1>7, <1>8, <1>9, <1>10, <1>11, <1>12, <1>13, <1>14,
    <1>15, <1>16, <1>17, <1>18 DEF Tree!Next

\* No step makes a verdict or an answer untrue.
LEMMA VerdictKept == TreeInv /\ [Tree!Next]_Tree!vars => VerdictInv'
<1> SUFFICES ASSUME TreeInv, [Tree!Next]_Tree!vars PROVE VerdictInv'
  OBVIOUS
<1> USE DEF VerdictInv, TreesInv, Tree!TypeOK, Prepared, Replacing, Tree!Missing, Tree!Old, Tree!New
<1>0. Tree!TypeOK /\ TreesInv /\ VerdictInv /\ AnnouncedInv
  BY DEF TreeInv
<1>1. CASE Tree!Begin
  BY <1>0, <1>1 DEF Tree!Begin
<1>2. CASE Tree!RequirePaths
  BY <1>0, <1>2 DEF Tree!RequirePaths, Tree!Aborts
<1>3. CASE Tree!CreateBackup
  BY <1>0, <1>3 DEF Tree!CreateBackup, Tree!Aborts
<1>4. CASE Tree!WriteManifest
  BY <1>0, <1>4 DEF Tree!WriteManifest, Tree!Aborts, Tree!Writes
<1>5. CASE Tree!CreateStaging
  BY <1>0, <1>5 DEF Tree!CreateStaging, Tree!Aborts, Tree!Partial
<1>6. CASE Tree!CheckAgain
  BY <1>0, <1>6 DEF Tree!CheckAgain, Tree!Aborts
<1>7. CASE Tree!Displace
  BY <1>0, <1>7 DEF Tree!Displace, Tree!Recover, Tree!Fails
<1>8. CASE Tree!Activate
  BY <1>0, <1>8 DEF Tree!Activate, Tree!Recover, Tree!Fails
<1>9. CASE Tree!VerifyActive
  BY <1>0, <1>9 DEF Tree!VerifyActive, Tree!Recover, Tree!Fails
<1>10. CASE Tree!ReportCompleted
  BY <1>0, <1>10 DEF Tree!ReportCompleted, Tree!Recover, Tree!Fails, Tree!Writes
<1>11. CASE Tree!MoveAside
  BY <1>0, <1>11 DEF Tree!MoveAside, Tree!Fails
<1>12. CASE Tree!RestoreDisplaced
  BY <1>0, <1>12 DEF Tree!RestoreDisplaced, Tree!Fails
<1>13. CASE Tree!Recheck
  BY <1>0, <1>13 DEF Tree!Recheck, Tree!Fails
<1>14. CASE Tree!RecordFailure
  BY <1>0, <1>14 DEF Tree!RecordFailure, Tree!Writes
<1>15. CASE Tree!Release
  BY <1>0, <1>15 DEF Tree!Release
<1>16. CASE Tree!Crash
  BY <1>0, <1>16 DEF Tree!Crash
<1>17. CASE Tree!Edit
  BY <1>0, <1>17 DEF Tree!Edit
<1>18. CASE UNCHANGED Tree!vars
  BY <1>0, <1>18 DEF Tree!vars
<1> QED
  BY <1>1, <1>2, <1>3, <1>4, <1>5, <1>6, <1>7, <1>8, <1>9, <1>10, <1>11, <1>12, <1>13, <1>14,
    <1>15, <1>16, <1>17, <1>18 DEF Tree!Next

\* No step replaces the target before it is backed up and announced.
LEMMA AnnouncedKept == TreeInv /\ [Tree!Next]_Tree!vars => AnnouncedInv'
<1> SUFFICES ASSUME TreeInv, [Tree!Next]_Tree!vars PROVE AnnouncedInv'
  OBVIOUS
<1> USE DEF AnnouncedInv, Tree!TypeOK, Prepared, Replacing, Tree!Missing, Tree!Old, Tree!New
<1>0. Tree!TypeOK /\ TreesInv /\ VerdictInv /\ AnnouncedInv
  BY DEF TreeInv
<1>1. CASE Tree!Begin
  BY <1>0, <1>1 DEF Tree!Begin
<1>2. CASE Tree!RequirePaths
  BY <1>0, <1>2 DEF Tree!RequirePaths, Tree!Aborts
<1>3. CASE Tree!CreateBackup
  BY <1>0, <1>3 DEF Tree!CreateBackup, Tree!Aborts
<1>4. CASE Tree!WriteManifest
  BY <1>0, <1>4 DEF Tree!WriteManifest, Tree!Aborts, Tree!Writes
<1>5. CASE Tree!CreateStaging
  BY <1>0, <1>5 DEF Tree!CreateStaging, Tree!Aborts, Tree!Partial
<1>6. CASE Tree!CheckAgain
  BY <1>0, <1>6 DEF Tree!CheckAgain, Tree!Aborts
<1>7. CASE Tree!Displace
  BY <1>0, <1>7 DEF Tree!Displace, Tree!Recover, Tree!Fails
<1>8. CASE Tree!Activate
  BY <1>0, <1>8 DEF Tree!Activate, Tree!Recover, Tree!Fails
<1>9. CASE Tree!VerifyActive
  BY <1>0, <1>9 DEF Tree!VerifyActive, Tree!Recover, Tree!Fails
<1>10. CASE Tree!ReportCompleted
  BY <1>0, <1>10 DEF Tree!ReportCompleted, Tree!Recover, Tree!Fails, Tree!Writes
<1>11. CASE Tree!MoveAside
  BY <1>0, <1>11 DEF Tree!MoveAside, Tree!Fails
<1>12. CASE Tree!RestoreDisplaced
  BY <1>0, <1>12 DEF Tree!RestoreDisplaced, Tree!Fails
<1>13. CASE Tree!Recheck
  BY <1>0, <1>13 DEF Tree!Recheck, Tree!Fails
<1>14. CASE Tree!RecordFailure
  BY <1>0, <1>14 DEF Tree!RecordFailure, Tree!Writes
<1>15. CASE Tree!Release
  BY <1>0, <1>15 DEF Tree!Release
<1>16. CASE Tree!Crash
  BY <1>0, <1>16 DEF Tree!Crash
<1>17. CASE Tree!Edit
  BY <1>0, <1>17 DEF Tree!Edit
<1>18. CASE UNCHANGED Tree!vars
  BY <1>0, <1>18 DEF Tree!vars
<1> QED
  BY <1>1, <1>2, <1>3, <1>4, <1>5, <1>6, <1>7, <1>8, <1>9, <1>10, <1>11, <1>12, <1>13, <1>14,
    <1>15, <1>16, <1>17, <1>18 DEF Tree!Next

\* What the directories hold.
Trees == [content : {"none", "old", "new"}, edited : BOOLEAN]
StagingTrees == [content : {"none", "partial", "new"}, edited : BOOLEAN]

\* TypeOK in two parts: the trees, and the rest.
TreesTyped == active \in Trees /\ displaced \in Trees /\ staging \in StagingTrees

RestTyped ==
  /\ copy \in {"none", "partial", "verified"} /\ announced \in BOOLEAN /\ guard \in BOOLEAN
  /\ records \in [report : {"none", "not_started", "failed", "completed"}, failure : {"none", "failed"}]
  /\ place \in {"report", "failure"} /\ verdict \in Tree!Outcomes
  /\ told \in Tree!Outcomes \cup {"nothing", "error"}

\* The parts are TypeOK.
LEMMA TypeParts ==
  /\ Tree!TypeOK <=> TreesTyped /\ RestTyped
  /\ (TreesTyped' /\ RestTyped') => Tree!TypeOK'
BY DEF Tree!TypeOK, TreesTyped, RestTyped, Trees, StagingTrees

\* A tree that is renamed is typed at its new place.
LEMMA TreeFacts ==
  /\ Tree!Missing \in Trees /\ Tree!Missing \in StagingTrees /\ Tree!Partial \in StagingTrees
  /\ Tree!New \in StagingTrees
  /\ \A t \in StagingTrees : t.content # "partial" => t \in Trees
  /\ \A t \in Trees : t.content # "old" => t \in StagingTrees
  /\ \A t \in Trees : [t EXCEPT !.edited = TRUE] \in Trees
  /\ Tree!New.content = "new"
BY DEF Tree!Missing, Tree!Partial, Tree!New, Trees, StagingTrees

\* No step leaves the types of the trees.
LEMMA TreesTypedKept == TreeInv /\ [Tree!Next]_Tree!vars => TreesTyped'
<1> SUFFICES ASSUME TreeInv, [Tree!Next]_Tree!vars PROVE TreesTyped'
  OBVIOUS
<1> USE DEF TreesTyped, TreesInv, Prepared, Replacing
<1>0. Tree!TypeOK /\ TreesInv /\ VerdictInv /\ AnnouncedInv
  BY DEF TreeInv
<1>1. CASE Tree!Begin
  BY <1>0, TypeParts, TreeFacts, <1>1 DEF Tree!Begin
<1>2. CASE Tree!RequirePaths
  BY <1>0, TypeParts, TreeFacts, <1>2 DEF Tree!RequirePaths, Tree!Aborts
<1>3. CASE Tree!CreateBackup
  BY <1>0, TypeParts, TreeFacts, <1>3 DEF Tree!CreateBackup, Tree!Aborts
<1>4. CASE Tree!WriteManifest
  BY <1>0, TypeParts, TreeFacts, <1>4 DEF Tree!WriteManifest, Tree!Aborts, Tree!Writes
<1>5. CASE Tree!CreateStaging
  BY <1>0, TypeParts, TreeFacts, <1>5 DEF Tree!CreateStaging, Tree!Aborts, Tree!Partial
<1>6. CASE Tree!CheckAgain
  BY <1>0, TypeParts, TreeFacts, <1>6 DEF Tree!CheckAgain, Tree!Aborts
<1>7. CASE Tree!Displace
  BY <1>0, TypeParts, TreeFacts, <1>7 DEF Tree!Displace, Tree!Recover, Tree!Fails
<1>8. CASE Tree!Activate
  BY <1>0, TypeParts, TreeFacts, <1>8 DEF Tree!Activate, Tree!Recover, Tree!Fails
<1>9. CASE Tree!VerifyActive
  BY <1>0, TypeParts, TreeFacts, <1>9 DEF Tree!VerifyActive, Tree!Recover, Tree!Fails
<1>10. CASE Tree!ReportCompleted
  BY <1>0, TypeParts, TreeFacts, <1>10 DEF Tree!ReportCompleted, Tree!Recover, Tree!Fails,
    Tree!Writes
<1>11. CASE Tree!MoveAside
  BY <1>0, TypeParts, TreeFacts, <1>11 DEF Tree!MoveAside, Tree!Fails
<1>12. CASE Tree!RestoreDisplaced
  BY <1>0, TypeParts, TreeFacts, <1>12 DEF Tree!RestoreDisplaced, Tree!Fails
<1>13. CASE Tree!Recheck
  BY <1>0, TypeParts, TreeFacts, <1>13 DEF Tree!Recheck, Tree!Fails
<1>14. CASE Tree!RecordFailure
  BY <1>0, TypeParts, TreeFacts, <1>14 DEF Tree!RecordFailure, Tree!Writes
<1>15. CASE Tree!Release
  BY <1>0, TypeParts, TreeFacts, <1>15 DEF Tree!Release
<1>16. CASE Tree!Crash
  BY <1>0, TypeParts, TreeFacts, <1>16 DEF Tree!Crash
<1>17. CASE Tree!Edit
  BY <1>0, TypeParts, TreeFacts, <1>17 DEF Tree!Edit
<1>18. CASE UNCHANGED Tree!vars
  BY <1>0, TypeParts, TreeFacts, <1>18 DEF Tree!vars
<1> QED
  BY <1>1, <1>2, <1>3, <1>4, <1>5, <1>6, <1>7, <1>8, <1>9, <1>10, <1>11, <1>12, <1>13, <1>14,
    <1>15, <1>16, <1>17, <1>18 DEF Tree!Next

\* No step leaves the types of the rest.
LEMMA RestTypedKept == TreeInv /\ [Tree!Next]_Tree!vars => RestTyped'
<1> SUFFICES ASSUME TreeInv, [Tree!Next]_Tree!vars PROVE RestTyped'
  OBVIOUS
<1> USE DEF RestTyped, Tree!Outcomes, VerdictInv
<1>0. Tree!TypeOK /\ TreesInv /\ VerdictInv /\ AnnouncedInv
  BY DEF TreeInv
<1>1. CASE Tree!Begin
  BY <1>0, TypeParts, <1>1 DEF Tree!Begin
<1>2. CASE Tree!RequirePaths
  BY <1>0, TypeParts, <1>2 DEF Tree!RequirePaths, Tree!Aborts
<1>3. CASE Tree!CreateBackup
  BY <1>0, TypeParts, <1>3 DEF Tree!CreateBackup, Tree!Aborts
<1>4. CASE Tree!WriteManifest
  <2>1. PICK w \in Tree!Writes(TRUE) :
          announced' = w.published /\ (verdict' = verdict \/ verdict' = "not_started")
    BY <1>4 DEF Tree!WriteManifest, Tree!Aborts
  <2>2. w.published \in BOOLEAN
    BY <2>1 DEF Tree!Writes
  <2> QED
    BY <1>0, TypeParts, <1>4, <2>1, <2>2 DEF Tree!WriteManifest
<1>5. CASE Tree!CreateStaging
  BY <1>0, TypeParts, <1>5 DEF Tree!CreateStaging, Tree!Aborts, Tree!Partial
<1>6. CASE Tree!CheckAgain
  BY <1>0, TypeParts, <1>6 DEF Tree!CheckAgain, Tree!Aborts
<1>7. CASE Tree!Displace
  BY <1>0, TypeParts, <1>7 DEF Tree!Displace, Tree!Recover, Tree!Fails
<1>8. CASE Tree!Activate
  BY <1>0, TypeParts, <1>8 DEF Tree!Activate, Tree!Recover, Tree!Fails
<1>9. CASE Tree!VerifyActive
  BY <1>0, TypeParts, <1>9 DEF Tree!VerifyActive, Tree!Recover, Tree!Fails
<1>10. CASE Tree!ReportCompleted
  BY <1>0, TypeParts, <1>10 DEF Tree!ReportCompleted, Tree!Recover, Tree!Fails, Tree!Writes
<1>11. CASE Tree!MoveAside
  BY <1>0, TypeParts, <1>11 DEF Tree!MoveAside, Tree!Fails
<1>12. CASE Tree!RestoreDisplaced
  BY <1>0, TypeParts, <1>12 DEF Tree!RestoreDisplaced, Tree!Fails
<1>13. CASE Tree!Recheck
  BY <1>0, TypeParts, <1>13 DEF Tree!Recheck, Tree!Fails
<1>14. CASE Tree!RecordFailure
  BY <1>0, TypeParts, <1>14 DEF Tree!RecordFailure, Tree!Writes
<1>15. CASE Tree!Release
  BY <1>0, TypeParts, <1>15 DEF Tree!Release
<1>16. CASE Tree!Crash
  BY <1>0, TypeParts, <1>16 DEF Tree!Crash
<1>17. CASE Tree!Edit
  BY <1>0, TypeParts, <1>17 DEF Tree!Edit
<1>18. CASE UNCHANGED Tree!vars
  BY <1>0, TypeParts, <1>18 DEF Tree!vars
<1> QED
  BY <1>1, <1>2, <1>3, <1>4, <1>5, <1>6, <1>7, <1>8, <1>9, <1>10, <1>11, <1>12, <1>13, <1>14,
    <1>15, <1>16, <1>17, <1>18 DEF Tree!Next

\* The invariant of the copied tree is inductive.
LEMMA TreeInvKept == TreeInv /\ [Tree!Next]_Tree!vars => TreeInv'
<1> SUFFICES ASSUME TreeInv, [Tree!Next]_Tree!vars PROVE TreeInv'
  OBVIOUS
<1>1. TreesInv' /\ VerdictInv' /\ AnnouncedInv' /\ TreesTyped' /\ RestTyped'
  BY TreesKept, VerdictKept, AnnouncedKept, TreesTypedKept, RestTypedKept
<1> QED
  BY <1>1, TypeParts DEF TreeInv

\* The invariant of both executors.
BothInv == IInv /\ TreeInv

\* A step of a write, by either executor.
WriteStep == [UsbNext \/ TreeNext]_<<backend, vars, treeVars>>

\* Each executor leaves the variables of the other alone.
LEMMA StepParts == WriteStep =>
  /\ [Next]_vars /\ [Tree!Next]_Tree!vars /\ UNCHANGED backend
  /\ backend = "usb" => UNCHANGED treeVars
  /\ backend # "usb" => UNCHANGED vars
<1> SUFFICES ASSUME WriteStep
             PROVE  /\ [Next]_vars /\ [Tree!Next]_Tree!vars /\ UNCHANGED backend
                    /\ backend = "usb" => UNCHANGED treeVars
                    /\ backend # "usb" => UNCHANGED vars
  OBVIOUS
<1>1. UNCHANGED treeVars => UNCHANGED Tree!vars
  BY DEF treeVars, Tree!vars, Tree!treeVars, Tree!recordVars, Tree!workflowVars
<1>2. CASE UsbNext
  BY <1>1, <1>2 DEF UsbNext
<1>3. CASE TreeNext
  BY <1>3 DEF TreeNext
<1>4. CASE UNCHANGED <<backend, vars, treeVars>>
  BY <1>1, <1>4
<1> QED
  BY <1>2, <1>3, <1>4 DEF WriteStep

\* It holds in every reachable state of a write.
LEMMA BothKept == WriteSpec => [](BothInv /\ backend \in {"usb", "tree"})
<1>1. WriteInit => BothInv /\ backend \in {"usb", "tree"}
  BY Initially, TreeInitially DEF WriteInit, BothInv
<1>2. BothInv /\ backend \in {"usb", "tree"} /\ WriteStep => BothInv' /\ (backend \in {"usb",
    "tree"})'
  BY StepParts, IInvKept, TreeInvKept DEF BothInv
<1> QED
  BY <1>1, <1>2, PTL DEF WriteSpec, WriteStep

\* The variables of both executors keep to their types.
THEOREM WriteTyped == WriteSpec => []BothTyped
<1>1. BothInv => BothTyped
  BY DEF BothInv, BothTyped, IInv, TreeInv
<1> QED
  BY <1>1, BothKept, PTL

\* The tree the write found is at the target or displaced, whatever failed, died or was
\* edited in the middle, and callers are told the truth of it.
THEOREM TreeIsNeverLost == WriteSpec => []TreeTrue
<1>1. BothInv => TreeTrue
  BY DEF BothInv, TreeInv, TreesInv, VerdictInv, TreeTrue, Tree!TreeTrue
<1> QED
  BY <1>1, BothKept, PTL

\* What a step of the USB workflow may do to the card, the backup and the manifest:
\* it touches one of the three at a time, the backup before the first manifest, the
\* card only under a manifest that says so, and the manifest along its transitions.
NothingTouched == UNCHANGED <<media, temp, backup, durable>>
BackingUp == UNCHANGED <<media, temp, durable>> /\ backup # "verified" /\ durable.phase = "none"
CardChanges ==
  UNCHANGED <<backup, durable>> /\ durable.phase \in {"mutation_started", "recovery_in_progress"}
PhaseAdvances ==
  /\ UNCHANGED <<media, temp, backup>>
  /\ \/ durable.phase = "none" /\ durable'.phase = "prepared"
     \/ durable.phase = "prepared" /\ durable'.phase = "mutation_started"
     \/ durable.phase = "mutation_started" /\ durable'.phase = "completed" /\ media = intended /\ temp = None
     \/ /\ durable.phase \notin {"none", "prepared", "completed"}
        /\ durable'.phase \notin {"none", "prepared", "completed"}

\* A step of the USB workflow is one of these.
LEMMA UsbStepFacts ==
  IInv /\ [Next]_vars => NothingTouched \/ BackingUp \/ CardChanges \/ PhaseAdvances
<1> SUFFICES ASSUME IInv, [Next]_vars
             PROVE  NothingTouched \/ BackingUp \/ CardChanges \/ PhaseAdvances
  OBVIOUS
<1> USE DEF planVars, cardVars, hostVars, manifestVars, stepVars, errorVars, cardFrame, Goto,
    Forget, Fail, StepFails,
  Early, Before, Recovering, Outside, Terminal, ManifestInv, CardInv, StageInv, Activating, Rewriting, Removing
<1>0. ManifestInv /\ BackupInv /\ CardInv /\ StageInv
  BY DEF IInv
<1>1. CASE Begin
  BY <1>1 DEF Begin, NothingTouched
<1>2. CASE MakeWorkspace
  BY <1>2 DEF MakeWorkspace, NothingTouched
<1>3. CASE CopyBackup
  BY <1>0, <1>3 DEF CopyBackup, BackingUp, BackupInv, NoManifest
<1>4. CASE CreateStaging
  BY <1>4 DEF CreateStaging, NothingTouched
<1>5. CASE Prepare
  BY <1>0, <1>5, PrepareFacts DEF NothingTouched, PhaseAdvances, NoManifest, BackupInv
<1>6. CASE Preactivation
  BY <1>6 DEF Preactivation, NothingTouched
<1>7. CASE BeginActivation
  BY <1>7 DEF BeginActivation, NothingTouched
<1>8. CASE BeginMutation
  BY <1>0, <1>8, BeginMutationFacts DEF NothingTouched, PhaseAdvances, NoManifest
<1>9. ASSUME NEW f \in Managed,
    WriteSkip(f) PROVE NothingTouched \/ BackingUp \/ CardChanges \/ PhaseAdvances
  BY <1>9 DEF WriteSkip, NothingTouched
<1>10. ASSUME NEW f \in Managed,
    WriteOpen(f) PROVE NothingTouched \/ BackingUp \/ CardChanges \/ PhaseAdvances
  BY <1>0, <1>10 DEF WriteOpen, CardChanges, InStep
<1>11. ASSUME NEW f \in Managed,
    RemoveSkip(f) PROVE NothingTouched \/ BackingUp \/ CardChanges \/ PhaseAdvances
  BY <1>11 DEF RemoveSkip, NothingTouched
<1>12. ASSUME NEW f \in Managed,
    Displace(f) PROVE NothingTouched \/ BackingUp \/ CardChanges \/ PhaseAdvances
  BY <1>0, <1>12 DEF Displace, CardChanges, InStep
<1>13. CASE WriteFinish
  BY <1>0, <1>13 DEF WriteFinish, CardChanges
<1>14. CASE WriteBreaks
  BY <1>0, <1>14 DEF WriteBreaks, CardChanges
<1>15. CASE Unlink
  BY <1>0, <1>15 DEF Unlink, CardChanges
<1>16. CASE UnlinkBreaks
  BY <1>0, <1>16 DEF UnlinkBreaks, CardChanges
<1>17. CASE StepRefused
  BY <1>17 DEF StepRefused, NothingTouched
<1>18. CASE StageDone
  BY <1>18 DEF StageDone, NothingTouched
<1>19. CASE Readback
  BY <1>19 DEF Readback, NothingTouched
<1>20. CASE BeginRecovery
  BY <1>20 DEF BeginRecovery, NothingTouched
<1>21. CASE Cleanup
  BY <1>0, <1>21 DEF Cleanup, CardChanges
<1>22. CASE Verify
  BY <1>22 DEF Verify, NothingTouched
<1>23. CASE PublishTransition
  <2>1. ASSUME Published(Proposed), UNCHANGED <<media, temp, backup>>,
    pc \in Publishing PROVE PhaseAdvances
    <3>1. /\ durable'.phase = PhaseOf(pc)
          /\ pc \notin {"incomplete", "recovered", "inProgress"} => durable.phase = "mutation_started"
      BY <2>1, ProposedFacts
    <3> QED
      BY <1>0, <2>1, <3>1 DEF PhaseAdvances, Publishing, PhaseOf
  <2> QED
    BY <1>23, <2>1 DEF PublishTransition, NothingTouched, NotPublished
<1>24. CASE PublishRetry
  BY <1>24 DEF PublishRetry, NothingTouched, NotPublished
<1>25. CASE PublishRaises
  <2>1. ASSUME Published(Proposed), UNCHANGED <<media, temp, backup>>,
    pc \in Publishing PROVE PhaseAdvances
    <3>1. /\ durable'.phase = PhaseOf(pc)
          /\ pc \notin {"incomplete", "recovered", "inProgress"} => durable.phase = "mutation_started"
      BY <2>1, ProposedFacts
    <3> QED
      BY <1>0, <2>1, <3>1 DEF PhaseAdvances, Publishing, PhaseOf
  <2> QED
    BY <1>25, <2>1 DEF PublishRaises, NothingTouched, NotPublished
<1>26. CASE PublishReport
  BY <1>26 DEF PublishReport, NothingTouched
<1>27. CASE Release
  BY <1>27 DEF Release, NothingTouched
<1>28. CASE Unwind
  BY <1>28 DEF Unwind, NothingTouched
<1>29. CASE Crash
  BY <1>29 DEF Crash, NothingTouched
<1>30. CASE UNCHANGED vars
  BY <1>30 DEF vars, NothingTouched
<1> QED
  BY <1>1, <1>2, <1>3, <1>4, <1>5, <1>6, <1>7, <1>8, <1>9, <1>10, <1>11, <1>12, <1>13, <1>14,
    <1>15, <1>16, <1>17, <1>18, <1>19, <1>20, <1>21, <1>22, <1>23, <1>24, <1>25, <1>26, <1>27,
    <1>28, <1>29, <1>30 DEF Next, WorkflowStep, PrimitiveStep

\* A step of the contract, or of nothing it tells of.
ContractStep == [Contract!Next]_Contract!vars

\* A step of the USB workflow is a step of the contract or changes nothing it tells of.
LEMMA UsbKeepsContract ==
  ASSUME IInv, [Next]_vars, backend = "usb", UNCHANGED backend
  PROVE  ContractStep
<1> USE DEF ContractStep, Contract!Next, Contract!vars, Contract!BackUp, Contract!Announce,
            Contract!Change, Contract!Complete
<1>1. UNCHANGED <<baseline, intended>> /\ baseline # intended /\ backend' = "usb"
  BY PlanKept, MediaFacts DEF planVars, Typed
<1>2. durable.phase # "none" => backup = "verified"
  BY DEF IInv, BackupInv
<1>3. durable.phase \in {"none", "prepared"} => Untouched
  BY DEF IInv, CardInv
<1>4. CASE NothingTouched
  BY <1>1, <1>4 DEF NothingTouched, Untouched
<1>5. CASE BackingUp
  BY <1>1, <1>5 DEF BackingUp, Untouched
<1>6. CASE CardChanges
  BY <1>1, <1>6 DEF CardChanges, Untouched
<1>7. CASE PhaseAdvances
  BY <1>1, <1>2, <1>3, <1>7 DEF PhaseAdvances, Untouched
<1> QED
  BY <1>4, <1>5, <1>6, <1>7, UsbStepFacts

\* The same of the copied tree: what a step may do to the tree in use, the backup,
\* the manifest and what its caller was told.
Told == (told = "completed" <=> told' = "completed")
TreeQuiet == UNCHANGED <<active.content, announced>> /\ (copy = "verified" <=> copy' = "verified") /\ Told
TreeBackedUp == UNCHANGED <<active.content, announced, told>> /\ copy # "verified" /\ copy' = "verified"
TreeAnnounced == UNCHANGED <<active.content, copy, told>> /\ ~announced /\ announced' /\ copy = "verified"
TreeChanges == UNCHANGED <<copy, announced, told>> /\ announced /\ told # "completed"
TreeCompletes ==
  /\ UNCHANGED <<active.content, copy, announced>>
  /\ active.content = "new" /\ told # "completed" /\ told' = "completed"

\* A step of the copied-tree workflow is one of these.
LEMMA TreeStepFacts ==
  TreeInv /\ [Tree!Next]_Tree!vars =>
    TreeQuiet \/ TreeBackedUp \/ TreeAnnounced \/ TreeChanges \/ TreeCompletes
<1> SUFFICES ASSUME TreeInv, [Tree!Next]_Tree!vars
             PROVE  TreeQuiet \/ TreeBackedUp \/ TreeAnnounced \/ TreeChanges \/ TreeCompletes
  OBVIOUS
<1> USE DEF VerdictInv, AnnouncedInv, Prepared, Replacing
<1>0. Tree!TypeOK /\ VerdictInv /\ AnnouncedInv
  BY DEF TreeInv
<1>1. CASE Tree!Begin
  BY <1>0, <1>1 DEF Tree!Begin, Told, TreeQuiet, Tree!Old
<1>2. CASE Tree!RequirePaths
  BY <1>0, <1>2 DEF Tree!RequirePaths, Told, TreeQuiet, Tree!Aborts
<1>3. CASE Tree!CreateBackup
  BY <1>0, <1>3 DEF Tree!CreateBackup, Told, TreeQuiet, TreeBackedUp, Tree!Aborts
<1>4. CASE Tree!WriteManifest
  BY <1>0, <1>4 DEF Tree!WriteManifest, Told, TreeQuiet, TreeAnnounced, Tree!Aborts, Tree!TypeOK,
    Tree!Writes
<1>5. CASE Tree!CreateStaging
  BY <1>0, <1>5 DEF Tree!CreateStaging, Told, TreeQuiet, Tree!Aborts
<1>6. CASE Tree!CheckAgain
  BY <1>0, <1>6 DEF Tree!CheckAgain, Told, TreeQuiet, Tree!Aborts
<1>7. CASE Tree!Displace
  BY <1>0, <1>7 DEF Tree!Displace, TreeChanges
<1>8. CASE Tree!Activate
  BY <1>0, <1>8 DEF Tree!Activate, TreeChanges
<1>9. CASE Tree!VerifyActive
  BY <1>0, <1>9 DEF Tree!VerifyActive, Told, TreeQuiet
<1>10. CASE Tree!ReportCompleted
  BY <1>0, <1>10 DEF Tree!ReportCompleted, Told, TreeQuiet
<1>11. CASE Tree!MoveAside
  BY <1>0, <1>11 DEF Tree!MoveAside, TreeChanges
<1>12. CASE Tree!RestoreDisplaced
  BY <1>0, <1>12 DEF Tree!RestoreDisplaced, TreeChanges
<1>13. CASE Tree!Recheck
  BY <1>0, <1>13 DEF Tree!Recheck, Told, TreeQuiet
<1>14. CASE Tree!RecordFailure
  BY <1>0, <1>14 DEF Tree!RecordFailure, Told, TreeQuiet
<1>15. CASE Tree!Release
  BY <1>0, <1>15 DEF Tree!Release, Told, TreeQuiet, TreeCompletes
<1>16. CASE Tree!Crash
  BY <1>0, <1>16 DEF Tree!Crash, Told, TreeQuiet
<1>17. CASE Tree!Edit
  BY <1>0, <1>17 DEF Tree!Edit, Told, TreeQuiet, Tree!TypeOK
<1>18. CASE UNCHANGED Tree!vars
  BY <1>18 DEF Tree!vars, Told, TreeQuiet
<1> QED
  BY <1>1, <1>2, <1>3, <1>4, <1>5, <1>6, <1>7, <1>8, <1>9, <1>10, <1>11, <1>12, <1>13, <1>14,
    <1>15, <1>16, <1>17, <1>18 DEF Tree!Next

\* A step of the copied-tree workflow is a step of the contract as well.
LEMMA TreeKeepsContract ==
  ASSUME TreeInv, [Tree!Next]_Tree!vars, backend # "usb", UNCHANGED backend
  PROVE  ContractStep
<1> USE DEF ContractStep, Contract!Next, Contract!vars, Contract!BackUp, Contract!Announce,
            Contract!Change, Contract!Complete
<1>1. backend' # "usb"
  OBVIOUS
<1>2. CASE TreeQuiet
  BY <1>1, <1>2 DEF TreeQuiet, Told
<1>3. CASE TreeBackedUp
  BY <1>1, <1>3 DEF TreeBackedUp
<1>4. CASE TreeAnnounced
  BY <1>1, <1>4 DEF TreeAnnounced
<1>5. CASE TreeChanges
  BY <1>1, <1>5 DEF TreeChanges
<1>6. CASE TreeCompletes
  BY <1>1, <1>6 DEF TreeCompletes
<1> QED
  BY <1>2, <1>3, <1>4, <1>5, <1>6, TreeStepFacts

\* Both executors implement the contract: whatever fails or dies, the active data
\* changes only once a verified backup exists and a durable record announces it, and
\* a completed write changes nothing any more.
THEOREM ContractHolds == WriteSpec => ContractKept
<1>1. WriteInit => Contract!Init
  BY PlanTyped DEF WriteInit, Init, Tree!Init, Contract!Init, Typed, NoManifest, Untouched, Tree!Old
<1>2. BothInv /\ WriteStep => ContractStep
  BY StepParts, UsbKeepsContract, TreeKeepsContract DEF BothInv
<1>3. BothInv /\ WriteStep => [Contract!Next]_Contract!vars
  BY <1>2 DEF ContractStep
<1> QED
  BY <1>1, <1>3, BothKept, PTL DEF WriteSpec, WriteStep, ContractKept, Contract!ContractSpec

(***************************************************************************)
(* Synchronisation with a provider (FavoritesSync).  A plan keeps what the *)
(* user owns and leads to a card and a provenance that fit: this is said   *)
(* of the plans once, of whatever card and provenance they are made from.  *)
(* The invariant says which plan a session may hold, who has the           *)
(* publication lock, and what a session knows of card and file since it    *)
(* last looked at them.                                                    *)
(***************************************************************************)
Cards == {c \in Seq(Sync!Bytes) : Len(c) <= MaxRecords}

\* A provenance that fits a card.
Fits(bindings, card) ==
  /\ \A r \in bindings : r.at \in DOMAIN card /\ card[r.at] = r.bytes
  /\ Sync!Distinct(bindings)

\* What a publication may make of a binding (LocalStaysLocal).
Keeps(old, bindings) ==
  \/ \E new \in bindings :
       /\ new.identity = old.identity /\ (old.detached => new.detached)
       /\ \A f \in Sync!Fields : old.owner[f] \in {"local", "detached"} => new.owner[f] = old.owner[f]
  \/ ~old.detached /\ \A f \in Sync!Fields : old.owner[f] \notin {"local", "detached"}

Leaves(old, bindings, kind) ==
  \/ \E new \in bindings :
       /\ new.identity = old.identity
       /\ \A f \in Sync!Fields :
            old.detached \/ old.owner[f] \in {"local", "detached"} =>
              new.bytes[f] = old.bytes[f] /\ new.owner[f] = old.owner[f]
  \/ kind = "delete" /\ ~old.detached
       /\ \A f \in Sync!Fields : old.owner[f] \notin {"local", "detached"}

\* What a plan made from a card and bindings that fit leads to.
Sound(p, old) ==
  /\ p.toCard \in Cards /\ p.toRecords \in SUBSET Sync!State /\ Fits(p.toRecords, p.toCard)
  /\ \A r \in old : Keeps(r, p.toRecords) /\ Leaves(r, p.toRecords, p.kind)
  /\ p.kind = "detach" => \A c : Fits(old, c) => Fits(p.toRecords, c)

\* ---------------------------------------------------------- records and their cards
\* A record is told by its fields.
LEMMA RecordFacts ==
  ASSUME NEW r \in Sync!State
  PROVE  /\ r.at \in 1 .. MaxRecords /\ r.bytes \in Sync!Bytes /\ r.identity \in Identities
         /\ r.owner \in [Sync!Fields -> Sync!Owners] /\ r.detached \in BOOLEAN
BY DEF Sync!State

\* A binding that takes another's place, with its place and identity, fits if its bytes do.
LEMMA SwapFits ==
  ASSUME NEW bindings, NEW card, NEW r \in bindings, NEW new, Fits(bindings, card),
         card \in Cards, new.at = r.at, new.identity = r.identity, new.bytes \in Sync!Bytes
  PROVE  /\ [card EXCEPT ![r.at] = new.bytes] \in Cards
         /\ Fits(Sync!Swap(bindings, r, {new}), [card EXCEPT ![r.at] = new.bytes])
<1> DEFINE c == [card EXCEPT ![r.at] = new.bytes]
<1>1. r.at \in DOMAIN card /\ card \in Seq(Sync!Bytes) /\ Len(card) <= MaxRecords
  BY DEF Fits, Cards
<1>2. c \in Seq(Sync!Bytes) /\ Len(c) = Len(card) /\ DOMAIN c = DOMAIN card
  BY <1>1
<1>3. c[r.at] = new.bytes /\ \A k \in DOMAIN card : k # r.at => c[k] = card[k]
  BY <1>1
<1> HIDE DEF c
<1>4. c \in Cards
  BY <1>1, <1>2 DEF Cards
<1>5. ASSUME NEW q \in Sync!Swap(bindings, r, {new})
      PROVE  q.at \in DOMAIN c /\ c[q.at] = q.bytes
  <2>1. CASE q = new
    BY <2>1, <1>1, <1>2, <1>3
  <2>2. CASE q # new
    <3>1. q \in bindings /\ q # r
      BY <2>2 DEF Sync!Swap
    <3>2. q.at # r.at /\ q.at \in DOMAIN card /\ card[q.at] = q.bytes
      BY <3>1 DEF Fits, Sync!Distinct
    <3> QED
      BY <3>2, <1>2, <1>3
  <2> QED
    BY <2>1, <2>2
<1>6. Sync!Distinct(Sync!Swap(bindings, r, {new}))
  <2> SUFFICES ASSUME NEW q1 \in Sync!Swap(bindings, r, {new}), NEW q2 \in Sync!Swap(bindings, r, {new}),
                      q1 # q2
               PROVE  q1.at # q2.at /\ q1.identity # q2.identity
    BY DEF Sync!Distinct
  <2>1. (q1 \in bindings /\ q1 # r) \/ q1 = new
    BY DEF Sync!Swap
  <2>2. (q2 \in bindings /\ q2 # r) \/ q2 = new
    BY DEF Sync!Swap
  <2>3. \A a, b \in bindings : a # b => a.at # b.at /\ a.identity # b.identity
    BY DEF Fits, Sync!Distinct
  <2> QED
    BY <2>1, <2>2, <2>3
<1> QED
  BY <1>4, <1>5, <1>6 DEF Fits, c

\* A swap leaves the others alone; the new one must keep and leave what its predecessor has.
LEMMA SwapKeeps ==
  ASSUME NEW bindings \in SUBSET Sync!State, NEW r \in bindings, NEW new, NEW kind,
         Keeps(r, {new}), Leaves(r, {new}, kind)
  PROVE  \A q \in bindings : Keeps(q, Sync!Swap(bindings, r, {new}))
                              /\ Leaves(q, Sync!Swap(bindings, r, {new}), kind)
<1> SUFFICES ASSUME NEW q \in bindings
             PROVE  Keeps(q, Sync!Swap(bindings, r, {new}))
                      /\ Leaves(q, Sync!Swap(bindings, r, {new}), kind)
  OBVIOUS
<1>1. CASE q = r
  <2>1. new \in Sync!Swap(bindings, r, {new})
    BY DEF Sync!Swap
  <2> QED
    BY <1>1, <2>1 DEF Keeps, Leaves
<1>2. CASE q # r
  <2>1. q \in Sync!Swap(bindings, r, {new})
    BY <1>2 DEF Sync!Swap
  <2> QED
    BY <2>1 DEF Keeps, Leaves
<1> QED
  BY <1>1, <1>2

\* Accepting a field changes that field alone, which was not the user's.
LEMMA AcceptSound ==
  ASSUME NEW card \in Cards, NEW bindings \in SUBSET Sync!State, Fits(bindings, card),
         NEW r \in bindings, NEW o \in Sync!Observations, NEW f \in Sync!Fields,
         Sync!Acceptable(r, o, f)
  PROVE  Sound(Sync!Accept(card, bindings, r, o, f), bindings)
<1> DEFINE value == o.fields[f]
           new == [r EXCEPT !.bytes[f] = value, !.owner[f] = "external"]
<1>1. r \in Sync!State
  OBVIOUS
<1>2. value \in Sync!Values /\ ~r.detached /\ r.owner[f] \in {"unbound", "external"}
  BY DEF Sync!Acceptable, Sync!Selectable
<1> HIDE DEF value
<1>3. /\ new.at = r.at /\ new.identity = r.identity /\ new.detached = r.detached
      /\ new.bytes = [r.bytes EXCEPT ![f] = value]
      /\ new.owner = [r.owner EXCEPT ![f] = "external"]
      /\ new \in Sync!State
  <2>1. r.bytes \in [Sync!Fields -> Sync!Values] /\ r.owner \in [Sync!Fields -> Sync!Owners]
    BY <1>1, RecordFacts DEF Sync!Bytes
  <2>2. "external" \in Sync!Owners
    BY DEF Sync!Owners
  <2>3. [r.bytes EXCEPT ![f] = value] \in [Sync!Fields -> Sync!Values]
    BY <1>2, <2>1
  <2>4. [r.owner EXCEPT ![f] = "external"] \in [Sync!Fields -> Sync!Owners]
    BY <2>1, <2>2
  <2>5. new = [at |-> r.at, bytes |-> [r.bytes EXCEPT ![f] = value], identity |-> r.identity,
               owner |-> [r.owner EXCEPT ![f] = "external"], detached |-> r.detached]
    <3> DEFINE half == [r EXCEPT !.bytes[f] = value]
    <3>1. new = [half EXCEPT !.owner[f] = "external"]
      BY Zenon
    <3>2. half = [at |-> r.at, bytes |-> [r.bytes EXCEPT ![f] = value], identity |-> r.identity,
                  owner |-> r.owner, detached |-> r.detached]
      BY <1>1 DEF Sync!State
    <3> HIDE DEF half
    <3> QED
      BY <3>1, <3>2
  <2> QED
    BY <1>1, <2>3, <2>4, <2>5, RecordFacts DEF Sync!State, Sync!Bytes
<1> DEFINE p == Sync!Accept(card, bindings, r, o, f)
<1>4. /\ p.kind = "accept" /\ p.toCard = [card EXCEPT ![r.at] = new.bytes]
      /\ p.toRecords = Sync!Swap(bindings, r, {new})
  BY DEF Sync!Accept, Sync!Plan, value
<1> HIDE DEF new, p
<1>5. p.toCard \in Cards /\ Fits(p.toRecords, p.toCard)
  BY <1>3, <1>4, SwapFits DEF Sync!State
<1>6. p.toRecords \in SUBSET Sync!State
  BY <1>3, <1>4 DEF Sync!Swap
<1>7. Keeps(r, {new})
  <2>1. \A g \in Sync!Fields : r.owner[g] \in {"local", "detached"} => new.owner[g] = r.owner[g]
    BY <1>1, <1>2, <1>3, RecordFacts
  <2> QED
    BY <2>1, <1>3 DEF Keeps
<1>8. Leaves(r, {new}, p.kind)
  <2>1. \A g \in Sync!Fields :
          r.detached \/ r.owner[g] \in {"local", "detached"} =>
            new.bytes[g] = r.bytes[g] /\ new.owner[g] = r.owner[g]
    BY <1>1, <1>2, <1>3, RecordFacts DEF Sync!Bytes
  <2> QED
    BY <2>1, <1>3 DEF Leaves
<1>9. \A q \in bindings : Keeps(q, p.toRecords) /\ Leaves(q, p.toRecords, p.kind)
  <2>1. \A q \in bindings : Keeps(q, Sync!Swap(bindings, r, {new}))
                              /\ Leaves(q, Sync!Swap(bindings, r, {new}), p.kind)
    BY <1>7, <1>8, SwapKeeps
  <2> QED
    BY <1>4, <2>1
<1>10. p.kind # "detach"
  BY <1>4
<1>11. Sound(p, bindings)
  BY <1>5, <1>6, <1>9, <1>10 DEF Sound
<1> QED
  BY <1>11 DEF p

\* A detachment changes who owns what and nothing else, and only what the provider owned.
LEMMA DetachSound ==
  ASSUME NEW card \in Cards, NEW bindings \in SUBSET Sync!State, Fits(bindings, card),
         NEW p \in Sync!Detaches(card, bindings)
  PROVE  Sound(p, bindings)
<1>0. PICK r \in bindings : \E new :
        /\ p = Sync!Plan("detach", card, bindings, card, Sync!Swap(bindings, r, {new}))
        /\ ~r.detached
        /\ \/ new = Sync!DetachRecord(r)
           \/ \E f \in Sync!Fields : r.owner[f] = "external" /\ new = Sync!DetachField(r, f)
  BY DEF Sync!Detaches
<1>1. PICK new :
        /\ p = Sync!Plan("detach", card, bindings, card, Sync!Swap(bindings, r, {new}))
        /\ ~r.detached
        /\ \/ new = Sync!DetachRecord(r)
           \/ \E f \in Sync!Fields : r.owner[f] = "external" /\ new = Sync!DetachField(r, f)
  BY <1>0
<1>2. r \in Sync!State
  OBVIOUS
<1>3. /\ new.at = r.at /\ new.identity = r.identity /\ new.bytes = r.bytes /\ new \in Sync!State
      /\ \A f \in Sync!Fields : r.owner[f] \in {"local", "detached"} => new.owner[f] = r.owner[f]
  <2>1. CASE new = Sync!DetachRecord(r)
    <3> DEFINE owner == [f \in Sync!Fields |-> IF r.owner[f] = "external" THEN "detached" ELSE r.owner[f]]
    <3>1. owner \in [Sync!Fields -> Sync!Owners]
      <4>1. \A f \in Sync!Fields : r.owner[f] \in Sync!Owners /\ "detached" \in Sync!Owners
        BY <1>2, RecordFacts DEF Sync!Owners
      <4> QED
        BY <4>1
    <3>2. \A f \in Sync!Fields : r.owner[f] \in {"local", "detached"} => owner[f] = r.owner[f]
      OBVIOUS
    <3>3. new = [at |-> r.at, bytes |-> r.bytes, identity |-> r.identity, owner |-> owner, detached |-> TRUE]
      BY <1>2, <2>1 DEF Sync!DetachRecord, Sync!State
    <3> QED
      BY <1>2, <3>1, <3>2, <3>3, RecordFacts DEF Sync!State
  <2>2. ASSUME NEW g \in Sync!Fields, r.owner[g] = "external", new = Sync!DetachField(r, g)
        PROVE  <1>3!:
    <3> DEFINE owner == [r.owner EXCEPT ![g] = "detached"]
    <3>1. owner \in [Sync!Fields -> Sync!Owners]
      BY <1>2, RecordFacts DEF Sync!Owners
    <3>2. \A f \in Sync!Fields : r.owner[f] \in {"local", "detached"} => owner[f] = r.owner[f]
      BY <1>2, <2>2, RecordFacts
    <3>3. new = [at |-> r.at, bytes |-> r.bytes, identity |-> r.identity, owner |-> owner,
                 detached |-> r.detached]
      BY <1>2, <2>2 DEF Sync!DetachField, Sync!State
    <3> QED
      BY <1>2, <3>1, <3>2, <3>3, RecordFacts DEF Sync!State
  <2> QED
    BY <1>1, <2>1, <2>2
<1>4. p.kind = "detach" /\ p.toCard = card /\ p.toRecords = Sync!Swap(bindings, r, {new})
  BY <1>1 DEF Sync!Plan
<1>5. \A c : Fits(bindings, c) => Fits(p.toRecords, c)
  <2> SUFFICES ASSUME NEW c, Fits(bindings, c) PROVE Fits(Sync!Swap(bindings, r, {new}), c)
    BY <1>4
  <2>1. \A q \in Sync!Swap(bindings, r, {new}) : (q \in bindings /\ q # r) \/ q = new
    BY DEF Sync!Swap
  <2>2. \A q \in bindings : q.at \in DOMAIN c /\ c[q.at] = q.bytes
    BY DEF Fits
  <2>3. \A a, b \in bindings : a # b => a.at # b.at /\ a.identity # b.identity
    BY DEF Fits, Sync!Distinct
  <2>4. Sync!Distinct(Sync!Swap(bindings, r, {new}))
    BY <1>3, <2>1, <2>3 DEF Sync!Distinct
  <2>5. \A q \in Sync!Swap(bindings, r, {new}) : q.at \in DOMAIN c /\ c[q.at] = q.bytes
    BY <1>3, <2>1, <2>2
  <2> QED
    BY <2>4, <2>5 DEF Fits
<1>6. p.toRecords \in SUBSET Sync!State
  BY <1>3, <1>4 DEF Sync!Swap
<1>7. Keeps(r, {new})
  <2>1. r.detached => new.detached
    BY <1>1
  <2> QED
    BY <2>1, <1>3 DEF Keeps
<1>8. Leaves(r, {new}, p.kind)
  BY <1>1, <1>3 DEF Leaves
<1> QED
  BY <1>4, <1>5, <1>6, <1>7, <1>8, SwapKeeps DEF Sound

\* ------------------------------------------------------- inserting and removing
\* What CreatedAt and DeletedAt make of a card.
LEMMA InsertFacts ==
  ASSUME NEW card \in Cards, NEW k \in 1 .. Len(card) + 1, NEW e \in Sync!Bytes,
         Len(card) < MaxRecords
  PROVE  /\ Sync!CreatedAt(card, k, e) \in Cards
         /\ DOMAIN Sync!CreatedAt(card, k, e) = 1 .. Len(card) + 1
         /\ Sync!CreatedAt(card, k, e)[k] = e
         /\ \A i \in DOMAIN card :
              IF i < k THEN Sync!CreatedAt(card, k, e)[i] = card[i]
              ELSE Sync!CreatedAt(card, k, e)[i + 1] = card[i]
<1> DEFINE n == Len(card)
           head == SubSeq(card, 1, k - 1)
           tail == SubSeq(card, k, n)
           all == head \o <<e>> \o tail
<1>1. card \in Seq(Sync!Bytes) /\ n \in Nat /\ DOMAIN card = 1 .. n /\ n < MaxRecords
  BY DEF Cards
<1>2. \A i \in 1 .. n : card[i] \in Sync!Bytes
  BY <1>1
<1>3. head \in Seq(Sync!Bytes) /\ Len(head) = k - 1 /\ \A i \in 1 .. k - 1 : head[i] = card[i]
  <2>1. \A i \in 1 .. k - 1 : card[i] \in Sync!Bytes
    BY <1>1, <1>2
  <2> QED
    BY <1>1, <2>1, SubSeqProperties
<1>4. tail \in Seq(Sync!Bytes) /\ Len(tail) = n - k + 1
        /\ \A i \in 1 .. n - k + 1 : tail[i] = card[k + i - 1]
  <2>1. \A i \in k .. n : card[i] \in Sync!Bytes
    BY <1>1, <1>2
  <2>2. tail \in Seq(Sync!Bytes) /\ \A i \in 1 .. n - k + 1 : tail[i] = card[k + i - 1]
    BY <1>1, <2>1, SubSeqProperties
  <2>3. Len(tail) = IF k <= n THEN n - k + 1 ELSE 0
    BY <1>1, <2>1, SubSeqProperties
  <2> QED
    BY <1>1, <2>2, <2>3
<1> HIDE DEF head, tail, n
<1>5. <<e>> \in Seq(Sync!Bytes) /\ Len(<<e>>) = 1 /\ <<e>>[1] = e
  OBVIOUS
<1>6. head \o <<e>> \in Seq(Sync!Bytes) /\ Len(head \o <<e>>) = k
        /\ (head \o <<e>>)[k] = e /\ \A i \in 1 .. k - 1 : (head \o <<e>>)[i] = card[i]
  BY <1>1, <1>3, <1>5, k \in Nat DEF n
<1> DEFINE first == head \o <<e>>
<1> HIDE DEF first
<1>7. first \o tail \in Seq(Sync!Bytes) /\ Len(first \o tail) = n + 1
        /\ \A i \in 1 .. n + 1 : (first \o tail)[i] = IF i <= k THEN first[i] ELSE tail[i - k]
  <2>1. first \in Seq(Sync!Bytes) /\ Len(first) = k
    BY <1>6 DEF first
  <2>2. k \in Nat /\ k <= n + 1 /\ 1 <= k
    BY <1>1 DEF n
  <2>3. first \o tail \in Seq(Sync!Bytes) /\ Len(first \o tail) = Len(first) + Len(tail)
          /\ \A i \in 1 .. Len(first) + Len(tail) :
               (first \o tail)[i] = IF i <= Len(first) THEN first[i] ELSE tail[i - Len(first)]
    BY <1>4, <2>1, ConcatProperties
  <2>4. Len(first) + Len(tail) = n + 1
    BY <1>1, <1>4, <2>1, <2>2
  <2> QED
    BY <2>1, <2>3, <2>4
<1>8. all = first \o tail /\ Sync!CreatedAt(card, k, e) = all
  BY DEF first, Sync!CreatedAt, head, tail, n
<1> HIDE DEF all
<1>9. k \in Nat /\ 1 <= k /\ k <= n + 1
  BY <1>1 DEF n
<1>10. all \in Cards /\ DOMAIN all = 1 .. n + 1
  <2>1. n + 1 <= MaxRecords
    BY <1>1, SyncAssumption
  <2> QED
    BY <1>1, <1>7, <1>8, <2>1 DEF Cards
<1>11. all[k] = e
  BY <1>6, <1>7, <1>8, <1>9, <1>1 DEF first
<1>12. ASSUME NEW i \in 1 .. n
       PROVE  IF i < k THEN all[i] = card[i] ELSE all[i + 1] = card[i]
  <2>1. CASE i < k
    BY <2>1, <1>1, <1>6, <1>7, <1>8, <1>9 DEF first
  <2>2. CASE ~(i < k)
    <3>1. i + 1 \in 1 .. n + 1 /\ i + 1 > k /\ i + 1 - k \in 1 .. n - k + 1
      BY <2>2, <1>1, <1>9
    <3>2. all[i + 1] = tail[i + 1 - k]
      BY <3>1, <1>7, <1>8, <1>9, <1>1
    <3>3. tail[i + 1 - k] = card[k + (i + 1 - k) - 1]
      BY <3>1, <1>4
    <3>4. k + (i + 1 - k) - 1 = i
      BY <1>1, <1>9
    <3> QED
      BY <2>2, <3>2, <3>3, <3>4
  <2> QED
    BY <2>1, <2>2
<1> QED
  BY <1>1, <1>8, <1>10, <1>11, <1>12 DEF n

LEMMA RemoveFacts ==
  ASSUME NEW card \in Cards, NEW k \in DOMAIN card
  PROVE  /\ Sync!DeletedAt(card, k) \in Cards
         /\ DOMAIN Sync!DeletedAt(card, k) = 1 .. Len(card) - 1
         /\ \A i \in DOMAIN card :
              /\ i < k => Sync!DeletedAt(card, k)[i] = card[i]
              /\ i > k => Sync!DeletedAt(card, k)[i - 1] = card[i]
<1> DEFINE n == Len(card)
           head == SubSeq(card, 1, k - 1)
           tail == SubSeq(card, k + 1, n)
           all == head \o tail
<1>1. card \in Seq(Sync!Bytes) /\ n \in Nat /\ DOMAIN card = 1 .. n /\ n <= MaxRecords
  BY DEF Cards
<1>2. \A i \in 1 .. n : card[i] \in Sync!Bytes
  BY <1>1
<1>3. head \in Seq(Sync!Bytes) /\ Len(head) = k - 1 /\ \A i \in 1 .. k - 1 : head[i] = card[i]
  <2>1. \A i \in 1 .. k - 1 : card[i] \in Sync!Bytes
    BY <1>1, <1>2
  <2> QED
    BY <1>1, <2>1, SubSeqProperties
<1>4. tail \in Seq(Sync!Bytes) /\ Len(tail) = n - k
        /\ \A i \in 1 .. n - k : tail[i] = card[k + i]
  <2>1. \A i \in k + 1 .. n : card[i] \in Sync!Bytes
    BY <1>1, <1>2
  <2>2. tail \in Seq(Sync!Bytes) /\ \A i \in 1 .. n - (k + 1) + 1 : tail[i] = card[(k + 1) + i - 1]
    BY <1>1, <2>1, SubSeqProperties
  <2>3. Len(tail) = IF k + 1 <= n THEN n - (k + 1) + 1 ELSE 0
    BY <1>1, <2>1, SubSeqProperties
  <2>4. \A i \in 1 .. n - k : (k + 1) + i - 1 = k + i
    BY <1>1
  <2>5. n - (k + 1) + 1 = n - k
    BY <1>1
  <2> QED
    BY <1>1, <2>2, <2>3, <2>4, <2>5
<1>5. Sync!DeletedAt(card, k) = all
  BY DEF Sync!DeletedAt
<1> HIDE DEF head, tail
<1>6. k \in Nat /\ 1 <= k /\ k <= n
  BY <1>1
<1> HIDE DEF n
<1>7. all \in Seq(Sync!Bytes) /\ Len(all) = n - 1
        /\ \A i \in 1 .. n - 1 : all[i] = IF i <= k - 1 THEN head[i] ELSE tail[i - (k - 1)]
  <2>1. head \o tail \in Seq(Sync!Bytes) /\ Len(head \o tail) = Len(head) + Len(tail)
          /\ \A i \in 1 .. Len(head) + Len(tail) :
               (head \o tail)[i] = IF i <= Len(head) THEN head[i] ELSE tail[i - Len(head)]
    BY <1>3, <1>4, ConcatProperties
  <2>2. Len(head) + Len(tail) = n - 1
    BY <1>1, <1>3, <1>4, <1>6
  <2> QED
    BY <1>3, <2>1, <2>2
<1> HIDE DEF all
<1>8. all \in Cards /\ DOMAIN all = 1 .. n - 1
  <2>1. n - 1 <= MaxRecords /\ n - 1 \in Nat
    BY <1>1, <1>6, SyncAssumption
  <2> QED
    BY <1>7, <2>1 DEF Cards
<1>9. ASSUME NEW i \in 1 .. n
      PROVE  (i < k => all[i] = card[i]) /\ (i > k => all[i - 1] = card[i])
  <2>1. ASSUME i < k PROVE all[i] = card[i]
    BY <2>1, <1>1, <1>3, <1>6, <1>7
  <2>2. ASSUME i > k PROVE all[i - 1] = card[i]
    <3>1. i - 1 \in 1 .. n - 1 /\ ~(i - 1 <= k - 1) /\ i - k \in 1 .. n - k
      BY <2>2, <1>1, <1>6
    <3>2. all[i - 1] = tail[(i - 1) - (k - 1)]
      BY <3>1, <1>7
    <3>3. (i - 1) - (k - 1) = i - k /\ k + (i - k) = i
      BY <1>1, <1>6
    <3>4. tail[i - k] = card[k + (i - k)]
      BY <3>1, <1>4
    <3> QED
      BY <3>2, <3>3, <3>4
  <2> QED
    BY <2>1, <2>2
<1> QED
  BY <1>1, <1>5, <1>8, <1>9 DEF n

\* ------------------------------------------------------------ imports and deletions
Moved(r, pivot, delta) == [r EXCEPT !.at = IF r.at > pivot THEN r.at + delta ELSE r.at]

\* A shift moves the places of the bindings and nothing else.
LEMMA MovedFacts ==
  ASSUME NEW r \in Sync!State, NEW pivot \in Nat, NEW delta \in {1, 0 - 1},
         delta = 1 => r.at < MaxRecords, delta = 0 - 1 => r.at # pivot,
         pivot >= 1
  PROVE  /\ Moved(r, pivot, delta) \in Sync!State
         /\ Moved(r, pivot, delta).at = (IF r.at > pivot THEN r.at + delta ELSE r.at)
         /\ Moved(r, pivot, delta).bytes = r.bytes /\ Moved(r, pivot, delta).identity = r.identity
         /\ Moved(r, pivot, delta).owner = r.owner /\ Moved(r, pivot, delta).detached = r.detached
<1> DEFINE at == IF r.at > pivot THEN r.at + delta ELSE r.at
<1>1. at \in 1 .. MaxRecords
  BY RecordFacts, SyncAssumption
<1>2. Moved(r, pivot, delta) = [at |-> at, bytes |-> r.bytes, identity |-> r.identity, owner |-> r.owner,
                                detached |-> r.detached]
  BY DEF Moved, Sync!State
<1> HIDE DEF at
<1>3. Moved(r, pivot, delta) \in Sync!State
  BY <1>1, <1>2, RecordFacts DEF Sync!State
<1> QED
  BY <1>2, <1>3 DEF at

LEMMA ShiftIsMoved ==
  ASSUME NEW bindings, NEW pivot, NEW delta
  PROVE  Sync!Shift(bindings, pivot, delta) = {Moved(r, pivot, delta) : r \in bindings}
BY DEF Sync!Shift, Moved

\* A binding that was only moved keeps and leaves what it should.
LEMMA MovedKeeps ==
  ASSUME NEW r \in Sync!State, NEW new, NEW bindings, NEW kind, new \in bindings,
         new.identity = r.identity, new.bytes = r.bytes, new.owner = r.owner,
         new.detached = r.detached
  PROVE  Keeps(r, bindings) /\ Leaves(r, bindings, kind)
BY DEF Keeps, Leaves

\* The plan that imports an observation behind a record of the card.
Imported(card, bindings, i, o, anchor, owner) ==
  LET new == [at |-> anchor + 1, bytes |-> [name |-> o.fields["name"], tone |-> "a"],
              identity |-> i, owner |-> owner, detached |-> FALSE]
  IN  Sync!Plan("import", card, bindings, Sync!CreatedAt(card, anchor + 1, new.bytes),
                Sync!Shift(Sync!Bound(bindings), anchor, 1) \cup {new})

LEMMA ImportsAre ==
  ASSUME NEW card, NEW bindings, NEW i, NEW o, NEW p \in Sync!Imports(card, bindings, i, o)
  PROVE  /\ o.fields["name"] \in Sync!Values /\ Len(card) # MaxRecords
         /\ \A r \in Sync!Bound(bindings) : r.identity # i
         /\ \E anchor \in DOMAIN card, owner \in Sync!Bindings :
              p = Imported(card, bindings, i, o, anchor, owner)
<1>1. Sync!Imports(card, bindings, i, o) =
        IF o.removed \/ o.fields["name"] \notin Sync!Values \/ Len(card) = MaxRecords
             \/ \E r \in Sync!Bound(bindings) : r.identity = i
        THEN {}
        ELSE {Imported(card, bindings, i, o, anchor, owner) :
                anchor \in DOMAIN card, owner \in Sync!Bindings}
  BY DEF Sync!Imports, Imported
<1>2. ~(o.removed \/ o.fields["name"] \notin Sync!Values \/ Len(card) = MaxRecords
          \/ \E r \in Sync!Bound(bindings) : r.identity = i)
  BY <1>1
<1>3. p \in {Imported(card, bindings, i, o, anchor, owner) :
               anchor \in DOMAIN card, owner \in Sync!Bindings}
  BY <1>1, <1>2
<1> QED
  BY <1>2, <1>3

\* Importing makes room for a record that is not bound yet.
LEMMA ImportSound ==
  ASSUME NEW card \in Cards, NEW bindings, Sync!Bound(bindings) \in SUBSET Sync!State,
         Fits(Sync!Bound(bindings), card), NEW i \in Identities, NEW o \in Sync!Observations,
         NEW p \in Sync!Imports(card, bindings, i, o)
  PROVE  Sound(p, Sync!Bound(bindings))
<1> DEFINE old == Sync!Bound(bindings)
<1>1. PICK anchor \in DOMAIN card, owner \in Sync!Bindings :
        p = Imported(card, bindings, i, o, anchor, owner)
  BY ImportsAre
<1>2. o.fields["name"] \in Sync!Values /\ Len(card) # MaxRecords /\ \A r \in old : r.identity # i
  BY ImportsAre
<1> DEFINE bytes == [name |-> o.fields["name"], tone |-> "a"]
           new == [at |-> anchor + 1, bytes |-> bytes, identity |-> i, owner |-> owner, detached |-> FALSE]
           shifted == {Moved(r, anchor, 1) : r \in old}
           c == Sync!CreatedAt(card, anchor + 1, bytes)
<1>3. p.kind = "import" /\ p.toCard = c /\ p.toRecords = shifted \cup {new}
  BY <1>1, ShiftIsMoved DEF Imported, Sync!Plan
<1>4. bytes \in Sync!Bytes
  BY <1>2 DEF Sync!Bytes, Sync!Fields, Sync!Values
<1>5. owner \in [Sync!Fields -> Sync!Owners]
  BY DEF Sync!Bindings, Sync!Owners, Sync!Fields
<1> HIDE DEF bytes
<1>6. /\ Len(card) \in Nat /\ Len(card) < MaxRecords /\ DOMAIN card = 1 .. Len(card)
      /\ anchor \in Nat /\ anchor >= 1 /\ anchor <= Len(card) /\ MaxRecords \in Nat
  BY <1>2, SyncAssumption DEF Cards
<1>7. new \in Sync!State /\ new.at = anchor + 1 /\ new.identity = i /\ new.bytes = bytes
  BY <1>4, <1>5, <1>6 DEF Sync!State
<1> HIDE DEF new
<1>8. /\ c \in Cards /\ DOMAIN c = 1 .. Len(card) + 1 /\ c[anchor + 1] = bytes
      /\ \A k \in DOMAIN card : IF k < anchor + 1 THEN c[k] = card[k] ELSE c[k + 1] = card[k]
  BY <1>4, <1>6, InsertFacts
<1> HIDE DEF c
<1>9. ASSUME NEW r \in old
      PROVE  /\ r \in Sync!State /\ r.at \in DOMAIN card /\ card[r.at] = r.bytes
             /\ Moved(r, anchor, 1) \in Sync!State
             /\ Moved(r, anchor, 1).at = (IF r.at > anchor THEN r.at + 1 ELSE r.at)
             /\ Moved(r, anchor, 1).bytes = r.bytes /\ Moved(r, anchor, 1).identity = r.identity
             /\ Moved(r, anchor, 1).owner = r.owner /\ Moved(r, anchor, 1).detached = r.detached
  <2>1. r \in Sync!State /\ r.at \in DOMAIN card /\ card[r.at] = r.bytes
    BY DEF Fits
  <2>2. r.at < MaxRecords
    BY <2>1, <1>6
  <2> QED
    BY <2>1, <2>2, <1>6, MovedFacts
<1>10. \A a, b \in old : a # b => a.at # b.at /\ a.identity # b.identity
  BY DEF Fits, Sync!Distinct
<1>17. \A r \in old : r.identity # i
  BY <1>2
<1> HIDE DEF old
<1>11. ASSUME NEW q \in shifted \cup {new} PROVE q.at \in DOMAIN c /\ c[q.at] = q.bytes
  <2>1. CASE q = new
    BY <2>1, <1>6, <1>7, <1>8
  <2>2. CASE q # new
    <3>1. PICK r \in old : q = Moved(r, anchor, 1)
      BY <2>2
    <3>2. r.at \in 1 .. Len(card)
      BY <1>6, <1>9
    <3> QED
      BY <3>1, <3>2, <1>6, <1>8, <1>9
  <2> QED
    BY <2>1, <2>2
<1>12. ASSUME NEW a \in shifted \cup {new}, NEW b \in shifted \cup {new}, a # b
       PROVE  a.at # b.at /\ a.identity # b.identity
  <2>1. ASSUME NEW r \in old PROVE Moved(r, anchor, 1).at # new.at /\ Moved(r, anchor, 1).identity # new.identity
    <3> DEFINE m == Moved(r, anchor, 1)
    <3>1. r.at \in 1 .. Len(card) /\ m.at = (IF r.at > anchor THEN r.at + 1 ELSE r.at)
      BY <1>6, <1>9
    <3>2. m.identity # new.identity
      BY <1>7, <1>9, <1>17
    <3> HIDE DEF m
    <3>3. m.at # anchor + 1
      BY <3>1, <1>6
    <3> QED
      BY <3>2, <3>3, <1>7 DEF m
  <2>2. ASSUME NEW r1 \in old, NEW r2 \in old, Moved(r1, anchor, 1) # Moved(r2, anchor, 1)
        PROVE  /\ Moved(r1, anchor, 1).at # Moved(r2, anchor, 1).at
               /\ Moved(r1, anchor, 1).identity # Moved(r2, anchor, 1).identity
    <3>1. r1 # r2
      BY <2>2
    <3>2. r1.at \in 1 .. Len(card) /\ r2.at \in 1 .. Len(card) /\ r1.at # r2.at /\ r1.identity # r2.identity
      BY <3>1, <1>6, <1>9, <1>10
    <3> QED
      BY <3>2, <1>6, <1>9
  <2> QED
    BY <2>1, <2>2, <1>12
<1>13. Fits(p.toRecords, p.toCard)
  BY <1>3, <1>11, <1>12 DEF Fits, Sync!Distinct
<1>14. p.toRecords \in SUBSET Sync!State /\ p.toCard \in Cards
  BY <1>3, <1>7, <1>8, <1>9
<1>15. \A r \in old : Keeps(r, p.toRecords) /\ Leaves(r, p.toRecords, p.kind)
  <2> SUFFICES ASSUME NEW r \in old PROVE Keeps(r, p.toRecords) /\ Leaves(r, p.toRecords, p.kind)
    OBVIOUS
  <2>1. Moved(r, anchor, 1) \in p.toRecords
    BY <1>3
  <2> QED
    BY <2>1, <1>9, MovedKeeps
<1>16. p.kind # "detach"
  BY <1>3
<1> QED
  BY <1>13, <1>14, <1>15, <1>16 DEF Sound, old

\* A deletion takes a record of which the provider owns every bound field.
LEMMA DeleteSound ==
  ASSUME NEW card \in Cards, NEW bindings \in SUBSET Sync!State, Fits(bindings, card),
         NEW r \in bindings, NEW o, Sync!Removal(r, o)
  PROVE  Sound(Sync!Delete(card, bindings, r), bindings)
<1> DEFINE p == Sync!Delete(card, bindings, r)
           rest == bindings \ {r}
           k == r.at
           shifted == {Moved(q, k, 0 - 1) : q \in rest}
           c == Sync!DeletedAt(card, k)
<1>1. p.kind = "delete" /\ p.toCard = c /\ p.toRecords = shifted
  BY ShiftIsMoved DEF Sync!Delete, Sync!Plan
<1> HIDE DEF p
<1>2. r \in Sync!State /\ k \in DOMAIN card /\ card[k] = r.bytes
  BY DEF Fits
<1>3. /\ Len(card) \in Nat /\ Len(card) <= MaxRecords /\ DOMAIN card = 1 .. Len(card)
      /\ k \in Nat /\ k >= 1 /\ k <= Len(card) /\ MaxRecords \in Nat
  BY <1>2, SyncAssumption DEF Cards
<1>4. /\ c \in Cards /\ DOMAIN c = 1 .. Len(card) - 1
      /\ \A i \in DOMAIN card : (i < k => c[i] = card[i]) /\ (i > k => c[i - 1] = card[i])
  BY <1>2, RemoveFacts
<1> HIDE DEF c
<1>5. \A a, b \in bindings : a # b => a.at # b.at /\ a.identity # b.identity
  BY DEF Fits, Sync!Distinct
<1>6. ASSUME NEW q \in rest
      PROVE  /\ q \in Sync!State /\ q.at \in DOMAIN card /\ card[q.at] = q.bytes /\ q.at # k
             /\ Moved(q, k, 0 - 1) \in Sync!State
             /\ Moved(q, k, 0 - 1).at = (IF q.at > k THEN q.at + (0 - 1) ELSE q.at)
             /\ Moved(q, k, 0 - 1).bytes = q.bytes /\ Moved(q, k, 0 - 1).identity = q.identity
             /\ Moved(q, k, 0 - 1).owner = q.owner /\ Moved(q, k, 0 - 1).detached = q.detached
  <2>1. q \in Sync!State /\ q.at \in DOMAIN card /\ card[q.at] = q.bytes /\ q.at # k
    BY <1>5 DEF Fits
  <2> QED
    BY <2>1, <1>3, MovedFacts
<1> HIDE DEF k
<1>7. \A r1, r2 \in rest : r1 # r2 => r1.at # r2.at /\ r1.identity # r2.identity
  BY <1>5
<1> HIDE DEF rest
<1>8. ASSUME NEW q \in shifted PROVE q.at \in DOMAIN c /\ c[q.at] = q.bytes
  <2>1. PICK s \in rest : q = Moved(s, k, 0 - 1)
    OBVIOUS
  <2>2. s.at \in 1 .. Len(card) /\ s.at # k
    BY <1>3, <1>6
  <2>3. q.at = (IF s.at > k THEN s.at + (0 - 1) ELSE s.at) /\ q.bytes = s.bytes /\ card[s.at] = s.bytes
    BY <2>1, <1>6
  <2>4. CASE s.at > k
    <3>1. q.at = s.at - 1 /\ s.at - 1 \in 1 .. Len(card) - 1
      BY <2>2, <2>3, <2>4, <1>3
    <3> QED
      BY <3>1, <2>2, <2>3, <2>4, <1>3, <1>4
  <2>5. CASE ~(s.at > k)
    <3>1. q.at = s.at /\ s.at < k /\ s.at \in 1 .. Len(card) - 1
      BY <2>2, <2>3, <2>5, <1>3
    <3> QED
      BY <3>1, <2>2, <2>3, <1>3, <1>4
  <2> QED
    BY <2>4, <2>5
<1>9. ASSUME NEW a \in shifted, NEW b \in shifted, a # b PROVE a.at # b.at /\ a.identity # b.identity
  <2>1. PICK r1 \in rest, r2 \in rest : a = Moved(r1, k, 0 - 1) /\ b = Moved(r2, k, 0 - 1)
    OBVIOUS
  <2>2. r1 # r2
    BY <1>9, <2>1
  <2>3. /\ r1.at \in 1 .. Len(card) /\ r2.at \in 1 .. Len(card) /\ r1.at # r2.at
        /\ r1.at # k /\ r2.at # k /\ r1.identity # r2.identity
    BY <2>2, <1>3, <1>6, <1>7
  <2> QED
    BY <2>1, <2>3, <1>3, <1>6
<1>10. Fits(p.toRecords, p.toCard)
  BY <1>1, <1>8, <1>9 DEF Fits, Sync!Distinct
<1>11. p.toRecords \in SUBSET Sync!State /\ p.toCard \in Cards
  BY <1>1, <1>4, <1>6
<1>12. ~r.detached /\ \A f \in Sync!Fields : r.owner[f] \notin {"local", "detached"}
  <2>1. ~r.detached /\ o.removed /\ ~Sync!Conflicts(r, o)
    BY DEF Sync!Removal
  <2>2. \A f \in Sync!Fields : Sync!RemovedChange(r, f) # "conflict"
    BY <2>1 DEF Sync!Conflicts, Sync!Change
  <2>3. \A f \in Sync!Fields : r.owner[f] \in {"unbound", "external"}
    BY <2>2 DEF Sync!RemovedChange
  <2> QED
    BY <2>1, <2>3
<1>13. \A q \in bindings : Keeps(q, p.toRecords) /\ Leaves(q, p.toRecords, p.kind)
  <2> SUFFICES ASSUME NEW q \in bindings PROVE Keeps(q, p.toRecords) /\ Leaves(q, p.toRecords, p.kind)
    OBVIOUS
  <2>1. CASE q = r
    BY <2>1, <1>1, <1>12 DEF Keeps, Leaves
  <2>2. CASE q # r
    <3>1. q \in rest
      BY <2>2 DEF rest
    <3>2. Moved(q, k, 0 - 1) \in p.toRecords
      BY <3>1, <1>1
    <3> QED
      BY <3>1, <3>2, <1>6, MovedKeeps
  <2> QED
    BY <2>1, <2>2
<1>14. p.kind # "detach"
  BY <1>1
<1>15. Sound(p, bindings)
  BY <1>10, <1>11, <1>13, <1>14 DEF Sound
<1> QED
  BY <1>15 DEF p

\* What a user can select is sound, made from whatever fits.
LEMMA PlansSound ==
  ASSUME NEW card \in Cards, NEW bindings, Sync!Bound(bindings) \in SUBSET Sync!State,
         Fits(Sync!Bound(bindings), card), NEW p \in Sync!PlansFrom(card, bindings)
  PROVE  /\ Sound(p, Sync!Bound(bindings))
         /\ p.card = card /\ p.records = bindings /\ p.kind # "none"
         /\ p.kind # "import" => bindings # Sync!None
<1>1. CASE \E i \in Identities, o \in Sync!Observations : p \in Sync!Imports(card, bindings, i, o)
  <2>1. PICK i \in Identities, o \in Sync!Observations : p \in Sync!Imports(card, bindings, i, o)
    BY <1>1
  <2>2. Sound(p, Sync!Bound(bindings))
    BY <2>1, ImportSound
  <2>3. p.card = card /\ p.records = bindings /\ p.kind = "import"
    BY <2>1 DEF Sync!Imports, Sync!Plan
  <2> QED
    BY <2>2, <2>3
<1>2. CASE bindings # Sync!None
  <2>1. Sync!Bound(bindings) = bindings
    BY <1>2 DEF Sync!Bound
  <2>2. CASE p \in Sync!Detaches(card, bindings)
    <3>1. p.card = card /\ p.records = bindings /\ p.kind = "detach"
      <4>1. \E r \in bindings : \E new : p = Sync!Plan("detach", card, bindings, card, Sync!Swap(bindings, r, {new}))
        BY <2>2 DEF Sync!Detaches
      <4> QED
        BY <4>1 DEF Sync!Plan
    <3>2. Sound(p, bindings)
      BY <2>1, <2>2, DetachSound
    <3> QED
      BY <1>2, <2>1, <3>1, <3>2
  <2>3. ASSUME NEW o \in Sync!Observations,
               p \in Sync!NameAcceptances(card, bindings, o) \cup Sync!FieldAcceptances(card, bindings, o)
        PROVE  Sound(p, bindings) /\ p.card = card /\ p.records = bindings /\ p.kind = "accept"
    <3>1. PICK r \in bindings, f \in Sync!Fields :
            Sync!Acceptable(r, o, f) /\ p = Sync!Accept(card, bindings, r, o, f)
      <4>1. "name" \in Sync!Fields
        BY DEF Sync!Fields
      <4> QED
        BY <2>3, <4>1 DEF Sync!NameAcceptances, Sync!FieldAcceptances, Sync!AcceptsName
    <3>2. Sound(p, bindings)
      BY <2>1, <3>1, AcceptSound
    <3>3. p.card = card /\ p.records = bindings /\ p.kind = "accept"
      BY <3>1 DEF Sync!Accept, Sync!Plan
    <3> QED
      BY <3>2, <3>3
  <2>4. ASSUME NEW o \in Sync!Observations, p \in Sync!Deletions(card, bindings, o)
        PROVE  Sound(p, bindings) /\ p.card = card /\ p.records = bindings /\ p.kind = "delete"
    <3>1. PICK r \in bindings : Sync!Removal(r, o) /\ p = Sync!Delete(card, bindings, r)
      BY <2>4 DEF Sync!Deletions
    <3>2. Sound(p, bindings)
      BY <2>1, <3>1, DeleteSound
    <3>3. p.card = card /\ p.records = bindings /\ p.kind = "delete"
      BY <3>1 DEF Sync!Delete, Sync!Plan
    <3> QED
      BY <3>2, <3>3
  <2>5. \/ p \in Sync!Detaches(card, bindings)
        \/ \E o \in Sync!Observations :
             \/ p \in Sync!NameAcceptances(card, bindings, o) \cup Sync!FieldAcceptances(card, bindings, o)
             \/ p \in Sync!Deletions(card, bindings, o)
        \/ \E i \in Identities, o \in Sync!Observations : p \in Sync!Imports(card, bindings, i, o)
    BY <1>2 DEF Sync!PlansFrom
  <2> QED
    BY <1>1, <1>2, <2>1, <2>2, <2>3, <2>4, <2>5
<1>3. CASE bindings = Sync!None
  BY <1>1, <1>3 DEF Sync!PlansFrom
<1> QED
  BY <1>1, <1>2, <1>3


\* ------------------------------------------------------------ what a session knows
Provenances == {Sync!None} \cup SUBSET Sync!State
Lives == [state : {"idle", "active", "failed"}, card : Cards, records : Provenances]
Resting == {"rest", "load"}
Writing == {"admitted", "write", "reread"}
InPublication == {"staged", "checked", "published"}

\* It has a plan that is sound, and runs it from an active lifecycle.
HasPlan(s) ==
  /\ plans[s] # Sync!NoPlan => Sound(plans[s], Sync!Bound(plans[s].records))
  /\ syncPc[s] \notin Resting => plans[s] # Sync!NoPlan /\ life[s].state = "active"
  /\ syncPc[s] \in {"write", "reread"} => plans[s].kind # "detach"

\* What it retains fits, and is what its plan led to once that was done.
Retains(s) ==
  /\ life[s].state = "active" => Fits(Sync!Bound(life[s].records), life[s].card)
  /\ done[s] =>
       /\ syncPc[s] = "rest" /\ life[s].state = "active"
       /\ life[s].card = plans[s].toCard /\ life[s].records = plans[s].toRecords

\* Card and file are as it saw them, or it was overtaken.
KnowsCard(s) ==
  (syncPc[s] \in Sync!Looked \/ done[s]) /\ plans[s].kind # "detach" =>
    onCard = plans[s].toCard \/ "card" \in since[s]

KnowsFile(s) ==
  /\ syncPc[s] \in InPublication => publisher = s
  /\ syncPc[s] \in {"staged", "checked"} =>
       provenance = plans[s].records \/ ("emptied" \in since[s] /\ provenance = Sync!None)
  /\ syncPc[s] = "published" \/ done[s] =>
       provenance = plans[s].toRecords \/ {"file", "emptied"} \cap since[s] # {}
  /\ "emptied" \in since[s] => known

SessionInv(s) == HasPlan(s) /\ Retains(s) /\ KnowsCard(s) /\ KnowsFile(s)

SyncTyped ==
  /\ onCard \in Cards /\ provenance \in Provenances
  /\ life \in [Sessions -> Lives] /\ DOMAIN plans = Sessions
  /\ syncPc \in [Sessions -> Resting \cup Writing \cup {"publish"} \cup InPublication]
  /\ publisher \in Sessions \cup {Sync!Nobody}
  /\ done \in [Sessions -> BOOLEAN]
  /\ since \in [Sessions -> SUBSET {"card", "file", "emptied"}]

SyncInv == SyncTyped /\ (\A s \in Sessions : SessionInv(s)) /\ Sync!UnfitIsKnown

\* ------------------------------------------------------------- facts about the state
\* A set of bindings is not the absent file.
LEMMA BoundFacts ==
  ASSUME NEW bindings
  PROVE  /\ bindings \in SUBSET Sync!State => bindings # Sync!None /\ Sync!Bound(bindings) = bindings
         /\ bindings \in Provenances => Sync!Bound(bindings) \in SUBSET Sync!State
<1>1. [file |-> "absent"] \notin Sync!State
  <2> SUFFICES ASSUME [file |-> "absent"] \in Sync!State PROVE FALSE
    OBVIOUS
  <2>1. DOMAIN [file |-> "absent"] = {"file"}
    OBVIOUS
  <2>2. DOMAIN [file |-> "absent"] = {"at", "bytes", "identity", "owner", "detached"}
    BY DEF Sync!State
  <2> QED
    BY <2>1, <2>2
<1>2. bindings \in SUBSET Sync!State => bindings # Sync!None
  BY <1>1 DEF Sync!None
<1>3. Sync!Bound(bindings) = IF bindings = Sync!None THEN {} ELSE bindings
  BY DEF Sync!Bound
<1> QED
  BY <1>2, <1>3 DEF Provenances

\* What binds again fits.
LEMMA RebindsFits ==
  ASSUME NEW bindings, NEW card
  PROVE  Sync!Rebinds(bindings, card) <=> Fits(Sync!Bound(bindings), card)
<1>1. CASE bindings = Sync!None
  BY <1>1 DEF Sync!Rebinds, Sync!Bound, Fits, Sync!Distinct
<1>2. CASE bindings # Sync!None
  BY <1>2 DEF Sync!Rebinds, Sync!Bound, Fits
<1> QED
  BY <1>1, <1>2

\* What a sound plan leads to.
LEMMA SoundFacts ==
  ASSUME NEW p, NEW old, Sound(p, old)
  PROVE  /\ p.toCard \in Cards /\ p.toRecords \in Provenances /\ p.toRecords # Sync!None
         /\ Sync!Bound(p.toRecords) = p.toRecords /\ Sync!Rebinds(p.toRecords, p.toCard)
         /\ p.kind = "detach" => \A c : Fits(old, c) => Sync!Rebinds(p.toRecords, c)
<1>1. p.toRecords \in SUBSET Sync!State /\ p.toCard \in Cards /\ Fits(p.toRecords, p.toCard)
  BY DEF Sound
<1>2. p.toRecords # Sync!None /\ Sync!Bound(p.toRecords) = p.toRecords
  BY <1>1, BoundFacts
<1>3. \A c : Sync!Rebinds(p.toRecords, c) <=> Fits(p.toRecords, c)
  BY <1>2, RebindsFits
<1>4. p.kind = "detach" => \A c : Fits(old, c) => Fits(p.toRecords, c)
  BY DEF Sound
<1> QED
  BY <1>1, <1>2, <1>3, <1>4 DEF Provenances

\* What a step writes into the history of the others, ...
LEMMA BehindFacts ==
  ASSUME SyncTyped, NEW who, NEW what \in SUBSET {"card", "file", "emptied"}, Sync!Behind(who, what)
  PROVE  /\ since' \in [Sessions -> SUBSET {"card", "file", "emptied"}]
         /\ \A t \in Sessions :
              since'[t] = IF t \in who /\ (syncPc[t] \in Sync!Looked \/ done[t])
                          THEN since[t] \cup what ELSE since[t]
BY DEF SyncTyped, Sync!Behind

\* ... what a look takes out of one's own, ...
LEMMA ForgetFacts ==
  ASSUME SyncTyped, NEW s \in Sessions, NEW what, Sync!Forget(s, what)
  PROVE  /\ since' \in [Sessions -> SUBSET {"card", "file", "emptied"}]
         /\ since'[s] = since[s] \ what /\ \A t \in Sessions \ {s} : since'[t] = since[t]
BY DEF SyncTyped, Sync!Forget

\* ... and where an operation starts.
LEMMA BeginFacts ==
  ASSUME SyncTyped, NEW s \in Sessions, Sync!Begin(s)
  PROVE  /\ since' \in [Sessions -> SUBSET {"card", "file", "emptied"}]
         /\ done' \in [Sessions -> BOOLEAN] /\ since'[s] = {} /\ ~done'[s]
         /\ \A t \in Sessions \ {s} : since'[t] = since[t] /\ done'[t] = done[t]
BY DEF SyncTyped, Sync!Begin

\* A session goes from one step to the next.
LEMMA GoFacts ==
  ASSUME SyncTyped, NEW s \in Sessions, NEW from, NEW to, Sync!Go(s, from, to),
         to \in Resting \cup Writing \cup {"publish"} \cup InPublication
  PROVE  /\ syncPc[s] = from /\ syncPc'[s] = to
         /\ syncPc' \in [Sessions -> Resting \cup Writing \cup {"publish"} \cup InPublication]
         /\ \A t \in Sessions \ {s} : syncPc'[t] = syncPc[t]
BY DEF SyncTyped, Sync!Go

\* A session that does not move keeps what it knows, or learns that it was overtaken.
LEMMA OthersKeep ==
  ASSUME NEW t \in Sessions, SessionInv(t),
         life'[t] = life[t], plans'[t] = plans[t], syncPc'[t] = syncPc[t], done'[t] = done[t],
         publisher = t => publisher' = t, known => known',
         since[t] \subseteq since'[t], "emptied" \in since'[t] => "emptied" \in since[t] \/ known',
         syncPc[t] \in Sync!Looked \/ done[t] => onCard' = onCard \/ "card" \in since'[t],
         syncPc[t] \in {"staged", "checked"} =>
           provenance' = provenance \/ (provenance' = Sync!None /\ "emptied" \in since'[t]),
         syncPc[t] = "published" \/ done[t] =>
           provenance' = provenance \/ {"file", "emptied"} \cap since'[t] # {}
  PROVE  SessionInv(t)'
<1>1. HasPlan(t)'
  BY DEF SessionInv, HasPlan
<1>2. Retains(t)'
  BY DEF SessionInv, Retains
<1>3. KnowsCard(t)'
  BY DEF SessionInv, KnowsCard
<1>4. KnowsFile(t)'
  <2>1. syncPc'[t] \in InPublication => publisher' = t
    BY DEF SessionInv, KnowsFile
  <2>2. syncPc'[t] \in {"staged", "checked"} =>
          provenance' = plans'[t].records \/ ("emptied" \in since'[t] /\ provenance' = Sync!None)
    BY DEF SessionInv, KnowsFile
  <2>3. syncPc'[t] = "published" \/ done'[t] =>
          provenance' = plans'[t].toRecords \/ {"file", "emptied"} \cap since'[t] # {}
    BY DEF SessionInv, KnowsFile
  <2>4. "emptied" \in since'[t] => known'
    BY DEF SessionInv, KnowsFile
  <2> QED
    BY <2>1, <2>2, <2>3, <2>4 DEF KnowsFile
<1> QED
  BY <1>1, <1>2, <1>3, <1>4 DEF SessionInv

\* Card and file alone, whoever was between the two still is, or somebody knows.
LEMMA UnfitStays ==
  ASSUME Sync!UnfitIsKnown, onCard' = onCard, provenance' = provenance,
         known => known', crossed => crossed',
         \A t \in Sessions : Sync!Between(t) => Sync!Between(t)' \/ known'
  PROVE  Sync!UnfitIsKnown'
BY DEF Sync!UnfitIsKnown, Sync!Rebinds, Sync!Distinct

\* The first step is from a card and a file that fit.
LEMMA SyncStarts == ASSUME Sync!Init PROVE SyncInv
<1> USE SyncAssumption
<1>1. Sync!First \in Sync!Bytes
  BY DEF Sync!First, Sync!Bytes, Sync!Fields, Sync!Values
<1>2. onCard \in Cards /\ DOMAIN onCard = {1} /\ onCard[1] = Sync!First /\ <<>> \in Cards
  BY <1>1 DEF Sync!Init, Cards
<1>3. provenance \in Provenances /\ Sync!Rebinds(provenance, onCard)
  <2>1. CASE provenance = Sync!None
    BY <2>1 DEF Provenances, Sync!Rebinds
  <2>2. CASE provenance # Sync!None
    <3> DEFINE owner == [name |-> "external", tone |-> "local"]
               r == [at |-> 1, bytes |-> Sync!First, identity |-> CHOOSE i \in Identities : TRUE,
                     owner |-> owner, detached |-> FALSE]
    <3>1. provenance = {r}
      BY <2>2 DEF Sync!Init, Sync!Known
    <3>2. owner \in [Sync!Fields -> Sync!Owners]
      BY DEF Sync!Fields, Sync!Owners
    <3>3. (CHOOSE i \in Identities : TRUE) \in Identities
      OBVIOUS
    <3>4. r \in Sync!State /\ r.at = 1 /\ r.bytes = Sync!First
      BY <1>1, <3>2, <3>3 DEF Sync!State
    <3> HIDE DEF r
    <3> QED
      BY <1>2, <3>1, <3>4 DEF Provenances, Sync!Rebinds, Sync!Distinct
  <2> QED
    BY <2>1, <2>2
<1>4. Sync!Fresh \in Lives
  BY <1>2 DEF Sync!Fresh, Lives, Provenances
<1>5. SyncTyped
  BY <1>2, <1>3, <1>4 DEF SyncTyped, Sync!Init, Resting
<1>6. ASSUME NEW s \in Sessions PROVE SessionInv(s)
  <2>1. /\ plans[s] = Sync!NoPlan /\ syncPc[s] = "rest" /\ ~done[s] /\ since[s] = {}
        /\ life[s].state = "idle"
    BY DEF Sync!Init, Sync!Fresh
  <2> QED
    BY <2>1 DEF SessionInv, HasPlan, Retains, KnowsCard, KnowsFile, Resting, InPublication, Sync!Looked
<1> QED
  BY <1>3, <1>5, <1>6 DEF SyncInv, Sync!UnfitIsKnown

\* ----------------------------------------------------------- steps of a lifecycle
\* A step that leaves card, file, lock and history of the others alone leaves the
\* others as they were.
LEMMA OneSessionSteps ==
  ASSUME SyncInv, NEW s \in Sessions, onCard' = onCard, provenance' = provenance,
         known => known', crossed => crossed',
         \A t \in Sessions \ {s} :
           /\ life'[t] = life[t] /\ plans'[t] = plans[t] /\ syncPc'[t] = syncPc[t]
           /\ done'[t] = done[t] /\ since'[t] = since[t] /\ (publisher = t => publisher' = t),
         SyncTyped', SessionInv(s)', Sync!Between(s) => Sync!Between(s)' \/ known'
  PROVE  SyncInv'
<1>1. ASSUME NEW t \in Sessions \ {s} PROVE SessionInv(t)'
  BY <1>1, OthersKeep DEF SyncInv
<1>2. \A t \in Sessions : SessionInv(t)'
  BY <1>1
<1>3. ASSUME NEW t \in Sessions, Sync!Between(t) PROVE Sync!Between(t)' \/ known'
  <2>1. CASE t = s
    BY <1>3, <2>1
  <2>2. CASE t # s
    BY <1>3, <2>2 DEF Sync!Between, Sync!Writes, Sync!Job
  <2> QED
    BY <2>1, <2>2
<1>4. Sync!UnfitIsKnown'
  BY <1>3, UnfitStays DEF SyncInv
<1> QED
  BY <1>2, <1>4 DEF SyncInv

LEMMA StartReadKeeps == ASSUME SyncInv, NEW s \in Sessions, Sync!StartRead(s) PROVE SyncInv'
<1>1. SyncTyped /\ SessionInv(s)
  BY DEF SyncInv
<1>2. Sync!Go(s, "rest", "load") /\ life[s].state = "idle"
        /\ life' = [life EXCEPT ![s].card = onCard]
        /\ UNCHANGED <<onCard, provenance, plans, publisher, done, since, known, crossed>>
  BY DEF Sync!StartRead
<1>3. /\ syncPc[s] = "rest" /\ syncPc'[s] = "load" /\ \A t \in Sessions \ {s} : syncPc'[t] = syncPc[t]
      /\ syncPc' \in [Sessions -> Resting \cup Writing \cup {"publish"} \cup InPublication]
  BY <1>1, <1>2, GoFacts DEF Resting
<1>4. /\ life' \in [Sessions -> Lives] /\ life'[s].state = "idle"
      /\ \A t \in Sessions \ {s} : life'[t] = life[t]
  BY <1>1, <1>2 DEF SyncTyped, Lives
<1>5. SyncTyped'
  BY <1>1, <1>2, <1>3, <1>4 DEF SyncTyped
<1>6. ~done[s] /\ ~done'[s]
  BY <1>1, <1>2 DEF SessionInv, Retains
<1>7. SessionInv(s)'
  BY <1>1, <1>2, <1>3, <1>4, <1>6
     DEF SessionInv, HasPlan, Retains, KnowsCard, KnowsFile, Resting, InPublication, Sync!Looked
<1>8. ~Sync!Between(s)
  BY <1>3 DEF Sync!Between
<1> QED
  BY <1>2, <1>3, <1>4, <1>5, <1>7, <1>8, OneSessionSteps

LEMMA StartLoadKeeps == ASSUME SyncInv, NEW s \in Sessions, Sync!StartLoad(s) PROVE SyncInv'
<1>1. SyncTyped /\ SessionInv(s)
  BY DEF SyncInv
<1>2. Sync!Go(s, "load", "rest")
        /\ UNCHANGED <<onCard, provenance, plans, publisher, done, since, known, crossed>>
  BY DEF Sync!StartLoad
<1>3. /\ syncPc[s] = "load" /\ syncPc'[s] = "rest" /\ \A t \in Sessions \ {s} : syncPc'[t] = syncPc[t]
      /\ syncPc' \in [Sessions -> Resting \cup Writing \cup {"publish"} \cup InPublication]
  BY <1>1, <1>2, GoFacts DEF Resting
<1>4. /\ life' \in [Sessions -> Lives] /\ \A t \in Sessions \ {s} : life'[t] = life[t]
      /\ life'[s].state = "active" => Fits(Sync!Bound(life'[s].records), life'[s].card)
  <2>1. CASE Sync!Rebinds(provenance, life[s].card)
              /\ life' = [life EXCEPT ![s].state = "active", ![s].records = provenance]
    <3>1. life[s] \in Lives /\ provenance \in Provenances
      BY <1>1 DEF SyncTyped
    <3>2. /\ DOMAIN life' = Sessions
          /\ life'[s] = [state |-> "active", card |-> life[s].card, records |-> provenance]
          /\ \A t \in Sessions \ {s} : life'[t] = life[t]
      <4> DEFINE half == [life EXCEPT ![s].state = "active"]
      <4>1. DOMAIN half = Sessions /\ \A t \in Sessions \ {s} : half[t] = life[t]
        BY <1>1 DEF SyncTyped
      <4>2. half[s] = [state |-> "active", card |-> life[s].card, records |-> life[s].records]
        <5>1. half[s] = [life[s] EXCEPT !.state = "active"]
          BY <1>1 DEF SyncTyped
        <5> QED
          BY <3>1, <5>1 DEF Lives
      <4>3. life' = [half EXCEPT ![s].records = provenance]
        BY <2>1, Zenon
      <4> HIDE DEF half
      <4>4. life'[s] = [half[s] EXCEPT !.records = provenance]
        BY <4>1, <4>3
      <4> QED
        BY <4>1, <4>2, <4>3, <4>4
    <3>3. /\ life'[s].records = provenance /\ life'[s].card = life[s].card /\ life' \in [Sessions -> Lives]
          /\ \A t \in Sessions \ {s} : life'[t] = life[t]
      <4>1. life'[s] \in Lives
        BY <3>1, <3>2 DEF Lives
      <4>2. life' = [t \in Sessions |-> life'[t]]
        BY <2>1, <3>2
      <4>3. \A t \in Sessions : life'[t] \in Lives
        BY <1>1, <3>2, <4>1 DEF SyncTyped
      <4> QED
        BY <3>2, <4>2, <4>3
    <3> QED
      BY <2>1, <3>3, RebindsFits
  <2>2. CASE life' = [life EXCEPT ![s] = [Sync!Fresh EXCEPT !.state = "failed"]]
    <3>1. [Sync!Fresh EXCEPT !.state = "failed"] = [state |-> "failed", card |-> <<>>, records |-> Sync!None]
      BY DEF Sync!Fresh
    <3>2. <<>> \in Cards
      BY SyncAssumption DEF Cards
    <3> QED
      BY <1>1, <2>2, <3>1, <3>2 DEF SyncTyped, Lives, Provenances
  <2> QED
    BY <2>1, <2>2 DEF Sync!StartLoad
<1>5. SyncTyped'
  BY <1>1, <1>2, <1>3, <1>4 DEF SyncTyped
<1>6. ~done[s] /\ ~done'[s]
  BY <1>1, <1>2, <1>3 DEF SessionInv, Retains
<1>7. SessionInv(s)'
  BY <1>1, <1>2, <1>3, <1>4, <1>6
     DEF SessionInv, HasPlan, Retains, KnowsCard, KnowsFile, Resting, InPublication, Sync!Looked
<1>8. ~Sync!Between(s)
  BY <1>3 DEF Sync!Between
<1> QED
  BY <1>2, <1>3, <1>4, <1>5, <1>7, <1>8, OneSessionSteps

LEMMA ReopenKeeps == ASSUME SyncInv, NEW s \in Sessions, Sync!Reopen(s) PROVE SyncInv'
<1>1. SyncTyped /\ SessionInv(s)
  BY DEF SyncInv
<1>2. /\ syncPc[s] = "rest" /\ life' = [life EXCEPT ![s] = Sync!Fresh]
      /\ plans' = [plans EXCEPT ![s] = Sync!NoPlan] /\ Sync!Begin(s)
      /\ UNCHANGED <<onCard, provenance, syncPc, publisher, known, crossed>>
  BY DEF Sync!Reopen
<1>3. /\ since' \in [Sessions -> SUBSET {"card", "file", "emptied"}]
      /\ done' \in [Sessions -> BOOLEAN] /\ since'[s] = {} /\ ~done'[s]
      /\ \A t \in Sessions \ {s} : since'[t] = since[t] /\ done'[t] = done[t]
  BY <1>1, <1>2, BeginFacts
<1>4. <<>> \in Cards
  BY SyncAssumption DEF Cards
<1>5. /\ life' \in [Sessions -> Lives] /\ life'[s].state = "idle" /\ DOMAIN plans' = Sessions
      /\ plans'[s] = Sync!NoPlan
      /\ \A t \in Sessions \ {s} : life'[t] = life[t] /\ plans'[t] = plans[t]
  BY <1>1, <1>2, <1>4 DEF SyncTyped, Lives, Provenances, Sync!Fresh
<1>6. SyncTyped'
  BY <1>1, <1>2, <1>3, <1>5 DEF SyncTyped
<1>7. SessionInv(s)'
  BY <1>2, <1>3, <1>5
     DEF SessionInv, HasPlan, Retains, KnowsCard, KnowsFile, Resting, InPublication, Sync!Looked
<1>8. ~Sync!Between(s)
  BY <1>2 DEF Sync!Between
<1> QED
  BY <1>2, <1>3, <1>5, <1>6, <1>7, <1>8, OneSessionSteps

LEMMA SelectKeeps == ASSUME SyncInv, NEW s \in Sessions, Sync!Select(s) PROVE SyncInv'
<1>1. SyncTyped /\ SessionInv(s)
  BY DEF SyncInv
<1>2. PICK p \in Sync!PlansFrom(life[s].card, life[s].records) : plans' = [plans EXCEPT ![s] = p]
  BY DEF Sync!Select
<1>3. /\ syncPc[s] = "rest" /\ life[s].state = "active" /\ Sync!Begin(s)
      /\ UNCHANGED <<onCard, provenance, life, syncPc, publisher, known, crossed>>
  BY DEF Sync!Select
<1>4. /\ since' \in [Sessions -> SUBSET {"card", "file", "emptied"}]
      /\ done' \in [Sessions -> BOOLEAN] /\ since'[s] = {} /\ ~done'[s]
      /\ \A t \in Sessions \ {s} : since'[t] = since[t] /\ done'[t] = done[t]
  BY <1>1, <1>3, BeginFacts
<1>5. Sound(p, Sync!Bound(p.records))
  <2>1. life[s].card \in Cards /\ life[s].records \in Provenances
    BY <1>1 DEF SyncTyped, Lives
  <2>2. Sync!Bound(life[s].records) \in SUBSET Sync!State
    BY <2>1, BoundFacts
  <2>3. Fits(Sync!Bound(life[s].records), life[s].card)
    BY <1>1, <1>3 DEF SessionInv, Retains
  <2>4. Sound(p, Sync!Bound(life[s].records)) /\ p.records = life[s].records
    BY <2>1, <2>2, <2>3, PlansSound
  <2> QED
    BY <2>4
<1>6. /\ DOMAIN plans' = Sessions /\ plans'[s] = p /\ \A t \in Sessions \ {s} : plans'[t] = plans[t]
  BY <1>1, <1>2 DEF SyncTyped
<1>7. SyncTyped'
  BY <1>1, <1>3, <1>4, <1>6 DEF SyncTyped
<1>8. SessionInv(s)'
  BY <1>1, <1>3, <1>4, <1>5, <1>6
     DEF SessionInv, HasPlan, Retains, KnowsCard, KnowsFile, Resting, InPublication, Sync!Looked
<1>9. ~Sync!Between(s)
  BY <1>3 DEF Sync!Between
<1> QED
  BY <1>3, <1>4, <1>6, <1>7, <1>8, <1>9, OneSessionSteps

LEMMA AdmitKeeps == ASSUME SyncInv, NEW s \in Sessions, Sync!Admit(s) PROVE SyncInv'
<1>1. SyncTyped /\ SessionInv(s)
  BY DEF SyncInv
<1>2. /\ plans[s] # Sync!NoPlan
      /\ UNCHANGED <<onCard, provenance, life, plans, publisher, known, crossed>>
  BY DEF Sync!Admit, Sync!Job
<1>3. CASE Sync!Admissible(s) /\ Sync!Go(s, "rest", "admitted") /\ Sync!Begin(s)
  <2>1. /\ syncPc[s] = "rest" /\ syncPc'[s] = "admitted"
        /\ syncPc' \in [Sessions -> Resting \cup Writing \cup {"publish"} \cup InPublication]
        /\ \A t \in Sessions \ {s} : syncPc'[t] = syncPc[t]
    BY <1>1, <1>3, GoFacts DEF Writing
  <2>2. /\ since' \in [Sessions -> SUBSET {"card", "file", "emptied"}]
        /\ done' \in [Sessions -> BOOLEAN] /\ since'[s] = {} /\ ~done'[s]
        /\ \A t \in Sessions \ {s} : since'[t] = since[t] /\ done'[t] = done[t]
    BY <1>1, <1>3, BeginFacts
  <2>3. life[s].state = "active"
    BY <1>3 DEF Sync!Admissible
  <2>4. SyncTyped'
    BY <1>1, <1>2, <2>1, <2>2 DEF SyncTyped
  <2>5. SessionInv(s)'
    BY <1>1, <1>2, <2>1, <2>2, <2>3
       DEF SessionInv, HasPlan, Retains, KnowsCard, KnowsFile, InPublication, Sync!Looked
  <2>6. ~Sync!Between(s)
    BY <2>1 DEF Sync!Between
  <2> QED
    BY <1>2, <2>1, <2>2, <2>4, <2>5, <2>6, OneSessionSteps
<1>4. CASE Sync!Refuse(s, "rest") /\ UNCHANGED since
  <2>1. Sync!Go(s, "rest", "rest") /\ UNCHANGED done
    BY <1>4 DEF Sync!Refuse
  <2>2. syncPc' = syncPc
    BY <1>1, <2>1 DEF Sync!Go, SyncTyped
  <2>3. SyncTyped' /\ SessionInv(s)'
    BY <1>1, <1>2, <1>4, <2>1, <2>2
       DEF SyncTyped, SessionInv, HasPlan, Retains, KnowsCard, KnowsFile
  <2>4. Sync!Between(s) => Sync!Between(s)'
    BY <1>2, <2>2 DEF Sync!Between, Sync!Writes, Sync!Job
  <2> QED
    BY <1>2, <1>4, <2>1, <2>2, <2>3, <2>4, OneSessionSteps
<1> QED
  BY <1>3, <1>4 DEF Sync!Admit

LEMMA LoadKeeps == ASSUME SyncInv, NEW s \in Sessions, Sync!Load(s) PROVE SyncInv'
<1>1. SyncTyped /\ SessionInv(s)
  BY DEF SyncInv
<1>2. /\ UNCHANGED <<onCard, provenance, life, plans, publisher, done, since, known, crossed>>
      /\ \/ Sync!Go(s, "admitted", IF plans[s].kind # "detach" THEN "write" ELSE "publish")
         \/ Sync!Go(s, "admitted", "rest")
  BY DEF Sync!Load, Sync!Refuse, Sync!Writes, Sync!Job
<1>3. /\ syncPc[s] = "admitted"
      /\ \/ syncPc'[s] = "rest"
         \/ syncPc'[s] = (IF plans[s].kind # "detach" THEN "write" ELSE "publish")
      /\ syncPc' \in [Sessions -> Resting \cup Writing \cup {"publish"} \cup InPublication]
      /\ \A t \in Sessions \ {s} : syncPc'[t] = syncPc[t]
  BY <1>1, <1>2, GoFacts DEF Writing, Resting
<1>4. SyncTyped'
  BY <1>1, <1>2, <1>3 DEF SyncTyped
<1>5. ~done[s] /\ plans[s] # Sync!NoPlan /\ life[s].state = "active"
  BY <1>1, <1>3 DEF SessionInv, Retains, HasPlan, Resting
<1>6. SessionInv(s)'
  BY <1>1, <1>2, <1>3, <1>5
     DEF SessionInv, HasPlan, Retains, KnowsCard, KnowsFile, InPublication, Sync!Looked
<1>7. ~Sync!Between(s)
  BY <1>3 DEF Sync!Between
<1> QED
  BY <1>2, <1>3, <1>4, <1>6, <1>7, OneSessionSteps

\* ----------------------------------------------------------- steps of an execution
LEMMA ExecuteKeeps == ASSUME SyncInv, NEW s \in Sessions, Sync!Execute(s) PROVE SyncInv'
<1>1. SyncTyped /\ SessionInv(s) /\ Sync!UnfitIsKnown
  BY DEF SyncInv
<1>2. UNCHANGED <<provenance, life, plans, publisher, crossed>>
  BY DEF Sync!Execute
<1>3. syncPc[s] = "write" /\ UNCHANGED done
  BY DEF Sync!Execute, Sync!Go, Sync!Refuse
<1>4. /\ plans[s] # Sync!NoPlan /\ life[s].state = "active" /\ plans[s].kind # "detach" /\ ~done[s]
      /\ plans[s].toCard \in Cards
  <2>1. plans[s] # Sync!NoPlan /\ life[s].state = "active" /\ plans[s].kind # "detach" /\ ~done[s]
    BY <1>1, <1>3 DEF SessionInv, HasPlan, Retains, Resting
  <2> QED
    BY <1>1, <2>1, SoundFacts DEF SessionInv, HasPlan
<1>5. ASSUME NEW to \in {"rest", "reread"}, Sync!Go(s, "write", to)
      PROVE  /\ syncPc' \in [Sessions -> Resting \cup Writing \cup {"publish"} \cup InPublication]
             /\ syncPc'[s] = to /\ \A t \in Sessions \ {s} : syncPc'[t] = syncPc[t]
  BY <1>1, <1>5, GoFacts DEF Resting, Writing
<1>6. CASE /\ onCard' = plans[s].toCard /\ Sync!Behind(Sync!Others(s), {"card"})
           /\ \/ Sync!Go(s, "write", "reread") /\ Sync!Account(FALSE)
              \/ Sync!Go(s, "write", "rest") /\ Sync!Account(TRUE)
  <2>1. /\ since' \in [Sessions -> SUBSET {"card", "file", "emptied"}]
        /\ \A t \in Sessions :
             since'[t] = IF t \in Sync!Others(s) /\ (syncPc[t] \in Sync!Looked \/ done[t])
                         THEN since[t] \cup {"card"} ELSE since[t]
    BY <1>1, <1>6, BehindFacts
  <2>2. /\ syncPc' \in [Sessions -> Resting \cup Writing \cup {"publish"} \cup InPublication]
        /\ syncPc'[s] \in {"rest", "reread"} /\ \A t \in Sessions \ {s} : syncPc'[t] = syncPc[t]
    BY <1>5, <1>6
  <2>3. (syncPc'[s] = "reread" \/ known') /\ (known => known')
    BY <1>5, <1>6 DEF Sync!Account
  <2>4. SyncTyped'
    BY <1>1, <1>2, <1>3, <1>4, <1>6, <2>1, <2>2 DEF SyncTyped
  <2>5. since'[s] = since[s]
    BY <2>1 DEF Sync!Others
  <2>6. SessionInv(s)'
    BY <1>1, <1>2, <1>3, <1>4, <2>2, <2>3, <2>5
       DEF SessionInv, HasPlan, Retains, KnowsCard, KnowsFile, InPublication, Sync!Looked
  <2>7. ASSUME NEW t \in Sessions \ {s} PROVE SessionInv(t)'
    <3>1. SessionInv(t)
      BY DEF SyncInv
    <3>2. since[t] \subseteq since'[t] /\ ("emptied" \in since'[t] => "emptied" \in since[t])
      BY <2>1
    <3>3. syncPc[t] \in Sync!Looked \/ done[t] => "card" \in since'[t]
      BY <2>1 DEF Sync!Others
    <3> QED
      BY <1>2, <1>3, <2>2, <2>3, <3>1, <3>2, <3>3, OthersKeep
  <2>8. Sync!UnfitIsKnown'
    <3>1. CASE known'
      BY <3>1 DEF Sync!UnfitIsKnown
    <3>2. CASE syncPc'[s] = "reread"
      BY <1>2, <1>4, <3>2 DEF Sync!UnfitIsKnown, Sync!Between, Sync!Writes, Sync!Job
    <3> QED
      BY <2>3, <3>1, <3>2
  <2> QED
    BY <2>4, <2>6, <2>7, <2>8 DEF SyncInv
<1>7. CASE Sync!Go(s, "write", "rest") /\ UNCHANGED <<onCard, since, known>>
  <2>1. SyncTyped'
    BY <1>1, <1>2, <1>3, <1>5, <1>7 DEF SyncTyped
  <2>2. SessionInv(s)'
    BY <1>1, <1>2, <1>3, <1>4, <1>5, <1>7
       DEF SessionInv, HasPlan, Retains, KnowsCard, KnowsFile, Resting, InPublication, Sync!Looked
  <2>3. ~Sync!Between(s)
    BY <1>3 DEF Sync!Between
  <2> QED
    BY <1>2, <1>3, <1>5, <1>7, <2>1, <2>2, <2>3, OneSessionSteps
<1> QED
  BY <1>6, <1>7 DEF Sync!Execute, Sync!Refuse, Sync!Job

LEMMA RereadKeeps == ASSUME SyncInv, NEW s \in Sessions, Sync!Reread(s) PROVE SyncInv'
<1>1. SyncTyped /\ SessionInv(s)
  BY DEF SyncInv
<1>2. UNCHANGED <<onCard, provenance, life, plans, publisher, crossed, done>> /\ Sync!Forget(s, {"card"})
  BY DEF Sync!Reread, Sync!Refuse
<1>3. \/ Sync!Go(s, "reread", "publish") /\ known' = known /\ onCard = plans[s].toCard
      \/ Sync!Go(s, "reread", "rest") /\ known'
  BY DEF Sync!Reread, Sync!Refuse, Sync!Account, Sync!Job
<1>4. /\ syncPc[s] = "reread"
      /\ \/ syncPc'[s] = "publish" /\ known' = known /\ onCard = plans[s].toCard
         \/ syncPc'[s] = "rest" /\ known'
      /\ syncPc' \in [Sessions -> Resting \cup Writing \cup {"publish"} \cup InPublication]
      /\ \A t \in Sessions \ {s} : syncPc'[t] = syncPc[t]
  BY <1>1, <1>3, GoFacts DEF Resting
<1>5. /\ since' \in [Sessions -> SUBSET {"card", "file", "emptied"}]
      /\ since'[s] = since[s] \ {"card"} /\ \A t \in Sessions \ {s} : since'[t] = since[t]
  BY <1>1, <1>2, ForgetFacts
<1>6. /\ plans[s] # Sync!NoPlan /\ life[s].state = "active" /\ plans[s].kind # "detach" /\ ~done[s]
  BY <1>1, <1>4 DEF SessionInv, HasPlan, Retains, Resting
<1>7. SyncTyped'
  BY <1>1, <1>2, <1>4, <1>5 DEF SyncTyped
<1>8. SessionInv(s)'
  <2>1. HasPlan(s)' /\ Retains(s)'
    BY <1>1, <1>2, <1>4, <1>6 DEF SessionInv, HasPlan, Retains
  <2>2. KnowsCard(s)'
    BY <1>2, <1>4, <1>6 DEF KnowsCard, Sync!Looked
  <2>3. KnowsFile(s)'
    BY <1>1, <1>2, <1>4, <1>5, <1>6 DEF SessionInv, KnowsFile, InPublication
  <2> QED
    BY <2>1, <2>2, <2>3 DEF SessionInv
<1>9. Sync!Between(s) => Sync!Between(s)' \/ known'
  BY <1>2, <1>4 DEF Sync!Between, Sync!Writes, Sync!Job
<1>10. known => known'
  BY <1>4
<1> QED
  BY <1>2, <1>4, <1>5, <1>7, <1>8, <1>9, <1>10, OneSessionSteps

\* A publication that is lost, before or after the lock was taken.
LEMMA LossFacts ==
  ASSUME SyncTyped, NEW s \in Sessions, NEW from, Sync!LosePublication(s, from)
  PROVE  /\ syncPc[s] = from /\ syncPc'[s] = "rest" /\ done' = done
         /\ syncPc' \in [Sessions -> Resting \cup Writing \cup {"publish"} \cup InPublication]
         /\ \A t \in Sessions \ {s} : syncPc'[t] = syncPc[t]
         /\ known' = (known \/ plans[s].kind # "detach")
<1>1. Sync!Go(s, from, "rest") /\ done' = done /\ known' = (known \/ plans[s].kind # "detach")
  BY DEF Sync!LosePublication, Sync!Refuse, Sync!Account, Sync!Writes, Sync!Job
<1> QED
  BY <1>1, GoFacts DEF Resting

LEMMA LossKeeps ==
  ASSUME SyncInv, NEW s \in Sessions, NEW from \in {"publish", "staged", "published"},
         Sync!LosePublication(s, from), publisher' \in {publisher, Sync!Nobody},
         from = "publish" => publisher' = publisher,
         UNCHANGED <<onCard, provenance, life, plans, crossed>>,
         since' \in [Sessions -> SUBSET {"card", "file", "emptied"}], since'[s] \subseteq since[s],
         \A t \in Sessions \ {s} : since'[t] = since[t]
  PROVE  SyncInv'
<1>1. SyncTyped /\ SessionInv(s)
  BY DEF SyncInv
<1>2. /\ syncPc[s] = from /\ syncPc'[s] = "rest" /\ done' = done
      /\ syncPc' \in [Sessions -> Resting \cup Writing \cup {"publish"} \cup InPublication]
      /\ \A t \in Sessions \ {s} : syncPc'[t] = syncPc[t]
      /\ known' = (known \/ plans[s].kind # "detach")
  BY <1>1, LossFacts
<1>3. ~done[s]
  BY <1>1, <1>2 DEF SessionInv, Retains
<1>4. SyncTyped'
  BY <1>1, <1>2 DEF SyncTyped
<1>5. SessionInv(s)'
  BY <1>1, <1>2, <1>3
     DEF SessionInv, HasPlan, Retains, KnowsCard, KnowsFile, Resting, InPublication, Sync!Looked
<1>6. ASSUME NEW t \in Sessions \ {s}, publisher = t PROVE publisher' = t
  <2>1. syncPc[s] \in InPublication => publisher = s
    BY <1>1 DEF SessionInv, KnowsFile
  <2> QED
    BY <1>2, <1>6, <2>1 DEF InPublication
<1>7. Sync!Between(s) => known'
  BY <1>2 DEF Sync!Between, Sync!Writes, Sync!Job
<1> QED
  BY <1>2, <1>4, <1>5, <1>6, <1>7, OneSessionSteps

LEMMA CompareKeeps == ASSUME SyncInv, NEW s \in Sessions, Sync!Compare(s) PROVE SyncInv'
<1>1. SyncTyped /\ SessionInv(s)
  BY DEF SyncInv
<1>2. Sync!Forget(s, {"file", "emptied"}) /\ UNCHANGED <<onCard, provenance, life, plans, crossed>>
  BY DEF Sync!Compare
<1>3. /\ since' \in [Sessions -> SUBSET {"card", "file", "emptied"}]
      /\ since'[s] = since[s] \ {"file", "emptied"} /\ \A t \in Sessions \ {s} : since'[t] = since[t]
  BY <1>1, <1>2, ForgetFacts
<1>4. CASE /\ publisher = Sync!Nobody /\ provenance = plans[s].records /\ publisher' = s
           /\ Sync!Go(s, "publish", "staged") /\ UNCHANGED <<done, known>>
  <2>1. /\ syncPc[s] = "publish" /\ syncPc'[s] = "staged"
        /\ syncPc' \in [Sessions -> Resting \cup Writing \cup {"publish"} \cup InPublication]
        /\ \A t \in Sessions \ {s} : syncPc'[t] = syncPc[t]
    BY <1>1, <1>4, GoFacts DEF InPublication
  <2>2. SyncTyped'
    BY <1>1, <1>2, <1>3, <1>4, <2>1 DEF SyncTyped
  <2>3. plans[s] # Sync!NoPlan /\ life[s].state = "active" /\ ~done[s]
    BY <1>1, <2>1 DEF SessionInv, HasPlan, Retains, Resting
  <2>4. HasPlan(s)' /\ Retains(s)'
    BY <1>1, <1>2, <1>4, <2>1, <2>3 DEF SessionInv, HasPlan, Retains
  <2>5. KnowsCard(s)'
    BY <1>1, <1>2, <1>3, <1>4, <2>1 DEF SessionInv, KnowsCard, Sync!Looked
  <2>6. KnowsFile(s)'
    BY <1>2, <1>3, <1>4, <2>1, <2>3 DEF KnowsFile
  <2>7. Sync!Between(s) => Sync!Between(s)'
    BY <1>2, <2>1 DEF Sync!Between, Sync!Writes, Sync!Job
  <2>8. ASSUME NEW t \in Sessions \ {s} PROVE publisher # t
    BY <1>4, SyncAssumption DEF Sync!Nobody
  <2> QED
    BY <1>2, <1>3, <1>4, <2>1, <2>2, <2>4, <2>5, <2>6, <2>7, <2>8, OneSessionSteps DEF SessionInv
<1>5. CASE Sync!LosePublication(s, "publish") /\ UNCHANGED publisher
  BY <1>2, <1>3, <1>5, LossKeeps
<1> QED
  BY <1>4, <1>5 DEF Sync!Compare, Sync!Lockable, Sync!Job

LEMMA RecheckKeeps == ASSUME SyncInv, NEW s \in Sessions, Sync!Recheck(s) PROVE SyncInv'
<1>1. SyncTyped /\ SessionInv(s)
  BY DEF SyncInv
<1>2. UNCHANGED <<onCard, provenance, life, plans, since, crossed>>
  BY DEF Sync!Recheck
<1>3. CASE Sync!Go(s, "staged", "checked") /\ UNCHANGED <<publisher, done, known>>
  <2>1. /\ syncPc[s] = "staged" /\ syncPc'[s] = "checked"
        /\ syncPc' \in [Sessions -> Resting \cup Writing \cup {"publish"} \cup InPublication]
        /\ \A t \in Sessions \ {s} : syncPc'[t] = syncPc[t]
    BY <1>1, <1>3, GoFacts DEF InPublication
  <2>2. SyncTyped'
    BY <1>1, <1>2, <1>3, <2>1 DEF SyncTyped
  <2>3. plans[s] # Sync!NoPlan /\ life[s].state = "active" /\ ~done[s]
    BY <1>1, <2>1 DEF SessionInv, HasPlan, Retains, Resting
  <2>4. SessionInv(s)'
    BY <1>1, <1>2, <1>3, <2>1, <2>3
       DEF SessionInv, HasPlan, Retains, KnowsCard, KnowsFile, InPublication, Sync!Looked
  <2>5. Sync!Between(s) => Sync!Between(s)'
    BY <1>2, <2>1 DEF Sync!Between, Sync!Writes, Sync!Job
  <2> QED
    BY <1>2, <1>3, <2>1, <2>2, <2>4, <2>5, OneSessionSteps
<1>4. CASE Sync!LosePublication(s, "staged") /\ publisher' = Sync!Nobody
  <2>1. since' \in [Sessions -> SUBSET {"card", "file", "emptied"}]
    BY <1>1, <1>2 DEF SyncTyped
  <2> QED
    BY <1>2, <1>4, <2>1, LossKeeps
<1> QED
  BY <1>3, <1>4 DEF Sync!Recheck

LEMMA ReplaceKeeps == ASSUME SyncInv, NEW s \in Sessions, Sync!Replace(s) PROVE SyncInv'
<1>1. SyncTyped /\ SessionInv(s) /\ Sync!UnfitIsKnown
  BY DEF SyncInv
<1>2. /\ UNCHANGED <<onCard, life, plans, publisher, done, known>> /\ Sync!Go(s, "checked", "published")
      /\ provenance' = plans[s].toRecords /\ Sync!Behind(Sync!Others(s), {"file"})
      /\ crossed' = (crossed \/ (/\ plans[s].kind # "detach" /\ "card" \in since[s]
                                 /\ ~\E t \in Sessions \ {s} : Sync!Between(t)))
  BY DEF Sync!Replace, Sync!Job, Sync!Writes, Sync!Others
<1>3. /\ syncPc[s] = "checked" /\ syncPc'[s] = "published"
      /\ syncPc' \in [Sessions -> Resting \cup Writing \cup {"publish"} \cup InPublication]
      /\ \A t \in Sessions \ {s} : syncPc'[t] = syncPc[t]
  BY <1>1, <1>2, GoFacts DEF InPublication
<1>4. /\ since' \in [Sessions -> SUBSET {"card", "file", "emptied"}]
      /\ \A t \in Sessions :
           since'[t] = IF t \in Sync!Others(s) /\ (syncPc[t] \in Sync!Looked \/ done[t])
                       THEN since[t] \cup {"file"} ELSE since[t]
  BY <1>1, <1>2, BehindFacts
<1>5. /\ plans[s] # Sync!NoPlan /\ life[s].state = "active" /\ ~done[s] /\ publisher = s
      /\ Sound(plans[s], Sync!Bound(plans[s].records))
  BY <1>1, <1>3 DEF SessionInv, HasPlan, Retains, KnowsFile, Resting, InPublication
<1>6. /\ plans[s].toRecords \in Provenances /\ Sync!Rebinds(plans[s].toRecords, plans[s].toCard)
      /\ plans[s].kind = "detach" =>
           \A c : Fits(Sync!Bound(plans[s].records), c) => Sync!Rebinds(plans[s].toRecords, c)
  BY <1>5, SoundFacts
<1>7. SyncTyped'
  BY <1>1, <1>2, <1>3, <1>4, <1>6 DEF SyncTyped
<1>8. since'[s] = since[s]
  BY <1>4 DEF Sync!Others
<1>9. SessionInv(s)'
  <2>1. HasPlan(s)' /\ Retains(s)'
    BY <1>1, <1>2, <1>3, <1>5 DEF SessionInv, HasPlan, Retains
  <2>2. KnowsCard(s)'
    BY <1>1, <1>2, <1>3, <1>8 DEF SessionInv, KnowsCard, Sync!Looked
  <2>3. KnowsFile(s)'
    BY <1>1, <1>2, <1>3, <1>5, <1>8 DEF SessionInv, KnowsFile
  <2> QED
    BY <2>1, <2>2, <2>3 DEF SessionInv
<1>10. ASSUME NEW t \in Sessions \ {s} PROVE SessionInv(t)'
  <2>1. SessionInv(t)
    BY DEF SyncInv
  <2>2. since[t] \subseteq since'[t] /\ ("emptied" \in since'[t] => "emptied" \in since[t])
    BY <1>4
  <2>3. syncPc[t] \in Sync!Looked \/ done[t] => "file" \in since'[t]
    BY <1>4 DEF Sync!Others
  <2>4. syncPc[t] \notin InPublication
    BY <1>5, <2>1 DEF SessionInv, KnowsFile
  <2> QED
    BY <1>2, <1>3, <2>1, <2>2, <2>3, <2>4, OthersKeep DEF InPublication
<1>11. Sync!UnfitIsKnown'
  <2>1. CASE \E t \in Sessions \ {s} : Sync!Between(t)
    <3>1. PICK t \in Sessions \ {s} : Sync!Between(t)
      BY <2>1
    <3>2. Sync!Between(t)'
      BY <1>2, <1>3, <3>1 DEF Sync!Between, Sync!Writes, Sync!Job
    <3> QED
      BY <3>2 DEF Sync!UnfitIsKnown
  <2>2. CASE known \/ crossed
    BY <1>2, <2>2 DEF Sync!UnfitIsKnown
  <2>3. CASE ~(\E t \in Sessions \ {s} : Sync!Between(t)) /\ plans[s].kind # "detach"
    <3>1. onCard = plans[s].toCard \/ "card" \in since[s]
      BY <1>1, <1>3, <2>3 DEF SessionInv, KnowsCard, Sync!Looked
    <3>2. CASE "card" \in since[s]
      BY <1>2, <2>3, <3>2 DEF Sync!UnfitIsKnown
    <3>3. CASE onCard = plans[s].toCard
      <4>1. provenance' = plans[s].toRecords /\ onCard' = plans[s].toCard
        BY <1>2, <3>3
      <4>2. Sync!Rebinds(provenance, onCard)'
        BY <1>6, <4>1 DEF Sync!Rebinds, Sync!Distinct
      <4> QED
        BY <4>2 DEF Sync!UnfitIsKnown
    <3> QED
      BY <3>1, <3>2, <3>3
  <2>4. CASE /\ ~(\E t \in Sessions \ {s} : Sync!Between(t)) /\ ~known /\ ~crossed
             /\ plans[s].kind = "detach"
    <3>1. ~Sync!Between(s)
      BY <2>4 DEF Sync!Between, Sync!Writes, Sync!Job
    <3>2. Sync!Rebinds(provenance, onCard)
      BY <1>1, <2>4, <3>1 DEF Sync!UnfitIsKnown
    <3>3. provenance = plans[s].records
      BY <1>1, <1>3, <2>4 DEF SessionInv, KnowsFile
    <3>4. Fits(Sync!Bound(plans[s].records), onCard)
      BY <3>2, <3>3, RebindsFits
    <3>5. Sync!Rebinds(plans[s].toRecords, onCard)
      BY <1>6, <2>4, <3>4
    <3>6. Sync!Rebinds(provenance, onCard)'
      BY <1>2, <3>5 DEF Sync!Rebinds, Sync!Distinct
    <3> QED
      BY <3>6 DEF Sync!UnfitIsKnown
  <2> QED
    BY <2>1, <2>2, <2>3, <2>4
<1> QED
  BY <1>7, <1>9, <1>10, <1>11 DEF SyncInv

LEMMA ConfirmKeeps == ASSUME SyncInv, NEW s \in Sessions, Sync!Confirm(s) PROVE SyncInv'
<1>1. SyncTyped /\ SessionInv(s)
  BY DEF SyncInv
<1>2. publisher' = Sync!Nobody /\ UNCHANGED <<onCard, provenance, plans, since, crossed>>
  BY DEF Sync!Confirm
<1>3. CASE /\ provenance = plans[s].toRecords /\ Sync!Advance(s) /\ Sync!Go(s, "published", "rest")
           /\ done' = [done EXCEPT ![s] = TRUE] /\ known' = known
  <2>1. /\ syncPc[s] = "published" /\ syncPc'[s] = "rest"
        /\ syncPc' \in [Sessions -> Resting \cup Writing \cup {"publish"} \cup InPublication]
        /\ \A t \in Sessions \ {s} : syncPc'[t] = syncPc[t]
    BY <1>1, <1>3, GoFacts DEF Resting
  <2>2. /\ plans[s] # Sync!NoPlan /\ life[s].state = "active" /\ publisher = s
        /\ Sound(plans[s], Sync!Bound(plans[s].records))
    BY <1>1, <2>1 DEF SessionInv, HasPlan, KnowsFile, Resting, InPublication
  <2>3. /\ plans[s].toCard \in Cards /\ plans[s].toRecords \in Provenances
        /\ Sync!Rebinds(plans[s].toRecords, plans[s].toCard)
    BY <2>2, SoundFacts
  <2>4. /\ life' \in [Sessions -> Lives] /\ \A t \in Sessions \ {s} : life'[t] = life[t]
        /\ life'[s].state = "active" /\ life'[s].card = plans[s].toCard
        /\ life'[s].records = plans[s].toRecords
    <3> DEFINE half == [life EXCEPT ![s].card = plans[s].toCard]
    <3>1. life[s] \in Lives /\ DOMAIN life = Sessions
      BY <1>1 DEF SyncTyped
    <3>2. DOMAIN half = Sessions /\ \A t \in Sessions \ {s} : half[t] = life[t]
      BY <3>1
    <3>3. half[s] = [state |-> "active", card |-> plans[s].toCard, records |-> life[s].records]
      <4>1. half[s] = [life[s] EXCEPT !.card = plans[s].toCard]
        BY <3>1
      <4> QED
        BY <2>2, <3>1, <4>1 DEF Lives
    <3>4. life' = [half EXCEPT ![s].records = plans[s].toRecords]
      <4>1. life' = [life EXCEPT ![s].card = plans[s].toCard, ![s].records = plans[s].toRecords]
        BY <1>3 DEF Sync!Advance, Sync!Job
      <4> QED
        BY <4>1, Zenon
    <3> HIDE DEF half
    <3>5. life'[s] = [half[s] EXCEPT !.records = plans[s].toRecords]
      BY <3>2, <3>4
    <3>6. life'[s] = [state |-> "active", card |-> plans[s].toCard, records |-> plans[s].toRecords]
      BY <3>3, <3>5
    <3>7. life'[s] \in Lives
      BY <2>3, <3>6 DEF Lives
    <3>8. \A t \in Sessions \ {s} : life'[t] = life[t]
      BY <3>2, <3>4
    <3>9. life' = [t \in Sessions |-> life'[t]]
      BY <3>2, <3>4
    <3>10. \A t \in Sessions : life'[t] \in Lives
      BY <1>1, <3>7, <3>8 DEF SyncTyped
    <3> QED
      BY <3>6, <3>8, <3>9, <3>10
  <2>5. done' \in [Sessions -> BOOLEAN] /\ \A t \in Sessions \ {s} : done'[t] = done[t]
    BY <1>1, <1>3 DEF SyncTyped
  <2>6. SyncTyped'
    BY <1>1, <1>2, <2>1, <2>4, <2>5 DEF SyncTyped
  <2>7. HasPlan(s)'
    BY <1>1, <1>2, <2>1, <2>2 DEF SessionInv, HasPlan, Resting
  <2>8. Retains(s)'
    <3>1. Fits(Sync!Bound(plans[s].toRecords), plans[s].toCard)
      BY <2>3, RebindsFits
    <3> QED
      BY <1>2, <2>1, <2>4, <3>1 DEF Retains, Fits, Sync!Bound, Sync!Distinct
  <2>9. KnowsCard(s)'
    BY <1>1, <1>2, <2>1 DEF SessionInv, KnowsCard, Sync!Looked
  <2>10. KnowsFile(s)'
    BY <1>1, <1>2, <1>3, <2>1 DEF SessionInv, KnowsFile, InPublication
  <2>11. ~Sync!Between(s)
    BY <2>1 DEF Sync!Between
  <2> QED
    BY <1>2, <1>3, <2>1, <2>2, <2>4, <2>5, <2>6, <2>7, <2>8, <2>9, <2>10, <2>11, OneSessionSteps
       DEF SessionInv
<1>4. CASE Sync!LosePublication(s, "published") /\ UNCHANGED life
  <2>1. since' \in [Sessions -> SUBSET {"card", "file", "emptied"}]
    BY <1>1, <1>2 DEF SyncTyped
  <2> QED
    BY <1>2, <1>4, <2>1, LossKeeps
<1> QED
  BY <1>3, <1>4 DEF Sync!Confirm, Sync!Durable, Sync!Job

\* --------------------------------------------------------------- what others do
LEMMA CrashKeeps == ASSUME SyncInv, NEW s \in Sessions, Sync!Crash(s) PROVE SyncInv'
<1>1. SyncTyped /\ SessionInv(s)
  BY DEF SyncInv
<1>2. /\ life' = [life EXCEPT ![s] = Sync!Fresh] /\ plans' = [plans EXCEPT ![s] = Sync!NoPlan]
      /\ syncPc' = [syncPc EXCEPT ![s] = "rest"] /\ Sync!Begin(s) /\ known'
      /\ publisher' = (IF publisher = s THEN Sync!Nobody ELSE publisher)
      /\ UNCHANGED <<onCard, provenance, crossed>>
  BY DEF Sync!Crash, Sync!Account
<1>3. /\ since' \in [Sessions -> SUBSET {"card", "file", "emptied"}]
      /\ done' \in [Sessions -> BOOLEAN] /\ since'[s] = {} /\ ~done'[s]
      /\ \A t \in Sessions \ {s} : since'[t] = since[t] /\ done'[t] = done[t]
  BY <1>1, <1>2, BeginFacts
<1>4. <<>> \in Cards
  BY SyncAssumption DEF Cards
<1>5. /\ life' \in [Sessions -> Lives] /\ life'[s].state = "idle" /\ DOMAIN plans' = Sessions
      /\ plans'[s] = Sync!NoPlan
      /\ \A t \in Sessions \ {s} : life'[t] = life[t] /\ plans'[t] = plans[t]
  BY <1>1, <1>2, <1>4 DEF SyncTyped, Lives, Provenances, Sync!Fresh
<1>6. /\ syncPc'[s] = "rest" /\ \A t \in Sessions \ {s} : syncPc'[t] = syncPc[t]
      /\ syncPc' \in [Sessions -> Resting \cup Writing \cup {"publish"} \cup InPublication]
  BY <1>1, <1>2 DEF SyncTyped, Resting
<1>7. SyncTyped'
  BY <1>1, <1>2, <1>3, <1>5, <1>6 DEF SyncTyped
<1>8. SessionInv(s)'
  BY <1>3, <1>5, <1>6
     DEF SessionInv, HasPlan, Retains, KnowsCard, KnowsFile, Resting, InPublication, Sync!Looked
<1> QED
  BY <1>2, <1>3, <1>5, <1>6, <1>7, <1>8, OneSessionSteps

LEMMA EditKeeps == ASSUME SyncInv, Sync!Edit PROVE SyncInv'
<1>1. SyncTyped
  BY DEF SyncInv
<1>2. /\ UNCHANGED <<provenance, life, plans, syncPc, publisher, done, crossed>>
      /\ Sync!Behind(Sessions, {"card"}) /\ known'
  BY DEF Sync!Edit, Sync!Account
<1>3. PICK i \in DOMAIN onCard, f \in Sync!Fields :
        onCard' = [onCard EXCEPT ![i][f] = IF onCard[i][f] = "a" THEN "b" ELSE "a"]
  BY DEF Sync!Edit
<1>4. onCard' \in Cards
  <2> DEFINE value == IF onCard[i][f] = "a" THEN "b" ELSE "a"
  <2>1. onCard \in Seq(Sync!Bytes) /\ Len(onCard) <= MaxRecords /\ onCard[i] \in Sync!Bytes
    BY <1>1 DEF SyncTyped, Cards
  <2>2. value \in Sync!Values
    BY DEF Sync!Values
  <2> HIDE DEF value
  <2> DEFINE bytes == [onCard[i] EXCEPT ![f] = value]
  <2>3. bytes \in Sync!Bytes
    BY <2>1, <2>2 DEF Sync!Bytes
  <2>4. onCard' = [onCard EXCEPT ![i] = bytes]
    BY <1>3 DEF value
  <2> HIDE DEF bytes
  <2> QED
    BY <2>1, <2>3, <2>4 DEF Cards
<1>5. /\ since' \in [Sessions -> SUBSET {"card", "file", "emptied"}]
      /\ \A t \in Sessions :
           since'[t] = IF t \in Sessions /\ (syncPc[t] \in Sync!Looked \/ done[t])
                       THEN since[t] \cup {"card"} ELSE since[t]
  BY <1>1, <1>2, BehindFacts
<1>6. SyncTyped'
  BY <1>1, <1>2, <1>4, <1>5 DEF SyncTyped
<1>7. ASSUME NEW t \in Sessions PROVE SessionInv(t)'
  <2>1. SessionInv(t)
    BY DEF SyncInv
  <2>2. since[t] \subseteq since'[t] /\ (syncPc[t] \in Sync!Looked \/ done[t] => "card" \in since'[t])
    BY <1>5
  <2> QED
    BY <1>2, <2>1, <2>2, OthersKeep
<1> QED
  BY <1>2, <1>6, <1>7 DEF SyncInv, Sync!UnfitIsKnown

LEMMA RemoveFileKeeps == ASSUME SyncInv, Sync!RemoveFile PROVE SyncInv'
<1>1. SyncTyped
  BY DEF SyncInv
<1>2. /\ UNCHANGED <<onCard, life, plans, syncPc, publisher, done, crossed>>
      /\ provenance' = Sync!None /\ Sync!Behind(Sessions, {"file", "emptied"}) /\ known'
  BY DEF Sync!RemoveFile, Sync!Account
<1>3. /\ since' \in [Sessions -> SUBSET {"card", "file", "emptied"}]
      /\ \A t \in Sessions :
           since'[t] = IF t \in Sessions /\ (syncPc[t] \in Sync!Looked \/ done[t])
                       THEN since[t] \cup {"file", "emptied"} ELSE since[t]
  BY <1>1, <1>2, BehindFacts
<1>4. SyncTyped'
  BY <1>1, <1>2, <1>3 DEF SyncTyped, Provenances
<1>5. ASSUME NEW t \in Sessions PROVE SessionInv(t)'
  <2>1. SessionInv(t)
    BY DEF SyncInv
  <2>2. /\ since[t] \subseteq since'[t]
        /\ syncPc[t] \in Sync!Looked \/ done[t] => "file" \in since'[t] /\ "emptied" \in since'[t]
    BY <1>3
  <2>3. syncPc[t] \in {"staged", "checked", "published"} => syncPc[t] \in Sync!Looked
    BY DEF Sync!Looked
  <2> QED
    BY <1>2, <2>1, <2>2, <2>3, OthersKeep
<1> QED
  BY <1>2, <1>4, <1>5 DEF SyncInv, Sync!UnfitIsKnown

LEMMA SyncStutters == ASSUME SyncInv, UNCHANGED syncVars PROVE SyncInv'
<1>1. UNCHANGED <<onCard, provenance, life, plans, syncPc, publisher, done, since, known, crossed>>
  BY DEF syncVars
<1>2. SyncTyped'
  BY <1>1 DEF SyncInv, SyncTyped
<1>3. ASSUME NEW t \in Sessions PROVE SessionInv(t)'
  BY <1>1, OthersKeep DEF SyncInv
<1>4. Sync!UnfitIsKnown'
  <2>1. \A t \in Sessions : Sync!Between(t) => Sync!Between(t)'
    BY <1>1 DEF Sync!Between, Sync!Writes, Sync!Job
  <2> QED
    BY <1>1, <2>1, UnfitStays DEF SyncInv
<1> QED
  BY <1>2, <1>3, <1>4 DEF SyncInv

\* Every step keeps the invariant, and the invariant says what the runs check.
LEMMA SyncKeeps == ASSUME SyncInv, Sync!Next PROVE SyncInv'
<1>1. ASSUME NEW s \in Sessions, Sync!Step(s) PROVE SyncInv'
  BY <1>1, StartReadKeeps, StartLoadKeeps, ReopenKeeps, SelectKeeps, AdmitKeeps, LoadKeeps,
     ExecuteKeeps, RereadKeeps, CompareKeeps, RecheckKeeps, ReplaceKeeps, ConfirmKeeps, CrashKeeps
     DEF Sync!Step
<1> QED
  BY <1>1, EditKeeps, RemoveFileKeeps DEF Sync!Next

LEMMA CardsTyped ==
  ASSUME NEW card \in Cards
  PROVE  card \in {<<>>} \cup UNION {[1 .. n -> Sync!Bytes] : n \in 1 .. MaxRecords}
<1>1. card \in Seq(Sync!Bytes) /\ Len(card) \in Nat /\ Len(card) <= MaxRecords
        /\ card \in [1 .. Len(card) -> Sync!Bytes]
  BY DEF Cards
<1>2. CASE Len(card) = 0
  BY <1>1, <1>2
<1>3. CASE Len(card) # 0
  <2>1. Len(card) \in 1 .. MaxRecords
    BY <1>1, <1>3, SyncAssumption
  <2> QED
    BY <1>1, <2>1
<1> QED
  BY <1>2, <1>3

LEMMA SyncInvTrue == ASSUME SyncInv PROVE SyncTrue
<1>1. SyncTyped /\ \A s \in Sessions : SessionInv(s)
  BY DEF SyncInv
<1>2. Sync!TypeOK
  <2>1. Len(onCard) <= MaxRecords /\ Sync!Bound(provenance) \in SUBSET Sync!State
    BY <1>1, BoundFacts DEF SyncTyped, Cards
  <2>2. life \in [Sessions -> [state : {"idle", "active", "failed"},
                               card : {<<>>} \cup UNION {[1 .. n -> Sync!Bytes] : n \in 1 .. MaxRecords},
                               records : {Sync!None} \cup SUBSET Sync!State]]
    <3> DEFINE All == {<<>>} \cup UNION {[1 .. n -> Sync!Bytes] : n \in 1 .. MaxRecords}
    <3>1. Cards \subseteq All
      BY CardsTyped
    <3> HIDE DEF All
    <3>2. life \in [Sessions -> Lives]
      BY <1>1 DEF SyncTyped
    <3>3. Lives \subseteq [state : {"idle", "active", "failed"}, card : All, records : Provenances]
      BY <3>1 DEF Lives
    <3>4. life \in [Sessions -> [state : {"idle", "active", "failed"}, card : All, records : Provenances]]
      BY <3>2, <3>3
    <3> QED
      BY <3>4 DEF All, Provenances
  <2> QED
    BY <1>1, <2>1, <2>2 DEF Sync!TypeOK, SyncTyped
<1>3. Sync!RetainedFits
  <2> SUFFICES ASSUME NEW s \in Sessions
               PROVE  /\ life[s].state = "active" => Sync!Rebinds(life[s].records, life[s].card)
                      /\ plans[s] # Sync!NoPlan =>
                           /\ Sync!Rebinds(plans[s].toRecords, plans[s].toCard)
                           /\ Sync!LeavesLocalAlone(plans[s])
    BY DEF Sync!RetainedFits, Sync!Job
  <2>1. life[s].state = "active" => Sync!Rebinds(life[s].records, life[s].card)
    BY <1>1, RebindsFits DEF SessionInv, Retains
  <2>2. ASSUME plans[s] # Sync!NoPlan
        PROVE  Sync!Rebinds(plans[s].toRecords, plans[s].toCard) /\ Sync!LeavesLocalAlone(plans[s])
    <3>1. Sound(plans[s], Sync!Bound(plans[s].records))
      BY <1>1, <2>2 DEF SessionInv, HasPlan
    <3>2. Sync!Rebinds(plans[s].toRecords, plans[s].toCard)
      BY <3>1, SoundFacts
    <3>3. \A r \in Sync!Bound(plans[s].records) : Leaves(r, plans[s].toRecords, plans[s].kind)
      BY <3>1 DEF Sound
    <3>4. Sync!LeavesLocalAlone(plans[s])
      BY <3>3 DEF Sync!LeavesLocalAlone, Sync!Same, Leaves
    <3> QED
      BY <3>2, <3>4
  <2> QED
    BY <2>1, <2>2
<1>4. Sync!DoneTrue
  BY <1>1 DEF Sync!DoneTrue, Sync!Job, Sync!Writes, SessionInv, Retains, KnowsCard, KnowsFile
<1> QED
  BY <1>2, <1>3, <1>4 DEF SyncTrue, SyncInv

\* A publication replaces what its plan was made from.
LEMMA NoUpdateLost ==
  ASSUME SyncInv, NEW s \in Sessions, syncPc[s] = "checked"
  PROVE  provenance = plans[s].records \/ "emptied" \in since[s]
BY DEF SyncInv, SessionInv, KnowsFile

\* Only a publication and a removal of the file change the file.
LEMMA LocalStays ==
  ASSUME SyncInv, Sync!Next, NEW r \in Sync!Bound(provenance), provenance' # Sync!None
  PROVE  Keeps(r, Sync!Bound(provenance)')
<1>1. CASE provenance' = provenance
  <2>1. Sync!Bound(provenance)' = Sync!Bound(provenance)
    BY <1>1 DEF Sync!Bound
  <2> QED
    BY <2>1 DEF Keeps
<1>2. CASE provenance' # provenance
  <2>1. PICK s \in Sessions : Sync!Replace(s)
    BY <1>2 DEF Sync!Next, Sync!Step, Sync!StartRead, Sync!StartLoad, Sync!Reopen, Sync!Select,
                Sync!Admit, Sync!Load, Sync!Execute, Sync!Reread, Sync!Compare, Sync!Recheck,
                Sync!Confirm, Sync!Crash, Sync!Edit, Sync!RemoveFile
  <2>2. syncPc[s] = "checked" /\ provenance' = plans[s].toRecords
    BY <2>1 DEF Sync!Replace, Sync!Go, Sync!Job
  <2>3. SessionInv(s)
    BY DEF SyncInv
  <2>4. plans[s] # Sync!NoPlan /\ Sound(plans[s], Sync!Bound(plans[s].records))
    BY <2>2, <2>3 DEF SessionInv, HasPlan, Resting
  <2>5. provenance = plans[s].records
    <3>1. provenance # Sync!None
      BY DEF Sync!Bound
    <3> QED
      BY <2>2, <2>3, <3>1 DEF SessionInv, KnowsFile
  <2>6. Keeps(r, plans[s].toRecords)
    BY <2>4, <2>5 DEF Sound
  <2>7. Sync!Bound(provenance)' = plans[s].toRecords
    BY <2>2 DEF Sync!Bound
  <2> QED
    BY <2>6, <2>7
<1> QED
  BY <1>1, <1>2

(***************************************************************************)
(* The daemon's recordings (RecordingManager).  While the sink has a       *)
(* worker, its WAV is the one that is open and no other is; and the worker *)
(* is gone before the manager lets go of the recording, so that none is    *)
(* there when the next one starts.                                         *)
(***************************************************************************)
RecordingFiles == [wav : {"none", "open", "cut", "final"}, chunks : Nat, sidecar : Nat]

RecordingInv ==
  /\ files \in [Recording!Names -> RecordingFiles]
  /\ \A n \in Recording!Names : files[n].wav = "open" => n = path /\ thread # "none"
  /\ thread # "none" => path \in Recording!Names /\ files[path].wav = "open"
  /\ operation = "start" =>
       /\ held = 0 /\ (recStep \in {"path", "create"} => thread = "none")
       /\ recStep \in {"create", "publish"} => path \in Recording!Names
  /\ operation = "none" /\ held = 0 => thread = "none"
  /\ operation = "stop" =>
       /\ held = 0 \/ recStep \in {"sidecar", "unlinkTemporary"} => thread = "none"
       /\ recStep = "settle" /\ ~recFailure => thread = "none"

\* One step keeps the invariant and writes only what is open.
RecordingStep ==
  /\ RecordingInv'
  /\ attached' /\ ~attached => thread = "none" /\ \A n \in Recording!Names : files[n].wav # "open"
  /\ \A n \in Recording!Names : files[n].wav = "final" =>
       files'[n].wav = "final" /\ files'[n].chunks = files[n].chunks

LEMMA RecordingStarts == ASSUME Recording!Init PROVE RecordingInv
BY DEF Recording!Init, RecordingInv, RecordingFiles, Recording!NoFile, Recording!Nothing

\* A step that touches no file.
LEMMA FilesUntouched ==
  ASSUME RecordingInv, files' = files, RecordingInv', attached' => attached
  PROVE  RecordingStep
BY DEF RecordingStep

LEMMA StartingKeeps == ASSUME RecordingInv, Recording!Starting PROVE RecordingStep
<1> USE DEF Recording!At, Recording!Fails
<1>1. CASE Recording!StartBegin
  <2>1. RecordingInv'
    BY <1>1 DEF Recording!StartBegin, Recording!fileVars, RecordingInv
  <2> QED
    BY <1>1, <2>1, FilesUntouched DEF Recording!StartBegin, Recording!fileVars
<1>2. CASE Recording!IdentityFails
  <2>1. RecordingInv'
    BY <1>2 DEF Recording!IdentityFails, Recording!Return, Recording!fileVars, Recording!sinkVars,
                Recording!stateVars, RecordingInv
  <2> QED
    BY <1>2, <2>1, FilesUntouched DEF Recording!IdentityFails, Recording!fileVars, Recording!sinkVars
<1>3. CASE Recording!ChoosePath
  <2>1. RecordingInv'
    BY <1>3 DEF Recording!ChoosePath, Recording!fileVars, Recording!sinkVars, Recording!stateVars, RecordingInv
  <2> QED
    BY <1>3, <2>1, FilesUntouched DEF Recording!ChoosePath, Recording!fileVars, Recording!sinkVars
<1>4. CASE Recording!NoPath
  <2>1. RecordingInv'
    BY <1>4 DEF Recording!NoPath, Recording!StartFails, Recording!Return, Recording!sinkVars, RecordingInv
  <2> QED
    BY <1>4, <2>1, FilesUntouched DEF Recording!NoPath, Recording!sinkVars
<1>5. CASE Recording!Attach
  <2>1. /\ operation = "start" /\ recStep = "create" /\ files[path].wav = "none"
        /\ files' = [files EXCEPT ![path] = [wav |-> "open", chunks |-> 0, sidecar |-> Recording!Nothing]]
        /\ thread' = "running" /\ attached' /\ recStep' = "publish"
        /\ UNCHANGED <<operation, recFailure, path, held>>
    BY <1>5 DEF Recording!Attach, Recording!Go, Recording!stateVars
  <2>2. path \in Recording!Names /\ thread = "none" /\ held = 0 /\ files \in [Recording!Names -> RecordingFiles]
          /\ \A n \in Recording!Names : files[n].wav # "open"
    BY <2>1 DEF RecordingInv
  <2>3. /\ files' \in [Recording!Names -> RecordingFiles] /\ files'[path].wav = "open"
        /\ \A n \in Recording!Names : n # path => files'[n] = files[n]
    BY <2>1, <2>2 DEF RecordingFiles, Recording!Nothing
  <2> QED
    BY <2>1, <2>2, <2>3 DEF RecordingStep, RecordingInv
<1>6. CASE Recording!AttachFails
  <2>1. /\ operation = "start" /\ recStep = "create" /\ operation' = "none"
        /\ files' = files \/ files' = [files EXCEPT ![path].wav = "final"]
        /\ UNCHANGED <<thread, attached, held, path>>
    BY <1>6 DEF Recording!AttachFails, Recording!StartFails, Recording!Return, Recording!sinkVars
  <2>2. path \in Recording!Names /\ thread = "none" /\ held = 0 /\ files \in [Recording!Names -> RecordingFiles]
          /\ \A n \in Recording!Names : files[n].wav # "open"
    BY <2>1 DEF RecordingInv
  <2>3. /\ files' \in [Recording!Names -> RecordingFiles]
        /\ files'[path].wav \in {files[path].wav, "final"} /\ files'[path].chunks = files[path].chunks
        /\ \A n \in Recording!Names : n # path => files'[n] = files[n]
    BY <2>1, <2>2 DEF RecordingFiles
  <2> QED
    BY <2>1, <2>2, <2>3 DEF RecordingStep, RecordingInv
<1>7. CASE Recording!Publish
  <2>1. RecordingInv'
    BY <1>7 DEF Recording!Publish, Recording!Return, Recording!fileVars, Recording!sinkVars,
                Recording!Names, RecordingInv
  <2> QED
    BY <1>7, <2>1, FilesUntouched DEF Recording!Publish, Recording!fileVars, Recording!sinkVars
<1> QED
  BY <1>1, <1>2, <1>3, <1>4, <1>5, <1>6, <1>7 DEF Recording!Starting

LEMMA SinkKeeps == ASSUME RecordingInv, Recording!Submit \/ Recording!Worker PROVE RecordingStep
<1> USE DEF Recording!Fails, Recording!fileVars, Recording!jobVars, Recording!stateVars
<1>1. CASE Recording!Submit
  <2>1. RecordingInv'
    BY <1>1 DEF Recording!Submit, RecordingInv
  <2> QED
    BY <1>1, <2>1, FilesUntouched DEF Recording!Submit
<1>2. CASE Recording!WorkerTakes
  <2>1. RecordingInv'
    BY <1>2 DEF Recording!WorkerTakes, RecordingInv
  <2> QED
    BY <1>2, <2>1, FilesUntouched DEF Recording!WorkerTakes
<1>3. CASE Recording!WorkerWrites
  <2>1. /\ thread = "writing" /\ thread' = "running" /\ files' = [files EXCEPT ![path].chunks = @ + 1]
        /\ UNCHANGED <<attached, operation, recStep, recFailure, path, held>>
    BY <1>3 DEF Recording!WorkerWrites
  <2>2. path \in Recording!Names /\ files[path].wav = "open" /\ files \in [Recording!Names -> RecordingFiles]
    BY <2>1 DEF RecordingInv
  <2>3. /\ files' \in [Recording!Names -> RecordingFiles] /\ files'[path].wav = "open"
        /\ \A n \in Recording!Names : n # path => files'[n] = files[n]
    BY <2>1, <2>2 DEF RecordingFiles
  <2>4. RecordingInv'
    BY <2>1, <2>2, <2>3 DEF RecordingInv
  <2> QED
    BY <2>1, <2>2, <2>3, <2>4 DEF RecordingStep
<1>4. CASE Recording!WorkerFails
  <2>1. RecordingInv'
    BY <1>4 DEF Recording!WorkerFails, RecordingInv
  <2> QED
    BY <1>4, <2>1, FilesUntouched DEF Recording!WorkerFails
<1>5. CASE Recording!WorkerEnds
  <2>1. RecordingInv'
    BY <1>5 DEF Recording!WorkerEnds, RecordingInv
  <2> QED
    BY <1>5, <2>1, FilesUntouched DEF Recording!WorkerEnds
<1> QED
  BY <1>1, <1>2, <1>3, <1>4, <1>5 DEF Recording!Worker

LEMMA StoppingKeeps == ASSUME RecordingInv, Recording!Stopping PROVE RecordingStep
<1> USE DEF Recording!At, Recording!Fails, Recording!fileVars, Recording!sinkVars, Recording!jobVars,
            Recording!stateVars
<1>1. ASSUME NEW byClose \in BOOLEAN, Recording!StopBegin(byClose) PROVE RecordingStep
  <2>1. RecordingInv'
    BY <1>1 DEF Recording!StopBegin, RecordingInv
  <2> QED
    BY <1>1, <2>1, FilesUntouched DEF Recording!StopBegin
<1>2. CASE Recording!CloseIdle
  <2>1. RecordingInv'
    BY <1>2 DEF Recording!CloseIdle, RecordingInv
  <2> QED
    BY <1>2, <2>1, FilesUntouched DEF Recording!CloseIdle
<1>3. CASE Recording!Detach
  <2>1. RecordingInv'
    BY <1>3 DEF Recording!Detach, Recording!Go, RecordingInv
  <2> QED
    BY <1>3, <2>1, FilesUntouched DEF Recording!Detach
<1>4. CASE Recording!JoinTimesOut
  <2>1. RecordingInv'
    BY <1>4 DEF Recording!JoinTimesOut, Recording!Fail, RecordingInv
  <2> QED
    BY <1>4, <2>1, FilesUntouched DEF Recording!JoinTimesOut
<1>5. CASE Recording!CloseWav \/ Recording!CloseWavFails
  <2>1. /\ operation = "stop" /\ thread = "ended" /\ thread' = "none"
        /\ \E wav \in {"cut", "final"} : files' = [files EXCEPT ![path].wav = wav]
        /\ UNCHANGED <<attached, operation, path, held>>
    BY <1>5 DEF Recording!CloseWav, Recording!CloseWavFails, Recording!Fail, Recording!Go
  <2>2. /\ path \in Recording!Names /\ files[path].wav = "open" /\ files \in [Recording!Names -> RecordingFiles]
        /\ \A n \in Recording!Names : n # path => files[n].wav # "open"
    BY <2>1 DEF RecordingInv
  <2>3. /\ files' \in [Recording!Names -> RecordingFiles] /\ files'[path].wav \in {"cut", "final"}
        /\ \A n \in Recording!Names : n # path => files'[n] = files[n]
    BY <2>1, <2>2 DEF RecordingFiles
  <2>4. RecordingInv'
    BY <2>1, <2>2, <2>3 DEF RecordingInv
  <2> QED
    BY <2>1, <2>2, <2>3, <2>4 DEF RecordingStep
<1>6. CASE Recording!LinkSidecar
  <2>1. /\ operation = "stop" /\ recStep = "sidecar" /\ recStep' = "unlinkTemporary"
        /\ files' = [files EXCEPT ![path].sidecar = files[path].chunks]
        /\ UNCHANGED <<thread, attached, operation, recFailure, path, held>>
    BY <1>6 DEF Recording!LinkSidecar, Recording!Go
  <2>2. thread = "none" /\ files \in [Recording!Names -> RecordingFiles]
          /\ \A n \in Recording!Names : files[n].wav # "open"
    BY <2>1 DEF RecordingInv
  <2>3. /\ files' \in [Recording!Names -> RecordingFiles]
        /\ \A n \in Recording!Names : files'[n].wav = files[n].wav /\ files'[n].chunks = files[n].chunks
    BY <2>1, <2>2 DEF RecordingFiles
  <2>4. RecordingInv'
    BY <2>1, <2>2, <2>3 DEF RecordingInv
  <2> QED
    BY <2>1, <2>3, <2>4 DEF RecordingStep
<1>7. CASE Recording!SidecarFails
  <2>1. RecordingInv'
    BY <1>7 DEF Recording!SidecarFails, Recording!Fail, RecordingInv
  <2> QED
    BY <1>7, <2>1, FilesUntouched DEF Recording!SidecarFails
<1>8. CASE Recording!UnlinkTemporary
  <2>1. RecordingInv'
    BY <1>8 DEF Recording!UnlinkTemporary, Recording!Go, RecordingInv
  <2> QED
    BY <1>8, <2>1, FilesUntouched DEF Recording!UnlinkTemporary
<1>9. CASE Recording!Settle
  <2>1. RecordingInv'
    BY <1>9 DEF Recording!Settle, Recording!Return, RecordingInv
  <2> QED
    BY <1>9, <2>1, FilesUntouched DEF Recording!Settle
<1> QED
  BY <1>1, <1>2, <1>3, <1>4, <1>5, <1>6, <1>7, <1>8, <1>9 DEF Recording!Stopping

LEMMA RecordingKeeps == ASSUME RecordingInv, Recording!Next PROVE RecordingStep
BY StartingKeeps, SinkKeeps, StoppingKeeps DEF Recording!Next

(***************************************************************************)
(* The deletion of old recordings (RecordingRetention).  What is about to  *)
(* be deleted is an entry of the inventory that the operator was shown,    *)
(* and the file is still the one that was validated, or another hand       *)
(* changed it after the look that this step rests on.                      *)
(***************************************************************************)
Stamped == [kind : {"gone", "good", "bad", "link"}, stamp : Nat, at : Nat]

\* The unit as it was validated is one that was shown.
WasShown(u) ==
  \E e \in UNION {p.inventory : p \in shown} :
    e.unit = u /\ e.stamps = <<expected.audio.stamp, expected.metadata.stamp>>

Undisturbed(u, part) == library[u][part] = expected[part] \/ <<u, part>> \in disturbed
NoSidecar(u) == library[u].metadata.kind = "gone" \/ <<u, "metadata">> \in disturbed

RetentionInv ==
  /\ library \in [Retention!Units -> [audio : Stamped, metadata : Stamped]] /\ retHands \in Nat
  /\ confirmed \subseteq shown /\ (phase = "preview" => confirmed = {})
  /\ \A p \in shown : p.selected \subseteq p.inventory
  /\ phase = "execute" /\ unit \in Retention!Chosen =>
       /\ retStep # "validate" => WasShown(unit)
       /\ retStep = "deleteSidecar" => Undisturbed(unit, "metadata")
       /\ retStep = "audio" => <<unit, "metadata">> \in removed \/ NoSidecar(unit)
       /\ retStep \in {"replaced", "deleteAudio"} => Undisturbed(unit, "audio")
       /\ retStep = "deleteAudio" => NoSidecar(unit)

RetentionStep ==
  /\ RetentionInv'
  /\ \A u \in Retention!Units, part \in Retention!Parts :
       <<u, part>> \in removed' \ removed =>
         \/ <<u, part>> \in disturbed
         \/ /\ u \in Retention!Chosen
            /\ \E e \in UNION {p.inventory : p \in shown} :
                 e.unit = u /\ library[u][part].stamp = e.stamps[IF part = "audio" THEN 1 ELSE 2]
            /\ part = "audio" /\ <<u, "metadata">> \notin disturbed => ~Retention!Exists(u, "metadata")

LEMMA GoneStamped == Retention!Gone \in Stamped
BY DEF Retention!Gone, Stamped

LEMMA RetentionStarts == ASSUME Retention!Init PROVE RetentionInv
<1>1. library \in [Retention!Units -> [audio : Stamped, metadata : Stamped]]
  <2>1. Retention!Kinds \subseteq [audio : Stamped, metadata : Stamped]
    BY GoneStamped DEF Retention!Kinds, Retention!File, Stamped
  <2> QED
    BY <2>1 DEF Retention!Init, Retention!Libraries
<1> QED
  BY <1>1 DEF Retention!Init, RetentionInv

\* A plan takes from the inventory it was made from.
LEMMA PlanTakes ==
  ASSUME NEW policy
  PROVE  Retention!Plan(policy).selected \subseteq Retention!Plan(policy).inventory
<1>1. Retention!Selected(Retention!Scan, policy) \subseteq Retention!Scan
  <2> DEFINE scan == Retention!Scan
  <2> HIDE DEF scan
  <2>1. Retention!Selected(scan, policy) \subseteq scan
    BY DEF Retention!Selected, Retention!AgedOut, Retention!UnitsOver, Retention!BytesOver,
           Retention!Selectable
  <2> QED
    BY <2>1 DEF scan
<1> QED
  BY <1>1 DEF Retention!Plan

\* The unit has had its turn.
LEMMA TurnOver ==
  ASSUME RetentionInv, retHands' = retHands, UNCHANGED <<library, shown, confirmed, removed>>,
         phase = "execute", Retention!Following
  PROVE  RetentionStep
<1>1. phase' \in {"over", "execute"} /\ (phase' = "execute" => retStep' = "validate")
  BY DEF Retention!Following
<1> QED
  BY <1>1 DEF RetentionInv, RetentionStep

LEMMA PlanningKeeps ==
  ASSUME RetentionInv, Retention!Preview \/ Retention!Confirm \/ Retention!RootFails \/ Retention!Rescan
  PROVE  RetentionStep
<1>1. CASE Retention!Preview
  <2>1. PICK policy \in Retention!Policies : shown' = {Retention!Plan(policy)}
    BY <1>1 DEF Retention!Preview
  <2>2. phase = "preview" /\ phase' = "confirm" /\ UNCHANGED <<library, confirmed, removed, retHands>>
    BY <1>1 DEF Retention!Preview
  <2>3. \A p \in shown' : p.selected \subseteq p.inventory
    BY <2>1, PlanTakes
  <2> QED
    BY <2>2, <2>3 DEF RetentionInv, RetentionStep
<1>2. CASE Retention!Confirm
  <2>1. /\ phase' \in {"rescan", "over"} /\ confirmed' \in {shown, confirmed}
        /\ UNCHANGED <<library, shown, removed, retHands>>
    BY <1>2 DEF Retention!Confirm
  <2> QED
    BY <2>1 DEF RetentionInv, RetentionStep
<1>3. CASE Retention!RootFails
  <2>1. phase' = "over" /\ UNCHANGED <<library, shown, confirmed, removed, retHands>>
    BY <1>3 DEF Retention!RootFails
  <2> QED
    BY <2>1 DEF RetentionInv, RetentionStep
<1>4. CASE Retention!Rescan
  <2>1. phase' = "execute" /\ retStep' = "validate" /\ UNCHANGED <<library, shown, confirmed, removed, retHands>>
    BY <1>4 DEF Retention!Rescan
  <2> QED
    BY <2>1 DEF RetentionInv, RetentionStep
<1> QED
  BY <1>1, <1>2, <1>3, <1>4

\* What is valid was shown.
LEMMA ValidWasShown ==
  ASSUME RetentionInv, unit \in Retention!Chosen, Retention!Valid
  PROVE  \E e \in UNION {p.inventory : p \in shown} :
           e.unit = unit /\ e.stamps = <<library[unit].audio.stamp, library[unit].metadata.stamp>>
<1>1. PICK p \in confirmed : \E e \in p.selected : e.unit = unit
  BY DEF Retention!Chosen
<1>2. \E f \in UNION {q.selected : q \in confirmed} : f.unit = unit
  BY <1>1
<1>3. Retention!Planned(unit) \in UNION {q.selected : q \in confirmed}
  BY <1>2 DEF Retention!Planned
<1>4. PICK q \in confirmed : Retention!Planned(unit) \in q.selected
  BY <1>3
<1>5. q \in shown /\ Retention!Planned(unit) \in q.inventory
  BY <1>4 DEF RetentionInv
<1>6. /\ Retention!Planned(unit).unit = unit
      /\ Retention!Planned(unit).stamps = <<library[unit].audio.stamp, library[unit].metadata.stamp>>
  BY DEF Retention!Valid, Retention!Entry
<1> QED
  BY <1>5, <1>6

LEMMA LookingKeeps ==
  ASSUME RetentionInv,
         \/ Retention!Validate \/ Retention!CheckSidecar \/ Retention!CheckNoSidecar
         \/ Retention!CheckAudio \/ Retention!CheckReplaced
  PROVE  RetentionStep
<1>1. /\ phase = "execute" /\ unit \in Retention!Chosen
      /\ UNCHANGED <<library, shown, confirmed, removed, retHands>>
  BY DEF Retention!Validate, Retention!CheckSidecar, Retention!CheckNoSidecar, Retention!CheckAudio,
         Retention!CheckReplaced, Retention!Doing
<1>2. ASSUME Retention!Following PROVE RetentionStep
  BY <1>1, <1>2, TurnOver
<1>3. Retention!Chosen' = Retention!Chosen
  BY <1>1 DEF Retention!Chosen
<1>4. ASSUME UNCHANGED <<phase, unit>>,
             /\ retStep' # "validate" => WasShown(unit)'
             /\ retStep' = "deleteSidecar" => Undisturbed(unit, "metadata")'
             /\ retStep' = "audio" => <<unit', "metadata">> \in removed' \/ NoSidecar(unit)'
             /\ retStep' \in {"replaced", "deleteAudio"} => Undisturbed(unit, "audio")'
             /\ retStep' = "deleteAudio" => NoSidecar(unit)'
      PROVE  RetentionStep
  BY <1>1, <1>4 DEF RetentionInv, RetentionStep
<1>5. CASE Retention!Validate
  <2>1. CASE Retention!Valid
    <3>1. /\ expected' = library[unit] /\ retStep' \in {"sidecar", "noSidecar"} /\ UNCHANGED <<phase, unit>>
      BY <1>5, <2>1 DEF Retention!Validate, Retention!GoOn
    <3>2. WasShown(unit)'
      BY <1>1, <2>1, <3>1, ValidWasShown DEF WasShown
    <3> QED
      BY <1>4, <3>1, <3>2
  <2>2. CASE ~Retention!Valid
    BY <1>2, <1>5, <2>2 DEF Retention!Validate, Retention!Told
  <2> QED
    BY <2>1, <2>2
<1>6. ASSUME retStep # "validate", expected' = expected, unit' = unit PROVE WasShown(unit)'
  BY <1>1, <1>6 DEF RetentionInv, WasShown
<1>7. CASE Retention!CheckSidecar
  <2>1. CASE Retention!Current("metadata")
    <3>1. /\ retStep = "sidecar" /\ retStep' = "deleteSidecar" /\ UNCHANGED <<phase, unit, expected>>
      BY <1>7, <2>1 DEF Retention!CheckSidecar, Retention!GoOn, Retention!Doing
    <3>2. Undisturbed(unit, "metadata")'
      BY <1>1, <2>1, <3>1 DEF Undisturbed, Retention!Current
    <3> QED
      BY <1>4, <1>6, <3>1, <3>2
  <2>2. CASE ~Retention!Current("metadata")
    BY <1>2, <1>7, <2>2 DEF Retention!CheckSidecar, Retention!Told
  <2> QED
    BY <2>1, <2>2
<1>8. CASE Retention!CheckNoSidecar
  <2>1. CASE ~Retention!Exists(unit, "metadata")
    <3>1. /\ retStep = "noSidecar" /\ retStep' = "audio" /\ UNCHANGED <<phase, unit, expected>>
      BY <1>8, <2>1 DEF Retention!CheckNoSidecar, Retention!GoOn, Retention!Doing
    <3>2. NoSidecar(unit)'
      BY <1>1, <2>1, <3>1 DEF NoSidecar, Retention!Exists
    <3> QED
      BY <1>4, <1>6, <3>1, <3>2
  <2>2. CASE Retention!Exists(unit, "metadata")
    BY <1>2, <1>8, <2>2 DEF Retention!CheckNoSidecar, Retention!Told
  <2> QED
    BY <2>1, <2>2
<1>9. CASE Retention!CheckAudio
  <2>1. CASE Retention!Current("audio")
    <3>1. /\ retStep = "audio" /\ UNCHANGED <<phase, unit, expected>>
          /\ disturbed' = disturbed \ {<<unit, part>> : part \in {"audio"}}
          /\ retStep' = (IF <<unit, "metadata">> \in removed THEN "replaced" ELSE "deleteAudio")
      BY <1>9, <2>1 DEF Retention!CheckAudio, Retention!GoOn, Retention!Doing, Retention!Looked
    <3>2. Undisturbed(unit, "audio")'
      BY <1>1, <2>1, <3>1 DEF Undisturbed, Retention!Current
    <3>3. <<unit, "metadata">> \notin removed => NoSidecar(unit)'
      <4>1. <<unit, "metadata">> \notin removed => NoSidecar(unit)
        BY <1>1, <3>1 DEF RetentionInv
      <4>2. <<unit, "metadata">> \in disturbed => <<unit, "metadata">> \in disturbed'
        BY <3>1
      <4> QED
        BY <1>1, <3>1, <4>1, <4>2 DEF NoSidecar
    <3> QED
      BY <1>4, <1>6, <3>1, <3>2, <3>3
  <2>2. CASE ~Retention!Current("audio")
    BY <1>2, <1>9, <2>2 DEF Retention!CheckAudio, Retention!Told
  <2> QED
    BY <2>1, <2>2
<1>10. CASE Retention!CheckReplaced
  <2>1. CASE ~Retention!Exists(unit, "metadata")
    <3>1. /\ retStep = "replaced" /\ retStep' = "deleteAudio" /\ UNCHANGED <<phase, unit, expected>>
          /\ disturbed' = disturbed \ {<<unit, part>> : part \in {"metadata"}}
      BY <1>10, <2>1 DEF Retention!CheckReplaced, Retention!GoOn, Retention!Doing, Retention!Looked
    <3>2. NoSidecar(unit)'
      BY <1>1, <2>1, <3>1 DEF NoSidecar, Retention!Exists
    <3>3. Undisturbed(unit, "audio")'
      <4>1. Undisturbed(unit, "audio")
        BY <1>1, <3>1 DEF RetentionInv
      <4>2. <<unit, "audio">> \in disturbed => <<unit, "audio">> \in disturbed'
        BY <3>1
      <4> QED
        BY <1>1, <3>1, <4>1, <4>2 DEF Undisturbed
    <3> QED
      BY <1>4, <1>6, <3>1, <3>2, <3>3
  <2>2. CASE Retention!Exists(unit, "metadata")
    BY <1>2, <1>10, <2>2 DEF Retention!CheckReplaced, Retention!Told
  <2> QED
    BY <2>1, <2>2
<1> QED
  BY <1>5, <1>7, <1>8, <1>9, <1>10

\* A file that is taken away.
LEMMA UnlinkFacts ==
  ASSUME RetentionInv, NEW part \in Retention!Parts, Retention!Unlink(part)
  PROVE  library' \in [Retention!Units -> [audio : Stamped, metadata : Stamped]]
<1>1. library' = [library EXCEPT ![unit][part] = Retention!Gone]
  BY DEF Retention!Unlink
<1>2. library \in [Retention!Units -> [audio : Stamped, metadata : Stamped]]
  BY DEF RetentionInv
<1>3. \A u \in Retention!Units :
        [library[u] EXCEPT ![part] = Retention!Gone] \in [audio : Stamped, metadata : Stamped]
  BY <1>2, GoneStamped DEF Retention!Parts
<1> QED
  BY <1>1, <1>2, <1>3

LEMMA DeletingKeeps ==
  ASSUME RetentionInv, Retention!DeleteSidecar \/ Retention!DeleteAudio \/ Retention!DeleteFails
  PROVE  RetentionStep
<1>1. /\ phase = "execute" /\ unit \in Retention!Chosen /\ UNCHANGED <<shown, confirmed, retHands>>
  BY DEF Retention!DeleteSidecar, Retention!DeleteAudio, Retention!DeleteFails, Retention!Doing
<1>2. CASE Retention!DeleteFails
  BY <1>1, <1>2, TurnOver DEF Retention!DeleteFails, Retention!Told
<1>3. ASSUME NEW u \in Retention!Units, NEW part \in Retention!Parts, u = unit, retStep # "validate",
             Undisturbed(unit, part)
      PROVE  \/ <<u, part>> \in disturbed
             \/ \E e \in UNION {p.inventory : p \in shown} :
                  e.unit = u /\ library[u][part].stamp = e.stamps[IF part = "audio" THEN 1 ELSE 2]
  <2>1. PICK e \in UNION {p.inventory : p \in shown} :
          e.unit = unit /\ e.stamps = <<expected.audio.stamp, expected.metadata.stamp>>
    BY <1>1, <1>3 DEF RetentionInv, WasShown
  <2>2. CASE library[unit][part] = expected[part]
    <3>1. expected[part].stamp = e.stamps[IF part = "audio" THEN 1 ELSE 2]
      BY <2>1 DEF Retention!Parts
    <3> QED
      BY <1>3, <2>1, <2>2, <3>1
  <2> QED
    BY <1>3, <2>2 DEF Undisturbed
<1>4. CASE Retention!DeleteSidecar
  <2>1. /\ retStep = "deleteSidecar" /\ retStep' = "audio" /\ UNCHANGED <<phase, unit, expected>>
        /\ removed' = removed \cup {<<unit, "metadata">>}
    BY <1>4 DEF Retention!DeleteSidecar, Retention!GoOn, Retention!Doing, Retention!Unlink
  <2>2. library' \in [Retention!Units -> [audio : Stamped, metadata : Stamped]]
    BY <1>4, UnlinkFacts DEF Retention!DeleteSidecar, Retention!Parts
  <2>3. WasShown(unit)'
    BY <1>1, <2>1 DEF RetentionInv, WasShown
  <2>4. RetentionInv'
    BY <1>1, <2>1, <2>2, <2>3 DEF RetentionInv
  <2>5. Undisturbed(unit, "metadata")
    BY <1>1, <2>1 DEF RetentionInv
  <2>6. ASSUME NEW u \in Retention!Units, NEW part \in Retention!Parts, <<u, part>> \in removed' \ removed
        PROVE  u = unit /\ part = "metadata"
    BY <2>1, <2>6
  <2> QED
    BY <1>1, <1>3, <2>1, <2>4, <2>5, <2>6 DEF RetentionStep
<1>5. CASE Retention!DeleteAudio
  <2>1. /\ retStep = "deleteAudio" /\ removed' = removed \cup {<<unit, "audio">>} /\ Retention!Following
    BY <1>5 DEF Retention!DeleteAudio, Retention!Told, Retention!Doing, Retention!Unlink
  <2>2. library' \in [Retention!Units -> [audio : Stamped, metadata : Stamped]]
    BY <1>5, UnlinkFacts DEF Retention!DeleteAudio, Retention!Parts
  <2>3. phase' \in {"over", "execute"} /\ (phase' = "execute" => retStep' = "validate")
    BY <1>1, <2>1 DEF Retention!Following
  <2>4. RetentionInv'
    BY <1>1, <2>2, <2>3 DEF RetentionInv
  <2>5. Undisturbed(unit, "audio") /\ NoSidecar(unit)
    BY <1>1, <2>1 DEF RetentionInv
  <2>6. ASSUME NEW u \in Retention!Units, NEW part \in Retention!Parts, <<u, part>> \in removed' \ removed
        PROVE  u = unit /\ part = "audio"
    BY <2>1, <2>6
  <2>7. <<unit, "metadata">> \notin disturbed => ~Retention!Exists(unit, "metadata")
    BY <2>5 DEF NoSidecar, Retention!Exists
  <2> QED
    BY <1>1, <1>3, <2>1, <2>4, <2>5, <2>6, <2>7 DEF RetentionStep
<1> QED
  BY <1>2, <1>4, <1>5

LEMMA HandsKeep ==
  ASSUME RetentionInv, NEW u \in Retention!Units, NEW part \in Retention!Parts,
         Retention!HandChanges(u, part)
  PROVE  RetentionStep
<1>1. /\ disturbed' = disturbed \cup {<<u, part>>} /\ retHands' = retHands + 1
      /\ UNCHANGED <<shown, confirmed, phase, unit, retStep, expected, removed>>
  BY DEF Retention!HandChanges
<1>2. PICK kind \in {"gone", "good", "link"} :
        library' = [library EXCEPT ![u][part] =
                      IF kind = "gone" THEN Retention!Gone ELSE Retention!File(kind, retHands + 4, 3)]
  BY DEF Retention!HandChanges
<1> DEFINE new == IF kind = "gone" THEN Retention!Gone ELSE Retention!File(kind, retHands + 4, 3)
<1>3. library \in [Retention!Units -> [audio : Stamped, metadata : Stamped]] /\ retHands \in Nat
  BY DEF RetentionInv
<1>4. new \in Stamped
  BY <1>3, GoneStamped DEF Retention!File, Stamped
<1> HIDE DEF new
<1>5. library' = [library EXCEPT ![u][part] = new]
  BY <1>2 DEF new
<1>6. library' \in [Retention!Units -> [audio : Stamped, metadata : Stamped]]
  <2>1. [library[u] EXCEPT ![part] = new] \in [audio : Stamped, metadata : Stamped]
    BY <1>3, <1>4 DEF Retention!Parts
  <2> QED
    BY <1>3, <1>5, <2>1
<1>7. ASSUME NEW v, NEW other PROVE Undisturbed(v, other) => Undisturbed(v, other)'
  <2>1. CASE <<v, other>> = <<u, part>>
    BY <1>1, <2>1 DEF Undisturbed
  <2>2. CASE <<v, other>> # <<u, part>>
    <3>1. library'[v][other] = library[v][other]
      BY <1>3, <1>5, <2>2
    <3> QED
      BY <1>1, <3>1 DEF Undisturbed
  <2> QED
    BY <2>1, <2>2
<1>8. ASSUME NEW v PROVE NoSidecar(v) => NoSidecar(v)'
  <2>1. CASE <<v, "metadata">> = <<u, part>>
    BY <1>1, <2>1 DEF NoSidecar
  <2>2. CASE <<v, "metadata">> # <<u, part>>
    <3>1. library'[v]["metadata"] = library[v]["metadata"]
      BY <1>3, <1>5, <2>2
    <3> QED
      BY <1>1, <3>1 DEF NoSidecar
  <2> QED
    BY <2>1, <2>2
<1>9. RetentionInv'
  <2>1. Retention!Chosen' = Retention!Chosen
    BY <1>1 DEF Retention!Chosen
  <2>2. WasShown(unit) => WasShown(unit)'
    BY <1>1 DEF WasShown
  <2>3. /\ Undisturbed(unit, "metadata") => Undisturbed(unit, "metadata")'
        /\ Undisturbed(unit, "audio") => Undisturbed(unit, "audio")'
        /\ NoSidecar(unit) => NoSidecar(unit)'
    BY <1>1, <1>7, <1>8 DEF Undisturbed, NoSidecar
  <2> QED
    BY <1>1, <1>3, <1>6, <2>1, <2>2, <2>3 DEF RetentionInv
<1> QED
  BY <1>1, <1>9 DEF RetentionStep

LEMMA RetentionKeeps == ASSUME RetentionInv, Retention!Next PROVE RetentionStep
<1>1. CASE Retention!NextUnit
  BY <1>1, TurnOver DEF Retention!NextUnit
<1> QED
  BY <1>1, PlanningKeeps, LookingKeeps, DeletingKeeps, HandsKeep DEF Retention!Next, Retention!Program

(***************************************************************************)
(* The three together: whatever a behaviour is about, the invariants of    *)
(* the other subjects stay.                                                *)
(***************************************************************************)
allVars ==
  <<subject, writeVars, documentVars, recordVars, recordingVars, retentionVars, targetVars, readingVars,
    stagingVars, syncVars>>

ChoicesInv == RecordingInv /\ RetentionInv /\ SyncInv

\* What the steps of ChoicesKept may do.
WritesOne ==
  /\ attached' /\ ~attached => thread = "none" /\ \A n \in Recording!Names : files[n].wav # "open"
  /\ \A n \in Recording!Names : files[n].wav = "final" =>
       files'[n].wav = "final" /\ files'[n].chunks = files[n].chunks

DeletesConfirmed ==
  \A u \in Retention!Units, part \in Retention!Parts :
    <<u, part>> \in removed' \ removed =>
      \/ <<u, part>> \in disturbed
      \/ /\ u \in Retention!Chosen
         /\ \E e \in UNION {p.inventory : p \in shown} :
              e.unit = u /\ library[u][part].stamp = e.stamps[IF part = "audio" THEN 1 ELSE 2]
         /\ part = "audio" /\ <<u, "metadata">> \notin disturbed => ~Retention!Exists(u, "metadata")

ReplacesItsBaseline ==
  \A s \in Sessions :
    syncPc[s] = "checked" /\ syncPc'[s] = "published" =>
      provenance = Sync!Job(s).records \/ "emptied" \in since[s]

KeepsLocal ==
  \A r \in Sync!Bound(provenance) :
    provenance' # Sync!None =>
      \/ \E new \in Sync!Bound(provenance') :
           /\ new.identity = r.identity /\ (r.detached => new.detached)
           /\ \A f \in Sync!Fields : r.owner[f] \in {"local", "detached"} => new.owner[f] = r.owner[f]
      \/ ~r.detached /\ \A f \in Sync!Fields : r.owner[f] \notin {"local", "detached"}

\* A subject that does not move.
LEMMA RecordingRests == ASSUME RecordingInv, UNCHANGED recordingVars PROVE RecordingInv' /\ UNCHANGED Recording!vars
BY DEF recordingVars, RecordingInv, Recording!vars, Recording!fileVars, Recording!sinkVars,
       Recording!jobVars, Recording!stateVars

LEMMA RetentionRests == ASSUME RetentionInv, UNCHANGED retentionVars PROVE RetentionInv' /\ UNCHANGED Retention!vars
<1>1. UNCHANGED <<library, shown, confirmed, rescanned, phase, unit, retStep, expected, outcome, removed,
                  disturbed, retHands>>
  BY DEF retentionVars
<1>2. Retention!Chosen' = Retention!Chosen
  BY <1>1 DEF Retention!Chosen
<1>3. RetentionInv'
  BY <1>1, <1>2 DEF RetentionInv, WasShown, Undisturbed, NoSidecar
<1> QED
  BY <1>1, <1>3 DEF Retention!vars

LEMMA SyncRests == ASSUME SyncInv, UNCHANGED syncVars PROVE SyncInv' /\ UNCHANGED Sync!vars
BY SyncStutters DEF syncVars, Sync!vars

LEMMA SyncChoices == ASSUME SyncInv, Sync!Next PROVE ReplacesItsBaseline /\ KeepsLocal
<1>1. ReplacesItsBaseline
  BY NoUpdateLost DEF ReplacesItsBaseline, Sync!Job
<1>2. ASSUME NEW r \in Sync!Bound(provenance), provenance' # Sync!None
      PROVE  Keeps(r, Sync!Bound(provenance'))
  <2>1. Sync!Bound(provenance)' = Sync!Bound(provenance')
    BY DEF Sync!Bound
  <2> QED
    BY <1>2, <2>1, LocalStays
<1> QED
  BY <1>1, <1>2 DEF KeepsLocal, Keeps

LEMMA ChoicesStart == ASSUME MCInit PROVE ChoicesInv
BY RecordingStarts, RetentionStarts, SyncStarts DEF MCInit, ChoicesInv

\* One step of whatever the behaviour is about.
LEMMA ChoicesStep ==
  ASSUME ChoicesInv, [MCNext]_allVars
  PROVE  /\ ChoicesInv'
         /\ [WritesOne]_Recording!vars /\ [DeletesConfirmed]_Retention!vars
         /\ [ReplacesItsBaseline]_Sync!vars /\ [KeepsLocal]_Sync!vars
<1>1. Recording!Next \/ UNCHANGED recordingVars
  BY DEF MCNext, allVars
<1>2. Retention!Next \/ UNCHANGED retentionVars
  BY DEF MCNext, allVars
<1>3. Sync!Next \/ UNCHANGED syncVars
  BY DEF MCNext, allVars
<1>4. RecordingInv' /\ [WritesOne]_Recording!vars
  <2>1. CASE Recording!Next
    BY <2>1, RecordingKeeps DEF ChoicesInv, RecordingStep, WritesOne
  <2>2. CASE UNCHANGED recordingVars
    BY <2>2, RecordingRests DEF ChoicesInv
  <2> QED
    BY <1>1, <2>1, <2>2
<1>5. RetentionInv' /\ [DeletesConfirmed]_Retention!vars
  <2>1. CASE Retention!Next
    BY <2>1, RetentionKeeps DEF ChoicesInv, RetentionStep, DeletesConfirmed
  <2>2. CASE UNCHANGED retentionVars
    BY <2>2, RetentionRests DEF ChoicesInv
  <2> QED
    BY <1>2, <2>1, <2>2
<1>6. SyncInv' /\ [ReplacesItsBaseline]_Sync!vars /\ [KeepsLocal]_Sync!vars
  <2>1. CASE Sync!Next
    BY <2>1, SyncKeeps, SyncChoices DEF ChoicesInv
  <2>2. CASE UNCHANGED syncVars
    BY <2>2, SyncRests DEF ChoicesInv
  <2> QED
    BY <1>3, <2>1, <2>2
<1> QED
  BY <1>4, <1>5, <1>6 DEF ChoicesInv

\* What an active lifecycle retains and what it is about to execute fits together; what
\* is reported done was done; and card and provenance fit, or somebody knows why not.
THEOREM SynchronisationIsTrue == MCSpec => []SyncTrue
<1>1. MCInit => ChoicesInv
  BY ChoicesStart
<1>2. ChoicesInv /\ [MCNext]_allVars => ChoicesInv'
  BY ChoicesStep
<1>3. ChoicesInv => SyncTrue
  BY SyncInvTrue DEF ChoicesInv
<1> QED
  BY <1>1, <1>2, <1>3, PTL DEF MCSpec, allVars

\* A recording closed in order is never written again, and none starts before the one
\* before it was let go; one is deleted only as a plan that was shown and confirmed
\* selected it; provenance is replaced only by a plan that was made from it; and what the
\* user detached or owns stays so.
THEOREM ChoicesAreKept == MCSpec => ChoicesKept
<1>1. MCInit => ChoicesInv
  BY ChoicesStart
<1>2. ChoicesInv /\ [MCNext]_allVars => ChoicesInv'
  BY ChoicesStep
<1>3. ChoicesInv /\ [MCNext]_allVars =>
        /\ [WritesOne]_Recording!vars /\ [DeletesConfirmed]_Retention!vars
        /\ [ReplacesItsBaseline]_Sync!vars /\ [KeepsLocal]_Sync!vars
  BY ChoicesStep
<1>4. MCSpec => /\ [][WritesOne]_Recording!vars /\ [][DeletesConfirmed]_Retention!vars
                /\ [][ReplacesItsBaseline]_Sync!vars /\ [][KeepsLocal]_Sync!vars
  BY <1>1, <1>2, <1>3, PTL DEF MCSpec, allVars
<1>5. [][WritesOne]_Recording!vars => Recording!OneWriter
  BY PTL DEF Recording!OneWriter, WritesOne
<1>6. [][DeletesConfirmed]_Retention!vars => Retention!DeletesTheConfirmed
  BY PTL DEF Retention!DeletesTheConfirmed, DeletesConfirmed
<1>7. [][ReplacesItsBaseline]_Sync!vars => Sync!NoLostUpdate
  BY PTL DEF Sync!NoLostUpdate, ReplacesItsBaseline
<1>8. [][KeepsLocal]_Sync!vars => Sync!LocalStaysLocal
  BY PTL DEF Sync!LocalStaysLocal, KeepsLocal
<1> QED
  BY <1>4, <1>5, <1>6, <1>7, <1>8 DEF ChoicesKept


(***************************************************************************)
(* A document on the card, UsbManagedFile, whatever other hands do and     *)
(* however often.  What a call may rely on is what the calls before it in  *)
(* its program have shown, so the proof has two halves.  The first is      *)
(* about the programs alone: what stands before each call (CallFacts) and  *)
(* what may follow what (Link).  It is said once of calls that only look   *)
(* (Run) and put together from the parts that the programs share.  The     *)
(* second carries along, for the names that no other hand has touched      *)
(* since (those not in fresh), what was seen there.                        *)
(***************************************************************************)

\* The calls that look without an open file, and all calls.
Plain == {"mount", "remount", "gone", "stat", "restat", "open", "read", "bind", "matches", "bound"}
Words == Plain \cup {"openfd", "readfd", "peek", "classify", "judge", "same", "refuse",
                     "truncate", "rewrite", "create", "displace", "unlink", "putBack"}
Calls == [call : Words, name : Document!Names, started : BOOLEAN, artifact : BOOLEAN]

LEMMA NamesAre == Document!Names = {"target", "temp"}
BY DEF Document!Names

LEMMA CallIs ==
  ASSUME NEW c \in Words, NEW n \in Document!Names
  PROVE  /\ Document!Call(c, n) \in Calls /\ Document!Call(c, n).call = c /\ Document!Call(c, n).name = n
         /\ ~Document!Call(c, n).started /\ ~Document!Call(c, n).artifact
BY DEF Document!Call, Calls

LEMMA JoinIs ==
  ASSUME NEW P \in Seq(Calls), NEW Q \in Seq(Calls)
  PROVE  /\ P \o Q \in Seq(Calls) /\ Len(P \o Q) = Len(P) + Len(Q)
         /\ \A i \in 1 .. Len(P) : (P \o Q)[i] = P[i]
         /\ \A i \in Len(P) + 1 .. Len(P) + Len(Q) : (P \o Q)[i] = Q[i - Len(P)]
         /\ \A i \in 1 .. Len(Q) : (P \o Q)[Len(P) + i] = Q[i]
OBVIOUS

\* R is P and then Q.
Joins(R, P, Q) ==
  /\ R \in Seq(Calls) /\ Len(R) = Len(P) + Len(Q)
  /\ \A i \in 1 .. Len(P) : R[i] = P[i]
  /\ \A i \in 1 .. Len(Q) : R[Len(P) + i] = Q[i]

LEMMA JoinsIs ==
  ASSUME NEW P \in Seq(Calls), NEW Q \in Seq(Calls)
  PROVE  Joins(P \o Q, P, Q)
BY JoinIs DEF Joins

LEMMA LastOf ==
  ASSUME NEW R, NEW P \in Seq(Calls), NEW Q, Joins(R, P, Q), Len(Q) = 1
  PROVE  R[Len(R)] = Q[1] /\ Len(R) = Len(P) + 1
<1>1. Len(P) \in Nat /\ 1 \in 1 .. Len(Q)
  OBVIOUS
<1>2. R[Len(P) + 1] = Q[1] /\ Len(R) = Len(P) + 1
  BY <1>1 DEF Joins
<1> QED
  BY <1>2

LEMMA NotEmpty ==
  ASSUME NEW P \in Seq(Calls)
  PROVE  Len(P) \in Nat /\ (P # <<>> <=> Len(P) > 0)
BY EmptySeq

LEMMA StartedIs ==
  ASSUME NEW P \in Seq(Calls)
  PROVE  /\ Document!Started(P) \in Seq(Calls) /\ Len(Document!Started(P)) = Len(P)
         /\ \A i \in 1 .. Len(P) :
              /\ Document!Started(P)[i].call = P[i].call /\ Document!Started(P)[i].name = P[i].name
              /\ Document!Started(P)[i].started /\ Document!Started(P)[i].artifact = P[i].artifact
<1>1. Len(P) \in Nat /\ DOMAIN P = 1 .. Len(P) /\ \A i \in 1 .. Len(P) : P[i] \in Calls
  OBVIOUS
<1>2. Document!Started(P) = [i \in 1 .. Len(P) |-> [P[i] EXCEPT !.started = TRUE]]
  BY <1>1 DEF Document!Started
<1>3. \A i \in 1 .. Len(P) : [P[i] EXCEPT !.started = TRUE] \in Calls
  BY <1>1 DEF Calls
<1>4. Document!Started(P) \in [1 .. Len(P) -> Calls]
  BY <1>2, <1>3
<1>5. Document!Started(P) \in Seq(Calls) /\ Len(Document!Started(P)) = Len(P)
  BY <1>1, <1>4, ElementOfSeq, LenProperties, SeqDef
<1>6. \A i \in 1 .. Len(P) :
              /\ Document!Started(P)[i].call = P[i].call /\ Document!Started(P)[i].name = P[i].name
              /\ Document!Started(P)[i].started /\ Document!Started(P)[i].artifact = P[i].artifact
  BY <1>1, <1>2 DEF Calls
<1> QED
  BY <1>5, <1>6

LEMMA CarryingIs ==
  ASSUME NEW P \in Seq(Calls)
  PROVE  /\ Document!Carrying(P) \in Seq(Calls) /\ Len(Document!Carrying(P)) = Len(P)
         /\ \A i \in 1 .. Len(P) :
              /\ Document!Carrying(P)[i].call = P[i].call /\ Document!Carrying(P)[i].name = P[i].name
              /\ Document!Carrying(P)[i].started /\ Document!Carrying(P)[i].artifact
<1>1. Len(P) \in Nat /\ DOMAIN P = 1 .. Len(P) /\ \A i \in 1 .. Len(P) : P[i] \in Calls
  OBVIOUS
<1>2. Document!Carrying(P) = [i \in 1 .. Len(P) |-> [P[i] EXCEPT !.started = TRUE, !.artifact = TRUE]]
  BY <1>1 DEF Document!Carrying
<1>3. \A i \in 1 .. Len(P) : [P[i] EXCEPT !.started = TRUE, !.artifact = TRUE] \in Calls
  BY <1>1 DEF Calls
<1>4. Document!Carrying(P) \in [1 .. Len(P) -> Calls]
  BY <1>2, <1>3
<1>5. Document!Carrying(P) \in Seq(Calls) /\ Len(Document!Carrying(P)) = Len(P)
  BY <1>1, <1>4, ElementOfSeq, LenProperties, SeqDef
<1>6. ASSUME NEW i \in 1 .. Len(P)
      PROVE  /\ Document!Carrying(P)[i].call = P[i].call /\ Document!Carrying(P)[i].name = P[i].name
             /\ Document!Carrying(P)[i].started /\ Document!Carrying(P)[i].artifact
  <2>1. Document!Carrying(P)[i] = [P[i] EXCEPT !.started = TRUE, !.artifact = TRUE]
    BY <1>2
  <2>2. P[i] \in Calls
    BY <1>1
  <2> QED
    BY <2>1, <2>2 DEF Calls
<1> QED
  BY <1>5, <1>6

\* ------------------------------------------------------------- calls that only look
\* Calls that look, at names of which some are to be absent and others are read.
Run(P, absent, readable) ==
  /\ P \in Seq(Calls)
  /\ \A i \in 1 .. Len(P) :
       /\ P[i].call \in Plain /\ ~P[i].started /\ ~P[i].artifact
       /\ P[i].call = "gone" => P[i].name \in absent
       /\ P[i].call \in {"stat", "restat", "open"} => P[i].name \in readable
       /\ P[i].call = "read" =>
            /\ P[i].name \in readable /\ i > 1
            /\ P[i - 1].call = "open" /\ P[i - 1].name = P[i].name

\* The call is made somewhere in P, at that name.
Has(P, call, name) == \E i \in 1 .. Len(P) : P[i].call = call /\ P[i].name = name

LEMMA RunJoin ==
  ASSUME NEW P, NEW Q, NEW absent, NEW readable, Run(P, absent, readable), Run(Q, absent, readable)
  PROVE  Run(P \o Q, absent, readable)
<1>1. P \in Seq(Calls) /\ Q \in Seq(Calls) /\ Len(P) \in Nat /\ Len(Q) \in Nat
  BY DEF Run
<1>2. /\ P \o Q \in Seq(Calls) /\ Len(P \o Q) = Len(P) + Len(Q)
      /\ \A i \in 1 .. Len(P) : (P \o Q)[i] = P[i]
      /\ \A i \in 1 .. Len(Q) : (P \o Q)[Len(P) + i] = Q[i]
  BY <1>1, JoinIs
<1>3. ASSUME NEW i \in 1 .. Len(P \o Q)
      PROVE  \/ i \in 1 .. Len(P) /\ (P \o Q)[i] = P[i] /\ (i > 1 => (P \o Q)[i - 1] = P[i - 1])
             \/ \E j \in 1 .. Len(Q) : /\ i = Len(P) + j /\ (P \o Q)[i] = Q[j]
                                       /\ j > 1 => i > 1 /\ (P \o Q)[i - 1] = Q[j - 1]
  <2>1. CASE i <= Len(P)
    BY <1>1, <1>2, <2>1
  <2>2. CASE i > Len(P)
    <3>1. i - Len(P) \in 1 .. Len(Q) /\ i = Len(P) + (i - Len(P))
      BY <1>1, <1>2, <2>2
    <3>2. i - Len(P) > 1 => i - 1 = Len(P) + (i - Len(P) - 1) /\ i - Len(P) - 1 \in 1 .. Len(Q) /\ i > 1
      BY <1>1, <1>2, <2>2
    <3> QED
      BY <1>2, <3>1, <3>2
  <2>3. i <= Len(P) \/ i > Len(P)
    BY <1>1
  <2> QED
    BY <2>1, <2>2, <2>3
<1>4. ASSUME NEW i \in 1 .. Len(P \o Q)
      PROVE  LET R == P \o Q IN
             /\ R[i].call \in Plain /\ ~R[i].started /\ ~R[i].artifact
             /\ R[i].call = "gone" => R[i].name \in absent
             /\ R[i].call \in {"stat", "restat", "open"} => R[i].name \in readable
             /\ R[i].call = "read" =>
                  /\ R[i].name \in readable /\ i > 1
                  /\ R[i - 1].call = "open" /\ R[i - 1].name = R[i].name
  BY <1>3 DEF Run
<1> QED
  BY <1>2, <1>4 DEF Run

LEMMA HasJoin ==
  ASSUME NEW P \in Seq(Calls), NEW Q \in Seq(Calls), NEW c, NEW n, Has(P, c, n) \/ Has(Q, c, n)
  PROVE  Has(P \o Q, c, n)
<1>1. /\ Len(P) \in Nat /\ Len(Q) \in Nat /\ Len(P \o Q) = Len(P) + Len(Q)
      /\ \A i \in 1 .. Len(P) : (P \o Q)[i] = P[i]
      /\ \A i \in 1 .. Len(Q) : (P \o Q)[Len(P) + i] = Q[i]
  BY JoinIs
<1>2. CASE Has(P, c, n)
  BY <1>1, <1>2 DEF Has
<1>3. CASE Has(Q, c, n)
  <2>1. PICK j \in 1 .. Len(Q) : Q[j].call = c /\ Q[j].name = n
    BY <1>3 DEF Has
  <2>2. Len(P) + j \in 1 .. Len(P \o Q)
    BY <1>1
  <2> QED
    BY <1>1, <2>1, <2>2 DEF Has
<1> QED
  BY <1>2, <1>3

LEMMA RunIs ==
  ASSUME NEW P, NEW absent, NEW readable, Run(P, absent, readable)
  PROVE  P \in Seq(Calls) /\ Len(P) \in Nat
BY DEF Run

\* The parts that programs are put together from.
LEMMA Parts ==
  ASSUME NEW n \in Document!Names, NEW absent, NEW readable
  PROVE  /\ n \in absent => Run(Document!Gone(n), absent, readable)
         /\ n \in readable => Run(Document!ReadFile(n), absent, readable)
         /\ n \in readable => Run(Document!Unchanged(n), absent, readable)
         /\ Run(Document!Evidence, absent, readable)
         /\ \A c \in Plain \ {"gone", "stat", "restat", "open", "read"} : Run(<<Document!Call(c, n)>>, absent, readable)
         /\ n \in readable => Run(<<Document!Call("stat", n)>>, absent, readable)
         /\ Has(Document!Gone(n), "gone", n) /\ Has(Document!ReadFile(n), "read", n)
         /\ Len(Document!Gone(n)) = 1 /\ Len(Document!ReadFile(n)) = 2 /\ Len(Document!Unchanged(n)) = 1 /\ Len(Document!Evidence) = 2
         /\ \A c \in Words : Len(<<Document!Call(c, n)>>) = 1
<1>1. /\ Document!Call("gone", n) \in Calls /\ Document!Call("open", n) \in Calls /\ Document!Call("read", n) \in Calls
      /\ Document!Call("restat", n) \in Calls /\ Document!Call("mount", "temp") \in Calls /\ Document!Call("remount", "temp") \in Calls
  BY CallIs, NamesAre DEF Words, Plain
<1>2. n \in absent => Run(Document!Gone(n), absent, readable)
  BY <1>1 DEF Run, Document!Gone, Plain, Document!Call
<1>3. n \in readable => Run(Document!ReadFile(n), absent, readable)
  BY <1>1 DEF Run, Document!ReadFile, Plain, Document!Call
<1>4. n \in readable => Run(Document!Unchanged(n), absent, readable)
  BY <1>1 DEF Run, Document!Unchanged, Plain, Document!Call
<1>5. Run(Document!Evidence, absent, readable)
  <2>1. Document!Call("mount", "temp") \in Calls /\ Document!Call("remount", "temp") \in Calls
    BY <1>1
  <2>2. Document!Evidence \in Seq(Calls) /\ Len(Document!Evidence) = 2 /\ Document!Evidence[1] = Document!Call("mount", "temp")
        /\ Document!Evidence[2] = Document!Call("remount", "temp")
    BY <2>1 DEF Document!Evidence
  <2>3. \A i \in 1 .. 2 : i = 1 \/ i = 2
    OBVIOUS
  <2> QED
    BY <2>2, <2>3 DEF Run, Plain, Document!Call
<1>6. ASSUME NEW c \in Plain \ {"gone", "stat", "restat", "open", "read"} PROVE Run(<<Document!Call(c, n)>>, absent, readable)
  <2>1. Document!Call(c, n) \in Calls
    BY CallIs DEF Plain, Words
  <2> QED
    BY <2>1 DEF Run, Plain, Document!Call
<1>9. n \in readable => Run(<<Document!Call("stat", n)>>, absent, readable)
  <2>1. Document!Call("stat", n) \in Calls
    BY CallIs DEF Plain, Words
  <2> QED
    BY <2>1 DEF Run, Plain, Document!Call
<1>7. Has(Document!Gone(n), "gone", n) /\ Has(Document!ReadFile(n), "read", n)
  <2>1. Len(Document!Gone(n)) = 1 /\ Document!Gone(n)[1] = Document!Call("gone", n) /\ Len(Document!ReadFile(n)) = 2 /\ Document!ReadFile(n)[2] = Document!Call("read", n)
    BY DEF Document!Gone, Document!ReadFile
  <2> QED
    BY <2>1 DEF Has, Document!Call
<1>8. Len(Document!Gone(n)) = 1 /\ Len(Document!ReadFile(n)) = 2 /\ Len(Document!Unchanged(n)) = 1 /\ Len(Document!Evidence) = 2
  BY DEF Document!Gone, Document!ReadFile, Document!Unchanged, Document!Evidence
<1> QED
  BY <1>2, <1>3, <1>4, <1>5, <1>6, <1>7, <1>8, <1>9

LEMMA ObserveRuns ==
  ASSUME NEW n \in Document!Names, NEW absent, NEW readable, n \in readable
  PROVE  Run(Document!Observe(n), absent, readable) /\ Has(Document!Observe(n), "read", n) /\ Len(Document!Observe(n)) = 4
<1>1. /\ Run(<<Document!Call("stat", n)>>, absent, readable) /\ Run(Document!ReadFile(n), absent, readable)
      /\ Run(Document!Unchanged(n), absent, readable) /\ Has(Document!ReadFile(n), "read", n)
      /\ Len(<<Document!Call("stat", n)>>) = 1 /\ Len(Document!ReadFile(n)) = 2 /\ Len(Document!Unchanged(n)) = 1
  BY Parts DEF Plain, Words
<1> DEFINE both == <<Document!Call("stat", n)>> \o Document!ReadFile(n)
<1>2. Run(both, absent, readable)
  BY <1>1, RunJoin
<1>3. Run(both \o Document!Unchanged(n), absent, readable)
  BY <1>1, <1>2, RunJoin
<1>4. <<Document!Call("stat", n)>> \in Seq(Calls) /\ Document!ReadFile(n) \in Seq(Calls) /\ Document!Unchanged(n) \in Seq(Calls)
      /\ both \in Seq(Calls)
  BY <1>1, <1>2 DEF Run
<1>5. Has(both, "read", n)
  BY <1>1, <1>4, HasJoin
<1>6. Has(both \o Document!Unchanged(n), "read", n)
  BY <1>4, <1>5, HasJoin
<1>7. Len(both \o Document!Unchanged(n)) = 4
  BY <1>1, <1>4, JoinIs
<1> QED
  BY <1>3, <1>6, <1>7 DEF Document!Observe

Contents == {"old", "new", "torn", "foreign"}
Jobs == {"begin", "bind", "guard", "write", "create", "delete", "putBack", "remove", "confirm",
         "recreate", "cleanup", "cleanupRemoval", "settle", "leave", "tidy", "readback"}
Watching == {"mount", "remount", "gone", "stat", "restat", "open", "openfd", "read", "readfd",
             "peek", "classify", "bind", "matches", "bound"}
Changing == {"truncate", "rewrite", "create", "displace", "unlink", "putBack"}

\* An error of the call changed nothing; what a primitive has displaced is looked at, and
\* judged; the call reads the open file.
Looks(c) == c.call \in Watching /\ ~c.started /\ ~c.artifact
MovedAside(c) == c.call \in {"stat", "open", "peek"} /\ c.name = "temp" /\ c.started /\ ~c.artifact
Judging(c) == c.call \in {"restat", "judge"} /\ c.name = "temp" /\ c.started /\ ~c.artifact
Reads(c) == c.call \in {"read", "peek", "readfd"}

\* What may follow what.
Link(a, b) ==
  /\ Reads(b) => a.call \in {"open", "openfd"} /\ a.name = b.name
  /\ b.call = "truncate" => a.call = "readfd" /\ a.name = "target"
  /\ b.call = "rewrite" => a.call \in {"truncate", "create", "same"}
  /\ b.call = "putBack" => a.call = "gone" /\ a.name = "target"
  /\ a.started \/ a.call \in Changing => b.started
  /\ MovedAside(b) => a.call = "displace" \/ (MovedAside(a) /\ a.call # "peek")
  /\ Judging(b) => (MovedAside(a) /\ a.call = "peek") \/ (Judging(a) /\ a.call = "restat")
  /\ b.artifact => a.call = "judge" \/ (a.artifact /\ a.call \notin Changing)

\* Before its i-th call P has made such a call; and it has only looked.
SawIn(P, i, call, name) == \E j \in 1 .. i - 1 : P[j].call = call /\ P[j].name = name
LooksTo(P, i) == \A j \in 1 .. i - 1 : Looks(P[j])

\* A call that relies on nothing before it.
Calm(c) ==
  /\ ~Reads(c) /\ c.call \notin {"truncate", "rewrite", "displace", "unlink", "putBack"}
  /\ ~c.artifact /\ ~MovedAside(c) /\ ~Judging(c)

\* No call reads what an earlier one found absent, or the other way round.
Apart(P, i) ==
  \A j \in 1 .. i - 1 :
    /\ P[i].call = "gone" /\ Reads(P[j]) => P[i].name # P[j].name
    /\ P[j].call = "gone" /\ Reads(P[i]) => P[i].name # P[j].name
    /\ P[j].call = "read" /\ Reads(P[i]) /\ P[i].call # "read" => P[i].name # P[j].name

\* What stands before each call, and in which jobs it is made.
CallFacts(P, i) ==
  /\ P[i].call = "displace" =>
       /\ LooksTo(P, i) /\ SawIn(P, i, "gone", "temp") /\ SawIn(P, i, "read", "target")
       /\ ~P[i].started /\ job \in {"delete", "remove"} /\ i < Len(P)
  /\ P[i].call = "unlink" =>
       /\ P[i].artifact \/ (LooksTo(P, i) /\ SawIn(P, i, "read", "temp"))
       /\ P[i].started
  /\ P[i].call \in {"truncate", "peek"} => i < Len(P)
  /\ P[i].call = "truncate" => job = "write" /\ P[i].started
  /\ P[i].call = "rewrite" => /\ job \in {"write", "create", "recreate"} /\ P[i].started /\ i < Len(P)
  /\ P[i].call = "create" => /\ (job = "create" /\ i = 1) \/ (job = "recreate" /\ i = 2)
                             /\ i < Len(P) /\ P[i].name = "target"
  /\ P[i].call = "putBack" => job = "putBack" /\ P[i].started
  /\ P[i].call = "refuse" => job = "recreate"
  /\ P[i].call = "judge" => job \in {"delete", "remove"} /\ P[i].name = "temp" /\ P[i].started /\ ~P[i].artifact /\ i < Len(P)
  /\ P[i].call = "stat" /\ P[i].name = "target" => ~P[i].started
  /\ P[i].call = "classify" => job = "write"
  /\ P[i].call \in {"classify", "openfd"} => ~P[i].started /\ ~P[i].artifact
  /\ P[i].call \in {"openfd", "readfd"} => P[i].name = "target" /\ job = "write"
  /\ P[i].artifact => IF stage = "recovery" THEN job = "remove" ELSE job = "delete"
  /\ P[i].artifact => /\ P[i].started
                      /\ P[i].call \in (Plain \ {"stat", "open", "read"}) \cup {"unlink"}
                      /\ P[i].call = "gone" => P[i].name = "target"
  /\ job \in {"putBack", "recreate"} /\ i = Len(P) => P[i].call \in {"putBack", "refuse"}
  /\ job = "readback" /\ i = Len(P) => P[i].call = "gone" /\ P[i].name = "temp" /\ i > 1 /\ P[i-1].call = "remount"
        /\ SawIn(P, i, IF Document!Goal = "absent" THEN "gone" ELSE "read", "target") /\ LooksTo(P, i)
  /\ LooksTo(P, i) /\ Looks(P[i]) => Apart(P, i)
  /\ job \in {"recreate", "putBack"} => P[i].started /\ ~Reads(P[i])
  /\ job = "create" /\ i = 2 => P[i].call = "same" /\ P[i-1].call = "create"
  /\ P[i].call = "same" /\ i < Len(P) /\ P[i+1].call = "rewrite" => job = "create" /\ i = 2

\* A program that every step of the proof can rely on.
ProgramFacts(P) ==
  /\ P \in Seq(Calls) /\ P # <<>> /\ Calm(P[1])
  /\ \A i \in 1 .. Len(P) : CallFacts(P, i)
  /\ \A i \in 1 .. Len(P) - 1 : Link(P[i], P[i + 1])

\* Which jobs there are in which stage, for which plan.
JobFits ==
  /\ job \in Jobs
  /\ job \in {"begin", "bind", "cleanup", "tidy", "remove", "confirm", "recreate", "cleanupRemoval"} => stage = "recovery"
  /\ job \in {"delete", "putBack", "settle"} => stage = "activation"
  /\ job \in {"delete", "putBack"} => plan = "delete"
  /\ job \in {"remove", "confirm", "recreate", "cleanupRemoval"} => plan = "create"
  /\ job \in {"write", "create"} => Document!Goal # "absent"

LEMMA PlainFacts ==
  ASSUME NEW P, NEW absent, NEW readable, Run(P, absent, readable), absent \cap readable = {},
         P # <<>>, job \in {"begin", "bind", "guard", "confirm", "leave", "tidy", "readback"},
         job = "readback" =>
           /\ P[Len(P)].call = "gone" /\ P[Len(P)].name = "temp" /\ Len(P) > 1
           /\ P[Len(P) - 1].call = "remount"
           /\ SawIn(P, Len(P), IF Document!Goal = "absent" THEN "gone" ELSE "read", "target")
  PROVE  ProgramFacts(P)
<1>1. P \in Seq(Calls) /\ Len(P) \in Nat \ {0}
  BY EmptySeq DEF Run
<1>2. \A i \in 1 .. Len(P) : P[i].call \in Plain /\ ~P[i].started /\ ~P[i].artifact
  BY DEF Run
<1>3. Calm(P[1])
  BY <1>1 DEF Run, Calm, Reads, MovedAside, Judging, Plain
<1>4. ASSUME NEW i \in 1 .. Len(P) PROVE CallFacts(P, i)
  <2>1. \A j \in 1 .. i - 1 : j \in 1 .. Len(P)
    BY <1>1
  <2>2. Apart(P, i)
    BY <2>1 DEF Run, Reads, Plain, Apart
  <2>3. LooksTo(P, i)
    BY <1>2, <2>1 DEF LooksTo, Looks, Plain, Watching
  <2> QED
    BY <1>2, <2>2, <2>3 DEF CallFacts, Plain
<1>5. ASSUME NEW i \in 1 .. Len(P) - 1 PROVE Link(P[i], P[i + 1])
  <2>1. i \in 1 .. Len(P) /\ i + 1 \in 1 .. Len(P) /\ i + 1 - 1 = i
    BY <1>1
  <2>2. P[i + 1].call = "read" => P[i].call = "open" /\ P[i].name = P[i + 1].name
    BY <2>1 DEF Run
  <2> QED
    BY <1>2, <2>1, <2>2 DEF Link, Reads, MovedAside, Judging, Plain, Changing
<1> QED
  BY <1>1, <1>3, <1>4, <1>5 DEF ProgramFacts

\* What comes after the calls that only look.
TailCall(B, t) ==
  /\ B[t].call \in {"displace", "unlink", "peek", "judge"} \cup (Plain \ {"read"})
  /\ B[t].call = "displace" => t = 1 /\ ~B[t].started /\ 1 < Len(B) /\ job \in {"delete", "remove"}
  /\ B[t].call = "unlink" => B[t].started /\ (B[t].artifact \/ t = 1)
  /\ B[t].call \in {"peek", "judge"} => t < Len(B) /\ job \in {"delete", "remove"}
  /\ B[t].call \in {"judge", "stat", "open"} => B[t].name = "temp" /\ ~B[t].artifact
  /\ t = 1 => B[t].call \in {"displace", "unlink"} /\ ~B[t].artifact
  /\ t > 1 => B[t].started /\ Link(B[t - 1], B[t])
  /\ B[t].artifact => /\ IF stage = "recovery" THEN job = "remove" ELSE job = "delete"
                      /\ B[t].call \in (Plain \ {"stat", "open", "read"}) \cup {"unlink"}
                      /\ B[t].call = "gone" => B[t].name = "target"

EndRun(B) ==
  /\ B \in Seq(Calls) /\ B # <<>>
  /\ \A t \in 1 .. Len(B) : TailCall(B, t)

\* Calls that look, then a tail.
LEMMA TailFacts ==
  ASSUME NEW A, NEW absent, NEW readable, Run(A, absent, readable), absent \cap readable = {},
         A # <<>>, NEW B, EndRun(B), job \in {"delete", "remove", "cleanup", "cleanupRemoval"},
         B[1].call = "displace" => Has(A, "gone", "temp") /\ Has(A, "read", "target"),
         B[1].call = "unlink" => Has(A, "read", "temp")
  PROVE  ProgramFacts(A \o B)
<1> DEFINE P == A \o B
           k == Len(A)
<1> HIDE DEF P, k
<1>1. /\ A \in Seq(Calls) /\ k \in Nat \ {0} /\ B \in Seq(Calls) /\ Len(B) \in Nat \ {0}
      /\ P \in Seq(Calls) /\ Len(P) = k + Len(B)
      /\ \A i \in 1 .. k : P[i] = A[i]
      /\ \A t \in 1 .. Len(B) : P[k + t] = B[t]
  BY JoinIs, EmptySeq DEF P, k, Run, EndRun
<1>2. \A i \in 1 .. k : P[i].call \in Plain /\ ~P[i].started /\ ~P[i].artifact
  BY <1>1 DEF Run, k
<1>3. Calm(P[1])
  <2>1. P[1] = A[1] /\ 1 \in 1 .. Len(A)
    BY <1>1 DEF k
  <2> QED
    BY <2>1 DEF Run, Calm, Reads, MovedAside, Judging, Plain
<1>4. ASSUME NEW i \in 1 .. k PROVE CallFacts(P, i)
  <2>1. \A j \in 1 .. i - 1 : j \in 1 .. k
    BY <1>1
  <2>2. Apart(P, i)
    <3>1. P[i] = A[i] /\ i \in 1 .. Len(A) /\ \A j \in 1 .. i - 1 : j \in 1 .. Len(A) /\ P[j] = A[j]
      BY <1>1, <2>1 DEF k
    <3> QED
      BY <3>1 DEF Run, Reads, Plain, Apart
  <2> QED
    BY <1>2, <2>2 DEF CallFacts, Plain
<1>5. LooksTo(P, k + 1)
  BY <1>1, <1>2 DEF LooksTo, Looks, Watching, Plain
<1>6. \A c, n : Has(A, c, n) => SawIn(P, k + 1, c, n)
  BY <1>1 DEF Has, SawIn, k
<1>7. ASSUME NEW t \in 1 .. Len(B) PROVE CallFacts(P, k + t)
  <2>1. P[k + t] = B[t] /\ TailCall(B, t) /\ (k + t < Len(P) <=> t < Len(B))
    BY <1>1 DEF EndRun
  <2>2. ~Looks(B[t])
    BY <2>1 DEF TailCall, Looks, Watching, Plain
  <2>3. CASE t = 1
    BY <1>5, <1>6, <2>1, <2>2, <2>3 DEF TailCall, CallFacts, Plain
  <2>4. CASE t > 1
    BY <2>1, <2>2, <2>4 DEF TailCall, CallFacts, Plain
  <2> QED
    BY <1>1, <2>3, <2>4
<1>8. ASSUME NEW i \in 1 .. k + Len(B) PROVE i \in 1 .. k \/ \E t \in 1 .. Len(B) : i = k + t
  <2>1. CASE i <= k
    BY <1>1, <2>1
  <2>2. CASE i > k
    <3>1. i - k \in 1 .. Len(B) /\ i = k + (i - k)
      BY <1>1, <2>2
    <3> QED
      BY <3>1
  <2> QED
    BY <1>1, <2>1, <2>2
<1>9. ASSUME NEW i \in 1 .. Len(P) PROVE CallFacts(P, i)
  BY <1>1, <1>4, <1>7, <1>8
<1>10. ASSUME NEW i \in 1 .. Len(P) - 1 PROVE Link(P[i], P[i + 1])
  <2>1. CASE i < k
    <3>1. i \in 1 .. k /\ i + 1 \in 1 .. k /\ i + 1 - 1 = i
      BY <1>1, <2>1
    <3>2. P[i + 1].call = "read" => P[i].call = "open" /\ P[i].name = P[i + 1].name
      BY <1>1, <3>1 DEF Run, k
    <3> QED
      BY <1>2, <3>1, <3>2 DEF Link, Reads, MovedAside, Judging, Plain, Changing
  <2>2. CASE i = k
    <3>1. P[i + 1] = B[1] /\ TailCall(B, 1) /\ P[i].call \in Plain /\ ~P[i].started /\ ~P[i].artifact
      BY <1>1, <1>2, <2>2 DEF EndRun
    <3> QED
      BY <3>1 DEF Link, Reads, MovedAside, Judging, Plain, Changing, TailCall
  <2>3. CASE i > k
    <3>0. i \in Int /\ k \in Int /\ Len(B) \in Int /\ i >= 1 /\ i <= k + Len(B) - 1
      BY <1>1
    <3>1. i - k \in 1 .. Len(B) /\ i - k + 1 \in 1 .. Len(B) /\ i = k + (i - k) /\ i + 1 = k + (i - k + 1)
          /\ i - k + 1 > 1 /\ (i - k + 1) - 1 = i - k
      BY <3>0, <2>3
    <3>2. P[i] = B[i - k] /\ P[i + 1] = B[i - k + 1] /\ TailCall(B, i - k + 1)
      BY <1>1, <3>1 DEF EndRun
    <3> QED
      BY <3>1, <3>2 DEF TailCall
  <2> QED
    BY <1>1, <2>1, <2>2, <2>3
<1> QED
  BY <1>1, <1>3, <1>9, <1>10, EmptySeq DEF ProgramFacts, P

\* ----------------------------------------------------------------------- the tails
LEMMA DeleteTail ==
  ASSUME job = "delete", stage = "activation"
  PROVE  EndRun(Document!DeleteDisplaced) /\ Document!DeleteDisplaced[1].call = "displace"
<1> DEFINE D == <<Document!Call("displace", "target")>>
           L == <<Document!Call("open", "temp"), Document!Call("peek", "temp"), Document!Call("judge", "temp")>>
           U == <<Document!Call("unlink", "temp")>>
           C == D \o Document!Started(L)
           B == C \o Document!Carrying(U)
<1>1. /\ D \in Seq(Calls) /\ L \in Seq(Calls) /\ U \in Seq(Calls)
      /\ Len(D) = 1 /\ Len(L) = 3 /\ Len(U) = 1
      /\ D[1] = Document!Call("displace", "target") /\ U[1] = Document!Call("unlink", "temp")
      /\ L[1] = Document!Call("open", "temp") /\ L[2] = Document!Call("peek", "temp") /\ L[3] = Document!Call("judge", "temp")
  BY CallIs, NamesAre DEF Words, Plain
<1> HIDE DEF D, L, U
<1>2. /\ Document!Started(L) \in Seq(Calls) /\ Len(Document!Started(L)) = 3
      /\ \A i \in 1 .. 3 : /\ Document!Started(L)[i].call = L[i].call /\ Document!Started(L)[i].name = L[i].name
                           /\ Document!Started(L)[i].started /\ Document!Started(L)[i].artifact = L[i].artifact
  BY <1>1, StartedIs
<1>3. /\ Document!Carrying(U) \in Seq(Calls) /\ Len(Document!Carrying(U)) = 1
      /\ Document!Carrying(U)[1].call = "unlink" /\ Document!Carrying(U)[1].name = "temp"
      /\ Document!Carrying(U)[1].started /\ Document!Carrying(U)[1].artifact
  BY <1>1, CarryingIs DEF Document!Call
<1>4. Joins(C, D, Document!Started(L)) /\ Joins(B, C, Document!Carrying(U))
  <2>1. Joins(C, D, Document!Started(L))
    BY <1>1, <1>2, JoinsIs
  <2>2. C \in Seq(Calls)
    BY <2>1 DEF Joins
  <2> QED
    BY <1>3, <2>1, <2>2, JoinsIs
<1> HIDE DEF B, C
<1>5. /\ B \in Seq(Calls) /\ Len(B) = 5
      /\ B[1] = D[1] /\ B[2] = Document!Started(L)[1] /\ B[3] = Document!Started(L)[2] /\ B[4] = Document!Started(L)[3]
      /\ B[5] = Document!Carrying(U)[1]
  <2>1. Len(C) = 4 /\ C[1] = D[1] /\ C[2] = Document!Started(L)[1] /\ C[3] = Document!Started(L)[2] /\ C[4] = Document!Started(L)[3]
    BY <1>1, <1>2, <1>4 DEF Joins
  <2>2. Len(B) = 5 /\ (\A i \in 1 .. 4 : B[i] = C[i]) /\ B \in Seq(Calls)
    <3>1. Len(B) = Len(C) + Len(Document!Carrying(U)) /\ B \in Seq(Calls)
      BY <1>4 DEF Joins
    <3>2. Len(B) = 5
      BY <1>3, <2>1, <3>1
    <3>3. \A i \in 1 .. 4 : B[i] = C[i]
      BY <1>4, <2>1 DEF Joins
    <3> QED
      BY <3>1, <3>2, <3>3
  <2>3. B[Len(B)] = Document!Carrying(U)[1]
    BY <1>3, <1>4, LastOf DEF Joins
  <2> QED
    BY <2>1, <2>2, <2>3
<1>6. /\ B[1].call = "displace" /\ ~B[1].started /\ ~B[1].artifact
      /\ B[2].call = "open" /\ B[3].call = "peek" /\ B[4].call = "judge" /\ B[5].call = "unlink"
      /\ \A i \in 2 .. 5 : B[i].name = "temp" /\ B[i].started
      /\ \A i \in 2 .. 4 : ~B[i].artifact
      /\ B[5].artifact
  BY <1>1, <1>2, <1>3, <1>5 DEF Document!Call
<1>7. ASSUME NEW t \in 1 .. 5 PROVE TailCall(B, t)
  <2>1. t = 1 \/ t = 2 \/ t = 3 \/ t = 4 \/ t = 5
    OBVIOUS
  <2> QED
    BY <1>5, <1>6, <2>1 DEF TailCall, Link, Reads, MovedAside, Judging, Changing, Plain
<1>8. Document!DeleteDisplaced = B
  BY DEF Document!DeleteDisplaced, B, C, D, L, U
<1>9. EndRun(B)
  <2>1. B \in Seq(Calls) /\ Len(B) = 5
    BY <1>5
  <2>2. B # <<>>
    BY <2>1, NotEmpty
  <2> QED
    BY <1>7, <2>1, <2>2 DEF EndRun
<1> QED
  BY <1>6, <1>8, <1>9

\* Looks that carry the artifact, and the unlinking.
LEMMA ArtifactPart ==
  /\ Document!RemoveArtifact \in Seq(Calls) /\ Len(Document!RemoveArtifact) = 6
  /\ \A i \in 1 .. 6 : Document!RemoveArtifact[i].started /\ Document!RemoveArtifact[i].artifact
  /\ \A i \in 1 .. 5 : Document!RemoveArtifact[i].call \in Plain \ {"stat", "open", "read"}
  /\ \A i \in 1 .. 5 : Document!RemoveArtifact[i].call = "gone" => Document!RemoveArtifact[i].name = "target"
  /\ Document!RemoveArtifact[6].call = "unlink"
<1> DEFINE G == Document!Gone("target")
           E == G \o Document!Evidence
           F == E \o G
           H == F \o Document!Unchanged("temp")
           K == <<Document!Call("unlink", "temp")>>
           L == H \o K
<1>1. Run(G, {"target"}, {}) /\ Run(Document!Evidence, {"target"}, {}) /\ Len(G) = 1 /\ Len(Document!Evidence) = 2
  BY Parts, NamesAre
<1>2. Run(E, {"target"}, {})
  BY <1>1, RunJoin
<1>3. Run(F, {"target"}, {})
  BY <1>1, <1>2, RunJoin
<1>4. /\ Document!Unchanged("temp") \in Seq(Calls) /\ Len(Document!Unchanged("temp")) = 1
      /\ Document!Unchanged("temp")[1] = Document!Call("restat", "temp")
      /\ K \in Seq(Calls) /\ Len(K) = 1 /\ K[1] = Document!Call("unlink", "temp")
  BY CallIs, NamesAre DEF Document!Unchanged, Words, Plain
<1>5. G \in Seq(Calls) /\ Document!Evidence \in Seq(Calls) /\ E \in Seq(Calls) /\ F \in Seq(Calls)
  BY <1>1, <1>2, <1>3 DEF Run
<1>6. /\ Joins(E, G, Document!Evidence) /\ Joins(F, E, G) /\ Joins(H, F, Document!Unchanged("temp")) /\ Joins(L, H, K)
  <2>1. Joins(E, G, Document!Evidence) /\ Joins(F, E, G) /\ Joins(H, F, Document!Unchanged("temp"))
    BY <1>4, <1>5, JoinsIs
  <2>2. H \in Seq(Calls)
    BY <2>1 DEF Joins
  <2> QED
    BY <1>4, <2>1, <2>2, JoinsIs
<1>7. Document!RemoveArtifact = Document!Carrying(L)
  BY DEF Document!RemoveArtifact, L, K, H, F, E, G
<1> HIDE DEF L, K, H, F, E, G
<1>8. /\ Len(F) = 4
      /\ \A i \in 1 .. 4 : F[i].call \in Plain \ {"stat", "open", "read"}
      /\ \A i \in 1 .. 4 : F[i].call = "gone" => F[i].name = "target"
  <2>1. Len(F) = 4
    BY <1>1, <1>6 DEF Joins
  <2> QED
    BY <1>3, <2>1 DEF Run
<1>9. /\ L \in Seq(Calls) /\ Len(L) = 6
      /\ \A i \in 1 .. 5 : L[i].call \in Plain \ {"stat", "open", "read"}
      /\ \A i \in 1 .. 5 : L[i].call = "gone" => L[i].name = "target"
      /\ L[6].call = "unlink"
  <2>1. Len(H) = 5 /\ (\A i \in 1 .. 4 : H[i] = F[i]) /\ H[5] = Document!Call("restat", "temp")
    <3>1. Len(H) = Len(F) + 1
      BY <1>4, <1>6 DEF Joins
    <3>0. H[Len(H)] = Document!Call("restat", "temp")
      <4>1. Document!Unchanged("temp") # <<>> /\ Document!Unchanged("temp")[Len(Document!Unchanged("temp"))] = Document!Call("restat", "temp")
        BY <1>4, NotEmpty
      <4> QED
        BY <1>4, <1>5, <1>6, <4>1, LastOf
    <3>2. \A i \in 1 .. 4 : H[i] = F[i]
      BY <1>6, <1>8 DEF Joins
    <3> QED
      BY <1>8, <3>0, <3>1, <3>2
  <2>2. L \in Seq(Calls) /\ Len(L) = 6 /\ (\A i \in 1 .. 5 : L[i] = H[i]) /\ L[6] = Document!Call("unlink", "temp")
    <3>1. L[Len(L)] = Document!Call("unlink", "temp") /\ Len(L) = Len(H) + 1
      BY <1>4, <1>6, LastOf DEF Joins
    <3>2. L \in Seq(Calls) /\ \A i \in 1 .. 5 : L[i] = H[i]
      BY <1>6, <2>1 DEF Joins
    <3> QED
      BY <2>1, <3>1, <3>2
  <2>3. \A i \in 1 .. 5 : i \in 1 .. 4 \/ i = 5
    OBVIOUS
  <2>7. \A i \in 1 .. 4 : L[i] = F[i]
    BY <2>1, <2>2
  <2>8. L[5] = Document!Call("restat", "temp")
    BY <2>1, <2>2
  <2>4. \A i \in 1 .. 5 : L[i].call \in Plain \ {"stat", "open", "read"}
    <3>1. \A i \in 1 .. 4 : L[i].call \in Plain \ {"stat", "open", "read"}
      BY <1>8, <2>7
    <3> QED
      BY <2>3, <2>8, <3>1 DEF Document!Call, Plain
  <2>5. \A i \in 1 .. 5 : L[i].call = "gone" => L[i].name = "target"
    <3>1. \A i \in 1 .. 4 : L[i].call = "gone" => L[i].name = "target"
      BY <1>8, <2>7
    <3> QED
      BY <2>3, <2>8, <3>1 DEF Document!Call
  <2>6. L[6].call = "unlink"
    BY <2>2 DEF Document!Call
  <2> QED
    BY <2>2, <2>4, <2>5, <2>6
<1>10. /\ Document!Carrying(L) \in Seq(Calls) /\ Len(Document!Carrying(L)) = 6
       /\ \A i \in 1 .. 6 : /\ Document!Carrying(L)[i].call = L[i].call /\ Document!Carrying(L)[i].name = L[i].name
                             /\ Document!Carrying(L)[i].started /\ Document!Carrying(L)[i].artifact
  BY <1>9, CarryingIs
<1>11. ASSUME NEW i \in 1 .. 5
       PROVE  /\ Document!Carrying(L)[i].call \in Plain \ {"stat", "open", "read"}
              /\ Document!Carrying(L)[i].call = "gone" => Document!Carrying(L)[i].name = "target"
  <2>1. Document!Carrying(L)[i].call = L[i].call /\ Document!Carrying(L)[i].name = L[i].name
    BY <1>10
  <2>2. L[i].call \in Plain \ {"stat", "open", "read"}
    BY <1>9
  <2>3. L[i].call = "gone" => L[i].name = "target"
    BY <1>9
  <2> QED
    BY <2>1, <2>2, <2>3
<1>12. Document!Carrying(L)[6].call = "unlink"
  BY <1>9, <1>10
<1> QED
  BY <1>7, <1>10, <1>11, <1>12

\* The last looks at both names.
LEMMA FinishPart ==
  /\ Document!RemoveFinish \in Seq(Calls) /\ Len(Document!RemoveFinish) = 6
  /\ \A i \in 1 .. 6 : /\ Document!RemoveFinish[i].started /\ ~Document!RemoveFinish[i].artifact
                        /\ Document!RemoveFinish[i].call \in Plain \ {"stat", "restat", "open", "read"}
<1> DEFINE both == {"target", "temp"}
           T == Document!Gone("target")
           U == Document!Gone("temp")
           A == U \o T
           B == A \o Document!Evidence
           C == B \o T
           D == C \o U
<1>1. /\ Run(T, both, {}) /\ Run(U, both, {}) /\ Run(Document!Evidence, both, {})
      /\ Len(T) = 1 /\ Len(U) = 1 /\ Len(Document!Evidence) = 2
  BY Parts, NamesAre
<1>2. Run(A, both, {})
  BY <1>1, RunJoin
<1>3. Run(B, both, {})
  BY <1>1, <1>2, RunJoin
<1>4. Run(C, both, {})
  BY <1>1, <1>3, RunJoin
<1>5. Run(D, both, {})
  BY <1>1, <1>4, RunJoin
<1>6. /\ T \in Seq(Calls) /\ U \in Seq(Calls) /\ Document!Evidence \in Seq(Calls) /\ A \in Seq(Calls)
      /\ B \in Seq(Calls) /\ C \in Seq(Calls) /\ D \in Seq(Calls)
  BY <1>1, <1>2, <1>3, <1>4, <1>5 DEF Run
<1>7. Joins(A, U, T) /\ Joins(B, A, Document!Evidence) /\ Joins(C, B, T) /\ Joins(D, C, U)
  BY <1>6, JoinsIs
<1>8. Document!RemoveFinish = Document!Started(D)
  BY DEF Document!RemoveFinish, A, B, C, D, T, U
<1> HIDE DEF A, B, C, D, T, U
<1>9. Len(D) = 6
  BY <1>1, <1>7 DEF Joins
<1>10. \A i \in 1 .. 6 : ~D[i].artifact /\ D[i].call \in Plain \ {"stat", "restat", "open", "read"}
  BY <1>5, <1>9 DEF Run
<1>11. /\ Document!Started(D) \in Seq(Calls) /\ Len(Document!Started(D)) = 6
       /\ \A i \in 1 .. 6 : /\ Document!Started(D)[i].call = D[i].call
                            /\ Document!Started(D)[i].started /\ Document!Started(D)[i].artifact = D[i].artifact
  BY <1>6, <1>9, StartedIs
<1> QED
  BY <1>8, <1>10, <1>11

LEMMA DisplacedPart ==
  LET B == Document!RemoveDisplaced IN
  /\ B \in Seq(Calls) /\ Len(B) = 6
  /\ B[1].call = "displace" /\ ~B[1].started /\ ~B[1].artifact
  /\ B[2].call = "stat" /\ B[3].call = "open" /\ B[4].call = "peek" /\ B[5].call = "restat"
  /\ B[6].call = "judge"
  /\ \A i \in 2 .. 6 : B[i].name = "temp" /\ B[i].started /\ ~B[i].artifact
<1> DEFINE D == <<Document!Call("displace", "target")>>
           L == <<Document!Call("stat", "temp"), Document!Call("open", "temp"), Document!Call("peek", "temp"),
                  Document!Call("restat", "temp"), Document!Call("judge", "temp")>>
           B == D \o Document!Started(L)
<1>1. /\ D \in Seq(Calls) /\ L \in Seq(Calls)
      /\ Len(D) = 1 /\ Len(L) = 5
      /\ D[1] = Document!Call("displace", "target")
      /\ L[1] = Document!Call("stat", "temp") /\ L[2] = Document!Call("open", "temp") /\ L[3] = Document!Call("peek", "temp")
      /\ L[4] = Document!Call("restat", "temp") /\ L[5] = Document!Call("judge", "temp")
  BY CallIs, NamesAre DEF Words, Plain
<1> HIDE DEF D, L
<1>2. /\ Document!Started(L) \in Seq(Calls) /\ Len(Document!Started(L)) = 5
      /\ \A i \in 1 .. 5 : /\ Document!Started(L)[i].call = L[i].call /\ Document!Started(L)[i].name = L[i].name
                           /\ Document!Started(L)[i].started /\ Document!Started(L)[i].artifact = L[i].artifact
  BY <1>1, StartedIs
<1>3. Joins(B, D, Document!Started(L))
  BY <1>1, <1>2, JoinsIs
<1> HIDE DEF B
<1>5. /\ B \in Seq(Calls) /\ Len(B) = 6
      /\ B[1] = D[1] /\ B[2] = Document!Started(L)[1] /\ B[3] = Document!Started(L)[2] /\ B[4] = Document!Started(L)[3]
      /\ B[5] = Document!Started(L)[4] /\ B[6] = Document!Started(L)[5]
  BY <1>1, <1>2, <1>3 DEF Joins
<1>6. /\ B[1].call = "displace" /\ ~B[1].started /\ ~B[1].artifact
      /\ B[2].call = "stat" /\ B[3].call = "open" /\ B[4].call = "peek" /\ B[5].call = "restat"
      /\ B[6].call = "judge"
      /\ \A i \in 2 .. 6 : B[i].name = "temp" /\ B[i].started /\ ~B[i].artifact
  BY <1>1, <1>2, <1>5 DEF Document!Call
<1>7. Document!RemoveDisplaced = B
  BY DEF Document!RemoveDisplaced, B, D, L
<1> QED
  BY <1>5, <1>6, <1>7

LEMMA RemoveTail ==
  ASSUME job = "remove", stage = "recovery"
  PROVE  LET B == (Document!RemoveDisplaced \o Document!RemoveArtifact) \o Document!RemoveFinish
         IN  EndRun(B) /\ B[1].call = "displace"
<1> DEFINE D == Document!RemoveDisplaced
           A == Document!RemoveArtifact
           F == Document!RemoveFinish
           C == D \o A
           B == C \o F
<1>1. Joins(C, D, A)
  BY DisplacedPart, ArtifactPart, JoinsIs
<1>2. Joins(B, C, F)
  <2>1. C \in Seq(Calls)
    BY <1>1 DEF Joins
  <2> QED
    BY <2>1, FinishPart, JoinsIs
<1>3. Len(D) = 6 /\ Len(A) = 6 /\ Len(F) = 6
  BY DisplacedPart, ArtifactPart, FinishPart
<1>4. /\ D[1].call = "displace" /\ ~D[1].started /\ ~D[1].artifact
      /\ D[2].call = "stat" /\ D[3].call = "open" /\ D[4].call = "peek" /\ D[5].call = "restat"
      /\ D[6].call = "judge"
      /\ \A i \in 2 .. 6 : D[i].name = "temp" /\ D[i].started /\ ~D[i].artifact
  BY DisplacedPart
<1>5. /\ \A i \in 1 .. 6 : A[i].started /\ A[i].artifact
      /\ \A i \in 1 .. 5 : A[i].call \in Plain \ {"stat", "open", "read"}
      /\ \A i \in 1 .. 5 : A[i].call = "gone" => A[i].name = "target"
      /\ A[6].call = "unlink"
  BY ArtifactPart
<1>6. \A i \in 1 .. 6 : /\ F[i].started /\ ~F[i].artifact
                        /\ F[i].call \in Plain \ {"stat", "restat", "open", "read"}
  BY FinishPart
<1>16. /\ \A i \in 1 .. 5 : A[i].call \in Plain \ {"stat", "open", "read"}
       /\ \A i \in 1 .. 5 : A[i].call = "gone" => A[i].name = "target"
  BY <1>5
<1> HIDE DEF A, B, C, D, F
<1>7. B \in Seq(Calls) /\ Len(C) = 12 /\ Len(B) = 18
  BY <1>1, <1>2, <1>3 DEF Joins
<1>8. /\ \A i \in 1 .. 6 : B[i] = D[i]
      /\ \A i \in 1 .. 6 : B[6 + i] = A[i]
      /\ \A i \in 1 .. 6 : B[12 + i] = F[i]
  <2>1. \A i \in 1 .. 12 : B[i] = C[i]
    BY <1>2, <1>7 DEF Joins
  <2>2. (\A i \in 1 .. 6 : C[i] = D[i]) /\ \A i \in 1 .. 6 : C[6 + i] = A[i]
    BY <1>1, <1>3 DEF Joins
  <2>3. \A i \in 1 .. 6 : i \in 1 .. 12 /\ 6 + i \in 1 .. 12
    OBVIOUS
  <2>4. \A i \in 1 .. 6 : B[12 + i] = F[i]
    BY <1>2, <1>3, <1>7 DEF Joins
  <2> QED
    BY <2>1, <2>2, <2>3, <2>4
<1>9. ASSUME NEW t \in 1 .. 6 PROVE TailCall(B, t)
  <2>1. t = 1 \/ t = 2 \/ t = 3 \/ t = 4 \/ t = 5 \/ t = 6
    OBVIOUS
  <2>2. /\ B[1] = D[1] /\ B[2] = D[2] /\ B[3] = D[3] /\ B[4] = D[4] /\ B[5] = D[5] /\ B[6] = D[6]
    BY <1>8
  <2> QED
    BY <1>4, <1>7, <2>1, <2>2 DEF TailCall, Link, Reads, MovedAside, Judging, Changing, Plain
<1>10. ASSUME NEW t \in 1 .. 6 PROVE TailCall(B, 6 + t)
  <2>1. B[6 + t] = A[t] /\ 6 + t > 1 /\ (6 + t) - 1 = 6 + (t - 1) /\ 6 + t < Len(B)
    BY <1>7, <1>8
  <2>2. CASE t = 1
    <3>1. B[(6 + t) - 1] = D[6]
      BY <1>8, <2>2
    <3>2. /\ A[t].call \in Plain \ {"stat", "open", "read"}
          /\ A[t].call = "gone" => A[t].name = "target"
      BY <1>16, <2>2
    <3> QED
      BY <1>4, <1>5, <2>1, <3>1, <3>2 DEF TailCall, Link, Reads, MovedAside, Judging, Changing, Plain
  <2>3. CASE t > 1
    <3>1. B[(6 + t) - 1] = A[t - 1] /\ t - 1 \in 1 .. 5
      <4>1. t - 1 \in 1 .. 6 /\ t - 1 \in 1 .. 5
        BY <2>3
      <4> QED
        BY <1>8, <2>1, <4>1
    <3>2. /\ A[t].call \in {"unlink"} \cup (Plain \ {"stat", "open", "read"})
          /\ A[t].call = "gone" => A[t].name = "target"
      <4>1. t \in 1 .. 5 \/ t = 6
        OBVIOUS
      <4>2. CASE t \in 1 .. 5
        BY <1>16, <4>2
      <4>3. CASE t = 6
        BY <1>5, <4>3
      <4> QED
        BY <4>1, <4>2, <4>3
    <3>3. A[t - 1].call \notin Changing
      BY <1>16, <3>1 DEF Changing, Plain
    <3>4. A[t - 1].artifact /\ A[t].artifact /\ A[t].started
      BY <1>5, <3>1
    <3> QED
      BY <2>1, <3>1, <3>2, <3>3, <3>4 DEF TailCall, Link, Reads, MovedAside, Judging, Plain
  <2> QED
    BY <2>2, <2>3
<1>11. ASSUME NEW t \in 1 .. 6 PROVE TailCall(B, 12 + t)
  <2>1. B[12 + t] = F[t] /\ 12 + t > 1
    BY <1>8
  <2> QED
    BY <1>6, <2>1 DEF TailCall, Link, Reads, MovedAside, Judging, Plain
<1>12. \A t \in 1 .. 18 : TailCall(B, t)
  <2>1. ASSUME NEW t \in 1 .. 18
        PROVE  t \in 1 .. 6 \/ (t - 6 \in 1 .. 6 /\ t = 6 + (t - 6)) \/ (t - 12 \in 1 .. 6 /\ t = 12 + (t - 12))
    OBVIOUS
  <2>2. ASSUME NEW t \in 1 .. 18 PROVE TailCall(B, t)
    BY <1>9, <1>10, <1>11, <2>1
  <2> QED
    BY <2>2
<1>13. B[1].call = "displace"
  BY <1>4, <1>8
<1>14. EndRun(B)
  BY <1>7, <1>12, NotEmpty DEF EndRun
<1>15. B = (Document!RemoveDisplaced \o Document!RemoveArtifact) \o Document!RemoveFinish
  BY DEF B, C, D, A, F
<1> QED
  BY <1>13, <1>14, <1>15

\* ----------------------------------------------------------- the jobs, one by one
LEMMA SingleRuns ==
  ASSUME NEW n \in Document!Names, NEW absent, NEW readable, NEW c \in {"bind", "matches", "bound"}
  PROVE  Run(<<Document!Call(c, n)>>, absent, readable) /\ Len(<<Document!Call(c, n)>>) = 1
BY Parts DEF Plain, Words

\* The evidence, and looks at the temporary name.
LEMMA ShortRuns ==
  ASSUME NEW absent, NEW readable, "temp" \in absent
  PROVE  /\ Run(Document!Evidence \o Document!Gone("temp"), absent, readable) /\ Document!Evidence \o Document!Gone("temp") # <<>>
         /\ Run(Document!Gone("temp") \o Document!Evidence, absent, readable) /\ Document!Gone("temp") \o Document!Evidence # <<>>
         /\ Run(<<>> \o Document!Gone("temp"), absent, readable) /\ <<>> \o Document!Gone("temp") # <<>>
         /\ Run(<<>> \o Document!Evidence, absent, readable) /\ <<>> \o Document!Evidence # <<>>
         /\ Run(Document!Evidence \o <<>>, absent, readable) /\ Document!Evidence \o <<>> # <<>>
<1>1. /\ Run(Document!Gone("temp"), absent, readable) /\ Run(Document!Evidence, absent, readable)
      /\ Len(Document!Gone("temp")) = 1 /\ Len(Document!Evidence) = 2
  BY Parts, NamesAre
<1>2. <<>> \in Seq(Calls) /\ Len(<<>>) = 0
  OBVIOUS
<1>3. Run(<<>>, absent, readable)
  BY <1>2 DEF Run
<1>4. /\ Document!Gone("temp") \in Seq(Calls) /\ Document!Evidence \in Seq(Calls)
  BY <1>1 DEF Run
<1> DEFINE G == Document!Gone("temp")
           E == Document!Evidence
           N == <<>>
<1>5. /\ Run(E \o G, absent, readable) /\ Run(G \o E, absent, readable) /\ Run(N \o G, absent, readable)
      /\ Run(N \o E, absent, readable) /\ Run(E \o N, absent, readable)
  BY <1>1, <1>3, RunJoin
<1>6. Len(E \o G) = 3 /\ Len(G \o E) = 3 /\ Len(N \o G) = 1 /\ Len(N \o E) = 2 /\ Len(E \o N) = 2
  BY <1>1, <1>2, <1>4, JoinIs
<1> HIDE DEF G, E, N
<1>7. E \o G # <<>> /\ G \o E # <<>> /\ N \o G # <<>> /\ N \o E # <<>> /\ E \o N # <<>>
  BY <1>5, <1>6, NotEmpty DEF Run
<1> QED
  BY <1>5, <1>7 DEF G, E, N

LEMMA BindRuns ==
  ASSUME NEW absent, NEW readable, "temp" \in readable
  PROVE  /\ Run(Document!Bind, absent, readable) /\ Document!Bind # <<>>
         /\ Run(Document!Rebind, absent, readable) /\ Document!Rebind # <<>>
         /\ Has(Document!Rebind, "read", "temp")
<1> DEFINE E == Document!Evidence
           O == Document!Observe("temp")
           U == Document!Unchanged("temp")
           R == Document!ReadFile("temp")
           B == <<Document!Call("bind", "temp")>>
           M == <<Document!Call("matches", "temp")>>
<1>1. /\ Run(E, absent, readable) /\ Run(O, absent, readable) /\ Run(U, absent, readable)
      /\ Run(R, absent, readable) /\ Run(B, absent, readable) /\ Run(M, absent, readable)
      /\ Has(O, "read", "temp")
  BY Parts, ObserveRuns, NamesAre DEF Plain
<1>2. Len(B) = 1 /\ Len(M) = 1
  OBVIOUS
<1> DEFINE A == E \o O
           C == ((E \o U) \o R) \o U
           D == A \o C
<1> HIDE DEF B, M, E, O, U, R
<1>3. Run(A, absent, readable)
  BY <1>1, RunJoin
<1>4. Run(E \o U, absent, readable)
  BY <1>1, RunJoin
<1>5. Run((E \o U) \o R, absent, readable)
  BY <1>1, <1>4, RunJoin
<1>6. Run(C, absent, readable)
  BY <1>1, <1>5, RunJoin
<1>7. Run(D, absent, readable)
  BY <1>3, <1>6, RunJoin
<1>8. /\ D \in Seq(Calls) /\ B \in Seq(Calls) /\ M \in Seq(Calls) /\ A \in Seq(Calls)
      /\ C \in Seq(Calls) /\ E \in Seq(Calls) /\ O \in Seq(Calls)
  BY <1>1, <1>3, <1>6, <1>7, RunIs
<1>9. Has(A, "read", "temp")
  BY <1>1, <1>8, HasJoin
<1>10. Has(D, "read", "temp")
  BY <1>8, <1>9, HasJoin
<1> HIDE DEF D
<1>11. Run(D \o B, absent, readable) /\ Run(D \o M, absent, readable)
  BY <1>1, <1>7, RunJoin
<1>12. Has(D \o M, "read", "temp")
  BY <1>8, <1>10, HasJoin
<1>13. Len(D \o B) = Len(D) + 1 /\ Len(D \o M) = Len(D) + 1 /\ Len(D) \in Nat
  <2>1. Len(D \o B) = Len(D) + Len(B) /\ Len(D \o M) = Len(D) + Len(M)
    BY <1>8, JoinIs
  <2>2. Len(D) \in Nat
    BY <1>7, RunIs
  <2> QED
    BY <1>2, <2>1, <2>2
<1>14. D \o B # <<>> /\ D \o M # <<>>
  BY <1>11, <1>13, NotEmpty, RunIs
<1>15. Document!Bind = D \o B /\ Document!Rebind = D \o M
  BY DEF Document!Bind, Document!Rebind, Document!BindArtifact, Document!BindArtifactAgain, A, C, D, E, O, U, R, B, M
<1> QED
  BY <1>11, <1>12, <1>14, <1>15

LEMMA PlainJobs ==
  ASSUME job \in {"begin", "bind", "guard", "confirm", "leave", "tidy"}
  PROVE  ProgramFacts(Document!Code)
<1>1. CASE job \in {"begin", "guard", "leave", "tidy"}
  <2>1. PICK P : P = Document!Code
    OBVIOUS
  <2>2. Run(P, {"temp"}, {}) /\ P # <<>>
    <3>1. "temp" \in {"temp"}
      OBVIOUS
    <3>2. \/ P = Document!Evidence \o Document!Gone("temp") \/ P = Document!Gone("temp") \o Document!Evidence \/ P = <<>> \o Document!Gone("temp")
          \/ P = <<>> \o Document!Evidence \/ P = Document!Evidence \o <<>>
      BY <1>1, <2>1 DEF Document!Code, Document!Guard, Document!Leave
    <3>3. /\ Run(Document!Evidence \o Document!Gone("temp"), {"temp"}, {}) /\ Document!Evidence \o Document!Gone("temp") # <<>>
          /\ Run(Document!Gone("temp") \o Document!Evidence, {"temp"}, {}) /\ Document!Gone("temp") \o Document!Evidence # <<>>
          /\ Run(<<>> \o Document!Gone("temp"), {"temp"}, {}) /\ <<>> \o Document!Gone("temp") # <<>>
          /\ Run(<<>> \o Document!Evidence, {"temp"}, {}) /\ <<>> \o Document!Evidence # <<>>
          /\ Run(Document!Evidence \o <<>>, {"temp"}, {}) /\ Document!Evidence \o <<>> # <<>>
      BY <3>1, ShortRuns
    <3> QED
      BY <3>2, <3>3
  <2>3. {"temp"} \cap {} = {}
    OBVIOUS
  <2> QED
    BY <1>1, <2>1, <2>2, <2>3, PlainFacts
<1>2. CASE job = "bind"
  <2>1. Document!Code = Document!Evidence \o Document!Bind
    BY <1>2 DEF Document!Code
  <2>2. /\ Run(Document!Evidence, {}, {"temp"}) /\ Len(Document!Evidence) = 2
        /\ Run(Document!Bind, {}, {"temp"})
    BY Parts, NamesAre, BindRuns
  <2>3. Run(Document!Code, {}, {"temp"})
    BY <2>1, <2>2, RunJoin
  <2>4. Len(Document!Code) = 2 + Len(Document!Bind) /\ Len(Document!Bind) \in Nat
    <3>1. Document!Evidence \in Seq(Calls) /\ Document!Bind \in Seq(Calls) /\ Len(Document!Bind) \in Nat
      BY <2>2, RunIs
    <3>2. Len(Document!Evidence \o Document!Bind) = Len(Document!Evidence) + Len(Document!Bind)
      BY <3>1, JoinIs
    <3> QED
      BY <2>1, <2>2, <3>1, <3>2
  <2>5. Document!Code # <<>>
    BY <2>3, <2>4, NotEmpty, RunIs
  <2>6. {} \cap {"temp"} = {}
    OBVIOUS
  <2> QED
    BY <1>2, <2>3, <2>5, <2>6, PlainFacts
<1>3. CASE job = "confirm"
  <2> DEFINE both == {"temp", "target"}
             A == Document!Evidence \o Document!Gone("temp")
             B == A \o Document!Gone("target")
  <2>1. Document!Code = B
    BY <1>3 DEF Document!Code, Document!ConfirmAbsent
  <2>2. Run(Document!Gone("target"), both, {}) /\ Len(Document!Gone("target")) = 1
    BY Parts, NamesAre
  <2>3. Run(A, both, {})
    BY ShortRuns
  <2>4. Run(B, both, {})
    BY <2>2, <2>3, RunJoin
  <2>5. Len(B) = Len(A) + 1 /\ Len(A) \in Nat
    <3>1. Document!Gone("target") \in Seq(Calls) /\ A \in Seq(Calls) /\ Len(A) \in Nat
      BY <2>2, <2>3, RunIs
    <3> HIDE DEF A
    <3>2. Len(A \o Document!Gone("target")) = Len(A) + Len(Document!Gone("target"))
      BY <3>1, JoinIs
    <3>3. Len(A \o Document!Gone("target")) = Len(A) + 1
      BY <2>2, <3>2
    <3> QED
      BY <3>1, <3>3
  <2>6. B # <<>>
    BY <2>4, <2>5, NotEmpty, RunIs
  <2>7. both \cap {} = {}
    OBVIOUS
  <2> QED
    BY <1>3, <2>1, <2>4, <2>6, <2>7, PlainFacts
<1> QED
  BY <1>1, <1>2, <1>3

LEMMA JoinAssociative ==
  ASSUME NEW P \in Seq(Calls), NEW Q \in Seq(Calls), NEW R \in Seq(Calls)
  PROVE  (P \o Q) \o R = P \o (Q \o R)
BY ConcatAssociative

LEMMA RunNotEmpty ==
  ASSUME NEW P, NEW absent, NEW readable, NEW c, NEW n, Run(P, absent, readable), Has(P, c, n)
  PROVE  P # <<>>
<1>1. P \in Seq(Calls) /\ Len(P) \in Nat /\ \E i \in 1 .. Len(P) : TRUE
  BY RunIs DEF Has
<1> QED
  BY <1>1, NotEmpty

LEMMA DeleteFacts ==
  ASSUME job = "delete", stage = "activation"
  PROVE  ProgramFacts(Document!Code)
<1> DEFINE A == Document!DeleteCheck
           B == Document!DeleteDisplaced
<1>1. /\ Run(Document!Gone("temp"), {"temp"}, {"target"}) /\ Has(Document!Gone("temp"), "gone", "temp")
      /\ Run(Document!Observe("target"), {"temp"}, {"target"}) /\ Has(Document!Observe("target"), "read", "target")
  BY Parts, ObserveRuns, NamesAre
<1>2. Document!Gone("temp") \in Seq(Calls) /\ Document!Observe("target") \in Seq(Calls)
  BY <1>1, RunIs
<1>3. Run(A, {"temp"}, {"target"})
  BY <1>1, RunJoin DEF Document!DeleteCheck
<1>4. Has(A, "gone", "temp") /\ Has(A, "read", "target")
  BY <1>1, <1>2, HasJoin DEF Document!DeleteCheck
<1>5. EndRun(B) /\ B[1].call = "displace"
  BY DeleteTail
<1>6. A # <<>>
  BY <1>3, <1>4, RunNotEmpty
<1>7. Document!Code = A \o B
  BY DEF Document!Code
<1>8. {"temp"} \cap {"target"} = {}
  OBVIOUS
<1> HIDE DEF A, B
<1>9. ProgramFacts(A \o B)
  BY <1>3, <1>4, <1>5, <1>6, <1>8, TailFacts
<1> QED
  BY <1>7, <1>9

LEMMA RemoveRuns ==
  /\ Run(Document!RemoveCheck \o Document!RemoveRecheck, {"temp"}, {"target"})
  /\ Has(Document!RemoveCheck \o Document!RemoveRecheck, "gone", "temp")
  /\ Has(Document!RemoveCheck \o Document!RemoveRecheck, "read", "target")
<1> DEFINE E == Document!Evidence
           G == Document!Gone("temp")
           O == Document!Observe("target")
           U == Document!Unchanged("target")
           R == Document!ReadFile("target")
           A == (E \o G) \o O
           B == ((((E \o G) \o U) \o R) \o U) \o G
<1>1. /\ Run(E, {"temp"}, {"target"}) /\ Run(G, {"temp"}, {"target"}) /\ Run(O, {"temp"}, {"target"})
      /\ Run(U, {"temp"}, {"target"}) /\ Run(R, {"temp"}, {"target"})
      /\ Has(G, "gone", "temp") /\ Has(O, "read", "target")
  BY Parts, ObserveRuns, NamesAre
<1>2. Document!RemoveCheck = A /\ Document!RemoveRecheck = B
  BY DEF Document!RemoveCheck, Document!RemoveRecheck
<1> HIDE DEF E, G, O, U, R
<1>3. Run(E \o G, {"temp"}, {"target"})
  BY <1>1, RunJoin
<1>4. Run(A, {"temp"}, {"target"})
  BY <1>1, <1>3, RunJoin
<1>5. Run((E \o G) \o U, {"temp"}, {"target"})
  BY <1>1, <1>3, RunJoin
<1>6. Run(((E \o G) \o U) \o R, {"temp"}, {"target"})
  BY <1>1, <1>5, RunJoin
<1>7. Run((((E \o G) \o U) \o R) \o U, {"temp"}, {"target"})
  BY <1>1, <1>6, RunJoin
<1>8. Run(B, {"temp"}, {"target"})
  BY <1>1, <1>7, RunJoin
<1>9. /\ E \in Seq(Calls) /\ G \in Seq(Calls) /\ E \o G \in Seq(Calls) /\ O \in Seq(Calls)
      /\ A \in Seq(Calls) /\ B \in Seq(Calls)
  BY <1>1, <1>3, <1>4, <1>8, RunIs
<1>10. Has(E \o G, "gone", "temp")
  BY <1>1, <1>9, HasJoin
<1>11. Has(A, "gone", "temp") /\ Has(A, "read", "target")
  BY <1>1, <1>9, <1>10, HasJoin
<1> HIDE DEF A, B
<1>12. Has(A \o B, "gone", "temp") /\ Has(A \o B, "read", "target")
  BY <1>9, <1>11, HasJoin
<1>13. Run(A \o B, {"temp"}, {"target"})
  BY <1>4, <1>8, RunJoin
<1> QED
  BY <1>2, <1>12, <1>13

LEMMA RemovalFacts ==
  ASSUME job = "remove", stage = "recovery"
  PROVE  ProgramFacts(Document!Code)
<1> DEFINE A == Document!RemoveCheck \o Document!RemoveRecheck
           D == Document!RemoveDisplaced
           F == Document!RemoveArtifact
           L == Document!RemoveFinish
           B == (D \o F) \o L
<1>1. Run(A, {"temp"}, {"target"}) /\ Has(A, "gone", "temp") /\ Has(A, "read", "target")
  BY RemoveRuns
<1>2. EndRun(B) /\ B[1].call = "displace"
  BY RemoveTail
<1>3. Document!Code = ((A \o D) \o F) \o L
  BY DEF Document!Code
<1>4. D \in Seq(Calls) /\ F \in Seq(Calls) /\ L \in Seq(Calls)
  BY DisplacedPart, ArtifactPart, FinishPart
<1> HIDE DEF A, D, F, L
<1>5. A \in Seq(Calls) /\ A # <<>>
  BY <1>1, RunIs, RunNotEmpty
<1>6. Document!Code = A \o B
  <2>1. A \o D \in Seq(Calls) /\ D \o F \in Seq(Calls)
    BY <1>4, <1>5, JoinIs
  <2>2. (A \o D) \o F = A \o (D \o F)
    BY <1>4, <1>5, JoinAssociative
  <2>3. (A \o (D \o F)) \o L = A \o B
    <3> DEFINE Q == D \o F
    <3>1. Q \in Seq(Calls)
      BY <2>1
    <3>2. B = Q \o L
      OBVIOUS
    <3> HIDE DEF Q, B
    <3>3. (A \o Q) \o L = A \o (Q \o L)
      BY <1>4, <1>5, <3>1, JoinAssociative
    <3>4. (A \o Q) \o L = A \o B
      BY <3>2, <3>3
    <3> QED
      BY <3>4 DEF Q
  <2> QED
    BY <1>3, <2>2, <2>3
<1>7. {"temp"} \cap {"target"} = {}
  OBVIOUS
<1> HIDE DEF B
<1>8. ProgramFacts(A \o B)
  BY <1>1, <1>2, <1>5, <1>7, TailFacts
<1> QED
  BY <1>6, <1>8

\* The unlinking of an artifact, and the last looks.
LEMMA UnlinkTail ==
  LET B == Document!Started(<<Document!Call("unlink", "temp")>> \o Document!Gone("temp"))
  IN  EndRun(B) /\ B[1].call = "unlink"
<1> DEFINE L == <<Document!Call("unlink", "temp")>> \o Document!Gone("temp")
           B == Document!Started(L)
<1>1. L \in Seq(Calls) /\ Len(L) = 2 /\ L[1] = Document!Call("unlink", "temp") /\ L[2] = Document!Call("gone", "temp")
  BY CallIs, NamesAre DEF Words, Plain, Document!Gone
<1> HIDE DEF L
<1>2. /\ B \in Seq(Calls) /\ Len(B) = 2
      /\ \A i \in 1 .. 2 : /\ B[i].call = L[i].call /\ B[i].name = L[i].name
                           /\ B[i].started /\ B[i].artifact = L[i].artifact
  BY <1>1, StartedIs
<1>3. /\ B[1].call = "unlink" /\ B[1].started /\ ~B[1].artifact
      /\ B[2].call = "gone" /\ B[2].started /\ ~B[2].artifact
  BY <1>1, <1>2 DEF Document!Call
<1> HIDE DEF B
<1>4. ASSUME NEW t \in 1 .. 2 PROVE TailCall(B, t)
  <2>1. t = 1 \/ t = 2
    OBVIOUS
  <2> QED
    BY <1>2, <1>3, <2>1 DEF TailCall, Link, Reads, MovedAside, Judging, Changing, Plain
<1>5. EndRun(B)
  <2>1. B # <<>>
    <3>1. B \in Seq(Calls) /\ Len(B) = 2
      BY <1>2
    <3>2. Len(B) > 0
      BY <3>1
    <3> QED
      BY <3>1, <3>2, NotEmpty
  <2>2. \A t \in 1 .. Len(B) : TailCall(B, t)
    BY <1>2, <1>4
  <2> QED
    BY <1>2, <2>1, <2>2 DEF EndRun
<1> QED
  BY <1>3, <1>5 DEF B, L

LEMMA UnlinkFinishTail ==
  LET B == Document!Started(<<Document!Call("unlink", "temp")>>) \o Document!RemoveFinish
  IN  EndRun(B) /\ B[1].call = "unlink"
<1> DEFINE K == <<Document!Call("unlink", "temp")>>
           D == Document!Started(K)
           F == Document!RemoveFinish
           B == D \o F
<1>1. K \in Seq(Calls) /\ Len(K) = 1 /\ K[1] = Document!Call("unlink", "temp")
  BY CallIs, NamesAre DEF Words, Plain
<1> HIDE DEF K
<1>2. /\ D \in Seq(Calls) /\ Len(D) = 1 /\ D[1].call = "unlink" /\ D[1].started /\ ~D[1].artifact
  BY <1>1, StartedIs DEF Document!Call
<1>3. /\ F \in Seq(Calls) /\ Len(F) = 6
      /\ \A i \in 1 .. 6 : /\ F[i].started /\ ~F[i].artifact
                           /\ F[i].call \in Plain \ {"stat", "restat", "open", "read"}
  BY FinishPart
<1> HIDE DEF D, F
<1>4. Joins(B, D, F)
  BY <1>2, <1>3, JoinsIs
<1> HIDE DEF B
<1>5. B \in Seq(Calls) /\ Len(B) = 7 /\ B[1] = D[1] /\ \A i \in 1 .. 6 : B[1 + i] = F[i]
  BY <1>2, <1>3, <1>4 DEF Joins
<1>6. ASSUME NEW t \in 1 .. 7 PROVE TailCall(B, t)
  <2>1. CASE t = 1
    BY <1>2, <1>5, <2>1 DEF TailCall
  <2>2. CASE t > 1
    <3>1. t - 1 \in 1 .. 6 /\ t = 1 + (t - 1)
      BY <2>2
    <3>2. B[t] = F[t - 1]
      BY <1>5, <3>1
    <3> QED
      BY <1>3, <2>2, <3>1, <3>2 DEF TailCall, Link, Reads, MovedAside, Judging, Plain
  <2> QED
    BY <2>1, <2>2
<1>7. EndRun(B)
  <2>1. B # <<>>
    <3>1. B \in Seq(Calls) /\ Len(B) = 7
      BY <1>5
    <3>2. Len(B) > 0
      BY <3>1
    <3> QED
      BY <3>1, <3>2, NotEmpty
  <2>2. \A t \in 1 .. Len(B) : TailCall(B, t)
    BY <1>5, <1>6
  <2> QED
    BY <1>5, <2>1, <2>2 DEF EndRun
<1> QED
  BY <1>2, <1>5, <1>7 DEF B, D, F, K

LEMMA CleanupFacts ==
  ASSUME job = "cleanup"
  PROVE  ProgramFacts(Document!Code)
<1> DEFINE both == {"target", "temp"}
           M == Document!Rebind
           E == Document!Evidence
           O == Document!Observe("target")
           K == <<Document!Call("bound", "temp")>>
           R == Document!ReadFile("temp")
           T == (E \o O) \o E
           W == (M \o T) \o M
           V == ((O \o K) \o R) \o K
           B == Document!Started(<<Document!Call("unlink", "temp")>> \o Document!Gone("temp"))
           A == W \o V
<1>1. /\ Run(M, {}, both) /\ Has(M, "read", "temp") /\ Run(E, {}, both) /\ Run(O, {}, both)
      /\ Run(K, {}, both) /\ Run(R, {}, both)
  BY BindRuns, Parts, ObserveRuns, SingleRuns, NamesAre
<1>2. Document!Code = W \o (V \o B)
  BY DEF Document!Code, Document!CleanupTarget, Document!CleanupUnlink
<1>3. EndRun(B) /\ B[1].call = "unlink"
  BY UnlinkTail
<1> HIDE DEF B, M, E, O, K, R
<1>4. Run(E \o O, {}, both)
  BY <1>1, RunJoin
<1>5. Run(T, {}, both)
  BY <1>1, <1>4, RunJoin
<1> HIDE DEF T
<1>6. Run(M \o T, {}, both)
  BY <1>1, <1>5, RunJoin
<1>7. Run(W, {}, both)
  BY <1>1, <1>6, RunJoin
<1>8. Run(O \o K, {}, both)
  BY <1>1, RunJoin
<1>9. Run((O \o K) \o R, {}, both)
  BY <1>1, <1>8, RunJoin
<1>10. Run(V, {}, both)
  BY <1>1, <1>9, RunJoin
<1>11. M \in Seq(Calls) /\ M \o T \in Seq(Calls) /\ W \in Seq(Calls) /\ V \in Seq(Calls) /\ B \in Seq(Calls)
  BY <1>1, <1>3, <1>6, <1>7, <1>10, RunIs DEF EndRun
<1>12. Has(W, "read", "temp")
  BY <1>1, <1>11, HasJoin
<1> HIDE DEF W, V
<1>13. Run(A, {}, both)
  BY <1>7, <1>10, RunJoin
<1>14. Has(A, "read", "temp")
  BY <1>11, <1>12, HasJoin
<1>15. Document!Code = A \o B
  BY <1>2, <1>11, JoinAssociative
<1> HIDE DEF A
<1>16. A # <<>> /\ {} \cap both = {}
  BY <1>13, <1>14, RunNotEmpty
<1>17. ProgramFacts(A \o B)
  BY <1>3, <1>13, <1>14, <1>16, TailFacts
<1> QED
  BY <1>15, <1>17

LEMMA CleanupRemovalFacts ==
  ASSUME job = "cleanupRemoval"
  PROVE  ProgramFacts(Document!Code)
<1> DEFINE a == {"target"}
           r == {"temp"}
           E == Document!Evidence
           G == Document!Gone("target")
           O == Document!Observe("temp")
           U == Document!Unchanged("temp")
           R == Document!ReadFile("temp")
           N == <<Document!Call("bind", "temp")>>
           M == <<Document!Call("matches", "temp")>>
           K == <<Document!Call("bound", "temp")>>
           H == ((E \o G) \o O) \o G
           I == ((((E \o G) \o U) \o R) \o U) \o G
           J == (H \o I) \o M
           C == (G \o E) \o G
           W == ((((H \o I) \o N) \o J) \o C) \o J
           V == (((G \o K) \o R) \o K) \o G
           D == Document!Started(<<Document!Call("unlink", "temp")>>)
           F == Document!RemoveFinish
           B == D \o F
           A == W \o V
<1>1. /\ Run(E, a, r) /\ Run(G, a, r) /\ Run(O, a, r) /\ Run(U, a, r) /\ Run(R, a, r)
      /\ Run(N, a, r) /\ Run(M, a, r) /\ Run(K, a, r) /\ Has(R, "read", "temp")
  BY Parts, ObserveRuns, SingleRuns, NamesAre
<1>2. Document!Code = W \o ((V \o D) \o F)
  BY DEF Document!Code, Document!BindRemoval, Document!BindRemovalAgain, Document!RebindRemoval, Document!CleanupRemovalCheck, Document!CleanupRemovalUnlink
<1>3. EndRun(B) /\ B[1].call = "unlink"
  BY UnlinkFinishTail
<1>4. D \in Seq(Calls) /\ F \in Seq(Calls)
  <2>1. <<Document!Call("unlink", "temp")>> \in Seq(Calls)
    BY CallIs, NamesAre DEF Words
  <2> QED
    BY <2>1, StartedIs, FinishPart
<1> HIDE DEF E, G, O, U, R, N, M, K, D, F
<1>5. Run(E \o G, a, r) /\ Run(G \o E, a, r) /\ Run(G \o K, a, r)
  BY <1>1, RunJoin
<1>6. Run((E \o G) \o O, a, r) /\ Run((E \o G) \o U, a, r)
  BY <1>1, <1>5, RunJoin
<1>7. Run(H, a, r) /\ Run(((E \o G) \o U) \o R, a, r)
  BY <1>1, <1>6, RunJoin
<1>8. Run((((E \o G) \o U) \o R) \o U, a, r)
  BY <1>1, <1>7, RunJoin
<1>9. Run(I, a, r)
  BY <1>1, <1>8, RunJoin
<1> HIDE DEF H, I
<1>10. Run(H \o I, a, r)
  BY <1>7, <1>9, RunJoin
<1>11. Run(J, a, r) /\ Run((H \o I) \o N, a, r)
  BY <1>1, <1>10, RunJoin
<1>12. Run(C, a, r)
  BY <1>1, <1>5, RunJoin
<1> HIDE DEF J, C
<1>13. Run(((H \o I) \o N) \o J, a, r)
  BY <1>11, RunJoin
<1>14. Run((((H \o I) \o N) \o J) \o C, a, r)
  BY <1>12, <1>13, RunJoin
<1>15. Run(W, a, r)
  BY <1>11, <1>14, RunJoin
<1> HIDE DEF W
<1>16. Run((G \o K) \o R, a, r)
  BY <1>1, <1>5, RunJoin
<1>17. Run(((G \o K) \o R) \o K, a, r)
  BY <1>1, <1>16, RunJoin
<1>18. Run(V, a, r)
  BY <1>1, <1>17, RunJoin
<1>19. Has(V, "read", "temp")
  <2>1. /\ G \o K \in Seq(Calls) /\ R \in Seq(Calls) /\ (G \o K) \o R \in Seq(Calls) /\ K \in Seq(Calls)
        /\ ((G \o K) \o R) \o K \in Seq(Calls) /\ G \in Seq(Calls)
    BY <1>1, <1>5, <1>16, <1>17, RunIs
  <2>2. Has((G \o K) \o R, "read", "temp")
    BY <1>1, <2>1, HasJoin
  <2>3. Has(((G \o K) \o R) \o K, "read", "temp")
    BY <2>1, <2>2, HasJoin
  <2> QED
    BY <2>1, <2>3, HasJoin
<1> HIDE DEF V
<1>20. W \in Seq(Calls) /\ V \in Seq(Calls) /\ B \in Seq(Calls)
  BY <1>3, <1>15, <1>18, RunIs DEF EndRun
<1>21. Run(A, a, r)
  BY <1>15, <1>18, RunJoin
<1>22. Has(A, "read", "temp")
  BY <1>19, <1>20, HasJoin
<1>23. Document!Code = A \o B
  <2>1. (V \o D) \o F = V \o B
    BY <1>4, <1>20, JoinAssociative
  <2>2. W \o (V \o B) = A \o B
    BY <1>20, JoinAssociative
  <2> QED
    BY <1>2, <2>1, <2>2
<1> HIDE DEF A, B
<1>24. A # <<>> /\ a \cap r = {}
  BY <1>21, <1>22, RunNotEmpty
<1>25. ProgramFacts(A \o B)
  BY <1>3, <1>21, <1>22, <1>24, TailFacts
<1> QED
  BY <1>23, <1>25

LEMMA SettleFacts ==
  ASSUME job = "settle", stage = "activation"
  PROVE  ProgramFacts(Document!Code)
<1> DEFINE K == Document!Gone("temp")
           P == Document!Started(K)
<1>1. K \in Seq(Calls) /\ Len(K) = 1 /\ K[1] = Document!Call("gone", "temp")
  BY CallIs, NamesAre DEF Words, Plain, Document!Gone
<1> HIDE DEF K
<1>2. P \in Seq(Calls) /\ Len(P) = 1
  BY <1>1, StartedIs
<1>3. P[1].call = "gone" /\ P[1].name = "temp" /\ P[1].started /\ ~P[1].artifact
  BY <1>1, StartedIs DEF Document!Call
<1>4. Document!Code = P
  BY DEF Document!Code, P, K
<1> HIDE DEF P
<1>5. P # <<>>
  <2>1. Len(P) > 0
    BY <1>2
  <2> QED
    BY <1>2, <2>1, NotEmpty
<1>6. Calm(P[1]) /\ ~Looks(P[1])
  BY <1>3 DEF Calm, Reads, MovedAside, Judging, Looks
<1>7. CallFacts(P, 1)
  BY <1>2, <1>3, <1>6 DEF CallFacts
<1>8. (\A i \in 1 .. Len(P) : i = 1) /\ (\A i \in 1 .. Len(P) - 1 : FALSE)
  BY <1>2
<1> QED
  BY <1>2, <1>4, <1>5, <1>6, <1>7, <1>8 DEF ProgramFacts

LEMMA PutBackFacts ==
  ASSUME job = "putBack", stage = "activation"
  PROVE  ProgramFacts(Document!Code)
<1> DEFINE K == Document!Gone("target") \o <<Document!Call("putBack", "target")>>
           P == Document!Started(K)
<1>1. K \in Seq(Calls) /\ Len(K) = 2 /\ K[1] = Document!Call("gone", "target") /\ K[2] = Document!Call("putBack", "target")
  BY CallIs, NamesAre DEF Words, Plain, Document!Gone
<1> HIDE DEF K
<1>2. P \in Seq(Calls) /\ Len(P) = 2
  BY <1>1, StartedIs
<1>3. /\ P[1].call = "gone" /\ P[1].name = "target" /\ P[1].started /\ ~P[1].artifact
      /\ P[2].call = "putBack" /\ P[2].name = "target" /\ P[2].started /\ ~P[2].artifact
  BY <1>1, StartedIs DEF Document!Call
<1>4. Document!Code = P
  BY DEF Document!Code, Document!PutBack, P, K
<1> HIDE DEF P
<1>5. P # <<>>
  <2>1. Len(P) > 0
    BY <1>2
  <2> QED
    BY <1>2, <2>1, NotEmpty
<1>6. Calm(P[1]) /\ ~Looks(P[1]) /\ ~Looks(P[2])
  BY <1>3 DEF Calm, Reads, MovedAside, Judging, Looks
<1>7. CallFacts(P, 1)
  BY <1>2, <1>3, <1>6 DEF CallFacts, Reads
<1>8. CallFacts(P, 2)
  BY <1>2, <1>3, <1>6 DEF CallFacts, Reads
<1>9. Link(P[1], P[2])
  BY <1>3 DEF Link, Reads, MovedAside, Judging, Changing
<1>10. (\A i \in 1 .. Len(P) : i = 1 \/ i = 2) /\ (\A i \in 1 .. Len(P) - 1 : i = 1 /\ i + 1 = 2)
  BY <1>2
<1>11. \A i \in 1 .. Len(P) : CallFacts(P, i)
  BY <1>7, <1>8, <1>10
<1>12. \A i \in 1 .. Len(P) - 1 : Link(P[i], P[i + 1])
  BY <1>9, <1>10
<1> QED
  BY <1>2, <1>4, <1>5, <1>6, <1>11, <1>12 DEF ProgramFacts

LEMMA RecreateFacts ==
  ASSUME job = "recreate", stage = "recovery"
  PROVE  ProgramFacts(Document!Code)
<1> DEFINE K == Document!Gone("target") \o <<Document!Call("create", "target"), Document!Call("rewrite", "target"),
                                    Document!Call("refuse", "temp")>>
           P == Document!Started(K)
<1>1. /\ K \in Seq(Calls) /\ Len(K) = 4 /\ K[1] = Document!Call("gone", "target") /\ K[2] = Document!Call("create", "target")
      /\ K[3] = Document!Call("rewrite", "target") /\ K[4] = Document!Call("refuse", "temp")
  BY CallIs, NamesAre DEF Words, Plain, Document!Gone
<1> HIDE DEF K
<1>2. P \in Seq(Calls) /\ Len(P) = 4
  BY <1>1, StartedIs
<1>3. /\ P[1].call = "gone" /\ P[2].call = "create" /\ P[3].call = "rewrite" /\ P[4].call = "refuse"
      /\ P[2].name = "target"
      /\ \A i \in 1 .. 4 : P[i].started /\ ~P[i].artifact
  BY <1>1, StartedIs DEF Document!Call
<1>4. Document!Code = P
  BY DEF Document!Code, Document!Recreate, P, K
<1> HIDE DEF P
<1>5. P # <<>>
  <2>1. Len(P) > 0
    BY <1>2
  <2> QED
    BY <1>2, <2>1, NotEmpty
<1>6. Calm(P[1])
  BY <1>3 DEF Calm, Reads, MovedAside, Judging
<1>7. ASSUME NEW i \in 1 .. 4 PROVE CallFacts(P, i)
  <2>1. i = 1 \/ i = 2 \/ i = 3 \/ i = 4
    OBVIOUS
  <2>2. ~Looks(P[i]) /\ ~Reads(P[i]) /\ P[i].started /\ ~P[i].artifact
    BY <1>3, <2>1 DEF Looks, Reads
  <2> QED
    BY <1>2, <1>3, <2>1, <2>2 DEF CallFacts
<1>8. ASSUME NEW i \in 1 .. 3 PROVE Link(P[i], P[i + 1])
  <2>1. i = 1 \/ i = 2 \/ i = 3
    OBVIOUS
  <2> QED
    BY <1>3, <2>1 DEF Link, Reads, MovedAside, Judging, Changing
<1>9. \A i \in 1 .. Len(P) : CallFacts(P, i)
  BY <1>2, <1>7
<1>10. \A i \in 1 .. Len(P) - 1 : Link(P[i], P[i + 1])
  BY <1>2, <1>8
<1> QED
  BY <1>2, <1>4, <1>5, <1>6, <1>9, <1>10 DEF ProgramFacts

\* The readback of a file that was written.
LEMMA FinalPart ==
  /\ Document!FinalReadback \in Seq(Calls) /\ Len(Document!FinalReadback) = 4
  /\ Document!FinalReadback[1].call = "same" /\ Document!FinalReadback[2].call = "open"
  /\ Document!FinalReadback[3].call = "read" /\ Document!FinalReadback[4].call = "restat"
  /\ \A i \in 1 .. 4 : /\ Document!FinalReadback[i].name = "target" /\ Document!FinalReadback[i].started
                       /\ ~Document!FinalReadback[i].artifact
<1> DEFINE K == (<<Document!Call("same", "target")>> \o Document!ReadFile("target")) \o Document!Unchanged("target")
<1>1. /\ K \in Seq(Calls) /\ Len(K) = 4 /\ K[1] = Document!Call("same", "target") /\ K[2] = Document!Call("open", "target")
      /\ K[3] = Document!Call("read", "target") /\ K[4] = Document!Call("restat", "target")
  BY CallIs, NamesAre DEF Words, Plain, Document!ReadFile, Document!Unchanged
<1>2. Document!FinalReadback = Document!Started(K)
  BY DEF Document!FinalReadback
<1> HIDE DEF K
<1> QED
  BY <1>1, <1>2, StartedIs DEF Document!Call

LEMMA CreateFacts ==
  ASSUME job = "create", Document!Goal # "absent"
  PROVE  ProgramFacts(Document!Code)
<1> DEFINE D == <<Document!Call("create", "target")>>
           K == <<Document!Call("same", "target"), Document!Call("rewrite", "target")>>
           S == Document!Started(K)
           C == D \o S
           F == Document!FinalReadback
           P == C \o F
<1>1. /\ D \in Seq(Calls) /\ K \in Seq(Calls) /\ Len(D) = 1 /\ Len(K) = 2
      /\ D[1] = Document!Call("create", "target") /\ K[1] = Document!Call("same", "target") /\ K[2] = Document!Call("rewrite", "target")
  BY CallIs, NamesAre DEF Words, Plain
<1>2. Document!Code = P
  BY DEF Document!Code, Document!CreateExclusive
<1>3. /\ F \in Seq(Calls) /\ Len(F) = 4
      /\ F[1].call = "same" /\ F[2].call = "open" /\ F[3].call = "read" /\ F[4].call = "restat"
      /\ \A i \in 1 .. 4 : F[i].name = "target" /\ F[i].started /\ ~F[i].artifact
  BY FinalPart
<1> HIDE DEF D, K, F
<1>4. /\ S \in Seq(Calls) /\ Len(S) = 2 /\ S[1].call = "same" /\ S[2].call = "rewrite"
      /\ \A i \in 1 .. 2 : S[i].name = "target" /\ S[i].started /\ ~S[i].artifact
  BY <1>1, StartedIs DEF Document!Call
<1> HIDE DEF S
<1>5. Joins(C, D, S) /\ Joins(P, C, F)
  <2>1. Joins(C, D, S)
    BY <1>1, <1>4, JoinsIs
  <2>2. C \in Seq(Calls)
    BY <2>1 DEF Joins
  <2> QED
    BY <1>3, <2>1, <2>2, JoinsIs
<1> HIDE DEF C, P
<1>6. Len(C) = 3 /\ C[1] = D[1] /\ C[2] = S[1] /\ C[3] = S[2]
  <2>1. Len(C) = 3
    BY <1>1, <1>4, <1>5 DEF Joins
  <2>2. (\A i \in 1 .. 1 : C[i] = D[i]) /\ \A i \in 1 .. 2 : C[1 + i] = S[i]
    BY <1>1, <1>4, <1>5 DEF Joins
  <2> QED
    BY <2>1, <2>2
<1>7. P \in Seq(Calls) /\ Len(P) = 7 /\ (\A i \in 1 .. 3 : P[i] = C[i]) /\ (\A i \in 1 .. 4 : P[3 + i] = F[i])
  <2>1. Len(C) = 3 /\ Len(F) = 4
    BY <1>3, <1>6
  <2>2. P \in Seq(Calls) /\ Len(P) = Len(C) + Len(F)
    BY <1>5 DEF Joins
  <2>3. (\A i \in 1 .. 3 : P[i] = C[i]) /\ (\A i \in 1 .. 4 : P[3 + i] = F[i])
    BY <1>5, <2>1 DEF Joins
  <2> QED
    BY <2>1, <2>2, <2>3
<1>8. /\ P[1] = D[1] /\ P[2] = S[1] /\ P[3] = S[2]
      /\ P[4] = F[1] /\ P[5] = F[2] /\ P[6] = F[3] /\ P[7] = F[4]
  BY <1>6, <1>7
<1>9. /\ P[1].call = "create" /\ P[2].call = "same" /\ P[3].call = "rewrite"
      /\ P[4].call = "same" /\ P[5].call = "open" /\ P[6].call = "read" /\ P[7].call = "restat"
      /\ P[1].name = "target" /\ ~P[1].started /\ ~P[1].artifact
  BY <1>1, <1>3, <1>4, <1>8 DEF Document!Call
<1>10. \A i \in 2 .. 7 : P[i].name = "target" /\ P[i].started /\ ~P[i].artifact
  <2>1. \A i \in 2 .. 7 : i = 2 \/ i = 3 \/ i = 4 \/ i = 5 \/ i = 6 \/ i = 7
    OBVIOUS
  <2> QED
    BY <1>3, <1>4, <1>8, <2>1
<1>11. P # <<>>
  <2>1. P \in Seq(Calls) /\ Len(P) > 0
    BY <1>7
  <2> QED
    BY <2>1, NotEmpty
<1>12. Calm(P[1])
  BY <1>9 DEF Calm, Reads, MovedAside, Judging
<1>13. ASSUME NEW i \in 1 .. 7 PROVE CallFacts(P, i)
  <2>1. i = 1 \/ i = 2 \/ i = 3 \/ i = 4 \/ i = 5 \/ i = 6 \/ i = 7
    OBVIOUS
  <2>2. ~Looks(P[i]) /\ ~P[i].artifact
    BY <1>9, <1>10, <2>1 DEF Looks, Watching
  <2>3. Len(P) = 7
    BY <1>7
  <2> QED
    BY <1>9, <1>10, <2>1, <2>2, <2>3 DEF CallFacts
<1>14. ASSUME NEW i \in 1 .. 6 PROVE Link(P[i], P[i + 1])
  <2>1. i = 1 \/ i = 2 \/ i = 3 \/ i = 4 \/ i = 5 \/ i = 6
    OBVIOUS
  <2> QED
    BY <1>9, <1>10, <2>1 DEF Link, Reads, MovedAside, Judging, Changing
<1>15. \A i \in 1 .. Len(P) : CallFacts(P, i)
  BY <1>7, <1>13
<1>16. \A i \in 1 .. Len(P) - 1 : Link(P[i], P[i + 1])
  BY <1>7, <1>14
<1> QED
  BY <1>2, <1>7, <1>11, <1>12, <1>15, <1>16 DEF ProgramFacts

\* The calls of a write after the look at the temporary name.
WriteCalls == <<"stat", "open", "peek", "classify", "openfd", "readfd", "truncate", "rewrite",
                "same", "open", "read", "restat">>

LEMMA WriteBody ==
  LET B == ((Document!InspectTarget \o Document!OpenGuarded) \o Document!RewriteInPlace) \o Document!FinalReadback IN
  /\ B \in Seq(Calls) /\ Len(B) = 12
  /\ \A t \in 1 .. 12 : /\ B[t].call = WriteCalls[t] /\ B[t].name = "target" /\ ~B[t].artifact
                        /\ B[t].started <=> t > 6
<1> DEFINE I == Document!InspectTarget
           O == Document!OpenGuarded
           K == <<Document!Call("truncate", "target"), Document!Call("rewrite", "target")>>
           R == Document!RewriteInPlace
           F == Document!FinalReadback
           U == I \o O
           V == U \o R
           B == V \o F
<1>1. /\ I \in Seq(Calls) /\ Len(I) = 4
      /\ I[1] = Document!Call("stat", "target") /\ I[2] = Document!Call("open", "target")
      /\ I[3] = Document!Call("peek", "target") /\ I[4] = Document!Call("classify", "target")
  BY CallIs, NamesAre DEF Words, Plain, Document!InspectTarget
<1>2. /\ O \in Seq(Calls) /\ Len(O) = 2 /\ O[1] = Document!Call("openfd", "target") /\ O[2] = Document!Call("readfd", "target")
  BY CallIs, NamesAre DEF Words, Plain, Document!OpenGuarded
<1>3. K \in Seq(Calls) /\ Len(K) = 2 /\ K[1] = Document!Call("truncate", "target") /\ K[2] = Document!Call("rewrite", "target")
  BY CallIs, NamesAre DEF Words, Plain
<1>4. R = Document!Started(K)
  BY DEF Document!RewriteInPlace
<1> HIDE DEF I, O, K, R
<1>5. /\ R \in Seq(Calls) /\ Len(R) = 2 /\ R[1].call = "truncate" /\ R[2].call = "rewrite"
      /\ \A i \in 1 .. 2 : R[i].name = "target" /\ R[i].started /\ ~R[i].artifact
  BY <1>3, <1>4, StartedIs DEF Document!Call
<1>6. /\ F \in Seq(Calls) /\ Len(F) = 4
      /\ F[1].call = "same" /\ F[2].call = "open" /\ F[3].call = "read" /\ F[4].call = "restat"
      /\ \A i \in 1 .. 4 : F[i].name = "target" /\ F[i].started /\ ~F[i].artifact
  BY FinalPart
<1> HIDE DEF F
<1>7. Joins(U, I, O)
  BY <1>1, <1>2, JoinsIs
<1>8. Joins(V, U, R)
  <2>1. U \in Seq(Calls)
    BY <1>7 DEF Joins
  <2> QED
    BY <1>5, <2>1, JoinsIs
<1>9. Joins(B, V, F)
  <2>1. V \in Seq(Calls)
    BY <1>8 DEF Joins
  <2> QED
    BY <1>6, <2>1, JoinsIs
<1>10. B = ((Document!InspectTarget \o Document!OpenGuarded) \o Document!RewriteInPlace) \o Document!FinalReadback
  BY DEF B, V, U, I, O, R, F
<1> HIDE DEF U, V, B
<1>11. Len(U) = 6 /\ (\A i \in 1 .. 4 : U[i] = I[i]) /\ (\A i \in 1 .. 2 : U[4 + i] = O[i])
  BY <1>1, <1>2, <1>7 DEF Joins
<1>12. Len(V) = 8 /\ (\A i \in 1 .. 6 : V[i] = U[i]) /\ (\A i \in 1 .. 2 : V[6 + i] = R[i])
  BY <1>5, <1>8, <1>11 DEF Joins
<1>13. Len(B) = 12 /\ (\A i \in 1 .. 8 : B[i] = V[i]) /\ (\A i \in 1 .. 4 : B[8 + i] = F[i]) /\ B \in Seq(Calls)
  BY <1>6, <1>9, <1>12 DEF Joins
<1>14. /\ B[1] = I[1] /\ B[2] = I[2] /\ B[3] = I[3] /\ B[4] = I[4] /\ B[5] = O[1] /\ B[6] = O[2]
  <2>1. U[1] = I[1] /\ U[2] = I[2] /\ U[3] = I[3] /\ U[4] = I[4] /\ U[5] = O[1] /\ U[6] = O[2]
    BY <1>11
  <2>2. V[1] = U[1] /\ V[2] = U[2] /\ V[3] = U[3] /\ V[4] = U[4] /\ V[5] = U[5] /\ V[6] = U[6]
    BY <1>12
  <2>3. B[1] = V[1] /\ B[2] = V[2] /\ B[3] = V[3] /\ B[4] = V[4] /\ B[5] = V[5] /\ B[6] = V[6]
    BY <1>13
  <2> QED
    BY <2>1, <2>2, <2>3
<1>15. B[7] = R[1] /\ B[8] = R[2] /\ B[9] = F[1] /\ B[10] = F[2] /\ B[11] = F[3] /\ B[12] = F[4]
  <2>1. V[7] = R[1] /\ V[8] = R[2] /\ B[7] = V[7] /\ B[8] = V[8]
    BY <1>12, <1>13
  <2>2. B[9] = F[1] /\ B[10] = F[2] /\ B[11] = F[3] /\ B[12] = F[4]
    BY <1>13
  <2> QED
    BY <2>1, <2>2
<1>16. ASSUME NEW t \in 1 .. 12
       PROVE  /\ B[t].call = WriteCalls[t] /\ B[t].name = "target" /\ ~B[t].artifact
              /\ B[t].started <=> t > 6
  <2>1. CASE t \in 1 .. 6
    <3>1. t = 1 \/ t = 2 \/ t = 3 \/ t = 4 \/ t = 5 \/ t = 6
      BY <2>1
    <3> QED
      BY <1>1, <1>2, <1>14, <3>1 DEF WriteCalls, Document!Call
  <2>2. CASE t \in 7 .. 12
    <3>1. t = 7 \/ t = 8 \/ t = 9 \/ t = 10 \/ t = 11 \/ t = 12
      BY <2>2
    <3> QED
      BY <1>5, <1>6, <1>15, <3>1 DEF WriteCalls
  <2> QED
    BY <2>1, <2>2
<1> QED
  BY <1>10, <1>13, <1>16

LEMMA WriteFacts ==
  ASSUME job = "write"
  PROVE  ProgramFacts(Document!Code)
<1> DEFINE X == IF stage = "activation" THEN Document!Gone("temp") ELSE <<>>
           I == Document!InspectTarget
           O == Document!OpenGuarded
           R == Document!RewriteInPlace
           F == Document!FinalReadback
           B == ((I \o O) \o R) \o F
           P == X \o B
           k == Len(X)
<1>1. /\ X \in Seq(Calls) /\ k \in {0, 1}
      /\ k = 1 => X[1].call = "gone" /\ X[1].name = "temp" /\ ~X[1].started /\ ~X[1].artifact
  <2>1. Document!Gone("temp") \in Seq(Calls) /\ Len(Document!Gone("temp")) = 1 /\ Document!Gone("temp")[1] = Document!Call("gone", "temp")
    BY CallIs, NamesAre DEF Words, Plain, Document!Gone
  <2>2. <<>> \in Seq(Calls) /\ Len(<<>>) = 0
    BY EmptySeq
  <2> QED
    BY <2>1, <2>2 DEF Document!Call
<1>2. /\ B \in Seq(Calls) /\ Len(B) = 12
      /\ \A t \in 1 .. 12 : /\ B[t].call = WriteCalls[t] /\ B[t].name = "target" /\ ~B[t].artifact
                            /\ B[t].started <=> t > 6
  BY WriteBody
<1>3. Document!Code = (((X \o I) \o O) \o R) \o F
  BY DEF Document!Code
<1>4. I \in Seq(Calls) /\ O \in Seq(Calls) /\ R \in Seq(Calls) /\ F \in Seq(Calls)
  <2>1. /\ I \in Seq(Calls) /\ O \in Seq(Calls)
    BY CallIs, NamesAre DEF Words, Plain, Document!InspectTarget, Document!OpenGuarded
  <2>2. <<Document!Call("truncate", "target"), Document!Call("rewrite", "target")>> \in Seq(Calls)
    BY CallIs, NamesAre DEF Words, Plain
  <2> QED
    BY <2>1, <2>2, StartedIs, FinalPart DEF Document!RewriteInPlace
<1> HIDE DEF X, I, O, R, F
<1>5. Document!Code = P
  <2>1. I \o O \in Seq(Calls) /\ (I \o O) \o R \in Seq(Calls)
    <3>1. I \o O \in Seq(Calls)
      BY <1>4, JoinIs
    <3> QED
      BY <1>4, <3>1, JoinIs
  <2>2. (X \o I) \o O = X \o (I \o O)
    BY <1>1, <1>4, JoinAssociative
  <2>3. (X \o (I \o O)) \o R = X \o ((I \o O) \o R)
    BY <1>1, <1>4, <2>1, JoinAssociative
  <2>4. (X \o ((I \o O) \o R)) \o F = X \o (((I \o O) \o R) \o F)
    BY <1>1, <1>4, <2>1, JoinAssociative
  <2> QED
    BY <1>3, <2>2, <2>3, <2>4
<1> HIDE DEF B
<1>6. Joins(P, X, B)
  BY <1>1, <1>2, JoinsIs
<1> HIDE DEF P
<1>7. /\ P \in Seq(Calls) /\ Len(P) = k + 12
      /\ \A i \in 1 .. k : P[i] = X[i]
      /\ \A t \in 1 .. 12 : P[k + t] = B[t]
  BY <1>2, <1>6 DEF Joins
<1> HIDE DEF k
<1>8. ASSUME NEW t \in 1 .. 12
      PROVE  /\ P[k + t].call = WriteCalls[t] /\ P[k + t].name = "target" /\ ~P[k + t].artifact
             /\ P[k + t].started <=> t > 6
  <2>1. P[k + t] = B[t]
    BY <1>7
  <2>2. /\ B[t].call = WriteCalls[t] /\ B[t].name = "target" /\ ~B[t].artifact
        /\ B[t].started <=> t > 6
    BY <1>2
  <2> QED
    BY <2>1, <2>2
<1>9. k = 1 => P[1].call = "gone" /\ P[1].name = "temp" /\ ~P[1].started /\ ~P[1].artifact
  BY <1>1, <1>7 DEF k
<1>10. P # <<>>
  <2>1. P \in Seq(Calls) /\ Len(P) > 0
    BY <1>1, <1>7
  <2> QED
    BY <2>1, NotEmpty
<1>11. Calm(P[1])
  <2>1. CASE k = 1
    BY <1>9, <2>1 DEF Calm, Reads, MovedAside, Judging
  <2>2. CASE k = 0
    <3>1. P[1] = P[k + 1] /\ WriteCalls[1] = "stat"
      BY <2>2 DEF WriteCalls
    <3>2. P[1].call = "stat" /\ P[1].name = "target" /\ ~P[1].artifact
      BY <1>8, <3>1
    <3> QED
      BY <3>2 DEF Calm, Reads, MovedAside, Judging
  <2> QED
    BY <1>1, <2>1, <2>2
<1>12. ASSUME k = 1 PROVE CallFacts(P, 1) /\ Link(P[1], P[2])
  <2>1. P[1].call = "gone" /\ P[1].name = "temp" /\ ~P[1].started /\ ~P[1].artifact /\ Len(P) = 13
    BY <1>7, <1>9, <1>12
  <2>2. P[2].call = "stat" /\ P[2].name = "target" /\ ~P[2].artifact /\ ~P[2].started
    <3>1. P[2] = P[k + 1] /\ WriteCalls[1] = "stat"
      BY <1>12 DEF WriteCalls
    <3> QED
      BY <1>8, <3>1
  <2>3. Apart(P, 1)
    BY DEF Apart
  <2>4. CallFacts(P, 1)
    BY <2>1, <2>3 DEF CallFacts
  <2> QED
    BY <2>1, <2>2, <2>4 DEF Link, Reads, MovedAside, Judging, Changing
<1>13. ASSUME NEW t \in 1 .. 11 PROVE Link(P[k + t], P[k + t + 1])
  <2>1. t = 1 \/ t = 2 \/ t = 3 \/ t = 4 \/ t = 5 \/ t = 6 \/ t = 7 \/ t = 8 \/ t = 9 \/ t = 10 \/ t = 11
    OBVIOUS
  <2>2. k + t + 1 = k + (t + 1) /\ t + 1 \in 1 .. 12 /\ t \in 1 .. 12
    BY <1>1
  <2>3. /\ P[k + t].call = WriteCalls[t] /\ P[k + t].name = "target" /\ ~P[k + t].artifact
        /\ P[k + t].started <=> t > 6
        /\ P[k + t + 1].call = WriteCalls[t + 1] /\ P[k + t + 1].name = "target" /\ ~P[k + t + 1].artifact
        /\ P[k + t + 1].started <=> t + 1 > 6
    BY <1>8, <2>2
  <2> QED
    BY <2>1, <2>3 DEF Link, Reads, MovedAside, Judging, Changing, WriteCalls
<1>14. ASSUME NEW t \in 1 .. 12, NEW j \in 1 .. (k + t) - 1, t <= 6 PROVE P[j].call # "read" /\ (P[j].call = "gone" => P[j].name = "temp")
  <2>1. CASE j <= k
    <3>1. j = 1 /\ k = 1
      BY <1>1, <2>1
    <3> QED
      BY <1>9, <3>1
  <2>2. CASE j > k
    <3>1. j - k \in 1 .. 5 /\ j = k + (j - k) /\ j - k \in 1 .. 12
      BY <1>1, <1>14, <2>2
    <3>2. P[j].call = WriteCalls[j - k]
      BY <1>8, <3>1
    <3>3. \A s \in 1 .. 5 : WriteCalls[s] \notin {"read", "gone"}
      <4>1. \A s \in 1 .. 5 : s = 1 \/ s = 2 \/ s = 3 \/ s = 4 \/ s = 5
        OBVIOUS
      <4> QED
        BY <4>1 DEF WriteCalls
    <3> QED
      BY <3>1, <3>2, <3>3
  <2> QED
    BY <1>1, <2>1, <2>2
<1>15. ASSUME NEW t \in 1 .. 12 PROVE CallFacts(P, k + t)
  <2>1. /\ P[k + t].call = WriteCalls[t] /\ P[k + t].name = "target" /\ ~P[k + t].artifact
        /\ P[k + t].started <=> t > 6
    BY <1>8
  <2>2. t \in 1 .. 11 => P[k + t + 1].call = WriteCalls[t + 1]
    <3>1. t \in 1 .. 11 => k + t + 1 = k + (t + 1) /\ t + 1 \in 1 .. 12
      BY <1>1
    <3> QED
      BY <1>8, <3>1
  <2>3. LooksTo(P, k + t) /\ Looks(P[k + t]) => Apart(P, k + t)
    <3>1. CASE t > 6
      BY <2>1, <3>1 DEF Looks
    <3>2. CASE t <= 6
      <4>1. P[k + t].call # "gone"
        <5>1. t = 1 \/ t = 2 \/ t = 3 \/ t = 4 \/ t = 5 \/ t = 6
          BY <3>2
        <5> QED
          BY <2>1, <5>1 DEF WriteCalls
      <4> QED
        <5>1. \A j \in 1 .. (k + t) - 1 : P[j].call # "read" /\ (P[j].call = "gone" => P[j].name = "temp")
          BY <1>14, <3>2
        <5>2. P[k + t].name = "target"
          BY <2>1
        <5> QED
          BY <4>1, <5>1, <5>2 DEF Apart
    <3> QED
      BY <3>1, <3>2
  <2>4. /\ k + t < Len(P) <=> t < 12
        /\ t < 12 => t \in 1 .. 11
    BY <1>1, <1>7
  <2>5. t = 1 \/ t = 2 \/ t = 3 \/ t = 4 \/ t = 5 \/ t = 6 \/ t = 7 \/ t = 8 \/ t = 9 \/ t = 10 \/ t = 11 \/ t = 12
    OBVIOUS
  <2>6. WriteCalls[t] = "same" => t = 9 /\ WriteCalls[t + 1] = "open"
    BY <2>5 DEF WriteCalls
  <2>7. P[k + t].call = "same" /\ k + t < Len(P) => P[k + t + 1].call # "rewrite"
    BY <2>1, <2>2, <2>4, <2>6
  <2>8. /\ P[k + t].call \notin {"displace", "unlink", "create", "putBack", "refuse", "judge"}
        /\ P[k + t].call \in {"truncate", "peek", "rewrite"} => t < 12
        /\ P[k + t].call \in {"truncate", "rewrite"} => t > 6
        /\ P[k + t].call \in {"stat", "classify", "openfd"} => t < 6
    BY <2>1, <2>5 DEF WriteCalls
  <2> DEFINE i == k + t
  <2>9. /\ P[i].call \notin {"displace", "unlink", "create", "putBack", "refuse", "judge"}
        /\ P[i].call \in {"truncate", "peek", "rewrite"} => i < Len(P)
        /\ P[i].call \in {"truncate", "rewrite"} => P[i].started
        /\ P[i].call \in {"stat", "classify", "openfd"} => ~P[i].started
        /\ ~P[i].artifact /\ P[i].name = "target"
        /\ ~(P[i].call = "same" /\ i < Len(P) /\ P[i + 1].call = "rewrite")
    BY <2>1, <2>4, <2>7, <2>8
  <2>10. LooksTo(P, i) /\ Looks(P[i]) => Apart(P, i)
    BY <2>3
  <2> HIDE DEF i
  <2>11. CallFacts(P, i)
    BY <2>9, <2>10 DEF CallFacts
  <2> QED
    BY <2>11 DEF i
<1>16. ASSUME NEW i \in 1 .. Len(P) PROVE (i = 1 /\ k = 1) \/ (i - k \in 1 .. 12 /\ i = k + (i - k))
  <2>1. k \in {0, 1} /\ Len(P) = k + 12
    BY <1>1, <1>7
  <2>2. i \in Int /\ 1 <= i /\ i <= k + 12
    BY <1>16, <2>1
  <2>3. CASE k = 0
    BY <2>2, <2>3
  <2>4. CASE k = 1
    BY <2>2, <2>4
  <2> QED
    BY <2>1, <2>3, <2>4
<1>17. ASSUME NEW i \in 1 .. Len(P) PROVE CallFacts(P, i)
  BY <1>12, <1>15, <1>16
<1>18. ASSUME NEW i \in 1 .. Len(P) - 1 PROVE Link(P[i], P[i + 1])
  <2>1. CASE i = 1 /\ k = 1
    BY <1>12, <2>1
  <2>2. CASE ~(i = 1 /\ k = 1)
    <3>1. i - k \in 1 .. 11 /\ i = k + (i - k) /\ i + 1 = k + (i - k) + 1
      <4>1. i \in Nat /\ i >= 1 /\ i <= k + 11
        BY <1>1, <1>7
      <4>2. CASE k = 0
        BY <4>1, <4>2
      <4>3. CASE k = 1
        BY <2>2, <4>1, <4>3
      <4> QED
        BY <1>1, <4>2, <4>3
    <3> QED
      BY <1>13, <3>1
  <2> QED
    BY <2>1, <2>2
<1> QED
  BY <1>5, <1>7, <1>10, <1>11, <1>17, <1>18 DEF ProgramFacts

LEMMA ReadbackRuns ==
  ASSUME NEW absent, NEW readable, NEW c, NEW look, "temp" \in absent,
         Run(look, absent, readable), Has(look, c, "target")
  PROVE  LET Z == (((((Document!Gone("temp") \o Document!Evidence) \o look) \o Document!Evidence) \o Document!Gone("temp")) \o look) \o Document!Evidence
         IN  /\ Run(Z \o Document!Gone("temp"), absent, readable) /\ Z \in Seq(Calls)
             /\ Has(Z, c, "target") /\ Len(Z) \in Nat \ {0} /\ Z[Len(Z)].call = "remount"
<1> DEFINE G == Document!Gone("temp")
           E == Document!Evidence
           A == (G \o E) \o look
           B == (A \o E) \o G
           Y == B \o look
           Z == Y \o E
<1>1. Run(G, absent, readable) /\ Run(E, absent, readable)
  BY Parts, NamesAre
<1>2. E \in Seq(Calls) /\ Len(E) = 2 /\ E[2].call = "remount"
  <2>1. E \in Seq(Calls)
    BY <1>1, RunIs
  <2> QED
    BY <2>1 DEF Document!Evidence, Document!Call
<1> HIDE DEF G, E
<1>3. Run(G \o E, absent, readable)
  BY <1>1, RunJoin
<1>4. Run(A, absent, readable)
  BY <1>3, RunJoin
<1> HIDE DEF A
<1>5. Run(A \o E, absent, readable)
  BY <1>1, <1>4, RunJoin
<1>6. Run(B, absent, readable)
  BY <1>1, <1>5, RunJoin
<1> HIDE DEF B
<1>7. Run(Y, absent, readable)
  BY <1>6, RunJoin
<1>8. B \in Seq(Calls) /\ look \in Seq(Calls) /\ Y \in Seq(Calls)
  BY <1>6, <1>7, RunIs
<1>9. Has(Y, c, "target")
  BY <1>8, HasJoin
<1> HIDE DEF Y
<1>10. Run(Z, absent, readable)
  BY <1>1, <1>7, RunJoin
<1>11. Has(Z, c, "target")
  BY <1>2, <1>8, <1>9, HasJoin
<1>12. Joins(Z, Y, E)
  BY <1>2, <1>8, JoinsIs
<1> HIDE DEF Z
<1>13. Len(Z) \in Nat \ {0} /\ Z[Len(Z)].call = "remount"
  <2>1. Len(Z) = Len(Y) + 2 /\ Z[Len(Y) + 2] = E[2] /\ Len(Y) \in Nat
    BY <1>2, <1>8, <1>12 DEF Joins
  <2> QED
    BY <1>2, <2>1
<1>14. Run(Z \o G, absent, readable)
  BY <1>1, <1>10, RunJoin
<1>15. Z \in Seq(Calls)
  BY <1>10, RunIs
<1> QED
  BY <1>11, <1>13, <1>14, <1>15 DEF Z, Y, B, A, G, E

LEMMA ReadbackFacts ==
  ASSUME job = "readback"
  PROVE  ProgramFacts(Document!Code)
<1> DEFINE look == IF Document!Goal = "absent" THEN Document!Gone("target") ELSE Document!Observe("target")
           c == IF Document!Goal = "absent" THEN "gone" ELSE "read"
           absent == IF Document!Goal = "absent" THEN {"temp", "target"} ELSE {"temp"}
           readable == IF Document!Goal = "absent" THEN {} ELSE {"target"}
           G == Document!Gone("temp")
           Z == (((((Document!Gone("temp") \o Document!Evidence) \o look) \o Document!Evidence) \o Document!Gone("temp")) \o look) \o Document!Evidence
           P == Z \o G
<1>1. Run(look, absent, readable) /\ Has(look, c, "target")
  <2>1. CASE Document!Goal = "absent"
    <3>1. Run(Document!Gone("target"), {"temp", "target"}, {}) /\ Has(Document!Gone("target"), "gone", "target")
      BY Parts, NamesAre
    <3> QED
      BY <2>1, <3>1
  <2>2. CASE Document!Goal # "absent"
    <3>1. Run(Document!Observe("target"), {"temp"}, {"target"}) /\ Has(Document!Observe("target"), "read", "target")
      BY ObserveRuns, NamesAre
    <3> QED
      BY <2>2, <3>1
  <2> QED
    BY <2>1, <2>2
<1>2. "temp" \in absent /\ absent \cap readable = {}
  OBVIOUS
<1>3. Document!Code = P
  BY DEF Document!Code, Document!Readback
<1>4. G \in Seq(Calls) /\ Len(G) = 1 /\ G[1].call = "gone" /\ G[1].name = "temp"
  BY CallIs, NamesAre DEF Words, Plain, Document!Gone, Document!Call
<1> HIDE DEF look, absent, readable
<1>5. /\ Run(P, absent, readable) /\ Z \in Seq(Calls)
      /\ Has(Z, c, "target") /\ Len(Z) \in Nat \ {0} /\ Z[Len(Z)].call = "remount"
  BY <1>1, <1>2, ReadbackRuns DEF G
<1> HIDE DEF Z, G
<1>6. Joins(P, Z, G)
  BY <1>4, <1>5, JoinsIs
<1> HIDE DEF P
<1>7. P[Len(P)] = G[1] /\ Len(P) = Len(Z) + 1
  BY <1>4, <1>5, <1>6, LastOf
<1>8. /\ P[Len(P)].call = "gone" /\ P[Len(P)].name = "temp" /\ Len(P) > 1
      /\ Len(P) - 1 = Len(Z) /\ P[Len(P) - 1] = Z[Len(Z)]
  <2>1. \A i \in 1 .. Len(Z) : P[i] = Z[i]
    BY <1>6 DEF Joins
  <2> QED
    BY <1>4, <1>5, <1>7, <2>1
<1>9. SawIn(P, Len(P), c, "target")
  <2>1. \A i \in 1 .. Len(P) - 1 : P[i] = Z[i]
    BY <1>6, <1>8 DEF Joins
  <2>2. PICK i \in 1 .. Len(P) - 1 : Z[i].call = c /\ Z[i].name = "target"
    BY <1>5, <1>8 DEF Has
  <2> QED
    BY <2>1, <2>2 DEF SawIn
<1>10. P # <<>>
  <2>1. P \in Seq(Calls) /\ Len(P) > 0
    BY <1>5, <1>8, RunIs
  <2> QED
    BY <2>1, NotEmpty
<1>11. ProgramFacts(P)
  BY <1>2, <1>5, <1>8, <1>9, <1>10, PlainFacts
<1> QED
  BY <1>3, <1>11

\* What is known of the program of every job.
LEMMA CodeFacts ==
  ASSUME JobFits
  PROVE  ProgramFacts(Document!Code)
<1>1. job \in Jobs
  BY DEF JobFits
<1>2. CASE job \in {"begin", "bind", "guard", "confirm", "leave", "tidy"}
  BY <1>2, PlainJobs
<1>3. CASE job \in {"write", "create"}
  BY <1>3, WriteFacts, CreateFacts DEF JobFits
<1>4. CASE job \in {"delete", "putBack", "settle"}
  BY <1>4, DeleteFacts, PutBackFacts, SettleFacts DEF JobFits
<1>5. CASE job \in {"remove", "recreate"}
  BY <1>5, RemovalFacts, RecreateFacts DEF JobFits
<1>6. CASE job \in {"cleanup", "cleanupRemoval", "readback"}
  BY <1>6, CleanupFacts, CleanupRemovalFacts, ReadbackFacts
<1> QED
  BY <1>1, <1>2, <1>3, <1>4, <1>5, <1>6 DEF Jobs

\* --------------------------------------------------------------------- the invariant
Others(n) == Document!Names \ {n}
Saw(call, name) == SawIn(Document!Code, docPc, call, name)
OnlyLooked == LooksTo(Document!Code, docPc)

\* The job fits, and an error of the next call would not deny what was done.
JobInv ==
  /\ JobFits /\ docPc \in 1 .. Len(Document!Code)
  /\ changed => Document!Here.started
  /\ job = "recreate" => data \in Contents
  /\ hands = 0 => job \notin {"putBack", "recreate"}

\* What was seen gone is gone, what was read is there with the content it should have.
LookInv ==
  OnlyLooked => \A n \in Document!Names \ fresh :
     /\ Saw("gone", n) => entry[n] = Document!Absent
     /\ Saw("read", n) => Document!Held(n) = Document!Expected

\* What is about to be read is the open file, and no other name leads to it.
OpenInv ==
  Reads(Document!Here) =>
    /\ fd # Document!Absent /\ \A n \in Others(Document!Here.name) : entry[n] # fd
    /\ Document!Here.name \in fresh \/ entry[Document!Here.name] = fd

\* The open file is the target and holds one of these, or other hands were there.
OpenTarget(contents) ==
  /\ fd # Document!Absent /\ entry["temp"] # fd
  /\ "target" \in fresh \/ (entry["target"] = fd /\ content[fd] \in contents)

\* What is truncated may be overwritten, and what is rewritten was truncated.
TornInv ==
  /\ Document!Here.call = "truncate" => OpenTarget(Document!Overwritable)
  /\ Document!Here.call = "rewrite" \/ (job = "create" /\ docPc = 2) => OpenTarget({"torn"})

\* What a primitive displaced lies at the temporary name, and the target is gone.
MovedInv ==
  /\ Document!Here.call = "putBack" => "target" \in fresh \/ entry["target"] = Document!Absent
  /\ MovedAside(Document!Here) \/ Document!Here.artifact => "temp" \in fresh \/ Document!Held("temp") = Document!Expected
  /\ Judging(Document!Here) =>
       /\ "temp" \in fresh \/ Document!Held("temp") = data
       /\ data \in Contents /\ (hands = 0 => data = Document!Expected)

\* The last look of the readback comes right after one at the mount.
MountInv == job = "readback" /\ docPc = Len(Document!Code) => Document!Mounted \/ "target" \in fresh

RunInv == JobInv /\ LookInv /\ OpenInv /\ TornInv /\ MovedInv /\ MountInv

\* Types, and what goes with them: two names never lead to one file.
DocTyped ==
  /\ plan \in {"change", "create", "delete"} /\ mounted \in {"mine", "other"}
  /\ entry \in [Document!Names -> {Document!Absent} \cup Document!Inodes]
  /\ entry["target"] = entry["temp"] => entry["temp"] = Document!Absent
  /\ content \in [Document!Inodes -> Contents]
  /\ stamp \in [Document!Inodes -> Nat] /\ hands \in Nat /\ (\A i \in Document!Inodes : stamp[i] <= hands)
  /\ stage \in {"activation", "recovery", "activated", "recovered", "incomplete"}
  /\ docPc \in Nat /\ fd \in {Document!Absent} \cup Document!Inodes
  /\ seen.inode \in {Document!Absent} \cup Document!Inodes /\ bound.inode \in {Document!Absent} \cup Document!Inodes
  /\ fresh \subseteq Document!Names /\ hands <= MaxHands
  /\ (hands = 0 => fresh = {}) /\ changed \in BOOLEAN

\* The inductive invariant.
DocInv == DocTyped /\ (Document!Working => RunInv)

\* ------------------------------------------------------------- how a step goes on
LEMMA UnusedIs ==
  Document!Unused \in Document!Inodes \ {entry["target"], entry["temp"], fd, seen.inode, bound.inode}
<1>1. ASSUME NEW a, NEW b, NEW c, NEW d, NEW e
      PROVE  \E i \in Document!Inodes : i \notin {a, b, c, d, e}
  <2>1. \E i \in {1, 2, 3, 4, 5, 6} : i \notin {a, b, c, d, e}
    OBVIOUS
  <2>2. {1, 2, 3, 4, 5, 6} \subseteq Document!Inodes
    BY DEF Document!Inodes
  <2> QED
    BY <2>1, <2>2
<1>2. \E i \in Document!Inodes : i \notin {entry["target"], entry["temp"], fd, seen.inode, bound.inode}
  BY <1>1
<1> QED
  BY <1>2 DEF Document!Unused

LEMMA SameCode ==
  ASSUME UNCHANGED <<plan, stage, job>>
  PROVE  /\ Document!Code' = Document!Code /\ Document!Goal' = Document!Goal /\ Document!Expected' = Document!Expected
         /\ Document!Overwritable' = Document!Overwritable /\ JobFits' = JobFits /\ Document!Working' = Document!Working
<1>1. Document!Goal' = Document!Goal
  BY DEF Document!Goal
<1>2. Document!Expected' = Document!Expected
  BY <1>1 DEF Document!Expected
<1>3. Document!Overwritable' = Document!Overwritable
  BY DEF Document!Overwritable
<1>4. Document!Working' = Document!Working
  BY DEF Document!Working
<1>5. JobFits' = JobFits
  BY <1>1 DEF JobFits
<1>6. Document!Guard' = Document!Guard /\ Document!Leave' = Document!Leave
  BY DEF Document!Guard, Document!Leave
<1>7. Document!Readback' = Document!Readback
  BY <1>1 DEF Document!Readback
<1>8. Document!Code' = Document!Code
  BY <1>6, <1>7 DEF Document!Code
<1> QED
  BY <1>1, <1>2, <1>3, <1>4, <1>5, <1>8

LEMMA HereFacts ==
  ASSUME DocTyped, JobInv
  PROVE  /\ docPc \in Nat \ {0} /\ Len(Document!Code) \in Nat /\ docPc <= Len(Document!Code)
         /\ Document!Here = Document!Code[docPc] /\ Document!Here \in Calls /\ CallFacts(Document!Code, docPc)
         /\ docPc < Len(Document!Code) => CallFacts(Document!Code, docPc + 1) /\ Link(Document!Here, Document!Code[docPc + 1])
<1>1. ProgramFacts(Document!Code)
  BY CodeFacts DEF JobInv
<1>2. Document!Code \in Seq(Calls) /\ Len(Document!Code) \in Nat
  BY <1>1, NotEmpty DEF ProgramFacts
<1>3. docPc \in 1 .. Len(Document!Code)
  BY DEF JobInv
<1>4. Document!Here = Document!Code[docPc] /\ Document!Here \in Calls
  BY <1>2, <1>3 DEF Document!Here
<1>5. CallFacts(Document!Code, docPc)
  BY <1>1, <1>3 DEF ProgramFacts
<1>6. ASSUME docPc < Len(Document!Code) PROVE CallFacts(Document!Code, docPc + 1) /\ Link(Document!Here, Document!Code[docPc + 1])
  <2>1. docPc + 1 \in 1 .. Len(Document!Code) /\ docPc \in 1 .. Len(Document!Code) - 1
    BY <1>2, <1>3, <1>6
  <2> QED
    BY <1>1, <1>4, <2>1 DEF ProgramFacts
<1> QED
  BY <1>2, <1>3, <1>4, <1>5, <1>6

LEMMA CodeFactsNext == (JobFits => ProgramFacts(Document!Code))'
<1>1. JobFits => ProgramFacts(Document!Code)
  BY CodeFacts
<1> QED
  BY <1>1, PTL

\* A job that begins.
LEMMA Begins ==
  ASSUME JobFits', docPc' = 1, changed' => job' \in {"putBack", "recreate"},
         job' = "recreate" => data' \in Contents,
         hands' = 0 => job' \notin {"putBack", "recreate"}
  PROVE  RunInv'
<1>1. /\ Document!Code' \in Seq(Calls) /\ Document!Code' # <<>> /\ Calm(Document!Code'[1])
      /\ (\A i \in 1 .. Len(Document!Code) : CallFacts(Document!Code, i))'
  BY CodeFactsNext DEF ProgramFacts
<1>2. Len(Document!Code') \in Nat /\ Len(Document!Code') > 0
  BY <1>1, NotEmpty
<1>3. Document!Here' = Document!Code'[1] /\ Calm(Document!Here') /\ CallFacts(Document!Code, 1)'
  BY <1>1, <1>2 DEF Document!Here
<1>4. JobInv'
  <2>1. job' \in {"putBack", "recreate"} => Document!Here'.started
    BY <1>3 DEF CallFacts
  <2>2. docPc' \in 1 .. Len(Document!Code')
    BY <1>2
  <2> QED
    BY <2>1, <2>2 DEF JobInv
<1>5. LookInv'
  <2>1. \A c, n : ~Saw(c, n)'
    BY DEF Saw, SawIn
  <2> QED
    BY <2>1 DEF LookInv
<1>6. OpenInv' /\ TornInv' /\ MovedInv'
  BY <1>3 DEF OpenInv, TornInv, MovedInv, Calm
<1>7. MountInv'
  BY <1>2, <1>3 DEF MountInv, CallFacts
<1> QED
  BY <1>4, <1>5, <1>6, <1>7 DEF RunInv

LEMMA FollowingFits ==
  ASSUME DocTyped, JobFits, Document!Working, job \notin {"putBack", "recreate"}, job' = Document!Following,
         plan' = plan, Document!Following # "done" => stage' = stage
  PROVE  /\ Document!Following # "done" => JobFits' /\ job' \notin {"putBack", "recreate"}
         /\ Document!Following = "done" <=> job = "readback"
         /\ Document!Following # "cleanupRemoval"
<1>1. /\ job \in Jobs /\ plan \in {"change", "create", "delete"} /\ stage \in {"activation", "recovery"}
  BY DEF JobFits, DocTyped, Document!Working
<1>2. CASE job \in {"begin", "bind"}
  BY <1>1, <1>2 DEF Document!Following, JobFits, Jobs
<1>3. CASE job = "guard"
  <2>1. Document!Following \in {"write", "delete", "remove"}
    BY <1>3 DEF Document!Following
  <2>2. /\ Document!Following = "write" => Document!Goal # "absent"
        /\ Document!Following = "delete" => plan = "delete" /\ stage = "activation"
        /\ Document!Following = "remove" => plan = "create" /\ stage = "recovery"
    BY <1>1, <1>3 DEF Document!Following, Document!Goal
  <2>3. stage' = stage
    BY <2>1
  <2>4. Document!Goal' = Document!Goal
    BY <2>3 DEF Document!Goal
  <2>5. JobFits'
    BY <1>1, <2>1, <2>2, <2>3, <2>4 DEF JobFits, Jobs
  <2> QED
    BY <1>3, <2>1, <2>5
<1>4. CASE job \in {"write", "create"}
  BY <1>1, <1>4 DEF Document!Following, JobFits, Jobs
<1>5. CASE job \in {"settle", "delete", "remove", "confirm", "cleanupRemoval"}
  BY <1>1, <1>5 DEF Document!Following, JobFits, Jobs
<1>6. CASE job = "leave"
  BY <1>1, <1>6 DEF Document!Following, JobFits, Jobs
<1>7. CASE job \in {"cleanup", "tidy"}
  BY <1>1, <1>7 DEF Document!Following, JobFits, Jobs
<1>8. CASE job = "readback"
  BY <1>8 DEF Document!Following
<1> QED
  BY <1>1, <1>2, <1>3, <1>4, <1>5, <1>6, <1>7, <1>8 DEF Jobs

\* A job that returned.
LEMMA Enters ==
  ASSUME DocTyped, JobFits, Document!Working, job \notin {"putBack", "recreate"}, Document!Enter(Document!Following), plan' = plan
  PROVE  /\ Document!Working' => RunInv'
         /\ stage' # stage <=> job = "readback"
         /\ stage' \in {stage, "activated", "recovered"} /\ job' # "cleanupRemoval"
         /\ docPc' = 1 /\ fresh' = {} /\ changed' = FALSE
<1>1. /\ job' = Document!Following /\ docPc' = 1 /\ fresh' = {} /\ changed' = FALSE
      /\ stage' = IF Document!Following # "done" THEN stage
                  ELSE IF stage = "activation" THEN "activated" ELSE "recovered"
  BY DEF Document!Enter
<1>2. /\ Document!Following # "done" => JobFits' /\ job' \notin {"putBack", "recreate"}
      /\ Document!Following = "done" <=> job = "readback"
      /\ Document!Following # "cleanupRemoval"
  BY <1>1, FollowingFits
<1>3. stage \in {"activation", "recovery"}
  BY DEF Document!Working
<1>4. stage' # stage <=> job = "readback"
  BY <1>1, <1>2, <1>3
<1>5. ASSUME Document!Working' PROVE RunInv'
  <2>1. Document!Following # "done"
    BY <1>1, <1>3, <1>5 DEF Document!Working
  <2> QED
    BY <1>1, <1>2, <2>1, Begins
<1> QED
  BY <1>1, <1>2, <1>4, <1>5

\* An error.
LEMMA Raises ==
  ASSUME DocTyped, Document!Working, RunInv, Document!Raise, plan' = plan
  PROVE  /\ Document!Working' => RunInv'
         /\ stage' \in {"activation", "recovery", "incomplete"}
         /\ docPc' = 1 /\ fresh' = {} /\ changed' = FALSE
<1>1. /\ docPc' = 1 /\ fresh' = {} /\ changed' = FALSE
      /\ IF stage = "activation"
         THEN stage' = "recovery" /\ job' = IF Document!Here.artifact THEN "bind" ELSE "begin"
         ELSE IF Document!Here.artifact THEN job' = "cleanupRemoval" /\ stage' = stage
              ELSE stage' = "incomplete" /\ job' = job
  BY DEF Document!Raise
<1>2. stage \in {"activation", "recovery"}
  BY DEF Document!Working
<1>3. CallFacts(Document!Code, docPc) /\ Document!Here = Document!Code[docPc] /\ JobFits
  BY HereFacts DEF RunInv, JobInv
<1>4. ASSUME Document!Working' PROVE RunInv'
  <2>1. CASE stage = "activation"
    <3>1. JobFits' /\ job' \in {"bind", "begin"}
      BY <1>1, <2>1 DEF JobFits, Jobs
    <3> QED
      BY <1>1, <3>1, Begins
  <2>2. CASE stage = "recovery"
    <3>1. Document!Here.artifact /\ job' = "cleanupRemoval" /\ stage' = stage
      BY <1>1, <1>4, <2>2 DEF Document!Working
    <3>2. job = "remove"
      BY <1>3, <2>2, <3>1 DEF CallFacts
    <3>3. JobFits'
      BY <1>3, <2>2, <3>1, <3>2 DEF JobFits, Jobs
    <3> QED
      BY <1>1, <3>1, <3>3, Begins
  <2> QED
    BY <1>2, <2>1, <2>2
<1> QED
  BY <1>1, <1>2, <1>4

\* The next call of the same program.
LEMMA GoesOn ==
  ASSUME DocTyped, RunInv, docPc < Len(Document!Code), docPc' = docPc + 1, UNCHANGED <<plan, stage, job, hands>>,
         changed' => changed \/ Document!Here.call \in Changing,
         job = "recreate" => data' = data
  PROVE  /\ JobInv'
         /\ OnlyLooked' => OnlyLooked /\ Looks(Document!Here) /\ Apart(Document!Code, docPc)
         /\ \A c, n : Saw(c, n)' => Saw(c, n) \/ (Document!Here.call = c /\ Document!Here.name = n)
         /\ Reads(Document!Here') => Document!Here.call \in {"open", "openfd"} /\ Document!Here.name = Document!Here'.name
         /\ Document!Here'.call = "truncate" => Document!Here.call = "readfd" /\ Document!Here.name = "target"
         /\ Document!Here'.call = "rewrite" \/ (job' = "create" /\ docPc' = 2) =>
              \/ Document!Here.call \in {"truncate", "create"}
              \/ Document!Here.call = "same" /\ job = "create" /\ docPc = 2
         /\ Document!Here'.call = "putBack" => Document!Here.call = "gone" /\ Document!Here.name = "target"
         /\ MovedAside(Document!Here') => Document!Here.call = "displace" \/ (MovedAside(Document!Here) /\ Document!Here.call # "peek")
         /\ Document!Here'.artifact => Document!Here.call = "judge" \/ (Document!Here.artifact /\ Document!Here.call \notin Changing)
         /\ Judging(Document!Here') =>
              (MovedAside(Document!Here) /\ Document!Here.call = "peek") \/ (Judging(Document!Here) /\ Document!Here.call = "restat")
         /\ (job = "readback" /\ docPc' = Len(Document!Code)) => Document!Here.call = "remount"
<1>1. /\ docPc \in Nat \ {0} /\ Len(Document!Code) \in Nat /\ docPc <= Len(Document!Code)
      /\ Document!Here = Document!Code[docPc] /\ CallFacts(Document!Code, docPc)
      /\ CallFacts(Document!Code, docPc + 1) /\ Link(Document!Here, Document!Code[docPc + 1])
  BY HereFacts DEF RunInv
<1>2. Document!Code' = Document!Code /\ JobFits' = JobFits
  BY SameCode
<1>3. Document!Here' = Document!Code[docPc + 1]
  BY <1>2 DEF Document!Here
<1>4. JobInv'
  <2>1. JobFits /\ (changed => Document!Here.started) /\ (job = "recreate" => data \in Contents)
        /\ (hands = 0 => job \notin {"putBack", "recreate"})
    BY DEF RunInv, JobInv
  <2>2. docPc' \in 1 .. Len(Document!Code)
    BY <1>1
  <2>3. changed' => Document!Here'.started
    BY <1>1, <1>3, <2>1 DEF Link
  <2> QED
    BY <1>2, <2>1, <2>2, <2>3 DEF JobInv
<1>5. OnlyLooked' => OnlyLooked /\ Looks(Document!Here)
  <2>1. \A j \in 1 .. docPc - 1 : j \in 1 .. docPc' - 1
    BY <1>1
  <2>2. docPc \in 1 .. docPc' - 1
    BY <1>1
  <2> QED
    BY <1>1, <1>2, <2>1, <2>2 DEF OnlyLooked, LooksTo
<1>6. OnlyLooked' => Apart(Document!Code, docPc)
  BY <1>1, <1>5 DEF OnlyLooked, CallFacts
<1>7. \A c, n : Saw(c, n)' => Saw(c, n) \/ (Document!Here.call = c /\ Document!Here.name = n)
  <2>1. \A j \in 1 .. docPc' - 1 : j \in 1 .. docPc - 1 \/ j = docPc
    BY <1>1
  <2> QED
    BY <1>1, <1>2, <2>1 DEF Saw, SawIn
<1>8. /\ Reads(Document!Here') => Document!Here.call \in {"open", "openfd"} /\ Document!Here.name = Document!Here'.name
      /\ Document!Here'.call = "truncate" => Document!Here.call = "readfd" /\ Document!Here.name = "target"
      /\ Document!Here'.call = "putBack" => Document!Here.call = "gone" /\ Document!Here.name = "target"
      /\ MovedAside(Document!Here') => Document!Here.call = "displace" \/ (MovedAside(Document!Here) /\ Document!Here.call # "peek")
      /\ Document!Here'.artifact => Document!Here.call = "judge" \/ (Document!Here.artifact /\ Document!Here.call \notin Changing)
      /\ Judging(Document!Here') =>
           (MovedAside(Document!Here) /\ Document!Here.call = "peek") \/ (Judging(Document!Here) /\ Document!Here.call = "restat")
  BY <1>1, <1>3 DEF Link
<1>9. Document!Here'.call = "rewrite" =>
        Document!Here.call \in {"truncate", "create"} \/ (Document!Here.call = "same" /\ job = "create" /\ docPc = 2)
  BY <1>1, <1>3 DEF Link, CallFacts
<1>10. job' = "create" /\ docPc' = 2 => Document!Here.call = "create"
  BY <1>1 DEF CallFacts
<1>11. job = "readback" /\ docPc' = Len(Document!Code) => Document!Here.call = "remount"
  BY <1>1 DEF CallFacts
<1> QED
  BY <1>4, <1>5, <1>6, <1>7, <1>8, <1>9, <1>10, <1>11

\* A call that returned.
LEMMA Continues ==
  ASSUME DocTyped, Document!Working, RunInv, plan' = plan, hands' = hands, NEW unknown, NEW altered,
         Document!Continue(unknown, altered), Document!Here.call \notin {"putBack", "refuse"},
         unknown \subseteq Document!Names, hands = 0 => unknown = {}, altered \in BOOLEAN
  PROVE  /\ stage' \in {stage, "activated", "recovered"}
         /\ docPc' \in Nat /\ fresh' \subseteq Document!Names /\ (hands' = 0 => fresh' = {})
         /\ changed' \in BOOLEAN
         /\ job' = job \/ job' # "cleanupRemoval"
         /\ stage' # stage => job = "readback" /\ docPc = Len(Document!Code)
         /\ \/ Document!Working' => RunInv'
            \/ /\ docPc < Len(Document!Code) /\ docPc' = docPc + 1 /\ fresh' = unknown /\ changed' = altered
               /\ UNCHANGED <<stage, job>>
<1>1. /\ docPc \in Nat \ {0} /\ Len(Document!Code) \in Nat /\ docPc <= Len(Document!Code)
      /\ Document!Here = Document!Code[docPc] /\ CallFacts(Document!Code, docPc) /\ JobFits
  BY HereFacts DEF RunInv, JobInv
<1>2. CASE docPc < Len(Document!Code)
  BY <1>1, <1>2 DEF Document!Continue
<1>3. CASE ~(docPc < Len(Document!Code))
  <2>1. Document!Enter(Document!Following) /\ docPc = Len(Document!Code)
    BY <1>1, <1>3 DEF Document!Continue
  <2>2. job \notin {"putBack", "recreate"}
    BY <1>1, <2>1 DEF CallFacts
  <2>3. /\ Document!Working' => RunInv'
        /\ stage' # stage <=> job = "readback"
        /\ stage' \in {stage, "activated", "recovered"} /\ job' # "cleanupRemoval"
        /\ docPc' = 1 /\ fresh' = {} /\ changed' = FALSE
    BY <1>1, <2>1, <2>2, Enters
  <2> QED
    BY <2>1, <2>3
<1> QED
  BY <1>2, <1>3

\* A call that shows nothing new of what the names lead to.
LEMMA Quiet ==
  ASSUME DocTyped, Document!Working, RunInv, docPc < Len(Document!Code), docPc' = docPc + 1,
         UNCHANGED <<plan, stage, job, hands, entry, content, mounted, fresh, fd, data>>,
         changed' = changed,
         Document!Here.call \notin {"gone", "open", "openfd", "readfd"} \cup Changing, ~Reads(Document!Here),
         Document!Here.call = "judge" => data = Document!Expected, Document!Here.call = "remount" => Document!Mounted
  PROVE  RunInv'
<1>1. /\ Document!Code' = Document!Code /\ Document!Goal' = Document!Goal /\ Document!Expected' = Document!Expected /\ Document!Overwritable' = Document!Overwritable
  BY SameCode
<1>2. /\ JobInv'
      /\ OnlyLooked' => OnlyLooked /\ Looks(Document!Here)
      /\ \A c, n : Saw(c, n)' => Saw(c, n) \/ (Document!Here.call = c /\ Document!Here.name = n)
      /\ Reads(Document!Here') => Document!Here.call \in {"open", "openfd"}
      /\ Document!Here'.call = "truncate" => Document!Here.call = "readfd"
      /\ Document!Here'.call = "rewrite" \/ (job' = "create" /\ docPc' = 2) =>
           \/ Document!Here.call \in {"truncate", "create"}
           \/ Document!Here.call = "same" /\ job = "create" /\ docPc = 2
      /\ Document!Here'.call = "putBack" => Document!Here.call = "gone"
      /\ MovedAside(Document!Here') => Document!Here.call = "displace" \/ MovedAside(Document!Here)
      /\ Document!Here'.artifact => Document!Here.call = "judge" \/ Document!Here.artifact
      /\ Judging(Document!Here') => Document!Here.call = "peek" \/ (Judging(Document!Here) /\ Document!Here.call = "restat")
      /\ (job = "readback" /\ docPc' = Len(Document!Code)) => Document!Here.call = "remount"
  BY GoesOn
<1>3. \A n \in Document!Names : Document!Held(n)' = Document!Held(n)
  BY DEF Document!Held
<1>4. LookInv'
  <2>1. ASSUME OnlyLooked' PROVE OnlyLooked /\ \A n : (Saw("gone", n)' => Saw("gone", n)) /\ (Saw("read", n)' => Saw("read", n))
    BY <1>2, <2>1 DEF Reads
  <2> QED
    BY <1>1, <1>3, <2>1 DEF RunInv, LookInv
<1>5. OpenInv'
  BY <1>2 DEF OpenInv
<1>6. TornInv'
  <2>1. Document!Here'.call # "truncate"
    BY <1>2
  <2>2. ASSUME Document!Here'.call = "rewrite" \/ (job' = "create" /\ docPc' = 2) PROVE OpenTarget({"torn"})'
    <3>1. job = "create" /\ docPc = 2
      BY <1>2, <2>2 DEF Changing
    <3> QED
      BY <3>1 DEF RunInv, TornInv, OpenTarget
  <2> QED
    BY <2>1, <2>2 DEF TornInv
<1>7. MovedInv'
  <2>1. Document!Here'.call # "putBack"
    BY <1>2
  <2>2. ASSUME MovedAside(Document!Here') \/ Document!Here'.artifact PROVE "temp" \in fresh' \/ Document!Held("temp")' = Document!Expected'
    <3>1. CASE MovedAside(Document!Here) \/ Document!Here.artifact
      BY <1>1, <1>3, <3>1, NamesAre DEF RunInv, MovedInv
    <3>2. CASE Document!Here.call = "judge"
      <4>1. Judging(Document!Here)
        <5>1. CallFacts(Document!Code, docPc) /\ Document!Here = Document!Code[docPc]
          BY HereFacts DEF RunInv
        <5> QED
          BY <3>2, <5>1 DEF CallFacts, Judging
      <4> QED
        BY <1>1, <1>3, <3>2, <4>1, NamesAre DEF RunInv, MovedInv
    <3> QED
      BY <1>2, <2>2, <3>1, <3>2 DEF Changing
  <2>3. ASSUME Judging(Document!Here')
        PROVE  /\ "temp" \in fresh' \/ Document!Held("temp")' = data'
               /\ data' \in Contents /\ (hands' = 0 => data' = Document!Expected')
    <3>1. Judging(Document!Here)
      BY <1>2, <2>3 DEF Reads
    <3> QED
      BY <1>1, <1>3, <3>1, NamesAre DEF RunInv, MovedInv
  <2> QED
    BY <2>1, <2>2, <2>3 DEF MovedInv
<1>8. MountInv'
  BY <1>1, <1>2 DEF MountInv, Document!Mounted
<1> QED
  BY <1>2, <1>4, <1>5, <1>6, <1>7, <1>8 DEF RunInv

\* -------------------------------------------------------------- one action at a time
\* What no action but those of other hands changes.
LEMMA TypedOn ==
  ASSUME DocTyped, UNCHANGED <<plan, mounted, entry, content, stamp, hands>>,
         stage' \in {"activation", "recovery", "activated", "recovered", "incomplete"},
         docPc' \in Nat, fresh' \subseteq Document!Names, hands' = 0 => fresh' = {}, changed' \in BOOLEAN,
         fd' \in {Document!Absent} \cup Document!Inodes, seen'.inode \in {Document!Absent} \cup Document!Inodes,
         bound'.inode \in {Document!Absent} \cup Document!Inodes
  PROVE  DocTyped'
BY DEF DocTyped

LEMMA FailsKeeps ==
  ASSUME DocTyped, RunInv, Document!CallFails
  PROVE  DocTyped' /\ (Document!Working' => RunInv')
<1>1. Document!Working /\ Document!Raise /\ UNCHANGED <<plan, Document!diskVars, Document!callVars, hands>>
  BY DEF Document!CallFails
<1>2. /\ Document!Working' => RunInv'
      /\ stage' \in {"activation", "recovery", "incomplete"}
      /\ docPc' = 1 /\ fresh' = {} /\ changed' = FALSE
  BY <1>1, Raises
<1>3. DocTyped'
  BY <1>1, <1>2, TypedOn DEF DocTyped, Document!diskVars, Document!callVars
<1> QED
  BY <1>2, <1>3

\* The calls that show nothing new.
LEMMA QuietKeeps ==
  ASSUME DocTyped, RunInv, Document!SeeMount \/ Document!Stat \/ Document!Restat \/ Document!Bound \/ Document!Same \/ (Document!Judge /\ data = Document!Expected)
                         \/ (Document!Classify /\ Document!GoOn)
  PROVE  DocTyped' /\ (Document!Working' => RunInv')
<1>1. /\ Document!Working /\ Document!GoOn /\ UNCHANGED <<plan, entry, content, stamp, mounted, fd, data, hands>>
      /\ Document!Here.call \in {"mount", "remount", "stat", "restat", "bind", "matches", "bound", "same",
                        "judge", "classify"}
      /\ Document!Here.call = "judge" => data = Document!Expected
      /\ Document!Here.call = "remount" => Document!Mounted
  BY DEF Document!SeeMount, Document!Stat, Document!Restat, Document!Bound, Document!Same, Document!Judge, Document!Classify, Document!At, Document!diskVars, Document!callVars
<1>2. seen'.inode \in {Document!Absent} \cup Document!Inodes /\ bound'.inode \in {Document!Absent} \cup Document!Inodes
  <2>1. \A n \in Document!Names : Document!Status(n).inode \in {Document!Absent} \cup Document!Inodes
    BY DEF Document!Status, Document!Nothing, DocTyped
  <2>2. Document!Here.name \in Document!Names
    BY HereFacts DEF RunInv, Calls
  <2>3. /\ seen' = seen \/ seen' = Document!Status(Document!Here.name) \/ seen' = Document!Status("target")
        /\ bound' = bound \/ bound' = seen
    BY DEF Document!SeeMount, Document!Stat, Document!Restat, Document!Bound, Document!Same, Document!Judge, Document!Classify, Document!callVars
  <2>4. "target" \in Document!Names
    BY NamesAre
  <2> QED
    BY <2>1, <2>2, <2>3, <2>4 DEF DocTyped
<1>3. Document!Continue(fresh, changed) /\ fresh \subseteq Document!Names /\ changed \in BOOLEAN /\ (hands = 0 => fresh = {})
  BY <1>1 DEF Document!GoOn, DocTyped
<1>4. /\ stage' \in {stage, "activated", "recovered"}
      /\ docPc' \in Nat /\ fresh' \subseteq Document!Names /\ (hands' = 0 => fresh' = {})
      /\ changed' \in BOOLEAN
      /\ \/ Document!Working' => RunInv'
         \/ /\ docPc < Len(Document!Code) /\ docPc' = docPc + 1 /\ fresh' = fresh /\ changed' = changed
            /\ UNCHANGED <<stage, job>>
  BY <1>1, <1>3, Continues
<1>5. DocTyped'
  BY <1>1, <1>2, <1>4, TypedOn DEF DocTyped
<1>6. ASSUME docPc < Len(Document!Code), docPc' = docPc + 1, fresh' = fresh, changed' = changed, UNCHANGED <<stage, job>>
      PROVE  RunInv'
  BY <1>1, <1>6, Quiet DEF Reads, Changing
<1> QED
  BY <1>4, <1>5, <1>6

LEMMA SeeGoneKeeps ==
  ASSUME DocTyped, RunInv, Document!SeeGone
  PROVE  DocTyped' /\ (Document!Working' => RunInv')
<1>1. /\ Document!Working /\ Document!Here.call = "gone" /\ entry[Document!Here.name] = Document!Absent
      /\ Document!Continue(fresh \ {Document!Here.name}, changed)
      /\ UNCHANGED <<plan, entry, content, stamp, mounted, fd, opened, seen, data, bound, hands>>
  BY DEF Document!SeeGone, Document!At, Document!diskVars, Document!callVars
<1>2. /\ stage' \in {stage, "activated", "recovered"}
      /\ docPc' \in Nat /\ fresh' \subseteq Document!Names /\ (hands' = 0 => fresh' = {})
      /\ changed' \in BOOLEAN
      /\ \/ Document!Working' => RunInv'
         \/ /\ docPc < Len(Document!Code) /\ docPc' = docPc + 1 /\ fresh' = fresh \ {Document!Here.name} /\ changed' = changed
            /\ UNCHANGED <<stage, job>>
  <2>1. fresh \ {Document!Here.name} \subseteq Document!Names /\ changed \in BOOLEAN /\ (hands = 0 => fresh \ {Document!Here.name} = {})
    BY DEF DocTyped
  <2> QED
    BY <1>1, <2>1, Continues
<1>3. DocTyped'
  BY <1>1, <1>2, TypedOn DEF DocTyped
<1>4. ASSUME docPc < Len(Document!Code), docPc' = docPc + 1, fresh' = fresh \ {Document!Here.name}, changed' = changed,
             UNCHANGED <<stage, job>>
      PROVE  RunInv'
  <2>1. /\ Document!Code' = Document!Code /\ Document!Goal' = Document!Goal /\ Document!Expected' = Document!Expected /\ Document!Overwritable' = Document!Overwritable
    BY <1>1, <1>4, SameCode
  <2>2. /\ JobInv'
        /\ OnlyLooked' => OnlyLooked /\ Apart(Document!Code, docPc)
        /\ \A c, n : Saw(c, n)' => Saw(c, n) \/ (Document!Here.call = c /\ Document!Here.name = n)
        /\ Reads(Document!Here') => Document!Here.call \in {"open", "openfd"}
        /\ Document!Here'.call = "truncate" => Document!Here.call = "readfd"
        /\ Document!Here'.call = "rewrite" \/ (job' = "create" /\ docPc' = 2) => Document!Here.call \in {"truncate", "create", "same"}
        /\ Document!Here'.call = "putBack" => Document!Here.call = "gone" /\ Document!Here.name = "target"
        /\ MovedAside(Document!Here') => Document!Here.call = "displace" \/ MovedAside(Document!Here)
        /\ Document!Here'.artifact => Document!Here.call = "judge" \/ Document!Here.artifact
        /\ Judging(Document!Here') => Document!Here.call = "peek" \/ Document!Here.call = "restat"
        /\ (job = "readback" /\ docPc' = Len(Document!Code)) => Document!Here.call = "remount"
    BY <1>1, <1>4, GoesOn
  <2>3. \A n \in Document!Names : Document!Held(n)' = Document!Held(n)
    BY <1>1 DEF Document!Held
  <2>4. LookInv'
    <3>1. ASSUME OnlyLooked', NEW n \in Document!Names \ fresh'
          PROVE  (Saw("gone", n)' => entry[n] = Document!Absent) /\ (Saw("read", n)' => Document!Held(n) = Document!Expected)
      <4>1. CASE n = Document!Here.name
        <5>1. ~Saw("read", n)'
          <6>1. Apart(Document!Code, docPc) /\ Document!Here = Document!Code[docPc]
            BY <2>2, <3>1, HereFacts DEF RunInv
          <6>2. ~Saw("read", n)
            BY <1>1, <4>1, <6>1 DEF Apart, Saw, SawIn, Reads
          <6> QED
            BY <1>1, <2>2, <6>2
        <5> QED
          BY <1>1, <4>1, <5>1
      <4>2. CASE n # Document!Here.name
        <5>1. n \in Document!Names \ fresh /\ OnlyLooked /\ (Saw("gone", n)' => Saw("gone", n)) /\ (Saw("read", n)' => Saw("read", n))
          BY <1>1, <1>4, <2>2, <3>1, <4>2
        <5> QED
          BY <5>1 DEF RunInv, LookInv
      <4> QED
        BY <4>1, <4>2
    <3> QED
      BY <1>1, <2>1, <2>3, <3>1 DEF LookInv
  <2>5. OpenInv' /\ TornInv'
    BY <1>1, <2>2 DEF OpenInv, TornInv
  <2>6. MovedInv'
    <3>1. Document!Here'.call = "putBack" => entry["target"] = Document!Absent
      BY <1>1, <2>2
    <3>2. ~MovedAside(Document!Here') /\ ~Judging(Document!Here')
      BY <1>1, <2>2 DEF MovedAside
    <3>3. ASSUME Document!Here'.artifact PROVE "temp" \in fresh' \/ Document!Held("temp")' = Document!Expected'
      <4>1. Document!Here.artifact
        BY <1>1, <2>2, <3>3
      <4>2. Document!Here.name = "target"
        BY <1>1, <4>1, HereFacts DEF RunInv, CallFacts
      <4> QED
        BY <1>4, <2>1, <2>3, <4>1, <4>2, NamesAre DEF RunInv, MovedInv
    <3> QED
      BY <1>1, <3>1, <3>2, <3>3 DEF MovedInv
  <2>7. MountInv'
    BY <1>1, <1>4, <2>1, <2>2 DEF MountInv
  <2> QED
    BY <2>2, <2>4, <2>5, <2>6, <2>7 DEF RunInv
<1> QED
  BY <1>2, <1>3, <1>4

\* What turns the program elsewhere.
LEMMA JumpKeeps ==
  ASSUME DocTyped, RunInv, Document!StatAbsent \/ (Document!Judge /\ data # Document!Expected)
  PROVE  /\ DocTyped' /\ (Document!Working' => RunInv')
         /\ stage' = stage /\ job' # "cleanupRemoval"
<1>1. /\ Document!Working /\ UNCHANGED <<plan, Document!diskVars, Document!callVars, hands>>
      /\ docPc' = 1 /\ UNCHANGED <<stage, fresh, changed>>
  BY DEF Document!StatAbsent, Document!Judge, Document!Jump, Document!At
<1>2. CallFacts(Document!Code, docPc) /\ Document!Here = Document!Code[docPc] /\ JobFits /\ (changed => Document!Here.started)
  BY HereFacts DEF RunInv, JobInv
<1>3. /\ JobFits' /\ job' # "cleanupRemoval"
      /\ changed' => job' \in {"putBack", "recreate"}
      /\ job' = "recreate" => data' \in Contents
      /\ hands' = 0 => job' \notin {"putBack", "recreate"}
  <2>1. CASE Document!StatAbsent
    <3>1. /\ Document!Here.call = "stat" /\ Document!Here.name = "target"
          /\ (job = "write" /\ job' = "create") \/ (job = "remove" /\ job' = "confirm")
      BY <2>1 DEF Document!StatAbsent, Document!At, Document!Jump
    <3>2. ~changed'
      BY <1>1, <1>2, <3>1 DEF CallFacts
    <3>3. Document!Goal' = Document!Goal
      BY <1>1 DEF Document!Goal
    <3> QED
      BY <1>1, <1>2, <3>1, <3>2, <3>3 DEF JobFits, Jobs
  <2>2. CASE Document!Judge /\ data # Document!Expected
    <3>1. /\ Document!Here.call = "judge"
          /\ job' = IF job = "delete" THEN "putBack" ELSE "recreate"
      BY <2>2 DEF Document!Judge, Document!At, Document!Jump
    <3>2. job \in {"delete", "remove"} /\ Judging(Document!Here)
      BY <1>2, <3>1 DEF CallFacts, Judging
    <3>3. data \in Contents /\ hands # 0
      BY <2>2, <3>2 DEF RunInv, MovedInv
    <3>4. JobFits'
      BY <1>1, <1>2, <3>1, <3>2 DEF JobFits, Jobs
    <3> QED
      BY <1>1, <3>1, <3>3, <3>4 DEF Document!callVars
  <2> QED
    BY <2>1, <2>2
<1>4. RunInv'
  BY <1>1, <1>3, Begins
<1>5. DocTyped'
  BY <1>1, TypedOn DEF DocTyped, Document!diskVars, Document!callVars
<1> QED
  BY <1>1, <1>3, <1>4, <1>5

\* A target that has the intended content needs no write.
LEMMA ClassifyKeeps ==
  ASSUME DocTyped, RunInv, Document!Classify, Document!Enter(Document!Following)
  PROVE  /\ DocTyped' /\ (Document!Working' => RunInv')
         /\ stage' = stage /\ job' # "cleanupRemoval"
<1>1. Document!Working /\ Document!Here.call = "classify" /\ UNCHANGED <<plan, Document!diskVars, Document!callVars, hands>>
  BY DEF Document!Classify, Document!At
<1>2. job = "write" /\ JobFits
  BY <1>1, HereFacts DEF RunInv, JobInv, CallFacts
<1>3. /\ Document!Working' => RunInv'
      /\ stage' # stage <=> job = "readback"
      /\ stage' \in {stage, "activated", "recovered"} /\ job' # "cleanupRemoval"
      /\ docPc' = 1 /\ fresh' = {} /\ changed' = FALSE
  BY <1>1, <1>2, Enters
<1>4. DocTyped'
  BY <1>1, <1>3, TypedOn DEF DocTyped, Document!diskVars, Document!callVars
<1> QED
  BY <1>2, <1>3, <1>4

LEMMA OpenKeeps ==
  ASSUME DocTyped, RunInv, Document!Open
  PROVE  DocTyped' /\ (Document!Working' => RunInv')
<1>1. /\ Document!Working /\ Document!Here.call \in {"open", "openfd"} /\ entry[Document!Here.name] # Document!Absent
      /\ fd' = entry[Document!Here.name] /\ Document!GoOn
      /\ UNCHANGED <<plan, entry, content, stamp, mounted, seen, data, bound, hands>>
  BY DEF Document!Open, Document!At, Document!diskVars
<1>2. Document!Continue(fresh, changed) /\ fresh \subseteq Document!Names /\ changed \in BOOLEAN /\ (hands = 0 => fresh = {})
  BY <1>1 DEF Document!GoOn, DocTyped
<1>3. /\ stage' \in {stage, "activated", "recovered"}
      /\ docPc' \in Nat /\ fresh' \subseteq Document!Names /\ (hands' = 0 => fresh' = {})
      /\ changed' \in BOOLEAN
      /\ \/ Document!Working' => RunInv'
         \/ /\ docPc < Len(Document!Code) /\ docPc' = docPc + 1 /\ fresh' = fresh /\ changed' = changed
            /\ UNCHANGED <<stage, job>>
  BY <1>1, <1>2, Continues
<1>4. Document!Here.name \in Document!Names
  BY HereFacts DEF RunInv, Calls
<1>5. DocTyped'
  <2>1. fd' \in {Document!Absent} \cup Document!Inodes
    BY <1>1, <1>4 DEF DocTyped
  <2> QED
    BY <1>1, <1>3, <2>1, TypedOn DEF DocTyped
<1>6. ASSUME docPc < Len(Document!Code), docPc' = docPc + 1, fresh' = fresh, changed' = changed, UNCHANGED <<stage, job>>
      PROVE  RunInv'
  <2>1. /\ Document!Code' = Document!Code /\ Document!Goal' = Document!Goal /\ Document!Expected' = Document!Expected /\ Document!Overwritable' = Document!Overwritable
    BY <1>1, <1>6, SameCode
  <2>2. /\ JobInv'
        /\ OnlyLooked' => OnlyLooked
        /\ \A c, n : Saw(c, n)' => Saw(c, n) \/ (Document!Here.call = c /\ Document!Here.name = n)
        /\ Reads(Document!Here') => Document!Here.name = Document!Here'.name
        /\ Document!Here'.call = "truncate" => Document!Here.call = "readfd"
        /\ Document!Here'.call = "rewrite" \/ (job' = "create" /\ docPc' = 2) => Document!Here.call \in {"truncate", "create", "same"}
        /\ Document!Here'.call = "putBack" => Document!Here.call = "gone"
        /\ MovedAside(Document!Here') => Document!Here.call = "displace" \/ MovedAside(Document!Here)
        /\ Document!Here'.artifact => Document!Here.call = "judge" \/ Document!Here.artifact
        /\ Judging(Document!Here') => Document!Here.call = "peek" \/ Document!Here.call = "restat"
        /\ (job = "readback" /\ docPc' = Len(Document!Code)) => Document!Here.call = "remount"
    BY <1>1, <1>6, GoesOn
  <2>3. \A n \in Document!Names : Document!Held(n)' = Document!Held(n)
    BY <1>1 DEF Document!Held
  <2>4. LookInv'
    <3>1. ASSUME OnlyLooked' PROVE OnlyLooked /\ \A n : (Saw("gone", n)' => Saw("gone", n)) /\ (Saw("read", n)' => Saw("read", n))
      BY <1>1, <2>2, <3>1
    <3> QED
      BY <1>1, <1>6, <2>1, <2>3, <3>1 DEF RunInv, LookInv
  <2>5. OpenInv'
    <3>1. ASSUME NEW n \in Others(Document!Here.name) PROVE entry[n] # entry[Document!Here.name]
      <4>1. {n, Document!Here.name} = {"target", "temp"}
        BY <1>4, <3>1, NamesAre DEF Others
      <4> QED
        BY <1>1, <4>1 DEF DocTyped
    <3> QED
      BY <1>1, <2>2, <3>1 DEF OpenInv, Others
  <2>6. TornInv'
    BY <1>1, <2>2 DEF TornInv
  <2>7. MovedInv'
    <3>1. Document!Here'.call # "putBack" /\ ~Judging(Document!Here')
      BY <1>1, <2>2
    <3>2. MovedAside(Document!Here') \/ Document!Here'.artifact => MovedAside(Document!Here) \/ Document!Here.artifact
      BY <1>1, <2>2
    <3> QED
      BY <1>6, <2>1, <2>3, <3>1, <3>2, NamesAre DEF RunInv, MovedInv
  <2>8. MountInv'
    BY <1>1, <1>6, <2>1, <2>2 DEF MountInv
  <2> QED
    BY <2>2, <2>4, <2>5, <2>6, <2>7, <2>8 DEF RunInv
<1> QED
  BY <1>3, <1>5, <1>6

LEMMA ReadKeeps ==
  ASSUME DocTyped, RunInv, Document!Read
  PROVE  DocTyped' /\ (Document!Working' => RunInv')
<1>1. /\ Document!Working /\ Reads(Document!Here) /\ data' = content[fd]
      /\ Document!Here.call = "read" => content[fd] = Document!Expected
      /\ Document!Here.call = "readfd" => content[fd] \in Document!Overwritable
      /\ Document!Continue(Document!Known(Document!Here.name), changed)
      /\ UNCHANGED <<plan, entry, content, stamp, mounted, fd, seen, bound, hands>>
  BY DEF Document!Read, Document!At, Reads, Document!diskVars
<1>2. Document!Known(Document!Here.name) = IF entry[Document!Here.name] = fd THEN fresh \ {Document!Here.name} ELSE fresh
  BY DEF Document!Known
<1>3. /\ stage' \in {stage, "activated", "recovered"}
      /\ docPc' \in Nat /\ fresh' \subseteq Document!Names /\ (hands' = 0 => fresh' = {})
      /\ changed' \in BOOLEAN
      /\ \/ Document!Working' => RunInv'
         \/ /\ docPc < Len(Document!Code) /\ docPc' = docPc + 1 /\ fresh' = Document!Known(Document!Here.name) /\ changed' = changed
            /\ UNCHANGED <<stage, job>>
  <2>1. Document!Known(Document!Here.name) \subseteq Document!Names /\ changed \in BOOLEAN /\ (hands = 0 => Document!Known(Document!Here.name) = {})
    BY <1>2 DEF DocTyped
  <2> QED
    BY <1>1, <2>1, Continues DEF Reads
<1>4. DocTyped'
  BY <1>1, <1>3, TypedOn DEF DocTyped
<1>5. /\ fd # Document!Absent /\ \A n \in Others(Document!Here.name) : entry[n] # fd
      /\ Document!Here.name \in fresh \/ entry[Document!Here.name] = fd
  BY <1>1 DEF RunInv, OpenInv
<1>6. Document!Here.name \in Document!Names /\ Document!Here = Document!Code[docPc] /\ CallFacts(Document!Code, docPc)
  BY HereFacts DEF RunInv, Calls
<1>7. fd \in Document!Inodes /\ content[fd] \in Contents
  BY <1>5 DEF DocTyped
<1>8. ASSUME docPc < Len(Document!Code), docPc' = docPc + 1, fresh' = Document!Known(Document!Here.name), changed' = changed,
             UNCHANGED <<stage, job>>
      PROVE  RunInv'
  <2>1. /\ Document!Code' = Document!Code /\ Document!Goal' = Document!Goal /\ Document!Expected' = Document!Expected /\ Document!Overwritable' = Document!Overwritable
    BY <1>1, <1>8, SameCode
  <2>2. job # "recreate"
    BY <1>1, <1>6 DEF CallFacts
  <2>3. /\ JobInv'
        /\ OnlyLooked' => OnlyLooked /\ Looks(Document!Here) /\ Apart(Document!Code, docPc)
        /\ \A c, n : Saw(c, n)' => Saw(c, n) \/ (Document!Here.call = c /\ Document!Here.name = n)
        /\ Reads(Document!Here') => Document!Here.call \in {"open", "openfd"}
        /\ Document!Here'.call = "truncate" => Document!Here.call = "readfd" /\ Document!Here.name = "target"
        /\ Document!Here'.call = "rewrite" \/ (job' = "create" /\ docPc' = 2) => Document!Here.call \in {"truncate", "create", "same"}
        /\ Document!Here'.call = "putBack" => Document!Here.call = "gone"
        /\ MovedAside(Document!Here') => Document!Here.call = "displace" \/ (MovedAside(Document!Here) /\ Document!Here.call # "peek")
        /\ Document!Here'.artifact => Document!Here.call = "judge" \/ Document!Here.artifact
        /\ Judging(Document!Here') => (MovedAside(Document!Here) /\ Document!Here.call = "peek") \/ Document!Here.call = "restat"
        /\ (job = "readback" /\ docPc' = Len(Document!Code)) => Document!Here.call = "remount"
    BY <1>1, <1>8, <2>2, GoesOn
  <2>4. \A n \in Document!Names : Document!Held(n)' = Document!Held(n)
    BY <1>1 DEF Document!Held
  <2>5. \A n \in Document!Names \ fresh' : (n \notin fresh /\ n # Document!Here.name) \/ (n = Document!Here.name /\ entry[n] = fd /\ Document!Held(n) = content[fd])
    <3>1. ASSUME NEW n \in Document!Names \ fresh' PROVE (n \notin fresh /\ n # Document!Here.name) \/ (n = Document!Here.name /\ entry[n] = fd)
      BY <1>2, <1>5, <1>8, <3>1
    <3> QED
      BY <1>5, <3>1 DEF Document!Held
  <2>6. LookInv'
    <3>1. ASSUME OnlyLooked', NEW n \in Document!Names \ fresh'
          PROVE  (Saw("gone", n)' => entry[n] = Document!Absent) /\ (Saw("read", n)' => Document!Held(n) = Document!Expected)
      <4>1. CASE n # Document!Here.name
        <5>1. n \in Document!Names \ fresh /\ OnlyLooked /\ (Saw("gone", n)' => Saw("gone", n)) /\ (Saw("read", n)' => Saw("read", n))
          BY <2>3, <2>5, <3>1, <4>1
        <5> QED
          BY <5>1 DEF RunInv, LookInv
      <4>2. CASE n = Document!Here.name
        <5>1. Apart(Document!Code, docPc) /\ Document!Held(n) = content[fd]
          BY <2>3, <2>5, <3>1, <4>2
        <5>2. ~Saw("gone", n)'
          <6>1. ~Saw("gone", n)
            BY <1>1, <1>6, <4>2, <5>1 DEF Apart, Saw, SawIn
          <6>2. Document!Here.call # "gone"
            BY <1>1 DEF Reads
          <6> QED
            BY <2>3, <6>1, <6>2
        <5>3. Saw("read", n)' => Document!Here.call = "read"
          <6>1. Document!Here.call # "read" => ~Saw("read", n)
            BY <1>1, <1>6, <4>2, <5>1 DEF Apart, Saw, SawIn
          <6> QED
            BY <2>3, <6>1
        <5> QED
          BY <1>1, <5>1, <5>2, <5>3
      <4> QED
        BY <4>1, <4>2
    <3> QED
      BY <1>1, <2>1, <2>4, <3>1 DEF LookInv
  <2>7. OpenInv'
    BY <1>1, <2>3 DEF OpenInv, Reads
  <2>8. TornInv'
    <3>1. ASSUME Document!Here'.call = "truncate" PROVE OpenTarget(Document!Overwritable)'
      <4>1. Document!Here.call = "readfd" /\ Document!Here.name = "target" /\ content[fd] \in Document!Overwritable
        BY <1>1, <2>3, <3>1
      <4>2. entry["temp"] # fd
        BY <1>5, <4>1, NamesAre DEF Others
      <4>3. "target" \in fresh' \/ entry["target"] = fd
        BY <2>5, <4>1, NamesAre
      <4> QED
        BY <1>1, <1>5, <2>1, <4>1, <4>2, <4>3 DEF OpenTarget
    <3>2. ~(Document!Here'.call = "rewrite" \/ (job' = "create" /\ docPc' = 2))
      BY <1>1, <2>3 DEF Reads
    <3> QED
      BY <3>1, <3>2 DEF TornInv
  <2>9. MovedInv'
    <3>1. Document!Here'.call # "putBack" /\ ~MovedAside(Document!Here') /\ ~Document!Here'.artifact
      <4>1. ~Document!Here.artifact
        BY <1>1, <1>6 DEF CallFacts, Reads, Plain
      <4>2. MovedAside(Document!Here) => Document!Here.call = "peek"
        BY <1>1 DEF MovedAside, Reads
      <4> QED
        BY <1>1, <2>3, <4>1, <4>2 DEF Reads
    <3>2. ASSUME Judging(Document!Here')
          PROVE  /\ "temp" \in fresh' \/ Document!Held("temp")' = data'
                 /\ data' \in Contents /\ (hands' = 0 => data' = Document!Expected')
      <4>1. MovedAside(Document!Here) /\ Document!Here.name = "temp"
        BY <1>1, <2>3, <3>2 DEF MovedAside, Reads
      <4>2. "temp" \in fresh' \/ Document!Held("temp") = content[fd]
        BY <2>5, <4>1, NamesAre
      <4>3. ASSUME hands = 0 PROVE content[fd] = Document!Expected
        <5>1. "temp" \notin fresh /\ entry["temp"] = fd
          BY <1>5, <4>1, <4>3 DEF DocTyped
        <5>2. Document!Held("temp") = Document!Expected
          BY <4>1, <5>1 DEF RunInv, MovedInv
        <5> QED
          BY <1>5, <5>1, <5>2 DEF Document!Held
      <4> QED
        BY <1>1, <1>7, <2>1, <2>4, <4>2, <4>3, NamesAre
    <3> QED
      BY <3>1, <3>2 DEF MovedInv
  <2>10. MountInv'
    BY <1>1, <1>8, <2>1, <2>3 DEF MountInv, Reads
  <2> QED
    BY <2>3, <2>6, <2>7, <2>8, <2>9, <2>10 DEF RunInv
<1> QED
  BY <1>3, <1>4, <1>8

\* --------------------------------------------------------------- calls that change
LEMMA WritesKeep ==
  ASSUME DocTyped, RunInv, Document!Truncate \/ Document!Rewrite
  PROVE  DocTyped' /\ (Document!Working' => RunInv')
<1>1. /\ Document!Working /\ Document!Here.call \in {"truncate", "rewrite"}
      /\ Document!Here.call = "truncate" => content' = [content EXCEPT ![fd] = "torn"]
      /\ Document!Continue(Document!Known("target"), TRUE)
      /\ UNCHANGED <<plan, entry, stamp, mounted, fd, opened, seen, data, bound, hands>>
  BY DEF Document!Truncate, Document!Rewrite, Document!At, Document!callVars
<1>2. Document!Known("target") = IF entry["target"] = fd THEN fresh \ {"target"} ELSE fresh
  BY DEF Document!Known
<1>3. fd # Document!Absent /\ entry["temp"] # fd /\ ("target" \in fresh \/ entry["target"] = fd)
  BY <1>1 DEF RunInv, TornInv, OpenTarget
<1>4. fd \in Document!Inodes
  BY <1>3 DEF DocTyped
<1>5. /\ Document!Here = Document!Code[docPc] /\ CallFacts(Document!Code, docPc) /\ (job = "recreate" => data \in Contents)
  BY HereFacts DEF RunInv, JobInv
<1>6. content' \in [Document!Inodes -> Contents]
  <2>1. CASE Document!Here.call = "truncate"
    BY <1>1, <1>4, <2>1 DEF DocTyped, Contents
  <2>2. CASE Document!Here.call = "rewrite"
    <3>1. Document!Rewrite /\ Document!Goal \in Contents \cup {"absent"} /\ job \in {"write", "create", "recreate"}
      BY <1>1, <1>5, <2>2 DEF Document!Truncate, Document!Rewrite, Document!At, Document!Goal, Contents, CallFacts
    <3>2. job \in {"write", "create"} => Document!Goal # "absent"
      BY DEF RunInv, JobInv, JobFits
    <3>3. PICK written \in {IF job = "recreate" THEN data ELSE Document!Goal}
                            \cup (IF content[fd] = "torn" THEN {} ELSE {"torn"}) :
            content' = [content EXCEPT ![fd] = written]
      BY <3>1 DEF Document!Rewrite
    <3>4. written \in Contents
      BY <1>5, <3>1, <3>2, <3>3 DEF Contents
    <3> QED
      BY <3>3, <3>4 DEF DocTyped
  <2> QED
    BY <1>1, <2>1, <2>2
<1>7. /\ stage' \in {stage, "activated", "recovered"}
      /\ docPc' \in Nat /\ fresh' \subseteq Document!Names /\ (hands' = 0 => fresh' = {})
      /\ changed' \in BOOLEAN
      /\ \/ Document!Working' => RunInv'
         \/ /\ docPc < Len(Document!Code) /\ docPc' = docPc + 1 /\ fresh' = Document!Known("target") /\ changed' = TRUE
            /\ UNCHANGED <<stage, job>>
  <2>1. Document!Known("target") \subseteq Document!Names /\ (hands = 0 => Document!Known("target") = {})
    BY <1>2 DEF DocTyped
  <2> QED
    BY <1>1, <2>1, Continues
<1>8. DocTyped'
  BY <1>1, <1>6, <1>7 DEF DocTyped
<1>9. ASSUME docPc < Len(Document!Code), docPc' = docPc + 1, fresh' = Document!Known("target"), changed' = TRUE, UNCHANGED <<stage, job>>
      PROVE  RunInv'
  <2>1. Document!Code' = Document!Code
    BY <1>1, <1>9, SameCode
  <2>2. /\ JobInv'
        /\ OnlyLooked' => Looks(Document!Here)
        /\ Reads(Document!Here') => Document!Here.call \in {"open", "openfd"}
        /\ Document!Here'.call = "truncate" => Document!Here.call = "readfd"
        /\ Document!Here'.call = "rewrite" \/ (job' = "create" /\ docPc' = 2) => Document!Here.call \in {"truncate", "create", "same"}
        /\ Document!Here'.call = "putBack" => Document!Here.call = "gone"
        /\ MovedAside(Document!Here') => Document!Here.call = "displace" \/ MovedAside(Document!Here)
        /\ Document!Here'.artifact => Document!Here.call = "judge" \/ Document!Here.call \notin Changing
        /\ Judging(Document!Here') => Document!Here.call \in {"peek", "restat"}
        /\ (job = "readback" /\ docPc' = Len(Document!Code)) => Document!Here.call = "remount"
    BY <1>1, <1>9, GoesOn DEF Changing
  <2>3. LookInv' /\ OpenInv' /\ MovedInv' /\ MountInv'
    BY <1>1, <1>9, <2>1, <2>2 DEF LookInv, OpenInv, MovedInv, MountInv, Looks, Watching, MovedAside, Changing
  <2>4. TornInv'
    <3>1. Document!Here'.call # "truncate"
      BY <1>1, <2>2
    <3>2. ASSUME Document!Here.call = "truncate" PROVE OpenTarget({"torn"})'
      <4>1. content'[fd] = "torn"
        BY <1>1, <1>4, <3>2 DEF DocTyped
      <4> QED
        BY <1>1, <1>2, <1>3, <1>9, <4>1 DEF OpenTarget
    <3> QED
      BY <1>1, <2>2, <3>1, <3>2 DEF TornInv
  <2> QED
    BY <2>2, <2>3, <2>4 DEF RunInv
<1> QED
  BY <1>7, <1>8, <1>9

LEMMA RewriteFailsKeeps ==
  ASSUME DocTyped, RunInv, Document!RewriteFails
  PROVE  DocTyped' /\ (Document!Working' => RunInv')
<1>1. /\ Document!Working /\ Document!Here.call = "rewrite" /\ Document!Raise
      /\ UNCHANGED <<plan, entry, stamp, mounted, fd, opened, seen, data, bound, hands>>
  BY DEF Document!RewriteFails, Document!At, Document!callVars
<1>2. /\ Document!Working' => RunInv'
      /\ stage' \in {"activation", "recovery", "incomplete"}
      /\ docPc' = 1 /\ fresh' = {} /\ changed' = FALSE
  BY <1>1, Raises
<1>3. fd \in Document!Inodes
  BY <1>1 DEF RunInv, TornInv, OpenTarget, DocTyped
<1>4. content' \in [Document!Inodes -> Contents]
  <2>1. /\ CallFacts(Document!Code, docPc) /\ Document!Here = Document!Code[docPc] /\ (job = "recreate" => data \in Contents)
        /\ job \in {"write", "create"} => Document!Goal # "absent"
    BY HereFacts DEF RunInv, JobInv, JobFits
  <2>2. job \in {"write", "create", "recreate"} /\ Document!Goal \in Contents \cup {"absent"}
    BY <1>1, <2>1 DEF CallFacts, Document!Goal, Contents
  <2>3. PICK written \in {"torn", IF job = "recreate" THEN data ELSE Document!Goal} :
          content' = [content EXCEPT ![fd] = written]
    BY DEF Document!RewriteFails
  <2>4. written \in Contents
    BY <2>1, <2>2, <2>3 DEF Contents
  <2> QED
    BY <2>3, <2>4 DEF DocTyped
<1>5. DocTyped'
  BY <1>1, <1>2, <1>4 DEF DocTyped
<1> QED
  BY <1>2, <1>5

LEMMA CreateKeeps ==
  ASSUME DocTyped, RunInv, Document!Create
  PROVE  DocTyped' /\ (Document!Working' => RunInv')
<1>1. /\ Document!Working /\ Document!Here.call = "create" /\ entry["target"] = Document!Absent
      /\ entry' = [entry EXCEPT !["target"] = Document!Unused]
      /\ content' = [content EXCEPT ![Document!Unused] = "torn"]
      /\ stamp' = [stamp EXCEPT ![Document!Unused] = 0]
      /\ fd' = Document!Unused /\ Document!Continue(fresh \ {"target"}, TRUE)
      /\ UNCHANGED <<plan, mounted, seen, data, bound, hands>>
  BY DEF Document!Create, Document!At
<1>2. Document!Unused \in Document!Inodes /\ Document!Unused # entry["temp"] /\ Document!Unused # Document!Absent
  BY UnusedIs DEF Document!Inodes, Document!Absent
<1>3. /\ stage' \in {stage, "activated", "recovered"}
      /\ docPc' \in Nat /\ fresh' \subseteq Document!Names /\ (hands' = 0 => fresh' = {})
      /\ changed' \in BOOLEAN
      /\ \/ Document!Working' => RunInv'
         \/ /\ docPc < Len(Document!Code) /\ docPc' = docPc + 1 /\ fresh' = fresh \ {"target"} /\ changed' = TRUE
            /\ UNCHANGED <<stage, job>>
  <2>1. fresh \ {"target"} \subseteq Document!Names /\ (hands = 0 => fresh \ {"target"} = {})
    BY DEF DocTyped
  <2> QED
    BY <1>1, <2>1, Continues
<1>4. DocTyped'
  <2>1. /\ entry' \in [Document!Names -> {Document!Absent} \cup Document!Inodes]
        /\ entry'["target"] = Document!Unused /\ entry'["temp"] = entry["temp"]
    BY <1>1, <1>2, NamesAre DEF DocTyped
  <2>2. content' \in [Document!Inodes -> Contents]
    BY <1>1, <1>2 DEF DocTyped, Contents
  <2>3. stamp' \in [Document!Inodes -> Nat] /\ \A i \in Document!Inodes : stamp'[i] <= hands'
    BY <1>1, <1>2 DEF DocTyped
  <2> QED
    BY <1>1, <1>2, <1>3, <2>1, <2>2, <2>3 DEF DocTyped
<1>5. ASSUME docPc < Len(Document!Code), docPc' = docPc + 1, fresh' = fresh \ {"target"}, changed' = TRUE, UNCHANGED <<stage, job>>
      PROVE  RunInv'
  <2>1. Document!Code' = Document!Code
    BY <1>1, <1>5, SameCode
  <2>2. /\ JobInv'
        /\ OnlyLooked' => Looks(Document!Here)
        /\ Reads(Document!Here') => Document!Here.call \in {"open", "openfd"}
        /\ Document!Here'.call = "truncate" => Document!Here.call = "readfd"
        /\ Document!Here'.call = "putBack" => Document!Here.call = "gone"
        /\ MovedAside(Document!Here') => Document!Here.call = "displace" \/ MovedAside(Document!Here)
        /\ Document!Here'.artifact => Document!Here.call = "judge" \/ Document!Here.call \notin Changing
        /\ Judging(Document!Here') => Document!Here.call \in {"peek", "restat"}
        /\ (job = "readback" /\ docPc' = Len(Document!Code)) => Document!Here.call = "remount"
    BY <1>1, <1>5, GoesOn DEF Changing
  <2>3. LookInv' /\ OpenInv' /\ MovedInv' /\ MountInv'
    BY <1>1, <1>5, <2>1, <2>2 DEF LookInv, OpenInv, MovedInv, MountInv, Looks, Watching, MovedAside, Changing
  <2>4. TornInv'
    <3>1. Document!Here'.call # "truncate"
      BY <1>1, <2>2
    <3>2. OpenTarget({"torn"})'
      <4>1. entry'["target"] = Document!Unused /\ entry'["temp"] = entry["temp"] /\ content'[Document!Unused] = "torn"
        BY <1>1, <1>2, NamesAre DEF DocTyped
      <4> QED
        BY <1>1, <1>2, <4>1 DEF OpenTarget
    <3> QED
      BY <3>1, <3>2 DEF TornInv
  <2> QED
    BY <2>2, <2>3, <2>4 DEF RunInv
<1> QED
  BY <1>3, <1>4, <1>5

LEMMA DisplaceKeeps ==
  ASSUME DocTyped, RunInv, Document!Displace
  PROVE  DocTyped' /\ (Document!Working' => RunInv')
<1> DEFINE left == IF "target" \in fresh THEN {"temp"} ELSE {}
<1>1. /\ Document!Working /\ Document!Here.call = "displace" /\ entry["target"] # Document!Absent
      /\ entry' = [target |-> Document!Absent, temp |-> entry["target"]]
      /\ Document!Continue(left, TRUE)
      /\ UNCHANGED <<plan, content, stamp, mounted, fd, opened, seen, data, bound, hands>>
  BY DEF Document!Displace, Document!At, Document!callVars
<1>2. /\ stage' \in {stage, "activated", "recovered"}
      /\ docPc' \in Nat /\ fresh' \subseteq Document!Names /\ (hands' = 0 => fresh' = {})
      /\ changed' \in BOOLEAN
      /\ \/ Document!Working' => RunInv'
         \/ /\ docPc < Len(Document!Code) /\ docPc' = docPc + 1 /\ fresh' = left /\ changed' = TRUE
            /\ UNCHANGED <<stage, job>>
  <2>1. left \subseteq Document!Names /\ (hands = 0 => left = {})
    BY NamesAre DEF DocTyped
  <2> HIDE DEF left
  <2> QED
    BY <1>1, <2>1, Continues
<1>3. entry'["target"] = Document!Absent /\ entry'["temp"] = entry["target"] /\ DOMAIN entry' = {"target", "temp"}
  BY <1>1
<1>4. DocTyped'
  <2>1. entry["target"] \in {Document!Absent} \cup Document!Inodes
    BY NamesAre DEF DocTyped
  <2>2. entry' \in [Document!Names -> {Document!Absent} \cup Document!Inodes]
    BY <1>1, <2>1, NamesAre
  <2> QED
    BY <1>1, <1>2, <1>3, <2>2 DEF DocTyped
<1>5. ASSUME docPc < Len(Document!Code), docPc' = docPc + 1, fresh' = left, changed' = TRUE, UNCHANGED <<stage, job>>
      PROVE  RunInv'
  <2>1. Document!Code' = Document!Code /\ Document!Expected' = Document!Expected
    BY <1>1, <1>5, SameCode
  <2>2. /\ JobInv'
        /\ OnlyLooked' => Looks(Document!Here)
        /\ Reads(Document!Here') => Document!Here.call \in {"open", "openfd"}
        /\ Document!Here'.call = "truncate" => Document!Here.call = "readfd"
        /\ Document!Here'.call = "rewrite" \/ (job' = "create" /\ docPc' = 2) => Document!Here.call \in {"truncate", "create", "same"}
        /\ Document!Here'.call = "putBack" => Document!Here.call = "gone"
        /\ Document!Here'.artifact => Document!Here.call = "judge" \/ Document!Here.call \notin Changing
        /\ Judging(Document!Here') => Document!Here.call \in {"peek", "restat"}
        /\ (job = "readback" /\ docPc' = Len(Document!Code)) => Document!Here.call = "remount"
    BY <1>1, <1>5, GoesOn DEF Changing
  <2>3. LookInv' /\ OpenInv' /\ TornInv' /\ MountInv'
    BY <1>1, <1>5, <2>1, <2>2 DEF LookInv, OpenInv, TornInv, MountInv, Looks, Watching
  <2>4. MovedInv'
    <3>1. "temp" \in fresh' \/ Document!Held("temp")' = Document!Expected'
      <4>1. CASE "target" \in fresh
        BY <1>5, <4>1
      <4>2. CASE "target" \notin fresh
        <5>1. OnlyLooked /\ Saw("read", "target")
          BY <1>1, HereFacts DEF RunInv, CallFacts, OnlyLooked, Saw
        <5>2. Document!Held("target") = Document!Expected
          BY <4>2, <5>1, NamesAre DEF RunInv, LookInv
        <5>3. Document!Held("temp")' = Document!Held("target")
          BY <1>1, <1>3 DEF Document!Held
        <5> QED
          BY <2>1, <5>2, <5>3
      <4> QED
        BY <4>1, <4>2
    <3> QED
      BY <1>1, <2>2, <3>1 DEF MovedInv, Changing
  <2> QED
    BY <2>2, <2>3, <2>4 DEF RunInv
<1> HIDE DEF left
<1> QED
  BY <1>2, <1>4, <1>5

LEMMA PutBackKeeps ==
  ASSUME DocTyped, RunInv, Document!PutBackRaced
  PROVE  DocTyped' /\ (Document!Working' => RunInv')
<1>1. /\ Document!Working /\ Document!Here.call = "putBack" /\ Document!Raise
      /\ \/ UNCHANGED entry
         \/ entry["temp"] # Document!Absent /\ entry' = [target |-> entry["temp"], temp |-> Document!Absent]
      /\ UNCHANGED <<plan, content, stamp, mounted, fd, opened, seen, data, bound, hands>>
  BY DEF Document!PutBackRaced, Document!At, Document!callVars
<1>2. /\ Document!Working' => RunInv'
      /\ stage' \in {"activation", "recovery", "incomplete"}
      /\ docPc' = 1 /\ fresh' = {} /\ changed' = FALSE
  BY <1>1, Raises
<1>3. entry' \in [Document!Names -> {Document!Absent} \cup Document!Inodes] /\ (entry'["target"] = entry'["temp"] => entry'["temp"] = Document!Absent)
  <2>1. entry["temp"] \in {Document!Absent} \cup Document!Inodes
    BY NamesAre DEF DocTyped
  <2>2. CASE UNCHANGED entry
    BY <2>2 DEF DocTyped
  <2>3. CASE entry' = [target |-> entry["temp"], temp |-> Document!Absent]
    BY <2>1, <2>3, NamesAre
  <2> QED
    BY <1>1, <2>2, <2>3
<1>4. DocTyped'
  BY <1>1, <1>2, <1>3 DEF DocTyped
<1> QED
  BY <1>2, <1>4

LEMMA UnlinkKeeps ==
  ASSUME DocTyped, RunInv, Document!Unlink
  PROVE  DocTyped' /\ (Document!Working' => RunInv')
<1>1. /\ Document!Working /\ Document!Here.call = "unlink"
      /\ entry' = [entry EXCEPT !["temp"] = Document!Absent]
      /\ Document!Continue(fresh \ {"temp"}, TRUE)
      /\ UNCHANGED <<plan, content, stamp, mounted, fd, opened, seen, data, bound, hands>>
  BY DEF Document!Unlink, Document!At, Document!callVars
<1>2. /\ stage' \in {stage, "activated", "recovered"}
      /\ docPc' \in Nat /\ fresh' \subseteq Document!Names /\ (hands' = 0 => fresh' = {})
      /\ changed' \in BOOLEAN
      /\ \/ Document!Working' => RunInv'
         \/ /\ docPc < Len(Document!Code) /\ docPc' = docPc + 1 /\ fresh' = fresh \ {"temp"} /\ changed' = TRUE
            /\ UNCHANGED <<stage, job>>
  <2>1. fresh \ {"temp"} \subseteq Document!Names /\ (hands = 0 => fresh \ {"temp"} = {})
    BY DEF DocTyped
  <2> QED
    BY <1>1, <2>1, Continues
<1>3. DocTyped'
  <2>1. entry' \in [Document!Names -> {Document!Absent} \cup Document!Inodes] /\ entry'["temp"] = Document!Absent
    BY <1>1, NamesAre DEF DocTyped
  <2> QED
    BY <1>1, <1>2, <2>1 DEF DocTyped
<1>4. ASSUME docPc < Len(Document!Code), docPc' = docPc + 1, fresh' = fresh \ {"temp"}, changed' = TRUE, UNCHANGED <<stage, job>>
      PROVE  RunInv'
  <2>1. Document!Code' = Document!Code
    BY <1>1, <1>4, SameCode
  <2>2. /\ JobInv'
        /\ OnlyLooked' => Looks(Document!Here)
        /\ Reads(Document!Here') => Document!Here.call \in {"open", "openfd"}
        /\ Document!Here'.call = "truncate" => Document!Here.call = "readfd"
        /\ Document!Here'.call = "rewrite" \/ (job' = "create" /\ docPc' = 2) => Document!Here.call \in {"truncate", "create", "same"}
        /\ Document!Here'.call = "putBack" => Document!Here.call = "gone"
        /\ MovedAside(Document!Here') => Document!Here.call = "displace" \/ MovedAside(Document!Here)
        /\ Document!Here'.artifact => Document!Here.call = "judge" \/ Document!Here.call \notin Changing
        /\ Judging(Document!Here') => Document!Here.call \in {"peek", "restat"}
        /\ (job = "readback" /\ docPc' = Len(Document!Code)) => Document!Here.call = "remount"
    BY <1>1, <1>4, GoesOn DEF Changing
  <2>3. LookInv' /\ OpenInv' /\ TornInv' /\ MovedInv' /\ MountInv'
    BY <1>1, <1>4, <2>1, <2>2
       DEF LookInv, OpenInv, TornInv, MovedInv, MountInv, Looks, Watching, MovedAside, Changing
  <2> QED
    BY <2>2, <2>3 DEF RunInv
<1> QED
  BY <1>2, <1>3, <1>4

\* ------------------------------------------------------------------- other hands
LEMMA HandFacts ==
  ASSUME DocTyped, Document!Hand
  PROVE  /\ Document!Working /\ DocTyped' /\ hands' > 0 /\ hands' \in Nat /\ fresh \subseteq fresh'
         /\ UNCHANGED <<plan, stage, job, docPc, changed, fd, data>>
         /\ \A n \in Document!Names \ fresh' :
              n \notin fresh /\ entry'[n] = entry[n] /\ Document!Held(n)' = Document!Held(n)
                /\ (entry[n] # Document!Absent => content'[entry[n]] = content[entry[n]])
         /\ fd # Document!Absent => \A n \in Document!Names : entry[n] # fd => entry'[n] # fd
         /\ mounted' = mounted \/ fresh' = Document!Names
<1>1. Document!Unused \in Document!Inodes \ {entry["target"], entry["temp"], fd} /\ Document!Unused # Document!Absent
  BY UnusedIs DEF Document!Inodes, Document!Absent
<1>2. entry["target"] \in {Document!Absent} \cup Document!Inodes /\ entry["temp"] \in {Document!Absent} \cup Document!Inodes
  BY NamesAre DEF DocTyped
<1>3. PICK names \in SUBSET Document!Names : Document!Meddle(names)
  BY NamesAre DEF Document!Hand, Document!HandMounts, Document!HandEdits, Document!HandPlaces, Document!HandRemoves
<1>4. /\ Document!Working /\ hands' = hands + 1 /\ hands' <= MaxHands /\ hands' \in Nat /\ hands' > 0
      /\ fresh' = fresh \cup names
      /\ UNCHANGED <<plan, stage, job, docPc, changed, fd, seen, bound, data>>
  BY <1>3, HandsAssumption DEF Document!Meddle, Document!callVars, Document!jobVars, DocTyped
<1>5. fresh' \subseteq Document!Names /\ (hands' = 0 => fresh' = {})
  BY <1>3, <1>4 DEF DocTyped
<1>6. CASE Document!HandMounts
  <2>1. /\ mounted' = "other" /\ entry' = [target |-> Document!Unused, temp |-> Document!Absent]
        /\ stamp' = [stamp EXCEPT ![Document!Unused] = 0]
        /\ fresh' = fresh \cup Document!Names
    BY <1>6 DEF Document!HandMounts, Document!Meddle
  <2>2. content' \in [Document!Inodes -> Contents]
    BY <1>1, <1>6 DEF Document!HandMounts, DocTyped, Contents
  <2>3. stamp' \in [Document!Inodes -> Nat] /\ \A i \in Document!Inodes : stamp'[i] <= hands'
    BY <1>1, <1>4, <2>1 DEF DocTyped
  <2>4. /\ entry' \in [Document!Names -> {Document!Absent} \cup Document!Inodes]
        /\ entry'["target"] = Document!Unused /\ entry'["temp"] = Document!Absent
    BY <1>1, <2>1, NamesAre
  <2>5. DocTyped'
    BY <1>1, <1>4, <1>5, <2>1, <2>2, <2>3, <2>4 DEF DocTyped
  <2>6. fresh' = Document!Names
    BY <2>1 DEF DocTyped
  <2>7. fd # Document!Absent => \A n \in Document!Names : entry'[n] # fd
    BY <1>1, <2>4, NamesAre
  <2> QED
    BY <1>4, <2>5, <2>6, <2>7
<1>7. ASSUME NEW name \in Document!Names, Document!HandEdits(name) PROVE
         /\ DocTyped' /\ mounted' = mounted
         /\ \A n \in Document!Names \ fresh' :
              n \notin fresh /\ entry'[n] = entry[n] /\ Document!Held(n)' = Document!Held(n)
                /\ (entry[n] # Document!Absent => content'[entry[n]] = content[entry[n]])
         /\ fd # Document!Absent => \A n \in Document!Names : entry[n] # fd => entry'[n] # fd
  <2>1. /\ entry[name] # Document!Absent /\ content' = [content EXCEPT ![entry[name]] = "foreign"]
        /\ UNCHANGED stamp \/ stamp' = [stamp EXCEPT ![entry[name]] = @ + 1]
        /\ fresh' = fresh \cup {name} /\ UNCHANGED <<entry, mounted>>
    BY <1>7 DEF Document!HandEdits, Document!Meddle
  <2>2. entry[name] \in Document!Inodes
    BY <2>1 DEF DocTyped
  <2>3. content' \in [Document!Inodes -> Contents]
    BY <2>1, <2>2 DEF DocTyped, Contents
  <2>4. stamp' \in [Document!Inodes -> Nat] /\ \A i \in Document!Inodes : stamp'[i] <= hands'
    <3>1. CASE UNCHANGED stamp
      BY <1>4, <3>1 DEF DocTyped
    <3>2. CASE stamp' = [stamp EXCEPT ![entry[name]] = @ + 1]
      BY <1>4, <2>2, <3>2 DEF DocTyped
    <3> QED
      BY <2>1, <3>1, <3>2
  <2>5. DocTyped'
    BY <1>4, <1>5, <2>1, <2>3, <2>4 DEF DocTyped
  <2>6. ASSUME NEW n \in Document!Names \ fresh'
        PROVE  /\ n \notin fresh /\ Document!Held(n)' = Document!Held(n)
               /\ (entry[n] # Document!Absent => content'[entry[n]] = content[entry[n]])
    <3>1. n \notin fresh /\ n # name
      BY <2>1, <2>6
    <3>2. entry[n] = Document!Absent \/ (entry[n] # entry[name] /\ entry[n] \in Document!Inodes)
      BY <2>1, <3>1, NamesAre DEF DocTyped
    <3>3. entry[n] # Document!Absent => content'[entry[n]] = content[entry[n]]
      BY <2>1, <3>2 DEF DocTyped
    <3> QED
      BY <2>1, <3>1, <3>3 DEF Document!Held
  <2> QED
    BY <2>1, <2>5, <2>6
<1>8. ASSUME NEW name \in Document!Names, Document!HandPlaces(name) PROVE
         /\ DocTyped' /\ mounted' = mounted
         /\ \A n \in Document!Names \ fresh' :
              n \notin fresh /\ entry'[n] = entry[n] /\ Document!Held(n)' = Document!Held(n)
                /\ (entry[n] # Document!Absent => content'[entry[n]] = content[entry[n]])
         /\ fd # Document!Absent => \A n \in Document!Names : entry[n] # fd => entry'[n] # fd
  <2>1. /\ entry' = [entry EXCEPT ![name] = Document!Unused]
        /\ content' = [content EXCEPT ![Document!Unused] = "foreign"]
        /\ stamp' = [stamp EXCEPT ![Document!Unused] = 0]
        /\ fresh' = fresh \cup {name} /\ UNCHANGED mounted
    BY <1>8 DEF Document!HandPlaces, Document!Meddle
  <2>2. /\ content' \in [Document!Inodes -> Contents]
        /\ stamp' \in [Document!Inodes -> Nat] /\ \A i \in Document!Inodes : stamp'[i] <= hands'
    BY <1>1, <1>4, <2>1 DEF DocTyped, Contents
  <2>3. /\ entry' \in [Document!Names -> {Document!Absent} \cup Document!Inodes] /\ entry'[name] = Document!Unused
        /\ \A n \in Document!Names \ {name} : entry'[n] = entry[n]
    BY <1>1, <2>1 DEF DocTyped
  <2>4. entry'["target"] # entry'["temp"] \/ entry'["temp"] = Document!Absent
    BY <1>1, <2>3, NamesAre
  <2>5. DocTyped'
    BY <1>4, <1>5, <2>1, <2>2, <2>3, <2>4 DEF DocTyped
  <2>6. ASSUME NEW n \in Document!Names \ fresh'
        PROVE  /\ n \notin fresh /\ entry'[n] = entry[n] /\ Document!Held(n)' = Document!Held(n)
               /\ (entry[n] # Document!Absent => content'[entry[n]] = content[entry[n]])
    <3>1. n \notin fresh /\ n # name /\ entry'[n] = entry[n]
      BY <2>1, <2>3, <2>6
    <3>2. entry[n] # Document!Unused /\ entry[n] \in {Document!Absent} \cup Document!Inodes
      BY <1>1, <1>2, NamesAre
    <3>3. entry[n] # Document!Absent => content'[entry[n]] = content[entry[n]]
      BY <2>1, <3>2 DEF DocTyped
    <3> QED
      BY <3>1, <3>3 DEF Document!Held
  <2> QED
    BY <1>1, <2>1, <2>3, <2>5, <2>6
<1>9. ASSUME NEW name \in Document!Names, Document!HandRemoves(name) PROVE
         /\ DocTyped' /\ mounted' = mounted
         /\ \A n \in Document!Names \ fresh' :
              n \notin fresh /\ entry'[n] = entry[n] /\ Document!Held(n)' = Document!Held(n)
                /\ (entry[n] # Document!Absent => content'[entry[n]] = content[entry[n]])
         /\ fd # Document!Absent => \A n \in Document!Names : entry[n] # fd => entry'[n] # fd
  <2>1. /\ entry' = [entry EXCEPT ![name] = Document!Absent]
        /\ fresh' = fresh \cup {name} /\ UNCHANGED <<content, stamp, mounted>>
    BY <1>9 DEF Document!HandRemoves, Document!Meddle
  <2>2. /\ entry' \in [Document!Names -> {Document!Absent} \cup Document!Inodes] /\ entry'[name] = Document!Absent
        /\ \A n \in Document!Names \ {name} : entry'[n] = entry[n]
    BY <2>1 DEF DocTyped
  <2>3. entry'["target"] = entry'["temp"] => entry'["temp"] = Document!Absent
    BY <2>2, NamesAre DEF DocTyped
  <2>4. \A i \in Document!Inodes : stamp'[i] <= hands'
    BY <1>4, <2>1 DEF DocTyped
  <2>5. DocTyped'
    BY <1>4, <1>5, <2>1, <2>2, <2>3, <2>4 DEF DocTyped
  <2>6. ASSUME NEW n \in Document!Names \ fresh' PROVE n \notin fresh /\ entry'[n] = entry[n] /\ Document!Held(n)' = Document!Held(n)
    BY <2>1, <2>2, <2>6 DEF Document!Held
  <2> QED
    BY <2>1, <2>2, <2>5, <2>6
<1> QED
  BY <1>4, <1>6, <1>7, <1>8, <1>9 DEF Document!Hand

LEMMA HandKeeps ==
  ASSUME DocTyped, RunInv, Document!Hand
  PROVE  DocTyped' /\ RunInv'
<1>1. /\ Document!Working /\ DocTyped' /\ hands' > 0 /\ fresh \subseteq fresh'
      /\ UNCHANGED <<plan, stage, job, docPc, changed, fd, data>>
      /\ \A n \in Document!Names \ fresh' :
              n \notin fresh /\ entry'[n] = entry[n] /\ Document!Held(n)' = Document!Held(n)
                /\ (entry[n] # Document!Absent => content'[entry[n]] = content[entry[n]])
      /\ fd # Document!Absent => \A n \in Document!Names : entry[n] # fd => entry'[n] # fd
      /\ mounted' = mounted \/ fresh' = Document!Names
  BY HandFacts
<1>2. /\ Document!Code' = Document!Code /\ Document!Goal' = Document!Goal /\ Document!Expected' = Document!Expected /\ Document!Overwritable' = Document!Overwritable /\ JobFits' = JobFits
  BY <1>1, SameCode
<1>3. Document!Here' = Document!Here /\ OnlyLooked' = OnlyLooked /\ \A c, n : Saw(c, n)' = Saw(c, n)
  BY <1>1, <1>2 DEF Document!Here, OnlyLooked, Saw
<1>4. JobInv'
  BY <1>1, <1>2, <1>3 DEF RunInv, JobInv
<1>5. LookInv'
  BY <1>1, <1>2, <1>3 DEF RunInv, LookInv
<1>6. OpenInv'
  <2>1. Document!Here.name \in Document!Names /\ Others(Document!Here.name) \subseteq Document!Names
    BY HereFacts DEF RunInv, Calls, Others
  <2> QED
    BY <1>1, <1>3, <2>1 DEF RunInv, OpenInv
<1>7. TornInv'
  <2>1. ASSUME NEW contents, OpenTarget(contents)
        PROVE  /\ fd' # Document!Absent /\ entry'["temp"] # fd'
               /\ "target" \in fresh' \/ (entry'["target"] = fd' /\ content'[fd'] \in contents)
    BY <1>1, <2>1, NamesAre DEF OpenTarget
  <2>2. OpenTarget(Document!Overwritable) => OpenTarget(Document!Overwritable)'
    BY <1>2, <2>1 DEF OpenTarget
  <2>3. OpenTarget({"torn"}) => OpenTarget({"torn"})'
    BY <2>1 DEF OpenTarget
  <2> QED
    BY <1>1, <1>3, <2>2, <2>3 DEF RunInv, TornInv
<1>8. MovedInv'
  <2>1. "target" \in fresh \/ entry["target"] = Document!Absent => "target" \in fresh' \/ entry'["target"] = Document!Absent
    BY <1>1, NamesAre
  <2>2. ASSUME NEW c, "temp" \in fresh \/ Document!Held("temp") = c PROVE "temp" \in fresh' \/ Document!Held("temp")' = c
    BY <1>1, <2>2, NamesAre
  <2>3. hands' # 0
    BY <1>1
  <2>4. MovedAside(Document!Here) \/ Document!Here.artifact => "temp" \in fresh' \/ Document!Held("temp")' = Document!Expected
    BY <2>2 DEF RunInv, MovedInv
  <2>5. Judging(Document!Here) => ("temp" \in fresh' \/ Document!Held("temp")' = data) /\ data \in Contents
    BY <2>2 DEF RunInv, MovedInv
  <2>6. Document!Here.call = "putBack" => "target" \in fresh' \/ entry'["target"] = Document!Absent
    BY <2>1 DEF RunInv, MovedInv
  <2> QED
    BY <1>1, <1>2, <1>3, <2>3, <2>4, <2>5, <2>6 DEF MovedInv
<1>9. MountInv'
  BY <1>1, <1>2, NamesAre DEF RunInv, MountInv, Document!Mounted
<1> QED
  BY <1>1, <1>4, <1>5, <1>6, <1>7, <1>8, <1>9 DEF RunInv

\* ---------------------------------------------------------------------- the step
LEMMA DocumentInitially ==
  ASSUME Document!Init
  PROVE  DocInv
<1>1. /\ plan \in {"change", "create", "delete"} /\ stage = "activation" /\ job = "guard" /\ docPc = 1
      /\ changed = FALSE /\ hands = 0 /\ fresh = {} /\ mounted = "mine" /\ fd = Document!Absent
      /\ entry = [target |-> IF plan = "create" THEN Document!Absent ELSE 1, temp |-> Document!Absent]
      /\ content = [i \in Document!Inodes |-> "old"] /\ stamp = [i \in Document!Inodes |-> 0]
      /\ seen = Document!Nothing /\ bound = Document!Nothing
  BY DEF Document!Init
<1>2. DocTyped
  <2>1. entry \in [Document!Names -> {Document!Absent} \cup Document!Inodes] /\ entry["temp"] = Document!Absent
    BY <1>1, NamesAre DEF Document!Inodes
  <2>2. content \in [Document!Inodes -> Contents] /\ stamp \in [Document!Inodes -> Nat] /\ \A i \in Document!Inodes : stamp[i] <= hands
    BY <1>1 DEF Contents
  <2>3. seen.inode = Document!Absent /\ bound.inode = Document!Absent
    BY <1>1 DEF Document!Nothing
  <2>4. entry["target"] = entry["temp"] => entry["temp"] = Document!Absent
    BY <2>1
  <2>5. hands \in Nat /\ hands <= MaxHands /\ docPc \in Nat
    BY <1>1, HandsAssumption
  <2>6. fresh \subseteq Document!Names /\ changed \in BOOLEAN /\ fd \in {Document!Absent} \cup Document!Inodes
    BY <1>1
  <2> QED
    BY <1>1, <2>1, <2>2, <2>3, <2>4, <2>5, <2>6 DEF DocTyped
<1>3. JobFits
  BY <1>1 DEF JobFits, Jobs
<1>4. ProgramFacts(Document!Code)
  BY <1>3, CodeFacts
<1>5. Len(Document!Code) \in Nat /\ Len(Document!Code) > 0
  BY <1>4, NotEmpty DEF ProgramFacts
<1>6. Document!Here = Document!Code[1] /\ Calm(Document!Here) /\ CallFacts(Document!Code, 1)
  BY <1>1, <1>4, <1>5 DEF ProgramFacts, Document!Here
<1>7. JobInv
  BY <1>1, <1>3, <1>5 DEF JobInv
<1>8. LookInv
  BY <1>1 DEF LookInv, Saw, SawIn
<1>9. OpenInv /\ TornInv /\ MovedInv /\ MountInv
  BY <1>1, <1>6 DEF OpenInv, TornInv, MovedInv, MountInv, Calm
<1> QED
  BY <1>2, <1>7, <1>8, <1>9 DEF DocInv, RunInv

LEMMA DocumentKeeps ==
  ASSUME DocInv, Document!Next
  PROVE  DocInv'
<1>1. DocTyped /\ Document!Working /\ RunInv
  <2>1. Document!Working
    BY DEF Document!Next, Document!CallReturns, Document!CallFails, Document!RewriteFails, Document!PutBackRaced, Document!Hand, Document!SeeMount, Document!SeeGone, Document!Stat,
           Document!StatAbsent, Document!Restat, Document!Open, Document!Read, Document!Classify, Document!Judge, Document!Bound, Document!Truncate, Document!Rewrite, Document!Create, Document!Same,
           Document!Displace, Document!Unlink, Document!HandMounts, Document!HandEdits, Document!HandPlaces, Document!HandRemoves, Document!Meddle, Document!At
  <2> QED
    BY <2>1 DEF DocInv
<1>2. CASE Document!CallFails \/ Document!RewriteFails \/ Document!PutBackRaced \/ Document!Hand
  BY <1>1, <1>2, FailsKeeps, RewriteFailsKeeps, PutBackKeeps, HandKeeps DEF DocInv
<1>3. CASE Document!SeeMount \/ Document!Stat \/ Document!Restat \/ Document!Bound \/ Document!Same
  BY <1>1, <1>3, QuietKeeps DEF DocInv
<1>4. CASE Document!SeeGone \/ Document!StatAbsent \/ Document!Open \/ Document!Read
  BY <1>1, <1>4, SeeGoneKeeps, JumpKeeps, OpenKeeps, ReadKeeps DEF DocInv
<1>5. CASE Document!Judge
  BY <1>1, <1>5, QuietKeeps, JumpKeeps DEF DocInv
<1>6. CASE Document!Classify
  <2>1. Document!GoOn \/ Document!Enter(Document!Following)
    BY <1>6 DEF Document!Classify
  <2> QED
    BY <1>1, <1>6, <2>1, QuietKeeps, ClassifyKeeps DEF DocInv
<1>7. CASE Document!Truncate \/ Document!Rewrite \/ Document!Create \/ Document!Displace \/ Document!Unlink
  BY <1>1, <1>7, WritesKeep, CreateKeeps, DisplaceKeeps, UnlinkKeeps DEF DocInv
<1> QED
  BY <1>2, <1>3, <1>4, <1>5, <1>6, <1>7 DEF Document!Next, Document!CallReturns

LEMMA DocumentRests ==
  ASSUME DocInv, UNCHANGED <<plan, entry, content, stamp, mounted, stage, job, docPc, fd, opened, seen,
                             data, bound, docArtifact, raised, changed, fresh, hands>>
  PROVE  DocInv'
<1>1. Document!Code' = Document!Code /\ Document!Goal' = Document!Goal /\ Document!Expected' = Document!Expected /\ Document!Overwritable' = Document!Overwritable
      /\ JobFits' = JobFits /\ Document!Working' = Document!Working
  BY SameCode
<1>2. DocTyped'
  BY DEF DocInv, DocTyped
<1>3. Document!Here' = Document!Here /\ OnlyLooked' = OnlyLooked /\ \A c, n : Saw(c, n)' = Saw(c, n)
  BY <1>1 DEF Document!Here, OnlyLooked, Saw
<1>4. Document!Mounted' = Document!Mounted /\ \A n \in Document!Names : Document!Held(n)' = Document!Held(n)
  BY DEF Document!Mounted, Document!Held
<1>5. ASSUME Document!Working, RunInv PROVE RunInv'
  <2>1. JobInv' /\ LookInv' /\ OpenInv' /\ MountInv'
    BY <1>1, <1>3, <1>4, <1>5 DEF RunInv, JobInv, LookInv, OpenInv, MountInv
  <2>2. TornInv'
    BY <1>1, <1>3, <1>5 DEF RunInv, TornInv, OpenTarget
  <2>3. MovedInv'
    <3>1. Document!Held("temp")' = Document!Held("temp")
      BY <1>4, NamesAre
    <3> QED
      BY <1>1, <1>3, <1>5, <3>1 DEF RunInv, MovedInv
  <2> QED
    BY <2>1, <2>2, <2>3 DEF RunInv
<1> QED
  BY <1>1, <1>2, <1>5 DEF DocInv

\* ------------------------------------------------------------- what a step may not do
\* The steps that SparesOthers, ErrorsTellTheTruth, EndsVerified and StepsOfUsbWrite allow.
Spares ==
  \A name \in Document!Names \ (fresh \cup fresh') :
    Document!Held(name) = "foreign" =>
      /\ \E kept \in Document!Names : entry'[kept] = entry[name]
      /\ content'[entry[name]] = "foreign"

TellsTheTruth ==
  Document!Raising =>
    /\ ~raised'.started => ~changed /\ UNCHANGED Document!diskVars
    /\ raised'.artifact => "temp" \in fresh \/ Document!Held("temp") = Document!Expected

Verified ==
  stage' \in {"activated", "recovered"} /\ stage' # stage /\ fresh = {} =>
    Document!Mounted /\ Document!Held("target") = Document!Goal /\ Document!Held("temp") = "absent"

Primitive(there, aside) ==
  \/ UNCHANGED <<there, aside>>
  \/ UNCHANGED aside /\ there \in {"absent"} \cup Document!Overwritable /\ there' = "torn"
  \/ UNCHANGED aside /\ there = "torn" /\ there' = Document!Goal
  \/ there # Document!Goal /\ aside = "absent" /\ there' = "absent" /\ aside' = there
  \/ UNCHANGED there /\ aside' = "absent"

IsPrimitive == hands' = 0 => Primitive(Document!Held("target"), Document!Held("temp"))

StepTrue == Spares /\ TellsTheTruth /\ Verified /\ IsPrimitive

\* Who touches no file.
LEMMA DiskRests ==
  ASSUME UNCHANGED <<entry, content>>
  PROVE  Spares /\ IsPrimitive
<1>1. Spares
  BY NamesAre DEF Spares, Document!Held
<1>2. UNCHANGED <<Document!Held("target"), Document!Held("temp")>>
  BY DEF Document!Held
<1> QED
  BY <1>1, <1>2 DEF IsPrimitive, Primitive

\* Who neither ends the document nor fails.
LEMMA StageRests ==
  ASSUME stage' = stage, job' = job \/ job' # "cleanupRemoval"
  PROVE  TellsTheTruth /\ Verified
BY DEF TellsTheTruth, Document!Raising, Verified

\* A call that returns fails nothing, and ends the document only with the last look.
LEMMA ContinueTrue ==
  ASSUME DocTyped, Document!Working, RunInv, plan' = plan, hands' = hands, NEW unknown, NEW altered,
         Document!Continue(unknown, altered), Document!Here.call \notin {"putBack", "refuse"},
         unknown \subseteq Document!Names, hands = 0 => unknown = {}, altered \in BOOLEAN
  PROVE  /\ TellsTheTruth
         /\ Document!Here.call # "gone" => Verified
<1>1. /\ stage' \in {stage, "activated", "recovered"}
      /\ job' = job \/ job' # "cleanupRemoval"
      /\ stage' # stage => job = "readback" /\ docPc = Len(Document!Code)
  BY Continues
<1>2. TellsTheTruth
  BY <1>1 DEF TellsTheTruth, Document!Raising, Document!Working
<1>3. stage' # stage => Document!Here.call = "gone"
  BY <1>1, HereFacts DEF RunInv, CallFacts
<1> QED
  BY <1>2, <1>3 DEF Verified

\* Who writes through the open file.
LEMMA WriteSpares ==
  ASSUME DocTyped, RunInv, Document!Here.call \in {"truncate", "rewrite"}, entry' = entry, NEW written,
         content' = [content EXCEPT ![fd] = written]
  PROVE  Spares
<1>1. /\ fd # Document!Absent /\ entry["temp"] # fd
      /\ "target" \in fresh \/ (entry["target"] = fd /\ content[fd] \in Document!Overwritable \cup {"torn"})
  BY DEF RunInv, TornInv, OpenTarget
<1>2. "foreign" \notin Document!Overwritable \cup {"torn"}
  BY DEF Document!Overwritable
<1>3. ASSUME NEW name \in Document!Names \ (fresh \cup fresh'), Document!Held(name) = "foreign"
      PROVE  entry'[name] = entry[name] /\ content'[entry[name]] = "foreign"
  <2>1. entry[name] # Document!Absent /\ content[entry[name]] = "foreign"
    BY <1>3 DEF Document!Held
  <2>2. entry[name] # fd
    BY <1>1, <1>2, <1>3, <2>1, NamesAre
  <2>3. entry[name] \in Document!Inodes
    BY <1>3, <2>1 DEF DocTyped
  <2> QED
    BY <2>1, <2>2, <2>3 DEF DocTyped
<1> QED
  BY <1>3 DEF Spares

\* What the rewrite leaves of a truncated file.
LEMMA RewritesTorn ==
  ASSUME DocTyped, RunInv, Document!Here.call = "rewrite", UNCHANGED <<plan, entry, hands>>,
         NEW written \in {"torn", IF job = "recreate" THEN data ELSE Document!Goal},
         content' = [content EXCEPT ![fd] = written]
  PROVE  IsPrimitive
<1>1. SUFFICES ASSUME hands = 0 PROVE Primitive(Document!Held("target"), Document!Held("temp"))
  BY DEF IsPrimitive
<1>2. fresh = {} /\ job # "recreate"
  BY <1>1 DEF DocTyped, RunInv, JobInv
<1>3. /\ fd # Document!Absent /\ entry["temp"] # fd /\ entry["target"] = fd /\ content[fd] = "torn"
  BY <1>2 DEF RunInv, TornInv, OpenTarget
<1>4. Document!Held("target") = "torn" /\ Document!Held("target")' = written /\ UNCHANGED Document!Held("temp")
  <2>1. fd \in Document!Inodes /\ entry["temp"] \in {Document!Absent} \cup Document!Inodes
    BY <1>3, NamesAre DEF DocTyped
  <2>2. content'[fd] = written /\ (entry["temp"] # Document!Absent => content'[entry["temp"]] = content[entry["temp"]])
    BY <1>3, <2>1 DEF DocTyped
  <2> QED
    BY <1>3, <2>2 DEF Document!Held
<1>5. written = "torn" \/ written = Document!Goal
  BY <1>2
<1> QED
  BY <1>4, <1>5 DEF Primitive

\* The calls that look.
LEMMA LooksTrue ==
  ASSUME DocTyped, RunInv, \/ Document!SeeMount \/ Document!Stat \/ Document!Restat \/ Document!Bound \/ Document!Same \/ Document!Open \/ Document!Read
                        \/ (Document!Judge /\ data = Document!Expected) \/ (Document!Classify /\ Document!GoOn)
  PROVE  StepTrue
<1>1. /\ Document!Working /\ UNCHANGED <<plan, entry, content, hands>>
      /\ Document!Here.call \notin {"gone", "putBack", "refuse"}
      /\ Document!GoOn \/ Document!Continue(Document!Known(Document!Here.name), changed)
  BY DEF Document!SeeMount, Document!Stat, Document!Restat, Document!Bound, Document!Same, Document!Open, Document!Read, Document!Judge, Document!Classify, Document!At, Document!diskVars
<1>2. PICK unknown : Document!Continue(unknown, changed) /\ unknown \subseteq fresh
  BY <1>1 DEF Document!GoOn, Document!Known
<1>3. unknown \subseteq Document!Names /\ (hands = 0 => unknown = {}) /\ changed \in BOOLEAN
  BY <1>2 DEF DocTyped
<1>4. TellsTheTruth /\ Verified
  BY <1>1, <1>2, <1>3, ContinueTrue
<1>5. Spares /\ IsPrimitive
  BY <1>1, DiskRests
<1> QED
  BY <1>4, <1>5 DEF StepTrue

\* The last look of the final readback: it saw the mount, the target and no temporary file.
LEMMA LastLookTrue ==
  ASSUME DocTyped, RunInv, Document!SeeGone
  PROVE  StepTrue
<1>1. /\ Document!Working /\ Document!Here.call = "gone" /\ entry[Document!Here.name] = Document!Absent
      /\ Document!Continue(fresh \ {Document!Here.name}, changed)
      /\ UNCHANGED <<plan, entry, content, stamp, mounted, fd, opened, seen, data, bound, hands>>
  BY DEF Document!SeeGone, Document!At, Document!diskVars, Document!callVars
<1>2. fresh \ {Document!Here.name} \subseteq Document!Names /\ changed \in BOOLEAN /\ (hands = 0 => fresh \ {Document!Here.name} = {})
  BY DEF DocTyped
<1>3. TellsTheTruth
  BY <1>1, <1>2, ContinueTrue
<1>4. Spares /\ IsPrimitive
  BY <1>1, DiskRests
<1>5. ASSUME stage' # stage, fresh = {}
      PROVE  Document!Mounted /\ Document!Held("target") = Document!Goal /\ Document!Held("temp") = "absent"
  <2>1. job = "readback" /\ docPc = Len(Document!Code)
    BY <1>1, <1>2, <1>5, Continues
  <2>2. /\ Document!Here.name = "temp" /\ OnlyLooked
        /\ Saw(IF Document!Goal = "absent" THEN "gone" ELSE "read", "target")
    BY <2>1, HereFacts DEF RunInv, CallFacts, OnlyLooked, Saw
  <2>3. Document!Held("temp") = "absent"
    BY <1>1, <2>2 DEF Document!Held
  <2>4. Document!Mounted
    BY <1>5, <2>1 DEF RunInv, MountInv
  <2>5. /\ Saw("gone", "target") => entry["target"] = Document!Absent
        /\ Saw("read", "target") => Document!Held("target") = Document!Expected
    BY <1>5, <2>2, NamesAre DEF RunInv, LookInv
  <2>6. Document!Expected = Document!Goal
    BY <2>1 DEF Document!Expected
  <2>7. Document!Held("target") = Document!Goal
    <3>1. CASE Document!Goal = "absent"
      BY <2>2, <2>5, <3>1 DEF Document!Held
    <3>2. CASE Document!Goal # "absent"
      BY <2>2, <2>5, <2>6, <3>2
    <3> QED
      BY <3>1, <3>2
  <2> QED
    BY <2>3, <2>4, <2>7
<1> QED
  BY <1>3, <1>4, <1>5 DEF StepTrue, Verified

\* The calls after which the primitive goes on elsewhere.
LEMMA TurnsTrue ==
  ASSUME DocTyped, RunInv, \/ Document!StatAbsent \/ (Document!Judge /\ data # Document!Expected)
                        \/ (Document!Classify /\ Document!Enter(Document!Following))
  PROVE  StepTrue
<1>1. stage' = stage /\ job' # "cleanupRemoval"
  BY JumpKeeps, ClassifyKeeps
<1>2. UNCHANGED <<entry, content>>
  BY DEF Document!StatAbsent, Document!Judge, Document!Classify, Document!diskVars
<1> QED
  BY <1>1, <1>2, StageRests, DiskRests DEF StepTrue

\* An error says what it must: whatever began to change the media has started.
LEMMA RaiseTrue ==
  ASSUME DocTyped, Document!Working, RunInv, Document!Raise, plan' = plan, UNCHANGED Document!diskVars \/ Document!Here.started
  PROVE  TellsTheTruth /\ Verified
<1>1. /\ raised' = [started |-> Document!Here.started, artifact |-> Document!Here.artifact]
      /\ stage' \in {"activation", "recovery", "incomplete"}
  BY Raises DEF Document!Raise
<1>2. raised'.started = Document!Here.started /\ raised'.artifact = Document!Here.artifact
  BY <1>1
<1>3. changed => Document!Here.started
  BY DEF RunInv, JobInv
<1>4. Document!Here.artifact => "temp" \in fresh \/ Document!Held("temp") = Document!Expected
  BY DEF RunInv, MovedInv
<1>5. TellsTheTruth
  BY <1>2, <1>3, <1>4 DEF TellsTheTruth
<1> QED
  BY <1>1, <1>5 DEF Verified

LEMMA FailsTrue ==
  ASSUME DocTyped, RunInv, Document!CallFails
  PROVE  StepTrue
<1>1. Document!Working /\ Document!Raise /\ plan' = plan /\ UNCHANGED Document!diskVars /\ UNCHANGED <<entry, content>>
  BY DEF Document!CallFails, Document!diskVars
<1> QED
  BY <1>1, RaiseTrue, DiskRests DEF StepTrue

LEMMA RewriteFailsTrue ==
  ASSUME DocTyped, RunInv, Document!RewriteFails
  PROVE  StepTrue
<1>1. /\ Document!Working /\ Document!Here.call = "rewrite" /\ Document!Raise /\ UNCHANGED <<plan, entry, hands>>
  BY DEF Document!RewriteFails, Document!At
<1>2. PICK written \in {"torn", IF job = "recreate" THEN data ELSE Document!Goal} :
        content' = [content EXCEPT ![fd] = written]
  BY DEF Document!RewriteFails
<1>3. Document!Here.started
  BY <1>1, HereFacts DEF RunInv, CallFacts
<1>4. TellsTheTruth /\ Verified
  BY <1>1, <1>3, RaiseTrue
<1>5. Spares
  BY <1>1, <1>2, WriteSpares
<1>6. IsPrimitive
  BY <1>1, <1>2, RewritesTorn
<1> QED
  BY <1>4, <1>5, <1>6 DEF StepTrue

LEMMA WritesTrue ==
  ASSUME DocTyped, RunInv, Document!Truncate \/ Document!Rewrite
  PROVE  StepTrue
<1>1. /\ Document!Working /\ Document!Here.call \in {"truncate", "rewrite"}
      /\ Document!Continue(Document!Known("target"), TRUE) /\ UNCHANGED <<plan, entry, hands>>
  BY DEF Document!Truncate, Document!Rewrite, Document!At
<1>2. Document!Known("target") \subseteq Document!Names /\ (hands = 0 => Document!Known("target") = {})
  BY DEF Document!Known, DocTyped
<1>3. TellsTheTruth /\ Verified
  BY <1>1, <1>2, ContinueTrue
<1>4. CASE Document!Truncate
  <2>1. Document!Here.call = "truncate" /\ content' = [content EXCEPT ![fd] = "torn"]
    BY <1>4 DEF Document!Truncate, Document!At
  <2>2. Spares
    BY <1>1, <2>1, WriteSpares
  <2>3. ASSUME hands = 0
        PROVE  Document!Held("target") \in Document!Overwritable /\ Document!Held("target")' = "torn" /\ UNCHANGED Document!Held("temp")
    <3>1. /\ fd # Document!Absent /\ entry["temp"] # fd /\ entry["target"] = fd /\ content[fd] \in Document!Overwritable
      BY <2>1, <2>3 DEF DocTyped, RunInv, TornInv, OpenTarget
    <3>2. fd \in Document!Inodes /\ entry["temp"] \in {Document!Absent} \cup Document!Inodes
      BY <3>1, NamesAre DEF DocTyped
    <3>3. content'[fd] = "torn" /\ (entry["temp"] # Document!Absent => content'[entry["temp"]] = content[entry["temp"]])
      BY <2>1, <3>1, <3>2 DEF DocTyped
    <3> QED
      BY <1>1, <3>1, <3>3 DEF Document!Held
  <2>4. IsPrimitive
    BY <1>1, <2>3 DEF IsPrimitive, Primitive
  <2> QED
    BY <1>3, <2>2, <2>4 DEF StepTrue
<1>5. CASE Document!Rewrite
  <2>1. PICK written \in {IF job = "recreate" THEN data ELSE Document!Goal}
                          \cup (IF content[fd] = "torn" THEN {} ELSE {"torn"}) :
          content' = [content EXCEPT ![fd] = written]
    BY <1>5 DEF Document!Rewrite
  <2>2. Document!Here.call = "rewrite" /\ written \in {"torn", IF job = "recreate" THEN data ELSE Document!Goal}
    BY <1>5, <2>1 DEF Document!Rewrite, Document!At
  <2>3. Spares
    BY <1>1, <2>1, WriteSpares
  <2>4. IsPrimitive
    BY <1>1, <2>1, <2>2, RewritesTorn
  <2> QED
    BY <1>3, <2>3, <2>4 DEF StepTrue
<1> QED
  BY <1>4, <1>5

LEMMA CreateTrue ==
  ASSUME DocTyped, RunInv, Document!Create
  PROVE  StepTrue
<1>1. /\ Document!Working /\ Document!Here.call = "create" /\ entry["target"] = Document!Absent
      /\ entry' = [entry EXCEPT !["target"] = Document!Unused]
      /\ content' = [content EXCEPT ![Document!Unused] = "torn"]
      /\ Document!Continue(fresh \ {"target"}, TRUE) /\ UNCHANGED <<plan, hands>>
  BY DEF Document!Create, Document!At
<1>2. fresh \ {"target"} \subseteq Document!Names /\ (hands = 0 => fresh \ {"target"} = {})
  BY DEF DocTyped
<1>3. TellsTheTruth /\ Verified
  BY <1>1, <1>2, ContinueTrue
<1>4. Document!Unused \in Document!Inodes /\ Document!Unused # entry["temp"] /\ Document!Unused # Document!Absent
  BY UnusedIs DEF Document!Inodes, Document!Absent
<1>5. /\ entry'["target"] = Document!Unused /\ entry'["temp"] = entry["temp"] /\ content'[Document!Unused] = "torn"
      /\ entry["temp"] # Document!Absent => content'[entry["temp"]] = content[entry["temp"]]
  BY <1>1, <1>4, NamesAre DEF DocTyped
<1>6. Spares
  BY <1>1, <1>5, NamesAre DEF Spares, Document!Held
<1>7. Document!Held("target") = "absent" /\ Document!Held("target")' = "torn" /\ UNCHANGED Document!Held("temp")
  BY <1>1, <1>4, <1>5 DEF Document!Held
<1>8. IsPrimitive
  BY <1>7 DEF IsPrimitive, Primitive
<1> QED
  BY <1>3, <1>6, <1>8 DEF StepTrue

\* os.replace finds the temporary name empty, unless another hand was there.
LEMMA DisplaceTrue ==
  ASSUME DocTyped, RunInv, Document!Displace
  PROVE  StepTrue
<1> DEFINE left == IF "target" \in fresh THEN {"temp"} ELSE {}
<1>1. /\ Document!Working /\ Document!Here.call = "displace" /\ entry["target"] # Document!Absent
      /\ entry' = [target |-> Document!Absent, temp |-> entry["target"]]
      /\ Document!Continue(left, TRUE) /\ UNCHANGED <<plan, content, hands>>
  BY DEF Document!Displace, Document!At
<1>2. left \subseteq Document!Names /\ (hands = 0 => left = {})
  BY NamesAre DEF DocTyped
<1> HIDE DEF left
<1>3. TellsTheTruth /\ Verified
  BY <1>1, <1>2, ContinueTrue
<1>4. OnlyLooked /\ Saw("gone", "temp") /\ Saw("read", "target") /\ job \in {"delete", "remove"}
  BY <1>1, HereFacts DEF RunInv, CallFacts, OnlyLooked, Saw
<1>5. entry'["target"] = Document!Absent /\ entry'["temp"] = entry["target"]
  BY <1>1
<1>6. "temp" \notin fresh => entry["temp"] = Document!Absent
  BY <1>4, NamesAre DEF RunInv, LookInv
<1>7. Spares
  BY <1>1, <1>5, <1>6, NamesAre DEF Spares, Document!Held
<1>8. ASSUME hands = 0
      PROVE  /\ Document!Held("target") # Document!Goal /\ Document!Held("temp") = "absent"
             /\ Document!Held("target")' = "absent" /\ Document!Held("temp")' = Document!Held("target")
  <2>1. fresh = {}
    BY <1>8 DEF DocTyped
  <2>2. Document!Held("target") = Document!Expected
    BY <1>4, <2>1, NamesAre DEF RunInv, LookInv
  <2>3. Document!Expected # "absent"
    BY <1>4 DEF Document!Expected
  <2>4. Document!Goal = "absent"
    BY <1>4 DEF RunInv, JobInv, JobFits, Document!Goal
  <2>5. Document!Held("temp") = "absent"
    BY <1>6, <2>1 DEF Document!Held
  <2>6. Document!Held("target")' = "absent" /\ Document!Held("temp")' = Document!Held("target")
    BY <1>1, <1>5 DEF Document!Held
  <2> QED
    BY <2>2, <2>3, <2>4, <2>5, <2>6
<1>9. IsPrimitive
  BY <1>1, <1>8 DEF IsPrimitive, Primitive
<1> QED
  BY <1>3, <1>7, <1>9 DEF StepTrue

\* The raced content goes to a name that is still absent, unless another hand was there.
LEMMA PutBackTrue ==
  ASSUME DocTyped, RunInv, Document!PutBackRaced
  PROVE  StepTrue
<1>1. /\ Document!Working /\ Document!Here.call = "putBack" /\ Document!Raise
      /\ UNCHANGED entry \/ entry' = [target |-> entry["temp"], temp |-> Document!Absent]
      /\ UNCHANGED <<plan, content, hands>>
  BY DEF Document!PutBackRaced, Document!At
<1>2. Document!Here.started /\ job = "putBack"
  BY <1>1, HereFacts DEF RunInv, CallFacts
<1>3. TellsTheTruth /\ Verified
  BY <1>1, <1>2, RaiseTrue
<1>4. hands' # 0
  BY <1>1, <1>2 DEF RunInv, JobInv
<1>5. "target" \notin fresh => entry["target"] = Document!Absent
  BY <1>1 DEF RunInv, MovedInv
<1>6. \E kept \in Document!Names : entry'[kept] = entry["temp"]
  BY <1>1, NamesAre
<1>7. Spares
  <2>1. CASE UNCHANGED entry
    BY <1>1, <2>1, DiskRests
  <2>2. CASE entry' = [target |-> entry["temp"], temp |-> Document!Absent]
    BY <1>1, <1>5, <1>6, <2>2, NamesAre DEF Spares, Document!Held
  <2> QED
    BY <1>1, <2>1, <2>2
<1> QED
  BY <1>3, <1>4, <1>7 DEF StepTrue, IsPrimitive

\* What is unlinked is the artifact that was read, unless another hand was there.
LEMMA UnlinkTrue ==
  ASSUME DocTyped, RunInv, Document!Unlink
  PROVE  StepTrue
<1>1. /\ Document!Working /\ Document!Here.call = "unlink"
      /\ entry' = [entry EXCEPT !["temp"] = Document!Absent]
      /\ Document!Continue(fresh \ {"temp"}, TRUE) /\ UNCHANGED <<plan, content, hands>>
  BY DEF Document!Unlink, Document!At
<1>2. fresh \ {"temp"} \subseteq Document!Names /\ (hands = 0 => fresh \ {"temp"} = {})
  BY DEF DocTyped
<1>3. TellsTheTruth /\ Verified
  BY <1>1, <1>2, ContinueTrue
<1>4. entry'["target"] = entry["target"] /\ entry'["temp"] = Document!Absent
  BY <1>1, NamesAre DEF DocTyped
<1>5. Document!Here.artifact \/ (OnlyLooked /\ Saw("read", "temp"))
  BY <1>1, HereFacts DEF RunInv, CallFacts, OnlyLooked, Saw
<1>6. "temp" \notin fresh => Document!Held("temp") = Document!Expected
  BY <1>5, NamesAre DEF RunInv, MovedInv, LookInv
<1>7. Document!Expected # "foreign"
  BY DEF Document!Expected, Document!Goal
<1>8. Spares
  <2>1. ASSUME NEW name \in Document!Names \ (fresh \cup fresh'), Document!Held(name) = "foreign"
        PROVE  entry'[name] = entry[name] /\ content'[entry[name]] = "foreign"
    <3>1. name = "target"
      BY <1>6, <1>7, <2>1, NamesAre
    <3> QED
      BY <1>1, <1>4, <2>1, <3>1 DEF Document!Held
  <2> QED
    BY <2>1 DEF Spares
<1>9. IsPrimitive
  <2>1. UNCHANGED Document!Held("target") /\ Document!Held("temp")' = "absent"
    BY <1>1, <1>4 DEF Document!Held
  <2> QED
    BY <2>1 DEF IsPrimitive, Primitive
<1> QED
  BY <1>3, <1>8, <1>9 DEF StepTrue

LEMMA HandTrue ==
  ASSUME DocTyped, Document!Hand
  PROVE  StepTrue
<1>1. /\ hands' > 0 /\ hands' \in Nat /\ stage' = stage /\ job' = job
      /\ \A n \in Document!Names \ fresh' :
              entry'[n] = entry[n] /\ (entry[n] # Document!Absent => content'[entry[n]] = content[entry[n]])
  BY HandFacts
<1>2. Spares
  BY <1>1 DEF Spares, Document!Held
<1>3. IsPrimitive
  BY <1>1 DEF IsPrimitive
<1> QED
  BY <1>1, <1>2, <1>3, StageRests DEF StepTrue

LEMMA DocumentSteps ==
  ASSUME DocInv, Document!Next
  PROVE  StepTrue
<1>1. DocTyped /\ Document!Working /\ RunInv
  <2>1. Document!Working
    BY DEF Document!Next, Document!CallReturns, Document!CallFails, Document!RewriteFails, Document!PutBackRaced, Document!Hand, Document!SeeMount, Document!SeeGone, Document!Stat,
           Document!StatAbsent, Document!Restat, Document!Open, Document!Read, Document!Classify, Document!Judge, Document!Bound, Document!Truncate, Document!Rewrite, Document!Create, Document!Same,
           Document!Displace, Document!Unlink, Document!HandMounts, Document!HandEdits, Document!HandPlaces, Document!HandRemoves, Document!Meddle, Document!At
  <2> QED
    BY <2>1 DEF DocInv
<1>2. CASE Document!CallFails \/ Document!RewriteFails \/ Document!PutBackRaced \/ Document!Hand
  BY <1>1, <1>2, FailsTrue, RewriteFailsTrue, PutBackTrue, HandTrue
<1>3. CASE Document!SeeMount \/ Document!Stat \/ Document!Restat \/ Document!Bound \/ Document!Same \/ Document!Open \/ Document!Read
  BY <1>1, <1>3, LooksTrue
<1>4. CASE Document!SeeGone \/ Document!StatAbsent
  BY <1>1, <1>4, LastLookTrue, TurnsTrue
<1>5. CASE Document!Judge
  BY <1>1, <1>5, LooksTrue, TurnsTrue
<1>6. CASE Document!Classify
  <2>1. Document!GoOn \/ Document!Enter(Document!Following)
    BY <1>6 DEF Document!Classify
  <2> QED
    BY <1>1, <1>6, <2>1, LooksTrue, TurnsTrue
<1>7. CASE Document!Truncate \/ Document!Rewrite \/ Document!Create \/ Document!Displace \/ Document!Unlink
  BY <1>1, <1>7, WritesTrue, CreateTrue, DisplaceTrue, UnlinkTrue
<1> QED
  BY <1>2, <1>3, <1>4, <1>5, <1>6, <1>7 DEF Document!Next, Document!CallReturns

\* ---------------------------------------------------- the document in a behaviour of writes
LEMMA DocumentMoves ==
  ASSUME DocInv, [MCNext]_allVars
  PROVE  DocInv' /\ [StepTrue]_Document!vars
<1>1. Document!Next \/ UNCHANGED documentVars
  BY DEF MCNext, allVars
<1>2. CASE Document!Next
  BY <1>2, DocumentKeeps, DocumentSteps
<1>3. CASE UNCHANGED documentVars
  BY <1>3, DocumentRests DEF documentVars, Document!vars, Document!diskVars, Document!callVars,
                             Document!jobVars
<1> QED
  BY <1>1, <1>2, <1>3

LEMMA DocumentStarts == MCInit => DocInv
BY DocumentInitially DEF MCInit

\* The invariant holds of the document in every behaviour, and every step is true.
LEMMA DocumentTrue == MCSpec => []DocInv /\ [][StepTrue]_Document!vars
<1>1. DocInv /\ [MCNext]_allVars => DocInv' /\ [StepTrue]_Document!vars
  BY DocumentMoves
<1> QED
  BY <1>1, DocumentStarts, PTL DEF MCSpec, allVars

LEMMA DocumentTypes == DocInv => Document!TypeOK
<1> SUFFICES ASSUME DocInv PROVE Document!TypeOK
  OBVIOUS
<1>1. DocTyped
  BY DEF DocInv
<1>2. \A i \in Document!Inodes : stamp[i] \in Nat /\ stamp[i] <= hands /\ hands <= MaxHands /\ hands \in Nat
  BY <1>1 DEF DocTyped
<1>3. stamp \in [Document!Inodes -> 0 .. MaxHands]
  BY <1>1, <1>2, HandsAssumption DEF DocTyped
<1>4. hands \in 0 .. MaxHands
  BY <1>1, HandsAssumption DEF DocTyped
<1> QED
  BY <1>1, <1>3, <1>4 DEF DocTyped, Contents, Document!TypeOK

\* Whoever else writes to the card, however often: what another hand put at a name is
\* destroyed only if it came there after the primitive last looked, and a document ends
\* activated or recovered only with what it should hold, on the card that was qualified,
\* unless another hand was there after the last look.
THEOREM DocumentIsSafe == MCSpec => DocumentSafe
<1>1. DocInv => Document!TypeOK
  BY DocumentTypes
<1>2. [StepTrue]_Document!vars => [Spares]_Document!vars /\ [Verified]_Document!vars
  BY DEF StepTrue
<1>3. [][Spares]_Document!vars => Document!SparesOthers
  BY PTL DEF Document!SparesOthers, Spares
<1>4. [][Verified]_Document!vars => Document!EndsVerified
  BY PTL DEF Document!EndsVerified, Verified
<1>5. MCSpec => []Document!TypeOK /\ [][Spares]_Document!vars /\ [][Verified]_Document!vars
  BY DocumentTrue, <1>1, <1>2, PTL
<1> QED
  BY <1>3, <1>4, <1>5 DEF DocumentSafe

\* Whatever call fails, and whatever other hands do: an error that denies a mutation left
\* the card as the primitive found it, and one that carries a recovery artifact has it.
THEOREM ErrorsAreTrue == MCSpec => ErrorsTellTheTruth
<1>1. [StepTrue]_Document!vars => [TellsTheTruth]_Document!vars
  BY DEF StepTrue
<1>2. [][TellsTheTruth]_Document!vars => Document!ErrorsTellTheTruth
  BY PTL DEF Document!ErrorsTellTheTruth, TellsTheTruth
<1>3. MCSpec => [][TellsTheTruth]_Document!vars
  BY DocumentTrue, <1>1, PTL
<1> QED
  BY <1>2, <1>3 DEF ErrorsTellTheTruth

\* Left alone, the calls change a document only as the primitive steps of UsbWrite do.
THEOREM CallsArePrimitive == MCSpec => StepsOfUsbWrite
<1>1. [StepTrue]_Document!vars => [IsPrimitive]_Document!vars
  BY DEF StepTrue
<1>2. [][IsPrimitive]_Document!vars => Document!StepsOfUsbWrite
  BY PTL DEF Document!StepsOfUsbWrite, IsPrimitive, Primitive
<1>3. MCSpec => [][IsPrimitive]_Document!vars
  BY DocumentTrue, <1>1, PTL
<1> QED
  BY <1>2, <1>3 DEF StepsOfUsbWrite

===============================================================================

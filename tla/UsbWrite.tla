--------------------------------- MODULE UsbWrite ---------------------------------
(***************************************************************************)
(* The durable write of a Favorites plan to the scanner's USB card         *)
(* (favorites_write_usb.py): host lock, workspace, backup, staging, a      *)
(* rollback manifest that is replaced atomically, in-place activation of   *)
(* the managed files, recovery of the baseline when activation fails, and  *)
(* one final report.                                                       *)
(*                                                                         *)
(* Every operating system call may fail, the process may die between two   *)
(* of them, and an exception nobody planned for may unwind it.  A managed  *)
(* file is the catalog or an HPD document; its content is an old or new    *)
(* version, absent, or torn: truncated or created and not yet rewritten.   *)
(* A managed file that no plan touches changes by nobody else's hand.      *)
(***************************************************************************)
EXTENDS Naturals

CONSTANT Files   \* names of the HPD documents

Catalog == "f_list.cfg"
Managed == Files \cup {Catalog}

ASSUME UsbAssumption == Catalog \notin Files /\ "none" \notin Files

VARIABLES
  baseline,      \* plan.baseline_snapshot: the content of each managed file
  intended,      \* plan.intended_snapshot
  media,         \* the managed files on the card
  temp,          \* the operation's temporary file on the card
  lock,          \* the lock directory exists
  workspace,     \* the operation directory exists
  backup,        \* the backup in it: "none", "partial" or "verified"
  durable,       \* rollback.json
  manifestTemp,  \* a temporary file of the manifest writer was left behind
  report,        \* report.json or failure.json
  pc,            \* where _execute_usb_write_workflow is
  rollback,      \* its copy of the manifest
  todo,          \* managed files left in the current stage
  file,          \* the file that is being rewritten or removed
  tries,         \* failed attempts to publish the current transition
  artifact,      \* the activation error carries a recovery artifact
  failure,       \* the failure code of the report to come
  result         \* what the caller is told: "error", "completed" or "failed"

planVars == <<baseline, intended>>
cardVars == <<media, temp>>
hostVars == <<lock, workspace, backup>>
manifestVars == <<durable, manifestTemp, rollback>>
stepVars == <<todo, file, tries>>
errorVars == <<artifact, failure>>
vars == <<planVars, cardVars, hostVars, manifestVars, report, pc, stepVars, errorVars, result>>

None == [file |-> "none"]
NoManifest == [revision |-> 0, phase |-> "none", artifact |-> FALSE]
Manifest(revision, phase, present) ==
  [revision |-> revision, phase |-> phase, artifact |-> present]
NoReport == [phase |-> "none", failure |-> "none"]

\* ----------------------------------------------------------------- the plan
Plans == {p \in [Managed -> {"absent", "old"}] \X [Managed -> {"absent", "old", "new"}] :
            /\ p[1][Catalog] = "old" /\ p[2][Catalog] # "absent"
            /\ \A f \in Files : p[1][f] = "absent" => p[2][f] # "old"
            /\ p[1] # p[2]}

\* _usb_managed_activation_plan and _build_usb_recovery_plan
Stage(name) ==
  CASE name = "documents"  -> {f \in Files : intended[f] \notin {"absent", baseline[f]}}
    [] name = "catalog"    -> {Catalog} \cap {f \in Managed : intended[f] # baseline[f]}
    [] name = "deletions"  -> {f \in Files : intended[f] = "absent" /\ baseline[f] # "absent"}
    [] name = "restore"    -> {f \in Files : baseline[f] # "absent"}
    [] name = "restoreCatalog" -> {Catalog}
    [] name = "remove"     -> {f \in Files : baseline[f] = "absent" /\ intended[f] # "absent"}
    [] OTHER               -> {}

\* Mutant: the operation is called complete once the catalog is switched.
AfterEarly(name) ==
  CASE name = "documents"      -> "catalog"
    [] name = "catalog"        -> "completing"
    [] name = "deletions"      -> "readback"
    [] name = "restore"        -> "restoreCatalog"
    [] name = "restoreCatalog" -> "cleanup"
    [] name = "remove"         -> "verify"

\* Mutant: recovery removes what only the plan had before it restores the catalog.
AfterRemovingFirst(name) ==
  CASE name = "documents"      -> "catalog"
    [] name = "catalog"        -> "deletions"
    [] name = "deletions"      -> "readback"
    [] name = "restore"        -> "cleanup"
    [] name = "restoreCatalog" -> "verify"
    [] name = "remove"         -> "restoreCatalog"

\* The order of the stages of _activate_usb_managed_state and of
\* _recover_usb_active_managed_state.
After(name) ==
  CASE name = "documents"      -> "catalog"
    [] name = "catalog"        -> "deletions"
    [] name = "deletions"      -> "readback"
    [] name = "restore"        -> "restoreCatalog"
    [] name = "restoreCatalog" -> "cleanup"
    [] name = "remove"         -> "verify"

Activating == pc \in {"documents", "catalog", "deletions"}
Rewriting == pc \in {"documents", "catalog", "restore", "restoreCatalog"}
Removing == pc \in {"deletions", "remove"}

\* ------------------------------------------- lock, workspace and host copies
Goto(where) == pc' = where /\ UNCHANGED <<stepVars, errorVars, result>>

\* What a workflow knows does not outlive it.
Forget ==
  /\ rollback' = NoManifest
  /\ todo' = {} /\ file' = "none" /\ tries' = 0
  /\ artifact' = FALSE /\ failure' = "none"

\* preflight accepts the card only in the exact baseline state; a leftover
\* temporary file or another mount makes another operation.
Begin ==
  /\ pc = "idle"
  /\ media = baseline /\ temp = None
  /\ ~lock
  /\ lock' = TRUE /\ pc' = "workspace" /\ result' = "error"
  /\ UNCHANGED <<planVars, cardVars, workspace, backup, manifestVars, report, stepVars, errorVars>>

\* _create_verified_usb_host_backup: an operation directory that exists belongs
\* to an earlier attempt at the same plan and is never entered again.
MakeWorkspace ==
  /\ pc = "workspace"
  /\ \/ ~workspace /\ workspace' = TRUE /\ Goto("backup")
     \/ UNCHANGED workspace /\ Goto("release")
  /\ UNCHANGED <<planVars, cardVars, lock, backup, manifestVars, report>>

CopyBackup ==
  /\ pc = "backup"
  /\ \/ backup' = "verified" /\ Goto("staging")
     \/ backup' \in {"none", "partial"} /\ Goto("release")
  /\ UNCHANGED <<planVars, cardVars, lock, workspace, manifestVars, report>>

\* _create_verified_usb_host_staging
CreateStaging ==
  /\ pc = "staging"
  /\ Goto("prepare") \/ Goto("release")
  /\ UNCHANGED <<planVars, cardVars, hostVars, manifestVars, report>>

\* ------------------------------------------------------------- the manifest
Allowed ==
  {<<"prepared", "mutation_started">>, <<"mutation_started", "completed">>,
   <<"mutation_started", "recovery_required">>,
   <<"recovery_required", "recovery_in_progress">>,
   <<"recovery_in_progress", "recovered">>, <<"recovery_in_progress", "recovery_incomplete">>}

\* _require_usb_rollback_manifest_transition
TransitionAllowed(m) ==
  /\ m.revision = durable.revision + 1
  /\ IF durable = NoManifest THEN m.phase = "prepared" ELSE <<durable.phase, m.phase>> \in Allowed

\* _write_usb_rollback_manifest: the rename published the manifest, whether or
\* not the writer raised afterwards ...
Published(m) ==
  /\ ~manifestTemp /\ TransitionAllowed(m)
  /\ durable' = m
  /\ UNCHANGED manifestTemp

\* ... or it raised before; its temporary file may stay and block later writes.
NotPublished ==
  /\ UNCHANGED durable
  /\ manifestTemp' \in {manifestTemp, TRUE}

\* The PREPARED manifest: a writer that raised never leads to media work.
Prepare ==
  /\ pc = "prepare"
  /\ rollback' = Manifest(1, "prepared", FALSE)
  /\ \/ Published(rollback') /\ (Goto("preactivation") \/ Goto("release"))
     \/ NotPublished /\ Goto("release")
  /\ UNCHANGED <<planVars, cardVars, hostVars, report>>

Fail(where, code) ==
  /\ pc' = where
  /\ failure' = code
  /\ file' = "none" /\ tries' = 0
  /\ UNCHANGED <<todo, result>>

\* _require_usb_preactivation_ready, asked before and by the activation.
Preactivation ==
  /\ pc = "preactivation"
  /\ \/ Goto("begin")
     \/ Fail("report", "preactivation_failed") /\ UNCHANGED artifact
  /\ UNCHANGED <<planVars, cardVars, hostVars, manifestVars, report>>

BeginActivation ==
  /\ pc = "begin"
  /\ \/ /\ pc' = "documents" /\ todo' = Stage("documents")
        /\ UNCHANGED <<file, tries, errorVars, result>>
     \/ Fail("report", "activation_failed_before_mutation") /\ UNCHANGED artifact
  /\ UNCHANGED <<planVars, cardVars, hostVars, manifestVars, report>>

MutationStarted == Manifest(rollback.revision + 1, "mutation_started", FALSE)

\* Mutant: the first primitive runs before the manifest says so.
BeginMutationLate ==
  /\ Activating /\ todo # {} /\ rollback.phase = "prepared"
  /\ rollback' = MutationStarted /\ UNCHANGED <<durable, manifestTemp>>
  /\ UNCHANGED <<planVars, cardVars, hostVars, report, pc, stepVars, errorVars, result>>

\* _begin_activation_mutation with the hook _publish_mutation_started: before
\* the first primitive.  A hook that raised prevents that primitive; what
\* was published decides between a report and a recovery of nothing.
BeginMutation ==
  /\ Activating /\ todo # {} /\ rollback.phase = "prepared"
  /\ \/ Published(MutationStarted) /\ rollback' = MutationStarted
        /\ UNCHANGED <<pc, stepVars, errorVars, result>>
     \/ Published(MutationStarted) /\ rollback' = MutationStarted /\ UNCHANGED artifact
        /\ Fail("required", "activation_failed_after_mutation")
     \/ NotPublished /\ UNCHANGED <<rollback, artifact>>
        /\ Fail("report", "activation_failed_before_mutation")
     \/ /\ Published(MutationStarted) \/ NotPublished
        /\ UNCHANGED rollback /\ Goto("release")
  /\ UNCHANGED <<planVars, cardVars, hostVars, report>>

\* ------------------------------------------------- primitives on the card
\* A failed step ends the activation, or leaves the recovery incomplete.
StepFails(carried) ==
  IF Activating
  THEN Fail("required", "activation_failed_after_mutation") /\ artifact' = carried
  ELSE pc' = "incomplete" /\ file' = "none" /\ UNCHANGED <<todo, tries, errorVars, result>>

\* The content a stage gives a file, and the only one it accepts in its place.
Target(f) == IF Activating THEN intended[f] ELSE baseline[f]
Prior(f) == IF Activating THEN baseline[f] ELSE intended[f]

InStep(f) ==
  /\ f \in todo /\ file = "none"
  /\ Activating => rollback.phase = "mutation_started"

cardFrame == <<planVars, hostVars, manifestVars, report>>

\* The verification before a step refuses, or the file holds something that
\* is neither the target nor accepted.
StepRefused ==
  /\ \E f \in Managed : InStep(f)
  /\ Rewriting \/ Removing
  /\ StepFails(FALSE)
  /\ UNCHANGED <<cardFrame, cardVars>>

\* _restore_usb_active_managed_file, which activation and recovery share: in
\* its target state a file is left alone; an accepted one is truncated, an
\* absent one created ...
WriteSkip(f) ==
  /\ Rewriting /\ InStep(f)
  /\ media[f] = Target(f)
  /\ todo' = todo \ {f}
  /\ UNCHANGED <<cardFrame, cardVars, pc, file, tries, errorVars, result>>

WriteOpen(f) ==
  /\ Rewriting /\ InStep(f)
  /\ media[f] # Target(f) /\ media[f] = Prior(f)
  /\ media' = [media EXCEPT ![f] = "torn"]
  /\ file' = f
  /\ UNCHANGED <<cardFrame, temp, pc, todo, tries, errorVars, result>>

\* ... and rewritten through the descriptor.  A failure leaves it torn, or
\* complete when only the synchronization or the readback failed.
WriteFinish ==
  /\ Rewriting /\ file # "none"
  /\ media' = [media EXCEPT ![file] = Target(file)]
  /\ todo' = todo \ {file} /\ file' = "none"
  /\ UNCHANGED <<cardFrame, temp, pc, tries, errorVars, result>>

WriteBreaks ==
  /\ Rewriting /\ file # "none"
  /\ \E content \in {"torn", Target(file)} : media' = [media EXCEPT ![file] = content]
  /\ StepFails(FALSE)
  /\ UNCHANGED <<cardFrame, temp>>

\* _delete_usb_active_managed_hpd and _remove_usb_recovery_intended_only_hpd:
\* the exact expected file is renamed to the temporary name ...
RemoveSkip(f) ==
  /\ pc = "remove" /\ InStep(f)
  /\ media[f] = "absent"
  /\ todo' = todo \ {f}
  /\ UNCHANGED <<cardFrame, cardVars, pc, file, tries, errorVars, result>>

Displace(f) ==
  /\ Removing /\ InStep(f) /\ temp = None
  /\ media[f] # "absent" /\ media[f] = Prior(f)
  /\ media' = [media EXCEPT ![f] = "absent"]
  /\ temp' = [file |-> f, content |-> media[f]]
  /\ file' = f
  /\ UNCHANGED <<cardFrame, pc, todo, tries, errorVars, result>>

\* ... and unlinked (recovery tries that twice).
Unlink ==
  /\ Removing /\ file # "none"
  /\ temp' = None
  /\ todo' = todo \ {file} /\ file' = "none"
  /\ UNCHANGED <<cardFrame, media, pc, tries, errorVars, result>>

\* A failed unlink of the activation hands the verified artifact on; a failed
\* verification does not, before the unlink or after it.
UnlinkBreaks ==
  /\ Removing /\ file # "none"
  /\ \/ UNCHANGED temp /\ \E carried \in BOOLEAN : StepFails(carried)
     \/ temp' = None /\ StepFails(FALSE)
  /\ UNCHANGED <<cardFrame, media>>

StageDone ==
  /\ Rewriting \/ Removing
  /\ todo = {}
  /\ pc' = After(pc) /\ todo' = Stage(After(pc))
  /\ UNCHANGED <<cardFrame, cardVars, file, tries, errorVars, result>>

\* The double readback after the last step.
Readback ==
  /\ pc = "readback"
  /\ \/ media = intended /\ temp = None /\ Goto("completing")
     \/ Fail("required", "postactivation_verification_failed") /\ UNCHANGED artifact
  /\ UNCHANGED <<cardFrame, cardVars>>

\* ----------------------------------------------------------------- recovery
\* A temporary file without provenance stops the recovery before it begins.
BeginRecovery ==
  /\ pc = "recover"
  /\ \/ /\ temp # None => artifact
        /\ pc' = "restore" /\ todo' = Stage("restore")
        /\ UNCHANGED <<file, tries, errorVars, result>>
     \/ StepFails(FALSE)
  /\ UNCHANGED <<cardFrame, cardVars>>

\* _cleanup_verified_usb_recovery_artifact: only when its document is restored.
Cleanup ==
  /\ pc = "cleanup"
  /\ \/ /\ \A f \in {temp.file} \cap Files : media[f] = baseline[f]
        /\ temp' = None
        /\ pc' = "remove" /\ todo' = Stage("remove")
        /\ UNCHANGED <<file, tries, errorVars, result>>
     \/ temp' \in {temp, None} /\ StepFails(FALSE)
  /\ UNCHANGED <<cardFrame, media>>

Verify ==
  /\ pc = "verify"
  /\ \/ media = baseline /\ temp = None /\ Goto("recovered")
     \/ StepFails(FALSE)
  /\ UNCHANGED <<cardFrame, cardVars>>

\* ------------------------------------------------- transitions and the report
Publishing == {"completing", "required", "inProgress", "recovered", "incomplete"}

\* The phase each of them publishes.
PhaseOf(where) ==
  CASE where = "completing" -> "completed"
    [] where = "required"   -> "recovery_required"
    [] where = "inProgress" -> "recovery_in_progress"
    [] where = "recovered"  -> "recovered"
    [] where = "incomplete" -> "recovery_incomplete"

\* Mutant: an incomplete recovery is tried again after it was published.
FollowingAgain(where) ==
  CASE where = "required" -> "inProgress"
    [] where \in {"inProgress", "incomplete"} -> "recover"
    [] OTHER -> "report"

\* What the workflow does next.
Following(where) ==
  CASE where = "required"   -> "inProgress"
    [] where = "inProgress" -> "recover"
    [] OTHER                -> "report"

Proposed == Manifest(rollback.revision + 1, PhaseOf(pc), temp # None)

\* _publish_usb_rollback_transition: the writer returned, or raised and the
\* proposed manifest turned out to be durable ...
PublishTransition ==
  /\ pc \in Publishing
  /\ Published(Proposed)
  /\ rollback' = Proposed
  /\ pc' = Following(pc) /\ tries' = 0
  /\ failure' = IF pc = "incomplete" THEN "recovery_incomplete" ELSE failure
  /\ UNCHANGED <<planVars, cardVars, hostVars, report, todo, file, artifact, result>>

\* Mutant: a writer that raised twice is called a third time.
PublishRetryTwice ==
  /\ pc \in Publishing /\ tries < 2
  /\ NotPublished
  /\ tries' = tries + 1
  /\ UNCHANGED <<planVars, cardVars, hostVars, rollback, report, pc, todo, file,
                 errorVars, result>>

\* ... or it raised before publishing and is called once more ...
PublishRetry ==
  /\ pc \in Publishing /\ tries = 0
  /\ NotPublished
  /\ tries' = 1
  /\ UNCHANGED <<planVars, cardVars, hostVars, rollback, report, pc, todo, file,
                 errorVars, result>>

\* ... or the workflow gives up: the second call failed too, or the artifact
\* or the manifest cannot be observed.
PublishRaises ==
  /\ pc \in Publishing
  /\ Published(Proposed) \/ NotPublished
  /\ Goto("release")
  /\ UNCHANGED <<planVars, cardVars, hostVars, rollback, report>>

\* _publish_usb_terminal_operation_report: a report that became durable is
\* returned, unless its reconciliation fails.
PublishReport ==
  /\ pc = "report"
  /\ pc' = "release"
  /\ \/ /\ report' = [phase |-> rollback.phase, failure |-> failure]
        /\ result' \in {IF rollback.phase = "completed" THEN "completed" ELSE "failed", "error"}
     \/ UNCHANGED <<report, result>>
  /\ UNCHANGED <<planVars, cardVars, hostVars, manifestVars, stepVars, errorVars>>

\* The lock directory is removed on every way out; if that fails a returned
\* report becomes an error.
Release ==
  /\ pc = "release"
  /\ pc' = "idle"
  /\ \/ lock' = FALSE /\ UNCHANGED result
     \/ lock' = TRUE /\ result' = "error"
  /\ Forget
  /\ UNCHANGED <<planVars, cardVars, workspace, backup, durable, manifestTemp, report>>

\* An exception that no handler of the workflow expects.
Unwind ==
  /\ pc \notin {"idle", "release"}
  /\ Goto("release")
  /\ UNCHANGED <<planVars, cardVars, hostVars, manifestVars, report>>

\* The process dies: its memory is gone, everything durable stays, the lock too.
Crash ==
  /\ pc # "idle"
  /\ pc' = "idle" /\ result' = "error"
  /\ Forget
  /\ UNCHANGED <<planVars, cardVars, hostVars, durable, manifestTemp, report>>

\* ------------------------------------------------------------ specification
Init ==
  /\ \E p \in Plans : baseline = p[1] /\ intended = p[2] /\ media = p[1]
  /\ temp = None
  /\ lock = FALSE /\ workspace = FALSE /\ backup = "none"
  /\ durable = NoManifest /\ manifestTemp = FALSE /\ rollback = NoManifest
  /\ report = NoReport
  /\ pc = "idle"
  /\ todo = {} /\ file = "none" /\ tries = 0
  /\ artifact = FALSE /\ failure = "none" /\ result = "error"

PrimitiveStep ==
  \/ \E f \in Managed : WriteSkip(f) \/ WriteOpen(f) \/ RemoveSkip(f) \/ Displace(f)
  \/ WriteFinish \/ WriteBreaks \/ Unlink \/ UnlinkBreaks
  \/ StepRefused \/ StageDone

WorkflowStep ==
  \/ MakeWorkspace \/ CopyBackup \/ CreateStaging \/ Prepare \/ Preactivation
  \/ BeginActivation \/ BeginMutation \/ PrimitiveStep \/ Readback
  \/ BeginRecovery \/ Cleanup \/ Verify
  \/ PublishTransition \/ PublishRetry \/ PublishRaises \/ PublishReport \/ Release

Next == Begin \/ WorkflowStep \/ Unwind \/ Crash

Spec == Init /\ [][Next]_vars

\* --------------------------------------------------------------- properties
Untouched == media = baseline /\ temp = None

\* The variables keep to their types.
TypeOK ==
  /\ <<baseline, intended>> \in Plans
  /\ media \in [Managed -> {"absent", "old", "new", "torn"}]
  /\ temp \in {None} \cup [file : Files, content : {"old", "new"}]
  /\ {lock, workspace, manifestTemp, artifact} \subseteq BOOLEAN
  /\ backup \in {"none", "partial", "verified"}
  /\ {durable.revision, rollback.revision} \subseteq 0 .. 5
  /\ todo \in SUBSET Managed /\ file \in Managed \cup {"none"}
  /\ tries \in {0, 1}
  /\ result \in {"error", "completed", "failed"}

\* Whatever step the process dies in, a catalog that is whole names no document
\* that the plan or the baseline had and the card has not: documents are
\* written before the catalog that names them and removed after it is gone.
CatalogResolves ==
  LET named(snapshot) == {f \in Files : snapshot[f] # "absent"}
      kept == named(baseline) \cap named(intended)
      needed == IF intended[Catalog] = baseline[Catalog] THEN kept
                ELSE IF media[Catalog] = "old" THEN named(baseline)
                ELSE IF media[Catalog] = "new" THEN named(intended) ELSE kept
  IN  \A f \in needed : media[f] # "absent"

\* The durable phase a finished operation left behind, its report and what its
\* caller was told agree with one another and with the card, whichever of the
\* writes between them failed.
TerminalTrue ==
  /\ durable.phase = "completed" => media = intended /\ temp = None
  /\ durable.phase = "recovered" => Untouched
  /\ durable.phase = "recovery_incomplete" => durable.artifact = (temp # None)
  /\ report # NoReport =>
       report.phase = durable.phase /\ (report.failure = "none" <=> report.phase = "completed")
  /\ result = "completed" => media = intended /\ report.phase = "completed"
  /\ result = "failed" => report.failure # "none"

\* A finished operation is final: after its last phase was published neither
\* the workflow nor a second attempt at the same plan changes the card or it.
TerminalIsFinal ==
  [][durable.phase \in {"completed", "recovered", "recovery_incomplete"}
       => UNCHANGED <<media, temp, durable>>]_vars

==================================================================================

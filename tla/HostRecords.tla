------------------------------ MODULE HostRecords ------------------------------
(***************************************************************************)
(* The records a USB write keeps in its operation directory on the host    *)
(* (favorites_write_usb.py): the rollback manifest, of which UsbWrite only *)
(* says that a write publishes it or does not, and the final report.  Here *)
(* a record is written one system call at a time: into a temporary file    *)
(* that is synchronised, read back and renamed, after which the directory  *)
(* is synchronised.  A writer that raises is reconciled by looking.        *)
(*                                                                         *)
(* Any call may fail, and the power may fail between two of them.  Then    *)
(* each name shows one of the files it led to since the directory was      *)
(* last synchronised, and a file that was not may be torn.                 *)
(***************************************************************************)
EXTENDS Naturals, Sequences

VARIABLES
  entry,     \* what each name leads to
  disk,      \* what it may lead to once the power has failed
  unsynced,  \* names of files whose content was not synchronised
  step,      \* where the workflow is
  job, pc,   \* the writer or reconciliation that runs, and its next call
  proposed,  \* the record to be written
  read,      \* the manifest the writer found
  owned,     \* the writer knows the temporary file for its own
  tries,     \* failed attempts at the same manifest
  rollback,  \* the workflow's copy of the manifest
  after,     \* the outcome of the verification after the activation
  touched,   \* a primitive has run on the card
  told       \* what the caller was told

diskVars == <<entry, disk, unsynced>>
jobVars == <<job, pc, proposed, read, owned, tries>>
flowVars == <<step, rollback, after, touched, told>>
vars == <<diskVars, jobVars, flowVars>>

Names == {"rollback", "rollbackTemp", "report", "reportTemp", "failure", "failureTemp"}
Absent == [kind |-> "absent"]
Torn == [kind |-> "torn"]
Manifest(phase, present) == [kind |-> "manifest", phase |-> phase, artifact |-> present]

Terminal == {"completed", "recovered", "recovery_incomplete"}

\* ------------------------------------------------------------ the final report
\* _usb_operation_report, as the workflow calls it in each of its ends; backup
\* and staging are verified in all of them.
Report(before, later, unmanaged, activation, recovery, active, failure) ==
  [kind |-> "report", rollback |-> rollback, before |-> before, later |-> later,
   unmanaged |-> unmanaged, activation |-> activation, recovery |-> recovery,
   active |-> active, failure |-> failure]

PreactivationFailed ==
  Report("failed", "not_attempted", "not_attempted", "not_started", "not_required",
         "none", "preactivation_failed")
FailedBeforeMutation ==
  Report("verified", "not_attempted", "not_attempted", "failed_before_mutation",
         "not_required", "none", "activation_failed_before_mutation")

ActivationFailure ==
  IF after = "failed" THEN "postactivation_verification_failed"
                      ELSE "activation_failed_after_mutation"

FinalReport ==
  CASE rollback.phase = "completed" ->
         Report("verified", "verified", "verified", "completed", "not_required", "intended", "none")
    [] rollback.phase = "recovered" ->
         Report("verified", after, "verified", "failed_after_mutation", "recovered", "baseline",
                ActivationFailure)
    [] rollback.phase = "recovery_incomplete" ->
         Report("verified", after, "failed", "failed_after_mutation", "incomplete", "none",
                "recovery_incomplete")

\* _require_usb_operation_report_consistent, which also judges what is read back.
Consistent(r) ==
  LET phase == r.rollback.phase IN
  /\ phase # "prepared" => r.before = "verified"
  /\ phase \in {"prepared", "completed", "recovered"} => ~r.rollback.artifact
  /\ phase # "completed" => r.failure # "none"
  /\ CASE phase = "prepared" ->
            /\ r.recovery = "not_required" /\ r.active = "none" /\ r.later = "not_attempted"
            /\ \/ r.activation = "not_started" /\ r.before = "failed"
                  /\ r.failure = "preactivation_failed"
               \/ r.activation = "failed_before_mutation" /\ r.before = "verified"
                  /\ r.failure = "activation_failed_before_mutation"
       [] phase = "completed" ->
            /\ r.activation = "completed" /\ r.recovery = "not_required"
            /\ r.later = "verified" /\ r.unmanaged = "verified"
            /\ r.active = "intended" /\ r.failure = "none"
       [] phase = "recovery_required" ->
            /\ r.activation = "failed_after_mutation" /\ r.recovery = "not_attempted"
            /\ r.active = "none" /\ r.failure = "recovery_not_attempted"
       [] phase = "recovered" ->
            /\ r.activation = "failed_after_mutation" /\ r.recovery = "recovered"
            /\ r.failure \in {"activation_failed_after_mutation",
                              "postactivation_verification_failed"}
            /\ r.unmanaged = "verified" /\ r.active = "baseline"
       [] phase = "recovery_incomplete" ->
            /\ r.activation = "failed_after_mutation" /\ r.recovery = "incomplete"
            /\ r.active = "none" /\ r.failure = "recovery_incomplete"
       [] OTHER -> FALSE

\* --------------------------------------------------------------- the programs
Call(call, name) == [call |-> call, name |-> name]
Gone(names) == [i \in DOMAIN names |-> Call("gone", names[i])]

\* _usb_operation_report_destination
Destination ==
  IF proposed.kind = "manifest" THEN "rollback"
  ELSE IF proposed.rollback.phase = "completed" THEN "report" ELSE "failure"
TemporaryOf == [rollback |-> "rollbackTemp", report |-> "reportTemp", failure |-> "failureTemp"]
Temporary == TemporaryOf[Destination]
Alternate == IF Destination = "report" THEN "failure" ELSE "report"

\* Both writers fill and check a temporary file of their own, ...
Fill ==
  <<Call("create", Temporary), Call("write", Temporary), Call("sync", Temporary),
    Call("verify", Temporary)>>

\* ... and publish it.
Rename ==
  <<Call("rename", Temporary), Call("syncDirectory", Destination), Call("verify", Destination)>>

\* _write_usb_rollback_manifest
WriteManifest ==
  <<Call("look", "rollback")>> \o Gone(<<"rollbackTemp">>) \o Fill
    \o <<Call("recheck", "rollback")>> \o Rename

\* _write_usb_operation_report
WriteReport ==
  Gone(<<"report", "failure", "reportTemp", "failureTemp">>) \o <<Call("same", "rollback")>>
    \o Fill \o <<Call("same", "rollback")>> \o Gone(<<"report", "failure">>)
    \o Rename \o <<Call("same", "rollback")>> \o Gone(<<Alternate>>)

\* _reconcile_usb_operation_report_write_failure
SidePathsClean == Gone(<<Alternate, "reportTemp", "failureTemp">>)
LookForReport == SidePathsClean \o <<Call("same", "rollback"), Call("find", Destination)>>
ConfirmAbsent == <<Call("same", "rollback")>> \o SidePathsClean \o Gone(<<Destination>>)
ConfirmPresent == <<Call("same", "rollback")>> \o SidePathsClean \o <<Call("verify", Destination)>>

Code ==
  CASE job = "manifest"       -> WriteManifest
    [] job = "reconcile"      -> <<Call("compare", "rollback")>>
    [] job = "report"         -> WriteReport
    [] job = "look"           -> LookForReport
    [] job = "confirmAbsent"  -> ConfirmAbsent
    [] job = "confirmPresent" -> ConfirmPresent

Running == job # "none"
Here == Code[pc]
At(call) == Running /\ Here.call = call

\* ----------------------------------------------------------- after a writer
Run(next) == job' = next /\ pc' = 1

Idle(next) ==
  /\ step' = next
  /\ Run("none") /\ tries' = 0
  /\ UNCHANGED proposed

\* Where the workflow goes once a manifest is known to be published.
Reached(phase) ==
  CASE phase = "prepared"             -> "preactivation"
    [] phase = "mutation_started"     -> "media"
    [] phase = "recovery_required"    -> "required"
    [] phase = "recovery_in_progress" -> "recovery"
    [] phase \in Terminal             -> "finished"

Ends(answer) == Idle("over") /\ told' = answer /\ UNCHANGED <<rollback, after, touched>>

\* The report was written, or turned out to be.
ReportKept == Ends(IF rollback.phase = "completed" THEN "completed" ELSE "failed")

ManifestKept ==
  /\ rollback' = proposed
  /\ Idle(Reached(proposed.phase))
  /\ UNCHANGED <<after, touched, told>>

Returns ==
  CASE job = "manifest"                      -> ManifestKept
    [] job \in {"report", "confirmPresent"}  -> ReportKept
    [] job = "confirmAbsent"                 -> Ends("error")

GoOn ==
  IF pc < Len(Code)
  THEN /\ pc' = pc + 1
       /\ UNCHANGED <<job, proposed, tries, flowVars>>
  ELSE Returns

\* A writer that raised is reconciled, a reconciliation that raises ends it all.
Raise ==
  \/ /\ job \in {"manifest", "report"}
     /\ Run(IF job = "manifest" THEN "reconcile" ELSE "look")
     /\ UNCHANGED <<proposed, tries, flowVars>>
  \/ /\ job \notin {"manifest", "report"} /\ Ends("error")

\* Mutant: a mutation that turned out to be announced may begin.
ReconciledAsPublished == IF step = "prepare" THEN Ends("error") ELSE ManifestKept

\* _reconcile_usb_rollback_manifest_write_failure found PROPOSED.  The PREPARED
\* writer's failure still ends the workflow, that of MUTATION_STARTED the
\* activation; a transition is accepted.
ReconciledAsProposed ==
  IF step = "prepare" THEN Ends("error")
  ELSE IF step = "start" THEN rollback' = proposed /\ Idle("failed") /\ UNCHANGED <<after, touched, told>>
  ELSE ManifestKept

\* ... or CURRENT: a transition is tried once more.
ReconciledAsCurrent ==
  IF step = "start" THEN Idle("refused") /\ UNCHANGED <<rollback, after, touched, told>>
  ELSE IF step # "prepare" /\ tries = 0
  THEN Run("manifest") /\ tries' = 1 /\ UNCHANGED <<proposed, flowVars>>
  ELSE Ends("error")

\* ------------------------------------------------------------------ the calls
\* What a name may show after a power failure, once it leads to this file.
Shows(name, file) == [disk EXCEPT ![name] = @ \cup {file}]

Put(name, file) == entry' = [entry EXCEPT ![name] = file]

FindAbsent ==
  /\ At("gone") /\ entry[Here.name] = Absent
  /\ GoOn /\ UNCHANGED <<diskVars, read, owned>>

Allowed ==
  {<<"prepared", "mutation_started">>, <<"mutation_started", "completed">>,
   <<"mutation_started", "recovery_required">>, <<"recovery_required", "recovery_in_progress">>,
   <<"recovery_in_progress", "recovered">>, <<"recovery_in_progress", "recovery_incomplete">>}

\* The current manifest must allow the proposed one.
Look ==
  /\ At("look")
  /\ \/ entry["rollback"] = Absent /\ proposed.phase = "prepared"
     \/ entry["rollback"].kind = "manifest"
        /\ <<entry["rollback"].phase, proposed.phase>> \in Allowed
  /\ read' = entry["rollback"]
  /\ GoOn /\ UNCHANGED <<diskVars, owned>>

\* O_EXCL; the identity of the new file is kept.
Create ==
  /\ At("create") /\ entry[Temporary] = Absent
  /\ Put(Temporary, Torn) /\ disk' = Shows(Temporary, Torn)
  /\ unsynced' = unsynced \cup {Temporary}
  /\ owned' = TRUE
  /\ GoOn /\ UNCHANGED read

Write ==
  /\ At("write")
  /\ Put(Temporary, proposed) /\ disk' = Shows(Temporary, proposed)
  /\ GoOn /\ UNCHANGED <<unsynced, read, owned>>

Sync ==
  /\ At("sync")
  /\ unsynced' = unsynced \ {Temporary}
  /\ GoOn /\ UNCHANGED <<entry, disk, read, owned>>

Verify ==
  /\ At("verify") /\ entry[Here.name] = proposed
  /\ GoOn /\ UNCHANGED <<diskVars, read, owned>>

Recheck ==
  /\ \/ At("recheck") /\ entry["rollback"] = read
     \/ At("same") /\ entry["rollback"] = rollback
  /\ GoOn /\ UNCHANGED <<diskVars, read, owned>>

\* os.replace
RenameFile ==
  /\ At("rename")
  /\ entry' = [entry EXCEPT ![Destination] = entry[Temporary], ![Temporary] = Absent]
  /\ disk' = [disk EXCEPT ![Temporary] = @ \cup {Absent},
                          ![Destination] = @ \cup {entry[Temporary]}
                             \cup IF Temporary \in unsynced THEN {Torn} ELSE {}]
  /\ unsynced' = (unsynced \ {Temporary, Destination})
                   \cup IF Temporary \in unsynced THEN {Destination} ELSE {}
  /\ owned' = FALSE
  /\ GoOn /\ UNCHANGED read

\* _fsync_usb_host_directory
SyncDirectory ==
  /\ At("syncDirectory")
  /\ disk' = [name \in Names |-> {entry[name]} \cup IF name \in unsynced THEN {Torn} ELSE {}]
  /\ GoOn /\ UNCHANGED <<entry, unsynced, read, owned>>

Compare ==
  /\ At("compare")
  /\ \/ entry["rollback"] = proposed /\ ReconciledAsProposed
     \/ entry["rollback"] = (IF rollback.phase = "none" THEN Absent ELSE rollback)
        /\ ReconciledAsCurrent
  /\ UNCHANGED <<diskVars, read, owned>>

Find ==
  /\ At("find")
  /\ \/ entry[Destination] = Absent /\ Run("confirmAbsent")
     \/ entry[Destination] = proposed /\ Run("confirmPresent")
  /\ UNCHANGED <<diskVars, read, owned, proposed, tries, flowVars>>

\* A call raises; the writer then removes its own temporary file if it can.
Tidied(found) ==
  IF owned THEN {found, [found EXCEPT ![Temporary] = Absent]} ELSE {found}

CallFails ==
  /\ Running
  /\ \/ entry' \in Tidied(entry) /\ UNCHANGED unsynced
     \/ /\ Here.call = "create" /\ entry[Temporary] = Absent
        /\ Put(Temporary, Torn) /\ unsynced' = unsynced \cup {Temporary}
     \/ /\ Here.call = "write"
        /\ entry' \in Tidied([entry EXCEPT ![Temporary] = proposed]) /\ UNCHANGED unsynced
  /\ disk' = [name \in Names |-> disk[name] \cup {entry'[name]}]
  /\ owned' = FALSE /\ UNCHANGED read
  /\ Raise

\* --------------------------------------------------------------- the workflow
Propose(phase, present) ==
  /\ proposed' = Manifest(phase, present)
  /\ Run("manifest") /\ tries' = 0
  /\ UNCHANGED <<diskVars, read, owned, rollback, after, touched, told>>

ProposeReport(report) ==
  /\ proposed' = report
  /\ Run("report")
  /\ UNCHANGED <<diskVars, read, owned, tries, flowVars>>

InStep(here) == step = here /\ job = "none"

\* Observing the artifact, or anything else, raises.
GiveUp == Ends("error") /\ UNCHANGED <<diskVars, read, owned>>

Prepare == InStep("prepare") /\ UNCHANGED step /\ Propose("prepared", FALSE)

Preactivation ==
  /\ InStep("preactivation")
  /\ \/ ProposeReport(PreactivationFailed)
     \/ ProposeReport(FailedBeforeMutation)
     \/ step' = "start" /\ Propose("mutation_started", FALSE)

\* The hook raised and MUTATION_STARTED was not published.
Refused == InStep("refused") /\ ProposeReport(FailedBeforeMutation)

Mutate ==
  /\ InStep("media") /\ ~touched
  /\ touched' = TRUE
  /\ UNCHANGED <<diskVars, jobVars, step, rollback, after, told>>

ActivationFails ==
  /\ InStep("media")
  /\ after' \in IF touched THEN {"not_attempted", "failed"} ELSE {"not_attempted"}
  /\ step' = "failed"
  /\ UNCHANGED <<diskVars, jobVars, rollback, touched, told>>

Transition ==
  \/ InStep("media") /\ touched /\ UNCHANGED step /\ Propose("completed", FALSE)
  \/ \E present \in BOOLEAN :
       \/ InStep("failed") /\ UNCHANGED step /\ Propose("recovery_required", present)
       \/ InStep("required") /\ UNCHANGED step /\ Propose("recovery_in_progress", present)
       \/ InStep("recovery") /\ UNCHANGED step /\ Propose("recovery_incomplete", present)
  \/ InStep("recovery") /\ UNCHANGED step /\ Propose("recovered", FALSE)
  \/ step \in {"failed", "required", "recovery"} /\ job = "none" /\ GiveUp

Finish == InStep("finished") /\ ProposeReport(FinalReport)

\* The power fails, at any moment.
PowerFails ==
  /\ step # "dark"
  /\ \E found \in disk["rollback"] \X disk["report"] \X disk["failure"] :
       entry' = [entry EXCEPT !["rollback"] = found[1], !["report"] = found[2],
                              !["failure"] = found[3]]
  /\ Idle("dark")
  /\ UNCHANGED <<disk, unsynced, read, owned, rollback, after, touched, told>>

\* ------------------------------------------------------------ specification
Init ==
  /\ entry = [name \in Names |-> Absent] /\ disk = [name \in Names |-> {Absent}]
  /\ unsynced = {}
  /\ step = "prepare" /\ job = "none" /\ pc = 1
  /\ proposed = Absent /\ read = Absent /\ owned = FALSE /\ tries = 0
  /\ rollback = Manifest("none", FALSE)
  /\ after = "not_attempted" /\ touched = FALSE /\ told = "nothing"

CallReturns ==
  \/ FindAbsent \/ Look \/ Create \/ Write \/ Sync \/ Verify \/ Recheck \/ RenameFile
  \/ SyncDirectory \/ Compare \/ Find

Next ==
  \/ Prepare \/ Preactivation \/ Refused \/ Mutate \/ ActivationFails \/ Transition \/ Finish
  \/ CallReturns \/ CallFails \/ PowerFails

Spec == Init /\ [][Next]_vars

\* --------------------------------------------------------------- properties
\* No record is ever seen torn, not even after a power failure, there is one
\* report at most, and a card that was touched is always announced by a durable
\* manifest.
RecordsSurvive ==
  /\ \A name \in {"rollback", "report", "failure"} : entry[name] # Torn
  /\ Absent \in {entry["report"], entry["failure"]}
  /\ touched => entry["rollback"].kind = "manifest" /\ entry["rollback"].phase # "prepared"

\* Whatever was raised, retried or reconciled, the workflow that goes on knows
\* the manifest that is there, and a caller who was told of an end finds the
\* report of it.
RecordsKnown ==
  /\ step \notin {"prepare", "over", "dark"} /\ job = "none" => entry["rollback"] = rollback
  /\ step = "over" /\ told # "error" =>
       entry["rollback"] = rollback /\ entry[Destination] = proposed

\* Every report the workflow makes passes the validation that its constructor,
\* its writer and every later reader apply.
ReportsAccepted == proposed.kind = "report" => Consistent(proposed)

===============================================================================

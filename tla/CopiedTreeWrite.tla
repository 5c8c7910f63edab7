---------------------------- MODULE CopiedTreeWrite ----------------------------
(***************************************************************************)
(* The write of a Favorites plan to an offline copy of the card            *)
(* (favorites_write_execution.py): lock, backup, rollback manifest and a   *)
(* staged tree beside the target, activation by two renames, restoration   *)
(* of the displaced tree when it fails, and a report.                      *)
(*                                                                         *)
(* Every operating system call may fail, the process may die between two   *)
(* of them, and somebody else may edit the active tree at any time: that   *)
(* is what the checks before and after every step are for.  A durable      *)
(* record may be published although its writer raises.                     *)
(***************************************************************************)

VARIABLES
  active,     \* the tree at the target directory
  staging,    \* the tree at the staging directory
  displaced,  \* the tree at the displaced directory
  copy,       \* the backup directory: "none", "partial" or "verified"
  announced,  \* rollback.json exists
  records,    \* report.json and failure.json: the outcome each says
  guard,      \* the lock directory exists
  step,       \* where execute_favorites_copied_tree_write is
  place,      \* the record a failure goes to
  verdict,    \* the outcome the workflow has come to
  told        \* what its caller was told

treeVars == <<active, staging, displaced>>
recordVars == <<copy, announced, records>>
workflowVars == <<place, verdict>>
vars == <<treeVars, recordVars, guard, step, workflowVars, told>>

Missing == [content |-> "none", edited |-> FALSE]
Partial == [content |-> "partial", edited |-> FALSE]
Old == [content |-> "old", edited |-> FALSE]   \* the tree the preflight saw
New == [content |-> "new", edited |-> FALSE]   \* the verified staged tree

Goto(where) == step' = where

\* _write_durable_json never replaces a record; the synchronisation after the
\* link may fail, so that it raises although it published.
Writes(free) ==
  {w \in [published : BOOLEAN, returned : BOOLEAN] :
     (w.returned => w.published) /\ (w.published => free)}

\* --------------------------------------------------------------- preparation
\* preflight accepts the tree of the plan only; an edited one is stale.
Begin ==
  /\ step = "idle" /\ active = Old /\ ~guard
  /\ guard' = TRUE /\ place' = "report" /\ verdict' = "none" /\ told' = "nothing"
  /\ Goto("paths")
  /\ UNCHANGED <<treeVars, recordVars>>

\* A failure before the replacement: nothing was started.
Aborts == verdict' = "not_started" /\ Goto("record")

\* _require_operation_paths_available: what an earlier attempt left refuses this one.
RequirePaths ==
  /\ step = "paths"
  /\ IF /\ staging = Missing /\ displaced = Missing /\ copy = "none" /\ ~announced
        /\ records = [report |-> "none", failure |-> "none"]
     THEN Goto("backup") /\ UNCHANGED verdict
     ELSE Aborts
  /\ UNCHANGED <<treeVars, recordVars, guard, place, told>>

CreateBackup ==
  /\ step = "backup"
  /\ \/ active = Old /\ copy' = "verified" /\ Goto("manifest") /\ UNCHANGED verdict
     \/ copy' \in {"none", "partial"} /\ Aborts
  /\ UNCHANGED <<treeVars, announced, records, guard, place, told>>

WriteManifest ==
  /\ step = "manifest"
  /\ \E w \in Writes(TRUE) :
       /\ announced' = w.published
       /\ IF w.returned THEN Goto("staging") /\ UNCHANGED verdict ELSE Aborts
  /\ UNCHANGED <<treeVars, copy, records, guard, place, told>>

CreateStaging ==
  /\ step = "staging"
  /\ \/ active = Old /\ staging' = New /\ Goto("check") /\ UNCHANGED verdict
     \/ staging' \in {Missing, Partial} /\ Aborts
  /\ UNCHANGED <<active, displaced, recordVars, guard, place, told>>

\* "The second exact stale-baseline check immediately before active replacement."
CheckAgain ==
  /\ step = "check"
  /\ \/ active = Old /\ Goto("displace") /\ UNCHANGED verdict
     \/ Aborts
  /\ UNCHANGED <<treeVars, recordVars, guard, place, told>>

\* --------------------------------------------------------------- replacement
Fails(outcome) == verdict' = outcome /\ Goto("record")

\* Mutant: mutation_started is set after the second rename.
RecoverLate(where) == IF where \in {"displace", "activate"} THEN Fails("not_needed")
                      ELSE Goto("aside") /\ UNCHANGED verdict

\* What a failure leads to: nothing to restore before mutation_started is set.
Recover(where) == IF where = "displace" THEN Fails("not_needed")
                  ELSE Goto("aside") /\ UNCHANGED verdict

Displace ==
  /\ step = "displace"
  /\ \/ displaced' = active /\ active' = Missing /\ Goto("activate") /\ UNCHANGED verdict
     \/ UNCHANGED <<active, displaced>> /\ Recover("displace")
  /\ UNCHANGED <<staging, recordVars, guard, place, told>>

Activate ==
  /\ step = "activate"
  /\ \/ active' = staging /\ staging' = Missing /\ Goto("verify") /\ UNCHANGED verdict
     \/ UNCHANGED <<active, staging>> /\ Recover("activate")
  /\ UNCHANGED <<displaced, recordVars, guard, place, told>>

VerifyActive ==
  /\ step = "verify"
  /\ \/ active = New /\ Goto("report") /\ UNCHANGED verdict
     \/ Recover("verify")
  /\ UNCHANGED <<treeVars, recordVars, guard, place, told>>

\* The completed report; without it the replacement is taken back.
ReportCompleted ==
  /\ step = "report"
  /\ \E w \in Writes(records.report = "none") :
       /\ records' = IF w.published THEN [records EXCEPT !.report = "completed"] ELSE records
       /\ IF w.returned THEN verdict' = "completed" /\ place' = place /\ Goto("release")
          ELSE place' = "failure" /\ Recover("report")
  /\ UNCHANGED <<treeVars, copy, announced, guard, told>>

\* --------------------------- _restore_displaced_after_replacement_failure
MoveAside ==
  /\ step = "aside"
  /\ \/ active = Missing /\ Goto("restore") /\ UNCHANGED <<verdict, active, staging>>
     \/ /\ active # Missing /\ staging = Missing
        /\ staging' = active /\ active' = Missing
        /\ Goto("restore") /\ UNCHANGED verdict
     \/ active # Missing /\ Fails("incomplete") /\ UNCHANGED <<active, staging>>
  /\ UNCHANGED <<displaced, recordVars, guard, place, told>>

RestoreDisplaced ==
  /\ step = "restore"
  /\ \/ /\ displaced # Missing
        /\ active' = displaced /\ displaced' = Missing
        /\ Goto("recheck") /\ UNCHANGED verdict
     \/ Fails("incomplete") /\ UNCHANGED <<active, displaced>>
  /\ UNCHANGED <<staging, recordVars, guard, place, told>>

Recheck ==
  /\ step = "recheck"
  /\ \/ active = Old /\ Fails("restored")
     \/ Fails("incomplete")
  /\ UNCHANGED <<treeVars, recordVars, guard, place, told>>

\* ------------------------------------------------------------- what is told
\* _persist_failure_report: whether it could be written changes nothing else.
RecordFailure ==
  /\ step = "record"
  /\ \E w \in Writes(records[place] = "none") :
       records' = IF w.published
                  THEN [records EXCEPT ![place] = IF verdict = "not_started" THEN "not_started"
                                                  ELSE "failed"]
                  ELSE records
  /\ Goto("release")
  /\ UNCHANGED <<treeVars, copy, announced, guard, workflowVars, told>>

\* _copied_tree_operation_lock: a lock that cannot be removed is raised, unless
\* another error is on its way.
Release ==
  /\ step = "release"
  /\ \/ guard' = FALSE /\ told' = verdict
     \/ guard' = TRUE /\ told' = IF verdict = "completed" THEN "error" ELSE verdict
  /\ Goto("idle") /\ place' = "report" /\ verdict' = "none"
  /\ UNCHANGED <<treeVars, recordVars>>

\* The process dies; trees, records and lock stay.
Crash ==
  /\ step # "idle"
  /\ Goto("idle") /\ place' = "report" /\ verdict' = "none" /\ told' = "error"
  /\ UNCHANGED <<treeVars, recordVars, guard>>

\* Somebody else changes the active tree.
Edit ==
  /\ active # Missing /\ ~active.edited
  /\ active' = [active EXCEPT !.edited = TRUE]
  /\ UNCHANGED <<staging, displaced, recordVars, guard, step, workflowVars, told>>

\* ------------------------------------------------------------ specification
Init ==
  /\ active = Old /\ staging = Missing /\ displaced = Missing
  /\ copy = "none" /\ announced = FALSE
  /\ records = [report |-> "none", failure |-> "none"]
  /\ guard = FALSE
  /\ step = "idle" /\ place = "report" /\ verdict = "none" /\ told = "nothing"

Next ==
  \/ Begin \/ RequirePaths \/ CreateBackup \/ WriteManifest \/ CreateStaging \/ CheckAgain
  \/ Displace \/ Activate \/ VerifyActive \/ ReportCompleted
  \/ MoveAside \/ RestoreDisplaced \/ Recheck
  \/ RecordFailure \/ Release \/ Crash \/ Edit

Spec == Init /\ [][Next]_vars

\* --------------------------------------------------------------- properties
Outcomes == {"none", "not_started", "not_needed", "restored", "incomplete", "completed"}

\* Types.
TypeOK ==
  /\ active \in [content : {"none", "old", "new"}, edited : BOOLEAN]
  /\ displaced \in [content : {"none", "old", "new"}, edited : BOOLEAN]
  /\ staging \in [content : {"none", "partial", "new"}, edited : BOOLEAN]
  /\ copy \in {"none", "partial", "verified"} /\ announced \in BOOLEAN /\ guard \in BOOLEAN
  /\ records \in [report : {"none", "not_started", "failed", "completed"},
                  failure : {"none", "failed"}]
  /\ place \in {"report", "failure"} /\ verdict \in Outcomes
  /\ told \in Outcomes \cup {"nothing", "error"}

\* The tree the write found, with everything others wrote into it, is never lost:
\* it is at the target or displaced, whatever failed, died or was edited in the
\* middle.  And a caller is told the truth: that nothing happened or the tree was
\* restored only when it is back, that the write completed only when the new tree
\* is in place and the report says so.
TreeTrue ==
  /\ (active.content = "old") # (displaced.content = "old")
  /\ told \in {"not_started", "not_needed", "restored"} => active.content = "old"
  /\ told = "completed" => active.content = "new" /\ records.report = "completed"

=============================================================================

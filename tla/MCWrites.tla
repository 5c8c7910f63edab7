------------------------------- MODULE MCWrites -------------------------------
(***************************************************************************)
(* Model checking of what the program writes to disks and cards.  A        *)
(* behaviour is about one subject, and the others do not move:             *)
(*   "executor"   the executors of a favorites write (FavoritesWrite),     *)
(*   "document"   a document on the card, call by call (UsbManagedFile),   *)
(*   "records"    the records of a write on the host (HostRecords),        *)
(*   "recording"  the daemon's recordings (RecordingManager),              *)
(*   "retention"  the deletion of old recordings (RecordingRetention),     *)
(*   "target"     which card is written (UsbTarget),                       *)
(*   "reading"    a preflight reading a tree that is edited (TreeReading), *)
(*   "staging"    backup and staged tree on the host (HostStaging),        *)
(*   "sync"       synchronisation with a provider (FavoritesSync).         *)
(***************************************************************************)
EXTENDS FavoritesWrite

CONSTANTS
  MaxHands, MaxChanges, MaxEdits, MaxStrangers, MaxRecords, Identities, Sessions, MaxSelected,
  MaxUpsets

ASSUME SyncAssumption ==
  MaxRecords \in Nat \ {0} /\ Identities # {} /\ "nobody" \notin Sessions

ASSUME HandsAssumption == MaxHands \in Nat

VARIABLES
  subject,
  plan, entry, content, stamp, mounted, stage, job, docPc, fd, opened, seen, data, bound,
  docArtifact, raised, changed, fresh, hands,
  hostEntry, disk, unsynced, hostStep, hostJob, hostPc, proposed, read, owned, hostTries,
  hostRollback, after, touched, hostTold,
  files, status, held, operation, recStep, closing, recFailure, path, thread, stopping, broken,
  attached, queue, counts, completed, closed, doubted, recFaults,
  library, shown, confirmed, rescanned, phase, unit, retStep, expected, outcome, removed,
  disturbed, retHands,
  table, devices, cards, changes, errand, looks, got, rounds, listed, found, judged, heldTrue,
  tree, inode, times, past, edits, walk, calls, openFile, noted, readSoFar, results, judgement,
  writer, trees, stageCalls, stageRaised, evidence, late, strangers,
  onCard, provenance, life, plans, syncPc, initial, publisher, done, since, known, crossed,
  selected, upsets

Document == INSTANCE UsbManagedFile WITH pc <- docPc, artifact <- docArtifact

Records == INSTANCE HostRecords WITH
  entry <- hostEntry, step <- hostStep, job <- hostJob, pc <- hostPc, tries <- hostTries,
  rollback <- hostRollback, told <- hostTold

Recording == INSTANCE RecordingManager WITH
  step <- recStep, failure <- recFailure, faults <- recFaults

Retention == INSTANCE RecordingRetention WITH step <- retStep, hands <- retHands

TheCard == INSTANCE UsbTarget WITH job <- errand, held <- heldTrue, verdict <- judged

Reading == INSTANCE TreeReading WITH
  touched <- times, todo <- calls, open <- openFile, seen <- readSoFar, outcome <- judgement

Staged == INSTANCE HostStaging WITH calls <- stageCalls, raised <- stageRaised

Sync == INSTANCE FavoritesSync WITH file <- provenance, pc <- syncPc

writeVars == <<backend, vars, treeVars>>
documentVars == <<plan, entry, content, stamp, mounted, stage, job, docPc, fd, opened, seen, data,
                  bound, docArtifact, raised, changed, fresh, hands>>
recordVars == <<hostEntry, disk, unsynced, hostStep, hostJob, hostPc, proposed, read, owned,
                hostTries, hostRollback, after, touched, hostTold>>
recordingVars == <<files, status, held, operation, recStep, closing, recFailure, path, thread,
                   stopping, broken, attached, queue, counts, completed, closed, doubted, recFaults>>
retentionVars == <<library, shown, confirmed, rescanned, phase, unit, retStep, expected, outcome,
                   removed, disturbed, retHands>>
targetVars == <<table, devices, cards, changes, errand, looks, got, rounds, listed, found, judged,
                heldTrue>>
readingVars == <<tree, inode, times, past, edits, walk, calls, openFile, noted, readSoFar, results,
                 judgement>>
stagingVars == <<writer, trees, stageCalls, stageRaised, evidence, late, strangers>>
syncVars == <<onCard, provenance, life, plans, syncPc, initial, publisher, done, since, known,
              crossed, selected, upsets>>

MCInit ==
  /\ subject \in {"executor", "document", "records", "recording", "retention", "target", "reading",
                  "staging", "sync"}
  /\ library \in IF subject = "retention" THEN Retention!Libraries
                 ELSE {[u \in Retention!Units |->
                          [audio |-> Retention!Gone, metadata |-> Retention!Gone]]}
  /\ WriteInit
  /\ subject # "executor" =>
       backend = "usb" /\ <<baseline, intended>> = CHOOSE p \in Plans : TRUE
  /\ plan \in IF subject = "document" THEN {"change", "create", "delete"} ELSE {"change"}
  /\ Document!Init /\ Records!Init /\ Recording!Init /\ Retention!Init /\ TheCard!Init /\ Reading!Init
  /\ Staged!Init /\ Sync!Init
  /\ subject # "staging" => writer = "usb"
  /\ subject # "sync" => provenance = Sync!None
  /\ subject # "target" => errand = "write" /\ devices["8:17"] = TheCard!Absent

MCNext ==
  \/ /\ subject = "executor" /\ (UsbNext \/ TreeNext)
     /\ UNCHANGED <<subject, documentVars, recordVars, recordingVars, retentionVars, targetVars, readingVars,
                    stagingVars, syncVars>>
  \/ /\ subject = "document" /\ Document!Next
     /\ UNCHANGED <<subject, writeVars, recordVars, recordingVars, retentionVars, targetVars, readingVars,
                    stagingVars, syncVars>>
  \/ /\ subject = "records" /\ Records!Next
     /\ UNCHANGED <<subject, writeVars, documentVars, recordingVars, retentionVars, targetVars, readingVars,
                    stagingVars, syncVars>>
  \/ /\ subject = "recording" /\ Recording!Next
     /\ UNCHANGED <<subject, writeVars, documentVars, recordVars, retentionVars, targetVars, readingVars,
                    stagingVars, syncVars>>
  \/ /\ subject = "retention" /\ Retention!Next
     /\ UNCHANGED <<subject, writeVars, documentVars, recordVars, recordingVars, targetVars, readingVars,
                    stagingVars, syncVars>>
  \/ /\ subject = "target" /\ TheCard!Next
     /\ UNCHANGED <<subject, writeVars, documentVars, recordVars, recordingVars, retentionVars, readingVars,
                    stagingVars, syncVars>>
  \/ /\ subject = "reading" /\ Reading!Next
     /\ UNCHANGED <<subject, writeVars, documentVars, recordVars, recordingVars, retentionVars, targetVars,
                    stagingVars, syncVars>>
  \/ /\ subject = "staging" /\ Staged!Next
     /\ UNCHANGED <<subject, writeVars, documentVars, recordVars, recordingVars, retentionVars, targetVars,
                    readingVars, syncVars>>
  \/ /\ subject = "sync" /\ Sync!Next
     /\ UNCHANGED <<subject, writeVars, documentVars, recordVars, recordingVars, retentionVars, targetVars,
                    readingVars, stagingVars>>

MCSpec ==
  MCInit /\ [][MCNext]_<<subject, writeVars, documentVars, recordVars, recordingVars, retentionVars,
                         targetVars, readingVars, stagingVars, syncVars>>

\* What another hand put at a name is destroyed only if it came there after the
\* primitive last looked, and a document that ends activated or recovered holds
\* what it should, unless another hand was there after the last look.
DocumentSafe == []Document!TypeOK /\ Document!SparesOthers /\ Document!EndsVerified

\* An error that denies a mutation left the card as it was, and one that carries
\* a recovery artifact has it.
ErrorsTellTheTruth == Document!ErrorsTellTheTruth

\* Call by call, a document changes only as the primitive steps of UsbWrite say.
StepsOfUsbWrite == Document!StepsOfUsbWrite

\* No power failure tears a record or hides that the card was touched; whatever
\* was raised and reconciled, workflow and caller know the records that are there,
\* and every report of the workflow is one that its readers accept.
RecordsTrue == Records!RecordsSurvive /\ Records!RecordsKnown /\ Records!ReportsAccepted

\* A completed recording is whole and its sidecar tells what is in it.  A retention
\* plan takes the oldest recordings and no more than the limits call for, its
\* execution reports what it deleted, and undisturbed it does what the plan said.
RecordingsTrue ==
  /\ Recording!TypeOK /\ Recording!CompletedTrue
  /\ Retention!TypeOK /\ Retention!ReportTrue /\ Retention!PlanMinimal /\ Retention!PlanCameTrue

\* What a preflight accepts is one card and one tree: mount, device, directory and
\* content as they were at one instant, whatever was changed between the looks.
AcceptedIsOne ==
  TheCard!TypeOK /\ TheCard!AcceptedTogether /\ Reading!TypeOK /\ Reading!OneTree

\* An activation starts from a target, a backup and a staged tree that are what they
\* should be, save for what others changed after the last looks had begun.
PreparedTrue == Staged!TypeOK /\ Staged!PreparedTrue

\* Card and provenance of a synchronisation fit, or somebody knows why they do not;
\* what is reported done was done; and no plan touches what the user owns.
SyncTrue == Sync!TypeOK /\ Sync!RetainedFits /\ Sync!DoneTrue /\ Sync!UnfitIsKnown

\* Records, recordings, what a preflight accepted, what was prepared, and what was
\* synchronised are true, each in the behaviours that are about it.
StorageSound ==
  /\ subject = "records" => RecordsTrue
  /\ subject \in {"recording", "retention"} => RecordingsTrue
  /\ subject \in {"target", "reading"} => AcceptedIsOne
  /\ subject = "staging" => PreparedTrue
  /\ subject = "sync" => SyncTrue

\* A recording that was closed in order is never written again, none starts before
\* the one before it was let go, and one is deleted only if a plan selected it that
\* was shown and confirmed, as it was then.  Provenance is replaced only by a plan
\* that was made from it, and what the user detached or owns stays so.
ChoicesKept ==
  Recording!OneWriter /\ Retention!DeletesTheConfirmed /\ Sync!NoLostUpdate /\ Sync!LocalStaysLocal

=============================================================================

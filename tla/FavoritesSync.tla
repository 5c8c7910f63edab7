----------------------------- MODULE FavoritesSync -----------------------------
(***************************************************************************)
(* Assisted synchronisation of Favorites with an external provider.  A     *)
(* provenance file on the host says which record of the card is which      *)
(* record of the provider; a lifecycle reads card and file once, at its    *)
(* start, and keeps what it read.  From then on a user refreshes, selects  *)
(* a plan (ExternalRecords) and has it executed: the executor writes the   *)
(* card, the card is read back, the new provenance is published if the     *)
(* file still is what the plan started from, and the lifecycle advances.   *)
(* Card and file are two resources, and nothing makes the two writes one.  *)
(* There are several lifecycles, of one process or of several; each runs   *)
(* one operation at a time, under its lock.                                *)
(***************************************************************************)
EXTENDS ExternalRecords

CONSTANTS
  Sessions,      \* the lifecycles
  MaxSelected,   \* bound: plans selected
  MaxUpsets      \* bound: crashes, changes by others and failing calls

VARIABLES
  onCard,     \* what is on the card
  file,       \* the provenance file, or None
  life,       \* each lifecycle: its state and what it retains
  plans,      \* the plan each session executes
  pc,         \* the next step of each session
  initial,    \* the file as each publication began
  publisher,  \* who holds the publication lock
  done,       \* whether each session's execution was reported done
  since,      \* history: what changed behind a session since it last looked
  known,      \* history: somebody was told, or knows, that file and card may not fit
  crossed,    \* history: a publication, although others had come and gone since its card was read
  selected, upsets   \* for the bounds

vars == <<onCard, file, life, plans, pc, initial, publisher, done, since, known, crossed, selected, upsets>>

Nobody == "nobody"
NoPlan == Plan("none", <<>>, None, <<>>, None)
Fresh == [state |-> "idle", card |-> <<>>, records |-> None]

\* ---------------------------------------------------------------- bookkeeping
Others(s) == Sessions \ {s}
Looked == {"publish", "staged", "checked", "published"}
Behind(who, what) ==
  since' = [t \in Sessions |->
              IF t \in who /\ (pc[t] \in Looked \/ done[t]) THEN since[t] \cup what ELSE since[t]]
Forget(s, what) == since' = [since EXCEPT ![s] = @ \ what]
Account(reason) == known' = (known \/ reason)
Upset == upsets < MaxUpsets /\ upsets' = upsets + 1
Go(s, from, to) == pc[s] = from /\ pc' = [pc EXCEPT ![s] = to]
Begin(s) == done' = [done EXCEPT ![s] = FALSE] /\ since' = [since EXCEPT ![s] = {}]
Job(s) == plans[s]
Writes(s) == Job(s).kind # "detach"

\* The card is written, and the provenance is not.
Between(s) == pc[s] \in {"reread", "publish", "staged", "checked"} /\ Writes(s)

\* ------------------------------------------------------------------ lifecycle
\* start: one snapshot of the card, ...
StartRead(s) ==
  /\ life[s].state = "idle" /\ Go(s, "rest", "load")
  /\ life' = [life EXCEPT ![s].card = onCard]
  /\ UNCHANGED <<onCard, file, plans, initial, publisher, done, since, known, crossed, selected, upsets>>

\* ... and the provenance, bound to it again.  A failed start is final.
StartLoad(s) ==
  /\ Go(s, "load", "rest")
  /\ \/ /\ Rebinds(file, life[s].card) /\ UNCHANGED upsets
        /\ life' = [life EXCEPT ![s].state = "active", ![s].records = file]
     \/ /\ IF Rebinds(file, life[s].card) THEN Upset ELSE UNCHANGED upsets
        /\ life' = [life EXCEPT ![s] = [Fresh EXCEPT !.state = "failed"]]
  /\ UNCHANGED <<onCard, file, plans, initial, publisher, done, since, known, crossed, selected>>

\* A lifecycle that was closed or failed to start never starts again: a new one
\* takes its place.
Reopen(s) ==
  /\ pc[s] = "rest" /\ life[s].state \in {"active", "failed"}
  /\ life' = [life EXCEPT ![s] = Fresh] /\ plans' = [plans EXCEPT ![s] = NoPlan] /\ Begin(s)
  /\ UNCHANGED <<onCard, file, pc, initial, publisher, known, crossed, selected, upsets>>

\* refresh, and a plan made from the snapshot it retains.
Select(s) ==
  /\ pc[s] = "rest" /\ life[s].state = "active" /\ selected < MaxSelected
  /\ \E p \in PlansFrom(life[s].card, life[s].records) : plans' = [plans EXCEPT ![s] = p]
  /\ selected' = selected + 1 /\ Begin(s)
  /\ UNCHANGED <<onCard, file, life, pc, initial, publisher, known, crossed, upsets>>

\* ------------------------------------------------------------------ execution
Refuse(s, from) == Go(s, from, "rest") /\ UNCHANGED done

\* _execute_..._durably_from_snapshot: the lifecycle must still be where the plan
\* was made.  A plan can be executed again.
Current(s) == life[s].card = Job(s).card /\ life[s].records = Job(s).records
Admissible(s) ==
  /\ life[s].state = "active" /\ Current(s)
  /\ Job(s).kind # "import" => Job(s).records # None

Admit(s) ==
  /\ Job(s) # NoPlan
  /\ IF Admissible(s) THEN Go(s, "rest", "admitted") /\ Begin(s)
     ELSE Refuse(s, "rest") /\ UNCHANGED since
  /\ UNCHANGED <<onCard, file, life, plans, initial, publisher, known, crossed, selected, upsets>>

\* execute_..._durably: the file, bound to the card as it was planned on, must be
\* the baseline, and what it becomes must bind to the card as it is to become.
Intends(s) == Rebinds(Job(s).toRecords, Job(s).toCard)
Preflight(s) == Rebinds(file, Job(s).card) /\ file = Job(s).records /\ Intends(s)

Load(s) ==
  /\ \/ /\ Preflight(s) /\ UNCHANGED <<done, upsets>>
        /\ Go(s, "admitted", IF Writes(s) THEN "write" ELSE "publish")
     \/ /\ IF Preflight(s) THEN Upset ELSE UNCHANGED upsets
        /\ Refuse(s, "admitted")
  /\ UNCHANGED <<onCard, file, life, plans, initial, publisher, since, known, crossed, selected>>

\* The executor of the caller, a favorites write: the card becomes what was planned
\* if it is what the plan started from; or it raises, whether it changed the card
\* or not.
Execute(s) ==
  /\ UNCHANGED <<file, life, plans, initial, publisher, crossed, selected>>
  /\ \/ onCard = Job(s).card /\ Go(s, "write", "reread") /\ UNCHANGED <<done, upsets>>
        /\ onCard' = Job(s).toCard /\ Behind(Others(s), {"card"}) /\ Account(FALSE)
     \/ onCard = Job(s).card /\ Refuse(s, "write") /\ Upset
        /\ onCard' = Job(s).toCard /\ Behind(Others(s), {"card"}) /\ Account(TRUE)
     \/ Refuse(s, "write") /\ UNCHANGED <<onCard, since, known>>
        /\ IF onCard = Job(s).card THEN Upset ELSE UNCHANGED upsets

\* Mutant: the card is not read again.
RereadNothing(s) ==
  /\ Go(s, "reread", "publish") /\ UNCHANGED done
  /\ Forget(s, {"card"}) /\ UNCHANGED <<onCard, file, life, plans, initial, publisher, known, crossed, selected, upsets>>

\* execute_favorites_external_name_acceptance and its kin: read the card again.
Reread(s) ==
  /\ UNCHANGED <<onCard, file, life, plans, initial, publisher, crossed, selected>> /\ Forget(s, {"card"})
  /\ \/ /\ onCard = Job(s).toCard
        /\ Go(s, "reread", "publish") /\ UNCHANGED <<done, known, upsets>>
     \/ /\ onCard # Job(s).toCard
        /\ Refuse(s, "reread") /\ Account(TRUE) /\ UNCHANGED upsets
     \/ Upset /\ Refuse(s, "reread") /\ Account(TRUE)

\* --------------------------------------------------------------- publication
\* A storage error once the card is written is a persistence error.
LosePublication(s, from) ==
  Refuse(s, from) /\ Account(Writes(s))

\* Mutant: the current content is not compared, as in the unconditional save.
CompareNothing(s) ==
  /\ publisher = Nobody /\ Go(s, "publish", "staged") /\ publisher' = s
  /\ UNCHANGED <<done, known, upsets>>
  /\ Forget(s, {"file", "emptied"}) /\ initial' = [initial EXCEPT ![s] = file]
  /\ UNCHANGED <<onCard, file, life, plans, crossed, selected>>

\* _publication_lock: held by nobody else, of this process or another.
Lockable == publisher = Nobody

\* The head of _publish_content: take the lock or fail at once, and compare the file
\* with the baseline.
Compare(s) ==
  /\ Forget(s, {"file", "emptied"}) /\ UNCHANGED <<onCard, file, life, plans, crossed, selected>>
  /\ \/ /\ Lockable /\ file = Job(s).records
        /\ publisher' = s /\ initial' = [initial EXCEPT ![s] = file]
        /\ Go(s, "publish", "staged") /\ UNCHANGED <<done, known, upsets>>
     \/ /\ ~Lockable \/ file # Job(s).records
        /\ LosePublication(s, "publish") /\ UNCHANGED <<initial, publisher, upsets>>
     \/ Upset /\ LosePublication(s, "publish") /\ UNCHANGED <<initial, publisher>>

\* _require_target_unchanged
Unchanged(s) == file = initial[s]

\* The temporary file is written and read back; the target must be what it was.
Recheck(s) ==
  /\ UNCHANGED <<onCard, file, life, plans, since, crossed, selected>>
  /\ initial' = [initial EXCEPT ![s] = None]
  /\ \/ /\ Unchanged(s) /\ Go(s, "staged", "checked")
        /\ UNCHANGED <<publisher, done, known, upsets>>
     \/ /\ ~Unchanged(s)
        /\ LosePublication(s, "staged") /\ publisher' = Nobody /\ UNCHANGED upsets
     \/ Upset /\ LosePublication(s, "staged") /\ publisher' = Nobody

\* os.replace
Replace(s) ==
  /\ UNCHANGED <<onCard, life, plans, initial, publisher, done, selected, upsets>>
  /\ Go(s, "checked", "published")
  /\ file' = Job(s).toRecords /\ Behind(Others(s), {"file"}) /\ UNCHANGED known
  /\ crossed' = (crossed \/ (Writes(s) /\ "card" \in since[s] /\ ~\E t \in Others(s) : Between(t)))

\* _read_durable_regular_file, of what was put in place.
Durable(s) == file = Job(s).toRecords

\* advance_after_...: the lifecycle takes over what was verified and published.
Advance(s) ==
  life' = [life EXCEPT ![s].card = Job(s).toCard, ![s].records = Job(s).toRecords]

\* The directory is synchronised and the file read back, and the lifecycle advances.
Confirm(s) ==
  /\ publisher' = Nobody /\ UNCHANGED <<onCard, file, plans, initial, since, crossed, selected>>
  /\ \/ /\ Durable(s) /\ Advance(s)
        /\ Go(s, "published", "rest") /\ done' = [done EXCEPT ![s] = TRUE] /\ UNCHANGED <<known, upsets>>
     \/ /\ ~Durable(s)
        /\ LosePublication(s, "published") /\ UNCHANGED <<life, upsets>>
     \/ Upset /\ LosePublication(s, "published") /\ UNCHANGED life

\* --------------------------------------------------------------- environment
\* The process ends; the kernel lets go of the lock.
Crash(s) ==
  /\ pc[s] # "rest" /\ Upset
  /\ life' = [life EXCEPT ![s] = Fresh] /\ plans' = [plans EXCEPT ![s] = NoPlan]
  /\ pc' = [pc EXCEPT ![s] = "rest"] /\ Begin(s)
  /\ publisher' = IF publisher = s THEN Nobody ELSE publisher
  /\ initial' = [initial EXCEPT ![s] = None]
  /\ UNCHANGED <<onCard, file, crossed, selected>> /\ Account(TRUE)

\* Somebody edits a record on the card, or removes the file.
Edit ==
  /\ UNCHANGED <<file, life, plans, pc, initial, publisher, done, crossed, selected>>
  /\ Upset
  /\ \E i \in DOMAIN onCard, f \in Fields :
       onCard' = [onCard EXCEPT ![i][f] = IF @ = "a" THEN "b" ELSE "a"]
  /\ Behind(Sessions, {"card"}) /\ Account(TRUE)

RemoveFile ==
  /\ UNCHANGED <<onCard, life, plans, pc, initial, publisher, done, crossed, selected>>
  /\ Upset /\ file # None /\ file' = None
  /\ Behind(Sessions, {"file", "emptied"}) /\ Account(TRUE)

\* -------------------------------------------------------------- specification
First == [name |-> "a", tone |-> "a"]
Known(owner) ==
  {[at |-> 1, bytes |-> First, identity |-> i, owner |-> owner, detached |-> FALSE]
     : i \in {CHOOSE i \in Identities : TRUE}}

Init ==
  /\ onCard = <<First>>
  /\ file \in {None, Known([name |-> "external", tone |-> "local"])}
  /\ life = [s \in Sessions |-> Fresh] /\ plans = [s \in Sessions |-> NoPlan]
  /\ pc = [s \in Sessions |-> "rest"]
  /\ initial = [s \in Sessions |-> None] /\ publisher = Nobody
  /\ done = [s \in Sessions |-> FALSE] /\ since = [s \in Sessions |-> {}]
  /\ known = FALSE /\ crossed = FALSE /\ selected = 0 /\ upsets = 0

Step(s) ==
  \/ StartRead(s) \/ StartLoad(s) \/ Reopen(s) \/ Select(s) \/ Admit(s) \/ Load(s)
  \/ Execute(s) \/ Reread(s) \/ Compare(s) \/ Recheck(s) \/ Replace(s) \/ Confirm(s) \/ Crash(s)

Next == (\E s \in Sessions : Step(s)) \/ Edit \/ RemoveFile

Spec == Init /\ [][Next]_vars

\* ----------------------------------------------------------------- properties
\* Types.
TypeOK ==
  /\ Len(onCard) <= MaxRecords /\ Bound(file) \subseteq State
  /\ life \in [Sessions -> [state : {"idle", "active", "failed"},
                            card : {<<>>} \cup UNION {[1 .. n -> Bytes] : n \in 1 .. MaxRecords},
                            records : {None} \cup SUBSET State]]
  /\ publisher \in Sessions \cup {Nobody}

\* What an active lifecycle retains fits together, and so does what it is about to
\* execute; no plan touches what the user owns.
RetainedFits ==
  \A s \in Sessions :
    /\ life[s].state = "active" => Rebinds(life[s].records, life[s].card)
    /\ Job(s) # NoPlan =>
         Rebinds(Job(s).toRecords, Job(s).toCard) /\ LeavesLocalAlone(Job(s))

\* An execution that is reported done was: the file and the card are what the plan
\* said unless somebody else changed them after they were last looked at, and so is
\* what the lifecycle retains.  One that was refused changed nothing.
DoneTrue ==
  \A s \in Sessions :
    done[s] =>
      /\ file = Job(s).toRecords \/ {"file", "emptied"} \cap since[s] # {}
      /\ Writes(s) => onCard = Job(s).toCard \/ "card" \in since[s]
      /\ life[s].card = Job(s).toCard /\ life[s].records = Job(s).toRecords

\* File and card fit, or somebody is between writing the one and publishing the
\* other, or somebody knows why they do not: a persistence error was raised, the
\* executor raised, a process ended in between, or others changed one of the two.
\* Or a publication was crossed: since its card was read others wrote the card, and
\* brought the file back to what the comparison wants.
UnfitIsKnown ==
  Rebinds(file, onCard) \/ known \/ crossed \/ \E s \in Sessions : Between(s)

\* A publication replaces the provenance its plan was made from and no other,
\* unless the file was removed after the last look.
NoLostUpdate ==
  [][\A s \in Sessions :
       pc[s] = "checked" /\ pc'[s] = "published" =>
         file = Job(s).records \/ "emptied" \in since[s]]_vars

\* What the user detached or owns stays so, whoever publishes: a binding leaves the
\* file only with its record, and only if the provider owns all of it.
LocalStaysLocal ==
  [][\A r \in Bound(file) :
       file' # None =>
         \/ \E new \in Bound(file') :
              /\ new.identity = r.identity /\ (r.detached => new.detached)
              /\ \A f \in Fields : r.owner[f] \in {"local", "detached"} => new.owner[f] = r.owner[f]
         \/ ~r.detached /\ \A f \in Fields : r.owner[f] \notin {"local", "detached"}]_vars

================================================================================

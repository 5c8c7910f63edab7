-------------------------- MODULE RecordingRetention --------------------------
(***************************************************************************)
(* sds200 recordings retention: plan which recordings a policy drops       *)
(* (recording_retention.py), show the plan with a token, and when the      *)
(* token comes back delete what the plan selects                           *)
(* (recording_retention_execution.py).  The two invocations are processes  *)
(* of their own, each scans the library anew (recording_inventory.py), and *)
(* nothing locks it: the daemon may be writing a recording into it, and    *)
(* other hands may change any file at any time.                            *)
(*                                                                         *)
(* A unit is a WAV file and its metadata sidecar.  A file is what lstat    *)
(* says of it; its stamp stands for inode, size and modification time.     *)
(***************************************************************************)
EXTENDS Naturals, FiniteSets, FiniteSetsExt

VARIABLES
  library,    \* the files of every unit
  shown,      \* inventory and plan behind the token the operator was shown
  confirmed,  \* inventory and plan that the token confirmed
  rescanned,  \* the inventory of the execution
  phase,      \* "preview", "confirm", "rescan", "execute" or "over"
  unit, step, \* the unit whose turn it is, and what is to be done with it
  expected,   \* its files as they were validated
  outcome,    \* of every unit
  removed,    \* the files the execution deleted
  disturbed,  \* files changed by other hands since the execution last looked
  hands       \* what other hands have done

vars == <<library, shown, confirmed, rescanned, phase, unit, step, expected, outcome, removed,
          disturbed, hands>>

Units == 1 .. 2
Parts == {"audio", "metadata"}
Size(u, part) == IF part = "audio" THEN u + 1 ELSE 1
MaxOthers == 1                       \* bound on what other hands do
NoLimit == 99

Gone == [kind |-> "gone", stamp |-> 0, at |-> 0]
\* at is the start that a valid sidecar names, and the modification time of audio.
File(kind, stamp, at) == [kind |-> kind, stamp |-> stamp, at |-> at]

\* ---------------------------------------------------------- the inventory
Exists(u, part) == library[u][part].kind # "gone"

\* A link that leads to a regular file inside the library reads as that file.
Reads(file) == file.kind \in {"good", "link"}

AudioStatus(audio) ==
  IF audio.kind = "gone" THEN "missing" ELSE IF Reads(audio) THEN "compatible" ELSE "unreadable"

MetadataStatus(audio, metadata) ==
  IF metadata.kind = "gone" THEN "missing"
  ELSE IF audio.kind = "gone" THEN "orphaned" ELSE IF Reads(metadata) THEN "valid" ELSE "invalid"

RecordedAt(audio, metadata) ==
  IF Reads(metadata) THEN metadata.at ELSE IF Reads(audio) THEN audio.at ELSE 0

\* What scan_recording_inventory says of a unit.
Entry(u) ==
  LET audio == library[u].audio metadata == library[u].metadata
  IN  [unit |-> u, audio |-> AudioStatus(audio), metadata |-> MetadataStatus(audio, metadata),
       at |-> RecordedAt(audio, metadata), stamps |-> <<audio.stamp, metadata.stamp>>,
       bytes |-> MapThenSumSet(LAMBDA part : Size(u, part), {p \in Parts : Exists(u, p)})]

Scan == {Entry(u) : u \in {v \in Units : \E part \in Parts : Exists(v, part)}}

\* --------------------------------------------------------------- the plan
Bytes(entries) == MapThenSumSet(LAMBDA e : e.bytes, entries)

Protected(e) ==
  e.audio # "compatible" \/ e.metadata \notin {"valid", "missing"} \/ e.at = 0

Selectable(inventory) == {e \in inventory : ~Protected(e)}

\* Mutant: the newest recordings go first.
OlderReversed(inventory, e) ==
  {f \in Selectable(inventory) : f.at > e.at \/ (f.at = e.at /\ f.unit > e.unit)}

\* Those before e in the order of selection.
Older(inventory, e) ==
  {f \in Selectable(inventory) : f.at < e.at \/ (f.at = e.at /\ f.unit < e.unit)}

AgedOut(inventory, policy) == {e \in Selectable(inventory) : e.at < policy.cutoff}

\* The first entries, as many as there are units too many.
UnitsOver(inventory, policy) ==
  {e \in Selectable(inventory) :
     Cardinality(Older(inventory, e)) + policy.units < Cardinality(inventory)}

\* The shortest prefix that brings the bytes down to the limit.
BytesOver(inventory, policy) ==
  {e \in Selectable(inventory) :
     Bytes(Older(inventory, e)) + policy.bytes < Bytes(inventory)}

Selected(inventory, policy) ==
  AgedOut(inventory, policy) \cup UnitsOver(inventory, policy) \cup BytesOver(inventory, policy)

\* all_limits_satisfied: of what would remain
Satisfied(inventory, policy, chosen) ==
  LET kept == inventory \ chosen
  IN  /\ policy.cutoff # 0 => \A e \in kept : e.at >= policy.cutoff
      /\ Cardinality(kept) <= policy.units
      /\ Bytes(kept) <= policy.bytes

\* A limit is not set, or small; at least one is set.
Policies ==
  {[cutoff |-> c, units |-> n, bytes |-> b] :
     c \in {0, 2}, n \in {1, NoLimit}, b \in {3, NoLimit}}
    \ {[cutoff |-> 0, units |-> NoLimit, bytes |-> NoLimit]}

\* The plan with all it was made from: what the token is a digest of.
Plan(policy) ==
  [inventory |-> Scan, policy |-> policy, selected |-> Selected(Scan, policy)]

\* ------------------------------------------------------------- invocations
\* plan_recording_retention, without --execute: the operator sees plan and token.
Preview ==
  /\ phase = "preview" /\ phase' = "confirm"
  /\ \E policy \in Policies : shown' = {Plan(policy)}
  /\ UNCHANGED <<library, confirmed, rescanned, unit, step, expected, outcome, removed,
                 disturbed, hands>>

\* With --execute <token>: plan again, and refuse another plan than the one shown.
Confirm ==
  /\ phase = "confirm"
  /\ \E policy \in Policies :
       IF Plan(policy) \in shown
       THEN confirmed' = shown /\ phase' = "rescan"
       ELSE phase' = "over" /\ UNCHANGED confirmed
  /\ UNCHANGED <<library, shown, rescanned, unit, step, expected, outcome, removed, disturbed, hands>>

Chosen == UNION {{e.unit : e \in plan.selected} : plan \in confirmed}
Planned(u) == CHOOSE e \in UNION {plan.selected : plan \in confirmed} : e.unit = u

Skip(us, reason) ==
  outcome' = [u \in Units |->
    IF u \in us THEN [status |-> "skipped", bytes |-> 0, reason |-> reason] ELSE outcome[u]]

\* execute_recording_retention: the root must still be there and be scanned.
RootFails ==
  /\ phase = "rescan" /\ phase' = "over"
  /\ Skip(Chosen, "root_unavailable")
  /\ UNCHANGED <<library, shown, confirmed, rescanned, unit, step, expected, removed, disturbed,
                 hands>>

Rescan ==
  /\ phase = "rescan" /\ phase' = "execute"
  /\ rescanned' = Scan /\ unit' = 1 /\ step' = "validate"
  /\ UNCHANGED <<library, shown, confirmed, expected, outcome, removed, disturbed, hands>>

Doing(here) == phase = "execute" /\ unit \in Chosen /\ step = here

Following ==
  IF unit = Cardinality(Units) THEN phase' = "over" /\ UNCHANGED <<unit, step>>
  ELSE unit' = unit + 1 /\ step' = "validate" /\ UNCHANGED phase

NextUnit ==
  /\ phase = "execute" /\ unit \notin Chosen
  /\ Following
  /\ UNCHANGED <<library, shown, confirmed, rescanned, expected, outcome, removed, disturbed, hands>>

\* _outcome: what was deleted is told whatever became of the rest.
Told(status, reason) ==
  /\ outcome' = [outcome EXCEPT ![unit] =
       [status |-> status, reason |-> reason,
        bytes |-> MapThenSumSet(LAMBDA part : Size(unit, part),
                                {p \in Parts : <<unit, p>> \in removed'})]]
  /\ Following

Looked(parts) == disturbed' = disturbed \ {<<unit, part>> : part \in parts}

GoOn(next) == step' = next /\ UNCHANGED <<phase, unit, outcome>>

\* The files are regular ones, as planned and as the fresh scan saw them.
Valid ==
  /\ library[unit].audio.kind # "link" /\ library[unit].metadata.kind # "link"
  /\ Planned(unit) \in rescanned
  /\ Entry(unit) = Planned(unit)

\* _validate_unit
Validate ==
  /\ Doing("validate") /\ Looked(Parts) /\ UNCHANGED removed
  /\ IF Valid
     THEN /\ expected' = library[unit]
          /\ GoOn(IF Exists(unit, "metadata") THEN "sidecar" ELSE "noSidecar")
     ELSE Told("skipped", "stale_plan") /\ UNCHANGED expected
  /\ UNCHANGED <<library, shown, confirmed, rescanned, hands>>

\* _current_problem: lstat shows what was validated.
Current(part) == library[unit][part] = expected[part]

CheckSidecar ==
  /\ Doing("sidecar") /\ Looked({"metadata"}) /\ UNCHANGED removed
  /\ IF Current("metadata") THEN GoOn("deleteSidecar") ELSE Told("skipped", "stale_plan")
  /\ UNCHANGED <<library, shown, confirmed, rescanned, expected, hands>>

CheckNoSidecar ==
  /\ Doing("noSidecar") /\ Looked({"metadata"}) /\ UNCHANGED removed
  /\ IF Exists(unit, "metadata") THEN Told("skipped", "stale_plan") ELSE GoOn("audio")
  /\ UNCHANGED <<library, shown, confirmed, rescanned, expected, hands>>

Unlink(part) ==
  /\ Exists(unit, part)
  /\ library' = [library EXCEPT ![unit][part] = Gone]
  /\ removed' = removed \cup {<<unit, part>>}
  /\ Looked({part})

DeleteSidecar ==
  /\ Doing("deleteSidecar") /\ Unlink("metadata") /\ GoOn("audio")
  /\ UNCHANGED <<shown, confirmed, rescanned, expected, hands>>

DeleteFails ==
  /\ Doing("deleteSidecar") \/ Doing("deleteAudio")
  /\ UNCHANGED removed
  /\ Told("failed", "delete_failed")
  /\ UNCHANGED <<library, shown, confirmed, rescanned, expected, disturbed, hands>>

\* With the sidecar deleted there is something to tell even if nothing else is.
CheckAudio ==
  /\ Doing("audio") /\ Looked({"audio"}) /\ UNCHANGED removed
  /\ IF Current("audio")
     THEN GoOn(IF <<unit, "metadata">> \in removed THEN "replaced" ELSE "deleteAudio")
     ELSE Told(IF <<unit, "metadata">> \in removed THEN "failed" ELSE "skipped", "stale_plan")
  /\ UNCHANGED <<library, shown, confirmed, rescanned, expected, hands>>

\* A sidecar that came back belongs to another recording.
CheckReplaced ==
  /\ Doing("replaced") /\ Looked({"metadata"}) /\ UNCHANGED removed
  /\ IF Exists(unit, "metadata") THEN Told("failed", "stale_plan") ELSE GoOn("deleteAudio")
  /\ UNCHANGED <<library, shown, confirmed, rescanned, expected, hands>>

DeleteAudio ==
  /\ Doing("deleteAudio") /\ Unlink("audio")
  /\ Told("completed", "completed")
  /\ UNCHANGED <<shown, confirmed, rescanned, expected, hands>>

\* ------------------------------------------------------------ specification
\* The daemon, or anyone, writes, replaces or removes a file.
HandChanges(u, part) ==
  /\ phase \in {"confirm", "rescan", "execute"} /\ hands < MaxOthers
  /\ \E kind \in {"gone", "good", "link"} \ {IF Exists(u, part) THEN "" ELSE "gone"} :
       library' = [library EXCEPT ![u][part] =
                     IF kind = "gone" THEN Gone ELSE File(kind, hands + 4, 3)]
  /\ hands' = hands + 1
  /\ disturbed' = disturbed \cup {<<u, part>>}
  /\ UNCHANGED <<shown, confirmed, rescanned, phase, unit, step, expected, outcome, removed>>

Kinds ==
  [audio : {Gone, File("good", 2, 2), File("bad", 1, 1), File("link", 1, 1)},
   metadata : {Gone, File("good", 3, 1), File("good", 3, 2), File("bad", 3, 1)}]

\* At most one of the units there are is out of order at first.
Odd(files) ==
  \/ files.audio.kind \in {"bad", "link"} \/ files.metadata.kind = "bad"
  \/ files.audio = Gone /\ files.metadata # Gone

Libraries == {files \in [Units -> Kinds] : Cardinality({u \in Units : Odd(files[u])}) < 2}

Init ==
  /\ library \in Libraries
  /\ shown = {} /\ confirmed = {} /\ rescanned = {}
  /\ phase = "preview" /\ unit = 1 /\ step = "validate" /\ expected = [audio |-> Gone, metadata |-> Gone]
  /\ outcome = [u \in Units |-> [status |-> "none", bytes |-> 0, reason |-> "none"]]
  /\ removed = {} /\ disturbed = {} /\ hands = 0

Program ==
  \/ Preview \/ Confirm \/ RootFails \/ Rescan \/ NextUnit \/ Validate \/ CheckSidecar
  \/ CheckNoSidecar \/ DeleteSidecar \/ DeleteFails \/ CheckAudio \/ CheckReplaced \/ DeleteAudio

Next == Program \/ \E u \in Units, part \in Parts : HandChanges(u, part)

Spec == Init /\ [][Next]_vars

\* --------------------------------------------------------------- properties
Over == phase = "over" /\ confirmed # {}

\* A file is deleted only if the confirmed plan selected its unit, and as it was
\* when the operator saw the plan, unless another hand changed it after the
\* execution last looked; and the audio only when no sidecar was left that a look
\* could show.
DeletesTheConfirmed ==
  [][\A u \in Units, part \in Parts :
       <<u, part>> \in removed' \ removed =>
         \/ <<u, part>> \in disturbed
         \/ /\ u \in Chosen
            /\ \E e \in UNION {p.inventory : p \in shown} :
                 e.unit = u /\ library[u][part].stamp = e.stamps[IF part = "audio" THEN 1 ELSE 2]
            /\ part = "audio" /\ <<u, "metadata">> \notin disturbed => ~Exists(u, "metadata")]_vars

\* The report says what was deleted: a completed unit lost its audio, a skipped
\* one nothing, and the bytes are those of the files that are gone.
ReportTrue ==
  Over => \A u \in Units :
    /\ outcome[u].status = "completed" <=> <<u, "audio">> \in removed
    /\ outcome[u].status \in {"none", "skipped"} => \A part \in Parts : <<u, part>> \notin removed
    /\ outcome[u].bytes = MapThenSumSet(LAMBDA part : Size(u, part),
                                        {p \in Parts : <<u, p>> \in removed})
    /\ u \in Chosen <=> outcome[u].status # "none"

\* A plan takes the oldest that it may take, and of those that an age does not
\* condemn no more than the limits call for.
PlanMinimal ==
  phase = "confirm" /\ hands = 0 => \A plan \in shown :
    /\ \A e \in plan.selected : ~Protected(e)
    /\ \A e \in plan.selected :
         LET older == {f \in Selectable(plan.inventory) :
                         f.at < e.at \/ (f.at = e.at /\ f.unit < e.unit)}
         IN  e.at >= plan.policy.cutoff =>
               /\ older \subseteq plan.selected
               /\ ~Satisfied(plan.inventory, [plan.policy EXCEPT !.cutoff = 0], older)

\* When every deletion succeeded and no other hand was there, what is left keeps
\* the policy exactly if the plan said that it would.
PlanCameTrue ==
  Over /\ hands = 0 /\ (\A u \in Chosen : outcome[u].status = "completed") =>
    \A plan \in confirmed :
      Satisfied(Scan, plan.policy, {})
        <=> Satisfied(plan.inventory, plan.policy, plan.selected)

\* The variables keep to their types.
TypeOK ==
  /\ phase \in {"preview", "confirm", "rescan", "execute", "over"}
  /\ step \in {"validate", "sidecar", "noSidecar", "deleteSidecar", "audio", "replaced",
               "deleteAudio"}
  /\ unit \in Units /\ hands \in 0 .. MaxOthers
  /\ removed \subseteq Units \X Parts /\ disturbed \subseteq Units \X Parts

===============================================================================

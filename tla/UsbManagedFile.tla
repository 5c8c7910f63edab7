---------------------------- MODULE UsbManagedFile ----------------------------
(***************************************************************************)
(* One managed document of UsbWrite, one system call at a time             *)
(* (favorites_write_usb.py).  Activation gives the document its intended   *)
(* state, and when any call fails recovery gives it its baseline again.    *)
(* Meanwhile hands outside the program, which no lock stops, may change    *)
(* either name the operation uses, or mount another card.                  *)
(*                                                                         *)
(* A primitive is a program: a sequence of calls, each with what the error *)
(* raised in its place says of the media.  A file is an inode; size and    *)
(* modification time are its stamp, which a change need not alter: the     *)
(* card's file system stores times in steps of two seconds.                *)
(***************************************************************************)
EXTENDS Naturals, Sequences

CONSTANT MaxHands   \* bound on what hands outside the program do

VARIABLES
  plan,      \* what the plan does to the document: "change", "create" or "delete"
  entry,     \* the inode a name leads to, or Absent
  content,   \* of an inode: "old", "new", "torn" or "foreign"
  stamp,     \* of an inode
  mounted,   \* the card at the mount point: "mine" or "other"
  stage,     \* "activation", "recovery", or how it ended
  job, pc,   \* the program that runs, and its next call
  fd,        \* the inode that is open
  opened,    \* its stamp when it was opened
  seen,      \* what lstat said
  data,      \* what was read
  bound,     \* what lstat said of the verified recovery artifact
  artifact,  \* the activation failed with a recovery artifact
  raised,    \* what the last error said
  changed,   \* the running primitive has changed the media
  fresh,     \* names changed by other hands since the primitive looked there
  hands      \* what the hands have done

diskVars == <<entry, content, stamp, mounted>>
callVars == <<fd, opened, seen, data, bound>>
jobVars == <<stage, job, pc, artifact, raised>>
vars == <<plan, diskVars, callVars, jobVars, changed, fresh, hands>>

Names == {"target", "temp"}
Absent == 0
Inodes == 1 .. 6
Nothing == [inode |-> Absent, stamp |-> 0]
Silent == [started |-> FALSE, artifact |-> FALSE]

\* --------------------------------------------------------------- the calls
\* A call whose error says that nothing was changed, ...
Call(call, name) == [call |-> call, name |-> name, started |-> FALSE, artifact |-> FALSE]

\* ... or that the media may have changed, ...
Started(program) == [i \in DOMAIN program |-> [program[i] EXCEPT !.started = TRUE]]

\* ... and that the temporary file is a verified recovery artifact.
Carrying(program) ==
  [i \in DOMAIN program |-> [program[i] EXCEPT !.started = TRUE, !.artifact = TRUE]]

Gone(name) == <<Call("gone", name)>>
ReadFile(name) == <<Call("open", name), Call("read", name)>>
Unchanged(name) == <<Call("restat", name)>>
Observe(name) == <<Call("stat", name)>> \o ReadFile(name) \o Unchanged(name)

\* _require_usb_recovery_target_ready: the mount is the one of the preflight, and
\* after the unmanaged files were hashed it still is.
Evidence == <<Call("mount", "temp"), Call("remount", "temp")>>

\* ------------------------------------------------- writing a managed file
\* _restore_usb_active_managed_file, for activation and for recovery
InspectTarget ==
  <<Call("stat", "target"), Call("open", "target"), Call("peek", "target"),
    Call("classify", "target")>>

OpenGuarded == <<Call("openfd", "target"), Call("readfd", "target")>>

\* Mutant: an error of the rewrite denies that the media may have changed.
RewriteDenied == <<Call("truncate", "target"), Call("rewrite", "target")>>

\* Mutant: the new content is written over the old without truncating it.
RewriteOver == Started(<<Call("rewrite", "target")>>)

RewriteInPlace == Started(<<Call("truncate", "target"), Call("rewrite", "target")>>)

CreateExclusive ==
  <<Call("create", "target")>> \o Started(<<Call("same", "target"), Call("rewrite", "target")>>)

FinalReadback ==
  Started(<<Call("same", "target")>> \o ReadFile("target") \o Unchanged("target"))

\* ------------------------------------------------ deleting in activation
\* _delete_usb_active_managed_hpd
DeleteCheck == Gone("temp") \o Observe("target")

DeleteDisplaced ==
  <<Call("displace", "target")>>
    \o Started(<<Call("open", "temp"), Call("peek", "temp"), Call("judge", "temp")>>)
    \o Carrying(<<Call("unlink", "temp")>>)

PutBack == Started(Gone("target") \o <<Call("putBack", "target")>>)

\* -------------------------------------------------- removing in recovery
\* _remove_usb_recovery_intended_only_hpd
RemoveCheck == Evidence \o Gone("temp") \o Observe("target")

RemoveRecheck ==
  Evidence \o Gone("temp") \o Unchanged("target") \o ReadFile("target") \o Unchanged("target")
    \o Gone("temp")

RemoveDisplaced ==
  <<Call("displace", "target")>>
    \o Started(<<Call("stat", "temp"), Call("open", "temp"), Call("peek", "temp"),
                 Call("restat", "temp"), Call("judge", "temp")>>)

RemoveArtifact ==
  Carrying(Gone("target") \o Evidence \o Gone("target") \o Unchanged("temp")
             \o <<Call("unlink", "temp")>>)

RemoveFinish ==
  Started(Gone("temp") \o Gone("target") \o Evidence \o Gone("target") \o Gone("temp"))

ConfirmAbsent == Evidence \o Gone("temp") \o Gone("target")

\* _restore_displaced_usb_recovery_removal_content, whose outcome nobody asks for
Recreate == Started(Gone("target") \o <<Call("create", "target"), Call("rewrite", "target"),
                                        Call("refuse", "temp")>>)

\* ------------------------------------------------ artifacts left behind
\* _require_current_usb_recovery_artifact
BindArtifact == Evidence \o Observe("temp")
BindArtifactAgain == Evidence \o Unchanged("temp") \o ReadFile("temp") \o Unchanged("temp")
Bind == BindArtifact \o BindArtifactAgain \o <<Call("bind", "temp")>>
Rebind == BindArtifact \o BindArtifactAgain \o <<Call("matches", "temp")>>

\* _cleanup_verified_usb_recovery_artifact
CleanupTarget == Evidence \o Observe("target") \o Evidence
CleanupUnlink ==
  Observe("target") \o <<Call("bound", "temp")>> \o ReadFile("temp") \o <<Call("bound", "temp")>>
    \o Started(<<Call("unlink", "temp")>> \o Gone("temp"))

\* _require_current_usb_recovery_removal_artifact
BindRemoval == Evidence \o Gone("target") \o Observe("temp") \o Gone("target")
BindRemovalAgain ==
  Evidence \o Gone("target") \o Unchanged("temp") \o ReadFile("temp") \o Unchanged("temp")
    \o Gone("target")
RebindRemoval == BindRemoval \o BindRemovalAgain \o <<Call("matches", "temp")>>

\* _cleanup_verified_usb_recovery_removal_artifact
CleanupRemovalCheck == Gone("target") \o Evidence \o Gone("target")
CleanupRemovalUnlink ==
  Gone("target") \o <<Call("bound", "temp")>> \o ReadFile("temp") \o <<Call("bound", "temp")>>
    \o Gone("target") \o Started(<<Call("unlink", "temp")>>) \o RemoveFinish

\* ------------------------------------------------- activation and recovery
\* The state the document is to have.
Goal ==
  IF stage = "activation" THEN (IF plan = "delete" THEN "absent" ELSE "new")
                          ELSE (IF plan = "create" THEN "absent" ELSE "old")

\* allowed_existing_content: what may be overwritten with it.
Overwritable ==
  IF plan # "change" THEN {} ELSE IF stage = "activation" THEN {"old"} ELSE {"new"}

AbsenceAllowed == plan = (IF stage = "activation" THEN "create" ELSE "delete")

\* What the file that is read must hold.
Expected ==
  CASE job \in {"delete", "bind", "cleanup"} -> "old"
    [] job \in {"remove", "cleanupRemoval"}  -> "new"
    [] OTHER                                 -> Goal

\* The double readback of _activate_usb_managed_state and of
\* _recover_usb_active_managed_state.
Readback ==
  LET look == IF Goal = "absent" THEN Gone("target") ELSE Observe("target")
  IN  Gone("temp") \o Evidence \o look \o Evidence \o Gone("temp") \o look
        \o Evidence \o Gone("temp")

\* What is asked before a primitive, ...
Guard ==
  IF stage = "activation" THEN Evidence \o Gone("temp")
  ELSE (IF plan = "create" THEN Gone("temp") ELSE <<>>) \o Evidence

\* ... and after it.
Leave == Evidence \o IF stage = "activation" THEN Gone("temp") ELSE <<>>

Code ==
  CASE job = "begin"    -> Evidence \o Gone("temp")
    [] job = "bind"     -> Evidence \o Bind
    [] job = "guard"    -> Guard
    [] job = "write"    -> (IF stage = "activation" THEN Gone("temp") ELSE <<>>)
                             \o InspectTarget \o OpenGuarded \o RewriteInPlace \o FinalReadback
    [] job = "create"   -> CreateExclusive \o FinalReadback
    [] job = "delete"   -> DeleteCheck \o DeleteDisplaced
    [] job = "putBack"  -> PutBack
    [] job = "remove"   -> RemoveCheck \o RemoveRecheck \o RemoveDisplaced \o RemoveArtifact
                             \o RemoveFinish
    [] job = "confirm"  -> ConfirmAbsent
    [] job = "recreate" -> Recreate
    [] job = "cleanup"  -> Rebind \o CleanupTarget \o Rebind \o CleanupUnlink
    [] job = "cleanupRemoval" ->
         BindRemoval \o BindRemovalAgain \o <<Call("bind", "temp")>> \o RebindRemoval
           \o CleanupRemovalCheck \o RebindRemoval \o CleanupRemovalUnlink
    [] job = "settle"   -> Started(Gone("temp"))
    [] job = "leave"    -> Leave
    [] job = "tidy"     -> (IF plan = "create" THEN <<>> ELSE Evidence) \o Gone("temp")
    [] job = "readback" -> Readback

\* What follows a job that returned.
Following ==
  CASE job \in {"begin", "bind"} -> "guard"
    [] job = "guard" ->
         IF plan = "change" THEN "write"
         ELSE IF plan = "delete" /\ stage = "activation" THEN "delete"
         ELSE IF plan = "create" /\ stage = "recovery" THEN "remove" ELSE "write"
    [] job \in {"write", "create"} -> IF stage = "activation" THEN "settle" ELSE "leave"
    [] job \in {"settle", "delete", "remove", "confirm", "cleanupRemoval"} -> "leave"
    [] job = "leave" -> IF stage = "recovery" /\ artifact THEN "cleanup"
                        ELSE IF stage = "recovery" THEN "tidy" ELSE "readback"
    [] job = "cleanup"  -> "tidy"
    [] job = "tidy"     -> "readback"
    [] job = "readback" -> "done"

Working == stage \in {"activation", "recovery"}
Here == Code[pc]
At(call) == Working /\ Here.call = call

Enter(next) ==
  /\ job' = next /\ pc' = 1
  /\ fresh' = {} /\ changed' = FALSE
  /\ stage' = IF next # "done" THEN stage
              ELSE IF stage = "activation" THEN "activated" ELSE "recovered"
  /\ UNCHANGED <<artifact, raised>>

\* The call returned as expected, and the primitive looked at or changed names.
Continue(unknown, altered) ==
  IF pc < Len(Code)
  THEN /\ pc' = pc + 1 /\ fresh' = unknown /\ changed' = altered
       /\ UNCHANGED <<stage, job, artifact, raised>>
  ELSE Enter(Following)

GoOn == Continue(fresh, changed)

\* The same primitive goes on elsewhere.
Jump(next) ==
  /\ job' = next /\ pc' = 1
  /\ UNCHANGED <<stage, artifact, raised, fresh, changed>>

\* An error ends the activation; in recovery only an artifact is dealt with.
Raise ==
  /\ raised' = [started |-> Here.started, artifact |-> Here.artifact]
  /\ pc' = 1 /\ fresh' = {} /\ changed' = FALSE
  /\ IF stage = "activation"
     THEN /\ stage' = "recovery" /\ artifact' = Here.artifact
          /\ job' = IF Here.artifact THEN "bind" ELSE "begin"
     ELSE /\ UNCHANGED artifact
          /\ IF Here.artifact THEN job' = "cleanupRemoval" /\ UNCHANGED stage
                              ELSE stage' = "incomplete" /\ UNCHANGED job

\* ------------------------------------------------------------ looking
Status(name) ==
  IF entry[name] = Absent THEN Nothing
  ELSE [inode |-> entry[name], stamp |-> stamp[entry[name]]]

Held(name) == IF entry[name] = Absent THEN "absent" ELSE content[entry[name]]

\* An inode that nobody remembers; a new file never looks like an old one.
Unused == CHOOSE i \in Inodes : i \notin {entry["target"], entry["temp"], fd, seen.inode, bound.inode}

\* What was read is known to be at the name only if the name still leads there.
Known(name) == IF entry[name] = fd THEN fresh \ {name} ELSE fresh

\* A call that fails, or whose answer the code refuses.
CallFails ==
  /\ Working /\ Here.call \notin {"judge", "bind", "putBack"}
  /\ Raise
  /\ UNCHANGED <<plan, diskVars, callVars, hands>>

\* The preflight's volume is what is mounted there.
Mounted == mounted = "mine"

SeeMount ==
  /\ At("mount") \/ At("remount")
  /\ Mounted
  /\ GoOn
  /\ UNCHANGED <<plan, diskVars, callVars, hands>>

SeeGone ==
  /\ At("gone") /\ entry[Here.name] = Absent
  /\ Continue(fresh \ {Here.name}, changed)
  /\ UNCHANGED <<plan, diskVars, callVars, hands>>

Stat ==
  /\ At("stat") /\ entry[Here.name] # Absent
  /\ seen' = Status(Here.name)
  /\ GoOn
  /\ UNCHANGED <<plan, diskVars, fd, opened, data, bound, hands>>

\* A target that is not there is created, or needs no removal.
StatAbsent ==
  /\ At("stat") /\ Here.name = "target" /\ entry["target"] = Absent
  /\ \/ job = "write" /\ AbsenceAllowed /\ Jump("create")
     \/ job = "remove" /\ Jump("confirm")
  /\ UNCHANGED <<plan, diskVars, callVars, hands>>

Restat ==
  /\ At("restat") /\ Status(Here.name) = seen
  /\ GoOn
  /\ UNCHANGED <<plan, diskVars, callVars, hands>>

\* _read_usb_activation_regular_file opens what lstat showed it, ...
Open ==
  /\ At("open") \/ (At("openfd") /\ Status(Here.name) = seen)
  /\ entry[Here.name] # Absent
  /\ fd' = entry[Here.name] /\ opened' = stamp[fd']
  /\ GoOn
  /\ UNCHANGED <<plan, diskVars, seen, data, bound, hands>>

\* ... and returns what it read if the file looks as it did.
Read ==
  /\ \/ At("read") /\ content[fd] = Expected
     \/ At("readfd") /\ content[fd] \in Overwritable
     \/ At("peek")
  /\ stamp[fd] = opened
  /\ data' = content[fd]
  /\ Continue(Known(Here.name), changed)
  /\ UNCHANGED <<plan, diskVars, fd, opened, seen, bound, hands>>

Classify ==
  /\ At("classify") /\ Status("target") = seen
  /\ \/ data = Goal /\ Enter(Following)
     \/ data # Goal /\ data \in Overwritable /\ GoOn
  /\ UNCHANGED <<plan, diskVars, callVars, hands>>

\* Mutant: what was displaced is taken for what was verified.
JudgeTrusting == At("judge") /\ GoOn /\ UNCHANGED <<plan, diskVars, callVars, hands>>

\* What was displaced is what was verified, or a race displaced something else.
Judge ==
  /\ At("judge")
  /\ IF data = Expected THEN GoOn
     ELSE Jump(IF job = "delete" THEN "putBack" ELSE "recreate")
  /\ UNCHANGED <<plan, diskVars, callVars, hands>>

Bound ==
  /\ \/ At("bind") /\ bound' = seen
     \/ At("matches") /\ seen = bound /\ UNCHANGED bound
     \/ At("bound") /\ Status("temp") = bound /\ UNCHANGED bound
  /\ GoOn
  /\ UNCHANGED <<plan, diskVars, fd, opened, seen, data, hands>>

\* ------------------------------------------------------------ changing
Truncate ==
  /\ At("truncate")
  /\ content' = [content EXCEPT ![fd] = "torn"]
  /\ Continue(Known("target"), TRUE)
  /\ UNCHANGED <<plan, entry, stamp, mounted, callVars, hands>>

\* What another hand wrote meanwhile may show through.
Rewrite ==
  /\ At("rewrite")
  /\ \E result \in {IF job = "recreate" THEN data ELSE Goal}
                    \cup (IF content[fd] = "torn" THEN {} ELSE {"torn"}) :
       content' = [content EXCEPT ![fd] = result]
  /\ Continue(Known("target"), TRUE)
  /\ UNCHANGED <<plan, entry, stamp, mounted, callVars, hands>>

RewriteFails ==
  /\ At("rewrite")
  /\ \E result \in {"torn", IF job = "recreate" THEN data ELSE Goal} :
       content' = [content EXCEPT ![fd] = result]
  /\ Raise
  /\ UNCHANGED <<plan, entry, stamp, mounted, callVars, hands>>

\* O_EXCL creates the file or fails.
Create ==
  /\ At("create") /\ entry["target"] = Absent
  /\ entry' = [entry EXCEPT !["target"] = Unused]
  /\ content' = [content EXCEPT ![Unused] = "torn"]
  /\ stamp' = [stamp EXCEPT ![Unused] = 0]
  /\ fd' = Unused /\ opened' = 0
  /\ Continue(fresh \ {"target"}, TRUE)
  /\ UNCHANGED <<plan, mounted, seen, data, bound, hands>>

\* The new file is still the one the name leads to.
Same ==
  /\ At("same") /\ entry["target"] = fd
  /\ seen' = Status("target")
  /\ GoOn
  /\ UNCHANGED <<plan, diskVars, fd, opened, data, bound, hands>>

\* os.replace overwrites whatever the temporary name leads to.
Displace ==
  /\ At("displace") /\ entry["target"] # Absent
  /\ entry' = [target |-> Absent, temp |-> entry["target"]]
  /\ Continue(IF "target" \in fresh THEN {"temp"} ELSE {}, TRUE)
  /\ UNCHANGED <<plan, content, stamp, mounted, callVars, hands>>

\* The raced content returns to a name that was absent a moment ago.
PutBackRaced ==
  /\ At("putBack")
  /\ \/ UNCHANGED entry
     \/ entry["temp"] # Absent /\ entry' = [target |-> entry["temp"], temp |-> Absent]
  /\ Raise
  /\ UNCHANGED <<plan, content, stamp, mounted, callVars, hands>>

Unlink ==
  /\ At("unlink") /\ entry["temp"] # Absent
  /\ entry' = [entry EXCEPT !["temp"] = Absent]
  /\ Continue(fresh \ {"temp"}, TRUE)
  /\ UNCHANGED <<plan, content, stamp, mounted, callVars, hands>>

\* ---------------------------------------------------------- other hands
Meddle(names) ==
  /\ Working /\ hands < MaxHands
  /\ hands' = hands + 1 /\ fresh' = fresh \cup names
  /\ UNCHANGED <<plan, callVars, jobVars, changed>>

HandEdits(name) ==
  /\ entry[name] # Absent
  /\ content' = [content EXCEPT ![entry[name]] = "foreign"]
  /\ \/ UNCHANGED stamp
     \/ stamp' = [stamp EXCEPT ![entry[name]] = @ + 1]
  /\ Meddle({name})
  /\ UNCHANGED <<entry, mounted>>

HandPlaces(name) ==
  /\ entry' = [entry EXCEPT ![name] = Unused]
  /\ content' = [content EXCEPT ![Unused] = "foreign"]
  /\ stamp' = [stamp EXCEPT ![Unused] = 0]
  /\ Meddle({name})
  /\ UNCHANGED mounted

HandRemoves(name) ==
  /\ entry[name] # Absent
  /\ entry' = [entry EXCEPT ![name] = Absent]
  /\ Meddle({name})
  /\ UNCHANGED <<content, stamp, mounted>>

\* Another card, which may be a copy of this one.
HandMounts ==
  /\ mounted = "mine" /\ mounted' = "other"
  /\ \E found \in {"foreign", "old"} :
       /\ entry' = [target |-> Unused, temp |-> Absent]
       /\ content' = [content EXCEPT ![Unused] = found]
       /\ stamp' = [stamp EXCEPT ![Unused] = 0]
  /\ Meddle(Names)

\* ------------------------------------------------------------ specification
Init ==
  /\ plan \in {"change", "create", "delete"}
  /\ entry = [target |-> IF plan = "create" THEN Absent ELSE 1, temp |-> Absent]
  /\ content = [i \in Inodes |-> "old"] /\ stamp = [i \in Inodes |-> 0]
  /\ mounted = "mine"
  /\ stage = "activation" /\ job = "guard" /\ pc = 1
  /\ fd = Absent /\ opened = 0 /\ seen = Nothing /\ data = "none" /\ bound = Nothing
  /\ artifact = FALSE /\ raised = Silent
  /\ changed = FALSE /\ fresh = {} /\ hands = 0

CallReturns ==
  \/ SeeMount \/ SeeGone \/ Stat \/ StatAbsent \/ Restat \/ Open \/ Read \/ Classify \/ Judge
  \/ Bound \/ Truncate \/ Rewrite \/ Create \/ Same \/ Displace \/ Unlink

Hand == HandMounts \/ \E name \in Names : HandEdits(name) \/ HandPlaces(name) \/ HandRemoves(name)

Next == CallReturns \/ CallFails \/ RewriteFails \/ PutBackRaced \/ Hand

Spec == Init /\ [][Next]_vars

\* --------------------------------------------------------------- properties
\* The variables keep to their types.
TypeOK ==
  /\ entry \in [Names -> {Absent} \cup Inodes]
  /\ content \in [Inodes -> {"old", "new", "torn", "foreign"}]
  /\ stamp \in [Inodes -> 0 .. MaxHands]
  /\ stage \in {"activation", "recovery", "activated", "recovered", "incomplete"}
  /\ pc \in Nat /\ {fd, seen.inode, bound.inode} \subseteq {Absent} \cup Inodes
  /\ fresh \subseteq Names /\ hands \in 0 .. MaxHands

\* What another hand put at a name is destroyed only if it came there after the
\* primitive last looked: no file that a primitive could see is overwritten,
\* truncated or unlinked.
SparesOthers ==
  [][\A name \in Names \ (fresh \cup fresh') :
       Held(name) = "foreign" =>
         /\ \E kept \in Names : entry'[kept] = entry[name]
         /\ content'[entry[name]] = "foreign"]_vars

Raising ==
  /\ pc' = 1 /\ Working
  /\ \/ stage' \in {"recovery", "incomplete"} /\ stage' # stage
     \/ job' = "cleanupRemoval" /\ job # job'

\* An error that denies a mutation left the media as the primitive found it, and
\* one that carries an artifact has the verified content at the temporary name.
ErrorsTellTheTruth ==
  [][Raising =>
       /\ ~raised'.started => ~changed /\ UNCHANGED diskVars
       /\ raised'.artifact => "temp" \in fresh \/ Held("temp") = Expected]_vars

\* A document that ends activated or recovered has exactly the intended or the
\* baseline state, on the card that was qualified, unless another hand was
\* there after the last look.
EndsVerified ==
  [][stage' \in {"activated", "recovered"} /\ stage' # stage /\ fresh = {} =>
       Mounted /\ Held("target") = Goal /\ Held("temp") = "absent"]_vars

\* While no other hand acts, the calls change the card only as the primitive
\* steps of UsbWrite do: WriteOpen, WriteFinish, Displace, Unlink and Cleanup.
StepsOfUsbWrite ==
  [][hands' = 0 =>
       LET target == Held("target") temp == Held("temp") IN
         \/ UNCHANGED <<target, temp>>
         \/ UNCHANGED temp /\ target \in {"absent"} \cup Overwritable /\ target' = "torn"
         \/ UNCHANGED temp /\ target = "torn" /\ target' = Goal
         \/ target # Goal /\ temp = "absent" /\ target' = "absent" /\ temp' = target
         \/ UNCHANGED target /\ temp' = "absent"]_vars

===============================================================================

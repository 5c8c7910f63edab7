------------------------------ MODULE HostStaging ------------------------------
(***************************************************************************)
(* What a favorites write prepares on the host before it touches its       *)
(* target: a backup, and a staged tree that holds what is to be written.   *)
(* A write to a card (favorites_write_usb.py) stages a copy of the backup, *)
(* one to an offline copy (favorites_write_execution.py) a copy of the     *)
(* target.  Trees are copied and written one file at a time, and others    *)
(* may change any file of any of the three in between; that is what the    *)
(* looks before and after every step are for.  One look, a digest or a     *)
(* snapshot of a tree, is a step (TreeReading has its calls).              *)
(***************************************************************************)
EXTENDS Naturals, Sequences

CONSTANT MaxStrangers   \* bound: changes by others

VARIABLES
  writer,    \* the write: to a card, "usb", or to a copied "tree"
  trees,     \* the content of each path of each tree
  calls,     \* the calls of the preparation that are left
  raised,    \* whether one raised
  evidence,  \* what the evidence of the staged tree said
  late,      \* history: the paths others changed once the last looks had begun
  strangers  \* history: how often others changed each tree

vars == <<writer, trees, calls, raised, evidence, late, strangers>>

Trees == {"target", "backup", "staging"}
Listing == <<"catalog", "kept", "added", "obsolete", "notes">>
Paths == {Listing[i] : i \in DOMAIN Listing}
Managed == Paths \ {"notes"}
Unmanaged == {"notes"}

Nothing == "nothing"
Missing == [p \in Paths |-> Nothing]
Baseline == [p \in Paths |-> IF p = "added" THEN Nothing ELSE "old"]
Intended == [p \in Managed |-> IF p = "obsolete" THEN Nothing ELSE "new"]
Only(tree, paths) == [p \in paths |-> tree[p]]

\* --------------------------------------------------------------- the programs
Call(what, tree, paths) == [call |-> what, tree |-> tree, paths |-> paths]
Expect(tree, paths) == Call("expect", tree, paths)     \* compare with the baseline
Each(what, tree, paths) ==
  LET list == SelectSeq(Listing, LAMBDA p : p \in paths)
  IN [i \in DOMAIN list |-> Call(what, tree, {list[i]})]

\* _require_current_usb_preflight_target, _require_current_preflight_target
LookAtTarget ==
  IF writer = "usb"
  THEN <<Expect("target", Managed), Expect("target", Unmanaged), Expect("target", Paths)>>
  ELSE <<Expect("target", Paths), Expect("target", Managed)>>

\* _require_verified_usb_host_backup_current, _verify_verified_backup_current
LookAtBackup ==
  IF writer = "usb"
  THEN <<Expect("backup", Unmanaged), Expect("backup", Paths), Expect("backup", Managed)>>
  ELSE <<Expect("backup", Paths), Expect("backup", Managed)>>

\* _create_verified_usb_host_backup, _create_verified_backup
Backup ==
  LookAtTarget \o <<Call("absent", "backup", Paths)>> \o Each("backup", "backup", Paths)
    \o LookAtTarget \o LookAtBackup \o IF writer = "usb" THEN LookAtTarget ELSE <<>>

\* What is copied, and looked at once it is.
LookAtSource == IF writer = "usb" THEN LookAtBackup ELSE LookAtTarget

\* _write_usb_host_staged_regular_file, _write_staged_regular_file
WriteStaged == Each("remove", "staging", {"obsolete"}) \o Each("write", "staging", Managed \ {"obsolete"})

\* The snapshot read back, the unmanaged part in a write to a card, the evidence.
ReadBack ==
  <<Call("intended", "staging", Managed)>>
    \o (IF writer = "usb" THEN <<Expect("staging", Unmanaged)>> ELSE <<>>)
    \o <<Call("record", "staging", Paths)>>

Absent == <<Call("absent", "staging", Paths)>>

\* _create_verified_usb_host_staging, _create_verified_staging
Staging ==
  (IF writer = "usb" THEN LookAtSource \o Absent ELSE Absent \o LookAtSource) \o Each("stage", "staging", Paths)
    \o LookAtSource \o WriteStaged \o ReadBack
    \o IF writer = "usb" THEN LookAtBackup ELSE <<>>

\* Mutant: the staged tree is compared with its own evidence alone.
LookAtStagingRecorded == <<Call("recorded", "staging", Paths)>>

\* _require_verified_usb_host_staging_current, _verify_prepared_stage_current
LookAtStaging ==
  (IF writer = "usb" THEN <<Expect("staging", Unmanaged)>> ELSE <<>>)
    \o <<Call("recorded", "staging", Paths), Call("intended", "staging", Managed)>>

\* _require_usb_preactivation_ready, the head of _replace_active_with_verified_staging
LastLooks == LookAtBackup \o LookAtStaging \o LookAtTarget

Code == Backup \o Staging \o LastLooks
LastLooksBegun == Len(calls) <= Len(LastLooks)

Going == ~raised /\ calls # <<>>
Ready == ~raised /\ calls = <<>>
Here == Head(calls)
At(call) == Going /\ Here.call = call

\* ------------------------------------------------------------------ the calls
GoOn == calls' = Tail(calls) /\ UNCHANGED <<writer, raised, late, strangers>>

\* A comparison; what differs is raised.
Compare ==
  /\ \/ At("expect") /\ Only(trees[Here.tree], Here.paths) = Only(Baseline, Here.paths)
     \/ At("intended") /\ Only(trees[Here.tree], Here.paths) = Intended
  /\ GoOn /\ UNCHANGED <<trees, evidence>>

\* favorites_tree_evidence of the staged tree is kept, ...
Record ==
  /\ At("record") /\ evidence' = trees["staging"]
  /\ GoOn /\ UNCHANGED trees

\* ... and must be the same again.
Recompare ==
  /\ At("recorded") /\ evidence = trees["staging"]
  /\ GoOn /\ UNCHANGED <<trees, evidence>>

\* os.path.lexists: the destination of a copy must not exist.
FindAbsent ==
  /\ At("absent") /\ trees[Here.tree] = Missing
  /\ GoOn /\ UNCHANGED <<trees, evidence>>

Put(tree, paths, from) ==
  trees' = [trees EXCEPT ![tree] = [p \in Paths |-> IF p \in paths THEN from[p] ELSE @[p]]]

\* One file of a shutil.copytree; one that is not there is not listed.
Source == IF Here.call = "backup" \/ writer = "tree" THEN "target" ELSE "backup"
CopyFile ==
  /\ At("backup") \/ At("stage")
  /\ Put(Here.tree, Here.paths, trees[Source])
  /\ GoOn /\ UNCHANGED evidence

WriteFile ==
  /\ At("remove") \/ At("write")
  /\ Put("staging", Here.paths, Intended)
  /\ GoOn /\ UNCHANGED evidence

\* A comparison fails, or any call does.
Raise == Going /\ raised' = TRUE /\ calls' = <<>> /\ UNCHANGED <<writer, trees, evidence, late, strangers>>

\* Somebody else changes a file of a tree.
Total == strangers["target"] + strangers["backup"] + strangers["staging"]
Stranger ==
  /\ Going /\ Total < MaxStrangers
  /\ \E t \in Trees, p \in Paths, c \in {Nothing, "old", "strange"} :
       /\ trees[t] # Missing /\ trees[t][p] # c
       /\ trees' = [trees EXCEPT ![t][p] = c]
       /\ late' = IF LastLooksBegun THEN [late EXCEPT ![t] = @ \cup {p}] ELSE late
       /\ strangers' = [strangers EXCEPT ![t] = @ + 1]
  /\ UNCHANGED <<writer, calls, raised, evidence>>

\* ------------------------------------------------------------ specification
Init ==
  /\ writer \in {"usb", "tree"}
  /\ trees = [t \in Trees |-> IF t = "target" THEN Baseline ELSE Missing]
  /\ calls = Code /\ raised = FALSE /\ evidence = Missing
  /\ late = [t \in Trees |-> {}] /\ strangers = [t \in Trees |-> 0]

Next ==
  \/ Compare \/ Record \/ Recompare \/ FindAbsent \/ CopyFile \/ WriteFile \/ Raise \/ Stranger

Spec == Init /\ [][Next]_vars

\* --------------------------------------------------------------- properties
\* Types.
TypeOK ==
  /\ writer \in {"usb", "tree"} /\ raised \in BOOLEAN
  /\ \A i \in DOMAIN calls : calls[i].tree \in Trees /\ calls[i].paths \subseteq Paths
  /\ trees \in [Trees -> [Paths -> {Nothing, "old", "new", "strange"}]]
  /\ evidence \in [Paths -> {Nothing, "old", "new", "strange"}]
  /\ late \in [Trees -> SUBSET Paths] /\ strangers \in [Trees -> 0 .. MaxStrangers]

\* The activation starts from a target that is still what the preflight saw, a
\* backup that is a copy of it, and a staged tree with what is to be written, the
\* one whose evidence was taken, save for what others changed after the last looks
\* had begun.  The unmanaged files of a tree staged for a copied target are compared
\* with nothing but themselves: they are those of the target unless others changed
\* the staged tree, or changed the target while it was copied and back again.
PreparedTrue ==
  Ready =>
    /\ \A t \in {"target", "backup"} : \A p \in Paths \ late[t] : trees[t][p] = Baseline[p]
    /\ \A p \in Managed \ late["staging"] : trees["staging"][p] = Intended[p]
    /\ \A p \in Paths \ late["staging"] : trees["staging"][p] = evidence[p]
    /\ \/ \A p \in Unmanaged \ late["staging"] : trees["staging"][p] = Baseline[p]
       \/ writer = "tree" /\ (strangers["staging"] > 0 \/ strangers["target"] > 1)

================================================================================

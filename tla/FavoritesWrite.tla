---------------------------- MODULE FavoritesWrite ----------------------------
(***************************************************************************)
(* A plan is written to the USB card (UsbWrite) or to an offline copy of   *)
(* it (CopiedTreeWrite), whichever of execute_favorites_usb_write and      *)
(* execute_favorites_copied_tree_write the caller takes.  Both keep the    *)
(* promise of FavoritesWriteContract.                                      *)
(***************************************************************************)
EXTENDS UsbWrite

VARIABLES
  backend,    \* "usb" or "tree"
  active, staging, displaced, copy, announced, records, guard, step, place, verdict, told

Tree == INSTANCE CopiedTreeWrite

treeVars == <<active, staging, displaced, copy, announced, records, guard, step, place, verdict, told>>

WriteInit ==
  /\ backend \in {"usb", "tree"}
  /\ Init /\ Tree!Init
  /\ backend = "tree" => <<baseline, intended>> = CHOOSE p \in Plans : TRUE

UsbNext == backend = "usb" /\ Next /\ UNCHANGED <<backend, treeVars>>
TreeNext == backend = "tree" /\ Tree!Next /\ UNCHANGED <<backend, vars>>

WriteSpec == WriteInit /\ [][UsbNext \/ TreeNext]_<<backend, vars, treeVars>>

\* --------------------------------------------------------------- properties
\* The variables of both executors keep to their types.
BothTyped == TypeOK /\ Tree!TypeOK

\* The tree the write found is never lost, and callers are told the truth of it.
TreeTrue == Tree!TreeTrue

Contract == INSTANCE FavoritesWriteContract WITH
  active <- IF backend = "usb"
            THEN IF Untouched THEN "baseline"
                 ELSE IF media = intended /\ temp = None THEN "intended" ELSE "between"
            ELSE IF active.content = "old" THEN "baseline"
                 ELSE IF active.content = "new" THEN "intended" ELSE "between",
  backup <- IF backend = "usb" THEN backup = "verified" ELSE copy = "verified",
  announced <- IF backend = "usb" THEN durable.phase \notin {"none", "prepared"} ELSE announced,
  completed <- IF backend = "usb" THEN durable.phase = "completed" ELSE told = "completed"

\* Both executors implement the contract: whatever fails or dies, the active data
\* never changes before a verified backup exists and a durable record announces
\* it, the backup is kept, and a write that completed changes nothing any more.
ContractKept == Contract!ContractSpec

=============================================================================

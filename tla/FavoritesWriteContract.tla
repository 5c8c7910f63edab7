------------------------ MODULE FavoritesWriteContract ------------------------
(***************************************************************************)
(* What a write of a Favorites plan promises whatever it is written to     *)
(* (docs/project-vision.md, "Mandatory backup-before-write rule"): the     *)
(* active data changes only once a complete verified backup of it exists   *)
(* and a durable record announces the change, the backup is never given    *)
(* up, and a write that is complete has put the intended data in place and *)
(* changes nothing any more.  UsbWrite and CopiedTreeWrite implement it.   *)
(***************************************************************************)

VARIABLES
  active,     \* the data in use: "baseline", "intended", or "between" the two
  backup,     \* a verified backup of the baseline exists
  announced,  \* a durable record says that the active data may be changing
  completed   \* the write is complete

vars == <<active, backup, announced, completed>>

Init == active = "baseline" /\ ~backup /\ ~announced /\ ~completed

BackUp == ~backup /\ backup' /\ UNCHANGED <<active, announced, completed>>

Announce == backup /\ ~announced /\ announced' /\ UNCHANGED <<active, backup, completed>>

Change ==
  /\ announced /\ ~completed
  /\ active' \in {"baseline", "between", "intended"} \ {active}
  /\ UNCHANGED <<backup, announced, completed>>

Complete ==
  /\ active = "intended" /\ ~completed
  /\ completed'
  /\ UNCHANGED <<active, backup, announced>>

Next == BackUp \/ Announce \/ Change \/ Complete

ContractSpec == Init /\ [][Next]_vars

=============================================================================

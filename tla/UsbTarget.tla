------------------------------- MODULE UsbTarget -------------------------------
(***************************************************************************)
(* Which card is written: the qualification and discovery of scanner       *)
(* storage (favorites_storage_usb.py), the preflight of a write, and the   *)
(* checks of its target before activation and before recovery              *)
(* (favorites_write_usb.py).  All of them are looks - at the mount table,  *)
(* at sysfs, at directories, at their content - while people plug and pull *)
(* cards and the system mounts and unmounts them.  The write was asked for *)
(* at "/media/a", a mount point.                                           *)
(***************************************************************************)
EXTENDS Integers, Sequences, FiniteSets

CONSTANT MaxChanges   \* bound: what people and the system change

VARIABLES
  table,    \* the mount table
  devices,  \* the devices in sysfs
  cards,    \* what is on each card
  changes,
  job,      \* "discover" or "write"
  looks,    \* the looks that are still to come
  got,      \* what this round of looks has found
  rounds,   \* what the rounds before it found
  listed,   \* discovery: mounts still to look at
  found,    \* discovery: the candidates
  verdict,
  held      \* history: what was found was all so at one instant

worldVars == <<table, devices, cards, changes>>
lookVars == <<job, looks, got, rounds, listed, found, verdict, held>>
vars == <<worldVars, lookVars>>

Points == {"/media/a", "/media/b"}
Asked == "/media/a"
Numbers == {"8:1", "8:17"}
Cards == {"one", "two"}
Slots == {"usb 1", "usb 2", "pci"}
Absent == [slot |-> "none", card |-> "none"]
IsUsb(device) == device.slot \in {"usb 1", "usb 2"}

Versions == 0 .. 1
Card == [layout : {"directory", "replaced", "link", "missing"}, managed : Versions \cup {2}, unmanaged : Versions]

\* ------------------------------------------------------------------ the world
\* A mount knows its card to the end; what LinuxMountInfoEntry shows of it does not.
Shown(entry) == [id |-> entry.id, dev |-> entry.dev, point |-> entry.point, rw |-> entry.rw]
FreshId == CHOOSE i \in 1 .. Len(table) + 1 : \A k \in DOMAIN table : table[k].id # i
At(point) == SelectSeq(table, LAMBDA entry : entry.point = point)
Covered(point) == At(point) # <<>>
Top(point) == At(point)[Len(At(point))]

Change == changes < MaxChanges /\ changes' = changes + 1 /\ UNCHANGED lookVars

Pull(n) == Change /\ devices[n] # Absent /\ devices' = [devices EXCEPT ![n] = Absent] /\ UNCHANGED <<table, cards>>

\* The card in a slot is exchanged for the other one, which is mounted like the first.
Exchange(n, slot) ==
  /\ Change /\ devices[n] # Absent
  /\ LET other == CHOOSE c \in Cards : c # devices[n].card IN
     /\ \A m \in Numbers : devices[m].card # other
     /\ devices' = [devices EXCEPT ![n] = [slot |-> slot, card |-> other]]
     /\ table' = [k \in DOMAIN table |-> IF table[k].dev = n
                                         THEN [table[k] EXCEPT !.card = other, !.rw = TRUE] ELSE table[k]]
  /\ UNCHANGED cards

Unmount(point) ==
  /\ Change /\ Covered(point)
  /\ table' = SelectSeq(table, LAMBDA entry : entry.id # Top(point).id)
  /\ UNCHANGED <<devices, cards>>

Mount(n, point) ==
  /\ Change /\ devices[n] # Absent
  /\ table' = Append(table, [id |-> FreshId, dev |-> n, point |-> point, rw |-> TRUE, card |-> devices[n].card])
  /\ UNCHANGED <<devices, cards>>

Remount(k) ==
  /\ Change /\ table' = [table EXCEPT ![k].rw = ~@] /\ UNCHANGED <<devices, cards>>

Edit(c, what, version) ==
  /\ Change /\ cards[c][what] # version /\ cards' = [cards EXCEPT ![c][what] = version]
  /\ UNCHANGED <<table, devices>>

Others ==
  \/ \E n \in Numbers : Pull(n) \/ (\E slot \in Slots : Exchange(n, slot))
  \/ \E point \in Points : Unmount(point) \/ (\E n \in Numbers : Mount(n, point))
  \/ \E k \in DOMAIN table : Remount(k)
  \/ \E c \in Cards : (\E v \in Versions : Edit(c, "managed", v) \/ Edit(c, "unmanaged", v))
                      \/ (\E l \in {"replaced", "link", "missing"} : Edit(c, "layout", l))

\* ------------------------------------------------------------------ single looks
Root(point) == IF Covered(point) THEN [dev |-> Top(point).dev, inode |-> "root"]
               ELSE [dev |-> "host", inode |-> "directory"]

OnCard(point) == cards[Top(point).card]
Favorites(point) == Covered(point) /\ OnCard(point).layout \in {"directory", "replaced"}

\* A card that was pulled may still answer, from what the kernel remembers.
Answers(point) == Covered(point) => devices[Top(point).dev].card = Top(point).card

Point == got.entry.point
Round == Len(rounds) + 1
Pass(finding) == looks' = Tail(looks) /\ got' = finding
Refuse == verdict' = "refused" /\ UNCHANGED <<job, looks, got, rounds, listed, found, held>>
Check(condition, finding) ==
  IF condition THEN Pass(finding) /\ UNCHANGED <<job, rounds, listed, found, verdict, held>> ELSE Refuse

Looking(what) == verdict = "looking" /\ looks # <<>> /\ Head(looks) = what

\* Every look may fail where a card was pulled.
Fails ==
  /\ verdict = "looking" /\ looks # <<>> /\ Head(looks) \in {"root", "favorites", "read", "digest"}
  /\ ~Answers(Point) /\ Refuse

\* One mount has the path that was asked for.
Match ==
  /\ Looking("match")
  /\ Check(Len(At(Asked)) = 1, [got EXCEPT !.entry = Shown(Top(Asked))])

SameMatch ==
  /\ Looking("same match")
  /\ Check(Len(At(Asked)) = 1 /\ Shown(Top(Asked)) = got.entry, got)

Device ==
  /\ Looking("device")
  /\ LET device == devices[got.entry.dev] IN
     Check(IsUsb(device) /\ (job = "write" => got.entry.rw), [got EXCEPT !.slot = device.slot])

SameDevice ==
  /\ Looking("same device")
  /\ Check(devices[got.entry.dev].slot = got.slot, got)

RootLook == Looking("root") /\ Check(Root(Point).dev = got.entry.dev, [got EXCEPT !.root = Root(Point)])

FavoritesLook ==
  /\ Looking("favorites")
  /\ Check(Favorites(Point),
           [got EXCEPT !.favorites = [dev |-> Root(Point).dev, layout |-> OnCard(Point).layout]])

SameRoot == Looking("same root") /\ Check(Root(Point) = got.root, got)

SameFavorites ==
  /\ Looking("same favorites")
  /\ Check(Favorites(Point) /\ got.favorites = [dev |-> Root(Point).dev, layout |-> OnCard(Point).layout], got)

\* Mutant: the mount is still there.
CurrentById(entry) == \E k \in DOMAIN table : table[k].id = entry.id

\* The entry with that mount ID is as it was.
Current(entry) == \E k \in DOMAIN table : Shown(table[k]) = entry

SameMount == Looking("same mount") /\ Check(Current(got.entry), got)

\* A mount and its device are as they were found, and lead to what is at the path.
Stands(finding) ==
  /\ \E k \in DOMAIN table : Shown(table[k]) = finding.entry
  /\ devices[finding.entry.dev].slot = finding.slot

Holds(finding) ==
  /\ Stands(finding)
  /\ Covered(finding.entry.point) /\ Top(finding.entry.point).dev = finding.entry.dev

Read ==
  /\ Looking("read")
  /\ IF Favorites(Point)
     THEN /\ Pass([got EXCEPT !.managed = OnCard(Point).managed])
          /\ held' = [now |-> Holds(got), unmanaged |-> OnCard(Point).unmanaged]
          /\ UNCHANGED <<job, rounds, listed, found, verdict>>
     ELSE Refuse

\* favorites_unmanaged_tree_sha256, and favorites_tree_evidence
Digest ==
  /\ Looking("digest")
  /\ IF Favorites(Point)
     THEN /\ Pass([got EXCEPT !.unmanaged = OnCard(Point).unmanaged])
          /\ held' = IF Round = 4 THEN [now |-> Holds(got), unmanaged |-> OnCard(Point).unmanaged] ELSE held
          /\ UNCHANGED <<job, rounds, listed, found, verdict>>
     ELSE Refuse

Evidence ==
  /\ Looking("evidence")
  /\ Check(Favorites(Point),
           [got EXCEPT !.tree = [dev |-> Root(Point).dev, managed |-> OnCard(Point).managed,
                                 unmanaged |-> OnCard(Point).unmanaged]])

\* ------------------------------------------------------- what the program looks at
Observing == <<"root", "favorites", "read", "same root", "same favorites", "same mount", "same device">>
Qualifying == <<"match", "device">> \o Observing
Digesting == <<"digest", "evidence">>
RecoveryLooks == <<"match", "device", "root", "favorites", "digest", "same match", "same device",
                   "same root", "same favorites">>

Nothing == [entry |-> [point |-> Asked], slot |-> "", root |-> Absent, favorites |-> Absent, managed |-> 0,
            unmanaged |-> 0, tree |-> Absent]
Target(finding) == <<finding.entry, finding.slot, finding.root.dev>>

Baseline == 0    \* the managed content that the plan starts from
Intended == 2

\* Mutant: before activation the target is only looked up.
AcceptedTarget ==
  CASE Round = 1 -> got.managed = Baseline
    [] Round \in {2, 3} -> got.managed = Baseline /\ Target(got) = Target(rounds[1])
    [] Round = 4 -> Target(got) = Target(rounds[2]) /\ got.unmanaged = rounds[2].unmanaged

\* preflight_favorites_usb_write, twice over; _require_current_usb_preflight_target;
\* _require_usb_recovery_target_ready
Accepted ==
  CASE Round = 1 -> got.managed = Baseline
    [] Round = 2 -> /\ got.managed = Baseline /\ Target(got) = Target(rounds[1])
                    /\ got.tree = rounds[1].tree /\ got.unmanaged = rounds[1].unmanaged
    [] Round = 3 -> /\ got.managed = Baseline /\ Target(got) = Target(rounds[2])
                    /\ got.tree = rounds[2].tree /\ got.unmanaged = rounds[2].unmanaged
    [] Round = 4 -> Target(got) = Target(rounds[2]) /\ got.unmanaged = rounds[2].unmanaged

\* After the preflight a write waits for its confirmation, and before recovery it has
\* changed the managed files at the path.
EndRound ==
  /\ verdict = "looking" /\ job = "write" /\ looks = <<>>
  /\ IF ~Accepted THEN Refuse
     ELSE /\ rounds' = Append(rounds, got)
          /\ verdict' = IF Round = 1 THEN "looking" ELSE "ready"
          /\ looks' = IF Round = 1 THEN Qualifying \o Digesting ELSE looks
          /\ UNCHANGED <<job, got, listed, found, held>>
  /\ UNCHANGED worldVars

GoOn ==
  /\ verdict = "ready" /\ job = "write" /\ Len(rounds) < 4 /\ verdict' = "looking"
  /\ got' = Nothing /\ held' = [now |-> FALSE, unmanaged |-> 0]
  /\ looks' = IF Round = 3 THEN Qualifying \o Digesting ELSE RecoveryLooks
  /\ IF Round = 4 /\ Favorites(Asked)
     THEN cards' = [cards EXCEPT ![Top(Asked).card].managed = Intended] ELSE UNCHANGED cards
  /\ UNCHANGED <<table, devices, changes, job, rounds, listed, found>>

\* discover_favorites_usb_storage_candidates: other mounts are passed over.
Consider ==
  /\ verdict = "looking" /\ job = "discover" /\ looks = <<>> /\ listed # <<>> /\ got = Nothing
  /\ listed' = Tail(listed)
  /\ LET entry == Head(listed) device == devices[entry.dev] IN
     IF IsUsb(device) /\ (Covered(entry.point) => OnCard(entry.point).layout # "missing") /\ Covered(entry.point)
     THEN got' = [Nothing EXCEPT !.entry = entry, !.slot = device.slot] /\ looks' = Observing
     ELSE UNCHANGED <<got, looks>>
  /\ UNCHANGED <<worldVars, job, rounds, found, verdict, held>>

Candidate ==
  /\ verdict = "looking" /\ job = "discover" /\ looks = <<>> /\ got # Nothing
  /\ found' = Append(found, got) /\ got' = Nothing
  /\ UNCHANGED <<worldVars, job, looks, rounds, listed, verdict, held>>

Distinct == \A i, k \in DOMAIN found : i # k => found[i].entry.point # found[k].entry.point

\* No two lead to one directory, and none has changed meanwhile.
Conclude ==
  /\ verdict = "looking" /\ job = "discover" /\ looks = <<>> /\ listed = <<>> /\ got = Nothing
  /\ verdict' = IF Distinct THEN "again" ELSE "refused"
  /\ rounds' = found
  /\ held' = [held EXCEPT !.now = \A i \in DOMAIN found : Stands(found[i])]
  /\ UNCHANGED <<worldVars, job, looks, got, listed, found>>

LookAgain ==
  /\ verdict = "again"
  /\ IF rounds = <<>> THEN verdict' = "ready" /\ UNCHANGED rounds
     ELSE LET candidate == Head(rounds) IN
          IF Current(candidate.entry) /\ devices[candidate.entry.dev].slot = candidate.slot
          THEN rounds' = Tail(rounds) /\ UNCHANGED verdict
          ELSE verdict' = "refused" /\ UNCHANGED rounds
  /\ UNCHANGED <<worldVars, job, looks, got, listed, found, held>>

\* ------------------------------------------------------------ specification
\* A card is in a slot, and a disk or the other card beside it.
Init ==
  /\ devices \in [Numbers -> {Absent} \cup [slot : Slots, card : Cards]]
  /\ devices["8:1"] = [slot |-> "usb 1", card |-> "one"]
  /\ devices["8:17"] \in {Absent, [slot |-> "usb 2", card |-> "two"], [slot |-> "pci", card |-> "two"]}
  /\ LET first == [id |-> 1, dev |-> "8:1", point |-> Asked, rw |-> TRUE, card |-> "one"]
         second == [id |-> 2, dev |-> "8:17", point |-> "/media/b", rw |-> TRUE, card |-> "two"]
     IN  table = IF devices["8:17"] = Absent THEN <<first>> ELSE <<first, second>>
  /\ cards = [c \in Cards |-> [layout |-> "directory", managed |-> 0, unmanaged |-> 0]]
  /\ changes = 0
  /\ job \in {"discover", "write"}
  /\ looks = IF job = "write" THEN Qualifying \o Digesting ELSE <<>>
  /\ got = Nothing /\ rounds = <<>> /\ found = <<>>
  /\ listed = IF job = "write" THEN <<>> ELSE [k \in DOMAIN table |-> Shown(table[k])]
  /\ verdict = "looking" /\ held = [now |-> FALSE, unmanaged |-> 0]

Look ==
  \/ Match \/ SameMatch \/ Device \/ SameDevice \/ RootLook \/ FavoritesLook \/ SameRoot \/ SameFavorites
  \/ SameMount \/ Read \/ Digest \/ Evidence \/ Fails

Next ==
  \/ Look /\ UNCHANGED worldVars
  \/ EndRound \/ GoOn \/ Consider \/ Candidate \/ Conclude \/ LookAgain \/ Others

Spec == Init /\ [][Next]_vars

\* ----------------------------------------------------------------- properties
\* The variables keep to their types.
TypeOK ==
  /\ devices \in [Numbers -> {Absent} \cup [slot : Slots, card : Cards]] /\ cards \in [Cards -> Card]
  /\ verdict \in {"looking", "again", "ready", "refused"} /\ Len(rounds) <= 4

\* A target that is accepted was as the looks found it at one instant - the mount,
\* its device, a directory on it at the path, and the content of both kinds - even if
\* something was changed once between the first look of the write and the last; and
\* so were the candidates of a discovery, no two of which lead to one directory.
AcceptedTogether ==
  verdict = "ready" /\ changes <= 1 =>
    /\ (job = "write" \/ found # <<>>) => held.now
    /\ job = "write" => held.unmanaged = rounds[Len(rounds)].unmanaged
    /\ Distinct

===============================================================================

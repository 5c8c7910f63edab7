------------------------------ MODULE TreeReading ------------------------------
(***************************************************************************)
(* The preflight of a favorites write reads a directory tree twice over    *)
(* while other programs edit it: each time a snapshot of the managed files *)
(* (favorites_storage_local.py), a digest of the unmanaged ones and the    *)
(* evidence of the whole tree (favorites_storage_evidence.py).  A file is  *)
(* an inode with a version of its content; a digest is the content that    *)
(* went into it.  The times of files and directories may be too coarse to  *)
(* tell two edits apart.                                                   *)
(***************************************************************************)
EXTENDS Integers, Sequences

CONSTANT MaxEdits   \* bound: edits by others

VARIABLES
  tree,     \* the inode at each path, or Nowhere
  inode,    \* of each inode its content and its time
  touched,  \* the time of each directory
  past,     \* history: every content the tree had
  edits,
  walk,     \* which of the Walks is under way
  todo,     \* what the walk will do next
  open,     \* the file being read: its inode and time
  noted,    \* the times of the directories when they were entered
  seen,     \* what this walk has read
  results,  \* what the walks before it returned
  outcome

diskVars == <<tree, inode, touched, past, edits>>
readVars == <<walk, todo, open, noted, seen, results, outcome>>
vars == <<diskVars, readVars>>

Root == <<"f_list.cfg", "f_000001.hpd", "f_000002.hpd", "notes.txt", "sub">>   \* in the order of a listing
Inner == <<"sub/log">>
Paths == {Root[i] : i \in DOMAIN Root} \cup {Inner[i] : i \in DOMAIN Inner}
Managed == {"f_list.cfg", "f_000001.hpd", "f_000002.hpd"}
Directories == {"root", "sub"}
Parent(p) == IF p = "sub/log" THEN "sub" ELSE "root"

Nothing == "nothing"
Nowhere == 0           \* the inode of a path that leads to nothing
Inodes == 1 .. 5 + MaxEdits
Versions == {"old", "new"}
Link == "link"

\* What is at a path, as far as a digest tells: a version, a directory or a link.
At(p) == IF tree[p] = Nowhere THEN Nothing ELSE inode[tree[p]].content
Present(list) == SelectSeq(list, LAMBDA p : tree[p] # Nowhere)
Content == [p \in {q \in Paths : tree[q] # Nowhere} |-> At(p)]

\* --------------------------------------------------------------------- editors
Edit == edits < MaxEdits /\ edits' = edits + 1 /\ UNCHANGED readVars
Coarse(time) == {time, time + 1}

Remembered == past' = past \cup {Content'}

\* The content of a file is written over.
Overwrite(p, version) ==
  /\ Edit /\ tree[p] # Nowhere /\ At(p) \in Versions \ {version}
  /\ \E time \in Coarse(inode[tree[p]].time) :
       inode' = [inode EXCEPT ![tree[p]] = [content |-> version, time |-> time]]
  /\ UNCHANGED <<tree, touched>> /\ Remembered

\* Another file, or a link, takes the path, or the file is removed.
Replace(p, content) ==
  /\ Edit /\ p # "sub" /\ content # At(p)
  /\ \E time \in Coarse(touched[Parent(p)]) : touched' = [touched EXCEPT ![Parent(p)] = time]
  /\ IF content = Nothing
     THEN tree' = [tree EXCEPT ![p] = Nowhere] /\ UNCHANGED inode
     ELSE /\ tree' = [tree EXCEPT ![p] = 5 + edits']
          /\ inode' = [inode EXCEPT ![5 + edits'] = [content |-> content, time |-> 0]]
  /\ Remembered

Editor ==
  \/ \E p \in Paths, version \in Versions : Overwrite(p, version)
  \/ \E p \in Paths, content \in {Nothing, Link} \cup Versions : Replace(p, content)

\* ---------------------------------------------------------------------- walks
\* A walk is a list of the calls it makes: of a listing it knows only what was there.
Snapshot == "snapshot"
Unmanaged == "unmanaged"
Evidence == "evidence"
Walks == <<Snapshot, Unmanaged, Evidence, Snapshot, Unmanaged, Evidence>>

Call(do, what) == [do |-> do, what |-> what]

\* read_snapshot: the catalog first, then a listing; the documents in its order
\* favorites_tree_evidence, favorites_unmanaged_tree_sha256: a directory is listed,
\* its entries are looked at, and it is looked at again
Opening(kind) ==
  IF kind = Snapshot THEN <<Call("read", "f_list.cfg"), Call("list", "root")>>
  ELSE <<Call("list", "root"), Call("leave", "root")>>

Visit(kind, p) ==
  CASE p = "sub" -> <<Call("list", "sub"), Call("leave", "sub")>>
    [] kind = Unmanaged /\ p \in Managed -> <<Call("look", p)>>
    [] OTHER -> <<Call("read", p)>>

Listed(kind, dir) ==
  LET there == Present(IF dir = "root" THEN Root ELSE Inner)
      wanted == IF kind = Snapshot
                THEN SelectSeq(there, LAMBDA p : p \in Managed \ {"f_list.cfg"}) ELSE there
      visits[i \in 0 .. Len(wanted)] ==
        IF i = 0 THEN <<>> ELSE visits[i - 1] \o Visit(kind, wanted[i])
  IN  visits[Len(wanted)]

Kind == Walks[walk]
Reading == outcome = "reading"
Doing(do) == Reading /\ todo # <<>> /\ open = <<>> /\ Head(todo).do = do
This == Head(todo).what

Refuse == outcome' = "refused" /\ UNCHANGED <<walk, todo, open, noted, seen, results>>

ListDirectory ==
  /\ Doing("list")
  /\ noted' = [noted EXCEPT ![This] = touched[This]]
  /\ todo' = Listed(Kind, This) \o Tail(todo)
  /\ UNCHANGED <<diskVars, walk, open, seen, results, outcome>>

LeaveDirectory ==
  /\ Doing("leave")
  /\ IF noted[This] = touched[This]
     THEN todo' = Tail(todo) /\ UNCHANGED <<walk, open, noted, seen, results, outcome>>
     ELSE Refuse
  /\ UNCHANGED diskVars

\* Of a managed file the unmanaged digest wants to know only that it is one.
LookAt ==
  /\ Doing("look")
  /\ IF At(This) \in {Nothing, Link} THEN Refuse
     ELSE todo' = Tail(todo) /\ UNCHANGED <<walk, open, noted, seen, results, outcome>>
  /\ UNCHANGED diskVars

\* _read_regular_file, _tree_regular_file_digest: no link is followed, and the file
\* that was looked at is the one that is opened
ReadFile ==
  /\ Doing("read")
  /\ IF At(This) \in {Nothing, Link} THEN Refuse
     ELSE /\ open' = <<tree[This], inode[tree[This]].time>>
          /\ seen' = [p \in DOMAIN seen \cup {This} |-> IF p = This THEN At(p) ELSE seen[p]]
          /\ UNCHANGED <<walk, todo, noted, results, outcome>>
  /\ UNCHANGED diskVars

\* The open file is looked at again, whatever the path leads to by now.
CheckFile ==
  /\ Reading /\ open # <<>>
  /\ IF inode[open[1]].time = open[2]
     THEN open' = <<>> /\ todo' = Tail(todo) /\ UNCHANGED <<walk, noted, seen, results, outcome>>
     ELSE Refuse
  /\ UNCHANGED diskVars

\* ------------------------------------------------------------------ preflight
Baseline == [p \in {"f_list.cfg", "f_000001.hpd"} |-> "old"]

\* Mutant: what was read is not read again.
AcceptedOnce(result) == Kind = Snapshot => result = Baseline

\* A snapshot is held against the plan's baseline, and the second evidence and digest
\* against the first when both were read.
Accepted(result) ==
  /\ Kind = Snapshot => result = Baseline
  /\ walk = Len(Walks) => result = results[3] /\ results[5] = results[2]

EndWalk ==
  /\ Reading /\ todo = <<>> /\ open = <<>>
  /\ IF Accepted(seen)
     THEN /\ results' = Append(results, seen) /\ seen' = <<>>
          /\ IF walk = Len(Walks)
             THEN outcome' = "ready" /\ UNCHANGED <<walk, todo>>
             ELSE walk' = walk + 1 /\ todo' = Opening(Walks[walk']) /\ UNCHANGED outcome
          /\ UNCHANGED <<open, noted>>
     ELSE Refuse
  /\ UNCHANGED diskVars

\* ------------------------------------------------------------ specification
Init ==
  /\ tree = [p \in Paths |-> CASE p = "f_list.cfg" -> 1 [] p = "f_000001.hpd" -> 2 [] p = "notes.txt" -> 3
                               [] p = "sub" -> 4 [] p = "sub/log" -> 5 [] OTHER -> Nowhere]
  /\ inode = [i \in Inodes |-> [content |-> IF i = 4 THEN "directory" ELSE "old", time |-> 0]]
  /\ touched = [d \in Directories |-> 0]
  /\ past = {Content} /\ edits = 0
  /\ walk = 1 /\ todo = Opening(Snapshot) /\ open = <<>> /\ noted = touched
  /\ seen = <<>> /\ results = <<>> /\ outcome = "reading"

Reader == ListDirectory \/ LeaveDirectory \/ LookAt \/ ReadFile \/ CheckFile \/ EndWalk
Next == Reader \/ Editor
Spec == Init /\ [][Next]_vars

\* ----------------------------------------------------------------- properties
\* The variables keep to their types.
TypeOK ==
  /\ tree \in [Paths -> Inodes \cup {Nowhere}] /\ walk \in 1 .. Len(Walks)
  /\ outcome \in {"reading", "refused", "ready"} /\ Len(results) <= Len(Walks)

\* What a preflight accepts is one tree: the evidence, the snapshot and the digest
\* of the unmanaged files are all those of the tree at one instant, however two
\* edits fell between the looks.
OneTree ==
  outcome = "ready" =>
    \E content \in past :
      /\ results[6] = [p \in DOMAIN content \ {"sub"} |-> content[p]]
      /\ results[4] = [p \in DOMAIN content \cap Managed |-> content[p]]
      /\ results[5] = [p \in DOMAIN content \ (Managed \cup {"sub"}) |-> content[p]]

===============================================================================

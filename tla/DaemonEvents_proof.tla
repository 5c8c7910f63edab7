--------------------------- MODULE DaemonEvents_proof ---------------------------
(***************************************************************************)
(* Proofs about DaemonEvents, for every value of its constants: type       *)
(* correctness, the exact count of the losses, that a picture that is not  *)
(* current is explained by a loss, and that the publisher implements the   *)
(* lossy feed.                                                             *)
(*                                                                         *)
(* Two facts about a queue carry the argument.  Its events are numbered    *)
(* upwards from what its consumer has seen, the snapshot only at its head. *)
(* And as long as nothing was dropped, the last thing queued about a       *)
(* source (or, with nothing queued, the consumer's picture) lies between   *)
(* the version last announced and the version the source has.              *)
(***************************************************************************)
EXTENDS DaemonEvents, FiniteSetTheorems, TLAPS

Payloads == UNION {[known -> Nat] : known \in SUBSET Sources}
Events == [kind : Kinds, sequence : Nat, payload : Payloads]

Pending(s) == IF holder = "publish" /\ s \in targets THEN 1 ELSE 0
Cursor(s) == IF seen[s] = -1 THEN start[s] ELSE seen[s]

\* What TypeOK leaves out: the contents of the queues and of the pictures.
DataInv ==
  /\ queue \in [Subs -> Seq(Events)]
  /\ draft \in Events
  /\ view \in [Subs -> [Sources -> Nat]]
  /\ \A s \in Subs : seen[s] >= -1
  /\ \A x \in Sources : emitted[x] <= state[x]

\* What the publisher lock protects.
LockInv ==
  /\ holder = "free" => targets = {}
  /\ holder = "publish" =>
       /\ ~closed /\ targets \subseteq subscriptions
       /\ draft.kind \in Sources /\ draft.sequence = sequence
       /\ DOMAIN draft.payload = {draft.kind}
       /\ draft.payload[draft.kind] = emitted[draft.kind]
  /\ holder = "subscribe" =>
       /\ ~closed /\ \A s \in targets : status[s] = "none"
       /\ draft.kind = "snapshot" /\ draft.sequence = sequence
       /\ \A x \in DOMAIN draft.payload : draft.payload[x] \in emitted[x] .. state[x]
  /\ holder = "close" => closed /\ \A s \in targets : status[s] = "open"
  /\ closed => subscriptions = {}
  /\ \A s \in subscriptions : status[s] = "open"
  /\ \A s \in Subs : status[s] = "open" =>
       s \in subscriptions \/ (holder = "close" /\ s \in targets)

\* A subscription that was never opened has no history.
NewInv ==
  \A s \in Subs : status[s] = "none" => received[s] = 0 /\ dropped[s] = 0 /\ seen[s] = -1

\* Numbers: only the head of a queue can be a snapshot, which nothing was taken
\* before, and the events are numbered upwards between cursor and last.
SnapshotCount(q) == IF Len(q) > 0 /\ q[1].kind = "snapshot" THEN 1 ELSE 0

Numbered(q, cursor, last) ==
  /\ cursor <= last
  /\ \A i \in 1 .. Len(q) :
       /\ q[i].sequence <= last
       /\ IF q[i].kind = "snapshot" THEN i = 1 /\ q[i].sequence = cursor
                                    ELSE q[i].sequence > cursor
       /\ \A j \in 1 .. Len(q) : i < j => q[i].sequence < q[j].sequence

QueueInv ==
  \A s \in Subs : status[s] = "open" =>
    /\ Numbered(queue[s], Cursor(s), sequence - Pending(s))
    /\ SnapshotCount(queue[s]) = 1 => seen[s] = -1 /\ DOMAIN queue[s][1].payload = Sources
    /\ sequence - Pending(s) - start[s]
         = received[s] + Len(queue[s]) - SnapshotCount(queue[s]) + dropped[s]

\* Contents: what is last known of x lies between low and high.
Silent(q, x, first) == \A j \in first .. Len(q) : x \notin DOMAIN q[j].payload

LastKnown(q, picture, x, low, high) ==
  /\ \A i \in 1 .. Len(q) :
       x \in DOMAIN q[i].payload /\ Silent(q, x, i + 1) => q[i].payload[x] \in low .. high
  /\ Silent(q, x, 1) => picture[x] \in low .. high

\* The version of x announced to s: the event under way may not have reached it.
Announced(s, x) == emitted[x] - (IF Pending(s) = 1 /\ draft.kind = x THEN 1 ELSE 0)

ViewInv ==
  ~closed /\ ~rejected =>
    \A s \in Subs : status[s] = "open" /\ dropped[s] = 0 =>
      \A x \in Sources : LastKnown(queue[s], view[s], x, Announced(s, x), state[x])

IInv == TypeOK /\ DataInv /\ LockInv /\ NewInv /\ QueueInv /\ ViewInv

\* ---------------------------------------------------------- lemmas on queues
LEMMA EventFacts ==
  ASSUME NEW e \in Events
  PROVE  /\ e.kind \in Kinds /\ e.sequence \in Nat
         /\ DOMAIN e.payload \subseteq Sources
         /\ \A x \in DOMAIN e.payload : e.payload[x] \in Nat
  BY DEF Events, Payloads

\* Building the two forms of event.
LEMMA ChangeFacts ==
  ASSUME NEW n \in Nat, NEW src \in Sources, NEW v \in Nat
  PROVE  /\ Change(n, src, v) \in Events
         /\ Change(n, src, v).kind = src /\ Change(n, src, v).sequence = n
         /\ DOMAIN Change(n, src, v).payload = {src} /\ Change(n, src, v).payload[src] = v
<1>1. [x \in {src} |-> v] \in [{src} -> Nat]
  OBVIOUS
<1>2. [x \in {src} |-> v] \in Payloads
  BY <1>1 DEF Payloads
<1> QED
  BY <1>2 DEF Change, Events, Kinds

LEMMA SnapshotFacts ==
  ASSUME NEW n \in Nat
  PROVE  /\ Snapshot(n, NoVersions) \in Events
         /\ Snapshot(n, NoVersions).kind = "snapshot" /\ Snapshot(n, NoVersions).sequence = n
         /\ DOMAIN Snapshot(n, NoVersions).payload = {}
<1>1. NoVersions \in [{} -> Nat]
  BY DEF NoVersions
<1>2. NoVersions \in Payloads
  BY <1>1 DEF Payloads
<1> QED
  BY <1>2 DEF Snapshot, Events, Kinds, NoVersions

\* The first event of a queue, and what taking it leaves.
LEMMA TailFacts ==
  ASSUME NEW q \in Seq(Events), q # <<>>
  PROVE  /\ Head(q) \in Events /\ Head(q) = q[1]
         /\ Tail(q) \in Seq(Events)
         /\ Len(q) \in Nat /\ Len(q) >= 1 /\ Len(Tail(q)) = Len(q) - 1
         /\ \A i \in 1 .. Len(q) - 1 : Tail(q)[i] = q[i + 1]
  OBVIOUS

\* Taking the head raises the cursor to it.
LEMMA NumberedTail ==
  ASSUME NEW q \in Seq(Events), q # <<>>, NEW cursor \in Int, NEW last \in Int,
         Numbered(q, cursor, last)
  PROVE  /\ Numbered(Tail(q), Head(q).sequence, last)
         /\ SnapshotCount(Tail(q)) = 0
<1>1. /\ Head(q) = q[1] /\ Len(Tail(q)) = Len(q) - 1 /\ Len(q) \in Nat /\ Len(q) >= 1
      /\ \A i \in 1 .. Len(q) - 1 : Tail(q)[i] = q[i + 1]
  BY TailFacts
<1>2. ASSUME NEW i \in 1 .. Len(q) - 1
      PROVE  /\ Tail(q)[i].sequence <= last /\ Tail(q)[i].kind # "snapshot"
             /\ Tail(q)[i].sequence > q[1].sequence
             /\ \A j \in 1 .. Len(q) - 1 : i < j => Tail(q)[i].sequence < Tail(q)[j].sequence
  <2>1. i + 1 \in 1 .. Len(q) /\ 1 \in 1 .. Len(q) /\ Tail(q)[i] = q[i + 1]
    BY <1>1
  <2>2. /\ q[i + 1].sequence <= last /\ q[i + 1].kind # "snapshot"
        /\ q[1].sequence < q[i + 1].sequence
    BY <1>1, <2>1 DEF Numbered
  <2>3. q[i + 1].sequence \in Int /\ q[1].sequence \in Int
    BY <2>1, EventFacts
  <2>4. ASSUME NEW j \in 1 .. Len(q) - 1, i < j
        PROVE  Tail(q)[i].sequence < Tail(q)[j].sequence
    <3>1. j + 1 \in 1 .. Len(q) /\ i + 1 < j + 1 /\ Tail(q)[j] = q[j + 1]
      BY <1>1, <2>4
    <3> QED
      BY <2>1, <3>1 DEF Numbered
  <2> QED
    BY <2>1, <2>2, <2>3, <2>4
<1>3. q[1].sequence <= last
  BY <1>1 DEF Numbered
<1>4. SnapshotCount(Tail(q)) = 0
  BY <1>1, <1>2 DEF SnapshotCount
<1> QED
  BY <1>1, <1>2, <1>3, <1>4 DEF Numbered

\* Taking the head makes what it says part of the picture.
LEMMA KnownTail ==
  ASSUME NEW q \in Seq(Events), q # <<>>, NEW x \in Sources,
         NEW picture, NEW later, NEW low, NEW high,
         later[x] = IF x \in DOMAIN Head(q).payload THEN Head(q).payload[x] ELSE picture[x],
         LastKnown(q, picture, x, low, high)
  PROVE  LastKnown(Tail(q), later, x, low, high)
<1>1. /\ Head(q) = q[1] /\ Len(Tail(q)) = Len(q) - 1 /\ Len(q) \in Nat /\ Len(q) >= 1
      /\ \A i \in 1 .. Len(q) - 1 : Tail(q)[i] = q[i + 1]
  BY TailFacts
<1>2. ASSUME NEW k \in Nat, k >= 1, Silent(Tail(q), x, k) PROVE Silent(q, x, k + 1)
  <2> SUFFICES ASSUME NEW j \in k + 1 .. Len(q) PROVE x \notin DOMAIN q[j].payload
    BY DEF Silent
  <2>1. j - 1 \in k .. Len(Tail(q)) /\ Tail(q)[j - 1] = q[j]
    BY <1>1, <1>2
  <2> QED
    BY <1>2, <2>1 DEF Silent
<1>3. ASSUME NEW i \in 1 .. Len(Tail(q)), x \in DOMAIN Tail(q)[i].payload,
             Silent(Tail(q), x, i + 1)
      PROVE  Tail(q)[i].payload[x] \in low .. high
  <2>1. i + 1 \in 1 .. Len(q) /\ Tail(q)[i] = q[i + 1] /\ Silent(q, x, (i + 1) + 1)
    BY <1>1, <1>2, <1>3
  <2> QED
    BY <1>3, <2>1 DEF LastKnown
<1>4. ASSUME Silent(Tail(q), x, 1) PROVE later[x] \in low .. high
  <2>1. Silent(q, x, 1 + 1) /\ 1 \in 1 .. Len(q)
    BY <1>1, <1>2, <1>4
  <2>2. CASE x \in DOMAIN q[1].payload
    BY <1>1, <2>1, <2>2 DEF LastKnown
  <2>3. CASE x \notin DOMAIN q[1].payload
    <3>1. Silent(q, x, 1)
      <4> SUFFICES ASSUME NEW j \in 1 .. Len(q) PROVE x \notin DOMAIN q[j].payload
        BY DEF Silent
      <4>1. j = 1 \/ j \in 1 + 1 .. Len(q)
        BY <1>1
      <4> QED
        BY <2>1, <2>3, <4>1 DEF Silent
    <3> QED
      BY <1>1, <2>3, <3>1 DEF LastKnown
  <2> QED
    BY <2>2, <2>3
<1> QED
  BY <1>3, <1>4 DEF LastKnown

LEMMA DoubleTailFacts ==
  ASSUME NEW q \in Seq(Events), Len(q) >= 2
  PROVE  /\ Tail(Tail(q)) \in Seq(Events)
         /\ Len(Tail(Tail(q))) = Len(q) - 2
         /\ \A i \in 1 .. Len(q) - 2 : Tail(Tail(q))[i] = q[i + 2]
<1>1. /\ Tail(q) \in Seq(Events) /\ Len(Tail(q)) = Len(q) - 1 /\ Len(q) \in Nat
      /\ \A i \in 1 .. Len(q) - 1 : Tail(q)[i] = q[i + 1]
  OBVIOUS
<1> DEFINE t == Tail(q)
<1>2. t \in Seq(Events) /\ Len(t) = Len(q) - 1 /\ t # <<>>
  <2>1. Len(Tail(q)) # 0 /\ Len(<<>>) = 0
    BY <1>1
  <2> QED
    BY <1>1, <2>1
<1> HIDE DEF t
<1>3. /\ Tail(t) \in Seq(Events) /\ Len(Tail(t)) = Len(t) - 1
      /\ \A i \in 1 .. Len(t) - 1 : Tail(t)[i] = t[i + 1]
  BY <1>2, TailFacts
<1>4. ASSUME NEW i \in 1 .. Len(q) - 2 PROVE Tail(t)[i] = q[i + 2]
  <2>1. i \in 1 .. Len(t) - 1 /\ i + 1 \in 1 .. Len(q) - 1 /\ (i + 1) + 1 = i + 2
    BY <1>1, <1>2
  <2> QED
    BY <1>1, <1>3, <2>1 DEF t
<1> QED
  BY <1>1, <1>2, <1>3, <1>4 DEF t

LEMMA SingletonFacts ==
  ASSUME NEW e \in Events
  PROVE  <<e>> \in Seq(Events) /\ Len(<<e>>) = 1 /\ <<e>>[1] = e
  OBVIOUS

\* The place in a queue of what an enqueue leaves at place i.
Kept(q, i) ==
  IF Len(q) < QueueCapacity \/ (i = 1 /\ q[1].kind = "snapshot") THEN i ELSE i + 1

\* What enqueueing makes of a queue: at most one event goes, never the snapshot.
LEMMA RoomFacts ==
  ASSUME NEW q \in Seq(Events), Len(q) <= QueueCapacity
  PROVE  /\ MakeRoom(q) \in Seq(Events)
         /\ Len(q) \in Nat /\ DropCount(q) \in {0, 1}
         /\ Len(MakeRoom(q)) = Len(q) - DropCount(q)
         /\ Len(MakeRoom(q)) < QueueCapacity
         /\ \A i \in 1 .. Len(MakeRoom(q)) :
              Kept(q, i) \in 1 .. Len(q) /\ MakeRoom(q)[i] = q[Kept(q, i)]
<1>0. Len(q) \in Nat /\ QueueCapacity \in Nat /\ QueueCapacity >= 2
  BY EventsAssumption
<1>1. CASE Len(q) < QueueCapacity
  BY <1>0, <1>1 DEF MakeRoom, DropCount, Kept
<1>2. CASE Len(q) = QueueCapacity /\ q[1].kind = "snapshot"
  <2> DEFINE rest == Tail(Tail(q))
  <2>1. Len(q) \in Nat /\ Len(q) >= 2 /\ q # <<>> /\ q[1] \in Events
    BY <1>0, <1>2
  <2>2. /\ rest \in Seq(Events) /\ Len(rest) = Len(q) - 2
        /\ \A i \in 1 .. Len(q) - 2 : rest[i] = q[i + 2]
    BY <2>1, DoubleTailFacts, Zenon
  <2>3. <<q[1]>> \in Seq(Events) /\ Len(<<q[1]>>) = 1 /\ <<q[1]>>[1] = q[1]
    BY <2>1, SingletonFacts
  <2>4. /\ <<q[1]>> \o rest \in Seq(Events)
        /\ Len(<<q[1]>> \o rest) = Len(q) - 1
        /\ (<<q[1]>> \o rest)[1] = q[1]
        /\ \A i \in 2 .. Len(q) - 1 : (<<q[1]>> \o rest)[i] = rest[i - 1]
    <3> HIDE DEF rest
    <3> QED
      BY <2>1, <2>2, <2>3
  <2>5. MakeRoom(q) = <<q[1]>> \o rest /\ DropCount(q) = 1
    BY <1>0, <1>2, <2>1 DEF MakeRoom, DropCount
  <2>6. ASSUME NEW i \in 1 .. Len(q) - 1
        PROVE  Kept(q, i) \in 1 .. Len(q) /\ (<<q[1]>> \o rest)[i] = q[Kept(q, i)]
    <3>1. CASE i = 1
      BY <1>2, <2>1, <2>4, <3>1 DEF Kept
    <3>2. CASE i \in 2 .. Len(q) - 1
      <4>1. i - 1 \in 1 .. Len(q) - 2 /\ (i - 1) + 2 = i + 1
        BY <2>1, <3>2
      <4>2. rest[i - 1] = q[(i - 1) + 2]
        BY <2>2, <4>1
      <4>3. Kept(q, i) = i + 1 /\ i + 1 \in 1 .. Len(q)
        BY <1>0, <1>2, <2>1, <3>2 DEF Kept
      <4> QED
        BY <2>4, <3>2, <4>1, <4>2, <4>3
    <3>3. i = 1 \/ i \in 2 .. Len(q) - 1
      BY <2>1
    <3> QED
      BY <3>1, <3>2, <3>3
  <2> HIDE DEF rest
  <2>7. /\ MakeRoom(q) \in Seq(Events) /\ Len(MakeRoom(q)) = Len(q) - 1
        /\ \A i \in 1 .. Len(q) - 1 :
             Kept(q, i) \in 1 .. Len(q) /\ MakeRoom(q)[i] = q[Kept(q, i)]
    BY <2>4, <2>5, <2>6
  <2> QED
    BY <1>0, <1>2, <2>1, <2>5, <2>7
<1>3. CASE Len(q) = QueueCapacity /\ q[1].kind # "snapshot"
  <2>1. q # <<>> /\ MakeRoom(q) = Tail(q) /\ DropCount(q) = 1
    BY <1>0, <1>3 DEF MakeRoom, DropCount
  <2>2. \A i \in 1 .. Len(q) - 1 : Kept(q, i) = i + 1 /\ i + 1 \in 1 .. Len(q)
    BY <1>0, <1>3 DEF Kept
  <2> QED
    BY <1>0, <1>3, <2>1, <2>2, TailFacts
<1>4. Len(q) < QueueCapacity \/ Len(q) = QueueCapacity
  BY <1>0
<1> QED
  BY <1>1, <1>2, <1>3, <1>4

LEMMA EnqueueFacts ==
  ASSUME NEW q \in Seq(Events), Len(q) <= QueueCapacity, NEW e \in Events,
         NEW r, r = Append(MakeRoom(q), e)
  PROVE  /\ r \in Seq(Events) /\ Len(r) \in Nat /\ Len(r) <= QueueCapacity
         /\ Len(r) = Len(q) - DropCount(q) + 1 /\ r[Len(r)] = e
         /\ \A i \in 1 .. Len(r) - 1 : Kept(q, i) \in 1 .. Len(q) /\ r[i] = q[Kept(q, i)]
<1>1. /\ MakeRoom(q) \in Seq(Events)
      /\ Len(q) \in Nat /\ DropCount(q) \in {0, 1}
      /\ Len(MakeRoom(q)) = Len(q) - DropCount(q)
      /\ Len(MakeRoom(q)) < QueueCapacity
      /\ \A i \in 1 .. Len(MakeRoom(q)) :
           Kept(q, i) \in 1 .. Len(q) /\ MakeRoom(q)[i] = q[Kept(q, i)]
  BY RoomFacts
<1> DEFINE room == MakeRoom(q)
<1> HIDE DEF room
<1>2. /\ room \in Seq(Events) /\ r = Append(room, e) /\ Len(room) = Len(q) - DropCount(q)
      /\ Len(room) < QueueCapacity
  BY <1>1 DEF room
<1>3. /\ r \in Seq(Events) /\ Len(r) = Len(room) + 1 /\ r[Len(room) + 1] = e
      /\ \A i \in 1 .. Len(room) : r[i] = room[i]
  BY <1>2
<1> QED
  BY <1>1, <1>2, <1>3, EventsAssumption DEF room

\* An enqueue numbers upwards, and leaves a snapshot where it was.
LEMMA NumberedEnqueue ==
  ASSUME NEW q \in Seq(Events), Len(q) <= QueueCapacity, NEW e \in Events,
         NEW r, r = Append(MakeRoom(q), e),
         NEW cursor \in Int, NEW last \in Int, Numbered(q, cursor, last),
         e.sequence = last + 1, e.kind # "snapshot"
  PROVE  /\ Numbered(r, cursor, last + 1)
         /\ SnapshotCount(r) = SnapshotCount(q)
         /\ SnapshotCount(r) = 1 => r[1] = q[1]
<1>1. /\ r \in Seq(Events) /\ Len(r) \in Nat /\ Len(q) \in Nat
      /\ Len(r) = Len(q) - DropCount(q) + 1 /\ r[Len(r)] = e
      /\ \A i \in 1 .. Len(r) - 1 : Kept(q, i) \in 1 .. Len(q) /\ r[i] = q[Kept(q, i)]
      /\ DropCount(q) \in {0, 1}
  BY EnqueueFacts, RoomFacts
<1>2. \A i \in 1 .. Len(q) : q[i].sequence \in Int
  BY EventFacts
<1>3. ASSUME NEW i \in 1 .. Len(r) - 1
      PROVE  /\ r[i].sequence <= last
             /\ IF r[i].kind = "snapshot" THEN i = 1 /\ r[i].sequence = cursor
                                          ELSE r[i].sequence > cursor
             /\ \A j \in 1 .. Len(r) - 1 : i < j => r[i].sequence < r[j].sequence
  <2>1. Kept(q, i) \in 1 .. Len(q) /\ r[i] = q[Kept(q, i)]
    BY <1>1
  <2>2. /\ r[i].sequence <= last
        /\ IF r[i].kind = "snapshot" THEN Kept(q, i) = 1 /\ r[i].sequence = cursor
                                     ELSE r[i].sequence > cursor
    BY <2>1 DEF Numbered
  <2>3. Kept(q, i) = 1 => i = 1
    BY <1>1 DEF Kept
  <2>4. ASSUME NEW j \in 1 .. Len(r) - 1, i < j
        PROVE  r[i].sequence < r[j].sequence
    <3>1. Kept(q, j) \in 1 .. Len(q) /\ r[j] = q[Kept(q, j)]
      BY <1>1
    <3>2. Kept(q, i) < Kept(q, j)
      BY <1>1, <2>4 DEF Kept
    <3> QED
      BY <2>1, <3>1, <3>2 DEF Numbered
  <2> QED
    BY <2>2, <2>3, <2>4
<1>4. \A i \in 1 .. Len(r) : i \in 1 .. Len(r) - 1 \/ i = Len(r)
  BY <1>1
<1>5. \A i \in 1 .. Len(r) - 1 : r[i].sequence \in Int
  BY <1>1, EventFacts
<1>6. Numbered(r, cursor, last + 1)
  <2>1. cursor <= last
    BY DEF Numbered
  <2>2. ASSUME NEW i \in 1 .. Len(r)
        PROVE  /\ r[i].sequence <= last + 1
               /\ IF r[i].kind = "snapshot" THEN i = 1 /\ r[i].sequence = cursor
                                            ELSE r[i].sequence > cursor
               /\ \A j \in 1 .. Len(r) : i < j => r[i].sequence < r[j].sequence
    <3>1. CASE i = Len(r)
      BY <1>1, <2>1, <3>1
    <3>2. CASE i \in 1 .. Len(r) - 1
      <4>1. /\ r[i].sequence <= last /\ r[i].sequence \in Int
            /\ IF r[i].kind = "snapshot" THEN i = 1 /\ r[i].sequence = cursor
                                         ELSE r[i].sequence > cursor
            /\ \A j \in 1 .. Len(r) - 1 : i < j => r[i].sequence < r[j].sequence
        BY <1>3, <1>5, <3>2
      <4>2. r[Len(r)].sequence = last + 1
        BY <1>1
      <4> QED
        BY <1>4, <4>1, <4>2
    <3> QED
      BY <1>4, <3>1, <3>2
  <2> QED
    BY <2>1, <2>2 DEF Numbered
<1>7. CASE Len(q) = 0
  <2>1. Len(r) = 1 /\ r[1] = e
    BY <1>1, <1>7, EventsAssumption DEF DropCount
  <2> QED
    BY <1>6, <1>7, <2>1 DEF SnapshotCount
<1>8. CASE Len(q) > 0 /\ q[1].kind = "snapshot"
  <2>1. Len(r) > 1 /\ r[1] = q[1]
    <3>1. Len(r) - 1 >= 1
      BY <1>1, <1>8, EventsAssumption DEF DropCount
    <3>2. 1 \in 1 .. Len(r) - 1 /\ Kept(q, 1) = 1
      BY <1>1, <1>8, <3>1 DEF Kept
    <3> QED
      BY <1>1, <3>1, <3>2
  <2> QED
    BY <1>6, <1>8, <2>1 DEF SnapshotCount
<1>9. CASE Len(q) > 0 /\ q[1].kind # "snapshot"
  <2>1. \A i \in 1 .. Len(q) : q[i].kind # "snapshot"
    BY <1>9 DEF Numbered
  <2>2. r[1].kind # "snapshot"
    <3>1. CASE Len(r) = 1
      BY <1>1, <3>1
    <3>2. CASE Len(r) > 1
      <4>1. Kept(q, 1) \in 1 .. Len(q) /\ r[1] = q[Kept(q, 1)]
        BY <1>1, <3>2
      <4> QED
        BY <2>1, <4>1
    <3>3. Len(r) >= 1
      BY <1>1, <1>9
    <3> QED
      BY <1>1, <3>1, <3>2, <3>3
  <2> QED
    BY <1>6, <1>9, <2>2 DEF SnapshotCount
<1> QED
  BY <1>1, <1>7, <1>8, <1>9

\* Appending a change moves what is last known of its source, and of no other.
LEMMA KnownAppend ==
  ASSUME NEW q \in Seq(Events), NEW e \in Events, NEW src, DOMAIN e.payload = {src}, NEW picture, NEW x \in Sources, NEW low \in Int, NEW high \in Int,
         x # src => LastKnown(q, picture, x, low, high),
         x = src => e.payload[src] \in low .. high
  PROVE  LastKnown(Append(q, e), picture, x, low, high)
<1> DEFINE r == Append(q, e)
<1>1. /\ r \in Seq(Events) /\ Len(q) \in Nat /\ Len(r) = Len(q) + 1 /\ r[Len(r)] = e
      /\ \A i \in 1 .. Len(q) : r[i] = q[i]
  OBVIOUS
<1> HIDE DEF r
<1>3. CASE x = src
  <2>1. ASSUME NEW i \in 1 .. Len(r), Silent(r, x, i + 1) PROVE i = Len(r)
    <3> SUFFICES ASSUME i # Len(r) PROVE FALSE
      OBVIOUS
    <3>1. Len(r) \in i + 1 .. Len(r)
      BY <1>1
    <3> QED
      BY <1>1, <1>3, <2>1, <3>1 DEF Silent
  <2>2. ~Silent(r, x, 1)
    <3>1. Len(r) \in 1 .. Len(r)
      BY <1>1
    <3> QED
      BY <1>1, <1>3, <3>1 DEF Silent
  <2> QED
    BY <1>1, <1>3, <2>1, <2>2 DEF LastKnown, r
<1>4. CASE x # src
  <2>1. ASSUME NEW k \in Nat, k >= 1, Silent(r, x, k) PROVE Silent(q, x, k)
    <3> SUFFICES ASSUME NEW j \in k .. Len(q) PROVE x \notin DOMAIN q[j].payload
      BY DEF Silent
    <3>1. j \in k .. Len(r) /\ r[j] = q[j]
      BY <1>1, <2>1
    <3> QED
      BY <2>1, <3>1 DEF Silent
  <2>2. ASSUME NEW i \in 1 .. Len(r), x \in DOMAIN r[i].payload, Silent(r, x, i + 1)
        PROVE  r[i].payload[x] \in low .. high
    <3>1. i # Len(r)
      BY <1>1, <1>4, <2>2
    <3>2. i \in 1 .. Len(q) /\ r[i] = q[i] /\ Silent(q, x, i + 1)
      BY <1>1, <2>1, <2>2, <3>1
    <3> QED
      BY <1>4, <2>2, <3>2 DEF LastKnown
  <2>3. Silent(r, x, 1) => picture[x] \in low .. high
    BY <1>4, <2>1 DEF LastKnown
  <2> QED
    BY <2>2, <2>3 DEF LastKnown, r
<1> QED
  BY <1>3, <1>4

LEMMA KnownWiden ==
  ASSUME NEW q, NEW picture, NEW x, NEW low \in Int, NEW high \in Int,
         NEW lower \in Int, NEW higher \in Int, lower <= low, high <= higher,
         LastKnown(q, picture, x, low, high)
  PROVE  LastKnown(q, picture, x, lower, higher)
<1>1. \A v \in low .. high : v \in lower .. higher
  OBVIOUS
<1> QED
  BY <1>1 DEF LastKnown

\* ------------------------------------------------------------ initial states
LEMMA InitIInv == Init => IInv
<1> SUFFICES ASSUME Init PROVE IInv
  OBVIOUS
<1> USE DEF Init
<1>1. \A s \in Subs : queue[s] = <<>> /\ Len(queue[s]) = 0
  OBVIOUS
<1>2. TypeOK
  <2>1. \A s \in Subs : DOMAIN queue[s] = {} /\ Len(queue[s]) <= QueueCapacity
    BY <1>1, EventsAssumption
  <2>2. SubscriptionTypeOK
    BY <2>1 DEF SubscriptionTypeOK
  <2>3. seen \in [Subs -> Int]
    OBVIOUS
  <2>4. state \in Versions /\ emitted \in Versions
    BY DEF Versions
  <2> QED
    BY <2>2, <2>3, <2>4 DEF TypeOK
<1>3. DataInv
  BY SnapshotFacts DEF DataInv, NoDraft
<1>4. LockInv /\ NewInv /\ QueueInv /\ ViewInv
  BY DEF LockInv, NewInv, QueueInv, ViewInv
<1> QED
  BY <1>2, <1>3, <1>4 DEF IInv

\* ----------------------------------------------------- one lemma per action
\* Facts the proofs below keep needing.
LEMMA Typed ==
  ASSUME IInv
  PROVE  /\ sequence \in Nat /\ draft \in Events
         /\ \A x \in Sources : state[x] \in Nat /\ emitted[x] \in Nat /\ emitted[x] <= state[x]
         /\ \A s \in Subs :
              /\ queue[s] \in Seq(Events) /\ Len(queue[s]) \in Nat
              /\ Len(queue[s]) <= QueueCapacity
              /\ start[s] \in Nat /\ seen[s] \in Int /\ Cursor(s) \in Nat /\ Pending(s) \in {0, 1}
              /\ received[s] \in Nat /\ dropped[s] \in Nat
              /\ SnapshotCount(queue[s]) \in {0, 1}
              /\ \A x \in Sources : Announced(s, x) \in Int
  BY DEF IInv, TypeOK, DataInv, SubscriptionTypeOK, Versions, Cursor, Pending, SnapshotCount,
         Announced

\* A step of the sources or of the lock leaves the queues alone.
LEMMA QuietQueues ==
  ASSUME IInv, UNCHANGED <<status, queue, start, seen, received, dropped>>,
         \A s \in Subs : status[s] = "open" => sequence' - Pending(s)' = sequence - Pending(s)
  PROVE  NewInv' /\ QueueInv'
<1>1. NewInv'
  BY DEF IInv, NewInv
<1>2. \A s \in Subs : Cursor(s)' = Cursor(s)
  BY DEF Cursor
<1> QED
  BY <1>1, <1>2 DEF IInv, QueueInv

LEMMA SourceChangeIInv ==
  ASSUME IInv, NEW src \in Sources, SourceChange(src) PROVE IInv'
<1> USE DEF SourceChange, publisherVars, consumerVars
<1>1. /\ state' \in [Sources -> Nat]
      /\ \A x \in Sources : state'[x] \in Nat /\ state[x] <= state'[x]
  BY DEF IInv, TypeOK, Versions
<1>2. TypeOK'
  BY <1>1 DEF IInv, TypeOK, SubscriptionTypeOK, Versions
<1>3. DataInv'
  BY <1>1, Typed DEF IInv, DataInv
<1>4. LockInv'
  <2>1. ASSUME NEW x \in DOMAIN draft.payload, draft.payload[x] \in emitted[x] .. state[x]
        PROVE  draft.payload[x] \in emitted[x] .. state'[x]
    BY <1>1, <2>1, Typed, EventFacts
  <2> QED
    BY <2>1 DEF IInv, LockInv
<1>5. NewInv' /\ QueueInv'
  BY QuietQueues DEF Pending
<1>6. ViewInv'
  <2> SUFFICES ASSUME ~closed, ~rejected, NEW s \in Subs, status[s] = "open", dropped[s] = 0,
                      NEW x \in Sources
               PROVE  LastKnown(queue[s], view[s], x, Announced(s, x)', state'[x])
    BY DEF ViewInv
  <2>1. LastKnown(queue[s], view[s], x, Announced(s, x), state[x])
    BY DEF IInv, ViewInv
  <2>2. Announced(s, x)' = Announced(s, x)
    BY DEF Announced, Pending
  <2> QED
    BY <1>1, <2>1, <2>2, Typed, KnownWiden
<1> QED
  BY <1>2, <1>3, <1>4, <1>5, <1>6 DEF IInv

\* A publish numbers its event for every open subscription, none of which has it.
LEMMA PublishBeginIInv ==
  ASSUME IInv, NEW src \in Sources, PublishBegin(src) PROVE IInv'
<1> USE DEF PublishBegin, consumerVars
<1>1. /\ emitted' \in [Sources -> Nat] /\ emitted'[src] = emitted[src] + 1
      /\ \A x \in Sources : x # src => emitted'[x] = emitted[x]
      /\ \A x \in Sources : emitted'[x] <= state[x]
  <2>1. emitted' = [emitted EXCEPT ![src] = @ + 1] /\ emitted[src] < state[src]
    OBVIOUS
  <2>2. emitted \in [Sources -> Nat]
    BY DEF IInv, TypeOK, Versions
  <2>3. \A x \in Sources : state[x] \in Nat /\ emitted[x] \in Nat /\ emitted[x] <= state[x]
    BY Typed
  <2>4. /\ emitted' \in [Sources -> Nat] /\ emitted'[src] = emitted[src] + 1
        /\ \A x \in Sources : x # src => emitted'[x] = emitted[x]
    BY <2>1, <2>2, <2>3
  <2> QED
    BY <2>1, <2>3, <2>4
<1>2. /\ draft' \in Events /\ draft'.kind = src /\ draft'.sequence = sequence + 1
      /\ DOMAIN draft'.payload = {src} /\ draft'.payload[src] = emitted[src] + 1
  <2> DEFINE n == sequence + 1
             v == emitted[src] + 1
  <2>1. n \in Nat /\ v \in Nat
    BY Typed
  <2>2. draft' = Change(n, src, v)
    OBVIOUS
  <2> HIDE DEF n, v, PublishBegin
  <2>3. /\ draft' \in Events /\ draft'.kind = src /\ draft'.sequence = n
        /\ DOMAIN draft'.payload = {src} /\ draft'.payload[src] = v
    BY <2>1, <2>2, ChangeFacts
  <2> QED
    BY <2>3 DEF n, v
<1>3. TypeOK'
  <2>1. SubscriptionTypeOK'
    <3>1. \A n \in 0 .. sequence : n \in 0 .. sequence + 1
      BY Typed
    <3> QED
      BY <3>1 DEF IInv, TypeOK, SubscriptionTypeOK
  <2> QED
    BY <1>1, <2>1, Typed DEF IInv, TypeOK, Versions
<1>4. DataInv'
  BY <1>1, <1>2 DEF IInv, DataInv
<1>5. LockInv'
  BY <1>1, <1>2 DEF IInv, LockInv, TypeOK
<1>6. ASSUME NEW s \in Subs, status[s] = "open"
      PROVE  Pending(s) = 0 /\ Pending(s)' = 1
  BY <1>6 DEF IInv, LockInv, TypeOK, Pending
<1>7. NewInv' /\ QueueInv'
  <2>1. ASSUME NEW s \in Subs, status[s] = "open"
        PROVE  sequence' - Pending(s)' = sequence - Pending(s)
    <3>1. Pending(s) = 0 /\ Pending(s)' = 1 /\ sequence \in Nat
      BY <1>6, <2>1, Typed
    <3>2. sequence' = sequence + 1
      OBVIOUS
    <3> HIDE DEF PublishBegin
    <3> QED
      BY <3>1, <3>2
  <2> QED
    BY <2>1, QuietQueues
<1>8. ViewInv'
  <2> SUFFICES ASSUME ~closed, ~rejected, NEW s \in Subs, status[s] = "open", dropped[s] = 0,
                      NEW x \in Sources
               PROVE  LastKnown(queue[s], view[s], x, Announced(s, x)', state[x])
    BY DEF ViewInv
  <2>1. LastKnown(queue[s], view[s], x, Announced(s, x), state[x])
    BY DEF IInv, ViewInv
  <2>2. Announced(s, x)' = Announced(s, x)
    BY <1>1, <1>2, <1>6, Typed DEF Announced
  <2> QED
    BY <2>1, <2>2
<1> QED
  BY <1>3, <1>4, <1>5, <1>7, <1>8 DEF IInv

\* An event that is refused, or comes too late, reaches no subscription.
LEMMA PublishNothingIInv ==
  ASSUME IInv, NEW src \in Sources, PublishOversized(src) \/ PublishClosed(src) PROVE IInv'
<1>1. /\ emitted' = [emitted EXCEPT ![src] = @ + 1] /\ emitted[src] < state[src]
      /\ UNCHANGED <<state, publisherVars, status, queue, dropped, start, consumerVars>>
      /\ rejected' \in BOOLEAN /\ (rejected' \/ closed)
      /\ holder # "publish" /\ holder # "subscribe"
  BY DEF PublishOversized, PublishClosed, IInv, TypeOK, LockInv
<1> USE DEF publisherVars, consumerVars
<1>2. emitted' \in [Sources -> Nat] /\ \A x \in Sources : emitted'[x] <= state[x]
  BY <1>1, Typed DEF IInv, TypeOK, Versions
<1>3. TypeOK'
  BY <1>1, <1>2 DEF IInv, TypeOK, SubscriptionTypeOK, Versions
<1>4. DataInv'
  BY <1>1, <1>2 DEF IInv, DataInv
<1>5. LockInv'
  BY <1>1 DEF IInv, LockInv
<1>6. NewInv' /\ QueueInv'
  BY <1>1, QuietQueues DEF Pending
<1>7. ViewInv'
  BY <1>1 DEF ViewInv
<1> QED
  BY <1>3, <1>4, <1>5, <1>6, <1>7 DEF IInv

\* The event under way reaches one subscription more.
LEMMA EnqueueIInv ==
  ASSUME IInv, NEW s \in Subs, Enqueue(s) PROVE IInv'
<1> DEFINE r == Append(MakeRoom(queue[s]), draft)
<1>1. /\ holder = "publish" /\ s \in targets /\ Visited(s)
      /\ queue'[s] = r /\ dropped'[s] = dropped[s] + DropCount(queue[s])
      /\ \A t \in Subs : t # s => queue'[t] = queue[t] /\ dropped'[t] = dropped[t]
      /\ UNCHANGED <<state, emitted, rejected, sequence, closed, subscriptions, draft, status,
                     start, seen, received, view>>
  BY DEF Enqueue, sourceVars, consumerVars, IInv, TypeOK, DataInv
<1>2. /\ status[s] = "open" /\ ~closed /\ targets \subseteq subscriptions
      /\ draft.kind \in Sources /\ draft.sequence = sequence /\ draft.kind # "snapshot"
      /\ DOMAIN draft.payload = {draft.kind} /\ draft.payload[draft.kind] = emitted[draft.kind]
  BY <1>1, EventsAssumption DEF IInv, LockInv
<1>3. /\ queue[s] \in Seq(Events) /\ Len(queue[s]) <= QueueCapacity /\ draft \in Events
      /\ DropCount(queue[s]) \in {0, 1}
  BY Typed, RoomFacts
<1>4. /\ r \in Seq(Events) /\ Len(r) \in Nat /\ Len(r) <= QueueCapacity
      /\ Len(r) = Len(queue[s]) - DropCount(queue[s]) + 1
  BY <1>3, EnqueueFacts
<1> HIDE DEF r
<1>5. Pending(s) = 1 /\ Pending(s)' = 0 /\ \A t \in Subs : t # s => Pending(t)' = Pending(t)
  BY <1>1 DEF Pending, Visited
<1>6. \A t \in Subs : Cursor(t)' = Cursor(t)
  BY <1>1 DEF Cursor
<1>7. /\ Numbered(r, Cursor(s), sequence)
      /\ SnapshotCount(r) = SnapshotCount(queue[s])
      /\ SnapshotCount(r) = 1 => r[1] = queue[s][1]
  <2>1. Numbered(queue[s], Cursor(s), sequence - 1)
    BY <1>2, <1>5 DEF IInv, QueueInv
  <2>2. Cursor(s) \in Int /\ sequence - 1 \in Int /\ draft.sequence = (sequence - 1) + 1
        /\ (sequence - 1) + 1 = sequence
    BY <1>2, Typed
  <2> DEFINE last == sequence - 1
  <2>3. last \in Int /\ Numbered(queue[s], Cursor(s), last) /\ draft.sequence = last + 1
        /\ last + 1 = sequence
    BY <2>1, <2>2
  <2> HIDE DEF last
  <2>4. /\ Numbered(r, Cursor(s), last + 1)
        /\ SnapshotCount(r) = SnapshotCount(queue[s])
        /\ SnapshotCount(r) = 1 => r[1] = queue[s][1]
    BY <1>2, <1>3, <2>2, <2>3, NumberedEnqueue DEF r
  <2> QED
    BY <2>3, <2>4
<1>8. TypeOK'
  <2>1. queue'[s] \in Seq(Events) /\ \A i \in 1 .. Len(queue'[s]) : queue'[s][i].sequence <= sequence
    BY <1>1, <1>4, <1>7 DEF Numbered
  <2>2. \A i \in DOMAIN queue'[s] : queue'[s][i].sequence \in 0 .. sequence
    <3> SUFFICES ASSUME NEW i \in DOMAIN queue'[s] PROVE queue'[s][i].sequence \in 0 .. sequence
      OBVIOUS
    <3>1. i \in 1 .. Len(queue'[s]) /\ queue'[s][i] \in Events
      BY <2>1
    <3> QED
      BY <2>1, <3>1, EventFacts, Typed
  <2>3. SubscriptionTypeOK'
    BY <1>1, <1>4, <2>2 DEF IInv, TypeOK, SubscriptionTypeOK
  <2>4. dropped' \in [Subs -> Nat] /\ targets' \in SUBSET Subs
        /\ holder' \in {"free", "publish", "subscribe", "close"}
    BY <1>1, <1>3 DEF IInv, TypeOK, Visited, Enqueue
  <2> QED
    BY <1>1, <2>3, <2>4 DEF IInv, TypeOK
<1>9. DataInv'
  <2>1. queue' \in [Subs -> Seq(Events)]
    BY <1>1, <1>4 DEF IInv, DataInv, Enqueue
  <2> QED
    BY <1>1, <2>1 DEF IInv, DataInv
<1>10. LockInv'
  BY <1>1, <1>2 DEF IInv, LockInv, Visited
<1>11. NewInv'
  BY <1>1, <1>2 DEF IInv, NewInv
<1>12. QueueInv'
  <2> SUFFICES ASSUME NEW t \in Subs, status[t] = "open"
               PROVE /\ Numbered(queue'[t], Cursor(t), sequence - Pending(t)')
                     /\ SnapshotCount(queue'[t]) = 1 =>
                          seen[t] = -1 /\ DOMAIN queue'[t][1].payload = Sources
                     /\ sequence - Pending(t)' - start[t]
                          = received[t] + Len(queue'[t]) - SnapshotCount(queue'[t]) + dropped'[t]
    BY <1>1, <1>6 DEF QueueInv
  <2>1. CASE t # s
    BY <1>1, <1>5, <2>1 DEF IInv, QueueInv
  <2>2. CASE t = s
    <3>1. /\ SnapshotCount(queue[s]) = 1 => seen[s] = -1 /\ DOMAIN queue[s][1].payload = Sources
          /\ sequence - 1 - start[s]
               = received[s] + Len(queue[s]) - SnapshotCount(queue[s]) + dropped[s]
      BY <1>2, <1>5 DEF IInv, QueueInv
    <3>2. sequence - 0 = sequence
      BY Typed
    <3>3. Numbered(queue'[s], Cursor(s), sequence - Pending(s)')
      BY <1>1, <1>5, <1>7, <3>2
    <3>4. sequence - 0 - start[s]
            = received[s] + Len(r) - SnapshotCount(r) + (dropped[s] + DropCount(queue[s]))
      <4>1. /\ sequence \in Nat /\ start[s] \in Nat /\ received[s] \in Nat /\ dropped[s] \in Nat
            /\ Len(queue[s]) \in Nat /\ SnapshotCount(queue[s]) \in {0, 1}
        BY Typed
      <4>2. DropCount(queue[s]) \in Nat
        BY <1>3
      <4> DEFINE held == Len(queue[s])
                 snap == SnapshotCount(queue[s])
                 gone == dropped[s]
                 lost == DropCount(queue[s])
                 first == start[s]
                 taken == received[s]
      <4>3. /\ held \in Nat /\ snap \in Nat /\ gone \in Nat /\ lost \in Nat
            /\ first \in Nat /\ taken \in Nat /\ sequence \in Nat
            /\ sequence - 1 - first = taken + held - snap + gone
        BY <3>1, <4>1, <4>2
      <4>4. Len(r) = held - lost + 1 /\ SnapshotCount(r) = snap
        BY <1>4, <1>7
      <4> HIDE DEF held, snap, gone, lost, first, taken
      <4>5. sequence - 0 - first = taken + (held - lost + 1) - snap + (gone + lost)
        BY <4>3
      <4> QED
        BY <4>4, <4>5 DEF gone, lost, first, taken
    <3> QED
      BY <1>1, <1>5, <1>7, <2>2, <3>1, <3>3, <3>4
  <2> QED
    BY <2>1, <2>2
<1>13. ViewInv'
  <2> SUFFICES ASSUME ~rejected, NEW t \in Subs, status[t] = "open", dropped'[t] = 0,
                      NEW x \in Sources
               PROVE  LastKnown(queue'[t], view[t], x, Announced(t, x)', state[x])
    BY <1>1 DEF ViewInv
  <2>1. CASE t # s
    BY <1>1, <1>2, <1>5, <2>1 DEF IInv, ViewInv, Announced
  <2>2. CASE t = s
    <3>1. dropped[s] = 0 /\ DropCount(queue[s]) = 0
      BY <1>1, <1>3, <2>2, Typed
    <3>2. queue'[s] = Append(queue[s], draft)
      BY <1>1, <3>1 DEF r, DropCount, MakeRoom
    <3>3. Announced(s, x)' = emitted[x]
      BY <1>1, <1>5, Typed DEF Announced
    <3>4. x # draft.kind => LastKnown(queue[s], view[s], x, emitted[x], state[x])
      <4>1. LastKnown(queue[s], view[s], x, Announced(s, x), state[x])
        BY <1>2, <2>2, <3>1 DEF IInv, ViewInv
      <4>2. x # draft.kind => Announced(s, x) = emitted[x]
        BY Typed DEF Announced
      <4> QED
        BY <4>1, <4>2
    <3>5. x = draft.kind => draft.payload[draft.kind] \in emitted[x] .. state[x]
      BY <1>2, Typed
    <3>6. emitted[x] \in Int /\ state[x] \in Int
      BY Typed
    <3>7. LastKnown(Append(queue[s], draft), view[s], x, emitted[x], state[x])
      BY <1>2, <1>3, <3>4, <3>5, <3>6, KnownAppend
    <3> QED
      BY <2>2, <3>2, <3>3, <3>7
  <2> QED
    BY <2>1, <2>2
<1> QED
  BY <1>8, <1>9, <1>10, <1>11, <1>12, <1>13 DEF IInv

\* Steps of subscribe before the subscription is registered: only the lock, its
\* targets and the snapshot under construction change.
LEMMA SubscribeStepIInv ==
  ASSUME IInv, LockInv', DataInv',
         holder # "publish", holder' # "publish",
         targets' \in SUBSET Subs, holder' \in {"free", "publish", "subscribe", "close"},
         UNCHANGED <<sourceVars, sequence, closed, subscriptions, status, queue, dropped,
                     start, consumerVars>>
  PROVE  IInv'
<1> USE DEF sourceVars, consumerVars
<1>1. TypeOK'
  BY DEF IInv, TypeOK, SubscriptionTypeOK
<1>2. \A s \in Subs : Pending(s)' = Pending(s) /\ Pending(s) = 0
  BY DEF Pending
<1>3. NewInv' /\ QueueInv'
  BY <1>2, QuietQueues
<1>4. ViewInv'
  BY <1>2 DEF IInv, ViewInv, Announced
<1> QED
  BY <1>1, <1>3, <1>4 DEF IInv

LEMMA SubscribeBeginIInv ==
  ASSUME IInv, NEW s \in Subs, SubscribeBegin(s) PROVE IInv'
<1> USE DEF SubscribeBegin, sourceVars, consumerVars
<1>1. /\ draft' \in Events /\ draft'.kind = "snapshot" /\ draft'.sequence = sequence
      /\ DOMAIN draft'.payload = {}
  BY Typed, SnapshotFacts
<1>2. LockInv'
  BY <1>1 DEF IInv, LockInv
<1>3. DataInv'
  BY <1>1 DEF IInv, DataInv
<1> QED
  BY <1>2, <1>3, SubscribeStepIInv

\* What reading one source adds to the snapshot.
LEMMA ReadFacts ==
  ASSUME NEW e \in Events, NEW src \in Sources, NEW v \in Nat, NEW f,
         f = WithVersion(e, src, v)
  PROVE  /\ f \in Events /\ f.kind = e.kind /\ f.sequence = e.sequence
         /\ DOMAIN f.payload = DOMAIN e.payload \cup {src} /\ f.payload[src] = v
         /\ \A x \in DOMAIN e.payload : x # src => f.payload[x] = e.payload[x]
<1> DEFINE known == DOMAIN e.payload \cup {src}
           versions == [x \in known |-> IF x = src THEN v ELSE e.payload[x]]
<1>1. known \in SUBSET Sources
  BY EventFacts
<1>2. \A x \in known : (IF x = src THEN v ELSE e.payload[x]) \in Nat
  BY EventFacts
<1>3. versions \in [known -> Nat]
  BY <1>2
<1>4. versions \in Payloads
  BY <1>1, <1>3 DEF Payloads
<1>5. f = [e EXCEPT !.payload = versions]
  BY DEF WithVersion
<1>6. DOMAIN versions = known /\ versions[src] = v
      /\ \A x \in DOMAIN e.payload : x # src => versions[x] = e.payload[x]
  OBVIOUS
<1> HIDE DEF versions
<1>7. f \in Events /\ f.kind = e.kind /\ f.sequence = e.sequence /\ f.payload = versions
  BY <1>4, <1>5 DEF Events
<1> QED
  BY <1>6, <1>7

LEMMA SubscribeReadIInv ==
  ASSUME IInv, NEW src \in Sources, SubscribeRead(src) PROVE IInv'
<1>1. /\ holder = "subscribe" /\ src \notin DOMAIN draft.payload
      /\ draft' = WithVersion(draft, src, state[src])
      /\ UNCHANGED <<sourceVars, sequence, closed, subscriptions, holder, targets, status,
                     queue, dropped, start, consumerVars>>
  BY DEF SubscribeRead
<1> USE DEF sourceVars, consumerVars
<1>2. /\ draft' \in Events /\ draft'.kind = draft.kind /\ draft'.sequence = draft.sequence
      /\ DOMAIN draft'.payload = DOMAIN draft.payload \cup {src}
      /\ draft'.payload[src] = state[src]
      /\ \A x \in DOMAIN draft.payload : x # src => draft'.payload[x] = draft.payload[x]
  BY <1>1, Typed, ReadFacts
<1>3. LockInv'
  <2>1. \A x \in DOMAIN draft'.payload : draft'.payload[x] \in emitted[x] .. state[x]
    <3>1. state[src] \in emitted[src] .. state[src]
      BY Typed
    <3>2. \A x \in DOMAIN draft.payload : draft.payload[x] \in emitted[x] .. state[x]
      BY <1>1 DEF IInv, LockInv
    <3> QED
      BY <1>1, <1>2, <3>1, <3>2
  <2> QED
    BY <1>1, <1>2, <2>1 DEF IInv, LockInv
<1>4. DataInv'
  BY <1>1, <1>2 DEF IInv, DataInv
<1> QED
  BY <1>1, <1>3, <1>4, SubscribeStepIInv DEF IInv, TypeOK

LEMMA SubscribeOversizedIInv ==
  ASSUME IInv, SubscribeOversized PROVE IInv'
<1> USE DEF SubscribeOversized, sourceVars, consumerVars
<1>1. LockInv' /\ DataInv'
  BY DEF IInv, LockInv, DataInv
<1> QED
  BY <1>1, SubscribeStepIInv

\* A subscription opens with the snapshot in its queue.
LEMMA SubscribeEndIInv ==
  ASSUME IInv, NEW s \in Subs, SubscribeEnd(s) PROVE IInv'
<1>1. /\ holder = "subscribe" /\ targets = {s} /\ DOMAIN draft.payload = Sources
      /\ holder' = "free" /\ targets' = {} /\ subscriptions' = subscriptions \cup {s}
      /\ status'[s] = "open" /\ queue'[s] = <<draft>> /\ start'[s] = draft.sequence
      /\ \A t \in Subs : t # s => /\ status'[t] = status[t] /\ queue'[t] = queue[t]
                                  /\ start'[t] = start[t]
      /\ status' \in [Subs -> {"none", "open", "closed"}]
      /\ UNCHANGED <<state, emitted, rejected, sequence, closed, draft, dropped, seen, received,
                     view>>
  BY DEF SubscribeEnd, sourceVars, consumerVars, IInv, TypeOK, DataInv
<1>2. /\ ~closed /\ status[s] = "none" /\ draft \in Events
      /\ draft.kind = "snapshot" /\ draft.sequence = sequence
      /\ \A x \in Sources : draft.payload[x] \in emitted[x] .. state[x]
      /\ received[s] = 0 /\ dropped[s] = 0 /\ seen[s] = -1
  BY <1>1 DEF IInv, LockInv, NewInv, DataInv
<1>3. <<draft>> \in Seq(Events) /\ Len(<<draft>>) = 1 /\ <<draft>>[1] = draft
  BY <1>2, SingletonFacts
<1>4. queue' \in [Subs -> Seq(Events)] /\ start' \in [Subs -> Nat]
  BY <1>1, <1>2, <1>3, Typed DEF IInv, DataInv, TypeOK, SubscribeEnd
<1>5. TypeOK'
  <2>1. \A i \in DOMAIN queue'[s] : queue'[s][i].sequence \in 0 .. sequence
    BY <1>1, <1>2, <1>3, Typed
  <2>2. Len(queue'[s]) <= QueueCapacity
    BY <1>1, <1>3, EventsAssumption
  <2>3. SubscriptionTypeOK'
    BY <1>1, <2>1, <2>2 DEF IInv, TypeOK, SubscriptionTypeOK
  <2> QED
    BY <1>1, <1>4, <2>3 DEF IInv, TypeOK
<1>6. DataInv'
  BY <1>1, <1>4 DEF IInv, DataInv
<1>7. LockInv'
  <2>1. \A t \in subscriptions' : status'[t] = "open"
    BY <1>1 DEF IInv, LockInv, TypeOK
  <2>2. \A t \in Subs : status'[t] = "open" => t \in subscriptions'
    BY <1>1 DEF IInv, LockInv
  <2> QED
    BY <1>1, <1>2, <2>1, <2>2 DEF LockInv
<1>8. NewInv'
  BY <1>1 DEF IInv, NewInv
<1>9. \A t \in Subs : Pending(t) = 0 /\ Pending(t)' = 0
  BY <1>1 DEF Pending
<1>10. sequence - 0 = sequence /\ sequence \in Nat
  BY Typed
<1>11. QueueInv'
  <2>1. Cursor(s)' = sequence /\ \A t \in Subs : t # s => Cursor(t)' = Cursor(t)
    BY <1>1, <1>2 DEF Cursor
  <2>2. Numbered(<<draft>>, sequence, sequence) /\ SnapshotCount(<<draft>>) = 1
    BY <1>2, <1>3, <1>10 DEF Numbered, SnapshotCount
  <2> SUFFICES ASSUME NEW t \in Subs, status'[t] = "open"
               PROVE /\ Numbered(queue'[t], Cursor(t)', sequence - 0)
                     /\ SnapshotCount(queue'[t]) = 1 =>
                          seen[t] = -1 /\ DOMAIN queue'[t][1].payload = Sources
                     /\ sequence - 0 - start'[t]
                          = received[t] + Len(queue'[t]) - SnapshotCount(queue'[t]) + dropped[t]
    BY <1>1, <1>9 DEF QueueInv
  <2>3. CASE t = s
    <3>1. Numbered(queue'[s], Cursor(s)', sequence - 0) /\ SnapshotCount(queue'[s]) = 1
      BY <1>1, <1>10, <2>1, <2>2
    <3>2. seen[s] = -1 /\ DOMAIN queue'[s][1].payload = Sources
      BY <1>1, <1>2, <1>3
    <3>3. sequence - 0 - start'[s]
            = received[s] + Len(queue'[s]) - SnapshotCount(queue'[s]) + dropped[s]
      <4>1. /\ start'[s] = sequence /\ received[s] = 0 /\ dropped[s] = 0
            /\ Len(queue'[s]) = 1 /\ SnapshotCount(queue'[s]) = 1
        BY <1>1, <1>2, <1>3, <3>1
      <4> QED
        BY <1>10, <4>1
    <3> QED
      BY <2>3, <3>1, <3>2, <3>3
  <2>4. CASE t # s
    BY <1>1, <1>9, <2>1, <2>4 DEF IInv, QueueInv
  <2> QED
    BY <2>3, <2>4
<1>12. ViewInv'
  <2> SUFFICES ASSUME ~rejected, NEW t \in Subs, status'[t] = "open", dropped[t] = 0,
                      NEW x \in Sources
               PROVE  LastKnown(queue'[t], view[t], x, Announced(t, x)', state[x])
    BY <1>1 DEF ViewInv
  <2>1. CASE t = s
    <3>1. Announced(s, x)' = emitted[x]
      BY <1>1, <1>9, Typed DEF Announced
    <3>2. ~Silent(<<draft>>, x, 1)
      BY <1>1, <1>3 DEF Silent
    <3>3. LastKnown(<<draft>>, view[s], x, emitted[x], state[x])
      BY <1>2, <1>3, <3>2 DEF LastKnown
    <3> QED
      BY <1>1, <2>1, <3>1, <3>3
  <2>2. CASE t # s
    <3>1. LastKnown(queue[t], view[t], x, Announced(t, x), state[x])
      BY <1>1, <1>2, <2>2 DEF IInv, ViewInv
    <3>2. Announced(t, x)' = Announced(t, x)
      BY <1>1, <1>9 DEF Announced
    <3> QED
      BY <1>1, <2>2, <3>1, <3>2
  <2> QED
    BY <2>1, <2>2
<1> QED
  BY <1>5, <1>6, <1>7, <1>8, <1>11, <1>12 DEF IInv

\* A closed subscription leaves the accounts.
LEMMA CloseFromPublisherIInv ==
  ASSUME IInv, NEW s \in Subs, status[s] = "open", CloseFromPublisher(s), LockInv',
         targets' \in SUBSET Subs, holder' \in {"free", "publish", "subscribe", "close"},
         closed' \in BOOLEAN, subscriptions' \in SUBSET Subs,
         \A t \in Subs : t # s => Pending(t)' = Pending(t),
         UNCHANGED <<sourceVars, closed, sequence, draft, dropped, start, consumerVars>>
  PROVE  IInv'
<1> USE DEF CloseFromPublisher, sourceVars, consumerVars
<1>1. /\ status'[s] = "closed" /\ queue'[s] = <<>>
      /\ status' \in [Subs -> {"none", "open", "closed"}]
      /\ \A t \in Subs : t # s => status'[t] = status[t] /\ queue'[t] = queue[t]
  BY DEF IInv, TypeOK, DataInv
<1>2. <<>> \in Seq(Events) /\ Len(<<>>) = 0 /\ DOMAIN (<<>>) = {}
  OBVIOUS
<1>3. TypeOK'
  <2>1. DOMAIN queue'[s] = {} /\ Len(queue'[s]) <= QueueCapacity
    BY <1>1, <1>2, EventsAssumption
  <2>2. SubscriptionTypeOK'
    BY <1>1, <2>1 DEF IInv, TypeOK, SubscriptionTypeOK
  <2> QED
    BY <1>1, <2>2 DEF IInv, TypeOK
<1>4. DataInv'
  BY <1>1, <1>2 DEF IInv, DataInv
<1>5. \A t \in Subs : Cursor(t)' = Cursor(t)
  BY DEF Cursor
<1>6. NewInv' /\ QueueInv'
  BY <1>1, <1>5 DEF IInv, NewInv, QueueInv
<1>7. ViewInv'
  <2> SUFFICES ASSUME ~closed, ~rejected, NEW t \in Subs, status'[t] = "open", dropped[t] = 0,
                      NEW x \in Sources
               PROVE  LastKnown(queue'[t], view[t], x, Announced(t, x)', state[x])
    BY DEF ViewInv
  <2>1. t # s
    BY <1>1
  <2> QED
    BY <1>1, <2>1 DEF IInv, ViewInv, Announced
<1> QED
  BY <1>3, <1>4, <1>6, <1>7 DEF IInv

LEMMA CloseSubscriptionIInv ==
  ASSUME IInv, NEW s \in Subs, CloseSubscription(s) PROVE IInv'
<1> USE DEF CloseSubscription
<1>1. status[s] = "open" /\ \A t \in Subs : Pending(t)' = Pending(t)
  BY DEF IInv, LockInv, Pending
<1>2. LockInv'
  BY DEF IInv, LockInv, TypeOK, CloseFromPublisher, sourceVars
<1>3. /\ targets' \in SUBSET Subs /\ subscriptions' \in SUBSET Subs /\ closed' \in BOOLEAN
      /\ holder' \in {"free", "publish", "subscribe", "close"}
  BY DEF IInv, TypeOK
<1> QED
  BY <1>1, <1>2, <1>3, CloseFromPublisherIInv

LEMMA CloseOneIInv ==
  ASSUME IInv, NEW s \in Subs, CloseOne(s) PROVE IInv'
<1> USE DEF CloseOne, Visited
<1>1. status[s] = "open" /\ \A t \in Subs : Pending(t)' = Pending(t)
  BY DEF IInv, LockInv, Pending
<1>2. LockInv'
  BY DEF IInv, LockInv, TypeOK, CloseFromPublisher, sourceVars
<1>3. /\ targets' \in SUBSET Subs /\ subscriptions' \in SUBSET Subs /\ closed' \in BOOLEAN
      /\ holder' \in {"free", "publish", "subscribe", "close"}
  BY DEF IInv, TypeOK
<1> QED
  BY <1>1, <1>2, <1>3, CloseFromPublisherIInv

LEMMA CloseBeginIInv ==
  ASSUME IInv, CloseBegin PROVE IInv'
<1> USE DEF CloseBegin, sourceVars, consumerVars
<1>1. TypeOK'
  BY DEF IInv, TypeOK, SubscriptionTypeOK
<1>2. DataInv' /\ ViewInv'
  BY DEF IInv, DataInv, ViewInv
<1>3. LockInv'
  BY DEF IInv, LockInv, TypeOK
<1>4. NewInv' /\ QueueInv'
  BY QuietQueues DEF Pending
<1> QED
  BY <1>1, <1>2, <1>3, <1>4 DEF IInv

\* What a get takes and leaves.
LEMMA GetFacts ==
  ASSUME IInv, NEW s \in Subs, Get(s)
  PROVE  /\ status[s] = "open" /\ Head(queue[s]) \in Events /\ Head(queue[s]) = queue[s][1]
         /\ queue'[s] = Tail(queue[s]) /\ queue'[s] \in Seq(Events)
         /\ Len(queue[s]) \in Nat /\ Len(queue[s]) >= 1 /\ Len(queue'[s]) = Len(queue[s]) - 1
         /\ Numbered(queue'[s], Head(queue[s]).sequence, sequence - Pending(s))
         /\ SnapshotCount(queue'[s]) = 0
         /\ Head(queue[s]).sequence \in Nat /\ Head(queue[s]).sequence <= sequence
         /\ IF Head(queue[s]).kind = "snapshot"
            THEN SnapshotCount(queue[s]) = 1 /\ Head(queue[s]).sequence = Cursor(s)
                 /\ DOMAIN Head(queue[s]).payload = Sources /\ seen[s] = -1
            ELSE SnapshotCount(queue[s]) = 0 /\ Head(queue[s]).sequence > Cursor(s)
         /\ seen'[s] = Head(queue[s]).sequence /\ Cursor(s)' = Head(queue[s]).sequence
         /\ \A t \in Subs : t # s => Cursor(t)' = Cursor(t)
<1>1. /\ status[s] = "open" /\ queue[s] # <<>> /\ queue'[s] = Tail(queue[s])
      /\ seen'[s] = Head(queue[s]).sequence /\ queue[s] \in Seq(Events)
      /\ \A t \in Subs : t # s => seen'[t] = seen[t]
      /\ UNCHANGED start
  BY DEF Get, IInv, DataInv, TypeOK
<1>2. /\ Head(queue[s]) \in Events /\ Head(queue[s]) = queue[s][1]
      /\ queue'[s] \in Seq(Events)
      /\ Len(queue[s]) \in Nat /\ Len(queue[s]) >= 1 /\ Len(queue'[s]) = Len(queue[s]) - 1
  BY <1>1, TailFacts
<1>3. /\ Numbered(queue[s], Cursor(s), sequence - Pending(s))
      /\ SnapshotCount(queue[s]) = 1 => seen[s] = -1 /\ DOMAIN queue[s][1].payload = Sources
  BY <1>1 DEF IInv, QueueInv
<1>4. Cursor(s) \in Nat /\ sequence - Pending(s) \in Int /\ sequence - Pending(s) <= sequence
  BY Typed
<1>5. /\ Numbered(queue'[s], Head(queue[s]).sequence, sequence - Pending(s))
      /\ SnapshotCount(queue'[s]) = 0
  <2> DEFINE last == sequence - Pending(s)
  <2>1. last \in Int /\ Numbered(queue[s], Cursor(s), last) /\ Cursor(s) \in Int
    BY <1>3, <1>4
  <2> HIDE DEF last
  <2>2. Numbered(Tail(queue[s]), Head(queue[s]).sequence, last) /\ SnapshotCount(Tail(queue[s])) = 0
    BY <1>1, <2>1, NumberedTail
  <2> QED
    BY <1>1, <2>2 DEF last
<1>6. /\ queue[s][1].sequence <= sequence - Pending(s) /\ queue[s][1].sequence \in Nat
      /\ IF queue[s][1].kind = "snapshot" THEN queue[s][1].sequence = Cursor(s)
                                         ELSE queue[s][1].sequence > Cursor(s)
  <2>1. 1 \in 1 .. Len(queue[s])
    BY <1>2
  <2> QED
    BY <1>2, <1>3, <2>1, EventFacts DEF Numbered
<1>7. /\ queue[s][1].kind = "snapshot" => SnapshotCount(queue[s]) = 1
      /\ queue[s][1].kind # "snapshot" => SnapshotCount(queue[s]) = 0
  BY <1>2 DEF SnapshotCount
<1>8. /\ Cursor(s)' = Head(queue[s]).sequence
      /\ \A t \in Subs : t # s => Cursor(t)' = Cursor(t)
  BY <1>1, <1>2, <1>6 DEF Cursor
<1>9. Head(queue[s]).sequence <= sequence
  <2>1. sequence \in Nat
    BY Typed
  <2> QED
    BY <1>2, <1>4, <1>6, <2>1
<1> QED
  BY <1>1, <1>2, <1>3, <1>5, <1>6, <1>7, <1>8, <1>9

LEMMA GetIInv ==
  ASSUME IInv, NEW s \in Subs, Get(s) PROVE IInv'
<1> DEFINE head == Head(queue[s])
<1>1. /\ status[s] = "open" /\ queue[s] # <<>> /\ queue'[s] = Tail(queue[s])
      /\ seen' = [seen EXCEPT ![s] = head.sequence]
      /\ received'[s] = received[s] + (IF head.kind = "snapshot" THEN 0 ELSE 1)
      /\ view'[s] = [x \in Sources |-> IF x \in DOMAIN head.payload THEN head.payload[x]
                                                                 ELSE view[s][x]]
      /\ \A t \in Subs : t # s => /\ queue'[t] = queue[t] /\ seen'[t] = seen[t]
                                  /\ received'[t] = received[t] /\ view'[t] = view[t]
      /\ UNCHANGED <<state, emitted, rejected, sequence, closed, subscriptions, holder, targets,
                     draft, status, dropped, start>>
  BY DEF Get, IInv, DataInv, TypeOK, sourceVars, publisherVars
<1>2. queue' \in [Subs -> Seq(Events)] /\ received' \in [Subs -> Nat] /\ seen' \in [Subs -> Int]
  <2>1. queue' = [queue EXCEPT ![s] = Tail(queue[s])] /\ Tail(queue[s]) \in Seq(Events)
    BY <1>1, GetFacts DEF Get
  <2>2. received' = [received EXCEPT ![s] = received'[s]] /\ received'[s] \in Nat
    BY <1>1, Typed DEF Get, IInv, TypeOK
  <2>3. head.sequence \in Int
    BY GetFacts
  <2> QED
    BY <1>1, <2>1, <2>2, <2>3 DEF IInv, DataInv, TypeOK
<1>3. view' \in [Subs -> [Sources -> Nat]]
  <2>1. \A x \in Sources : (IF x \in DOMAIN head.payload THEN head.payload[x] ELSE view[s][x]) \in Nat
    BY GetFacts, EventFacts DEF IInv, DataInv
  <2>2. view'[s] \in [Sources -> Nat]
    BY <1>1, <2>1
  <2>3. view' = [view EXCEPT ![s] = view'[s]]
    BY DEF Get, IInv, DataInv
  <2> QED
    BY <2>2, <2>3 DEF IInv, DataInv
<1>4. \A t \in Subs : Pending(t)' = Pending(t)
  BY <1>1 DEF Pending
<1>5. TypeOK'
  <2>1. SubscriptionTypeOK'
    <3>1. ASSUME NEW i \in DOMAIN queue'[s] PROVE queue'[s][i].sequence \in 0 .. sequence
      <4>1. /\ i + 1 \in 1 .. Len(queue[s]) /\ queue'[s][i] = queue[s][i + 1]
        <5>1. i \in 1 .. Len(queue[s]) - 1
          BY <3>1, GetFacts
        <5> QED
          BY <1>1, <5>1, GetFacts, Typed, TailFacts
      <4>2. DOMAIN queue[s] = 1 .. Len(queue[s])
        BY Typed
      <4> QED
        BY <4>1, <4>2 DEF IInv, TypeOK, SubscriptionTypeOK
    <3>2. Len(queue'[s]) <= QueueCapacity
      BY GetFacts, Typed, EventsAssumption
    <3> QED
      BY <1>1, <3>1, <3>2 DEF IInv, TypeOK, SubscriptionTypeOK
  <2> QED
    BY <1>1, <1>2, <2>1 DEF IInv, TypeOK
<1>6. DataInv'
  BY <1>1, <1>2, <1>3, GetFacts DEF IInv, DataInv
<1>7. LockInv'
  BY <1>1 DEF IInv, LockInv
<1>8. NewInv'
  BY <1>1 DEF IInv, NewInv
<1>9. QueueInv'
  <2> SUFFICES ASSUME NEW t \in Subs, status[t] = "open"
               PROVE /\ Numbered(queue'[t], Cursor(t)', sequence - Pending(t))
                     /\ SnapshotCount(queue'[t]) = 1 =>
                          seen'[t] = -1 /\ DOMAIN queue'[t][1].payload = Sources
                     /\ sequence - Pending(t) - start[t]
                          = received'[t] + Len(queue'[t]) - SnapshotCount(queue'[t]) + dropped[t]
    BY <1>1, <1>4 DEF QueueInv
  <2>1. CASE t # s
    BY <1>1, <2>1, GetFacts DEF IInv, QueueInv
  <2>2. CASE t = s
    <3> DEFINE gap == sequence - Pending(s) - start[s]
               held == Len(queue[s])
               snap == SnapshotCount(queue[s])
               taken == received[s]
               gone == dropped[s]
    <3>1. gap = taken + held - snap + gone
      BY <1>1 DEF IInv, QueueInv
    <3>2. held \in Nat /\ taken \in Nat /\ gone \in Nat /\ snap \in {0, 1} /\ gap \in Int
      BY Typed
    <3>3. received'[s] = taken + (1 - snap) /\ Len(queue'[s]) = held - 1
          /\ SnapshotCount(queue'[s]) = 0
      BY <1>1, <3>2, GetFacts
    <3> HIDE DEF gap, held, snap, taken, gone
    <3>4. gap = (taken + (1 - snap)) + (held - 1) - 0 + gone
      BY <3>1, <3>2
    <3>5. Numbered(queue'[s], Cursor(s)', sequence - Pending(s))
      BY GetFacts
    <3> QED
      BY <2>2, <3>3, <3>4, <3>5 DEF gap, gone
  <2> QED
    BY <2>1, <2>2
<1>10. ViewInv'
  <2> SUFFICES ASSUME ~closed, ~rejected, NEW t \in Subs, status[t] = "open", dropped[t] = 0,
                      NEW x \in Sources
               PROVE  LastKnown(queue'[t], view'[t], x, Announced(t, x), state[x])
    BY <1>1, <1>4 DEF ViewInv, Announced
  <2>1. LastKnown(queue[t], view[t], x, Announced(t, x), state[x])
    BY DEF IInv, ViewInv
  <2>2. CASE t # s
    BY <1>1, <2>1, <2>2
  <2>3. CASE t = s
    <3>1. view'[s][x] = IF x \in DOMAIN head.payload THEN head.payload[x] ELSE view[s][x]
      BY <1>1
    <3>2. queue[s] \in Seq(Events)
      BY Typed
    <3> QED
      BY <1>1, <2>1, <2>3, <3>1, <3>2, KnownTail
  <2> QED
    BY <2>2, <2>3
<1> QED
  BY <1>5, <1>6, <1>7, <1>8, <1>9, <1>10 DEF IInv

\* --------------------------------------------------------- the specification
LEMMA NextIInv == IInv /\ [Next]_vars => IInv'
<1> SUFFICES ASSUME IInv, [Next]_vars PROVE IInv'
  OBVIOUS
<1>1. ASSUME NEW src \in Sources,
             \/ SourceChange(src) \/ PublishBegin(src) \/ PublishOversized(src)
             \/ PublishClosed(src) \/ SubscribeRead(src)
      PROVE  IInv'
  BY <1>1, SourceChangeIInv, PublishBeginIInv, PublishNothingIInv, SubscribeReadIInv
<1>2. ASSUME NEW s \in Subs,
             \/ Enqueue(s) \/ SubscribeEnd(s) \/ CloseOne(s)
             \/ SubscribeBegin(s) \/ CloseSubscription(s) \/ Get(s)
      PROVE  IInv'
  BY <1>2, EnqueueIInv, SubscribeEndIInv, CloseOneIInv, SubscribeBeginIInv,
     CloseSubscriptionIInv, GetIInv
<1>3. CASE CloseBegin
  BY <1>3, CloseBeginIInv
<1>4. CASE SubscribeOversized
  BY <1>4, SubscribeOversizedIInv
<1>5. CASE UNCHANGED vars
  BY <1>5 DEF vars, sourceVars, publisherVars, consumerVars, IInv, TypeOK, SubscriptionTypeOK,
              DataInv, LockInv, NewInv, QueueInv, ViewInv, Pending, Cursor, Announced
<1> QED
  BY <1>1, <1>2, <1>3, <1>4, <1>5 DEF Next, PublisherStep

\* IInv is inductive: it holds initially, and publish, get, subscribe and both
\* closes preserve it, at whatever step the others are.
THEOREM Invariance == Spec => []IInv
  BY InitIInv, NextIInv, PTL DEF Spec

\* The events waiting in a queue are all of it but the snapshot.
LEMMA QueuedCount ==
  ASSUME IInv, NEW s \in Subs, status[s] = "open"
  PROVE  Cardinality(QueuedEvents(s)) = Len(queue[s]) - SnapshotCount(queue[s])
<1> DEFINE n == Len(queue[s])
           first == 1 + SnapshotCount(queue[s])
<1>1. /\ n \in Nat /\ SnapshotCount(queue[s]) \in {0, 1} /\ DOMAIN queue[s] = 1 .. n
      /\ SnapshotCount(queue[s]) <= n
  BY Typed DEF SnapshotCount
<1>2. ASSUME NEW i \in 1 .. n
      PROVE  queue[s][i].kind # "snapshot" <=> i >= first
  <2>1. queue[s][i].kind = "snapshot" => i = 1
    BY DEF IInv, QueueInv, Numbered
  <2> QED
    BY <1>1, <2>1 DEF SnapshotCount
<1>3. QueuedEvents(s) = first .. n
  <2>1. \A i : i \in first .. n <=> i \in 1 .. n /\ i >= first
    BY <1>1
  <2> QED
    BY <1>1, <1>2, <2>1 DEF QueuedEvents
<1>4. first \in Int /\ n \in Int /\ first <= n + 1 /\ n - first + 1 = n - SnapshotCount(queue[s])
  BY <1>1
<1> HIDE DEF first, n
<1>5. Cardinality(first .. n) = n - first + 1
  <2>1. Cardinality(first .. n) = IF first > n THEN 0 ELSE n - first + 1
    BY <1>4, FS_Interval
  <2> QED
    BY <1>4, <2>1
<1> QED
  BY <1>3, <1>4, <1>5 DEF n

\* Every event since a subscription's snapshot is accounted for, for any number
\* of subscriptions and sources and any capacity.
LEMMA LossesCounted == IInv => LossAccounted
<1> SUFFICES ASSUME IInv, NEW s \in Subs, status[s] = "open", holder # "close"
             PROVE  sequence - start[s]
                      = received[s] + Cardinality(QueuedEvents(s)) + dropped[s]
                          + (IF s \in targets THEN 1 ELSE 0)
  BY DEF LossAccounted
<1> DEFINE held == Len(queue[s])
           snap == SnapshotCount(queue[s])
           taken == received[s]
           gone == dropped[s]
           first == start[s]
           late == Pending(s)
<1>1. (IF s \in targets THEN 1 ELSE 0) = late
  BY DEF IInv, TypeOK, LockInv, Pending
<1>2. Cardinality(QueuedEvents(s)) = held - snap
  BY QueuedCount
<1>3. /\ held \in Nat /\ snap \in {0, 1} /\ taken \in Nat /\ gone \in Nat /\ first \in Nat
      /\ late \in {0, 1} /\ sequence \in Nat
  BY Typed
<1>4. sequence - late - first = taken + held - snap + gone
  BY DEF IInv, QueueInv
<1> HIDE DEF held, snap, taken, gone, first, late
<1>5. sequence - first = taken + (held - snap) + gone + late
  BY <1>3, <1>4
<1> QED
  BY <1>1, <1>2, <1>5 DEF taken, gone, first

\* A consumer that caught up and lost nothing sees the sources as they are.
LEMMA StaleExplained == IInv => StaleOnlyAfterLoss
<1> SUFFICES ASSUME IInv, NEW s \in Subs, Registered(s), queue[s] = <<>>, emitted = state, ~closed,
                    ~(dropped[s] > 0), ~rejected
             PROVE  view[s] = state
  BY DEF StaleOnlyAfterLoss
<1>1. dropped[s] = 0 /\ Pending(s) = 0
  BY Typed DEF Registered, Pending
<1>2. ASSUME NEW x \in Sources PROVE view[s][x] = state[x]
  <2>1. LastKnown(queue[s], view[s], x, Announced(s, x), state[x])
    BY <1>1 DEF IInv, ViewInv, Registered
  <2>2. Announced(s, x) = state[x] /\ state[x] \in Nat
    BY <1>1, Typed DEF Announced
  <2>3. Silent(queue[s], x, 1)
    BY DEF Silent
  <2>4. view[s][x] \in state[x] .. state[x]
    BY <2>1, <2>2, <2>3 DEF LastKnown
  <2> QED
    BY <2>2, <2>4
<1>3. view[s] \in [Sources -> Nat] /\ state \in [Sources -> Nat]
  BY DEF IInv, DataInv, TypeOK, Versions
<1> QED
  BY <1>2, <1>3

\* The exact count of drop-oldest, and that nothing else makes a picture stale.
THEOREM LossCounted == Spec => []LossesAccounted
<1>1. IInv => LossesAccounted
  BY LossesCounted, StaleExplained DEF IInv, LossesAccounted
<1> QED
  BY <1>1, Invariance, PTL

\* ----------------------------------------------------------- the lossy feed
\* The publisher starts as the lossy feed starts.
LEMMA FeedStart == Init => Feed!FeedInit
  BY DEF Init, Feed!FeedInit

\* Only the steps the feed can see change its picture of the publisher.
LEMMA FeedStutter ==
  ASSUME UNCHANGED <<sequence, status, start, seen>>
  PROVE  UNCHANGED Feed!feedVars
  BY DEF Feed!feedVars

\* A subscription that is closed has left the feed.
LEMMA FeedLeave ==
  ASSUME IInv, NEW s \in Subs, status[s] = "open", CloseFromPublisher(s),
         UNCHANGED <<sequence, start, seen>>
  PROVE  Feed!Leave(s)
<1>1. status' = [status EXCEPT ![s] = "closed"] /\ status \in [Subs -> {"none", "open", "closed"}]
  BY DEF CloseFromPublisher, IInv, TypeOK
<1>2. /\ {t \in Subs : status'[t] = "closed"} = {t \in Subs : status[t] = "closed"} \cup {s}
      /\ {t \in Subs : status'[t] # "none"} = {t \in Subs : status[t] # "none"}
  BY <1>1
<1> QED
  BY <1>1, <1>2 DEF Feed!Leave

\* Every step of the publisher is a step of the feed or invisible to it.
LEMMA FeedStep == IInv /\ [Next]_vars => [Feed!FeedNext]_(Feed!feedVars)
<1> SUFFICES ASSUME IInv, [Next]_vars PROVE [Feed!FeedNext]_(Feed!feedVars)
  OBVIOUS
<1>1. ASSUME NEW src \in Sources, PublishBegin(src) PROVE Feed!Publish
  BY <1>1 DEF PublishBegin, consumerVars, Feed!Publish
<1>2. ASSUME NEW s \in Subs, SubscribeEnd(s) PROVE Feed!Join(s)
  <2>1. /\ status[s] = "none" /\ seen[s] = -1 /\ status' = [status EXCEPT ![s] = "open"]
        /\ start' = [start EXCEPT ![s] = sequence] /\ UNCHANGED <<sequence, seen>>
    BY <1>2 DEF SubscribeEnd, consumerVars, IInv, LockInv, NewInv
  <2>2. status \in [Subs -> {"none", "open", "closed"}] /\ start \in [Subs -> Nat]
    BY DEF IInv, TypeOK
  <2>3. /\ {t \in Subs : status'[t] # "none"} = {t \in Subs : status[t] # "none"} \cup {s}
        /\ {t \in Subs : status'[t] = "closed"} = {t \in Subs : status[t] = "closed"}
    BY <2>1, <2>2
  <2>4. [t \in Subs |-> IF seen'[t] = -1 THEN start'[t] ELSE seen'[t]]
          = [[t \in Subs |-> IF seen[t] = -1 THEN start[t] ELSE seen[t]] EXCEPT ![s] = sequence]
    BY <2>1, <2>2
  <2> QED
    BY <2>1, <2>3, <2>4 DEF Feed!Join
<1>3. ASSUME NEW s \in Subs, Get(s) PROVE Feed!Deliver(s) \/ UNCHANGED Feed!feedVars
  <2> DEFINE positions == [t \in Subs |-> IF seen[t] = -1 THEN start[t] ELSE seen[t]]
             n == Head(queue[s]).sequence
  <2>1. UNCHANGED <<sequence, status, start>>
    BY <1>3 DEF Get, publisherVars
  <2>2. positions' = [positions EXCEPT ![s] = n]
    <3>1. Cursor(s)' = n /\ \A t \in Subs : t # s => Cursor(t)' = Cursor(t)
      BY <1>3, GetFacts
    <3> QED
      BY <3>1 DEF Cursor
  <2>3. positions[s] = Cursor(s)
    BY DEF Cursor
  <2>4. CASE Head(queue[s]).kind = "snapshot"
    <3>1. n = positions[s]
      BY <1>3, <2>3, <2>4, GetFacts
    <3>2. positions' = positions
      BY <2>2, <3>1
    <3> QED
      BY <2>1, <3>2 DEF Feed!feedVars
  <2>5. CASE Head(queue[s]).kind # "snapshot"
    <3>1. n \in (positions[s] + 1) .. sequence
      BY <1>3, <2>3, <2>5, GetFacts, Typed
    <3>2. s \in {t \in Subs : status[t] # "none"} \ {t \in Subs : status[t] = "closed"}
      BY <1>3, GetFacts
    <3> QED
      BY <2>1, <2>2, <3>1, <3>2 DEF Feed!Deliver
  <2> QED
    BY <2>4, <2>5
<1>4. ASSUME NEW s \in Subs, CloseSubscription(s) \/ CloseOne(s) PROVE Feed!Leave(s)
  <2>1. status[s] = "open" /\ CloseFromPublisher(s) /\ UNCHANGED <<sequence, start, seen>>
    BY <1>4 DEF CloseSubscription, CloseOne, consumerVars, IInv, LockInv
  <2> QED
    BY <2>1, FeedLeave
<1>5. ASSUME \/ \E src \in Sources : \/ SourceChange(src) \/ PublishOversized(src)
                                     \/ PublishClosed(src) \/ SubscribeRead(src)
             \/ \E s \in Subs : Enqueue(s) \/ SubscribeBegin(s)
             \/ SubscribeOversized \/ CloseBegin \/ UNCHANGED vars
      PROVE  UNCHANGED <<sequence, status, start, seen>>
  BY <1>5 DEF SourceChange, PublishOversized, PublishClosed, SubscribeRead, Enqueue,
              SubscribeBegin, SubscribeOversized, CloseBegin, vars, sourceVars, publisherVars,
              consumerVars
<1> QED
  BY <1>1, <1>2, <1>3, <1>4, <1>5, FeedStutter DEF Next, PublisherStep, Feed!FeedNext

\* The publisher implements the lossy feed, for any number of subscriptions.
THEOREM Refinement == Spec => FeedSpec
  BY FeedStart, FeedStep, Invariance, PTL DEF Spec, FeedSpec, Feed!FeedSpec

=============================================================================

---------------------------- MODULE MCWorkers_proof ----------------------------
(***************************************************************************)
(* Proofs about the workers that end, a Broadcastify destination and the   *)
(* audio of a scanner on the network, for any capacity, chunk sizes,       *)
(* retries, titles and faults: every byte of a destination's audio and     *)
(* every packet of a scanner's is accounted for, reported states are true, *)
(* and a session that is over has let go of everything.                    *)
(*                                                                         *)
(* A queue holds numbers, and Bytes sums them: the lemmas about it are     *)
(* proved from the sums of its beginnings, by their least counterexample.  *)
(* The invariant of the sink ties what is reported to where its worker is; *)
(* that of the network follows the owner from start to stop, and measures  *)
(* what was lost by the places of the first and the last packet delivered. *)
(***************************************************************************)
EXTENDS MCWorkers, SequenceTheorems, WellFoundedInduction, TLAPS

\* ---------------------------------------------------------------- the invariants
CountersOf == {"submitted", "written", "dropped"}
States == {"idle", "connecting", "connected", "backoff", "failed", "stopping", "stopped"}

\* Of the sink.
SinkTypes ==
  /\ queue \in Seq(Nat) /\ chunk \in Nat /\ counts \in [CountersOf -> Nat]
  /\ state \in States /\ retries \in Nat
  /\ stopping \in BOOLEAN /\ stopped \in BOOLEAN /\ finishes \in BOOLEAN
  /\ active \in BOOLEAN /\ held \in BOOLEAN

\* No byte is in two places, and the queue keeps to its capacity.
BytesInv ==
  /\ Bytes(queue) <= Capacity
  /\ counts.submitted = counts.written + counts.dropped + Bytes(queue) + chunk
  /\ chunk # 0 => worker \in {"write", "writing", "broken"}

\* What a worker on its way out has behind it, and what the reported state says.
LifeInv ==
  /\ worker \in {"failed", "final", "last", "lastJoin", "exit", "ended"} => stopping
  /\ stopping => queue = <<>> /\ state # "connected"
  /\ worker \in {"last", "lastJoin", "exit", "ended"} => ~active
  /\ worker \in {"exit", "ended"} => connection = None
  /\ stopped \/ state = "stopped" => worker = "ended"
  /\ state = "connected" => active \/ worker \in {"closing", "joining", "settle", "failing"}
  /\ retries <= MaxAttempts + 1
  /\ worker \notin {"failed", "final", "last", "lastJoin", "exit", "ended"}
       => retries <= MaxAttempts

SinkInv == SinkTypes /\ BytesInv /\ LifeInv

\* Of the titles.
Numbered == [generation : 1 .. MaxTitles, title : Titles]

PublisherInv ==
  /\ generation \in Nat /\ pending \in {None} \cup Numbered /\ current \in {None} \cup Numbered
  /\ tries \in Nat /\ tries <= MaxAttempts + 1
  /\ pending # None => tries <= MaxAttempts
  /\ request \in {"none", "open", "interrupted"}
  /\ leaving \in BOOLEAN /\ failed \in BOOLEAN /\ gaveUp \in BOOLEAN

\* ------------------------------------------------------------------ the network
Places == Network!Places
Fields == Network!Fields
Ended(thread) == thread \in {"none", "ended"}

Starting == {"socket", "connect", "OPTIONS", "DESCRIBE", "SETUP", "PLAY", "publish"}
Over == {"unsubscribe", "finish", "stopped", "failed"}

NetworkTypes ==
  /\ sock \in {"none", "open", "closed"} /\ client \in {"none", "open", "closed"}
  /\ wav \in {"none", "open", "closed"} /\ asking \in {"nobody", "keeper", "owner"}
  /\ reader \in {"none", "loop", "receive", "deliver", "emit", "write", "ended"}
  /\ keeper \in {"none", "wait", "take", "ask", "ended"}
  /\ waiting \in Nat /\ faults \in Nat /\ (waiting > 0 => faults > 0)

TallyTypes == tally \in [Fields -> Nat]

FlagTypes ==
  /\ failing \in BOOLEAN /\ published \in BOOLEAN /\ handler \in BOOLEAN
  /\ subscribed \in BOOLEAN /\ stuck \in BOOLEAN

PacketTypes ==
  /\ previous \in {0} \cup Places /\ first \in {0} \cup Places /\ shift \in {0, 2}
  /\ recent \in Seq(Nat) /\ Len(recent) <= 2
  /\ clock \in -1 .. 7

\* Where the owner is, and what it has, and has let go of.
OwnerInv ==
  /\ pc \in {"idle", "undo"} \cup Starting => Ended(reader) /\ Ended(keeper) /\ ~published
  /\ pc \in Starting => wav = "open" /\ subscribed
  /\ pc \in Starting \ {"socket"} => handler
  /\ pc \in {"idle", "undo"} \cup Starting => reader = "none"
  /\ pc \in {"idle"} \cup Starting => ~failing
  /\ pc = "undo" => failing
  /\ pc = "recording" => published /\ ~failing
  /\ pc = "stop stream" => (published <=> ~failing)
  /\ pc = "stop stream" /\ ~published => sock # "open" /\ client # "open"
  /\ pc = "idle" => sock = "none" /\ client = "none"
  /\ pc = "close" => client # "open"
  /\ pc \in {"join", "reset"} \cup Over => sock # "open" /\ client # "open"
  /\ pc \in {"stopped", "failed"} => wav # "open"
  /\ asking = "owner" => pc = "teardown"

\* A thread that runs has what it needs, unless it was given up.
ThreadInv ==
  /\ pc \in {"reset"} \cup Over /\ ~stuck => Ended(reader) /\ Ended(keeper)
  /\ ~Ended(reader) /\ ~stuck => handler /\ subscribed /\ wav = "open"

\* What became of the packets that came through.
CountInv ==
  /\ tally["received"] = tally["delivered"] + tally["duplicate"] + tally["late"] + tally["foreign"]
  /\ tally["delivered"] = tally["written"] + tally["failed"] + tally["refused"] + tally["unheard"]
                           + (IF reader \in {"deliver", "emit", "write"} THEN 1 ELSE 0)
  /\ tally["refused"] > 0 \/ tally["unheard"] > 0 => stuck

\* What was delivered and lost, from the first packet to the last.
PacketInv ==
  /\ previous = 0 /\ pc \notin Over
       => tally["lost"] = 0 /\ tally["delivered"] = 0 /\ first = 0 /\ clock = -1
  /\ previous # 0 => first # 0 /\ tally["lost"] = previous - first + 1 - tally["delivered"]
  /\ previous # 0 /\ shift = 0 => clock = previous % 8
  /\ shift = 0 => tally["samples"] = tally["lost"]
  /\ \A i \in 1 .. Len(recent) : \E place \in Places : place <= previous /\ recent[i] = place % 8

\* A scanner that nothing went wrong with was told to stop, once.
ServerInv ==
  /\ pc \in {"idle", "undo", "recording", "stop stream", "lock", "teardown"} \cup Starting
       => tally["teardowns"] = 0
  /\ pc = "close" /\ faults = 0 => server = "gone" /\ tally["teardowns"] = 1
  /\ pc \in {"join", "reset"} \cup Over /\ ~failing /\ faults = 0
       => server = "gone" /\ tally["teardowns"] = 1
  /\ pc = "stopped" => ~failing

NetworkInv ==
  /\ NetworkTypes /\ FlagTypes /\ TallyTypes /\ PacketTypes
  /\ OwnerInv /\ ThreadInv /\ CountInv /\ PacketInv /\ ServerInv

WorkersInv == SinkInv /\ PublisherInv /\ NetworkInv

\* -------------------------------------------------------------- sums of a queue
\* A nonempty set of numbers has a least member.
LEMMA LeastNumber ==
  ASSUME NEW T, T \subseteq Nat, T # {}
  PROVE  \E x \in T : \A y \in T : x <= y
<1> DEFINE R == OpToRel(<, Nat)
<1>1. IsWellFoundedOn(R, Nat)
  BY NatLessThanWellFounded
<1>2. \A x, y \in Nat : x < y => <<x, y>> \in R
  BY DEF OpToRel
<1> HIDE DEF R
<1>3. PICK x \in T : \A y \in T : ~ (<<y, x>> \in R)
  BY <1>1, WFMin
<1>4. ASSUME NEW y \in T PROVE x <= y
  <2>1. x \in Nat /\ y \in Nat /\ ~ (y < x)
    BY <1>2, <1>3
  <2> QED
    BY <2>1
<1> QED
  BY <1>4

\* P holds the sums of the first 0, 1, 2, ... members of q.
Sums(P, q) ==
  /\ P \in [0 .. Len(q) -> Nat] /\ P[0] = 0
  /\ \A n \in 1 .. Len(q) : P[n] = P[n - 1] + q[n]

Summed(q, f) == f = [n \in 0 .. Len(q) |-> IF n = 0 THEN 0 ELSE f[n - 1] + q[n]]

\* Such sums exist.
LEMMA SumsExist ==
  ASSUME NEW q \in Seq(Nat)
  PROVE  \E P : Sums(P, q)
<1> DEFINE Upto(n, f) == /\ f \in [0 .. n -> Nat] /\ f[0] = 0
                         /\ \A i \in 1 .. n : f[i] = f[i - 1] + q[i]
           Bad == {n \in 0 .. Len(q) : ~ \E f : Upto(n, f)}
<1>1. CASE Bad = {}
  <2>1. Len(q) \in 0 .. Len(q)
    OBVIOUS
  <2>2. \E f : Upto(Len(q), f)
    BY <1>1, <2>1
  <2> QED
    BY <2>2 DEF Sums
<1>2. CASE Bad # {}
  <2>1. Bad \subseteq Nat
    OBVIOUS
  <2>2. PICK m \in Bad : \A y \in Bad : m <= y
    BY <1>2, <2>1, LeastNumber
  <2>3. m # 0
    <3>1. SUFFICES ASSUME m = 0 PROVE FALSE
      OBVIOUS
    <3>2. Upto(0, [i \in 0 .. 0 |-> 0])
      OBVIOUS
    <3> QED
      BY <3>1, <3>2
  <2>4. m \in Nat /\ m - 1 \in 0 .. Len(q) /\ m \in 1 .. Len(q) /\ ~ (m <= m - 1)
    BY <2>3
  <2>5. PICK f : Upto(m - 1, f)
    BY <2>2, <2>4
  <2> DEFINE g == [i \in 0 .. m |-> IF i = m THEN f[m - 1] + q[m] ELSE f[i]]
  <2>6. f[m - 1] \in Nat /\ q[m] \in Nat
    BY <2>4, <2>5
  <2>7. g \in [0 .. m -> Nat] /\ g[0] = 0
    BY <2>4, <2>5, <2>6
  <2>8. ASSUME NEW i \in 1 .. m PROVE g[i] = g[i - 1] + q[i]
    BY <2>4, <2>5, <2>8
  <2>9. Upto(m, g)
    BY <2>7, <2>8
  <2> QED
    BY <2>9
<1> QED
  BY <1>1, <1>2

\* Bytes is the last of the sums.
LEMMA BytesSums ==
  ASSUME NEW q \in Seq(Nat)
  PROVE  \E P : Sums(P, q) /\ Bytes(q) = P[Len(q)]
<1> DEFINE F == CHOOSE f : Summed(q, f)
<1>1. PICK P : Sums(P, q)
  BY SumsExist
<1>2. Summed(q, P)
  BY <1>1 DEF Summed, Sums
<1>3. Summed(q, F)
  BY <1>2
<1> HIDE DEF F
<1>4. F[0] = 0 /\ \A n \in 1 .. Len(q) : F[n] = F[n - 1] + q[n]
  BY <1>3 DEF Summed
<1>5. ASSUME NEW n \in 0 .. Len(q) PROVE F[n] = P[n]
  <2> DEFINE Bad == {i \in 0 .. Len(q) : F[i] # P[i]}
  <2>1. SUFFICES ASSUME Bad # {} PROVE FALSE
    BY <1>5
  <2>0. Bad \subseteq Nat
    OBVIOUS
  <2>2. PICK m \in Bad : \A y \in Bad : m <= y
    BY <2>0, <2>1, LeastNumber
  <2>3. m # 0
    BY <1>1, <1>4, <2>2 DEF Sums
  <2>4. m \in 1 .. Len(q) /\ m - 1 \in 0 .. Len(q) /\ ~ (m <= m - 1)
    BY <2>3
  <2>5. F[m - 1] = P[m - 1]
    BY <2>2, <2>4
  <2> QED
    BY <1>1, <1>4, <2>2, <2>4, <2>5 DEF Sums
<1>6. Bytes(q) = F[Len(q)]
  BY DEF Bytes, F, Summed
<1>7. Len(q) \in 0 .. Len(q)
  OBVIOUS
<1> QED
  BY <1>1, <1>5, <1>6, <1>7

\* r is what stands in q after its first a members.
Part(q, r, a) ==
  a \in Nat /\ a + Len(r) <= Len(q) /\ \A i \in 1 .. Len(r) : r[i] = q[a + i]

\* The sums of a part are those of the whole, from where it begins.
LEMMA SumsOfPart ==
  ASSUME NEW q \in Seq(Nat), NEW P, Sums(P, q), NEW r \in Seq(Nat), NEW Q, Sums(Q, r),
         NEW a, Part(q, r, a)
  PROVE  P[a] \in Nat /\ \A n \in 0 .. Len(r) : Q[n] \in Nat /\ P[a + n] = P[a] + Q[n]
<1> DEFINE Bad == {n \in 0 .. Len(r) : P[a + n] # P[a] + Q[n]}
<1>0. Len(r) \in Nat /\ Len(q) \in Nat
  OBVIOUS
<1>1. a \in Nat /\ a + Len(r) <= Len(q) /\ a \in 0 .. Len(q) /\ Len(r) \in Nat /\ Len(q) \in Nat
        /\ \A i \in 1 .. Len(r) : r[i] = q[a + i]
  BY <1>0 DEF Part
<1>2. P[a] \in Nat /\ \A n \in 0 .. Len(r) : Q[n] \in Nat
  BY <1>1 DEF Sums
<1>3. Bad = {}
  <2>1. SUFFICES ASSUME Bad # {} PROVE FALSE
    OBVIOUS
  <2>2. Bad \subseteq Nat
    OBVIOUS
  <2>3. PICK m \in Bad : \A y \in Bad : m <= y
    BY <2>1, <2>2, LeastNumber
  <2>4. m # 0
    BY <1>1, <1>2, <2>3 DEF Sums
  <2>5. m \in 1 .. Len(r) /\ m - 1 \in 0 .. Len(r) /\ ~ (m <= m - 1)
    BY <2>4
  <2>6. P[a + (m - 1)] = P[a] + Q[m - 1]
    BY <2>3, <2>5
  <2>7. a + m \in 1 .. Len(q) /\ (a + m) - 1 = a + (m - 1)
    BY <1>1, <2>5
  <2>8. P[a + m] = P[a + (m - 1)] + q[a + m]
    BY <2>7 DEF Sums
  <2>9. Q[m] = Q[m - 1] + r[m] /\ r[m] = q[a + m]
    BY <1>1, <2>5 DEF Sums
  <2>10. Q[m - 1] \in Nat /\ q[a + m] \in Nat
    <3>1. \A i \in 1 .. Len(q) : q[i] \in Nat
      OBVIOUS
    <3> QED
      BY <1>2, <2>5, <2>7, <3>1
  <2>11. P[a + m] = P[a] + Q[m]
    BY <1>2, <2>6, <2>8, <2>9, <2>10
  <2> QED
    BY <2>3, <2>11
<1> QED
  BY <1>2, <1>3

\* A queue's bytes are a number.
LEMMA BytesTyped ==
  \A q \in Seq(Nat) : Bytes(q) \in Nat
<1>1. ASSUME NEW q \in Seq(Nat) PROVE Bytes(q) \in Nat
  <2>1. PICK P : Sums(P, q) /\ Bytes(q) = P[Len(q)]
    BY BytesSums
  <2>2. Len(q) \in 0 .. Len(q)
    OBVIOUS
  <2> QED
    BY <2>1, <2>2 DEF Sums
<1> QED
  BY <1>1

\* An empty queue has none,
LEMMA BytesEmpty ==
  Bytes(<<>>) = 0
<1>1. <<>> \in Seq(Nat) /\ Len(<<>>) = 0
  OBVIOUS
<1>2. PICK P : Sums(P, <<>>) /\ Bytes(<<>>) = P[Len(<<>>)]
  BY <1>1, BytesSums
<1> QED
  BY <1>1, <1>2 DEF Sums

\* a chunk that is appended adds its own,
LEMMA BytesAppend ==
  ASSUME NEW q \in Seq(Nat), NEW x \in Nat
  PROVE  Append(q, x) \in Seq(Nat) /\ Bytes(Append(q, x)) = Bytes(q) + x
<1> DEFINE r == Append(q, x)
<1>1. r \in Seq(Nat) /\ Len(q) \in Nat /\ Len(r) = Len(q) + 1 /\ r[Len(r)] = x
  OBVIOUS
<1>2. \A i \in 1 .. Len(q) : q[i] = r[0 + i]
  OBVIOUS
<1> HIDE DEF r
<1>3. PICK P : Sums(P, q) /\ Bytes(q) = P[Len(q)]
  BY BytesSums
<1>4. PICK R : Sums(R, r) /\ Bytes(r) = R[Len(r)]
  BY <1>1, BytesSums
<1>5. 0 + Len(q) <= Len(r) /\ Len(q) \in 0 .. Len(q) /\ 0 \in Nat
  BY <1>1
<1>10. Part(r, q, 0)
  BY <1>1, <1>2, <1>5 DEF Part
<1>6. P[Len(q)] \in Nat /\ R[0 + Len(q)] = R[0] + P[Len(q)]
  BY <1>1, <1>3, <1>4, <1>5, <1>10, SumsOfPart
<1>7. R[Len(q)] = P[Len(q)]
  BY <1>1, <1>4, <1>6 DEF Sums
<1>8. Len(r) \in 1 .. Len(r) /\ Len(r) - 1 = Len(q)
  BY <1>1
<1>9. R[Len(r)] = R[Len(q)] + x
  BY <1>1, <1>4, <1>8 DEF Sums
<1> QED
  BY <1>1, <1>3, <1>4, <1>7, <1>9 DEF r

\* the oldest chunks and the others share them,
LEMMA BytesSplit ==
  ASSUME NEW q \in Seq(Nat), NEW n \in 0 .. Len(q)
  PROVE  /\ SubSeq(q, 1, n) \in Seq(Nat) /\ SubSeq(q, n + 1, Len(q)) \in Seq(Nat)
         /\ Bytes(q) = Bytes(SubSeq(q, 1, n)) + Bytes(SubSeq(q, n + 1, Len(q)))
<1> DEFINE f == SubSeq(q, 1, n)
           b == SubSeq(q, n + 1, Len(q))
<1>1. f \in Seq(Nat) /\ Len(f) = n /\ \A i \in 1 .. Len(f) : f[i] = q[0 + i]
  OBVIOUS
<1>2. b \in Seq(Nat) /\ Len(b) = Len(q) - n /\ \A i \in 1 .. Len(b) : b[i] = q[n + i]
  OBVIOUS
<1> HIDE DEF f, b
<1>3. Len(q) \in Nat /\ n \in Nat /\ 0 + Len(f) <= Len(q) /\ n + Len(b) = Len(q)
        /\ Len(f) \in 0 .. Len(f) /\ Len(b) \in 0 .. Len(b) /\ 0 + Len(f) = n /\ 0 \in Nat
        /\ n + Len(b) <= Len(q)
  BY <1>1, <1>2
<1>4. PICK P : Sums(P, q) /\ Bytes(q) = P[Len(q)]
  BY BytesSums
<1>5. PICK F : Sums(F, f) /\ Bytes(f) = F[Len(f)]
  BY <1>1, BytesSums
<1>6. PICK B : Sums(B, b) /\ Bytes(b) = B[Len(b)]
  BY <1>2, BytesSums
<1>11. Part(q, f, 0) /\ Part(q, b, n)
  BY <1>1, <1>2, <1>3 DEF Part
<1>7. F[Len(f)] \in Nat /\ P[0 + Len(f)] = P[0] + F[Len(f)]
  BY <1>1, <1>3, <1>4, <1>5, <1>11, SumsOfPart
<1>8. B[Len(b)] \in Nat /\ P[n + Len(b)] = P[n] + B[Len(b)]
  BY <1>2, <1>3, <1>4, <1>6, <1>11, SumsOfPart
<1>9. P[0] = 0
  BY <1>4 DEF Sums
<1>10. P[n] = Bytes(f) /\ Bytes(q) = P[n] + Bytes(b) /\ Bytes(f) \in Nat
  BY <1>3, <1>4, <1>5, <1>6, <1>7, <1>8, <1>9
<1> QED
  BY <1>1, <1>2, <1>10 DEF f, b

\* and the head takes its own away.
LEMMA BytesTail ==
  ASSUME NEW q \in Seq(Nat), q # <<>>
  PROVE  Head(q) \in Nat /\ Tail(q) \in Seq(Nat) /\ Bytes(q) = Head(q) + Bytes(Tail(q))
<1> DEFINE r == Tail(q)
<1>1. Head(q) \in Nat /\ Head(q) = q[1] /\ Len(q) \in Nat \ {0}
  OBVIOUS
<1>2. r \in Seq(Nat) /\ Len(r) = Len(q) - 1 /\ \A i \in 1 .. Len(r) : r[i] = q[1 + i]
  OBVIOUS
<1> HIDE DEF r
<1>3. Part(q, r, 1) /\ 1 + Len(r) = Len(q) /\ Len(r) \in 0 .. Len(r) /\ Len(q) \in 0 .. Len(q)
        /\ 1 \in 1 .. Len(q) /\ 1 - 1 = 0
  BY <1>1, <1>2 DEF Part
<1>4. PICK P : Sums(P, q) /\ Bytes(q) = P[Len(q)]
  BY BytesSums
<1>5. PICK R : Sums(R, r) /\ Bytes(r) = R[Len(r)]
  BY <1>2, BytesSums
<1>6. R[Len(r)] \in Nat /\ P[1 + Len(r)] = P[1] + R[Len(r)]
  BY <1>2, <1>3, <1>4, <1>5, SumsOfPart
<1>7. P[1] = P[1 - 1] + q[1] /\ P[0] = 0
  BY <1>3, <1>4 DEF Sums
<1>8. P[1] = Head(q)
  BY <1>1, <1>3, <1>7
<1> QED
  BY <1>1, <1>2, <1>3, <1>4, <1>5, <1>6, <1>8 DEF r

\* ---------------------------------------------------------------------- the sink
LEMMA SinkInit ==
  Init => SinkInv
<1>0. [submitted |-> 0, written |-> 0, dropped |-> 0] \in [CountersOf -> Nat]
  BY DEF CountersOf
<1>1. ASSUME Init PROVE SinkTypes
  <2>1. queue \in Seq(Nat)
    BY <1>1 DEF Init
  <2>2. counts \in [CountersOf -> Nat]
    BY <1>0, <1>1, Zenon DEF Init
  <2>3. state \in States /\ chunk \in Nat /\ retries \in Nat
    BY <1>1 DEF Init, States
  <2>4. stopping \in BOOLEAN /\ stopped \in BOOLEAN /\ finishes \in BOOLEAN
          /\ active \in BOOLEAN /\ held \in BOOLEAN
    BY <1>1 DEF Init
  <2> QED
    BY <2>1, <2>2, <2>3, <2>4 DEF SinkTypes
<1>2. Init => BytesInv
  BY SinkAssumption, BytesEmpty DEF Init, BytesInv
<1>3. Init => LifeInv
  BY SinkAssumption DEF Init, LifeInv
<1> QED
  BY <1>1, <1>2, <1>3 DEF SinkInv

USE DEF audioVars, lifeVars, connVars, stopVars, Goto, Change, Alive, Dropping

\* What a submission does to the queue: it fits, and what it pushed out is counted.
LEMMA OverflowFits ==
  ASSUME SinkTypes, NEW size \in ChunkSizes
  PROVE  LET n == Overflow(queue, size)
             q == Append(SubSeq(queue, n + 1, Len(queue)), Fits(size))
         IN  /\ n \in 0 .. Len(queue) /\ q \in Seq(Nat) /\ Bytes(q) <= Capacity /\ Bytes(q) \in Nat
             /\ Lost(queue, n, size) \in Nat
             /\ size + Bytes(queue) = Lost(queue, n, size) + Bytes(q)
<1> DEFINE Room(n) == n = Len(queue) \/ Bytes(SubSeq(queue, n + 1, Len(queue))) + Fits(size) <= Capacity
           T == {n \in 0 .. Len(queue) : Room(n)}
<1>1. size \in Nat /\ Capacity \in Nat /\ Fits(size) \in Nat /\ Fits(size) <= Capacity
        /\ Fits(size) <= size
  BY SinkAssumption DEF Fits
<1>2. queue \in Seq(Nat) /\ Len(queue) \in Nat
  BY DEF SinkTypes
<1>3. Len(queue) \in T /\ T \subseteq Nat
  BY <1>2
<1>4. PICK k \in T : \A y \in T : k <= y
  BY <1>3, LeastNumber
<1>5. k \in 0 .. Len(queue) /\ Room(k)
  BY <1>4
<1>6. ASSUME NEW m \in 0 .. k - 1
      PROVE  Bytes(SubSeq(queue, m + 1, Len(queue))) + Fits(size) > Capacity
  <2>1. m \in 0 .. Len(queue) /\ ~ (k <= m)
    BY <1>2, <1>5
  <2>2. ~ Room(m)
    BY <1>4, <2>1
  <2>3. Bytes(SubSeq(queue, m + 1, Len(queue))) \in Nat
    BY <1>2, <2>1, BytesSplit, BytesTyped
  <2> QED
    BY <1>1, <2>2, <2>3
<1>7. \E n \in 0 .. Len(queue) :
        /\ n = Len(queue) \/ Bytes(SubSeq(queue, n + 1, Len(queue))) + Fits(size) <= Capacity
        /\ \A m \in 0 .. n - 1 : Bytes(SubSeq(queue, m + 1, Len(queue))) + Fits(size) > Capacity
  BY <1>5, <1>6
<1>8. PICK n \in 0 .. Len(queue) : n = Overflow(queue, size) /\ Room(n)
  BY <1>7 DEF Overflow
<1> DEFINE b == SubSeq(queue, n + 1, Len(queue))
           f == SubSeq(queue, 1, n)
<1>9. b \in Seq(Nat) /\ f \in Seq(Nat) /\ Bytes(queue) = Bytes(f) + Bytes(b)
  BY <1>2, BytesSplit
<1>10. Bytes(b) \in Nat /\ Bytes(f) \in Nat
  BY <1>9, BytesTyped
<1>11. Bytes(b) + Fits(size) <= Capacity
  <2>1. CASE n = Len(queue)
    <3>1. b = <<>>
      BY <1>2, <2>1
    <3>2. Bytes(b) = 0
      BY <3>1, BytesEmpty
    <3> QED
      BY <1>1, <3>2
  <2>2. CASE n # Len(queue)
    BY <1>8, <2>2
  <2> QED
    BY <2>1, <2>2
<1>12. Append(b, Fits(size)) \in Seq(Nat) /\ Bytes(Append(b, Fits(size))) = Bytes(b) + Fits(size)
  BY <1>1, <1>9, BytesAppend
<1>13. Lost(queue, n, size) = (size - Fits(size)) + Bytes(f)
  BY DEF Lost
<1>14. Lost(queue, n, size) \in Nat
         /\ size + Bytes(queue) = Lost(queue, n, size) + (Bytes(b) + Fits(size))
  BY <1>1, <1>9, <1>10, <1>13
<1>15. Bytes(Append(b, Fits(size))) <= Capacity /\ Bytes(Append(b, Fits(size))) \in Nat
         /\ size + Bytes(queue) = Lost(queue, n, size) + Bytes(Append(b, Fits(size)))
  BY <1>1, <1>10, <1>11, <1>12, <1>14
<1> QED
  BY <1>8, <1>12, <1>14, <1>15

LEMMA TakeTurnKeepsSink ==
  ASSUME SinkInv, TakeTurn
  PROVE  SinkInv'
<1>1. SinkTypes'
  BY SinkAssumption DEF SinkInv, SinkTypes, States, TakeTurn, Interrupted
<1>2. BytesInv'
  BY BytesTyped DEF SinkInv, SinkTypes, BytesInv, TakeTurn
<1>3. LifeInv'
  BY SinkAssumption DEF SinkInv, SinkTypes, LifeInv, TakeTurn, Interrupted
<1> QED
  BY <1>1, <1>2, <1>3 DEF SinkInv

LEMMA AnnounceKeepsSink ==
  ASSUME SinkInv, Announce
  PROVE  SinkInv'
<1>1. SinkTypes'
  BY SinkAssumption DEF SinkInv, SinkTypes, States, Announce, Interrupted
<1>2. BytesInv'
  BY BytesTyped DEF SinkInv, SinkTypes, BytesInv, Announce
<1>3. LifeInv'
  BY SinkAssumption DEF SinkInv, SinkTypes, LifeInv, Announce, Interrupted
<1> QED
  BY <1>1, <1>2, <1>3 DEF SinkInv

LEMMA ResolveKeepsSink ==
  ASSUME SinkInv, Resolve
  PROVE  SinkInv'
<1>1. SinkTypes'
  BY SinkAssumption DEF SinkInv, SinkTypes, States, Resolve, Interrupted
<1>2. BytesInv'
  BY BytesTyped DEF SinkInv, SinkTypes, BytesInv, Resolve
<1>3. LifeInv'
  BY SinkAssumption DEF SinkInv, SinkTypes, LifeInv, Resolve, Interrupted
<1> QED
  BY <1>1, <1>2, <1>3 DEF SinkInv

LEMMA OpenKeepsSink ==
  ASSUME SinkInv, Open
  PROVE  SinkInv'
<1>1. SinkTypes'
  BY SinkAssumption DEF SinkInv, SinkTypes, States, Open, Interrupted
<1>2. BytesInv'
  BY BytesTyped DEF SinkInv, SinkTypes, BytesInv, Open
<1>3. LifeInv'
  BY SinkAssumption DEF SinkInv, SinkTypes, LifeInv, Open, Interrupted
<1> QED
  BY <1>1, <1>2, <1>3 DEF SinkInv

LEMMA AdoptKeepsSink ==
  ASSUME SinkInv, Adopt
  PROVE  SinkInv'
<1>1. SinkTypes'
  <2>1. CASE stopping
    BY <2>1 DEF SinkInv, SinkTypes, Adopt, audioVars, stopVars, Goto
  <2>2. CASE ~stopping
    BY <2>2 DEF SinkInv, SinkTypes, Adopt, audioVars, stopVars, Goto, States
  <2> QED
    BY <2>1, <2>2
<1>2. BytesInv'
  BY BytesTyped DEF SinkInv, SinkTypes, BytesInv, Adopt
<1>3. LifeInv'
  BY SinkAssumption DEF SinkInv, SinkTypes, LifeInv, Adopt, Interrupted
<1> QED
  BY <1>1, <1>2, <1>3 DEF SinkInv

LEMMA WriteBeginKeepsSink ==
  ASSUME SinkInv, WriteBegin
  PROVE  SinkInv'
<1>1. SinkTypes'
  BY SinkAssumption DEF SinkInv, SinkTypes, States, WriteBegin, Interrupted
<1>2. BytesInv'
  BY BytesTyped DEF SinkInv, SinkTypes, BytesInv, WriteBegin
<1>3. LifeInv'
  BY SinkAssumption DEF SinkInv, SinkTypes, LifeInv, WriteBegin, Interrupted
<1> QED
  BY <1>1, <1>2, <1>3 DEF SinkInv

LEMMA WriteRaisesKeepsSink ==
  ASSUME SinkInv, WriteRaises
  PROVE  SinkInv'
<1>1. SinkTypes'
  BY SinkAssumption DEF SinkInv, SinkTypes, States, WriteRaises, Interrupted
<1>2. BytesInv'
  BY BytesTyped DEF SinkInv, SinkTypes, BytesInv, WriteRaises
<1>3. LifeInv'
  BY SinkAssumption DEF SinkInv, SinkTypes, LifeInv, WriteRaises, Interrupted
<1> QED
  BY <1>1, <1>2, <1>3 DEF SinkInv

LEMMA FinalizeKeepsSink ==
  ASSUME SinkInv, Finalize
  PROVE  SinkInv'
<1>1. SinkTypes'
  BY SinkAssumption DEF SinkInv, SinkTypes, States, Finalize, Interrupted
<1>2. BytesInv'
  BY BytesTyped DEF SinkInv, SinkTypes, BytesInv, Finalize
<1>3. LifeInv'
  BY SinkAssumption DEF SinkInv, SinkTypes, LifeInv, Finalize, Interrupted
<1> QED
  BY <1>1, <1>2, <1>3 DEF SinkInv

LEMMA CloseKeepsSink ==
  ASSUME SinkInv, Close
  PROVE  SinkInv'
<1>1. SinkTypes'
  BY SinkAssumption DEF SinkInv, SinkTypes, States, Close, Interrupted
<1>2. BytesInv'
  BY BytesTyped DEF SinkInv, SinkTypes, BytesInv, Close
<1>3. LifeInv'
  BY SinkAssumption DEF SinkInv, SinkTypes, LifeInv, Close, Interrupted
<1> QED
  BY <1>1, <1>2, <1>3 DEF SinkInv

LEMMA SettleKeepsSink ==
  ASSUME SinkInv, Settle
  PROVE  SinkInv'
<1>1. SinkTypes'
  BY SinkAssumption DEF SinkInv, SinkTypes, States, Settle, Interrupted
<1>2. BytesInv'
  BY BytesTyped DEF SinkInv, SinkTypes, BytesInv, Settle
<1>3. LifeInv'
  BY SinkAssumption DEF SinkInv, SinkTypes, LifeInv, Settle, Interrupted
<1> QED
  BY <1>1, <1>2, <1>3 DEF SinkInv

LEMMA BackoffEndsKeepsSink ==
  ASSUME SinkInv, BackoffEnds
  PROVE  SinkInv'
<1>1. SinkTypes'
  BY SinkAssumption DEF SinkInv, SinkTypes, States, BackoffEnds, Interrupted
<1>2. BytesInv'
  BY BytesTyped DEF SinkInv, SinkTypes, BytesInv, BackoffEnds
<1>3. LifeInv'
  BY SinkAssumption DEF SinkInv, SinkTypes, LifeInv, BackoffEnds, Interrupted
<1> QED
  BY <1>1, <1>2, <1>3 DEF SinkInv

LEMMA FinalKeepsSink ==
  ASSUME SinkInv, Final
  PROVE  SinkInv'
<1>1. SinkTypes'
  BY SinkAssumption DEF SinkInv, SinkTypes, States, Final, Interrupted
<1>2. BytesInv'
  BY BytesTyped DEF SinkInv, SinkTypes, BytesInv, Final
<1>3. LifeInv'
  BY SinkAssumption DEF SinkInv, SinkTypes, LifeInv, Final, Interrupted
<1> QED
  BY <1>1, <1>2, <1>3 DEF SinkInv

LEMMA ExitKeepsSink ==
  ASSUME SinkInv, Exit
  PROVE  SinkInv'
<1>1. SinkTypes'
  BY SinkAssumption DEF SinkInv, SinkTypes, States, Exit, Interrupted
<1>2. BytesInv'
  BY BytesTyped DEF SinkInv, SinkTypes, BytesInv, Exit
<1>3. LifeInv'
  BY SinkAssumption DEF SinkInv, SinkTypes, LifeInv, Exit, Interrupted
<1> QED
  BY <1>1, <1>2, <1>3 DEF SinkInv

LEMMA StartKeepsSink ==
  ASSUME SinkInv, Start
  PROVE  SinkInv'
<1>1. SinkTypes'
  BY SinkAssumption DEF SinkInv, SinkTypes, States, Start, Interrupted
<1>2. BytesInv'
  BY BytesTyped DEF SinkInv, SinkTypes, BytesInv, Start
<1>3. LifeInv'
  BY SinkAssumption DEF SinkInv, SinkTypes, LifeInv, Start, Interrupted
<1> QED
  BY <1>1, <1>2, <1>3 DEF SinkInv

LEMMA NetworkStallsKeepsSink ==
  ASSUME SinkInv, NetworkStalls
  PROVE  SinkInv'
<1>1. SinkTypes'
  BY SinkAssumption DEF SinkInv, SinkTypes, States, NetworkStalls, Interrupted
<1>2. BytesInv'
  BY BytesTyped DEF SinkInv, SinkTypes, BytesInv, NetworkStalls
<1>3. LifeInv'
  BY SinkAssumption DEF SinkInv, SinkTypes, LifeInv, NetworkStalls, Interrupted
<1> QED
  BY <1>1, <1>2, <1>3 DEF SinkInv

LEMMA PumpEndsKeepsSink ==
  ASSUME SinkInv, PumpEnds
  PROVE  SinkInv'
<1>1. SinkTypes'
  BY SinkAssumption DEF SinkInv, SinkTypes, States, PumpEnds, Interrupted
<1>2. BytesInv'
  BY BytesTyped DEF SinkInv, SinkTypes, BytesInv, PumpEnds
<1>3. LifeInv'
  BY SinkAssumption DEF SinkInv, SinkTypes, LifeInv, PumpEnds, Interrupted
<1> QED
  BY <1>1, <1>2, <1>3 DEF SinkInv

LEMMA EncoderExitsKeepsSink ==
  ASSUME SinkInv, EncoderExits
  PROVE  SinkInv'
<1>1. SinkTypes'
  BY SinkAssumption DEF SinkInv, SinkTypes, States, EncoderExits, Interrupted
<1>2. BytesInv'
  BY BytesTyped DEF SinkInv, SinkTypes, BytesInv, EncoderExits
<1>3. LifeInv'
  BY SinkAssumption DEF SinkInv, SinkTypes, LifeInv, EncoderExits, Interrupted
<1> QED
  BY <1>1, <1>2, <1>3 DEF SinkInv

LEMMA StopInterruptKeepsSink ==
  ASSUME SinkInv, StopInterrupt
  PROVE  SinkInv'
<1>1. SinkTypes'
  BY SinkAssumption DEF SinkInv, SinkTypes, States, StopInterrupt, Interrupted
<1>2. BytesInv'
  BY BytesTyped DEF SinkInv, SinkTypes, BytesInv, StopInterrupt
<1>3. LifeInv'
  BY SinkAssumption DEF SinkInv, SinkTypes, LifeInv, StopInterrupt, Interrupted
<1> QED
  BY <1>1, <1>2, <1>3 DEF SinkInv

LEMMA StopReturnsKeepsSink ==
  ASSUME SinkInv, StopReturns
  PROVE  SinkInv'
<1>1. SinkTypes'
  BY SinkAssumption DEF SinkInv, SinkTypes, States, StopReturns, Interrupted
<1>2. BytesInv'
  BY BytesTyped DEF SinkInv, SinkTypes, BytesInv, StopReturns
<1>3. LifeInv'
  BY SinkAssumption DEF SinkInv, SinkTypes, LifeInv, StopReturns, Interrupted
<1> QED
  BY <1>1, <1>2, <1>3 DEF SinkInv

LEMMA SubmitKeepsSink ==
  ASSUME SinkInv, Submit
  PROVE  SinkInv'
<1>1. PICK size \in ChunkSizes :
        /\ queue' = Append(SubSeq(queue, Overflow(queue, size) + 1, Len(queue)), Fits(size))
        /\ counts' = [counts EXCEPT !.submitted = @ + size,
                                    !.dropped = @ + Lost(queue, Overflow(queue, size), size)]
  BY DEF Submit
<1>2. size \in Nat
  BY SinkAssumption
<1>3. PICK lost \in Nat :
        /\ queue' \in Seq(Nat) /\ Bytes(queue') <= Capacity /\ Bytes(queue') \in Nat
        /\ lost = Lost(queue, Overflow(queue, size), size)
        /\ size + Bytes(queue) = lost + Bytes(queue')
  BY <1>1, OverflowFits DEF SinkInv
<1>4. counts' = [counts EXCEPT !.submitted = @ + size, !.dropped = @ + lost]
  BY <1>1, <1>3
<1>12. lost \in Nat /\ Bytes(queue') <= Capacity /\ Bytes(queue') \in Nat
         /\ size + Bytes(queue) = lost + Bytes(queue')
  BY <1>3
<1>10. counts' \in [CountersOf -> Nat]
  <2>1. counts \in [CountersOf -> Nat]
    BY DEF SinkInv, SinkTypes
  <2>2. counts.submitted + size \in Nat /\ counts.dropped + lost \in Nat
    BY <1>2, <1>12, <2>1 DEF CountersOf
  <2> QED
    BY <1>4, <2>1, <2>2 DEF CountersOf
<1>11. UNCHANGED <<chunk, worker, state, stopping, stopped, finishes, retries, active, connection, held>>
  BY DEF Submit
<1>5. SinkTypes'
  BY <1>3, <1>10, <1>11 DEF SinkInv, SinkTypes
<1>6. counts'.submitted = counts.submitted + size /\ counts'.dropped = counts.dropped + lost
        /\ counts'.written = counts.written /\ chunk' = chunk
        /\ counts.submitted \in Nat /\ counts.dropped \in Nat /\ counts.written \in Nat
        /\ chunk \in Nat
  BY <1>4, <1>11 DEF SinkInv, SinkTypes, CountersOf
<1>7. Bytes(queue) \in Nat
  BY BytesTyped DEF SinkInv, SinkTypes
<1>8. BytesInv'
  BY <1>2, <1>12, <1>6, <1>7, <1>11 DEF SinkInv, BytesInv
<1>9. LifeInv'
  BY <1>11 DEF SinkInv, LifeInv, Submit
<1> QED
  BY <1>5, <1>8, <1>9 DEF SinkInv

LEMMA TakeChunkKeepsSink ==
  ASSUME SinkInv, TakeChunk
  PROVE  SinkInv'
<1>1. CASE ~stopping /\ queue # <<>> /\ chunk' = Head(queue) /\ queue' = Tail(queue) /\ worker' = "write"
  <2>1. Head(queue) \in Nat /\ Tail(queue) \in Seq(Nat)
          /\ Bytes(queue) = Head(queue) + Bytes(Tail(queue))
    BY <1>1, BytesTail DEF SinkInv, SinkTypes
  <2>2. Bytes(queue') \in Nat /\ Bytes(queue) = chunk' + Bytes(queue')
    BY <1>1, <2>1, BytesTyped
  <2>3. SinkTypes'
    BY <1>1, <2>1 DEF SinkInv, SinkTypes, TakeChunk
  <2>4. chunk = 0 /\ chunk' \in Nat
    BY <1>1, <2>1 DEF SinkInv, BytesInv, TakeChunk
  <2>5. counts' = counts /\ counts.submitted \in Nat /\ counts.dropped \in Nat /\ counts.written \in Nat
    BY DEF SinkInv, SinkTypes, CountersOf, TakeChunk
  <2>6. BytesInv'
    <3>1. /\ Bytes(queue) <= Capacity /\ Capacity \in Nat
          /\ counts.submitted = counts.written + counts.dropped + Bytes(queue) + chunk
      BY SinkAssumption DEF SinkInv, BytesInv
    <3>2. Bytes(queue') <= Capacity
      BY <2>2, <2>4, <3>1
    <3>3. counts'.submitted = counts'.written + counts'.dropped + Bytes(queue') + chunk'
      BY <2>2, <2>4, <2>5, <3>1
    <3> QED
      BY <1>1, <3>2, <3>3 DEF BytesInv
  <2>7. LifeInv'
    BY <1>1 DEF SinkInv, LifeInv, TakeChunk
  <2> QED
    BY <2>3, <2>6, <2>7 DEF SinkInv
<1>2. CASE UNCHANGED <<chunk, queue>> /\ ((worker' = "final" /\ stopping) \/ (worker' = "wait" /\ ~stopping))
  <2>1. SinkTypes'
    BY <1>2 DEF SinkInv, SinkTypes, TakeChunk
  <2>2. BytesInv'
    BY <1>2 DEF SinkInv, BytesInv, TakeChunk
  <2>3. LifeInv'
    BY <1>2 DEF SinkInv, LifeInv, TakeChunk
  <2> QED
    BY <2>1, <2>2, <2>3 DEF SinkInv
<1> QED
  BY <1>1, <1>2 DEF TakeChunk

LEMMA WriteReturnsKeepsSink ==
  ASSUME SinkInv, WriteReturns
  PROVE  SinkInv'
<1>1. CASE Unusable
  <2>1. SinkTypes'
    BY <1>1 DEF SinkInv, SinkTypes, WriteReturns
  <2>2. BytesInv'
    BY <1>1 DEF SinkInv, BytesInv, WriteReturns
  <2>3. LifeInv'
    BY <1>1 DEF SinkInv, LifeInv, WriteReturns
  <2> QED
    BY <2>1, <2>2, <2>3 DEF SinkInv
<1>2. CASE ~Unusable
  <2>1. counts' = [counts EXCEPT !.written = @ + chunk] /\ chunk' = 0 /\ worker' = "wait"
          /\ queue' = queue /\ chunk \in Nat
    BY <1>2 DEF WriteReturns, SinkInv, SinkTypes
  <2>2. SinkTypes'
    BY <2>1 DEF SinkInv, SinkTypes, CountersOf, WriteReturns
  <2>3. counts'.submitted = counts.submitted /\ counts'.dropped = counts.dropped
          /\ counts'.written = counts.written + chunk
          /\ counts.submitted \in Nat /\ counts.dropped \in Nat /\ counts.written \in Nat
    BY <2>1 DEF SinkInv, SinkTypes, CountersOf
  <2>4. Bytes(queue) \in Nat
    BY BytesTyped DEF SinkInv, SinkTypes
  <2>5. BytesInv'
    BY <2>1, <2>3, <2>4 DEF SinkInv, BytesInv
  <2>6. LifeInv'
    BY <2>1 DEF SinkInv, LifeInv, WriteReturns
  <2> QED
    BY <2>2, <2>5, <2>6 DEF SinkInv
<1> QED
  BY <1>1, <1>2

LEMMA BrokenKeepsSink ==
  ASSUME SinkInv, Broken
  PROVE  SinkInv'
<1>1. counts' = [counts EXCEPT !.dropped = @ + chunk] /\ chunk' = 0 /\ active' = FALSE
        /\ queue' = queue /\ chunk \in Nat /\ worker' = "closing"
  BY DEF Broken, SinkInv, SinkTypes
<1>7. counts' \in [CountersOf -> Nat]
  BY <1>1 DEF SinkInv, SinkTypes, CountersOf
<1>2. SinkTypes'
  <2>1. UNCHANGED <<state, stopping, stopped, finishes, retries, held>>
    BY DEF Broken
  <2> QED
    BY <1>1, <1>7, <2>1 DEF SinkInv, SinkTypes
<1>3. counts'.submitted = counts.submitted /\ counts'.written = counts.written
        /\ counts'.dropped = counts.dropped + chunk
        /\ counts.submitted \in Nat /\ counts.dropped \in Nat /\ counts.written \in Nat
  BY <1>1 DEF SinkInv, SinkTypes, CountersOf
<1>4. Bytes(queue) \in Nat
  BY BytesTyped DEF SinkInv, SinkTypes
<1>5. BytesInv'
  BY <1>1, <1>3, <1>4 DEF SinkInv, BytesInv
<1>6. LifeInv'
  BY <1>1 DEF SinkInv, LifeInv, Broken
<1> QED
  BY <1>2, <1>5, <1>6 DEF SinkInv

\* The queue is given up: its bytes are counted as dropped.
Emptied == counts' = [counts EXCEPT !.dropped = @ + Bytes(queue)] /\ queue' = <<>>

LEMMA EmptiedBytes ==
  ASSUME SinkTypes, BytesInv, Emptied, chunk' = chunk,
         worker' = worker \/ worker \notin {"write", "writing", "broken"}
  PROVE  BytesInv' /\ queue' \in Seq(Nat) /\ counts' \in [CountersOf -> Nat]
<1>1. Bytes(queue) \in Nat
  BY BytesTyped DEF SinkTypes
<1>2. Bytes(queue') = 0
  BY BytesEmpty DEF Emptied
<1>3. queue' \in Seq(Nat)
  BY DEF Emptied
<1>4. counts' \in [CountersOf -> Nat]
  BY <1>1 DEF SinkTypes, Emptied, CountersOf
<1>5. counts'.submitted = counts.submitted /\ counts'.written = counts.written
        /\ counts'.dropped = counts.dropped + Bytes(queue)
        /\ counts.submitted \in Nat /\ counts.dropped \in Nat /\ counts.written \in Nat /\ chunk \in Nat
  BY <1>1 DEF SinkTypes, Emptied, CountersOf
<1>6. BytesInv'
  BY <1>1, <1>2, <1>5, SinkAssumption DEF BytesInv
<1> QED
  BY <1>3, <1>4, <1>6

LEMMA FailKeepsSink ==
  ASSUME SinkInv, Fail
  PROVE  SinkInv'
<1>1. worker = "failing" /\ retries' = retries + 1 /\ retries \in Nat /\ chunk' = chunk
        /\ UNCHANGED <<stopped, finishes, connection, active, held>> /\ MaxAttempts \in Nat
  BY SinkAssumption DEF Fail, SinkInv, SinkTypes
<1>2. CASE retries + 1 > MaxAttempts
  <2>1. state' = "failed" /\ stopping' = TRUE /\ Emptied /\ worker' = "failed"
    BY <1>2 DEF Fail, Emptied
  <2>2. BytesInv' /\ queue' \in Seq(Nat) /\ counts' \in [CountersOf -> Nat]
    BY <1>1, <2>1, EmptiedBytes DEF SinkInv
  <2>3. SinkTypes'
    BY <1>1, <2>1, <2>2 DEF SinkInv, SinkTypes, States
  <2>4. LifeInv'
    BY <1>1, <2>1 DEF SinkInv, LifeInv, Emptied
  <2> QED
    BY <2>2, <2>3, <2>4 DEF SinkInv
<1>3. CASE ~ (retries + 1 > MaxAttempts)
  <2>1. state' = "backoff" /\ UNCHANGED <<stopping, counts, queue>> /\ worker' = "backoff"
    BY <1>3 DEF Fail
  <2>2. SinkTypes'
    BY <1>1, <2>1 DEF SinkInv, SinkTypes, States
  <2>3. BytesInv'
    BY <1>1, <2>1 DEF SinkInv, BytesInv
  <2>4. LifeInv'
    BY <1>1, <1>3, <2>1 DEF SinkInv, LifeInv
  <2> QED
    BY <2>2, <2>3, <2>4 DEF SinkInv
<1> QED
  BY <1>2, <1>3

\* The two callers of stop.
LEMMA StopsKeepsSink ==
  ASSUME SinkInv, Stops, UNCHANGED <<stopped, retries, worker, chunk, active>>,
         finishes' \in BOOLEAN, held' \in BOOLEAN,
         connection' = connection \/ connection # None \/ connection' = None
  PROVE  SinkInv'
<1>1. worker # "new" /\ stopping' = TRUE
  BY DEF Stops
<1>4. connection = None => connection' = None
  OBVIOUS
<1>2. CASE stopping
  <2>1. UNCHANGED <<state, queue, counts>>
    BY <1>2 DEF Stops
  <2>2. SinkTypes'
    BY <1>1, <2>1 DEF SinkInv, SinkTypes
  <2>3. BytesInv'
    BY <2>1 DEF SinkInv, BytesInv
  <2>4. LifeInv'
    BY <1>1, <1>2, <1>4, <2>1 DEF SinkInv, LifeInv
  <2> QED
    BY <2>2, <2>3, <2>4 DEF SinkInv
<1>3. CASE ~stopping
  <2>1. state' \in {state, "stopping"} /\ state' # "connected" /\ state' # "stopped" /\ Emptied
    BY <1>3 DEF Stops, Emptied, SinkInv, LifeInv
  <2>2. BytesInv' /\ queue' \in Seq(Nat) /\ counts' \in [CountersOf -> Nat]
    BY <2>1, EmptiedBytes DEF SinkInv
  <2>3. SinkTypes'
    BY <1>1, <2>1, <2>2 DEF SinkInv, SinkTypes, States
  <2>4. LifeInv'
    BY <1>1, <1>3, <1>4, <2>1 DEF SinkInv, LifeInv, Emptied
  <2> QED
    BY <2>2, <2>3, <2>4 DEF SinkInv
<1> QED
  BY <1>2, <1>3

LEMMA StopBeginKeepsSink ==
  ASSUME SinkInv, StopBegin
  PROVE  SinkInv'
<1>1. /\ Stops /\ UNCHANGED <<stopped, retries, worker, chunk, active>>
      /\ finishes' \in BOOLEAN /\ held' \in BOOLEAN /\ connection' = connection
  BY DEF StopBegin, SinkInv, SinkTypes
<1> QED
  BY <1>1, StopsKeepsSink

LEMMA ListenerStopsKeepsSink ==
  ASSUME SinkInv, ListenerStops
  PROVE  SinkInv'
<1>1. /\ Stops /\ UNCHANGED <<stopped, retries, worker, chunk, active>>
      /\ finishes' \in BOOLEAN /\ held' \in BOOLEAN
  BY DEF ListenerStops, SinkInv, SinkTypes
<1>2. connection' = connection \/ connection # None \/ connection' = None
  BY DEF ListenerStops, Interrupted
<1> QED
  BY <1>1, <1>2, StopsKeepsSink

LEMMA SinkStep ==
  ASSUME SinkInv, Next
  PROVE  SinkInv'
<1>1. CASE WorkerNext
  BY <1>1, TakeTurnKeepsSink, AnnounceKeepsSink, ResolveKeepsSink, OpenKeepsSink, AdoptKeepsSink,
     TakeChunkKeepsSink, WriteBeginKeepsSink, WriteReturnsKeepsSink, WriteRaisesKeepsSink,
     BrokenKeepsSink, FinalizeKeepsSink, CloseKeepsSink, SettleKeepsSink, FailKeepsSink,
     BackoffEndsKeepsSink, FinalKeepsSink, ExitKeepsSink DEF WorkerNext
<1>2. CASE Submit \/ Start
  BY <1>2, SubmitKeepsSink, StartKeepsSink
<1>3. CASE NetworkStalls \/ PumpEnds \/ EncoderExits
  BY <1>3, NetworkStallsKeepsSink, PumpEndsKeepsSink, EncoderExitsKeepsSink
<1>4. CASE StopBegin \/ StopInterrupt \/ StopReturns \/ ListenerStops
  BY <1>4, StopBeginKeepsSink, StopInterruptKeepsSink, StopReturnsKeepsSink,
     ListenerStopsKeepsSink
<1> QED
  BY <1>1, <1>2, <1>3, <1>4 DEF Next

HIDE DEF audioVars, lifeVars, connVars, stopVars, Goto, Change, Alive, Dropping

LEMMA SinkSound ==
  SinkInv => TypeOK /\ Sound
<1>1. ASSUME SinkInv PROVE TypeOK
  BY <1>1, SinkAssumption DEF SinkInv, SinkTypes, BytesInv, LifeInv, TypeOK, CountersOf, States
<1>2. ASSUME SinkInv PROVE Sound
  BY <1>2 DEF SinkInv, SinkTypes, BytesInv, LifeInv, Sound
<1> QED
  BY <1>1, <1>2

\* ------------------------------------------------------------------- the titles
USE DEF Publisher!titleVars, Publisher!requestVars, Publisher!stopVars, Publisher!serverVars,
   Publisher!Goto, Publisher!Superseded

LEMMA PublisherInit ==
  Publisher!Init => PublisherInv
<1> SUFFICES ASSUME Publisher!Init PROVE PublisherInv
  OBVIOUS
<1>1. generation \in Nat /\ tries \in Nat /\ tries <= MaxAttempts + 1
        /\ pending = None /\ current = None /\ request = "none"
  BY SinkAssumption DEF Publisher!Init
<1>2. leaving \in BOOLEAN /\ failed \in BOOLEAN /\ gaveUp \in BOOLEAN
  BY DEF Publisher!Init
<1> QED
  BY <1>1, <1>2 DEF PublisherInv

LEMMA StartKeepsPublisher ==
  ASSUME PublisherInv, Publisher!Start
  PROVE  PublisherInv'
  BY SinkAssumption, TitleAssumption DEF PublisherInv, Publisher!Start

LEMMA TakeKeepsPublisher ==
  ASSUME PublisherInv, Publisher!Take
  PROVE  PublisherInv'
  BY SinkAssumption, TitleAssumption DEF PublisherInv, Publisher!Take

LEMMA OpenKeepsPublisher ==
  ASSUME PublisherInv, Publisher!Open
  PROVE  PublisherInv'
  BY SinkAssumption, TitleAssumption DEF PublisherInv, Publisher!Open

LEMMA PublishKeepsPublisher ==
  ASSUME PublisherInv, Publisher!Publish
  PROVE  PublisherInv'
  BY SinkAssumption, TitleAssumption DEF PublisherInv, Publisher!Publish

LEMMA CloseKeepsPublisher ==
  ASSUME PublisherInv, Publisher!Close
  PROVE  PublisherInv'
  BY SinkAssumption, TitleAssumption DEF PublisherInv, Publisher!Close

LEMMA SettleKeepsPublisher ==
  ASSUME PublisherInv, Publisher!Settle
  PROVE  PublisherInv'
  BY SinkAssumption, TitleAssumption DEF PublisherInv, Publisher!Settle

LEMMA RecordKeepsPublisher ==
  ASSUME PublisherInv, Publisher!Record
  PROVE  PublisherInv'
<1>1. generation' = generation /\ current' = current /\ request' = request
        /\ leaving' = leaving /\ failed' = failed /\ gaveUp' \in {gaveUp, TRUE, FALSE}
  BY DEF Publisher!Record
<1>2. gaveUp' \in BOOLEAN
  BY <1>1 DEF PublisherInv
<1>3. pending' \in {pending, None} /\ tries' \in Nat /\ tries' <= MaxAttempts + 1
        /\ (pending' # None => tries' <= MaxAttempts)
  BY SinkAssumption DEF PublisherInv, Publisher!Record
<1> QED
  BY <1>1, <1>2, <1>3 DEF PublisherInv

LEMMA FailKeepsPublisher ==
  ASSUME PublisherInv, Publisher!Fail
  PROVE  PublisherInv'
<1>1. generation' = generation /\ current' = current /\ request' = request
        /\ leaving' = leaving /\ failed' = failed /\ gaveUp' \in {gaveUp, TRUE, FALSE}
  BY DEF Publisher!Fail
<1>2. gaveUp' \in BOOLEAN
  BY <1>1 DEF PublisherInv
<1>3. pending' \in {pending, None} /\ tries' \in Nat /\ tries' <= MaxAttempts + 1
        /\ (pending' # None => tries' <= MaxAttempts)
  BY SinkAssumption DEF PublisherInv, Publisher!Fail
<1> QED
  BY <1>1, <1>2, <1>3 DEF PublisherInv

LEMMA BackoffEndsKeepsPublisher ==
  ASSUME PublisherInv, Publisher!BackoffEnds
  PROVE  PublisherInv'
  BY SinkAssumption, TitleAssumption DEF PublisherInv, Publisher!BackoffEnds

LEMMA StopBeginKeepsPublisher ==
  ASSUME PublisherInv, Publisher!StopBegin
  PROVE  PublisherInv'
  BY SinkAssumption, TitleAssumption DEF PublisherInv, Publisher!StopBegin

LEMMA StopInterruptKeepsPublisher ==
  ASSUME PublisherInv, Publisher!StopInterrupt
  PROVE  PublisherInv'
  BY SinkAssumption, TitleAssumption DEF PublisherInv, Publisher!StopInterrupt

LEMMA StopReturnsKeepsPublisher ==
  ASSUME PublisherInv, Publisher!StopReturns
  PROVE  PublisherInv'
  BY SinkAssumption, TitleAssumption DEF PublisherInv, Publisher!StopReturns

LEMMA SubmitKeepsPublisher ==
  ASSUME PublisherInv, Publisher!Submit
  PROVE  PublisherInv'
<1>1. PICK t \in Titles :
        \/ UNCHANGED <<generation, pending, tries>>
        \/ /\ generation < MaxTitles /\ generation' = generation + 1
           /\ pending' = [generation |-> generation', title |-> t] /\ tries' = 0
  BY DEF Publisher!Submit
<1>2. UNCHANGED <<current, failed, request, leaving, gaveUp>>
  BY DEF Publisher!Submit
<1>3. CASE UNCHANGED <<generation, pending, tries>>
  BY <1>2, <1>3 DEF PublisherInv
<1>4. CASE /\ generation < MaxTitles /\ generation' = generation + 1
           /\ pending' = [generation |-> generation', title |-> t] /\ tries' = 0
  <2>1. generation' \in 1 .. MaxTitles /\ generation' \in Nat
    BY <1>4, TitleAssumption DEF PublisherInv
  <2>2. pending' \in Numbered
    BY <1>4, <2>1 DEF Numbered
  <2> QED
    BY <1>2, <1>4, <2>1, <2>2, SinkAssumption DEF PublisherInv
<1> QED
  BY <1>1, <1>3, <1>4

LEMMA PublisherStep ==
  ASSUME PublisherInv, Publisher!Next
  PROVE  PublisherInv'
<1>1. CASE Publisher!RunnerNext
  BY <1>1, TakeKeepsPublisher, OpenKeepsPublisher, PublishKeepsPublisher, CloseKeepsPublisher,
     SettleKeepsPublisher, RecordKeepsPublisher, FailKeepsPublisher, BackoffEndsKeepsPublisher
  DEF Publisher!RunnerNext
<1>2. CASE Publisher!Start \/ Publisher!Submit
  BY <1>2, StartKeepsPublisher, SubmitKeepsPublisher
<1>3. CASE Publisher!StopBegin \/ Publisher!StopInterrupt \/ Publisher!StopReturns
  BY <1>3, StopBeginKeepsPublisher, StopInterruptKeepsPublisher, StopReturnsKeepsPublisher
<1> QED
  BY <1>1, <1>2, <1>3 DEF Publisher!Next

HIDE DEF Publisher!titleVars, Publisher!requestVars, Publisher!stopVars, Publisher!serverVars,
   Publisher!Goto, Publisher!Superseded

LEMMA PublisherSound ==
  PublisherInv => Publisher!TypeOK
  BY SinkAssumption DEF PublisherInv, Numbered, Publisher!TypeOK

\* ------------------------------------------------------------------- the network
\* What Count does to one field.
LEMMA Counting ==
  ASSUME TallyTypes, NEW F, Network!Count(F)
  PROVE  \A f \in Fields : tally'[f] = IF f \in F THEN tally[f] + 1 ELSE tally[f]
  BY DEF TallyTypes, Network!Count

\* The requests that start a stream.
LEMMA RequestFacts ==
  /\ DOMAIN Network!Requests = 1 .. 4 /\ Len(Network!Requests) = 4
  /\ Network!Requests[1] = "OPTIONS" /\ Network!Requests[2] = "DESCRIBE"
  /\ Network!Requests[3] = "SETUP" /\ Network!Requests[4] = "PLAY"
  BY DEF Network!Requests

USE DEF Network!ownerVars, Network!callVars, Network!sharedVars, Network!packetVars, Network!At,
   Network!Goto, Network!Raise, Network!May, Network!Over, Network!Closed, Network!Places,
   Network!Fields

LEMMA StartBeginKeepsNetwork ==
  ASSUME NetworkInv, Network!StartBegin
  PROVE  NetworkInv'
<1>1. NetworkTypes'
  <2>1. faults' \in {faults, faults + 1} /\ wav' \in {wav, "open"}
          /\ UNCHANGED <<sock, client, asking, reader, keeper, waiting>>
    BY DEF Network!StartBegin
  <2> QED
    BY <2>1 DEF NetworkInv, NetworkTypes
<1>2. FlagTypes'
  BY DEF NetworkInv, FlagTypes, Ended, Starting, Over, Network!StartBegin
<1>3. TallyTypes'
  BY DEF NetworkInv, TallyTypes, Ended, Starting, Over, Network!StartBegin
<1>4. PacketTypes'
  BY DEF NetworkInv, PacketTypes, Ended, Starting, Over, Network!StartBegin
<1>5. OwnerInv'
  <2>1. pc = "idle" /\ UNCHANGED <<sock, client, published, handler, reader, keeper, asking>>
    BY DEF Network!StartBegin
  <2>2. CASE pc' = "socket" /\ failing' = failing /\ wav' = "open" /\ subscribed'
    BY <2>1, <2>2 DEF NetworkInv, OwnerInv, FlagTypes, Starting, Over
  <2>3. CASE pc' = "stop stream" /\ failing'
    BY <2>1, <2>3 DEF NetworkInv, OwnerInv, FlagTypes, Starting, Over
  <2> QED
    BY <2>2, <2>3 DEF Network!StartBegin
<1>6. ThreadInv'
  BY DEF NetworkInv, ThreadInv, FlagTypes, OwnerInv, Ended, Starting, Over, Network!StartBegin
<1>7. CountInv'
  BY DEF NetworkInv, CountInv, TallyTypes, OwnerInv, Ended, Starting, Over, Network!StartBegin
<1>8. PacketInv'
  BY DEF NetworkInv, PacketInv, TallyTypes, PacketTypes, OwnerInv, ThreadInv, Ended, Starting,
     Over, Network!StartBegin
<1>9. ServerInv'
  BY DEF NetworkInv, ServerInv, NetworkTypes, FlagTypes, OwnerInv, Ended, Starting, Over,
     Network!StartBegin
<1> QED
  BY <1>1, <1>2, <1>3, <1>4, <1>5, <1>6, <1>7, <1>8, <1>9 DEF NetworkInv

LEMMA StopBeginKeepsNetwork ==
  ASSUME NetworkInv, Network!StopBegin
  PROVE  NetworkInv'
<1>1. NetworkTypes'
  BY DEF NetworkInv, NetworkTypes, Ended, Starting, Over, Network!StopBegin
<1>2. FlagTypes'
  BY DEF NetworkInv, FlagTypes, Ended, Starting, Over, Network!StopBegin
<1>3. TallyTypes'
  BY DEF NetworkInv, TallyTypes, Ended, Starting, Over, Network!StopBegin
<1>4. PacketTypes'
  BY DEF NetworkInv, PacketTypes, Ended, Starting, Over, Network!StopBegin
<1>5. OwnerInv'
  BY DEF NetworkInv, OwnerInv, FlagTypes, Ended, Starting, Over, Network!StopBegin
<1>6. ThreadInv'
  BY DEF NetworkInv, ThreadInv, FlagTypes, OwnerInv, Ended, Starting, Over, Network!StopBegin
<1>7. CountInv'
  BY DEF NetworkInv, CountInv, TallyTypes, OwnerInv, Ended, Starting, Over, Network!StopBegin
<1>8. PacketInv'
  BY DEF NetworkInv, PacketInv, TallyTypes, PacketTypes, OwnerInv, ThreadInv, Ended, Starting,
     Over, Network!StopBegin
<1>9. ServerInv'
  BY DEF NetworkInv, ServerInv, NetworkTypes, FlagTypes, OwnerInv, Ended, Starting, Over,
     Network!StopBegin
<1> QED
  BY <1>1, <1>2, <1>3, <1>4, <1>5, <1>6, <1>7, <1>8, <1>9 DEF NetworkInv

LEMMA OpenSocketKeepsNetwork ==
  ASSUME NetworkInv, Network!OpenSocket
  PROVE  NetworkInv'
<1>1. NetworkTypes'
  BY DEF NetworkInv, NetworkTypes, Ended, Starting, Over, Network!OpenSocket
<1>2. FlagTypes'
  BY DEF NetworkInv, FlagTypes, Ended, Starting, Over, Network!OpenSocket
<1>3. TallyTypes'
  BY DEF NetworkInv, TallyTypes, Ended, Starting, Over, Network!OpenSocket
<1>4. PacketTypes'
  BY DEF NetworkInv, PacketTypes, Ended, Starting, Over, Network!OpenSocket
<1>5. OwnerInv'
  <2>1. pc = "socket" /\ handler' /\ UNCHANGED <<client, published, subscribed,
                                                 wav, reader, keeper, asking>>
    BY DEF Network!OpenSocket
  <2>2. CASE pc' = "connect" /\ failing' = failing
    BY <2>1, <2>2 DEF NetworkInv, OwnerInv, FlagTypes, Starting, Over
  <2>3. CASE pc' = "undo" /\ failing'
    BY <2>1, <2>3 DEF NetworkInv, OwnerInv, FlagTypes, Starting, Over
  <2> QED
    BY <2>2, <2>3 DEF Network!OpenSocket
<1>6. ThreadInv'
  BY DEF NetworkInv, ThreadInv, FlagTypes, OwnerInv, Ended, Starting, Over, Network!OpenSocket
<1>7. CountInv'
  BY DEF NetworkInv, CountInv, TallyTypes, OwnerInv, Ended, Starting, Over, Network!OpenSocket
<1>8. PacketInv'
  BY DEF NetworkInv, PacketInv, TallyTypes, PacketTypes, OwnerInv, ThreadInv, Ended, Starting,
     Over, Network!OpenSocket
<1>9. ServerInv'
  BY DEF NetworkInv, ServerInv, NetworkTypes, FlagTypes, OwnerInv, Ended, Starting, Over,
     Network!OpenSocket
<1> QED
  BY <1>1, <1>2, <1>3, <1>4, <1>5, <1>6, <1>7, <1>8, <1>9 DEF NetworkInv

LEMMA ConnectKeepsNetwork ==
  ASSUME NetworkInv, Network!Connect
  PROVE  NetworkInv'
<1>1. NetworkTypes'
  BY DEF NetworkInv, NetworkTypes, Ended, Starting, Over, Network!Connect
<1>2. FlagTypes'
  BY DEF NetworkInv, FlagTypes, Ended, Starting, Over, Network!Connect
<1>3. TallyTypes'
  BY DEF NetworkInv, TallyTypes, Ended, Starting, Over, Network!Connect
<1>4. PacketTypes'
  BY DEF NetworkInv, PacketTypes, Ended, Starting, Over, Network!Connect
<1>5. OwnerInv'
  <2>1. pc = "connect" /\ UNCHANGED <<sock, handler, subscribed, published, wav, reader, keeper, asking>>
    BY DEF Network!Connect
  <2>2. CASE pc' = "OPTIONS" /\ failing' = failing
    BY <2>1, <2>2 DEF NetworkInv, OwnerInv, FlagTypes, Starting, Over
  <2>3. CASE pc' = "undo" /\ failing'
    BY <2>1, <2>3 DEF NetworkInv, OwnerInv, FlagTypes, Starting, Over
  <2> QED
    BY <2>2, <2>3, RequestFacts DEF Network!Connect
<1>6. ThreadInv'
  BY DEF NetworkInv, ThreadInv, FlagTypes, OwnerInv, Ended, Starting, Over, Network!Connect
<1>7. CountInv'
  BY DEF NetworkInv, CountInv, TallyTypes, OwnerInv, Ended, Starting, Over, Network!Connect
<1>8. PacketInv'
  BY DEF NetworkInv, PacketInv, TallyTypes, PacketTypes, OwnerInv, ThreadInv, Ended, Starting,
     Over, Network!Connect
<1>9. ServerInv'
  BY RequestFacts DEF NetworkInv, ServerInv, NetworkTypes, FlagTypes, OwnerInv, Ended, Starting,
     Over, Network!Connect
<1> QED
  BY <1>1, <1>2, <1>3, <1>4, <1>5, <1>6, <1>7, <1>8, <1>9 DEF NetworkInv

LEMMA UndoKeepsNetwork ==
  ASSUME NetworkInv, Network!Undo
  PROVE  NetworkInv'
<1>1. NetworkTypes'
  <2>1. client' \in {"none", "closed"} /\ sock' \in {"none", "closed"} /\ waiting' = 0
          /\ UNCHANGED <<asking, wav, reader, keeper, faults>>
    BY DEF Network!Undo
  <2> QED
    BY <2>1 DEF NetworkInv, NetworkTypes
<1>2. FlagTypes'
  BY DEF NetworkInv, FlagTypes, Ended, Starting, Over, Network!Undo
<1>3. TallyTypes'
  BY DEF NetworkInv, TallyTypes, Ended, Starting, Over, Network!Undo
<1>4. PacketTypes'
  BY DEF NetworkInv, PacketTypes, Ended, Starting, Over, Network!Undo
<1>5. OwnerInv'
  BY DEF NetworkInv, OwnerInv, FlagTypes, Ended, Starting, Over, Network!Undo
<1>6. ThreadInv'
  BY DEF NetworkInv, ThreadInv, FlagTypes, OwnerInv, Ended, Starting, Over, Network!Undo
<1>7. CountInv'
  BY DEF NetworkInv, CountInv, TallyTypes, OwnerInv, Ended, Starting, Over, Network!Undo
<1>8. PacketInv'
  BY DEF NetworkInv, PacketInv, TallyTypes, PacketTypes, OwnerInv, ThreadInv, Ended, Starting,
     Over, Network!Undo
<1>9. ServerInv'
  BY DEF NetworkInv, ServerInv, NetworkTypes, FlagTypes, OwnerInv, Ended, Starting, Over,
     Network!Undo
<1> QED
  BY <1>1, <1>2, <1>3, <1>4, <1>5, <1>6, <1>7, <1>8, <1>9 DEF NetworkInv

LEMMA PublishKeepsNetwork ==
  ASSUME NetworkInv, Network!Publish
  PROVE  NetworkInv'
<1>1. NetworkTypes'
  BY DEF NetworkInv, NetworkTypes, Ended, Starting, Over, Network!Publish
<1>2. FlagTypes'
  BY DEF NetworkInv, FlagTypes, Ended, Starting, Over, Network!Publish
<1>3. TallyTypes'
  BY DEF NetworkInv, TallyTypes, Ended, Starting, Over, Network!Publish
<1>4. PacketTypes'
  BY DEF NetworkInv, PacketTypes, Ended, Starting, Over, Network!Publish
<1>5. OwnerInv'
  BY DEF NetworkInv, OwnerInv, FlagTypes, Ended, Starting, Over, Network!Publish
<1>6. ThreadInv'
  BY DEF NetworkInv, ThreadInv, FlagTypes, OwnerInv, Ended, Starting, Over, Network!Publish
<1>7. CountInv'
  BY DEF NetworkInv, CountInv, TallyTypes, OwnerInv, Ended, Starting, Over, Network!Publish
<1>8. PacketInv'
  BY DEF NetworkInv, PacketInv, TallyTypes, PacketTypes, OwnerInv, ThreadInv, Ended, Starting,
     Over, Network!Publish
<1>9. ServerInv'
  BY DEF NetworkInv, ServerInv, NetworkTypes, FlagTypes, OwnerInv, Ended, Starting, Over,
     Network!Publish
<1> QED
  BY <1>1, <1>2, <1>3, <1>4, <1>5, <1>6, <1>7, <1>8, <1>9 DEF NetworkInv

LEMMA StopStreamKeepsNetwork ==
  ASSUME NetworkInv, Network!StopStream
  PROVE  NetworkInv'
<1>1. NetworkTypes'
  BY DEF NetworkInv, NetworkTypes, Ended, Starting, Over, Network!StopStream
<1>2. FlagTypes'
  BY DEF NetworkInv, FlagTypes, Ended, Starting, Over, Network!StopStream
<1>3. TallyTypes'
  BY DEF NetworkInv, TallyTypes, Ended, Starting, Over, Network!StopStream
<1>4. PacketTypes'
  BY DEF NetworkInv, PacketTypes, Ended, Starting, Over, Network!StopStream
<1>5. OwnerInv'
  BY DEF NetworkInv, OwnerInv, FlagTypes, Ended, Starting, Over, Network!StopStream
<1>6. ThreadInv'
  BY DEF NetworkInv, ThreadInv, FlagTypes, OwnerInv, Ended, Starting, Over, Network!StopStream
<1>7. CountInv'
  BY DEF NetworkInv, CountInv, TallyTypes, OwnerInv, Ended, Starting, Over, Network!StopStream
<1>8. PacketInv'
  BY DEF NetworkInv, PacketInv, TallyTypes, PacketTypes, OwnerInv, ThreadInv, Ended, Starting,
     Over, Network!StopStream
<1>9. ServerInv'
  BY DEF NetworkInv, ServerInv, NetworkTypes, FlagTypes, OwnerInv, Ended, Starting, Over,
     Network!StopStream
<1> QED
  BY <1>1, <1>2, <1>3, <1>4, <1>5, <1>6, <1>7, <1>8, <1>9 DEF NetworkInv

LEMMA LockKeepsNetwork ==
  ASSUME NetworkInv, Network!Lock
  PROVE  NetworkInv'
<1>1. NetworkTypes'
  BY DEF NetworkInv, NetworkTypes, Ended, Starting, Over, Network!Lock
<1>2. FlagTypes'
  BY DEF NetworkInv, FlagTypes, Ended, Starting, Over, Network!Lock
<1>3. TallyTypes'
  BY DEF NetworkInv, TallyTypes, Ended, Starting, Over, Network!Lock
<1>4. PacketTypes'
  BY DEF NetworkInv, PacketTypes, Ended, Starting, Over, Network!Lock
<1>5. OwnerInv'
  BY DEF NetworkInv, OwnerInv, FlagTypes, Ended, Starting, Over, Network!Lock
<1>6. ThreadInv'
  BY DEF NetworkInv, ThreadInv, FlagTypes, OwnerInv, Ended, Starting, Over, Network!Lock
<1>7. CountInv'
  BY DEF NetworkInv, CountInv, TallyTypes, OwnerInv, Ended, Starting, Over, Network!Lock
<1>8. PacketInv'
  BY DEF NetworkInv, PacketInv, TallyTypes, PacketTypes, OwnerInv, ThreadInv, Ended, Starting,
     Over, Network!Lock
<1>9. ServerInv'
  BY DEF NetworkInv, ServerInv, NetworkTypes, FlagTypes, OwnerInv, Ended, Starting, Over,
     Network!Lock
<1> QED
  BY <1>1, <1>2, <1>3, <1>4, <1>5, <1>6, <1>7, <1>8, <1>9 DEF NetworkInv

LEMMA TeardownKeepsNetwork ==
  ASSUME NetworkInv, Network!Teardown
  PROVE  NetworkInv'
<1>1. NetworkTypes'
  BY DEF NetworkInv, NetworkTypes, Ended, Starting, Over, Network!Teardown, Network!Asked,
     Network!Unanswered, Network!Count
<1>2. FlagTypes'
  BY DEF NetworkInv, FlagTypes, Ended, Starting, Over, Network!Teardown, Network!Asked,
     Network!Unanswered, Network!Count
<1>3. TallyTypes'
  BY DEF NetworkInv, TallyTypes, Ended, Starting, Over, Network!Teardown, Network!Asked,
     Network!Unanswered, Network!Count, Fields
<1>4. PacketTypes'
  BY DEF NetworkInv, PacketTypes, Ended, Starting, Over, Network!Teardown, Network!Asked,
     Network!Unanswered, Network!Count
<1>5. OwnerInv'
  BY DEF NetworkInv, OwnerInv, FlagTypes, Ended, Starting, Over, Network!Teardown, Network!Asked,
     Network!Unanswered, Network!Count
<1>6. ThreadInv'
  BY DEF NetworkInv, ThreadInv, FlagTypes, OwnerInv, Ended, Starting, Over, Network!Teardown,
     Network!Asked, Network!Unanswered, Network!Count
<1>7. CountInv'
  <2>1. /\ tally["received"] \in Nat /\ tally["delivered"] \in Nat /\ tally["duplicate"] \in Nat
        /\ tally["late"] \in Nat /\ tally["foreign"] \in Nat /\ tally["lost"] \in Nat
        /\ tally["samples"] \in Nat /\ tally["written"] \in Nat /\ tally["failed"] \in Nat
        /\ tally["refused"] \in Nat /\ tally["unheard"] \in Nat /\ tally["teardowns"] \in Nat
    BY DEF NetworkInv, TallyTypes, Fields
  <2>2. pc = "teardown" /\ pc' = "close" /\ UNCHANGED <<previous, first, shift, clock, recent, stuck, reader>>
    BY DEF Network!Teardown, Network!Asked, Network!Unanswered
  <2>3. CASE tally' = tally
    BY <2>1, <2>2, <2>3 DEF NetworkInv, CountInv, Starting, Over, Ended
  <2>4. CASE Network!Count({"teardowns"})
    <3>1. \A f \in Fields : tally'[f] = IF f \in {"teardowns"} THEN tally[f] + 1 ELSE tally[f]
      BY <2>4, Counting DEF NetworkInv
    <3>2. /\ tally'["received"] = tally["received"] /\ tally'["delivered"] = tally["delivered"]
          /\ tally'["duplicate"] = tally["duplicate"] /\ tally'["late"] = tally["late"]
          /\ tally'["foreign"] = tally["foreign"] /\ tally'["lost"] = tally["lost"]
          /\ tally'["samples"] = tally["samples"] /\ tally'["written"] = tally["written"]
          /\ tally'["failed"] = tally["failed"]
          /\ tally'["refused"] = tally["refused"] /\ tally'["unheard"] = tally["unheard"]
          /\ tally'["teardowns"] = tally["teardowns"] + 1
      BY <3>1 DEF Fields
    <3> QED
      BY <2>1, <2>2, <2>4, <3>2 DEF NetworkInv, CountInv, Starting, Over, Ended
  <2> QED
    BY <2>3, <2>4, <2>2 DEF Network!Teardown, Network!Asked, Network!Unanswered
<1>8. PacketInv'
  <2>1. /\ tally["received"] \in Nat /\ tally["delivered"] \in Nat /\ tally["duplicate"] \in Nat
        /\ tally["late"] \in Nat /\ tally["foreign"] \in Nat /\ tally["lost"] \in Nat
        /\ tally["samples"] \in Nat /\ tally["written"] \in Nat /\ tally["failed"] \in Nat
        /\ tally["refused"] \in Nat /\ tally["unheard"] \in Nat /\ tally["teardowns"] \in Nat
    BY DEF NetworkInv, TallyTypes, Fields
  <2>2. pc = "teardown" /\ pc' = "close" /\ UNCHANGED <<previous, first, shift, clock, recent, stuck, reader>>
    BY DEF Network!Teardown, Network!Asked, Network!Unanswered
  <2>3. CASE tally' = tally
    BY <2>1, <2>2, <2>3 DEF NetworkInv, PacketInv, Starting, Over, Ended
  <2>4. CASE Network!Count({"teardowns"})
    <3>1. \A f \in Fields : tally'[f] = IF f \in {"teardowns"} THEN tally[f] + 1 ELSE tally[f]
      BY <2>4, Counting DEF NetworkInv
    <3>2. /\ tally'["received"] = tally["received"] /\ tally'["delivered"] = tally["delivered"]
          /\ tally'["duplicate"] = tally["duplicate"] /\ tally'["late"] = tally["late"]
          /\ tally'["foreign"] = tally["foreign"] /\ tally'["lost"] = tally["lost"]
          /\ tally'["samples"] = tally["samples"] /\ tally'["written"] = tally["written"]
          /\ tally'["failed"] = tally["failed"]
          /\ tally'["refused"] = tally["refused"] /\ tally'["unheard"] = tally["unheard"]
          /\ tally'["teardowns"] = tally["teardowns"] + 1
      BY <3>1 DEF Fields
    <3> QED
      BY <2>1, <2>2, <2>4, <3>2 DEF NetworkInv, PacketInv, Starting, Over, Ended
  <2> QED
    BY <2>3, <2>4, <2>2 DEF Network!Teardown, Network!Asked, Network!Unanswered
<1>9. ServerInv'
  <2>1. /\ tally["received"] \in Nat /\ tally["delivered"] \in Nat /\ tally["duplicate"] \in Nat
        /\ tally["late"] \in Nat /\ tally["foreign"] \in Nat /\ tally["lost"] \in Nat
        /\ tally["samples"] \in Nat /\ tally["written"] \in Nat /\ tally["failed"] \in Nat
        /\ tally["refused"] \in Nat /\ tally["unheard"] \in Nat /\ tally["teardowns"] \in Nat
    BY DEF NetworkInv, TallyTypes, Fields
  <2>2. pc = "teardown" /\ pc' = "close" /\ (waiting > 0 => faults' # 0) /\ (faults' = faults \/ faults' # 0)
    BY DEF Network!Teardown, Network!Asked, Network!Unanswered, NetworkInv, NetworkTypes
  <2>3. CASE tally' = tally /\ faults' # 0
    BY <2>1, <2>2, <2>3 DEF NetworkInv, ServerInv, Starting, Over, Ended, FlagTypes
  <2>4. CASE server' = "gone" /\ Network!Count({"teardowns"})
    <3>1. \A f \in Fields : tally'[f] = IF f \in {"teardowns"} THEN tally[f] + 1 ELSE tally[f]
      BY <2>4, Counting DEF NetworkInv
    <3>2. /\ tally'["received"] = tally["received"] /\ tally'["delivered"] = tally["delivered"]
          /\ tally'["duplicate"] = tally["duplicate"] /\ tally'["late"] = tally["late"]
          /\ tally'["foreign"] = tally["foreign"] /\ tally'["lost"] = tally["lost"]
          /\ tally'["samples"] = tally["samples"] /\ tally'["written"] = tally["written"]
          /\ tally'["failed"] = tally["failed"]
          /\ tally'["refused"] = tally["refused"] /\ tally'["unheard"] = tally["unheard"]
          /\ tally'["teardowns"] = tally["teardowns"] + 1
      BY <3>1 DEF Fields
    <3> QED
      BY <2>1, <2>2, <2>4, <3>2 DEF NetworkInv, ServerInv, Starting, Over, Ended, FlagTypes
  <2> QED
    BY <2>3, <2>4, <2>2 DEF Network!Teardown, Network!Asked, Network!Unanswered, NetworkInv,
       NetworkTypes
<1> QED
  BY <1>1, <1>2, <1>3, <1>4, <1>5, <1>6, <1>7, <1>8, <1>9 DEF NetworkInv

LEMMA CloseSocketKeepsNetwork ==
  ASSUME NetworkInv, Network!CloseSocket
  PROVE  NetworkInv'
<1>1. NetworkTypes'
  BY DEF NetworkInv, NetworkTypes, Ended, Starting, Over, Network!CloseSocket
<1>2. FlagTypes'
  BY DEF NetworkInv, FlagTypes, Ended, Starting, Over, Network!CloseSocket
<1>3. TallyTypes'
  BY DEF NetworkInv, TallyTypes, Ended, Starting, Over, Network!CloseSocket
<1>4. PacketTypes'
  BY DEF NetworkInv, PacketTypes, Ended, Starting, Over, Network!CloseSocket
<1>5. OwnerInv'
  BY DEF NetworkInv, OwnerInv, FlagTypes, Ended, Starting, Over, Network!CloseSocket
<1>6. ThreadInv'
  BY DEF NetworkInv, ThreadInv, FlagTypes, OwnerInv, Ended, Starting, Over, Network!CloseSocket
<1>7. CountInv'
  BY DEF NetworkInv, CountInv, TallyTypes, OwnerInv, Ended, Starting, Over, Network!CloseSocket
<1>8. PacketInv'
  BY DEF NetworkInv, PacketInv, TallyTypes, PacketTypes, OwnerInv, ThreadInv, Ended, Starting,
     Over, Network!CloseSocket
<1>9. ServerInv'
  BY DEF NetworkInv, ServerInv, NetworkTypes, FlagTypes, OwnerInv, Ended, Starting, Over,
     Network!CloseSocket
<1> QED
  BY <1>1, <1>2, <1>3, <1>4, <1>5, <1>6, <1>7, <1>8, <1>9 DEF NetworkInv

LEMMA JoinKeepsNetwork ==
  ASSUME NetworkInv, Network!Join
  PROVE  NetworkInv'
<1>1. NetworkTypes'
  BY DEF NetworkInv, NetworkTypes, Ended, Starting, Over, Network!Join
<1>2. FlagTypes'
  BY DEF NetworkInv, FlagTypes, Ended, Starting, Over, Network!Join
<1>3. TallyTypes'
  BY DEF NetworkInv, TallyTypes, Ended, Starting, Over, Network!Join
<1>4. PacketTypes'
  BY DEF NetworkInv, PacketTypes, Ended, Starting, Over, Network!Join
<1>5. OwnerInv'
  BY DEF NetworkInv, OwnerInv, FlagTypes, Ended, Starting, Over, Network!Join
<1>6. ThreadInv'
  BY DEF NetworkInv, ThreadInv, FlagTypes, OwnerInv, Ended, Starting, Over, Network!Join
<1>7. CountInv'
  BY DEF NetworkInv, CountInv, TallyTypes, OwnerInv, Ended, Starting, Over, Network!Join
<1>8. PacketInv'
  BY DEF NetworkInv, PacketInv, TallyTypes, PacketTypes, OwnerInv, ThreadInv, Ended, Starting,
     Over, Network!Join
<1>9. ServerInv'
  BY DEF NetworkInv, ServerInv, NetworkTypes, FlagTypes, OwnerInv, Ended, Starting, Over,
     Network!Join
<1> QED
  BY <1>1, <1>2, <1>3, <1>4, <1>5, <1>6, <1>7, <1>8, <1>9 DEF NetworkInv

LEMMA ResetKeepsNetwork ==
  ASSUME NetworkInv, Network!Reset
  PROVE  NetworkInv'
<1>1. NetworkTypes'
  BY DEF NetworkInv, NetworkTypes, Ended, Starting, Over, Network!Reset
<1>2. FlagTypes'
  BY DEF NetworkInv, FlagTypes, Ended, Starting, Over, Network!Reset
<1>3. TallyTypes'
  BY DEF NetworkInv, TallyTypes, Ended, Starting, Over, Network!Reset
<1>4. PacketTypes'
  BY DEF NetworkInv, PacketTypes, Ended, Starting, Over, Network!Reset
<1>5. OwnerInv'
  BY DEF NetworkInv, OwnerInv, FlagTypes, Ended, Starting, Over, Network!Reset
<1>6. ThreadInv'
  BY DEF NetworkInv, ThreadInv, FlagTypes, OwnerInv, Ended, Starting, Over, Network!Reset
<1>7. CountInv'
  BY DEF NetworkInv, CountInv, TallyTypes, OwnerInv, Ended, Starting, Over, Network!Reset
<1>8. PacketInv'
  BY DEF NetworkInv, PacketInv, TallyTypes, PacketTypes, OwnerInv, ThreadInv, Ended, Starting,
     Over, Network!Reset
<1>9. ServerInv'
  BY DEF NetworkInv, ServerInv, NetworkTypes, FlagTypes, OwnerInv, Ended, Starting, Over,
     Network!Reset
<1> QED
  BY <1>1, <1>2, <1>3, <1>4, <1>5, <1>6, <1>7, <1>8, <1>9 DEF NetworkInv

LEMMA UnsubscribeKeepsNetwork ==
  ASSUME NetworkInv, Network!Unsubscribe
  PROVE  NetworkInv'
<1>1. NetworkTypes'
  BY DEF NetworkInv, NetworkTypes, Ended, Starting, Over, Network!Unsubscribe
<1>2. FlagTypes'
  BY DEF NetworkInv, FlagTypes, Ended, Starting, Over, Network!Unsubscribe
<1>3. TallyTypes'
  BY DEF NetworkInv, TallyTypes, Ended, Starting, Over, Network!Unsubscribe
<1>4. PacketTypes'
  BY DEF NetworkInv, PacketTypes, Ended, Starting, Over, Network!Unsubscribe
<1>5. OwnerInv'
  BY DEF NetworkInv, OwnerInv, FlagTypes, Ended, Starting, Over, Network!Unsubscribe
<1>6. ThreadInv'
  BY DEF NetworkInv, ThreadInv, FlagTypes, OwnerInv, Ended, Starting, Over, Network!Unsubscribe
<1>7. CountInv'
  BY DEF NetworkInv, CountInv, TallyTypes, OwnerInv, Ended, Starting, Over, Network!Unsubscribe
<1>8. PacketInv'
  BY DEF NetworkInv, PacketInv, TallyTypes, PacketTypes, OwnerInv, ThreadInv, Ended, Starting,
     Over, Network!Unsubscribe
<1>9. ServerInv'
  BY DEF NetworkInv, ServerInv, NetworkTypes, FlagTypes, OwnerInv, Ended, Starting, Over,
     Network!Unsubscribe
<1> QED
  BY <1>1, <1>2, <1>3, <1>4, <1>5, <1>6, <1>7, <1>8, <1>9 DEF NetworkInv

LEMMA FinishKeepsNetwork ==
  ASSUME NetworkInv, Network!Finish
  PROVE  NetworkInv'
<1>1. NetworkTypes'
  BY DEF NetworkInv, NetworkTypes, Ended, Starting, Over, Network!Finish
<1>2. FlagTypes'
  BY DEF NetworkInv, FlagTypes, Ended, Starting, Over, Network!Finish
<1>3. TallyTypes'
  BY DEF NetworkInv, TallyTypes, Ended, Starting, Over, Network!Finish
<1>4. PacketTypes'
  BY DEF NetworkInv, PacketTypes, Ended, Starting, Over, Network!Finish
<1>5. OwnerInv'
  BY DEF NetworkInv, OwnerInv, FlagTypes, Ended, Starting, Over, Network!Finish
<1>6. ThreadInv'
  BY DEF NetworkInv, ThreadInv, FlagTypes, OwnerInv, Ended, Starting, Over, Network!Finish
<1>7. CountInv'
  BY DEF NetworkInv, CountInv, TallyTypes, OwnerInv, Ended, Starting, Over, Network!Finish
<1>8. PacketInv'
  BY DEF NetworkInv, PacketInv, TallyTypes, PacketTypes, OwnerInv, ThreadInv, Ended, Starting,
     Over, Network!Finish
<1>9. ServerInv'
  <2>1. pc = "finish" /\ pc' \in {"failed", "stopped"} /\ server' = server /\ tally' = tally
    BY DEF Network!Finish
  <2>2. CASE failing' = TRUE /\ pc' = "failed"
    BY <2>1, <2>2 DEF NetworkInv, ServerInv, FlagTypes, Starting, Over
  <2>3. CASE failing' = failing /\ faults' = faults /\ pc' = IF failing THEN "failed" ELSE "stopped"
    <3>1. CASE failing
      BY <2>1, <2>3, <3>1 DEF NetworkInv, ServerInv, FlagTypes, Starting, Over
    <3>2. CASE ~failing
      BY <2>1, <2>3, <3>2 DEF NetworkInv, ServerInv, FlagTypes, Starting, Over
    <3> QED
      BY <3>1, <3>2
  <2> QED
    BY <2>2, <2>3 DEF Network!Finish
<1> QED
  BY <1>1, <1>2, <1>3, <1>4, <1>5, <1>6, <1>7, <1>8, <1>9 DEF NetworkInv

LEMMA ReaderLoopsKeepsNetwork ==
  ASSUME NetworkInv, Network!ReaderLoops
  PROVE  NetworkInv'
<1>1. NetworkTypes'
  BY DEF NetworkInv, NetworkTypes, Ended, Starting, Over, Network!ReaderLoops
<1>2. FlagTypes'
  BY DEF NetworkInv, FlagTypes, Ended, Starting, Over, Network!ReaderLoops
<1>3. TallyTypes'
  BY DEF NetworkInv, TallyTypes, Ended, Starting, Over, Network!ReaderLoops
<1>4. PacketTypes'
  BY DEF NetworkInv, PacketTypes, Ended, Starting, Over, Network!ReaderLoops
<1>5. OwnerInv'
  BY DEF NetworkInv, OwnerInv, FlagTypes, Ended, Starting, Over, Network!ReaderLoops
<1>6. ThreadInv'
  BY DEF NetworkInv, ThreadInv, FlagTypes, OwnerInv, Ended, Starting, Over, Network!ReaderLoops
<1>7. CountInv'
  BY DEF NetworkInv, CountInv, TallyTypes, OwnerInv, Ended, Starting, Over, Network!ReaderLoops
<1>8. PacketInv'
  BY DEF NetworkInv, PacketInv, TallyTypes, PacketTypes, OwnerInv, ThreadInv, Ended, Starting,
     Over, Network!ReaderLoops
<1>9. ServerInv'
  BY DEF NetworkInv, ServerInv, NetworkTypes, FlagTypes, OwnerInv, Ended, Starting, Over,
     Network!ReaderLoops
<1> QED
  BY <1>1, <1>2, <1>3, <1>4, <1>5, <1>6, <1>7, <1>8, <1>9 DEF NetworkInv

LEMMA ReaderWakesKeepsNetwork ==
  ASSUME NetworkInv, Network!ReaderWakes
  PROVE  NetworkInv'
<1>1. NetworkTypes'
  BY DEF NetworkInv, NetworkTypes, Ended, Starting, Over, Network!ReaderWakes, Network!Count
<1>2. FlagTypes'
  BY DEF NetworkInv, FlagTypes, Ended, Starting, Over, Network!ReaderWakes, Network!Count
<1>3. TallyTypes'
  BY DEF NetworkInv, TallyTypes, Ended, Starting, Over, Network!ReaderWakes, Network!Count, Fields
<1>4. PacketTypes'
  BY DEF NetworkInv, PacketTypes, Ended, Starting, Over, Network!ReaderWakes, Network!Count
<1>5. OwnerInv'
  BY DEF NetworkInv, OwnerInv, FlagTypes, Ended, Starting, Over, Network!ReaderWakes,
     Network!Count
<1>6. ThreadInv'
  BY DEF NetworkInv, ThreadInv, FlagTypes, OwnerInv, Ended, Starting, Over, Network!ReaderWakes,
     Network!Count
<1>7. CountInv'
  <2>1. /\ tally["received"] \in Nat /\ tally["delivered"] \in Nat /\ tally["duplicate"] \in Nat
        /\ tally["late"] \in Nat /\ tally["foreign"] \in Nat /\ tally["lost"] \in Nat
        /\ tally["samples"] \in Nat /\ tally["written"] \in Nat /\ tally["failed"] \in Nat
        /\ tally["refused"] \in Nat /\ tally["unheard"] \in Nat /\ tally["teardowns"] \in Nat
    BY DEF NetworkInv, TallyTypes, Fields
  <2>2. reader = "receive" /\ reader' \in {"loop", "ended"} /\ (faults' = 0 => faults = 0)
          /\ UNCHANGED <<previous, first, shift, clock, recent, stuck, pc, failing, server>>
    BY DEF Network!ReaderWakes, NetworkInv, NetworkTypes
  <2>3. CASE tally' = tally
    BY <2>1, <2>2, <2>3 DEF NetworkInv, CountInv, Starting, Over, Ended
  <2>4. CASE Network!Count({"broken"})
    <3>1. \A f \in Fields : tally'[f] = IF f \in {"broken"} THEN tally[f] + 1 ELSE tally[f]
      BY <2>4, Counting DEF NetworkInv
    <3>2. /\ tally'["received"] = tally["received"] /\ tally'["delivered"] = tally["delivered"]
          /\ tally'["duplicate"] = tally["duplicate"] /\ tally'["late"] = tally["late"]
          /\ tally'["foreign"] = tally["foreign"] /\ tally'["lost"] = tally["lost"]
          /\ tally'["samples"] = tally["samples"] /\ tally'["written"] = tally["written"]
          /\ tally'["failed"] = tally["failed"]
          /\ tally'["refused"] = tally["refused"] /\ tally'["unheard"] = tally["unheard"]
          /\ tally'["teardowns"] = tally["teardowns"]
      BY <3>1 DEF Fields
    <3> QED
      BY <2>1, <2>2, <2>4, <3>2 DEF NetworkInv, CountInv, Starting, Over, Ended
  <2> QED
    BY <2>3, <2>4, <2>2 DEF Network!ReaderWakes, NetworkInv, NetworkTypes
<1>8. PacketInv'
  <2>1. /\ tally["received"] \in Nat /\ tally["delivered"] \in Nat /\ tally["duplicate"] \in Nat
        /\ tally["late"] \in Nat /\ tally["foreign"] \in Nat /\ tally["lost"] \in Nat
        /\ tally["samples"] \in Nat /\ tally["written"] \in Nat /\ tally["failed"] \in Nat
        /\ tally["refused"] \in Nat /\ tally["unheard"] \in Nat /\ tally["teardowns"] \in Nat
    BY DEF NetworkInv, TallyTypes, Fields
  <2>2. reader = "receive" /\ reader' \in {"loop", "ended"} /\ (faults' = 0 => faults = 0)
          /\ UNCHANGED <<previous, first, shift, clock, recent, stuck, pc, failing, server>>
    BY DEF Network!ReaderWakes, NetworkInv, NetworkTypes
  <2>3. CASE tally' = tally
    BY <2>1, <2>2, <2>3 DEF NetworkInv, PacketInv, Starting, Over, Ended
  <2>4. CASE Network!Count({"broken"})
    <3>1. \A f \in Fields : tally'[f] = IF f \in {"broken"} THEN tally[f] + 1 ELSE tally[f]
      BY <2>4, Counting DEF NetworkInv
    <3>2. /\ tally'["received"] = tally["received"] /\ tally'["delivered"] = tally["delivered"]
          /\ tally'["duplicate"] = tally["duplicate"] /\ tally'["late"] = tally["late"]
          /\ tally'["foreign"] = tally["foreign"] /\ tally'["lost"] = tally["lost"]
          /\ tally'["samples"] = tally["samples"] /\ tally'["written"] = tally["written"]
          /\ tally'["failed"] = tally["failed"]
          /\ tally'["refused"] = tally["refused"] /\ tally'["unheard"] = tally["unheard"]
          /\ tally'["teardowns"] = tally["teardowns"]
      BY <3>1 DEF Fields
    <3> QED
      BY <2>1, <2>2, <2>4, <3>2 DEF NetworkInv, PacketInv, Starting, Over, Ended
  <2> QED
    BY <2>3, <2>4, <2>2 DEF Network!ReaderWakes, NetworkInv, NetworkTypes
<1>9. ServerInv'
  <2>1. /\ tally["received"] \in Nat /\ tally["delivered"] \in Nat /\ tally["duplicate"] \in Nat
        /\ tally["late"] \in Nat /\ tally["foreign"] \in Nat /\ tally["lost"] \in Nat
        /\ tally["samples"] \in Nat /\ tally["written"] \in Nat /\ tally["failed"] \in Nat
        /\ tally["refused"] \in Nat /\ tally["unheard"] \in Nat /\ tally["teardowns"] \in Nat
    BY DEF NetworkInv, TallyTypes, Fields
  <2>2. reader = "receive" /\ reader' \in {"loop", "ended"} /\ (faults' = 0 => faults = 0)
          /\ UNCHANGED <<previous, first, shift, clock, recent, stuck, pc, failing, server>>
    BY DEF Network!ReaderWakes, NetworkInv, NetworkTypes
  <2>3. CASE tally' = tally
    BY <2>1, <2>2, <2>3 DEF NetworkInv, ServerInv, Starting, Over, Ended, FlagTypes
  <2>4. CASE Network!Count({"broken"})
    <3>1. \A f \in Fields : tally'[f] = IF f \in {"broken"} THEN tally[f] + 1 ELSE tally[f]
      BY <2>4, Counting DEF NetworkInv
    <3>2. /\ tally'["received"] = tally["received"] /\ tally'["delivered"] = tally["delivered"]
          /\ tally'["duplicate"] = tally["duplicate"] /\ tally'["late"] = tally["late"]
          /\ tally'["foreign"] = tally["foreign"] /\ tally'["lost"] = tally["lost"]
          /\ tally'["samples"] = tally["samples"] /\ tally'["written"] = tally["written"]
          /\ tally'["failed"] = tally["failed"]
          /\ tally'["refused"] = tally["refused"] /\ tally'["unheard"] = tally["unheard"]
          /\ tally'["teardowns"] = tally["teardowns"]
      BY <3>1 DEF Fields
    <3> QED
      BY <2>1, <2>2, <2>4, <3>2 DEF NetworkInv, ServerInv, Starting, Over, Ended, FlagTypes
  <2> QED
    BY <2>3, <2>4, <2>2 DEF Network!ReaderWakes, NetworkInv, NetworkTypes
<1> QED
  BY <1>1, <1>2, <1>3, <1>4, <1>5, <1>6, <1>7, <1>8, <1>9 DEF NetworkInv

\* A packet goes on to the bus, or from there to the recorder.
LEMMA PassedOnKeepsNetwork ==
  ASSUME NetworkInv, reader \in {"deliver", "emit"}, reader' \in {"emit", "write"},
         UNCHANGED <<tally, faults>>,
         UNCHANGED <<pc, failing, sock, client, asking, waiting, server, published, handler,
                   subscribed, wav, keeper, previous, recent, clock, shift, first, stuck>>
  PROVE  NetworkInv'
<1>1. NetworkTypes' /\ FlagTypes' /\ TallyTypes' /\ PacketTypes'
  BY DEF NetworkInv, NetworkTypes, FlagTypes, TallyTypes, PacketTypes
<1>2. OwnerInv'
  BY DEF NetworkInv, OwnerInv, Ended, Starting, Over
<1>3. ThreadInv'
  BY DEF NetworkInv, ThreadInv, Ended, Over
<1>4. CountInv'
  BY DEF NetworkInv, CountInv
<1>5. PacketInv' /\ ServerInv'
  BY DEF NetworkInv, PacketInv, ServerInv
<1> QED
  BY <1>1, <1>2, <1>3, <1>4, <1>5 DEF NetworkInv

\* What becomes of a packet in the reader's hands is counted once.
LEMMA SettledKeepsNetwork ==
  ASSUME NetworkInv, NEW why \in {"written", "failed", "refused", "unheard"},
         reader \in {"deliver", "emit", "write"}, reader' = "loop", Network!Count({why}),
         why \in {"refused", "unheard"} => stuck, faults' \in {faults, faults + 1},
         UNCHANGED <<pc, failing, sock, client, asking, waiting, server, published, handler,
                   subscribed, wav, keeper, previous, recent, clock, shift, first, stuck>>
  PROVE  NetworkInv'
<1>1. \A f \in Fields : tally'[f] = IF f \in {why} THEN tally[f] + 1 ELSE tally[f]
  BY Counting DEF NetworkInv
<1>2. tally' \in [Fields -> Nat]
  BY DEF NetworkInv, TallyTypes, Network!Count
<1>3. /\ tally["received"] \in Nat /\ tally["delivered"] \in Nat /\ tally["duplicate"] \in Nat
      /\ tally["late"] \in Nat /\ tally["foreign"] \in Nat /\ tally["lost"] \in Nat
      /\ tally["samples"] \in Nat /\ tally["written"] \in Nat /\ tally["failed"] \in Nat
      /\ tally["refused"] \in Nat /\ tally["unheard"] \in Nat /\ tally["teardowns"] \in Nat
  BY DEF NetworkInv, TallyTypes, Fields
<1>4. /\ tally'["received"] = tally["received"] /\ tally'["delivered"] = tally["delivered"]
      /\ tally'["duplicate"] = tally["duplicate"] /\ tally'["late"] = tally["late"]
      /\ tally'["foreign"] = tally["foreign"] /\ tally'["lost"] = tally["lost"]
      /\ tally'["samples"] = tally["samples"] /\ tally'["teardowns"] = tally["teardowns"]
      /\ tally'["written"] = tally["written"] + (IF why = "written" THEN 1 ELSE 0)
      /\ tally'["failed"] = tally["failed"] + (IF why = "failed" THEN 1 ELSE 0)
      /\ tally'["refused"] = tally["refused"] + (IF why = "refused" THEN 1 ELSE 0)
      /\ tally'["unheard"] = tally["unheard"] + (IF why = "unheard" THEN 1 ELSE 0)
  BY <1>1, <1>3 DEF Fields
<1>5. faults' \in Nat /\ (faults > 0 => faults' > 0) /\ (faults' = 0 => faults = 0)
  BY DEF NetworkInv, NetworkTypes
<1>6. NetworkTypes' /\ FlagTypes' /\ TallyTypes' /\ PacketTypes'
  BY <1>2, <1>5 DEF NetworkInv, NetworkTypes, FlagTypes, TallyTypes, PacketTypes
<1>7. OwnerInv'
  BY DEF NetworkInv, OwnerInv, Ended, Starting, Over
<1>8. ThreadInv'
  BY DEF NetworkInv, ThreadInv, Ended, Over
<1>9. CountInv'
  BY <1>3, <1>4 DEF NetworkInv, CountInv
<1>10. PacketInv'
  BY <1>4 DEF NetworkInv, PacketInv
<1>11. ServerInv'
  BY <1>4, <1>5 DEF NetworkInv, ServerInv
<1> QED
  BY <1>6, <1>7, <1>8, <1>9, <1>10, <1>11 DEF NetworkInv

LEMMA ReaderCallsKeepsNetwork ==
  ASSUME NetworkInv, Network!ReaderCalls
  PROVE  NetworkInv'
<1>1. reader = "deliver" /\ UNCHANGED faults
      /\ UNCHANGED <<pc, failing, sock, client, asking, waiting, server, published, handler,
                   subscribed, wav, keeper, previous, recent, clock, shift, first, stuck>>
  BY DEF Network!ReaderCalls
<1>2. CASE handler /\ reader' = "emit" /\ UNCHANGED tally
  BY <1>1, <1>2, PassedOnKeepsNetwork
<1>3. CASE ~handler /\ reader' = "loop" /\ Network!Count({"unheard"})
  <2>1. stuck
    BY <1>1, <1>3 DEF NetworkInv, ThreadInv, Ended
  <2> QED
    BY <1>1, <1>3, <2>1, SettledKeepsNetwork
<1> QED
  BY <1>2, <1>3 DEF Network!ReaderCalls

LEMMA ReaderEmitsKeepsNetwork ==
  ASSUME NetworkInv, Network!ReaderEmits
  PROVE  NetworkInv'
<1>1. reader = "emit" /\ UNCHANGED faults
      /\ UNCHANGED <<pc, failing, sock, client, asking, waiting, server, published, handler,
                   subscribed, wav, keeper, previous, recent, clock, shift, first, stuck>>
  BY DEF Network!ReaderEmits
<1>2. CASE subscribed /\ reader' = "write" /\ UNCHANGED tally
  BY <1>1, <1>2, PassedOnKeepsNetwork
<1>3. CASE ~subscribed /\ reader' = "loop" /\ Network!Count({"unheard"})
  <2>1. stuck
    BY <1>1, <1>3 DEF NetworkInv, ThreadInv, Ended
  <2> QED
    BY <1>1, <1>3, <2>1, SettledKeepsNetwork
<1> QED
  BY <1>2, <1>3 DEF Network!ReaderEmits

LEMMA ReaderWritesKeepsNetwork ==
  ASSUME NetworkInv, Network!ReaderWrites
  PROVE  NetworkInv'
<1>1. reader = "write" /\ reader' = "loop"
      /\ UNCHANGED <<pc, failing, sock, client, asking, waiting, server, published, handler,
                   subscribed, wav, keeper, previous, recent, clock, shift, first, stuck>>
  BY DEF Network!ReaderWrites
<1>2. CASE Network!Count({"written"}) /\ faults' = faults
  BY <1>1, <1>2, SettledKeepsNetwork
<1>3. CASE Network!Count({"failed"}) /\ faults' = faults + 1
  BY <1>1, <1>3, SettledKeepsNetwork
<1>4. CASE wav # "open" /\ Network!Count({"refused"}) /\ faults' = faults
  <2>1. stuck
    BY <1>1, <1>4 DEF NetworkInv, ThreadInv, Ended
  <2> QED
    BY <1>1, <1>4, <2>1, SettledKeepsNetwork
<1> QED
  BY <1>2, <1>3, <1>4 DEF Network!ReaderWrites

LEMMA KeeperEndsKeepsNetwork ==
  ASSUME NetworkInv, Network!KeeperEnds
  PROVE  NetworkInv'
<1>1. NetworkTypes'
  BY DEF NetworkInv, NetworkTypes, Ended, Starting, Over, Network!KeeperEnds
<1>2. FlagTypes'
  BY DEF NetworkInv, FlagTypes, Ended, Starting, Over, Network!KeeperEnds
<1>3. TallyTypes'
  BY DEF NetworkInv, TallyTypes, Ended, Starting, Over, Network!KeeperEnds
<1>4. PacketTypes'
  BY DEF NetworkInv, PacketTypes, Ended, Starting, Over, Network!KeeperEnds
<1>5. OwnerInv'
  BY DEF NetworkInv, OwnerInv, FlagTypes, Ended, Starting, Over, Network!KeeperEnds
<1>6. ThreadInv'
  BY DEF NetworkInv, ThreadInv, FlagTypes, OwnerInv, Ended, Starting, Over, Network!KeeperEnds
<1>7. CountInv'
  BY DEF NetworkInv, CountInv, TallyTypes, OwnerInv, Ended, Starting, Over, Network!KeeperEnds
<1>8. PacketInv'
  BY DEF NetworkInv, PacketInv, TallyTypes, PacketTypes, OwnerInv, ThreadInv, Ended, Starting,
     Over, Network!KeeperEnds
<1>9. ServerInv'
  BY DEF NetworkInv, ServerInv, NetworkTypes, FlagTypes, OwnerInv, Ended, Starting, Over,
     Network!KeeperEnds
<1> QED
  BY <1>1, <1>2, <1>3, <1>4, <1>5, <1>6, <1>7, <1>8, <1>9 DEF NetworkInv

LEMMA KeeperTakesKeepsNetwork ==
  ASSUME NetworkInv, Network!KeeperTakes
  PROVE  NetworkInv'
<1>1. NetworkTypes'
  BY DEF NetworkInv, NetworkTypes, Ended, Starting, Over, Network!KeeperTakes
<1>2. FlagTypes'
  BY DEF NetworkInv, FlagTypes, Ended, Starting, Over, Network!KeeperTakes
<1>3. TallyTypes'
  BY DEF NetworkInv, TallyTypes, Ended, Starting, Over, Network!KeeperTakes
<1>4. PacketTypes'
  BY DEF NetworkInv, PacketTypes, Ended, Starting, Over, Network!KeeperTakes
<1>5. OwnerInv'
  BY DEF NetworkInv, OwnerInv, FlagTypes, Ended, Starting, Over, Network!KeeperTakes
<1>6. ThreadInv'
  BY DEF NetworkInv, ThreadInv, FlagTypes, OwnerInv, Ended, Starting, Over, Network!KeeperTakes
<1>7. CountInv'
  BY DEF NetworkInv, CountInv, TallyTypes, OwnerInv, Ended, Starting, Over, Network!KeeperTakes
<1>8. PacketInv'
  BY DEF NetworkInv, PacketInv, TallyTypes, PacketTypes, OwnerInv, ThreadInv, Ended, Starting,
     Over, Network!KeeperTakes
<1>9. ServerInv'
  BY DEF NetworkInv, ServerInv, NetworkTypes, FlagTypes, OwnerInv, Ended, Starting, Over,
     Network!KeeperTakes
<1> QED
  BY <1>1, <1>2, <1>3, <1>4, <1>5, <1>6, <1>7, <1>8, <1>9 DEF NetworkInv

LEMMA KeeperLocksKeepsNetwork ==
  ASSUME NetworkInv, Network!KeeperLocks
  PROVE  NetworkInv'
<1>1. NetworkTypes'
  BY DEF NetworkInv, NetworkTypes, Ended, Starting, Over, Network!KeeperLocks
<1>2. FlagTypes'
  BY DEF NetworkInv, FlagTypes, Ended, Starting, Over, Network!KeeperLocks
<1>3. TallyTypes'
  BY DEF NetworkInv, TallyTypes, Ended, Starting, Over, Network!KeeperLocks
<1>4. PacketTypes'
  BY DEF NetworkInv, PacketTypes, Ended, Starting, Over, Network!KeeperLocks
<1>5. OwnerInv'
  BY DEF NetworkInv, OwnerInv, FlagTypes, Ended, Starting, Over, Network!KeeperLocks
<1>6. ThreadInv'
  BY DEF NetworkInv, ThreadInv, FlagTypes, OwnerInv, Ended, Starting, Over, Network!KeeperLocks
<1>7. CountInv'
  BY DEF NetworkInv, CountInv, TallyTypes, OwnerInv, Ended, Starting, Over, Network!KeeperLocks
<1>8. PacketInv'
  BY DEF NetworkInv, PacketInv, TallyTypes, PacketTypes, OwnerInv, ThreadInv, Ended, Starting,
     Over, Network!KeeperLocks
<1>9. ServerInv'
  BY DEF NetworkInv, ServerInv, NetworkTypes, FlagTypes, OwnerInv, Ended, Starting, Over,
     Network!KeeperLocks
<1> QED
  BY <1>1, <1>2, <1>3, <1>4, <1>5, <1>6, <1>7, <1>8, <1>9 DEF NetworkInv

LEMMA KeeperAsksKeepsNetwork ==
  ASSUME NetworkInv, Network!KeeperAsks
  PROVE  NetworkInv'
<1>1. NetworkTypes'
  BY DEF NetworkInv, NetworkTypes, Ended, Starting, Over, Network!KeeperAsks, Network!Asked,
     Network!Unanswered, Network!Count
<1>2. FlagTypes'
  BY DEF NetworkInv, FlagTypes, Ended, Starting, Over, Network!KeeperAsks, Network!Asked,
     Network!Unanswered, Network!Count
<1>3. TallyTypes'
  BY DEF NetworkInv, TallyTypes, Ended, Starting, Over, Network!KeeperAsks, Network!Asked,
     Network!Unanswered, Network!Count, Fields
<1>4. PacketTypes'
  BY DEF NetworkInv, PacketTypes, Ended, Starting, Over, Network!KeeperAsks, Network!Asked,
     Network!Unanswered, Network!Count
<1>5. OwnerInv'
  BY DEF NetworkInv, OwnerInv, FlagTypes, Ended, Starting, Over, Network!KeeperAsks,
     Network!Asked, Network!Unanswered, Network!Count
<1>6. ThreadInv'
  BY DEF NetworkInv, ThreadInv, FlagTypes, OwnerInv, Ended, Starting, Over, Network!KeeperAsks,
     Network!Asked, Network!Unanswered, Network!Count
<1>7. CountInv'
  <2>1. /\ tally["received"] \in Nat /\ tally["delivered"] \in Nat /\ tally["duplicate"] \in Nat
        /\ tally["late"] \in Nat /\ tally["foreign"] \in Nat /\ tally["lost"] \in Nat
        /\ tally["samples"] \in Nat /\ tally["written"] \in Nat /\ tally["failed"] \in Nat
        /\ tally["refused"] \in Nat /\ tally["unheard"] \in Nat /\ tally["teardowns"] \in Nat
    BY DEF NetworkInv, TallyTypes, Fields
  <2>2. UNCHANGED <<previous, first, shift, clock, recent, stuck, pc, failing, reader>>
    BY DEF Network!KeeperAsks, Network!Asked, Network!Unanswered
  <2>3. CASE tally' = tally
    BY <2>1, <2>2, <2>3 DEF NetworkInv, CountInv, Starting, Over, Ended
  <2>4. CASE Network!Count({"unkept"})
    <3>1. \A f \in Fields : tally'[f] = IF f \in {"unkept"} THEN tally[f] + 1 ELSE tally[f]
      BY <2>4, Counting DEF NetworkInv
    <3>2. /\ tally'["received"] = tally["received"] /\ tally'["delivered"] = tally["delivered"]
          /\ tally'["duplicate"] = tally["duplicate"] /\ tally'["late"] = tally["late"]
          /\ tally'["foreign"] = tally["foreign"] /\ tally'["lost"] = tally["lost"]
          /\ tally'["samples"] = tally["samples"] /\ tally'["written"] = tally["written"]
          /\ tally'["failed"] = tally["failed"]
          /\ tally'["refused"] = tally["refused"] /\ tally'["unheard"] = tally["unheard"]
          /\ tally'["teardowns"] = tally["teardowns"]
      BY <3>1 DEF Fields
    <3> QED
      BY <2>1, <2>2, <2>4, <3>2 DEF NetworkInv, CountInv, Starting, Over, Ended
  <2> QED
    BY <2>3, <2>4, <2>2 DEF Network!KeeperAsks, Network!Asked, Network!Unanswered
<1>8. PacketInv'
  <2>1. /\ tally["received"] \in Nat /\ tally["delivered"] \in Nat /\ tally["duplicate"] \in Nat
        /\ tally["late"] \in Nat /\ tally["foreign"] \in Nat /\ tally["lost"] \in Nat
        /\ tally["samples"] \in Nat /\ tally["written"] \in Nat /\ tally["failed"] \in Nat
        /\ tally["refused"] \in Nat /\ tally["unheard"] \in Nat /\ tally["teardowns"] \in Nat
    BY DEF NetworkInv, TallyTypes, Fields
  <2>2. UNCHANGED <<previous, first, shift, clock, recent, stuck, pc, failing, reader>>
    BY DEF Network!KeeperAsks, Network!Asked, Network!Unanswered
  <2>3. CASE tally' = tally
    BY <2>1, <2>2, <2>3 DEF NetworkInv, PacketInv, Starting, Over, Ended
  <2>4. CASE Network!Count({"unkept"})
    <3>1. \A f \in Fields : tally'[f] = IF f \in {"unkept"} THEN tally[f] + 1 ELSE tally[f]
      BY <2>4, Counting DEF NetworkInv
    <3>2. /\ tally'["received"] = tally["received"] /\ tally'["delivered"] = tally["delivered"]
          /\ tally'["duplicate"] = tally["duplicate"] /\ tally'["late"] = tally["late"]
          /\ tally'["foreign"] = tally["foreign"] /\ tally'["lost"] = tally["lost"]
          /\ tally'["samples"] = tally["samples"] /\ tally'["written"] = tally["written"]
          /\ tally'["failed"] = tally["failed"]
          /\ tally'["refused"] = tally["refused"] /\ tally'["unheard"] = tally["unheard"]
          /\ tally'["teardowns"] = tally["teardowns"]
      BY <3>1 DEF Fields
    <3> QED
      BY <2>1, <2>2, <2>4, <3>2 DEF NetworkInv, PacketInv, Starting, Over, Ended
  <2> QED
    BY <2>3, <2>4, <2>2 DEF Network!KeeperAsks, Network!Asked, Network!Unanswered
<1>9. ServerInv'
  <2>1. /\ tally["received"] \in Nat /\ tally["delivered"] \in Nat /\ tally["duplicate"] \in Nat
        /\ tally["late"] \in Nat /\ tally["foreign"] \in Nat /\ tally["lost"] \in Nat
        /\ tally["samples"] \in Nat /\ tally["written"] \in Nat /\ tally["failed"] \in Nat
        /\ tally["refused"] \in Nat /\ tally["unheard"] \in Nat /\ tally["teardowns"] \in Nat
    BY DEF NetworkInv, TallyTypes, Fields
  <2>2. UNCHANGED <<pc, failing>> /\ (faults' = 0 => faults = 0) /\ server' = server
    BY DEF Network!KeeperAsks, Network!Asked, Network!Unanswered, NetworkInv, NetworkTypes
  <2>3. CASE tally' = tally
    BY <2>1, <2>2, <2>3 DEF NetworkInv, ServerInv, Starting, Over, Ended, FlagTypes
  <2>4. CASE Network!Count({"unkept"})
    <3>1. \A f \in Fields : tally'[f] = IF f \in {"unkept"} THEN tally[f] + 1 ELSE tally[f]
      BY <2>4, Counting DEF NetworkInv
    <3>2. /\ tally'["received"] = tally["received"] /\ tally'["delivered"] = tally["delivered"]
          /\ tally'["duplicate"] = tally["duplicate"] /\ tally'["late"] = tally["late"]
          /\ tally'["foreign"] = tally["foreign"] /\ tally'["lost"] = tally["lost"]
          /\ tally'["samples"] = tally["samples"] /\ tally'["written"] = tally["written"]
          /\ tally'["failed"] = tally["failed"]
          /\ tally'["refused"] = tally["refused"] /\ tally'["unheard"] = tally["unheard"]
          /\ tally'["teardowns"] = tally["teardowns"]
      BY <3>1 DEF Fields
    <3> QED
      BY <2>1, <2>2, <2>4, <3>2 DEF NetworkInv, ServerInv, Starting, Over, Ended, FlagTypes
  <2> QED
    BY <2>3, <2>4, <2>2 DEF Network!KeeperAsks, Network!Asked, Network!Unanswered, NetworkInv,
       NetworkTypes
<1> QED
  BY <1>1, <1>2, <1>3, <1>4, <1>5, <1>6, <1>7, <1>8, <1>9 DEF NetworkInv

LEMMA ReceiveForeignKeepsNetwork ==
  ASSUME NetworkInv, Network!ReceiveForeign
  PROVE  NetworkInv'
<1>1. NetworkTypes'
  BY DEF NetworkInv, NetworkTypes, Ended, Starting, Over, Network!ReceiveForeign, Network!Discard,
     Network!Count
<1>2. FlagTypes'
  BY DEF NetworkInv, FlagTypes, Ended, Starting, Over, Network!ReceiveForeign, Network!Discard,
     Network!Count
<1>3. TallyTypes'
  BY DEF NetworkInv, TallyTypes, Ended, Starting, Over, Network!ReceiveForeign, Network!Discard,
     Network!Count, Fields
<1>4. PacketTypes'
  BY DEF NetworkInv, PacketTypes, Ended, Starting, Over, Network!ReceiveForeign, Network!Discard,
     Network!Count
<1>5. OwnerInv'
  BY DEF NetworkInv, OwnerInv, FlagTypes, Ended, Starting, Over, Network!ReceiveForeign,
     Network!Discard, Network!Count
<1>6. ThreadInv'
  BY DEF NetworkInv, ThreadInv, FlagTypes, OwnerInv, Ended, Starting, Over,
     Network!ReceiveForeign, Network!Discard, Network!Count
<1>7. CountInv'
  <2>1. /\ tally["received"] \in Nat /\ tally["delivered"] \in Nat /\ tally["duplicate"] \in Nat
        /\ tally["late"] \in Nat /\ tally["foreign"] \in Nat /\ tally["lost"] \in Nat
        /\ tally["samples"] \in Nat /\ tally["written"] \in Nat /\ tally["failed"] \in Nat
        /\ tally["refused"] \in Nat /\ tally["unheard"] \in Nat /\ tally["teardowns"] \in Nat
    BY DEF NetworkInv, TallyTypes, Fields
  <2>2. reader = "receive" /\ reader' = "loop" /\ faults' # 0
          /\ UNCHANGED <<previous, first, shift, clock, recent, stuck, pc, failing, server>>
    BY DEF Network!ReceiveForeign, Network!Discard, NetworkInv, NetworkTypes
  <2>3. CASE Network!Count({"received", "foreign"})
    <3>1. \A f \in Fields : tally'[f] = IF f \in {"received", "foreign"} THEN tally[f] + 1 ELSE tally[f]
      BY <2>3, Counting DEF NetworkInv
    <3>2. /\ tally'["received"] = tally["received"] + 1 /\ tally'["delivered"] = tally["delivered"]
          /\ tally'["duplicate"] = tally["duplicate"] /\ tally'["late"] = tally["late"]
          /\ tally'["foreign"] = tally["foreign"] + 1 /\ tally'["lost"] = tally["lost"]
          /\ tally'["samples"] = tally["samples"] /\ tally'["written"] = tally["written"]
          /\ tally'["failed"] = tally["failed"]
          /\ tally'["refused"] = tally["refused"] /\ tally'["unheard"] = tally["unheard"]
          /\ tally'["teardowns"] = tally["teardowns"]
      BY <3>1 DEF Fields
    <3> QED
      BY <2>1, <2>2, <2>3, <3>2 DEF NetworkInv, CountInv, Starting, Over, Ended
  <2> QED
    BY <2>3, <2>2 DEF Network!ReceiveForeign, Network!Discard, NetworkInv, NetworkTypes
<1>8. PacketInv'
  <2>1. /\ tally["received"] \in Nat /\ tally["delivered"] \in Nat /\ tally["duplicate"] \in Nat
        /\ tally["late"] \in Nat /\ tally["foreign"] \in Nat /\ tally["lost"] \in Nat
        /\ tally["samples"] \in Nat /\ tally["written"] \in Nat /\ tally["failed"] \in Nat
        /\ tally["refused"] \in Nat /\ tally["unheard"] \in Nat /\ tally["teardowns"] \in Nat
    BY DEF NetworkInv, TallyTypes, Fields
  <2>2. reader = "receive" /\ reader' = "loop" /\ faults' # 0
          /\ UNCHANGED <<previous, first, shift, clock, recent, stuck, pc, failing, server>>
    BY DEF Network!ReceiveForeign, Network!Discard, NetworkInv, NetworkTypes
  <2>3. CASE Network!Count({"received", "foreign"})
    <3>1. \A f \in Fields : tally'[f] = IF f \in {"received", "foreign"} THEN tally[f] + 1 ELSE tally[f]
      BY <2>3, Counting DEF NetworkInv
    <3>2. /\ tally'["received"] = tally["received"] + 1 /\ tally'["delivered"] = tally["delivered"]
          /\ tally'["duplicate"] = tally["duplicate"] /\ tally'["late"] = tally["late"]
          /\ tally'["foreign"] = tally["foreign"] + 1 /\ tally'["lost"] = tally["lost"]
          /\ tally'["samples"] = tally["samples"] /\ tally'["written"] = tally["written"]
          /\ tally'["failed"] = tally["failed"]
          /\ tally'["refused"] = tally["refused"] /\ tally'["unheard"] = tally["unheard"]
          /\ tally'["teardowns"] = tally["teardowns"]
      BY <3>1 DEF Fields
    <3> QED
      BY <2>1, <2>2, <2>3, <3>2 DEF NetworkInv, PacketInv, Starting, Over, Ended
  <2> QED
    BY <2>3, <2>2 DEF Network!ReceiveForeign, Network!Discard, NetworkInv, NetworkTypes
<1>9. ServerInv'
  <2>1. /\ tally["received"] \in Nat /\ tally["delivered"] \in Nat /\ tally["duplicate"] \in Nat
        /\ tally["late"] \in Nat /\ tally["foreign"] \in Nat /\ tally["lost"] \in Nat
        /\ tally["samples"] \in Nat /\ tally["written"] \in Nat /\ tally["failed"] \in Nat
        /\ tally["refused"] \in Nat /\ tally["unheard"] \in Nat /\ tally["teardowns"] \in Nat
    BY DEF NetworkInv, TallyTypes, Fields
  <2>2. reader = "receive" /\ reader' = "loop" /\ faults' # 0
          /\ UNCHANGED <<previous, first, shift, clock, recent, stuck, pc, failing, server>>
    BY DEF Network!ReceiveForeign, Network!Discard, NetworkInv, NetworkTypes
  <2>3. CASE Network!Count({"received", "foreign"})
    <3>1. \A f \in Fields : tally'[f] = IF f \in {"received", "foreign"} THEN tally[f] + 1 ELSE tally[f]
      BY <2>3, Counting DEF NetworkInv
    <3>2. /\ tally'["received"] = tally["received"] + 1 /\ tally'["delivered"] = tally["delivered"]
          /\ tally'["duplicate"] = tally["duplicate"] /\ tally'["late"] = tally["late"]
          /\ tally'["foreign"] = tally["foreign"] + 1 /\ tally'["lost"] = tally["lost"]
          /\ tally'["samples"] = tally["samples"] /\ tally'["written"] = tally["written"]
          /\ tally'["failed"] = tally["failed"]
          /\ tally'["refused"] = tally["refused"] /\ tally'["unheard"] = tally["unheard"]
          /\ tally'["teardowns"] = tally["teardowns"]
      BY <3>1 DEF Fields
    <3> QED
      BY <2>1, <2>2, <2>3, <3>2 DEF NetworkInv, ServerInv, Starting, Over, Ended, FlagTypes
  <2> QED
    BY <2>3, <2>2 DEF Network!ReceiveForeign, Network!Discard, NetworkInv, NetworkTypes
<1> QED
  BY <1>1, <1>2, <1>3, <1>4, <1>5, <1>6, <1>7, <1>8, <1>9 DEF NetworkInv

LEMMA ClockSetBackKeepsNetwork ==
  ASSUME NetworkInv, Network!ClockSetBack
  PROVE  NetworkInv'
<1>1. NetworkTypes'
  BY DEF NetworkInv, NetworkTypes, Ended, Starting, Over, Network!ClockSetBack
<1>2. FlagTypes'
  BY DEF NetworkInv, FlagTypes, Ended, Starting, Over, Network!ClockSetBack
<1>3. TallyTypes'
  BY DEF NetworkInv, TallyTypes, Ended, Starting, Over, Network!ClockSetBack
<1>4. PacketTypes'
  BY DEF NetworkInv, PacketTypes, Ended, Starting, Over, Network!ClockSetBack
<1>5. OwnerInv'
  BY DEF NetworkInv, OwnerInv, FlagTypes, Ended, Starting, Over, Network!ClockSetBack
<1>6. ThreadInv'
  BY DEF NetworkInv, ThreadInv, FlagTypes, OwnerInv, Ended, Starting, Over, Network!ClockSetBack
<1>7. CountInv'
  BY DEF NetworkInv, CountInv, TallyTypes, OwnerInv, Ended, Starting, Over, Network!ClockSetBack
<1>8. PacketInv'
  BY DEF NetworkInv, PacketInv, TallyTypes, PacketTypes, OwnerInv, ThreadInv, Ended, Starting,
     Over, Network!ClockSetBack
<1>9. ServerInv'
  <2>1. faults' = faults + 1 /\ UNCHANGED <<pc, failing, server, tally>>
    BY DEF Network!ClockSetBack
  <2>2. faults' # 0
    BY <2>1 DEF NetworkInv, NetworkTypes
  <2> QED
    BY <2>1, <2>2 DEF NetworkInv, ServerInv
<1> QED
  BY <1>1, <1>2, <1>3, <1>4, <1>5, <1>6, <1>7, <1>8, <1>9 DEF NetworkInv

LEMMA AskKeepsNetwork ==
  ASSUME NetworkInv, NEW i \in DOMAIN Network!Requests, Network!Ask(i)
  PROVE  NetworkInv'
<1> USE DEF Network!At
<1>1. /\ pc \in {"OPTIONS", "DESCRIBE", "SETUP", "PLAY"}
      /\ UNCHANGED <<sock, client, asking, published, handler, subscribed,
                     wav, reader, keeper, previous, recent, clock, shift, first, tally, stuck>>
  BY RequestFacts DEF Network!Ask, Network!sharedVars, Network!packetVars
<1>2. \/ pc' \in {"DESCRIBE", "SETUP", "PLAY", "publish"} /\ failing' = failing
      \/ pc' = "undo" /\ failing' = TRUE
  BY RequestFacts DEF Network!Ask, Network!Goto, Network!Raise
<1>3. waiting' \in Nat /\ faults' \in Nat /\ (waiting' > 0 => faults' > 0)
  <2>1. waiting \in Nat /\ faults \in Nat /\ (waiting > 0 => faults > 0)
    BY DEF NetworkInv, NetworkTypes
  <2>2. \/ waiting' = waiting /\ faults' = faults
        \/ waiting' = waiting /\ faults' = faults + 1
        \/ waiting' = waiting + 1 /\ faults' = faults + 1
    BY DEF Network!Ask, Network!Asked, Network!Unanswered, Network!May
  <2> QED
    BY <2>1, <2>2
<1>4. NetworkTypes'
  BY <1>1, <1>3 DEF NetworkInv, NetworkTypes
<1>5. FlagTypes'
  BY <1>1, <1>2 DEF NetworkInv, FlagTypes
<1>6. TallyTypes' /\ PacketTypes'
  BY <1>1 DEF NetworkInv, TallyTypes, PacketTypes
<1>7. OwnerInv'
  <2>1. CASE pc' \in {"DESCRIBE", "SETUP", "PLAY", "publish"} /\ failing' = failing
    BY <1>1, <2>1 DEF NetworkInv, OwnerInv, FlagTypes, Starting, Over
  <2>2. CASE pc' = "undo" /\ failing' = TRUE
    BY <1>1, <2>2 DEF NetworkInv, OwnerInv, FlagTypes, Starting, Over
  <2> QED
    BY <1>2, <2>1, <2>2
<1>8. ThreadInv'
  BY <1>1, <1>2 DEF NetworkInv, ThreadInv, Over
<1>9. CountInv'
  BY <1>1 DEF NetworkInv, CountInv
<1>10. PacketInv'
  BY <1>1, <1>2 DEF NetworkInv, PacketInv, Over
<1>11. ServerInv'
  BY <1>1, <1>2 DEF NetworkInv, ServerInv, Starting, Over
<1> QED
  BY <1>4, <1>5, <1>6, <1>7, <1>8, <1>9, <1>10, <1>11 DEF NetworkInv

\* Sequence numbers and timestamps wrap, the places of packets do not.
LEMMA ModFacts ==
  /\ \A x \in Int : x % 8 \in 0 .. 7
  /\ \A p, q \in Places :
       ((p % 8) - ((q + 1) % 8)) % 8 = (IF p > q THEN p - q - 1 ELSE p - q + 7)
  /\ \A p, q \in Places :
       ((p % 8) - ((q % 8) + 1)) % 8 = (IF p > q THEN p - q - 1 ELSE p - q + 7)
  /\ \A p, q \in Places : p % 8 = q % 8 => p = q
  /\ 8 \div 2 = 4
<1>1. \A x \in Int : x % 8 \in 0 .. 7
  OBVIOUS
<1>2. \A p, q \in Places :
        ((p % 8) - ((q + 1) % 8)) % 8 = (IF p > q THEN p - q - 1 ELSE p - q + 7)
  BY DEF Places
<1>3. \A p, q \in Places :
        ((p % 8) - ((q % 8) + 1)) % 8 = (IF p > q THEN p - q - 1 ELSE p - q + 7)
  BY DEF Places
<1>4. \A p, q \in Places : p % 8 = q % 8 => p = q
  BY DEF Places
<1> QED
  BY <1>1, <1>2, <1>3, <1>4

\* The newest two of three.
LEMMA NewestTwo ==
  ASSUME NEW s \in Seq(Nat), Len(s) = 3
  PROVE  /\ SubSeq(s, 2, 3) \in Seq(Nat) /\ Len(SubSeq(s, 2, 3)) = 2
         /\ SubSeq(s, 2, 3)[1] = s[2] /\ SubSeq(s, 2, 3)[2] = s[3]
<1>1. \A i \in 2 .. 3 : s[i] \in Nat
  <2>1. \A i \in 1 .. Len(s) : s[i] \in Nat
    BY ElementOfSeq
  <2> QED
    BY <2>1
<1>2. /\ SubSeq(s, 2, 3) \in Seq(Nat) /\ Len(SubSeq(s, 2, 3)) = 2
      /\ \A i \in 1 .. 2 : SubSeq(s, 2, 3)[i] = s[2 + i - 1]
  BY <1>1, SubSeqProperties
<1> QED
  BY <1>2

\* What a tracker remembers is what it has seen, the newest two.
LEMMA RememberFacts ==
  ASSUME PacketTypes, NEW number \in Nat, Network!Remember(number)
  PROVE  /\ recent' \in Seq(Nat) /\ Len(recent') <= 2
         /\ \A i \in 1 .. Len(recent') :
              recent'[i] = number \/ \E j \in 1 .. Len(recent) : recent'[i] = recent[j]
<1>1. recent \in Seq(Nat) /\ Len(recent) <= 2
  BY DEF PacketTypes
<1>2. CASE recent' = recent
  BY <1>1, <1>2
<1>3. CASE recent' # recent
  <2> DEFINE longer == Append(recent, number)
  <2>1. longer \in Seq(Nat) /\ Len(longer) = Len(recent) + 1 /\ Len(recent) \in Nat
          /\ \A i \in 1 .. Len(longer) : longer[i] = IF i = Len(longer) THEN number ELSE recent[i]
    BY <1>1
  <2>2. recent' = SubSeq(longer, IF Len(longer) > 2 THEN 2 ELSE 1, Len(longer))
    BY <1>3 DEF Network!Remember, Network!History
  <2> HIDE DEF longer
  <2>3. CASE Len(longer) > 2
    <3>0. Len(longer) = 3 /\ Len(recent) = 2
      <4>1. PICK n \in Nat : n = Len(recent) /\ n <= 2
        BY <1>1, <2>1
      <4>2. PICK k \in Nat : k = Len(longer) /\ k = n + 1
        BY <2>1, <4>1
      <4>3. k > 2
        BY <2>3, <4>2
      <4> QED
        BY <4>1, <4>2, <4>3
    <3>1. recent' = SubSeq(longer, 2, 3)
      BY <2>2, <3>0
    <3>2. recent' \in Seq(Nat) /\ Len(recent') = 2 /\ recent'[1] = longer[2] /\ recent'[2] = longer[3]
      <4>1. longer \in Seq(Nat) /\ Len(longer) = 3
        BY <2>1, <3>0
      <4> QED
        BY <3>1, <4>1, NewestTwo
    <3>3. longer[2] = recent[2] /\ longer[3] = number
      BY <2>1, <3>0
    <3> QED
      BY <3>0, <3>2, <3>3
  <2>4. CASE ~ (Len(longer) > 2)
    <3>1. recent' = SubSeq(longer, 1, Len(longer)) /\ Len(longer) <= 2 /\ Len(longer) \in Nat
      BY <1>1, <2>1, <2>2, <2>4
    <3>2. recent' \in Seq(Nat) /\ Len(recent') = Len(longer)
            /\ \A i \in 1 .. Len(recent') : recent'[i] = longer[i]
      BY <2>1, <3>1
    <3>3. \A i \in 1 .. Len(longer) : longer[i] = number \/ (i \in 1 .. Len(recent) /\ longer[i] = recent[i])
      BY <2>1
    <3> QED
      BY <3>1, <3>2, <3>3
  <2> QED
    BY <2>3, <2>4
<1> QED
  BY <1>2, <1>3

\* A packet is taken as the next when it is ahead of what was delivered, and the
\* packets missed before it are those between; or it is behind, and discarded.
Follows(place, missing) ==
  /\ Network!Deliver(place, missing) /\ Network!Remember(place % 8)
  /\ \/ previous = 0 /\ missing = 0
     \/ previous # 0 /\ place > previous /\ missing = place - previous - 1 /\ missing < 4

Repeated(place, why) ==
  /\ why \in {"duplicate", "late"}
  /\ Network!Discard(why) /\ UNCHANGED <<previous, clock, first>> /\ place <= previous
  /\ recent' = recent \/ Network!Remember(place % 8)

\* How far the network reorders and loses.
LEMMA NearFacts ==
  ASSUME NetworkInv, NEW place \in Network!Near
  PROVE  /\ place \in Places
         /\ previous # 0 => place \in previous - 3 .. previous + 4
<1>1. previous \in Int
  BY DEF NetworkInv, PacketTypes, Places
<1>2. place \in Places /\ (previous # 0 => place \in previous - 3 .. previous + 3 + 1)
  BY DEF Network!Near, Network!Reach, Network!Places, Places
<1> QED
  BY <1>1, <1>2

LEMMA ReceiveCases ==
  ASSUME NetworkInv, NEW place \in Network!Near, Network!Receive(place)
  PROVE  (\E missing \in Nat : Follows(place, missing)) \/ (\E why : Repeated(place, why))
<1> DEFINE number == place % 8
<1>1. previous \in {0} \cup Places /\ recent \in Seq(Nat) /\ place \in Places
  BY NearFacts DEF NetworkInv, PacketTypes
<1>2. PICK verdict : verdict = Network!Judged(number)
  OBVIOUS
<1>3. /\ verdict.as = "next" => Network!Deliver(place, verdict.missing) /\ Network!Remember(number)
      /\ verdict.as = "duplicate" => Network!Discard("duplicate") /\ UNCHANGED <<previous, recent, clock, first>>
      /\ verdict.as = "late" => Network!Discard("late") /\ Network!Remember(number)
                                   /\ UNCHANGED <<previous, clock, first>>
  BY <1>2 DEF Network!Receive, Network!Modulus
<1>4. CASE previous = 0
  <2>1. verdict.as = "next" /\ verdict.missing = 0
    BY <1>2, <1>4 DEF Network!Judged
  <2> QED
    BY <1>3, <1>4, <2>1 DEF Follows
<1>5. CASE previous # 0 /\ number \in Network!ToSet(recent)
  <2>1. verdict.as = "duplicate"
    BY <1>2, <1>5 DEF Network!Judged
  <2>2. PICK i \in 1 .. Len(recent) : recent[i] = number
    BY <1>1, <1>5 DEF Network!ToSet
  <2>3. PICK p \in Places : p <= previous /\ recent[i] = p % 8
    BY <2>2 DEF NetworkInv, PacketInv
  <2>4. p = place
    BY <1>1, <2>2, <2>3, ModFacts
  <2>5. Repeated(place, "duplicate")
    BY <1>3, <2>1, <2>3, <2>4 DEF Repeated
  <2> QED
    BY <2>5
<1>6. CASE previous # 0 /\ number \notin Network!ToSet(recent)
  <2>1. previous \in Places /\ place \in previous - 3 .. previous + 4
    BY <1>1, <1>6, NearFacts
  <2>2. Network!Ahead(number) = (number - ((previous + 1) % 8)) % 8 /\ Network!Half = 4
    BY ModFacts DEF Network!Ahead, Network!Expected, Network!Half, Network!Modulus
  <2>3. Network!Ahead(number) = IF place > previous THEN place - previous - 1 ELSE place - previous + 7
    BY <1>1, <2>1, <2>2, ModFacts
  <2>4. Network!Ahead(number) < 4 <=> place > previous
    BY <1>1, <2>1, <2>3 DEF Places
  <2>5. CASE place > previous
    <3>1. verdict.as = "next" /\ verdict.missing = Network!Ahead(number)
      BY <1>2, <1>6, <2>2, <2>4, <2>5 DEF Network!Judged
    <3>2. verdict.missing = place - previous - 1 /\ verdict.missing \in Nat /\ verdict.missing < 4
      BY <1>1, <2>1, <2>3, <2>5, <3>1 DEF Places
    <3>3. Follows(place, verdict.missing)
      BY <1>3, <1>6, <2>5, <3>1, <3>2 DEF Follows
    <3> QED
      BY <3>2, <3>3
  <2>6. CASE ~ (place > previous)
    <3>1. verdict.as = "late"
      BY <1>2, <1>6, <2>2, <2>4, <2>6 DEF Network!Judged
    <3>2. place <= previous
      BY <1>1, <2>1, <2>6 DEF Places
    <3>3. Repeated(place, "late")
      BY <1>3, <3>1, <3>2 DEF Repeated
    <3> QED
      BY <3>3
  <2> QED
    BY <2>5, <2>6
<1> QED
  BY <1>4, <1>5, <1>6

\* What a delivery does to the counts and to the clock.
LEMMA DeliverFacts ==
  ASSUME NetworkInv, NEW place \in Places, NEW missing \in Nat, Follows(place, missing),
         pc \notin Over
  PROVE  /\ previous' = place /\ reader' = "deliver"
         /\ first' = IF first = 0 THEN place ELSE first
         /\ clock' \in -1 .. 7 /\ (shift = 0 => clock' = place % 8)
         /\ \E skipped, back \in Nat :
              /\ shift = 0 => skipped = missing
              /\ tally' = [tally EXCEPT !.received = @ + 1, !.delivered = @ + 1, !.lost = @ + missing,
                             !.samples = @ + skipped, !.backwards = @ + back]
<1> DEFINE stamp == (place - shift) % 8
           skipped == IF Network!Backwards(stamp) THEN 0 ELSE Network!Skipped(stamp)
           back == IF Network!Backwards(stamp) THEN 1 ELSE 0
<1>1. previous \in {0} \cup Places /\ shift \in {0, 2} /\ clock \in -1 .. 7 /\ place \in Int
        /\ first \in {0} \cup Places
  BY DEF NetworkInv, PacketTypes, Places
<1>2. stamp \in 0 .. 7
  BY <1>1, ModFacts
<1>3. /\ previous' = place /\ reader' = "deliver" /\ clock' = stamp
      /\ first' = IF first = 0 THEN place ELSE first
      /\ tally' = [tally EXCEPT !.received = @ + 1, !.delivered = @ + 1, !.lost = @ + missing,
                     !.samples = @ + skipped, !.backwards = @ + back]
  BY DEF Follows, Network!Deliver, Network!Modulus
<1>4. Network!Skipped(stamp) = IF clock = -1 THEN 0 ELSE (stamp - (clock + 1)) % 8
  BY DEF Network!Skipped, Network!Modulus
<1>5. Network!Skipped(stamp) \in Nat
  BY <1>1, <1>2, <1>4, ModFacts
<1>6. ASSUME shift = 0 PROVE stamp = place % 8 /\ Network!Skipped(stamp) = missing /\ missing < 4
  <2>1. stamp = place % 8
    BY <1>1, <1>6
  <2>2. CASE previous = 0
    <3>1. clock = -1 /\ missing = 0
      BY <2>2, <1>1 DEF NetworkInv, PacketInv, Follows
    <3> QED
      BY <1>4, <2>1, <3>1
  <2>3. CASE previous # 0
    <3>1. clock = previous % 8 /\ previous \in Places
      BY <1>1, <1>6, <2>3 DEF NetworkInv, PacketInv
    <3>2. place > previous /\ missing = place - previous - 1 /\ missing < 4
      BY <2>3 DEF Follows
    <3>3. clock # -1
      BY <1>1, <3>1, ModFacts DEF Places
    <3>4. Network!Skipped(stamp) = ((place % 8) - ((previous % 8) + 1)) % 8
      BY <1>4, <2>1, <3>1, <3>3
    <3>5. Network!Skipped(stamp) = place - previous - 1
      BY <3>1, <3>2, <3>4, ModFacts
    <3> QED
      BY <2>1, <3>2, <3>5
  <2> QED
    BY <2>2, <2>3
<1>7. shift = 0 => skipped = missing
  BY <1>6, ModFacts DEF Network!Backwards, Network!Half, Network!Modulus
<1>8. skipped \in Nat /\ back \in Nat
  BY <1>5
<1> HIDE DEF skipped, back
<1>9. clock' \in -1 .. 7 /\ (shift = 0 => clock' = place % 8)
  BY <1>2, <1>3, <1>6
<1> QED
  BY <1>3, <1>7, <1>8, <1>9

\* Where the owner is while packets come through.
LEMMA OpenFacts ==
  ASSUME NetworkInv, sock = "open"
  PROVE  pc \notin {"join", "reset"} \cup Over
  BY DEF NetworkInv, OwnerInv

LEMMA RecentFacts ==
  ASSUME NetworkInv, NEW place \in Places, previous' = previous \/ previous' = place,
         previous' >= previous, place <= previous',
         recent' = recent \/ Network!Remember(place % 8)
  PROVE  /\ recent' \in Seq(Nat) /\ Len(recent') <= 2
         /\ \A i \in 1 .. Len(recent') : \E p \in Places : p <= previous' /\ recent'[i] = p % 8
<1>1. previous \in {0} \cup Places /\ recent \in Seq(Nat) /\ Len(recent) <= 2 /\ place \in Int
        /\ previous \in Int /\ previous' \in Int
  BY DEF NetworkInv, PacketTypes, Places
<1>2. place % 8 \in Nat
  BY <1>1, ModFacts
<1>3. \A i \in 1 .. Len(recent) : \E p \in Places : p <= previous' /\ recent[i] = p % 8
  <2>1. ASSUME NEW i \in 1 .. Len(recent)
        PROVE  \E p \in Places : p <= previous' /\ recent[i] = p % 8
    <3>1. PICK p \in Places : p <= previous /\ recent[i] = p % 8
      BY DEF NetworkInv, PacketInv
    <3>2. p \in Int /\ p <= previous'
      BY <1>1, <3>1 DEF Places
    <3> QED
      BY <3>1, <3>2
  <2> QED
    BY <2>1
<1>4. CASE recent' = recent
  BY <1>1, <1>3, <1>4
<1>5. CASE Network!Remember(place % 8)
  <2>1. /\ recent' \in Seq(Nat) /\ Len(recent') <= 2
        /\ \A i \in 1 .. Len(recent') :
             recent'[i] = place % 8 \/ \E j \in 1 .. Len(recent) : recent'[i] = recent[j]
    BY <1>2, <1>5, RememberFacts DEF NetworkInv
  <2>2. ASSUME NEW i \in 1 .. Len(recent')
        PROVE  \E p \in Places : p <= previous' /\ recent'[i] = p % 8
    <3>1. CASE recent'[i] = place % 8
      BY <3>1
    <3>2. CASE \E j \in 1 .. Len(recent) : recent'[i] = recent[j]
      BY <1>3, <3>2
    <3> QED
      BY <2>1, <3>1, <3>2
  <2> QED
    BY <2>1, <2>2
<1> QED
  BY <1>4, <1>5

LEMMA ReceiveFrame ==
  ASSUME NetworkInv, NEW place, Network!Receive(place)
  PROVE  /\ reader = "receive" /\ sock = "open"
         /\ UNCHANGED <<pc, failing, sock, client, asking, waiting, server, published, handler, subscribed,
                        wav, keeper, shift, stuck, faults>>
  BY DEF Network!Receive, Network!ownerVars, Network!callVars, Network!sharedVars

\* A packet is delivered.
LEMMA FollowsKeepsNetwork ==
  ASSUME NetworkInv, NEW place \in Places, Network!Receive(place), NEW missing \in Nat,
         Follows(place, missing)
  PROVE  NetworkInv' /\ previous' = place /\ previous' >= previous
<1>1. /\ reader = "receive" /\ sock = "open"
      /\ UNCHANGED <<pc, failing, sock, client, asking, waiting, server, published, handler, subscribed,
                     wav, keeper, shift, stuck, faults>>
  BY ReceiveFrame
<1>2. pc \notin {"join", "reset"} \cup Over
  BY <1>1, OpenFacts
<1>3. /\ previous' = place /\ reader' = "deliver"
      /\ first' = IF first = 0 THEN place ELSE first
      /\ clock' \in -1 .. 7 /\ (shift = 0 => clock' = place % 8)
  BY <1>2, DeliverFacts
<1>4. PICK skipped, back \in Nat :
        /\ shift = 0 => skipped = missing
        /\ tally' = [tally EXCEPT !.received = @ + 1, !.delivered = @ + 1, !.lost = @ + missing,
                       !.samples = @ + skipped, !.backwards = @ + back]
  BY <1>2, DeliverFacts
<1>5. /\ tally["received"] \in Nat /\ tally["delivered"] \in Nat /\ tally["duplicate"] \in Nat
      /\ tally["late"] \in Nat /\ tally["foreign"] \in Nat /\ tally["lost"] \in Nat
      /\ tally["samples"] \in Nat /\ tally["written"] \in Nat /\ tally["failed"] \in Nat
      /\ tally["refused"] \in Nat /\ tally["unheard"] \in Nat /\ tally["teardowns"] \in Nat
      /\ tally["backwards"] \in Nat
  BY DEF NetworkInv, TallyTypes, Fields
<1>6. tally \in [Fields -> Nat]
  BY DEF NetworkInv, TallyTypes
<1>7. /\ tally'["received"] = tally["received"] + 1 /\ tally'["delivered"] = tally["delivered"] + 1
      /\ tally'["lost"] = tally["lost"] + missing /\ tally'["samples"] = tally["samples"] + skipped
      /\ tally'["duplicate"] = tally["duplicate"] /\ tally'["late"] = tally["late"]
      /\ tally'["foreign"] = tally["foreign"] /\ tally'["written"] = tally["written"]
      /\ tally'["failed"] = tally["failed"]
      /\ tally'["refused"] = tally["refused"] /\ tally'["unheard"] = tally["unheard"]
      /\ tally'["teardowns"] = tally["teardowns"]
  BY <1>4, <1>6 DEF Fields
<1>8. TallyTypes'
  <2>1. tally' = [f \in Fields |-> tally'[f]]
    BY <1>4, <1>6
  <2>2. tally'["backwards"] = tally["backwards"] + back /\ tally'["broken"] = tally["broken"]
          /\ tally'["unkept"] = tally["unkept"]
    BY <1>4, <1>6 DEF Fields
  <2>3. tally["broken"] \in Nat /\ tally["unkept"] \in Nat
    BY <1>6 DEF Fields
  <2>4. /\ tally'["received"] \in Nat /\ tally'["delivered"] \in Nat /\ tally'["lost"] \in Nat
        /\ tally'["samples"] \in Nat /\ tally'["backwards"] \in Nat
    BY <1>5, <1>7, <2>2
  <2>5. \A f \in Fields : tally'[f] \in Nat
    BY <1>5, <1>7, <2>2, <2>3, <2>4 DEF Fields
  <2> QED
    BY <2>1, <2>5 DEF TallyTypes
<1>9. previous \in {0} \cup Places /\ first \in {0} \cup Places /\ place \in Int /\ previous \in Int
        /\ first \in Int /\ shift \in {0, 2} /\ place # 0
  BY DEF NetworkInv, PacketTypes, Places
<1>10. previous' >= previous
  BY <1>3, <1>9 DEF Follows, Places
<1>11. /\ recent' \in Seq(Nat) /\ Len(recent') <= 2
       /\ \A i \in 1 .. Len(recent') : \E p \in Places : p <= previous' /\ recent'[i] = p % 8
  BY <1>3, <1>9, <1>10, RecentFacts DEF Follows
<1>12. NetworkTypes' /\ FlagTypes'
  BY <1>1, <1>3 DEF NetworkInv, NetworkTypes, FlagTypes
<1>13. PacketTypes'
  BY <1>1, <1>3, <1>9, <1>11 DEF PacketTypes
<1>14. OwnerInv'
  BY <1>1, <1>3 DEF NetworkInv, OwnerInv, Ended, Starting, Over
<1>15. ThreadInv'
  BY <1>1, <1>2, <1>3 DEF NetworkInv, ThreadInv, Ended
<1>16. CountInv'
  BY <1>1, <1>3, <1>5, <1>7 DEF NetworkInv, CountInv
<1>17. previous' # 0 /\ first' # 0
         /\ tally'["lost"] = previous' - first' + 1 - tally'["delivered"]
  <2>1. CASE previous = 0
    <3>1. tally["lost"] = 0 /\ tally["delivered"] = 0 /\ first = 0 /\ missing = 0
      BY <1>2, <2>1 DEF NetworkInv, PacketInv, Follows
    <3>2. tally'["lost"] = 0 /\ tally'["delivered"] = 1 /\ first' = place
      BY <1>3, <1>7, <3>1
    <3> QED
      BY <1>3, <1>9, <3>2
  <2>2. CASE previous # 0
    <3>1. first # 0 /\ tally["lost"] = previous - first + 1 - tally["delivered"]
      BY <2>2 DEF NetworkInv, PacketInv
    <3>2. missing = place - previous - 1 /\ first' = first
      BY <1>3, <2>2, <3>1 DEF Follows
    <3>3. tally'["lost"] = tally["lost"] + (place - previous - 1)
            /\ tally'["delivered"] = tally["delivered"] + 1
      BY <1>7, <3>2
    <3> QED
      BY <1>3, <1>5, <1>9, <3>1, <3>2, <3>3
  <2> QED
    BY <2>1, <2>2
<1>18. PacketInv'
  <2>1. shift = 0 => tally'["samples"] = tally'["lost"]
    BY <1>4, <1>5, <1>7 DEF NetworkInv, PacketInv
  <2> QED
    BY <1>1, <1>3, <1>11, <1>17, <2>1 DEF PacketInv
<1>19. ServerInv'
  BY <1>1, <1>7 DEF NetworkInv, ServerInv
<1> QED
  BY <1>3, <1>8, <1>10, <1>12, <1>13, <1>14, <1>15, <1>16, <1>18, <1>19 DEF NetworkInv

\* A packet is discarded.
LEMMA RepeatedKeepsNetwork ==
  ASSUME NetworkInv, NEW place \in Places, Network!Receive(place), NEW why, Repeated(place, why)
  PROVE  NetworkInv' /\ previous' = previous /\ place <= previous
<1>1. /\ reader = "receive" /\ sock = "open"
      /\ UNCHANGED <<pc, failing, sock, client, asking, waiting, server, published, handler, subscribed,
                     wav, keeper, shift, stuck, faults>>
  BY ReceiveFrame
<1>2. /\ why \in {"duplicate", "late"} /\ UNCHANGED <<previous, clock, first>> /\ place <= previous
      /\ recent' = recent \/ Network!Remember(place % 8)
      /\ Network!Count({"received", why}) /\ reader' = "loop"
  BY DEF Repeated, Network!Discard
<1>3. \A f \in Fields : tally'[f] = IF f \in {"received", why} THEN tally[f] + 1 ELSE tally[f]
  BY <1>2, Counting DEF NetworkInv
<1>4. tally' \in [Fields -> Nat]
  BY <1>2 DEF NetworkInv, TallyTypes, Network!Count
<1>5. /\ tally["received"] \in Nat /\ tally["delivered"] \in Nat /\ tally["duplicate"] \in Nat
      /\ tally["late"] \in Nat /\ tally["foreign"] \in Nat /\ tally["lost"] \in Nat
      /\ tally["samples"] \in Nat /\ tally["written"] \in Nat /\ tally["failed"] \in Nat
      /\ tally["refused"] \in Nat /\ tally["unheard"] \in Nat /\ tally["teardowns"] \in Nat
  BY DEF NetworkInv, TallyTypes, Fields
<1>6. /\ tally'["received"] = tally["received"] + 1 /\ tally'["delivered"] = tally["delivered"]
      /\ tally'["duplicate"] = tally["duplicate"] + (IF why = "duplicate" THEN 1 ELSE 0)
      /\ tally'["late"] = tally["late"] + (IF why = "late" THEN 1 ELSE 0)
      /\ tally'["foreign"] = tally["foreign"] /\ tally'["lost"] = tally["lost"]
      /\ tally'["samples"] = tally["samples"] /\ tally'["written"] = tally["written"]
      /\ tally'["failed"] = tally["failed"]
      /\ tally'["refused"] = tally["refused"] /\ tally'["unheard"] = tally["unheard"]
      /\ tally'["teardowns"] = tally["teardowns"]
  BY <1>2, <1>3, <1>5 DEF Fields
<1>7. previous' >= previous /\ place <= previous'
  BY <1>2 DEF NetworkInv, PacketTypes, Places
<1>8. /\ recent' \in Seq(Nat) /\ Len(recent') <= 2
      /\ \A i \in 1 .. Len(recent') : \E p \in Places : p <= previous' /\ recent'[i] = p % 8
  BY <1>2, <1>7, RecentFacts
<1>9. NetworkTypes' /\ FlagTypes' /\ TallyTypes'
  BY <1>1, <1>2, <1>4 DEF NetworkInv, NetworkTypes, FlagTypes, TallyTypes
<1>10. PacketTypes'
  BY <1>1, <1>2, <1>8 DEF NetworkInv, PacketTypes
<1>11. OwnerInv'
  BY <1>1, <1>2 DEF NetworkInv, OwnerInv, Ended, Starting, Over
<1>12. ThreadInv'
  BY <1>1, <1>2 DEF NetworkInv, ThreadInv, Ended
<1>13. CountInv'
  BY <1>1, <1>2, <1>5, <1>6 DEF NetworkInv, CountInv
<1>14. PacketInv'
  BY <1>1, <1>2, <1>6, <1>8 DEF NetworkInv, PacketInv
<1>15. ServerInv'
  BY <1>1, <1>6 DEF NetworkInv, ServerInv
<1> QED
  BY <1>2, <1>9, <1>10, <1>11, <1>12, <1>13, <1>14, <1>15 DEF NetworkInv

LEMMA NetworkInit ==
  Network!Init => NetworkInv
<1> SUFFICES ASSUME Network!Init PROVE NetworkInv
  OBVIOUS
<1>1. tally = [f \in Fields |-> 0] /\ tally \in [Fields -> Nat]
  BY DEF Network!Init, Network!Fields, Fields
<1>2. tally["received"] = 0 /\ tally["delivered"] = 0 /\ tally["duplicate"] = 0 /\ tally["late"] = 0
        /\ tally["foreign"] = 0 /\ tally["lost"] = 0 /\ tally["samples"] = 0 /\ tally["written"] = 0
        /\ tally["failed"] = 0 /\ tally["refused"] = 0 /\ tally["unheard"] = 0 /\ tally["teardowns"] = 0
  BY <1>1 DEF Fields
<1>3. NetworkTypes
  BY DEF Network!Init, NetworkTypes
<1>4. FlagTypes
  BY DEF Network!Init, FlagTypes
<1>5. PacketTypes
  BY DEF Network!Init, PacketTypes
<1>6. OwnerInv
  BY DEF Network!Init, OwnerInv, Ended, Starting, Over
<1>7. ThreadInv
  BY DEF Network!Init, ThreadInv, Ended, Over
<1>8. CountInv
  BY <1>2 DEF Network!Init, CountInv
<1>9. PacketInv
  BY <1>2 DEF Network!Init, PacketInv
<1>10. ServerInv
  BY <1>2 DEF Network!Init, ServerInv, Starting, Over
<1> QED
  BY <1>1, <1>3, <1>4, <1>5, <1>6, <1>7, <1>8, <1>9, <1>10 DEF NetworkInv, TallyTypes

LEMMA ReceiveKeepsNetwork ==
  ASSUME NetworkInv, NEW place \in Network!Near, Network!Receive(place)
  PROVE  NetworkInv'
<1> USE NearFacts
<1>1. CASE \E missing \in Nat : Follows(place, missing)
  BY <1>1, FollowsKeepsNetwork
<1>2. CASE \E why : Repeated(place, why)
  BY <1>2, RepeatedKeepsNetwork
<1> QED
  BY <1>1, <1>2, ReceiveCases

LEMMA NetworkStep ==
  ASSUME NetworkInv, Network!Next
  PROVE  NetworkInv'
<1>1. CASE Network!Owner
  BY <1>1, OpenSocketKeepsNetwork, ConnectKeepsNetwork, AskKeepsNetwork, UndoKeepsNetwork,
     PublishKeepsNetwork, StopStreamKeepsNetwork, LockKeepsNetwork, TeardownKeepsNetwork,
     CloseSocketKeepsNetwork, JoinKeepsNetwork, ResetKeepsNetwork, UnsubscribeKeepsNetwork,
     FinishKeepsNetwork
  DEF Network!Owner
<1>2. CASE Network!StartBegin \/ Network!StopBegin
  BY <1>2, StartBeginKeepsNetwork, StopBeginKeepsNetwork
<1>3. CASE Network!Reader
  BY <1>3, ReaderLoopsKeepsNetwork, ReaderWakesKeepsNetwork, ReaderCallsKeepsNetwork,
     ReaderEmitsKeepsNetwork, ReaderWritesKeepsNetwork DEF Network!Reader
<1>4. CASE Network!Keeper
  BY <1>4, KeeperEndsKeepsNetwork, KeeperTakesKeepsNetwork, KeeperLocksKeepsNetwork,
     KeeperAsksKeepsNetwork DEF Network!Keeper
<1>5. CASE \E place \in Network!Near : Network!Receive(place)
  BY <1>5, ReceiveKeepsNetwork
<1>6. CASE Network!ReceiveForeign \/ Network!ClockSetBack
  BY <1>6, ReceiveForeignKeepsNetwork, ClockSetBackKeepsNetwork
<1> QED
  BY <1>1, <1>2, <1>3, <1>4, <1>5, <1>6 DEF Network!Next

LEMMA NetworkSound ==
  NetworkInv => Network!TypeOK /\ Network!PacketsAccounted /\ Network!Released
<1> SUFFICES ASSUME NetworkInv PROVE Network!TypeOK /\ Network!PacketsAccounted /\ Network!Released
  OBVIOUS
<1>1. Network!TypeOK
  BY DEF NetworkInv, NetworkTypes, PacketTypes, TallyTypes, Places, Fields, Network!TypeOK,
     Network!History, Network!Places, Network!Fields
<1>2. Network!PacketsAccounted
  BY DEF NetworkInv, CountInv, PacketInv, Network!PacketsAccounted
<1>3. Network!Released
  BY DEF NetworkInv, OwnerInv, ThreadInv, ServerInv, FlagTypes, Ended, Over, Network!Over,
     Network!Released
<1> QED
  BY <1>1, <1>2, <1>3

\* A packet is delivered after those before it, never twice, and one that is ahead of
\* them is never taken for a late one.
Forward ==
  /\ previous' >= previous \/ pc = "reset"
  /\ \A place \in Network!Near : place > previous /\ Network!Receive(place) => previous' = place

LEMMA ForwardStep ==
  ASSUME NetworkInv, Network!Next \/ UNCHANGED <<previous, reader>>
  PROVE  Forward
<1>1. previous \in Int
  BY DEF NetworkInv, PacketTypes, Places
<1>2. ASSUME NEW place \in Network!Near, place > previous, Network!Receive(place)
      PROVE  previous' = place
  <2>1. place \in Places
    BY NearFacts
  <2>2. CASE \E missing \in Nat : Follows(place, missing)
    BY <1>2, <2>1, <2>2, FollowsKeepsNetwork
  <2>3. CASE \E why : Repeated(place, why)
    <3>1. place <= previous
      BY <1>2, <2>1, <2>3, RepeatedKeepsNetwork
    <3> QED
      BY <1>1, <1>2, <2>1, <3>1 DEF Places
  <2> QED
    BY <1>2, <2>1, <2>2, <2>3, ReceiveCases
<1>3. previous' >= previous \/ pc = "reset"
  <2>1. CASE \E place \in Network!Near : Network!Receive(place)
    <3>1. PICK place \in Network!Near : Network!Receive(place)
      BY <2>1
    <3>2. previous' >= previous
      BY <1>1, <3>1, NearFacts, ReceiveCases, FollowsKeepsNetwork, RepeatedKeepsNetwork
    <3> QED
      BY <3>2
  <2>2. CASE Network!Reset
    BY <2>2 DEF Network!Reset, Network!At
  <2>3. CASE previous' = previous
    BY <1>1, <2>3
  <2>4. CASE \E i \in DOMAIN Network!Requests : Network!Ask(i)
    BY <1>1, <2>4 DEF Network!Ask, Network!packetVars
  <2>5. ASSUME Network!Owner, ~ Network!Reset, ~ \E i \in DOMAIN Network!Requests : Network!Ask(i)
        PROVE  previous' = previous
    BY <2>5 DEF Network!Owner, Network!OpenSocket, Network!Connect, Network!Undo, Network!Publish,
       Network!StopStream, Network!Lock, Network!Teardown, Network!CloseSocket, Network!Join,
       Network!Unsubscribe, Network!Finish, Network!packetVars
  <2>6. ASSUME Network!Reader \/ Network!Keeper \/ Network!StartBegin \/ Network!StopBegin
                 \/ Network!ReceiveForeign \/ Network!ClockSetBack
        PROVE  previous' = previous
    BY <2>6 DEF Network!Reader, Network!ReaderLoops, Network!ReaderWakes, Network!ReaderCalls,
       Network!ReaderEmits, Network!ReaderWrites, Network!Keeper, Network!KeeperEnds,
       Network!KeeperTakes, Network!KeeperLocks, Network!KeeperAsks, Network!StartBegin, Network!StopBegin,
       Network!ReceiveForeign, Network!ClockSetBack, Network!packetVars
  <2> QED
    BY <2>1, <2>2, <2>3, <2>4, <2>5, <2>6 DEF Network!Next
<1> QED
  BY <1>2, <1>3 DEF Forward

HIDE DEF Network!ownerVars, Network!callVars, Network!sharedVars, Network!packetVars, Network!At,
   Network!Goto, Network!Raise, Network!May, Network!Over, Network!Closed, Network!Places,
   Network!Fields

\* ------------------------------------------------------------------ the theorems
mcVars == <<subject, destinationVars, networkVars>>

LEMMA WorkersInit ==
  MCInit => WorkersInv
  BY SinkInit, PublisherInit, NetworkInit DEF MCInit, DestinationInit, WorkersInv

LEMMA SinkSame ==
  ASSUME SinkInv, UNCHANGED vars
  PROVE  SinkInv'
<1>1. UNCHANGED <<queue, counts, state, stopping, stopped, finishes, retries, worker, chunk,
                  connection, active, held>>
  BY DEF vars, audioVars, lifeVars, connVars, stopVars
<1> QED
  BY <1>1 DEF SinkInv, SinkTypes, BytesInv, LifeInv

LEMMA PublisherSame ==
  ASSUME PublisherInv, UNCHANGED titleVars
  PROVE  PublisherInv'
  BY DEF PublisherInv, titleVars

LEMMA NetworkSame ==
  ASSUME NetworkInv, UNCHANGED networkVars
  PROVE  NetworkInv'
<1>1. UNCHANGED <<pc, failing, sock, client, published, handler, subscribed,
                  wav, reader, keeper, asking, waiting,
                  server, previous, recent, clock, shift, tally, first, stuck, faults>>
  BY DEF networkVars
<1>2. NetworkTypes' /\ FlagTypes' /\ TallyTypes' /\ PacketTypes'
  BY <1>1 DEF NetworkInv, NetworkTypes, FlagTypes, TallyTypes, PacketTypes
<1>3. OwnerInv' /\ ThreadInv'
  BY <1>1 DEF NetworkInv, OwnerInv, ThreadInv
<1>4. CountInv' /\ PacketInv' /\ ServerInv'
  BY <1>1 DEF NetworkInv, CountInv, PacketInv, ServerInv
<1> QED
  BY <1>2, <1>3, <1>4 DEF NetworkInv

LEMMA WorkersStep ==
  ASSUME WorkersInv, [MCNext]_mcVars
  PROVE  WorkersInv'
<1>1. SinkInv /\ PublisherInv /\ NetworkInv
  BY DEF WorkersInv
<1>2. CASE Next /\ UNCHANGED titleVars /\ UNCHANGED networkVars
  BY <1>1, <1>2, SinkStep, PublisherSame, NetworkSame DEF WorkersInv
<1>3. CASE Publisher!Next /\ UNCHANGED vars /\ UNCHANGED networkVars
  BY <1>1, <1>3, SinkSame, PublisherStep, NetworkSame DEF WorkersInv
<1>4. CASE Network!Next /\ UNCHANGED vars /\ UNCHANGED titleVars
  BY <1>1, <1>4, SinkSame, PublisherSame, NetworkStep DEF WorkersInv
<1>5. CASE UNCHANGED vars /\ UNCHANGED titleVars /\ UNCHANGED networkVars
  BY <1>1, <1>5, SinkSame, PublisherSame, NetworkSame DEF WorkersInv
<1> QED
  BY <1>2, <1>3, <1>4, <1>5 DEF MCNext, DestinationNext, mcVars, destinationVars

LEMMA WorkersInvariant ==
  MCSpec => []WorkersInv
<1>1. MCInit => WorkersInv
  BY WorkersInit
<1>2. WorkersInv /\ [MCNext]_mcVars => WorkersInv'
  BY WorkersStep
<1> QED
  BY <1>1, <1>2, PTL DEF MCSpec, mcVars

\* Of a destination's audio every byte is written, counted as dropped, queued or in the
\* worker's hands, whatever overflows, failed writes, exhausted retries and stops did
\* to it; of a scanner's packets every one is delivered or discarded for one reason, and
\* those that are missing are counted, across the wraparound; a session that is over has
\* let go of everything, and a reported state is true.
THEOREM WorkersAreSound ==
  MCSpec => []WorkersSound
<1>1. WorkersInv => WorkersSound
  BY SinkSound, PublisherSound, NetworkSound DEF WorkersInv, WorkersSound, DestinationSound
<1> QED
  BY <1>1, WorkersInvariant, PTL

\* A packet is delivered after those before it, never twice, and one that is ahead of
\* them is never taken for a late one (RtpSequenceTracker.observe, the half of
\* NewestShown that is about steps).
THEOREM PacketsDeliveredForward ==
  MCSpec => Network!DeliveredForward
<1>1. WorkersInv /\ [MCNext]_mcVars => [Forward]_(Network!vars)
  <2> SUFFICES ASSUME WorkersInv, [MCNext]_mcVars PROVE [Forward]_(Network!vars)
    OBVIOUS
  <2>1. CASE Network!Next
    BY <2>1, ForwardStep DEF WorkersInv
  <2>2. CASE UNCHANGED networkVars
    BY <2>2 DEF networkVars, Network!vars, Network!ownerVars, Network!callVars,
       Network!sharedVars,
       Network!packetVars
  <2> QED
    BY <2>1, <2>2 DEF MCNext, mcVars
<1>2. [][Forward]_(Network!vars) => Network!DeliveredForward
  BY DEF Network!DeliveredForward, Forward
<1> QED
  BY <1>1, <1>2, WorkersInvariant, PTL DEF MCSpec, mcVars

=============================================================================

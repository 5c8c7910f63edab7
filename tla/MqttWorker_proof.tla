---------------------------- MODULE MqttWorker_proof ----------------------------
(***************************************************************************)
(* Proofs about MqttWorker, for every value of its constants: the topics   *)
(* the broker retains and the context of Home Assistant controls follow    *)
(* the daemon's event stream, a success is answered only for a body that   *)
(* was dispatched, and a request is dispatched again only after the cache  *)
(* had to make room for as many others.                                    *)
(*                                                                         *)
(* The mirror rests on what an event says of the stream: it carries its    *)
(* own state, and the state before it differs in its own kind alone.  So   *)
(* whoever holds the state before an event and applies it holds the state  *)
(* after it, and everything else starts over from a snapshot.              *)
(***************************************************************************)
EXTENDS MqttWorker, FiniteSetTheorems, SequenceTheorems, TLAPS

Pcs == {"begin", "connect", "announce", "subscribe", "check", "get", "snapshot", "event",
        "inputs", "handle", "answer", "acknowledge", "backoff", "finally", "withdraw",
        "close", "failed", "stopped"}
Resting == {"check", "get", "handle", "answer", "acknowledge"}
Ending == {"finally", "withdraw", "close", "failed", "stopped"}

ControlInv ==
  /\ pc \in Pcs /\ online \in BOOLEAN /\ terminal \in BOOLEAN
  /\ conn \in [link : {"down", "up", "lost"}, failed : BOOLEAN, closed : BOOLEAN,
               commands : BOOLEAN]
  /\ availability \in {"online", "offline"}

States == [Kinds -> Nat]
FeedEvents == [kind : Kinds \cup {"snapshot"}, seq : Nat, state : States]
Topics == Kinds \cup {"events"}
Publicized == [topic : Topics, value : Nat]

\* The stream: what was announced, and what is ahead of it.
LogInv ==
  /\ world \in States /\ world["connection"] + world["radio"] <= MaxChanges
  /\ log \in Seq(States) /\ Len(log) >= 1 /\ log[Len(log)] = told
  /\ \A k \in Kinds : told[k] <= world[k]

\* An event carries a state between its own and the present one, and an event
\* that is no snapshot is all the difference to the one before it.
EventOK(e) ==
  /\ e.seq + 1 <= Len(log)
  /\ \A k \in Kinds : e.state[k] \in log[e.seq + 1][k] .. world[k]
  /\ e.kind # "snapshot" =>
       /\ e.seq >= 1
       /\ \A k \in Kinds : k # e.kind => log[e.seq + 1][k] = log[e.seq][k]

\* A subscription that is yet to deliver its snapshot has it at its head.
FeedInv ==
  /\ feed \in [open : BOOLEAN, queue : Seq(FeedEvents)]
  /\ \A i \in 1 .. Len(feed.queue) : EventOK(feed.queue[i])
  /\ feed.open /\ expected = None => Len(feed.queue) >= 1 /\ feed.queue[1].kind = "snapshot"
  /\ Len(feed.queue) <= QueueCapacity

\* A version of k that is neither older than the stream position nor yet to come.
Current(k, v) == v \in log[expected][k] .. world[k]

Publishing == pc \in {"snapshot", "event"}

\* While an event is published, each kind is either still to go out or out.
MirrorInv ==
  /\ expected \in 1 .. Len(log) \cup {None}
  /\ retained \in States /\ \A k \in Kinds : retained[k] <= world[k]
  /\ out \in Seq(Publicized)
  /\ Publishing =>
       /\ expected # None /\ Len(out) >= 1
       /\ \A i \in 1 .. Len(out) : out[i].topic \in Kinds => Current(out[i].topic, out[i].value)
  /\ expected # None /\ pc \in Resting \cup {"snapshot", "event", "inputs"} =>
       \A k \in Kinds :
         Current(k, retained[k]) \/ (Publishing /\ \E i \in 1 .. Len(out) : out[i].topic = k)
  /\ pc = "inputs" => expected # None

ContextInv ==
  /\ context \in [connected : BOOLEAN, radio : Nat \cup {None}]
  /\ context.radio # None =>
       context.connected /\ expected # None /\ Current("radio", context.radio)

\* The attempts are used up only by a session that is on its way to "failed".
AttemptInv ==
  /\ attempt \in Nat
  /\ \/ attempt <= MaxAttempts
     \/ attempt = MaxAttempts + 1 /\ pc \in {"finally", "withdraw", "close"} /\ (terminal \/ Stopping)
     \/ attempt = MaxAttempts + 1 /\ pc \in {"failed", "stopped"}

\* The cache: one entry per request, which was dispatched with that body, and the
\* requests behind an entry were used after it.
Entries == [id : Requests, body : Bodies]

Dispatched(r, b) == \E i \in 1 .. Len(executions[r]) : executions[r][i] = b

CacheInv ==
  /\ cache \in Seq(Entries) /\ Len(cache) <= CacheCapacity
  /\ executions \in [Requests -> Seq(Bodies)]
  /\ since \in [Requests -> SUBSET Requests] /\ \A r \in Requests : IsFiniteSet(since[r])
  /\ \A i \in 1 .. Len(cache) : Dispatched(cache[i].id, cache[i].body)
  /\ \A i, j \in 1 .. Len(cache) :
       i < j => cache[i].id # cache[j].id /\ cache[j].id \in since[cache[i].id]
  /\ \A r \in Requests : executions[r] # <<>> =>
       Cached(r) # {} \/ Cardinality(since[r]) >= CacheCapacity

MessageInv ==
  /\ message \in [id : Requests \cup {None}, body : Bodies \cup {None},
                   reply : {None, "response", "refused"}]
  /\ inbox \in Seq(Messages) /\ Len(inbox) <= InboxCapacity
  /\ message.id # None => message.body \in Bodies
  /\ message.reply = "response" => message.id \in Requests /\ Dispatched(message.id, message.body)

IInv ==
  /\ ControlInv /\ LogInv /\ FeedInv /\ MirrorInv /\ ContextInv /\ AttemptInv
  /\ CacheInv /\ MessageInv

\* ------------------------------------------------------------ sequence lemmas
\* What taking the head of a sequence leaves.
LEMMA TailFacts ==
  ASSUME NEW S, NEW q \in Seq(S), Len(q) >= 1
  PROVE  /\ q # <<>> /\ Head(q) \in S /\ Head(q) = q[1]
         /\ Tail(q) \in Seq(S) /\ Len(Tail(q)) = Len(q) - 1 /\ Len(q) \in Nat
         /\ \A i \in 1 .. Len(q) - 1 : Tail(q)[i] = q[i + 1]
  OBVIOUS

LEMMA AppendFacts ==
  ASSUME NEW S, NEW q \in Seq(S), NEW e \in S
  PROVE  /\ Append(q, e) \in Seq(S) /\ Len(q) \in Nat /\ Len(Append(q, e)) = Len(q) + 1
         /\ \A i \in 1 .. Len(q) : Append(q, e)[i] = q[i]
         /\ Append(q, e)[Len(q) + 1] = e
  OBVIOUS

LEMMA EmptyFacts ==
  ASSUME NEW S
  PROVE  /\ <<>> \in Seq(S) /\ Len(<<>>) = 0
         /\ \A q \in Seq(S) : Len(q) \in Nat /\ (q # <<>> <=> Len(q) >= 1)
  OBVIOUS

\* What removing the i-th element leaves.
LEMMA RemoveAtFacts ==
  ASSUME NEW S, NEW s \in Seq(S), NEW i \in 1 .. Len(s)
  PROVE /\ RemoveAt(s, i) \in Seq(S) /\ Len(RemoveAt(s, i)) = Len(s) - 1
        /\ \A j \in 1 .. Len(s) - 1 : RemoveAt(s, i)[j] = IF j < i THEN s[j] ELSE s[j + 1]
<1> DEFINE a == SubSeq(s, 1, i - 1)
           b == SubSeq(s, i + 1, Len(s))
           n == Len(s)
<1>0. n \in Nat /\ i \in Nat /\ 1 <= i /\ i <= n
  OBVIOUS
<1>1. /\ a \in Seq(S) /\ Len(a) = i - 1 /\ \A j \in 1 .. i - 1 : a[j] = s[j]
  <2>1. 1 \in Int /\ i - 1 \in Int /\ \A j \in 1 .. i - 1 : s[j] \in S
    OBVIOUS
  <2>2. /\ a \in Seq(S)
        /\ Len(a) = IF 1 <= i - 1 THEN i - 1 - 1 + 1 ELSE 0
        /\ \A j \in 1 .. i - 1 - 1 + 1 : a[j] = s[1 + j - 1]
    BY <2>1, SubSeqProperties
  <2> QED
    BY <1>0, <2>2
<1>2. /\ b \in Seq(S) /\ Len(b) = n - i /\ \A j \in 1 .. n - i : b[j] = s[j + i]
  <2>1. i + 1 \in Int /\ n \in Int /\ \A j \in i + 1 .. n : s[j] \in S
    OBVIOUS
  <2>2. /\ b \in Seq(S)
        /\ Len(b) = IF i + 1 <= n THEN n - (i + 1) + 1 ELSE 0
        /\ \A j \in 1 .. n - (i + 1) + 1 : b[j] = s[(i + 1) + j - 1]
    BY <2>1, SubSeqProperties
  <2> QED
    BY <1>0, <2>2
<1>3. RemoveAt(s, i) = a \o b
  BY DEF RemoveAt
<1> HIDE DEF a, b, n
<1>4. /\ a \o b \in Seq(S) /\ Len(a \o b) = (i - 1) + (n - i)
      /\ \A j \in 1 .. i - 1 : (a \o b)[j] = a[j]
      /\ \A j \in i .. n - 1 : (a \o b)[j] = b[j - (i - 1)]
  <2>1. /\ a \o b \in Seq(S) /\ Len(a \o b) = Len(a) + Len(b)
        /\ \A j \in 1 .. Len(a) + Len(b) :
             (a \o b)[j] = IF j <= Len(a) THEN a[j] ELSE b[j - Len(a)]
    BY <1>1, <1>2, ConcatProperties
  <2>2. Len(a) = i - 1 /\ Len(b) = n - i
    BY <1>1, <1>2
  <2>3. ASSUME NEW j \in 1 .. i - 1 PROVE (a \o b)[j] = a[j]
    <3>1. j \in 1 .. Len(a) + Len(b) /\ j <= Len(a)
      BY <1>0, <2>2
    <3> QED
      BY <2>1, <3>1
  <2>4. ASSUME NEW j \in i .. n - 1 PROVE (a \o b)[j] = b[j - (i - 1)]
    <3>1. j \in 1 .. Len(a) + Len(b) /\ ~(j <= Len(a))
      BY <1>0, <2>2
    <3> QED
      BY <2>1, <2>2, <3>1
  <2> QED
    BY <2>1, <2>2, <2>3, <2>4
<1>5. ASSUME NEW j \in i .. n - 1 PROVE (a \o b)[j] = s[j + 1]
  <2>1. j - (i - 1) \in 1 .. n - i /\ (j - (i - 1)) + i = j + 1
    BY <1>0
  <2> QED
    BY <1>2, <1>4, <2>1
<1>6. ASSUME NEW j \in 1 .. n - 1 PROVE (a \o b)[j] = IF j < i THEN s[j] ELSE s[j + 1]
  <2>1. CASE j < i
    BY <1>0, <1>1, <1>4, <2>1
  <2>2. CASE ~(j < i)
    <3>1. j \in i .. n - 1
      BY <1>0, <2>2
    <3>2. (a \o b)[j] = s[j + 1]
      BY <1>5, <3>1
    <3> QED
      BY <2>2, <3>2
  <2> QED
    BY <2>1, <2>2
<1> QED
  BY <1>0, <1>3, <1>4, <1>6 DEF n

\* What an enqueue keeps of a queue: the head when it is a snapshot, and events
\* that were there, in front of the new one.
LEMMA EnqueueFacts ==
  ASSUME NEW q \in Seq(FeedEvents), Len(q) <= QueueCapacity, NEW e \in FeedEvents
  PROVE  /\ Enqueue(q, e) \in Seq(FeedEvents) /\ Len(q) \in Nat
         /\ Len(Enqueue(q, e)) \in Nat
         /\ Len(Enqueue(q, e)) >= 1 /\ Len(Enqueue(q, e)) <= QueueCapacity
         /\ Len(q) >= 1 /\ q[1].kind = "snapshot" => Enqueue(q, e)[1] = q[1]
         /\ \A i \in 1 .. Len(Enqueue(q, e)) :
              Enqueue(q, e)[i] = e \/ \E j \in 1 .. Len(q) : Enqueue(q, e)[i] = q[j]
<1> DEFINE kept == IF Len(q) < QueueCapacity THEN q
                   ELSE IF Head(q).kind = "snapshot" THEN <<Head(q)>> \o Tail(Tail(q))
                   ELSE Tail(q)
<1>1. Len(q) \in Nat /\ QueueCapacity \in Nat /\ QueueCapacity >= 2
  BY MqttAssumption
<1>2. /\ kept \in Seq(FeedEvents) /\ Len(kept) < QueueCapacity
      /\ Len(q) >= 1 /\ q[1].kind = "snapshot" => Len(kept) >= 1 /\ kept[1] = q[1]
      /\ \A i \in 1 .. Len(kept) : \E j \in 1 .. Len(q) : kept[i] = q[j]
  <2>1. CASE Len(q) < QueueCapacity
    BY <1>1, <2>1
  <2>2. CASE ~(Len(q) < QueueCapacity)
    <3>1. /\ Len(q) = QueueCapacity /\ Len(q) >= 1 /\ q # <<>> /\ Head(q) = q[1]
          /\ Head(q) \in FeedEvents /\ Tail(q) \in Seq(FeedEvents)
          /\ Len(Tail(q)) = Len(q) - 1
          /\ \A i \in 1 .. Len(q) - 1 : Tail(q)[i] = q[i + 1]
      BY <1>1, <2>2, TailFacts
    <3>2. CASE Head(q).kind # "snapshot"
      <4>1. kept = Tail(q)
        BY <2>2, <3>2
      <4>2. \A i \in 1 .. Len(q) - 1 : i + 1 \in 1 .. Len(q)
        BY <1>1
      <4> HIDE DEF kept
      <4> QED
        BY <1>1, <3>1, <3>2, <4>1, <4>2
    <3>3. CASE Head(q).kind = "snapshot"
      <4> DEFINE t == Tail(q)
                 rest == Tail(t)
      <4>1. t \in Seq(FeedEvents) /\ Len(t) = Len(q) - 1 /\ Len(t) >= 1
        BY <1>1, <3>1
      <4>2. kept = <<q[1]>> \o rest
        BY <2>2, <3>1, <3>3
      <4> HIDE DEF t
      <4>3. /\ rest \in Seq(FeedEvents) /\ Len(rest) = Len(q) - 2
            /\ \A i \in 1 .. Len(t) - 1 : rest[i] = t[i + 1]
        BY <1>1, <4>1, TailFacts
      <4>4. ASSUME NEW i \in 1 .. Len(q) - 2 PROVE i + 2 \in 1 .. Len(q) /\ rest[i] = q[i + 2]
        <5>1. i \in 1 .. Len(t) - 1 /\ i + 1 \in 1 .. Len(q) - 1 /\ (i + 1) + 1 = i + 2
              /\ i + 2 \in 1 .. Len(q)
          BY <1>1, <4>1
        <5> QED
          BY <3>1, <4>3, <5>1 DEF t
      <4> HIDE DEF kept, rest
      <4>5. <<q[1]>> \in Seq(FeedEvents) /\ Len(<<q[1]>>) = 1 /\ <<q[1]>>[1] = q[1]
        BY <3>1
      <4>6. /\ <<q[1]>> \o rest \in Seq(FeedEvents) /\ Len(<<q[1]>> \o rest) = Len(q) - 1
            /\ (<<q[1]>> \o rest)[1] = q[1]
            /\ \A i \in 2 .. Len(q) - 1 : (<<q[1]>> \o rest)[i] = rest[i - 1]
        BY <1>1, <3>1, <4>3, <4>5
      <4>7. ASSUME NEW i \in 1 .. Len(q) - 1
            PROVE  \E j \in 1 .. Len(q) : (<<q[1]>> \o rest)[i] = q[j]
        <5>1. CASE i = 1
          BY <3>1, <4>6, <5>1
        <5>2. CASE i \in 2 .. Len(q) - 1
          <6>1. i - 1 \in 1 .. Len(q) - 2
            BY <1>1, <5>2
          <6> QED
            BY <4>4, <4>6, <5>2, <6>1
        <5>3. i = 1 \/ i \in 2 .. Len(q) - 1
          BY <1>1
        <5> QED
          BY <5>1, <5>2, <5>3
      <4>8. /\ kept \in Seq(FeedEvents) /\ Len(kept) = Len(q) - 1 /\ kept[1] = q[1]
            /\ \A i \in 1 .. Len(q) - 1 : \E j \in 1 .. Len(q) : kept[i] = q[j]
        BY <4>2, <4>6, <4>7
      <4> QED
        BY <1>1, <3>1, <4>8
    <3> QED
      BY <3>2, <3>3
  <2> QED
    BY <2>1, <2>2
<1>3. Enqueue(q, e) = Append(kept, e)
  BY DEF Enqueue
<1> HIDE DEF kept
<1>4. /\ Append(kept, e) \in Seq(FeedEvents) /\ Len(kept) \in Nat
      /\ Len(Append(kept, e)) = Len(kept) + 1
      /\ \A i \in 1 .. Len(kept) : Append(kept, e)[i] = kept[i]
      /\ Append(kept, e)[Len(kept) + 1] = e
  BY <1>2, AppendFacts
<1>5. ASSUME NEW i \in 1 .. Len(kept) + 1
      PROVE  Append(kept, e)[i] = e \/ \E j \in 1 .. Len(q) : Append(kept, e)[i] = q[j]
  <2>1. i \in 1 .. Len(kept) \/ i = Len(kept) + 1
    BY <1>4
  <2> QED
    BY <1>2, <1>4, <2>1
<1>6. Len(q) >= 1 /\ q[1].kind = "snapshot" => Append(kept, e)[1] = q[1]
  BY <1>2, <1>4
<1> QED
  BY <1>1, <1>2, <1>3, <1>4, <1>5, <1>6

\* ------------------------------------------------------------ initial states
LEMMA InitIInv == Init => IInv
<1> SUFFICES ASSUME Init PROVE IInv
  OBVIOUS
<1> USE DEF Init
<1>0. /\ <<world>> \in Seq(States) /\ Len(<<world>>) = 1 /\ <<world>>[1] = world
      /\ world \in States /\ \A k \in Kinds : world[k] = 0
      /\ world["connection"] = 0 /\ world["radio"] = 0 /\ told = world /\ log = <<world>>
  BY DEF States, Kinds
<1>1. ControlInv
  BY DEF ControlInv, Pcs, NewConnection
<1>2. LogInv
  BY <1>0, MqttAssumption DEF LogInv
<1>3. FeedInv
  BY EmptyFacts, MqttAssumption DEF FeedInv, Closed
<1>4. MirrorInv
  BY <1>0, EmptyFacts DEF MirrorInv, Publishing, States
<1>5. ContextInv
  BY DEF ContextInv, NoContext
<1>6. AttemptInv
  BY MqttAssumption DEF AttemptInv
<1>7. CacheInv
  <2>1. \A r \in Requests : executions[r] = <<>> /\ since[r] = {}
    OBVIOUS
  <2>2. executions \in [Requests -> Seq(Bodies)] /\ since \in [Requests -> SUBSET Requests]
    BY EmptyFacts
  <2> QED
    BY <2>1, <2>2, EmptyFacts, FS_EmptySet, MqttAssumption DEF CacheInv
<1>8. MessageInv
  BY EmptyFacts, MqttAssumption DEF MessageInv, NoMessage
<1> QED
  BY <1>1, <1>2, <1>3, <1>4, <1>5, <1>6, <1>7, <1>8 DEF IInv

\* --------------------------------------------- what most steps leave as it was
LEMMA StreamStays ==
  ASSUME IInv, UNCHANGED <<world, told, log, feed, expected, context>>
  PROVE  LogInv' /\ FeedInv' /\ ContextInv'
  BY DEF IInv, LogInv, FeedInv, ContextInv, EventOK, Current

LEMMA CommandsStay ==
  ASSUME IInv, UNCHANGED <<cache, executions, since>>, message' \in {message, NoMessage},
         inbox' \in Seq(Messages), Len(inbox') <= InboxCapacity
  PROVE  CacheInv' /\ MessageInv'
<1>1. CacheInv'
  BY DEF IInv, CacheInv, Cached, Dispatched
<1>2. MessageInv'
  <2>1. CASE message' = message
    BY <2>1 DEF IInv, MessageInv, Dispatched
  <2>2. CASE message' = NoMessage
    BY <2>2, MqttAssumption DEF MessageInv, NoMessage
  <2> QED
    BY <2>1, <2>2
<1> QED
  BY <1>1, <1>2

\* Nothing is published, and the worker comes to rest only from rest.
LEMMA MirrorStays ==
  ASSUME IInv, UNCHANGED <<world, log, expected, retained>>,
         \/ UNCHANGED <<out, pc>>
         \/ /\ out' \in {out, <<>>} /\ pc' \notin {"snapshot", "event", "inputs"}
            /\ pc' \in Resting => pc \in Resting
  PROVE  MirrorInv'
<1>1. CASE UNCHANGED <<out, pc>>
  BY <1>1 DEF IInv, MirrorInv, Publishing, Current
<1>2. CASE /\ out' \in {out, <<>>} /\ pc' \notin {"snapshot", "event", "inputs"}
           /\ pc' \in Resting => pc \in Resting
  <2>1. out' \in Seq(Publicized)
    BY <1>2, EmptyFacts DEF IInv, MirrorInv
  <2>2. expected # None /\ pc' \in Resting => \A k \in Kinds : Current(k, retained[k])
    BY <1>2 DEF IInv, MirrorInv, Publishing, Resting
  <2>3. ~Publishing'
    BY <1>2 DEF Publishing
  <2> QED
    BY <1>2, <2>1, <2>2, <2>3 DEF IInv, MirrorInv, Current
<1> QED
  BY <1>1, <1>2

\* Nothing is counted, and the session does not end by it.
LEMMA AttemptStays ==
  ASSUME IInv, UNCHANGED <<attempt, terminal>>, Stopping => Stopping',
         pc' = pc \/ pc \notin Ending
  PROVE  AttemptInv'
  BY DEF IInv, AttemptInv, Ending

\* _backoff_after_failure: an attempt more, and the end of the session after the
\* last one.
LEMMA RaiseFacts ==
  ASSUME IInv, Raise, pc \notin Ending, UNCHANGED stopper
  PROVE  /\ AttemptInv' /\ terminal' \in BOOLEAN /\ pc' \in {"finally", "backoff"}
         /\ out' = <<>> /\ message' = NoMessage
<1>1. attempt \in Nat /\ attempt <= MaxAttempts /\ MaxAttempts \in Nat
  BY MqttAssumption DEF IInv, AttemptInv, Ending
<1>2. CASE Stopping
  <2>1. attempt' = attempt /\ terminal' = terminal /\ pc' = "finally"
    BY <1>2 DEF Raise, retryVars
  <2> QED
    BY <1>1, <2>1 DEF Raise, AttemptInv, IInv, ControlInv
<1>3. CASE ~Stopping
  <2>1. /\ attempt' = attempt + 1 /\ terminal' = (attempt' > MaxAttempts)
        /\ pc' = IF terminal' THEN "finally" ELSE "backoff"
    BY <1>3 DEF Raise
  <2>2. terminal' \in BOOLEAN
    BY <2>1
  <2>3. CASE attempt' > MaxAttempts
    <3>1. attempt' = MaxAttempts + 1
      BY <1>1, <2>1, <2>3
    <3>2. terminal'
      BY <2>1, <2>3
    <3>3. pc' = "finally"
      BY <2>1, <3>2
    <3> QED
      BY <1>1, <3>1, <3>2, <3>3 DEF AttemptInv, Raise
  <2>4. CASE ~(attempt' > MaxAttempts)
    BY <1>1, <2>1, <2>4 DEF AttemptInv, Raise
  <2> QED
    BY <2>1, <2>2, <2>3, <2>4 DEF Raise
<1> QED
  BY <1>2, <1>3

\* ----------------------------------------------------- one lemma per action
\* The state goes on ahead of the stream.
LEMMA ChangeIInv ==
  ASSUME IInv, NEW k \in Kinds, Change(k) PROVE IInv'
<1> USE DEF Change, retryVars, commandVars, brokerVars
<1>1. /\ world' \in States /\ \A j \in Kinds : world'[j] \in Nat /\ world[j] <= world'[j]
      /\ world'["connection"] + world'["radio"] <= MaxChanges
  <2>1. world' = [world EXCEPT ![k] = @ + 1] /\ world \in [Kinds -> Nat]
    BY DEF IInv, LogInv, States
  <2>2. world["connection"] + world["radio"] < MaxChanges /\ MaxChanges \in Nat
    BY MqttAssumption
  <2>3. k \in {"connection", "radio"} /\ Kinds = {"connection", "radio"}
    BY DEF Kinds
  <2>4. /\ world' \in [Kinds -> Nat] /\ world'[k] = world[k] + 1
        /\ \A j \in Kinds : j # k => world'[j] = world[j]
    BY <2>1
  <2>5. world'["connection"] + world'["radio"] <= MaxChanges
    BY <2>1, <2>2, <2>3, <2>4
  <2>6. \A j \in Kinds : world'[j] \in Nat /\ world[j] <= world'[j]
    BY <2>1, <2>4
  <2> QED
    BY <2>4, <2>5, <2>6 DEF States
<1>2. \A j \in Kinds : \A n \in Nat : \A v \in n .. world[j] : v \in n .. world'[j]
  BY <1>1 DEF IInv, LogInv, States
<1>3. \A i \in 1 .. Len(log) : \A j \in Kinds : log[i][j] \in Nat
  BY DEF IInv, LogInv, States
<1>4. LogInv'
  <2>1. \A j \in Kinds : told[j] \in Nat /\ world[j] \in Nat
    BY <1>3 DEF IInv, LogInv, States
  <2> QED
    BY <1>1, <2>1 DEF IInv, LogInv
<1>5. FeedInv'
  <2>1. ASSUME NEW i \in 1 .. Len(feed.queue) PROVE EventOK(feed.queue[i])'
    <3>0. feed.queue[i] \in FeedEvents
      BY DEF IInv, FeedInv
    <3>1. EventOK(feed.queue[i]) /\ feed.queue[i].seq \in Nat
      BY <3>0 DEF IInv, FeedInv, FeedEvents
    <3>2. feed.queue[i].seq + 1 \in 1 .. Len(log)
      BY <3>1 DEF EventOK, IInv, LogInv
    <3> QED
      BY <1>2, <1>3, <3>1, <3>2 DEF EventOK
  <2> QED
    BY <2>1 DEF IInv, FeedInv
<1>6. ASSUME expected # None, NEW j \in Kinds, NEW v, Current(j, v) PROVE Current(j, v)'
  <2>1. expected \in 1 .. Len(log)
    BY <1>6 DEF IInv, MirrorInv
  <2> QED
    BY <1>2, <1>3, <1>6, <2>1 DEF Current
<1>7. MirrorInv'
  <2>1. \A j \in Kinds : retained[j] <= world'[j]
    BY <1>1 DEF IInv, MirrorInv, States, LogInv
  <2>2. ASSUME expected # None, pc \in Resting \cup {"snapshot", "event", "inputs"}, NEW j \in Kinds
        PROVE  \/ Current(j, retained[j])'
               \/ (Publishing /\ \E i \in 1 .. Len(out) : out[i].topic = j)
    BY <1>6, <2>2 DEF IInv, MirrorInv
  <2>3. ASSUME Publishing, NEW i \in 1 .. Len(out), out[i].topic \in Kinds
        PROVE  Current(out[i].topic, out[i].value)'
    BY <1>6, <2>3 DEF IInv, MirrorInv
  <2> QED
    BY <2>1, <2>2, <2>3 DEF IInv, MirrorInv, Publishing
<1>8. ContextInv'
  BY <1>6 DEF IInv, ContextInv, Kinds
<1>9. CacheInv' /\ MessageInv'
  BY CommandsStay DEF IInv, MessageInv
<1>10. ControlInv' /\ AttemptInv'
  BY DEF IInv, ControlInv, AttemptInv, Stopping
<1> QED
  BY <1>4, <1>5, <1>7, <1>8, <1>9, <1>10 DEF IInv

\* A source announces what it changed: the log grows, and the event in the queue is
\* the whole difference to the state before it.
LEMMA AnnounceIInv ==
  ASSUME IInv, NEW k \in Kinds, Announce(k) PROVE IInv'
<1>0. UNCHANGED <<world, pc, out, expected, context, online, attempt, terminal, cache, message,
                  executions, since, conn, inbox, retained, availability, wills, stopper>>
  BY DEF Announce, retryVars, commandVars, brokerVars
<1>a. PICK n : n = Len(log)
  OBVIOUS
<1>b. PICK e : e = [kind |-> k, seq |-> n, state |-> told']
  OBVIOUS
<1>1. log \in Seq(States) /\ n \in Nat /\ n >= 1 /\ log[n] = told /\ told \in States
      /\ world \in States /\ \A j \in Kinds : told[j] <= world[j]
  BY <1>a DEF IInv, LogInv
<1>2. /\ told' \in States /\ told'[k] = world[k] /\ \A j \in Kinds : j # k => told'[j] = told[j]
  BY <1>1 DEF Announce, States
<1>3. \A j \in Kinds : told'[j] \in Nat /\ world[j] \in Nat /\ told'[j] <= world[j]
  <2>1. \A j \in Kinds : told'[j] \in Nat /\ world[j] \in Nat
    BY <1>1, <1>2 DEF States
  <2> QED
    BY <1>1, <1>2, <2>1
<1>4. /\ log' \in Seq(States) /\ Len(log') = n + 1 /\ log'[n + 1] = told'
      /\ \A i \in 1 .. n : log'[i] = log[i]
  BY <1>1, <1>2, <1>a, AppendFacts DEF Announce
<1>5. e \in FeedEvents /\ e.seq = n /\ e.kind = k /\ e.state = told'
  BY <1>1, <1>2, <1>b DEF FeedEvents
<1>6. feed' = IF feed.open THEN [feed EXCEPT !.queue = Enqueue(@, e)] ELSE feed
  BY <1>a, <1>b DEF Announce
<1>7. LogInv'
  BY <1>0, <1>1, <1>2, <1>3, <1>4 DEF IInv, LogInv
<1>8. EventOK(e)'
  <2>1. \A j \in Kinds : told'[j] \in told'[j] .. world[j]
    BY <1>3
  <2>2. \A j \in Kinds : j # k => log'[n + 1][j] = log'[n][j]
    BY <1>1, <1>2, <1>4
  <2> QED
    BY <1>0, <1>1, <1>4, <1>5, <2>1, <2>2 DEF EventOK
<1>9. ASSUME NEW f \in FeedEvents, EventOK(f) PROVE EventOK(f)'
  <2>1. f.seq \in Nat /\ f.seq + 1 \in 1 .. n /\ (f.seq >= 1 => f.seq \in 1 .. n)
    BY <1>1, <1>9, <1>a DEF EventOK, FeedEvents
  <2>2. log'[f.seq + 1] = log[f.seq + 1] /\ (f.seq >= 1 => log'[f.seq] = log[f.seq])
    BY <1>4, <2>1
  <2>3. f.seq + 1 <= Len(log')
    BY <1>1, <1>4, <2>1
  <2> QED
    BY <1>0, <1>9, <2>2, <2>3 DEF EventOK
<1>10. FeedInv'
  <2>a. PICK old : old = feed.queue
    OBVIOUS
  <2>0. /\ feed \in [open : BOOLEAN, queue : Seq(FeedEvents)] /\ Len(old) <= QueueCapacity
        /\ old \in Seq(FeedEvents)
        /\ \A i \in 1 .. Len(old) : old[i] \in FeedEvents /\ EventOK(old[i])
    BY <2>a DEF IInv, FeedInv
  <2>1. \A i \in 1 .. Len(old) : EventOK(old[i])'
    BY <1>9, <2>0
  <2>2. CASE ~feed.open
    BY <1>0, <1>6, <2>0, <2>1, <2>2, <2>a DEF IInv, FeedInv
  <2>3. CASE feed.open
    <3>1. PICK q : q = Enqueue(old, e)
      OBVIOUS
    <3>2. /\ q \in Seq(FeedEvents) /\ Len(q) >= 1 /\ Len(q) <= QueueCapacity
          /\ Len(old) >= 1 /\ old[1].kind = "snapshot" => q[1] = old[1]
          /\ \A i \in 1 .. Len(q) : q[i] = e \/ \E j \in 1 .. Len(old) : q[i] = old[j]
      BY <1>5, <2>0, <3>1, EnqueueFacts
    <3>3. feed'.queue = q /\ feed'.open /\ feed' \in [open : BOOLEAN, queue : Seq(FeedEvents)]
      BY <1>6, <2>0, <2>3, <2>a, <3>1, <3>2
    <3>4. \A i \in 1 .. Len(q) : EventOK(q[i])'
      BY <1>8, <2>1, <3>2
    <3>5. expected = None => q[1].kind = "snapshot"
      BY <2>3, <2>a, <3>2 DEF IInv, FeedInv
    <3> QED
      BY <1>0, <3>2, <3>3, <3>4, <3>5 DEF FeedInv
  <2> QED
    BY <2>2, <2>3
<1>11. expected # None => expected \in 1 .. n /\ log'[expected] = log[expected]
  BY <1>4, <1>a DEF IInv, MirrorInv
<1>12. expected \in 1 .. Len(log') \cup {None}
  BY <1>1, <1>4, <1>11
<1>13. \A j, v : expected # None => (Current(j, v) <=> Current(j, v)')
  BY <1>0, <1>11 DEF Current
<1>14. MirrorInv'
  BY <1>0, <1>12, <1>13 DEF IInv, MirrorInv, Publishing
<1>15. ContextInv'
  BY <1>0, <1>13 DEF IInv, ContextInv
<1>16. CacheInv' /\ MessageInv'
  BY <1>0, CommandsStay DEF IInv, MessageInv
<1>17. ControlInv' /\ AttemptInv'
  BY <1>0 DEF IInv, ControlInv, AttemptInv, Stopping
<1> QED
  BY <1>7, <1>10, <1>14, <1>15, <1>16, <1>17 DEF IInv

\* Steps beside the worker: of the broker, of the network thread and of stop().
LEMMA AsideIInv ==
  ASSUME IInv, ControlInv', Stopping => Stopping',
         UNCHANGED <<world, told, log, feed, expected, context, retained, out, pc, attempt,
                     terminal, cache, executions, since, message>>,
         inbox' \in Seq(Messages), Len(inbox') <= InboxCapacity
  PROVE  IInv'
<1>1. LogInv' /\ FeedInv' /\ ContextInv'
  BY StreamStays
<1>2. MirrorInv'
  BY MirrorStays
<1>3. AttemptInv'
  BY AttemptStays
<1>4. CacheInv' /\ MessageInv'
  BY CommandsStay
<1> QED
  BY <1>1, <1>2, <1>3, <1>4 DEF IInv

LEMMA LoseLinkIInv == ASSUME IInv, LoseLink PROVE IInv'
<1> USE DEF LoseLink, daemonVars, brokerVars, commandVars, retryVars
<1>1. ControlInv'
  BY DEF IInv, ControlInv
<1> QED
  BY <1>1, AsideIInv DEF IInv, MessageInv, Stopping

LEMMA WillFiresIInv == ASSUME IInv, WillFires PROVE IInv'
<1> USE DEF WillFires, daemonVars, brokerVars, commandVars, retryVars
<1>1. ControlInv'
  BY DEF IInv, ControlInv
<1> QED
  BY <1>1, AsideIInv DEF IInv, MessageInv, Stopping

LEMMA SendIInv == ASSUME IInv, NEW m \in Messages, Send(m) PROVE IInv'
<1> USE DEF Send, daemonVars, brokerVars, commandVars, retryVars
<1>1. ControlInv'
  BY DEF IInv, ControlInv
<1>2. inbox' \in Seq(Messages) /\ Len(inbox') <= InboxCapacity
  <2>1. inbox \in Seq(Messages) /\ Len(inbox) \in Nat /\ Len(inbox) <= InboxCapacity
        /\ InboxCapacity \in Nat
    BY MqttAssumption DEF IInv, MessageInv
  <2>2. CASE Len(inbox) < InboxCapacity
    BY <2>1, <2>2, AppendFacts
  <2> QED
    BY <2>1, <2>2
<1> QED
  BY <1>1, <1>2, AsideIInv DEF Stopping

LEMMA InterruptIInv == ASSUME IInv, Interrupt PROVE IInv'
<1> USE DEF Interrupt, daemonVars, brokerVars, commandVars, retryVars
<1>1. ControlInv'
  BY DEF IInv, ControlInv, ClosedConnection
<1> QED
  BY <1>1, AsideIInv DEF IInv, MessageInv, Stopping

LEMMA JoinedIInv == ASSUME IInv, Joined PROVE IInv'
<1> USE DEF Joined, daemonVars, brokerVars, commandVars, retryVars
<1>1. ControlInv'
  BY DEF IInv, ControlInv
<1> QED
  BY <1>1, AsideIInv DEF IInv, MessageInv, Stopping

\* A closed subscription has nothing to deliver.
LEMMA ClosedFeed ==
  ASSUME IInv, UNCHANGED <<world, told, log, expected, context>>, feed' = Closed
  PROVE  LogInv' /\ FeedInv' /\ ContextInv'
<1>1. LogInv' /\ ContextInv'
  BY DEF IInv, LogInv, ContextInv, Current
<1>2. FeedInv'
  BY EmptyFacts, MqttAssumption DEF FeedInv, Closed
<1> QED
  BY <1>1, <1>2

LEMMA StopIInv == ASSUME IInv, Stop PROVE IInv'
<1> USE DEF Stop, daemonVars, brokerVars, commandVars, retryVars
<1>1. ControlInv'
  BY DEF IInv, ControlInv
<1>2. LogInv' /\ FeedInv' /\ ContextInv'
  BY ClosedFeed
<1>3. MirrorInv'
  BY MirrorStays
<1>4. AttemptInv'
  BY AttemptStays DEF Stopping
<1>5. CacheInv' /\ MessageInv'
  BY CommandsStay DEF IInv, MessageInv
<1> QED
  BY <1>1, <1>2, <1>3, <1>4, <1>5 DEF IInv

\* Steps of the worker that publish no state and take no event.
LEMMA QuietIInv ==
  ASSUME IInv, ControlInv', AttemptInv',
         UNCHANGED <<world, told, log, feed, expected, context, retained, cache, executions, since>>,
         out' \in {out, <<>>}, pc' \notin {"snapshot", "event", "inputs"},
         pc' \in Resting => pc \in Resting, message' \in {message, NoMessage},
         inbox' \in Seq(Messages), Len(inbox') <= InboxCapacity
  PROVE  IInv'
<1>1. LogInv' /\ FeedInv' /\ ContextInv'
  BY StreamStays
<1>2. MirrorInv'
  BY MirrorStays
<1>3. CacheInv' /\ MessageInv'
  BY CommandsStay
<1> QED
  BY <1>1, <1>2, <1>3 DEF IInv

LEMMA BeginIInv == ASSUME IInv, Begin PROVE IInv'
<1> USE DEF Begin, daemonVars, brokerVars, commandVars
<1>1. AttemptInv'
  BY DEF IInv, AttemptInv
<1>2. CASE Stopping
  <2>1. ControlInv'
    BY <1>2 DEF IInv, ControlInv, Pcs
  <2>2. inbox' \in Seq(Messages) /\ Len(inbox') <= InboxCapacity
    BY <1>2 DEF IInv, MessageInv
  <2> QED
    BY <1>1, <1>2, <2>1, <2>2, QuietIInv DEF Resting
<1>3. CASE ~Stopping
  <2>1. ControlInv'
    <3>1. /\ pc' = "connect" /\ online' = FALSE /\ terminal' = FALSE
          /\ conn' = NewConnection /\ availability' = availability
      BY <1>3
    <3> QED
      BY <3>1 DEF IInv, ControlInv, Pcs, NewConnection
  <2>2. inbox' = <<>>
    BY <1>3
  <2>3. inbox' \in Seq(Messages) /\ Len(inbox') <= InboxCapacity
    BY <2>2, EmptyFacts, MqttAssumption
  <2> QED
    BY <1>1, <1>3, <2>1, <2>3, QuietIInv DEF Resting
<1> QED
  BY <1>2, <1>3

LEMMA ConnectIInv == ASSUME IInv, Connect PROVE IInv'
<1> USE DEF Connect, daemonVars
<1>0. inbox' \in Seq(Messages) /\ Len(inbox') <= InboxCapacity
  BY DEF IInv, MessageInv
<1>1. CASE /\ conn' = [conn EXCEPT !.link = "up"]
           /\ IF ClientId /\ wills > 0 THEN wills' = 0 /\ availability' = "offline"
              ELSE UNCHANGED <<wills, availability>>
           /\ pc' = IF Stopping THEN "finally" ELSE "announce"
           /\ UNCHANGED <<out, message, retryVars, faults>>
  <2>1. ControlInv'
    BY <1>1 DEF IInv, ControlInv, Pcs, retryVars
  <2>2. AttemptInv'
    BY <1>1, AttemptStays DEF Ending, Stopping, retryVars
  <2> QED
    BY <1>0, <1>1, <2>1, <2>2, QuietIInv DEF Resting
<1>2. CASE Raise /\ UNCHANGED <<conn, wills, availability>>
  <2>1. AttemptInv' /\ terminal' \in BOOLEAN /\ pc' \in {"finally", "backoff"}
        /\ out' = <<>> /\ message' = NoMessage
    BY <1>2, RaiseFacts DEF Ending
  <2>2. ControlInv'
    BY <1>2, <2>1 DEF IInv, ControlInv, Pcs
  <2> QED
    BY <1>0, <2>1, <2>2, QuietIInv DEF Resting
<1> QED
  BY <1>1, <1>2

LEMMA PublishOnlineIInv == ASSUME IInv, PublishOnline PROVE IInv'
<1> USE DEF PublishOnline, daemonVars
<1>0. inbox' \in Seq(Messages) /\ Len(inbox') <= InboxCapacity
  BY DEF IInv, MessageInv
<1>1. online' \in BOOLEAN /\ availability' \in {"online", "offline"}
  BY DEF Call, IInv, ControlInv
<1>2. CASE pc' = "subscribe" /\ UNCHANGED <<out, message>> /\ UNCHANGED retryVars
  <2>1. ControlInv'
    BY <1>1, <1>2 DEF IInv, ControlInv, Pcs, retryVars
  <2>2. AttemptInv'
    BY <1>2, AttemptStays DEF Ending, Stopping, retryVars
  <2> QED
    BY <1>0, <1>2, <2>1, <2>2, QuietIInv DEF Resting
<1>3. CASE Raise
  <2>1. AttemptInv' /\ terminal' \in BOOLEAN /\ pc' \in {"finally", "backoff"}
        /\ out' = <<>> /\ message' = NoMessage
    BY <1>3, RaiseFacts DEF Ending
  <2>2. ControlInv'
    BY <1>1, <2>1 DEF IInv, ControlInv, Pcs
  <2> QED
    BY <1>0, <2>1, <2>2, QuietIInv DEF Resting
<1> QED
  BY <1>2, <1>3 DEF Call

LEMMA EndIInv ==
  ASSUME IInv, Backoff \/ Withdraw \/ Close \/ LeaveFailed PROVE IInv'
<1> USE DEF Backoff, Withdraw, Close, LeaveFailed, daemonVars, brokerVars, commandVars, retryVars
<1>0. inbox' \in Seq(Messages) /\ Len(inbox') <= InboxCapacity
  BY DEF IInv, MessageInv
<1>1. ControlInv'
  BY DEF IInv, ControlInv, Pcs, ClosedConnection, Stopping
<1>2. AttemptInv'
  <2>1. CASE Backoff
    BY <2>1 DEF IInv, AttemptInv
  <2>2. CASE Withdraw
    BY <2>2 DEF IInv, AttemptInv, Stopping
  <2>3. CASE Close
    BY <2>3 DEF IInv, AttemptInv, Stopping
  <2>4. CASE LeaveFailed
    BY <2>4 DEF IInv, AttemptInv
  <2> QED
    BY <2>1, <2>2, <2>3, <2>4
<1> QED
  BY <1>0, <1>1, <1>2, QuietIInv DEF Resting

\* The session gives its subscription back.
LEMMA FinallyIInv == ASSUME IInv, Finally PROVE IInv'
<1> USE DEF Finally, daemonVars, brokerVars, commandVars, retryVars
<1>1. ControlInv'
  BY DEF IInv, ControlInv, Pcs
<1>2. LogInv' /\ FeedInv' /\ ContextInv'
  BY ClosedFeed
<1>3. MirrorInv'
  BY MirrorStays DEF Resting
<1>4. AttemptInv'
  BY DEF IInv, AttemptInv, Stopping
<1>5. CacheInv' /\ MessageInv'
  BY CommandsStay DEF IInv, MessageInv
<1> QED
  BY <1>1, <1>2, <1>3, <1>4, <1>5 DEF IInv

\* A new subscription holds one event, the snapshot of the present state.
LEMMA SubscribedFeed ==
  ASSUME IInv, UNCHANGED <<world, told, log>>, feed' = Subscribed, expected' = None,
         context' = NoContext
  PROVE  LogInv' /\ FeedInv' /\ ContextInv'
<1>0. /\ log \in Seq(States) /\ Len(log) \in Nat /\ Len(log) >= 1 /\ log[Len(log)] = told
      /\ told \in States /\ world \in States /\ \A j \in Kinds : told[j] <= world[j]
  BY DEF IInv, LogInv
<1>1. LogInv' /\ ContextInv'
  BY DEF IInv, LogInv, ContextInv, NoContext
<1>2. PICK e : e = [kind |-> "snapshot", seq |-> Len(log) - 1, state |-> world]
  OBVIOUS
<1>3. e \in FeedEvents /\ e.kind = "snapshot" /\ e.seq + 1 = Len(log) /\ e.state = world
  BY <1>0, <1>2 DEF FeedEvents
<1>4. \A j \in Kinds : world[j] \in told[j] .. world[j]
  BY <1>0 DEF States
<1>5. EventOK(e)'
  BY <1>0, <1>3, <1>4 DEF EventOK
<1>6. feed' = [open |-> TRUE, queue |-> <<e>>]
  BY <1>2 DEF Subscribed
<1>7. <<e>> \in Seq(FeedEvents) /\ Len(<<e>>) = 1 /\ <<e>>[1] = e
  BY <1>3
<1>8. 1 <= QueueCapacity
  BY MqttAssumption
<1>9. FeedInv'
  BY <1>3, <1>5, <1>6, <1>7, <1>8 DEF FeedInv
<1> QED
  BY <1>1, <1>9

\* With no event expected yet nothing is claimed of the mirror.
LEMMA MirrorFresh ==
  ASSUME IInv, UNCHANGED <<world, log, retained>>, expected' = None, out' \in {out, <<>>},
         pc' \notin {"snapshot", "event", "inputs"}
  PROVE  MirrorInv'
<1>1. out' \in Seq(Publicized)
  BY EmptyFacts DEF IInv, MirrorInv
<1> QED
  BY <1>1 DEF IInv, MirrorInv, Publishing

LEMMA SubscribeIInv == ASSUME IInv, Subscribe PROVE IInv'
<1> USE DEF Subscribe, daemonVars, brokerVars, commandVars, retryVars
<1>1. ControlInv'
  BY DEF IInv, ControlInv, Pcs
<1>2. AttemptInv'
  BY AttemptStays DEF Ending, Stopping
<1>3. CacheInv' /\ MessageInv'
  BY CommandsStay DEF IInv, MessageInv
<1>4. CASE Stopping
  <2>1. LogInv' /\ FeedInv' /\ ContextInv'
    BY <1>4 DEF IInv, LogInv, FeedInv, ContextInv, EventOK, NoContext
  <2>2. MirrorInv'
    BY <1>4, MirrorStays DEF Resting
  <2> QED
    BY <1>1, <1>2, <1>3, <2>1, <2>2 DEF IInv
<1>5. CASE ~Stopping
  <2>1. LogInv' /\ FeedInv' /\ ContextInv'
    BY <1>5, SubscribedFeed
  <2>2. MirrorInv'
    BY <1>5, MirrorFresh
  <2> QED
    BY <1>1, <1>2, <1>3, <2>1, <2>2 DEF IInv
<1> QED
  BY <1>4, <1>5

LEMMA CheckIInv == ASSUME IInv, Check PROVE IInv'
<1> USE DEF Check, daemonVars, brokerVars
<1>0. inbox \in Seq(Messages) /\ Len(inbox) \in Nat /\ Len(inbox) <= InboxCapacity
      /\ InboxCapacity \in Nat
  BY MqttAssumption DEF IInv, MessageInv
<1>1. CASE Raise /\ UNCHANGED inbox
  <2>1. AttemptInv' /\ terminal' \in BOOLEAN /\ pc' \in {"finally", "backoff"}
        /\ out' = <<>> /\ message' = NoMessage
    BY <1>1, RaiseFacts DEF Ending
  <2>2. ControlInv'
    BY <1>1, <2>1 DEF IInv, ControlInv, Pcs
  <2> QED
    BY <1>0, <1>1, <2>1, <2>2, QuietIInv DEF Resting
<1>2. CASE pc' \in {"finally", "get"} /\ UNCHANGED <<out, message, retryVars, inbox>>
  <2>1. ControlInv'
    BY <1>2 DEF IInv, ControlInv, Pcs, retryVars
  <2>2. AttemptInv'
    BY <1>2, AttemptStays DEF Ending, Stopping, retryVars
  <2> QED
    BY <1>0, <1>2, <2>1, <2>2, QuietIInv DEF Resting
<1>3. CASE /\ UNCHANGED <<out, retryVars>> /\ inbox # <<>>
           /\ message' = Head(inbox) /\ inbox' = Tail(inbox) /\ pc' = "handle"
  <2>1. ControlInv'
    BY <1>3 DEF IInv, ControlInv, Pcs, retryVars
  <2>2. AttemptInv'
    BY <1>3, AttemptStays DEF Ending, Stopping, retryVars
  <2>3. LogInv' /\ FeedInv' /\ ContextInv'
    BY StreamStays
  <2>4. MirrorInv'
    BY <1>3, MirrorStays DEF Resting
  <2>5. CacheInv'
    BY DEF IInv, CacheInv, Cached, Dispatched
  <2>6. message' \in Messages /\ inbox' \in Seq(Messages) /\ Len(inbox') <= InboxCapacity
    <3>1. Len(inbox) >= 1
      BY <1>0, <1>3, EmptyFacts
    <3>2. Head(inbox) \in Messages /\ Tail(inbox) \in Seq(Messages)
          /\ Len(Tail(inbox)) = Len(inbox) - 1
      BY <1>0, <3>1, TailFacts
    <3>3. message' = Head(inbox) /\ inbox' = Tail(inbox)
      BY <1>3
    <3>4. Len(inbox') = Len(inbox) - 1
      BY <3>2, <3>3
    <3>5. Len(inbox) - 1 <= InboxCapacity
      BY <1>0
    <3> QED
      BY <3>2, <3>3, <3>4, <3>5
  <2>7. MessageInv'
    <3>1. message'.reply = None /\ (message'.id # None => message'.body \in Bodies)
          /\ message' \in [id : Requests \cup {None}, body : Bodies \cup {None},
                           reply : {None, "response", "refused"}]
      BY <2>6, MqttAssumption DEF Messages, NoMessage
    <3> QED
      BY <2>6, <3>1, MqttAssumption DEF MessageInv
  <2> QED
    BY <2>1, <2>2, <2>3, <2>4, <2>5, <2>7 DEF IInv
<1> QED
  BY <1>1, <1>2, <1>3

\* An event in order: the stream position moves to it, and what it is about is about
\* to be published.
LEMMA TakeEventIInv ==
  ASSUME IInv, pc = "get", feed.open, feed.queue # <<>>,
         InSequence(Head(feed.queue)), TakeEvent(Head(feed.queue)),
         UNCHANGED <<daemonVars, online, retryVars, commandVars, conn, inbox, brokerVars, stopper>>
  PROVE  IInv'
<1> USE DEF daemonVars, retryVars, commandVars, brokerVars
<1>a. PICK q : q = feed.queue
  OBVIOUS
<1>b. PICK e : e = Head(q)
  OBVIOUS
<1>0. /\ q \in Seq(FeedEvents) /\ Len(q) <= QueueCapacity
      /\ \A i \in 1 .. Len(q) : q[i] \in FeedEvents /\ EventOK(q[i])
      /\ expected = None => q[1].kind = "snapshot"
  BY <1>a DEF IInv, FeedInv
<1>1. /\ Len(q) \in Nat /\ Len(q) >= 1 /\ e = q[1] /\ Tail(q) \in Seq(FeedEvents)
      /\ Len(Tail(q)) = Len(q) - 1 /\ \A i \in 1 .. Len(q) - 1 : Tail(q)[i] = q[i + 1]
  <2>1. Len(q) >= 1
    BY <1>0, <1>a, EmptyFacts
  <2> QED
    BY <1>0, <1>b, <2>1, TailFacts
<1>2. /\ e \in FeedEvents /\ EventOK(e) /\ e.seq \in Nat /\ e.kind \in Kinds \cup {"snapshot"}
      /\ e.state \in States /\ e.state["radio"] \in Nat /\ e.state["connection"] \in Nat
      /\ Len(log) \in Nat /\ e.seq + 1 \in 1 .. Len(log)
  <2>1. e \in FeedEvents /\ EventOK(e)
    BY <1>0, <1>1
  <2> QED
    BY <2>1 DEF FeedEvents, States, Kinds, EventOK, IInv, LogInv
<1>3. /\ expected' = e.seq + 1 /\ context' = ContextAfter(e) /\ out' = Publications(e)
      /\ pc' = IF e.kind = "snapshot" THEN "snapshot" ELSE "event"
      /\ feed' = [feed EXCEPT !.queue = Tail(q)]
      /\ e.kind = "snapshot" \/ expected \in {None, e.seq}
  BY <1>a, <1>b DEF TakeEvent, InSequence
<1>4. e.kind # "snapshot" =>
        /\ expected = e.seq /\ expected # None
        /\ \A j \in Kinds : j # e.kind => log[e.seq + 1][j] = log[expected][j]
  BY <1>0, <1>1, <1>2, <1>3, MqttAssumption DEF EventOK
<1>5. expected' # None /\ expected' \in 1 .. Len(log)
  BY <1>2, <1>3, MqttAssumption
<1>6. \A j \in Kinds : e.state[j] \in Nat /\ Current(j, e.state[j])'
  BY <1>2, <1>3 DEF EventOK, Current, States
<1>7. \A j \in Kinds, v \in Nat : e.kind # "snapshot" /\ j # e.kind /\ Current(j, v) => Current(j, v)'
  BY <1>3, <1>4 DEF Current
<1>8. ControlInv'
  BY <1>3 DEF IInv, ControlInv, Pcs
<1>9. LogInv'
  BY DEF IInv, LogInv
<1>10. FeedInv'
  <2>1. \A i \in 1 .. Len(q) - 1 : i + 1 \in 1 .. Len(q) /\ EventOK(q[i + 1])
    BY <1>0, <1>1
  <2>2. PICK t : t = Tail(q)
    OBVIOUS
  <2>3. \A i \in 1 .. Len(t) : EventOK(t[i])
    BY <1>1, <2>1, <2>2
  <2>4. \A i \in 1 .. Len(t) : EventOK(t[i])'
    BY <2>3 DEF EventOK
  <2>5. feed'.queue = t /\ feed' \in [open : BOOLEAN, queue : Seq(FeedEvents)]
    BY <1>1, <1>3, <2>2 DEF IInv, FeedInv
  <2>6. Len(t) <= QueueCapacity
    BY <1>0, <1>1, <2>2, MqttAssumption
  <2> QED
    BY <1>5, <2>4, <2>5, <2>6 DEF FeedInv
<1>11. ContextInv'
  <2>1. CASE e.kind = "snapshot"
    <3>1. context' = [connected |-> Connected(e.state),
                      radio |-> IF Connected(e.state) THEN e.state["radio"] ELSE None]
      BY <1>3, <2>1 DEF ContextAfter
    <3>2. Connected(e.state) \in BOOLEAN
      BY DEF Connected
    <3> QED
      BY <1>2, <1>5, <1>6, <3>1, <3>2 DEF ContextInv, Kinds
  <2>2. CASE e.kind = "connection"
    <3>1. context' = [connected |-> Connected(e.state),
                      radio |-> IF Connected(e.state) THEN context.radio ELSE None]
      BY <1>3, <2>2 DEF ContextAfter
    <3>2. Connected(e.state) \in BOOLEAN
      BY DEF Connected
    <3>3. context.radio \in Nat \cup {None}
          /\ (context.radio # None => Current("radio", context.radio))
      BY DEF IInv, ContextInv
    <3>4. context.radio # None => context.radio \in log'[expected']["radio"] .. world'["radio"]
      <4>1. PICK v : v = context.radio
        OBVIOUS
      <4>2. v # None => Current("radio", v)'
        BY <1>7, <2>2, <3>3, <4>1 DEF Kinds
      <4>3. v # None => v \in log'[expected']["radio"] .. world'["radio"]
        BY <4>2 DEF Current
      <4> QED
        BY <4>1, <4>3
    <3> QED
      BY <1>5, <3>1, <3>2, <3>3, <3>4 DEF ContextInv, Current
  <2>3. CASE e.kind = "radio"
    <3>1. context' = [context EXCEPT !.radio = IF context.connected THEN e.state["radio"] ELSE None]
      BY <1>3, <2>3 DEF ContextAfter
    <3> QED
      BY <1>2, <1>5, <1>6, <3>1 DEF ContextInv, Kinds, IInv
  <2> QED
    BY <1>2, <2>1, <2>2, <2>3 DEF Kinds
<1>12. MirrorInv'
  <2>1. retained' \in States /\ \A j \in Kinds : retained'[j] <= world'[j]
    BY DEF IInv, MirrorInv
  <2>2. Publishing'
    BY <1>3 DEF Publishing
  <2>3. CASE e.kind = "snapshot"
    <3>1. PICK p : p = Publications(e)
      OBVIOUS
    <3>2. /\ p \in Seq(Publicized) /\ Len(p) = 2
          /\ p[1].topic = "connection" /\ p[1].value = e.state["connection"]
          /\ p[2].topic = "radio" /\ p[2].value = e.state["radio"]
      BY <1>2, <2>3, <3>1 DEF Publications, Publicized, Topics, Kinds
    <3>3. \A i \in 1 .. Len(p) : p[i].topic \in Kinds => Current(p[i].topic, p[i].value)'
      BY <1>6, <3>2 DEF Kinds
    <3>4. \A j \in Kinds : \E i \in 1 .. Len(p) : p[i].topic = j
      BY <3>2 DEF Kinds
    <3> QED
      BY <1>3, <1>5, <2>1, <2>2, <2>3, <3>1, <3>2, <3>3, <3>4 DEF MirrorInv
  <2>4. CASE e.kind # "snapshot"
    <3>1. PICK p : p = Publications(e)
      OBVIOUS
    <3>2. /\ p \in Seq(Publicized) /\ Len(p) = 2
          /\ p[1].topic = e.kind /\ p[1].value = e.state[e.kind] /\ p[2].topic = "events"
          /\ e.kind \in Kinds
      BY <1>2, <1>6, <2>4, <3>1 DEF Publications, Publicized, Topics
    <3>3. \A i \in 1 .. Len(p) : p[i].topic \in Kinds => Current(p[i].topic, p[i].value)'
      BY <1>6, <3>2 DEF Kinds
    <3>4. ASSUME NEW j \in Kinds
          PROVE  Current(j, retained[j])' \/ \E i \in 1 .. Len(p) : p[i].topic = j
      <4>1. CASE j = e.kind
        BY <3>2, <4>1
      <4>2. CASE j # e.kind
        <5>1. Current(j, retained[j]) /\ retained[j] \in Nat
          BY <1>4, <2>4 DEF IInv, MirrorInv, Resting, Publishing, States
        <5>2. retained[j] \in log'[expected'][j] .. world'[j]
          BY <1>7, <2>4, <4>2, <5>1 DEF Current
        <5> QED
          BY <5>2 DEF Current
      <4> QED
        BY <4>1, <4>2
    <3> QED
      BY <1>3, <1>5, <2>1, <2>2, <2>4, <3>1, <3>2, <3>3, <3>4 DEF MirrorInv
  <2> QED
    BY <2>3, <2>4
<1>13. AttemptInv'
  BY AttemptStays DEF Ending, Stopping
<1>14. CacheInv' /\ MessageInv'
  BY CommandsStay DEF IInv, MessageInv
<1> QED
  BY <1>8, <1>9, <1>10, <1>11, <1>12, <1>13, <1>14 DEF IInv

\* After a gap everything starts over from a snapshot.
LEMMA GetIInv == ASSUME IInv, Get PROVE IInv'
<1> USE DEF daemonVars, retryVars, commandVars, brokerVars
<1>0. /\ pc = "get"
      /\ UNCHANGED <<daemonVars, online, retryVars, commandVars, conn, inbox, brokerVars, stopper>>
  BY DEF Get
<1>1. CASE pc' \in {"finally", "check"} /\ UNCHANGED <<feed, expected, context, out>>
  <2>1. ControlInv'
    BY <1>0, <1>1 DEF IInv, ControlInv, Pcs
  <2>2. AttemptInv'
    BY <1>0, <1>1, AttemptStays DEF Ending, Stopping
  <2> QED
    BY <1>0, <1>1, <2>1, <2>2, QuietIInv DEF Resting, IInv, MessageInv
<1>2. CASE feed.open /\ feed.queue # <<>> /\ InSequence(Head(feed.queue)) /\ TakeEvent(Head(feed.queue))
  BY <1>0, <1>2, TakeEventIInv
<1>3. CASE Resynchronize /\ UNCHANGED out
  <2>1. ControlInv'
    BY <1>0, <1>3 DEF IInv, ControlInv, Pcs, Resynchronize
  <2>2. AttemptInv'
    BY <1>0, <1>3, AttemptStays DEF Ending, Stopping
  <2>3. CacheInv' /\ MessageInv'
    BY <1>0, CommandsStay DEF IInv, MessageInv
  <2>4. CASE Stopping
    <3>1. pc' = "finally" /\ feed' = Closed /\ expected' = expected /\ context' = NoContext
      BY <1>3, <2>4 DEF Resynchronize
    <3>2. LogInv' /\ ContextInv'
      BY <1>0, <3>1 DEF IInv, LogInv, ContextInv, NoContext
    <3>3. FeedInv'
      BY <3>1, EmptyFacts, MqttAssumption DEF FeedInv, Closed
    <3>4. MirrorInv'
      BY <1>0, <1>3, <3>1, MirrorStays DEF Resting
    <3> QED
      BY <2>1, <2>2, <2>3, <3>2, <3>3, <3>4 DEF IInv
  <2>5. CASE ~Stopping
    <3>1. pc' = "check" /\ feed' = Subscribed /\ expected' = None /\ context' = NoContext
      BY <1>3, <2>5 DEF Resynchronize
    <3>2. LogInv' /\ FeedInv' /\ ContextInv'
      BY <1>0, <3>1, SubscribedFeed
    <3>3. MirrorInv'
      BY <1>0, <1>3, <3>1, MirrorFresh
    <3> QED
      BY <2>1, <2>2, <2>3, <3>2, <3>3 DEF IInv
  <2> QED
    BY <2>4, <2>5
<1> QED
  BY <1>1, <1>2, <1>3 DEF Get

\* One publication: its topic holds the version it carries, every other topic what it
\* held.
LEMMA PublishStateIInv == ASSUME IInv, PublishState PROVE IInv'
<1>0. /\ pc \in {"snapshot", "event"} /\ Publishing
      /\ UNCHANGED <<world, told, log, feed, expected, context, online, cache, executions, since,
                     conn, inbox, availability, stopper>>
  BY DEF PublishState, daemonVars, Publishing
<1>1. /\ out \in Seq(Publicized) /\ Len(out) >= 1 /\ expected # None
      /\ \A i \in 1 .. Len(out) : out[i].topic \in Kinds => Current(out[i].topic, out[i].value)
      /\ \A j \in Kinds : Current(j, retained[j]) \/ \E i \in 1 .. Len(out) : out[i].topic = j
      /\ retained \in States /\ \A j \in Kinds : retained[j] <= world[j]
  BY <1>0 DEF IInv, MirrorInv
<1>2. PICK p : p = Head(out)
  OBVIOUS
<1>3. /\ p = out[1] /\ p.topic \in Topics /\ p.value \in Nat /\ Len(out) \in Nat
      /\ Tail(out) \in Seq(Publicized) /\ Len(Tail(out)) = Len(out) - 1
      /\ \A i \in 1 .. Len(out) - 1 : Tail(out)[i] = out[i + 1]
      /\ (Tail(out) # <<>> <=> Len(Tail(out)) >= 1)
  <2>1. p \in Publicized
    BY <1>1, <1>2, TailFacts
  <2>2. p.topic \in Topics /\ p.value \in Nat
    BY <2>1 DEF Publicized
  <2> QED
    BY <1>1, <1>2, <2>2, TailFacts, EmptyFacts
<1>4. inbox' \in Seq(Messages) /\ Len(inbox') <= InboxCapacity
  BY <1>0 DEF IInv, MessageInv
<1>5. ASSUME \/ p.topic \in Kinds /\ retained' = [retained EXCEPT ![p.topic] = p.value]
             \/ p.topic \notin Kinds /\ retained' = retained
             \/ retained' = retained
      PROVE  retained' \in States /\ \A j \in Kinds : retained'[j] <= world[j]
  <2>1. CASE p.topic \in Kinds /\ retained' = [retained EXCEPT ![p.topic] = p.value]
    <3>1. p.value <= world[p.topic]
      <4>1. Current(p.topic, p.value)
        BY <1>1, <1>3, <2>1
      <4> QED
        BY <4>1, <1>3, <2>1 DEF Current
    <3> QED
      BY <1>1, <1>3, <2>1, <3>1 DEF States
  <2> QED
    BY <1>1, <1>5, <2>1
<1>6. CASE /\ IF p.topic \in Kinds THEN retained' = [retained EXCEPT ![p.topic] = p.value]
              ELSE UNCHANGED retained
           /\ out' = Tail(out) /\ UNCHANGED message
           /\ pc' = IF Tail(out) # <<>> THEN pc ELSE IF pc = "snapshot" THEN "inputs" ELSE "check"
           /\ UNCHANGED retryVars
  <2>1. ControlInv'
    BY <1>0, <1>6 DEF IInv, ControlInv, Pcs, retryVars
  <2>2. AttemptInv'
    BY <1>0, <1>6, AttemptStays DEF Ending, Stopping, retryVars
  <2>3. LogInv' /\ FeedInv' /\ ContextInv'
    BY <1>0, StreamStays
  <2>4. CacheInv' /\ MessageInv'
    BY <1>0, <1>4, <1>6, CommandsStay
  <2>5. retained' \in States /\ \A j \in Kinds : retained'[j] <= world[j]
    BY <1>5, <1>6
  <2>6. PICK t : t = Tail(out)
    OBVIOUS
  <2>7. /\ t \in Seq(Publicized) /\ Len(t) = Len(out) - 1 /\ out' = t
        /\ \A i \in 1 .. Len(t) : i + 1 \in 1 .. Len(out) /\ t[i] = out[i + 1]
        /\ (t # <<>> <=> Len(t) >= 1) /\ Len(t) \in Nat
    BY <1>3, <1>6, <2>6
  <2>8. \A i \in 1 .. Len(t) : t[i].topic \in Kinds => Current(t[i].topic, t[i].value)
    BY <1>1, <2>7
  <2>9. ASSUME NEW j \in Kinds
        PROVE  \/ retained'[j] \in log[expected][j] .. world[j]
               \/ \E i \in 1 .. Len(t) : t[i].topic = j
    <3>1. CASE j = p.topic
      <4>1. Current(j, p.value)
        BY <1>1, <1>3, <3>1
      <4>2. retained'[j] = p.value
        BY <1>1, <1>6, <3>1 DEF States
      <4> QED
        BY <4>1, <4>2 DEF Current
    <3>2. CASE j # p.topic
      <4>1. retained'[j] = retained[j]
        BY <1>1, <1>6, <3>2 DEF States
      <4>2. CASE Current(j, retained[j])
        BY <4>1, <4>2 DEF Current
      <4>3. CASE \E i \in 1 .. Len(out) : out[i].topic = j
        <5>1. PICK i \in 1 .. Len(out) : out[i].topic = j
          BY <4>3
        <5>2. i # 1
          BY <1>3, <3>2, <5>1
        <5>3. i - 1 \in 1 .. Len(t) /\ (i - 1) + 1 = i
          BY <1>3, <2>7, <5>2
        <5> QED
          BY <2>7, <5>1, <5>3
      <4> QED
        BY <1>1, <4>2, <4>3
    <3> QED
      BY <3>1, <3>2
  <2>10. ASSUME t = <<>> PROVE MirrorInv'
    <3>1. pc' \in {"inputs", "check"} /\ ~(Len(t) >= 1)
      BY <1>6, <2>6, <2>7, <2>10
    <3>2. \A j \in Kinds : retained'[j] \in log[expected][j] .. world[j]
      BY <2>7, <2>9, <3>1
    <3>3. expected' \in 1 .. Len(log') \cup {None} /\ expected' # None
      BY <1>0, <1>1 DEF IInv, MirrorInv
    <3>4. ~Publishing'
      BY <3>1 DEF Publishing
    <3>5. \A j \in Kinds : Current(j, retained[j])'
      BY <1>0, <3>2 DEF Current
    <3>6. out' \in Seq(Publicized) /\ world' = world
      BY <1>0, <2>7
    <3> QED
      BY <2>5, <3>3, <3>4, <3>5, <3>6 DEF MirrorInv
  <2>11. ASSUME t # <<>> PROVE MirrorInv'
    <3>1. pc' = pc /\ Len(t) >= 1
      BY <1>6, <2>6, <2>7, <2>11
    <3>2. expected' \in 1 .. Len(log') \cup {None}
      BY <1>0 DEF IInv, MirrorInv
    <3>3. \A i \in 1 .. Len(out') :
            out'[i].topic \in Kinds => out'[i].value \in log'[expected'][out'[i].topic] .. world'[out'[i].topic]
      BY <1>0, <2>7, <2>8 DEF Current
    <3>4. \A j \in Kinds : \/ retained'[j] \in log'[expected'][j] .. world'[j]
                          \/ \E i \in 1 .. Len(out') : out'[i].topic = j
      BY <1>0, <2>7, <2>9
    <3>5. out' \in Seq(Publicized) /\ world' = world /\ Len(out') >= 1 /\ expected' # None
          /\ pc' # "inputs" /\ Publishing'
      BY <1>0, <1>1, <2>7, <3>1 DEF Publishing
    <3> QED
      BY <2>5, <3>2, <3>3, <3>4, <3>5 DEF MirrorInv, Current
  <2>12. MirrorInv'
    BY <2>10, <2>11
  <2> QED
    BY <2>1, <2>2, <2>3, <2>4, <2>12 DEF IInv
<1>7. CASE /\ \/ p.topic \in Kinds /\ retained' = [retained EXCEPT ![p.topic] = p.value]
              \/ retained' = retained
           /\ Raise
  <2>1. AttemptInv' /\ terminal' \in BOOLEAN /\ pc' \in {"finally", "backoff"}
        /\ out' = <<>> /\ message' = NoMessage
    BY <1>0, <1>7, RaiseFacts DEF Ending
  <2>2. ControlInv'
    BY <1>0, <2>1 DEF IInv, ControlInv, Pcs
  <2>3. LogInv' /\ FeedInv' /\ ContextInv'
    BY <1>0, StreamStays
  <2>4. CacheInv' /\ MessageInv'
    BY <1>0, <1>4, <2>1, CommandsStay
  <2>5. retained' \in States /\ \A j \in Kinds : retained'[j] <= world[j]
    BY <1>5, <1>7
  <2>6. MirrorInv'
    BY <1>0, <2>1, <2>5, EmptyFacts DEF IInv, MirrorInv, Publishing, Resting
  <2> QED
    BY <2>1, <2>2, <2>3, <2>4, <2>6 DEF IInv
<1> QED
  BY <1>2, <1>6, <1>7 DEF PublishState, Call

LEMMA OpenInputsIInv == ASSUME IInv, OpenInputs PROVE IInv'
<1> USE DEF OpenInputs, daemonVars, brokerVars
<1>0. inbox' \in Seq(Messages) /\ Len(inbox') <= InboxCapacity
  BY DEF IInv, MessageInv
<1>1. CASE Raise
  <2>1. AttemptInv' /\ terminal' \in BOOLEAN /\ pc' \in {"finally", "backoff"}
        /\ out' = <<>> /\ message' = NoMessage
    BY <1>1, RaiseFacts DEF Ending
  <2>2. conn' \in [link : {"down", "up", "lost"}, failed : BOOLEAN, closed : BOOLEAN,
                   commands : BOOLEAN]
    BY DEF IInv, ControlInv
  <2>3. ControlInv'
    BY <2>1, <2>2 DEF IInv, ControlInv, Pcs
  <2> QED
    BY <1>0, <2>1, <2>3, QuietIInv DEF Resting
<1>2. CASE /\ conn' = [conn EXCEPT !.commands = TRUE] /\ attempt' = 0 /\ pc' = "check"
           /\ UNCHANGED <<out, message, terminal>>
  <2>1. ControlInv'
    BY <1>2 DEF IInv, ControlInv, Pcs
  <2>2. AttemptInv'
    BY <1>2, MqttAssumption DEF AttemptInv
  <2>3. LogInv' /\ FeedInv' /\ ContextInv'
    BY StreamStays
  <2>4. CacheInv' /\ MessageInv'
    BY <1>0, <1>2, CommandsStay
  <2>5. MirrorInv'
    BY <1>2 DEF IInv, MirrorInv, Publishing, Current
  <2> QED
    BY <2>1, <2>2, <2>3, <2>4, <2>5 DEF IInv
<1> QED
  BY <1>1, <1>2

\* ------------------------------------------------------------- the command cache
\* No identifier twice, and those behind an entry were used after it.
Ordered(entries, used) ==
  \A i, j \in 1 .. Len(entries) :
    i < j => entries[i].id # entries[j].id /\ entries[j].id \in used[entries[i].id]

\* Everything behind the oldest entry of a sequence was used after it.
LEMMA BehindTheOldest ==
  ASSUME NEW s \in Seq(Entries), NEW used \in [Requests -> SUBSET Requests], Ordered(s, used),
         Len(s) >= 1, IsFiniteSet(used[s[1].id])
  PROVE  Cardinality(used[s[1].id]) >= Len(s) - 1
<1> DEFINE n == Len(s)
           T == used[s[1].id]
           f == [j \in 2 .. n |-> s[j].id]
<1>1. n \in Nat /\ n >= 1 /\ \A j \in 2 .. n : j \in 1 .. n /\ 1 < j
  OBVIOUS
<1>2. \A j \in 2 .. n : s[j].id \in T
  BY <1>1 DEF Ordered
<1>3. ASSUME NEW i \in 2 .. n, NEW j \in 2 .. n, s[i].id = s[j].id PROVE i = j
  <2>1. i \in 1 .. n /\ j \in 1 .. n /\ i \in Nat /\ j \in Nat
    OBVIOUS
  <2>2. ~(i < j) /\ ~(j < i)
    BY <1>3, <2>1 DEF Ordered
  <2> QED
    BY <2>1, <2>2
<1> HIDE DEF n, T
<1>4. f \in [2 .. n -> T]
  BY <1>2
<1>5. \A i, j \in 2 .. n : f[i] = f[j] => i = j
  BY <1>3
<1> HIDE DEF f
<1>6. f \in Injection(2 .. n, T)
  <2>1. DOMAIN f = 2 .. n
    BY <1>4
  <2> QED
    BY <1>4, <1>5, <2>1 DEF Injection, IsInjective
<1>7. IsFiniteSet(T)
  BY DEF T
<1>8. Cardinality(2 .. n) <= Cardinality(T)
  BY <1>6, <1>7, FS_Injection
<1>9. Cardinality(2 .. n) = IF 2 > n THEN 0 ELSE n - 2 + 1
  BY <1>1, FS_Interval
<1>10. Cardinality(T) \in Nat
  BY <1>7, FS_CardinalityType
<1>11. Cardinality(T) >= n - 1
  BY <1>1, <1>8, <1>9, <1>10
<1> QED
  BY <1>11 DEF n, T

\* Using a request: nothing was used after it, and it was used after all others.
LEMMA UsedFacts ==
  ASSUME IInv, NEW id \in Requests
  PROVE  /\ Used(id) \in [Requests -> SUBSET Requests]
         /\ \A r \in Requests : IsFiniteSet(Used(id)[r])
         /\ \A r \in Requests \ {id} :
              /\ Used(id)[r] = since[r] \cup {id}
              /\ Cardinality(since[r]) >= CacheCapacity => Cardinality(Used(id)[r]) >= CacheCapacity
<1>1. since \in [Requests -> SUBSET Requests] /\ \A r \in Requests : IsFiniteSet(since[r])
  BY DEF IInv, CacheInv
<1>2. Used(id) \in [Requests -> SUBSET Requests]
  BY <1>1 DEF Used
<1>3. ASSUME NEW r \in Requests PROVE IsFiniteSet(Used(id)[r])
  BY <1>1, FS_EmptySet, FS_AddElement DEF Used
<1>4. ASSUME NEW r \in Requests \ {id}
      PROVE  /\ Used(id)[r] = since[r] \cup {id}
             /\ Cardinality(since[r]) >= CacheCapacity => Cardinality(Used(id)[r]) >= CacheCapacity
  <2>1. Used(id)[r] = since[r] \cup {id}
    BY DEF Used
  <2>2. /\ Cardinality(since[r]) \in Nat
        /\ Cardinality(since[r] \cup {id}) = IF id \in since[r] THEN Cardinality(since[r])
                                             ELSE Cardinality(since[r]) + 1
    BY <1>1, FS_AddElement, FS_CardinalityType
  <2>3. CacheCapacity \in Nat
    BY MqttAssumption
  <2> QED
    BY <2>1, <2>2, <2>3
<1> QED
  BY <1>2, <1>3, <1>4

\* A request in the cache moves to the end.
LEMMA MovedToEnd ==
  ASSUME IInv, NEW i \in 1 .. Len(cache), cache' = Append(RemoveAt(cache, i), cache[i])
  PROVE  /\ cache' \in Seq(Entries) /\ Len(cache') = Len(cache)
         /\ Ordered(cache', Used(cache[i].id))
         /\ \A j \in 1 .. Len(cache') : \E l \in 1 .. Len(cache) : cache'[j] = cache[l]
         /\ \A l \in 1 .. Len(cache) : \E j \in 1 .. Len(cache') : cache'[j] = cache[l]
<1>c. PICK c : c = cache'
  OBVIOUS
<1>a. PICK n : n = Len(cache)
  OBVIOUS
<1>b. PICK m : m = RemoveAt(cache, i)
  OBVIOUS
<1>0. /\ cache \in Seq(Entries) /\ n \in Nat /\ i \in Nat /\ 1 <= i /\ i <= n
      /\ \A j \in 1 .. n : cache[j] \in Entries /\ cache[j].id \in Requests
      /\ \A j, l \in 1 .. n : j < l => cache[j].id # cache[l].id /\ cache[l].id \in since[cache[j].id]
  <2>1. cache \in Seq(Entries) /\ n \in Nat
    BY <1>a DEF IInv, CacheInv
  <2>2. \A j \in 1 .. n : cache[j] \in Entries
    BY <1>a, <2>1
  <2>3. \A j \in 1 .. n : cache[j].id \in Requests
    BY <2>2 DEF Entries
  <2>4. \A j, l \in 1 .. n : j < l => cache[j].id # cache[l].id /\ cache[l].id \in since[cache[j].id]
    BY <1>a DEF IInv, CacheInv
  <2> QED
    BY <1>a, <2>1, <2>2, <2>3, <2>4
<1>1. /\ m \in Seq(Entries) /\ Len(m) = n - 1
      /\ \A j \in 1 .. n - 1 : m[j] = IF j < i THEN cache[j] ELSE cache[j + 1]
  BY <1>0, <1>a, <1>b, RemoveAtFacts
<1>2. /\ c \in Seq(Entries) /\ Len(c) = n /\ c[n] = cache[i]
      /\ \A j \in 1 .. n - 1 : c[j] = IF j < i THEN cache[j] ELSE cache[j + 1]
  <2>1. /\ c \in Seq(Entries) /\ Len(c) = Len(m) + 1 /\ c[Len(m) + 1] = cache[i]
        /\ \A j \in 1 .. Len(m) : c[j] = m[j]
    BY <1>0, <1>1, <1>a, <1>b, <1>c, AppendFacts
  <2>2. Len(m) + 1 = n
    BY <1>0, <1>1
  <2> QED
    BY <1>1, <2>1, <2>2
<1> DEFINE from(j) == IF j = n THEN i ELSE IF j < i THEN j ELSE j + 1
<1>3. ASSUME NEW j \in 1 .. n PROVE from(j) \in 1 .. n /\ c[j] = cache[from(j)]
  BY <1>0, <1>2
<1>4. ASSUME NEW j \in 1 .. n, NEW l \in 1 .. n, j < l
      PROVE  c[j].id # c[l].id /\ c[l].id \in Used(cache[i].id)[c[j].id]
  <2>1. from(j) \in 1 .. n /\ from(l) \in 1 .. n /\ from(j) # i /\ from(j) \in Nat /\ j # n
    BY <1>0, <1>4
  <2>2. \A a, b \in 1 .. n : a # b => cache[a].id # cache[b].id
    BY <1>0
  <2>3. c[j] = cache[from(j)] /\ c[l] = cache[from(l)]
    BY <1>3
  <2>4. from(j) # from(l)
    BY <1>0, <1>4
  <2> HIDE DEF from
  <2>5. c[j].id # c[l].id /\ c[j].id # cache[i].id /\ c[j].id \in Requests
    BY <1>0, <1>a, <2>1, <2>2, <2>3, <2>4
  <2>6. Used(cache[i].id)[c[j].id] = since[c[j].id] \cup {cache[i].id}
    BY <1>0, <1>a, <2>5, UsedFacts
  <2>7. CASE l = n
    BY <1>2, <2>5, <2>6, <2>7
  <2>8. CASE l # n
    <3>1. from(j) < from(l)
      BY <1>0, <1>4, <2>8 DEF from
    <3>2. c[l].id \in since[c[j].id]
      BY <1>0, <2>1, <2>3, <3>1
    <3> QED
      BY <2>5, <2>6, <3>2
  <2> QED
    BY <2>7, <2>8
<1>5. ASSUME NEW l \in 1 .. n PROVE \E j \in 1 .. n : c[j] = cache[l]
  <2>1. CASE l = i
    BY <1>0, <1>2, <2>1
  <2>2. CASE l < i
    <3>1. l \in 1 .. n - 1
      BY <1>0, <2>2
    <3> QED
      BY <1>0, <1>2, <2>2, <3>1
  <2>3. CASE l > i
    <3>1. l - 1 \in 1 .. n - 1 /\ ~(l - 1 < i) /\ (l - 1) + 1 = l /\ l - 1 \in 1 .. n
      BY <1>0, <2>3
    <3> QED
      BY <1>2, <3>1
  <2>4. l = i \/ l < i \/ l > i
    BY <1>0
  <2> QED
    BY <2>1, <2>2, <2>3, <2>4
<1>6. Ordered(c, Used(cache[i].id))
  BY <1>2, <1>4 DEF Ordered
<1>7. \A j \in 1 .. n : \E l \in 1 .. n : c[j] = cache[l]
  BY <1>3
<1>8. Len(c) = n
  BY <1>2
<1>9. \A j \in 1 .. Len(c) : \E l \in 1 .. Len(cache) : c[j] = cache[l]
  BY <1>7, <1>8, <1>a, Zenon
<1>10. \A l \in 1 .. Len(cache) : \E j \in 1 .. Len(c) : c[j] = cache[l]
  BY <1>5, <1>8, <1>a, Zenon
<1> QED
  BY <1>2, <1>6, <1>9, <1>10, <1>a, <1>c

\* A new request joins the cache, and the oldest one leaves a full cache.
LEMMA KeptFacts ==
  ASSUME IInv, NEW new \in Entries, Cached(new.id) = {}, NEW c, c = Kept(Append(cache, new))
  PROVE  /\ c \in Seq(Entries) /\ Len(c) <= CacheCapacity /\ Len(c) >= 1
         /\ Ordered(c, Used(new.id)) /\ c[Len(c)] = new
         /\ \A j \in 1 .. Len(c) : c[j] = new \/ \E l \in 1 .. Len(cache) : c[j] = cache[l]
         /\ \A l \in 1 .. Len(cache) :
              \/ \E j \in 1 .. Len(c) : c[j] = cache[l]
              \/ Cardinality(Used(new.id)[cache[l].id]) >= CacheCapacity
<1>a. PICK n : n = Len(cache)
  OBVIOUS
<1>b. PICK f : f = Append(cache, new)
  OBVIOUS
<1>c. PICK u : u = Used(new.id)
  OBVIOUS
<1>0. /\ cache \in Seq(Entries) /\ n \in Nat /\ n <= CacheCapacity
      /\ CacheCapacity \in Nat /\ CacheCapacity >= 1
      /\ \A j \in 1 .. n : cache[j].id \in Requests /\ cache[j].id # new.id
      /\ \A j, l \in 1 .. n : j < l => cache[j].id # cache[l].id /\ cache[l].id \in since[cache[j].id]
      /\ new.id \in Requests
  <2>1. cache \in Seq(Entries) /\ n \in Nat /\ n <= CacheCapacity
    BY <1>a DEF IInv, CacheInv
  <2>2. \A j \in 1 .. n : cache[j] \in Entries
    BY <1>a, <2>1
  <2>3. new.id \in Requests /\ \A j \in 1 .. n : cache[j].id \in Requests
    BY <2>2 DEF Entries
  <2>4. \A j, l \in 1 .. n : j < l => cache[j].id # cache[l].id /\ cache[l].id \in since[cache[j].id]
    BY <1>a DEF IInv, CacheInv
  <2>5. \A j \in 1 .. n : cache[j].id # new.id
    BY <1>a, <2>1 DEF Cached
  <2>6. CacheCapacity \in Nat /\ CacheCapacity >= 1
    BY MqttAssumption
  <2> QED
    BY <2>1, <2>3, <2>4, <2>5, <2>6
<1>1. /\ f \in Seq(Entries) /\ Len(f) = n + 1 /\ f[n + 1] = new
      /\ \A j \in 1 .. n : f[j] = cache[j]
  BY <1>0, <1>a, <1>b, AppendFacts
<1>2. /\ u \in [Requests -> SUBSET Requests] /\ \A r \in Requests : IsFiniteSet(u[r])
      /\ \A r \in Requests \ {new.id} : u[r] = since[r] \cup {new.id}
  BY <1>0, <1>c, UsedFacts
<1>3. ASSUME NEW j \in 1 .. n + 1, NEW l \in 1 .. n + 1, j < l
      PROVE  f[j].id # f[l].id /\ f[l].id \in u[f[j].id]
  <2>1. j \in 1 .. n
    BY <1>0, <1>3
  <2>2. f[j] = cache[j] /\ cache[j].id \in Requests \ {new.id}
    BY <1>0, <1>1, <2>1
  <2>3. u[f[j].id] = since[cache[j].id] \cup {new.id}
    BY <1>2, <2>2
  <2>4. CASE l = n + 1
    BY <1>1, <2>2, <2>3, <2>4
  <2>5. CASE l \in 1 .. n
    BY <1>0, <1>1, <1>3, <2>1, <2>2, <2>3, <2>5
  <2>6. l = n + 1 \/ l \in 1 .. n
    BY <1>0
  <2> QED
    BY <2>4, <2>5, <2>6
<1>4. CASE n < CacheCapacity
  <2>1. c = f /\ Len(c) = n + 1
    BY <1>0, <1>1, <1>4, <1>b DEF Kept
  <2>2. Ordered(c, u)
    BY <1>3, <2>1 DEF Ordered
  <2>3. \A j \in 1 .. n + 1 : c[j] = new \/ \E l \in 1 .. n : c[j] = cache[l]
    <3>1. \A j \in 1 .. n + 1 : j = n + 1 \/ j \in 1 .. n
      BY <1>0
    <3> QED
      BY <1>1, <2>1, <3>1
  <2>4. \A l \in 1 .. n : l \in 1 .. n + 1 /\ c[l] = cache[l]
    BY <1>0, <1>1, <2>1
  <2>5. Len(c) <= CacheCapacity /\ Len(c) >= 1
    BY <1>0, <1>4, <2>1
  <2>6. \A j \in 1 .. Len(c) : c[j] = new \/ \E l \in 1 .. Len(cache) : c[j] = cache[l]
    BY <1>a, <2>1, <2>3
  <2>7. \A l \in 1 .. Len(cache) : \E j \in 1 .. Len(c) : c[j] = cache[l]
    BY <1>a, <2>1, <2>4
  <2> QED
    BY <1>1, <1>c, <2>1, <2>2, <2>5, <2>6, <2>7
<1>5. CASE n = CacheCapacity
  <2>1. c = Tail(f) /\ Len(f) >= 1
    BY <1>0, <1>1, <1>5, <1>b DEF Kept
  <2>2. /\ c \in Seq(Entries) /\ Len(c) = n /\ \A j \in 1 .. n : c[j] = f[j + 1]
    <3>1. /\ c \in Seq(Entries) /\ Len(c) = Len(f) - 1
          /\ \A j \in 1 .. Len(f) - 1 : c[j] = f[j + 1]
      BY <1>1, <2>1, TailFacts
    <3>2. Len(f) - 1 = n
      BY <1>0, <1>1
    <3> QED
      BY <3>1, <3>2
  <2>3. \A j \in 1 .. n : j + 1 \in 1 .. n + 1
    BY <1>0
  <2>4. Ordered(c, u)
    <3>1. \A j, l \in 1 .. n : j < l => j + 1 < l + 1
      BY <1>0
    <3> QED
      BY <1>3, <2>2, <2>3, <3>1 DEF Ordered
  <2>5. c[n] = new /\ n \in 1 .. n
    BY <1>0, <1>1, <1>5, <2>2
  <2>6. ASSUME NEW j \in 1 .. n PROVE c[j] = new \/ \E l \in 1 .. n : c[j] = cache[l]
    <3>1. j + 1 = n + 1 \/ j + 1 \in 1 .. n
      BY <1>0
    <3> QED
      BY <1>1, <2>2, <3>1
  <2>7. ASSUME NEW l \in 1 .. n
        PROVE  \/ \E j \in 1 .. n : c[j] = cache[l]
               \/ Cardinality(u[cache[l].id]) >= CacheCapacity
    <3>1. CASE l = 1
      <4>1. f[1] = cache[1] /\ cache[1].id \in Requests
        BY <1>0, <1>1, <3>1
      <4>2. Ordered(f, u)
        BY <1>1, <1>3 DEF Ordered
      <4>3. Cardinality(u[f[1].id]) >= Len(f) - 1
        BY <1>1, <1>2, <2>1, <4>1, <4>2, BehindTheOldest
      <4>4. Len(f) - 1 = CacheCapacity
        BY <1>0, <1>1, <1>5
      <4> QED
        BY <3>1, <4>1, <4>3, <4>4
    <3>2. CASE l # 1
      <4>1. l - 1 \in 1 .. n /\ (l - 1) + 1 = l
        BY <1>0, <3>2
      <4>2. c[l - 1] = cache[l]
        BY <1>1, <2>2, <4>1
      <4> QED
        BY <4>1, <4>2
    <3> QED
      BY <3>1, <3>2
  <2>8. Len(c) <= CacheCapacity /\ Len(c) >= 1
    BY <1>0, <1>5, <2>2
  <2>9. /\ \A j \in 1 .. Len(c) : c[j] = new \/ \E l \in 1 .. Len(cache) : c[j] = cache[l]
        /\ \A l \in 1 .. Len(cache) : \/ \E j \in 1 .. Len(c) : c[j] = cache[l]
                                    \/ Cardinality(u[cache[l].id]) >= CacheCapacity
    BY <1>a, <2>2, <2>6, <2>7
  <2> QED
    BY <1>c, <2>2, <2>4, <2>5, <2>8, <2>9
<1> QED
  BY <1>0, <1>4, <1>5

\* The cache after a command: it is in order, each entry was dispatched with its body,
\* and whoever is not in it was followed by as many others as it holds.
LEMMA CacheAfter ==
  ASSUME IInv, NEW id \in Requests, since' = Used(id),
         cache' \in Seq(Entries), Len(cache') <= CacheCapacity, Ordered(cache', Used(id)),
         executions' \in [Requests -> Seq(Bodies)],
         \A j \in 1 .. Len(cache') : Dispatched(cache[j].id, cache[j].body)',
         \E j \in 1 .. Len(cache') : cache'[j].id = id,
         \A l \in 1 .. Len(cache) :
            \/ \E j \in 1 .. Len(cache') : cache'[j] = cache[l]
            \/ Cardinality(Used(id)[cache[l].id]) >= CacheCapacity,
         \A r \in Requests : r # id => executions'[r] = executions[r]
  PROVE  CacheInv'
<1>1. since' \in [Requests -> SUBSET Requests] /\ \A r \in Requests : IsFiniteSet(since'[r])
  BY UsedFacts
<1>2. ASSUME NEW r \in Requests, executions'[r] # <<>>
      PROVE  Cached(r)' # {} \/ Cardinality(since'[r]) >= CacheCapacity
  <2>0. DOMAIN cache' = 1 .. Len(cache') /\ DOMAIN cache = 1 .. Len(cache)
    BY DEF IInv, CacheInv
  <2>1. CASE r = id
    BY <2>0, <2>1 DEF Cached
  <2>2. CASE r # id
    <3>1. Cached(r) # {} \/ Cardinality(since[r]) >= CacheCapacity
      BY <1>2, <2>2 DEF IInv, CacheInv
    <3>2. CASE Cardinality(since[r]) >= CacheCapacity
      BY <2>2, <3>2, UsedFacts
    <3>3. CASE Cached(r) # {}
      <4>1. PICK l \in 1 .. Len(cache) : cache[l].id = r
        BY <2>0, <3>3 DEF Cached
      <4>2. CASE \E j \in 1 .. Len(cache') : cache'[j] = cache[l]
        BY <2>0, <4>1, <4>2 DEF Cached
      <4> QED
        BY <4>1, <4>2
    <3> QED
      BY <3>1, <3>2, <3>3
  <2> QED
    BY <2>1, <2>2
<1>3. \A i, j \in 1 .. Len(cache') :
        i < j => cache'[i].id # cache'[j].id /\ cache'[j].id \in since'[cache'[i].id]
  BY DEF Ordered
<1> QED
  BY <1>1, <1>2, <1>3 DEF CacheInv

LEMMA HandleIInv == ASSUME IInv, Handle PROVE IInv'
<1> USE DEF daemonVars, brokerVars, retryVars
<1>0. /\ pc = "handle" /\ pc' = "answer"
      /\ UNCHANGED <<daemonVars, feed, out, expected, context, online, retryVars, conn, inbox,
                     brokerVars, stopper>>
  BY DEF Handle
<1>1. ControlInv'
  BY <1>0 DEF IInv, ControlInv, Pcs
<1>2. AttemptInv'
  BY <1>0, AttemptStays DEF Ending, Stopping
<1>3. LogInv' /\ FeedInv' /\ ContextInv'
  BY <1>0, StreamStays
<1>4. MirrorInv'
  BY <1>0, MirrorStays DEF Resting
<1>5. /\ message \in [id : Requests \cup {None}, body : Bodies \cup {None},
                     reply : {None, "response", "refused"}]
      /\ inbox' \in Seq(Messages) /\ Len(inbox') <= InboxCapacity
      /\ message.id # None => message.id \in Requests /\ message.body \in Bodies
  BY <1>0 DEF IInv, MessageInv
<1>6. /\ cache \in Seq(Entries) /\ Len(cache) \in Nat /\ Len(cache) <= CacheCapacity
      /\ executions \in [Requests -> Seq(Bodies)]
      /\ \A i \in 1 .. Len(cache) : Dispatched(cache[i].id, cache[i].body)
      /\ DOMAIN cache = 1 .. Len(cache) /\ \A i \in 1 .. Len(cache) : cache[i] \in Entries
  BY DEF IInv, CacheInv
<1>7. ASSUME message' = [message EXCEPT !.reply = message'.reply],
             message'.reply \in {"response", "refused"},
             message'.reply = "response" =>
               message.id \in Requests /\ Dispatched(message.id, message.body)'
      PROVE  MessageInv'
  <2>1. /\ message' \in [id : Requests \cup {None}, body : Bodies \cup {None},
                        reply : {None, "response", "refused"}]
        /\ message'.id = message.id /\ message'.body = message.body
    BY <1>5, <1>7
  <2> QED
    BY <1>5, <1>7, <2>1 DEF MessageInv, Dispatched
<1>8. CASE /\ message' = [message EXCEPT !.reply = "refused"]
           /\ UNCHANGED <<cache, executions, since>>
  <2>1. CacheInv'
    BY <1>8 DEF IInv, CacheInv, Cached, Dispatched
  <2>2. MessageInv'
    BY <1>5, <1>7, <1>8
  <2> QED
    BY <1>1, <1>2, <1>3, <1>4, <2>1, <2>2 DEF IInv
<1>9. ASSUME message.id # None, Cached(message.id) # {}, UNCHANGED executions,
             since' = Used(message.id), NEW i \in Cached(message.id),
             cache' = Append(RemoveAt(cache, i), cache[i]),
             message' = [message EXCEPT !.reply = CachedReply(cache[i])]
      PROVE  IInv'
  <2>1. i \in 1 .. Len(cache) /\ cache[i].id = message.id /\ message.id \in Requests
    BY <1>5, <1>6, <1>9 DEF Cached
  <2>2. /\ cache' \in Seq(Entries) /\ Len(cache') = Len(cache)
        /\ Ordered(cache', Used(message.id))
        /\ \A j \in 1 .. Len(cache') : \E l \in 1 .. Len(cache) : cache'[j] = cache[l]
        /\ \A l \in 1 .. Len(cache) : \E j \in 1 .. Len(cache') : cache'[j] = cache[l]
    BY <1>9, <2>1, MovedToEnd
  <2>3. \A r, b : Dispatched(r, b) => Dispatched(r, b)'
    BY <1>9 DEF Dispatched
  <2>4. \A j \in 1 .. Len(cache') : Dispatched(cache[j].id, cache[j].body)'
    <3>1. \A j \in 1 .. Len(cache') : Dispatched(cache'[j].id, cache'[j].body)
      BY <1>6, <2>2
    <3> QED
      BY <1>9, <3>1 DEF Dispatched
  <2>5. \E j \in 1 .. Len(cache') : cache'[j].id = message.id
    BY <2>1, <2>2
  <2>6. CacheInv'
    BY <1>6, <1>9, <2>1, <2>2, <2>4, <2>5, CacheAfter
  <2>7. MessageInv'
    <3>1. Dispatched(message.id, cache[i].body)
      BY <1>6, <2>1
    <3>2. CASE cache[i].body = message.body
      <4>1. message' = [message EXCEPT !.reply = "response"]
        BY <1>9, <3>2 DEF CachedReply
      <4>2. Dispatched(message.id, message.body)
        BY <3>1, <3>2
      <4>3. message'.id = message.id /\ message'.body = message.body /\ message'.reply = "response"
        BY <1>5, <4>1
      <4>4. Dispatched(message.id, message.body)'
        BY <1>9, <4>2, <4>3 DEF Dispatched
      <4> QED
        BY <1>7, <2>1, <4>1, <4>3, <4>4
    <3>3. CASE cache[i].body # message.body
      <4>1. message' = [message EXCEPT !.reply = "refused"]
        BY <1>9, <3>3 DEF CachedReply
      <4>2. message'.reply = "refused"
        BY <1>5, <4>1
      <4> QED
        BY <1>7, <4>1, <4>2
    <3> QED
      BY <3>2, <3>3
  <2> QED
    BY <1>1, <1>2, <1>3, <1>4, <2>6, <2>7 DEF IInv
<1>10. ASSUME message.id # None, Cached(message.id) = {},
              executions' = [executions EXCEPT ![message.id] = Append(@, message.body)],
              cache' = Kept(Append(cache, [id |-> message.id, body |-> message.body])),
              message' = [message EXCEPT !.reply = "response"],
              since' = Used(message.id)
       PROVE  IInv'
  <2>a. PICK new : new = [id |-> message.id, body |-> message.body]
    OBVIOUS
  <2>1. new \in Entries /\ new.id = message.id /\ new.body = message.body /\ new.id \in Requests
        /\ new.body \in Bodies
    BY <1>5, <1>10, <2>a DEF Entries
  <2>2. /\ cache' \in Seq(Entries) /\ Len(cache') <= CacheCapacity /\ Len(cache') >= 1
        /\ Ordered(cache', Used(new.id)) /\ cache'[Len(cache')] = new
        /\ \A j \in 1 .. Len(cache') : cache'[j] = new \/ \E l \in 1 .. Len(cache) : cache'[j] = cache[l]
        /\ \A l \in 1 .. Len(cache) :
             \/ \E j \in 1 .. Len(cache') : cache'[j] = cache[l]
             \/ Cardinality(Used(new.id)[cache[l].id]) >= CacheCapacity
    <3>1. PICK c : c = cache'
      OBVIOUS
    <3>2. c = Kept(Append(cache, new)) /\ Cached(new.id) = {}
      BY <1>10, <2>1, <2>a, <3>1
    <3>3. /\ c \in Seq(Entries) /\ Len(c) <= CacheCapacity /\ Len(c) >= 1
          /\ Ordered(c, Used(new.id)) /\ c[Len(c)] = new
          /\ \A j \in 1 .. Len(c) : c[j] = new \/ \E l \in 1 .. Len(cache) : c[j] = cache[l]
          /\ \A l \in 1 .. Len(cache) :
               \/ \E j \in 1 .. Len(c) : c[j] = cache[l]
               \/ Cardinality(Used(new.id)[cache[l].id]) >= CacheCapacity
      BY <2>1, <3>2, KeptFacts
    <3> QED
      BY <3>1, <3>3
  <2>3. /\ executions[new.id] \in Seq(Bodies)
        /\ executions' = [executions EXCEPT ![new.id] = Append(executions[new.id], new.body)]
    BY <1>6, <1>10, <2>1
  <2>4. PICK s : s = Append(executions[new.id], new.body)
    OBVIOUS
  <2>5. /\ s \in Seq(Bodies) /\ Len(executions[new.id]) \in Nat
        /\ Len(s) = Len(executions[new.id]) + 1 /\ s[Len(s)] = new.body
        /\ \A i \in 1 .. Len(executions[new.id]) : s[i] = executions[new.id][i]
    BY <2>1, <2>3, <2>4, AppendFacts
  <2>6. /\ executions' \in [Requests -> Seq(Bodies)] /\ executions'[new.id] = s
        /\ \A r \in Requests : r # new.id => executions'[r] = executions[r]
    BY <1>6, <2>1, <2>3, <2>4, <2>5
  <2>7. ASSUME NEW r \in Requests, NEW b, Dispatched(r, b) PROVE Dispatched(r, b)'
    <3>1. CASE r # new.id
      BY <2>6, <2>7, <3>1 DEF Dispatched
    <3>2. CASE r = new.id
      <4>1. PICK i \in 1 .. Len(executions[new.id]) : executions[new.id][i] = b
        BY <2>7, <3>2 DEF Dispatched
      <4>2. i \in 1 .. Len(s) /\ s[i] = b
        BY <2>5, <4>1
      <4> QED
        BY <2>6, <3>2, <4>2 DEF Dispatched
    <3> QED
      BY <3>1, <3>2
  <2>8. Dispatched(new.id, new.body)'
    <3>1. Len(s) \in 1 .. Len(s)
      BY <2>5
    <3> QED
      BY <2>5, <2>6, <3>1 DEF Dispatched
  <2>9. ASSUME NEW j \in 1 .. Len(cache') PROVE Dispatched(cache[j].id, cache[j].body)'
    <3>1. PICK f : f = cache'[j]
      OBVIOUS
    <3>2. CASE f = new
      BY <2>8, <3>1, <3>2 DEF Dispatched
    <3>3. CASE \E l \in 1 .. Len(cache) : f = cache[l]
      <4>1. PICK l \in 1 .. Len(cache) : f = cache[l]
        BY <3>3
      <4>2. Dispatched(f.id, f.body) /\ f.id \in Requests
        BY <1>6, <4>1 DEF Entries
      <4>3. Dispatched(f.id, f.body)'
        BY <2>7, <4>2
      <4> QED
        BY <3>1, <4>3 DEF Dispatched
    <3> QED
      BY <2>2, <3>1, <3>2, <3>3
  <2>10. \E j \in 1 .. Len(cache') : cache'[j].id = new.id
    <3>1. Len(cache') \in 1 .. Len(cache')
      BY <2>2
    <3> QED
      BY <2>2, <3>1
  <2>11. CacheInv'
    BY <1>10, <2>1, <2>2, <2>6, <2>9, <2>10, CacheAfter
  <2>12. MessageInv'
    <3>1. message'.id = message.id /\ message'.body = message.body /\ message'.reply = "response"
      BY <1>5, <1>10
    <3>2. Dispatched(message.id, message.body)'
      BY <2>1, <2>8, <3>1 DEF Dispatched
    <3> QED
      BY <1>7, <1>10, <2>1, <3>1, <3>2
  <2> QED
    BY <1>1, <1>2, <1>3, <1>4, <2>11, <2>12 DEF IInv
<1>11. CASE message.id # None /\ Cached(message.id) # {}
  <2>1. (CHOOSE i \in Cached(message.id) : TRUE) \in Cached(message.id)
    BY <1>11
  <2> QED
    BY <1>9, <1>11, <2>1 DEF Handle
<1>12. CASE message.id # None /\ Cached(message.id) = {}
  BY <1>10, <1>12 DEF Handle
<1>13. CASE message.id = None
  BY <1>8, <1>13 DEF Handle
<1> QED
  BY <1>11, <1>12, <1>13

LEMMA AnswerIInv == ASSUME IInv, Answer \/ Acknowledge PROVE IInv'
<1> USE DEF daemonVars, brokerVars
<1>0. /\ pc \in {"answer", "acknowledge"}
      /\ UNCHANGED <<daemonVars, feed, expected, context, online, cache, executions, since,
                     conn, inbox, brokerVars, stopper>>
      /\ inbox' \in Seq(Messages) /\ Len(inbox') <= InboxCapacity
  BY DEF Answer, Acknowledge, IInv, MessageInv
<1>1. CASE Raise
  <2>1. AttemptInv' /\ terminal' \in BOOLEAN /\ pc' \in {"finally", "backoff"}
        /\ out' = <<>> /\ message' = NoMessage
    BY <1>0, <1>1, RaiseFacts DEF Ending
  <2>2. ControlInv'
    BY <1>0, <2>1 DEF IInv, ControlInv, Pcs
  <2> QED
    BY <1>0, <2>1, <2>2, QuietIInv DEF Resting
<1>2. CASE pc' \in {"acknowledge", "get"} /\ message' \in {message, NoMessage} /\ UNCHANGED <<out, retryVars>>
  <2>1. ControlInv'
    BY <1>0, <1>2 DEF IInv, ControlInv, Pcs, retryVars
  <2>2. AttemptInv'
    BY <1>0, <1>2, AttemptStays DEF Ending, Stopping, retryVars
  <2> QED
    BY <1>0, <1>2, <2>1, <2>2, QuietIInv DEF Resting
<1> QED
  BY <1>1, <1>2 DEF Answer, Acknowledge, Call

\* -------------------------------------------------------------------- the theorems
LEMMA NextIInv == IInv /\ [Next]_vars => IInv'
<1> SUFFICES ASSUME IInv, [Next]_vars PROVE IInv'
  OBVIOUS
<1>1. CASE Worker
  BY <1>1, BeginIInv, ConnectIInv, PublishOnlineIInv, EndIInv, FinallyIInv, SubscribeIInv,
     CheckIInv, GetIInv, PublishStateIInv, OpenInputsIInv, HandleIInv, AnswerIInv DEF Worker
<1>2. CASE \E k \in Kinds : Change(k) \/ Announce(k)
  BY <1>2, ChangeIInv, AnnounceIInv
<1>3. CASE \E m \in Messages : Send(m)
  BY <1>3, SendIInv
<1>4. CASE LoseLink \/ WillFires \/ Stop \/ Interrupt \/ Joined
  BY <1>4, LoseLinkIInv, WillFiresIInv, StopIInv, InterruptIInv, JoinedIInv
<1>5. CASE UNCHANGED vars
  <2>1. ControlInv'
    BY <1>5 DEF vars, brokerVars, retryVars, IInv, ControlInv
  <2> QED
    BY <1>5, <2>1, AsideIInv DEF vars, daemonVars, brokerVars, commandVars, retryVars, IInv,
       MessageInv, Stopping
<1> QED
  BY <1>1, <1>2, <1>3, <1>4, <1>5 DEF Next

\* The worker never leaves the inductive invariant: see the parts of IInv.
THEOREM Invariance == Spec => []IInv
<1> QED
  BY InitIInv, NextIInv, PTL DEF Spec

\* What TypeOK says beyond the invariant are bounds.
LEMMA IInvTypeOK == IInv => TypeOK
<1> SUFFICES ASSUME IInv PROVE TypeOK
  OBVIOUS
<1>1. world \in [Kinds -> 0 .. MaxChanges] /\ retained \in [Kinds -> 0 .. MaxChanges]
      /\ told \in [Kinds -> 0 .. MaxChanges]
  <2>1. /\ world \in States /\ retained \in States /\ told \in States /\ MaxChanges \in Nat
        /\ world["connection"] + world["radio"] <= MaxChanges
        /\ \A k \in Kinds : told[k] <= world[k] /\ retained[k] <= world[k]
    BY MqttAssumption DEF IInv, LogInv, MirrorInv
  <2>2. \A k \in Kinds : world[k] \in 0 .. MaxChanges
    BY <2>1 DEF States, Kinds
  <2>3. \A k \in Kinds : told[k] \in 0 .. MaxChanges /\ retained[k] \in 0 .. MaxChanges
    BY <2>1, <2>2 DEF States
  <2> QED
    BY <2>1, <2>2, <2>3 DEF States
<1>2. feed.open \in BOOLEAN /\ Len(feed.queue) <= QueueCapacity
  BY DEF IInv, FeedInv
<1>3. pc \in {"snapshot", "event"} => out # <<>>
  BY EmptyFacts DEF IInv, MirrorInv, Publishing
<1>4. expected \in 1 .. Len(log) + 1 \cup {None}
  BY DEF IInv, MirrorInv, LogInv
<1>5. context \in [connected : BOOLEAN, radio : 0 .. MaxChanges \cup {None}]
  <2>1. context.radio \in 0 .. MaxChanges \cup {None}
    <3>1. CASE context.radio # None
      <4>1. /\ expected \in 1 .. Len(log) /\ log \in Seq(States)
            /\ context.radio \in log[expected]["radio"] .. world["radio"]
        BY <3>1 DEF IInv, ContextInv, Current, MirrorInv, LogInv
      <4>2. log[expected]["radio"] \in Nat /\ world["radio"] \in 0 .. MaxChanges
        BY <1>1, <4>1 DEF States, Kinds
      <4> QED
        BY <4>1, <4>2, MqttAssumption
    <3> QED
      BY <3>1
  <2> QED
    BY <2>1 DEF IInv, ContextInv
<1>6. attempt \in 0 .. MaxAttempts + 1
  BY MqttAssumption DEF IInv, AttemptInv
<1> QED
  BY <1>1, <1>2, <1>3, <1>4, <1>5, <1>6 DEF TypeOK, IInv, ControlInv, Pcs, CacheInv, MessageInv

LEMMA IInvMirrorSound == IInv => MirrorSound
<1> SUFFICES ASSUME IInv PROVE MirrorSound
  OBVIOUS
<1>1. expected # None => expected \in 1 .. Len(log) /\ log \in Seq(States) /\ world \in States
  BY DEF IInv, MirrorInv, LogInv
<1>2. ASSUME expected # None, NEW k \in Kinds, NEW v, Current(k, v)
      PROVE  log[expected][k] <= v /\ v <= world[k]
  BY <1>1, <1>2 DEF Current, States
<1>3. RetainedOrdered
  BY <1>2 DEF RetainedOrdered, AtRest, IInv, MirrorInv, Resting, Publishing
<1>4. ContextOrdered
  BY <1>2 DEF ContextOrdered, IInv, ContextInv, Kinds
<1>5. AnsweredWasDispatched
  <2>1. CASE message.reply = "response"
    <3>1. executions[message.id] \in Seq(Bodies) /\ Dispatched(message.id, message.body)
      BY <2>1 DEF IInv, MessageInv, CacheInv
    <3>2. DOMAIN executions[message.id] = 1 .. Len(executions[message.id])
      BY <3>1
    <3> QED
      BY <3>1, <3>2 DEF AnsweredWasDispatched, Dispatched
  <2> QED
    BY <2>1 DEF AnsweredWasDispatched
<1> QED
  BY <1>3, <1>4, <1>5, IInvTypeOK DEF MirrorSound, MirrorOrdered

\* MirrorSound for every size of the queue, the cache and the inbox: the retained
\* topics and the context of controls follow the stream, through losses, timeouts,
\* resubscriptions and stops, and a success is answered only for what was dispatched.
THEOREM MirrorFollows == Spec => []MirrorSound
<1> QED
  BY Invariance, IInvMirrorSound, PTL

\* A request that was dispatched is dispatched again only when it has left the cache,
\* and then the invariant counts who was used after it.
LEMMA RepeatStep ==
  ASSUME IInv, Next, NEW r \in Requests, executions'[r] # executions[r], executions[r] # <<>>
  PROVE  Cardinality(since[r]) >= CacheCapacity
<1>1. Handle
  BY DEF Next, Worker, Begin, Connect, PublishOnline, Backoff, Finally, Withdraw, Close, LeaveFailed,
         Subscribe, Check, Get, PublishState, OpenInputs, Answer, Acknowledge, Change, Announce,
         Send, LoseLink, WillFires, Stop, Interrupt, Joined, commandVars
<1>2. executions \in [Requests -> Seq(Bodies)]
  BY DEF IInv, CacheInv
<1>3. executions' # executions
  OBVIOUS
<1>4. /\ Cached(message.id) = {}
      /\ executions' = [executions EXCEPT ![message.id] = Append(@, message.body)]
  BY <1>1, <1>3 DEF Handle
<1>5. r = message.id
  BY <1>2, <1>4
<1> QED
  BY <1>4, <1>5 DEF IInv, CacheInv

\* No redelivery repeats a control while its response can still be cached, whatever
\* times out: NoRepeatWhileCached for every capacity of the cache.
THEOREM NoRepeat == Spec => NoRepeatWhileCached
<1> DEFINE Step == \A r \in Requests :
                     executions'[r] # executions[r] /\ executions[r] # <<>> =>
                       Cardinality(since[r]) >= CacheCapacity
<1>1. IInv /\ [Next]_vars => [Step]_vars
  BY RepeatStep
<1> QED
  BY <1>1, Invariance, PTL DEF Spec, NoRepeatWhileCached

=============================================================================

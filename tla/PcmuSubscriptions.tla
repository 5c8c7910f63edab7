--------------------------- MODULE PcmuSubscriptions ---------------------------
(***************************************************************************)
(* PcmuPublisher and PcmuSubscription (pcmu_subscriptions.py): the ordered *)
(* fan-out of compressed audio packets.  Unlike the event publisher it     *)
(* drops the oldest packet only, starts without a snapshot, and keeps      *)
(* delivery, drop and byte counters that each delivery reports with its    *)
(* packet.  The analysis and waterfall publishers are the same code        *)
(* without the byte counters.                                              *)
(***************************************************************************)
EXTENDS Integers, Sequences, FiniteSets

CONSTANTS
  Subs,             \* identities of the subscription objects
  PayloadSizes,     \* payload lengths of the packets offered
  QueueCapacity,    \* queue_capacity
  MaxSubscribers,   \* max_subscribers
  MaxPayloadBytes,  \* max_payload_bytes
  MaxSequence       \* bound: packets published

ASSUME PcmuAssumption ==
  /\ PayloadSizes \subseteq Nat
  /\ QueueCapacity \in Nat \ {0}
  /\ MaxSubscribers \in Nat \ {0}
  /\ MaxPayloadBytes \in Nat \ {0}
  /\ MaxSequence \in Nat

VARIABLES
  streamSequence,  \* PcmuPublisher._stream_sequence and _packets_published
  bytesPublished,  \* _payload_bytes_published
  closed,          \* _closed
  subscriptions,   \* _subscriptions
  holder,          \* what the thread that owns the publisher lock is doing
  targets,         \* subscriptions it has still to visit
  packet,          \* the publication it is enqueueing
  status,          \* each subscription: "none", "open" or "closed"
  queue,           \* PcmuSubscription._queue
  counts,          \* its packet counters and queue overflows
  bytes,           \* its byte counters
  marks,           \* last sequence numbers delivered and dropped
  joinedAt,        \* streamSequence and bytesPublished when it subscribed
  delivery         \* the last PcmuPacketDelivery its consumer took

publisherVars == <<streamSequence, bytesPublished, closed, subscriptions>>
lockVars == <<holder, targets, packet>>
counterVars == <<counts, bytes, marks>>
vars == <<publisherVars, lockVars, status, queue, counterVars, joinedAt, delivery>>

Packets == [sequence : Nat, bytes : Nat]
Counts == [delivered : Nat, dropped : Nat, overflows : Nat]
Gauges == [queued : Int, delivered : Nat, dropped : Nat]
Marks == [delivered : Nat, dropped : Nat]
Deliveries == [sequence : Nat, dropped : Nat, bytesDropped : Nat, overflows : Nat]

NoCounts == [delivered |-> 0, dropped |-> 0, overflows |-> 0]
NoBytes == [queued |-> 0, delivered |-> 0, dropped |-> 0]
NoMarks == [delivered |-> 0, dropped |-> 0]
NoPacket == [sequence |-> 0, bytes |-> 0]
NoDelivery == [sequence |-> 0, dropped |-> 0, bytesDropped |-> 0, overflows |-> 0]

\* ---------------------------------------------------------------- publisher
Subscribe(s) ==
  /\ holder = "free" /\ ~closed
  /\ status[s] = "none"
  /\ Cardinality(subscriptions) < MaxSubscribers
  /\ subscriptions' = subscriptions \cup {s}
  /\ status' = [status EXCEPT ![s] = "open"]
  /\ joinedAt' = [joinedAt EXCEPT ![s] = [sequence |-> streamSequence, bytes |-> bytesPublished]]
  /\ UNCHANGED <<streamSequence, bytesPublished, closed, lockVars, queue, counterVars, delivery>>

\* publish: a packet over the size limit is refused before the lock is taken.
Publish(size) ==
  /\ holder = "free" /\ ~closed
  /\ size <= MaxPayloadBytes
  /\ streamSequence < MaxSequence
  /\ streamSequence' = streamSequence + 1
  /\ bytesPublished' = bytesPublished + size
  /\ packet' = [sequence |-> streamSequence + 1, bytes |-> size]
  /\ targets' = subscriptions
  /\ holder' = IF subscriptions = {} THEN "free" ELSE "publish"
  /\ UNCHANGED <<closed, subscriptions, status, queue, counterVars, joinedAt, delivery>>

\* The lock is released with the last subscription visited.
Visited(s) ==
  /\ targets' = targets \ {s}
  /\ holder' = IF targets = {s} THEN "free" ELSE holder
  /\ UNCHANGED packet

\* Mutants of the overflow policy: one packet too many, and a loss that only the
\* overflow counter sees.
EnqueueOneTooMany(s) ==
  /\ holder = "publish" /\ s \in targets
  /\ Len(queue[s]) <= QueueCapacity
  /\ Visited(s)
  /\ queue' = [queue EXCEPT ![s] = Append(@, packet)]
  /\ bytes' = [bytes EXCEPT ![s].queued = @ + packet.bytes]
  /\ UNCHANGED <<publisherVars, status, counts, marks, joinedAt, delivery>>

CountOverflow(s) == [counts EXCEPT ![s].overflows = @ + 1]

\* _enqueue.  What the packet at the head of a full queue changes by its loss.
CountLoss(s) == [counts EXCEPT ![s].dropped = @ + 1, ![s].overflows = @ + 1]

BytesAfterLoss(s, lost) ==
  [bytes EXCEPT ![s].queued = @ - lost.bytes + packet.bytes, ![s].dropped = @ + lost.bytes]

EnqueueWithRoom(s) ==
  /\ holder = "publish" /\ s \in targets
  /\ Len(queue[s]) < QueueCapacity
  /\ Visited(s)
  /\ queue' = [queue EXCEPT ![s] = Append(@, packet)]
  /\ bytes' = [bytes EXCEPT ![s].queued = @ + packet.bytes]
  /\ UNCHANGED <<publisherVars, status, counts, marks, joinedAt, delivery>>

EnqueueDropping(s) ==
  /\ holder = "publish" /\ s \in targets
  /\ Len(queue[s]) >= QueueCapacity
  /\ Visited(s)
  /\ LET lost == Head(queue[s]) IN
       /\ counts' = CountLoss(s)
       /\ bytes' = BytesAfterLoss(s, lost)
       /\ marks' = [marks EXCEPT ![s].dropped = lost.sequence]
  /\ queue' = [queue EXCEPT ![s] = Append(Tail(@), packet)]
  /\ UNCHANGED <<publisherVars, status, joinedAt, delivery>>

\* _close_from_publisher: the other counters keep their values.
CloseFromPublisher(s) ==
  /\ status' = [status EXCEPT ![s] = "closed"]
  /\ queue' = [queue EXCEPT ![s] = <<>>]
  /\ bytes' = [bytes EXCEPT ![s].queued = 0]

CloseSubscription(s) ==
  /\ holder = "free" /\ s \in subscriptions
  /\ subscriptions' = subscriptions \ {s}
  /\ CloseFromPublisher(s)
  /\ UNCHANGED <<streamSequence, bytesPublished, closed, lockVars, counts, marks, joinedAt, delivery>>

CloseBegin ==
  /\ holder = "free" /\ ~closed
  /\ closed' = TRUE
  /\ targets' = subscriptions /\ subscriptions' = {}
  /\ holder' = IF subscriptions = {} THEN "free" ELSE "close"
  /\ UNCHANGED <<streamSequence, bytesPublished, packet, status, queue, counterVars,
                 joinedAt, delivery>>

CloseOne(s) ==
  /\ holder = "close" /\ s \in targets
  /\ Visited(s)
  /\ CloseFromPublisher(s)
  /\ UNCHANGED <<publisherVars, counts, marks, joinedAt, delivery>>

\* ----------------------------------------------------------------- consumer
\* get: the counters and the delivery that a packet leaving the queue makes.
\* Mutant: a delivery reports the losses since the last one.
ReportSinceLast(s, head) ==
  [sequence |-> head.sequence, dropped |-> counts[s].dropped - delivery[s].dropped,
   bytesDropped |-> bytes[s].dropped, overflows |-> counts[s].overflows]

Report(s, head) ==
  [sequence |-> head.sequence, dropped |-> counts[s].dropped,
   bytesDropped |-> bytes[s].dropped, overflows |-> counts[s].overflows]

Deliver(s, head) ==
  /\ counts' = [counts EXCEPT ![s].delivered = @ + 1]
  /\ bytes' = [bytes EXCEPT ![s].queued = @ - head.bytes, ![s].delivered = @ + head.bytes]
  /\ marks' = [marks EXCEPT ![s].delivered = head.sequence]
  /\ delivery' = [delivery EXCEPT ![s] = Report(s, head)]
  /\ UNCHANGED <<publisherVars, lockVars, status, joinedAt>>

\* Mutant: the newest packet first.
GetNewest(s) ==
  /\ status[s] = "open" /\ queue[s] # <<>>
  /\ Deliver(s, queue[s][Len(queue[s])])
  /\ queue' = [queue EXCEPT ![s] = SubSeq(@, 1, Len(@) - 1)]

Get(s) ==
  /\ status[s] = "open" /\ queue[s] # <<>>
  /\ Deliver(s, Head(queue[s]))
  /\ queue' = [queue EXCEPT ![s] = Tail(@)]

\* Mutant: a subscription recovers once it is past the loss.
HealthRecovers(s) ==
  IF status[s] = "closed" THEN "closed"
  ELSE IF marks[s].dropped > marks[s].delivered THEN "degraded" ELSE "healthy"

\* The snapshot's health word.
Health(s) ==
  IF status[s] = "closed" THEN "closed"
  ELSE IF counts[s].dropped > 0 THEN "degraded" ELSE "healthy"

\* ------------------------------------------------------------ specification
Init ==
  /\ streamSequence = 0 /\ bytesPublished = 0
  /\ closed = FALSE
  /\ subscriptions = {}
  /\ holder = "free" /\ targets = {} /\ packet = NoPacket
  /\ status = [s \in Subs |-> "none"]
  /\ queue = [s \in Subs |-> <<>>]
  /\ counts = [s \in Subs |-> NoCounts]
  /\ bytes = [s \in Subs |-> NoBytes]
  /\ marks = [s \in Subs |-> NoMarks]
  /\ joinedAt = [s \in Subs |-> NoPacket]
  /\ delivery = [s \in Subs |-> NoDelivery]

Next ==
  \/ \E size \in PayloadSizes : Publish(size)
  \/ CloseBegin
  \/ \E s \in Subs : \/ Subscribe(s) \/ CloseSubscription(s) \/ CloseOne(s)
                     \/ EnqueueWithRoom(s) \/ EnqueueDropping(s) \/ Get(s)

Spec == Init /\ [][Next]_vars

\* --------------------------------------------------------------- properties
Settled(s) == status[s] = "open" /\ s \notin targets

\* Types, and no queue exceeds its capacity.
TypeOK ==
  /\ streamSequence \in Nat /\ bytesPublished \in Nat /\ closed \in BOOLEAN
  /\ subscriptions \in SUBSET Subs /\ targets \in SUBSET Subs
  /\ holder \in {"free", "publish", "close"}
  /\ packet \in Packets
  /\ status \in [Subs -> {"none", "open", "closed"}]
  /\ counts \in [Subs -> Counts] /\ bytes \in [Subs -> Gauges] /\ marks \in [Subs -> Marks]
  /\ joinedAt \in [Subs -> Packets]
  /\ delivery \in [Subs -> Deliveries]
  /\ queue \in [Subs -> Seq(Packets)]
  /\ \A s \in Subs : Len(queue[s]) <= QueueCapacity

\* A subscription's packet counters add up to everything published since it
\* subscribed, even while a publish is visiting the other subscriptions.
PacketsAccounted ==
  \A s \in Subs : Settled(s) =>
    streamSequence - joinedAt[s].sequence =
      counts[s].delivered + counts[s].dropped + Len(queue[s])

\* The number of lost packets a delivery reports is exactly the number missing
\* in front of it: consumers that trust the counter need not count gaps.
DeliveryReportsGap ==
  \A s \in Subs : delivery[s].sequence # 0 =>
    delivery[s].sequence - joinedAt[s].sequence = counts[s].delivered + delivery[s].dropped

\* A healthy subscription has missed nothing: its packets are consecutive from
\* the one after it subscribed to the one published last.
HealthyMeansGapless ==
  \A s \in Subs : Settled(s) /\ Health(s) = "healthy" =>
    \A i \in DOMAIN queue[s] :
      queue[s][i].sequence = joinedAt[s].sequence + counts[s].delivered + i

\* Drop-oldest: a packet is dropped only after every packet before it has been
\* delivered or dropped, so the two high-water marks never go back.
MarksAdvance ==
  [][\A s \in Subs :
       /\ marks'[s].delivered >= marks[s].delivered
       /\ marks'[s].dropped >= marks[s].dropped
       /\ counts'[s].dropped # counts[s].dropped =>
            marks'[s].dropped > marks[s].delivered]_vars

\* The lossy feed this publisher implements.
Feed == INSTANCE LossyFeed WITH
  published <- streamSequence,
  joined <- {s \in Subs : status[s] # "none"},
  left <- {s \in Subs : status[s] = "closed"},
  cursor <- [s \in Subs |-> IF delivery[s].sequence = 0 THEN joinedAt[s].sequence
                            ELSE delivery[s].sequence]

\* Packets reach a consumer at most once, in order, and never after the close.
FeedSpec == Feed!FeedSpec

=============================================================================

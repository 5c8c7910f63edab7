--------------------------- MODULE PcmuService_proof ---------------------------
(***************************************************************************)
(* Proofs about PcmuService, for any numbers of subscriptions, clients and *)
(* faults and any capacities: the publisher inside the service is the one  *)
(* of PcmuSubscriptions, so that everything proved of it holds here, and a *)
(* client never refuses a frame and can explain every packet.              *)
(*                                                                         *)
(* The invariant numbers the deliveries of the connected subscription.     *)
(* The client has consumed the first ones, the next are in the socket's    *)
(* buffers, and the worker may have one in hand; the i-th delivery lies as *)
(* far behind the point of subscription as i and the drops it reports, and *)
(* the loss counters never go back along this line.                        *)
(***************************************************************************)
EXTENDS PcmuService, TLAPS

(***************************************************************************)
(* The publisher, PcmuSubscriptions: its types, the packet accounting, the *)
(* gap reports, the health word, the order of drops and deliveries, and    *)
(* that it implements the lossy feed.                                      *)
(*                                                                         *)
(* The argument rests on one fact about queues: whatever has been dropped  *)
(* or taken, an open subscription's queue holds the last Len(queue)        *)
(* packets offered to it, consecutive.  What was offered is everything     *)
(* published, except that a publish under way has not reached the          *)
(* subscriptions it has still to visit.                                    *)
(***************************************************************************)

Pending(s) == IF holder = "publish" /\ s \in targets THEN 1 ELSE 0

\* Number of the last packet offered to s, and of the last one that is no
\* longer in its queue.
Offered(s) == streamSequence - Pending(s)
Passed(s) == Offered(s) - Len(queue[s])

\* What the publisher lock protects.
LockInv ==
  /\ holder = "free" => targets = {}
  /\ holder = "publish" => targets \subseteq subscriptions /\ packet.sequence = streamSequence
  /\ closed => subscriptions = {} /\ holder # "publish"
  /\ \A s \in subscriptions : status[s] = "open"
  /\ holder = "close" => closed /\ \A s \in targets : status[s] = "open"
  /\ \A s \in Subs : status[s] = "open" =>
       s \in subscriptions \/ (holder = "close" /\ s \in targets)

\* A subscription that was never opened has no history.
NewInv ==
  \A s \in Subs : status[s] = "none" =>
    counts[s] = NoCounts /\ marks[s] = NoMarks /\ delivery[s] = NoDelivery /\ queue[s] = <<>>

QueueInv ==
  \A s \in Subs : status[s] = "open" =>
    /\ \A i \in 1 .. Len(queue[s]) : queue[s][i].sequence = Passed(s) + i
    /\ Passed(s) = joinedAt[s].sequence + counts[s].delivered + counts[s].dropped

\* Nothing at or beyond the head of the queue was delivered or dropped.
MarkInv ==
  \A s \in Subs : status[s] = "open" =>
    /\ marks[s].delivered <= Passed(s)
    /\ marks[s].dropped <= Passed(s)
    /\ delivery[s].sequence <= Passed(s)

IInv ==
  /\ TypeOK /\ LockInv /\ NewInv /\ QueueInv /\ MarkInv
  /\ DeliveryReportsGap

\* ------------------------------------------------------------ sequence lemmas
\* What taking the head of a queue leaves.
LEMMA TailFacts ==
  ASSUME NEW q \in Seq(Packets), q # <<>>
  PROVE  /\ Head(q) \in Packets /\ Head(q) = q[1]
         /\ Tail(q) \in Seq(Packets)
         /\ Len(q) \in Nat /\ Len(q) >= 1
         /\ Len(Tail(q)) = Len(q) - 1
         /\ \A i \in 1 .. Len(q) - 1 : Tail(q)[i] = q[i + 1]
  OBVIOUS

\* What appending a packet yields.
LEMMA AppendFacts ==
  ASSUME NEW q \in Seq(Packets), NEW p \in Packets
  PROVE  /\ Append(q, p) \in Seq(Packets)
         /\ Len(q) \in Nat
         /\ Len(Append(q, p)) = Len(q) + 1
         /\ \A i \in 1 .. Len(q) : Append(q, p)[i] = q[i]
         /\ Append(q, p)[Len(q) + 1] = p
  OBVIOUS

LEMMA EmptyFacts == /\ <<>> \in Seq(Packets) /\ Len(<<>>) = 0
                    /\ \A q \in Seq(Packets) : Len(q) \in Nat /\ (Len(q) = 0 <=> q = <<>>)
  OBVIOUS

\* The records after each of the operations that change them.
LEMMA CountFields ==
  ASSUME NEW c \in Counts
  PROVE  c.delivered \in Nat /\ c.dropped \in Nat /\ c.overflows \in Nat
  BY DEF Counts

LEMMA LossCounts ==
  ASSUME NEW c \in Counts, NEW d \in Nat, NEW f \in Nat
  PROVE  /\ [c EXCEPT !.dropped = d, !.overflows = f].delivered = c.delivered
         /\ [c EXCEPT !.dropped = d, !.overflows = f].dropped = d
         /\ [c EXCEPT !.dropped = d, !.overflows = f] \in Counts
  BY DEF Counts

LEMMA DeliveredCounts ==
  ASSUME NEW c \in Counts, NEW d \in Nat
  PROVE  /\ [c EXCEPT !.delivered = d].delivered = d
         /\ [c EXCEPT !.delivered = d].dropped = c.dropped
         /\ [c EXCEPT !.delivered = d] \in Counts
  BY DEF Counts

LEMMA LossMarks ==
  ASSUME NEW m \in Marks, NEW n \in Nat
  PROVE  /\ [m EXCEPT !.dropped = n].delivered = m.delivered
         /\ [m EXCEPT !.dropped = n].dropped = n
         /\ [m EXCEPT !.dropped = n] \in Marks
  BY DEF Marks

LEMMA DeliveredMarks ==
  ASSUME NEW m \in Marks, NEW n \in Nat
  PROVE  /\ [m EXCEPT !.delivered = n].delivered = n
         /\ [m EXCEPT !.delivered = n].dropped = m.dropped
         /\ [m EXCEPT !.delivered = n] \in Marks
  BY DEF Marks

LEMMA GaugeTypes ==
  ASSUME NEW b \in Gauges
  PROVE  b.queued \in Int /\ b.delivered \in Nat /\ b.dropped \in Nat
  BY DEF Gauges

LEMMA GaugeFacts ==
  ASSUME NEW b \in Gauges, NEW n \in Int, NEW k \in Nat
  PROVE  /\ [b EXCEPT !.queued = n] \in Gauges
         /\ [b EXCEPT !.queued = n, !.delivered = k] \in Gauges
         /\ [b EXCEPT !.queued = n, !.dropped = k] \in Gauges
<1>1. [b EXCEPT !.queued = n] \in Gauges
  BY DEF Gauges
<1>2. [b EXCEPT !.queued = n, !.delivered = k] \in Gauges
  BY DEF Gauges
<1>3. [b EXCEPT !.queued = n, !.dropped = k] \in Gauges
  BY DEF Gauges
<1> QED
  BY <1>1, <1>2, <1>3

LEMMA PacketFacts ==
  ASSUME NEW p \in Packets PROVE p.sequence \in Nat /\ p.bytes \in Nat
  BY DEF Packets

\* ------------------------------------------------------------ initial states
LEMMA InitIInv == Init => IInv
<1> SUFFICES ASSUME Init PROVE IInv
  OBVIOUS
<1> USE DEF Init
<1>1. TypeOK
  <2>1. /\ NoPacket \in Packets /\ NoCounts \in Counts /\ NoBytes \in Gauges
        /\ NoMarks \in Marks /\ NoDelivery \in Deliveries
    BY DEF NoPacket, NoCounts, NoBytes, NoMarks, NoDelivery, Packets, Counts, Gauges, Marks,
           Deliveries
  <2>2. queue \in [Subs -> Seq(Packets)] /\ \A s \in Subs : Len(queue[s]) <= QueueCapacity
    BY PcmuAssumption, EmptyFacts
  <2> QED
    BY <2>1, <2>2 DEF TypeOK
<1> USE DEF NoPacket, NoCounts, NoMarks, NoDelivery
<1>2. LockInv /\ NewInv /\ QueueInv /\ MarkInv /\ DeliveryReportsGap
  BY DEF LockInv, NewInv, QueueInv, MarkInv, DeliveryReportsGap
<1> QED
  BY <1>1, <1>2 DEF IInv

\* ----------------------------------------------------- one lemma per action
LEMMA SubscribeIInv ==
  ASSUME IInv, NEW s \in Subs, Subscribe(s) PROVE IInv'
<1> USE DEF IInv, Subscribe, publisherVars, lockVars, counterVars
<1>1. TypeOK'
  BY DEF TypeOK, Packets
<1>2. LockInv'
  BY DEF LockInv, TypeOK
<1>3. NewInv'
  BY DEF NewInv, TypeOK
<1>4. QueueInv' /\ MarkInv' /\ DeliveryReportsGap'
  <2> SUFFICES ASSUME NEW t \in Subs
               PROVE /\ status'[t] = "open" =>
                          /\ \A i \in 1 .. Len(queue[t]) : queue[t][i].sequence = Passed(t)' + i
                          /\ Passed(t)' = joinedAt'[t].sequence + counts[t].delivered
                                            + counts[t].dropped
                          /\ marks[t].delivered <= Passed(t)'
                          /\ marks[t].dropped <= Passed(t)'
                          /\ delivery[t].sequence <= Passed(t)'
                     /\ delivery[t].sequence # 0 =>
                          delivery[t].sequence - joinedAt'[t].sequence
                            = counts[t].delivered + delivery[t].dropped
    BY DEF QueueInv, MarkInv, DeliveryReportsGap
  <2>1. Passed(t)' = Passed(t)
    BY DEF Passed, Offered, Pending
  <2>2. CASE t = s
    <3>1. /\ counts[s].delivered = 0 /\ counts[s].dropped = 0 /\ queue[s] = <<>>
          /\ marks[s].delivered = 0 /\ marks[s].dropped = 0 /\ delivery[s].sequence = 0
      BY DEF NewInv, NoCounts, NoMarks, NoDelivery
    <3>2. Passed(s) = streamSequence /\ joinedAt'[s].sequence = streamSequence
      BY <3>1, EmptyFacts DEF Passed, Offered, Pending, TypeOK
    <3>3. streamSequence \in Nat
      BY DEF TypeOK
    <3> QED
      BY <2>1, <2>2, <3>1, <3>2, <3>3, EmptyFacts
  <2>3. CASE t # s
    BY <2>1, <2>3 DEF QueueInv, MarkInv, DeliveryReportsGap, TypeOK
  <2> QED
    BY <2>2, <2>3
<1> QED
  BY <1>1, <1>2, <1>3, <1>4

LEMMA PublishIInv ==
  ASSUME IInv, NEW size \in PayloadSizes, Publish(size) PROVE IInv'
<1> USE DEF IInv, Publish, counterVars
<1>1. TypeOK'
  BY PcmuAssumption DEF TypeOK, Packets
<1>2. LockInv'
  BY DEF LockInv, TypeOK
<1>3. NewInv' /\ DeliveryReportsGap'
  BY DEF NewInv, DeliveryReportsGap
<1>4. ASSUME NEW s \in Subs, status[s] = "open" PROVE Passed(s)' = Passed(s)
  BY <1>4 DEF Passed, Offered, Pending, LockInv, TypeOK
<1>5. QueueInv' /\ MarkInv'
  BY <1>4 DEF QueueInv, MarkInv
<1> QED
  BY <1>1, <1>2, <1>3, <1>5

\* Both enqueue actions: s is an open subscription the packet was not offered to.
LEMMA TargetFacts ==
  ASSUME IInv, NEW s \in Subs, holder = "publish", s \in targets
  PROVE  /\ status[s] = "open"
         /\ packet \in Packets /\ packet.sequence = Offered(s) + 1
         /\ queue[s] \in Seq(Packets)
  BY DEF IInv, TypeOK, LockInv, Offered, Pending, Packets

\* What visiting s does to the positions: s catches up by one, no other moves.
LEMMA VisitedFacts ==
  ASSUME IInv, NEW s \in Subs, holder = "publish", s \in targets, Visited(s),
         UNCHANGED streamSequence
  PROVE  /\ Offered(s)' = Offered(s) + 1
         /\ \A t \in Subs : t # s => Offered(t)' = Offered(t)
         /\ Offered(s) \in Int
  BY DEF IInv, TypeOK, LockInv, Offered, Pending, Visited

LEMMA EnqueueWithRoomIInv ==
  ASSUME IInv, NEW s \in Subs, EnqueueWithRoom(s) PROVE IInv'
<1> USE DEF IInv, EnqueueWithRoom, publisherVars
<1>1. /\ status[s] = "open" /\ packet \in Packets /\ packet.sequence = Offered(s) + 1
      /\ queue[s] \in Seq(Packets)
  BY TargetFacts
<1>2. /\ queue'[s] = Append(queue[s], packet)
      /\ \A t \in Subs : t # s => queue'[t] = queue[t]
  BY DEF TypeOK
<1>3. TypeOK'
  <2>1. bytes' \in [Subs -> Gauges]
    <3>1. bytes[s] \in Gauges
      BY DEF TypeOK
    <3>2. bytes[s].queued + packet.bytes \in Int
      BY <1>1, <3>1, PacketFacts, GaugeTypes
    <3> QED
      BY <3>1, <3>2, GaugeFacts DEF TypeOK
  <2>2. queue' \in [Subs -> Seq(Packets)] /\ \A t \in Subs : Len(queue'[t]) <= QueueCapacity
    <3>1. queue'[s] \in Seq(Packets) /\ Len(queue'[s]) <= QueueCapacity
      BY <1>1, <1>2, AppendFacts, PcmuAssumption
    <3> QED
      BY <1>2, <3>1 DEF TypeOK
  <2> QED
    BY <2>1, <2>2 DEF TypeOK, Visited
<1>4. LockInv'
  BY DEF LockInv, TypeOK, Visited
<1>5. NewInv' /\ DeliveryReportsGap'
  BY <1>1, <1>2 DEF NewInv, DeliveryReportsGap
<1>6. \A t \in Subs : Passed(t)' = Passed(t)
  BY <1>1, <1>2, VisitedFacts, AppendFacts DEF Passed
<1>7. \A t \in Subs : status[t] = "open" =>
        \A i \in 1 .. Len(queue'[t]) : queue'[t][i].sequence = Passed(t) + i
  <2> SUFFICES ASSUME NEW t \in Subs, status[t] = "open", NEW i \in 1 .. Len(queue'[t])
               PROVE  queue'[t][i].sequence = Passed(t) + i
    OBVIOUS
  <2>1. CASE t # s
    BY <1>2, <2>1 DEF QueueInv
  <2>2. CASE t = s
    <3>1. \A j \in 1 .. Len(queue[s]) : queue[s][j].sequence = Passed(s) + j
      BY <1>1 DEF QueueInv
    <3>2. packet.sequence = Passed(s) + (Len(queue[s]) + 1)
      BY <1>1, VisitedFacts, EmptyFacts DEF Passed
    <3>3. i \in 1 .. Len(queue[s]) \/ i = Len(queue[s]) + 1
      BY <1>1, <1>2, <2>2, AppendFacts
    <3> QED
      BY <1>1, <1>2, <2>2, <3>1, <3>2, <3>3, AppendFacts
  <2> QED
    BY <2>1, <2>2
<1>8. QueueInv' /\ MarkInv'
  BY <1>6, <1>7 DEF QueueInv, MarkInv
<1> QED
  BY <1>3, <1>4, <1>5, <1>8

\* What an enqueue into a full queue drops: the packet behind what has passed.
LEMMA LossFacts ==
  ASSUME IInv, NEW s \in Subs, EnqueueDropping(s)
  PROVE  /\ Head(queue[s]) \in Packets /\ Head(queue[s]).sequence = Passed(s) + 1
         /\ Tail(queue[s]) \in Seq(Packets)
         /\ Len(queue[s]) \in Nat /\ Len(queue[s]) >= 1
         /\ Len(Tail(queue[s])) = Len(queue[s]) - 1
         /\ \A i \in 1 .. Len(queue[s]) - 1 : Tail(queue[s])[i].sequence = Passed(s) + 1 + i
         /\ Passed(s) \in Int
<1> USE DEF IInv, EnqueueDropping
<1>1. status[s] = "open" /\ queue[s] \in Seq(Packets)
  BY TargetFacts
<1>2. queue[s] # <<>>
  BY PcmuAssumption, EmptyFacts
<1>3. /\ Head(queue[s]) = queue[s][1] /\ Head(queue[s]) \in Packets
      /\ Tail(queue[s]) \in Seq(Packets)
      /\ Len(queue[s]) \in Nat /\ Len(queue[s]) >= 1
      /\ Len(Tail(queue[s])) = Len(queue[s]) - 1
      /\ \A i \in 1 .. Len(queue[s]) - 1 : Tail(queue[s])[i] = queue[s][i + 1]
  BY <1>1, <1>2, TailFacts
<1>4. \A i \in 1 .. Len(queue[s]) : queue[s][i].sequence = Passed(s) + i
  BY <1>1 DEF QueueInv
<1>5. Passed(s) \in Int
  BY <1>3 DEF Passed, Offered, Pending, TypeOK
<1>6. \A i \in 1 .. Len(queue[s]) - 1 : Tail(queue[s])[i].sequence = Passed(s) + 1 + i
  <2> SUFFICES ASSUME NEW i \in 1 .. Len(queue[s]) - 1
               PROVE  Tail(queue[s])[i].sequence = Passed(s) + 1 + i
    OBVIOUS
  <2>1. i + 1 \in 1 .. Len(queue[s])
    BY <1>3
  <2>2. queue[s][i + 1].sequence = Passed(s) + (i + 1)
    BY <1>4, <2>1
  <2> QED
    BY <1>3, <1>5, <2>2
<1> QED
  BY <1>3, <1>4, <1>5, <1>6

LEMMA EnqueueDroppingIInv ==
  ASSUME IInv, NEW s \in Subs, EnqueueDropping(s) PROVE IInv'
<1> USE DEF IInv, EnqueueDropping, publisherVars
<1> DEFINE lost == Head(queue[s])
<1>1. /\ status[s] = "open" /\ packet \in Packets /\ packet.sequence = Offered(s) + 1
      /\ queue[s] \in Seq(Packets)
  BY TargetFacts
<1>2. /\ lost \in Packets /\ lost.sequence = Passed(s) + 1
      /\ Tail(queue[s]) \in Seq(Packets)
      /\ Len(queue[s]) \in Nat /\ Len(queue[s]) >= 1
      /\ Len(Tail(queue[s])) = Len(queue[s]) - 1
      /\ \A i \in 1 .. Len(queue[s]) - 1 : Tail(queue[s])[i].sequence = Passed(s) + 1 + i
      /\ Passed(s) \in Int
  BY LossFacts
<1>3. /\ queue'[s] = Append(Tail(queue[s]), packet)
      /\ \A t \in Subs : t # s => /\ queue'[t] = queue[t] /\ counts'[t] = counts[t]
                                  /\ marks'[t] = marks[t]
  BY DEF TypeOK, CountLoss
<1>4. /\ counts'[s].delivered = counts[s].delivered
      /\ counts'[s].dropped = counts[s].dropped + 1
      /\ marks'[s].delivered = marks[s].delivered /\ marks'[s].dropped = lost.sequence
      /\ counts' \in [Subs -> Counts] /\ marks' \in [Subs -> Marks]
  <2>1. counts[s] \in Counts /\ marks[s] \in Marks /\ lost.sequence \in Nat
    BY <1>2, PacketFacts DEF TypeOK
  <2>2. counts[s].dropped + 1 \in Nat /\ counts[s].overflows + 1 \in Nat
    BY <2>1, CountFields
  <2>3. /\ counts'[s] = [counts[s] EXCEPT !.dropped = @ + 1, !.overflows = @ + 1]
        /\ marks'[s] = [marks[s] EXCEPT !.dropped = lost.sequence]
        /\ counts' = [counts EXCEPT ![s] = counts'[s]] /\ marks' = [marks EXCEPT ![s] = marks'[s]]
    BY DEF TypeOK, CountLoss
  <2>4. /\ counts'[s].delivered = counts[s].delivered
        /\ counts'[s].dropped = counts[s].dropped + 1 /\ counts'[s] \in Counts
    <3> HIDE DEF IInv, EnqueueDropping, lost
    <3>1. /\ [counts[s] EXCEPT !.dropped = @ + 1, !.overflows = @ + 1].delivered
               = counts[s].delivered
          /\ [counts[s] EXCEPT !.dropped = @ + 1, !.overflows = @ + 1].dropped
               = counts[s].dropped + 1
          /\ [counts[s] EXCEPT !.dropped = @ + 1, !.overflows = @ + 1] \in Counts
      BY <2>1, <2>2, LossCounts
    <3> QED
      BY <2>3, <3>1
  <2>5. /\ marks'[s].delivered = marks[s].delivered /\ marks'[s].dropped = lost.sequence
        /\ marks'[s] \in Marks
    <3> HIDE DEF IInv, EnqueueDropping, lost
    <3> QED
      BY <2>1, <2>3, LossMarks
  <2> QED
    BY <2>3, <2>4, <2>5 DEF TypeOK
<1>5. /\ queue'[s] \in Seq(Packets) /\ Len(queue'[s]) = Len(queue[s])
      /\ \A i \in 1 .. Len(queue[s]) - 1 : queue'[s][i] = Tail(queue[s])[i]
      /\ queue'[s][Len(queue[s])] = packet
  BY <1>1, <1>2, <1>3, AppendFacts
<1>6. TypeOK'
  <2>1. bytes' \in [Subs -> Gauges]
    <3>1. bytes[s] \in Gauges /\ lost.bytes \in Nat /\ packet.bytes \in Nat
      BY <1>1, <1>2, PacketFacts DEF TypeOK
    <3>2. /\ bytes[s].queued - lost.bytes + packet.bytes \in Int
          /\ bytes[s].dropped + lost.bytes \in Nat
      BY <3>1, GaugeTypes
    <3>3. [bytes[s] EXCEPT !.queued = @ - lost.bytes + packet.bytes, !.dropped = @ + lost.bytes]
            \in Gauges
      BY <3>1, <3>2, GaugeFacts
    <3> QED
      BY <3>3 DEF TypeOK, BytesAfterLoss
  <2>2. queue' \in [Subs -> Seq(Packets)] /\ \A t \in Subs : Len(queue'[t]) <= QueueCapacity
    BY <1>3, <1>5 DEF TypeOK
  <2> QED
    BY <1>4, <2>1, <2>2 DEF TypeOK, Visited
<1>7. LockInv'
  BY DEF LockInv, TypeOK, Visited
<1>8. NewInv' /\ DeliveryReportsGap'
  <2>1. NewInv'
    BY <1>1, <1>3 DEF NewInv
  <2>2. \A t \in Subs : counts'[t].delivered = counts[t].delivered
    <3>1. counts'[s].delivered = counts[s].delivered
      BY <1>4
    <3> QED
      BY <1>3, <3>1
  <2> QED
    BY <2>1, <2>2 DEF DeliveryReportsGap
<1>9. Passed(s)' = Passed(s) + 1 /\ \A t \in Subs : t # s => Passed(t)' = Passed(t)
  BY <1>2, <1>3, <1>5, VisitedFacts DEF Passed
<1>10. \A i \in 1 .. Len(queue'[s]) : queue'[s][i].sequence = Passed(s) + 1 + i
  <2>1. packet.sequence = Passed(s) + 1 + Len(queue[s])
    BY <1>1, <1>2, VisitedFacts DEF Passed
  <2>2. \A i \in 1 .. Len(queue'[s]) : i \in 1 .. Len(queue[s]) - 1 \/ i = Len(queue[s])
    BY <1>2, <1>5
  <2> QED
    BY <1>2, <1>5, <2>1, <2>2
<1>11. QueueInv' /\ MarkInv'
  <2> SUFFICES ASSUME NEW t \in Subs, status[t] = "open"
               PROVE /\ \A i \in 1 .. Len(queue'[t]) : queue'[t][i].sequence = Passed(t)' + i
                     /\ Passed(t)' = joinedAt[t].sequence + counts'[t].delivered
                                       + counts'[t].dropped
                     /\ marks'[t].delivered <= Passed(t)'
                     /\ marks'[t].dropped <= Passed(t)'
                     /\ delivery[t].sequence <= Passed(t)'
    BY DEF QueueInv, MarkInv
  <2>1. CASE t # s
    BY <1>3, <1>9, <2>1 DEF QueueInv, MarkInv
  <2>2. CASE t = s
    <3>1. /\ Passed(s) = joinedAt[s].sequence + counts[s].delivered + counts[s].dropped
          /\ marks[s].delivered <= Passed(s) /\ delivery[s].sequence <= Passed(s)
      BY <1>1 DEF QueueInv, MarkInv
    <3>2. counts[s].delivered \in Nat /\ counts[s].dropped \in Nat /\ marks[s].delivered \in Nat
      BY DEF TypeOK, Counts, Marks
    <3>3. joinedAt[s].sequence \in Nat /\ delivery[s].sequence \in Nat
      BY DEF TypeOK, Packets, Deliveries
    <3>4. /\ counts'[s].delivered = counts[s].delivered
          /\ counts'[s].dropped = counts[s].dropped + 1
          /\ marks'[s].delivered = marks[s].delivered /\ marks'[s].dropped = Passed(s) + 1
      BY <1>2, <1>4
    <3>5. Passed(s) \in Int /\ Passed(s)' = Passed(s) + 1
      BY <1>2, <1>9
    <3> HIDE DEF IInv, EnqueueDropping
    <3>6. Passed(s)' = joinedAt[s].sequence + counts'[s].delivered + counts'[s].dropped
      BY <3>1, <3>2, <3>3, <3>4, <3>5
    <3>7. /\ marks'[s].delivered <= Passed(s)' /\ marks'[s].dropped <= Passed(s)'
          /\ delivery[s].sequence <= Passed(s)'
      BY <3>1, <3>2, <3>3, <3>4, <3>5
    <3> QED
      BY <1>10, <2>2, <3>5, <3>6, <3>7
  <2> QED
    BY <2>1, <2>2
<1> QED
  BY <1>6, <1>7, <1>8, <1>11

\* A closed subscription keeps its counters but for the gauge.
LEMMA CloseFromPublisherIInv ==
  ASSUME IInv, NEW s \in Subs, status[s] = "open", CloseFromPublisher(s), LockInv',
         targets' \in SUBSET Subs, holder' \in {"free", "publish", "close"},
         closed' \in BOOLEAN, subscriptions' \in SUBSET Subs,
         \A t \in Subs : t # s => Pending(t)' = Pending(t),
         UNCHANGED <<streamSequence, bytesPublished, packet, counts, marks, joinedAt, delivery>>
  PROVE  IInv'
<1> USE DEF IInv, CloseFromPublisher
<1>1. /\ status'[s] = "closed" /\ queue'[s] = <<>>
      /\ \A t \in Subs : t # s => status'[t] = status[t] /\ queue'[t] = queue[t]
  BY DEF TypeOK
<1>2. TypeOK'
  <2>1. bytes' \in [Subs -> Gauges]
    <3>1. bytes[s] \in Gauges
      BY DEF TypeOK
    <3>2. [bytes[s] EXCEPT !.queued = 0] \in Gauges
      BY <3>1 DEF Gauges
    <3> QED
      BY <3>2 DEF TypeOK
  <2>2. queue' \in [Subs -> Seq(Packets)] /\ \A t \in Subs : Len(queue'[t]) <= QueueCapacity
    BY <1>1, EmptyFacts, PcmuAssumption DEF TypeOK
  <2> QED
    BY <2>1, <2>2 DEF TypeOK
<1>3. \A t \in Subs : t # s => Passed(t)' = Passed(t)
  BY <1>1 DEF Passed, Offered
<1>4. NewInv' /\ QueueInv' /\ MarkInv' /\ DeliveryReportsGap'
  BY <1>1, <1>3 DEF NewInv, QueueInv, MarkInv, DeliveryReportsGap
<1> QED
  BY <1>2, <1>4

LEMMA CloseSubscriptionIInv ==
  ASSUME IInv, NEW s \in Subs, CloseSubscription(s) PROVE IInv'
<1> USE DEF CloseSubscription, lockVars
<1>1. status[s] = "open" /\ \A t \in Subs : Pending(t)' = Pending(t)
  BY DEF IInv, LockInv, Pending
<1>2. LockInv'
  BY DEF IInv, LockInv, TypeOK, CloseFromPublisher
<1>3. targets' \in SUBSET Subs /\ subscriptions' \in SUBSET Subs /\ closed' \in BOOLEAN
      /\ holder' \in {"free", "publish", "close"}
  BY DEF IInv, TypeOK
<1> QED
  BY <1>1, <1>2, <1>3, CloseFromPublisherIInv

LEMMA CloseOneIInv ==
  ASSUME IInv, NEW s \in Subs, CloseOne(s) PROVE IInv'
<1> USE DEF CloseOne, Visited, publisherVars
<1>1. status[s] = "open" /\ \A t \in Subs : Pending(t)' = Pending(t)
  BY DEF IInv, LockInv, Pending
<1>2. LockInv'
  BY DEF IInv, LockInv, TypeOK, CloseFromPublisher
<1>3. targets' \in SUBSET Subs /\ subscriptions' \in SUBSET Subs /\ closed' \in BOOLEAN
      /\ holder' \in {"free", "publish", "close"}
  BY DEF IInv, TypeOK
<1> QED
  BY <1>1, <1>2, <1>3, CloseFromPublisherIInv

LEMMA CloseBeginIInv ==
  ASSUME IInv, CloseBegin PROVE IInv'
<1> USE DEF IInv, CloseBegin, counterVars
<1>1. TypeOK'
  BY DEF TypeOK
<1>2. LockInv'
  BY DEF LockInv, TypeOK
<1>3. \A t \in Subs : Passed(t)' = Passed(t)
  BY DEF Passed, Offered, Pending
<1>4. NewInv' /\ QueueInv' /\ MarkInv' /\ DeliveryReportsGap'
  BY <1>3 DEF NewInv, QueueInv, MarkInv, DeliveryReportsGap
<1> QED
  BY <1>1, <1>2, <1>4

\* What a get takes: the packet behind everything that has passed the queue.
LEMMA GetFacts ==
  ASSUME IInv, NEW s \in Subs, Get(s)
  PROVE  /\ Head(queue[s]) \in Packets /\ Head(queue[s]).sequence = Passed(s) + 1
         /\ Passed(s) + 1 <= streamSequence /\ Passed(s) \in Int
         /\ queue'[s] \in Seq(Packets)
         /\ Len(queue[s]) \in Nat /\ Len(queue'[s]) = Len(queue[s]) - 1
         /\ \A i \in 1 .. Len(queue'[s]) : queue'[s][i].sequence = Passed(s) + 1 + i
         /\ Passed(s) = joinedAt[s].sequence + counts[s].delivered + counts[s].dropped
         /\ marks[s].dropped <= Passed(s) /\ marks[s].delivered <= Passed(s)
         /\ delivery[s].sequence <= Passed(s)
<1> USE DEF IInv, Get
<1>1. /\ Head(queue[s]) = queue[s][1] /\ Head(queue[s]) \in Packets
      /\ queue'[s] = Tail(queue[s]) /\ queue'[s] \in Seq(Packets)
      /\ Len(queue[s]) \in Nat /\ Len(queue[s]) >= 1
      /\ Len(queue'[s]) = Len(queue[s]) - 1
      /\ \A i \in 1 .. Len(queue[s]) - 1 : queue'[s][i] = queue[s][i + 1]
  BY TailFacts DEF TypeOK
<1>2. \A i \in 1 .. Len(queue[s]) : queue[s][i].sequence = Passed(s) + i
  BY DEF QueueInv
<1>3. Passed(s) \in Int /\ Passed(s) + 1 <= streamSequence
  BY <1>1 DEF Passed, Offered, Pending, TypeOK
<1>4. \A i \in 1 .. Len(queue'[s]) : queue'[s][i].sequence = Passed(s) + 1 + i
  <2> SUFFICES ASSUME NEW i \in 1 .. Len(queue[s]) - 1
               PROVE  queue'[s][i].sequence = Passed(s) + 1 + i
    BY <1>1
  <2>1. i + 1 \in 1 .. Len(queue[s])
    BY <1>1
  <2>2. queue[s][i + 1].sequence = Passed(s) + (i + 1)
    BY <1>2, <2>1
  <2> QED
    BY <1>1, <1>3, <2>2
<1> QED
  BY <1>1, <1>2, <1>3, <1>4 DEF QueueInv, MarkInv

\* What a get changes.
LEMMA DeliverFacts ==
  ASSUME IInv, NEW s \in Subs, Get(s)
  PROVE  /\ \A t \in Subs : t # s => /\ queue'[t] = queue[t] /\ counts'[t] = counts[t]
                                     /\ marks'[t] = marks[t] /\ delivery'[t] = delivery[t]
         /\ counts'[s].delivered = counts[s].delivered + 1
         /\ counts'[s].dropped = counts[s].dropped
         /\ marks'[s].delivered = Head(queue[s]).sequence
         /\ marks'[s].dropped = marks[s].dropped
         /\ delivery'[s].sequence = Head(queue[s]).sequence
         /\ delivery'[s].dropped = counts[s].dropped
         /\ counts' \in [Subs -> Counts] /\ marks' \in [Subs -> Marks]
         /\ bytes' \in [Subs -> Gauges] /\ delivery' \in [Subs -> Deliveries]
<1> USE DEF IInv, Get, Deliver
<1>1. /\ counts[s] \in Counts /\ marks[s] \in Marks /\ bytes[s] \in Gauges
      /\ Head(queue[s]).sequence \in Nat /\ Head(queue[s]).bytes \in Nat
  BY GetFacts, PacketFacts DEF TypeOK
<1>2. /\ counts'[s] = [counts[s] EXCEPT !.delivered = @ + 1]
      /\ marks'[s] = [marks[s] EXCEPT !.delivered = Head(queue[s]).sequence]
      /\ delivery'[s] = Report(s, Head(queue[s]))
      /\ \A t \in Subs : t # s => /\ queue'[t] = queue[t] /\ counts'[t] = counts[t]
                                  /\ marks'[t] = marks[t] /\ delivery'[t] = delivery[t]
  BY DEF TypeOK
<1>3. /\ counts'[s].delivered = counts[s].delivered + 1
      /\ counts'[s].dropped = counts[s].dropped /\ counts'[s] \in Counts
  <2>1. counts[s].delivered + 1 \in Nat
    BY <1>1, CountFields
  <2> HIDE DEF IInv, Get, Deliver
  <2> QED
    BY <1>1, <1>2, <2>1, DeliveredCounts
<1>8. /\ marks'[s].delivered = Head(queue[s]).sequence /\ marks'[s].dropped = marks[s].dropped
      /\ marks'[s] \in Marks
  <2> HIDE DEF IInv, Get, Deliver
  <2> QED
    BY <1>1, <1>2, DeliveredMarks
<1>4. bytes' \in [Subs -> Gauges]
  <2>1. /\ bytes[s].queued - Head(queue[s]).bytes \in Int
        /\ bytes[s].delivered + Head(queue[s]).bytes \in Nat
    BY <1>1, GaugeTypes
  <2>2. [bytes[s] EXCEPT !.queued = @ - Head(queue[s]).bytes,
                         !.delivered = @ + Head(queue[s]).bytes] \in Gauges
    BY <1>1, <2>1, GaugeFacts
  <2> QED
    BY <2>2 DEF TypeOK
<1>5. Report(s, Head(queue[s])) \in Deliveries
  <2>1. counts[s].dropped \in Nat /\ bytes[s].dropped \in Nat /\ counts[s].overflows \in Nat
    BY <1>1, CountFields, GaugeTypes
  <2> QED
    BY <1>1, <2>1 DEF Report, Deliveries
<1>6. /\ counts' \in [Subs -> Counts] /\ marks' \in [Subs -> Marks]
      /\ delivery' \in [Subs -> Deliveries]
  BY <1>2, <1>3, <1>5, <1>8 DEF TypeOK
<1>7. /\ delivery'[s].sequence = Head(queue[s]).sequence
      /\ delivery'[s].dropped = counts[s].dropped
  BY <1>2 DEF Report
<1> QED
  BY <1>2, <1>3, <1>4, <1>6, <1>7, <1>8

LEMMA GetIInv ==
  ASSUME IInv, NEW s \in Subs, Get(s) PROVE IInv'
<1>1. /\ status[s] = "open"
      /\ UNCHANGED <<streamSequence, bytesPublished, closed, subscriptions, holder, targets,
                     packet, status, joinedAt>>
  BY DEF Get, Deliver, publisherVars, lockVars
<1>2. TypeOK'
  <2>1. queue' \in [Subs -> Seq(Packets)] /\ \A t \in Subs : Len(queue'[t]) <= QueueCapacity
    BY GetFacts, DeliverFacts, PcmuAssumption DEF IInv, TypeOK, Get
  <2> QED
    BY <1>1, <2>1, DeliverFacts DEF IInv, TypeOK
<1>3. LockInv'
  BY <1>1 DEF IInv, LockInv
<1>4. Passed(s)' = Passed(s) + 1 /\ \A t \in Subs : t # s => Passed(t)' = Passed(t)
  <2>1. Offered(s) \in Int /\ \A t \in Subs : Offered(t)' = Offered(t)
    BY <1>1 DEF Offered, Pending, IInv, TypeOK
  <2> QED
    BY <2>1, GetFacts, DeliverFacts DEF Passed
<1>5. /\ joinedAt[s].sequence \in Nat /\ counts[s].delivered \in Nat
      /\ counts[s].dropped \in Nat /\ marks[s].dropped \in Nat
  BY DEF IInv, TypeOK, Packets, Counts, Marks
<1>6. QueueInv' /\ MarkInv'
  <2> SUFFICES ASSUME NEW t \in Subs, status[t] = "open"
               PROVE /\ \A i \in 1 .. Len(queue'[t]) : queue'[t][i].sequence = Passed(t)' + i
                     /\ Passed(t)' = joinedAt[t].sequence + counts'[t].delivered
                                       + counts'[t].dropped
                     /\ marks'[t].delivered <= Passed(t)'
                     /\ marks'[t].dropped <= Passed(t)'
                     /\ delivery'[t].sequence <= Passed(t)'
    BY <1>1 DEF QueueInv, MarkInv
  <2>1. CASE t # s
    BY <1>4, <2>1, DeliverFacts DEF IInv, QueueInv, MarkInv
  <2>2. CASE t = s
    <3>1. /\ Passed(s) \in Int /\ Passed(s)' = Passed(s) + 1
          /\ marks'[s].delivered = Passed(s) + 1 /\ delivery'[s].sequence = Passed(s) + 1
          /\ marks'[s].dropped = marks[s].dropped /\ marks[s].dropped <= Passed(s)
      BY <1>4, GetFacts, DeliverFacts
    <3>2. Passed(s)' = joinedAt[s].sequence + counts'[s].delivered + counts'[s].dropped
      <4>1. /\ Passed(s) = joinedAt[s].sequence + counts[s].delivered + counts[s].dropped
            /\ counts'[s].delivered = counts[s].delivered + 1
            /\ counts'[s].dropped = counts[s].dropped
        BY GetFacts, DeliverFacts
      <4> QED
        BY <1>5, <3>1, <4>1
    <3>3. \A i \in 1 .. Len(queue'[s]) : queue'[s][i].sequence = Passed(s)' + i
      BY <3>1, GetFacts
    <3> QED
      BY <1>5, <2>2, <3>1, <3>2, <3>3
  <2> QED
    BY <2>1, <2>2
<1>7. NewInv'
  BY <1>1, DeliverFacts DEF IInv, NewInv
<1>8. DeliveryReportsGap'
  <2> SUFFICES ASSUME NEW t \in Subs, delivery'[t].sequence # 0
               PROVE  delivery'[t].sequence - joinedAt[t].sequence
                        = counts'[t].delivered + delivery'[t].dropped
    BY <1>1 DEF DeliveryReportsGap
  <2>1. CASE t # s
    BY <2>1, DeliverFacts DEF IInv, DeliveryReportsGap
  <2>2. CASE t = s
    <3>1. /\ Head(queue[s]).sequence = Passed(s) + 1
          /\ Passed(s) = joinedAt[s].sequence + counts[s].delivered + counts[s].dropped
      BY GetFacts
    <3>2. /\ delivery'[s].sequence = Head(queue[s]).sequence
          /\ delivery'[s].dropped = counts[s].dropped
          /\ counts'[s].delivered = counts[s].delivered + 1
      BY DeliverFacts
    <3> QED
      BY <1>5, <2>2, <3>1, <3>2
  <2> QED
    BY <2>1, <2>2
<1> QED
  BY <1>2, <1>3, <1>6, <1>7, <1>8 DEF IInv

\* --------------------------------------------------------- the specification
LEMMA NextIInv == IInv /\ [Next]_vars => IInv'
<1> SUFFICES ASSUME IInv, [Next]_vars PROVE IInv'
  OBVIOUS
<1>1. ASSUME NEW size \in PayloadSizes, Publish(size) PROVE IInv'
  BY <1>1, PublishIInv
<1>2. CASE CloseBegin
  BY <1>2, CloseBeginIInv
<1>3. ASSUME NEW s \in Subs,
             \/ Subscribe(s) \/ CloseSubscription(s) \/ CloseOne(s)
             \/ EnqueueWithRoom(s) \/ EnqueueDropping(s) \/ Get(s)
      PROVE  IInv'
  BY <1>3, SubscribeIInv, CloseSubscriptionIInv, CloseOneIInv, EnqueueWithRoomIInv,
     EnqueueDroppingIInv, GetIInv
<1>4. CASE UNCHANGED vars
  BY <1>4 DEF vars, publisherVars, lockVars, counterVars, IInv, TypeOK, LockInv, NewInv, QueueInv,
              MarkInv, DeliveryReportsGap, Passed, Offered, Pending
<1> QED
  BY <1>1, <1>2, <1>3, <1>4 DEF Next

\* IInv is inductive: it holds initially, and _enqueue, get, publish, subscribe
\* and both closes preserve it.
THEOREM Invariance == Spec => []IInv
  BY InitIInv, NextIInv, PTL DEF Spec

\* Every variable keeps to its type and no queue outgrows its capacity, for any
\* number of subscriptions, any capacity and any packet sizes.
THEOREM TypeCorrect == Spec => []TypeOK
  BY Invariance, PTL DEF IInv

\* The packets published since a subscription was opened are those delivered,
\* those dropped and those queued: _enqueue and get never lose count.
THEOREM Accounting == Spec => []PacketsAccounted
<1>1. IInv => PacketsAccounted
  <2> SUFFICES ASSUME IInv, NEW s \in Subs, Settled(s)
               PROVE  streamSequence - joinedAt[s].sequence =
                        counts[s].delivered + counts[s].dropped + Len(queue[s])
    BY DEF PacketsAccounted
  <2>1. streamSequence - Len(queue[s])
          = joinedAt[s].sequence + counts[s].delivered + counts[s].dropped
    <3>1. Passed(s) = streamSequence - Len(queue[s])
      BY EmptyFacts DEF Settled, Passed, Offered, Pending, IInv, TypeOK
    <3> QED
      BY <3>1 DEF Settled, IInv, QueueInv
  <2>2. /\ Len(queue[s]) \in Nat /\ streamSequence \in Nat /\ joinedAt[s].sequence \in Nat
        /\ counts[s].delivered \in Nat /\ counts[s].dropped \in Nat
    BY EmptyFacts DEF IInv, TypeOK, Packets, Counts
  <2> DEFINE n == Len(queue[s])
             j == joinedAt[s].sequence
             c == counts[s].delivered
             d == counts[s].dropped
  <2>3. n \in Nat /\ j \in Nat /\ c \in Nat /\ d \in Nat /\ streamSequence - n = j + c + d
    BY <2>1, <2>2
  <2> HIDE DEF n, j, c, d
  <2>4. streamSequence - j = c + d + n
    BY <2>2, <2>3
  <2> QED
    BY <2>4 DEF n, j, c, d
<1> QED
  BY <1>1, Invariance, PTL

\* The drop count a delivery carries is the number of packets missing before it.
THEOREM GapReports == Spec => []DeliveryReportsGap
  BY Invariance, PTL DEF IInv

\* The health word does not lie: a healthy subscription's queue continues what
\* it has delivered without a gap.
THEOREM HealthIsTrue == Spec => []HealthyMeansGapless
<1>1. IInv => HealthyMeansGapless
  <2> SUFFICES ASSUME IInv, NEW s \in Subs, Settled(s), Health(s) = "healthy",
                      NEW i \in DOMAIN queue[s]
               PROVE  queue[s][i].sequence = joinedAt[s].sequence + counts[s].delivered + i
    BY DEF HealthyMeansGapless
  <2>1. counts[s].delivered \in Nat /\ counts[s].dropped \in Nat /\ joinedAt[s].sequence \in Nat
    BY DEF IInv, TypeOK, Packets, Counts
  <2>2. counts[s].dropped = 0
    BY <2>1 DEF Health
  <2>3. i \in 1 .. Len(queue[s])
    BY DEF IInv, TypeOK
  <2>4. /\ queue[s][i].sequence = Passed(s) + i
        /\ Passed(s) = joinedAt[s].sequence + counts[s].delivered + counts[s].dropped
    BY <2>3 DEF Settled, IInv, QueueInv
  <2> QED
    BY <2>1, <2>2, <2>4
<1> QED
  BY <1>1, Invariance, PTL

\* Deliveries and drops both move forward, and a packet is dropped only when
\* everything before it has been delivered or dropped.
THEOREM OldestFirst == Spec => MarksAdvance
<1> DEFINE Advance == \A s \in Subs :
       /\ marks'[s].delivered >= marks[s].delivered
       /\ marks'[s].dropped >= marks[s].dropped
       /\ counts'[s].dropped # counts[s].dropped =>
            marks'[s].dropped > marks[s].delivered
<1>1. ASSUME IInv, [Next]_vars PROVE [Advance]_vars
  <2>1. \A s \in Subs : marks[s].delivered \in Nat /\ marks[s].dropped \in Nat
    BY <1>1 DEF IInv, TypeOK, Marks
  <2>2. ASSUME UNCHANGED <<counts, marks>> PROVE Advance
    BY <2>1, <2>2
  <2>3. ASSUME NEW s \in Subs, EnqueueDropping(s) PROVE Advance
    <3>1. /\ Head(queue[s]).sequence = Passed(s) + 1 /\ Passed(s) \in Int
          /\ Head(queue[s]) \in Packets
      BY <1>1, <2>3, LossFacts
    <3>2. marks[s].delivered <= Passed(s) /\ marks[s].dropped <= Passed(s)
      BY <1>1, <2>3, TargetFacts DEF IInv, MarkInv, EnqueueDropping
    <3>3. marks[s] \in Marks /\ Head(queue[s]).sequence \in Nat
      BY <1>1, <3>1, PacketFacts DEF IInv, TypeOK
    <3>4. /\ marks'[s] = [marks[s] EXCEPT !.dropped = Head(queue[s]).sequence]
          /\ \A t \in Subs : t # s => marks'[t] = marks[t] /\ counts'[t] = counts[t]
      BY <1>1, <2>3 DEF IInv, TypeOK, EnqueueDropping, CountLoss
    <3>5. marks'[s].delivered = marks[s].delivered /\ marks'[s].dropped = Passed(s) + 1
      BY <3>1, <3>3, <3>4, LossMarks
    <3> QED
      <4> SUFFICES ASSUME NEW t \in Subs
                   PROVE  /\ marks'[t].delivered >= marks[t].delivered
                          /\ marks'[t].dropped >= marks[t].dropped
                          /\ counts'[t].dropped # counts[t].dropped =>
                               marks'[t].dropped > marks[t].delivered
        OBVIOUS
      <4>1. CASE t = s
        BY <2>1, <3>1, <3>2, <3>5, <4>1
      <4>2. CASE t # s
        BY <2>1, <3>4, <4>2
      <4> QED
        BY <4>1, <4>2
  <2>4. ASSUME NEW s \in Subs, Get(s) PROVE Advance
    <3>1. /\ marks'[s].delivered = Passed(s) + 1 /\ Passed(s) \in Int
          /\ marks'[s].dropped = marks[s].dropped /\ marks[s].delivered <= Passed(s)
          /\ counts'[s].dropped = counts[s].dropped
          /\ \A t \in Subs : t # s => marks'[t] = marks[t] /\ counts'[t] = counts[t]
      BY <1>1, <2>4, GetFacts, DeliverFacts
    <3> QED
      BY <2>1, <3>1
  <2>5. ASSUME NEW size \in PayloadSizes, Publish(size) PROVE UNCHANGED <<counts, marks>>
    BY <2>5 DEF Publish, counterVars
  <2>6. ASSUME NEW s \in Subs,
               Subscribe(s) \/ CloseSubscription(s) \/ CloseOne(s) \/ EnqueueWithRoom(s)
        PROVE  UNCHANGED <<counts, marks>>
    BY <2>6 DEF Subscribe, CloseSubscription, CloseOne, EnqueueWithRoom, counterVars
  <2>7. CloseBegin => UNCHANGED <<counts, marks>>
    BY DEF CloseBegin, counterVars
  <2> HIDE DEF Advance
  <2> QED
    BY <1>1, <2>2, <2>3, <2>4, <2>5, <2>6, <2>7 DEF Next
<1> QED
  BY <1>1, Invariance, PTL DEF Spec, MarksAdvance

\* The publisher implements the lossy feed: packets reach a consumer at most
\* once, in order, none from before it subscribed and none after the close.
THEOREM ImplementsFeed == Spec => FeedSpec
<1> USE DEF Feed!feedVars
<1>1. Init => Feed!FeedInit
  BY DEF Init, Feed!FeedInit, NoDelivery, NoPacket
<1>2. ASSUME IInv, IInv', [Next]_vars PROVE [Feed!FeedNext]_(Feed!feedVars)
  <2> DEFINE Joined == {s \in Subs : status[s] # "none"}
             Left == {s \in Subs : status[s] = "closed"}
             Cursor == [s \in Subs |-> IF delivery[s].sequence = 0 THEN joinedAt[s].sequence
                                       ELSE delivery[s].sequence]
  <2> USE DEF IInv
  <2>1. ASSUME NEW size \in PayloadSizes, Publish(size) PROVE Feed!Publish
    BY <2>1 DEF Publish, Feed!Publish
  <2>2. ASSUME UNCHANGED <<streamSequence, status, delivery, joinedAt>>
        PROVE  UNCHANGED Feed!feedVars
    BY <2>2
  <2>3. ASSUME NEW s \in Subs, Subscribe(s) PROVE Feed!Join(s)
    <3>1. delivery[s].sequence = 0 /\ joinedAt'[s].sequence = streamSequence
      BY <1>2, <2>3 DEF NewInv, NoDelivery, Subscribe, TypeOK
    <3>2. Joined' = Joined \cup {s} /\ Left' = Left
      BY <1>2, <2>3 DEF Subscribe, TypeOK
    <3>3. Cursor' = [Cursor EXCEPT ![s] = streamSequence]
      BY <1>2, <2>3, <3>1 DEF Subscribe, TypeOK
    <3> QED
      BY <2>3, <3>2, <3>3 DEF Feed!Join, Subscribe
  <2>4. ASSUME NEW s \in Subs, status[s] = "open", CloseFromPublisher(s),
               UNCHANGED <<streamSequence, delivery, joinedAt>>
        PROVE  Feed!Leave(s)
    BY <1>2, <2>4 DEF Feed!Leave, CloseFromPublisher, TypeOK
  <2>5. ASSUME NEW s \in Subs, Get(s) PROVE Feed!Deliver(s)
    <3>1. /\ delivery'[s].sequence = Passed(s) + 1 /\ Passed(s) \in Int
          /\ Passed(s) + 1 <= streamSequence
          /\ delivery[s].sequence <= Passed(s)
          /\ Passed(s) = joinedAt[s].sequence + counts[s].delivered + counts[s].dropped
          /\ \A t \in Subs : t # s => delivery'[t] = delivery[t]
      BY <1>2, <2>5, GetFacts, DeliverFacts
    <3>2. /\ joinedAt[s].sequence \in Nat /\ counts[s].delivered \in Nat
          /\ counts[s].dropped \in Nat /\ streamSequence \in Nat
      BY <1>2 DEF TypeOK, Packets, Counts
    <3>3. status[s] = "open" /\ UNCHANGED <<streamSequence, status, joinedAt>>
      BY <2>5 DEF Get, Deliver, publisherVars
    <3>4. delivery'[s].sequence \in (Cursor[s] + 1) .. streamSequence
      <4>1. delivery[s].sequence \in Nat
        BY <1>2 DEF TypeOK, Deliveries
      <4> QED
        BY <3>1, <3>2, <4>1
    <3>5. delivery'[s].sequence # 0
      BY <3>1, <3>2
    <3>6. Cursor' = [Cursor EXCEPT ![s] = delivery'[s].sequence]
      BY <3>1, <3>3, <3>5
    <3> QED
      BY <3>3, <3>4, <3>6 DEF Feed!Deliver
  <2>6. ASSUME NEW s \in Subs, CloseSubscription(s) \/ CloseOne(s) PROVE Feed!Leave(s)
    <3>1. status[s] = "open" /\ CloseFromPublisher(s)
      BY <1>2, <2>6 DEF CloseSubscription, CloseOne, LockInv
    <3>2. UNCHANGED <<streamSequence, delivery, joinedAt>>
      BY <2>6 DEF CloseSubscription, CloseOne, publisherVars
    <3> QED
      BY <2>4, <3>1, <3>2
  <2>7. ASSUME NEW s \in Subs, EnqueueWithRoom(s) \/ EnqueueDropping(s)
        PROVE  UNCHANGED <<streamSequence, status, delivery, joinedAt>>
    BY <2>7 DEF EnqueueWithRoom, EnqueueDropping, publisherVars
  <2>8. ASSUME CloseBegin \/ UNCHANGED vars
        PROVE  UNCHANGED <<streamSequence, status, delivery, joinedAt>>
    BY <2>8 DEF CloseBegin, vars, publisherVars
  <2> HIDE DEF IInv
  <2> QED
    BY <1>2, <2>1, <2>2, <2>3, <2>5, <2>6, <2>7, <2>8 DEF Next, Feed!FeedNext
<1> QED
  BY <1>1, <1>2, Invariance, PTL DEF Spec, FeedSpec, Feed!FeedSpec

(***************************************************************************)
(* The service around it.                                                  *)
(***************************************************************************)

Places == {"off", "subscribe", "serve", "send", "finish", "release"}
ReaderSteps == {"off", "check", "receive", "read", "record", "close"}
Frames == Deliveries \cup {Torn}
Tallies == [received : Nat, first : Nat, last : Nat, skipped : Int,
            dropped : Nat, bytesDropped : Nat, overflows : Nat]

\* The loss counters of a do not exceed those of b.
Below(a, b) ==
  a.dropped <= b.dropped /\ a.bytesDropped <= b.bytesDropped /\ a.overflows <= b.overflows

\* ------------------------------------------------------------------ the server
ServerTypeInv ==
  /\ worker \in [Subs -> Places]
  /\ backlog \subseteq Subs /\ unused \subseteq Subs /\ admitting \in Subs \cup {None}

\* Each connection is made, accepted, admitted and subscribed in turn and once.
TurnInv ==
  \A s \in Subs :
    /\ s \in unused => s \notin backlog /\ s # admitting
    /\ s \in backlog => s # admitting
    /\ s \in unused \cup backlog \cup {admitting} => worker[s] = "off"
    /\ s \in unused \cup backlog \cup {admitting} \/ worker[s] = "subscribe" => status[s] = "none"
    /\ worker[s] \in {"serve", "send"} => status[s] # "none"
    /\ worker[s] = "send" => delivery[s].sequence # 0

\* A delivery reports no loss that the subscription has not counted.
CountInv ==
  \A s \in Subs :
    /\ delivery[s].dropped <= counts[s].dropped
    /\ delivery[s].bytesDropped <= bytes[s].dropped
    /\ delivery[s].overflows <= counts[s].overflows

\* ------------------------------------------------------------------ the client
ClientTypeInv ==
  /\ sock \in Subs \cup {None} /\ current \in Subs \cup {None}
  /\ far \subseteq Subs /\ wire \in [Subs -> Seq(Frames)]
  /\ reader \in ReaderSteps /\ got \in Deliveries /\ tally \in Tallies

\* Only the connected socket can hold frames, and the tally is about it.
SocketInv ==
  /\ far \subseteq {sock}
  /\ \A s \in Subs : s \notin far => wire[s] = <<>>
  /\ \A s \in unused : s \notin far
  /\ reader = "off" => sock = None
  /\ reader \in {"read", "record"} => current \in Subs
  /\ sock # None =>
       sock = current \/ (tally = NoTally /\ reader \in {"check", "receive", "close"})

\* What a connection's tally says about a subscription that joined at n.
Explains(t, n) ==
  /\ t.received >= 1
  /\ t.last - n = t.received + t.dropped
  /\ t.skipped = t.dropped - (t.first - n - 1)

TallyInv ==
  /\ tally.last = 0 => tally = NoTally
  /\ tally.last # 0 => /\ current \in Subs /\ status[current] # "none"
                       /\ Explains(tally, joinedAt[current].sequence)
  /\ reader = "record" =>
       /\ status[current] # "none" /\ Below(tally, got)
       /\ got.sequence - joinedAt[current].sequence = tally.received + 1 + got.dropped
  /\ ~refused

\* -------------------------------------------------------------------- the line
\* Deliveries the client has consumed, and the counters of the last of them.
Consumed == tally.received + (IF reader = "record" THEN 1 ELSE 0)
Low == IF reader = "record" THEN got ELSE tally
InHand(s) == IF worker[s] = "send" THEN 1 ELSE 0

\* The frames w follow the k-th delivery, whose counters are low, of a
\* subscription that joined at n and delivered d last.
Flow(n, k, low, w, d) ==
  \A i \in 1 .. Len(w) : w[i] # Torn =>
    /\ w[i].sequence - n = k + i + w[i].dropped
    /\ Below(low, w[i]) /\ Below(w[i], d)
    /\ \A j \in i .. Len(w) : w[j] # Torn => Below(w[i], w[j])

LineOK(s) ==
  /\ Flow(joinedAt[s].sequence, Consumed, Low, wire[s], delivery[s])
  /\ Below(Low, delivery[s])
  /\ worker[s] \in {"serve", "send"} =>
       counts[s].delivered = Consumed + Len(wire[s]) + InHand(s)
  /\ status[s] = "none" => wire[s] = <<>> /\ tally = NoTally /\ reader # "record"

LineInv == \A s \in Subs : s = sock => LineOK(s)

ClientInv == ClientTypeInv /\ SocketInv /\ TallyInv /\ LineInv

ServiceInv == IInv /\ CountInv /\ ServerTypeInv /\ TurnInv /\ ClientInv


\* ------------------------------------------------------------------- sequences
LEMMA SeqTail ==
  ASSUME NEW S, NEW q \in Seq(S), q # <<>>
  PROVE  /\ Head(q) \in S /\ Head(q) = q[1] /\ Tail(q) \in Seq(S)
         /\ Len(q) \in Nat /\ Len(q) >= 1 /\ Len(Tail(q)) = Len(q) - 1
         /\ \A i \in 1 .. Len(q) - 1 : Tail(q)[i] = q[i + 1]
  OBVIOUS

LEMMA SeqAppend ==
  ASSUME NEW S, NEW q \in Seq(S), NEW e \in S
  PROVE  /\ Append(q, e) \in Seq(S) /\ Len(q) \in Nat /\ Len(Append(q, e)) = Len(q) + 1
         /\ \A i \in 1 .. Len(q) : Append(q, e)[i] = q[i]
         /\ Append(q, e)[Len(q) + 1] = e
  OBVIOUS

LEMMA SeqEmpty == ASSUME NEW S PROVE <<>> \in Seq(S) /\ Len(<<>>) = 0
  OBVIOUS

LEMMA DeliveryFields ==
  ASSUME NEW d \in Deliveries
  PROVE  d.sequence \in Nat /\ d.dropped \in Nat /\ d.bytesDropped \in Nat /\ d.overflows \in Nat
  BY DEF Deliveries

LEMMA TallyFields ==
  ASSUME NEW t \in Tallies
  PROVE  /\ t.received \in Nat /\ t.first \in Nat /\ t.last \in Nat /\ t.skipped \in Int
         /\ t.dropped \in Nat /\ t.bytesDropped \in Nat /\ t.overflows \in Nat
  BY DEF Tallies

\* Torn is no delivery.
LEMMA TornFacts == Torn \notin Deliveries /\ Torn \in Frames /\ Deliveries \subseteq Frames
<1>1. Torn.sequence = -1
  BY DEF Torn, NoDelivery
<1>2. Torn \notin Deliveries
  BY <1>1, DeliveryFields
<1> QED
  BY <1>2 DEF Frames

\* -------------------------------------------------------------------- the line
\* Counters: three numbers that may be compared.
Counters(a) == a.dropped \in Nat /\ a.bytesDropped \in Nat /\ a.overflows \in Nat

LEMMA BelowFacts ==
  ASSUME NEW a, NEW b, NEW c, Counters(a), Counters(b), Counters(c)
  PROVE  Below(a, a) /\ (Below(a, b) /\ Below(b, c) => Below(a, c))
  BY DEF Counters, Below

LEMMA FlowEmpty == ASSUME NEW n, NEW k, NEW low, NEW d PROVE Flow(n, k, low, <<>>, d)
  BY DEF Flow

\* The worker writes the delivery it has in hand.
LEMMA FlowAppend ==
  ASSUME NEW n, NEW k, NEW low, NEW w \in Seq(Frames), NEW d \in Deliveries,
         Flow(n, k, low, w, d), Below(low, d), Counters(low),
         d.sequence - n = k + (Len(w) + 1) + d.dropped
  PROVE  Flow(n, k, low, Append(w, d), d)
<1>1. PICK v : v = Append(w, d)
  OBVIOUS
<1>2. /\ Len(w) \in Nat /\ Len(v) = Len(w) + 1 /\ v[Len(w) + 1] = d
      /\ \A i \in 1 .. Len(w) : v[i] = w[i]
  BY <1>1, TornFacts, SeqAppend
<1>3. PICK l \in Nat : l = Len(w)
  BY <1>2
<1>4. Below(d, d)
  BY DeliveryFields, BelowFacts DEF Counters
<1>5. ASSUME NEW i \in 1 .. Len(v), v[i] # Torn
      PROVE  /\ v[i].sequence - n = k + i + v[i].dropped
             /\ Below(low, v[i]) /\ Below(v[i], d)
             /\ \A j \in i .. Len(v) : v[j] # Torn => Below(v[i], v[j])
  <2>1. CASE i = l + 1
    <3>1. v[i] = d /\ \A j \in i .. Len(v) : j = i
      BY <1>2, <1>3, <2>1
    <3> QED
      BY <1>3, <1>4, <2>1, <3>1
  <2>2. CASE i \in 1 .. l
    <3>1. v[i] = w[i] /\ i \in 1 .. Len(w)
      BY <1>2, <1>3, <2>2
    <3>2. /\ w[i].sequence - n = k + i + w[i].dropped
          /\ Below(low, w[i]) /\ Below(w[i], d)
          /\ \A j \in i .. Len(w) : w[j] # Torn => Below(w[i], w[j])
      BY <1>5, <3>1 DEF Flow
    <3>3. ASSUME NEW j \in i .. Len(v), v[j] # Torn PROVE Below(v[i], v[j])
      <4>1. CASE j = l + 1
        BY <1>2, <1>3, <3>1, <3>2, <4>1
      <4>2. CASE j \in i .. l
        BY <1>2, <1>3, <2>2, <3>1, <3>2, <3>3, <4>2
      <4> QED
        BY <1>2, <1>3, <2>2, <4>1, <4>2
    <3> QED
      BY <3>1, <3>2, <3>3
  <2> QED
    BY <1>2, <1>3, <2>1, <2>2
<1> QED
  BY <1>1, <1>5 DEF Flow

\* A send that times out half-way leaves a torn frame at the end.
LEMMA FlowTorn ==
  ASSUME NEW n, NEW k, NEW low, NEW w \in Seq(Frames), NEW d, Flow(n, k, low, w, d)
  PROVE  Flow(n, k, low, Append(w, Torn), d)
<1>1. PICK v : v = Append(w, Torn)
  OBVIOUS
<1>2. /\ Len(w) \in Nat /\ Len(v) = Len(w) + 1 /\ v[Len(w) + 1] = Torn
      /\ \A i \in 1 .. Len(w) : v[i] = w[i]
  BY <1>1, TornFacts, SeqAppend
<1>3. \A i \in 1 .. Len(v) : v[i] # Torn => i \in 1 .. Len(w) /\ v[i] = w[i]
  BY <1>2
<1>4. ASSUME NEW i \in 1 .. Len(v), v[i] # Torn
      PROVE  /\ v[i].sequence - n = k + i + v[i].dropped
             /\ Below(low, v[i]) /\ Below(v[i], d)
             /\ \A j \in i .. Len(v) : v[j] # Torn => Below(v[i], v[j])
  <2>1. i \in 1 .. Len(w) /\ v[i] = w[i]
    BY <1>3, <1>4
  <2>2. \A j \in i .. Len(v) : v[j] # Torn => j \in i .. Len(w) /\ v[j] = w[j]
    BY <1>2, <1>3
  <2>3. /\ w[i].sequence - n = k + i + w[i].dropped
        /\ Below(low, w[i]) /\ Below(w[i], d)
        /\ \A j \in i .. Len(w) : w[j] # Torn => Below(w[i], w[j])
    BY <1>4, <2>1 DEF Flow
  <2> QED
    BY <2>1, <2>2, <2>3
<1> QED
  BY <1>1, <1>4 DEF Flow

\* The worker takes a newer delivery, or the tally takes the counters of the
\* delivery just consumed.
LEMMA FlowBetween ==
  ASSUME NEW n, NEW k, NEW low, NEW l2, NEW w \in Seq(Frames), NEW d, NEW e,
         Flow(n, k, low, w, d), Below(l2, low), Below(d, e),
         Counters(low), Counters(l2), Counters(d), Counters(e)
  PROVE  Flow(n, k, l2, w, e)
<1>1. \A i \in 1 .. Len(w) : w[i] # Torn => Counters(w[i])
  <2> TAKE i \in 1 .. Len(w)
  <2>1. w[i] \in Frames
    OBVIOUS
  <2> QED
    BY <2>1, DeliveryFields DEF Frames, Counters
<1> QED
  BY <1>1, BelowFacts DEF Flow

\* The client reads the first frame.
LEMMA FlowTail ==
  ASSUME NEW n \in Nat, NEW k \in Nat, NEW low, NEW w \in Seq(Frames), NEW d,
         Flow(n, k, low, w, d), w # <<>>, Head(w) # Torn
  PROVE  /\ Head(w) \in Deliveries /\ Below(low, Head(w)) /\ Below(Head(w), d)
         /\ Head(w).sequence - n = k + 1 + Head(w).dropped
         /\ Flow(n, k + 1, Head(w), Tail(w), d)
<1>1. /\ Head(w) = w[1] /\ Len(w) \in Nat /\ Len(w) >= 1 /\ Head(w) \in Frames
      /\ Len(Tail(w)) = Len(w) - 1 /\ \A i \in 1 .. Len(w) - 1 : Tail(w)[i] = w[i + 1]
  BY SeqTail
<1>2. /\ Below(low, w[1]) /\ Below(w[1], d) /\ w[1].sequence - n = k + 1 + w[1].dropped
      /\ \A j \in 1 .. Len(w) : w[j] # Torn => Below(w[1], w[j])
  <2>1. 1 \in 1 .. Len(w)
    BY <1>1
  <2> QED
    BY <1>1, <2>1 DEF Flow
<1>3. PICK v : v = Tail(w)
  OBVIOUS
<1>4. ASSUME NEW i \in 1 .. Len(v), v[i] # Torn
      PROVE  /\ v[i].sequence - n = (k + 1) + i + v[i].dropped
             /\ Below(w[1], v[i]) /\ Below(v[i], d)
             /\ \A j \in i .. Len(v) : v[j] # Torn => Below(v[i], v[j])
  <2>1. i + 1 \in 1 .. Len(w) /\ v[i] = w[i + 1]
    BY <1>1, <1>3
  <2>2. \A j \in i .. Len(v) : j + 1 \in i + 1 .. Len(w) /\ v[j] = w[j + 1]
    BY <1>1, <1>3
  <2>3. /\ w[i + 1].sequence - n = k + (i + 1) + w[i + 1].dropped
        /\ Below(w[i + 1], d)
        /\ \A j \in i + 1 .. Len(w) : w[j] # Torn => Below(w[i + 1], w[j])
    BY <1>4, <2>1 DEF Flow
  <2>4. k + (i + 1) = (k + 1) + i
    OBVIOUS
  <2> QED
    BY <1>2, <1>4, <2>1, <2>2, <2>3, <2>4
<1>5. Head(w) \in Deliveries
  BY <1>1 DEF Frames
<1> QED
  BY <1>1, <1>2, <1>3, <1>4, <1>5 DEF Flow

\* --------------------------------------------------------------- the publisher
\* Every step of the service is one of the publisher's or leaves it alone.
LEMMA InnerStep == [ServiceNext]_serviceVars => [Next]_vars
<1> SUFFICES ASSUME [ServiceNext]_serviceVars, ~(UNCHANGED vars) PROVE Next
  OBVIOUS
<1>1. CASE Start
  BY <1>1 DEF Start
<1>2. CASE StopBegin
  BY <1>2 DEF StopBegin
<1>3. CASE Stopping
  BY <1>3 DEF Stopping, StopStream, StopSockets, StopJoin, Next
<1>4. CASE Acceptor
  BY <1>4 DEF Acceptor, AcceptEnds, Accept, Admit
<1>5. CASE AcceptBreaks
  BY <1>5 DEF AcceptBreaks
<1>6. CASE Visit
  BY <1>6 DEF Visit, Next
<1>7. CASE Audio
  BY <1>7 DEF Audio, Next
<1>8. ASSUME NEW s \in Subs, Worker(s) PROVE Next
  <2> USE DEF Next
  <2>1. CASE WorkerSubscribe(s)
    BY <2>1 DEF WorkerSubscribe
  <2>2. CASE WorkerGet(s)
    BY <2>2 DEF WorkerGet
  <2>3. CASE WorkerLeave(s)
    BY <2>3 DEF WorkerLeave
  <2>4. CASE WorkerSend(s)
    BY <2>4 DEF WorkerSend
  <2>5. CASE WorkerFinish(s)
    BY <2>5 DEF WorkerFinish
  <2>6. CASE WorkerRelease(s)
    BY <2>6 DEF WorkerRelease
  <2> QED
    BY <1>8, <2>1, <2>2, <2>3, <2>4, <2>5, <2>6 DEF Worker
<1>9. ASSUME NEW s \in Subs, AudioStart(s) PROVE Next
  BY <1>9 DEF AudioStart
<1>10. CASE Receiver
  BY <1>10 DEF Receiver, ReaderCheck, ReaderReceive, ReaderRead, ReaderRecord, ReaderClose
<1>11. CASE AudioStop \/ AudioClose \/ AudioJoin
  BY <1>11 DEF AudioStop, AudioClose, AudioJoin
<1>12. CASE UNCHANGED serviceVars
  BY <1>12 DEF serviceVars
<1> QED
  BY <1>1, <1>2, <1>3, <1>4, <1>5, <1>6, <1>7, <1>8, <1>9, <1>10, <1>11, <1>12
     DEF ServiceNext

\* The server and the clients drive the publisher only through its operations:
\* whatever holds of PcmuSubscriptions holds of the publisher inside the service.
THEOREM PublisherInside == ServiceSpec => Spec
<1>1. ServiceInit => Init
  BY DEF ServiceInit
<1> QED
  BY <1>1, InnerStep, PTL DEF ServiceSpec, Spec

\* What a step that neither subscribes nor delivers leaves as it was.
Quiet ==
  /\ UNCHANGED <<joinedAt, delivery>>
  /\ \A s \in Subs : /\ status'[s] = "none" <=> status[s] = "none"
                     /\ counts'[s].delivered = counts[s].delivered

LEMMA QuietVisit == ASSUME IInv, Visit PROVE Quiet
<1> PICK s \in Subs : EnqueueWithRoom(s) \/ EnqueueDropping(s) \/ CloseOne(s)
  BY DEF Visit
<1> USE DEF IInv, Quiet, publisherVars
<1>1. CASE EnqueueWithRoom(s)
  BY <1>1 DEF EnqueueWithRoom
<1>2. CASE EnqueueDropping(s)
  <2>1. UNCHANGED <<joinedAt, delivery, status>> /\ counts' = CountLoss(s)
    BY <1>2 DEF EnqueueDropping
  <2>2. \A t \in Subs : counts[t] \in Counts
    BY DEF TypeOK
  <2>3. \A t \in Subs : counts'[t].delivered = counts[t].delivered
    <3> TAKE t \in Subs
    <3>1. counts'[s] = [counts[s] EXCEPT !.dropped = counts[s].dropped + 1,
                                         !.overflows = counts[s].overflows + 1]
      BY <2>1 DEF CountLoss, TypeOK
    <3>2. t # s => counts'[t] = counts[t]
      BY <2>1 DEF CountLoss, TypeOK
    <3>3. counts'[s].delivered = counts[s].delivered
      BY <2>2, <3>1 DEF Counts
    <3> QED
      BY <3>2, <3>3
  <2> QED
    BY <2>1, <2>3
<1>3. CASE CloseOne(s)
  BY <1>3 DEF CloseOne, CloseFromPublisher, LockInv, TypeOK
<1> QED
  BY <1>1, <1>2, <1>3

LEMMA QuietClose ==
  ASSUME IInv, NEW s \in Subs, CloseSubscription(s) PROVE Quiet
  BY DEF IInv, TypeOK, LockInv, Quiet, CloseSubscription, CloseFromPublisher

LEMMA QuietOthers ==
  ASSUME IInv, UNCHANGED vars \/ CloseBegin \/ Audio PROVE Quiet
<1>1. CASE UNCHANGED vars
  BY <1>1 DEF Quiet, vars, counterVars
<1>2. CASE CloseBegin
  BY <1>2 DEF Quiet, CloseBegin, counterVars
<1>3. CASE Audio
  BY <1>3 DEF Quiet, Audio, Publish, counterVars
<1> QED
  BY <1>1, <1>2, <1>3

\* What the newest delivery of s is, beside what DeliverFacts says.
LEMMA ReportFacts ==
  ASSUME IInv, NEW s \in Subs, Get(s)
  PROVE  /\ delivery'[s].bytesDropped = bytes[s].dropped
         /\ delivery'[s].overflows = counts[s].overflows
         /\ bytes'[s].dropped = bytes[s].dropped /\ counts'[s].overflows = counts[s].overflows
         /\ \A t \in Subs : t # s => bytes'[t] = bytes[t]
<1> USE DEF IInv, TypeOK, Get, Deliver
<1>1. delivery' = [delivery EXCEPT ![s] = Report(s, Head(queue[s]))]
  OBVIOUS
<1>2. /\ delivery'[s].bytesDropped = bytes[s].dropped
      /\ delivery'[s].overflows = counts[s].overflows
  BY <1>1 DEF Report
<1>3. /\ bytes' = [bytes EXCEPT ![s].queued = @ - Head(queue[s]).bytes,
                                ![s].delivered = @ + Head(queue[s]).bytes]
      /\ counts' = [counts EXCEPT ![s].delivered = @ + 1]
  OBVIOUS
<1>4. bytes[s] \in Gauges /\ counts[s] \in Counts
  OBVIOUS
<1>5. bytes'[s].dropped = bytes[s].dropped
  BY <1>3, <1>4 DEF Gauges
<1>6. counts'[s].overflows = counts[s].overflows
  BY <1>3, <1>4 DEF Counts
<1>7. \A t \in Subs : t # s => bytes'[t] = bytes[t]
  BY <1>3
<1> QED
  BY <1>2, <1>5, <1>6, <1>7

\* The counters only grow, and a delivery reports them.
LEMMA CountStep ==
  ASSUME IInv, CountInv, [Next]_vars PROVE CountInv'
<1> USE DEF CountInv
<1>0. \A t \in Subs : /\ counts[t].dropped \in Nat /\ counts[t].overflows \in Nat
                      /\ bytes[t].dropped \in Nat /\ delivery[t].dropped \in Nat
                      /\ delivery[t].bytesDropped \in Nat /\ delivery[t].overflows \in Nat
  <2> TAKE t \in Subs
  <2>1. counts[t] \in Counts /\ bytes[t] \in Gauges /\ delivery[t] \in Deliveries
    BY DEF IInv, TypeOK
  <2> QED
    BY <2>1, CountFields, GaugeTypes, DeliveryFields
<1>1. CASE UNCHANGED <<counts, bytes, delivery>>
  BY <1>1
<1>2. ASSUME UNCHANGED delivery,
             \A t \in Subs : /\ counts'[t].dropped >= counts[t].dropped
                             /\ counts'[t].overflows >= counts[t].overflows
                             /\ bytes'[t].dropped >= bytes[t].dropped,
             \A t \in Subs : /\ counts'[t].dropped \in Nat /\ counts'[t].overflows \in Nat
                             /\ bytes'[t].dropped \in Nat
      PROVE  CountInv'
  BY <1>0, <1>2
<1>3. ASSUME NEW s \in Subs, Get(s) PROVE CountInv'
  <2> SUFFICES ASSUME NEW t \in Subs
               PROVE  /\ delivery'[t].dropped <= counts'[t].dropped
                      /\ delivery'[t].bytesDropped <= bytes'[t].dropped
                      /\ delivery'[t].overflows <= counts'[t].overflows
    OBVIOUS
  <2>1. CASE t = s
    BY <1>0, <1>3, <2>1, ReportFacts, DeliverFacts
  <2>2. CASE t # s
    BY <1>3, <2>2, ReportFacts, DeliverFacts
  <2> QED
    BY <2>1, <2>2
<1>4. ASSUME NEW s \in Subs,
             counts' = counts, delivery' = delivery,
             \/ bytes' = [bytes EXCEPT ![s].queued = bytes[s].queued + packet.bytes]
             \/ bytes' = [bytes EXCEPT ![s].queued = 0]
      PROVE  CountInv'
  <2>1. bytes[s] \in Gauges /\ bytes \in [Subs -> Gauges]
    BY DEF IInv, TypeOK
  <2>2. \A t \in Subs : bytes'[t].dropped = bytes[t].dropped
    BY <1>4, <2>1 DEF Gauges
  <2> QED
    BY <1>2, <1>4, <1>0, <2>2
<1>5. ASSUME NEW s \in Subs, EnqueueDropping(s) PROVE CountInv'
  <2>1. /\ counts' = [counts EXCEPT ![s].dropped = @ + 1, ![s].overflows = @ + 1]
        /\ bytes' = BytesAfterLoss(s, Head(queue[s]))
        /\ delivery' = delivery /\ Head(queue[s]) \in Packets
    BY <1>5, LossFacts DEF EnqueueDropping, CountLoss
  <2>2. Head(queue[s]).bytes \in Nat
    BY <2>1, PacketFacts
  <2>3. /\ counts \in [Subs -> Counts] /\ bytes \in [Subs -> Gauges]
    BY DEF IInv, TypeOK
  <2>4. ASSUME NEW t \in Subs
        PROVE  /\ counts'[t].dropped >= counts[t].dropped
               /\ counts'[t].overflows >= counts[t].overflows
               /\ counts'[t].dropped \in Nat /\ counts'[t].overflows \in Nat
    BY <1>0, <2>1, <2>3 DEF Counts
  <2>5. ASSUME NEW t \in Subs
        PROVE  bytes'[t].dropped >= bytes[t].dropped /\ bytes'[t].dropped \in Nat
    BY <1>0, <2>1, <2>2, <2>3 DEF Gauges, BytesAfterLoss
  <2> QED
    BY <1>2, <2>1, <2>4, <2>5
<1>6. ASSUME NEW s \in Subs, EnqueueWithRoom(s) PROVE CountInv'
  BY <1>4, <1>6 DEF EnqueueWithRoom
<1>7. ASSUME NEW s \in Subs, CloseOne(s) \/ CloseSubscription(s) PROVE CountInv'
  BY <1>4, <1>7 DEF CloseOne, CloseSubscription, CloseFromPublisher
<1>8. ASSUME NEW s \in Subs, Subscribe(s) PROVE CountInv'
  BY <1>1, <1>8 DEF Subscribe, counterVars
<1>9. CASE CloseBegin
  BY <1>1, <1>9 DEF CloseBegin, counterVars
<1>10. ASSUME NEW size \in PayloadSizes, Publish(size) PROVE CountInv'
  BY <1>1, <1>10 DEF Publish, counterVars
<1>11. CASE UNCHANGED vars
  BY <1>1, <1>11 DEF vars, counterVars
<1> QED
  BY <1>3, <1>5, <1>6, <1>7, <1>8, <1>9, <1>10, <1>11 DEF Next

\* ------------------------------------------------------- the server's own steps
\* No step makes a subscription for a connection that was not served.
LEMMA TurnQuiet ==
  ASSUME ServerTypeInv, TurnInv, Quiet,
         \A s \in Subs : s \in unused' => s \in unused,
         \A s \in Subs : s \in backlog' \cup {admitting'} => s \in unused \cup backlog \cup {admitting},
         \A s \in Subs : /\ s \in unused' => s \notin backlog' /\ s # admitting'
                         /\ s \in backlog' => s # admitting',
         \A s \in Subs : worker'[s] \in {worker[s], "finish", "release", "off"}
                         \/ (worker[s] = "send" /\ worker'[s] = "serve"),
         \A s \in Subs : s \in unused' \cup backlog' \cup {admitting'} => worker'[s] = worker[s]
  PROVE  TurnInv'
  BY DEF TurnInv, Quiet

LEMMA ServerKept ==
  ASSUME ServerTypeInv, TurnInv, Quiet, UNCHANGED <<unused, backlog, admitting, worker>>
  PROVE  ServerTypeInv' /\ TurnInv'
<1>1. ServerTypeInv'
  BY DEF ServerTypeInv
<1>2. TurnInv'
  BY DEF TurnInv, Quiet
<1> QED
  BY <1>1, <1>2

\* A worker's place after it moves.
LEMMA Moved ==
  ASSUME ServerTypeInv, NEW s \in Subs, NEW place \in Places, Becomes(s, place)
  PROVE  /\ worker' \in [Subs -> Places] /\ worker'[s] = place
         /\ \A t \in Subs : t # s => worker'[t] = worker[t]
  BY DEF ServerTypeInv, Becomes

\* A worker that goes on without a new subscription or delivery.
LEMMA MovesOn ==
  ASSUME ServerTypeInv, TurnInv, Quiet, UNCHANGED <<unused, backlog, admitting>>,
         NEW s \in Subs, worker[s] # "off",
         NEW place \in {"serve", "finish", "release", "off"}, Becomes(s, place),
         place = "serve" => worker[s] = "send"
  PROVE  ServerTypeInv' /\ TurnInv'
<1>1. /\ worker' \in [Subs -> Places] /\ worker'[s] = place
      /\ \A t \in Subs : t # s => worker'[t] = worker[t]
  BY Moved DEF Places
<1>2. ServerTypeInv'
  BY <1>1 DEF ServerTypeInv
<1>3. s \notin unused \cup backlog \cup {admitting}
  BY DEF TurnInv
<1>4. TurnInv'
  BY <1>1, <1>3, TurnQuiet DEF TurnInv
<1> QED
  BY <1>2, <1>4

LEMMA SubscribeTurn ==
  ASSUME IInv, ServerTypeInv, TurnInv, UNCHANGED <<unused, backlog, admitting>>,
         NEW s \in Subs, worker[s] = "subscribe", Subscribe(s), Becomes(s, "serve")
  PROVE  ServerTypeInv' /\ TurnInv'
<1>1. /\ worker' \in [Subs -> Places] /\ worker'[s] = "serve"
      /\ \A t \in Subs : t # s => worker'[t] = worker[t]
  BY Moved DEF Places
<1>2. /\ status'[s] = "open" /\ \A t \in Subs : t # s => status'[t] = status[t]
      /\ delivery' = delivery
  BY DEF Subscribe, IInv, TypeOK
<1>3. ServerTypeInv'
  BY <1>1 DEF ServerTypeInv
<1>4. TurnInv'
  BY <1>1, <1>2 DEF TurnInv
<1> QED
  BY <1>3, <1>4

LEMMA GetTurn ==
  ASSUME IInv, ServerTypeInv, TurnInv, UNCHANGED <<unused, backlog, admitting>>,
         NEW s \in Subs, worker[s] = "serve", Get(s), Becomes(s, "send")
  PROVE  ServerTypeInv' /\ TurnInv'
<1>1. /\ worker' \in [Subs -> Places] /\ worker'[s] = "send"
      /\ \A t \in Subs : t # s => worker'[t] = worker[t]
  BY Moved DEF Places
<1>2. /\ status' = status /\ status[s] = "open"
      /\ \A t \in Subs : t # s => delivery'[t] = delivery[t]
  BY DeliverFacts DEF Get, Deliver
<1>3. delivery'[s].sequence # 0
  <2>1. /\ delivery'[s].sequence = Passed(s) + 1
        /\ Passed(s) = joinedAt[s].sequence + counts[s].delivered + counts[s].dropped
    BY GetFacts, DeliverFacts
  <2>2. joinedAt[s].sequence \in Nat /\ counts[s].delivered \in Nat /\ counts[s].dropped \in Nat
    BY CountFields, PacketFacts DEF IInv, TypeOK
  <2> QED
    BY <2>1, <2>2
<1>4. ServerTypeInv'
  BY <1>1 DEF ServerTypeInv
<1>5. TurnInv'
  BY <1>1, <1>2, <1>3 DEF TurnInv
<1> QED
  BY <1>4, <1>5

\* Reader and callers do not touch the server; a connection may be opened.
LEMMA ConnectTurn ==
  ASSUME ServerTypeInv, TurnInv, UNCHANGED <<vars, serverVars>>, NEW s \in Subs, Opens(s)
  PROVE  ServerTypeInv' /\ TurnInv'
<1>1. /\ s \in unused /\ unused' = unused \ {s} /\ backlog' = backlog \cup {s}
      /\ UNCHANGED <<status, delivery, worker, admitting>>
  BY DEF Opens, Reachable, vars, serverVars
<1>2. ServerTypeInv'
  BY <1>1 DEF ServerTypeInv
<1>3. TurnInv'
  BY <1>1 DEF TurnInv
<1> QED
  BY <1>2, <1>3

LEMMA ServerStep ==
  ASSUME IInv, ServerTypeInv, TurnInv, [ServiceNext]_serviceVars
  PROVE  ServerTypeInv' /\ TurnInv'
<1>0. UNCHANGED vars => Quiet
  BY QuietOthers
<1>1. CASE Start
  BY <1>0, <1>1, ServerKept DEF Start, socketVars
<1>2. CASE StopBegin
  <2>1. Quiet /\ UNCHANGED <<unused, admitting, worker>> /\ backlog' = {}
    BY <1>0, <1>2 DEF StopBegin
  <2>2. ServerTypeInv'
    BY <2>1 DEF ServerTypeInv
  <2>3. TurnInv'
    BY <2>1, TurnQuiet DEF TurnInv
  <2> QED
    BY <2>2, <2>3
<1>3. CASE Stopping
  <2>1. UNCHANGED <<unused, backlog, admitting, worker>> /\ (UNCHANGED vars \/ CloseBegin)
    BY <1>3 DEF Stopping, StopStream, StopSockets, StopJoin, socketVars
  <2> QED
    BY <2>1, QuietOthers, ServerKept
<1>4. ASSUME NEW s \in Subs, Accept(s) PROVE ServerTypeInv' /\ TurnInv'
  <2>1. /\ Quiet /\ UNCHANGED <<unused, worker>>
        /\ s \in backlog /\ admitting' = s /\ backlog' = backlog \ {s}
    BY <1>0, <1>4 DEF Accept
  <2>2. ServerTypeInv'
    BY <2>1 DEF ServerTypeInv
  <2>3. TurnInv'
    BY <2>1, TurnQuiet DEF TurnInv
  <2> QED
    BY <2>2, <2>3
<1>5. CASE AcceptEnds \/ AcceptBreaks
  BY <1>0, <1>5, ServerKept DEF AcceptEnds, AcceptBreaks, socketVars
<1>6. ASSUME NEW s \in Subs, Admit(s) PROVE ServerTypeInv' /\ TurnInv'
  <2>1. /\ Quiet /\ UNCHANGED <<unused, backlog>>
        /\ s = admitting /\ admitting' = None
        /\ UNCHANGED worker \/ Becomes(s, "subscribe")
        /\ UNCHANGED status
    BY <1>0, <1>6 DEF Admit, Becomes, vars
  <2>2. None \notin Subs
    BY ServiceAssumption
  <2>3. /\ worker' \in [Subs -> Places] /\ worker'[s] \in {worker[s], "subscribe"}
        /\ \A t \in Subs : t # s => worker'[t] = worker[t]
    BY <2>1, Moved DEF ServerTypeInv, Places
  <2>4. ServerTypeInv'
    BY <2>1, <2>3 DEF ServerTypeInv
  <2>5. worker[s] = "off" /\ status[s] = "none" /\ s \notin unused /\ s \notin backlog
    BY <2>1 DEF TurnInv
  <2>6. TurnInv'
    BY <2>1, <2>2, <2>3, <2>5 DEF TurnInv, Quiet
  <2> QED
    BY <2>4, <2>6
<1>7. CASE Visit
  BY <1>7, QuietVisit, ServerKept DEF Visit, serverVars, socketVars
<1>8. CASE Audio
  BY <1>8, QuietOthers, ServerKept DEF Audio, serverVars, socketVars
<1>9. ASSUME NEW s \in Subs, Worker(s) PROVE ServerTypeInv' /\ TurnInv'
  <2>1. CASE WorkerSubscribe(s)
    <3>1. UNCHANGED <<unused, backlog, admitting>> /\ worker[s] = "subscribe"
      BY <2>1 DEF WorkerSubscribe, socketVars
    <3>2. CASE Subscribe(s) /\ Becomes(s, "serve")
      BY <3>1, <3>2, SubscribeTurn
    <3>3. CASE Becomes(s, "release") /\ UNCHANGED vars
      BY <1>0, <3>1, <3>3, MovesOn
    <3> QED
      BY <2>1, <3>2, <3>3 DEF WorkerSubscribe
  <2>2. CASE WorkerGet(s)
    BY <2>2, GetTurn DEF WorkerGet, socketVars
  <2>3. CASE WorkerLeave(s)
    BY <1>0, <2>3, MovesOn DEF WorkerLeave, socketVars
  <2>4. CASE WorkerSend(s)
    <3>1. /\ UNCHANGED <<unused, backlog, admitting>> /\ worker[s] = "send" /\ Quiet
          /\ Becomes(s, "serve") \/ Becomes(s, "finish")
      BY <1>0, <2>4 DEF WorkerSend
    <3> QED
      BY <3>1, MovesOn
  <2>5. CASE WorkerFinish(s)
    <3>1. /\ UNCHANGED <<unused, backlog, admitting>> /\ worker[s] = "finish"
          /\ Becomes(s, "release")
      BY <2>5 DEF WorkerFinish, socketVars
    <3>2. Quiet
      BY <1>0, <2>5, QuietClose DEF WorkerFinish
    <3> QED
      BY <3>1, <3>2, MovesOn
  <2>6. CASE WorkerRelease(s)
    BY <1>0, <2>6, MovesOn DEF WorkerRelease
  <2> QED
    BY <1>9, <2>1, <2>2, <2>3, <2>4, <2>5, <2>6 DEF Worker
<1>10. ASSUME NEW s \in Subs, AudioStart(s) PROVE ServerTypeInv' /\ TurnInv'
  BY <1>10, ConnectTurn DEF AudioStart, Connects
<1>11. ASSUME UNCHANGED <<vars, serverVars, unused, backlog>> PROVE ServerTypeInv' /\ TurnInv'
  BY <1>0, <1>11, ServerKept DEF serverVars
<1>12. CASE ReaderReceive
  <2>1. CASE UNCHANGED socketVars
    BY <1>11, <1>12, <2>1 DEF ReaderReceive, socketVars
  <2>2. ASSUME NEW s \in Subs, Connects(s) PROVE ServerTypeInv' /\ TurnInv'
    BY <1>12, <2>2, ConnectTurn DEF ReaderReceive, Connects
  <2> QED
    BY <1>12, <2>1, <2>2 DEF ReaderReceive
<1>13. CASE ReaderCheck \/ ReaderRead \/ ReaderRecord \/ ReaderClose
  BY <1>11, <1>13 DEF ReaderCheck, ReaderRead, ReaderRecord, ReaderClose, socketVars
<1>14. CASE AudioStop \/ AudioClose \/ AudioJoin
  BY <1>11, <1>14 DEF AudioStop, AudioClose, AudioJoin, socketVars
<1>15. CASE UNCHANGED serviceVars
  BY <1>11, <1>15 DEF serviceVars, socketVars
<1> QED
  BY <1>1, <1>2, <1>3, <1>4, <1>5, <1>6, <1>7, <1>8, <1>9, <1>10, <1>12, <1>13, <1>14, <1>15
     DEF ServiceNext, Acceptor, Receiver

\* --------------------------------------------------- the line, after a step
LEMMA LineNext ==
  ASSUME NEW s \in Subs,
         Flow(joinedAt'[s].sequence, Consumed', Low', wire'[s], delivery'[s]),
         Below(Low', delivery'[s]),
         worker'[s] \in {"serve", "send"} =>
           counts'[s].delivered = Consumed' + Len(wire'[s]) + (IF worker'[s] = "send" THEN 1 ELSE 0),
         status'[s] = "none" => wire'[s] = <<>> /\ tally' = NoTally /\ reader' # "record"
  PROVE  LineOK(s)'
  BY DEF LineOK, Flow, Below, InHand

LEMMA LowFacts ==
  ASSUME ClientTypeInv PROVE Counters(Low) /\ Consumed \in Nat /\ tally.received \in Nat
<1>1. tally \in Tallies /\ got \in Deliveries
  BY DEF ClientTypeInv
<1>2. /\ tally.received \in Nat /\ tally.dropped \in Nat /\ tally.bytesDropped \in Nat
      /\ tally.overflows \in Nat
  BY <1>1, TallyFields
<1>3. got.dropped \in Nat /\ got.bytesDropped \in Nat /\ got.overflows \in Nat
  BY <1>1, DeliveryFields
<1> QED
  BY <1>2, <1>3 DEF Counters, Low, Consumed

\* Nothing is below the empty tally.
LEMMA NoTallyFacts ==
  /\ NoTally \in Tallies /\ NoTally.received = 0 /\ NoTally.last = 0
  /\ \A d \in Deliveries : Below(NoTally, d)
<1>1. /\ NoTally \in Tallies /\ NoTally.received = 0 /\ NoTally.last = 0
      /\ NoTally.dropped = 0 /\ NoTally.bytesDropped = 0 /\ NoTally.overflows = 0
  BY DEF NoTally, Tallies
<1>2. ASSUME NEW d \in Deliveries PROVE Below(NoTally, d)
  BY <1>1, DeliveryFields DEF Below
<1> QED
  BY <1>1, <1>2

\* The client does not move, and no worker starts to serve.
LEMMA ClientCalm ==
  ASSUME ClientInv, Quiet, UNCHANGED <<far, wire, clientVars>>,
         \A s \in Subs : s \in unused' => s \in unused, unused' \subseteq Subs,
         \A s \in Subs : worker'[s] \in {"serve", "send"} => worker'[s] = worker[s]
  PROVE  ClientInv'
<1> USE DEF ClientInv, clientVars
<1>1. ClientTypeInv'
  BY DEF ClientTypeInv
<1>2. SocketInv'
  BY DEF SocketInv
<1>3. TallyInv'
  <2>1. (tally.last # 0 \/ reader = "record") => current \in Subs
    BY DEF TallyInv, SocketInv
  <2> QED
    BY <2>1 DEF TallyInv, Quiet, Explains, Below
<1>4. ASSUME NEW s \in Subs, s = sock PROVE LineOK(s)'
  <2>1. LineOK(s)
    BY <1>4 DEF LineInv
  <2>2. /\ Consumed' = Consumed /\ Low' = Low /\ wire'[s] = wire[s]
        /\ delivery'[s] = delivery[s] /\ joinedAt'[s] = joinedAt[s]
        /\ counts'[s].delivered = counts[s].delivered /\ (status'[s] = "none" => status[s] = "none")
        /\ tally' = tally /\ reader' = reader
    BY DEF Consumed, Low, Quiet
  <2>3. Flow(joinedAt'[s].sequence, Consumed', Low', wire'[s], delivery'[s])
    BY <2>1, <2>2 DEF LineOK
  <2>4. Below(Low', delivery'[s])
    BY <2>1, <2>2 DEF LineOK
  <2>5. worker'[s] \in {"serve", "send"} =>
          counts'[s].delivered = Consumed' + Len(wire'[s]) + (IF worker'[s] = "send" THEN 1 ELSE 0)
    BY <2>1, <2>2 DEF LineOK, InHand
  <2>6. status'[s] = "none" => wire'[s] = <<>> /\ tally' = NoTally /\ reader' # "record"
    BY <2>1, <2>2 DEF LineOK
  <2> QED
    BY <2>3, <2>4, <2>5, <2>6, LineNext
<1>5. LineInv'
  BY <1>4 DEF LineInv
<1> QED
  BY <1>1, <1>2, <1>3, <1>5

\* The client gives its socket up.
LEMMA ClientCloses ==
  ASSUME ClientInv, Quiet, NEW c \in Subs \cup {None}, sock \in {c, None}, Closes(c),
         UNCHANGED <<tally, current, got, refused>>, reader' \in {reader, "close", "off"},
         unused' = unused
  PROVE  ClientInv'
<1> USE DEF ClientInv, Closes
<1>0. None \notin Subs
  BY ServiceAssumption
<1>1. sock' = None /\ far' = {}
  BY <1>0 DEF SocketInv, ClientTypeInv
<1>2. \A s \in Subs : wire'[s] = <<>>
  BY <1>0 DEF SocketInv, ClientTypeInv
<1>3. ClientTypeInv'
  <2>1. wire' \in [Subs -> Seq(Frames)]
    BY <1>2, SeqEmpty
  <2> QED
    BY <1>1, <2>1 DEF ClientTypeInv, ReaderSteps
<1>4. SocketInv'
  BY <1>1, <1>2 DEF SocketInv
<1>5. TallyInv'
  <2>1. (tally.last # 0 \/ reader = "record") => current \in Subs
    BY DEF TallyInv, SocketInv
  <2>2. reader' = "record" => reader = "record"
    OBVIOUS
  <2> QED
    BY <2>1, <2>2 DEF TallyInv, Quiet, Explains, Below
<1>6. LineInv'
  BY <1>0, <1>1 DEF LineInv
<1> QED
  BY <1>3, <1>4, <1>5, <1>6

\* The client connects: reader is where the connection leaves it.
LEMMA ClientConnects ==
  ASSUME IInv, TurnInv, ClientInv, UNCHANGED <<vars, serverVars, got, refused>>,
         NEW s \in Subs, Connects(s), sock = None, current' \in {current, s},
         \/ reader' = "check"
         \/ reader' = "read" /\ current' = s
  PROVE  ClientInv'
<1> USE DEF ClientInv, Connects, Opens, Reachable, TallyAfterConnect
<1>0. None \notin Subs
  BY ServiceAssumption
<1>1. /\ sock' = s /\ far' = {s} /\ tally' = NoTally /\ wire' = wire
      /\ s \in unused /\ unused' = unused \ {s}
  BY <1>0 DEF SocketInv, ClientTypeInv
<1>2. \A t \in Subs : wire[t] = <<>>
  BY <1>0 DEF SocketInv
<1>3. ClientTypeInv'
  BY <1>1, NoTallyFacts DEF ClientTypeInv, ReaderSteps
<1>4. SocketInv'
  BY <1>1, <1>2 DEF SocketInv
<1>5. TallyInv'
  BY <1>1, NoTallyFacts DEF TallyInv
<1>6. LineOK(s)'
  <2>1. /\ Consumed' = 0 /\ Low' = NoTally /\ wire'[s] = <<>> /\ reader' # "record"
    BY <1>1, <1>2, NoTallyFacts DEF Consumed, Low
  <2>2. worker'[s] = "off" /\ delivery'[s] \in Deliveries
    BY <1>1 DEF TurnInv, IInv, TypeOK, vars, serverVars
  <2>3. Flow(joinedAt'[s].sequence, Consumed', Low', wire'[s], delivery'[s])
    BY <2>1, FlowEmpty
  <2>4. Below(Low', delivery'[s])
    BY <2>1, <2>2, NoTallyFacts
  <2> QED
    BY <1>1, <2>1, <2>2, <2>3, <2>4, LineNext
<1>7. LineInv'
  BY <1>1, <1>6 DEF LineInv
<1> QED
  BY <1>3, <1>4, <1>5, <1>7

\* ------------------------------------------------------------------ the worker
LEMMA SubscribeClient ==
  ASSUME IInv, ServerTypeInv, TurnInv, ClientInv, UNCHANGED <<socketVars, clientVars>>,
         NEW s \in Subs, worker[s] = "subscribe", Subscribe(s), Becomes(s, "serve")
  PROVE  ClientInv'
<1> USE DEF ClientInv, clientVars, socketVars
<1>1. /\ status[s] = "none" /\ status'[s] = "open"
      /\ \A t \in Subs : t # s => status'[t] = status[t] /\ joinedAt'[t] = joinedAt[t]
      /\ delivery' = delivery /\ counts' = counts
  BY DEF Subscribe, IInv, TypeOK, counterVars
<1>2. /\ worker'[s] = "serve" /\ \A t \in Subs : t # s => worker'[t] = worker[t]
  BY Moved DEF Places
<1>3. ClientTypeInv'
  BY DEF ClientTypeInv
<1>4. SocketInv'
  BY DEF SocketInv
<1>5. TallyInv'
  <2>1. (tally.last # 0 \/ reader = "record") => current # s /\ current \in Subs
    BY <1>1 DEF TallyInv, SocketInv
  <2>2. CASE tally.last = 0 /\ reader # "record"
    BY <2>2 DEF TallyInv
  <2>3. CASE current # s /\ current \in Subs
    BY <1>1, <2>3 DEF TallyInv
  <2> QED
    BY <2>1, <2>2, <2>3
<1>6. ASSUME NEW t \in Subs, t = sock PROVE LineOK(t)'
  <2>1. LineOK(t) /\ Consumed' = Consumed /\ Low' = Low /\ wire' = wire
    BY <1>6 DEF LineInv, Consumed, Low
  <2>2. CASE t = s
    <3>1. wire[s] = <<>> /\ tally = NoTally /\ reader # "record" /\ counts[s] = NoCounts
      BY <1>1, <2>1, <2>2 DEF LineOK, IInv, NewInv
    <3>2. Consumed' = 0 /\ Low' = NoTally /\ counts'[s].delivered = 0 /\ Len(wire'[s]) = 0
      BY <1>1, <2>1, <3>1, NoTallyFacts, SeqEmpty DEF Consumed, Low, NoCounts
    <3>3. Flow(joinedAt'[s].sequence, Consumed', Low', wire'[s], delivery'[s])
      BY <2>1, <3>1, FlowEmpty
    <3>4. Below(Low', delivery'[s])
      BY <1>1, <3>2, NoTallyFacts DEF IInv, TypeOK
    <3>5. counts'[s].delivered = Consumed' + Len(wire'[s]) + (IF worker'[s] = "send" THEN 1 ELSE 0)
      BY <1>2, <3>2
    <3> QED
      BY <1>1, <2>2, <3>3, <3>4, <3>5, LineNext
  <2>3. CASE t # s
    <3>1. Flow(joinedAt'[t].sequence, Consumed', Low', wire'[t], delivery'[t])
      BY <1>1, <2>1, <2>3 DEF LineOK
    <3>2. Below(Low', delivery'[t])
      BY <1>1, <2>1 DEF LineOK
    <3>3. worker'[t] \in {"serve", "send"} =>
            counts'[t].delivered = Consumed' + Len(wire'[t]) + (IF worker'[t] = "send" THEN 1 ELSE 0)
      BY <1>1, <1>2, <2>1, <2>3 DEF LineOK, InHand
    <3>4. status'[t] = "none" => wire'[t] = <<>> /\ tally' = NoTally /\ reader' # "record"
      BY <1>1, <2>1, <2>3 DEF LineOK
    <3> QED
      BY <3>1, <3>2, <3>3, <3>4, LineNext
  <2> QED
    BY <2>2, <2>3
<1>7. LineInv'
  BY <1>6 DEF LineInv
<1> QED
  BY <1>3, <1>4, <1>5, <1>7

LEMMA GetClient ==
  ASSUME IInv, CountInv, ServerTypeInv, ClientInv, UNCHANGED <<socketVars, clientVars>>,
         NEW s \in Subs, worker[s] = "serve", Get(s), Becomes(s, "send")
  PROVE  ClientInv'
<1> USE DEF ClientInv, clientVars, socketVars
<1>1. /\ UNCHANGED <<status, joinedAt>>
      /\ \A t \in Subs : t # s => delivery'[t] = delivery[t] /\ counts'[t] = counts[t]
      /\ counts'[s].delivered = counts[s].delivered + 1
  BY DeliverFacts DEF Get, Deliver
<1>2. /\ worker'[s] = "send" /\ \A t \in Subs : t # s => worker'[t] = worker[t]
  BY Moved DEF Places
<1>3. ClientTypeInv' /\ SocketInv' /\ TallyInv'
  BY <1>1 DEF ClientTypeInv, SocketInv, TallyInv
<1>4. Below(delivery[s], delivery'[s])
  BY DeliverFacts, ReportFacts DEF CountInv, Below
<1>5. /\ delivery[s] \in Deliveries /\ delivery'[s] \in Deliveries
      /\ Counters(delivery[s]) /\ Counters(delivery'[s])
  <2>1. delivery[s] \in Deliveries /\ delivery'[s] \in Deliveries
    BY DeliverFacts DEF IInv, TypeOK
  <2> QED
    BY <2>1, DeliveryFields DEF Counters
<1>6. ASSUME NEW t \in Subs, t = sock PROVE LineOK(t)'
  <2>1. LineOK(t) /\ Consumed' = Consumed /\ Low' = Low /\ wire' = wire
    BY <1>6 DEF LineInv, Consumed, Low
  <2>2. Counters(Low) /\ Consumed \in Nat
    BY LowFacts
  <2>3. wire[t] \in Seq(Frames)
    BY DEF ClientTypeInv
  <2>4. CASE t = s
    <3>1. Flow(joinedAt[s].sequence, Consumed, Low, wire[s], delivery[s]) /\ Below(Low, delivery[s])
      BY <2>1, <2>4 DEF LineOK
    <3>2. Below(Low, Low)
      BY <2>2, BelowFacts
    <3>3. Flow(joinedAt[s].sequence, Consumed, Low, wire[s], delivery'[s])
      BY <1>4, <1>5, <2>2, <2>3, <2>4, <3>1, <3>2, FlowBetween
    <3>4. Below(Low, delivery'[s])
      BY <1>4, <1>5, <2>2, <3>1, BelowFacts
    <3>5. counts[s].delivered = Consumed + Len(wire[s])
      BY <2>1, <2>2, <2>3, <2>4 DEF LineOK, InHand
    <3>6. status[s] # "none"
      BY DEF Get
    <3>7. Flow(joinedAt'[s].sequence, Consumed', Low', wire'[s], delivery'[s])
      BY <1>1, <2>1, <3>3
    <3>8. Below(Low', delivery'[s])
      BY <2>1, <3>4
    <3>9. counts'[s].delivered = Consumed' + Len(wire'[s]) + 1
      BY <1>1, <2>1, <3>5
    <3> QED
      BY <1>1, <1>2, <2>4, <3>6, <3>7, <3>8, <3>9, LineNext
  <2>5. CASE t # s
    <3>1. Flow(joinedAt'[t].sequence, Consumed', Low', wire'[t], delivery'[t])
      BY <1>1, <2>1, <2>5 DEF LineOK
    <3>2. Below(Low', delivery'[t])
      BY <1>1, <2>1, <2>5 DEF LineOK
    <3>3. worker'[t] \in {"serve", "send"} =>
            counts'[t].delivered = Consumed' + Len(wire'[t]) + (IF worker'[t] = "send" THEN 1 ELSE 0)
      BY <1>1, <1>2, <2>1, <2>5 DEF LineOK, InHand
    <3>4. status'[t] = "none" => wire'[t] = <<>> /\ tally' = NoTally /\ reader' # "record"
      BY <1>1, <2>1, <2>5 DEF LineOK
    <3> QED
      BY <3>1, <3>2, <3>3, <3>4, LineNext
  <2> QED
    BY <2>4, <2>5
<1>7. LineInv'
  BY <1>6 DEF LineInv
<1> QED
  BY <1>3, <1>7

\* The worker writes to a socket, or finds that it cannot.
LEMMA SendClient ==
  ASSUME IInv, ServerTypeInv, TurnInv, ClientInv, NEW s \in Subs, WorkerSend(s)
  PROVE  ClientInv'
<1> USE DEF ClientInv, clientVars
<1>1. /\ UNCHANGED <<vars, far, unused, clientVars>> /\ worker[s] = "send"
      /\ Quiet
  BY QuietOthers DEF WorkerSend
<1>2. CASE s \in near \cap far
  <2>1. s = sock /\ LineOK(s)
    BY <1>2 DEF SocketInv, LineInv
  <2>2. /\ wire[s] \in Seq(Frames) /\ delivery[s] \in Deliveries /\ delivery[s] \in Frames
        /\ wire \in [Subs -> Seq(Frames)] /\ Torn \in Frames
    BY TornFacts DEF ClientTypeInv, IInv, TypeOK
  <2>3. Counters(Low) /\ Consumed \in Nat
    BY LowFacts
  <2>4. Consumed' = Consumed /\ Low' = Low /\ UNCHANGED <<joinedAt, delivery, counts, status>>
    BY <1>1 DEF Consumed, Low, vars, counterVars
  <2>5. counts[s].delivered = Consumed + Len(wire[s]) + 1 /\ status[s] # "none"
    BY <1>1, <2>1 DEF LineOK, InHand, TurnInv
  <2>6. /\ Flow(joinedAt[s].sequence, Consumed, Low, wire[s], delivery[s])
        /\ Below(Low, delivery[s])
    BY <2>1 DEF LineOK
  <2>7. ASSUME NEW f \in Frames, wire' = [wire EXCEPT ![s] = Append(@, f)]
        PROVE  /\ wire'[s] = Append(wire[s], f) /\ \A t \in Subs : t # s => wire'[t] = wire[t]
               /\ wire' \in [Subs -> Seq(Frames)]
    <3>1. Append(wire[s], f) \in Seq(Frames)
      BY <2>2, SeqAppend
    <3> QED
      BY <2>2, <2>7, <3>1
  <2>8. ASSUME wire' \in [Subs -> Seq(Frames)], \A t \in Subs : t # s => wire'[t] = wire[t],
               LineOK(s)'
        PROVE  ClientInv'
    <3>1. ClientTypeInv'
      BY <1>1, <2>8 DEF ClientTypeInv
    <3>2. SocketInv'
      BY <1>1, <1>2, <2>8 DEF SocketInv
    <3>3. TallyInv'
      BY <1>1, <2>4 DEF TallyInv, Explains, Below
    <3>4. LineInv'
      BY <1>1, <2>1, <2>8 DEF LineInv
    <3> QED
      BY <3>1, <3>2, <3>3, <3>4
  <2>9. CASE Becomes(s, "serve") /\ wire' = [wire EXCEPT ![s] = Append(@, delivery[s])]
    <3>1. /\ wire'[s] = Append(wire[s], delivery[s])
          /\ \A t \in Subs : t # s => wire'[t] = wire[t]
          /\ wire' \in [Subs -> Seq(Frames)]
      BY <2>2, <2>7, <2>9
    <3>2. worker'[s] = "serve"
      BY <2>9, Moved DEF Places
    <3>3. delivery[s].sequence - joinedAt[s].sequence
            = Consumed + (Len(wire[s]) + 1) + delivery[s].dropped
      <4>1. delivery[s].sequence - joinedAt[s].sequence
              = counts[s].delivered + delivery[s].dropped
        BY <1>1 DEF TurnInv, IInv, DeliveryReportsGap
      <4>2. Len(wire[s]) \in Nat
        BY <2>2, SeqAppend
      <4> QED
        BY <2>3, <2>5, <4>1, <4>2
    <3>4. Flow(joinedAt[s].sequence, Consumed, Low, Append(wire[s], delivery[s]), delivery[s])
      BY <2>2, <2>3, <2>6, <3>3, FlowAppend
    <3>5. Flow(joinedAt'[s].sequence, Consumed', Low', wire'[s], delivery'[s])
      BY <2>4, <3>1, <3>4
    <3>6. Below(Low', delivery'[s])
      BY <2>4, <2>6
    <3>7. counts'[s].delivered = Consumed' + Len(wire'[s]) + (IF worker'[s] = "send" THEN 1 ELSE 0)
      <4>1. Len(wire'[s]) = Len(wire[s]) + 1 /\ Len(wire[s]) \in Nat
        BY <2>2, <3>1, SeqAppend
      <4> QED
        BY <2>3, <2>4, <2>5, <3>2, <4>1
    <3>8. LineOK(s)'
      BY <2>4, <2>5, <3>5, <3>6, <3>7, LineNext
    <3> QED
      BY <2>8, <3>1, <3>8
  <2>10. CASE Becomes(s, "finish") /\ wire' \in {wire, [wire EXCEPT ![s] = Append(@, Torn)]}
    <3>1. worker'[s] = "finish"
      BY <2>10, Moved DEF Places
    <3>2. CASE wire' = [wire EXCEPT ![s] = Append(@, Torn)]
      <4>1. /\ wire'[s] = Append(wire[s], Torn)
            /\ \A t \in Subs : t # s => wire'[t] = wire[t]
            /\ wire' \in [Subs -> Seq(Frames)]
        BY <2>2, <2>7, <3>2
      <4>2. Flow(joinedAt[s].sequence, Consumed, Low, Append(wire[s], Torn), delivery[s])
        BY <2>2, <2>6, FlowTorn
      <4>3. Flow(joinedAt'[s].sequence, Consumed', Low', wire'[s], delivery'[s])
        BY <2>4, <4>1, <4>2
      <4>4. Below(Low', delivery'[s])
        BY <2>4, <2>6
      <4>5. LineOK(s)'
        BY <2>4, <2>5, <3>1, <4>3, <4>4, LineNext
      <4> QED
        BY <2>8, <4>1, <4>5
    <3>3. CASE wire' = wire
      <4>1. \A t \in Subs : worker'[t] \in {"serve", "send"} => worker'[t] = worker[t]
        BY <2>10, Moved DEF Places
      <4> QED
        BY <1>1, <3>3, <4>1, ClientCalm DEF ServerTypeInv
    <3> QED
      BY <2>10, <3>2, <3>3
  <2> QED
    BY <1>2, <2>9, <2>10 DEF WorkerSend
<1>3. CASE s \notin near \cap far
  <2>1. Becomes(s, "finish") /\ wire' = wire
    BY <1>3 DEF WorkerSend
  <2>2. \A t \in Subs : worker'[t] \in {"serve", "send"} => worker'[t] = worker[t]
    BY <2>1, Moved DEF Places
  <2> QED
    BY <1>1, <2>1, <2>2, ClientCalm DEF ServerTypeInv
<1> QED
  BY <1>2, <1>3

\* ------------------------------------------------------------------ the reader
\* The client takes the frame at the head of its buffer.
LEMMA ReadClient ==
  ASSUME IInv, ServerTypeInv, TurnInv, ClientInv, UNCHANGED <<vars, serverVars, unused, tally, current, refused>>,
         reader = "read", current \in far, wire[current] # <<>>, Head(wire[current]) # Torn,
         got' = Head(wire[current]), wire' = [wire EXCEPT ![current] = Tail(@)],
         reader' = "record", UNCHANGED <<far, sock>>
  PROVE  ClientInv'
<1> USE DEF ClientInv
<1>1. PICK s \in Subs : s = current
  BY DEF SocketInv
<1>2. s = sock /\ LineOK(s) /\ UNCHANGED <<status, joinedAt, delivery, counts, worker>>
  BY <1>1 DEF SocketInv, LineInv, vars, counterVars, serverVars
<1>3. /\ wire[s] \in Seq(Frames) /\ delivery[s] \in Deliveries /\ joinedAt[s].sequence \in Nat
  BY PacketFacts DEF ClientTypeInv, IInv, TypeOK
<1>4. Counters(Low) /\ Consumed \in Nat /\ tally.received \in Nat
  BY LowFacts
<1>5. Consumed = tally.received + 0 /\ Low = tally
  BY DEF Consumed, Low
<1>6. Consumed' = tally.received + 1 /\ Low' = got'
  BY DEF Consumed, Low
<1>7. Flow(joinedAt[s].sequence, Consumed, Low, wire[s], delivery[s])
  BY <1>2 DEF LineOK
<1>8. /\ got' \in Deliveries /\ Below(Low, got') /\ Below(got', delivery[s])
      /\ got'.sequence - joinedAt[s].sequence = Consumed + 1 + got'.dropped
      /\ Flow(joinedAt[s].sequence, Consumed + 1, got', Tail(wire[s]), delivery[s])
  BY <1>1, <1>3, <1>4, <1>7, FlowTail
<1>9. /\ Tail(wire[s]) \in Seq(Frames) /\ Len(wire[s]) \in Nat /\ Len(Tail(wire[s])) = Len(wire[s]) - 1
  BY <1>1, <1>3, SeqTail
<1>10. /\ wire'[s] = Tail(wire[s]) /\ \A t \in Subs : t # s => wire'[t] = wire[t]
       /\ wire' \in [Subs -> Seq(Frames)]
  BY <1>1, <1>9 DEF ClientTypeInv
<1>11. ClientTypeInv'
  BY <1>8, <1>10 DEF ClientTypeInv, ReaderSteps
<1>12. SocketInv'
  BY <1>1, <1>2, <1>10 DEF SocketInv
<1>13. status[s] # "none"
  BY <1>1, <1>2 DEF LineOK
<1>14. TallyInv'
  <2>1. got'.sequence - joinedAt[s].sequence = tally.received + 1 + got'.dropped
    BY <1>4, <1>5, <1>8
  <2>2. Below(tally, got')
    BY <1>5, <1>8
  <2> QED
    BY <1>1, <1>2, <1>13, <2>1, <2>2 DEF TallyInv, Explains, Below
<1>15. LineOK(s)'
  <2>1. Consumed' = Consumed + 1
    BY <1>4, <1>5, <1>6
  <2>2. Flow(joinedAt'[s].sequence, Consumed', Low', wire'[s], delivery'[s])
    BY <1>2, <1>6, <1>8, <1>10, <2>1
  <2>3. Below(Low', delivery'[s])
    BY <1>2, <1>6, <1>8
  <2>4. worker'[s] \in {"serve", "send"} =>
          counts'[s].delivered = Consumed' + Len(wire'[s]) + (IF worker'[s] = "send" THEN 1 ELSE 0)
    <3>1. worker[s] \in {"serve", "send"} =>
            counts[s].delivered = Consumed + Len(wire[s]) + InHand(s)
      BY <1>2 DEF LineOK
    <3>2. InHand(s) \in Nat /\ InHand(s) = (IF worker'[s] = "send" THEN 1 ELSE 0)
      BY <1>2 DEF InHand
    <3>3. Len(wire'[s]) = Len(wire[s]) - 1
      BY <1>9, <1>10
    <3>4. counts'[s].delivered = counts[s].delivered /\ worker'[s] = worker[s]
      BY <1>2
    <3>5. Consumed' + Len(wire'[s]) + InHand(s) = Consumed + Len(wire[s]) + InHand(s)
      <4>1. PICK k \in Nat : k = Consumed
        BY <1>4
      <4>2. PICK l \in Nat : l = Len(wire[s])
        BY <1>9
      <4>3. PICK h \in Nat : h = InHand(s)
        BY <3>2
      <4>4. Consumed' = k + 1 /\ Len(wire'[s]) = l - 1
        BY <2>1, <3>3, <4>1, <4>2
      <4>5. (k + 1) + (l - 1) + h = k + l + h
        OBVIOUS
      <4> QED
        BY <4>1, <4>2, <4>3, <4>4, <4>5
    <3>6. worker[s] \in {"serve", "send"} =>
            counts'[s].delivered = Consumed' + Len(wire'[s]) + InHand(s)
      BY <3>1, <3>4, <3>5
    <3> QED
      BY <3>2, <3>4, <3>6
  <2> QED
    BY <1>2, <1>13, <2>2, <2>3, <2>4, LineNext
<1>16. LineInv'
  BY <1>2, <1>15 DEF LineInv
<1> QED
  BY <1>11, <1>12, <1>14, <1>16

\* The frame just read never contradicts the ones before it.
LEMMA NeverContradicts ==
  ASSUME IInv, ClientInv, reader = "record"
  PROVE  /\ ~Contradicts(got)
         /\ Recorded(got) \in Tallies /\ Recorded(got).last # 0
         /\ Recorded(got).received = tally.received + 1
         /\ Explains(Recorded(got), joinedAt[current].sequence)
         /\ Below(Recorded(got), got) /\ Below(got, Recorded(got))
<1> USE DEF ClientInv
<1>1. /\ got \in Deliveries /\ tally \in Tallies /\ joinedAt[current].sequence \in Nat
  BY PacketFacts DEF ClientTypeInv, SocketInv, IInv, TypeOK
<1>2. PICK J \in Nat : J = joinedAt[current].sequence
  BY <1>1
<1>3. /\ tally.received \in Nat /\ tally.first \in Nat /\ tally.last \in Nat
      /\ tally.skipped \in Int /\ tally.dropped \in Nat /\ tally.bytesDropped \in Nat
      /\ tally.overflows \in Nat
      /\ got.sequence \in Nat /\ got.dropped \in Nat /\ got.bytesDropped \in Nat
      /\ got.overflows \in Nat
  BY <1>1, DeliveryFields, TallyFields
<1>4. /\ got.sequence - J = tally.received + 1 + got.dropped
      /\ tally.dropped <= got.dropped /\ tally.bytesDropped <= got.bytesDropped
      /\ tally.overflows <= got.overflows
  BY <1>2 DEF TallyInv, Below
<1>5. tally.last # 0 => /\ tally.last - J = tally.received + tally.dropped
                        /\ tally.skipped = tally.dropped - (tally.first - J - 1)
  BY <1>2 DEF TallyInv, Explains
<1>6. tally.last = 0 => tally.received = 0 /\ tally.skipped = 0
  BY DEF TallyInv, NoTally
<1>7. ~Contradicts(got)
  BY <1>3, <1>4, <1>5 DEF Contradicts
<1>8. /\ Recorded(got).received = tally.received + 1
      /\ Recorded(got).first = IF tally.last = 0 THEN got.sequence ELSE tally.first
      /\ Recorded(got).last = got.sequence
      /\ Recorded(got).skipped
           = tally.skipped + (IF tally.last = 0 THEN 0 ELSE got.sequence - tally.last - 1)
      /\ Recorded(got).dropped = got.dropped /\ Recorded(got).bytesDropped = got.bytesDropped
      /\ Recorded(got).overflows = got.overflows
  BY DEF Recorded
<1>9. Recorded(got) \in Tallies
  BY <1>3 DEF Recorded, Tallies
<1>10. Below(Recorded(got), got) /\ Below(got, Recorded(got))
  BY <1>3, <1>8 DEF Below
<1>11. got.sequence # 0
  BY <1>3, <1>4
<1>12. Explains(Recorded(got), J)
  <2>1. Recorded(got).received >= 1 /\ Recorded(got).last - J = Recorded(got).received + Recorded(got).dropped
    BY <1>3, <1>4, <1>8
  <2>2. Recorded(got).skipped = Recorded(got).dropped - (Recorded(got).first - J - 1)
    <3>1. CASE tally.last = 0
      <4>1. got.sequence - J = 1 + got.dropped
        BY <1>3, <1>4, <1>6, <3>1
      <4> QED
        BY <1>3, <1>6, <1>8, <3>1, <4>1
    <3>2. CASE tally.last # 0
      BY <1>3, <1>4, <1>5, <1>8, <3>2
    <3> QED
      BY <3>1, <3>2
  <2> QED
    BY <2>1, <2>2 DEF Explains
<1> QED
  BY <1>2, <1>7, <1>8, <1>9, <1>10, <1>11, <1>12

LEMMA RecordClient ==
  ASSUME IInv, ClientInv, ReaderRecord PROVE ClientInv'
<1> USE DEF ClientInv
<1>1. /\ reader = "record" /\ reader' = "check" /\ tally' = Recorded(got)
      /\ UNCHANGED <<refused, far, wire, sock, unused, current, worker, vars>> /\ got' = NoDelivery
  BY NeverContradicts DEF ReaderRecord, serverVars
<1>2. /\ tally' \in Tallies /\ tally'.last # 0 /\ tally'.received = tally.received + 1
      /\ Explains(tally', joinedAt[current].sequence)
      /\ Below(tally', got) /\ Below(got, tally')
  BY <1>1, NeverContradicts
<1>3. NoDelivery \in Deliveries
  BY DEF NoDelivery, Deliveries
<1>4. ClientTypeInv'
  BY <1>1, <1>2, <1>3 DEF ClientTypeInv, ReaderSteps
<1>5. SocketInv'
  BY <1>1 DEF SocketInv
<1>6. UNCHANGED <<status, joinedAt, delivery, counts>>
  BY <1>1 DEF vars, counterVars
<1>7. TallyInv'
  <2>1. current \in Subs /\ status[current] # "none" /\ ~refused
    BY <1>1 DEF SocketInv, TallyInv
  <2> QED
    BY <1>1, <1>2, <1>6, <2>1 DEF TallyInv, Explains
<1>8. ASSUME NEW s \in Subs, s = sock PROVE LineOK(s)'
  <2>0. None \notin Subs
    BY ServiceAssumption
  <2>1. LineOK(s) /\ wire[s] \in Seq(Frames) /\ s = current
    <3>1. LineOK(s)
      BY <1>8 DEF LineInv
    <3>2. wire[s] \in Seq(Frames)
      BY DEF ClientTypeInv
    <3>3. s = current
      BY <1>1, <1>8, <2>0 DEF SocketInv
    <3> QED
      BY <3>1, <3>2, <3>3
  <2>2. tally.received \in Nat /\ got \in Deliveries /\ delivery[s] \in Deliveries
    BY LowFacts DEF ClientTypeInv, IInv, TypeOK
  <2>3. Consumed = tally.received + 1 /\ Low = got /\ Consumed' = tally.received + 1 + 0
    BY <1>1, <1>2 DEF Consumed, Low
  <2>4. Consumed' = Consumed /\ Low' = tally'
    BY <1>1, <2>2, <2>3 DEF Low
  <2>5. Counters(tally') /\ Counters(got) /\ Counters(delivery[s])
    BY <1>2, <2>2, TallyFields, DeliveryFields DEF Counters
  <2>6. /\ Flow(joinedAt[s].sequence, Consumed, got, wire[s], delivery[s])
        /\ Below(got, delivery[s])
    BY <2>1, <2>3 DEF LineOK
  <2>7. Below(delivery[s], delivery[s])
    BY <2>5, BelowFacts
  <2>8. PICK t : t = tally'
    OBVIOUS
  <2>9. Flow(joinedAt[s].sequence, Consumed, t, wire[s], delivery[s]) /\ Below(t, delivery[s])
    BY <1>2, <2>1, <2>5, <2>6, <2>7, <2>8, FlowBetween, BelowFacts
  <2>10. Flow(joinedAt'[s].sequence, Consumed', Low', wire'[s], delivery'[s])
    BY <1>1, <1>6, <2>4, <2>8, <2>9
  <2>11. Below(Low', delivery'[s])
    BY <1>6, <2>4, <2>8, <2>9
  <2>12. worker'[s] \in {"serve", "send"} =>
           counts'[s].delivered = Consumed' + Len(wire'[s]) + (IF worker'[s] = "send" THEN 1 ELSE 0)
    BY <1>1, <1>6, <2>1, <2>4 DEF LineOK, InHand
  <2>13. status'[s] # "none"
    BY <1>1, <1>6, <2>1 DEF TallyInv
  <2> QED
    BY <2>10, <2>11, <2>12, <2>13, LineNext
<1>9. LineInv'
  BY <1>1, <1>8 DEF LineInv
<1> QED
  BY <1>4, <1>5, <1>7, <1>9

\* ------------------------------------------------------------- every step
LEMMA ClientStep ==
  ASSUME IInv, CountInv, ServerTypeInv, TurnInv, ClientInv, [ServiceNext]_serviceVars,
         ServerTypeInv'
  PROVE  ClientInv'
<1>0. UNCHANGED vars => Quiet
  BY QuietOthers
<1>1. ASSUME Quiet, UNCHANGED <<far, wire, clientVars, worker>>,
             \A s \in Subs : s \in unused' => s \in unused
      PROVE  ClientInv'
  BY <1>1, ClientCalm DEF ServerTypeInv
<1>2. CASE Start \/ StopBegin \/ StopSockets \/ StopJoin \/ AcceptEnds \/ AcceptBreaks
  BY <1>0, <1>1, <1>2 DEF Start, StopBegin, StopSockets, StopJoin, AcceptEnds, AcceptBreaks,
                          socketVars
<1>3. CASE StopStream
  BY <1>1, <1>3, QuietOthers DEF StopStream, socketVars
<1>4. CASE Visit
  BY <1>1, <1>4, QuietVisit DEF Visit, socketVars, serverVars
<1>5. CASE Audio
  BY <1>1, <1>5, QuietOthers DEF Audio, socketVars, serverVars
<1>6. ASSUME NEW s \in Subs, Accept(s) PROVE ClientInv'
  BY <1>0, <1>1, <1>6 DEF Accept
<1>7. ASSUME Quiet, UNCHANGED <<far, wire, unused, clientVars>>, NEW s \in Subs,
             NEW place \in {"subscribe", "finish", "release", "off"}, Becomes(s, place)
      PROVE  ClientInv'
  <2>1. \A t \in Subs : worker'[t] \in {"serve", "send"} => worker'[t] = worker[t]
    BY <1>7, Moved DEF Places
  <2> QED
    BY <1>7, <2>1, ClientCalm DEF ServerTypeInv
<1>8. ASSUME NEW s \in Subs, Admit(s) PROVE ClientInv'
  <2>1. CASE UNCHANGED worker
    BY <1>0, <1>1, <1>8, <2>1 DEF Admit
  <2>2. CASE Becomes(s, "subscribe")
    BY <1>0, <1>7, <1>8, <2>2 DEF Admit
  <2> QED
    BY <1>8, <2>1, <2>2 DEF Admit, Becomes
<1>9. ASSUME NEW s \in Subs, Worker(s) PROVE ClientInv'
  <2>1. CASE WorkerSubscribe(s)
    <3>1. UNCHANGED <<socketVars, clientVars>> /\ worker[s] = "subscribe"
      BY <2>1 DEF WorkerSubscribe
    <3>2. CASE Subscribe(s) /\ Becomes(s, "serve")
      BY <3>1, <3>2, SubscribeClient
    <3>3. CASE Becomes(s, "release") /\ UNCHANGED vars
      BY <1>0, <1>7, <3>1, <3>3 DEF socketVars
    <3> QED
      BY <2>1, <3>2, <3>3 DEF WorkerSubscribe
  <2>2. CASE WorkerGet(s)
    BY <2>2, GetClient DEF WorkerGet
  <2>3. CASE WorkerLeave(s)
    BY <1>0, <1>7, <2>3 DEF WorkerLeave, socketVars
  <2>4. CASE WorkerSend(s)
    BY <2>4, SendClient
  <2>5. CASE WorkerFinish(s)
    <3>1. UNCHANGED <<socketVars, clientVars>> /\ Becomes(s, "release")
      BY <2>5 DEF WorkerFinish
    <3>2. Quiet
      BY <1>0, <2>5, QuietClose DEF WorkerFinish
    <3> QED
      BY <1>7, <3>1, <3>2 DEF socketVars
  <2>6. CASE WorkerRelease(s)
    BY <1>0, <1>7, <2>6 DEF WorkerRelease
  <2> QED
    BY <1>9, <2>1, <2>2, <2>3, <2>4, <2>5, <2>6 DEF Worker
<1>10. ASSUME NEW s \in Subs, AudioStart(s) PROVE ClientInv'
  <2>1. sock = None
    BY <1>10 DEF AudioStart, ClientInv, SocketInv
  <2> QED
    BY <1>10, <2>1, ClientConnects DEF AudioStart
<1>11. CASE ReaderReceive
  <2>1. CASE sock = None /\ \E s \in Subs : Connects(s) /\ current' = s /\ reader' = "read"
    BY <1>11, <2>1, ClientConnects DEF ReaderReceive
  <2>2. CASE /\ reader = "receive" /\ UNCHANGED <<vars, serverVars, socketVars, sock, tally, got, refused>>
             /\ \/ sock # None /\ current' = sock /\ reader' = "read"
                \/ sock = None /\ UNCHANGED current /\ reader' = "close"
    <3> USE DEF ClientInv
    <3>1. UNCHANGED <<status, joinedAt, delivery, counts, worker, far, wire, unused>>
      BY <2>2 DEF vars, counterVars, serverVars, socketVars
    <3>2. ClientTypeInv'
      BY <2>2, <3>1 DEF ClientTypeInv, ReaderSteps
    <3>3. SocketInv'
      BY <2>2, <3>1 DEF SocketInv, ClientTypeInv
    <3>4. tally.last # 0 => current' = current
      BY <2>2, NoTallyFacts DEF SocketInv
    <3>5. TallyInv'
      BY <2>2, <3>1, <3>4 DEF TallyInv, Explains
    <3>6. ASSUME NEW s \in Subs, s = sock PROVE LineOK(s)'
      <4>1. LineOK(s)
        BY <3>6 DEF LineInv
      <4>2. Consumed' = Consumed /\ Low' = Low /\ reader' # "record"
        BY <2>2 DEF Consumed, Low
      <4>3. Flow(joinedAt'[s].sequence, Consumed', Low', wire'[s], delivery'[s])
        BY <3>1, <4>1, <4>2 DEF LineOK
      <4>4. Below(Low', delivery'[s])
        BY <3>1, <4>1, <4>2 DEF LineOK
      <4>5. worker'[s] \in {"serve", "send"} =>
              counts'[s].delivered = Consumed' + Len(wire'[s]) + (IF worker'[s] = "send" THEN 1 ELSE 0)
        BY <3>1, <4>1, <4>2 DEF LineOK, InHand
      <4>6. status'[s] = "none" => wire'[s] = <<>> /\ tally' = NoTally
        BY <2>2, <3>1, <4>1 DEF LineOK
      <4> QED
        BY <4>2, <4>3, <4>4, <4>5, <4>6, LineNext
    <3>7. LineInv'
      BY <2>2, <3>6 DEF LineInv
    <3> QED
      BY <3>2, <3>3, <3>5, <3>7
  <2> QED
    BY <1>11, <2>1, <2>2 DEF ReaderReceive
<1>12. CASE ReaderRead
  <2>1. CASE UNCHANGED sock /\ reader' = "record"
    BY <1>12, <2>1, ReadClient DEF ReaderRead
  <2>2. CASE Closes(current) /\ reader' = "close" /\ UNCHANGED got
    <3>1. sock \in {current, None} /\ current \in Subs
      BY <1>12 DEF ReaderRead, ClientInv, SocketInv
    <3> QED
      BY <1>0, <1>12, <2>2, <3>1, ClientCloses DEF ReaderRead
  <2> QED
    BY <1>12, <2>1, <2>2 DEF ReaderRead
<1>13. CASE ReaderRecord
  BY <1>13, RecordClient
<1>14. CASE ReaderClose \/ AudioClose
  <2>1. sock \in Subs \cup {None}
    BY DEF ClientInv, ClientTypeInv
  <2> QED
    BY <1>0, <1>14, <2>1, ClientCloses DEF ReaderClose, AudioClose
<1>15. CASE /\ UNCHANGED <<vars, serverVars, socketVars, sock, tally, current, got, refused>>
            /\ reader' = reader \/ (reader = "check" /\ reader' \in {"receive", "close"})
  <2> USE DEF ClientInv
  <2>1. UNCHANGED <<status, joinedAt, delivery, counts, worker, far, wire, unused>>
    BY <1>15 DEF vars, counterVars, serverVars, socketVars
  <2>2. ClientTypeInv'
    BY <1>15, <2>1 DEF ClientTypeInv, ReaderSteps
  <2>3. SocketInv'
    BY <1>15, <2>1 DEF SocketInv
  <2>4. TallyInv'
    BY <1>15, <2>1 DEF TallyInv, Explains, Below
  <2>5. ASSUME NEW s \in Subs, s = sock PROVE LineOK(s)'
    <3>1. LineOK(s)
      BY <2>5 DEF LineInv
    <3>2. Consumed' = Consumed /\ Low' = Low
      BY <1>15 DEF Consumed, Low
    <3>3. Flow(joinedAt'[s].sequence, Consumed', Low', wire'[s], delivery'[s])
      BY <2>1, <3>1, <3>2 DEF LineOK
    <3>4. Below(Low', delivery'[s])
      BY <2>1, <3>1, <3>2 DEF LineOK
    <3>5. worker'[s] \in {"serve", "send"} =>
            counts'[s].delivered = Consumed' + Len(wire'[s]) + (IF worker'[s] = "send" THEN 1 ELSE 0)
      BY <2>1, <3>1, <3>2 DEF LineOK, InHand
    <3>6. status'[s] = "none" => wire'[s] = <<>> /\ tally' = NoTally /\ reader' # "record"
      BY <1>15, <2>1, <3>1 DEF LineOK
    <3> QED
      BY <3>3, <3>4, <3>5, <3>6, LineNext
  <2>6. LineInv'
    BY <1>15, <2>5 DEF LineInv
  <2> QED
    BY <2>2, <2>3, <2>4, <2>6
<1>16. CASE ReaderCheck \/ AudioStop \/ AudioJoin
  BY <1>15, <1>16 DEF ReaderCheck, AudioStop, AudioJoin
<1>17. CASE UNCHANGED serviceVars
  BY <1>15, <1>17 DEF serviceVars, clientVars
<1> QED
  BY <1>2, <1>3, <1>4, <1>5, <1>6, <1>8, <1>9, <1>10, <1>11, <1>12, <1>13, <1>14, <1>16, <1>17
     DEF ServiceNext, Acceptor, Receiver, Stopping

\* ---------------------------------------------------------------- the theorems
LEMMA ServiceStart == ServiceInit => ServiceInv
<1> SUFFICES ASSUME ServiceInit PROVE ServiceInv
  OBVIOUS
<1> USE DEF ServiceInit
<1>1. IInv
  BY InitIInv
<1>2. CountInv
  BY DEF CountInv, Init, NoDelivery, NoCounts, NoBytes
<1>3. ServerTypeInv /\ TurnInv
  BY ServiceAssumption DEF ServerTypeInv, TurnInv, Places, Init
<1>4. NoDelivery \in Deliveries
  BY DEF NoDelivery, Deliveries
<1>5. ClientTypeInv
  BY <1>4, NoTallyFacts, SeqEmpty DEF ClientTypeInv, ReaderSteps
<1>6. SocketInv /\ TallyInv /\ LineInv
  BY ServiceAssumption, NoTallyFacts DEF SocketInv, TallyInv, LineInv
<1> QED
  BY <1>1, <1>2, <1>3, <1>5, <1>6 DEF ServiceInv, ClientInv

\* The numbering of the deliveries holds throughout, for any number of
\* connections and any capacities.
THEOREM ServiceInvariance == ServiceSpec => []ServiceInv
<1>1. ASSUME ServiceInv, [ServiceNext]_serviceVars PROVE ServiceInv'
  <2>1. IInv' /\ CountInv'
    BY <1>1, InnerStep, NextIInv, CountStep DEF ServiceInv
  <2>2. ServerTypeInv' /\ TurnInv'
    BY <1>1, ServerStep DEF ServiceInv
  <2>3. ClientInv'
    BY <1>1, <2>2, ClientStep DEF ServiceInv, ClientInv
  <2> QED
    BY <2>1, <2>2, <2>3 DEF ServiceInv, ClientInv
<1> QED
  BY <1>1, ServiceStart, PTL DEF ServiceSpec

\* No frame this server sends is refused as contradicting the ones before, and
\* through overflows, torn frames and reconnections the client's statistics
\* account for every packet up to the last it received.
THEOREM LossIsKnown == ServiceSpec => []ClientKnowsLoss
<1>1. ServiceInv => ClientKnowsLoss
  BY DEF ServiceInv, ClientInv, TallyInv, Explains, ClientKnowsLoss
<1> QED
  BY <1>1, ServiceInvariance, PTL

\* Inside the service the publisher still is the lossy feed: packets reach a
\* consumer at most once, in order, and never after the close.
THEOREM ServiceFeed == ServiceSpec => FeedSpec
  BY PublisherInside, ImplementsFeed

===============================================================================

------------------------------ MODULE DaemonEvents ------------------------------
(***************************************************************************)
(* The daemon's event stream: DaemonEventStream turns the callbacks of the *)
(* runtime, scanner, audio, router and recording manager into one sequence *)
(* of events, and DaemonEventPublisher hands them to bounded, isolated     *)
(* subscriptions (daemon_events.py, daemon_event_stream.py).               *)
(*                                                                         *)
(* A source is one of those callback owners.  Its state changes first and  *)
(* its callback runs afterwards, on the source's own thread, so a change   *)
(* may be visible in a snapshot before its event is published.  publish,   *)
(* subscribe and close hold the publisher lock for several steps, between  *)
(* which sources change and consumers take events from their queues.       *)
(***************************************************************************)
EXTENDS Integers, Sequences, FiniteSetsExt

CONSTANTS
  Subs,            \* identities of the subscription objects
  Sources,         \* the callback owners whose state the events report
  QueueCapacity,   \* queue_capacity
  MaxSubscribers,  \* max_subscribers
  MaxChanges       \* bound: state changes of the sources together

ASSUME EventsAssumption ==
  /\ QueueCapacity \in Nat /\ QueueCapacity >= 2
  /\ MaxSubscribers \in Nat \ {0}
  /\ MaxChanges \in Nat
  /\ "snapshot" \notin Sources

VARIABLES
  state,          \* current state of each source, as a version number
  emitted,        \* the version of each source last handed to its callback
  rejected,       \* an event was refused for its encoded size
  sequence,       \* DaemonEventPublisher._sequence
  closed,         \* DaemonEventPublisher._closed
  subscriptions,  \* DaemonEventPublisher._subscriptions
  holder,         \* what the thread that owns the publisher lock is doing
  targets,        \* subscriptions it has still to visit
  draft,          \* the event it is publishing, or the snapshot it is building
  status,         \* each subscription: "none", "open" or "closed"
  queue,          \* DaemonEventSubscription._queue
  dropped,        \* DaemonEventSubscription._dropped_events
  start,          \* the sequence number of a subscription's snapshot
  seen,           \* sequence number of the last event its consumer took, or -1
  received,       \* events its consumer took, the snapshot not counted
  view            \* what the consumer believes of each source

sourceVars == <<state, emitted, rejected>>
publisherVars == <<sequence, closed, subscriptions, holder, targets, draft>>
consumerVars == <<seen, received, view>>
vars == <<sourceVars, publisherVars, status, queue, dropped, start, consumerVars>>

Versions == [Sources -> Nat]
Kinds == Sources \cup {"snapshot"}

\* A snapshot carries the version of every source, any other event one version.
Snapshot(n, versions) == [kind |-> "snapshot", sequence |-> n, payload |-> versions]
Change(n, src, v) == [kind |-> src, sequence |-> n, payload |-> [x \in {src} |-> v]]
NoVersions == [x \in {} |-> 0]
NoDraft == Snapshot(0, NoVersions)

\* ------------------------------------------------------------------ sources
SourceChange(src) ==
  /\ MapThenSumSet(LAMBDA x : state[x], Sources) < MaxChanges
  /\ state' = [state EXCEPT ![src] = @ + 1]
  /\ UNCHANGED <<emitted, rejected, publisherVars, status, queue, dropped, start, consumerVars>>

\* ---------------------------------------------------------------- publisher
\* _publish and publish: a callback numbers its event and visits every
\* subscription, in any order, under the lock.
PublishBegin(src) ==
  /\ holder = "free" /\ ~closed
  /\ emitted[src] < state[src]
  /\ emitted' = [emitted EXCEPT ![src] = @ + 1]
  /\ sequence' = sequence + 1
  /\ draft' = Change(sequence + 1, src, emitted[src] + 1)
  /\ targets' = subscriptions
  /\ holder' = IF subscriptions = {} THEN "free" ELSE "publish"
  /\ UNCHANGED <<state, rejected, closed, subscriptions, status, queue, dropped,
                 start, consumerVars>>

\* _require_event_size raises before the sequence moves; EventBus.emit
\* swallows the error, so the change is never announced.
PublishOversized(src) ==
  /\ holder = "free" /\ ~closed
  /\ emitted[src] < state[src]
  /\ emitted' = [emitted EXCEPT ![src] = @ + 1]
  /\ rejected' = TRUE
  /\ UNCHANGED <<state, publisherVars, status, queue, dropped, start, consumerVars>>

\* A callback that finds the stream closed returns.
PublishClosed(src) ==
  /\ closed
  /\ emitted[src] < state[src]
  /\ emitted' = [emitted EXCEPT ![src] = @ + 1]
  /\ UNCHANGED <<state, rejected, publisherVars, status, queue, dropped, start, consumerVars>>

\* Mutant: a drop behind the snapshot is not counted.
DropCountOldestOnly(q) ==
  IF Len(q) < QueueCapacity \/ q[1].kind = "snapshot" THEN 0 ELSE 1

\* The full queue of a subscription loses its oldest event, except that a
\* snapshot at the head stays and the event behind it goes.
MakeRoom(q) ==
  IF Len(q) < QueueCapacity THEN q
  ELSE IF q[1].kind = "snapshot" THEN <<q[1]>> \o Tail(Tail(q))
  ELSE Tail(q)

DropCount(q) == IF Len(q) < QueueCapacity THEN 0 ELSE 1

\* The lock is released with the last subscription visited.
Visited(s) ==
  /\ targets' = targets \ {s}
  /\ holder' = IF targets = {s} THEN "free" ELSE holder

\* Mutant: a full queue refuses the new event instead.
EnqueueRefusing(s) ==
  /\ holder = "publish" /\ s \in targets
  /\ Visited(s)
  /\ IF Len(queue[s]) < QueueCapacity
     THEN queue' = [queue EXCEPT ![s] = Append(@, draft)] /\ UNCHANGED dropped
     ELSE dropped' = [dropped EXCEPT ![s] = @ + 1] /\ UNCHANGED queue
  /\ UNCHANGED <<sourceVars, sequence, closed, subscriptions, draft, status, start, consumerVars>>

Enqueue(s) ==
  /\ holder = "publish" /\ s \in targets
  /\ Visited(s)
  /\ queue' = [queue EXCEPT ![s] = Append(MakeRoom(@), draft)]
  /\ dropped' = [dropped EXCEPT ![s] = @ + DropCount(queue[s])]
  /\ UNCHANGED <<sourceVars, sequence, closed, subscriptions, draft, status, start, consumerVars>>

\* Mutant: the snapshot is given the number of the next event.
SubscribeBeginAhead(s) ==
  /\ holder = "free" /\ ~closed
  /\ status[s] = "none"
  /\ Cardinality(subscriptions) < MaxSubscribers
  /\ holder' = "subscribe" /\ targets' = {s}
  /\ draft' = Snapshot(sequence + 1, NoVersions)
  /\ UNCHANGED <<sourceVars, sequence, closed, subscriptions, status, queue, dropped,
                 start, consumerVars>>

\* subscribe: the snapshot is numbered first and then reads one source after
\* the other, while the sources go on changing.
SubscribeBegin(s) ==
  /\ holder = "free" /\ ~closed
  /\ status[s] = "none"
  /\ Cardinality(subscriptions) < MaxSubscribers
  /\ holder' = "subscribe" /\ targets' = {s}
  /\ draft' = Snapshot(sequence, NoVersions)
  /\ UNCHANGED <<sourceVars, sequence, closed, subscriptions, status, queue, dropped,
                 start, consumerVars>>

WithVersion(snapshot, src, v) ==
  [snapshot EXCEPT !.payload = [x \in DOMAIN @ \cup {src} |-> IF x = src THEN v ELSE @[x]]]

SubscribeRead(src) ==
  /\ holder = "subscribe" /\ src \notin DOMAIN draft.payload
  /\ draft' = WithVersion(draft, src, state[src])
  /\ UNCHANGED <<sourceVars, sequence, closed, subscriptions, holder, targets, status,
                 queue, dropped, start, consumerVars>>

SubscribeEnd(s) ==
  /\ holder = "subscribe" /\ targets = {s} /\ DOMAIN draft.payload = Sources
  /\ holder' = "free" /\ targets' = {}
  /\ subscriptions' = subscriptions \cup {s}
  /\ status' = [status EXCEPT ![s] = "open"]
  /\ queue' = [queue EXCEPT ![s] = <<draft>>]
  /\ start' = [start EXCEPT ![s] = draft.sequence]
  /\ UNCHANGED <<sourceVars, sequence, closed, draft, dropped, consumerVars>>

\* A snapshot over the size limit fails the subscribe call.
SubscribeOversized ==
  /\ holder = "subscribe" /\ DOMAIN draft.payload = Sources
  /\ holder' = "free" /\ targets' = {}
  /\ UNCHANGED <<sourceVars, sequence, closed, subscriptions, draft, status, queue,
                 dropped, start, consumerVars>>

\* _close_from_publisher: the queue is emptied with the flag.
CloseFromPublisher(s) ==
  /\ status' = [status EXCEPT ![s] = "closed"]
  /\ queue' = [queue EXCEPT ![s] = <<>>]

CloseSubscription(s) ==
  /\ holder = "free" /\ s \in subscriptions
  /\ subscriptions' = subscriptions \ {s}
  /\ CloseFromPublisher(s)
  /\ UNCHANGED <<sourceVars, sequence, closed, holder, targets, draft, dropped, start, consumerVars>>

CloseBegin ==
  /\ holder = "free" /\ ~closed
  /\ closed' = TRUE
  /\ targets' = subscriptions /\ subscriptions' = {}
  /\ holder' = IF subscriptions = {} THEN "free" ELSE "close"
  /\ UNCHANGED <<sourceVars, sequence, draft, status, queue, dropped, start, consumerVars>>

CloseOne(s) ==
  /\ holder = "close" /\ s \in targets
  /\ Visited(s)
  /\ CloseFromPublisher(s)
  /\ UNCHANGED <<sourceVars, sequence, closed, subscriptions, draft, dropped, start, consumerVars>>

\* ----------------------------------------------------------------- consumer
\* get: needs only the subscription's own condition, never the publisher lock.
Get(s) ==
  /\ status[s] = "open" /\ queue[s] # <<>>
  /\ LET event == Head(queue[s]) IN
       /\ seen' = [seen EXCEPT ![s] = event.sequence]
       /\ received' = [received EXCEPT ![s] = @ + IF event.kind = "snapshot" THEN 0 ELSE 1]
       /\ view' = [view EXCEPT ![s] =
                     [x \in Sources |-> IF x \in DOMAIN event.payload
                                        THEN event.payload[x] ELSE @[x]]]
  /\ queue' = [queue EXCEPT ![s] = Tail(@)]
  /\ UNCHANGED <<sourceVars, publisherVars, status, dropped, start>>

\* ------------------------------------------------------------ specification
Init ==
  /\ state = [src \in Sources |-> 0]
  /\ emitted = [src \in Sources |-> 0]
  /\ rejected = FALSE
  /\ sequence = 0
  /\ closed = FALSE
  /\ subscriptions = {}
  /\ holder = "free"
  /\ targets = {}
  /\ draft = NoDraft
  /\ status = [s \in Subs |-> "none"]
  /\ queue = [s \in Subs |-> <<>>]
  /\ dropped = [s \in Subs |-> 0]
  /\ start = [s \in Subs |-> 0]
  /\ seen = [s \in Subs |-> -1]
  /\ received = [s \in Subs |-> 0]
  /\ view = [s \in Subs |-> [src \in Sources |-> 0]]

PublisherStep ==
  \/ \E src \in Sources : PublishBegin(src) \/ PublishOversized(src) \/ PublishClosed(src)
  \/ \E src \in Sources : SubscribeRead(src)
  \/ SubscribeOversized
  \/ \E s \in Subs : Enqueue(s) \/ SubscribeEnd(s) \/ CloseOne(s)

Next ==
  \/ \E src \in Sources : SourceChange(src)
  \/ PublisherStep
  \/ \E s \in Subs : SubscribeBegin(s) \/ CloseSubscription(s) \/ Get(s)
  \/ CloseBegin

Spec == Init /\ [][Next]_vars

\* A thread that holds the lock goes on, callbacks run, and every consumer (a
\* connection's writer thread, looping over get) goes on taking events.
Fairness ==
  /\ WF_vars(PublisherStep)
  /\ \A s \in Subs : WF_vars(Get(s))

FairSpec == Spec /\ Fairness

\* --------------------------------------------------------------- properties
Registered(s) == status[s] = "open" /\ s \notin targets

QueuedEvents(s) == {i \in DOMAIN queue[s] : queue[s][i].kind # "snapshot"}

SubscriptionTypeOK ==
  \A s \in Subs :
    /\ Len(queue[s]) <= QueueCapacity
    /\ \A i \in DOMAIN queue[s] : queue[s][i].sequence \in 0 .. sequence

\* The variables keep to their types and no queue exceeds its capacity,
\* whatever the consumer and the publisher do between the steps of the other.
TypeOK ==
  /\ state \in Versions /\ emitted \in Versions
  /\ rejected \in BOOLEAN /\ closed \in BOOLEAN
  /\ sequence \in Nat
  /\ subscriptions \in SUBSET Subs /\ targets \in SUBSET Subs
  /\ holder \in {"free", "publish", "subscribe", "close"}
  /\ status \in [Subs -> {"none", "open", "closed"}]
  /\ dropped \in [Subs -> Nat] /\ start \in [Subs -> Nat]
  /\ seen \in [Subs -> Int] /\ received \in [Subs -> Nat]
  /\ SubscriptionTypeOK

\* dropped_events is the exact loss: every event numbered after a
\* subscription's snapshot was taken by the consumer, waits in the queue, was
\* counted as dropped, or is about to be enqueued by the publish under way.
LossAccounted ==
  \A s \in Subs : status[s] = "open" /\ holder # "close" =>
    sequence - start[s] =
      received[s] + Cardinality(QueuedEvents(s)) + dropped[s]
        + (IF s \in targets THEN 1 ELSE 0)

\* A consumer's picture of the sources is current once it has caught up,
\* unless a loss it can notice explains the difference: events dropped from
\* its own queue, or an event the size limit refused.
StaleOnlyAfterLoss ==
  \A s \in Subs :
    Registered(s) /\ queue[s] = <<>> /\ emitted = state /\ ~closed
      => \/ view[s] = state
         \/ dropped[s] > 0
         \/ rejected

\* The variables keep to their types, and every loss is counted where it happens:
\* by drop-oldest in the queue of the subscription that lost; one that lost nothing
\* and consumed everything knows the state the sources are in.
LossesAccounted == TypeOK /\ LossAccounted /\ StaleOnlyAfterLoss

\* The abstract feed this publisher implements.
Feed == INSTANCE LossyFeed WITH
  published <- sequence,
  joined <- {s \in Subs : status[s] # "none"},
  left <- {s \in Subs : status[s] = "closed"},
  cursor <- [s \in Subs |-> IF seen[s] = -1 THEN start[s] ELSE seen[s]]

\* The publisher implements the lossy feed: no event is delivered twice, out
\* of order, after the close, or before the subscription's snapshot.
FeedSpec == Feed!FeedSpec

\* A subscriber that stays open sees every publication number reached or
\* passed, however far its queue overflowed.
ConsumersCatchUp ==
  \A s \in Subs : \A n \in 1 .. MaxChanges :
    (status[s] = "open" /\ sequence >= n) ~> (seen[s] >= n \/ status[s] # "open")

=============================================================================

------------------------------ MODULE MqttWorker ------------------------------
(***************************************************************************)
(* DaemonMqttWorker (daemon_mqtt_worker.py) over one Paho connection at a  *)
(* time (daemon_mqtt_paho.py): the worker thread that mirrors the daemon's *)
(* event stream into retained topics and answers commands, the thread that *)
(* stops it, Paho's network thread, the broker and the publishers of       *)
(* commands.  The feed is one subscription of DaemonEvents.                *)
(*                                                                         *)
(* A retained state topic stands for each kind of state, its payload is    *)
(* the version of that state: versions of "connection" that are even say   *)
(* connected.  Every call of the connection may time out after the broker  *)
(* took its packet, or find the connection broken.                         *)
(***************************************************************************)
EXTENDS Naturals, Sequences, FiniteSets, SequencesExt

CONSTANTS
  Requests,       \* request identifiers of commands
  Bodies,         \* what a command asks for
  CacheCapacity, QueueCapacity, InboxCapacity,
  MaxAttempts,    \* reconnect_max_attempts
  ClientId,       \* is client_id configured?  Then a new session takes over a half-open one
  MaxChanges,     \* bound: changes of state
  MaxSends,       \* bound: commands published
  MaxFaults,      \* bound: timeouts, failed connects, lost links
  None

ASSUME MqttAssumption ==
  /\ CacheCapacity \in Nat \ {0} /\ QueueCapacity \in Nat \ {0, 1}
  /\ InboxCapacity \in Nat \ {0} /\ MaxAttempts \in Nat
  /\ ClientId \in BOOLEAN
  /\ {MaxChanges, MaxSends, MaxFaults} \subseteq Nat
  /\ None \notin Nat /\ None \notin Requests /\ None \notin {"response", "refused"}

Kinds == {"connection", "radio"}
NoMessage == [id |-> None, body |-> None, reply |-> None]
Messages == [id : Requests, body : Bodies, reply : {None}] \cup {NoMessage}

VARIABLES
  world,      \* the state the daemon is in, a version per kind
  told,       \* the versions announced so far
  log,        \* log[n + 1]: told when the publisher's sequence was n
  feed,       \* the worker's event subscription
  pc,         \* the worker thread
  out,        \* publications of the event under way
  expected,   \* expected_sequence
  context,    \* what Home Assistant controls are built from
  online,     \* availability_online: "online" was acknowledged in this session
  attempt, terminal,   \* _retry_attempt, terminal_failure
  cache,      \* _command_responses, least recently used first
  message,    \* the command in hand, and what its response says
  conn,       \* the Paho connection
  inbox,      \* _inbound_messages
  retained, availability,   \* what the broker retains
  wills,      \* half-open sessions whose last will the broker has not yet published
  executions, \* history: the bodies dispatched for each request
  since,      \* history: other requests used since this one was used last
  stopper,    \* the thread in stop()
  sends, faults

daemonVars == <<world, told, log>>
brokerVars == <<retained, availability, wills>>
commandVars == <<cache, message, executions, since>>
retryVars == <<attempt, terminal>>
vars == <<daemonVars, feed, pc, out, expected, context, online, retryVars, commandVars,
          conn, inbox, brokerVars, stopper, sends, faults>>

Stopping == stopper # "idle"
NoContext == [connected |-> FALSE, radio |-> None]

\* ------------------------------------------------- the daemon's event stream
Closed == [open |-> FALSE, queue |-> <<>>]

\* DaemonEventPublisher.subscribe: the snapshot is the first event.
Subscribed == [open |-> TRUE,
               queue |-> <<[kind |-> "snapshot", seq |-> Len(log) - 1, state |-> world]>>]

\* Mutant: a full queue refuses the new event.
EnqueueRefusing(queue, e) == IF Len(queue) < QueueCapacity THEN Append(queue, e) ELSE queue

\* DaemonEventSubscription._enqueue: a full queue loses its oldest event, never the snapshot.
Enqueue(queue, e) ==
  Append(IF Len(queue) < QueueCapacity THEN queue
         ELSE IF Head(queue).kind = "snapshot" THEN <<Head(queue)>> \o Tail(Tail(queue)) ELSE Tail(queue), e)

Change(k) ==
  /\ world[k] = told[k] /\ world["connection"] + world["radio"] < MaxChanges
  /\ world' = [world EXCEPT ![k] = @ + 1]
  /\ UNCHANGED <<told, log, feed, pc, out, expected, context, online, retryVars, commandVars,
                 conn, inbox, brokerVars, stopper, sends, faults>>

\* The source of the change tells the publisher.
Announce(k) ==
  /\ told[k] < world[k]
  /\ told' = [told EXCEPT ![k] = world[k]]
  /\ log' = Append(log, told')
  /\ feed' = IF feed.open
             THEN [feed EXCEPT !.queue = Enqueue(@, [kind |-> k, seq |-> Len(log), state |-> told'])]
             ELSE feed
  /\ UNCHANGED <<world, pc, out, expected, context, online, retryVars, commandVars,
                 conn, inbox, brokerVars, stopper, sends, faults>>

\* ------------------------------------------------ the connection and the broker
NewConnection == [link |-> "down", failed |-> FALSE, closed |-> FALSE, commands |-> FALSE]

\* check(): a failed, closed or lost connection raises.
Usable == conn.link = "up" /\ ~conn.failed /\ ~conn.closed

\* The call's packet reached the broker, its acknowledgement did not come in time.
TimesOut == Usable /\ faults < MaxFaults /\ faults' = faults + 1

\* _close_client: DISCONNECT when the link is up, and the broker drops the will.
ClosedConnection == [conn EXCEPT !.closed = TRUE, !.link = IF @ = "up" THEN "down" ELSE @]

\* The link is lost: Paho's on_disconnect fails the session; the broker
\* publishes the will now, or when its keepalive runs out.
LoseLink ==
  /\ conn.link = "up" /\ faults < MaxFaults
  /\ conn' = [conn EXCEPT !.link = "lost", !.failed = TRUE]
  /\ \/ availability' = "offline" /\ UNCHANGED wills
     \/ wills' = wills + 1 /\ UNCHANGED availability
  /\ faults' = faults + 1
  /\ UNCHANGED <<daemonVars, feed, pc, out, expected, context, online, retryVars, commandVars,
                 inbox, retained, stopper, sends>>

WillFires ==
  /\ wills > 0 /\ wills' = wills - 1
  /\ availability' = "offline"
  /\ UNCHANGED <<daemonVars, feed, pc, out, expected, context, online, retryVars, commandVars,
                 conn, inbox, retained, stopper, sends, faults>>

\* _on_message: a full inbox fails the session.
Send(m) ==
  /\ conn.commands /\ Usable /\ sends < MaxSends
  /\ sends' = sends + 1
  /\ IF Len(inbox) < InboxCapacity
     THEN inbox' = Append(inbox, m) /\ UNCHANGED conn
     ELSE conn' = [conn EXCEPT !.failed = TRUE] /\ UNCHANGED inbox
  /\ UNCHANGED <<daemonVars, feed, pc, out, expected, context, online, retryVars, commandVars,
                 brokerVars, stopper, faults>>

\* --------------------------------------------------- a session begins and ends
Begin ==
  /\ pc = "begin"
  /\ IF Stopping THEN pc' = "stopped" /\ UNCHANGED <<online, terminal, conn, inbox>>
     ELSE /\ pc' = "connect" /\ online' = FALSE /\ terminal' = FALSE
          /\ conn' = NewConnection /\ inbox' = <<>>
  /\ UNCHANGED <<daemonVars, feed, out, expected, context, attempt, commandVars, brokerVars,
                 stopper, sends, faults>>

\* An exception in the session: _backoff_after_failure counts the attempt and
\* waits, with the session still open, unless the attempts are used up.
Raise ==
  /\ out' = <<>> /\ message' = NoMessage
  /\ IF Stopping THEN pc' = "finally" /\ UNCHANGED retryVars
     ELSE /\ attempt' = attempt + 1
          /\ terminal' = (attempt' > MaxAttempts)
          /\ pc' = IF terminal' THEN "finally" ELSE "backoff"

\* A call of the connection: it returns, times out, or raises at once.  The
\* broker takes the packet in the first two cases.
Call(taken, notTaken, returns) ==
  \/ Usable /\ taken /\ returns /\ UNCHANGED <<retryVars, faults>>
  \/ TimesOut /\ taken /\ Raise
  \/ ~Usable /\ notTaken /\ Raise /\ UNCHANGED faults

\* connect(): a session under the same client identifier takes over.
Connect ==
  /\ pc = "connect"
  /\ \/ /\ ~conn.closed
        /\ conn' = [conn EXCEPT !.link = "up"]
        /\ IF ClientId /\ wills > 0 THEN wills' = 0 /\ availability' = "offline"
           ELSE UNCHANGED <<wills, availability>>
        /\ pc' = IF Stopping THEN "finally" ELSE "announce"
        /\ UNCHANGED <<out, message, retryVars, faults>>
     \/ /\ IF conn.closed THEN UNCHANGED faults ELSE faults < MaxFaults /\ faults' = faults + 1
        /\ Raise
        /\ UNCHANGED <<conn, wills, availability>>
  /\ UNCHANGED <<daemonVars, feed, expected, context, online, cache, executions, since,
                 inbox, retained, stopper, sends>>

\* _publish_availability(online=True).
PublishOnline ==
  /\ pc = "announce"
  /\ Call(availability' = "online", UNCHANGED availability,
          pc' = "subscribe" /\ UNCHANGED <<out, message>>)
  /\ online' = (pc' = "subscribe")
  /\ UNCHANGED <<daemonVars, feed, expected, context, cache, executions, since,
                 conn, inbox, retained, wills, stopper, sends>>

Backoff ==
  /\ pc = "backoff"
  /\ terminal' = Stopping
  /\ pc' = "finally"
  /\ UNCHANGED <<daemonVars, feed, out, expected, context, online, attempt, commandVars,
                 conn, inbox, brokerVars, stopper, sends, faults>>

\* The finally block: unsubscribe, withdraw "online" if it was published, close.
Finally ==
  /\ pc = "finally"
  /\ feed' = Closed
  /\ pc' = IF online THEN "withdraw" ELSE "close"
  /\ UNCHANGED <<daemonVars, out, expected, context, online, retryVars, commandVars,
                 conn, inbox, brokerVars, stopper, sends, faults>>

\* Its errors are suppressed, and a timeout is one of them.
Withdraw ==
  /\ pc = "withdraw"
  /\ pc' = "close"
  /\ availability' = IF Usable THEN "offline" ELSE availability
  /\ UNCHANGED <<daemonVars, feed, out, expected, context, online, retryVars, commandVars,
                 conn, inbox, retained, wills, stopper, sends, faults>>

Close ==
  /\ pc = "close"
  /\ conn' = ClosedConnection
  /\ pc' = IF Stopping THEN "stopped" ELSE IF terminal THEN "failed" ELSE "begin"
  /\ UNCHANGED <<daemonVars, feed, out, expected, context, online, retryVars, commandVars,
                 inbox, brokerVars, stopper, sends, faults>>

\* Out of attempts: wait for the stop.
LeaveFailed ==
  /\ pc = "failed" /\ Stopping
  /\ pc' = "stopped"
  /\ UNCHANGED <<daemonVars, feed, out, expected, context, online, retryVars, commandVars,
                 conn, inbox, brokerVars, stopper, sends, faults>>

\* --------------------------------------------------------- the session at work
\* _consume_connected begins: subscribe to the event stream.
Subscribe ==
  /\ pc = "subscribe"
  /\ context' = NoContext
  /\ IF Stopping THEN pc' = "finally" /\ UNCHANGED <<feed, expected>>
     ELSE pc' = "check" /\ feed' = Subscribed /\ expected' = None
  /\ UNCHANGED <<daemonVars, out, online, retryVars, commandVars,
                 conn, inbox, brokerVars, stopper, sends, faults>>

\* The top of the loop: stop, check the connection, take one command.
Check ==
  /\ pc = "check"
  /\ IF Stopping THEN pc' = "finally" /\ UNCHANGED <<out, message, retryVars, inbox>>
     ELSE IF ~Usable THEN Raise /\ UNCHANGED inbox
     ELSE /\ UNCHANGED <<out, retryVars>>
          /\ IF conn.commands /\ inbox # <<>>
             THEN /\ message' = Head(inbox)
                  /\ inbox' = Tail(inbox) /\ pc' = "handle"
             ELSE pc' = "get" /\ UNCHANGED <<message, inbox>>
  /\ UNCHANGED <<daemonVars, feed, expected, context, online, cache, executions, since,
                 conn, brokerVars, stopper, sends, faults>>

\* _update_home_assistant_control_context.
Connected(state) == state["connection"] % 2 = 0

ContextAfter(e) ==
  CASE e.kind = "snapshot" ->
         [connected |-> Connected(e.state),
          radio |-> IF Connected(e.state) THEN e.state["radio"] ELSE None]
    [] e.kind = "connection" ->
         [connected |-> Connected(e.state),
          radio |-> IF Connected(e.state) THEN context.radio ELSE None]
    [] e.kind = "radio" ->
         [context EXCEPT !.radio = IF context.connected THEN e.state["radio"] ELSE None]

\* _publications_for_event: a snapshot fills every state topic, any other event
\* its own and the events topic.
Publications(e) ==
  IF e.kind = "snapshot"
  THEN <<[topic |-> "connection", value |-> e.state["connection"]],
         [topic |-> "radio", value |-> e.state["radio"]]>>
  ELSE <<[topic |-> e.kind, value |-> e.state[e.kind]], [topic |-> "events", value |-> e.seq]>>

\* An event in order is published; its snapshot, or the next, is expected after it.
TakeEvent(e) ==
  /\ expected' = e.seq + 1
  /\ context' = ContextAfter(e)
  /\ out' = Publications(e)
  /\ pc' = IF e.kind = "snapshot" THEN "snapshot" ELSE "event"
  /\ feed' = [feed EXCEPT !.queue = Tail(@)]

\* After a gap: a new subscription, with a new snapshot, unless it is stopping.
Resynchronize ==
  /\ context' = NoContext
  /\ IF Stopping THEN pc' = "finally" /\ feed' = Closed /\ UNCHANGED expected
     ELSE pc' = "check" /\ feed' = Subscribed /\ expected' = None

\* Mutant: an event is taken whatever its sequence.
InSequenceAlways(e) == TRUE

InSequence(e) == e.kind = "snapshot" \/ expected \in {None, e.seq}

\* Take one event; the subscription is closed by stop() alone.
Get ==
  /\ pc = "get"
  /\ \/ /\ ~feed.open
        /\ pc' = "finally"
        /\ UNCHANGED <<feed, expected, context, out>>
     \/ /\ feed.open /\ feed.queue = <<>>
        /\ pc' = "check"
        /\ UNCHANGED <<feed, expected, context, out>>
     \/ /\ feed.open /\ feed.queue # <<>>
        /\ IF InSequence(Head(feed.queue)) THEN TakeEvent(Head(feed.queue))
           ELSE Resynchronize /\ UNCHANGED out
  /\ UNCHANGED <<daemonVars, online, retryVars, commandVars,
                 conn, inbox, brokerVars, stopper, sends, faults>>

\* _publish_event: one retained publication after the other.
PublishState ==
  /\ pc \in {"snapshot", "event"}
  /\ LET p == Head(out)
     IN  Call(IF p.topic \in Kinds THEN retained' = [retained EXCEPT ![p.topic] = p.value]
              ELSE UNCHANGED retained,
              UNCHANGED retained,
              /\ out' = Tail(out) /\ UNCHANGED message
              /\ pc' = IF Tail(out) # <<>> THEN pc
                       ELSE IF pc = "snapshot" THEN "inputs" ELSE "check")
  /\ UNCHANGED <<daemonVars, feed, expected, context, online, cache, executions, since,
                 conn, inbox, availability, wills, stopper, sends>>

\* The snapshot is out: announce to Home Assistant, open the inputs once, and
\* the session is healthy.
OpenInputs ==
  /\ pc = "inputs"
  /\ \/ /\ Usable
        /\ conn' = [conn EXCEPT !.commands = TRUE]
        /\ attempt' = 0
        /\ pc' = "check"
        /\ UNCHANGED <<out, message, terminal, faults>>
     \/ TimesOut /\ Raise /\ UNCHANGED conn
     \/ ~Usable /\ Raise /\ UNCHANGED <<conn, faults>>
  /\ UNCHANGED <<daemonVars, feed, expected, context, online, cache, executions, since,
                 inbox, brokerVars, stopper, sends>>

\* ------------------------------------------------------------------- commands
Cached(id) == {i \in DOMAIN cache : cache[i].id = id}

\* Mutant: room is made for the entry after this one.
KeptEarly(entries) == IF Len(entries) >= CacheCapacity THEN Tail(entries) ELSE entries

\* _remember_command_response: the oldest entries leave a full cache.
Kept(entries) == IF Len(entries) > CacheCapacity THEN Tail(entries) ELSE entries

\* An identifier reused for another body is refused.
CachedReply(entry) == IF entry.body = message.body THEN "response" ELSE "refused"

Used(id) == [r \in Requests |-> IF r = id THEN {} ELSE since[r] \cup {id}]

\* _handle_command up to its response: an identifier in the cache is answered
\* from it and never dispatched; anything else is dispatched and remembered.
Handle ==
  /\ pc = "handle"
  /\ pc' = "answer"
  /\ LET id == message.id
         hits == Cached(id)
     IN  \/ /\ id = None   \* too large, not JSON, or retained
            /\ message' = [message EXCEPT !.reply = "refused"]
            /\ UNCHANGED <<cache, executions, since>>
         \/ /\ id # None /\ hits # {}
            /\ LET i == CHOOSE i \in hits : TRUE
               IN  /\ cache' = Append(RemoveAt(cache, i), cache[i])
                   /\ message' = [message EXCEPT !.reply = CachedReply(cache[i])]
            /\ since' = Used(id)
            /\ UNCHANGED executions
         \/ /\ id # None /\ hits = {}
            /\ executions' = [executions EXCEPT ![id] = Append(@, message.body)]
            /\ cache' = Kept(Append(cache, [id |-> id, body |-> message.body]))
            /\ message' = [message EXCEPT !.reply = "response"]
            /\ since' = Used(id)
  /\ UNCHANGED <<daemonVars, feed, out, expected, context, online, retryVars,
                 conn, inbox, brokerVars, stopper, sends, faults>>

\* _publish_command_payload.
Answer ==
  /\ pc = "answer"
  /\ Call(TRUE, TRUE, pc' = "acknowledge" /\ UNCHANGED <<out, message>>)
  /\ UNCHANGED <<daemonVars, feed, expected, context, online, cache, executions, since,
                 conn, inbox, brokerVars, stopper, sends>>

Acknowledge ==
  /\ pc = "acknowledge"
  /\ IF Usable THEN pc' = "get" /\ message' = NoMessage /\ UNCHANGED <<out, retryVars>>
     ELSE Raise
  /\ UNCHANGED <<daemonVars, feed, expected, context, online, cache, executions, since,
                 conn, inbox, brokerVars, stopper, sends, faults>>

\* ----------------------------------------------------------------------- stop()
\* Tell the worker, close its subscription, and wait half of stop_timeout.
Stop ==
  /\ stopper = "idle"
  /\ stopper' = "joining"
  /\ feed' = Closed
  /\ UNCHANGED <<daemonVars, pc, out, expected, context, online, retryVars, commandVars,
                 conn, inbox, brokerVars, sends, faults>>

\* If the worker is still in a call that long, interrupt the connection; the
\* finally block takes it from the stopper.
Interrupt ==
  /\ stopper = "joining"
  /\ pc \in {"connect", "announce", "snapshot", "event", "inputs", "handle", "answer"}
  /\ stopper' = "interrupted"
  /\ conn' = ClosedConnection
  /\ UNCHANGED <<daemonVars, feed, pc, out, expected, context, online, retryVars, commandVars,
                 inbox, brokerVars, sends, faults>>

Joined ==
  /\ stopper \in {"joining", "interrupted"} /\ pc = "stopped"
  /\ stopper' = "returned"
  /\ UNCHANGED <<daemonVars, feed, pc, out, expected, context, online, retryVars, commandVars,
                 conn, inbox, brokerVars, sends, faults>>

Init ==
  /\ world = [k \in Kinds |-> 0]
  /\ told = world /\ log = <<world>>
  /\ feed = Closed
  /\ pc = "begin" /\ out = <<>> /\ expected = None /\ context = NoContext
  /\ online = FALSE /\ attempt = 0 /\ terminal = FALSE
  /\ cache = <<>> /\ message = NoMessage
  /\ executions = [r \in Requests |-> <<>>] /\ since = [r \in Requests |-> {}]
  /\ conn = [NewConnection EXCEPT !.closed = TRUE] /\ inbox = <<>>
  /\ retained = [k \in Kinds |-> 0] /\ availability = "offline" /\ wills = 0
  /\ stopper = "idle"
  /\ sends = 0 /\ faults = 0

Worker ==
  \/ Begin \/ Connect \/ PublishOnline \/ Backoff \/ Finally \/ Withdraw \/ Close \/ LeaveFailed
  \/ Subscribe \/ Check \/ Get \/ PublishState \/ OpenInputs \/ Handle \/ Answer \/ Acknowledge

Next ==
  \/ Worker
  \/ \E k \in Kinds : Change(k) \/ Announce(k)
  \/ \E m \in Messages : Send(m)
  \/ LoseLink \/ WillFires
  \/ Stop \/ Interrupt \/ Joined

Spec == Init /\ [][Next]_vars

\* Every call of the worker is bounded by a timeout; a source announces what it changed.
FairSpec == Spec /\ WF_vars(Worker) /\ \A k \in Kinds : WF_vars(Announce(k))

\* ------------------------------------------------------------------- properties
\* Between events, with an event expected.
AtRest == pc \in {"check", "get", "handle", "answer", "acknowledge"} /\ expected # None

\* Types, and the bounds of the queues and of the cache.
TypeOK ==
  /\ world \in [Kinds -> 0 .. MaxChanges] /\ told \in [Kinds -> 0 .. MaxChanges]
  /\ feed.open \in BOOLEAN /\ Len(feed.queue) <= QueueCapacity
  /\ pc \in {"begin", "connect", "announce", "subscribe", "check", "get", "snapshot", "event",
             "inputs", "handle", "answer", "acknowledge", "backoff", "finally", "withdraw",
             "close", "failed", "stopped"}
  /\ pc \in {"snapshot", "event"} => out # <<>>
  /\ expected \in 1 .. Len(log) + 1 \cup {None}
  /\ context \in [connected : BOOLEAN, radio : 0 .. MaxChanges \cup {None}]
  /\ attempt \in 0 .. MaxAttempts + 1 /\ {online, terminal} \subseteq BOOLEAN
  /\ Len(cache) <= CacheCapacity /\ Len(inbox) <= InboxCapacity
  /\ conn \in [link : {"down", "up", "lost"}, failed : BOOLEAN, closed : BOOLEAN, commands : BOOLEAN]
  /\ retained \in [Kinds -> 0 .. MaxChanges] /\ availability \in {"online", "offline"}

\* The retained topics follow the ordered stream: between two events the broker
\* holds, for every kind, at least what had been announced when the expected
\* event was next, whatever was dropped, lost, timed out or resent before.
RetainedOrdered ==
  AtRest => \A k \in Kinds : log[expected][k] <= retained[k] /\ retained[k] <= world[k]

\* "Scanner disconnect, broker-session restart, or an event-sequence gap clears
\* that navigation context until a fresh snapshot or ordered state restores it":
\* a context is never older than the stream position, and needs a connected scanner.
ContextOrdered ==
  context.radio # None =>
    /\ context.connected /\ expected # None
    /\ log[expected]["radio"] <= context.radio /\ context.radio <= world["radio"]

\* What the broker holds and what controls are resolved in follow the stream.
MirrorOrdered == RetainedOrdered /\ ContextOrdered

\* A publication or acknowledgement failure cannot make a redelivery repeat a
\* control: a request is dispatched again only after the cache had to make room
\* for as many other requests.
NoRepeatWhileCached ==
  [][\A r \in Requests :
       executions'[r] # executions[r] /\ executions[r] # <<>> =>
         Cardinality(since[r]) >= CacheCapacity]_vars

\* No publisher is told that its command succeeded unless that command, with that
\* body, was dispatched: an identifier reused for another body is refused.
AnsweredWasDispatched ==
  message.reply = "response" =>
    \E i \in DOMAIN executions[message.id] : executions[message.id][i] = message.body

\* The variables keep to their types; retained topics and the context of controls
\* follow the stream; a success is answered only for the body that was dispatched.
MirrorSound == TypeOK /\ MirrorOrdered /\ AnsweredWasDispatched

\* Once faults and changes end, the broker's topics are the daemon's state and
\* the worker is online, unless it ran out of attempts or was stopped; and a
\* stopped worker ends.
Converges ==
  <>[](\/ pc \in {"failed", "stopped"}
       \/ ~Stopping /\ availability = "online" /\ retained = world)

\* "A session that successfully published `online` attempts retained `offline`
\* before every graceful connection close": so a worker that stopped after such a
\* session, with no will outstanding, leaves "offline" behind.
OfflineAfterStop ==
  pc = "stopped" /\ online /\ wills = 0 => availability = "offline"

=============================================================================

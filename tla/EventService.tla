----------------------------- MODULE EventService -----------------------------
(***************************************************************************)
(* The daemon's event socket: DaemonEventServer gives every connection a   *)
(* subscription of the event stream and writes its events as lines         *)
(* (daemon_event_server.py); DaemonEventClient reads them and refuses what *)
(* is out of order (daemon_event_client.py).  The stream is that of        *)
(* DaemonEvents, reduced to what a connection sees of it.                  *)
(***************************************************************************)
EXTENDS SocketServer, Sequences

CONSTANTS
  QueueCapacity, \* queue_capacity of a subscription
  WireCapacity,  \* events the connection itself holds
  MaxEvents      \* bound: events published

VARIABLES
  latest,        \* sequence number of the last event
  closed,        \* the stream is closed
  subscription,  \* events queued for each connection
  sending,       \* the event a worker is writing
  wire,          \* what is written and not read
  socket,          \* _socket
  buffer,        \* _buffer
  last,          \* _last_sequence
  receiving,     \* the connection receive() reads
  given,         \* what recv() gave it
  frame,         \* the event it has decoded
  lossy,         \* history: connections whose subscription dropped an event
  disturbed,     \* history: the client was closed, and connected again, while receive() ran
  source         \* history: the connection of the last snapshot returned

streamVars == <<latest, closed, subscription, sending, wire, lossy>>
receiveVars == <<buffer, last, receiving, given, frame, disturbed, source>>
clientVars == <<socket, receiveVars>>
vars == <<serverVars, streamVars, clientVars>>

Event(s, n, snapshot) == [conn |-> s, n |-> n, snapshot |-> snapshot]
Nothing == <<>>

\* ------------------------------------------------------------------------ stream
Subscribed == {s \in Conns : serving[s] \in {"get", "send"}}

\* Mutant: a full subscription loses its oldest event, the snapshot included.
EnqueueOldest(q, event) == Append(IF Len(q) < QueueCapacity THEN q ELSE Tail(q), event)

\* A full queue loses its oldest event, but not the snapshot at its head.
Enqueue(q, event) ==
  LET kept == IF Len(q) < QueueCapacity THEN q
              ELSE IF q[1].snapshot THEN <<q[1]>> \o SubSeq(q, 3, Len(q)) ELSE Tail(q)
  IN Append(kept, event)

Publish ==
  /\ latest < MaxEvents /\ ~closed /\ stage = "running"
  /\ latest' = latest + 1
  /\ subscription' = [s \in Conns |-> IF s \in Subscribed THEN Enqueue(subscription[s], Event(s, latest', FALSE))
                               ELSE subscription[s]]
  /\ lossy' = lossy \cup {s \in Subscribed : Len(subscription[s]) = QueueCapacity}
  /\ UNCHANGED <<serverVars, closed, sending, wire, clientVars>>

\* ------------------------------------------------------------------------ server
ServerStart == Start /\ closed' = stopEvent' /\ UNCHANGED <<latest, subscription, sending, wire, lossy, clientVars>>

\* Stopping closes the stream, and every subscription with it.
CloseStream ==
  /\ stage = "stream"
  /\ stage' = "sockets" /\ closed' = TRUE
  /\ subscription' = [s \in Conns |-> Nothing]
  /\ UNCHANGED <<service, stopEvent, acceptor, admitting, clients, serving, socketVars, failures>>
  /\ UNCHANGED <<latest, sending, wire, lossy, clientVars>>

Stopping == CloseStream \/ ((StopSockets \/ StopJoin(clients)) /\ UNCHANGED <<streamVars, clientVars>>)

ServerStop == (StopBegin("stream") /\ UNCHANGED <<streamVars, clientVars>>) \/ Stopping

Accepting == Acceptor("subscribe") /\ UNCHANGED <<streamVars, clientVars>>

ServerBreaks == AcceptBreaks /\ UNCHANGED <<streamVars, clientVars>>

\* A subscription begins with a snapshot; a closed stream gives none, and a full
\* publisher or a snapshot that is too large fails.
Subscribe(s) ==
  /\ serving[s] = "subscribe"
  /\ \/ /\ ~closed /\ Becomes(s, "get") /\ UNCHANGED failures
        /\ subscription' = [subscription EXCEPT ![s] = <<Event(s, latest, TRUE)>>]
     \/ /\ (closed /\ UNCHANGED failures) \/ Fault
        /\ Becomes(s, "release") /\ UNCHANGED subscription
  /\ UNCHANGED <<latest, closed, sending, wire, lossy, clientVars>>

\* Mutant: without an event nobody looks whether the client is there.
IdleBlind(s) == FALSE

\* _client_disconnected
Idle(s) == ~Open(s)

\* get(timeout): an event, none for a while, or the end of the subscription.
Get(s) ==
  /\ serving[s] = "get"
  /\ \/ /\ subscription[s] # Nothing /\ ~stopEvent /\ ~closed
        /\ sending' = [sending EXCEPT ![s] = <<Head(subscription[s])>>]
        /\ subscription' = [subscription EXCEPT ![s] = Tail(@)]
        /\ Becomes(s, "send")
     \/ /\ subscription[s] = Nothing /\ Idle(s)
        /\ Becomes(s, "release") /\ UNCHANGED <<sending, subscription>>
     \/ /\ stopEvent \/ closed
        /\ Becomes(s, "release") /\ UNCHANGED <<sending, subscription>>
  /\ UNCHANGED <<failures, latest, closed, wire, lossy, clientVars>>

\* sendall: written, refused by the other end, or out of send_timeout.
Send(s) ==
  /\ serving[s] = "send"
  /\ sending' = [sending EXCEPT ![s] = Nothing]
  /\ \/ /\ Open(s) /\ Len(wire[s]) < WireCapacity
        /\ wire' = [wire EXCEPT ![s] = @ \o sending[s]] /\ Becomes(s, "get")
     \/ /\ ~Open(s) \/ Len(wire[s]) = WireCapacity
        /\ Becomes(s, "release") /\ UNCHANGED wire
  /\ UNCHANGED <<failures, latest, closed, subscription, lossy, clientVars>>

\* The subscription closes before the client is forgotten.
Unserve(s) ==
  /\ Release(s)
  /\ subscription' = [subscription EXCEPT ![s] = Nothing]
  /\ UNCHANGED <<latest, closed, sending, wire, lossy, clientVars>>

Worker(s) == Subscribe(s) \/ Get(s) \/ Send(s) \/ Unserve(s)

\* ------------------------------------------------------------------------ client
Reading == receiving # None
Quiet == UNCHANGED <<lifeVars, failures, streamVars>>

\* connect(): what was read before is forgotten.
Connect(s) ==
  /\ Opens(s) /\ socket' = s
  /\ buffer' = Nothing /\ last' = None

\* receive() holds the receive lock to its end.
Receive ==
  /\ ~Reading /\ stage # "new"
  /\ \E s \in Conns :
       /\ \/ s = socket /\ UNCHANGED <<socketVars, socket, buffer, last, disturbed>>
          \/ socket = None /\ Connect(s) /\ disturbed' = FALSE
       /\ receiving' = s
  /\ Quiet /\ UNCHANGED <<given, frame, source>>

\* _discard_socket: of a connection that is not the current one any more only the
\* socket is closed.
Discard(s) ==
  /\ far' = far \ {s}
  /\ IF socket = s THEN socket' = None /\ buffer' = Nothing /\ last' = None
     ELSE UNCHANGED <<socket, buffer, last>>

\* _read_line: recv() when there is no line in the buffer, without the lifecycle lock.
Recv ==
  /\ Reading /\ frame = Nothing /\ buffer = Nothing /\ given = Nothing
  /\ \/ /\ receiving \in far /\ wire[receiving] # Nothing
        /\ given' = wire[receiving] /\ wire' = [wire EXCEPT ![receiving] = Nothing]
        /\ UNCHANGED <<far, socket, buffer, last, receiving>>
     \/ /\ ~Open(receiving) /\ (wire[receiving] = Nothing \/ receiving \notin far)
        /\ Discard(receiving) /\ receiving' = None /\ UNCHANGED <<wire, given>>
  /\ UNCHANGED <<lifeVars, failures, backlog, near, unused, latest, closed, subscription, sending, lossy,
                 frame, disturbed, source>>

\* The chunk goes to the buffer there now is, and the line that is then first is
\* decoded.
Extend ==
  /\ given # Nothing
  /\ buffer' = buffer \o given /\ given' = Nothing
  /\ Quiet /\ UNCHANGED <<socketVars, socket, last, receiving, frame, disturbed, source>>

TakeLine ==
  /\ Reading /\ frame = Nothing /\ buffer # Nothing /\ given = Nothing
  /\ frame' = <<Head(buffer)>> /\ buffer' = Tail(buffer)
  /\ Quiet /\ UNCHANGED <<socketVars, socket, last, receiving, given, disturbed, source>>

\* Mutant: a gap is overlooked.
InOrderForward(event) == IF last = None THEN event.snapshot ELSE ~event.snapshot /\ event.n > last

\* _validate_order
InOrder(event) == IF last = None THEN event.snapshot ELSE ~event.snapshot /\ event.n = last + 1

Returns ==
  /\ Reading /\ frame # Nothing /\ InOrder(frame[1])
  /\ last' = frame[1].n /\ source' = IF frame[1].snapshot THEN frame[1].conn ELSE source
  /\ receiving' = None /\ frame' = Nothing
  /\ Quiet /\ UNCHANGED <<socketVars, socket, buffer, given, disturbed>>

Refuses ==
  /\ Reading /\ frame # Nothing /\ ~InOrder(frame[1])
  /\ Discard(receiving) /\ receiving' = None /\ frame' = Nothing
  /\ Quiet /\ UNCHANGED <<backlog, near, unused, given, disturbed, source>>

\* Another thread closes the client, or connects it again.
Close ==
  /\ socket # None
  /\ far' = far \ {socket} /\ socket' = None /\ buffer' = Nothing /\ last' = None
  /\ disturbed' = (disturbed \/ Reading)
  /\ Quiet /\ UNCHANGED <<backlog, near, unused, receiving, given, frame, source>>

Reconnect ==
  /\ socket = None /\ (\E s \in Conns : Connect(s))
  /\ disturbed' = Reading
  /\ Quiet /\ UNCHANGED <<receiving, given, frame, source>>

ReaderStep == Recv \/ Extend \/ TakeLine \/ Returns \/ Refuses

\* ------------------------------------------------------------------ specification
Init ==
  /\ ServerInit
  /\ latest = 0 /\ closed = FALSE
  /\ subscription = [s \in Conns |-> Nothing] /\ sending = subscription /\ wire = subscription /\ lossy = {}
  /\ socket = None /\ buffer = Nothing /\ last = None /\ receiving = None /\ given = Nothing /\ frame = Nothing
  /\ disturbed = FALSE /\ source = None

Next ==
  \/ ServerStart \/ ServerStop \/ Accepting \/ ServerBreaks \/ Publish
  \/ \E s \in Conns : Worker(s)
  \/ Receive \/ ReaderStep \/ Close \/ Reconnect

Step == Stopping \/ Accepting \/ (\E s \in Conns : Worker(s)) \/ ReaderStep

\* Some thread runs if one can; the worker's waits and the shutdown have timeouts, the
\* client's recv has none.  The bounds leave no thread to run for ever.
Fairness == WF_vars(service = "events" /\ Step)

Spec == service = "events" /\ Init /\ [][Next]_vars /\ Fairness

\* --------------------------------------------------------------------- properties
\* The variables keep to their types, and the server owns its connections.
TypeOK ==
  /\ latest \in 0 .. MaxEvents /\ socket \in Conns \cup {None} /\ receiving \in Conns \cup {None}
  /\ \A s \in Conns : Len(subscription[s]) <= QueueCapacity /\ Len(wire[s]) <= WireCapacity
  /\ Owned

\* An event is only refused, on a connection that nobody closed meanwhile, because its
\* subscription dropped the one before it.
RefusedOnlyLoss ==
  Reading /\ frame # Nothing /\ ~InOrder(frame[1]) /\ ~disturbed => frame[1].conn \in lossy

\* An event that receive() is about to return is of the subscription of the last snapshot
\* it returned and follows what it returned since, even if another thread closed the client
\* and connected it again meanwhile.
NotMixed ==
  Reading /\ frame # Nothing /\ InOrder(frame[1]) /\ ~frame[1].snapshot =>
    frame[1].conn = source /\ frame[1].n = last + 1

\* A client that is gone does not keep its place, whether or not there are events; a
\* server that is stopped ends all it began, and a receive() whose connection ends
\* returns.
Leaving == Ending \/ \E s \in Conns : (s \in clients /\ s \notin far)
Left == Ended /\ (stopEvent => ~Reading) /\ \A s \in Conns : s \in clients => s \in far

AllEnd == Leaving ~> Left

===============================================================================

----------------------------- MODULE PcmuService -----------------------------
(***************************************************************************)
(* PCMU audio from end to end: the publisher of PcmuSubscriptions behind   *)
(* DaemonPcmuServer (daemon_pcmu_server.py), with one worker thread and    *)
(* one subscription per connection, and at the other end DaemonPcmuClient  *)
(* (daemon_pcmu_client.py) driven by DaemonPcmuAudioTransport              *)
(* (daemon_pcmu_audio.py), whose reader thread checks every frame against  *)
(* the ones before.  A connection has the number of the subscription its   *)
(* worker will take; the event and recording file servers are the same     *)
(* code around another stream.                                             *)
(***************************************************************************)
EXTENDS PcmuSubscriptions

CONSTANTS
  MaxClients,     \* max_clients
  WireCapacity,   \* frames a socket's buffers hold
  MaxFaults,      \* bound: failed starts and accepts, threads that do not start
  None

ASSUME ServiceAssumption ==
  /\ Subs \subseteq Nat /\ None \notin Subs
  /\ MaxClients \in Nat \ {0} /\ WireCapacity \in Nat \ {0} /\ MaxFaults \in Nat

VARIABLES
  stopping,       \* the server's _stop_event
  stopper,        \* where start() and stop() are
  acceptor,       \* the accept thread
  admitting,      \* the connection it has accepted
  backlog,        \* connections the listener has not accepted
  clients,        \* _clients
  worker,         \* the thread of each connection
  near, far,      \* connections whose end is open at the server, at the client
  wire,           \* frames written to each and not read
  unused,         \* bound: connections not made yet
  sock,           \* DaemonPcmuClient._socket
  tally,          \* its statistics since it connected
  reader,         \* the audio transport's receive thread
  current, got,   \* the socket and the frame its receive() works on
  refused,        \* it raised for a frame that contradicts the ones before
  quit, caller,   \* the audio transport's _stop, and the caller of its stop()
  faults

serverVars == <<stopping, stopper, acceptor, admitting, clients, worker>>
socketVars == <<backlog, near, far, wire, unused>>
clientVars == <<sock, tally, reader, current, got, refused, quit, caller>>
serviceVars == <<vars, serverVars, socketVars, clientVars, faults>>

NoTally == [received |-> 0, first |-> 0, last |-> 0, skipped |-> 0,
            dropped |-> 0, bytesDropped |-> 0, overflows |-> 0]

\* What a send that timed out half-way leaves: no frame, then the end.
Torn == [NoDelivery EXCEPT !.sequence = -1]

Fault == faults < MaxFaults /\ faults' = faults + 1

\* ------------------------------------------------------------- server lifecycle
\* A start that fails leaves what a stop leaves.
Start ==
  /\ stopper = "new"
  /\ \/ stopper' = "running" /\ acceptor' = "accept" /\ UNCHANGED <<stopping, faults>>
     \/ Fault /\ stopper' = "stream" /\ stopping' = TRUE /\ UNCHANGED acceptor
  /\ UNCHANGED <<vars, admitting, clients, worker, socketVars, clientVars>>

\* stop(): the listener closes, and with it what it has not accepted.
StopBegin ==
  /\ stopper \in {"new", "running"}
  /\ stopping' = TRUE /\ stopper' = "stream"
  /\ backlog' = {} /\ near' = near \ backlog
  /\ UNCHANGED <<vars, acceptor, admitting, clients, worker, far, wire, unused, clientVars, faults>>

\* PcmuStream.close, which its own lock keeps apart from a publication.
StopStream ==
  /\ stopper = "stream" /\ CloseBegin
  /\ stopper' = "sockets"
  /\ UNCHANGED <<stopping, acceptor, admitting, clients, worker, socketVars, clientVars, faults>>

StopSockets ==
  /\ stopper = "sockets" /\ holder = "free"
  /\ near' = near \ clients
  /\ stopper' = "join"
  /\ UNCHANGED <<vars, stopping, acceptor, admitting, clients, worker, backlog, far, wire, unused,
                 clientVars, faults>>

\* The workers have ended or the shutdown deadline has passed.
StopJoin ==
  /\ stopper = "join"
  /\ near' = near \ clients
  /\ stopper' = "stopped"
  /\ UNCHANGED <<vars, stopping, acceptor, admitting, clients, worker, backlog, far, wire, unused,
                 clientVars, faults>>

\* --------------------------------------------------------------- accept thread
Accept(s) ==
  /\ acceptor = "accept" /\ s \in backlog
  /\ acceptor' = "admit" /\ admitting' = s /\ backlog' = backlog \ {s}
  /\ UNCHANGED <<vars, stopping, stopper, clients, worker, near, far, wire, unused,
                 clientVars, faults>>

AcceptEnds ==
  /\ acceptor = "accept" /\ stopping
  /\ acceptor' = "ended"
  /\ UNCHANGED <<vars, stopping, stopper, admitting, clients, worker, socketVars, clientVars, faults>>

\* Any other error of accept() ends the thread, and admission with it.
AcceptBreaks ==
  /\ acceptor = "accept" /\ ~stopping /\ Fault
  /\ acceptor' = "ended"
  /\ UNCHANGED <<vars, stopping, stopper, admitting, clients, worker, socketVars, clientVars>>

\* _admit_client, under the lock stop() reads _clients with.
Admit(s) ==
  /\ acceptor = "admit" /\ s = admitting
  /\ acceptor' = "accept" /\ admitting' = None
  /\ LET room == ~stopping /\ Cardinality(clients) < MaxClients
     IN  \/ /\ room
            /\ clients' = clients \cup {s} /\ worker' = [worker EXCEPT ![s] = "subscribe"]
            /\ UNCHANGED <<near, faults>>
         \/ /\ (~room /\ UNCHANGED faults) \/ (room /\ Fault)
            /\ near' = near \ {s}
            /\ UNCHANGED <<clients, worker>>
  /\ UNCHANGED <<vars, stopping, stopper, backlog, far, wire, unused, clientVars>>

\* -------------------------------------------------------------- worker threads
Becomes(s, place) == worker' = [worker EXCEPT ![s] = place]

WorkerSubscribe(s) ==
  /\ worker[s] = "subscribe"
  /\ \/ Subscribe(s) /\ Becomes(s, "serve")
     \/ /\ holder = "free" /\ (closed \/ Cardinality(subscriptions) >= MaxSubscribers)
        /\ Becomes(s, "release") /\ UNCHANGED vars
  /\ UNCHANGED <<stopping, stopper, acceptor, admitting, clients, socketVars, clientVars, faults>>

\* The stop event may have been set since the loop looked.
WorkerGet(s) ==
  /\ worker[s] = "serve" /\ Get(s)
  /\ Becomes(s, "send")
  /\ UNCHANGED <<stopping, stopper, acceptor, admitting, clients, socketVars, clientVars, faults>>

WorkerLeave(s) ==
  /\ worker[s] = "serve" /\ (stopping \/ status[s] = "closed")
  /\ Becomes(s, "finish")
  /\ UNCHANGED <<vars, stopping, stopper, acceptor, admitting, clients, socketVars, clientVars, faults>>

\* sendall: the frame fits, an end is closed, or send_timeout passes half-way.
WorkerSend(s) ==
  /\ worker[s] = "send"
  /\ LET open == s \in near \cap far
         full == Len(wire[s]) >= WireCapacity
     IN  \/ /\ open /\ ~full /\ Becomes(s, "serve")
            /\ wire' = [wire EXCEPT ![s] = Append(@, delivery[s])]
         \/ /\ open /\ full /\ Becomes(s, "finish")
            /\ wire' \in {wire, [wire EXCEPT ![s] = Append(@, Torn)]}
         \/ ~open /\ Becomes(s, "finish") /\ UNCHANGED wire
  /\ UNCHANGED <<vars, stopping, stopper, acceptor, admitting, clients, backlog, near, far, unused,
                 clientVars, faults>>

WorkerFinish(s) ==
  /\ worker[s] = "finish"
  /\ \/ CloseSubscription(s)
     \/ holder = "free" /\ s \notin subscriptions /\ UNCHANGED vars
  /\ Becomes(s, "release")
  /\ UNCHANGED <<stopping, stopper, acceptor, admitting, clients, socketVars, clientVars, faults>>

\* Mutant: the slot stays taken.
SlotKept(s) == clients

SlotFreed(s) == clients \ {s}

WorkerRelease(s) ==
  /\ worker[s] = "release"
  /\ clients' = SlotFreed(s)
  /\ near' = near \ {s}
  /\ Becomes(s, "off")
  /\ UNCHANGED <<vars, stopping, stopper, acceptor, admitting, backlog, far, wire, unused, clientVars,
                 faults>>

\* ------------------------------------------------------------------ connections
Reachable(s) == stopper = "running" /\ s \in unused /\ \A u \in unused : s <= u

Opens(s) ==
  /\ Reachable(s)
  /\ unused' = unused \ {s} /\ backlog' = backlog \cup {s}
  /\ near' = near \cup {s} /\ far' = far \cup {s}
  /\ UNCHANGED wire

\* ----------------------------------------------------------------------- client
\* Mutant: connect() forgets _reset_statistics_locked.
TallyKept == tally

TallyAfterConnect == NoTally

\* DaemonPcmuClient.connect with no socket.
Connects(s) == Opens(s) /\ sock' = s /\ tally' = TallyAfterConnect

\* close() or _invalidate: the socket is shut down, what was not read is lost.
Closes(s) ==
  /\ far' = far \ {s}
  /\ wire' = [c \in Subs |-> IF c = s THEN <<>> ELSE wire[c]]
  /\ sock' = IF sock = s THEN None ELSE sock

\* DaemonPcmuAudioTransport.start; one that cannot connect changes nothing.
AudioStart(s) ==
  /\ caller = "idle" /\ reader = "off"
  /\ Connects(s)
  /\ quit' = FALSE /\ reader' = "check"
  /\ UNCHANGED <<vars, serverVars, current, got, refused, caller, faults>>

ReaderCheck ==
  /\ reader = "check"
  /\ reader' = IF quit THEN "close" ELSE "receive"
  /\ UNCHANGED <<vars, serverVars, socketVars, sock, tally, current, got, refused, quit, caller, faults>>

\* receive(): connects again when the socket is gone, stopped or not.
ReaderReceive ==
  /\ reader = "receive"
  /\ \/ /\ sock # None /\ current' = sock /\ reader' = "read"
        /\ UNCHANGED <<socketVars, sock, tally>>
     \/ /\ sock = None
        /\ \E s \in Subs : Connects(s) /\ current' = s
        /\ reader' = "read"
     \/ /\ sock = None /\ ~(\E s \in Subs : Reachable(s)) /\ reader' = "close"
        /\ UNCHANGED <<socketVars, sock, tally, current>>
  /\ UNCHANGED <<vars, serverVars, got, refused, quit, caller, faults>>

\* _read_frame: a whole frame, or the end of the stream, clean or inside a frame.
ReaderRead ==
  /\ reader = "read"
  /\ LET frames == wire[current]
         ended == IF frames = <<>> THEN current \notin near
                  ELSE Head(frames) = Torn /\ current \notin near
     IN  \/ /\ current \in far /\ frames # <<>> /\ Head(frames) # Torn
            /\ got' = Head(frames) /\ wire' = [wire EXCEPT ![current] = Tail(@)]
            /\ reader' = "record"
            /\ UNCHANGED <<far, sock>>
         \/ /\ current \notin far \/ ended
            /\ Closes(current) /\ reader' = "close"
            /\ UNCHANGED got
  /\ UNCHANGED <<vars, serverVars, backlog, near, unused, tally, current, refused, quit,
                 caller, faults>>

\* "The client rejects non-monotonic stream sequences and regressing cumulative
\* queue-loss counters."
Contradicts(frame) ==
  \/ tally.last # 0 /\ frame.sequence <= tally.last
  \/ frame.dropped < tally.dropped \/ frame.bytesDropped < tally.bytesDropped
  \/ frame.overflows < tally.overflows

\* _record_delivery.
Recorded(frame) ==
  [received |-> tally.received + 1,
   first |-> IF tally.last = 0 THEN frame.sequence ELSE tally.first,
   last |-> frame.sequence,
   skipped |-> tally.skipped + (IF tally.last = 0 THEN 0 ELSE frame.sequence - tally.last - 1),
   dropped |-> frame.dropped, bytesDropped |-> frame.bytesDropped, overflows |-> frame.overflows]

ReaderRecord ==
  /\ reader = "record"
  /\ IF Contradicts(got)
     THEN refused' = TRUE /\ Closes(current) /\ reader' = "close" /\ UNCHANGED tally
     ELSE tally' = Recorded(got) /\ reader' = "check" /\ UNCHANGED <<refused, far, wire, sock>>
  /\ got' = NoDelivery
  /\ UNCHANGED <<vars, serverVars, backlog, near, unused, current, quit, caller, faults>>

ReaderClose ==
  /\ reader = "close" /\ reader' = "off"
  /\ Closes(sock)
  /\ UNCHANGED <<vars, serverVars, backlog, near, unused, tally, current, got,
                 refused, quit, caller, faults>>

\* stop(): the event, the socket, and a join that gives up when nothing wakes a
\* reader that has connected again.
AudioStop ==
  /\ caller = "idle" /\ reader # "off"
  /\ quit' = TRUE /\ caller' = "close"
  /\ UNCHANGED <<vars, serverVars, socketVars, sock, tally, reader, current, got, refused, faults>>

AudioClose ==
  /\ caller = "close" /\ caller' = "join"
  /\ Closes(sock)
  /\ UNCHANGED <<vars, serverVars, backlog, near, unused, tally, reader, current, got,
                 refused, quit, faults>>

AudioJoin ==
  /\ caller = "join" /\ caller' = "idle"
  /\ reader = "off" \/ (reader = "read" /\ current \in near \cap far /\ wire[current] = <<>>)
  /\ UNCHANGED <<vars, serverVars, socketVars, sock, tally, reader, current, got, refused, quit, faults>>

\* ---------------------------------------------------------------- specification
ServiceInit ==
  /\ Init
  /\ stopping = FALSE /\ stopper = "new" /\ acceptor = "off" /\ admitting = None
  /\ clients = {} /\ worker = [s \in Subs |-> "off"]
  /\ backlog = {} /\ near = {} /\ far = {} /\ wire = [s \in Subs |-> <<>>]
  /\ unused = Subs
  /\ sock = None /\ tally = NoTally /\ reader = "off" /\ current = None /\ got = NoDelivery
  /\ refused = FALSE /\ quit = FALSE /\ caller = "idle"
  /\ faults = 0

\* The audio thread publishes, and a publication or a close visits a subscription.
Visit ==
  /\ \E s \in Subs : EnqueueWithRoom(s) \/ EnqueueDropping(s) \/ CloseOne(s)
  /\ UNCHANGED <<serverVars, socketVars, clientVars, faults>>

Audio ==
  /\ \E size \in PayloadSizes : Publish(size)
  /\ UNCHANGED <<serverVars, socketVars, clientVars, faults>>

Worker(s) ==
  \/ WorkerSubscribe(s) \/ WorkerGet(s) \/ WorkerLeave(s) \/ WorkerSend(s)
  \/ WorkerFinish(s) \/ WorkerRelease(s)

Acceptor == AcceptEnds \/ \E s \in Subs : Accept(s) \/ Admit(s)

Stopping == StopStream \/ StopSockets \/ StopJoin

Receiver == ReaderCheck \/ ReaderReceive \/ ReaderRead \/ ReaderRecord \/ ReaderClose

ServiceNext ==
  \/ Start \/ StopBegin \/ Stopping \/ Acceptor \/ AcceptBreaks \/ Visit \/ Audio
  \/ \E s \in Subs : Worker(s) \/ AudioStart(s)
  \/ Receiver \/ AudioStop \/ AudioClose \/ AudioJoin

ServiceSpec == ServiceInit /\ [][ServiceNext]_serviceVars

\* Threads run.  Nothing is assumed of the audio, of clients or of callers.
FairSpec ==
  /\ ServiceSpec
  /\ WF_serviceVars(Stopping) /\ WF_serviceVars(Acceptor) /\ WF_serviceVars(Visit)
  /\ \A s \in Subs : WF_serviceVars(Worker(s))
  /\ WF_serviceVars(Receiver)

\* ------------------------------------------------------------------- properties
\* The client never refuses a frame of this server, and through overflows, torn
\* frames and reconnections its statistics explain every packet published since
\* its connection's subscription: received, or skipped and dropped.
ClientKnowsLoss ==
  /\ ~refused
  /\ tally.last # 0 =>
       LET joined == joinedAt[current].sequence
       IN  /\ tally.last - joined = tally.received + tally.dropped
           /\ tally.skipped = tally.dropped - (tally.first - joined - 1)

\* Once stop() began, which is for good, everything the server opened is given
\* back and stays so, whatever its workers, its accept thread and its clients were
\* doing: slots, subscriptions, sockets, threads; and a client that was reading
\* meets the end.
GivenBack ==
  /\ stopper = "stopped" /\ acceptor \in {"off", "ended"}
  /\ clients = {} /\ subscriptions = {} /\ near = {}
  /\ \A s \in Subs : worker[s] = "off"
  /\ reader = "off" /\ sock = None

ServiceStops == []<>(stopper \in {"new", "running"} \/ GivenBack)

=============================================================================

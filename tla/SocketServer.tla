----------------------------- MODULE SocketServer -----------------------------
(***************************************************************************)
(* What the daemon's servers on local sockets have in common: the listener *)
(* (DaemonSocketListener), the accept thread, the admission of clients and *)
(* a stop that ends them all.  Each admitted connection has a worker       *)
(* thread, whose work is that of the module that extends this one.  The    *)
(* lines mapped are those of DaemonApiServer; the event and recording file *)
(* servers have their own copies.                                          *)
(***************************************************************************)
EXTENDS Integers, FiniteSets

CONSTANTS
  Conns,         \* connections that are ever made, numbers
  MaxClients,    \* max_clients
  MaxFaults,     \* bound: failed starts and accepts, threads that do not start, timeouts
  None

VARIABLES
  service,       \* which of the daemon's servers this is
  stopEvent,      \* _stop_event
  stage,       \* where start() and stop() are
  acceptor,      \* the accept thread
  admitting,     \* the connection it has accepted
  backlog,       \* connections the listener has not accepted
  clients,       \* _clients
  serving,       \* where the worker of each connection is
  near, far,     \* connections that are open at the server, at the client
  unused,        \* bound: connections not made yet
  failures

lifeVars == <<service, stopEvent, stage, acceptor, admitting, clients, serving>>
socketVars == <<backlog, near, far, unused>>
serverVars == <<lifeVars, socketVars, failures>>

Fault == failures < MaxFaults /\ failures' = failures + 1

ServerInit ==
  /\ stopEvent = FALSE /\ stage = "new" /\ acceptor = "off" /\ admitting = None
  /\ clients = {} /\ serving = [s \in Conns |-> "off"]
  /\ backlog = {} /\ near = {} /\ far = {} /\ unused = Conns
  /\ failures = 0

\* ---------------------------------------------------------------- start and stop
\* A start that fails leaves what a stop leaves.
Start ==
  /\ stage = "new"
  /\ \/ stage' = "running" /\ acceptor' = "accept" /\ UNCHANGED <<stopEvent, failures>>
     \/ Fault /\ stage' = "stopped" /\ stopEvent' = TRUE /\ UNCHANGED acceptor
  /\ UNCHANGED <<service, admitting, clients, serving, socketVars>>

\* The listener closes, and with it what it has not accepted.
StopBegin(next) ==
  /\ stage = "running"
  /\ stopEvent' = TRUE /\ stage' = next
  /\ backlog' = {} /\ near' = near \ backlog
  /\ UNCHANGED <<service, acceptor, admitting, clients, serving, far, unused, failures>>

StopSockets ==
  /\ stage = "sockets"
  /\ near' = near \ clients /\ stage' = "join"
  /\ UNCHANGED <<service, stopEvent, acceptor, admitting, clients, serving, backlog, far, unused, failures>>

\* The threads have ended or the shutdown deadline has passed.
StopJoin(closed) ==
  /\ stage = "join"
  /\ near' = near \ closed /\ stage' = "stopped"
  /\ UNCHANGED <<service, stopEvent, acceptor, admitting, clients, serving, backlog, far, unused, failures>>

\* The process ends, by itself or not, and another may be started in its place.
Exit ==
  /\ stage = "stopped" /\ UNCHANGED failures
  /\ stopEvent' = FALSE /\ stage' = "new" /\ acceptor' = "off" /\ admitting' = None
  /\ clients' = {} /\ serving' = [s \in Conns |-> "off"] /\ backlog' = {} /\ near' = {}
  /\ UNCHANGED <<service, far, unused>>

\* ----------------------------------------------------------------- accept thread
Accept(s) ==
  /\ acceptor = "accept" /\ s \in backlog
  /\ acceptor' = "admit" /\ admitting' = s /\ backlog' = backlog \ {s}
  /\ UNCHANGED <<service, stopEvent, stage, clients, serving, near, far, unused, failures>>

AcceptEnds ==
  /\ acceptor = "accept" /\ stopEvent
  /\ acceptor' = "ended"
  /\ UNCHANGED <<service, stopEvent, stage, admitting, clients, serving, socketVars, failures>>

\* Any other error of accept() ends the thread, and admission with it.
AcceptBreaks ==
  /\ acceptor = "accept" /\ ~stopEvent /\ Fault
  /\ acceptor' = "ended"
  /\ UNCHANGED <<service, stopEvent, stage, admitting, clients, serving, socketVars>>

\* Mutant: one client too many.
RoomForMore == ~stopEvent /\ Cardinality(clients) <= MaxClients

Room == ~stopEvent /\ Cardinality(clients) < MaxClients

\* Under the lock stop() reads _clients with.
Admit(s, begin) ==
  /\ acceptor = "admit" /\ s = admitting
  /\ acceptor' = "accept" /\ admitting' = None
  /\ \/ /\ Room
        /\ clients' = clients \cup {s} /\ serving' = [serving EXCEPT ![s] = begin]
        /\ UNCHANGED <<near, failures>>
     \/ /\ IF Room THEN Fault ELSE UNCHANGED failures
        /\ near' = near \ {s} /\ UNCHANGED <<clients, serving>>
  /\ UNCHANGED <<service, stopEvent, stage, backlog, far, unused>>

\* ------------------------------------------------------------------ worker threads
Becomes(s, place) ==
  /\ serving' = [serving EXCEPT ![s] = place]
  /\ UNCHANGED <<service, stopEvent, stage, acceptor, admitting, clients, socketVars>>

\* The last thing every worker does.
Release(s) ==
  /\ serving[s] = "release"
  /\ serving' = [serving EXCEPT ![s] = "off"]
  /\ clients' = clients \ {s} /\ near' = near \ {s}
  /\ UNCHANGED <<service, stopEvent, stage, acceptor, admitting, backlog, far, unused, failures>>

\* ------------------------------------------------------------------ the other end
Reachable(s) == stage = "running" /\ s \in unused /\ \A u \in unused : s <= u

Opens(s) ==
  /\ Reachable(s)
  /\ unused' = unused \ {s} /\ backlog' = backlog \cup {s}
  /\ near' = near \cup {s} /\ far' = far \cup {s}

Open(s) == s \in near /\ s \in far

\* -------------------------------------------------------------------- what it keeps
Acceptor(begin) == AcceptEnds \/ \E s \in Conns : Accept(s) \/ Admit(s, begin)

\* Every connection is the listener's, the accept thread's or a client's, and every
\* client has a worker.
Owned ==
  /\ near \subseteq backlog \cup {admitting} \cup clients
  /\ clients = {s \in Conns : serving[s] # "off"}
  /\ Cardinality(clients) <= MaxClients

Ending == stopEvent
Ended == ~stopEvent \/ (stage = "stopped" /\ acceptor \in {"off", "ended"} /\ clients = {} /\ near = {})

===============================================================================

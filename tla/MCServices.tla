------------------------------- MODULE MCServices -------------------------------
(***************************************************************************)
(* Model checking of the daemon's servers on local sockets with their      *)
(* clients, and of the name that a daemon gives its socket.  A behaviour   *)
(* is about one of them, and the others do not move:                       *)
(*   "api"     requests and responses (ApiService),                        *)
(*   "events"  the event socket (EventService),                            *)
(*   "files"   recording files (RecordingFiles),                           *)
(*   "path"    the socket's path (SocketPath).                             *)
(***************************************************************************)
EXTENDS Naturals

CONSTANTS
  Conns, MaxClients, MaxFaults, None,
  Callers, Controllers, MaxCalls,
  QueueCapacity, WireCapacity, MaxEvents,
  MaxChunks,
  Daemons, MaxBinds

ASSUME ServicesAssumption ==
  /\ None \notin Conns /\ None \notin Nat /\ None \notin Callers /\ None \notin {"hello", "snapshot", "control"}
  /\ MaxClients \in Nat /\ MaxFaults \in Nat /\ MaxCalls \in Nat /\ MaxEvents \in Nat
  /\ QueueCapacity \in Nat \ {0, 1} /\ WireCapacity \in Nat \ {0}

VARIABLES
  service,
  stopEvent, stage, acceptor, admitting, backlog, clients, serving, near, far, unused, failures,
  daemon, offers, home, up, down, handling, socket, hello, turn, call, ids, calls, refused,
  latest, closed, subscription, sending, wire, buffer, last, receiving, given, frame, lossy,
  disturbed, source,
  recording, chunks, saw, left, header, body, download, expects, received,
  name, place, bound, identity, before, listening, binds, crowded

Api == INSTANCE ApiService
Events == INSTANCE EventService
Files == INSTANCE RecordingFiles
Path == INSTANCE SocketPath

serverVars == <<stopEvent, stage, acceptor, admitting, backlog, clients, serving, near, far, unused,
                failures>>
apiVars == <<daemon, offers, home, up, down, handling, hello, turn, call, ids, calls, refused>>
eventVars == <<latest, closed, subscription, sending, wire, buffer, last, receiving, given, frame,
               lossy, disturbed, source>>
filesVars == <<recording, chunks, saw, left, header, body, download, expects, received>>
pathVars == <<name, place, bound, identity, before, listening, binds, crowded>>

MCInit ==
  /\ service \in {"api", "events", "files", "path"}
  /\ Api!Init /\ Events!Init /\ Files!Init /\ Path!Init

\* Bound: one recording is downloaded at a time.
OneDownload == 2 \in unused'

MCNext ==
  \/ service = "api" /\ Api!Next /\ UNCHANGED <<eventVars, filesVars, pathVars>>
  \/ service = "events" /\ Events!Next /\ UNCHANGED <<apiVars, filesVars, pathVars>>
  \/ service = "files" /\ Files!Next /\ OneDownload /\ UNCHANGED <<socket, apiVars, eventVars, pathVars>>
  \/ service = "path" /\ Path!Next
     /\ UNCHANGED <<service, serverVars, socket, apiVars, eventVars, filesVars>>

MCSpec ==
  MCInit /\ [][MCNext]_<<service, serverVars, socket, apiVars, eventVars, filesVars, pathVars>>
    /\ Api!Fairness /\ Events!Fairness /\ Files!Fairness

\* Every connection of a server is somebody's, and no more clients are admitted than
\* allowed.  A caller of the API gets the answer to its own request; events are returned
\* in order, of one subscription, and refused only for a loss; a verified recording is
\* the whole one; and the path leads to the one daemon that is up.
ServicesSound ==
  /\ service = "api" => Api!TypeOK /\ Api!AnswersOwn /\ Api!SocketsOwned
  /\ service = "events" => Events!TypeOK /\ Events!RefusedOnlyLoss /\ Events!NotMixed
  /\ service = "files" => Files!FilesWhole
  /\ service = "path" => Path!OneEndpoint /\ Path!NoneKeptOut

LeavingAny ==
  CASE service = "api" -> Api!Leaving
    [] service = "events" -> Events!Leaving
    [] service = "files" -> Files!Leaving
    [] service = "path" -> FALSE

LeftAll ==
  CASE service = "api" -> Api!Left
    [] service = "events" -> Events!Left
    [] service = "files" -> Files!Left
    [] service = "path" -> TRUE

\* A server that is stopped ends all it began, a client that is gone does not keep its
\* place, and every call of a client returns.
ServicesEnd == LeavingAny ~> LeftAll

=============================================================================

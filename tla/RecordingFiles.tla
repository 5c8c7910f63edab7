---------------------------- MODULE RecordingFiles ----------------------------
(***************************************************************************)
(* The daemon's recording files: DaemonRecordingFileServer opens one       *)
(* finalized recording for each connection and sends it                    *)
(* (daemon_recording_file_server.py, open_recording of                     *)
(* daemon_recording.py), DaemonRecordingFileClient checks what it receives *)
(* (daemon_recording_file_client.py).  There is one recording, which is    *)
(* made meanwhile as RecordingManager does; audio is counted in chunks,    *)
(* and a file without a chunk is no WAV file yet.                          *)
(***************************************************************************)
EXTENDS SocketServer

CONSTANT MaxChunks     \* bound: chunks of the recording

VARIABLES
  recording,     \* "none", "open", "held", "closed", "final" or "deleted"
  chunks,        \* chunks in its file
  saw,           \* of each worker: the recording when it asked the manager
  left,          \* chunks it has still to send, of the file it holds open
  header,        \* of each connection: the response header, not read
  body,          \* chunks sent and not read
  download,      \* of each connection: where its client is
  expects,       \* chunks the client has still to read
  received       \* chunks it has read

fileVars == <<recording, chunks>>
workVars == <<saw, left>>
wireVars == <<header, body>>
clientVars == <<download, expects, received>>
vars == <<serverVars, fileVars, workVars, wireVars, clientVars>>

\* --------------------------------------------------------------------- recording
Records(next) == recording' = next /\ UNCHANGED <<chunks, serverVars, workVars, wireVars, clientVars>>

\* The file is there before the manager tells of it, and closed before the manager
\* lets go of it; a stop that fails lets go of nothing, and a start that fails leaves
\* the file.
Recorder ==
  \/ recording = "none" /\ Records("open")
  \/ recording = "open" /\ (Records("held") \/ Records("final"))
  \/ recording = "held" /\ Records("closed")
  \/ recording = "closed" /\ Records("final")
  \/ recording = "final" /\ Records("deleted")
  \/ /\ recording \in {"open", "held"} /\ chunks < MaxChunks /\ chunks' = chunks + 1
     /\ UNCHANGED <<recording, serverVars, workVars, wireVars, clientVars>>

\* ------------------------------------------------------------------------ server
ServerStart == Start /\ UNCHANGED <<fileVars, workVars, wireVars, clientVars>>

\* What is open after the deadline is closed again.
Stopping == (StopSockets \/ StopJoin(clients)) /\ UNCHANGED <<fileVars, workVars, wireVars, clientVars>>

ServerStop ==
  Stopping \/ (StopBegin("sockets") /\ UNCHANGED <<fileVars, workVars, wireVars, clientVars>>)

Accepting == Acceptor("receive") /\ UNCHANGED <<fileVars, workVars, wireVars, clientVars>>
ServerBreaks == AcceptBreaks /\ UNCHANGED <<fileVars, workVars, wireVars, clientVars>>

\* A daemon that ends leaves its recording as it is.
Replaced ==
  /\ Exit
  /\ recording' = IF recording \in {"open", "held", "closed"} THEN "final" ELSE recording
  /\ UNCHANGED <<chunks, workVars, wireVars, clientVars>>

\* _receive_request: the request, the end of the stream, or client_timeout.
Receive(s) ==
  /\ serving[s] = "receive"
  /\ \/ Open(s) /\ download[s] = "header" /\ Becomes(s, "look") /\ UNCHANGED failures
     \/ ~Open(s) /\ Becomes(s, "release") /\ UNCHANGED failures
     \/ Fault /\ Becomes(s, "release")
  /\ UNCHANGED <<fileVars, workVars, wireVars, clientVars>>

\* Mutant: the manager is not asked.
LookAway(s) ==
  /\ serving[s] = "look" /\ saw' = [saw EXCEPT ![s] = "final"] /\ Becomes(s, "scan")
  /\ UNCHANGED <<failures, left, fileVars, wireVars, clientVars>>

\* open_recording asks the manager for the recording that is pending, and then looks at
\* the files.
Look(s) ==
  /\ serving[s] = "look"
  /\ saw' = [saw EXCEPT ![s] = recording] /\ Becomes(s, "scan")
  /\ UNCHANGED <<failures, left, fileVars, wireVars, clientVars>>

Exists == recording \notin {"none", "deleted"}
Playable == chunks > 0 \/ recording \in {"closed", "final"}
Pending(s) == saw[s] \in {"held", "closed"}

Answer(s, status, length) == header' = [header EXCEPT ![s] = [status |-> status, length |-> length]]

\* A status is sent to a client that is there, and is the end of it.
Refuse(s, status) ==
  /\ IF Open(s) THEN Answer(s, status, 0) ELSE UNCHANGED header
  /\ Becomes(s, "release")

Scan(s) ==
  /\ serving[s] = "scan"
  /\ \/ UNCHANGED failures /\ ~Exists /\ Refuse(s, "not_found")
     \/ UNCHANGED failures /\ Exists /\ Pending(s) /\ Refuse(s, "unavailable")
     \/ UNCHANGED failures /\ Exists /\ ~Pending(s) /\ ~Playable /\ Refuse(s, "not_playable")
     \/ UNCHANGED <<failures, header>> /\ Exists /\ ~Pending(s) /\ Playable /\ Becomes(s, "open")
     \/ Fault /\ Refuse(s, "failed")
  /\ UNCHANGED <<fileVars, workVars, body, clientVars>>

\* _open_recording_file: the size is the one the open file has now.
OpenFile(s) ==
  /\ serving[s] = "open"
  /\ \/ /\ Exists /\ UNCHANGED failures
        /\ left' = [left EXCEPT ![s] = chunks]
        /\ IF Open(s) THEN Answer(s, "ok", chunks) /\ Becomes(s, "send")
           ELSE UNCHANGED header /\ Becomes(s, "release")
     \/ ~Exists /\ Refuse(s, "failed") /\ UNCHANGED <<failures, left>>
     \/ Fault /\ Refuse(s, "not_playable") /\ UNCHANGED left
  /\ UNCHANGED <<saw, body, fileVars, clientVars>>

\* No more than the header said, even if the file grows; sendall fails when the client
\* is gone or does not read.
Send(s) ==
  /\ serving[s] = "send"
  /\ \/ /\ Open(s) /\ left[s] > 0 /\ UNCHANGED failures
        /\ body' = [body EXCEPT ![s] = @ + 1] /\ left' = [left EXCEPT ![s] = @ - 1]
        /\ Becomes(s, "send")
     \/ /\ left[s] = 0 \/ ~Open(s)
        /\ Becomes(s, "release") /\ UNCHANGED <<failures, body, left>>
     \/ Fault /\ left[s] > 0 /\ Becomes(s, "release") /\ UNCHANGED <<body, left>>
  /\ UNCHANGED <<saw, header, fileVars, clientVars>>

ServerReleases(s) == Release(s) /\ UNCHANGED <<fileVars, workVars, wireVars, clientVars>>

Worker(s) == Receive(s) \/ Look(s) \/ Scan(s) \/ OpenFile(s) \/ Send(s) \/ ServerReleases(s)

\* ------------------------------------------------------------------------ client
Comes(s, place) == download' = [download EXCEPT ![s] = place]
Served == UNCHANGED <<lifeVars, failures, fileVars, workVars>>

\* DaemonRecordingFileClient.open: every download has a connection of its own.
Ask(s) ==
  /\ Opens(s) /\ Comes(s, "header")
  /\ Served /\ UNCHANGED <<wireVars, expects, received>>

\* Whatever is wrong closes the connection, and so does the end.
Finishes(s, place) == Comes(s, place) /\ far' = far \ {s}

ReadHeader(s) ==
  /\ download[s] = "header"
  /\ \/ /\ header[s] # None /\ header[s].status = "ok"
        /\ Comes(s, "body") /\ expects' = [expects EXCEPT ![s] = header[s].length] /\ UNCHANGED far
     \/ /\ header[s] # None /\ header[s].status # "ok"
        /\ Finishes(s, header[s].status) /\ UNCHANGED expects
     \/ header[s] = None /\ Finishes(s, "broken") /\ UNCHANGED expects
  /\ header' = [header EXCEPT ![s] = None]
  /\ Served /\ UNCHANGED <<backlog, near, unused, body, received>>

\* read(): truncated content and a timeout are errors.
ReadBody(s) ==
  /\ download[s] = "body" /\ expects[s] > 0
  /\ IF body[s] > 0
     THEN /\ body' = [body EXCEPT ![s] = @ - 1] /\ expects' = [expects EXCEPT ![s] = @ - 1]
          /\ received' = [received EXCEPT ![s] = @ + 1] /\ UNCHANGED <<far, download>>
     ELSE Finishes(s, "broken") /\ UNCHANGED <<body, expects, received>>
  /\ Served /\ UNCHANGED <<backlog, near, unused, header>>

\* _verify_complete_locked: only the end of the stream may follow.
Verify(s) ==
  /\ download[s] = "body" /\ expects[s] = 0
  /\ \/ body[s] = 0 /\ s \notin near /\ Finishes(s, "verified")
     \/ (body[s] > 0 \/ s \in near) /\ Finishes(s, "broken")
  /\ Served /\ UNCHANGED <<backlog, near, unused, wireVars, expects, received>>

Client(s) == ReadHeader(s) \/ ReadBody(s) \/ Verify(s)

\* ------------------------------------------------------------------ specification
Init ==
  /\ ServerInit
  /\ recording = "none" /\ chunks = 0
  /\ saw = [s \in Conns |-> None] /\ left = [s \in Conns |-> 0]
  /\ header = [s \in Conns |-> None] /\ body = [s \in Conns |-> 0]
  /\ download = [s \in Conns |-> "none"] /\ expects = body /\ received = body

Next ==
  \/ ServerStart \/ ServerStop \/ Accepting \/ ServerBreaks \/ Replaced \/ Recorder
  \/ \E s \in Conns : Worker(s) \/ Ask(s) \/ Client(s)

Step == Stopping \/ Accepting \/ \E s \in Conns : Worker(s)

\* In the daemon and in the clients some thread runs if one can, and every wait has a
\* timeout; the bounds leave no thread to run for ever.
Fairness ==
  /\ WF_vars(service = "files" /\ Step)
  /\ WF_vars(service = "files" /\ \E s \in Conns : Client(s))

Spec == service = "files" /\ Init /\ [][Next]_vars /\ Fairness

\* --------------------------------------------------------------------- properties
\* A download that is verified has what the header said and is the whole recording,
\* unless the worker asked the manager before the recording was the manager's.
FilesWhole ==
  /\ Owned
  /\ \A s \in Conns : download[s] = "verified" =>
       saw[s] \in {"none", "open", "final"} /\ (saw[s] = "final" => received[s] = chunks)

Downloading == \E s \in Conns : download[s] \in {"header", "body"}

\* A server that is stopped ends all it began, and every download ends.
Leaving == Ending \/ Downloading
Left == Ended /\ ~Downloading
AllEnd == Leaving ~> Left

===============================================================================

------------------------------ MODULE ApiService ------------------------------
(***************************************************************************)
(* The daemon's request and response API: DaemonApiServer over             *)
(* DaemonReadOnlyApi (daemon_server.py, daemon_api.py) and DaemonApiClient *)
(* (daemon_client.py), whose one connection several threads share.  A      *)
(* daemon may be replaced by another that offers other operations.         *)
(***************************************************************************)
EXTENDS SocketServer, Sequences

CONSTANTS
  Callers,       \* threads that use the client
  Controllers,   \* those that control the scanner, the others read its state
  MaxCalls       \* bound: calls they make

VARIABLES
  daemon,        \* which daemon is running
  offers,        \* the operations each daemon offers
  home,          \* the daemon each connection leads to
  up, down,      \* requests and responses on each connection, not read
  handling,      \* the request each worker handles
  socket,          \* _socket
  hello,         \* _hello_result: the daemon it tells of
  turn,          \* who has _request_lock
  call,          \* of each caller: where it is, and what it asks and got
  ids,           \* _request_sequence
  calls,         \* bound
  refused        \* history: a response was refused

apiVars == <<daemon, offers, home, up, down, handling>>
callVars == <<turn, call, ids, calls, refused>>
clientVars == <<socket, hello, callVars>>
vars == <<serverVars, apiVars, clientVars>>

Incarnations == {1, 2}
Idle == [pc |-> "idle", wants |-> None, left |-> 0, op |-> None, id |-> 0, conn |-> None, answer |-> None]
Request(id, op) == [id |-> id, op |-> op]
Answer(id, op, ok) == [id |-> id, op |-> op, ok |-> ok]

\* ------------------------------------------------------------------------ server
ServerStart == Start /\ UNCHANGED <<apiVars, clientVars>>
ServerStop == (StopBegin("sockets") \/ StopSockets \/ StopJoin({})) /\ UNCHANGED <<apiVars, clientVars>>
ServerAccepts == (Acceptor("receive") \/ AcceptBreaks) /\ UNCHANGED <<apiVars, clientVars>>

Replaced ==
  /\ daemon = 1 /\ Exit /\ daemon' = 2
  /\ handling' = [s \in Conns |-> None]
  /\ UNCHANGED <<offers, home, up, down, clientVars>>

\* recv: a request, the end of the stream, or client_timeout.
Receive(s) ==
  /\ serving[s] = "receive"
  /\ \/ /\ up[s] # <<>> /\ s \in near
        /\ handling' = [handling EXCEPT ![s] = Head(up[s])] /\ up' = [up EXCEPT ![s] = Tail(@)]
        /\ Becomes(s, "dispatch") /\ UNCHANGED failures
     \/ /\ ~Open(s) \/ stopEvent
        /\ Becomes(s, "release") /\ UNCHANGED <<handling, up, failures>>
     \/ Fault /\ Becomes(s, "release") /\ UNCHANGED <<handling, up>>
  /\ UNCHANGED <<daemon, offers, home, down, clientVars>>

Respond(s, answers) ==
  IF Open(s)
  THEN (\E answer \in answers : down' = [down EXCEPT ![s] = Append(@, answer)]) /\ Becomes(s, "receive")
  ELSE UNCHANGED down /\ Becomes(s, "release")

\* _capabilities
Offered(d) == offers[d] \cup {"hello", "snapshot"}

\* _dispatch: hello has an answer, what a snapshot, a control or a recording comes to is
\* its component's.
Performs(request) == {Answer(request.id, request.op, ok) : ok \in {TRUE, request.op = "hello"}}

\* _handle_payload: an operation that is not offered is refused.
Outcomes(request) ==
  IF request.op \in Offered(daemon) THEN Performs(request) ELSE {Answer(request.id, request.op, FALSE)}

\* _dispatch_frame: a response that is too large is replaced by an error without an ID.
Dispatch(s) ==
  /\ serving[s] = "dispatch"
  /\ \/ UNCHANGED failures /\ Respond(s, Outcomes(handling[s]))
     \/ Fault /\ Respond(s, {Answer(None, "error", FALSE)})
  /\ handling' = [handling EXCEPT ![s] = None]
  /\ UNCHANGED <<daemon, offers, home, up, clientVars>>

ServerReleases(s) == Release(s) /\ UNCHANGED <<apiVars, clientVars>>

Worker(s) == Receive(s) \/ Dispatch(s) \/ ServerReleases(s)

\* ------------------------------------------------------------------------ client
At(c, place) == call[c].pc = place
Goes(c, place) == call' = [call EXCEPT ![c].pc = place]
Fails(c) == call' = [call EXCEPT ![c] = Idle]
Unserved == UNCHANGED <<lifeVars, failures, apiVars>>

\* _invalidate: a connection that failed is closed, and forgotten if it is still the
\* current one.
Invalidate(s) ==
  /\ far' = far \ {s}
  /\ IF socket = s THEN socket' = None /\ hello' = None ELSE UNCHANGED <<socket, hello>>

\* A control is looked up twice in what hello() told, any other operation that may
\* be missing once, and a snapshot is not.
Lookups(op) == IF op = "control" THEN 2 ELSE IF op = "snapshot" THEN 0 ELSE 1

Calls(c, op) ==
  /\ At(c, "idle") /\ calls < MaxCalls /\ calls' = calls + 1
  /\ call' = [call EXCEPT ![c] = [Idle EXCEPT !.pc = "look", !.wants = op, !.left = Lookups(op)]]
  /\ Unserved /\ UNCHANGED <<socketVars, socket, hello, turn, ids, refused>>

\* _require_operation: what the daemon does not offer is not asked of it.
Told(c, d) ==
  call' = [call EXCEPT ![c] =
    IF call[c].wants \in Offered(d)
    THEN [Idle EXCEPT !.pc = "look", !.wants = call[c].wants, !.left = call[c].left - 1] ELSE Idle]

\* hello(): what was told before, or else a request.
Look(c) ==
  /\ At(c, "look")
  /\ IF call[c].left > 0 /\ hello # None
     THEN Told(c, hello)
     ELSE call' = [call EXCEPT ![c].pc = "lock", ![c].op = IF call[c].left > 0 THEN "hello" ELSE call[c].wants]
  /\ Unserved /\ UNCHANGED <<socketVars, socket, hello, turn, ids, calls, refused>>

Connects(s) == Opens(s) /\ socket' = s /\ home' = [home EXCEPT ![s] = daemon]

\* request(): one at a time, on the connection there is or a new one.
Begin(c) ==
  /\ At(c, "lock") /\ turn = None
  /\ ids' = ids + 1
  /\ \E s \in Conns :
       /\ s = socket \/ (socket = None /\ Connects(s))
       /\ socket # None => UNCHANGED <<socketVars, home, socket>>
       /\ call' = [call EXCEPT ![c].pc = "send", ![c].conn = s, ![c].id = ids']
  /\ turn' = c
  /\ UNCHANGED <<lifeVars, failures, daemon, offers, up, down, handling, hello, calls, refused>>

Unavailable(c) ==
  /\ At(c, "lock") /\ turn = None /\ socket = None /\ ~(\E s \in Conns : Reachable(s))
  /\ Fails(c)
  /\ Unserved /\ UNCHANGED <<socketVars, socket, hello, turn, ids, calls, refused>>

SendCall(c) ==
  /\ At(c, "send")
  /\ LET s == call[c].conn IN
     IF Open(s)
     THEN /\ up' = [up EXCEPT ![s] = Append(@, Request(call[c].id, call[c].op))]
          /\ Goes(c, "read") /\ UNCHANGED <<far, socket, hello, turn>>
     ELSE /\ Invalidate(s) /\ Fails(c) /\ turn' = None /\ UNCHANGED up
  /\ UNCHANGED <<lifeVars, failures, backlog, near, unused, daemon, offers, home, down, handling,
                 ids, calls, refused>>

\* Mutant: the response is anyone's.
AcceptsAny(answer, c) == TRUE

\* _decode_response
Accepts(answer, c) == answer.id = call[c].id

\* _validate_hello_result and its like: the result is one of the operation.
Fits(answer, c) == answer.ok => answer.op = call[c].op

\* _read_response: one line and no more, or the end of the stream, or a timeout.
ReadCall(c) ==
  /\ At(c, "read") /\ turn' = None
  /\ LET s == call[c].conn IN
     \/ /\ s \in far /\ Len(down[s]) = 1 /\ Accepts(down[s][1], c)
        /\ call' = [call EXCEPT ![c].answer = down[s][1], ![c].pc = "check"]
        /\ down' = [down EXCEPT ![s] = <<>>]
        /\ UNCHANGED <<far, socket, hello, refused>>
     \/ /\ s \in far /\ down[s] # <<>> /\ ~(Len(down[s]) = 1 /\ Accepts(down[s][1], c))
        /\ refused' = (refused \/ \A i \in DOMAIN down[s] : down[s][i].id # None)
        /\ Invalidate(s) /\ Fails(c) /\ UNCHANGED down
     \/ /\ s \in far => down[s] = <<>>
        /\ Invalidate(s) /\ Fails(c) /\ UNCHANGED <<down, refused>>
  /\ UNCHANGED <<lifeVars, failures, backlog, near, unused, daemon, offers, home, up, handling, ids,
                 calls>>

\* close(): of the connection there is, whoever uses it.
Closes ==
  /\ far' = far \ {socket} /\ socket' = None /\ hello' = None

\* The result is checked when the next caller may already have the lock.  What hello()
\* told is kept if there is a connection, whichever it is.
Check(c) ==
  /\ At(c, "check")
  /\ LET answer == call[c].answer
         told   == home[call[c].conn] IN
     \/ ~Fits(answer, c) /\ Closes /\ Fails(c)
     \/ /\ Fits(answer, c) /\ answer.ok /\ call[c].op = "hello"
        /\ hello' = IF socket # None THEN told ELSE hello
        /\ Told(c, told) /\ UNCHANGED <<far, socket>>
     \/ /\ Fits(answer, c) /\ ~(answer.ok /\ call[c].op = "hello")
        /\ Fails(c) /\ UNCHANGED <<far, socket, hello>>
  /\ Unserved /\ UNCHANGED <<backlog, near, unused, turn, ids, calls, refused>>

\* close() from another thread does not wait for a request.
Close ==
  /\ socket # None /\ Closes
  /\ Unserved /\ UNCHANGED <<backlog, near, unused, callVars>>

Caller(c) == Look(c) \/ Begin(c) \/ Unavailable(c) \/ SendCall(c) \/ ReadCall(c) \/ Check(c)

\* ------------------------------------------------------------------ specification
Init ==
  /\ ServerInit
  /\ daemon = 1
  /\ offers = [d \in Incarnations |-> IF d = 1 THEN {"control"} ELSE {}]
  /\ home = [s \in Conns |-> 1]
  /\ up = [s \in Conns |-> <<>>] /\ down = up /\ handling = [s \in Conns |-> None]
  /\ socket = None /\ hello = None /\ turn = None /\ call = [c \in Callers |-> Idle]
  /\ ids = 0 /\ calls = 0 /\ refused = FALSE

Next ==
  \/ ServerStart \/ ServerStop \/ ServerAccepts \/ Replaced \/ Close
  \/ \E s \in Conns : Worker(s)
  \/ \E c \in Callers : Caller(c) \/ Calls(c, IF c \in Controllers THEN "control" ELSE "snapshot")

Step ==
  \/ (StopSockets \/ StopJoin({}) \/ Acceptor("receive")) /\ UNCHANGED <<apiVars, clientVars>>
  \/ \E s \in Conns : Worker(s)
  \/ \E c \in Callers : Caller(c)

\* Some thread runs if one can, and every wait has a timeout; the bounds leave no thread
\* to run for ever.
Fairness == WF_vars(service = "api" /\ Step)

Spec == service = "api" /\ Init /\ [][Next]_vars /\ Fairness

\* --------------------------------------------------------------------- properties
\* The variables keep to their types, and the server owns its connections.
TypeOK ==
  /\ daemon \in Incarnations /\ socket \in Conns \cup {None} /\ hello \in Incarnations \cup {None}
  /\ turn \in Callers \cup {None} /\ ids <= 3 * MaxCalls
  /\ Owned

\* An answer that a call returns is the answer to its own request; only an
\* answer without an ID is ever refused.
AnswersOwn ==
  /\ \A c \in Callers : call[c].answer # None =>
       call[c].answer.op = call[c].op /\ call[c].answer.id = call[c].id
  /\ ~refused

\* A socket that is open at the client is the current one or belongs to a call that
\* is under way, and the current one is open.
SocketsOwned ==
  /\ socket # None => socket \in far
  /\ far \subseteq {socket} \cup {call[c].conn : c \in {d \in Callers : call[d].pc \in {"send", "read"}}}

Leaving == Ending \/ \E c \in Callers : ~At(c, "idle")
Left == Ended /\ \A c \in Callers : At(c, "idle")

\* A server that is stopped ends all it began, and every call returns.
AllEnd == Leaving ~> Left

===============================================================================

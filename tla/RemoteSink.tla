------------------------------ MODULE RemoteSink ------------------------------
(***************************************************************************)
(* A remote audio destination: RemotePcmSink (remote_audio.py) with its    *)
(* bounded queue and its worker, the Broadcastify connection it opens      *)
(* (broadcastify.py) and the encoder process behind that connection        *)
(* (remote_audio_encoder.py).                                              *)
(*                                                                         *)
(* Threads: whoever submits audio, the worker, one caller of stop, a       *)
(* listener of the state transitions that may call stop from the worker,   *)
(* and the connection's pump.  The network may stall or break, and the     *)
(* encoder may exit, at any time.                                          *)
(***************************************************************************)
EXTENDS Integers, Sequences

CONSTANTS
  Capacity,     \* _capacity_bytes
  ChunkSizes,   \* sizes of a submission
  MaxChunks,    \* bound: submissions
  MaxAttempts,  \* ReconnectPolicy.max_attempts
  None

ASSUME SinkAssumption ==
  Capacity \in Nat \ {0} /\ ChunkSizes \subseteq Nat \ {0} /\ MaxChunks \in Nat
    /\ MaxAttempts \in Nat

VARIABLES
  chunks,      \* submissions so far
  queue,       \* sizes of the queued chunks
  counts,      \* bytes submitted, written and dropped
  state,       \* the lifecycle state that is reported
  stopping, stopped,
  finishes,    \* _worker_finishes_stop
  retries,     \* _retry_attempt
  worker,      \* where _run is
  chunk,       \* size of the chunk it took
  connection,  \* its connection
  active,      \* the connection is published for stop to interrupt
  stopper,     \* where the caller of stop is
  held         \* it captured a connection

audioVars == <<chunks, queue, counts>>
lifeVars == <<state, stopping, stopped, finishes, retries>>
connVars == <<connection, active>>
stopVars == <<stopper, held>>
vars == <<audioVars, lifeVars, worker, chunk, connVars, stopVars>>

\* What the gauge _queued_bytes says of a queue.
Bytes(q) ==
  LET upTo[n \in 0 .. Len(q)] == IF n = 0 THEN 0 ELSE upTo[n - 1] + q[n]
  IN  upTo[Len(q)]

Opened == [interrupted |-> FALSE, closing |-> FALSE, failed |-> FALSE,
           pump |-> "running", encoder |-> "running"]

Alive == worker \notin {"new", "ended"}
Goto(where) == worker' = where
Dropping(n) == counts' = [counts EXCEPT !.dropped = @ + n]

\* ------------------------------------------------------------------ submit_pcm
Start == worker = "new" /\ Goto("wait")
         /\ UNCHANGED <<audioVars, lifeVars, chunk, connVars, stopVars>>

Fits(size) == IF size > Capacity THEN Capacity ELSE size

\* Mutant: what a chunk longer than the queue lost of itself is not counted.
LostChunks(q, n, size) == Bytes(SubSeq(q, 1, n))

Lost(q, n, size) == size - Fits(size) + Bytes(SubSeq(q, 1, n))

\* How many of the oldest chunks go to make room for a submission.
Overflow(q, size) ==
  CHOOSE n \in 0 .. Len(q) :
    /\ n = Len(q) \/ Bytes(SubSeq(q, n + 1, Len(q))) + Fits(size) <= Capacity
    /\ \A m \in 0 .. n - 1 : Bytes(SubSeq(q, m + 1, Len(q))) + Fits(size) > Capacity

Submit ==
  /\ Alive /\ ~stopping /\ ~stopped /\ chunks < MaxChunks
  /\ chunks' = chunks + 1
  /\ \E size \in ChunkSizes :
       LET n == Overflow(queue, size)
       IN  /\ queue' = Append(SubSeq(queue, n + 1, Len(queue)), Fits(size))
           /\ counts' = [counts EXCEPT !.submitted = @ + size, !.dropped = @ + Lost(queue, n, size)]
  /\ UNCHANGED <<lifeVars, worker, chunk, connVars, stopVars>>

\* -------------------------------------------------------------- the connection
Unusable == connection.interrupted \/ connection.closing \/ connection.failed
Change(c) == connection' = c /\ UNCHANGED <<audioVars, lifeVars, worker, chunk, active, stopVars>>

\* The server stops reading, or reads on.
NetworkStalls ==
  /\ connection # None /\ connection.pump \in {"running", "stalled"}
  /\ Change([connection EXCEPT !.pump = IF @ = "running" THEN "stalled" ELSE "running"])

\* _pump_encoded_audio ends: sending failed, or timed out, or the encoder closed
\* its output; only an error that nobody asked for is kept.
PumpEnds ==
  /\ connection # None /\ connection.pump # "ended"
  /\ \E broke \in BOOLEAN :
       /\ broke \/ connection.encoder = "exited"
       /\ Change([connection EXCEPT !.pump = "ended",
                    !.failed = broke /\ ~connection.interrupted /\ ~connection.closing])

EncoderExits ==
  /\ connection # None /\ connection.encoder = "running"
  /\ Change([connection EXCEPT !.encoder = "exited"])

\* -------------------------------------------------------------------- the worker
\* The top of the loop.
TakeTurn ==
  /\ worker = "wait"
  /\ \/ stopping /\ Goto("final")
     \/ ~stopping /\ queue # <<>> /\ Goto(IF connection = None THEN "announce" ELSE "take")
  /\ UNCHANGED <<audioVars, lifeVars, chunk, connVars, stopVars>>

\* The state becomes "connecting" even when a stop came first.
Announce ==
  /\ worker = "announce"
  /\ state' = "connecting" /\ Goto("announced")
  /\ UNCHANGED <<audioVars, stopping, stopped, finishes, retries, chunk, connVars, stopVars>>

Resolve ==
  /\ worker = "announced"
  /\ Goto(IF stopping THEN "final" ELSE "open")
  /\ UNCHANGED <<audioVars, lifeVars, chunk, connVars, stopVars>>

\* The connection factory: sockets, authentication, encoder and pump, or an error.
Open ==
  /\ worker = "open"
  /\ \/ connection' = Opened /\ Goto("opened")
     \/ UNCHANGED connection /\ Goto("failing")
  /\ UNCHANGED <<audioVars, lifeVars, chunk, active, stopVars>>

\* Mutant: the connection is used but not published for stop to interrupt.
AdoptUnpublished ==
  /\ worker = "opened"
  /\ IF stopping THEN Goto("final") /\ UNCHANGED <<state, retries>>
     ELSE state' = "connected" /\ retries' = 0 /\ Goto("adopted")
  /\ UNCHANGED <<audioVars, stopping, stopped, finishes, chunk, connVars, stopVars>>

Adopt ==
  /\ worker = "opened"
  /\ IF stopping THEN Goto("final") /\ UNCHANGED <<state, active, retries>>
     ELSE state' = "connected" /\ active' = TRUE /\ retries' = 0 /\ Goto("adopted")
  /\ UNCHANGED <<audioVars, stopping, stopped, finishes, chunk, connection, stopVars>>

TakeChunk ==
  /\ worker \in {"adopted", "take"}
  /\ \/ stopping /\ Goto("final") /\ UNCHANGED <<chunk, queue>>
     \/ ~stopping /\ queue = <<>> /\ Goto("wait") /\ UNCHANGED <<chunk, queue>>
     \/ ~stopping /\ queue # <<>> /\ chunk' = Head(queue) /\ queue' = Tail(queue) /\ Goto("write")
  /\ UNCHANGED <<chunks, counts, lifeVars, connVars, stopVars>>

\* write_pcm looks before it writes into the encoder ...
WriteBegin ==
  /\ worker = "write"
  /\ Goto(IF Unusable \/ connection.encoder = "exited" THEN "broken" ELSE "writing")
  /\ UNCHANGED <<audioVars, lifeVars, chunk, connVars, stopVars>>

\* ... the encoder takes the bytes, or finds its input closed by an interrupt, and
\* the connection is looked at again ...
WriteReturns ==
  /\ worker = "writing" /\ connection.encoder = "running"
  /\ IF Unusable THEN Goto("broken") /\ UNCHANGED <<counts, chunk>>
     ELSE /\ counts' = [counts EXCEPT !.written = @ + chunk]
          /\ chunk' = 0 /\ Goto("wait")
  /\ UNCHANGED <<chunks, queue, lifeVars, connVars, stopVars>>

\* ... or the encoder is gone.
WriteRaises ==
  /\ worker = "writing" /\ connection.encoder = "exited"
  /\ Goto("broken")
  /\ UNCHANGED <<audioVars, lifeVars, chunk, connVars, stopVars>>

\* The chunk is lost, and stop does not see the connection any more.
Broken ==
  /\ worker = "broken"
  /\ Dropping(chunk) /\ chunk' = 0 /\ active' = FALSE
  /\ connection' = [connection EXCEPT !.closing = TRUE]
  /\ Goto("closing")
  /\ UNCHANGED <<chunks, queue, lifeVars, stopVars>>

\* close: the encoder is finalized: its input is closed, and it is terminated and
\* killed if that does not end it ...
Finalize ==
  /\ worker \in {"closing", "last"}
  /\ connection' = [connection EXCEPT !.encoder = "exited"]
  /\ Goto(IF worker = "closing" THEN "joining" ELSE "lastJoin")
  /\ UNCHANGED <<audioVars, lifeVars, chunk, active, stopVars>>

\* ... then the pump is joined, or its socket closed under it.
Close ==
  /\ worker \in {"joining", "lastJoin"}
  /\ connection' = None /\ Goto(IF worker = "joining" THEN "settle" ELSE "exit")
  /\ UNCHANGED <<audioVars, lifeVars, chunk, active, stopVars>>

Settle ==
  /\ worker = "settle"
  /\ Goto(IF stopping THEN "final" ELSE "failing")
  /\ UNCHANGED <<audioVars, lifeVars, chunk, connVars, stopVars>>

\* _wait_after_failure: it does not look whether a stop came.
Fail ==
  /\ worker = "failing"
  /\ retries' = retries + 1
  /\ IF retries + 1 > MaxAttempts
     THEN /\ state' = "failed" /\ stopping' = TRUE
          /\ Dropping(Bytes(queue)) /\ queue' = <<>> /\ Goto("failed")
     ELSE state' = "backoff" /\ Goto("backoff") /\ UNCHANGED <<stopping, counts, queue>>
  /\ UNCHANGED <<chunks, stopped, finishes, chunk, connVars, stopVars>>

BackoffEnds ==
  /\ worker \in {"backoff", "failed"}
  /\ Goto(IF stopping THEN "final" ELSE "wait")
  /\ UNCHANGED <<audioVars, lifeVars, chunk, connVars, stopVars>>

Final ==
  /\ worker = "final"
  /\ active' = FALSE
  /\ IF connection = None THEN Goto("exit") /\ UNCHANGED connection
     ELSE connection' = [connection EXCEPT !.closing = TRUE] /\ Goto("last")
  /\ UNCHANGED <<audioVars, lifeVars, chunk, stopVars>>

Exit ==
  /\ worker = "exit"
  /\ IF finishes THEN stopped' = TRUE /\ state' = "stopped" ELSE UNCHANGED <<stopped, state>>
  /\ Goto("ended")
  /\ UNCHANGED <<audioVars, stopping, finishes, retries, chunk, connVars, stopVars>>

\* ------------------------------------------------------------------------- stop
\* The section of stop under the lock; a second call, of a sink that says it is
\* stopping, returns at once.
Stops ==
  /\ worker # "new" /\ ~stopped /\ ~(stopping /\ state = "stopping")
  /\ stopping' = TRUE
  /\ IF stopping THEN UNCHANGED <<state, queue, counts>>
     ELSE /\ state' = IF state = "failed" THEN state ELSE "stopping"
          /\ Dropping(Bytes(queue)) /\ queue' = <<>>

Interrupted == IF connection = None THEN None ELSE [connection EXCEPT !.interrupted = TRUE]

StopBegin ==
  /\ stopper \in {"none", "timedout"} /\ Stops
  /\ held' = active /\ stopper' = "interrupt"
  /\ UNCHANGED <<chunks, stopped, finishes, retries, worker, chunk, connVars>>

StopInterrupt ==
  /\ stopper = "interrupt"
  /\ connection' = IF held THEN Interrupted ELSE connection
  /\ held' = FALSE /\ stopper' = "join"
  /\ UNCHANGED <<audioVars, lifeVars, worker, chunk, active>>

StopReturns ==
  /\ stopper = "join"
  /\ \/ worker = "ended" /\ stopped' = TRUE /\ state' = "stopped" /\ stopper' = "done"
     \/ Alive /\ stopper' = "timedout" /\ UNCHANGED <<stopped, state>>
  /\ UNCHANGED <<audioVars, stopping, finishes, retries, worker, chunk, connVars, held>>

\* A listener calls stop while the worker reports a transition.
ListenerStops ==
  /\ worker \in {"announced", "adopted", "backoff", "failed"} /\ Stops
  /\ connection' = IF active THEN Interrupted ELSE connection
  /\ finishes' = TRUE
  /\ UNCHANGED <<chunks, stopped, retries, worker, chunk, active, stopVars>>

\* ---------------------------------------------------------------- specification
Init ==
  /\ chunks = 0 /\ queue = <<>> /\ counts = [submitted |-> 0, written |-> 0, dropped |-> 0]
  /\ state = "idle" /\ stopping = FALSE /\ stopped = FALSE /\ finishes = FALSE /\ retries = 0
  /\ worker = "new" /\ chunk = 0 /\ connection = None /\ active = FALSE
  /\ stopper = "none" /\ held = FALSE

WorkerNext ==
  \/ TakeTurn \/ Announce \/ Resolve \/ Open \/ Adopt \/ TakeChunk
  \/ WriteBegin \/ WriteReturns \/ WriteRaises \/ Broken \/ Finalize \/ Close \/ Settle \/ Fail
  \/ BackoffEnds \/ Final \/ Exit

Next ==
  \/ Start \/ Submit \/ NetworkStalls \/ PumpEnds \/ EncoderExits \/ WorkerNext
  \/ StopBegin \/ StopInterrupt \/ StopReturns \/ ListenerStops

\* Every thread that can run runs.  A write is certain to return only while the
\* pump sends, and the encoder to exit only when it was terminated.
WorkerRuns == WorkerNext /\ (worker = "writing" => connection.pump = "running" \/ connection.encoder = "exited")
Terminated == EncoderExits /\ connection.interrupted

Fairness == WF_vars(WorkerRuns) /\ WF_vars(StopInterrupt) /\ WF_vars(Terminated)

\* ------------------------------------------------------------------- properties
TypeOK ==
  /\ Bytes(queue) <= Capacity /\ counts \in [{"submitted", "written", "dropped"} -> Nat]
  /\ state \in {"idle", "connecting", "connected", "backoff", "failed", "stopping", "stopped"}
  /\ {stopping, stopped, finishes, active, held} \subseteq BOOLEAN
  /\ retries \in 0 .. MaxAttempts + 1

\* Every byte submitted is written, counted as dropped, queued or in the worker's
\* hands, through overflow, failed writes, exhausted retries and stops; a worker
\* that ended leaves no connection and no queued audio behind; a sink that says it
\* stopped has; and one that says it is connected has a connection stop can reach.
Sound ==
  /\ counts.submitted = counts.written + counts.dropped + Bytes(queue) + chunk
  /\ worker = "ended" => connection = None /\ queue = <<>> /\ ~active
  /\ stopped \/ state = "stopped" => worker = "ended"
  /\ state = "connected" => active \/ worker \in {"closing", "joining", "settle", "failing"}

=============================================================================

----------------------------- MODULE NetworkAudio -----------------------------
(***************************************************************************)
(* Audio from a scanner on the network: a recording session that owns a    *)
(* stream (AudioRecordingSession, audio_session.py), the transport below   *)
(* it with its RTP reader and its RTSP keepalive (network_audio.py), the   *)
(* RTSP client (rtsp.py) and the trackers that judge the order of packets  *)
(* (rtp.py).  Sequence numbers and timestamps wrap at Modulus; a packet    *)
(* carries one sample.  Between the transport and the recorder is a bus    *)
(* (events.py), which swallows what a callback raises.                     *)
(***************************************************************************)
EXTENDS Integers, Sequences, SequencesExt

CONSTANTS
  MaxFaults,   \* bound: what goes wrong in a run
  MaxPackets   \* bound: packets that come through

VARIABLES
  pc,        \* the owner: start, stop, or between them
  failing,   \* start has raised, or stop has something to raise
  sock,      \* the RTP socket: "none", "open" or "closed"
  client,    \* the RTSP client: "none", "open" or "closed"
  published, \* socket, client and threads are the transport's
  halt,      \* _stop
  handler,   \* _handler is set
  subscribed,\* the recorder is subscribed to the stream's chunks
  wav,       \* the recorder: "none", "open" or "closed"
  reader,    \* the receiver thread
  keeper,    \* the keepalive thread
  asking,    \* the owner of _rtsp_lock
  waiting,   \* answers that nobody read yet
  server,    \* the scanner's RTSP session: "none", "set up", "playing" or "gone"
  previous,  \* the tracker's last packet, by its place in the scanner's stream, or 0
  recent,    \* the sequence numbers the tracker remembers
  clock,     \* the timestamp tracker's last
  shift,     \* by how much the scanner set its clock back
  tally,     \* statistics
  first,     \* history: the first packet that was delivered
  stuck,     \* history: a join timed out
  faults

ownerVars == <<pc, failing>>
callVars == <<client, asking, waiting, server>>
sharedVars == <<published, halt, handler, subscribed>>
packetVars == <<previous, recent, clock, shift, first>>
vars == <<ownerVars, sock, callVars, sharedVars, wav, reader, keeper, packetVars, tally, stuck, faults>>

Modulus == 8
History == 2
Places == 14 .. 20         \* the packets, in one turn: numbers wrap between the second and the third
Reach == 3                 \* bound: how far the network reorders, and how many it loses in a row
Requests == <<"OPTIONS", "DESCRIBE", "SETUP", "PLAY">>

May == faults < MaxFaults /\ faults' = faults + 1
Count(fields) == tally' = [f \in DOMAIN tally |-> IF f \in fields THEN tally[f] + 1 ELSE tally[f]]

\* ---------------------------------------------------------- sequence tracker
Expected == (previous + 1) % Modulus

\* Mutant: numbers are compared as they are.
AheadPlain(number) == IF number < Expected THEN Modulus - 1 ELSE number - Expected

Ahead(number) == (number - Expected) % Modulus

\* Mutant: a number half the range ahead is still ahead.
HalfAndOne == Modulus \div 2 + 1

\* Numbers less than half the range ahead are ahead, the others behind.  Reach meets
\* both sides: the farthest packet ahead is at Half - 1, the oldest at Half.
Half == Modulus \div 2

Remember(number) ==
  recent' = IF number \in ToSet(recent) THEN recent
            ELSE LET longer == Append(recent, number)
                 IN  SubSeq(longer, IF Len(longer) > History THEN 2 ELSE 1, Len(longer))

\* RtpSequenceTracker.observe: what the packet is, and how many are missing before it
Judged(number) ==
  IF previous = 0 THEN [as |-> "next", missing |-> 0]
  ELSE IF number \in ToSet(recent) THEN [as |-> "duplicate", missing |-> 0]
  ELSE IF Ahead(number) < Half THEN [as |-> "next", missing |-> Ahead(number)]
  ELSE [as |-> "late", missing |-> 0]

\* RtpTimestampTracker.observe: samples missing, or a clock that went back
Skipped(timestamp) ==
  IF clock = -1 THEN 0 ELSE (timestamp - (clock + 1)) % Modulus

Backwards(timestamp) == Skipped(timestamp) >= Half

\* ------------------------------------------------------------- receiver thread
\* A packet that came through; the scanner numbers them, and the network may have
\* lost, repeated or held back some.
Near == {n \in Places : previous # 0 => n \in previous - Reach .. previous + Reach + 1}

Discard(why) == Count({"received", why}) /\ reader' = "loop"

Deliver(place, missing) ==
  LET stamp == (place - shift) % Modulus IN
  /\ previous' = place /\ clock' = stamp
  /\ first' = IF first = 0 THEN place ELSE first
  /\ tally' = [tally EXCEPT
       !.received = @ + 1, !.delivered = @ + 1, !.lost = @ + missing,
       !.samples = @ + (IF Backwards(stamp) THEN 0 ELSE Skipped(stamp)),
       !.backwards = @ + (IF Backwards(stamp) THEN 1 ELSE 0)]
  /\ reader' = "deliver"

Receive(place) ==
  /\ reader = "receive" /\ sock = "open" /\ ~halt
  /\ LET number == place % Modulus verdict == Judged(number) IN
     CASE verdict.as = "next" ->
            Deliver(place, verdict.missing) /\ Remember(number)
       [] verdict.as = "duplicate" ->
            Discard("duplicate") /\ UNCHANGED <<previous, recent, clock, first>>
       [] verdict.as = "late" ->
            Discard("late") /\ Remember(number) /\ UNCHANGED <<previous, clock, first>>
  /\ UNCHANGED <<ownerVars, sock, callVars, sharedVars, wav, keeper, shift, stuck, faults>>

\* Another sender, another stream, or no RTP packet at all
ReceiveForeign ==
  /\ reader = "receive" /\ sock = "open" /\ ~halt /\ May
  /\ Discard("foreign")
  /\ UNCHANGED <<ownerVars, sock, callVars, sharedVars, wav, keeper, packetVars, stuck>>

\* The stop is seen, the read timed out, or the socket was closed or broke.
ReaderLoops ==
  /\ reader = "loop"
  /\ reader' = IF halt \/ ~published THEN "ended" ELSE "receive"
  /\ UNCHANGED <<ownerVars, sock, callVars, sharedVars, wav, keeper, packetVars, tally, stuck, faults>>

ReaderWakes ==
  /\ reader = "receive"
  /\ \/ sock = "open" /\ reader' = "loop" /\ UNCHANGED <<tally, faults>>
     \/ sock = "open" /\ May /\ reader' = "ended" /\ IF halt THEN UNCHANGED tally ELSE Count({"broken"})
     \/ sock = "closed" /\ reader' = "ended" /\ UNCHANGED <<tally, faults>>
  /\ UNCHANGED <<ownerVars, sock, callVars, sharedVars, wav, keeper, packetVars, stuck>>

\* The handler is looked up: it hands the packet to the bus of the stream.
ReaderCalls ==
  /\ reader = "deliver"
  /\ IF handler THEN reader' = "emit" /\ UNCHANGED tally
                ELSE reader' = "loop" /\ Count({"unheard"})
  /\ UNCHANGED <<ownerVars, sock, callVars, sharedVars, wav, keeper, packetVars, stuck, faults>>

\* EventBus.emit takes the callbacks that are subscribed now.
ReaderEmits ==
  /\ reader = "emit"
  /\ IF subscribed THEN reader' = "write" /\ UNCHANGED tally
                   ELSE reader' = "loop" /\ Count({"unheard"})
  /\ UNCHANGED <<ownerVars, sock, callVars, sharedVars, wav, keeper, packetVars, stuck, faults>>

\* Mutant: a packet is counted before it is written.
CountedFirst ==
  /\ reader = "write" /\ reader' = "loop"
  /\ \/ wav = "open" /\ Count({"written"}) /\ UNCHANGED faults
     \/ wav = "open" /\ May /\ Count({"written", "failed"})
     \/ wav # "open" /\ Count({"refused"}) /\ UNCHANGED faults
  /\ UNCHANGED <<ownerVars, sock, callVars, sharedVars, wav, keeper, packetVars, stuck>>

\* A recorder that is open writes the packet and counts it, or the write raises; one
\* that was closed refuses it.  The bus swallows both errors: the transport's
\* callback_errors learns of neither, and the reader goes on.
ReaderWrites ==
  /\ reader = "write" /\ reader' = "loop"
  /\ \/ wav = "open" /\ Count({"written"}) /\ UNCHANGED faults
     \/ wav = "open" /\ May /\ Count({"failed"})
     \/ wav # "open" /\ Count({"refused"}) /\ UNCHANGED faults
  /\ UNCHANGED <<ownerVars, sock, callVars, sharedVars, wav, keeper, packetVars, stuck>>

ClockSetBack ==
  /\ reader = "receive" /\ shift = 0 /\ May /\ shift' = 2
  /\ UNCHANGED <<ownerVars, sock, callVars, sharedVars, wav, reader, keeper, previous, recent, clock,
                 first, tally, stuck>>

\* ------------------------------------------------------------------ RTSP calls
\* _request: sent, and answered with the CSeq it was sent with.  An answer that
\* came too late is read as that of the next request, and refused.
Asked(method) ==
  /\ client = "open" /\ waiting = 0
  /\ server' = CASE method = "SETUP" -> "set up" [] method = "PLAY" -> "playing"
                 [] method = "TEARDOWN" -> "gone" [] OTHER -> server
  /\ UNCHANGED <<waiting, faults>>

Unanswered(method) ==
  \/ /\ May /\ UNCHANGED <<waiting, server>>                 \* not sent, or refused
  \/ /\ May /\ waiting' = waiting + 1                         \* answered too late
     /\ server' = CASE method = "SETUP" -> "set up" [] method = "PLAY" -> "playing"
                    [] method = "TEARDOWN" -> "gone" [] OTHER -> server
  \/ /\ waiting > 0 /\ UNCHANGED <<waiting, faults>>          \* an older answer was read
     /\ server' = IF method = "TEARDOWN" THEN "gone" ELSE server

\* ------------------------------------------------------------ keepalive thread
KeeperEnds ==
  /\ keeper = "wait" /\ (halt \/ ~published) /\ keeper' = "ended"
  /\ UNCHANGED <<ownerVars, sock, callVars, sharedVars, wav, reader, packetVars, tally, stuck, faults>>

KeeperTakes ==
  /\ keeper = "wait" /\ ~halt /\ published /\ keeper' = "take"
  /\ UNCHANGED <<ownerVars, sock, callVars, sharedVars, wav, reader, packetVars, tally, stuck, faults>>

KeeperLocks ==
  /\ keeper = "take" /\ asking = "nobody" /\ asking' = "keeper" /\ keeper' = "ask"
  /\ UNCHANGED <<ownerVars, sock, client, waiting, server, sharedVars, wav, reader, packetVars, tally,
                 stuck, faults>>

\* A client that was closed meanwhile raises; the first failure ends the thread.
KeeperAsks ==
  /\ keeper = "ask" /\ asking' = "nobody"
  /\ \/ Asked("GET_PARAMETER") /\ keeper' = "wait" /\ UNCHANGED tally
     \/ /\ keeper' = "ended"
        /\ IF client = "open" THEN Unanswered("GET_PARAMETER") ELSE UNCHANGED <<waiting, server, faults>>
        /\ IF halt THEN UNCHANGED tally ELSE Count({"unkept"})
  /\ UNCHANGED <<ownerVars, sock, client, sharedVars, wav, reader, packetVars, stuck>>

\* ------------------------------------------------------------------- the owner
At(where) == pc = where
Goto(where) == pc' = where /\ UNCHANGED failing
Raise(where) == pc' = where /\ failing' = TRUE

\* AudioRecordingSession.start, once: the recorder, subscribed, then the stream
StartBegin ==
  /\ At("idle")
  /\ \/ wav' = "open" /\ subscribed' = TRUE /\ Goto("socket") /\ UNCHANGED faults
     \/ May /\ Raise("stop stream") /\ UNCHANGED <<wav, subscribed>>
  /\ UNCHANGED <<sock, callVars, published, halt, handler, reader, keeper, packetVars, tally, stuck>>

\* NetworkAudioTransport.start
OpenSocket ==
  /\ At("socket") /\ handler' = TRUE /\ halt' = FALSE
  /\ \/ sock' = "open" /\ Goto("connect") /\ UNCHANGED faults
     \/ May /\ sock' \in {"none", "open"} /\ Raise("undo")
  /\ UNCHANGED <<callVars, published, subscribed, wav, reader, keeper, packetVars, tally, stuck>>

Connect ==
  /\ At("connect")
  /\ \/ client' = "open" /\ Goto(Requests[1]) /\ UNCHANGED faults
     \/ May /\ Raise("undo") /\ UNCHANGED client
  /\ UNCHANGED <<sock, asking, waiting, server, sharedVars, wav, reader, keeper, packetVars, tally, stuck>>

Ask(i) ==
  /\ At(Requests[i])
  /\ \/ Asked(Requests[i]) /\ Goto(IF i = Len(Requests) THEN "publish" ELSE Requests[i + 1])
     \/ Unanswered(Requests[i]) /\ Raise("undo")
  /\ UNCHANGED <<sock, client, asking, sharedVars, wav, reader, keeper, packetVars, tally, stuck>>

Closed(what) == IF what = "none" THEN "none" ELSE "closed"

\* What start had opened is closed; the session takes the recorder off the stream,
\* and stops the stream all the same.
Undo ==
  /\ At("undo") /\ client' = Closed(client) /\ sock' = Closed(sock)
  /\ waiting' = 0 /\ subscribed' = FALSE
  /\ Goto("stop stream")
  /\ UNCHANGED <<asking, server, published, halt, handler, wav, reader, keeper, packetVars, tally, stuck, faults>>

Publish ==
  /\ At("publish") /\ published' = TRUE
  /\ reader' = "loop" /\ keeper' = "wait" /\ Goto("recording")
  /\ UNCHANGED <<sock, callVars, halt, handler, subscribed, wav, packetVars, tally, stuck, faults>>

StopBegin ==
  /\ At("recording") /\ Goto("stop stream")
  /\ UNCHANGED <<sock, callVars, sharedVars, wav, reader, keeper, packetVars, tally, stuck, faults>>

\* NetworkAudioTransport.stop
StopStream ==
  /\ At("stop stream") /\ halt' = TRUE /\ published' = FALSE
  /\ Goto(IF published THEN "lock" ELSE "join")
  /\ UNCHANGED <<sock, callVars, handler, subscribed, wav, reader, keeper, packetVars, tally, stuck, faults>>

Lock ==
  /\ At("lock") /\ asking = "nobody" /\ asking' = "owner" /\ Goto("teardown")
  /\ UNCHANGED <<sock, client, waiting, server, sharedVars, wav, reader, keeper, packetVars, tally,
                 stuck, faults>>

Teardown ==
  /\ At("teardown") /\ asking' = "nobody" /\ client' = "closed"
  /\ \/ Asked("TEARDOWN") /\ Count({"teardowns"})
     \/ Unanswered("TEARDOWN") /\ UNCHANGED tally
  /\ Goto("close")
  /\ UNCHANGED <<sock, sharedVars, wav, reader, keeper, packetVars, stuck>>

CloseSocket ==
  /\ At("close") /\ sock' = "closed" /\ Goto("join")
  /\ UNCHANGED <<callVars, sharedVars, wav, reader, keeper, packetVars, tally, stuck, faults>>

Over(thread) == thread \in {"none", "ended"}

\* Mutant: nobody waits for the receiver.
JoinKeeperOnly ==
  /\ At("join") /\ Over(keeper) /\ Goto("reset")
  /\ UNCHANGED <<sock, callVars, sharedVars, wav, reader, keeper, packetVars, tally, stuck, faults>>

\* The threads are waited for; one that takes too long is left alone.
Join ==
  /\ At("join") /\ Goto("reset")
  /\ \/ Over(reader) /\ Over(keeper) /\ UNCHANGED <<stuck, faults>>
     \/ May /\ stuck' = TRUE
  /\ UNCHANGED <<sock, callVars, sharedVars, wav, reader, keeper, packetVars, tally>>

Reset ==
  /\ At("reset") /\ handler' = FALSE
  /\ previous' = 0 /\ recent' = <<>> /\ clock' = -1
  /\ Goto(IF failing THEN "finish" ELSE "unsubscribe")
  /\ UNCHANGED <<sock, callVars, published, halt, subscribed, wav, reader, keeper, shift, first, tally,
                 stuck, faults>>

\* AudioRecordingSession.stop takes the recorder off the stream once that has stopped.
Unsubscribe ==
  /\ At("unsubscribe") /\ subscribed' = FALSE /\ Goto("finish")
  /\ UNCHANGED <<sock, callVars, published, halt, handler, wav, reader, keeper, packetVars, tally,
                 stuck, faults>>

\* The recorder is closed whatever happened before.
Finish ==
  /\ At("finish") /\ wav' = Closed(wav)
  /\ \/ Goto(IF failing THEN "failed" ELSE "stopped") /\ UNCHANGED faults
     \/ wav # "none" /\ May /\ Raise("failed")
  /\ UNCHANGED <<sock, callVars, sharedVars, reader, keeper, packetVars, tally, stuck>>

\* ------------------------------------------------------------ specification
Fields == {"received", "delivered", "duplicate", "late", "foreign", "lost", "samples", "backwards",
           "written", "failed", "refused", "unheard", "broken", "unkept", "teardowns"}

Init ==
  /\ pc = "idle" /\ failing = FALSE
  /\ sock = "none" /\ client = "none" /\ wav = "none" /\ published = FALSE /\ halt = FALSE
  /\ handler = FALSE /\ subscribed = FALSE /\ reader = "none" /\ keeper = "none"
  /\ asking = "nobody" /\ waiting = 0 /\ server = "none"
  /\ previous = 0 /\ recent = <<>> /\ clock = -1 /\ shift = 0 /\ first = 0
  /\ tally = [f \in Fields |-> 0] /\ stuck = FALSE /\ faults = 0

Owner ==
  \/ OpenSocket \/ Connect \/ (\E i \in DOMAIN Requests : Ask(i)) \/ Undo \/ Publish
  \/ StopStream \/ Lock \/ Teardown \/ CloseSocket \/ Join \/ Reset
  \/ Unsubscribe \/ Finish

Reader == ReaderLoops \/ ReaderWakes \/ ReaderCalls \/ ReaderEmits \/ ReaderWrites
Keeper == KeeperEnds \/ KeeperTakes \/ KeeperLocks \/ KeeperAsks

Next ==
  \/ StartBegin \/ StopBegin \/ Owner \/ Reader \/ Keeper
  \/ (\E place \in Near : tally.received < MaxPackets /\ Receive(place)) \/ ReceiveForeign \/ ClockSetBack

Spec == Init /\ [][Next]_vars

Fairness == WF_vars(Owner) /\ WF_vars(Reader) /\ WF_vars(Keeper)


\* --------------------------------------------------------------- properties
\* The variables keep to their types.
TypeOK ==
  /\ sock \in {"none", "open", "closed"} /\ client \in {"none", "open", "closed"}
  /\ wav \in {"none", "open", "closed"} /\ asking \in {"nobody", "keeper", "owner"}
  /\ reader \in {"none", "loop", "receive", "deliver", "emit", "write", "ended"}
  /\ keeper \in {"none", "wait", "take", "ask", "ended"}
  /\ previous \in {0} \cup Places /\ Len(recent) <= History /\ tally \in [Fields -> Nat]

\* Every datagram is delivered or discarded for one reason.  What was delivered is
\* written, or its write failed, or a recorder that was closed refused it, or it was
\* nobody's any more: the recorder's count of packets is the written ones alone, and
\* no count of the code tells of the others.  Refused or nobody's it is only when a
\* join was given up.  And while the stream runs, packets and samples lost are exactly
\* those that are missing between the first and the last delivered one, wraparound
\* or not.
PacketsAccounted ==
  /\ tally.received = tally.delivered + tally.duplicate + tally.late + tally.foreign
  /\ tally.delivered = tally.written + tally.failed + tally.refused + tally.unheard
                         + (IF reader \in {"deliver", "emit", "write"} THEN 1 ELSE 0)
  /\ previous # 0 => tally.lost = previous - first + 1 - tally.delivered
  /\ shift = 0 => tally.samples = tally.lost
  /\ (tally.refused > 0 \/ tally.unheard > 0) => stuck

\* A session that is over has let go of everything: sockets and recorder are closed,
\* and the threads have ended unless one was given up; and a scanner that was told
\* to play was told to stop, unless a request failed.
Released ==
  pc \in {"stopped", "failed"} =>
    /\ sock # "open" /\ client # "open" /\ wav # "open" /\ asking # "owner"
    /\ stuck \/ (Over(reader) /\ Over(keeper))
    /\ pc = "stopped" /\ faults = 0 => server = "gone" /\ tally.teardowns = 1

\* A packet is delivered after those before it, never twice, and one that is ahead of
\* them is never taken for a late one, across the wraparound too.
DeliveredForward ==
  [][/\ previous' >= previous \/ pc = "reset"
     /\ \A place \in Near : place > previous /\ Receive(place) => previous' = place]_vars

\* Start and stop come back, and the threads end, whatever request, packet or write
\* they were in.
Left == pc = "recording" \/ (pc \in {"stopped", "failed"} /\ Over(reader) /\ Over(keeper))
Leaving == pc \notin {"idle", "recording"} /\ ~Left
StreamEnds == Leaving ~> Left

===============================================================================

--------------------------- MODULE RecordingManager ---------------------------
(***************************************************************************)
(* The recordings of the daemon (DaemonRecordingManager of                 *)
(* daemon_recording.py): start and stop under one lock, the WAV sink with  *)
(* its worker thread (PcmWavSink of audio_sinks.py), and the sidecar that  *)
(* is written when the WAV is closed.  Audio is counted in chunks.         *)
(***************************************************************************)
EXTENDS Naturals

VARIABLES
  files,      \* of every name: the WAV file, the chunks in it, the sidecar
  status,     \* what the snapshot says
  held,       \* the name of the recorder and sink that the manager holds, or 0
  operation,  \* "none", "start" or "stop": who has the lifecycle lock
  step,       \* of the operation
  closing,    \* close asked for the stop
  failure,    \* the stop has failed somewhere
  path,       \* the name being started or stopped
  thread,     \* the sink's worker: "none", "running", "writing" or "ended"
  stopping,   \* the worker is to end
  broken,     \* a write of the worker failed
  attached,   \* the router submits audio to the sink
  queue,      \* chunks queued for the worker
  counts,     \* chunks submitted, written and dropped
  completed,  \* recordings completed
  closed,     \* the manager is closed
  doubted,    \* recordings a stop of which failed
  faults

fileVars == <<files, doubted>>
sinkVars == <<thread, stopping, broken, attached, queue, counts>>
jobVars == <<operation, step, closing, failure, path>>
stateVars == <<status, held, completed, closed>>
vars == <<fileVars, sinkVars, jobVars, stateVars, faults>>

Names == 1 .. 2            \* bound on the recordings
MaxChunks == 2             \* bound on the chunks of a recording
MaxFaults == 2             \* bound on the calls that fail
Capacity == 1
Nothing == 99
NoFile == [wav |-> "none", chunks |-> 0, sidecar |-> Nothing]

Fails == faults < MaxFaults /\ faults' = faults + 1
At(here) == step = here
Go(next) == step' = next /\ UNCHANGED <<operation, closing, failure, path>>

Return ==
  operation' = "none" /\ step' = "none" /\ closing' = FALSE /\ failure' = FALSE /\ UNCHANGED path

\* ------------------------------------------------------------------ starting
Active == status \in {"starting", "recording", "stopping"}

\* start_recording refuses a second recording, and one after close.
StartBegin ==
  /\ operation = "none" /\ ~closed /\ ~Active /\ held = 0
  /\ operation' = "start" /\ step' = "path" /\ status' = "starting"
  /\ counts' = [submitted |-> 0, written |-> 0, dropped |-> 0]
  /\ UNCHANGED <<closing, failure, path, fileVars, thread, stopping, broken, attached, queue, held,
                 completed, closed, faults>>

\* The identity of the recording is made before anything handles an error.
IdentityFails ==
  /\ operation = "start" /\ At("path") /\ Fails
  /\ Return
  /\ UNCHANGED <<fileVars, sinkVars, stateVars>>

StartFails ==
  /\ status' = "failed" /\ Return /\ Fails
  /\ UNCHANGED <<held, completed, closed, doubted>>

Free(n) == files[n].wav = "none" /\ files[n].sidecar = Nothing

\* RecordingPathPolicy.next_path: the first name that neither file has.
ChoosePath ==
  /\ operation = "start" /\ At("path")
  /\ \E n \in Names : Free(n) /\ (\A m \in 1 .. n - 1 : ~Free(m)) /\ path' = n
  /\ step' = "create"
  /\ UNCHANGED <<operation, closing, failure, fileVars, sinkVars, stateVars, faults>>

NoPath ==
  /\ operation = "start" /\ At("path")
  /\ StartFails
  /\ UNCHANGED <<files, sinkVars>>

\* attach starts the sink: a new file is created, then the worker runs.
Attach ==
  /\ operation = "start" /\ At("create") /\ files[path].wav = "none"
  /\ files' = [files EXCEPT ![path] = [wav |-> "open", chunks |-> 0, sidecar |-> Nothing]]
  /\ thread' = "running" /\ stopping' = FALSE /\ broken' = FALSE /\ attached' = TRUE /\ queue' = 0
  /\ Go("publish")
  /\ UNCHANGED <<doubted, counts, stateVars, faults>>

\* The router stops a sink it cannot start; what was created stays.
AttachFails ==
  /\ operation = "start" /\ At("create")
  /\ \/ UNCHANGED files
     \/ files' = [files EXCEPT ![path].wav = "final"]
  /\ StartFails
  /\ UNCHANGED sinkVars

Publish ==
  /\ operation = "start" /\ At("publish")
  /\ held' = path /\ status' = "recording" /\ Return
  /\ UNCHANGED <<fileVars, sinkVars, completed, closed, faults>>

\* ------------------------------------------------------------------ the sink
Submit ==
  /\ attached /\ thread # "none" /\ ~stopping /\ counts.submitted < MaxChunks
  /\ IF queue < Capacity
     THEN queue' = queue + 1 /\ counts' = [counts EXCEPT !.submitted = @ + 1]
     ELSE UNCHANGED queue /\ counts' = [counts EXCEPT !.submitted = @ + 1, !.dropped = @ + 1]
  /\ UNCHANGED <<fileVars, thread, stopping, broken, attached, jobVars, stateVars, faults>>

\* The recording the sink writes is the last one that was started.
WorkerTakes ==
  /\ thread = "running" /\ queue > 0
  /\ thread' = "writing" /\ queue' = queue - 1
  /\ UNCHANGED <<fileVars, stopping, broken, attached, counts, jobVars, stateVars, faults>>

WorkerWrites ==
  /\ thread = "writing" /\ thread' = "running"
  /\ files' = [files EXCEPT ![path].chunks = @ + 1]
  /\ counts' = [counts EXCEPT !.written = @ + 1]
  /\ UNCHANGED <<doubted, stopping, broken, attached, queue, jobVars, stateVars, faults>>

\* A full disk: what is queued goes with what was not written.
WorkerFails ==
  /\ thread = "writing" /\ Fails
  /\ thread' = "ended" /\ broken' = TRUE /\ stopping' = TRUE /\ queue' = 0
  /\ UNCHANGED <<fileVars, attached, counts, jobVars, stateVars>>

\* Mutant: the worker ends when it is told to, with audio still queued.
WorkerEndsEarly ==
  /\ thread = "running" /\ stopping /\ thread' = "ended"
  /\ UNCHANGED <<fileVars, stopping, broken, attached, queue, counts, jobVars, stateVars,
                 faults>>

WorkerEnds ==
  /\ thread = "running" /\ queue = 0 /\ stopping /\ thread' = "ended"
  /\ UNCHANGED <<fileVars, stopping, broken, attached, queue, counts, jobVars, stateVars,
                 faults>>

\* ------------------------------------------------------------------ stopping
\* stop_recording, called for itself or by close
StopBegin(byClose) ==
  /\ operation = "none" /\ ~(byClose /\ closed)
  /\ Active \/ held # 0
  /\ operation' = "stop" /\ closing' = byClose /\ failure' = FALSE /\ UNCHANGED path
  /\ step' = IF held = 0 THEN "settle" ELSE "detach"
  /\ status' = "stopping"
  /\ UNCHANGED <<fileVars, sinkVars, held, completed, closed, faults>>

CloseIdle ==
  /\ operation = "none" /\ ~closed /\ ~Active /\ held = 0
  /\ closed' = TRUE
  /\ UNCHANGED <<fileVars, sinkVars, jobVars, status, held, completed, faults>>

\* The router submits nothing after this, and a stop of a stopped sink returns.
Detach ==
  /\ operation = "stop" /\ At("detach")
  /\ attached' = FALSE
  /\ stopping' = (stopping \/ thread # "none")
  /\ Go(IF thread = "none" THEN "sidecar" ELSE "join")
  /\ UNCHANGED <<fileVars, thread, broken, queue, counts, stateVars, faults>>

Fail(next) == failure' = TRUE /\ step' = next /\ UNCHANGED <<operation, closing, path>>

JoinTimesOut ==
  /\ operation = "stop" /\ At("join") /\ thread \in {"running", "writing"} /\ Fails
  /\ Fail("settle")
  /\ UNCHANGED <<fileVars, sinkVars, stateVars>>

\* recorder.close: the header is completed; the file is let go even if that fails.
CloseWav ==
  /\ operation = "stop" /\ At("join") /\ thread = "ended"
  /\ thread' = "none"
  /\ files' = [files EXCEPT ![path].wav = IF broken THEN "cut" ELSE "final"]
  /\ IF broken THEN Fail("settle") ELSE Go("sidecar")
  /\ UNCHANGED <<doubted, stopping, broken, attached, queue, counts, stateVars, faults>>

CloseWavFails ==
  /\ operation = "stop" /\ At("join") /\ thread = "ended" /\ Fails
  /\ thread' = "none"
  /\ files' = [files EXCEPT ![path].wav = "cut"]
  /\ Fail("settle")
  /\ UNCHANGED <<doubted, stopping, broken, attached, queue, counts, stateVars>>

\* write_recording_metadata: os.link makes the sidecar whole or not at all.
LinkSidecar ==
  /\ operation = "stop" /\ At("sidecar") /\ files[path].sidecar = Nothing
  /\ files' = [files EXCEPT ![path].sidecar = files[path].chunks]
  /\ Go("unlinkTemporary")
  /\ UNCHANGED <<doubted, sinkVars, stateVars, faults>>

SidecarFails ==
  /\ operation = "stop"
  /\ \/ At("sidecar") /\ files[path].sidecar # Nothing /\ UNCHANGED faults
     \/ At("sidecar") /\ Fails
     \/ At("unlinkTemporary") /\ Fails
  /\ Fail("settle")
  /\ UNCHANGED <<fileVars, sinkVars, stateVars>>

UnlinkTemporary ==
  /\ operation = "stop" /\ At("unlinkTemporary") /\ Go("settle")
  /\ UNCHANGED <<fileVars, sinkVars, stateVars, faults>>

\* Mutant: a failed stop lets go of the recorder, too.
SettleAlways ==
  /\ operation = "stop" /\ At("settle") /\ Return
  /\ closed' = (closed \/ closing) /\ held' = 0
  /\ IF failure \/ held = 0
     THEN /\ status' = "failed" /\ doubted' = doubted \cup ({held} \ {0}) /\ UNCHANGED completed
     ELSE /\ status' = "stopped" /\ completed' = completed \cup {held} /\ UNCHANGED doubted
  /\ UNCHANGED <<files, sinkVars, faults>>

\* A failed stop keeps recorder and sink for another one; a start that never got
\* so far is a failure of the stop.
Settle ==
  /\ operation = "stop" /\ At("settle") /\ Return
  /\ closed' = (closed \/ closing)
  /\ IF failure \/ held = 0
     THEN /\ status' = "failed" /\ doubted' = doubted \cup ({held} \ {0})
          /\ UNCHANGED <<held, completed>>
     ELSE /\ status' = "stopped" /\ held' = 0 /\ completed' = completed \cup {held}
          /\ UNCHANGED doubted
  /\ UNCHANGED <<files, sinkVars, faults>>

\* ------------------------------------------------------------ specification
Init ==
  /\ files = [n \in Names |-> NoFile] /\ doubted = {}
  /\ status = "idle" /\ held = 0 /\ completed = {} /\ closed = FALSE
  /\ operation = "none" /\ step = "none" /\ closing = FALSE /\ failure = FALSE /\ path = 0
  /\ thread = "none" /\ stopping = FALSE /\ broken = FALSE /\ attached = FALSE /\ queue = 0
  /\ counts = [submitted |-> 0, written |-> 0, dropped |-> 0]
  /\ faults = 0

Worker == WorkerTakes \/ WorkerWrites \/ WorkerFails \/ WorkerEnds
Starting == StartBegin \/ IdentityFails \/ ChoosePath \/ NoPath \/ Attach \/ AttachFails \/ Publish
Stopping ==
  \/ \E byClose \in BOOLEAN : StopBegin(byClose)
  \/ CloseIdle \/ Detach \/ JoinTimesOut \/ CloseWav \/ CloseWavFails \/ LinkSidecar \/ SidecarFails
  \/ UnlinkTemporary \/ Settle

Next == Starting \/ Submit \/ Worker \/ Stopping

Spec == Init /\ [][Next]_vars

\* --------------------------------------------------------------- properties
\* The variables keep to their types.
TypeOK ==
  /\ files \in [Names -> [wav : {"none", "open", "cut", "final"}, chunks : 0 .. MaxChunks,
                          sidecar : 0 .. MaxChunks \cup {Nothing}]]
  /\ status \in {"idle", "starting", "recording", "stopping", "stopped", "failed"}
  /\ held \in {0} \cup Names /\ thread \in {"none", "running", "writing", "ended"}
  /\ operation \in {"none", "start", "stop"} /\ completed \cup doubted \subseteq Names
  /\ queue \in 0 .. Capacity /\ faults \in 0 .. MaxFaults

\* A completed recording has a sidecar that tells what is in its WAV; and unless a
\* stop of it failed before, the WAV is closed in order and every chunk that was
\* submitted is in it or counted as dropped.
CompletedTrue ==
  \A n \in completed :
    /\ files[n].sidecar = files[n].chunks
    /\ n \notin doubted =>
         /\ files[n].wav = "final"
         /\ n = path /\ operation = "none" /\ status = "stopped" =>
              queue = 0 /\ counts.submitted = counts.written + counts.dropped

\* A recording starts only when the one before it was let go: no worker runs, no
\* WAV is open; and what was closed in order is never written again.
OneWriter ==
  [][/\ attached' /\ ~attached => thread = "none" /\ \A n \in Names : files[n].wav # "open"
     /\ \A n \in Names : files[n].wav = "final" =>
          files'[n].wav = "final" /\ files'[n].chunks = files[n].chunks]_vars

===============================================================================

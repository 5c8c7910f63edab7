--------------------------- MODULE DestinationRouting ---------------------------
(***************************************************************************)
(* PcmSinkRouter (audio_sinks.py) under its three users in the daemon: the *)
(* audio thread that submits PCM, DaemonDestinationCoordinator that        *)
(* replaces the saved destinations as a transaction                        *)
(* (daemon_destination_activation.py), and the recording manager that      *)
(* attaches one WAV sink at a time (daemon_recording.py).  The main thread *)
(* reloads and finally shuts down in the order of daemon_process.py.       *)
(*                                                                         *)
(* The runtime's lifecycle lock is held around every call that changes the *)
(* router, so one variable, op, is the call under way.  The submit lock is *)
(* held over a whole fan-out; a sink is called with no other lock held.    *)
(***************************************************************************)
EXTENDS Naturals, FiniteSetsExt

CONSTANTS
  NameCount,   \* destination names, numbered in sorted order
  MaxBuilds,   \* bound: destinations the factory builds
  MaxFaults,   \* bound: workers that die, starts, stops and publishers that fail
  Recordings,  \* WAV sinks, one per recording
  None

ASSUME RoutingAssumption ==
  /\ NameCount \in Nat \ {0} /\ MaxBuilds \in Nat /\ MaxFaults \in Nat
  /\ None \notin Nat /\ None \notin Recordings
  /\ Recordings \cap Nat = {}

Names == 1 .. NameCount
Destinations == 1 .. MaxBuilds   \* sinks, numbered as they are built
Sinks == Destinations \cup Recordings

VARIABLES
  running,     \* PcmSinkRouter._running: from the runtime's start to its stop
  record,      \* the router's record of each sink
  sink,        \* what each sink is doing
  submission,  \* submit_pcm: is the submit lock held, whom to visit, who was called and accepted
  op,          \* the attach or detach call that holds the lifecycle lock
  configured,  \* DaemonDestinationCoordinator._resources
  publishing,  \* destinations whose metadata publisher runs
  main,        \* the main thread: its step in replace or shutdown, the name it is at, what the
               \* preview does to each name, the candidates and the resources before the commit
  reported,    \* cleanup_failures: destinations whose cleanup is reported to have failed
  built,       \* destinations built so far
  faults,      \* faults so far
  recorder     \* DaemonRecordingManager: its step, its sink, whether it is closed

routerVars == <<running, record, sink>>
coordinatorVars == <<configured, publishing, main, reported, built>>
vars == <<routerVars, submission, op, coordinatorVars, recorder, faults>>

NoOp == [by |-> "nobody", sink |-> None, stop |-> FALSE, step |-> "none", ok |-> TRUE]
NoSubmission == [held |-> FALSE, waiting |-> {}, current |-> None, accepted |-> TRUE]

\* ------------------------------------------------------------------- sinks
\* A step that may fail.
MayFail(fails) == /\ faults' = faults + (IF fails THEN 1 ELSE 0)
                  /\ faults' <= MaxFaults

\* stop(): what becomes of the sink and whether the call returns normally.  A
\* worker that outlives the join timeout is stuck; a second stop() waits for it
\* again in PcmWavSink, but returns at once in RemotePcmSink.
StopOutcomes(s) ==
  CASE sink[s] \in {"new", "stopped"} -> {<<sink[s], TRUE>>}
    [] sink[s] = "running" -> {<<"stopped", TRUE>>, <<"stopped", FALSE>>, <<"stuck", FALSE>>}
    [] sink[s] = "dead" -> {<<"stopped", FALSE>>}
    [] sink[s] = "stuck" -> IF s \in Recordings THEN {<<"stopped", TRUE>>, <<"stuck", FALSE>>}
                            ELSE {<<"stuck", TRUE>>}

StopSink(s, outcome) ==
  /\ sink' = [sink EXCEPT ![s] = outcome[1]]
  /\ MayFail(sink[s] = "running" /\ ~outcome[2])

\* Does submit_pcm accept the data?  A sink that is not running may buffer it
\* (playback) or raise (WAV, remote).
Accepts(s) == IF sink[s] = "running" THEN {TRUE}
              ELSE IF sink[s] \in {"new", "stopped"} THEN {TRUE, FALSE} ELSE {FALSE}

\* A worker gives up: disk full, retries exhausted.
WorkerDies(s) ==
  /\ sink[s] = "running"
  /\ sink' = [sink EXCEPT ![s] = "dead"]
  /\ MayFail(TRUE)
  /\ UNCHANGED <<running, record, submission, op, coordinatorVars, recorder>>

\* ------------------------------------------------------------- submissions
Attached == {s \in Sinks : record[s].attached}

SubmitBegin ==
  /\ ~submission.held /\ running /\ Attached # {}
  /\ submission' = [NoSubmission EXCEPT !.held = TRUE, !.waiting = Attached]
  /\ UNCHANGED <<routerVars, op, coordinatorVars, recorder, faults>>

\* The sink takes the data or raises.  Records are kept in the order of their
\* first attach, which for destinations is the order they were built in.
SubmitTo(s) ==
  /\ submission.current = None /\ s \in submission.waiting
  /\ s \in Destinations => \A d \in submission.waiting \cap Destinations : s <= d
  /\ \E accepted \in Accepts(s) :
       submission' = [submission EXCEPT !.waiting = @ \ {s}, !.current = s, !.accepted = accepted]
  /\ UNCHANGED <<routerVars, op, coordinatorVars, recorder, faults>>

\* Mutant: a sink that took the data is active.
StateAfterAny(s) == IF submission.accepted THEN "active" ELSE "failed"

StateAfter(s) ==
  IF ~submission.accepted THEN "failed"
  ELSE IF record[s].state = "failed" /\ sink[s] = "running" THEN "active" ELSE record[s].state

\* The record follows, whatever happened to it since.
SubmitDone ==
  /\ submission.current # None
  /\ LET s == submission.current IN record' = [record EXCEPT ![s].state = StateAfter(s)]
  /\ submission' = IF submission.waiting = {} THEN NoSubmission
                   ELSE [submission EXCEPT !.current = None, !.accepted = TRUE]
  /\ UNCHANGED <<running, sink, op, coordinatorVars, recorder, faults>>

\* ------------------------------------------------------------ router calls
Call(by, s, stop) == [NoOp EXCEPT !.by = by, !.sink = s, !.stop = stop]
Returns(call, ok) == [call EXCEPT !.step = "returned", !.ok = ok]

\* attach: the runtime refuses once it is stopped; an attached sink stays as it is.
Attach(by, s) ==
  /\ op = NoOp
  /\ LET call == Call(by, s, FALSE)
     IN  IF running /\ s \notin Attached
         THEN /\ op' = [call EXCEPT !.step = "start"]
              /\ record' = [record EXCEPT ![s] = [state |-> "starting", attached |-> TRUE]]
         ELSE /\ op' = Returns(call, running)
              /\ UNCHANGED record
  /\ UNCHANGED <<running, sink, submission>>

\* _start_subscriber.  Starting a sink that was started before does nothing.
StartSucceeds ==
  /\ op.step = "start"
  /\ sink' = [sink EXCEPT ![op.sink] = IF @ = "new" THEN "running" ELSE @]
  /\ record' = [record EXCEPT ![op.sink].state = "active"]
  /\ op' = Returns(op, TRUE)
  /\ UNCHANGED <<running, submission, coordinatorVars, recorder, faults>>

StartFails ==
  /\ op.step = "start" /\ sink[op.sink] = "new"
  /\ record' = [record EXCEPT ![op.sink] = [state |-> "failed", attached |-> FALSE]]
  /\ op' = [op EXCEPT !.step = "cleanup"]
  /\ MayFail(TRUE)
  /\ UNCHANGED <<running, sink, submission, coordinatorVars, recorder>>

\* The failed sink is stopped at once; only other stops wait for a submission.
StartCleanup ==
  /\ op.step = "cleanup"
  /\ \E outcome \in StopOutcomes(op.sink) : StopSink(op.sink, outcome)
  /\ op' = Returns(op, FALSE)
  /\ UNCHANGED <<running, record, submission, coordinatorVars, recorder>>

\* detach
Detach(by, s, stop) ==
  /\ op = NoOp
  /\ LET call == Call(by, s, stop)
     IN  IF s \in Attached
         THEN /\ op' = [call EXCEPT !.step = "barrier"]
              /\ record' = [record EXCEPT ![s] = [state |-> IF stop THEN "stopping" ELSE "detached",
                                                  attached |-> FALSE]]
         ELSE /\ op' = Returns(call, TRUE)
              /\ UNCHANGED record
  /\ UNCHANGED <<running, sink, submission>>

\* Mutant: no barrier.
PassBarrierUnheld ==
  /\ op.step = "barrier"
  /\ op' = IF op.stop THEN [op EXCEPT !.step = "stop"] ELSE Returns(op, TRUE)
  /\ UNCHANGED <<routerVars, submission, coordinatorVars, recorder, faults>>

\* Wait for a submission that already captured this record.
PassBarrier ==
  /\ op.step = "barrier" /\ ~submission.held
  /\ op' = IF op.stop THEN [op EXCEPT !.step = "stop"] ELSE Returns(op, TRUE)
  /\ UNCHANGED <<routerVars, submission, coordinatorVars, recorder, faults>>

\* _stop_subscriber: a failure goes to the record, not to the caller.
StopSubscriber ==
  /\ op.step = "stop"
  /\ \E outcome \in StopOutcomes(op.sink) :
       /\ StopSink(op.sink, outcome)
       /\ record' = [record EXCEPT ![op.sink].state = IF outcome[2] THEN "detached" ELSE "failed"]
  /\ op' = Returns(op, TRUE)
  /\ UNCHANGED <<running, submission, coordinatorVars, recorder>>

\* ------------------------------------------------------------- coordinator
Nothing == [i \in Names |-> None]
NoChange == [i \in Names |-> "unchanged"]
Resting(pc) == [pc |-> pc, at |-> 0, closing |-> pc # "idle", change |-> NoChange,
                candidate |-> Nothing, previous |-> Nothing]

Staged == {i \in Names : main.change[i] \in {"added", "replaced"}}
Outgoing == {i \in Names : main.change[i] \in {"removed", "replaced"}}
Change == main.change[main.at]
Candidate == main.candidate[main.at]
Previous == main.previous[main.at]
At(pc, i) == [main EXCEPT !.pc = pc, !.at = i]
Done == Resting(IF main.closing THEN "runtimeStop" ELSE "idle")

\* The resources the cleanup works on: those configured when it begins.
Held == IF main.pc = "cleanup" THEN main.previous ELSE configured

\* The first staged name after i; the last staged or outgoing name before i.
StageAfter(i) ==
  LET next == Min({j \in Staged : j > i})
  IN  At(IF main.change[next] = "replaced" THEN "detachPrevious" ELSE "attachCandidate", next)
RollbackBefore(i) ==
  LET left == {j \in Staged : j < i}
  IN  IF left = {} THEN Done ELSE At("rollbackCandidate", Max(left))
CleanupBefore(i) ==
  LET left == {j \in Outgoing : j < i}
  IN  IF left = {} THEN Done ELSE [At("cleanup", Max(left)) EXCEPT !.previous = Held]

Previews ==
  {c \in [Names -> {"unchanged", "added", "removed", "replaced"}] :
     /\ \E i \in Names : c[i] # "unchanged"
     /\ \A i \in Names : /\ c[i] = "added" => configured[i] = None
                         /\ c[i] \in {"removed", "replaced"} => configured[i] # None}

\* replace: preview, and every candidate built before anything changes.
Replace ==
  /\ main.pc = "idle"
  /\ \E c \in Previews :
       LET fresh == {i \in Names : c[i] \in {"added", "replaced"}} IN
       /\ built + Cardinality(fresh) <= MaxBuilds
       /\ built' = built + Cardinality(fresh)
       /\ main' = [At("stage", 0) EXCEPT
                     !.change = c,
                     !.candidate = [i \in Names |-> IF i \in fresh
                        THEN built + Cardinality({j \in fresh : j <= i}) ELSE None]]
  /\ UNCHANGED <<routerVars, submission, op, configured, publishing, reported, recorder, faults>>

StageNext ==
  /\ main.pc = "stage" /\ \E j \in Staged : j > main.at
  /\ main' = StageAfter(main.at)
  /\ UNCHANGED <<routerVars, submission, op, configured, publishing, reported, built, recorder, faults>>

Commit ==
  /\ main.pc = "stage" /\ \A j \in Staged : j <= main.at
  /\ configured' = [i \in Names |-> CASE i \in Staged -> main.candidate[i]
                                      [] main.change[i] = "removed" -> None
                                      [] OTHER -> configured[i]]
  /\ main' = CleanupBefore(NameCount + 1)
  /\ UNCHANGED <<routerVars, submission, op, publishing, reported, built, recorder, faults>>

\* The metadata publisher starts and takes the current state, or raises.
Publish ==
  /\ main.pc = "publish"
  /\ \/ /\ publishing' = publishing \cup {Candidate}
        /\ main' = At("stage", main.at)
        /\ UNCHANGED faults
     \/ /\ main' = At("rollbackCandidate", main.at)
        /\ MayFail(TRUE)
        /\ UNCHANGED publishing
  /\ UNCHANGED <<routerVars, submission, op, configured, reported, built, recorder>>

\* Its stop may raise too, and is then reported.
StopPublisher(s) ==
  \/ publishing' = publishing \ {s} /\ UNCHANGED <<reported, faults>>
  \/ /\ s \in publishing
     /\ reported' = reported \cup {s}
     /\ MayFail(TRUE)
     /\ UNCHANGED publishing

\* Its calls to the runtime, by step.
CallRuntime ==
  /\ \/ /\ main.pc = "detachPrevious"
        /\ Detach("main", configured[main.at], FALSE)
        /\ UNCHANGED <<publishing, reported, faults>>
     \/ /\ main.pc = "attachCandidate"
        /\ Attach("main", Candidate)
        /\ UNCHANGED <<publishing, reported, faults>>
     \/ /\ main.pc = "rollbackCandidate"
        /\ StopPublisher(Candidate)
        /\ Detach("main", Candidate, TRUE)
     \/ /\ main.pc = "rollbackPrevious"
        /\ Attach("main", configured[main.at])
        /\ UNCHANGED <<publishing, reported, faults>>
     \/ /\ main.pc = "cleanup" /\ Change = "removed"
        /\ StopPublisher(Previous)
        /\ Detach("main", Previous, TRUE)
  /\ UNCHANGED <<configured, main, built, recorder>>

\* Mutant: the rollback leaves the previous destination detached.
RuntimeReturnsForgetting ==
  /\ op.by = "main" /\ op.step = "returned"
  /\ main' = CASE main.pc = "detachPrevious" -> At("attachCandidate", main.at)
               [] main.pc = "attachCandidate" -> At(IF op.ok THEN "publish" ELSE "rollbackCandidate", main.at)
               [] main.pc = "cleanup" -> CleanupBefore(main.at)
               [] OTHER -> RollbackBefore(main.at)
  /\ op' = NoOp
  /\ UNCHANGED <<routerVars, submission, configured, publishing, reported, built, recorder, faults>>

\* What it does when the call returns.
RuntimeReturns ==
  /\ op.by = "main" /\ op.step = "returned"
  /\ main' = CASE main.pc = "detachPrevious" -> At("attachCandidate", main.at)
               [] main.pc = "attachCandidate" -> At(IF op.ok THEN "publish" ELSE "rollbackCandidate", main.at)
               [] main.pc = "rollbackCandidate" /\ Change = "replaced" -> At("rollbackPrevious", main.at)
               [] main.pc = "cleanup" -> CleanupBefore(main.at)
               [] OTHER -> RollbackBefore(main.at)
  /\ op' = NoOp
  /\ UNCHANGED <<routerVars, submission, configured, publishing, reported, built, recorder, faults>>

\* Mutant: the replaced sink is taken to be stopped because it is detached.
StopReplacedPublisher ==
  /\ main.pc = "cleanup" /\ Change = "replaced"
  /\ StopPublisher(Previous)
  /\ main' = CleanupBefore(main.at)
  /\ UNCHANGED <<routerVars, submission, op, configured, built, recorder>>

\* _cleanup_resource of a replaced destination: its sink is detached already.
StopReplaced ==
  /\ main.pc = "cleanup" /\ Change = "replaced"
  /\ \E outcome \in StopOutcomes(Previous) :
       /\ StopSink(Previous, outcome)
       /\ reported' = IF outcome[2] THEN reported ELSE reported \cup {Previous}
       /\ publishing' = publishing \ {Previous}
  /\ main' = CleanupBefore(main.at)
  /\ UNCHANGED <<running, record, submission, op, configured, built, recorder>>

\* ---------------------------------------------------------------- recorder
RecorderRests == recorder.pc \in {"idle", "recording"}
FreshRecordings == {s \in Recordings : sink[s] = "new" /\ record[s].state = "detached"}

StartRecording ==
  /\ recorder.pc = "idle" /\ recorder.sink = None /\ ~recorder.closed /\ running
  /\ \E s \in FreshRecordings : recorder' = [recorder EXCEPT !.pc = "attaching", !.sink = s]
  /\ UNCHANGED <<routerVars, submission, op, coordinatorVars, faults>>

StopRecording ==
  /\ RecorderRests /\ recorder.sink # None /\ ~recorder.closed
  /\ recorder' = [recorder EXCEPT !.pc = "detaching"]
  /\ UNCHANGED <<routerVars, submission, op, coordinatorVars, faults>>

RecorderCalls ==
  /\ \/ recorder.pc = "attaching" /\ Attach("recorder", recorder.sink)
     \/ recorder.pc \in {"abandoning", "detaching"} /\ Detach("recorder", recorder.sink, FALSE)
  /\ UNCHANGED <<coordinatorVars, recorder, faults>>

RecorderReturns ==
  /\ op.by = "recorder" /\ op.step = "returned"
  /\ recorder' = [recorder EXCEPT !.pc =
                    CASE @ = "attaching" -> IF op.ok THEN "recording" ELSE "abandoning"
                      [] @ = "abandoning" -> "discarding"
                      [] @ = "detaching" -> "finalizing"]
  /\ op' = NoOp
  /\ UNCHANGED <<routerVars, submission, coordinatorVars, faults>>

\* A recording that cannot be finalized (its sink or its metadata fails) is kept
\* for another stop_recording; one that never started is not.
RecorderKeeps(outcome) ==
  \/ /\ recorder.pc = "discarding" \/ outcome[2]
     /\ recorder' = [recorder EXCEPT !.pc = "idle", !.sink = None]
  \/ /\ recorder.pc = "finalizing"
     /\ recorder' = [recorder EXCEPT !.pc = "idle"]

StopWavSink ==
  /\ recorder.pc \in {"discarding", "finalizing"}
  /\ \E outcome \in StopOutcomes(recorder.sink) :
       /\ StopSink(recorder.sink, outcome)
       /\ RecorderKeeps(outcome)
  /\ UNCHANGED <<running, record, submission, op, coordinatorVars>>

\* ---------------------------------------------------------------- shutdown
\* The recording manager, the coordinator and the runtime, in this order.
CloseManager ==
  /\ main.pc = "idle" /\ RecorderRests
  /\ recorder' = [recorder EXCEPT !.closed = TRUE,
                                  !.pc = IF recorder.sink = None THEN "idle" ELSE "detaching"]
  /\ main' = Resting("closing")
  /\ UNCHANGED <<routerVars, submission, op, configured, publishing, reported, built, faults>>

CloseCoordinator ==
  /\ main.pc = "closing" /\ recorder.pc = "idle"
  /\ configured' = Nothing
  /\ LET left == {i \in Names : configured[i] # None} IN
       main' = IF left = {} THEN Done
               ELSE [main EXCEPT !.pc = "cleanup", !.at = Max(left), !.previous = configured,
                       !.change = [i \in Names |-> IF i \in left THEN "removed" ELSE "unchanged"]]
  /\ UNCHANGED <<routerVars, submission, op, publishing, reported, built, recorder, faults>>

\* The audio session stops its stream, then the router, which has nothing attached.
RuntimeStop ==
  /\ main.pc = "runtimeStop" /\ op = NoOp /\ ~submission.held
  /\ running' = FALSE
  /\ main' = Resting("stopped")
  /\ UNCHANGED <<record, sink, submission, op, configured, publishing, reported, built, recorder, faults>>

\* ------------------------------------------------------------ specification
Init ==
  /\ running = TRUE
  /\ record = [s \in Sinks |-> [state |-> "detached", attached |-> FALSE]]
  /\ sink = [s \in Sinks |-> "new"]
  /\ submission = NoSubmission
  /\ op = NoOp
  /\ configured = Nothing
  /\ publishing = {} /\ reported = {} /\ faults = 0
  /\ built = 0
  /\ main = Resting("idle")
  /\ recorder = [pc |-> "idle", sink |-> None, closed |-> FALSE]

Next ==
  \/ SubmitBegin \/ SubmitDone
  \/ \E s \in Sinks : WorkerDies(s) \/ SubmitTo(s)
  \/ StartSucceeds \/ StartFails \/ StartCleanup \/ PassBarrier \/ StopSubscriber
  \/ Replace \/ StageNext \/ Commit \/ Publish \/ CallRuntime \/ RuntimeReturns \/ StopReplaced
  \/ StartRecording \/ StopRecording \/ RecorderCalls \/ RecorderReturns \/ StopWavSink
  \/ CloseManager \/ CloseCoordinator \/ RuntimeStop

Spec == Init /\ [][Next]_vars

\* --------------------------------------------------------------- properties
InUse == {configured[i] : i \in Names} \cup {recorder.sink}
Quiet == op = NoOp /\ main.pc \in {"idle", "stopped"} /\ RecorderRests

\* Types.
TypeOK ==
  /\ running \in BOOLEAN
  /\ record \in [Sinks -> [state : {"detached", "starting", "active", "stopping", "failed"},
                           attached : BOOLEAN]]
  /\ sink \in [Sinks -> {"new", "running", "dead", "stuck", "stopped"}]
  /\ submission \in [held : BOOLEAN, waiting : SUBSET Sinks, current : Sinks \cup {None},
                   accepted : BOOLEAN]
  /\ submission.held <=> submission.waiting # {} \/ submission.current # None
  /\ op.by \in {"nobody", "main", "recorder"} /\ op.sink \in Sinks \cup {None}
  /\ configured \in [Names -> Destinations \cup {None}]
  /\ publishing \in SUBSET Destinations /\ reported \in SUBSET Destinations
  /\ main.at \in Names \cup {0}
  /\ recorder.sink \in Recordings \cup {None}

\* Load or activation failure leaves the committed destinations running: between
\* replacements the router serves exactly what is configured and the recording,
\* whichever stage of however many replacements failed.
CommittedServed ==
  Quiet /\ running =>
    Attached = ({configured[i] : i \in Names} \ {None})
                 \cup (IF recorder.pc = "recording" THEN {recorder.sink} ELSE {})

\* No sink runs on after its owner let it go, unless its own stop timed out, and
\* no metadata publisher unless its failure was reported.
NothingLeaks ==
  Quiet =>
    /\ \A s \in Sinks : sink[s] \in {"running", "dead"} => s \in InUse
    /\ publishing \subseteq InUse \cup reported

\* The variables keep to their types, and no sink or publisher runs on after its
\* owner let it go, unless a stop of it failed and said so.
SinksOwned == TypeOK /\ NothingLeaks

\* A record that is not attached never claims to be served once nobody is
\* changing it: no late submission revives it.
RecordsTruthful ==
  \A s \in Sinks \ Attached : s # op.sink => record[s].state \in {"detached", "failed"}

\* "Do not stop subscribers during an in-flight PCM submission": a sink that was
\* started is never stopped while the audio thread is inside its submit_pcm or
\* about to call it.
NoStopUnderSubmission ==
  [][\A s \in Sinks : sink[s] \in {"running", "dead"} /\ sink'[s] \in {"stopped", "stuck"} =>
       s # submission.current /\ s \notin submission.waiting]_vars

=============================================================================

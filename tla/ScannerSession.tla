---------------------------- MODULE ScannerSession ----------------------------
(***************************************************************************)
(* The scanner session (SDSScanner, radio.py) as the daemon uses it: the   *)
(* PSI push that streams the scanner's state, its renewal thread, the      *)
(* command lock and the one pending response, over a serial or UDP         *)
(* transport whose reader thread reopens a lost link; and DaemonRuntime,   *)
(* whose main thread starts the push, recovers it from poll and stops it,  *)
(* while another thread runs scanner controls.                             *)
(*                                                                         *)
(* A command reaches the scanner when it is written, its answer and the    *)
(* pushed frames wait in "air" for the reader.  Time is abstract: a        *)
(* deadline passes when nothing that would beat it is on its way, or as a  *)
(* fault; recovery delays and cooldowns are over when poll looks.          *)
(***************************************************************************)
EXTENDS Naturals, Sequences, FiniteSets, SequencesExt

CONSTANTS
  Networks,    \* which transports: TRUE is a directly owned UDP transport
  Readers,     \* reader threads that may be alive together, numbered
  MaxCalls,    \* bound: controls asked for
  MaxFaults,   \* bound: lost or rejected commands, broken links, late answers, reboots
  None

ASSUME SessionAssumption ==
  /\ Networks \subseteq BOOLEAN /\ Readers \subseteq Nat
  /\ {MaxCalls, MaxFaults} \subseteq Nat
  /\ None \notin Readers

VARIABLES
  network,        \* the transport is UDP; otherwise serial, and degraded startup is allowed
  active, interval,   \* _psi_active; is _psi_interval_ms set?
  lock,           \* the owner of _command_lock
  pending, slot,  \* the registered response and its queue of one
  first,          \* first_updates: None when nobody captures, else did a frame arrive?
  link,           \* the transport's port or socket is open
  halt,           \* the transport's _stop event
  reader, rpc,    \* the transport's _thread, and every reader thread
  air, pushing,   \* lines under way to the reader; the scanner streams PSI
  npc, rstop,     \* the renewal thread and its stop event
  control, life,  \* owners of _control_lock and _lifecycle_lock
  pc, task,       \* the main thread and the control thread
  why,            \* the exception a failed push will raise
  saved,          \* the interval reconnect() restores
  stale,          \* no PSI frame for psi_recover_after
  tried,          \* _last_psi_recovery_at is set: the next recovery waits
  calls, faults

psiVars == <<active, interval>>
exchangeVars == <<pending, slot, first>>
linkVars == <<link, air, pushing>>
renewalVars == <<npc, rstop>>
runtimeVars == <<control, life, pc, task, why, saved, tried>>
vars == <<network, psiVars, lock, exchangeVars, linkVars, halt, reader, rpc, renewalVars,
          runtimeVars, stale, calls, faults>>

Threads == {"main", "control"}
Answers == [PSI |-> {"ack", "frame", "err"}, GSI |-> {"info", "err"}]

\* ------------------------------------------------------- writing to the scanner
\* The scanner's own doing: PSI starts the stream, PSI,0 ends it, and each is
\* acknowledged, or the first frame is the answer.
Deliver(command) ==
  CASE command = "PSI" -> pushing' = TRUE /\ \E a \in {"ack", "frame"} : air' = Append(air, a)
    [] command = "off" -> pushing' = FALSE /\ air' = Append(air, "ack")
    [] command = "GSI" -> air' = Append(air, "info") /\ UNCHANGED pushing

\* transport.write_command: the bytes are written; they may be lost or rejected.
Sent(command) ==
  /\ link /\ UNCHANGED link
  /\ \/ Deliver(command) /\ UNCHANGED faults
     \/ /\ faults < MaxFaults /\ faults' = faults + 1
        /\ air' \in {air, Append(air, "err")} /\ UNCHANGED pushing

\* It raises ScannerConnectionError: not open, or the write failed, which closes
\* the port in the writer's thread and reports the loss.
SendBreaks(stays) ==
  \/ ~link /\ active' = stays /\ UNCHANGED <<linkVars, faults>>
  \/ /\ link /\ faults < MaxFaults /\ faults' = faults + 1
     /\ link' = FALSE /\ air' = <<>> /\ active' = FALSE /\ UNCHANGED pushing

\* No answer to this command is on its way, or no reader is free to bring it.
NothingComes(command) ==
  \/ \A i \in Readers : rpc[i] \in {"off", "retry", "resend"}
  \/ /\ \A n \in DOMAIN air : air[n] \notin Answers[command]
     /\ command = "PSI" => ~(pushing /\ link) /\ \A i \in Readers : rpc[i] # "mark"

\* Seconds have passed since the last attempt: the reader has kept up.
KeptUp == Len(air) < 2

\* A wait passes its deadline, with the answer still under way only by a fault.
DeadlinePasses(command) ==
  \/ NothingComes(command) /\ UNCHANGED faults
  \/ ~NothingComes(command) /\ faults < MaxFaults /\ faults' = faults + 1

\* --------------------------------------------------------------- reader threads
\* _publish: observers first (poll's timestamp, the capture of a start under way,
\* which an acknowledgement empties), then the pending response of that name.
Publish(line) ==
  /\ stale' = (stale /\ line # "frame")
  /\ first' = IF first = None THEN None
              ELSE CASE line = "frame" -> TRUE [] line = "ack" -> FALSE [] OTHER -> first
  /\ slot' = IF pending # None /\ slot = None /\ line \in Answers[pending] THEN line ELSE slot

Read(i) ==
  /\ rpc[i] = "read" /\ link /\ air # <<>>
  /\ air' = Tail(air)
  /\ IF halt THEN rpc' = [rpc EXCEPT ![i] = "off"] /\ UNCHANGED <<stale, first, slot>>
     ELSE IF Head(air) = "frame" /\ interval
     THEN rpc' = [rpc EXCEPT ![i] = "mark"] /\ UNCHANGED <<stale, first, slot>>
     ELSE Publish(Head(air)) /\ UNCHANGED rpc
  /\ UNCHANGED <<network, psiVars, lock, pending, link, pushing, halt, reader, renewalVars,
                 runtimeVars, calls, faults>>

\* The interval was seen set; by now it may not be.
Mark(i) ==
  /\ rpc[i] = "mark"
  /\ active' = TRUE
  /\ Publish("frame")
  /\ rpc' = [rpc EXCEPT ![i] = "read"]
  /\ UNCHANGED <<network, interval, lock, pending, linkVars, halt, reader, renewalVars,
                 runtimeVars, calls, faults>>

\* The read fails: the port is closed and the loss reported.
ReadBreaks(i) ==
  /\ rpc[i] = "read" /\ link /\ ~halt
  /\ faults < MaxFaults /\ faults' = faults + 1
  /\ link' = FALSE /\ air' = <<>> /\ active' = FALSE
  /\ rpc' = [rpc EXCEPT ![i] = "retry"]
  /\ UNCHANGED <<network, interval, lock, exchangeVars, pushing, halt, reader, renewalVars,
                 runtimeVars, stale, calls>>

\* The loop finds the port closed by another thread, or is told to stop.
Notice(i) ==
  /\ \/ rpc[i] \in {"read", "retry"} /\ halt /\ rpc' = [rpc EXCEPT ![i] = "off"]
     \/ rpc[i] = "read" /\ ~halt /\ ~link /\ rpc' = [rpc EXCEPT ![i] = "retry"]
  /\ UNCHANGED <<network, psiVars, lock, exchangeVars, linkVars, halt, reader, renewalVars,
                 runtimeVars, stale, calls, faults>>

\* After the reconnect delay, which a stop may just have missed; attempts are
\* unlimited by default.
Reopen(i) ==
  /\ rpc[i] = "retry"
  /\ \/ link' = TRUE /\ air' = <<>> /\ rpc' = [rpc EXCEPT ![i] = "told"] /\ UNCHANGED faults
     \/ /\ faults < MaxFaults /\ faults' = faults + 1
        /\ UNCHANGED <<link, air, rpc>>
  /\ UNCHANGED <<network, psiVars, lock, exchangeVars, pushing, halt, reader, renewalVars,
                 runtimeVars, stale, calls>>

\* _connection_changed(True): with an interval set the push has to be restarted.
Told(i) ==
  /\ rpc[i] = "told"
  /\ active' = (active /\ ~interval)
  /\ rpc' = [rpc EXCEPT ![i] = IF interval THEN "resend" ELSE "read"]
  /\ UNCHANGED <<network, interval, lock, exchangeVars, linkVars, halt, reader, renewalVars,
                 runtimeVars, stale, calls, faults>>

\* send() needs the command lock; no response is registered and errors are logged.
Resend(i) ==
  /\ rpc[i] = "resend" /\ lock = None
  /\ \/ Sent("PSI") /\ UNCHANGED active
     \/ SendBreaks(active)
  /\ rpc' = [rpc EXCEPT ![i] = "read"]
  /\ UNCHANGED <<network, interval, lock, exchangeVars, halt, reader, renewalVars,
                 runtimeVars, stale, calls>>

\* _wait_for_response on its way out, however it ends.
Popped == slot' = None /\ pending' = None

\* ------------------------------------------------------------- the renewal thread
\* Mutant: it waits for the command lock, and only then looks at its stop event.
RenewExitLocking == npc = "wait" /\ rstop /\ lock = None /\ npc' = "off"

RenewExit == npc = "wait" /\ rstop /\ npc' = "off"

RenewEnds ==
  /\ RenewExit
  /\ UNCHANGED <<network, psiVars, lock, exchangeVars, linkVars, halt, reader, rpc, rstop,
                 runtimeVars, stale, calls, faults>>

\* A thread that may wait for the command lock for ever: a stop, or a reader's send.
Wanted ==
  \/ pc["main"] \in {"refresh", "stopPush", "closePush"}
  \/ \E i \in Readers : rpc[i] = "resend"

\* Between two tries it rests for seconds, in which who waits for the lock has it.
\* _renew_psi_if_idle: only if the command lock is free, by the try that never waits.
RenewBegin ==
  /\ npc = "wait" /\ ~rstop /\ lock = None /\ interval /\ link /\ KeptUp /\ ~Wanted
  /\ \/ /\ Sent("PSI") /\ UNCHANGED active
        /\ lock' = "renewal" /\ npc' = "answer"
        /\ pending' = "PSI" /\ slot' = None /\ first' = FALSE
     \/ SendBreaks(active) /\ UNCHANGED <<lock, npc, exchangeVars>>
  /\ UNCHANGED <<network, interval, halt, reader, rpc, rstop, runtimeVars, stale, calls>>

RenewAnswer ==
  /\ npc = "answer"
  /\ Popped
  /\ \/ /\ slot = "ack" /\ npc' = "first"
        /\ UNCHANGED <<lock, first, faults>>
     \/ /\ \/ slot \in {"frame", "err"} /\ UNCHANGED faults
           \/ slot = None /\ DeadlinePasses("PSI")
        /\ npc' = "wait" /\ lock' = None /\ first' = None
  /\ UNCHANGED <<network, psiVars, linkVars, halt, reader, rpc, rstop, runtimeVars, stale, calls>>

RenewFirst ==
  /\ npc = "first"
  /\ \/ first = TRUE /\ UNCHANGED faults
     \/ first = FALSE /\ DeadlinePasses("PSI")
  /\ npc' = "wait" /\ lock' = None /\ first' = None
  /\ UNCHANGED <<network, psiVars, pending, slot, linkVars, halt, reader, rpc, rstop,
                 runtimeVars, stale, calls>>

\* ---------------------------------------------------------- how a call comes back
\* The exceptions poll and start let through.
Degraded == {"timeout", "rejected", "unavailable"}

\* The main thread's next place when its push ended with this outcome: an
\* inactive start that meets anything but an expected failure ends the process.
MainNext(outcome) ==
  CASE task["main"] = "startup" ->
         IF outcome = "ok" \/ (~network /\ outcome \in Degraded) THEN "running" ELSE "cleanup"
    [] task["main"] = "inactive" ->
         IF outcome = "ok" \/ outcome \in Degraded THEN "running" ELSE "stopping"
    [] OTHER -> "running"

\* Every lock the call held is released; start() keeps the lifecycle lock to clean up.
Returns(t, outcome) ==
  /\ pc' = [pc EXCEPT ![t] = IF t = "main" THEN MainNext(outcome) ELSE "idle"]
  /\ task' = [task EXCEPT ![t] = None]
  /\ control' = IF control = t THEN None ELSE control
  /\ life' = IF life = t /\ pc'[t] # "cleanup" THEN None ELSE life
  /\ lock' = IF lock = t THEN None ELSE lock
  /\ why' = "ok" /\ saved' = FALSE
  /\ tried' = (tried \/ (t = "main" /\ ~(task[t] = "startup" /\ outcome = "ok")))

\* reconnect() restores the interval it found when anything in it raised.
IntervalAfter(t, outcome, left) ==
  IF task[t] = "reconnect" /\ outcome # "ok" THEN saved ELSE left

\* ------------------------------------------------------ start_scanner_info_push
\* Nobody else holds the command lock for long here: controls are excluded, and
\* a renewal runs only for an active push.
PushBegin(t) ==
  /\ pc[t] = "push" /\ lock \in {None, t}
  /\ \/ /\ active
        /\ Returns(t, "already")
        /\ interval' = IntervalAfter(t, "already", interval)
        /\ active' = (task[t] # "reconnect")
        /\ UNCHANGED <<exchangeVars, linkVars, rstop, faults>>
     \/ /\ ~active
        /\ lock' = t /\ interval' = TRUE /\ first' = FALSE /\ slot' = None
        /\ \/ /\ Sent("PSI") /\ UNCHANGED active
              /\ pending' = "PSI" /\ pc' = [pc EXCEPT ![t] = "answer"]
              /\ UNCHANGED <<why, rstop>>
           \/ /\ SendBreaks(FALSE)
              /\ pending' = None /\ pc' = [pc EXCEPT ![t] = "fail"]
              /\ why' = "broken" /\ rstop' = TRUE
        /\ UNCHANGED <<control, life, task, saved, tried>>
  /\ UNCHANGED <<network, halt, reader, rpc, npc, stale, calls>>

Fails(t, outcome) ==
  /\ pc' = [pc EXCEPT ![t] = "fail"] /\ why' = outcome /\ rstop' = TRUE
  /\ UNCHANGED active

Succeeds(t) ==
  /\ pc' = [pc EXCEPT ![t] = "renew"] /\ active' = TRUE /\ rstop' = TRUE
  /\ UNCHANGED why

\* The response: a frame confirms the push, an acknowledgement only that it will come.
PushAnswer(t) ==
  /\ pc[t] = "answer"
  /\ Popped
  /\ \/ /\ slot = "ack" /\ pc' = [pc EXCEPT ![t] = "first"]
        /\ UNCHANGED <<active, why, rstop, faults>>
     \/ slot = "frame" /\ Succeeds(t) /\ UNCHANGED faults
     \/ slot = "err" /\ Fails(t, "rejected") /\ UNCHANGED faults
     \/ slot = None /\ DeadlinePasses("PSI") /\ Fails(t, "timeout")
  /\ UNCHANGED <<network, interval, lock, first, linkVars, halt, reader, rpc, npc,
                 control, life, task, saved, tried, stale, calls>>

PushFirst(t) ==
  /\ pc[t] = "first"
  /\ \/ first = TRUE /\ Succeeds(t) /\ UNCHANGED faults
     \/ first = FALSE /\ DeadlinePasses("PSI") /\ Fails(t, "timeout")
  /\ UNCHANGED <<network, interval, lock, exchangeVars, linkVars, halt, reader, rpc, npc,
                 control, life, task, saved, tried, stale, calls>>

\* _start_psi_renewal joins the thread before; on a serial endpoint it never renews.
PushRenew(t) ==
  /\ pc[t] = "renew" /\ npc = "off"
  /\ npc' = IF network THEN "wait" ELSE "off"
  /\ rstop' = FALSE /\ first' = None
  /\ Returns(t, "ok")
  /\ UNCHANGED <<network, psiVars, pending, slot, linkVars, halt, reader, rpc, stale, calls, faults>>

\* The failure path: renewal stopped, the push withdrawn, PSI,0 if connected.
PushFail(t) ==
  /\ pc[t] = "fail" /\ npc = "off"
  /\ first' = None
  /\ Returns(t, why)
  /\ interval' = IntervalAfter(t, why, FALSE)
  /\ active' = FALSE
  /\ \/ Sent("off")
     \/ SendBreaks(FALSE)
  /\ UNCHANGED <<network, pending, slot, halt, reader, rpc, renewalVars, stale, calls>>

\* ------------------------------------------------------- stop_scanner_info_push
StopBegin ==
  /\ pc["main"] \in {"refresh", "stopPush", "closePush"} /\ lock \in {None, "main"}
  /\ lock' = "main" /\ rstop' = TRUE
  /\ pc' = [pc EXCEPT !["main"] = CASE @ = "refresh" -> "refreshJoin"
                               [] @ = "stopPush" -> "stopJoin" [] OTHER -> "closeJoin"]
  /\ UNCHANGED <<network, psiVars, exchangeVars, linkVars, halt, reader, rpc, npc,
                 control, life, task, why, saved, tried, stale, calls, faults>>

\* A refresh whose PSI,0 raises gives up; a stop goes on.
StopEnd ==
  /\ pc["main"] \in {"refreshJoin", "stopJoin", "closeJoin"} /\ npc = "off"
  /\ interval' = FALSE
  /\ LET refresh == pc["main"] = "refreshJoin"
         next == CASE refresh -> "push" [] pc["main"] = "stopJoin" -> "close" [] OTHER -> "halt"
         goes == /\ pc' = [pc EXCEPT !["main"] = next] /\ lock' = None
                 /\ UNCHANGED <<control, life, task, why, saved, tried>>
     IN  \/ /\ interval /\ Sent("off") /\ active' = FALSE /\ goes
         \/ /\ ~interval \/ ~link
            /\ active' = FALSE /\ goes /\ UNCHANGED <<linkVars, faults>>
         \/ /\ interval /\ link /\ SendBreaks(FALSE)
            /\ IF refresh THEN Returns("main", "broken") ELSE goes
  /\ UNCHANGED <<network, exchangeVars, halt, reader, rpc, renewalVars, stale, calls>>

\* -------------------------------------------------------------------- reconnect
ReconnectBegin(t) ==
  /\ pc[t] = "reconnect"
  /\ \/ /\ lock = None /\ lock' = t /\ rstop' = TRUE
        /\ saved' = interval
        /\ pc' = [pc EXCEPT ![t] = "reconnectJoin"]
        /\ UNCHANGED <<control, life, task, why, tried>>
     \/ lock # None /\ Returns(t, "timeout") /\ UNCHANGED rstop
  /\ UNCHANGED <<network, psiVars, exchangeVars, linkVars, halt, reader, rpc, npc, stale, calls, faults>>

\* transport.stop() begins: UdpTransport closes its socket first, SerialTransport
\* lets the reader leave first.
Halt(t) ==
  /\ \/ pc[t] = "reconnectJoin" /\ npc = "off" /\ pc' = [pc EXCEPT ![t] = "reconnectHalt"]
     \/ pc[t] = "halt" /\ pc' = [pc EXCEPT ![t] = "halted"]
  /\ active' = FALSE /\ interval' = FALSE
  /\ halt' = TRUE
  /\ link' = (link /\ ~network)
  /\ air' = IF link' THEN air ELSE <<>>
  /\ UNCHANGED <<network, lock, exchangeVars, pushing, reader, rpc, renewalVars,
                 control, life, task, why, saved, tried, stale, calls, faults>>

\* The reader's join returns, or times out when the reader cannot leave.
Joins == reader # None => rpc[reader] \in {"off", "resend"}

\* transport.start: a thread that is not alive.
StartReader(i) ==
  /\ rpc[i] = "off" /\ \A j \in Readers : j < i => rpc[j] # "off"
  /\ rpc' = [rpc EXCEPT ![i] = "read"] /\ reader' = i

\* connect() again: a cleared stop event, which a reader that is still alive also
\* sees, and a new reader; or it cannot open, or the deadline has passed.
ReconnectOpen(t) ==
  /\ pc[t] = "reconnectHalt" /\ Joins
  /\ \/ \E i \in Readers :
          /\ StartReader(i)
          /\ halt' = FALSE /\ link' = TRUE /\ air' = <<>>
          /\ \/ /\ IF saved
                   THEN /\ pc' = [pc EXCEPT ![t] = "push"]
                        /\ UNCHANGED <<control, life, task, lock, why, saved, tried>>
                   ELSE Returns(t, "ok")
                /\ UNCHANGED <<interval, faults>>
             \/ /\ faults < MaxFaults /\ faults' = faults + 1
                /\ interval' = IntervalAfter(t, "timeout", interval)
                /\ Returns(t, "timeout")
     \/ /\ faults < MaxFaults /\ faults' = faults + 1
        /\ halt' \in BOOLEAN /\ reader' = None /\ link' = FALSE /\ air' = <<>>
        /\ interval' = IntervalAfter(t, "broken", interval)
        /\ Returns(t, "broken")
        /\ UNCHANGED rpc
  /\ UNCHANGED <<network, active, exchangeVars, pushing, renewalVars, stale, calls>>

\* --------------------------------------------------------------- DaemonRuntime
\* start(): scanner.connect, identity probes (whose failures are ignored), the push.
Start ==
  /\ pc["main"] = "start"
  /\ life' = "main" /\ task' = [task EXCEPT !["main"] = "startup"]
  /\ \/ \E i \in Readers :
          /\ StartReader(i) /\ link' = TRUE
          /\ pc' = [pc EXCEPT !["main"] = "push"]
          /\ UNCHANGED faults
     \/ /\ faults < MaxFaults /\ faults' = faults + 1
        /\ pc' = [pc EXCEPT !["main"] = "cleanup"]
        /\ UNCHANGED <<rpc, reader, link>>
  /\ UNCHANGED <<network, psiVars, lock, exchangeVars, air, pushing, halt, renewalVars,
                 control, why, saved, tried, stale, calls>>

\* Mutant: a recovery that was tried is taken for done.
RetryDueOnce == ~tried

\* The first recovery is immediate, the next wait for the cooldown.
RetryDue == tried => KeptUp

\* poll(): only while connected and no control is under way.  An inactive push is
\* started where degraded startup is allowed, a stale one refreshed or reconnected.
PollInactive ==
  /\ pc["main"] = "running" /\ link /\ control = None
  /\ ~active /\ ~network /\ RetryDue
  /\ control' = "main" /\ task' = [task EXCEPT !["main"] = "inactive"]
  /\ pc' = [pc EXCEPT !["main"] = "recheck"]
  /\ UNCHANGED <<network, psiVars, lock, exchangeVars, linkVars, halt, reader, rpc, renewalVars,
                 life, why, saved, tried, stale, calls, faults>>

\* Recovery is transport-aware.
PollStaleBy ==
  IF network
  THEN /\ pc' = [pc EXCEPT !["main"] = "reconnect"]
       /\ task' = [task EXCEPT !["main"] = "reconnect"] /\ life' = "main"
  ELSE /\ pc' = [pc EXCEPT !["main"] = "recheck"]
       /\ task' = [task EXCEPT !["main"] = "refresh"] /\ UNCHANGED life

PollStale ==
  /\ pc["main"] = "running" /\ link /\ control = None /\ life = None
  /\ active /\ stale /\ RetryDue
  /\ control' = "main"
  /\ PollStaleBy
  /\ UNCHANGED <<network, psiVars, lock, exchangeVars, linkVars, halt, reader, rpc, renewalVars,
                 why, saved, tried, stale, calls, faults>>

\* _start_inactive_psi and _refresh_psi look again under the control lock.
Recheck ==
  /\ pc["main"] = "recheck"
  /\ LET inactive == task["main"] = "inactive"
     IN  IF link /\ (active # inactive)
         THEN /\ pc' = [pc EXCEPT !["main"] = IF inactive THEN "push" ELSE "refresh"]
              /\ UNCHANGED <<control, life, task, lock, why, saved, tried>>
         ELSE Returns("main", IF link /\ inactive THEN "ok" ELSE "unavailable")
  /\ UNCHANGED <<network, psiVars, exchangeVars, linkVars, halt, reader, rpc, renewalVars,
                 stale, calls, faults>>

\* The process is asked to stop.
StopRequest ==
  /\ pc["main"] = "running"
  /\ pc' = [pc EXCEPT !["main"] = "stopping"]
  /\ UNCHANGED <<network, psiVars, lock, exchangeVars, linkVars, halt, reader, rpc, renewalVars,
                 control, life, task, why, saved, tried, stale, calls, faults>>

\* stop(), and the cleanup of a failed start(): the push, if active, then close(),
\* which stops it if an interval is still set.
Stop ==
  /\ \/ pc["main"] = "stopping" /\ life = None
     \/ pc["main"] = "cleanup"
  /\ life' = "main"
  /\ pc' = [pc EXCEPT !["main"] = IF active THEN "stopPush" ELSE "close"]
  /\ UNCHANGED <<network, psiVars, lock, exchangeVars, linkVars, halt, reader, rpc, renewalVars,
                 control, task, why, saved, tried, stale, calls, faults>>

\* Mutant: close() leaves the push, and its renewal, to the scanner.
ClosePushNever == "halt"

ClosePush == IF interval THEN "closePush" ELSE "halt"

Close ==
  /\ pc["main"] = "close"
  /\ pc' = [pc EXCEPT !["main"] = ClosePush]
  /\ UNCHANGED <<network, psiVars, lock, exchangeVars, linkVars, halt, reader, rpc, renewalVars,
                 control, life, task, why, saved, tried, stale, calls, faults>>

Stopped ==
  /\ pc["main"] = "halted" /\ Joins
  /\ link' = (link /\ network) /\ air' = <<>> /\ active' = FALSE /\ reader' = None
  /\ pc' = [pc EXCEPT !["main"] = "ended"] /\ life' = None
  /\ UNCHANGED <<network, interval, lock, exchangeVars, pushing, halt, rpc, renewalVars,
                 control, task, why, saved, tried, stale, calls, faults>>

\* --------------------------------------------------------------------- controls
\* _execute_control: busy is answered at once, so a control begins with the lock.
ControlBegin(what) ==
  /\ pc["control"] = "idle" /\ control = None /\ calls < MaxCalls
  /\ pc["main"] # "start" /\ task["main"] # "startup"
  /\ calls' = calls + 1 /\ control' = "control"
  /\ task' = [task EXCEPT !["control"] = what]
  /\ pc' = [pc EXCEPT !["control"] = "enter"]
  /\ UNCHANGED <<network, psiVars, lock, exchangeVars, linkVars, halt, reader, rpc, renewalVars,
                 life, why, saved, tried, stale, faults>>

\* The lifecycle lock, a running runtime, a connection for all but reconnect,
\* and a transport that supports reconnect; or an error.
Permitted ==
  /\ life = None /\ pc["main"] # "ended"
  /\ IF task["control"] = "reconnect" THEN network ELSE link

ControlEnter ==
  /\ pc["control"] = "enter"
  /\ IF Permitted
     THEN /\ life' = "control" /\ pc' = [pc EXCEPT !["control"] = task["control"]]
          /\ UNCHANGED <<control, task, lock, why, saved, tried>>
     ELSE Returns("control", "refused")
  /\ UNCHANGED <<network, psiVars, exchangeVars, linkVars, halt, reader, rpc, renewalVars,
                 stale, calls, faults>>

\* _wait_for_response for a control's command.
Query ==
  /\ pc["control"] = "query"
  /\ \/ /\ lock = None /\ Sent("GSI") /\ UNCHANGED active
        /\ lock' = "control" /\ pending' = "GSI" /\ slot' = None
        /\ pc' = [pc EXCEPT !["control"] = "reply"]
        /\ UNCHANGED <<control, life, task, why, saved, tried>>
     \/ /\ lock = None /\ SendBreaks(active) /\ Returns("control", "broken")
        /\ UNCHANGED <<pending, slot>>
     \/ /\ lock # None /\ Returns("control", "timeout")
        /\ UNCHANGED <<active, pending, slot, linkVars, faults>>
  /\ UNCHANGED <<network, interval, first, halt, reader, rpc, renewalVars, stale, calls>>

Reply ==
  /\ pc["control"] = "reply"
  /\ \/ slot # None /\ UNCHANGED faults
     \/ slot = None /\ DeadlinePasses("GSI")
  /\ Popped
  /\ Returns("control", "ok")
  /\ UNCHANGED <<network, psiVars, first, linkVars, halt, reader, rpc, renewalVars, stale, calls>>

\* ------------------------------------------------------------------ surroundings
\* The scanner streams a frame when none is waiting.
Stream ==
  /\ pushing /\ link /\ air = <<>>
  /\ air' = <<"frame">>
  /\ UNCHANGED <<network, psiVars, lock, exchangeVars, link, pushing, halt, reader, rpc,
                 renewalVars, runtimeVars, stale, calls, faults>>

\* It forgets the push (a reboot, an expired lease).
Forget ==
  /\ pushing /\ faults < MaxFaults
  /\ pushing' = FALSE /\ faults' = faults + 1
  /\ UNCHANGED <<network, psiVars, lock, exchangeVars, link, air, halt, reader, rpc,
                 renewalVars, runtimeVars, stale, calls>>

\* psi_recover_after passes without a frame.
Silence ==
  /\ ~stale /\ pc["main"] \notin {"start", "ended"} /\ NothingComes("PSI")
  /\ stale' = TRUE
  /\ UNCHANGED <<network, psiVars, lock, exchangeVars, linkVars, halt, reader, rpc,
                 renewalVars, runtimeVars, calls, faults>>

Init ==
  /\ network \in Networks
  /\ active = FALSE /\ interval = FALSE /\ lock = None
  /\ pending = None /\ slot = None /\ first = None
  /\ link = FALSE /\ halt = FALSE /\ reader = None /\ rpc = [i \in Readers |-> "off"]
  /\ air = <<>> /\ pushing = FALSE
  /\ npc = "off" /\ rstop = FALSE
  /\ control = None /\ life = None
  /\ pc = [main |-> "start", control |-> "idle"] /\ task = [t \in Threads |-> None]
  /\ why = "ok" /\ saved = FALSE
  /\ stale = FALSE /\ tried = FALSE /\ calls = 0 /\ faults = 0

Reader(i) == Read(i) \/ Mark(i) \/ Notice(i) \/ Reopen(i) \/ Told(i) \/ Resend(i)

Renewal == RenewEnds \/ RenewBegin \/ RenewAnswer \/ RenewFirst

Session(t) ==
  \/ PushBegin(t) \/ PushAnswer(t) \/ PushFirst(t) \/ PushRenew(t) \/ PushFail(t)
  \/ ReconnectBegin(t) \/ Halt(t) \/ ReconnectOpen(t)

Main ==
  \/ Session("main") \/ Start \/ PollInactive \/ PollStale \/ Recheck
  \/ StopBegin \/ StopEnd \/ Stop \/ Close \/ Stopped

Control == Session("control") \/ ControlEnter \/ Query \/ Reply

Next ==
  \/ Main \/ Control \/ Renewal
  \/ \E i \in Readers : Reader(i) \/ ReadBreaks(i)
  \/ \E what \in {"query", "reconnect"} : ControlBegin(what)
  \/ StopRequest \/ Stream \/ Forget \/ Silence

Spec == Init /\ [][Next]_vars

\* Threads run, the scanner streams what it was asked to, time passes.
FairSpec ==
  /\ Spec
  /\ WF_vars(Main) /\ WF_vars(Control) /\ WF_vars(Renewal)
  /\ \A i \in Readers : WF_vars(Reader(i))
  /\ WF_vars(Stream) /\ WF_vars(Silence)

\* ------------------------------------------------------------------- properties
Ending == {"stopping", "cleanup", "stopPush", "stopJoin", "close", "closePush", "closeJoin",
           "halt", "halted", "ended"}
Calling == {"push", "answer", "first", "renew", "fail", "reconnect", "reconnectJoin", "reconnectHalt"}

\* Types; one exchange at a time, registered by the owner of the command lock,
\* and nothing registered or captured when nobody owns it.
TypeOK ==
  /\ {active, interval, link, halt, pushing, rstop, saved, stale, tried, network} \subseteq BOOLEAN
  /\ lock \in {None, "main", "control", "renewal"}
  /\ pending \in {None, "PSI", "GSI"} /\ slot \in {None, "ack", "frame", "info", "err"}
  /\ first \in {None, TRUE, FALSE}
  /\ pending # None \/ first # None => lock # None
  /\ reader \in Readers \cup {None}
  /\ rpc \in [Readers -> {"off", "read", "mark", "retry", "told", "resend"}]
  /\ air \in Seq({"ack", "frame", "info", "err"}) /\ (~link => air = <<>>)
  /\ npc \in {"off", "wait", "answer", "first"} /\ (npc \in {"answer", "first"} => lock = "renewal")
  /\ control \in {None} \cup Threads /\ life \in {None} \cup Threads
  /\ pc["main"] \in Ending \cup Calling \cup {"start", "running", "recheck", "refresh", "refreshJoin"}
  /\ pc["control"] \in Calling \cup {"idle", "enter", "query", "reply"}

\* Nobody waits on nobody: a control, a recovery, a start and a stop come back,
\* although the renewal thread is joined under the command lock it wants, the
\* reader that brings an answer may be waiting for the lock of who waits for
\* that answer, and a stop waits for a control that waits for the reader.
CallsReturn ==
  /\ pc["control"] # "idle" ~> pc["control"] = "idle"
  /\ pc["main"] # "running" ~> pc["main"] \in {"running", "ended"}

\* Once faults end, a serial daemon streams again, whatever the scanner lost,
\* rejected or answered late, unless the process is ending.
PushRestored ==
  ~network => <>[](pc["main"] \in Ending \/ (link /\ active /\ pushing))

\* After the runtime stopped, its threads end: no reader, revived or not, and no
\* renewal is left running.
ThreadsEnd ==
  pc["main"] = "ended" ~> npc = "off" /\ \A i \in Readers : rpc[i] = "off"

\* "Automatic recovery is enabled by default after 10 seconds without PSI, with a
\* 60-second minimum delay between recovery attempts": on the network transport,
\* too, the push comes back once faults end.
NetworkPushRestored ==
  network => <>[](pc["main"] \in Ending \/ (link /\ active /\ pushing))

=============================================================================

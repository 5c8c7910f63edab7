--------------------------- MODULE FallbackTransport ---------------------------
(***************************************************************************)
(* FallbackTransport (fallback.py): one control transport made of ordered  *)
(* candidates.  Four kinds of thread meet in it:                           *)
(*   - the manager, which activates a candidate, fails over when a switch  *)
(*     is requested and probes better candidates to promote one of them;   *)
(*   - the reader thread of each transport instance, whose connection      *)
(*     callback announces that the instance died;                          *)
(*   - a writer inside SDSScanner._wait_for_response, which registers its  *)
(*     pending response, writes through write_command and awaits the       *)
(*     answer;                                                             *)
(*   - the caller of stop.                                                 *)
(* Sections under _lock touch nothing slow and are single steps.  Every    *)
(* activation and every probe makes a new transport object, called an      *)
(* instance here; instances that nothing refers to any more are reused.    *)
(***************************************************************************)
EXTENDS Naturals, FiniteSets

CONSTANTS
  Candidates,    \* number of candidates; index 0 is the preferred one
  Inst,          \* transport instances, numbers from 1
  MaxAttempts,   \* reconnect_policy.max_attempts
  Recovery,      \* whether a preferred_recovery_policy is configured
  PsiInterval    \* whether the scanner has a PSI push to restore

ASSUME FallbackAssumption ==
  /\ Candidates \in Nat \ {0}
  /\ Inst \subseteq Nat \ {0}
  /\ MaxAttempts \in Nat
  /\ Recovery \in BOOLEAN /\ PsiInterval \in BOOLEAN

None == 0
Writer == 0   \* as a thread; the reader of an instance has its number
Threads == Inst \cup {Writer}

VARIABLES
  cand,           \* the candidate each instance was made for
  up,             \* instance.connected
  active,         \* _active and _active_index: the active instance or None
  switch,         \* _switch_requested
  stop,           \* _stop
  reported,       \* _reported_connected, the state last forwarded upwards
  activating,     \* _activation_lock
  command,        \* owner of _command_lock
  attempts,       \* ReconnectCounter._attempts
  probeDue,       \* _next_recovery_probe_at is set
  started,        \* start() has returned: the manager thread exists
  mpc, mi, next, left,  \* manager: step, instance at hand, next index, tries left
  wpc, wi,        \* writer: step, instance written to
  spc,            \* caller of stop: step
  cb              \* connection callback or switch request each thread is in

envVars == <<cand, up>>
switchVars == <<switch, reported, cb>>
managerVars == <<started, mpc, mi, next, left, attempts, activating>>
vars == <<envVars, active, stop, command, probeDue, switchVars, managerVars, wpc, wi, spc>>

\* The instance a thread's callback is about.
Subject(t) == IF t = Writer THEN wi ELSE t

\* Instances no thread can still refer to.
Free == {i \in Inst : /\ i \notin {active, mi, wi}
                      /\ ~up[i] /\ cb[i] = "none"}
Fresh == CHOOSE i \in Free : \A j \in Free : i <= j

\* ------------------------------------------------ connection callbacks
\* The reader of a live instance meets a read error: the instance closes and
\* its thread enters the connection callback.  A probe that is not promoted
\* yet only notes the loss for itself.
Unpromoted == {"probing", "probed", "guarded", "checked", "probeStopping"}

Die(i) ==
  /\ up[i] /\ cb[i] = "none"
  /\ up' = [up EXCEPT ![i] = FALSE]
  /\ cb' = [cb EXCEPT ![i] = IF i = mi /\ mpc \in Unpromoted THEN "none" ELSE "check"]
  /\ UNCHANGED <<cand, active, stop, command, probeDue, switch, reported, managerVars,
                 wpc, wi, spc>>

callbackFrame == <<envVars, active, stop, command, probeDue, managerVars, wpc, wi, spc>>

\* _lock is held across two steps only, in _promote_recovered_transport.
LockFree == mpc # "checked"

\* _candidate_connection_changed: not the active transport, nothing to do ...
CallbackCheck(t) ==
  /\ cb[t] = "check" /\ LockFree
  /\ cb' = [cb EXCEPT ![t] = IF active = Subject(t) THEN "lock" ELSE "none"]
  /\ UNCHANGED <<callbackFrame, switch, reported>>

\* ... an activation under way, the callback returns without a trace ...
CallbackLocked(t) ==
  /\ cb[t] = "lock"
  /\ cb' = [cb EXCEPT ![t] = IF activating THEN "none" ELSE "forward"]
  /\ UNCHANGED <<callbackFrame, switch, reported>>

\* ... otherwise forward the loss and, unless stopping, request a switch.
CallbackForward(t) ==
  /\ cb[t] = "forward" /\ LockFree
  /\ reported' = FALSE
  /\ cb' = [cb EXCEPT ![t] = IF stop THEN "none" ELSE "request"]
  /\ UNCHANGED <<callbackFrame, switch>>

\* _request_switch: the comparison is made under _lock ...
RequestSwitch(t) ==
  /\ cb[t] = "request" /\ LockFree
  /\ cb' = [cb EXCEPT ![t] = IF active = Subject(t) THEN "set" ELSE "none"]
  /\ UNCHANGED <<callbackFrame, switch, reported>>

\* ... and the event is set after the diagnostic callbacks, outside it.
SetSwitch(t) ==
  /\ cb[t] = "set" /\ LockFree
  /\ reported' = FALSE
  /\ switch' = TRUE
  /\ cb' = [cb EXCEPT ![t] = "none"]
  /\ UNCHANGED callbackFrame

Callback(t) ==
  \/ CallbackCheck(t) \/ CallbackLocked(t) \/ CallbackForward(t)
  \/ RequestSwitch(t) \/ SetSwitch(t)

\* ------------------------------------------------------------- the manager
Manager(from, to) == mpc = from /\ mpc' = to

\* stop() of an instance: it is closed; its reader is joined with a timeout,
\* which runs out when the reader is inside the callbacks of SetSwitch.
StopInstance(i) ==
  /\ i # None => cb[i] \in {"none", "set"}
  /\ up' = [j \in Inst |-> up[j] /\ j # i]

\* Mutant: the wait between two sweeps does not look at _stop.
ManagerExitLate ==
  /\ mpc = "wait" /\ stop
  /\ mpc' = "exit"
  /\ UNCHANGED <<envVars, active, stop, started, command, probeDue, switchVars, mi, next, left,
                 attempts, activating, wpc, wi, spc>>

\* _manager_loop
ManagerExit ==
  /\ mpc \in {"wait", "backoff"} /\ stop
  /\ mpc' = "exit"
  /\ UNCHANGED <<envVars, active, stop, started, command, probeDue, switchVars, mi, next, left,
                 attempts, activating, wpc, wi, spc>>

\* clear() precedes _handle_failover, which takes the active transport away.
ManagerClears ==
  /\ Manager("wait", "take") /\ ~stop /\ switch
  /\ switch' = FALSE
  /\ UNCHANGED <<envVars, active, stop, started, command, probeDue, reported, cb, mi, next, left,
                 attempts, activating, wpc, wi, spc>>

TakeActive ==
  /\ Manager("take", "stopPrevious")
  /\ mi' = active
  /\ next' = IF active = None THEN 0 ELSE (cand[active] + 1) % Candidates
  /\ active' = None
  /\ probeDue' = FALSE
  /\ UNCHANGED <<envVars, stop, started, command, switchVars, left, attempts, activating, wpc, wi, spc>>

StopPrevious ==
  /\ Manager("stopPrevious", "sweep")
  /\ StopInstance(mi)
  /\ mi' = None
  /\ UNCHANGED <<cand, active, stop, started, command, probeDue, switchVars, next, left, attempts,
                 activating, wpc, wi, spc>>

\* _activate_from, called by start and by _handle_failover: one sweep over all candidates under the activation lock.
SweepBegin ==
  /\ Manager("sweep", "try")
  /\ activating' = TRUE
  /\ left' = Candidates
  /\ UNCHANGED <<envVars, active, stop, started, command, probeDue, switchVars, mi, next, attempts,
                 wpc, wi, spc>>

\* Without a success start raises; _handle_failover goes on below.
SweepFails ==
  /\ mpc = "try" /\ (stop \/ left = 0)
  /\ activating' = FALSE
  /\ mpc' = IF stop \/ ~started THEN "exit" ELSE "failed"
  /\ UNCHANGED <<envVars, active, stop, started, command, probeDue, switchVars, mi, next, left,
                 attempts, wpc, wi, spc>>

TryCandidate ==
  /\ Manager("try", "starting") /\ ~stop /\ left > 0
  /\ Free # {}
  /\ mi' = Fresh /\ active' = Fresh
  /\ cand' = [cand EXCEPT ![Fresh] = next]
  /\ left' = left - 1
  /\ next' = (next + 1) % Candidates
  /\ UNCHANGED <<up, stop, started, command, probeDue, switchVars, attempts, activating, wpc, wi, spc>>

\* transport.start succeeds or raises.
StartTransport ==
  /\ mpc = "starting"
  /\ \/ mpc' = "started" /\ up' = [up EXCEPT ![mi] = TRUE]
     \/ mpc' = "cleanup" /\ UNCHANGED up
  /\ UNCHANGED <<cand, active, stop, started, command, probeDue, switchVars, mi, next, left,
                 attempts, activating, wpc, wi, spc>>

\* "did not remain connected", or the activation is recorded and the next
\* recovery probe scheduled for an alternate.
CheckConnected ==
  /\ mpc = "started"
  /\ IF up[mi]
     THEN mpc' = "report" /\ probeDue' = (Recovery /\ cand[mi] # 0)
     ELSE mpc' = "cleanup" /\ UNCHANGED probeDue
  /\ UNCHANGED <<envVars, active, stop, started, command, switchVars, mi, next, left, attempts,
                 activating, wpc, wi, spc>>

CleanupCandidate ==
  /\ Manager("cleanup", "try")
  /\ active' = IF active = mi THEN None ELSE active
  /\ StopInstance(mi)
  /\ mi' = None
  /\ UNCHANGED <<cand, stop, started, command, probeDue, switchVars, next, left, attempts,
                 activating, wpc, wi, spc>>

\* _forward_connection(True): only a change is handed to the scanner.
ReportConnected ==
  /\ mpc = "report"
  /\ mpc' = IF reported THEN "finish" ELSE "resend"
  /\ reported' = TRUE
  /\ UNCHANGED <<envVars, active, stop, started, command, probeDue, switch, cb, mi, next, left,
                 attempts, activating, wpc, wi, spc>>

\* SDSScanner resends PSI on the manager's thread, through write_command.  If
\* that write fails the instance closes (its callback finds the activation lock
\* taken or nothing listening), a switch is requested, and the wait for a
\* replacement that only this thread could make runs out.
ActiveDead == active # None /\ ~up[active]

RestorePsi ==
  /\ command = "free"
  /\ \/ /\ ~(PsiInterval /\ ActiveDead)
        /\ UNCHANGED <<up, switch, reported>>
     \/ /\ PsiInterval /\ active # None
        /\ up' = [up EXCEPT ![active] = FALSE]
        /\ switch' = TRUE /\ reported' = FALSE

\* _connection_changed(True)
ResendPsi ==
  /\ Manager("resend", "finish")
  /\ RestorePsi
  /\ UNCHANGED <<cand, active, stop, started, command, probeDue, cb, mi, next, left, attempts,
                 activating, wpc, wi, spc>>

\* Mutant: the switch event is cleared after the activation.
FinishActivationClearing ==
  /\ Manager("finish", "wait")
  /\ activating' = FALSE /\ started' = TRUE
  /\ attempts' = 0 /\ mi' = None /\ switch' = FALSE
  /\ UNCHANGED <<envVars, active, stop, command, probeDue, reported, cb, next, left, wpc, wi, spc>>

\* The activation lock is released and the reconnect counter reset.
FinishActivation ==
  /\ Manager("finish", "wait")
  /\ activating' = FALSE /\ started' = TRUE
  /\ attempts' = 0 /\ mi' = None
  /\ UNCHANGED <<envVars, active, stop, command, probeDue, switchVars, next, left, wpc, wi, spc>>

\* A failed sweep is retried after a delay until the policy is exhausted;
\* then the manager only waits for a switch again.
ScheduleReconnect ==
  /\ mpc = "failed"
  /\ IF attempts < MaxAttempts
     THEN mpc' = "backoff" /\ attempts' = attempts + 1
     ELSE mpc' = "wait" /\ UNCHANGED attempts
  /\ UNCHANGED <<envVars, active, stop, started, command, probeDue, switchVars, mi, next, left,
                 activating, wpc, wi, spc>>

BackoffElapsed ==
  /\ Manager("backoff", "sweep") /\ ~stop
  /\ next' = 0
  /\ UNCHANGED <<envVars, active, stop, started, command, probeDue, switchVars, mi, left, attempts,
                 activating, wpc, wi, spc>>

\* ------------------------------------------- recovery of a preferred candidate
\* The writer's registered response is what the recovery guard looks at.
Guard == wpc = "idle"

Reschedule == probeDue' = (active # None /\ cand[active] # 0)

\* _attempt_preferred_recovery: the wait timed out; the guard is asked first.
\* left remembers the active instance the promotion expects.
RecoveryBegin ==
  /\ mpc = "wait" /\ ~stop /\ ~switch /\ probeDue
  /\ IF active = None \/ cand[active] = 0
     THEN UNCHANGED <<mpc, left, next, probeDue>>
     ELSE IF Guard
     THEN mpc' = "probe" /\ left' = active /\ next' = 0 /\ UNCHANGED probeDue
     ELSE Reschedule /\ UNCHANGED <<mpc, left, next>>
  /\ UNCHANGED <<envVars, active, stop, started, command, switchVars, mi, attempts, activating,
                 wpc, wi, spc>>

\* _probe_candidate: opens a new instance of the next better candidate.
ProbeBegin ==
  /\ Manager("probe", "probing") /\ ~stop
  /\ next < cand[left]
  /\ Free # {}
  /\ mi' = Fresh
  /\ cand' = [cand EXCEPT ![Fresh] = next]
  /\ up' = [up EXCEPT ![Fresh] = TRUE]
  /\ next' = next + 1
  /\ UNCHANGED <<active, stop, started, command, probeDue, switchVars, left, attempts, activating,
                 wpc, wi, spc>>

\* No candidate is left (schedule the next round) or stop was set.
ProbesEnd ==
  /\ Manager("probe", "wait")
  /\ stop \/ next = cand[left]
  /\ IF stop THEN UNCHANGED probeDue ELSE Reschedule
  /\ left' = 0
  /\ UNCHANGED <<envVars, active, stop, started, command, switchVars, mi, next, attempts,
                 activating, wpc, wi, spc>>

\* Both probes answered within the window, or the open, a probe or the
\* stability wait failed (always once stop is set).
ProbeResult ==
  /\ mpc = "probing"
  /\ \/ up[mi] /\ ~stop /\ mpc' = "probed"
     \/ mpc' = "probeFailed"
  /\ UNCHANGED <<envVars, active, stop, started, command, probeDue, switchVars, mi, next, left,
                 attempts, activating, wpc, wi, spc>>

ProbeFailed ==
  /\ Manager("probeFailed", "probe")
  /\ StopInstance(mi)
  /\ mi' = None
  /\ UNCHANGED <<cand, active, stop, started, command, probeDue, switchVars, next, left, attempts,
                 activating, wpc, wi, spc>>

\* Mutant: the guard that was asked before the probes is not asked again.
PromoteUnguarded ==
  /\ mpc = "probed" /\ command = "free"
  /\ IF switch THEN mpc' = "probeStopping" /\ UNCHANGED <<command, probeDue>>
     ELSE mpc' = "guarded" /\ command' = "manager" /\ UNCHANGED probeDue
  /\ UNCHANGED <<envVars, active, stop, started, switchVars, mi, next, left, attempts, activating,
                 wpc, wi, spc>>

\* _promote_recovered_transport: under the command lock the switch event and
\* the guard are tested ...
PromoteGuard ==
  /\ mpc = "probed" /\ command = "free"
  /\ IF switch THEN mpc' = "probeStopping" /\ UNCHANGED <<command, probeDue>>
     ELSE IF ~Guard THEN mpc' = "probeStopping" /\ Reschedule /\ UNCHANGED command
     ELSE mpc' = "guarded" /\ command' = "manager" /\ UNCHANGED probeDue
  /\ UNCHANGED <<envVars, active, stop, started, switchVars, mi, next, left, attempts, activating,
                 wpc, wi, spc>>

\* ... then, under _lock, everything the probe may have outlived ...
PromoteCheck ==
  /\ mpc = "guarded"
  /\ IF ~stop /\ ~switch /\ active = left /\ up[left] /\ up[mi]
     THEN mpc' = "checked" /\ UNCHANGED command
     ELSE mpc' = "probeStopping" /\ command' = "free"
  /\ UNCHANGED <<envVars, active, stop, started, probeDue, switchVars, mi, next, left, attempts,
                 activating, wpc, wi, spc>>

\* ... and, without releasing _lock, the probe's instance becomes the active
\* one.  Either instance may die between the two.
PromoteSwap ==
  /\ Manager("checked", "promoted")
  /\ active' = mi
  /\ probeDue' = (cand[mi] # 0)
  /\ UNCHANGED <<envVars, stop, started, command, switchVars, mi, next, left, attempts, activating,
                 wpc, wi, spc>>

\* The previous transport is stopped, still under the command lock.
PromoteStopPrevious ==
  /\ Manager("promoted", "resendRecovered")
  /\ StopInstance(left)
  /\ command' = "free"
  /\ left' = 0
  /\ UNCHANGED <<cand, active, stop, started, probeDue, switchVars, mi, next, attempts, activating,
                 wpc, wi, spc>>

\* The preferred_recovery_succeeded diagnostic does the same.
ResendRecovered ==
  /\ Manager("resendRecovered", "wait")
  /\ RestorePsi
  /\ mi' = None
  /\ UNCHANGED <<cand, active, stop, started, command, probeDue, cb, next, left, attempts,
                 activating, wpc, wi, spc>>

\* Mutant: a probe that was not promoted is only forgotten.
ProbeForget ==
  /\ Manager("probeStopping", "wait")
  /\ mi' = None /\ left' = 0
  /\ UNCHANGED <<envVars, active, stop, started, command, probeDue, switchVars, next, attempts,
                 activating, wpc, wi, spc>>

\* A probe that was not promoted is stopped; probeDue is left as it is.
ProbeStop ==
  /\ Manager("probeStopping", "wait")
  /\ StopInstance(mi)
  /\ mi' = None /\ left' = 0
  /\ UNCHANGED <<cand, active, stop, started, command, probeDue, switchVars, next, attempts,
                 activating, wpc, wi, spc>>

ManagerStep ==
  \/ ManagerExit \/ ManagerClears \/ TakeActive \/ StopPrevious
  \/ SweepBegin \/ SweepFails \/ TryCandidate \/ StartTransport \/ CheckConnected
  \/ CleanupCandidate \/ ReportConnected \/ ResendPsi \/ FinishActivation
  \/ ScheduleReconnect \/ BackoffElapsed
  \/ RecoveryBegin \/ ProbeBegin \/ ProbesEnd \/ ProbeResult \/ ProbeFailed
  \/ PromoteGuard \/ PromoteCheck \/ PromoteSwap \/ PromoteStopPrevious
  \/ ResendRecovered \/ ProbeStop

\* -------------------------------------------------------------- the writer
writerFrame == <<cand, active, stop, probeDue, managerVars, spc>>

\* _wait_for_response registers the pending response, then writes.
Register ==
  /\ wpc = "idle" /\ wpc' = "registered"
  /\ UNCHANGED <<writerFrame, up, command, switchVars, wi>>

\* write_command: takes the command lock and reads the active transport.
WriteBegin ==
  /\ wpc = "registered" /\ command = "free"
  /\ IF active = None
     THEN wpc' = "idle" /\ UNCHANGED <<command, wi>>
     ELSE wpc' = "write" /\ command' = "writer" /\ wi' = active
  /\ UNCHANGED <<writerFrame, up, switchVars>>

\* The write succeeds, finds the transport closed, or fails and closes it: the
\* connection callback then runs on this thread before the error is raised.
Write ==
  /\ wpc = "write"
  /\ \/ /\ up[wi] /\ wpc' = "await" /\ command' = "free"
        /\ UNCHANGED <<up, cb>>
     \/ /\ up[wi] /\ wpc' = "raised"
        /\ up' = [up EXCEPT ![wi] = FALSE]
        /\ cb' = [cb EXCEPT ![Writer] = "check"]
        /\ UNCHANGED command
     \/ /\ ~up[wi] /\ wpc' = "raised"
        /\ UNCHANGED <<up, cb, command>>
  /\ UNCHANGED <<writerFrame, switch, reported, wi>>

\* The except clause requests a switch ...
WriteRaised ==
  /\ wpc = "raised" /\ wpc' = "replace" /\ cb[Writer] = "none"
  /\ cb' = [cb EXCEPT ![Writer] = "request"]
  /\ UNCHANGED <<writerFrame, up, command, switch, reported, wi>>

\* ... and _wait_for_replacement returns another connected transport, to which
\* the command is written once more, or gives up at the deadline or at stop.
\* A second failure closes the replacement like the first one did.
WriteRetry ==
  /\ wpc = "replace" /\ cb[Writer] = "none"
  /\ ~stop /\ active \notin {None, wi} /\ up[active]
  /\ wi' = active
  /\ \/ wpc' = "await" /\ command' = "free" /\ UNCHANGED <<up, cb>>
     \/ /\ wpc' = "giveUp"
        /\ up' = [up EXCEPT ![active] = FALSE]
        /\ cb' = [cb EXCEPT ![Writer] = "check"]
        /\ UNCHANGED command
  /\ UNCHANGED <<writerFrame, switch, reported>>

WriteGivesUp ==
  /\ wpc \in {"replace", "giveUp"} /\ cb[Writer] = "none"
  /\ wpc' = "idle" /\ command' = "free" /\ wi' = None
  /\ UNCHANGED <<writerFrame, up, switchVars>>

\* The answer arrived or the command timed out.
Answered ==
  /\ wpc = "await" /\ wpc' = "idle" /\ wi' = None
  /\ UNCHANGED <<writerFrame, up, command, switchVars>>

WriterStep == WriteBegin \/ Write \/ WriteRaised \/ WriteRetry \/ WriteGivesUp \/ Answered

\* ------------------------------------------------------------------- stop()
stopFrame == <<cand, cb, managerVars, wpc, wi>>

StopSet ==
  /\ spc = "idle" /\ spc' = "lock"
  /\ stop' = TRUE /\ switch' = TRUE
  /\ UNCHANGED <<stopFrame, up, active, command, probeDue, reported>>

StopTakes ==
  /\ spc = "lock" /\ spc' = "join" /\ command = "free"
  /\ StopInstance(active)
  /\ active' = None /\ probeDue' = FALSE
  /\ UNCHANGED <<stopFrame, stop, switch, command, reported>>

\* The manager is joined, unless it does not exist yet or spends the whole
\* timeout in one of its slow calls; then the loss is forwarded.
StopReturns ==
  /\ spc = "join" /\ spc' = "done"
  /\ mpc \in {"exit", "starting", "resend", "resendRecovered"} \/ ~started
  /\ reported' = FALSE
  /\ UNCHANGED <<stopFrame, up, active, stop, switch, command, probeDue>>

StopStep == StopTakes \/ StopReturns

\* ------------------------------------------------------------ specification
\* start() runs the first sweep on its caller's thread; its steps are the
\* manager's steps before started.
Init ==
  /\ cand = [i \in Inst |-> 0]
  /\ up = [i \in Inst |-> FALSE]
  /\ active = None
  /\ switch = FALSE /\ stop = FALSE /\ reported = FALSE
  /\ activating = FALSE /\ command = "free"
  /\ attempts = 0 /\ probeDue = FALSE
  /\ started = FALSE /\ mpc = "sweep" /\ mi = None /\ next = 0 /\ left = 0
  /\ wpc = "idle" /\ wi = None
  /\ spc = "idle"
  /\ cb = [t \in Threads |-> "none"]

Next ==
  \/ ManagerStep
  \/ \E i \in Inst : Die(i)
  \/ \E t \in Threads : Callback(t)
  \/ Register \/ WriterStep
  \/ StopSet \/ StopStep

Spec == Init /\ [][Next]_vars

\* Every thread goes on.  Strong fairness where a thread waits for the command
\* lock, which others take and release again and again: it is not starved.
Fairness ==
  /\ SF_vars(ManagerStep)
  /\ \A t \in Threads : WF_vars(Callback(t))
  /\ SF_vars(WriterStep)
  /\ SF_vars(StopStep)

FairSpec == Spec /\ Fairness

\* --------------------------------------------------------------- properties
\* No thread is between two steps of the protocol.
Quiet ==
  /\ mpc = "wait" /\ wpc = "idle" /\ spc = "idle" /\ ~switch
  /\ \A t \in Threads : cb[t] = "none"

\* The variables keep to their types.
TypeOK ==
  /\ cand \in [Inst -> 0 .. Candidates - 1]
  /\ up \in [Inst -> BOOLEAN]
  /\ {active, mi, wi} \subseteq Inst \cup {None}
  /\ {switch, stop, started, reported, activating, probeDue} \subseteq BOOLEAN
  /\ command \in {"free", "writer", "manager"}
  /\ attempts \in 0 .. MaxAttempts
  /\ next \in 0 .. Candidates /\ left \in Nat
  /\ cb \in [Threads -> {"none", "check", "lock", "forward", "request", "set"}]

\* No transport leaks: when the manager has gone back to waiting, an open
\* instance is the active one.  Every path out of a probe, a failed activation
\* and a failover must have closed what it opened.
NoLeakedTransport ==
  mpc = "wait" /\ spc = "idle" => \A i \in Inst : up[i] => i = active

\* The variables keep to their types, and when the manager waits again, every
\* transport that a probe, an activation or a failover opened is closed or active.
TransportsOwned == TypeOK /\ NoLeakedTransport

\* A promotion never takes the transport away from a command that was written
\* to it and awaits its answer: the guard is asked under the command lock.
PromotionSparesCommands ==
  [][(active' # active /\ mpc = "checked") => wpc # "await"]_vars

\* A loss of the active transport never goes unnoticed: with nothing under
\* way, the transport commands would be written to is connected.
LossNoticed == Quiet => (active # None => up[active])

\* Calls return: stop(), whatever the manager, the readers and a writer are doing,
\* and a write, with an answer, a timeout or an error, even when no replacement
\* transport ever appears.
CallsReturn ==
  /\ spc = "lock" ~> spc = "done"
  /\ wpc # "idle" ~> wpc = "idle"

\* A command that finds its transport dead gets that transport replaced, even
\* one whose loss nobody noticed: the switch it requests is never lost between
\* the manager's clear() and its next wait.
FailedWriteReplaces ==
  \A i \in Inst : (wpc = "raised" /\ wi = i /\ active = i) ~> (active # i \/ stop)

=============================================================================

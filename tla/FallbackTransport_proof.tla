------------------------- MODULE FallbackTransport_proof -------------------------
(***************************************************************************)
(* Proofs about FallbackTransport, for any number of candidates, instances *)
(* and attempts: a transport that is open when the manager waits again is  *)
(* the active one, and a promotion spares a command that awaits its answer.*)
(*                                                                         *)
(* Until stop takes the active transport away, an open instance is the     *)
(* active one or the one the manager has in hand, and which of the two     *)
(* there are follows from the manager's step.                              *)
(***************************************************************************)
EXTENDS FallbackTransport, WellFoundedInduction, TLAPS

Steps == {"wait", "backoff", "exit", "take", "stopPrevious", "sweep", "try", "starting", "started",
          "report", "resend", "finish", "cleanup", "failed", "probe", "probing", "probed", "guarded",
          "checked", "probeStopping", "probeFailed", "promoted", "resendRecovered"}
WriterSteps == {"idle", "registered", "write", "await", "raised", "replace", "giveUp"}

\* Where the manager has no instance in hand, where it has the active one, and
\* where it probes beside the active one, which left remembers.
Empty == {"wait", "backoff", "exit", "take", "sweep", "try", "failed", "probe"}
Sweeping == {"stopPrevious", "sweep", "try", "failed", "backoff"}
Activating == {"starting", "started", "report", "resend", "finish", "cleanup", "promoted",
               "resendRecovered"}
Probing == {"probe", "probing", "probed", "guarded", "checked", "probeStopping", "probeFailed"}

TypeInv ==
  /\ cand \in [Inst -> 0 .. Candidates - 1] /\ up \in [Inst -> BOOLEAN]
  /\ active \in Inst \cup {None} /\ mi \in Inst \cup {None} /\ wi \in Inst \cup {None}
  /\ command \in {"free", "writer", "manager"}
  /\ attempts \in 0 .. MaxAttempts /\ next \in 0 .. Candidates /\ left \in Nat
  /\ cb \in [Threads -> {"none", "check", "lock", "forward", "request", "set"}]
  /\ mpc \in Steps /\ wpc \in WriterSteps /\ spc \in {"idle", "lock", "join", "done"}

\* The flags are kept apart: they take no part in the other conjuncts.
BooleanInv ==
  /\ switch \in BOOLEAN /\ stop \in BOOLEAN /\ started \in BOOLEAN /\ reported \in BOOLEAN
  /\ activating \in BOOLEAN /\ probeDue \in BOOLEAN

HandInv ==
  /\ mpc \in Empty => mi = None
  /\ mpc \in Activating \cup (Probing \ {"probe"}) => mi \in Inst
  /\ mpc \in Probing \cup {"promoted"} => left \in Inst
  /\ mpc \in {"stopPrevious", "sweep", "try", "starting", "started", "cleanup"} => next < Candidates

\* Before stop took the active transport.
OwnerInv ==
  spc \in {"idle", "lock"} =>
    /\ \A i \in Inst : up[i] => i = active \/ i = mi \/ (mpc = "promoted" /\ i = left)
    /\ mpc \in Sweeping => active = None
    /\ mpc \in Activating => active = mi
    /\ mpc \in Probing => active = left

\* A promotion holds the command lock, which no writer then has.
CommandInv ==
  mpc \in {"guarded", "checked", "promoted"} =>
    command = "manager" /\ wpc \in {"idle", "registered"}

MainInv == TypeInv /\ HandInv /\ OwnerInv /\ CommandInv
IInv == MainInv /\ BooleanInv

\* The instance of least number that nobody refers to.
LEMMA FreshFacts == ASSUME Free # {} PROVE Fresh \in Free
<1> DEFINE R == OpToRel(<, Nat)
<1>1. IsWellFoundedOn(R, Nat)
  BY NatLessThanWellFounded
<1>2. \A x, y \in Nat : x < y => <<x, y>> \in R
  BY DEF OpToRel
<1> HIDE DEF R
<1>3. Free \subseteq Nat
  BY FallbackAssumption DEF Free
<1>4. PICK x \in Free : \A y \in Free : ~ (<<y, x>> \in R)
  BY <1>1, <1>3, WFMin
<1>5. ASSUME NEW y \in Free PROVE x <= y
  <2>1. x \in Nat /\ y \in Nat /\ ~ (y < x)
    BY <1>2, <1>3, <1>4
  <2> QED
    BY <2>1
<1> QED
  BY <1>5 DEF Fresh

\* What stopping an instance closes.
LEMMA StopInstanceFacts ==
  ASSUME TypeInv, NEW i, StopInstance(i)
  PROVE  up' \in [Inst -> BOOLEAN] /\ \A j \in Inst : up'[j] <=> up[j] /\ j # i
  BY DEF TypeInv, StopInstance

\* Every flag stays a flag.
LEMMA Booleans == ASSUME BooleanInv, [Next]_vars PROVE BooleanInv'
<1> USE DEF BooleanInv, envVars, switchVars, managerVars
<1>1. CASE ManagerExit \/ ManagerClears \/ TakeActive \/ StopPrevious \/ SweepBegin \/ SweepFails
             \/ TryCandidate \/ StartTransport \/ CheckConnected \/ CleanupCandidate
  BY <1>1 DEF ManagerExit, ManagerClears, TakeActive, StopPrevious, SweepBegin, SweepFails,
              TryCandidate, StartTransport, CheckConnected, CleanupCandidate
<1>2. CASE ReportConnected \/ ResendPsi \/ FinishActivation \/ ScheduleReconnect \/ BackoffElapsed
             \/ RecoveryBegin \/ ProbeBegin \/ ProbesEnd \/ ProbeResult
  BY <1>2 DEF ReportConnected, ResendPsi, FinishActivation, ScheduleReconnect, BackoffElapsed,
              RecoveryBegin, ProbeBegin, ProbesEnd, ProbeResult, RestorePsi, Reschedule
<1>3. CASE ProbeFailed \/ PromoteGuard \/ PromoteCheck \/ PromoteSwap \/ PromoteStopPrevious
             \/ ResendRecovered \/ ProbeStop
  BY <1>3 DEF ProbeFailed, PromoteGuard, PromoteCheck, PromoteSwap, PromoteStopPrevious,
              ResendRecovered, ProbeStop, RestorePsi, Reschedule
<1>4. ASSUME NEW i \in Inst, Die(i) PROVE BooleanInv'
  BY <1>4 DEF Die
<1>5. ASSUME NEW t \in Threads, Callback(t) PROVE BooleanInv'
  BY <1>5 DEF Callback, CallbackCheck, CallbackLocked, CallbackForward, RequestSwitch, SetSwitch,
              callbackFrame
<1>6. CASE Register \/ WriterStep
  BY <1>6 DEF Register, WriterStep, WriteBegin, Write, WriteRaised, WriteRetry, WriteGivesUp,
              Answered, writerFrame
<1>7. CASE StopSet \/ StopStep
  BY <1>7 DEF StopSet, StopStep, StopTakes, StopReturns, stopFrame
<1>8. CASE UNCHANGED vars
  BY <1>8 DEF vars
<1> QED
  BY <1>1, <1>2, <1>3, <1>4, <1>5, <1>6, <1>7, <1>8 DEF Next, ManagerStep

\* No step disturbs the rest of the invariant.
LEMMA NextKeeps == ASSUME MainInv, [Next]_vars PROVE MainInv'
<1> USE FallbackAssumption
<1> USE DEF MainInv, TypeInv, HandInv, OwnerInv, CommandInv, Steps, WriterSteps, Empty, Sweeping,
             Activating, Probing, Manager, None, Threads, Writer, envVars, switchVars, managerVars,
             callbackFrame, writerFrame, stopFrame, vars
<1>1. CASE ManagerExit
  BY <1>1 DEF ManagerExit
<1>2. CASE ManagerClears
  BY <1>2 DEF ManagerClears
<1>3. CASE TakeActive
  BY <1>3 DEF TakeActive
<1>4. CASE StopPrevious
  BY <1>4, StopInstanceFacts DEF StopPrevious
<1>5. CASE SweepBegin
  BY <1>5 DEF SweepBegin
<1>6. CASE SweepFails
  BY <1>6 DEF SweepFails
<1>7. CASE TryCandidate
  BY <1>7, FreshFacts DEF TryCandidate, Free
<1>8. CASE StartTransport
  <2>1. CASE mpc' = "started" /\ up' = [up EXCEPT ![mi] = TRUE]
    <3>1. mpc = "starting" /\ mi' = mi /\ active' = active
      BY <1>8 DEF StartTransport
    <3>2. up' \in [Inst -> BOOLEAN] /\ \A i \in Inst : up'[i] => up[i] \/ i = mi
      BY <2>1
    <3> QED
      BY <1>8, <2>1, <3>1, <3>2 DEF StartTransport
  <2>2. CASE mpc' = "cleanup" /\ up' = up
    BY <1>8, <2>2 DEF StartTransport
  <2> QED
    BY <1>8, <2>1, <2>2 DEF StartTransport
<1>9. CASE CheckConnected
  BY <1>9 DEF CheckConnected
<1>10. CASE CleanupCandidate
  BY <1>10, StopInstanceFacts DEF CleanupCandidate
<1>11. CASE ReportConnected
  BY <1>11 DEF ReportConnected
<1>12. CASE ResendPsi
  BY <1>12 DEF ResendPsi, RestorePsi
<1>13. CASE FinishActivation
  BY <1>13 DEF FinishActivation
<1>14. CASE ScheduleReconnect
  BY <1>14 DEF ScheduleReconnect
<1>15. CASE BackoffElapsed
  BY <1>15 DEF BackoffElapsed
<1>16. CASE RecoveryBegin
  <2> USE <1>16 DEF RecoveryBegin
  <2>1. CASE mpc' = mpc /\ left' = left /\ next' = next
    BY <2>1
  <2>2. CASE active # None /\ mpc' = "probe" /\ left' = active /\ next' = 0
    BY <2>2
  <2>3. mpc = "wait"
    OBVIOUS
  <2> QED
    BY <2>1, <2>2
<1>17. CASE ProbeBegin
  BY <1>17, FreshFacts DEF ProbeBegin, Free
<1>18. CASE ProbesEnd
  BY <1>18 DEF ProbesEnd
<1>19. CASE ProbeResult
  BY <1>19 DEF ProbeResult
<1>20. CASE ProbeFailed
  BY <1>20, StopInstanceFacts DEF ProbeFailed
<1>21. CASE PromoteGuard
  BY <1>21 DEF PromoteGuard, Guard
<1>22. CASE PromoteCheck
  BY <1>22 DEF PromoteCheck
<1>23. CASE PromoteSwap
  BY <1>23 DEF PromoteSwap
<1>24. CASE PromoteStopPrevious
  BY <1>24, StopInstanceFacts DEF PromoteStopPrevious
<1>25. CASE ResendRecovered
  BY <1>25 DEF ResendRecovered, RestorePsi
<1>26. CASE ProbeStop
  BY <1>26, StopInstanceFacts DEF ProbeStop
<1>27. CASE Register
  BY <1>27 DEF Register
<1>28. CASE WriteBegin
  BY <1>28 DEF WriteBegin
<1>29. CASE Write
  <2> USE <1>29 DEF Write
  <2>1. CASE up' = up /\ cb' = cb
    BY <2>1
  <2>2. CASE up' = [up EXCEPT ![wi] = FALSE] /\ cb' = [cb EXCEPT ![Writer] = "check"]
             /\ command' = command
    <3> USE <2>2
    <3>1. up' \in [Inst -> BOOLEAN] /\ \A i \in Inst : up'[i] => up[i]
      OBVIOUS
    <3>2. cb' \in [Threads -> {"none", "check", "lock", "forward", "request", "set"}]
      OBVIOUS
    <3>3. wpc' \in WriterSteps /\ wpc \notin {"idle", "registered"}
      OBVIOUS
    <3> QED
      BY <3>1, <3>2, <3>3
  <2> QED
    BY <2>1, <2>2
<1>30. CASE WriteRaised
  BY <1>30 DEF WriteRaised
<1>31. CASE WriteRetry
  <2> USE <1>31 DEF WriteRetry
  <2>1. CASE up' = up /\ cb' = cb
    BY <2>1
  <2>2. CASE up' = [up EXCEPT ![active] = FALSE] /\ cb' = [cb EXCEPT ![Writer] = "check"]
             /\ command' = command
    <3> USE <2>2
    <3>1. up' \in [Inst -> BOOLEAN] /\ \A i \in Inst : up'[i] => up[i]
      OBVIOUS
    <3>2. cb' \in [Threads -> {"none", "check", "lock", "forward", "request", "set"}]
      OBVIOUS
    <3>3. wpc' \in WriterSteps /\ wpc \notin {"idle", "registered"}
      OBVIOUS
    <3> QED
      BY <3>1, <3>2, <3>3
  <2> QED
    BY <2>1, <2>2
<1>32. CASE WriteGivesUp
  BY <1>32 DEF WriteGivesUp
<1>33. CASE Answered
  BY <1>33 DEF Answered
<1>34. CASE StopSet
  BY <1>34 DEF StopSet
<1>35. CASE StopTakes
  BY <1>35, StopInstanceFacts DEF StopTakes
<1>36. CASE StopReturns
  BY <1>36 DEF StopReturns
<1>37. ASSUME NEW t \in Inst, Die(t) PROVE MainInv'
  BY <1>37 DEF Die
<1>38. ASSUME NEW t \in Threads, CallbackCheck(t) PROVE MainInv'
  BY <1>38 DEF CallbackCheck
<1>39. ASSUME NEW t \in Threads, CallbackLocked(t) PROVE MainInv'
  BY <1>39 DEF CallbackLocked
<1>40. ASSUME NEW t \in Threads, CallbackForward(t) PROVE MainInv'
  BY <1>40 DEF CallbackForward
<1>41. ASSUME NEW t \in Threads, RequestSwitch(t) PROVE MainInv'
  BY <1>41 DEF RequestSwitch
<1>42. ASSUME NEW t \in Threads, SetSwitch(t) PROVE MainInv'
  BY <1>42 DEF SetSwitch
<1>43. CASE UNCHANGED vars
  BY <1>43
<1> QED
  BY <1>1, <1>2, <1>3, <1>4, <1>5, <1>6, <1>7, <1>8, <1>9, <1>10, <1>11, <1>12, <1>13, <1>14,
     <1>15, <1>16, <1>17, <1>18, <1>19, <1>20, <1>21, <1>22, <1>23, <1>24, <1>25, <1>26, <1>27,
     <1>28, <1>29, <1>30, <1>31, <1>32, <1>33, <1>34, <1>35, <1>36, <1>37, <1>38, <1>39, <1>40,
     <1>41, <1>42, <1>43 DEF Next, ManagerStep, WriterStep, StopStep, Callback

LEMMA InitIInv == ASSUME Init PROVE IInv
<1>1. MainInv
  BY FallbackAssumption DEF Init, MainInv, TypeInv, HandInv, OwnerInv, CommandInv, Steps,
     WriterSteps, Empty, Sweeping, Activating, Probing, None, Threads, Writer
<1>2. BooleanInv
  BY DEF Init, BooleanInv
<1> QED
  BY <1>1, <1>2 DEF IInv

\* The invariant holds in every state: it is inductive.
THEOREM Invariance == Spec => []IInv
<1>1. Init => IInv
  BY InitIInv
<1>2. IInv /\ [Next]_vars => IInv'
  BY NextKeeps, Booleans DEF IInv
<1> QED
  BY <1>1, <1>2, PTL DEF Spec

LEMMA OwnedOf == ASSUME IInv PROVE TransportsOwned
<1>1. TypeOK
  BY DEF IInv, MainInv, BooleanInv, TypeInv, TypeOK
<1>2. NoLeakedTransport
  BY FallbackAssumption DEF IInv, MainInv, HandInv, OwnerInv, Empty, None, NoLeakedTransport
<1> QED
  BY <1>1, <1>2 DEF TransportsOwned

\* Whatever failed in its activations, probes and failovers, an instance that is
\* open when FallbackTransport's manager waits again is the active one.
THEOREM NothingLeaksOut == Spec => []TransportsOwned
<1>1. IInv => TransportsOwned
  BY OwnedOf
<1> QED
  BY <1>1, Invariance, PTL

\* _promote_recovered_transport never takes the transport away from a command that
\* was written to it: it holds the command lock since it asked the guard.
THEOREM CommandsSpared == Spec => PromotionSparesCommands
<1>1. IInv /\ [Next]_vars => [(active' # active /\ mpc = "checked") => wpc # "await"]_vars
  BY DEF IInv, MainInv, CommandInv
<1> QED
  BY <1>1, Invariance, PTL DEF Spec, PromotionSparesCommands

=============================================================================

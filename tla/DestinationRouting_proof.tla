------------------------ MODULE DestinationRouting_proof ------------------------
(***************************************************************************)
(* Proofs about DestinationRouting, for any number of names, of builds and *)
(* of faults and any recordings: between replacements the router serves    *)
(* exactly what is configured, nothing runs on without an owner, no record *)
(* claims to be served once nobody is changing it, and no sink is stopped  *)
(* under a submission.                                                     *)
(*                                                                         *)
(* The invariant follows a replacement name by name.  A name has at most   *)
(* three resources, the configured destination, its candidate and, once    *)
(* committed, the previous one; no sink is two of them.  What each must be *)
(* doing depends on where the replacement is, before, at or past the name, *)
(* and on whether it goes forward, back, or cleans up.                     *)
(***************************************************************************)
EXTENDS DestinationRouting, FiniteSetTheorems, WellFoundedInduction, TLAPS

Phases == {"stage", "detachPrevious", "attachCandidate", "publish", "rollbackCandidate",
           "rollbackPrevious"}
Forward == {"stage", "detachPrevious", "attachCandidate", "publish"}
Back == {"rollbackCandidate", "rollbackPrevious"}

Replacing == main.pc \in Phases
ByMain == op.by = "main"
ByRecorder == op.by = "recorder"

SinkStates == {"new", "running", "dead", "stuck", "stopped"}
Records == [state : {"detached", "starting", "active", "stopping", "failed"}, attached : BOOLEAN]
Calls == [by : {"main", "recorder"}, sink : Sinks, stop : BOOLEAN,
          step : {"start", "cleanup", "barrier", "stop", "returned"}, ok : BOOLEAN]
MainStates == [pc : Phases \cup {"idle", "cleanup", "closing", "runtimeStop", "stopped"},
               at : Names \cup {0}, closing : BOOLEAN,
               change : [Names -> {"unchanged", "added", "removed", "replaced"}],
               candidate : [Names -> Destinations \cup {None}],
               previous : [Names -> Destinations \cup {None}]]
RecorderStates == [pc : {"idle", "attaching", "recording", "abandoning", "detaching",
                         "discarding", "finalizing"},
                   sink : Recordings \cup {None}, closed : BOOLEAN]
Submissions == [held : BOOLEAN, waiting : SUBSET Sinks, current : Sinks \cup {None},
                accepted : BOOLEAN]

TypeInv ==
  /\ running \in BOOLEAN
  /\ record \in [Sinks -> Records] /\ sink \in [Sinks -> SinkStates]
  /\ op \in Calls \cup {NoOp}
  /\ configured \in [Names -> Destinations \cup {None}]
  /\ publishing \in SUBSET Destinations /\ reported \in SUBSET Destinations
  /\ main \in MainStates
  /\ recorder \in RecorderStates
  /\ built \in 0 .. MaxBuilds

HeldInv ==
  /\ submission \in Submissions
  /\ submission.held <=> submission.waiting # {} \/ submission.current # None
  /\ submission.current \notin submission.waiting

\* A sink that was never started, one that is done with, and one that is served.
Alive(s) == sink[s] \in {"running", "dead"}
On(s) == record[s].attached
Untouched(s) == sink[s] = "new" /\ ~On(s)
Gone(s) == ~Alive(s) /\ ~On(s)
Serving(s) == sink[s] # "new" /\ On(s)
Quit(s) == s \notin publishing \ reported

\* Where the main thread can be, and what it changes there.
ShapeInv ==
  /\ running <=> main.pc # "stopped"
  /\ main.pc \in Phases \ {"stage"} => main.at \in Staged
  /\ main.pc \in {"detachPrevious", "rollbackPrevious"} => Change = "replaced"
  /\ main.pc = "cleanup" => main.at \in Outgoing /\ \A i \in Outgoing : main.previous[i] # None
  /\ Replacing => \A i \in Names :
       /\ main.change[i] = "added" => configured[i] = None
       /\ main.change[i] \in {"removed", "replaced"} => configured[i] # None
       /\ main.candidate[i] # None <=> i \in Staged

\* No sink is two resources, and each was built.
OwnInv ==
  /\ \A i \in Names : configured[i] # None => configured[i] <= built
  /\ \A i, j \in Names : configured[i] # None /\ configured[i] = configured[j] => i = j
  /\ Replacing => \A i \in Staged :
       /\ main.candidate[i] <= built
       /\ \A j \in Names : main.candidate[i] # configured[j]
       /\ \A j \in Staged : main.candidate[i] = main.candidate[j] => i = j
  /\ main.pc = "cleanup" => \A i \in Outgoing :
       /\ main.previous[i] <= built
       /\ \A j \in Names : main.previous[i] # configured[j]
       /\ \A j \in Outgoing : main.previous[i] = main.previous[j] => i = j

\* Whose call is under way, and about which sink.
CallInv ==
  /\ ByMain =>
       \/ /\ main.pc = "detachPrevious" /\ op.sink = configured[main.at]
          /\ ~op.stop /\ op.step \in {"barrier", "returned"}
       \/ /\ main.pc = "attachCandidate" /\ op.sink = Candidate
          /\ ~op.stop /\ op.step \in {"start", "cleanup", "returned"}
       \/ /\ main.pc = "rollbackCandidate" /\ op.sink = Candidate
          /\ op.stop /\ op.step \in {"barrier", "stop", "returned"}
       \/ /\ main.pc = "rollbackPrevious" /\ op.sink = configured[main.at]
          /\ ~op.stop /\ op.step \in {"start", "returned"}
       \/ /\ main.pc = "cleanup" /\ Change = "removed" /\ op.sink = Previous
          /\ op.stop /\ op.step \in {"barrier", "stop", "returned"}
  /\ ByRecorder =>
       /\ op.sink = recorder.sink /\ ~op.stop
       /\ \/ recorder.pc = "attaching" /\ op.step \in {"start", "cleanup", "returned"}
          \/ recorder.pc \in {"abandoning", "detaching"} /\ op.step \in {"barrier", "returned"}

\* What the step of the call makes of its sink.
StepInv ==
  op # NoOp =>
    /\ op.step = "start" =>
         /\ On(op.sink)
         /\ main.pc = "rollbackPrevious" \/ ByRecorder \/ sink[op.sink] = "new"
         /\ ByRecorder => sink[op.sink] = "new"
    /\ op.step = "cleanup" => Untouched(op.sink)
    /\ op.step \in {"barrier", "stop"} => ~On(op.sink) /\ (op.stop => sink[op.sink] # "new")
    /\ op.step = "returned" =>
         /\ op.stop => Gone(op.sink)
         /\ ByRecorder /\ recorder.pc # "attaching" => ~On(op.sink)
         /\ ByMain /\ main.pc = "detachPrevious" => ~On(op.sink)
         /\ ByMain /\ main.pc = "rollbackPrevious" => On(op.sink)
         /\ (ByMain /\ main.pc = "attachCandidate") \/ (ByRecorder /\ recorder.pc = "attaching") =>
              IF op.ok THEN Serving(op.sink) ELSE Untouched(op.sink)

\* The destination configured for name i is detached for its replacement.
PreviousDetached(i) ==
  /\ Replacing /\ main.change[i] = "replaced"
  /\ \/ i < main.at
     \/ i = main.at /\ main.pc \in {"stage", "attachCandidate", "publish", "rollbackCandidate"}
     \/ i = main.at /\ main.pc = "detachPrevious" /\ ByMain
     \/ i = main.at /\ main.pc = "rollbackPrevious" /\ ~ByMain

ConfiguredOK(i, s) == s # None => sink[s] # "new" /\ (On(s) <=> ~PreviousDetached(i))

\* The candidate c of name i: ahead of the replacement, behind it, or in its hands.
CandidateOK(i, c) ==
  /\ i > main.at =>
       IF main.pc \in Back THEN Gone(c) /\ Quit(c) ELSE Untouched(c) /\ c \notin publishing
  /\ i < main.at => Serving(c)
  /\ i = main.at =>
       /\ main.pc \in {"stage", "publish"} => Serving(c)
       /\ main.pc = "detachPrevious" \/ (main.pc = "attachCandidate" /\ ~ByMain) => Untouched(c)
       /\ main.pc \in {"detachPrevious", "attachCandidate", "publish"} => c \notin publishing
       /\ main.pc = "rollbackCandidate" /\ ~ByMain => Untouched(c) \/ Serving(c)
       /\ main.pc = "rollbackCandidate" /\ ByMain => Quit(c)
       /\ main.pc = "rollbackPrevious" => Gone(c) /\ Quit(c)

\* The destination s that name i had before the commit, or before the shutdown.
PreviousOK(i, s) ==
  /\ i <= main.at => sink[s] # "new"
  /\ i > main.at => ~Alive(s) /\ Quit(s)
  /\ i = main.at /\ ByMain => Quit(s)
  /\ On(s) <=> main.change[i] = "removed" /\ (i < main.at \/ (i = main.at /\ ~ByMain))

ConfiguredInv == \A i \in Names : ConfiguredOK(i, configured[i])
CandidateInv == Replacing => \A i \in Staged : CandidateOK(i, main.candidate[i])
PreviousInv == main.pc = "cleanup" => \A i \in Outgoing : PreviousOK(i, main.previous[i])

\* A destination that does anything is the resource of some name.
Owned(d) ==
  \/ \E i \in Names : d = configured[i]
  \/ Replacing /\ \E i \in Staged : d = main.candidate[i]
  \/ main.pc = "cleanup" /\ \E i \in Outgoing : d = main.previous[i]

DestinationInv ==
  \A d \in Destinations :
    /\ d > built => Untouched(d) /\ d \notin publishing
    /\ On(d) \/ Alive(d) \/ ~Quit(d) => Owned(d)

RecorderInv ==
  /\ recorder.pc # "idle" => recorder.sink # None
  /\ recorder.pc = "recording" => Serving(recorder.sink)
  /\ recorder.pc = "attaching" /\ ~ByRecorder => Untouched(recorder.sink)
  /\ recorder.pc \in {"idle", "abandoning", "discarding", "finalizing"} /\ recorder.sink # None =>
       ~On(recorder.sink)
  /\ \A s \in Recordings : s # recorder.sink => Gone(s)

\* A submission that is under way visits a sink that is attached, or whose call
\* waits for it, or that never started.
Visiting(s) == s \in submission.waiting \/ s = submission.current

SubmitInv ==
  \A s \in Sinks : Visiting(s) =>
    \/ On(s)
    \/ op # NoOp /\ s = op.sink /\ op.step = "barrier"
    \/ sink[s] = "new" /\ record[s].state = "failed"

\* What the record of a sink that is not attached says.
TruthInv ==
  /\ \A s \in Sinks : ~On(s) /\ s # op.sink => record[s].state \in {"detached", "failed"}
  /\ op # NoOp =>
       /\ op.step = "cleanup" => record[op.sink].state = "failed"
       /\ op.step = "returned" /\ ~On(op.sink) => record[op.sink].state \in {"detached", "failed"}
       /\ op.step = "barrier" =>
            /\ record[op.sink].state \in {"detached", "failed"} \cup (IF op.stop THEN {"stopping"} ELSE {})
            /\ Visiting(op.sink) => record[op.sink].state # "failed"

IInv ==
  /\ TypeInv /\ HeldInv /\ ShapeInv /\ OwnInv /\ CallInv /\ StepInv /\ ConfiguredInv
  /\ CandidateInv /\ PreviousInv /\ DestinationInv /\ RecorderInv /\ SubmitInv /\ TruthInv

\* ------------------------------------------------------------- sets of numbers
\* A nonempty set of numbers has a least member.
LEMMA MinFacts ==
  ASSUME NEW T, T \subseteq Nat, T # {}
  PROVE  Min(T) \in T /\ \A y \in T : Min(T) <= y
<1> DEFINE R == OpToRel(<, Nat)
<1>1. IsWellFoundedOn(R, Nat)
  BY NatLessThanWellFounded
<1>2. \A x, y \in Nat : x < y => <<x, y>> \in R
  BY DEF OpToRel
<1> HIDE DEF R
<1>3. PICK x \in T : \A y \in T : ~ (<<y, x>> \in R)
  BY <1>1, WFMin
<1>4. ASSUME NEW y \in T PROVE x <= y
  <2>1. x \in Nat /\ y \in Nat /\ ~ (y < x)
    BY <1>2, <1>3
  <2> QED
    BY <2>1
<1> QED
  BY <1>4 DEF Min

\* And so a bounded one has a greatest.
LEMMA MaxFacts ==
  ASSUME NEW n \in Nat, NEW T, T \subseteq 0 .. n, T # {}
  PROVE  Max(T) \in T /\ \A y \in T : y <= Max(T)
<1> DEFINE U == {n - y : y \in T}
<1>1. U \subseteq Nat /\ U # {}
  <2>1. \A y \in T : n - y \in Nat
    OBVIOUS
  <2> QED
    BY <2>1
<1>2. Min(U) \in U /\ \A y \in U : Min(U) <= y
  BY <1>1, MinFacts
<1>3. PICK x \in T : Min(U) = n - x
  BY <1>2
<1>4. ASSUME NEW y \in T PROVE y <= x
  <2>1. n - y \in U
    OBVIOUS
  <2>2. n - x <= n - y
    BY <1>2, <1>3, <2>1
  <2> QED
    BY <2>2
<1>5. \A y \in T : x >= y
  BY <1>4
<1> QED
  BY <1>5 DEF Max

\* Sinks of the two kinds, and that None is no sink.
LEMMA SinkFacts ==
  /\ Destinations \subseteq Sinks /\ Recordings \subseteq Sinks /\ Destinations \cap Recordings = {}
  /\ None \notin Sinks /\ Destinations \subseteq Nat /\ Names \subseteq Nat /\ 0 \notin Names
  /\ Sinks = Destinations \cup Recordings
  BY RoutingAssumption DEF Sinks, Destinations, Names

\* ---------------------------------------------------------------------- frames
\* What a step leaves as it was, of a sink and of a resource.
Same(s) ==
  /\ record'[s].attached = record[s].attached
  /\ sink'[s] = "new" <=> sink[s] = "new"
  /\ sink'[s] \in {"running", "dead"} <=> sink[s] \in {"running", "dead"}

SameResource(d) ==
  /\ Same(d)
  /\ d \in publishing' <=> d \in publishing
  /\ d \in reported' <=> d \in reported

LEMMA SameFacts ==
  ASSUME NEW s, Same(s)
  PROVE  /\ On(s)' <=> On(s)
         /\ Untouched(s)' <=> Untouched(s)
         /\ Gone(s)' <=> Gone(s)
         /\ Serving(s)' <=> Serving(s)
         /\ Alive(s)' <=> Alive(s)
         /\ (sink[s] # "new")' <=> sink[s] # "new"
  BY DEF Same, On, Untouched, Gone, Serving, Alive

\* The members of a name's resources.
LEMMA ResourceFacts ==
  ASSUME IInv, NEW i \in Names
  PROVE  /\ configured[i] \in Destinations \cup {None}
         /\ main.candidate[i] \in Destinations \cup {None}
         /\ main.previous[i] \in Destinations \cup {None}
         /\ Replacing /\ i \in Staged => main.candidate[i] \in Destinations
         /\ main.pc = "cleanup" /\ i \in Outgoing => main.previous[i] \in Destinations
  BY DEF IInv, TypeInv, MainStates, ShapeInv

\* The main thread's side is as it was when its sinks are, and its call is.
LEMMA RecorderSide ==
  ASSUME IInv, UNCHANGED <<main, configured, built, publishing, reported, running>>,
         \A d \in Destinations : Same(d), ByMain' <=> ByMain
  PROVE  ShapeInv' /\ OwnInv' /\ ConfiguredInv' /\ CandidateInv' /\ PreviousInv' /\ DestinationInv'
<1>1. Replacing' = Replacing /\ Staged' = Staged /\ Outgoing' = Outgoing
  BY DEF Replacing, Staged, Outgoing
<1>2. ShapeInv' /\ OwnInv'
  BY <1>1 DEF IInv, ShapeInv, OwnInv, Change
<1>3. \A i \in Names : PreviousDetached(i)' <=> PreviousDetached(i)
  BY <1>1 DEF PreviousDetached
<1>4. ConfiguredInv'
  <2>1. ASSUME NEW i \in Names, NEW s, s = configured[i] PROVE ConfiguredOK(i, s)'
    <3>1. ConfiguredOK(i, s) /\ s \in Destinations \cup {None}
      BY <2>1, ResourceFacts DEF IInv, ConfiguredInv
    <3>2. CASE s = None
      BY <3>2 DEF ConfiguredOK
    <3>3. CASE s \in Destinations
      BY <1>3, <3>1, <3>3, SameFacts DEF ConfiguredOK
    <3> QED
      BY <3>1, <3>2, <3>3
  <2> QED
    BY <2>1 DEF ConfiguredInv
<1>5. CandidateInv'
  <2>1. ASSUME Replacing, NEW i \in Staged, NEW c, c = main.candidate[i] PROVE CandidateOK(i, c)'
    <3>1. CandidateOK(i, c) /\ c \in Destinations
      BY <2>1, ResourceFacts DEF IInv, CandidateInv, Staged
    <3>2. Same(c)
      BY <3>1
    <3> QED
      BY <3>1, <3>2, SameFacts DEF CandidateOK, Quit
  <2> QED
    BY <1>1, <2>1 DEF CandidateInv
<1>6. PreviousInv'
  <2>1. ASSUME main.pc = "cleanup", NEW i \in Outgoing, NEW s, s = main.previous[i]
        PROVE  PreviousOK(i, s)'
    <3>1. PreviousOK(i, s) /\ s \in Destinations
      BY <2>1, ResourceFacts DEF IInv, PreviousInv, Outgoing
    <3>2. Same(s)
      BY <3>1
    <3> QED
      BY <3>1, <3>2, SameFacts DEF PreviousOK, Quit
  <2> QED
    BY <1>1, <2>1 DEF PreviousInv
<1>7. DestinationInv'
  <2>1. \A d : Owned(d)' <=> Owned(d)
    BY <1>1 DEF Owned
  <2>2. ASSUME NEW d \in Destinations
        PROVE  /\ d > built => Untouched(d)' /\ d \notin publishing
               /\ On(d)' \/ Alive(d)' \/ ~Quit(d)' => Owned(d)'
    <3>1. /\ d > built => Untouched(d) /\ d \notin publishing
          /\ On(d) \/ Alive(d) \/ ~Quit(d) => Owned(d)
      BY DEF IInv, DestinationInv
    <3>2. Quit(d)' <=> Quit(d)
      BY DEF Quit
    <3> QED
      BY <2>1, <3>1, <3>2, SameFacts
  <2> QED
    BY <2>2 DEF DestinationInv
<1> QED
  BY <1>2, <1>4, <1>5, <1>6, <1>7

\* The recorder's side is as it was when its sinks are, and its call is.
LEMMA MainSide ==
  ASSUME IInv, UNCHANGED recorder, \A s \in Recordings : Same(s), ByRecorder' <=> ByRecorder
  PROVE  RecorderInv'
<1>1. recorder.sink \in Recordings \cup {None} /\ (recorder.pc # "idle" => recorder.sink \in Recordings)
  BY DEF IInv, TypeInv, RecorderStates, RecorderInv
<1>2. PICK r : r = recorder.sink
  OBVIOUS
<1>3. r \in Recordings => (On(r)' <=> On(r)) /\ (Serving(r)' <=> Serving(r)) /\ (Untouched(r)' <=> Untouched(r))
  BY SameFacts
<1>4. \A s \in Recordings : s # r => Gone(s)'
  BY <1>2, SameFacts DEF IInv, RecorderInv
<1>5. /\ recorder.pc # "idle" => r # None
      /\ recorder.pc = "recording" => Serving(r)
      /\ recorder.pc = "attaching" /\ ~ByRecorder => Untouched(r)
      /\ recorder.pc \in {"idle", "abandoning", "discarding", "finalizing"} /\ r # None => ~On(r)
  BY <1>2 DEF IInv, RecorderInv
<1>6. /\ recorder.pc # "idle" => r # None
      /\ recorder.pc = "recording" => Serving(r)'
      /\ recorder.pc = "attaching" /\ ~ByRecorder' => Untouched(r)'
      /\ recorder.pc \in {"idle", "abandoning", "discarding", "finalizing"} /\ r # None => ~On(r)'
  BY <1>1, <1>2, <1>3, <1>5
<1>7. recorder' = recorder /\ r = recorder'.sink
  BY <1>2
<1> QED
  BY <1>4, <1>6, <1>7 DEF RecorderInv, Serving, Untouched, On, Gone, Alive

\* The call under way, and whose sink it is about.
LEMMA OpFacts ==
  ASSUME IInv
  PROVE  /\ op = NoOp \/ op \in Calls
         /\ op = NoOp => ~ByMain /\ ~ByRecorder /\ op.step = "none" /\ op.sink = None /\ ~op.stop
         /\ op # NoOp => op \in Calls /\ op.sink \in Sinks /\ op.step # "none" /\ (ByMain <=> ~ByRecorder)
         /\ op # NoOp => op.step \in {"start", "cleanup", "barrier", "stop", "returned"}
         /\ ByMain => op \in Calls /\ main.at \in Names /\ op.sink \in Destinations
         /\ ByRecorder => op \in Calls /\ op.sink \in Recordings /\ op.sink = recorder.sink
         /\ op.step # "none" => op # NoOp
<1>1. op \in Calls => op.by \in {"main", "recorder"} /\ op.sink \in Sinks /\ op.step # "none"
        /\ op.step \in {"start", "cleanup", "barrier", "stop", "returned"}
  BY DEF Calls
<1>2. op \in Calls => op # NoOp
  BY <1>1 DEF NoOp
<1>3. op \in Calls \/ op = NoOp
  BY DEF IInv, TypeInv
<1>4. op = NoOp => ~ByMain /\ ~ByRecorder /\ op.step = "none" /\ op.sink = None /\ ~op.stop
  BY DEF NoOp, ByMain, ByRecorder
<1>5. op \in Calls => (ByMain <=> ~ByRecorder)
  BY <1>1 DEF ByMain, ByRecorder
<1>6. ByRecorder => op.sink \in Recordings /\ op.sink = recorder.sink
  <2>1. ByRecorder => op.sink = recorder.sink /\ op \in Calls
    BY <1>3, <1>4 DEF IInv, CallInv
  <2>2. recorder.sink \in Recordings \cup {None}
    BY DEF IInv, TypeInv, RecorderStates
  <2> QED
    BY <1>1, <2>1, <2>2, SinkFacts
<1>7. ByMain => main.at \in Names /\ op.sink \in Destinations
  <2> SUFFICES ASSUME ByMain PROVE main.at \in Names /\ op.sink \in Destinations
    OBVIOUS
  <2>1. op \in Calls /\ op.sink # None
    BY <1>1, <1>3, <1>4, SinkFacts
  <2>2. main.pc \in {"detachPrevious", "attachCandidate", "rollbackCandidate", "rollbackPrevious", "cleanup"}
    BY DEF IInv, CallInv
  <2>3. main.at \in Names
    BY <2>2 DEF IInv, ShapeInv, Phases, Staged, Outgoing
  <2>4. op.sink \in {configured[main.at], Candidate, Previous}
    BY DEF IInv, CallInv
  <2> QED
    BY <2>1, <2>3, <2>4, ResourceFacts DEF Candidate, Previous
<1> QED
  BY <1>1, <1>2, <1>3, <1>4, <1>5, <1>6, <1>7

\* The name the main thread is at.
LEMMA AtFacts ==
  ASSUME IInv
  PROVE  /\ main.at \in Names \cup {0} /\ main \in MainStates
         /\ Replacing /\ main.pc # "stage" =>
              main.at \in Names /\ main.at \in Staged /\ Candidate \in Destinations
         /\ main.pc = "cleanup" => main.at \in Names /\ main.at \in Outgoing /\ Previous \in Destinations
         /\ main.pc \in {"detachPrevious", "rollbackPrevious"} => configured[main.at] \in Destinations
<1>1. main.at \in Names \cup {0} /\ main \in MainStates
  BY DEF IInv, TypeInv, MainStates
<1>2. Replacing /\ main.pc # "stage" => main.at \in Names /\ main.at \in Staged
  BY DEF IInv, ShapeInv, Staged, Replacing
<1>3. main.pc = "cleanup" => main.at \in Names /\ main.at \in Outgoing
  BY DEF IInv, ShapeInv, Outgoing
<1>4. main.pc \in {"detachPrevious", "rollbackPrevious"} => Replacing /\ configured[main.at] # None
  BY <1>2 DEF IInv, ShapeInv, Replacing, Phases, Change
<1> QED
  BY <1>1, <1>2, <1>3, <1>4, ResourceFacts DEF Candidate, Previous, Replacing

\* The main thread does something to sink x, a resource of the name it is at: the
\* other names do not notice.
LEMMA OtherNames ==
  ASSUME IInv, UNCHANGED <<main, configured, built, running>>, Replacing \/ main.pc = "cleanup",
         main.at \in Names, NEW x \in Destinations,
         \/ x = configured[main.at]
         \/ Replacing /\ main.at \in Staged /\ x = Candidate
         \/ main.pc = "cleanup" /\ main.at \in Outgoing /\ x = Previous,
         \A d \in Destinations : d # x => SameResource(d)
  PROVE  /\ ShapeInv' /\ OwnInv' /\ DestinationInv'
         /\ \A i \in Names : i # main.at => ConfiguredOK(i, configured[i])'
         /\ Replacing => \A i \in Staged : i # main.at => CandidateOK(i, main.candidate[i])'
         /\ main.pc = "cleanup" => \A i \in Outgoing : i # main.at => PreviousOK(i, main.previous[i])'
<1>1. Replacing' = Replacing /\ Staged' = Staged /\ Outgoing' = Outgoing
  BY DEF Replacing, Staged, Outgoing
<1>2. ShapeInv' /\ OwnInv'
  BY <1>1 DEF IInv, ShapeInv, OwnInv, Change
<1>3. Owned(x) /\ x <= built
  <2>1. x # None
    BY SinkFacts
  <2>2. CASE x = configured[main.at]
    BY <2>1, <2>2 DEF IInv, OwnInv, Owned
  <2>3. CASE Replacing /\ main.at \in Staged /\ x = Candidate
    BY <2>3 DEF IInv, OwnInv, Owned, Candidate
  <2>4. CASE main.pc = "cleanup" /\ main.at \in Outgoing /\ x = Previous
    BY <2>4 DEF IInv, OwnInv, Owned, Previous
  <2> QED
    BY <2>2, <2>3, <2>4
<1>4. \A i \in Names : i # main.at =>
        /\ configured[i] # x
        /\ Replacing /\ i \in Staged => main.candidate[i] # x
        /\ main.pc = "cleanup" /\ i \in Outgoing => main.previous[i] # x
  <2>1. x # None
    BY SinkFacts
  <2>2. CASE x = configured[main.at]
    BY <2>1, <2>2 DEF IInv, OwnInv
  <2>3. CASE Replacing /\ main.at \in Staged /\ x = Candidate
    <3>1. main.pc # "cleanup"
      BY <2>3 DEF Replacing, Phases
    <3> QED
      BY <2>3, <3>1 DEF IInv, OwnInv, Candidate
  <2>4. CASE main.pc = "cleanup" /\ main.at \in Outgoing /\ x = Previous
    <3>1. ~Replacing
      BY <2>4 DEF Replacing, Phases
    <3> QED
      BY <2>4, <3>1 DEF IInv, OwnInv, Previous
  <2> QED
    BY <2>2, <2>3, <2>4
<1>5. ASSUME NEW d, SameResource(d)
      PROVE  /\ On(d)' <=> On(d)
             /\ Untouched(d)' <=> Untouched(d)
             /\ Gone(d)' <=> Gone(d)
             /\ Serving(d)' <=> Serving(d)
             /\ Alive(d)' <=> Alive(d)
             /\ Quit(d)' <=> Quit(d)
             /\ (sink[d] # "new")' <=> sink[d] # "new"
             /\ d \in publishing' <=> d \in publishing
  BY <1>5, SameFacts DEF SameResource, Quit
<1>6. ASSUME NEW i \in Names, i # main.at, NEW s, s = configured[i] PROVE ConfiguredOK(i, s)'
  <2>1. ConfiguredOK(i, s) /\ s \in Destinations \cup {None} /\ s # x
    BY <1>4, <1>6, ResourceFacts DEF IInv, ConfiguredInv
  <2>2. PreviousDetached(i)' <=> PreviousDetached(i)
    BY <1>1, <1>6 DEF PreviousDetached
  <2>3. CASE s = None
    BY <2>3 DEF ConfiguredOK
  <2>4. CASE s \in Destinations
    <3>1. (On(s)' <=> On(s)) /\ ((sink[s] # "new")' <=> sink[s] # "new")
      BY <1>5, <2>1, <2>4
    <3> QED
      BY <2>1, <2>2, <3>1 DEF ConfiguredOK
  <2> QED
    BY <2>1, <2>3, <2>4
<1>7. ASSUME Replacing, NEW i \in Staged, i # main.at, NEW c, c = main.candidate[i]
      PROVE  CandidateOK(i, c)'
  <2>1. CandidateOK(i, c) /\ c \in Destinations /\ c # x
    BY <1>4, <1>7, ResourceFacts DEF IInv, CandidateInv, Staged
  <2>2. SameResource(c)
    BY <2>1
  <2> QED
    BY <1>5, <1>7, <2>1, <2>2 DEF CandidateOK
<1>8. ASSUME main.pc = "cleanup", NEW i \in Outgoing, i # main.at, NEW s, s = main.previous[i]
      PROVE  PreviousOK(i, s)'
  <2>1. PreviousOK(i, s) /\ s \in Destinations /\ s # x
    BY <1>4, <1>8, ResourceFacts DEF IInv, PreviousInv, Outgoing
  <2>2. SameResource(s)
    BY <2>1
  <2> QED
    BY <1>5, <1>8, <2>1, <2>2 DEF PreviousOK
<1>9. DestinationInv'
  <2>1. \A d : Owned(d)' <=> Owned(d)
    BY <1>1 DEF Owned
  <2>2. ASSUME NEW d \in Destinations
        PROVE  /\ d > built => Untouched(d)' /\ d \notin publishing'
               /\ On(d)' \/ Alive(d)' \/ ~Quit(d)' => Owned(d)'
    <3>1. CASE d = x
      <4>1. built \in Nat /\ d \in Nat
        BY SinkFacts DEF IInv, TypeInv, Destinations
      <4> QED
        BY <1>3, <2>1, <3>1, <4>1
    <3>2. CASE d # x
      <4>1. /\ d > built => Untouched(d) /\ d \notin publishing
            /\ On(d) \/ Alive(d) \/ ~Quit(d) => Owned(d)
        BY DEF IInv, DestinationInv
      <4> QED
        BY <1>5, <2>1, <3>2, <4>1
    <3> QED
      BY <3>1, <3>2
  <2> QED
    BY <2>2 DEF DestinationInv
<1>10. \A i \in Names : i # main.at => ConfiguredOK(i, configured[i])'
  BY <1>6
<1>11. Replacing => \A i \in Staged : i # main.at => CandidateOK(i, main.candidate[i])'
  BY <1>7
<1>12. main.pc = "cleanup" => \A i \in Outgoing : i # main.at => PreviousOK(i, main.previous[i])'
  BY <1>8
<1> QED
  BY <1>2, <1>9, <1>10, <1>11, <1>12

\* What the main thread's side consists of.
MainInv == ShapeInv /\ OwnInv /\ ConfiguredInv /\ CandidateInv /\ PreviousInv /\ DestinationInv

\* It does something to the candidate of the name it is at.
LEMMA CandidateStep ==
  ASSUME IInv, UNCHANGED <<main, configured, built, running>>, Replacing, main.pc # "stage",
         \A d \in Destinations : d # Candidate => SameResource(d),
         PreviousDetached(main.at)' <=> PreviousDetached(main.at),
         \A i, c : i = main.at /\ c = Candidate => CandidateOK(i, c)'
  PROVE  MainInv'
<1>1. main.at \in Names /\ main.at \in Staged /\ Candidate \in Destinations /\ main.pc # "cleanup"
  BY AtFacts DEF Replacing, Phases
<1>2. /\ ShapeInv' /\ OwnInv' /\ DestinationInv'
      /\ \A i \in Names : i # main.at => ConfiguredOK(i, configured[i])'
      /\ Replacing => \A i \in Staged : i # main.at => CandidateOK(i, main.candidate[i])'
  BY <1>1, OtherNames
<1>3. ASSUME NEW i, i = main.at, NEW s, s = configured[i] PROVE ConfiguredOK(i, s)'
  <2>1. ConfiguredOK(i, s) /\ s \in Destinations \cup {None}
    BY <1>1, <1>3, ResourceFacts DEF IInv, ConfiguredInv
  <2>2. s # Candidate
    BY <1>1, <1>3 DEF IInv, OwnInv, Candidate
  <2>3. s \in Destinations => (On(s)' <=> On(s)) /\ ((sink[s] # "new")' <=> sink[s] # "new")
    BY <2>2, SameFacts DEF SameResource
  <2>4. PreviousDetached(i)' <=> PreviousDetached(i)
    BY <1>3
  <2> QED
    BY <2>1, <2>3, <2>4 DEF ConfiguredOK
<1>4. ConfiguredInv'
  BY <1>2, <1>3 DEF ConfiguredInv
<1>5. ASSUME NEW i \in Staged, NEW c, c = main.candidate[i] PROVE CandidateOK(i, c)'
  <2>1. CASE i = main.at
    BY <1>5, <2>1 DEF Candidate
  <2>2. CASE i # main.at
    BY <1>2, <1>5, <2>2
  <2> QED
    BY <2>1, <2>2
<1>6. CandidateInv'
  BY <1>5 DEF CandidateInv, Staged
<1>7. PreviousInv'
  BY <1>1 DEF PreviousInv
<1> QED
  BY <1>2, <1>4, <1>6, <1>7 DEF MainInv

\* It does something to the configured destination of the name it is at.
LEMMA ConfiguredStep ==
  ASSUME IInv, UNCHANGED <<main, configured, built, running>>, Replacing, main.pc # "stage",
         configured[main.at] # None,
         \A d \in Destinations : d # configured[main.at] => SameResource(d),
         \A i, s : i = main.at /\ s = configured[i] => ConfiguredOK(i, s)',
         \A i, c : i = main.at /\ c = Candidate /\ SameResource(c) => CandidateOK(i, c)'
  PROVE  MainInv'
<1>1. main.at \in Names /\ main.at \in Staged /\ Candidate \in Destinations /\ main.pc # "cleanup"
  BY AtFacts DEF Replacing, Phases
<1>2. configured[main.at] \in Destinations /\ Candidate # configured[main.at]
  BY <1>1, ResourceFacts DEF IInv, OwnInv, Candidate
<1>3. /\ ShapeInv' /\ OwnInv' /\ DestinationInv'
      /\ \A i \in Names : i # main.at => ConfiguredOK(i, configured[i])'
      /\ Replacing => \A i \in Staged : i # main.at => CandidateOK(i, main.candidate[i])'
  BY <1>1, <1>2, OtherNames
<1>4. ASSUME NEW i \in Names, NEW s, s = configured[i] PROVE ConfiguredOK(i, s)'
  <2>1. CASE i = main.at
    BY <1>4, <2>1
  <2>2. CASE i # main.at
    BY <1>3, <1>4, <2>2
  <2> QED
    BY <2>1, <2>2
<1>5. ConfiguredInv'
  BY <1>4 DEF ConfiguredInv
<1>6. ASSUME NEW i \in Staged, NEW c, c = main.candidate[i] PROVE CandidateOK(i, c)'
  <2>1. CASE i = main.at
    BY <1>1, <1>2, <1>6, <2>1 DEF Candidate
  <2>2. CASE i # main.at
    BY <1>3, <1>6, <2>2
  <2> QED
    BY <2>1, <2>2
<1>7. CandidateInv'
  BY <1>6 DEF CandidateInv, Staged
<1>8. PreviousInv'
  BY <1>1 DEF PreviousInv
<1> QED
  BY <1>3, <1>5, <1>7, <1>8 DEF MainInv

\* It does something to the previous destination of the name it is at.
LEMMA PreviousStep ==
  ASSUME IInv, UNCHANGED <<main, configured, built, running>>, main.pc = "cleanup",
         \A d \in Destinations : d # Previous => SameResource(d),
         \A i, s : i = main.at /\ s = Previous => PreviousOK(i, s)'
  PROVE  MainInv'
<1>1. main.at \in Names /\ main.at \in Outgoing /\ Previous \in Destinations /\ ~Replacing
  BY AtFacts DEF Replacing, Phases
<1>2. /\ ShapeInv' /\ OwnInv' /\ DestinationInv'
      /\ \A i \in Names : i # main.at => ConfiguredOK(i, configured[i])'
      /\ \A i \in Outgoing : i # main.at => PreviousOK(i, main.previous[i])'
  BY <1>1, OtherNames
<1>3. ASSUME NEW i, i = main.at, NEW s, s = configured[i] PROVE ConfiguredOK(i, s)'
  <2>1. ConfiguredOK(i, s) /\ s \in Destinations \cup {None}
    BY <1>1, <1>3, ResourceFacts DEF IInv, ConfiguredInv
  <2>2. s # Previous
    BY <1>1, <1>3 DEF IInv, OwnInv, Previous
  <2>3. s \in Destinations => (On(s)' <=> On(s)) /\ ((sink[s] # "new")' <=> sink[s] # "new")
    BY <2>2, SameFacts DEF SameResource
  <2>4. ~PreviousDetached(i) /\ ~PreviousDetached(i)'
    BY <1>1 DEF PreviousDetached, Replacing
  <2> QED
    BY <2>1, <2>3, <2>4 DEF ConfiguredOK
<1>4. ConfiguredInv'
  BY <1>2, <1>3 DEF ConfiguredInv
<1>5. ASSUME NEW i \in Outgoing, NEW s, s = main.previous[i] PROVE PreviousOK(i, s)'
  <2>1. CASE i = main.at
    BY <1>5, <2>1 DEF Previous
  <2>2. CASE i # main.at
    BY <1>2, <1>5, <2>2
  <2> QED
    BY <2>1, <2>2
<1>6. PreviousInv'
  BY <1>5 DEF PreviousInv, Outgoing
<1>7. CandidateInv'
  BY <1>1 DEF CandidateInv, Replacing
<1> QED
  BY <1>2, <1>4, <1>6, <1>7 DEF MainInv

\* A step that leaves every sink of the main thread as it was.
LEMMA MainKept ==
  ASSUME IInv, UNCHANGED <<main, configured, built, publishing, reported, running>>,
         \A d \in Destinations : Same(d), ByMain' <=> ByMain
  PROVE  MainInv'
  BY RecorderSide DEF MainInv

\* The call is as it was, and its sink is.
LEMMA CallKept ==
  ASSUME IInv, UNCHANGED <<op, main, configured, recorder>>, op # NoOp => Same(op.sink)
  PROVE  CallInv' /\ StepInv'
<1>1. CallInv'
  BY DEF IInv, CallInv, ByMain, ByRecorder, Change, Candidate, Previous
<1>2. PICK x : x = op.sink
  OBVIOUS
<1>3. op # NoOp => /\ On(x)' <=> On(x)
                   /\ Untouched(x)' <=> Untouched(x)
                   /\ Gone(x)' <=> Gone(x)
                   /\ Serving(x)' <=> Serving(x)
                   /\ (sink[x] # "new")' <=> sink[x] # "new"
  BY <1>2, SameFacts
<1>4. (ByMain' <=> ByMain) /\ (ByRecorder' <=> ByRecorder)
  BY DEF ByMain, ByRecorder
<1>5. StepInv'
  <2> SUFFICES ASSUME op # NoOp
               PROVE  /\ op.step = "start" =>
                           /\ On(x)'
                           /\ main.pc = "rollbackPrevious" \/ ByRecorder \/ (sink[x] = "new")'
                           /\ ByRecorder => (sink[x] = "new")'
                      /\ op.step = "cleanup" => Untouched(x)'
                      /\ op.step \in {"barrier", "stop"} => ~On(x)' /\ (op.stop => (sink[x] # "new")')
                      /\ op.step = "returned" =>
                           /\ op.stop => Gone(x)'
                           /\ ByRecorder /\ recorder.pc # "attaching" => ~On(x)'
                           /\ ByMain /\ main.pc = "detachPrevious" => ~On(x)'
                           /\ ByMain /\ main.pc = "rollbackPrevious" => On(x)'
                           /\ (ByMain /\ main.pc = "attachCandidate") \/ (ByRecorder /\ recorder.pc = "attaching") =>
                                IF op.ok THEN Serving(x)' ELSE Untouched(x)'
    BY <1>2, <1>4 DEF StepInv, On, Untouched, Gone, Alive, Serving
  <2> HIDE DEF On, Untouched, Gone, Serving
  <2>1. /\ op.step = "start" =>
             /\ On(x)
             /\ main.pc = "rollbackPrevious" \/ ByRecorder \/ sink[x] = "new"
             /\ ByRecorder => sink[x] = "new"
        /\ op.step = "cleanup" => Untouched(x)
        /\ op.step \in {"barrier", "stop"} => ~On(x) /\ (op.stop => sink[x] # "new")
        /\ op.step = "returned" =>
             /\ op.stop => Gone(x)
             /\ ByRecorder /\ recorder.pc # "attaching" => ~On(x)
             /\ ByMain /\ main.pc = "detachPrevious" => ~On(x)
             /\ ByMain /\ main.pc = "rollbackPrevious" => On(x)
             /\ (ByMain /\ main.pc = "attachCandidate") \/ (ByRecorder /\ recorder.pc = "attaching") =>
                  IF op.ok THEN Serving(x) ELSE Untouched(x)
    BY <1>2 DEF IInv, StepInv
  <2> QED
    BY <1>3, <2>1
<1> QED
  BY <1>1, <1>5

\* ------------------------------------------------------------- submission steps
\* What the records say, and what a submission may meet, when only sinks that were
\* started change.
LEMMA RecordsKept ==
  ASSUME IInv, UNCHANGED <<record, submission, op>>, \A s \in Sinks : sink[s] = "new" => sink'[s] = "new"
  PROVE  SubmitInv' /\ TruthInv'
<1>1. SubmitInv'
  BY DEF IInv, SubmitInv, Visiting, On
<1>2. TruthInv'
  BY DEF IInv, TruthInv, Visiting, On
<1> QED
  BY <1>1, <1>2

LEMMA WorkerDiesKeeps == ASSUME IInv, NEW s \in Sinks, WorkerDies(s) PROVE IInv'
<1> USE DEF WorkerDies, coordinatorVars
<1>1. TypeInv'
  BY DEF IInv, TypeInv, SinkStates
<1>2. HeldInv'
  BY DEF IInv, HeldInv
<1>3. \A x \in Sinks : Same(x)
  BY DEF Same, IInv, TypeInv
<1>4. (ByMain' <=> ByMain) /\ (ByRecorder' <=> ByRecorder)
  BY DEF ByMain, ByRecorder
<1>5. MainInv'
  BY <1>3, <1>4, SinkFacts, MainKept
<1>6. RecorderInv'
  BY <1>3, <1>4, SinkFacts, MainSide
<1>7. CallInv' /\ StepInv'
  BY <1>3, OpFacts, CallKept
<1>8. SubmitInv' /\ TruthInv'
  BY <1>3, RecordsKept DEF Same
<1> QED
  BY <1>1, <1>2, <1>5, <1>6, <1>7, <1>8 DEF IInv, MainInv

\* A submission touches no sink.
LEMMA SubmissionKeeps ==
  ASSUME IInv, UNCHANGED <<running, sink, op, coordinatorVars, recorder, faults>>,
         \A s \in Sinks : record'[s].attached = record[s].attached
  PROVE  MainInv' /\ RecorderInv' /\ CallInv' /\ StepInv'
<1> USE DEF coordinatorVars
<1>1. \A x \in Sinks : Same(x)
  BY DEF Same
<1>2. (ByMain' <=> ByMain) /\ (ByRecorder' <=> ByRecorder)
  BY DEF ByMain, ByRecorder
<1>3. MainInv'
  BY <1>1, <1>2, SinkFacts, MainKept
<1>4. RecorderInv'
  BY <1>1, <1>2, SinkFacts, MainSide
<1>5. CallInv' /\ StepInv'
  BY <1>1, OpFacts, CallKept
<1> QED
  BY <1>3, <1>4, <1>5

LEMMA SubmitBeginKeeps == ASSUME IInv, SubmitBegin PROVE IInv'
<1> USE DEF SubmitBegin, routerVars, coordinatorVars
<1>1. TypeInv'
  BY DEF IInv, TypeInv
<1>2. submission'.waiting = Attached /\ submission'.current = None /\ submission'.held
        /\ submission' \in Submissions
  BY SinkFacts DEF NoSubmission, Submissions, Attached
<1>3. HeldInv'
  BY <1>2, SinkFacts DEF HeldInv, Attached
<1>4. MainInv' /\ RecorderInv' /\ CallInv' /\ StepInv'
  BY SubmissionKeeps
<1>5. \A s \in Sinks : Visiting(s)' => On(s)
  BY <1>2, SinkFacts DEF Visiting, Attached, On
<1>6. SubmitInv'
  BY <1>5 DEF SubmitInv, On
<1>7. TruthInv'
  <2>1. op # NoOp /\ op.step = "barrier" => op.sink \in Sinks /\ ~On(op.sink)
    BY OpFacts DEF IInv, StepInv
  <2>2. op # NoOp /\ op.step = "barrier" => ~Visiting(op.sink)'
    BY <1>2, <2>1, SinkFacts DEF Visiting, Attached, On
  <2> QED
    BY <2>2 DEF IInv, TruthInv, On
<1> QED
  BY <1>1, <1>3, <1>4, <1>6, <1>7 DEF IInv, MainInv

LEMMA SubmitToKeeps == ASSUME IInv, NEW s \in Sinks, SubmitTo(s) PROVE IInv'
<1> USE DEF SubmitTo, routerVars, coordinatorVars
<1>1. TypeInv'
  BY DEF IInv, TypeInv
<1>2. PICK accepted \in BOOLEAN :
        submission' = [submission EXCEPT !.waiting = @ \ {s}, !.current = s, !.accepted = accepted]
  BY DEF Accepts
<1>3. /\ submission'.waiting = submission.waiting \ {s} /\ submission'.current = s
      /\ submission'.held = submission.held /\ submission' \in Submissions
  BY <1>2 DEF IInv, HeldInv, Submissions
<1>4. HeldInv'
  BY <1>3, SinkFacts DEF IInv, HeldInv
<1>5. MainInv' /\ RecorderInv' /\ CallInv' /\ StepInv'
  BY SubmissionKeeps
<1>6. \A x : Visiting(x)' => Visiting(x)
  BY <1>3 DEF Visiting
<1>7. SubmitInv'
  BY <1>6 DEF IInv, SubmitInv, On
<1>8. TruthInv'
  BY <1>6 DEF IInv, TruthInv, On
<1> QED
  BY <1>1, <1>4, <1>5, <1>7, <1>8 DEF IInv, MainInv

LEMMA SubmitDoneKeeps == ASSUME IInv, SubmitDone PROVE IInv'
<1> USE DEF SubmitDone, routerVars, coordinatorVars
<1>1. PICK s \in Sinks : s = submission.current
  BY DEF IInv, HeldInv, Submissions
<1>2. PICK after : after = StateAfter(s)
  OBVIOUS
<1>3. after \in {"failed", "active", record[s].state}
  BY <1>2 DEF StateAfter
<1>4. record' = [record EXCEPT ![s].state = after]
  BY <1>1, <1>2
<1>5. record'[s] = [record[s] EXCEPT !.state = after] /\ \A x \in Sinks : x # s => record'[x] = record[x]
  BY <1>4 DEF IInv, TypeInv
<1>6. record[s] \in Records /\ record'[s].attached = record[s].attached /\ record'[s].state = after
        /\ record'[s] \in Records
  BY <1>3, <1>5 DEF IInv, TypeInv, Records
<1>7. TypeInv'
  BY <1>4, <1>6 DEF IInv, TypeInv
<1>8. /\ submission' \in Submissions
      /\ submission'.waiting = submission.waiting /\ submission'.current = None
      /\ submission'.held <=> submission.waiting # {}
  BY <1>1 DEF IInv, HeldInv, NoSubmission, Submissions
<1>9. HeldInv'
  BY <1>8, SinkFacts DEF IInv, HeldInv, Submissions
<1>10. MainInv' /\ RecorderInv' /\ CallInv' /\ StepInv'
  BY <1>5, <1>6, SubmissionKeeps
<1>11. \A x \in Sinks : Visiting(x)' => Visiting(x) /\ x # s
  BY <1>1, <1>8, SinkFacts DEF IInv, HeldInv, Visiting
<1>12. \A x \in Sinks : On(x)' <=> On(x)
  BY <1>5, <1>6 DEF On
<1>13. SubmitInv'
  BY <1>5, <1>11, <1>12 DEF IInv, SubmitInv
<1>14. Visiting(s)
  BY <1>1 DEF Visiting
<1>15. sink[s] = "new" /\ record[s].state = "failed" => after = "failed"
  BY <1>2 DEF StateAfter
<1>16. TruthInv'
  <2>1. ASSUME NEW x \in Sinks, ~On(x), x # op.sink PROVE record'[x].state \in {"detached", "failed"}
    <3>1. CASE x = s
      BY <1>6, <1>14, <1>15, <2>1, <3>1 DEF IInv, SubmitInv
    <3>2. CASE x # s
      BY <1>5, <2>1, <3>2 DEF IInv, TruthInv
    <3> QED
      BY <3>1, <3>2
  <2>2. CASE op = NoOp
    BY <1>12, <2>1, <2>2 DEF TruthInv
  <2>3. CASE op # NoOp
    <3>1. PICK x \in Sinks : x = op.sink
      BY <2>3, OpFacts
    <3>2. /\ op.step = "cleanup" => record[x].state = "failed" /\ ~On(x)
          /\ op.step = "returned" /\ ~On(x) => record[x].state \in {"detached", "failed"}
          /\ op.step = "barrier" =>
               /\ record[x].state \in {"detached", "failed"} \cup (IF op.stop THEN {"stopping"} ELSE {})
               /\ Visiting(x) => record[x].state # "failed"
      BY <2>3, <3>1 DEF IInv, TruthInv, StepInv, Untouched
    <3>3. CASE x # s
      <4>1. record'[x].state = record[x].state
        BY <1>5, <3>3
      <4> QED
        BY <1>11, <1>12, <2>1, <2>3, <3>1, <3>2, <4>1 DEF TruthInv
    <3>4. CASE x = s
      <4>1. op.step # "barrier" /\ ~On(x) => after = "failed"
        BY <1>14, <1>15, <3>1, <3>4 DEF IInv, SubmitInv
      <4>2. op.step = "barrier" => after \in {"failed", record[s].state}
        BY <1>2, <1>14, <3>2, <3>4 DEF StateAfter
      <4>3. ~Visiting(x)'
        BY <1>11, <3>4
      <4> QED
        BY <1>6, <1>12, <2>1, <2>3, <3>1, <3>2, <3>4, <4>1, <4>2, <4>3 DEF TruthInv
    <3> QED
      BY <3>3, <3>4
  <2> QED
    BY <2>2, <2>3
<1> QED
  BY <1>7, <1>9, <1>10, <1>13, <1>16 DEF IInv, MainInv

\* ----------------------------------------------------------------- router steps
\* The call goes on, for the same user and the same sink.
LEMMA GoesOn ==
  ASSUME IInv, op # NoOp, NEW step \in {"start", "cleanup", "barrier", "stop", "returned"},
         NEW ok \in BOOLEAN, op' = [op EXCEPT !.step = step, !.ok = ok]
  PROVE  /\ op' \in Calls /\ op' # NoOp /\ op'.step = step /\ op'.ok = ok
         /\ op'.sink = op.sink /\ op'.stop = op.stop /\ op'.by = op.by
         /\ (ByMain' <=> ByMain) /\ (ByRecorder' <=> ByRecorder)
<1>1. op \in Calls
  BY OpFacts
<1>2. /\ op' \in Calls /\ op'.step = step /\ op'.ok = ok
      /\ op'.sink = op.sink /\ op'.stop = op.stop /\ op'.by = op.by
  BY <1>1 DEF Calls
<1>3. op' # NoOp
  BY <1>2 DEF NoOp, Calls
<1> QED
  BY <1>2, <1>3 DEF ByMain, ByRecorder

\* Nothing is held when the barrier is passed.
LEMMA NotHeld == ASSUME IInv, ~submission.held PROVE \A s \in Sinks : ~Visiting(s)
  BY SinkFacts DEF IInv, HeldInv, Visiting, Submissions

\* Of the records, only that of the call's sink changes.
LEMMA OthersTrue ==
  ASSUME IInv, op # NoOp, op'.sink = op.sink,
         \A s \in Sinks : s # op.sink => record'[s] = record[s]
  PROVE  \A s \in Sinks : ~On(s)' /\ s # op'.sink => record'[s].state \in {"detached", "failed"}
  BY DEF IInv, TruthInv, On

LEMMA StartSucceedsKeeps == ASSUME IInv, StartSucceeds PROVE IInv'
<1> USE DEF StartSucceeds, coordinatorVars
<1>1. op # NoOp /\ op.sink \in Sinks /\ (ByMain <=> ~ByRecorder)
  BY OpFacts
<1>2. PICK x \in Sinks : x = op.sink
  BY <1>1
<1>3. op' = [op EXCEPT !.step = "returned", !.ok = TRUE]
  BY DEF Returns
<1>4. /\ op' \in Calls /\ op' # NoOp /\ op'.step = "returned" /\ op'.ok = TRUE
      /\ op'.sink = x /\ op'.stop = op.stop
      /\ (ByMain' <=> ByMain) /\ (ByRecorder' <=> ByRecorder)
  BY <1>1, <1>2, <1>3, GoesOn
<1>5. /\ sink' = [sink EXCEPT ![x] = IF @ = "new" THEN "running" ELSE @]
      /\ record' = [record EXCEPT ![x].state = "active"]
  BY <1>2
<1>6. /\ sink'[x] = IF sink[x] = "new" THEN "running" ELSE sink[x]
      /\ record'[x] = [record[x] EXCEPT !.state = "active"]
      /\ record'[x].attached = record[x].attached
      /\ \A s \in Sinks : s # x => sink'[s] = sink[s] /\ record'[s] = record[s]
  BY <1>5 DEF IInv, TypeInv, Records
<1>7. TypeInv'
  <2>1. record[x] \in Records /\ record \in [Sinks -> Records] /\ sink \in [Sinks -> SinkStates]
    BY DEF IInv, TypeInv
  <2>2. record'[x] \in Records
    BY <1>6, <2>1 DEF Records
  <2>3. record' = [record EXCEPT ![x] = record'[x]]
    BY <1>5, <2>1
  <2>4. record' \in [Sinks -> Records]
    BY <2>1, <2>2, <2>3
  <2>5. sink' \in [Sinks -> SinkStates]
    BY <1>5, <2>1 DEF SinkStates
  <2> QED
    BY <1>4, <2>4, <2>5 DEF IInv, TypeInv
<1>8. HeldInv'
  BY DEF IInv, HeldInv
<1>9. On(x) /\ On(x)' /\ Serving(x)' /\ \A s \in Sinks : On(s)' <=> On(s)
  BY <1>1, <1>2, <1>6 DEF IInv, StepInv, On, Serving
<1>10. \A s \in Sinks : s # x => Same(s)
  BY <1>6 DEF Same
<1>11. sink[x] # "new" => Same(x)
  BY <1>6 DEF Same
<1>12. ByMain => main.pc \in {"attachCandidate", "rollbackPrevious"}
  BY DEF IInv, CallInv
<1>13. MainInv'
  <2>1. CASE ByMain /\ main.pc = "attachCandidate"
    <3>1. x = Candidate /\ Replacing /\ main.pc # "stage" /\ main.at \in Names /\ main.at \in Staged
      BY <1>2, <2>1, AtFacts DEF IInv, CallInv, Replacing, Phases
    <3>2. \A d \in Destinations : d # Candidate => SameResource(d)
      BY <1>10, <3>1, SinkFacts DEF SameResource
    <3>3. PreviousDetached(main.at)' <=> PreviousDetached(main.at)
      BY <1>4 DEF PreviousDetached, Replacing
    <3>4. x \notin publishing
      BY <2>1, <3>1 DEF IInv, CandidateInv, CandidateOK, Candidate
    <3>5. ASSUME NEW i, NEW c, i = main.at, c = Candidate PROVE CandidateOK(i, c)'
      <4>1. i \in Nat
        BY <3>1, <3>5 DEF Names
      <4> QED
        BY <1>4, <2>1, <3>1, <3>4, <3>5, <4>1 DEF CandidateOK
    <3> QED
      BY <3>1, <3>2, <3>3, <3>5, CandidateStep
  <2>2. CASE ByMain /\ main.pc = "rollbackPrevious"
    <3>1. x = configured[main.at] /\ x # None /\ main.at \in Names
      BY <1>2, <2>2, AtFacts, SinkFacts DEF IInv, CallInv, Replacing, Phases
    <3>2. sink[x] # "new"
      BY <3>1 DEF IInv, ConfiguredInv, ConfiguredOK
    <3>3. \A d \in Destinations : Same(d)
      BY <1>10, <1>11, <3>2, SinkFacts
    <3> QED
      BY <1>4, <3>3, MainKept
  <2>3. CASE ByRecorder
    <3>1. x \in Recordings
      BY <1>2, <2>3, OpFacts
    <3>2. \A d \in Destinations : Same(d)
      BY <1>10, <3>1, SinkFacts
    <3> QED
      BY <1>4, <3>2, MainKept
  <2> QED
    BY <1>1, <1>12, <2>1, <2>2, <2>3
<1>14. RecorderInv'
  <2>1. CASE ByMain
    <3>1. \A s \in Recordings : Same(s)
      BY <1>2, <1>10, <2>1, OpFacts, SinkFacts
    <3> QED
      BY <1>4, <3>1, MainSide
  <2>2. CASE ByRecorder
    <3>1. recorder.pc = "attaching" /\ recorder.sink = x
      BY <1>2, <2>2 DEF IInv, CallInv
    <3>2. \A s \in Recordings : s # x => Gone(s)'
      BY <1>10, <3>1, SinkFacts, SameFacts DEF IInv, RecorderInv
    <3>3. x # None
      BY <1>2, SinkFacts
    <3> QED
      BY <1>4, <2>2, <3>1, <3>2, <3>3 DEF RecorderInv, Gone, Alive, On
  <2> QED
    BY <1>1, <2>1, <2>2
<1>15. CallInv'
  BY <1>2, <1>4 DEF IInv, CallInv, Change, Candidate, Previous
<1>16. StepInv'
  <2>1. ~op'.stop /\ (ByRecorder => recorder.pc = "attaching") /\ main.pc' = main.pc /\ recorder' = recorder
          /\ (ByMain => main.pc # "detachPrevious")
    BY <1>1, <1>4 DEF IInv, CallInv
  <2> QED
    BY <1>4, <1>9, <2>1 DEF StepInv, On, Serving
<1>17. SubmitInv'
  <2>1. ASSUME NEW s \in Sinks, Visiting(s)
        PROVE  On(s)' \/ (sink'[s] = "new" /\ record'[s].state = "failed")
    <3>1. On(s) \/ (sink[s] = "new" /\ record[s].state = "failed")
      BY <2>1 DEF IInv, SubmitInv
    <3>2. s = x \/ (sink'[s] = sink[s] /\ record'[s] = record[s])
      BY <1>6
    <3> QED
      BY <1>9, <3>1, <3>2
  <2>2. \A s : Visiting(s)' <=> Visiting(s)
    BY DEF Visiting
  <2> QED
    BY <2>1, <2>2 DEF SubmitInv
<1>18. TruthInv'
  <2>1. \A s \in Sinks : ~On(s)' /\ s # op'.sink => record'[s].state \in {"detached", "failed"}
    BY <1>1, <1>2, <1>4, <1>6, OthersTrue
  <2> QED
    BY <1>4, <1>9, <2>1 DEF TruthInv, On
<1> QED
  BY <1>7, <1>8, <1>13, <1>14, <1>15, <1>16, <1>17, <1>18 DEF IInv, MainInv

LEMMA StartFailsKeeps == ASSUME IInv, StartFails PROVE IInv'
<1> USE DEF StartFails, coordinatorVars
<1>1. op # NoOp /\ op.sink \in Sinks /\ (ByMain <=> ~ByRecorder) /\ op \in Calls
  BY OpFacts
<1>2. PICK x \in Sinks : x = op.sink
  BY <1>1
<1>3. op' = [op EXCEPT !.step = "cleanup", !.ok = op.ok] /\ op.ok \in BOOLEAN
  BY <1>1 DEF Calls
<1>4. /\ op' \in Calls /\ op' # NoOp /\ op'.step = "cleanup"
      /\ op'.sink = x /\ op'.stop = op.stop
      /\ (ByMain' <=> ByMain) /\ (ByRecorder' <=> ByRecorder)
  BY <1>1, <1>2, <1>3, GoesOn
<1>5. record' = [record EXCEPT ![x] = [state |-> "failed", attached |-> FALSE]] /\ sink[x] = "new"
  BY <1>2
<1>6. /\ record'[x] = [state |-> "failed", attached |-> FALSE]
      /\ \A s \in Sinks : s # x => record'[s] = record[s]
  BY <1>5 DEF IInv, TypeInv
<1>7. TypeInv'
  <2>1. [state |-> "failed", attached |-> FALSE] \in Records
    BY DEF Records
  <2>2. record' \in [Sinks -> Records]
    BY <1>5, <2>1 DEF IInv, TypeInv
  <2> QED
    BY <1>4, <2>2 DEF IInv, TypeInv
<1>8. HeldInv'
  BY DEF IInv, HeldInv
<1>9. ~On(x)' /\ Untouched(x)' /\ \A s \in Sinks : s # x => (On(s)' <=> On(s))
  BY <1>5, <1>6 DEF On, Untouched
<1>10. \A s \in Sinks : s # x => Same(s)
  BY <1>6 DEF Same
<1>11. ByMain => main.pc = "attachCandidate" /\ x = Candidate
  <2>1. ByMain => main.pc \in {"attachCandidate", "rollbackPrevious"}
    BY DEF IInv, CallInv
  <2>2. ~(ByMain /\ main.pc = "rollbackPrevious")
    <3> SUFFICES ASSUME ByMain, main.pc = "rollbackPrevious" PROVE FALSE
      OBVIOUS
    <3>1. x = configured[main.at] /\ x # None /\ main.at \in Names
      BY <1>2, AtFacts, SinkFacts DEF IInv, CallInv, Replacing, Phases
    <3> QED
      BY <1>5, <3>1 DEF IInv, ConfiguredInv, ConfiguredOK
  <2> QED
    BY <1>2, <2>1, <2>2 DEF IInv, CallInv
<1>12. MainInv'
  <2>1. CASE ByMain
    <3>1. x = Candidate /\ Replacing /\ main.pc = "attachCandidate" /\ main.at \in Names /\ main.at \in Staged
      BY <1>11, <2>1, AtFacts DEF Replacing, Phases
    <3>2. \A d \in Destinations : d # Candidate => SameResource(d)
      BY <1>10, <3>1, SinkFacts DEF SameResource
    <3>3. PreviousDetached(main.at)' <=> PreviousDetached(main.at)
      BY <1>4 DEF PreviousDetached, Replacing
    <3>4. x \notin publishing
      BY <3>1 DEF IInv, CandidateInv, CandidateOK, Candidate
    <3>5. ASSUME NEW i, NEW c, i = main.at, c = Candidate PROVE CandidateOK(i, c)'
      <4>1. i \in Nat
        BY <3>1, <3>5 DEF Names
      <4> QED
        BY <1>4, <2>1, <3>1, <3>4, <3>5, <4>1 DEF CandidateOK
    <3> QED
      BY <3>1, <3>2, <3>3, <3>5, CandidateStep
  <2>2. CASE ByRecorder
    <3>1. x \in Recordings
      BY <1>2, <2>2, OpFacts
    <3>2. \A d \in Destinations : Same(d)
      BY <1>10, <3>1, SinkFacts
    <3> QED
      BY <1>4, <3>2, MainKept
  <2> QED
    BY <1>1, <2>1, <2>2
<1>13. RecorderInv'
  <2>1. CASE ByMain
    <3>1. \A s \in Recordings : Same(s)
      BY <1>2, <1>10, <2>1, OpFacts, SinkFacts
    <3> QED
      BY <1>4, <3>1, MainSide
  <2>2. CASE ByRecorder
    <3>1. recorder.pc = "attaching" /\ recorder.sink = x
      BY <1>2, <2>2 DEF IInv, CallInv
    <3>2. \A s \in Recordings : s # x => Gone(s)'
      BY <1>10, <3>1, SinkFacts, SameFacts DEF IInv, RecorderInv
    <3>3. x # None
      BY <1>2, SinkFacts
    <3> QED
      BY <1>4, <2>2, <3>1, <3>2, <3>3 DEF RecorderInv, Gone, Alive, On
  <2> QED
    BY <1>1, <2>1, <2>2
<1>14. CallInv'
  BY <1>2, <1>4, <1>11 DEF IInv, CallInv, Change, Candidate, Previous
<1>15. StepInv'
  BY <1>4, <1>9 DEF StepInv, Untouched, On
<1>16. SubmitInv'
  <2>1. ASSUME NEW s \in Sinks, Visiting(s)
        PROVE  \/ On(s)'
               \/ sink[s] = "new" /\ record'[s].state = "failed"
    <3>1. CASE s = x
      BY <1>5, <1>6, <3>1
    <3>2. CASE s # x
      BY <1>2, <1>6, <1>9, <2>1, <3>2 DEF IInv, SubmitInv
    <3> QED
      BY <3>1, <3>2
  <2> QED
    BY <2>1 DEF SubmitInv, Visiting, On
<1>17. TruthInv'
  <2>1. \A s \in Sinks : ~On(s)' /\ s # op'.sink => record'[s].state \in {"detached", "failed"}
    BY <1>1, <1>2, <1>4, <1>6, OthersTrue
  <2> QED
    BY <1>4, <1>6, <2>1 DEF TruthInv, On
<1> QED
  BY <1>7, <1>8, <1>12, <1>13, <1>14, <1>15, <1>16, <1>17 DEF IInv, MainInv

LEMMA StartCleanupKeeps == ASSUME IInv, StartCleanup PROVE IInv'
<1> USE DEF StartCleanup, coordinatorVars
<1>1. op # NoOp /\ op.sink \in Sinks /\ (ByMain <=> ~ByRecorder)
  BY OpFacts
<1>2. PICK x \in Sinks : x = op.sink
  BY <1>1
<1>3. op' = [op EXCEPT !.step = "returned", !.ok = FALSE]
  BY DEF Returns
<1>4. /\ op' \in Calls /\ op' # NoOp /\ op'.step = "returned" /\ op'.ok = FALSE
      /\ op'.sink = x /\ op'.stop = op.stop
      /\ (ByMain' <=> ByMain) /\ (ByRecorder' <=> ByRecorder)
  BY <1>1, <1>2, <1>3, GoesOn
<1>5. Untouched(x) /\ sink[x] = "new" /\ ~On(x)
  BY <1>1, <1>2 DEF IInv, StepInv, Untouched
<1>6. sink' = sink
  <2>1. StopOutcomes(x) = {<<"new", TRUE>>}
    BY <1>5 DEF StopOutcomes
  <2>2. sink' = [sink EXCEPT ![x] = "new"]
    <3>1. PICK outcome \in StopOutcomes(x) : StopSink(x, outcome)
      BY <1>2
    <3>2. outcome = <<"new", TRUE>>
      BY <2>1, <3>1
    <3> QED
      BY <3>1, <3>2 DEF StopSink
  <2> QED
    BY <1>5, <2>2 DEF IInv, TypeInv
<1>7. TypeInv'
  BY <1>4, <1>6 DEF IInv, TypeInv
<1>8. HeldInv'
  BY DEF IInv, HeldInv
<1>9. \A s \in Sinks : Same(s)
  BY <1>6 DEF Same
<1>10. MainInv'
  BY <1>4, <1>9, SinkFacts, MainKept
<1>11. RecorderInv'
  BY <1>4, <1>9, SinkFacts, MainSide
<1>12. (ByMain => main.pc = "attachCandidate") /\ (ByRecorder => recorder.pc = "attaching") /\ ~op.stop
  BY <1>1 DEF IInv, CallInv
<1>13. CallInv'
  BY <1>2, <1>4, <1>12 DEF IInv, CallInv, Change, Candidate, Previous
<1>14. StepInv'
  BY <1>4, <1>5, <1>6, <1>12 DEF StepInv, On, Untouched
<1>15. SubmitInv'
  BY <1>6 DEF IInv, SubmitInv, Visiting, On
<1>16. TruthInv'
  <2>1. \A s \in Sinks : ~On(s)' /\ s # op'.sink => record'[s].state \in {"detached", "failed"}
    BY <1>1, <1>2, <1>4, OthersTrue
  <2>2. record[x].state = "failed"
    BY <1>1, <1>2 DEF IInv, TruthInv
  <2> QED
    BY <1>4, <2>1, <2>2 DEF TruthInv, On
<1> QED
  BY <1>7, <1>8, <1>10, <1>11, <1>13, <1>14, <1>15, <1>16 DEF IInv, MainInv

LEMMA PassBarrierKeeps == ASSUME IInv, PassBarrier PROVE IInv'
<1> USE DEF PassBarrier, routerVars, coordinatorVars
<1>1. op # NoOp /\ op.sink \in Sinks /\ (ByMain <=> ~ByRecorder) /\ op \in Calls
  BY OpFacts
<1>2. PICK x \in Sinks : x = op.sink
  BY <1>1
<1>3. PICK step \in {"stop", "returned"}, ok \in BOOLEAN :
        op' = [op EXCEPT !.step = step, !.ok = ok] /\ (step = "stop" <=> op.stop)
  <2>1. CASE op.stop
    <3>1. op' = [op EXCEPT !.step = "stop", !.ok = op.ok] /\ op.ok \in BOOLEAN
      BY <1>1, <2>1 DEF Calls
    <3> QED
      BY <2>1, <3>1
  <2>2. CASE ~op.stop
    <3>1. op' = [op EXCEPT !.step = "returned", !.ok = TRUE]
      BY <2>2 DEF Returns
    <3> QED
      BY <2>2, <3>1
  <2> QED
    BY <2>1, <2>2
<1>4. /\ op' \in Calls /\ op' # NoOp /\ op'.step = step
      /\ op'.sink = x /\ op'.stop = op.stop
      /\ (ByMain' <=> ByMain) /\ (ByRecorder' <=> ByRecorder)
  BY <1>1, <1>2, <1>3, GoesOn
<1>5. TypeInv'
  BY <1>4 DEF IInv, TypeInv
<1>6. HeldInv'
  BY DEF IInv, HeldInv
<1>7. \A s \in Sinks : Same(s)
  BY DEF Same
<1>8. MainInv'
  BY <1>4, <1>7, SinkFacts, MainKept
<1>9. RecorderInv'
  BY <1>4, <1>7, SinkFacts, MainSide
<1>10. /\ ~On(x) /\ (op.stop => sink[x] # "new")
       /\ ByMain => main.pc \notin {"attachCandidate", "rollbackPrevious"}
       /\ ByRecorder => recorder.pc # "attaching"
  BY <1>1, <1>2 DEF IInv, StepInv, CallInv
<1>11. CallInv'
  BY <1>2, <1>3, <1>4, <1>10 DEF IInv, CallInv, Change, Candidate, Previous
<1>12. StepInv'
  BY <1>3, <1>4, <1>10 DEF StepInv, On
<1>13. SubmitInv'
  BY NotHeld DEF SubmitInv, Visiting
<1>14. TruthInv'
  <2>1. \A s \in Sinks : ~On(s)' /\ s # op'.sink => record'[s].state \in {"detached", "failed"}
    BY <1>1, <1>2, <1>4, OthersTrue
  <2>2. ~op.stop => record[x].state \in {"detached", "failed"}
    BY <1>1, <1>2 DEF IInv, TruthInv
  <2> QED
    BY <1>3, <1>4, <2>1, <2>2 DEF TruthInv, On
<1> QED
  BY <1>5, <1>6, <1>8, <1>9, <1>11, <1>12, <1>13, <1>14 DEF IInv, MainInv

\* What stop() makes of a sink.
LEMMA StopFacts ==
  ASSUME IInv, NEW x \in Sinks, NEW outcome \in StopOutcomes(x), StopSink(x, outcome)
  PROVE  /\ sink' \in [Sinks -> SinkStates]
         /\ sink'[x] = outcome[1] /\ sink'[x] \notin {"running", "dead"} /\ outcome[2] \in BOOLEAN
         /\ sink'[x] = "new" <=> sink[x] = "new"
         /\ sink[x] = "new" => outcome[2] = TRUE
         /\ \A s \in Sinks : s # x => sink'[s] = sink[s]
<1>1. sink[x] \in SinkStates /\ sink \in [Sinks -> SinkStates]
  BY DEF IInv, TypeInv
<1>2. outcome[1] \in {"new", "stopped", "stuck"} /\ outcome[2] \in BOOLEAN
        /\ (outcome[1] = "new" <=> sink[x] = "new") /\ (sink[x] = "new" => outcome[2] = TRUE)
  <2> DEFINE Good(o) == /\ o[1] \in {"new", "stopped", "stuck"} /\ o[2] \in BOOLEAN
                        /\ o[1] = "new" <=> sink[x] = "new"
                        /\ sink[x] = "new" => o[2] = TRUE
  <2>1. ASSUME sink[x] \in {"new", "stopped"} PROVE Good(outcome)
    <3>1. outcome = <<sink[x], TRUE>>
      BY <2>1 DEF StopOutcomes
    <3> QED
      BY <2>1, <3>1
  <2>2. ASSUME sink[x] = "running" PROVE Good(outcome)
    <3>1. outcome \in {<<"stopped", TRUE>>, <<"stopped", FALSE>>, <<"stuck", FALSE>>}
      BY <2>2 DEF StopOutcomes
    <3>2. outcome[1] \in {"stopped", "stuck"} /\ outcome[2] \in BOOLEAN
      <4>1. CASE outcome = <<"stopped", TRUE>>
        BY <4>1
      <4>2. CASE outcome = <<"stopped", FALSE>>
        BY <4>2
      <4>3. CASE outcome = <<"stuck", FALSE>>
        BY <4>3
      <4> QED
        BY <3>1, <4>1, <4>2, <4>3
    <3> QED
      BY <2>2, <3>2
  <2>3. ASSUME sink[x] = "dead" PROVE Good(outcome)
    <3>1. outcome = <<"stopped", FALSE>>
      BY <2>3 DEF StopOutcomes
    <3> QED
      BY <2>3, <3>1
  <2>4. ASSUME sink[x] = "stuck" PROVE Good(outcome)
    <3>1. outcome \in {<<"stopped", TRUE>>, <<"stuck", FALSE>>, <<"stuck", TRUE>>}
      <4>1. x \in Recordings => outcome \in {<<"stopped", TRUE>>, <<"stuck", FALSE>>}
        BY <2>4 DEF StopOutcomes
      <4>2. x \notin Recordings => outcome = <<"stuck", TRUE>>
        BY <2>4 DEF StopOutcomes
      <4> QED
        BY <4>1, <4>2
    <3>2. outcome[1] \in {"stopped", "stuck"} /\ outcome[2] \in BOOLEAN
      <4>1. CASE outcome = <<"stopped", TRUE>>
        BY <4>1
      <4>2. CASE outcome = <<"stuck", FALSE>>
        BY <4>2
      <4>3. CASE outcome = <<"stuck", TRUE>>
        BY <4>3
      <4> QED
        BY <3>1, <4>1, <4>2, <4>3
    <3> QED
      BY <2>4, <3>2
  <2> QED
    BY <1>1, <2>1, <2>2, <2>3, <2>4 DEF SinkStates
<1>3. sink' = [sink EXCEPT ![x] = outcome[1]]
  BY DEF StopSink
<1> QED
  BY <1>1, <1>2, <1>3 DEF SinkStates

LEMMA StopSubscriberKeeps == ASSUME IInv, StopSubscriber PROVE IInv'
<1> USE DEF StopSubscriber, coordinatorVars
<1>1. op # NoOp /\ op.sink \in Sinks /\ (ByMain <=> ~ByRecorder) /\ op \in Calls
  BY OpFacts
<1>2. PICK x \in Sinks : x = op.sink
  BY <1>1
<1>3. op' = [op EXCEPT !.step = "returned", !.ok = TRUE]
  BY DEF Returns
<1>4. /\ op' \in Calls /\ op' # NoOp /\ op'.step = "returned" /\ op'.ok = TRUE
      /\ op'.sink = x /\ op'.stop = op.stop
      /\ (ByMain' <=> ByMain) /\ (ByRecorder' <=> ByRecorder)
  BY <1>1, <1>2, <1>3, GoesOn
<1>5. PICK outcome \in StopOutcomes(x) :
        /\ StopSink(x, outcome)
        /\ record' = [record EXCEPT ![x].state = IF outcome[2] THEN "detached" ELSE "failed"]
  BY <1>2
<1>6. /\ sink' \in [Sinks -> SinkStates]
      /\ sink'[x] \notin {"running", "dead"}
      /\ sink'[x] = "new" <=> sink[x] = "new"
      /\ \A s \in Sinks : s # x => sink'[s] = sink[s]
  BY <1>5, StopFacts
<1>7. PICK after \in {"detached", "failed"} : record' = [record EXCEPT ![x].state = after]
  BY <1>5
<1>8. /\ record'[x] = [record[x] EXCEPT !.state = after]
      /\ record'[x].attached = record[x].attached /\ record'[x].state = after
      /\ \A s \in Sinks : s # x => record'[s] = record[s]
  BY <1>7 DEF IInv, TypeInv, Records
<1>9. TypeInv'
  <2>1. record[x] \in Records /\ record \in [Sinks -> Records]
    BY DEF IInv, TypeInv
  <2>2. record'[x] \in Records
    BY <1>8, <2>1 DEF Records
  <2>3. record' = [record EXCEPT ![x] = record'[x]]
    BY <1>7, <2>1
  <2>4. record' \in [Sinks -> Records]
    BY <2>1, <2>2, <2>3
  <2> QED
    BY <1>4, <1>6, <2>4 DEF IInv, TypeInv
<1>10. HeldInv'
  BY DEF IInv, HeldInv
<1>11. /\ op.stop /\ ByMain /\ ~ByRecorder
       /\ \/ main.pc = "rollbackCandidate" /\ x = Candidate
          \/ main.pc = "cleanup" /\ Change = "removed" /\ x = Previous
  BY <1>1, <1>2 DEF IInv, CallInv
<1>12. ~On(x) /\ sink[x] # "new" /\ ~Visiting(x)
  <2>1. ~On(x) /\ sink[x] # "new"
    BY <1>1, <1>2, <1>11 DEF IInv, StepInv
  <2>2. Visiting(x) => On(x) \/ op.step = "barrier" \/ sink[x] = "new"
    BY DEF IInv, SubmitInv
  <2> QED
    BY <2>1, <2>2
<1>13. ~On(x)' /\ Gone(x)' /\ \A s \in Sinks : On(s)' <=> On(s)
  BY <1>6, <1>8, <1>12 DEF On, Gone, Alive
<1>14. \A s \in Sinks : s # x => Same(s)
  BY <1>6, <1>8 DEF Same
<1>15. MainInv'
  <2>1. CASE main.pc = "rollbackCandidate" /\ x = Candidate
    <3>1. Replacing /\ main.at \in Names /\ main.at \in Staged
      BY <2>1, AtFacts DEF Replacing, Phases
    <3>2. \A d \in Destinations : d # Candidate => SameResource(d)
      BY <1>14, <2>1, SinkFacts DEF SameResource
    <3>3. PreviousDetached(main.at)' <=> PreviousDetached(main.at)
      BY <1>4 DEF PreviousDetached, Replacing
    <3>4. Quit(x)
      BY <1>11, <2>1, <3>1 DEF IInv, CandidateInv, CandidateOK, Candidate
    <3>5. ASSUME NEW i, NEW c, i = main.at, c = Candidate PROVE CandidateOK(i, c)'
      <4>1. i \in Nat /\ Quit(c)'
        BY <2>1, <3>1, <3>4, <3>5 DEF Names, Quit
      <4> QED
        BY <1>4, <1>11, <2>1, <3>1, <3>5, <4>1 DEF CandidateOK
    <3> QED
      BY <2>1, <3>1, <3>2, <3>3, <3>5, CandidateStep
  <2>2. CASE main.pc = "cleanup" /\ Change = "removed" /\ x = Previous
    <3>1. main.at \in Names /\ main.at \in Outgoing
      BY <2>2, AtFacts
    <3>2. \A d \in Destinations : d # Previous => SameResource(d)
      BY <1>14, <2>2, SinkFacts DEF SameResource
    <3>3. PreviousOK(main.at, x)
      BY <2>2, <3>1 DEF IInv, PreviousInv, Previous
    <3>4. ASSUME NEW i, NEW s, i = main.at, s = Previous PROVE PreviousOK(i, s)'
      <4>1. i \in Nat /\ (Quit(s)' <=> Quit(s)) /\ s = x
        BY <2>2, <3>1, <3>4 DEF Names, Quit
      <4>2. sink'[s] # "new" /\ ~On(s)' /\ Quit(s)'
        BY <1>6, <1>11, <1>12, <1>13, <3>3, <3>4, <4>1 DEF PreviousOK
      <4> QED
        BY <1>4, <1>11, <3>4, <4>1, <4>2 DEF PreviousOK
    <3> QED
      BY <2>2, <3>2, <3>4, PreviousStep
  <2> QED
    BY <1>11, <2>1, <2>2
<1>16. RecorderInv'
  <2>1. \A s \in Recordings : Same(s)
    BY <1>2, <1>11, <1>14, OpFacts, SinkFacts
  <2> QED
    BY <1>4, <2>1, MainSide
<1>17. CallInv'
  BY <1>2, <1>4, <1>11 DEF IInv, CallInv, Change, Candidate, Previous
<1>18. StepInv'
  BY <1>4, <1>11, <1>13 DEF StepInv, Gone, Alive, On
<1>19. SubmitInv'
  <2>1. ASSUME NEW s \in Sinks, Visiting(s)
        PROVE  On(s)' \/ (sink'[s] = "new" /\ record'[s].state = "failed")
    <3>1. s # x
      BY <1>12, <2>1
    <3>2. On(s) \/ (sink[s] = "new" /\ record[s].state = "failed")
      BY <1>2, <2>1, <3>1 DEF IInv, SubmitInv
    <3> QED
      BY <1>6, <1>8, <1>13, <3>1, <3>2
  <2> QED
    BY <2>1 DEF SubmitInv, Visiting, On
<1>20. TruthInv'
  <2>1. \A s \in Sinks : ~On(s)' /\ s # op'.sink => record'[s].state \in {"detached", "failed"}
    BY <1>1, <1>2, <1>4, <1>8, OthersTrue
  <2> QED
    BY <1>4, <1>8, <2>1 DEF TruthInv, On
<1> QED
  BY <1>9, <1>10, <1>15, <1>16, <1>17, <1>18, <1>19, <1>20 DEF IInv, MainInv

\* ------------------------------------------------------------------ router calls
\* A call that begins.
LEMMA Fields ==
  ASSUME NEW by, NEW x, NEW stop \in BOOLEAN, NEW step,
         op' = [Call(by, x, stop) EXCEPT !.step = step]
  PROVE  op' = [by |-> by, sink |-> x, stop |-> stop, step |-> step, ok |-> TRUE]
<1>1. PICK c : c = op'
  OBVIOUS
<1>2. c = [by |-> by, sink |-> x, stop |-> stop, step |-> step, ok |-> TRUE]
  BY <1>1 DEF Call, NoOp
<1> QED
  BY <1>1, <1>2

LEMMA FieldsReturned ==
  ASSUME NEW by, NEW x, NEW stop \in BOOLEAN, NEW ok \in BOOLEAN,
         op' = Returns(Call(by, x, stop), ok)
  PROVE  op' = [by |-> by, sink |-> x, stop |-> stop, step |-> "returned", ok |-> ok]
<1>1. PICK c : c = op'
  OBVIOUS
<1>2. c = [by |-> by, sink |-> x, stop |-> stop, step |-> "returned", ok |-> ok]
  BY <1>1 DEF Call, NoOp, Returns
<1> QED
  BY <1>1, <1>2

LEMMA FieldsOf ==
  ASSUME NEW by, NEW x, NEW stop, NEW step, NEW ok, NEW call,
         call = [by |-> by, sink |-> x, stop |-> stop, step |-> step, ok |-> ok]
  PROVE  call.by = by /\ call.sink = x /\ call.stop = stop /\ call.step = step /\ call.ok = ok
  OBVIOUS

LEMMA Begins ==
  ASSUME NEW by \in {"main", "recorder"}, NEW x \in Sinks, NEW stop \in BOOLEAN, NEW ok \in BOOLEAN,
         NEW step \in {"start", "cleanup", "barrier", "stop", "returned"},
         op' = [by |-> by, sink |-> x, stop |-> stop, step |-> step, ok |-> ok]
  PROVE  /\ op' \in Calls /\ op' # NoOp /\ op'.by = by /\ op'.sink = x /\ op'.stop = stop
         /\ op'.step = step /\ op'.ok = ok
<1>1. op' \in Calls
  BY DEF Calls
<1>2. op'.by = by /\ op'.sink = x /\ op'.stop = stop /\ op'.step = step /\ op'.ok = ok
  BY FieldsOf
<1>3. op' # NoOp
  BY <1>2 DEF NoOp
<1> QED
  BY <1>1, <1>2, <1>3

LEMMA AttachFacts ==
  ASSUME IInv, NEW by \in {"main", "recorder"}, NEW x \in Sinks, Attach(by, x), ~On(x)
  PROVE  /\ op = NoOp /\ op' \in Calls /\ op' # NoOp /\ op'.by = by /\ op'.sink = x /\ ~op'.stop
         /\ running => op'.step = "start" /\ On(x)'
         /\ ~running => op'.step = "returned" /\ ~op'.ok /\ record' = record
         /\ record' \in [Sinks -> Records]
         /\ \A s \in Sinks : s # x => record'[s] = record[s]
         /\ SubmitInv' /\ TruthInv'
<1> USE DEF Attach
<1>1. op = NoOp /\ op.sink = None /\ x # None
  BY SinkFacts DEF NoOp
<1>2. x \notin Attached
  BY DEF Attached, On
<1>3. CASE running
  <2>1. op' = [Call(by, x, FALSE) EXCEPT !.step = "start"]
          /\ record' = [record EXCEPT ![x] = [state |-> "starting", attached |-> TRUE]]
    BY <1>2, <1>3
  <2>2. op' = [by |-> by, sink |-> x, stop |-> FALSE, step |-> "start", ok |-> TRUE]
    BY <2>1, Fields
  <2>3. op' \in Calls /\ op' # NoOp /\ op'.by = by /\ op'.sink = x /\ op'.stop = FALSE /\ op'.step = "start"
    BY <2>2, Begins
  <2>4. [state |-> "starting", attached |-> TRUE] \in Records
    BY DEF Records
  <2>5. record' \in [Sinks -> Records] /\ record'[x] = [state |-> "starting", attached |-> TRUE]
          /\ \A s \in Sinks : s # x => record'[s] = record[s]
    BY <2>1, <2>4 DEF IInv, TypeInv
  <2>6. SubmitInv'
    BY <1>1, <2>5, OpFacts DEF IInv, SubmitInv, Visiting, On
  <2>7. TruthInv'
    BY <1>1, <2>3, <2>5, SinkFacts DEF IInv, TruthInv, On
  <2> QED
    BY <1>1, <1>3, <2>3, <2>5, <2>6, <2>7 DEF On
<1>4. CASE ~running
  <2>1. op' = [by |-> by, sink |-> x, stop |-> FALSE, step |-> "returned", ok |-> FALSE]
          /\ record' = record
    <3>1. running = FALSE
      BY <1>4 DEF IInv, TypeInv
    <3>2. op' = Returns(Call(by, x, FALSE), FALSE) /\ record' = record
      BY <1>4, <3>1
    <3> QED
      BY <3>2, FieldsReturned
  <2>2. op' \in Calls /\ op' # NoOp /\ op'.by = by /\ op'.sink = x /\ op'.stop = FALSE
          /\ op'.step = "returned" /\ op'.ok = FALSE
    BY <2>1, Begins
  <2>3. record' \in [Sinks -> Records]
    BY <2>1 DEF IInv, TypeInv
  <2>4. SubmitInv'
    BY <1>1, <2>1 DEF IInv, SubmitInv, Visiting, On
  <2>5. TruthInv'
    BY <1>1, <2>1, <2>2, SinkFacts DEF IInv, TruthInv, On
  <2> QED
    BY <1>1, <1>4, <2>1, <2>2, <2>3, <2>4, <2>5
<1> QED
  BY <1>3, <1>4

LEMMA DetachFacts ==
  ASSUME IInv, NEW by \in {"main", "recorder"}, NEW x \in Sinks, NEW stop \in BOOLEAN, Detach(by, x, stop)
  PROVE  /\ op = NoOp /\ op' \in Calls /\ op' # NoOp /\ op'.by = by /\ op'.sink = x /\ op'.stop = stop
         /\ On(x) => op'.step = "barrier"
         /\ ~On(x) => op'.step = "returned" /\ op'.ok /\ record' = record
         /\ ~On(x)'
         /\ record' \in [Sinks -> Records]
         /\ \A s \in Sinks : s # x => record'[s] = record[s]
         /\ SubmitInv' /\ TruthInv'
<1> USE DEF Detach
<1>1. op = NoOp /\ op.sink = None /\ x # None
  BY SinkFacts DEF NoOp
<1>2. x \in Attached <=> On(x)
  BY DEF Attached, On
<1>3. CASE On(x)
  <2>1. op' = [Call(by, x, stop) EXCEPT !.step = "barrier"]
    BY <1>2, <1>3
  <2>2. PICK state \in {"stopping", "detached"} :
          /\ record' = [record EXCEPT ![x] = [state |-> state, attached |-> FALSE]]
          /\ state = IF stop THEN "stopping" ELSE "detached"
    BY <1>2, <1>3
  <2>3. op' = [by |-> by, sink |-> x, stop |-> stop, step |-> "barrier", ok |-> TRUE]
    BY <2>1, Fields
  <2>4. op' \in Calls /\ op' # NoOp /\ op'.by = by /\ op'.sink = x /\ op'.stop = stop /\ op'.step = "barrier"
    BY <2>3, Begins
  <2>5. [state |-> state, attached |-> FALSE] \in Records
    BY DEF Records
  <2>6. record' \in [Sinks -> Records] /\ record'[x] = [state |-> state, attached |-> FALSE]
          /\ \A s \in Sinks : s # x => record'[s] = record[s]
    BY <2>2, <2>5 DEF IInv, TypeInv
  <2>7. SubmitInv'
    BY <1>1, <2>4, <2>6 DEF IInv, SubmitInv, Visiting, On
  <2>8. TruthInv'
    <3>1. \A s \in Sinks : ~On(s)' /\ s # op'.sink => record'[s].state \in {"detached", "failed"}
      BY <1>1, <2>4, <2>6, SinkFacts DEF IInv, TruthInv, On
    <3>2. record'[x].state \in {"detached", "failed"} \cup (IF stop THEN {"stopping"} ELSE {})
            /\ record'[x].state # "failed"
      BY <2>2, <2>6
    <3> QED
      BY <2>4, <2>6, <3>1, <3>2 DEF TruthInv, On
  <2> QED
    BY <1>1, <1>3, <2>4, <2>6, <2>7, <2>8 DEF On
<1>4. CASE ~On(x)
  <2>1. op' = [by |-> by, sink |-> x, stop |-> stop, step |-> "returned", ok |-> TRUE] /\ record' = record
    BY <1>2, <1>4, FieldsReturned
  <2>2. op' \in Calls /\ op' # NoOp /\ op'.by = by /\ op'.sink = x /\ op'.stop = stop
          /\ op'.step = "returned" /\ op'.ok = TRUE
    BY <2>1, Begins
  <2>3. record' \in [Sinks -> Records]
    BY <2>1 DEF IInv, TypeInv
  <2>4. SubmitInv'
    BY <1>1, <2>1 DEF IInv, SubmitInv, Visiting, On
  <2>5. TruthInv'
    BY <1>1, <1>4, <2>1, <2>2, SinkFacts DEF IInv, TruthInv, On
  <2> QED
    BY <1>1, <1>4, <2>1, <2>2, <2>3, <2>4, <2>5 DEF On
<1> QED
  BY <1>3, <1>4

LEMMA RecorderCallsKeeps == ASSUME IInv, RecorderCalls PROVE IInv'
<1> USE DEF RecorderCalls, coordinatorVars
<1>1. op = NoOp /\ ~ByMain /\ ~ByRecorder /\ UNCHANGED <<running, sink, submission>>
  <2>1. op = NoOp /\ UNCHANGED <<running, sink, submission>>
    BY DEF Attach, Detach
  <2> QED
    BY <2>1, OpFacts
<1>2. PICK x \in Recordings : x = recorder.sink
  BY DEF IInv, TypeInv, RecorderStates, RecorderInv
<1>3. x \in Sinks /\ x # None
  BY SinkFacts
<1>4. /\ op' \in Calls /\ op' # NoOp /\ op'.by = "recorder" /\ op'.sink = x /\ ~op'.stop
      /\ record' \in [Sinks -> Records]
      /\ \A s \in Sinks : s # x => record'[s] = record[s]
      /\ SubmitInv' /\ TruthInv'
      /\ \/ recorder.pc = "attaching" /\ Untouched(x) /\ op'.step = "start" /\ On(x)'
         \/ recorder.pc = "attaching" /\ Untouched(x) /\ op'.step = "returned" /\ ~op'.ok /\ record' = record
         \/ recorder.pc \in {"abandoning", "detaching"} /\ op'.step \in {"barrier", "returned"} /\ ~On(x)'
  <2>1. CASE recorder.pc = "attaching" /\ Attach("recorder", recorder.sink)
    <3>1. Untouched(x) /\ ~On(x)
      BY <1>1, <1>2, <2>1 DEF IInv, RecorderInv, Untouched
    <3>2. Attach("recorder", x)
      BY <1>2, <2>1
    <3> QED
      BY <1>3, <2>1, <3>1, <3>2, AttachFacts
  <2>2. CASE recorder.pc \in {"abandoning", "detaching"} /\ Detach("recorder", recorder.sink, FALSE)
    <3>1. Detach("recorder", x, FALSE)
      BY <1>2, <2>2
    <3> QED
      BY <1>3, <2>2, <3>1, DetachFacts
  <2> QED
    BY <2>1, <2>2
<1>5. ~ByMain' /\ ByRecorder'
  BY <1>4 DEF ByMain, ByRecorder
<1>6. TypeInv'
  BY <1>1, <1>4 DEF IInv, TypeInv
<1>7. HeldInv'
  BY <1>1 DEF IInv, HeldInv
<1>8. \A s \in Sinks : s # x => Same(s)
  BY <1>1, <1>4 DEF Same
<1>9. MainInv'
  BY <1>1, <1>5, <1>8, SinkFacts, MainKept
<1>10. RecorderInv'
  <2>1. \A s \in Recordings : s # x => Gone(s)'
    BY <1>2, <1>8, SinkFacts, SameFacts DEF IInv, RecorderInv
  <2>2. recorder.pc \in {"attaching", "abandoning", "detaching"} /\ (recorder.pc = "abandoning" => ~On(x)')
    BY <1>4
  <2> QED
    BY <1>2, <1>3, <1>5, <2>1, <2>2 DEF RecorderInv, Gone, Alive, On
<1>11. CallInv'
  BY <1>2, <1>4, <1>5 DEF CallInv
<1>12. StepInv'
  <2>1. op'.step = "start" => On(x)' /\ sink'[x] = "new"
    BY <1>1, <1>4 DEF Untouched
  <2>2. op'.step = "returned" /\ recorder.pc = "attaching" => ~op'.ok /\ Untouched(x)'
    BY <1>1, <1>4 DEF Untouched, On
  <2>3. op'.step = "barrier" \/ (op'.step = "returned" /\ recorder.pc # "attaching") => ~On(x)'
    BY <1>4
  <2> QED
    BY <1>4, <1>5, <2>1, <2>2, <2>3 DEF StepInv, On, Untouched
<1> QED
  BY <1>4, <1>6, <1>7, <1>9, <1>10, <1>11, <1>12 DEF IInv, MainInv

\* The main thread's calls change one sink, and are of the form that CallInv says.
LEMMA MainCalls ==
  ASSUME IInv, op = NoOp, op' \in Calls, op' # NoOp, op'.by = "main",
         UNCHANGED <<sink, submission, configured, main, built, recorder, running>>,
         NEW x \in Destinations, op'.sink = x,
         record' \in [Sinks -> Records],
         \A s \in Sinks : s # x => record'[s] = record[s],
         publishing' \in SUBSET Destinations, reported' \in SUBSET Destinations,
         MainInv', SubmitInv', TruthInv', CallInv', StepInv'
  PROVE  IInv'
<1>1. TypeInv'
  BY DEF IInv, TypeInv
<1>2. HeldInv'
  BY DEF IInv, HeldInv
<1>3. \A s \in Recordings : Same(s)
  BY SinkFacts DEF Same
<1>4. ~ByRecorder /\ ~ByRecorder'
  BY OpFacts DEF ByRecorder
<1>5. RecorderInv'
  BY <1>3, <1>4, MainSide
<1> QED
  BY <1>1, <1>2, <1>5 DEF IInv, MainInv

LEMMA DetachPreviousKeeps ==
  ASSUME IInv, main.pc = "detachPrevious", Detach("main", configured[main.at], FALSE),
         UNCHANGED <<publishing, reported, configured, main, built, recorder, faults>>
  PROVE  IInv'
<1>1. PICK x \in Destinations : x = configured[main.at]
  BY AtFacts
<1>2. x \in Sinks /\ x # None
  BY SinkFacts
<1>3. Detach("main", x, FALSE) /\ UNCHANGED <<running, sink, submission>>
  BY <1>1 DEF Detach
<1>4. /\ op = NoOp /\ op' \in Calls /\ op' # NoOp /\ op'.by = "main" /\ op'.sink = x /\ ~op'.stop
      /\ On(x) => op'.step = "barrier"
      /\ ~On(x)'
      /\ record' \in [Sinks -> Records]
      /\ \A s \in Sinks : s # x => record'[s] = record[s]
      /\ SubmitInv' /\ TruthInv'
  BY <1>2, <1>3, DetachFacts
<1>5. Replacing /\ main.at \in Names /\ main.at \in Staged /\ Change = "replaced" /\ ~ByMain /\ ByMain'
        /\ ~ByRecorder'
  BY <1>4, AtFacts, OpFacts DEF Replacing, Phases, ByMain, ByRecorder, IInv, ShapeInv
<1>6. sink[x] # "new" /\ On(x)
  <2>1. ~PreviousDetached(main.at)
    BY <1>5 DEF PreviousDetached, Names
  <2> QED
    BY <1>1, <1>2, <1>5, <2>1 DEF IInv, ConfiguredInv, ConfiguredOK
<1>7. \A d \in Destinations : d # x => SameResource(d)
  BY <1>3, <1>4, SinkFacts DEF SameResource, Same
<1>8. ASSUME NEW i, NEW s, i = main.at, s = configured[i] PROVE ConfiguredOK(i, s)'
  <2>1. PreviousDetached(i)'
    BY <1>5, <1>8 DEF PreviousDetached, Replacing, Change
  <2>2. sink'[s] # "new" /\ ~On(s)'
    BY <1>1, <1>3, <1>4, <1>6, <1>8
  <2> QED
    BY <2>1, <2>2 DEF ConfiguredOK
<1>9. ASSUME NEW i, NEW c, i = main.at, c = Candidate, SameResource(c) PROVE CandidateOK(i, c)'
  <2>1. Untouched(c) /\ c \notin publishing /\ i \in Nat
    BY <1>5, <1>9 DEF IInv, CandidateInv, CandidateOK, Candidate, Names
  <2>2. Untouched(c)' /\ c \notin publishing'
    BY <1>9, <2>1, SameFacts DEF SameResource
  <2> QED
    BY <1>9, <2>1, <2>2 DEF CandidateOK
<1>10. MainInv'
  BY <1>1, <1>2, <1>3, <1>5, <1>7, <1>8, <1>9, ConfiguredStep
<1>11. CallInv'
  BY <1>1, <1>4, <1>5, <1>6 DEF CallInv
<1>12. StepInv'
  BY <1>4, <1>5, <1>6 DEF StepInv, On
<1> QED
  BY <1>3, <1>4, <1>10, <1>11, <1>12, MainCalls DEF IInv, TypeInv

LEMMA AttachCandidateKeeps ==
  ASSUME IInv, main.pc = "attachCandidate", Attach("main", Candidate),
         UNCHANGED <<publishing, reported, configured, main, built, recorder, faults>>
  PROVE  IInv'
<1>1. Replacing /\ main.at \in Names /\ main.at \in Staged
  BY AtFacts DEF Replacing, Phases
<1>2. PICK x \in Destinations : x = Candidate
  BY <1>1, AtFacts
<1>3. x \in Sinks /\ x # None
  BY SinkFacts
<1>4. Attach("main", x) /\ UNCHANGED <<running, sink, submission>> /\ op = NoOp
  BY <1>2 DEF Attach
<1>5. ~ByMain /\ running
  BY <1>4, OpFacts DEF IInv, ShapeInv
<1>6. Untouched(x) /\ x \notin publishing /\ ~On(x) /\ sink[x] = "new"
  BY <1>1, <1>2, <1>5 DEF IInv, CandidateInv, CandidateOK, Candidate, Names, Untouched
<1>7. /\ op' \in Calls /\ op' # NoOp /\ op'.by = "main" /\ op'.sink = x /\ ~op'.stop
      /\ op'.step = "start" /\ On(x)'
      /\ record' \in [Sinks -> Records]
      /\ \A s \in Sinks : s # x => record'[s] = record[s]
      /\ SubmitInv' /\ TruthInv'
  BY <1>3, <1>4, <1>5, <1>6, AttachFacts
<1>8. ByMain' /\ ~ByRecorder'
  BY <1>7 DEF ByMain, ByRecorder
<1>9. \A d \in Destinations : d # Candidate => SameResource(d)
  BY <1>2, <1>4, <1>7, SinkFacts DEF SameResource, Same
<1>10. PreviousDetached(main.at)' <=> PreviousDetached(main.at)
  BY <1>1 DEF PreviousDetached, Replacing
<1>11. ASSUME NEW i, NEW c, i = main.at, c = Candidate PROVE CandidateOK(i, c)'
  <2>1. i \in Nat
    BY <1>1, <1>11 DEF Names
  <2> QED
    BY <1>2, <1>6, <1>8, <1>11, <2>1 DEF CandidateOK
<1>12. MainInv'
  BY <1>1, <1>4, <1>9, <1>10, <1>11, CandidateStep
<1>13. CallInv'
  BY <1>2, <1>7, <1>8 DEF CallInv, Candidate
<1>14. StepInv'
  BY <1>4, <1>6, <1>7, <1>8 DEF StepInv, On
<1> QED
  BY <1>4, <1>7, <1>12, <1>13, <1>14, MainCalls DEF IInv, TypeInv

LEMMA RollbackCandidateKeeps ==
  ASSUME IInv, main.pc = "rollbackCandidate", StopPublisher(Candidate), Detach("main", Candidate, TRUE),
         UNCHANGED <<configured, main, built, recorder>>
  PROVE  IInv'
<1>1. Replacing /\ main.at \in Names /\ main.at \in Staged
  BY AtFacts DEF Replacing, Phases
<1>2. PICK x \in Destinations : x = Candidate
  BY <1>1, AtFacts
<1>3. x \in Sinks /\ x # None
  BY SinkFacts
<1>4. Detach("main", x, TRUE) /\ UNCHANGED <<running, sink, submission>> /\ op = NoOp
  BY <1>2 DEF Detach
<1>5. ~ByMain
  BY <1>4, OpFacts
<1>6. Untouched(x) \/ Serving(x)
  BY <1>1, <1>2, <1>5 DEF IInv, CandidateInv, CandidateOK, Candidate, Names
<1>7. /\ op' \in Calls /\ op' # NoOp /\ op'.by = "main" /\ op'.sink = x /\ op'.stop = TRUE
      /\ On(x) => op'.step = "barrier"
      /\ ~On(x) => op'.step = "returned" /\ op'.ok /\ record' = record
      /\ ~On(x)'
      /\ record' \in [Sinks -> Records]
      /\ \A s \in Sinks : s # x => record'[s] = record[s]
      /\ SubmitInv' /\ TruthInv'
  BY <1>3, <1>4, DetachFacts
<1>8. ByMain' /\ ~ByRecorder'
  BY <1>7 DEF ByMain, ByRecorder
<1>9. /\ publishing' \in SUBSET Destinations /\ reported' \in SUBSET Destinations
      /\ Quit(x)'
      /\ \A d : d # x => (d \in publishing' <=> d \in publishing) /\ (d \in reported' <=> d \in reported)
  <2>1. StopPublisher(x) /\ publishing \in SUBSET Destinations /\ reported \in SUBSET Destinations
    BY <1>2 DEF IInv, TypeInv
  <2>2. CASE publishing' = publishing \ {x} /\ reported' = reported
    BY <2>1, <2>2 DEF Quit
  <2>3. CASE reported' = reported \cup {x} /\ publishing' = publishing
    BY <2>1, <2>3 DEF Quit
  <2> QED
    BY <2>1, <2>2, <2>3 DEF StopPublisher
<1>10. \A d \in Destinations : d # Candidate => SameResource(d)
  BY <1>2, <1>4, <1>7, <1>9, SinkFacts DEF SameResource, Same
<1>11. PreviousDetached(main.at)' <=> PreviousDetached(main.at)
  BY <1>1 DEF PreviousDetached, Replacing
<1>12. ASSUME NEW i, NEW c, i = main.at, c = Candidate PROVE CandidateOK(i, c)'
  <2>1. i \in Nat
    BY <1>1, <1>12 DEF Names
  <2> QED
    BY <1>2, <1>8, <1>9, <1>12, <2>1 DEF CandidateOK
<1>13. MainInv'
  BY <1>1, <1>4, <1>10, <1>11, <1>12, CandidateStep
<1>14. op'.step \in {"barrier", "returned"}
  BY <1>7
<1>15. CallInv'
  BY <1>2, <1>7, <1>8, <1>14 DEF CallInv, Candidate
<1>16. StepInv'
  <2>1. op'.step = "barrier" => sink'[x] # "new"
    BY <1>4, <1>6, <1>7 DEF Untouched, Serving
  <2>2. op'.step = "returned" => Gone(x)'
    BY <1>4, <1>6, <1>7 DEF Untouched, Serving, Gone, Alive, On
  <2> QED
    BY <1>7, <1>8, <1>14, <2>1, <2>2 DEF StepInv, On, Gone, Alive
<1> QED
  BY <1>4, <1>7, <1>9, <1>13, <1>15, <1>16, MainCalls

LEMMA RollbackPreviousKeeps ==
  ASSUME IInv, main.pc = "rollbackPrevious", Attach("main", configured[main.at]),
         UNCHANGED <<publishing, reported, configured, main, built, recorder, faults>>
  PROVE  IInv'
<1>1. PICK x \in Destinations : x = configured[main.at]
  BY AtFacts
<1>2. x \in Sinks /\ x # None
  BY SinkFacts
<1>3. Attach("main", x) /\ UNCHANGED <<running, sink, submission>> /\ op = NoOp
  BY <1>1 DEF Attach
<1>4. Replacing /\ main.at \in Names /\ main.at \in Staged /\ Change = "replaced" /\ ~ByMain /\ running
  BY <1>3, AtFacts, OpFacts DEF Replacing, Phases, IInv, ShapeInv
<1>5. sink[x] # "new" /\ ~On(x)
  <2>1. PreviousDetached(main.at)
    BY <1>4 DEF PreviousDetached, Change
  <2> QED
    BY <1>1, <1>2, <1>4, <2>1 DEF IInv, ConfiguredInv, ConfiguredOK
<1>6. /\ op' \in Calls /\ op' # NoOp /\ op'.by = "main" /\ op'.sink = x /\ ~op'.stop
      /\ op'.step = "start" /\ On(x)'
      /\ record' \in [Sinks -> Records]
      /\ \A s \in Sinks : s # x => record'[s] = record[s]
      /\ SubmitInv' /\ TruthInv'
  BY <1>2, <1>3, <1>4, <1>5, AttachFacts
<1>7. ByMain' /\ ~ByRecorder'
  BY <1>6 DEF ByMain, ByRecorder
<1>8. \A d \in Destinations : d # x => SameResource(d)
  BY <1>3, <1>6, SinkFacts DEF SameResource, Same
<1>9. ASSUME NEW i, NEW s, i = main.at, s = configured[i] PROVE ConfiguredOK(i, s)'
  <2>1. ~PreviousDetached(i)'
    BY <1>4, <1>7, <1>9 DEF PreviousDetached, Names
  <2>2. sink'[s] # "new" /\ On(s)'
    BY <1>1, <1>3, <1>5, <1>6, <1>9
  <2> QED
    BY <2>1, <2>2 DEF ConfiguredOK
<1>10. ASSUME NEW i, NEW c, i = main.at, c = Candidate, SameResource(c) PROVE CandidateOK(i, c)'
  <2>1. Gone(c) /\ Quit(c) /\ i \in Nat
    BY <1>4, <1>10 DEF IInv, CandidateInv, CandidateOK, Candidate, Names
  <2>2. Gone(c)' /\ Quit(c)'
    BY <1>10, <2>1, SameFacts DEF SameResource, Quit
  <2> QED
    BY <1>10, <2>1, <2>2 DEF CandidateOK
<1>11. MainInv'
  BY <1>1, <1>2, <1>3, <1>4, <1>8, <1>9, <1>10, ConfiguredStep
<1>12. CallInv'
  BY <1>1, <1>6, <1>7 DEF CallInv
<1>13. StepInv'
  BY <1>6, <1>7 DEF StepInv, On
<1> QED
  BY <1>3, <1>6, <1>11, <1>12, <1>13, MainCalls DEF IInv, TypeInv

LEMMA CleanupRemovedKeeps ==
  ASSUME IInv, main.pc = "cleanup", Change = "removed", StopPublisher(Previous),
         Detach("main", Previous, TRUE), UNCHANGED <<configured, main, built, recorder>>
  PROVE  IInv'
<1>1. main.at \in Names /\ main.at \in Outgoing
  BY AtFacts
<1>2. PICK x \in Destinations : x = Previous
  BY AtFacts
<1>3. x \in Sinks /\ x # None
  BY SinkFacts
<1>4. Detach("main", x, TRUE) /\ UNCHANGED <<running, sink, submission>> /\ op = NoOp
  BY <1>2 DEF Detach
<1>5. ~ByMain
  BY <1>4, OpFacts
<1>6. sink[x] # "new" /\ On(x)
  BY <1>1, <1>2, <1>5 DEF IInv, PreviousInv, PreviousOK, Previous, Names, Change
<1>7. /\ op' \in Calls /\ op' # NoOp /\ op'.by = "main" /\ op'.sink = x /\ op'.stop = TRUE
      /\ op'.step = "barrier" /\ ~On(x)'
      /\ record' \in [Sinks -> Records]
      /\ \A s \in Sinks : s # x => record'[s] = record[s]
      /\ SubmitInv' /\ TruthInv'
  BY <1>3, <1>4, <1>6, DetachFacts
<1>8. ByMain' /\ ~ByRecorder'
  BY <1>7 DEF ByMain, ByRecorder
<1>9. /\ publishing' \in SUBSET Destinations /\ reported' \in SUBSET Destinations
      /\ Quit(x)'
      /\ \A d : d # x => (d \in publishing' <=> d \in publishing) /\ (d \in reported' <=> d \in reported)
  <2>1. StopPublisher(x) /\ publishing \in SUBSET Destinations /\ reported \in SUBSET Destinations
    BY <1>2 DEF IInv, TypeInv
  <2>2. CASE publishing' = publishing \ {x} /\ reported' = reported
    BY <2>1, <2>2 DEF Quit
  <2>3. CASE reported' = reported \cup {x} /\ publishing' = publishing
    BY <2>1, <2>3 DEF Quit
  <2> QED
    BY <2>1, <2>2, <2>3 DEF StopPublisher
<1>10. \A d \in Destinations : d # Previous => SameResource(d)
  BY <1>2, <1>4, <1>7, <1>9, SinkFacts DEF SameResource, Same
<1>11. ASSUME NEW i, NEW s, i = main.at, s = Previous PROVE PreviousOK(i, s)'
  <2>1. i \in Nat /\ sink'[s] # "new" /\ ~On(s)' /\ Quit(s)'
    BY <1>1, <1>2, <1>4, <1>6, <1>7, <1>9, <1>11 DEF Names
  <2> QED
    BY <1>8, <1>11, <2>1 DEF PreviousOK
<1>12. MainInv'
  BY <1>1, <1>4, <1>10, <1>11, PreviousStep
<1>13. CallInv'
  BY <1>2, <1>7, <1>8 DEF CallInv, Previous, Change
<1>14. StepInv'
  BY <1>4, <1>6, <1>7, <1>8 DEF StepInv, On
<1> QED
  BY <1>4, <1>7, <1>9, <1>12, <1>13, <1>14, MainCalls

LEMMA CallRuntimeKeeps == ASSUME IInv, CallRuntime PROVE IInv'
<1> USE DEF CallRuntime
<1>1. CASE /\ main.pc = "detachPrevious" /\ Detach("main", configured[main.at], FALSE)
           /\ UNCHANGED <<publishing, reported, faults>>
  BY <1>1, DetachPreviousKeeps
<1>2. CASE /\ main.pc = "attachCandidate" /\ Attach("main", Candidate)
           /\ UNCHANGED <<publishing, reported, faults>>
  BY <1>2, AttachCandidateKeeps
<1>3. CASE main.pc = "rollbackCandidate" /\ StopPublisher(Candidate) /\ Detach("main", Candidate, TRUE)
  BY <1>3, RollbackCandidateKeeps
<1>4. CASE /\ main.pc = "rollbackPrevious" /\ Attach("main", configured[main.at])
           /\ UNCHANGED <<publishing, reported, faults>>
  BY <1>4, RollbackPreviousKeeps
<1>5. CASE main.pc = "cleanup" /\ Change = "removed" /\ StopPublisher(Previous) /\ Detach("main", Previous, TRUE)
  BY <1>5, CleanupRemovedKeeps
<1> QED
  BY <1>1, <1>2, <1>3, <1>4, <1>5

\* ---------------------------------------------------------------- recorder steps
\* No call is under way.
LEMMA NoCall == ASSUME op' = NoOp PROVE CallInv' /\ StepInv' /\ ~ByMain' /\ ~ByRecorder'
  BY DEF NoOp, CallInv, StepInv, ByMain, ByRecorder

\* The call that returned is over.
LEMMA CallEnds ==
  ASSUME IInv, op.step = "returned", op' = NoOp, UNCHANGED <<record, sink, submission>>
  PROVE  SubmitInv' /\ TruthInv'
<1>1. op # NoOp /\ op.sink \in Sinks
  BY OpFacts
<1>2. SubmitInv'
  BY <1>1 DEF IInv, SubmitInv, Visiting, On
<1>3. TruthInv'
  <2>1. ASSUME NEW s \in Sinks, ~On(s) PROVE record[s].state \in {"detached", "failed"}
    <3>1. CASE s = op.sink
      BY <1>1, <2>1, <3>1 DEF IInv, TruthInv
    <3>2. CASE s # op.sink
      BY <2>1, <3>2 DEF IInv, TruthInv
    <3> QED
      BY <3>1, <3>2
  <2> QED
    BY <2>1 DEF TruthInv, On
<1> QED
  BY <1>2, <1>3

\* The main thread's call does not notice what the recorder does with its own sink.
LEMMA MainCallKept ==
  ASSUME IInv, UNCHANGED <<op, main, configured>>, ~ByRecorder,
         \A d \in Destinations : Same(d)
  PROVE  CallInv' /\ StepInv'
<1>1. ~ByRecorder' /\ (ByMain' <=> ByMain)
  BY DEF ByMain, ByRecorder
<1>2. CallInv'
  BY <1>1 DEF IInv, CallInv, Change, Candidate, Previous
<1>3. CASE op = NoOp
  BY <1>3, NoCall
<1>4. CASE op # NoOp
  <2>1. ByMain /\ op.sink \in Destinations
    BY <1>4, OpFacts
  <2>2. PICK x \in Destinations : x = op.sink
    BY <2>1
  <2>3. /\ On(x)' <=> On(x)
        /\ Untouched(x)' <=> Untouched(x)
        /\ Gone(x)' <=> Gone(x)
        /\ Serving(x)' <=> Serving(x)
        /\ (sink[x] # "new")' <=> sink[x] # "new"
    BY <2>2, SameFacts
  <2>4. /\ op.step = "start" => On(x) /\ (main.pc = "rollbackPrevious" \/ ~(sink[x] # "new"))
        /\ op.step = "cleanup" => Untouched(x)
        /\ op.step \in {"barrier", "stop"} => ~On(x) /\ (op.stop => sink[x] # "new")
        /\ op.step = "returned" =>
             /\ op.stop => Gone(x)
             /\ main.pc = "detachPrevious" => ~On(x)
             /\ main.pc = "rollbackPrevious" => On(x)
             /\ main.pc = "attachCandidate" => IF op.ok THEN Serving(x) ELSE Untouched(x)
    BY <1>4, <2>1, <2>2 DEF IInv, StepInv
  <2>5. /\ op.step = "start" => On(x)' /\ (main.pc = "rollbackPrevious" \/ ~(sink[x] # "new")')
        /\ op.step = "cleanup" => Untouched(x)'
        /\ op.step \in {"barrier", "stop"} => ~On(x)' /\ (op.stop => (sink[x] # "new")')
        /\ op.step = "returned" =>
             /\ op.stop => Gone(x)'
             /\ main.pc = "detachPrevious" => ~On(x)'
             /\ main.pc = "rollbackPrevious" => On(x)'
             /\ main.pc = "attachCandidate" => IF op.ok THEN Serving(x)' ELSE Untouched(x)'
    BY <2>3, <2>4
  <2>6. op' = op /\ main' = main /\ x = op'.sink
    BY <2>2
  <2>7. StepInv'
    BY <1>1, <2>1, <2>5, <2>6 DEF StepInv, On, Untouched, Gone, Alive, Serving
  <2> QED
    BY <1>2, <2>7
<1> QED
  BY <1>3, <1>4

LEMMA RecorderReturnsKeeps == ASSUME IInv, RecorderReturns PROVE IInv'
<1> USE DEF RecorderReturns, routerVars, coordinatorVars
<1>1. op # NoOp /\ ByRecorder /\ ~ByMain /\ op.sink = recorder.sink /\ op.sink \in Recordings
  <2>1. op # NoOp /\ ByRecorder
    BY OpFacts DEF ByRecorder
  <2> QED
    BY <2>1, OpFacts
<1>2. PICK x \in Recordings : x = recorder.sink
  BY <1>1
<1>3. recorder \in RecorderStates /\ recorder.pc \in {"attaching", "abandoning", "detaching"} /\ ~op.stop
  BY <1>1 DEF IInv, TypeInv, CallInv
<1>4. /\ recorder' \in RecorderStates /\ recorder'.sink = x
      /\ \/ recorder.pc = "attaching" /\ op.ok /\ recorder'.pc = "recording"
         \/ recorder.pc = "attaching" /\ ~op.ok /\ recorder'.pc = "abandoning"
         \/ recorder.pc = "abandoning" /\ recorder'.pc = "discarding"
         \/ recorder.pc = "detaching" /\ recorder'.pc = "finalizing"
  <2>1. CASE recorder.pc = "attaching"
    <3>1. PICK next \in {"recording", "abandoning"} :
            recorder' = [recorder EXCEPT !.pc = next] /\ (next = "recording" <=> op.ok)
      BY <2>1
    <3> QED
      BY <1>2, <1>3, <2>1, <3>1 DEF RecorderStates
  <2>2. CASE recorder.pc = "abandoning"
    <3>1. recorder' = [recorder EXCEPT !.pc = "discarding"]
      BY <2>2
    <3> QED
      BY <1>2, <1>3, <2>2, <3>1 DEF RecorderStates
  <2>3. CASE recorder.pc = "detaching"
    <3>1. recorder' = [recorder EXCEPT !.pc = "finalizing"]
      BY <2>3
    <3> QED
      BY <1>2, <1>3, <2>3, <3>1 DEF RecorderStates
  <2> QED
    BY <1>3, <2>1, <2>2, <2>3
<1>5. TypeInv'
  BY <1>4 DEF IInv, TypeInv
<1>6. HeldInv'
  BY DEF IInv, HeldInv
<1>7. \A s \in Sinks : Same(s)
  BY DEF Same
<1>8. CallInv' /\ StepInv' /\ ~ByMain' /\ ~ByRecorder'
  BY NoCall
<1>9. MainInv'
  BY <1>1, <1>7, <1>8, SinkFacts, MainKept
<1>10. recorder.pc = "attaching" => IF op.ok THEN Serving(x) ELSE Untouched(x)
  BY <1>1, <1>2 DEF IInv, StepInv
<1>11. recorder.pc # "attaching" => ~On(x)
  BY <1>1, <1>2 DEF IInv, StepInv
<1>12. RecorderInv'
  <2>1. \A s \in Recordings : s # x => Gone(s)'
    BY <1>2 DEF IInv, RecorderInv, Gone, Alive, On
  <2>2. x # None
    BY SinkFacts
  <2>3. recorder'.pc = "recording" => Serving(x)'
    BY <1>4, <1>10 DEF Serving, On
  <2>4. recorder'.pc \in {"abandoning", "discarding", "finalizing"} => ~On(x)'
    BY <1>4, <1>10, <1>11 DEF Untouched, On
  <2>5. recorder'.pc \in {"recording", "abandoning", "discarding", "finalizing"}
    BY <1>4
  <2> QED
    BY <1>4, <2>1, <2>2, <2>3, <2>4, <2>5 DEF RecorderInv, Serving, Gone, Alive, On
<1>13. SubmitInv' /\ TruthInv'
  BY CallEnds
<1> QED
  BY <1>5, <1>6, <1>8, <1>9, <1>12, <1>13 DEF IInv, MainInv

LEMMA StartRecordingKeeps == ASSUME IInv, StartRecording PROVE IInv'
<1> USE DEF StartRecording, routerVars, coordinatorVars
<1>1. PICK x \in FreshRecordings : recorder' = [recorder EXCEPT !.pc = "attaching", !.sink = x]
  OBVIOUS
<1>2. x \in Recordings /\ sink[x] = "new" /\ x # None
  BY <1>1, SinkFacts DEF FreshRecordings
<1>3. recorder' \in RecorderStates /\ recorder'.pc = "attaching" /\ recorder'.sink = x
  BY <1>1, <1>2 DEF IInv, TypeInv, RecorderStates
<1>4. TypeInv'
  BY <1>3 DEF IInv, TypeInv
<1>5. HeldInv'
  BY DEF IInv, HeldInv
<1>6. ~ByRecorder /\ ~ByRecorder' /\ (ByMain' <=> ByMain)
  BY DEF IInv, CallInv, ByRecorder, ByMain
<1>7. \A s \in Sinks : Same(s)
  BY DEF Same
<1>8. MainInv'
  BY <1>6, <1>7, SinkFacts, MainKept
<1>9. CallInv' /\ StepInv'
  BY <1>6, <1>7, SinkFacts, MainCallKept
<1>10. \A s \in Recordings : Gone(s)
  BY SinkFacts DEF IInv, RecorderInv
<1>11. RecorderInv'
  BY <1>2, <1>3, <1>10 DEF RecorderInv, Gone, Alive, On, Untouched
<1>12. SubmitInv' /\ TruthInv'
  BY RecordsKept
<1> QED
  BY <1>4, <1>5, <1>8, <1>9, <1>11, <1>12 DEF IInv, MainInv

LEMMA StopRecordingKeeps == ASSUME IInv, StopRecording PROVE IInv'
<1> USE DEF StopRecording, routerVars, coordinatorVars
<1>1. recorder' \in RecorderStates /\ recorder'.pc = "detaching" /\ recorder'.sink = recorder.sink
  BY DEF IInv, TypeInv, RecorderStates
<1>2. TypeInv'
  BY <1>1 DEF IInv, TypeInv
<1>3. HeldInv'
  BY DEF IInv, HeldInv
<1>4. ~ByRecorder /\ ~ByRecorder' /\ (ByMain' <=> ByMain)
  BY DEF IInv, CallInv, ByRecorder, ByMain, RecorderRests
<1>5. \A s \in Sinks : Same(s)
  BY DEF Same
<1>6. MainInv'
  BY <1>4, <1>5, SinkFacts, MainKept
<1>7. CallInv' /\ StepInv'
  BY <1>4, <1>5, SinkFacts, MainCallKept
<1>8. RecorderInv'
  BY <1>1 DEF IInv, RecorderInv, Gone, Alive, On
<1>9. SubmitInv' /\ TruthInv'
  BY RecordsKept
<1> QED
  BY <1>2, <1>3, <1>6, <1>7, <1>8, <1>9 DEF IInv, MainInv

LEMMA StopWavSinkKeeps == ASSUME IInv, StopWavSink PROVE IInv'
<1> USE DEF StopWavSink, coordinatorVars
<1>1. PICK x \in Recordings : x = recorder.sink
  BY DEF IInv, TypeInv, RecorderStates, RecorderInv
<1>2. PICK outcome \in StopOutcomes(x) : StopSink(x, outcome) /\ RecorderKeeps(outcome)
  BY <1>1
<1>3. /\ sink' \in [Sinks -> SinkStates]
      /\ sink'[x] \notin {"running", "dead"}
      /\ sink'[x] = "new" <=> sink[x] = "new"
      /\ \A s \in Sinks : s # x => sink'[s] = sink[s]
  BY <1>2, SinkFacts, StopFacts
<1>4. recorder' \in RecorderStates /\ recorder'.pc = "idle" /\ recorder'.sink \in {None, x}
  BY <1>1, <1>2 DEF RecorderKeeps, IInv, TypeInv, RecorderStates
<1>5. TypeInv'
  BY <1>3, <1>4 DEF IInv, TypeInv
<1>6. HeldInv'
  BY DEF IInv, HeldInv
<1>7. ~ByRecorder /\ ~ByRecorder' /\ (ByMain' <=> ByMain)
  BY DEF IInv, CallInv, ByRecorder, ByMain
<1>8. \A s \in Sinks : s # x => Same(s)
  BY <1>3 DEF Same
<1>9. \A d \in Destinations : Same(d)
  BY <1>8, SinkFacts
<1>10. MainInv'
  BY <1>7, <1>9, MainKept
<1>11. CallInv' /\ StepInv'
  BY <1>7, <1>9, MainCallKept
<1>12. ~On(x) /\ Gone(x)'
  <2>1. ~On(x)
    BY <1>1, SinkFacts DEF IInv, RecorderInv
  <2> QED
    BY <1>3, <2>1 DEF Gone, Alive, On
<1>13. \A s \in Recordings : Gone(s)'
  <2>1. \A s \in Recordings : s # x => Gone(s) /\ Same(s)
    BY <1>1, <1>8, SinkFacts DEF IInv, RecorderInv
  <2> QED
    BY <1>12, <2>1, SameFacts
<1>14. RecorderInv'
  BY <1>4, <1>12, <1>13 DEF RecorderInv, Gone, Alive, On
<1>15. SubmitInv' /\ TruthInv'
  <2>1. \A s \in Sinks : sink[s] = "new" => sink'[s] = "new"
    BY <1>3
  <2> QED
    BY <2>1, RecordsKept
<1> QED
  BY <1>5, <1>6, <1>10, <1>11, <1>14, <1>15 DEF IInv, MainInv

\* --------------------------------------------------- the main thread moves on
Places == Phases \cup {"idle", "cleanup", "closing", "runtimeStop", "stopped"}
Changes == [Names -> {"unchanged", "added", "removed", "replaced"}]
Resources == [Names -> Destinations \cup {None}]

LEMMA MainFields ==
  ASSUME main \in MainStates
  PROVE  /\ main.pc \in Places /\ main.at \in Names \cup {0} /\ main.closing \in BOOLEAN
         /\ main.change \in Changes /\ main.candidate \in Resources /\ main.previous \in Resources
  BY DEF MainStates, Places, Changes, Resources

\* The fields of the main thread's next state.
LEMMA AtMoves ==
  ASSUME IInv, NEW p \in Places, NEW a \in Names \cup {0}, main' = At(p, a)
  PROVE  /\ main' \in MainStates /\ main'.pc = p /\ main'.at = a
         /\ main'.change = main.change /\ main'.candidate = main.candidate
         /\ main'.previous = main.previous
         /\ Staged' = Staged /\ Outgoing' = Outgoing
<1>1. main \in MainStates
  BY AtFacts
<1>2. /\ main' \in MainStates /\ main'.pc = p /\ main'.at = a
      /\ main'.change = main.change /\ main'.candidate = main.candidate
      /\ main'.previous = main.previous
  BY <1>1 DEF At, MainStates, Places
<1> QED
  BY <1>2 DEF Staged, Outgoing

LEMMA DoneMoves ==
  ASSUME main' = Done
  PROVE  main' \in MainStates /\ main'.pc \in {"idle", "runtimeStop"} /\ main'.at = 0
<1>1. NoChange \in Changes /\ Nothing \in Resources
  BY DEF NoChange, Nothing, Changes, Resources
<1>2. PICK p \in {"idle", "runtimeStop"} : main' = Resting(p)
  BY DEF Done
<1>3. main'.pc = p /\ main'.at = 0
  BY <1>2 DEF Resting
<1>4. (p # "idle") \in BOOLEAN
  OBVIOUS
<1>5. main' \in MainStates
  BY <1>1, <1>2, <1>4 DEF Resting, MainStates, Changes, Resources
<1> QED
  BY <1>3, <1>5

\* Everything but the main thread's side, when it moves on with no call of its own,
\* or as its call returns.
Moves == \/ op' = op /\ ~ByMain
         \/ op' = NoOp /\ ByMain /\ op.step = "returned"

LEMMA MovesKeeps ==
  ASSUME IInv, Moves, UNCHANGED <<record, sink, submission, recorder>>
  PROVE  /\ HeldInv' /\ RecorderInv' /\ CallInv' /\ StepInv' /\ SubmitInv' /\ TruthInv'
         /\ ~ByMain' /\ op' \in Calls \cup {NoOp}
<1>1. HeldInv'
  BY DEF IInv, HeldInv
<1>2. \A s \in Recordings : Same(s)
  BY DEF Same
<1>3. CASE op' = op /\ ~ByMain
  <2>1. ~ByMain' /\ (ByRecorder' <=> ByRecorder)
    BY <1>3 DEF ByMain, ByRecorder
  <2>2. RecorderInv'
    BY <1>2, <2>1, MainSide
  <2>3. CallInv'
    BY <1>3, <2>1 DEF IInv, CallInv
  <2>4. StepInv'
    <3>1. op # NoOp => ByRecorder
      BY <1>3, OpFacts
    <3> QED
      BY <1>3, <2>1, <3>1 DEF IInv, StepInv, On, Untouched, Gone, Alive, Serving
  <2>5. SubmitInv' /\ TruthInv'
    BY <1>3, RecordsKept
  <2> QED
    BY <1>1, <1>3, <2>1, <2>2, <2>3, <2>4, <2>5 DEF IInv, TypeInv
<1>4. CASE op' = NoOp /\ ByMain /\ op.step = "returned"
  <2>1. CallInv' /\ StepInv' /\ ~ByMain' /\ ~ByRecorder'
    BY <1>4, NoCall
  <2>2. ~ByRecorder
    BY <1>4, OpFacts
  <2>3. RecorderInv'
    BY <1>2, <2>1, <2>2, MainSide
  <2>4. SubmitInv' /\ TruthInv'
    BY <1>4, CallEnds
  <2> QED
    BY <1>1, <1>4, <2>1, <2>3, <2>4
<1> QED
  BY <1>3, <1>4 DEF Moves

\* From one phase of a replacement to the next.
LEMMA PhaseMoves ==
  ASSUME IInv, Moves, Replacing, NEW p \in Phases, NEW a \in Names \cup {0}, main' = At(p, a),
         p # "stage" => a \in Staged,
         p \in {"detachPrevious", "rollbackPrevious"} => main.change[a] = "replaced",
         UNCHANGED <<configured, built, running, record, sink, submission, recorder, reported>>,
         \A d \in publishing' : d \in publishing \/ (d \in Destinations /\ d <= built /\ Owned(d)),
         \A d \in publishing : d \in publishing',
         \A i \in Names : PreviousDetached(i)' <=> PreviousDetached(i),
         \A i \in Staged, c \in Destinations : c = main.candidate[i] => CandidateOK(i, c)'
  PROVE  IInv'
<1>1. /\ main' \in MainStates /\ main'.pc = p /\ main'.at = a
      /\ main'.change = main.change /\ main'.candidate = main.candidate
      /\ Staged' = Staged /\ Outgoing' = Outgoing
  BY AtMoves DEF Places
<1>2. /\ HeldInv' /\ RecorderInv' /\ CallInv' /\ StepInv' /\ SubmitInv' /\ TruthInv'
      /\ op' \in Calls \cup {NoOp}
  BY MovesKeeps
<1>3. publishing' \in SUBSET Destinations
  BY DEF IInv, TypeInv
<1>4. TypeInv'
  BY <1>1, <1>2, <1>3 DEF IInv, TypeInv
<1>5. Replacing' /\ main'.pc # "cleanup" /\ main'.pc # "stopped" /\ main.pc # "stopped"
  BY <1>1 DEF Replacing, Phases
<1>6. ShapeInv'
  BY <1>1, <1>5 DEF IInv, ShapeInv, Change
<1>7. OwnInv'
  BY <1>1, <1>5 DEF IInv, OwnInv
<1>8. ConfiguredInv'
  <2>1. ASSUME NEW i \in Names, NEW s, s = configured[i] PROVE ConfiguredOK(i, s)'
    <3>1. ConfiguredOK(i, s)
      BY <2>1 DEF IInv, ConfiguredInv
    <3> QED
      BY <3>1 DEF ConfiguredOK, On
  <2> QED
    BY <2>1 DEF ConfiguredInv
<1>9. CandidateInv'
  <2>1. ASSUME NEW i \in Staged, NEW c, c = main.candidate[i] PROVE CandidateOK(i, c)'
    BY <2>1, ResourceFacts DEF Staged
  <2> QED
    BY <1>1, <2>1 DEF CandidateInv
<1>10. PreviousInv'
  BY <1>5 DEF PreviousInv
<1>11. DestinationInv'
  <2>1. \A d : Owned(d)' <=> Owned(d)
    <3>1. main.pc # "cleanup"
      BY DEF Replacing, Phases
    <3> QED
      BY <1>1, <1>5, <3>1 DEF Owned
  <2>2. ASSUME NEW d \in Destinations
        PROVE  /\ d > built => Untouched(d)' /\ d \notin publishing'
               /\ On(d)' \/ Alive(d)' \/ ~Quit(d)' => Owned(d)'
    <3>1. /\ d > built => Untouched(d) /\ d \notin publishing
          /\ On(d) \/ Alive(d) \/ ~Quit(d) => Owned(d)
      BY DEF IInv, DestinationInv
    <3>2. (Untouched(d)' <=> Untouched(d)) /\ (On(d)' <=> On(d)) /\ (Alive(d)' <=> Alive(d))
      BY DEF Untouched, On, Alive
    <3>3. d \in publishing' => d \in publishing \/ (d <= built /\ Owned(d))
      OBVIOUS
    <3>4. d \in Nat /\ built \in Nat
      BY SinkFacts DEF IInv, TypeInv
    <3>5. ~Quit(d)' => ~Quit(d) \/ Owned(d)
      BY <3>3 DEF Quit
    <3> QED
      BY <2>1, <3>1, <3>2, <3>3, <3>4, <3>5
  <2> QED
    BY <2>2 DEF DestinationInv
<1> QED
  BY <1>2, <1>4, <1>6, <1>7, <1>8, <1>9, <1>10, <1>11 DEF IInv

\* The main thread is neither replacing nor cleaning up: every destination that is
\* configured is served, and no other one does anything.
LEMMA Rests ==
  ASSUME IInv, main' \in MainStates, main'.pc \notin Phases \cup {"cleanup"},
         running' \in BOOLEAN, running' <=> main'.pc # "stopped", UNCHANGED built,
         configured' \in Resources,
         \A i \in Names, s \in Destinations : s = configured'[i] =>
           s <= built /\ On(s)' /\ (sink[s] # "new")',
         \A i, j \in Names : configured'[i] # None /\ configured'[i] = configured'[j] => i = j,
         \A d \in Destinations :
           /\ d > built => Untouched(d)' /\ d \notin publishing'
           /\ On(d)' \/ Alive(d)' \/ ~Quit(d)' => \E i \in Names : d = configured'[i]
  PROVE  MainInv'
<1>1. ~Replacing' /\ main'.pc # "cleanup" /\ \A i : ~PreviousDetached(i)'
  BY DEF Replacing, PreviousDetached
<1>2. ShapeInv'
  BY <1>1 DEF ShapeInv, Phases
<1>3. OwnInv'
  <2>1. \A i \in Names : configured'[i] # None => configured'[i] \in Destinations
    BY DEF Resources
  <2> QED
    BY <1>1, <2>1 DEF OwnInv
<1>4. ConfiguredInv'
  <2>1. ASSUME NEW i \in Names, NEW s, s = configured'[i]
        PROVE  s # None => (sink[s] # "new")' /\ (On(s)' <=> ~PreviousDetached(i)')
    <3>1. s \in Destinations \cup {None}
      BY <2>1 DEF Resources
    <3> QED
      BY <1>1, <2>1, <3>1
  <2> QED
    BY <2>1 DEF ConfiguredInv, ConfiguredOK, On
<1>5. CandidateInv' /\ PreviousInv'
  BY <1>1 DEF CandidateInv, PreviousInv
<1>6. DestinationInv'
  BY DEF DestinationInv, Owned
<1> QED
  BY <1>2, <1>3, <1>4, <1>5, <1>6 DEF MainInv

\* What a sink or a resource is, when nothing happens to it.
LEMMA Still ==
  ASSUME UNCHANGED <<record, sink, reported>>, NEW d
  PROVE  /\ On(d)' <=> On(d)
         /\ Untouched(d)' <=> Untouched(d)
         /\ Gone(d)' <=> Gone(d)
         /\ Serving(d)' <=> Serving(d)
         /\ Alive(d)' <=> Alive(d)
         /\ (d \in publishing' <=> d \in publishing) => (Quit(d)' <=> Quit(d))
  BY DEF On, Untouched, Gone, Serving, Alive, Quit

LEMMA StageNextKeeps == ASSUME IInv, StageNext PROVE IInv'
<1> USE DEF StageNext, routerVars
<1>1. Replacing /\ ~ByMain
  BY DEF Replacing, Phases, IInv, CallInv
<1>2. main.at \in Nat /\ Names \subseteq Nat /\ Staged \subseteq Names
  <2>1. Staged \subseteq Names
    BY DEF Staged
  <2>2. main.at \in Names \cup {0} /\ Names \subseteq Nat
    BY AtFacts, SinkFacts
  <2>3. main.at \in Nat
    <3>1. CASE main.at = 0
      BY <3>1
    <3>2. CASE main.at \in Names
      BY <2>2, <3>2
    <3> QED
      BY <2>2, <3>1, <3>2
  <2> QED
    BY <2>1, <2>2, <2>3
<1>3. PICK next : next = Min({j \in Staged : j > main.at})
  OBVIOUS
<1>4. next \in Staged /\ next > main.at /\ \A j \in Staged : j > main.at => next <= j
  <2> DEFINE later == {j \in Staged : j > main.at}
  <2>1. later \subseteq Nat /\ later # {}
    BY <1>2
  <2>2. Min(later) \in later /\ \A j \in later : Min(later) <= j
    BY <2>1, MinFacts
  <2> QED
    BY <1>3, <2>2
<1>5. PICK p \in {"detachPrevious", "attachCandidate"} :
        main' = At(p, next) /\ (p = "detachPrevious" <=> main.change[next] = "replaced")
  BY <1>3 DEF StageAfter
<1>6. next \in Names /\ next \in Nat
  BY <1>2, <1>4
<1>7. main'.pc = p /\ main'.at = next /\ main'.change = main.change
  BY <1>5, <1>6, AtMoves DEF Places, Phases
<1>8. ~ByMain' /\ Moves /\ Replacing'
  BY <1>1, <1>5, <1>7 DEF ByMain, Moves, Replacing, Phases
<1>9. ASSUME NEW i \in Names PROVE PreviousDetached(i)' <=> PreviousDetached(i)
  <2>1. i \in Nat /\ (main.change[i] = "replaced" => i \in Staged)
    BY <1>2 DEF Staged
  <2> QED
    BY <1>1, <1>2, <1>4, <1>5, <1>6, <1>7, <1>8, <2>1 DEF PreviousDetached
<1>10. ASSUME NEW i \in Staged, NEW c \in Destinations, c = main.candidate[i] PROVE CandidateOK(i, c)'
  <2>1. i \in Nat /\ (i > main.at => next <= i)
    BY <1>2, <1>4
  <2>2. /\ i > main.at => Untouched(c) /\ c \notin publishing
        /\ i <= main.at => Serving(c)
    BY <1>1, <1>2, <1>10, <2>1 DEF IInv, CandidateInv, CandidateOK, Back
  <2>3. /\ i >= next => Untouched(c)' /\ c \notin publishing'
        /\ i < next => Serving(c)'
    BY <1>2, <1>4, <1>6, <2>1, <2>2, Still
  <2> QED
    BY <1>5, <1>6, <1>7, <1>8, <2>1, <2>3 DEF CandidateOK, Back
<1> QED
  BY <1>1, <1>4, <1>5, <1>6, <1>8, <1>9, <1>10, PhaseMoves DEF Phases

\* The replacement is where it was, at the same name, and goes on or turns back.
LEMMA Turns ==
  ASSUME IInv, Moves, Replacing, main.pc # "stage", NEW p \in Phases, main' = At(p, main.at),
         p \in {"detachPrevious", "rollbackPrevious"} => Change = "replaced",
         main.pc \in Back => p \in Back,
         UNCHANGED <<configured, built, running, record, sink, submission, recorder, reported>>,
         publishing \subseteq publishing', publishing' \subseteq publishing \cup {Candidate},
         \A i : i = main.at => (PreviousDetached(i)' <=> PreviousDetached(i)),
         \A i, c : i = main.at /\ i \in Nat /\ c = Candidate => CandidateOK(i, c)'
  PROVE  IInv'
<1>1. main.at \in Names /\ main.at \in Staged /\ Candidate \in Destinations
  BY AtFacts
<1>2. main'.pc = p /\ main'.at = main.at /\ main'.change = main.change /\ Replacing'
  BY <1>1, AtMoves DEF Places, Replacing
<1>3. \A d \in publishing' : d \in publishing \/ (d \in Destinations /\ d <= built /\ Owned(d))
  <2>1. Candidate <= built /\ Owned(Candidate)
    BY <1>1 DEF IInv, OwnInv, Owned, Candidate
  <2> QED
    BY <1>1, <2>1
<1>4. \A i \in Names : PreviousDetached(i)' <=> PreviousDetached(i)
  <2>1. \A i \in Names : i # main.at => (PreviousDetached(i)' <=> PreviousDetached(i))
    BY <1>2 DEF PreviousDetached
  <2> QED
    BY <2>1
<1>5. ASSUME NEW i \in Staged, NEW c \in Destinations, c = main.candidate[i] PROVE CandidateOK(i, c)'
  <2>1. i \in Nat /\ main.at \in Nat
    BY <1>1, SinkFacts DEF Staged
  <2>2. CASE i = main.at
    BY <1>5, <2>1, <2>2 DEF Candidate
  <2>3. CASE i # main.at
    <3>1. c # Candidate
      BY <1>1, <1>5, <2>3 DEF IInv, OwnInv, Candidate
    <3>2. c \in publishing' <=> c \in publishing
      BY <3>1
    <3>3. /\ i > main.at => IF main.pc \in Back THEN Gone(c) /\ Quit(c) ELSE Untouched(c) /\ c \notin publishing
          /\ i < main.at => Serving(c)
      BY <1>5 DEF IInv, CandidateInv, CandidateOK
    <3>4. Untouched(c) /\ c \notin publishing => Gone(c) /\ Quit(c)
      BY DEF Untouched, Gone, Quit, Alive
    <3>5. /\ i > main.at => IF p \in Back THEN Gone(c) /\ Quit(c) ELSE Untouched(c) /\ c \notin publishing
          /\ i < main.at => Serving(c)
      BY <3>3, <3>4
    <3>6. /\ i > main.at => IF p \in Back THEN Gone(c)' /\ Quit(c)' ELSE Untouched(c)' /\ c \notin publishing'
          /\ i < main.at => Serving(c)'
      BY <3>2, <3>5, Still
    <3> QED
      BY <1>2, <2>3, <3>6 DEF CandidateOK
  <2> QED
    BY <2>2, <2>3
<1> QED
  BY <1>1, <1>3, <1>4, <1>5, PhaseMoves DEF Change

LEMMA PublishKeeps == ASSUME IInv, Publish PROVE IInv'
<1> USE DEF Publish, routerVars
<1>1. Replacing /\ ~ByMain /\ main.at \in Names /\ main.at \in Staged
  BY AtFacts DEF Replacing, Phases, IInv, CallInv
<1>2. Serving(Candidate) /\ Candidate \notin publishing
  BY <1>1 DEF IInv, CandidateInv, CandidateOK, Candidate
<1>3. Moves /\ ~ByMain'
  BY <1>1 DEF Moves, ByMain
<1>4. CASE publishing' = publishing \cup {Candidate} /\ main' = At("stage", main.at)
  <2>1. main'.pc = "stage" /\ main'.at = main.at /\ main'.change = main.change /\ Replacing'
    BY <1>1, <1>4, AtMoves DEF Places, Phases, Replacing
  <2>2. \A i : i = main.at => (PreviousDetached(i)' <=> PreviousDetached(i))
    BY <1>1, <2>1 DEF PreviousDetached
  <2>3. ASSUME NEW i, NEW c, i = main.at, i \in Nat, c = Candidate PROVE CandidateOK(i, c)'
    <3>1. Serving(c)'
      BY <1>2, <2>3, Still
    <3> QED
      BY <2>1, <2>3, <3>1 DEF CandidateOK
  <2> QED
    BY <1>1, <1>3, <1>4, <2>2, <2>3, Turns DEF Phases, Back
<1>5. CASE main' = At("rollbackCandidate", main.at) /\ publishing' = publishing
  <2>1. main'.pc = "rollbackCandidate" /\ main'.at = main.at /\ main'.change = main.change /\ Replacing'
    BY <1>1, <1>5, AtMoves DEF Places, Phases, Replacing
  <2>2. \A i : i = main.at => (PreviousDetached(i)' <=> PreviousDetached(i))
    BY <1>1, <2>1 DEF PreviousDetached
  <2>3. ASSUME NEW i, NEW c, i = main.at, i \in Nat, c = Candidate PROVE CandidateOK(i, c)'
    <3>1. Serving(c)'
      BY <1>2, <2>3, Still
    <3> QED
      BY <1>3, <2>1, <2>3, <3>1 DEF CandidateOK
  <2> QED
    BY <1>1, <1>3, <1>5, <2>2, <2>3, Turns DEF Phases, Back
<1> QED
  BY <1>4, <1>5

\* The call that returned was the main thread's: which step goes on to which.
LEMMA ReturnsOnward ==
  ASSUME IInv, RuntimeReturns,
         \/ main.pc \in {"detachPrevious", "attachCandidate"}
         \/ main.pc = "rollbackCandidate" /\ Change = "replaced"
  PROVE  IInv'
<1> USE DEF RuntimeReturns, routerVars
<1>1. Replacing /\ ByMain /\ main.at \in Names /\ main.at \in Staged /\ main.at \in Nat /\ op # NoOp
  BY AtFacts, OpFacts, SinkFacts DEF Replacing, Phases, ByMain
<1>2. Moves /\ ~ByMain'
  BY <1>1, NoCall DEF Moves
<1>3. PICK x \in Destinations : x = Candidate
  BY <1>1, AtFacts DEF Replacing, Phases
<1>4. CASE main.pc = "detachPrevious"
  <2>1. main' = At("attachCandidate", main.at)
    BY <1>4
  <2>2. main'.pc = "attachCandidate" /\ main'.at = main.at /\ main'.change = main.change /\ Replacing'
    BY <1>1, <2>1, AtMoves DEF Places, Phases, Replacing
  <2>3. \A i : i = main.at => (PreviousDetached(i)' <=> PreviousDetached(i))
    BY <1>1, <1>4, <2>2 DEF PreviousDetached
  <2>4. Untouched(x) /\ x \notin publishing
    BY <1>1, <1>3, <1>4 DEF IInv, CandidateInv, CandidateOK, Candidate
  <2>5. ASSUME NEW i, NEW c, i = main.at, i \in Nat, c = Candidate PROVE CandidateOK(i, c)'
    <3>1. Untouched(c)' /\ c \notin publishing'
      BY <1>3, <2>4, <2>5, Still
    <3> QED
      BY <2>2, <2>5, <3>1 DEF CandidateOK
  <2> QED
    BY <1>1, <1>2, <1>4, <2>1, <2>3, <2>5, Turns DEF Phases, Back
<1>5. CASE main.pc = "attachCandidate"
  <2>1. PICK p \in {"publish", "rollbackCandidate"} :
          main' = At(p, main.at) /\ (p = "publish" <=> op.ok)
    BY <1>5
  <2>2. main'.pc = p /\ main'.at = main.at /\ main'.change = main.change /\ Replacing'
    BY <1>1, <2>1, AtMoves DEF Places, Phases, Replacing
  <2>3. \A i : i = main.at => (PreviousDetached(i)' <=> PreviousDetached(i))
    BY <1>1, <1>5, <2>2 DEF PreviousDetached
  <2>4. x \notin publishing /\ (IF op.ok THEN Serving(x) ELSE Untouched(x))
    <3>1. op.sink = x
      BY <1>1, <1>3, <1>5 DEF IInv, CallInv
    <3> QED
      BY <1>1, <1>3, <1>5, <3>1 DEF IInv, CandidateInv, CandidateOK, Candidate, StepInv
  <2>5. ASSUME NEW i, NEW c, i = main.at, i \in Nat, c = Candidate PROVE CandidateOK(i, c)'
    <3>1. c \notin publishing' /\ (IF op.ok THEN Serving(c)' ELSE Untouched(c)')
      BY <1>3, <2>4, <2>5, Still
    <3> QED
      BY <1>2, <2>1, <2>2, <2>5, <3>1 DEF CandidateOK
  <2> QED
    BY <1>1, <1>2, <1>5, <2>1, <2>3, <2>5, Turns DEF Phases, Back
<1>6. CASE main.pc = "rollbackCandidate" /\ Change = "replaced"
  <2>1. main' = At("rollbackPrevious", main.at)
    BY <1>6
  <2>2. main'.pc = "rollbackPrevious" /\ main'.at = main.at /\ main'.change = main.change /\ Replacing'
    BY <1>1, <2>1, AtMoves DEF Places, Phases, Replacing
  <2>3. \A i : i = main.at => (PreviousDetached(i)' <=> PreviousDetached(i))
    BY <1>1, <1>2, <1>6, <2>2 DEF PreviousDetached
  <2>4. Gone(x) /\ Quit(x)
    <3>1. op.sink = x /\ op.stop
      BY <1>1, <1>3, <1>6 DEF IInv, CallInv
    <3> QED
      BY <1>1, <1>3, <1>6, <3>1 DEF IInv, CandidateInv, CandidateOK, Candidate, StepInv
  <2>5. ASSUME NEW i, NEW c, i = main.at, i \in Nat, c = Candidate PROVE CandidateOK(i, c)'
    <3>1. Gone(c)' /\ Quit(c)'
      BY <1>3, <2>4, <2>5, Still
    <3> QED
      BY <2>2, <2>5, <3>1 DEF CandidateOK
  <2> QED
    BY <1>1, <1>2, <1>6, <2>1, <2>3, <2>5, Turns DEF Phases, Back
<1> QED
  BY <1>4, <1>5, <1>6

\* Names to the left of one.
LEMMA LeftFacts ==
  ASSUME NEW T, T \subseteq Names, NEW a \in Nat, NEW left, left = {j \in T : j < a}, left # {}
  PROVE  Max(left) \in left /\ \A j \in T : j < a => j <= Max(left)
<1>1. NameCount \in Nat /\ left \subseteq 0 .. NameCount
  <2>1. NameCount \in Nat /\ \A j \in Names : j \in 0 .. NameCount
    BY RoutingAssumption DEF Names
  <2>2. left \subseteq Names
    OBVIOUS
  <2> QED
    BY <2>1, <2>2
<1>2. Max(left) \in left /\ \A y \in left : y <= Max(left)
  BY <1>1, MaxFacts
<1> QED
  BY <1>2

\* The rollback of a name is over, and with it perhaps the replacement.
LEMMA ReturnsBack ==
  ASSUME IInv, RuntimeReturns,
         \/ main.pc = "rollbackCandidate" /\ Change # "replaced"
         \/ main.pc = "rollbackPrevious"
  PROVE  IInv'
<1> USE DEF RuntimeReturns, routerVars
<1>1. Replacing /\ ByMain /\ main.at \in Names /\ main.at \in Staged /\ main.at \in Nat /\ op # NoOp
        /\ Staged \subseteq Names /\ Names \subseteq Nat
  BY AtFacts, OpFacts, SinkFacts DEF Replacing, Phases, ByMain, Staged
<1>2. Moves /\ ~ByMain' /\ op' = NoOp
  BY <1>1, NoCall DEF Moves
<1>3. PICK x \in Destinations : x = Candidate
  BY <1>1, AtFacts DEF Replacing, Phases
<1>4. PICK left : left = {j \in Staged : j < main.at}
  OBVIOUS
<1>5. main' = IF left = {} THEN Done ELSE At("rollbackCandidate", Max(left))
  <2>1. main' = RollbackBefore(main.at)
    OBVIOUS
  <2> QED
    BY <1>4, <2>1 DEF RollbackBefore
<1>6. Gone(x) /\ Quit(x)
  <2>1. CASE main.pc = "rollbackCandidate"
    <3>1. op.sink = x /\ op.stop
      BY <1>1, <1>3, <2>1 DEF IInv, CallInv
    <3> QED
      BY <1>1, <1>3, <2>1, <3>1 DEF IInv, CandidateInv, CandidateOK, Candidate, StepInv
  <2>2. CASE main.pc = "rollbackPrevious"
    BY <1>1, <1>3, <2>2 DEF IInv, CandidateInv, CandidateOK, Candidate
  <2> QED
    BY <2>1, <2>2
<1>7. ASSUME NEW i \in Staged, NEW c \in Destinations, c = main.candidate[i]
      PROVE  /\ i >= main.at => Gone(c) /\ Quit(c)
             /\ i < main.at => Serving(c)
  <2>1. i \in Nat /\ (i = main.at => c = x)
    BY <1>1, <1>3, <1>7 DEF Candidate
  <2>2. CandidateOK(i, c)
    BY <1>1, <1>7 DEF IInv, CandidateInv
  <2> QED
    BY <1>1, <1>6, <2>1, <2>2 DEF CandidateOK, Back
<1>8. ASSUME NEW i \in Names PROVE PreviousDetached(i) <=> main.change[i] = "replaced" /\ i < main.at
  BY <1>1 DEF PreviousDetached, Change
<1>9. CASE left = {}
  <2>1. main' \in MainStates /\ main'.pc \in {"idle", "runtimeStop"}
    BY <1>5, <1>9, DoneMoves
  <2>2. /\ HeldInv' /\ RecorderInv' /\ CallInv' /\ StepInv' /\ SubmitInv' /\ TruthInv'
        /\ op' \in Calls \cup {NoOp}
    BY <1>2, MovesKeeps
  <2>3. TypeInv'
    BY <2>1, <2>2 DEF IInv, TypeInv
  <2>4. running /\ configured \in Resources
    BY <1>1 DEF IInv, TypeInv, ShapeInv, Replacing, Phases, Resources
  <2>5. ASSUME NEW i \in Names, NEW s \in Destinations, s = configured[i]
        PROVE  s <= built /\ On(s)' /\ (sink[s] # "new")'
    <3>1. ~PreviousDetached(i) /\ s # None
      <4>1. main.change[i] = "replaced" => i \in Staged
        BY DEF Staged
      <4> QED
        BY <1>4, <1>8, <1>9, <2>5, <4>1, SinkFacts
    <3>2. s <= built /\ On(s) /\ sink[s] # "new"
      BY <2>5, <3>1 DEF IInv, OwnInv, ConfiguredInv, ConfiguredOK
    <3> QED
      BY <3>2, Still
  <2>6. \A i, j \in Names : configured[i] # None /\ configured[i] = configured[j] => i = j
    BY DEF IInv, OwnInv
  <2>7. ASSUME NEW d \in Destinations
        PROVE  /\ d > built => Untouched(d)' /\ d \notin publishing'
               /\ On(d)' \/ Alive(d)' \/ ~Quit(d)' => \E i \in Names : d = configured[i]
    <3>1. /\ d > built => Untouched(d) /\ d \notin publishing
          /\ On(d) \/ Alive(d) \/ ~Quit(d) => Owned(d)
      BY DEF IInv, DestinationInv
    <3>2. ASSUME NEW i \in Staged, d = main.candidate[i] PROVE ~On(d) /\ ~Alive(d) /\ Quit(d)
      <4>1. i >= main.at
        BY <1>1, <1>4, <1>9
      <4> QED
        BY <1>7, <3>2, <4>1 DEF Gone
    <3>3. On(d) \/ Alive(d) \/ ~Quit(d) => \E i \in Names : d = configured[i]
      <4>1. main.pc # "cleanup"
        BY <1>1 DEF Replacing, Phases
      <4> QED
        BY <3>1, <3>2, <4>1 DEF Owned
    <3>4. publishing' = publishing
      OBVIOUS
    <3> QED
      BY <3>1, <3>3, <3>4, Still
  <2>8. running' <=> main'.pc # "stopped"
    BY <2>1, <2>4
  <2>9. main'.pc \notin Phases \cup {"cleanup"}
    BY <2>1 DEF Phases
  <2>10. configured' = configured /\ built' = built /\ running' \in BOOLEAN
    BY <2>3 DEF TypeInv
  <2>11. MainInv'
    BY <2>1, <2>4, <2>5, <2>6, <2>7, <2>8, <2>9, <2>10, Rests
  <2> QED
    BY <2>2, <2>3, <2>11 DEF IInv, MainInv
<1>10. CASE left # {}
  <2>1. PICK a : a = Max(left)
    OBVIOUS
  <2>2. a \in Staged /\ a < main.at /\ \A j \in Staged : j < main.at => j <= a
    BY <1>1, <1>4, <1>10, <2>1, LeftFacts
  <2>3. main' = At("rollbackCandidate", a) /\ a \in Names /\ a \in Nat
    BY <1>1, <1>5, <1>10, <2>1, <2>2
  <2>4. main'.pc = "rollbackCandidate" /\ main'.at = a /\ main'.change = main.change /\ Replacing'
    BY <2>3, AtMoves DEF Places, Phases, Replacing
  <2>5. ASSUME NEW i \in Names PROVE PreviousDetached(i)' <=> PreviousDetached(i)
    <3>1. i \in Nat /\ (main.change[i] = "replaced" => i \in Staged)
      BY <1>1 DEF Staged
    <3>2. PreviousDetached(i)' <=> main.change[i] = "replaced" /\ i <= a
      BY <2>3, <2>4, <3>1 DEF PreviousDetached
    <3>3. main.change[i] = "replaced" => (i <= a <=> i < main.at)
      BY <1>1, <2>2, <2>3, <3>1
    <3> QED
      BY <1>8, <3>2, <3>3
  <2>6. ASSUME NEW i \in Staged, NEW c \in Destinations, c = main.candidate[i] PROVE CandidateOK(i, c)'
    <3>1. i \in Nat /\ (i > a => i >= main.at) /\ (i <= a => i < main.at)
      BY <1>1, <2>2, <2>3
    <3>2. /\ i > a => Gone(c) /\ Quit(c)
          /\ i <= a => Serving(c)
      BY <1>7, <2>6, <3>1
    <3>3. publishing' = publishing
      OBVIOUS
    <3>4. /\ i > a => Gone(c)' /\ Quit(c)'
          /\ i <= a => Serving(c)'
      BY <3>2, <3>3, Still
    <3> QED
      BY <1>2, <2>3, <2>4, <3>1, <3>4 DEF CandidateOK, Back
  <2> QED
    BY <1>1, <1>2, <2>2, <2>3, <2>5, <2>6, PhaseMoves DEF Phases
<1> QED
  BY <1>9, <1>10

\* The cleanup of a name is over, and with it perhaps the whole.
LEMMA CleanupMoves ==
  ASSUME IInv, main.pc = "cleanup", main' = CleanupBefore(main.at),
         UNCHANGED <<configured, built, running, record>>, ~ByMain',
         \A d \in Destinations : d # Previous => SameResource(d),
         \A s : s = Previous => Gone(s)' /\ Quit(s)'
  PROVE  MainInv' /\ main' \in MainStates
<1>1. main.at \in Names /\ main.at \in Outgoing /\ main.at \in Nat /\ Previous \in Destinations
        /\ Outgoing \subseteq Names /\ Names \subseteq Nat /\ ~Replacing /\ running
  <2>1. main.at \in Names /\ main.at \in Outgoing /\ Previous \in Destinations
    BY AtFacts
  <2>2. Outgoing \subseteq Names /\ Names \subseteq Nat
    BY SinkFacts DEF Outgoing
  <2>3. ~Replacing /\ running
    BY DEF Replacing, Phases, IInv, ShapeInv
  <2> QED
    BY <2>1, <2>2, <2>3
<1>2. PICK x \in Destinations : x = Previous
  BY <1>1
<1>3. PICK left : left = {j \in Outgoing : j < main.at}
  OBVIOUS
<1>4. main' = IF left = {} THEN Done ELSE [At("cleanup", Max(left)) EXCEPT !.previous = main.previous]
  BY <1>3 DEF CleanupBefore, Held
<1>5. ASSUME NEW d, SameResource(d)
      PROVE  /\ On(d)' <=> On(d)
             /\ Untouched(d)' <=> Untouched(d)
             /\ Alive(d)' <=> Alive(d)
             /\ Quit(d)' <=> Quit(d)
             /\ (sink[d] # "new")' <=> sink[d] # "new"
             /\ d \in publishing' <=> d \in publishing
  BY <1>5, SameFacts DEF SameResource, Quit
<1>6. ~On(x)' /\ ~Alive(x)' /\ Quit(x)' /\ x # None /\ x <= built
  <2>1. Gone(x)' /\ Quit(x)'
    BY <1>2
  <2> QED
    BY <1>1, <1>2, <2>1, SinkFacts DEF Gone, IInv, OwnInv, Previous, On, Alive
<1>7. ASSUME NEW i \in Outgoing, NEW s \in Destinations, s = main.previous[i]
      PROVE  /\ i >= main.at => ~On(s)' /\ ~Alive(s)' /\ Quit(s)'
             /\ i < main.at => (sink[s] # "new")' /\ (On(s)' <=> main.change[i] = "removed")
  <2>1. CASE i = main.at
    BY <1>1, <1>2, <1>6, <1>7, <2>1 DEF Previous
  <2>2. CASE i # main.at
    <3>1. s # x
      BY <1>1, <1>2, <1>7, <2>2 DEF IInv, OwnInv, Previous
    <3>2. PreviousOK(i, s)
      BY <1>7 DEF IInv, PreviousInv
    <3>3. i \in Nat
      BY <1>1
    <3>4. /\ i > main.at => ~On(s) /\ ~Alive(s) /\ Quit(s)
          /\ i < main.at => sink[s] # "new" /\ (On(s) <=> main.change[i] = "removed")
      BY <1>1, <3>2, <3>3 DEF PreviousOK
    <3> QED
      BY <1>1, <1>2, <1>5, <2>2, <3>1, <3>3, <3>4
  <2> QED
    BY <2>1, <2>2
<1>8. ASSUME NEW i \in Names, NEW s \in Destinations, s = configured[i]
      PROVE  s <= built /\ On(s)' /\ (sink[s] # "new")' /\ s # x
  <2>1. s # None /\ ~PreviousDetached(i)
    BY <1>1, SinkFacts DEF PreviousDetached
  <2>2. s # x
    BY <1>1, <1>2, <1>8 DEF IInv, OwnInv, Previous
  <2>3. s <= built /\ On(s) /\ sink[s] # "new"
    BY <1>8, <2>1 DEF IInv, OwnInv, ConfiguredInv, ConfiguredOK
  <2> QED
    BY <1>2, <1>5, <2>2, <2>3
<1>9. ASSUME NEW d \in Destinations
      PROVE  /\ d > built => Untouched(d)' /\ d \notin publishing'
             /\ On(d)' \/ Alive(d)' \/ ~Quit(d)' => Owned(d) /\ d # x
  <2>1. CASE d = x
    <3>1. d \in Nat /\ built \in Nat
      BY SinkFacts DEF IInv, TypeInv
    <3> QED
      BY <1>6, <2>1, <3>1
  <2>2. CASE d # x
    <3>1. /\ d > built => Untouched(d) /\ d \notin publishing
          /\ On(d) \/ Alive(d) \/ ~Quit(d) => Owned(d)
      BY DEF IInv, DestinationInv
    <3> QED
      BY <1>2, <1>5, <2>2, <3>1
  <2> QED
    BY <2>1, <2>2
<1>10. \A i, j \in Names : configured[i] # None /\ configured[i] = configured[j] => i = j
  BY DEF IInv, OwnInv
<1>11. CASE left = {}
  <2>1. main' \in MainStates /\ main'.pc \in {"idle", "runtimeStop"}
    BY <1>4, <1>11, DoneMoves
  <2>2. ASSUME NEW d \in Destinations
        PROVE  On(d)' \/ Alive(d)' \/ ~Quit(d)' => \E i \in Names : d = configured[i]
    <3>1. ASSUME NEW i \in Outgoing, d = main.previous[i] PROVE ~(On(d)' \/ Alive(d)' \/ ~Quit(d)')
      <4>1. i >= main.at
        BY <1>1, <1>3, <1>11
      <4> QED
        BY <1>7, <3>1, <4>1
    <3>2. Owned(d) => (\E i \in Names : d = configured[i]) \/ \E i \in Outgoing : d = main.previous[i]
      BY <1>1 DEF Owned
    <3> QED
      BY <1>9, <3>1, <3>2
  <2>3. running' <=> main'.pc # "stopped"
    BY <1>1, <2>1
  <2>4. main'.pc \notin Phases \cup {"cleanup"}
    BY <2>1 DEF Phases
  <2>5. configured' = configured /\ built' = built /\ running' \in BOOLEAN /\ configured' \in Resources
    BY DEF IInv, TypeInv, Resources
  <2>6. MainInv'
    BY <1>8, <1>9, <1>10, <2>1, <2>2, <2>3, <2>4, <2>5, Rests
  <2> QED
    BY <2>1, <2>6
<1>12. CASE left # {}
  <2>1. PICK a : a = Max(left)
    OBVIOUS
  <2>2. a \in Outgoing /\ a < main.at /\ \A j \in Outgoing : j < main.at => j <= a
    <3>1. PICK T : T = Outgoing
      OBVIOUS
    <3>2. PICK b \in Nat : b = main.at
      BY <1>1
    <3>3. a \in left /\ \A j \in T : j < b => j <= a
      BY <1>1, <1>3, <1>12, <2>1, <3>1, <3>2, LeftFacts
    <3> QED
      BY <1>3, <3>1, <3>2, <3>3
  <2>3. main' = [At("cleanup", a) EXCEPT !.previous = main.previous] /\ a \in Names /\ a \in Nat
    BY <1>1, <1>4, <1>12, <2>1, <2>2
  <2>4. /\ main' \in MainStates /\ main'.pc = "cleanup" /\ main'.at = a /\ main'.change = main.change
        /\ main'.previous = main.previous
    <3>1. main \in MainStates
      BY AtFacts
    <3> QED
      BY <2>3, <3>1 DEF At, MainStates
  <2>5. Outgoing' = Outgoing /\ ~Replacing'
    BY <2>4 DEF Outgoing, Replacing, Phases
  <2>6. ShapeInv'
    BY <1>1, <2>2, <2>4, <2>5 DEF IInv, ShapeInv, Phases
  <2>7. OwnInv'
    BY <2>4, <2>5 DEF IInv, OwnInv
  <2>8. ConfiguredInv'
    <3>1. ASSUME NEW i \in Names, NEW s, s = configured[i]
          PROVE  s # None => (sink[s] # "new")' /\ (On(s)' <=> ~PreviousDetached(i)')
      <4>1. s \in Destinations \cup {None} /\ ~PreviousDetached(i)'
        BY <2>5, <3>1, ResourceFacts DEF PreviousDetached
      <4> QED
        BY <1>8, <3>1, <4>1
    <3> QED
      BY <3>1 DEF ConfiguredInv, ConfiguredOK, On
  <2>9. CandidateInv'
    BY <2>5 DEF CandidateInv
  <2>10. PreviousInv'
    <3>1. ASSUME NEW i \in Outgoing, NEW s, s = main.previous[i] PROVE PreviousOK(i, s)'
      <4>1. i \in Nat /\ s \in Destinations
        BY <1>1, <3>1, ResourceFacts
      <4>2. (i <= a => i < main.at) /\ (i > a => i >= main.at)
        BY <1>1, <2>2, <2>3, <4>1
      <4>3. /\ i > a => ~On(s)' /\ ~Alive(s)' /\ Quit(s)'
            /\ i <= a => (sink[s] # "new")' /\ (On(s)' <=> main.change[i] = "removed")
        BY <1>7, <3>1, <4>1, <4>2
      <4> QED
        BY <2>3, <2>4, <4>1, <4>3 DEF PreviousOK
    <3> QED
      BY <2>4, <2>5, <3>1 DEF PreviousInv
  <2>11. DestinationInv'
    <3>1. \A d : Owned(d)' <=> Owned(d)
      BY <1>1, <2>4, <2>5 DEF Owned
    <3> QED
      BY <1>9, <3>1 DEF DestinationInv
  <2> QED
    BY <2>4, <2>6, <2>7, <2>8, <2>9, <2>10, <2>11 DEF MainInv
<1> QED
  BY <1>11, <1>12

LEMMA RuntimeReturnsKeeps == ASSUME IInv, RuntimeReturns PROVE IInv'
<1> USE DEF RuntimeReturns, routerVars
<1>1. ByMain /\ op # NoOp
  BY OpFacts DEF ByMain
<1>2. main.pc \in {"detachPrevious", "attachCandidate", "rollbackCandidate", "rollbackPrevious", "cleanup"}
  BY <1>1 DEF IInv, CallInv
<1>3. CASE main.pc \in {"detachPrevious", "attachCandidate"}
  BY <1>3, ReturnsOnward
<1>4. CASE main.pc = "rollbackCandidate" /\ Change = "replaced"
  BY <1>4, ReturnsOnward
<1>5. CASE (main.pc = "rollbackCandidate" /\ Change # "replaced") \/ main.pc = "rollbackPrevious"
  BY <1>5, ReturnsBack
<1>6. CASE main.pc = "cleanup"
  <2>1. main' = CleanupBefore(main.at)
    BY <1>6
  <2>2. Moves /\ ~ByMain' /\ op' = NoOp
    BY <1>1, NoCall DEF Moves
  <2>3. PICK x \in Destinations : x = Previous
    BY <1>6, AtFacts
  <2>4. Gone(x) /\ Quit(x)
    <3>1. op.sink = x /\ op.stop
      BY <1>1, <1>6, <2>3 DEF IInv, CallInv
    <3>2. main.at \in Names /\ main.at \in Outgoing /\ main.at \in Nat
      BY <1>6, AtFacts, SinkFacts
    <3> QED
      BY <1>1, <1>6, <2>3, <3>1, <3>2 DEF IInv, PreviousInv, PreviousOK, Previous, StepInv
  <2>5. \A d \in Destinations : d # Previous => SameResource(d)
    BY DEF SameResource, Same
  <2>6. \A s : s = Previous => Gone(s)' /\ Quit(s)'
    BY <2>3, <2>4, Still
  <2>7. MainInv' /\ main' \in MainStates
    BY <1>6, <2>1, <2>2, <2>5, <2>6, CleanupMoves
  <2>8. /\ HeldInv' /\ RecorderInv' /\ CallInv' /\ StepInv' /\ SubmitInv' /\ TruthInv'
        /\ op' \in Calls \cup {NoOp}
    BY <2>2, MovesKeeps
  <2>9. TypeInv'
    BY <2>7, <2>8 DEF IInv, TypeInv
  <2> QED
    BY <2>7, <2>8, <2>9 DEF IInv, MainInv
<1> QED
  BY <1>2, <1>3, <1>4, <1>5, <1>6

LEMMA StopReplacedKeeps == ASSUME IInv, StopReplaced PROVE IInv'
<1> USE DEF StopReplaced
<1>1. main.at \in Names /\ main.at \in Outgoing /\ main.at \in Nat
  BY AtFacts, SinkFacts
<1>2. PICK x \in Destinations : x = Previous
  BY AtFacts
<1>3. x \in Sinks /\ x \notin Recordings
  BY SinkFacts
<1>4. PICK outcome \in StopOutcomes(x) :
        /\ StopSink(x, outcome)
        /\ reported' = (IF outcome[2] THEN reported ELSE reported \cup {x})
        /\ publishing' = publishing \ {x}
  BY <1>2
<1>5. /\ sink' \in [Sinks -> SinkStates]
      /\ sink'[x] \notin {"running", "dead"}
      /\ sink'[x] = "new" <=> sink[x] = "new"
      /\ \A s \in Sinks : s # x => sink'[s] = sink[s]
  BY <1>3, <1>4, StopFacts
<1>6. ~ByMain /\ ~ByMain' /\ (ByRecorder' <=> ByRecorder)
  BY DEF IInv, CallInv, ByMain, ByRecorder
<1>7. /\ publishing' \in SUBSET Destinations /\ reported' \in SUBSET Destinations
      /\ Quit(x)'
      /\ \A d : d # x => (d \in publishing' <=> d \in publishing) /\ (d \in reported' <=> d \in reported)
  <2>1. publishing' \in SUBSET Destinations /\ reported' \in SUBSET Destinations
    BY <1>4 DEF IInv, TypeInv
  <2>2. \A d : d # x => (d \in publishing' <=> d \in publishing) /\ (d \in reported' <=> d \in reported)
    <3>1. reported' = reported \/ reported' = reported \cup {x}
      BY <1>4
    <3> QED
      BY <1>4, <3>1
  <2>3. Quit(x)'
    BY <1>4 DEF Quit
  <2> QED
    BY <2>1, <2>2, <2>3
<1>8. \A d \in Destinations : d # Previous => SameResource(d)
  BY <1>2, <1>5, <1>7, SinkFacts DEF SameResource, Same
<1>9. ~On(x) /\ ~Visiting(x)
  <2>1. ~On(x) /\ sink[x] # "new"
    BY <1>1, <1>2 DEF IInv, PreviousInv, PreviousOK, Previous, Change
  <2>2. op # NoOp => op.sink # x
    BY <1>3, <1>6, OpFacts
  <2> QED
    BY <1>3, <2>1, <2>2 DEF IInv, SubmitInv
<1>10. \A s : s = Previous => Gone(s)' /\ Quit(s)'
  BY <1>2, <1>5, <1>7, <1>9 DEF Gone, Alive, On
<1>11. main' = CleanupBefore(main.at)
  OBVIOUS
<1>12. MainInv' /\ main' \in MainStates
  BY <1>6, <1>8, <1>10, <1>11, CleanupMoves
<1>13. TypeInv'
  BY <1>5, <1>7, <1>12 DEF IInv, TypeInv
<1>14. HeldInv'
  BY DEF IInv, HeldInv
<1>15. RecorderInv'
  <2>1. \A s \in Recordings : Same(s)
    BY <1>3, <1>5, SinkFacts DEF Same
  <2> QED
    BY <1>6, <2>1, MainSide
<1>16. CallInv'
  BY <1>6 DEF IInv, CallInv
<1>17. StepInv'
  <2>1. op # NoOp => ByRecorder /\ op.sink \in Sinks /\ op.sink # x
    BY <1>3, <1>6, OpFacts
  <2>2. op # NoOp => sink'[op.sink] = sink[op.sink]
    BY <1>5, <2>1
  <2> QED
    BY <1>6, <2>1, <2>2 DEF IInv, StepInv, On, Untouched, Gone, Alive, Serving
<1>18. SubmitInv' /\ TruthInv'
  <2>1. \A s \in Sinks : sink[s] = "new" => sink'[s] = "new"
    BY <1>5
  <2> QED
    BY <2>1, RecordsKept
<1> QED
  BY <1>12, <1>13, <1>14, <1>15, <1>16, <1>17, <1>18 DEF IInv, MainInv

\* -------------------------------------------------------- commit and shutdown
LEMMA CommitKeeps == ASSUME IInv, Commit PROVE IInv'
<1> USE DEF Commit, routerVars
<1>1. /\ Replacing /\ ~ByMain /\ running
      /\ Staged \subseteq Names /\ Outgoing \subseteq Names /\ Names \subseteq Nat
      /\ main.at \in Nat /\ NameCount \in Nat
  <2>1. main.at \in Names \cup {0} /\ Names \subseteq Nat
    BY AtFacts, SinkFacts
  <2>2. main.at \in Nat
    <3>1. CASE main.at = 0
      BY <3>1
    <3>2. CASE main.at \in Names
      BY <2>1, <3>2
    <3> QED
      BY <2>1, <3>1, <3>2
  <2>3. Replacing /\ ~ByMain /\ running
    BY DEF Replacing, Phases, IInv, CallInv, ShapeInv
  <2> QED
    BY <2>1, <2>2, <2>3, RoutingAssumption DEF Staged, Outgoing
<1>2. Moves
  BY <1>1 DEF Moves
<1>3. /\ HeldInv' /\ RecorderInv' /\ CallInv' /\ StepInv' /\ SubmitInv' /\ TruthInv'
      /\ ~ByMain' /\ op' \in Calls \cup {NoOp}
  BY <1>2, MovesKeeps
<1>4. ASSUME NEW i \in Names, NEW s \in Destinations, s = configured'[i]
      PROVE  \/ i \in Staged /\ s = main.candidate[i] /\ configured'[i] = main.candidate[i]
             \/ main.change[i] = "unchanged" /\ s = configured[i]
  <2>1. main.change[i] \in {"unchanged", "added", "removed", "replaced"}
    BY AtFacts DEF MainStates
  <2>2. main.change[i] = "removed" => i \notin Staged
    BY DEF Staged
  <2>3. main.change[i] = "unchanged" => i \notin Staged
    BY DEF Staged
  <2>4. main.change[i] \in {"added", "replaced"} => i \in Staged
    BY DEF Staged
  <2>5. s # None
    BY SinkFacts
  <2> QED
    BY <1>4, <2>1, <2>2, <2>3, <2>4, <2>5
<1>5. configured' \in Resources
  <2>1. \A i \in Names : main.candidate[i] \in Destinations \cup {None}
          /\ configured[i] \in Destinations \cup {None}
    BY ResourceFacts
  <2> QED
    BY <2>1 DEF Resources
<1>6. ASSUME NEW i \in Staged, NEW c \in Destinations, c = main.candidate[i]
      PROVE  Serving(c) /\ c <= built /\ \A j \in Names : c # configured[j]
  <2>1. i \in Nat /\ i <= main.at
    BY <1>1
  <2>2. CandidateOK(i, c)
    BY <1>1, <1>6 DEF IInv, CandidateInv
  <2> QED
    BY <1>1, <1>6, <2>1, <2>2 DEF CandidateOK, IInv, OwnInv
<1>7. ASSUME NEW i \in Names
      PROVE  PreviousDetached(i) <=> main.change[i] = "replaced"
  <2>1. main.change[i] = "replaced" => i \in Staged /\ i <= main.at /\ i \in Nat
    BY <1>1 DEF Staged
  <2> QED
    BY <1>1, <2>1 DEF PreviousDetached
<1>8. ASSUME NEW i \in Names, NEW s \in Destinations, s = configured'[i]
      PROVE  s <= built /\ On(s)' /\ (sink[s] # "new")'
  <2>1. CASE i \in Staged /\ s = main.candidate[i]
    BY <1>6, <2>1 DEF Serving, On
  <2>2. CASE main.change[i] = "unchanged" /\ s = configured[i]
    <3>1. s # None /\ ~PreviousDetached(i)
      BY <1>7, <2>2, SinkFacts
    <3>2. s <= built /\ On(s) /\ sink[s] # "new"
      BY <2>2, <3>1 DEF IInv, OwnInv, ConfiguredInv, ConfiguredOK
    <3> QED
      BY <3>2, Still
  <2> QED
    BY <1>4, <1>8, <2>1, <2>2
<1>9. \A i, j \in Names : configured'[i] # None /\ configured'[i] = configured'[j] => i = j
  <2> SUFFICES ASSUME NEW i \in Names, NEW j \in Names, configured'[i] # None, configured'[i] = configured'[j]
               PROVE  i = j
    OBVIOUS
  <2>1. PICK s \in Destinations : s = configured'[i] /\ s = configured'[j]
    BY <1>5 DEF Resources
  <2>2. CASE i \in Staged /\ j \in Staged /\ s = main.candidate[i] /\ s = main.candidate[j]
    BY <1>1, <2>2 DEF IInv, OwnInv
  <2>3. CASE s = configured[i] /\ s = configured[j]
    BY <2>3, SinkFacts DEF IInv, OwnInv
  <2>4. CASE i \in Staged /\ s = main.candidate[i] /\ s = configured[j]
    BY <1>6, <2>4
  <2>5. CASE j \in Staged /\ s = main.candidate[j] /\ s = configured[i]
    BY <1>6, <2>5
  <2> QED
    BY <1>4, <2>1, <2>2, <2>3, <2>4, <2>5
<1>10. ASSUME NEW d \in Destinations
       PROVE  /\ d > built => Untouched(d)' /\ d \notin publishing'
              /\ On(d)' \/ Alive(d)' \/ ~Quit(d)' =>
                   (\E i \in Names : d = configured'[i]) \/ \E i \in Outgoing : d = configured[i]
  <2>1. /\ d > built => Untouched(d) /\ d \notin publishing
        /\ On(d) \/ Alive(d) \/ ~Quit(d) => Owned(d)
    BY DEF IInv, DestinationInv
  <2>2. ASSUME NEW i \in Names, d = configured[i] PROVE i \in Outgoing \/ d = configured'[i]
    <3>1. main.change[i] \in {"unchanged", "added", "removed", "replaced"}
      BY AtFacts DEF MainStates
    <3>2. main.change[i] # "added"
      BY <1>1, <2>2, SinkFacts DEF IInv, ShapeInv
    <3>3. main.change[i] \in {"removed", "replaced"} => i \in Outgoing
      BY DEF Outgoing
    <3>4. main.change[i] = "unchanged" => i \notin Staged
      BY DEF Staged
    <3> QED
      BY <2>2, <3>1, <3>2, <3>3, <3>4
  <2>3. ASSUME NEW i \in Staged, d = main.candidate[i] PROVE i \in Names /\ d = configured'[i]
    <3>1. i \in Names
      BY <1>1
    <3>2. i \in Staged /\ main.change[i] # "removed"
      BY DEF Staged
    <3>3. configured'[i] = main.candidate[i]
      BY <3>1, <3>2
    <3> QED
      BY <2>3, <3>1, <3>3
  <2>4. Owned(d) => (\E i \in Names : d = configured'[i]) \/ \E i \in Outgoing : d = configured[i]
    <3>1. main.pc # "cleanup"
      OBVIOUS
    <3> QED
      BY <2>2, <2>3, <3>1 DEF Owned
  <2>5. publishing' = publishing
    OBVIOUS
  <2> QED
    BY <2>1, <2>4, <2>5, Still
<1>11. main' = IF Outgoing = {} THEN Done ELSE [At("cleanup", Max(Outgoing)) EXCEPT !.previous = configured]
  <2>1. {j \in Outgoing : j < NameCount + 1} = Outgoing
    BY <1>1 DEF Names
  <2>2. main' = CleanupBefore(NameCount + 1)
    OBVIOUS
  <2>3. Held = configured
    BY DEF Held
  <2> QED
    BY <2>1, <2>2, <2>3 DEF CleanupBefore
<1>12. CASE Outgoing = {}
  <2>1. main' \in MainStates /\ main'.pc \in {"idle", "runtimeStop"}
    BY <1>11, <1>12, DoneMoves
  <2>2. TypeInv'
    BY <1>3, <1>5, <2>1 DEF IInv, TypeInv, Resources
  <2>3. running' <=> main'.pc # "stopped"
    BY <1>1, <2>1
  <2>4. main'.pc \notin Phases \cup {"cleanup"}
    BY <2>1 DEF Phases
  <2>5. running' \in BOOLEAN /\ built' = built
    BY <2>2 DEF TypeInv
  <2>6. MainInv'
    BY <1>5, <1>8, <1>9, <1>10, <1>12, <2>1, <2>3, <2>4, <2>5, Rests
  <2> QED
    BY <1>3, <2>2, <2>6 DEF IInv, MainInv
<1>13. CASE Outgoing # {}
  <2>1. PICK a : a = Max(Outgoing)
    OBVIOUS
  <2>2. a \in Outgoing /\ a \in Names /\ a \in Nat /\ \A j \in Outgoing : j <= a
    <3>1. \A j \in Names : j \in 0 .. NameCount
      BY <1>1 DEF Names
    <3>2. Outgoing \subseteq 0 .. NameCount
      BY <1>1, <3>1
    <3>3. a \in Outgoing /\ \A j \in Outgoing : j <= a
      BY <1>1, <1>13, <2>1, <3>2, MaxFacts
    <3> QED
      BY <1>1, <3>3
  <2>3. main' = [At("cleanup", a) EXCEPT !.previous = configured]
    BY <1>11, <1>13, <2>1
  <2>4. /\ main' \in MainStates /\ main'.pc = "cleanup" /\ main'.at = a /\ main'.change = main.change
        /\ main'.previous = configured
    <3>1. main \in MainStates /\ configured \in [Names -> Destinations \cup {None}]
      BY AtFacts DEF IInv, TypeInv
    <3> QED
      BY <2>2, <2>3, <3>1 DEF At, MainStates
  <2>5. Outgoing' = Outgoing /\ ~Replacing'
    BY <2>4 DEF Outgoing, Replacing, Phases
  <2>6. TypeInv'
    BY <1>3, <1>5, <2>4 DEF IInv, TypeInv, Resources
  <2>7. ASSUME NEW i \in Outgoing, NEW s, s = configured[i]
        PROVE  /\ s \in Destinations /\ s <= built /\ sink[s] # "new"
               /\ \A j \in Names : s # configured'[j]
               /\ On(s) <=> main.change[i] = "removed"
    <3>1. i \in Names /\ main.change[i] \in {"removed", "replaced"}
      BY <1>1 DEF Outgoing
    <3>2. s # None /\ s \in Destinations
      BY <1>1, <2>7, <3>1, ResourceFacts DEF IInv, ShapeInv
    <3>3. s <= built /\ sink[s] # "new" /\ (On(s) <=> main.change[i] = "removed")
      BY <1>7, <2>7, <3>1, <3>2 DEF IInv, OwnInv, ConfiguredInv, ConfiguredOK
    <3>4. ASSUME NEW j \in Names, s = configured'[j] PROVE FALSE
      <4>1. CASE j \in Staged /\ s = main.candidate[j]
        BY <1>6, <2>7, <3>1, <3>2, <4>1
      <4>2. CASE main.change[j] = "unchanged" /\ s = configured[j]
        <5>1. i = j
          BY <2>7, <3>1, <3>2, <4>2 DEF IInv, OwnInv
        <5> QED
          BY <3>1, <4>2, <5>1
      <4> QED
        BY <1>4, <3>2, <3>4, <4>1, <4>2
    <3> QED
      BY <3>2, <3>3, <3>4
  <2>8. ShapeInv'
    <3>1. \A i \in Outgoing : configured[i] # None
      BY <2>7, SinkFacts
    <3> QED
      BY <1>1, <2>2, <2>4, <2>5, <3>1 DEF ShapeInv, Phases
  <2>9. OwnInv'
    <3>1. \A i \in Names : configured'[i] # None => configured'[i] \in Destinations
      BY <1>5 DEF Resources
    <3>2. \A i \in Names : configured'[i] # None => configured'[i] <= built
      BY <1>8, <3>1
    <3>3. ASSUME NEW i \in Outgoing
          PROVE  /\ configured[i] <= built
                 /\ \A j \in Names : configured[i] # configured'[j]
                 /\ \A j \in Outgoing : configured[i] = configured[j] => i = j
      <4>1. configured[i] # None /\ configured[i] <= built /\ \A j \in Names : configured[i] # configured'[j]
        BY <2>7, SinkFacts
      <4> QED
        BY <1>1, <4>1 DEF IInv, OwnInv
    <3>4. \A i \in Outgoing :
            /\ main'.previous[i] <= built
            /\ \A j \in Names : main'.previous[i] # configured'[j]
            /\ \A j \in Outgoing : main'.previous[i] = main'.previous[j] => i = j
      BY <2>4, <3>3
    <3> QED
      BY <1>9, <2>5, <3>2, <3>4 DEF OwnInv
  <2>10. ConfiguredInv'
    <3>1. ASSUME NEW i \in Names, NEW s, s = configured'[i]
          PROVE  s # None => (sink[s] # "new")' /\ (On(s)' <=> ~PreviousDetached(i)')
      <4>1. s \in Destinations \cup {None} /\ ~PreviousDetached(i)'
        BY <1>5, <2>5, <3>1 DEF PreviousDetached, Resources
      <4> QED
        BY <1>8, <3>1, <4>1
    <3> QED
      BY <3>1 DEF ConfiguredInv, ConfiguredOK, On
  <2>11. CandidateInv'
    BY <2>5 DEF CandidateInv
  <2>12. PreviousInv'
    <3>1. ASSUME NEW i \in Outgoing, NEW s, s = configured[i] PROVE PreviousOK(i, s)'
      <4>1. i \in Nat /\ i <= a
        BY <1>1, <2>2
      <4>2. sink'[s] # "new" /\ (On(s)' <=> main.change[i] = "removed")
        BY <2>7, <3>1, Still
      <4> QED
        BY <1>3, <2>2, <2>4, <4>1, <4>2 DEF PreviousOK
    <3> QED
      BY <2>4, <2>5, <3>1 DEF PreviousInv
  <2>13. DestinationInv'
    <3>1. \A d : (\E i \in Names : d = configured'[i]) \/ (\E i \in Outgoing : d = configured[i]) => Owned(d)'
      BY <2>4, <2>5 DEF Owned
    <3> QED
      BY <1>10, <3>1 DEF DestinationInv
  <2> QED
    BY <1>3, <2>6, <2>8, <2>9, <2>10, <2>11, <2>12, <2>13 DEF IInv
<1> QED
  BY <1>12, <1>13

LEMMA CloseCoordinatorKeeps == ASSUME IInv, CloseCoordinator PROVE IInv'
<1> USE DEF CloseCoordinator, routerVars
<1>1. ~Replacing /\ ~ByMain /\ running /\ main \in MainStates
  BY AtFacts DEF Replacing, Phases, IInv, CallInv, ShapeInv
<1>2. Moves
  BY <1>1 DEF Moves
<1>3. /\ HeldInv' /\ RecorderInv' /\ CallInv' /\ StepInv' /\ SubmitInv' /\ TruthInv'
      /\ ~ByMain' /\ op' \in Calls \cup {NoOp}
  BY <1>2, MovesKeeps
<1>4. configured' \in Resources /\ \A i \in Names : configured'[i] = None
  BY DEF Nothing, Resources
<1>5. PICK left : left = {i \in Names : configured[i] # None}
  OBVIOUS
<1>6. main' = IF left = {} THEN Done
              ELSE [main EXCEPT !.pc = "cleanup", !.at = Max(left), !.previous = configured,
                       !.change = [i \in Names |-> IF i \in left THEN "removed" ELSE "unchanged"]]
  BY <1>5
<1>7. \A d \in Destinations :
        /\ d > built => Untouched(d)' /\ d \notin publishing'
        /\ On(d)' \/ Alive(d)' \/ ~Quit(d)' => \E i \in left : d = configured[i]
  <2> SUFFICES ASSUME NEW d \in Destinations
               PROVE  /\ d > built => Untouched(d)' /\ d \notin publishing'
                      /\ On(d)' \/ Alive(d)' \/ ~Quit(d)' => \E i \in left : d = configured[i]
    OBVIOUS
  <2>1. /\ d > built => Untouched(d) /\ d \notin publishing
        /\ On(d) \/ Alive(d) \/ ~Quit(d) => Owned(d)
    BY DEF IInv, DestinationInv
  <2>2. Owned(d) => \E i \in left : d = configured[i]
    BY <1>1, <1>5, SinkFacts DEF Owned
  <2>3. publishing' = publishing
    OBVIOUS
  <2> QED
    BY <2>1, <2>2, <2>3, Still
<1>8. CASE left = {}
  <2>1. main' \in MainStates /\ main'.pc \in {"idle", "runtimeStop"}
    BY <1>6, <1>8, DoneMoves
  <2>2. TypeInv'
    BY <1>3, <1>4, <2>1 DEF IInv, TypeInv, Resources
  <2>3. running' <=> main'.pc # "stopped"
    BY <1>1, <2>1
  <2>4. main'.pc \notin Phases \cup {"cleanup"}
    BY <2>1 DEF Phases
  <2>5. running' \in BOOLEAN /\ built' = built
    BY <2>2 DEF TypeInv
  <2>6. \A i \in Names, s \in Destinations : s # configured'[i]
    BY <1>4, SinkFacts
  <2>7. MainInv'
    BY <1>4, <1>7, <1>8, <2>1, <2>3, <2>4, <2>5, <2>6, Rests
  <2> QED
    BY <1>3, <2>2, <2>7 DEF IInv, MainInv
<1>9. CASE left # {}
  <2>1. PICK a : a = Max(left)
    OBVIOUS
  <2>2. a \in left /\ a \in Names /\ a \in Nat /\ left \subseteq Names /\ \A j \in left : j <= a
    <3>1. NameCount \in Nat /\ \A j \in Names : j \in 0 .. NameCount
      BY RoutingAssumption DEF Names
    <3>2. left \subseteq Names
      BY <1>5
    <3>3. left \subseteq 0 .. NameCount
      BY <3>1, <3>2
    <3>4. a \in left /\ \A j \in left : j <= a
      BY <1>9, <2>1, <3>1, <3>3, MaxFacts
    <3> QED
      BY <3>2, <3>4, SinkFacts
  <2>3. PICK change : change = [i \in Names |-> IF i \in left THEN "removed" ELSE "unchanged"]
    OBVIOUS
  <2>4. main' = [main EXCEPT !.pc = "cleanup", !.at = a, !.previous = configured, !.change = change]
    BY <1>6, <1>9, <2>1, <2>3
  <2>5. change \in Changes
    BY <2>3 DEF Changes
  <2>6. /\ main' \in MainStates /\ main'.pc = "cleanup" /\ main'.at = a /\ main'.change = change
        /\ main'.previous = configured
    <3>1. configured \in [Names -> Destinations \cup {None}]
      BY DEF IInv, TypeInv
    <3> QED
      BY <1>1, <2>2, <2>4, <2>5, <3>1 DEF MainStates, Changes
  <2>7. Outgoing' = left /\ ~Replacing' /\ \A i \in left : change[i] = "removed"
    <3>1. \A i \in Names : change[i] \in {"removed", "replaced"} <=> i \in left
      BY <2>3
    <3>2. \A i \in left : change[i] = "removed"
      BY <2>2, <2>3
    <3> QED
      BY <2>2, <2>6, <3>1, <3>2 DEF Outgoing, Replacing, Phases
  <2>8. TypeInv'
    BY <1>3, <1>4, <2>6 DEF IInv, TypeInv, Resources
  <2>9. ASSUME NEW i \in left, NEW s, s = configured[i]
        PROVE  s # None /\ s <= built /\ sink[s] # "new" /\ On(s)
    <3>1. i \in Names /\ s # None /\ ~PreviousDetached(i)
      BY <1>1, <1>5, <2>9 DEF PreviousDetached
    <3> QED
      BY <2>9, <3>1 DEF IInv, OwnInv, ConfiguredInv, ConfiguredOK
  <2>10. ShapeInv'
    BY <1>1, <1>5, <2>2, <2>6, <2>7 DEF ShapeInv, Phases
  <2>11. OwnInv'
    <3>1. ASSUME NEW i \in left
          PROVE  /\ configured[i] <= built
                 /\ \A j \in Names : configured[i] # configured'[j]
                 /\ \A j \in left : configured[i] = configured[j] => i = j
      BY <1>4, <2>2, <2>9 DEF IInv, OwnInv
    <3> QED
      BY <1>4, <2>6, <2>7, <3>1 DEF OwnInv
  <2>12. ConfiguredInv'
    BY <1>4 DEF ConfiguredInv, ConfiguredOK
  <2>13. CandidateInv'
    BY <2>7 DEF CandidateInv
  <2>14. PreviousInv'
    <3>1. ASSUME NEW i \in left, NEW s, s = configured[i] PROVE PreviousOK(i, s)'
      <4>1. i \in Nat /\ i <= a
        BY <2>2, SinkFacts
      <4>2. sink'[s] # "new" /\ On(s)'
        BY <2>9, <3>1, Still
      <4> QED
        BY <1>3, <2>2, <2>6, <2>7, <4>1, <4>2 DEF PreviousOK
    <3> QED
      BY <2>6, <2>7, <3>1 DEF PreviousInv
  <2>15. DestinationInv'
    <3>1. \A d : (\E i \in left : d = configured[i]) => Owned(d)'
      BY <2>6, <2>7 DEF Owned
    <3> QED
      BY <1>7, <3>1 DEF DestinationInv
  <2> QED
    BY <1>3, <2>8, <2>10, <2>11, <2>12, <2>13, <2>14, <2>15 DEF IInv
<1> QED
  BY <1>8, <1>9

\* From rest to rest.
LEMMA RestMoves ==
  ASSUME IInv, main.pc \notin Phases \cup {"cleanup"},
         main' \in MainStates, main'.pc \notin Phases \cup {"cleanup"},
         running' \in BOOLEAN, running' <=> main'.pc # "stopped",
         UNCHANGED <<configured, built, record, sink, publishing, reported>>
  PROVE  MainInv'
<1>1. ~Replacing /\ \A i : ~PreviousDetached(i)
  BY DEF Replacing, PreviousDetached
<1>2. configured' \in Resources
  BY DEF IInv, TypeInv, Resources
<1>3. ASSUME NEW i \in Names, NEW s \in Destinations, s = configured[i]
      PROVE  s <= built /\ On(s)' /\ (sink[s] # "new")'
  <2>1. s <= built /\ On(s) /\ sink[s] # "new"
    BY <1>1, <1>3, SinkFacts DEF IInv, OwnInv, ConfiguredInv, ConfiguredOK
  <2> QED
    BY <2>1, Still
<1>4. ASSUME NEW d \in Destinations
      PROVE  /\ d > built => Untouched(d)' /\ d \notin publishing'
             /\ On(d)' \/ Alive(d)' \/ ~Quit(d)' => \E i \in Names : d = configured[i]
  <2>1. /\ d > built => Untouched(d) /\ d \notin publishing
        /\ On(d) \/ Alive(d) \/ ~Quit(d) => Owned(d)
    BY DEF IInv, DestinationInv
  <2>2. Owned(d) => \E i \in Names : d = configured[i]
    BY <1>1 DEF Owned
  <2>3. publishing' = publishing
    OBVIOUS
  <2> QED
    BY <2>1, <2>2, <2>3, Still
<1>5. \A i, j \in Names : configured'[i] # None /\ configured'[i] = configured'[j] => i = j
  BY DEF IInv, OwnInv
<1> QED
  BY <1>2, <1>3, <1>4, <1>5, Rests

LEMMA RestingFacts ==
  ASSUME NEW p \in {"idle", "closing", "runtimeStop", "stopped"}, main' = Resting(p)
  PROVE  main' \in MainStates /\ main'.pc = p
<1>1. NoChange \in Changes /\ Nothing \in Resources
  BY DEF NoChange, Nothing, Changes, Resources
<1>2. (p # "idle") \in BOOLEAN
  OBVIOUS
<1> QED
  BY <1>1, <1>2 DEF Resting, MainStates, Changes, Resources

LEMMA RuntimeStopKeeps == ASSUME IInv, RuntimeStop PROVE IInv'
<1> USE DEF RuntimeStop
<1>1. main' \in MainStates /\ main'.pc = "stopped"
  BY RestingFacts
<1>2. Moves
  BY OpFacts DEF Moves
<1>3. /\ HeldInv' /\ RecorderInv' /\ CallInv' /\ StepInv' /\ SubmitInv' /\ TruthInv'
      /\ op' \in Calls \cup {NoOp}
  BY <1>2, MovesKeeps
<1>4. TypeInv'
  BY <1>1, <1>3 DEF IInv, TypeInv
<1>5. MainInv'
  BY <1>1, RestMoves DEF Phases
<1> QED
  BY <1>3, <1>4, <1>5 DEF IInv, MainInv

LEMMA CloseManagerKeeps == ASSUME IInv, CloseManager PROVE IInv'
<1> USE DEF CloseManager, routerVars
<1>1. main' \in MainStates /\ main'.pc = "closing"
  BY RestingFacts
<1>2. /\ recorder' \in RecorderStates /\ recorder'.sink = recorder.sink
      /\ \/ recorder'.pc = "idle" /\ recorder.sink = None
         \/ recorder'.pc = "detaching" /\ recorder.sink # None
  <2>1. CASE recorder.sink = None
    <3>1. recorder' = [recorder EXCEPT !.closed = TRUE, !.pc = "idle"]
      BY <2>1
    <3> QED
      BY <2>1, <3>1 DEF IInv, TypeInv, RecorderStates
  <2>2. CASE recorder.sink # None
    <3>1. recorder' = [recorder EXCEPT !.closed = TRUE, !.pc = "detaching"]
      BY <2>2
    <3> QED
      BY <2>2, <3>1 DEF IInv, TypeInv, RecorderStates
  <2> QED
    BY <2>1, <2>2
<1>3. ~ByMain /\ ~ByRecorder /\ op = NoOp /\ op' = NoOp /\ running
  <2>1. ~ByMain /\ ~ByRecorder /\ running
    BY DEF IInv, CallInv, ShapeInv, RecorderRests
  <2> QED
    BY <2>1, OpFacts
<1>4. HeldInv'
  BY DEF IInv, HeldInv
<1>5. CallInv' /\ StepInv'
  BY <1>3, NoCall
<1>6. RecorderInv'
  BY <1>2 DEF IInv, RecorderInv, Gone, Alive, On
<1>7. SubmitInv' /\ TruthInv'
  BY RecordsKept
<1>8. TypeInv'
  BY <1>1, <1>2 DEF IInv, TypeInv
<1>9. MainInv'
  BY <1>1, <1>3, <1>8, RestMoves DEF Phases, TypeInv
<1> QED
  BY <1>4, <1>5, <1>6, <1>7, <1>8, <1>9 DEF IInv, MainInv

\* ------------------------------------------------------------------ replacement
\* The candidates of a replacement are numbered one after the other.
LEMMA Numbered ==
  ASSUME NEW fresh, fresh \subseteq Names, NEW number,
         number = [i \in Names |-> Cardinality({j \in fresh : j <= i})]
  PROVE  /\ Cardinality(fresh) \in Nat
         /\ \A i \in fresh : number[i] \in Nat /\ 1 <= number[i] /\ number[i] <= Cardinality(fresh)
         /\ \A i, k \in fresh : number[i] = number[k] => i = k
<1> DEFINE Below(i) == {j \in fresh : j <= i}
<1>1. IsFiniteSet(fresh)
  <2>1. IsFiniteSet(Names)
    BY RoutingAssumption, FS_Interval DEF Names
  <2> QED
    BY <2>1, FS_Subset
<1>2. \A i : /\ IsFiniteSet(Below(i)) /\ Cardinality(Below(i)) \in Nat
             /\ Cardinality(Below(i)) <= Cardinality(fresh)
  <2> TAKE i
  <2>1. Below(i) \subseteq fresh
    OBVIOUS
  <2> QED
    BY <1>1, <2>1, FS_Subset, FS_CardinalityType
<1>3. Cardinality(fresh) \in Nat /\ Names \subseteq Nat
  BY <1>1, FS_CardinalityType, SinkFacts
<1>4. \A i \in fresh : i \in Below(i) /\ i \in Names
  BY <1>3
<1>5. \A i \in fresh : number[i] = Cardinality(Below(i))
  BY <1>4
<1>6. \A i \in fresh : Cardinality(Below(i)) >= 1
  <2> TAKE i \in fresh
  <2>1. Below(i) # {}
    BY <1>4
  <2>2. Cardinality(Below(i)) # 0
    BY <1>2, <2>1, FS_EmptySet
  <2> QED
    BY <1>2, <2>2
<1>7. ASSUME NEW i \in fresh, NEW k \in fresh, i < k
      PROVE  Cardinality(Below(i)) # Cardinality(Below(k))
  <2>1. Below(i) \subseteq Below(k) /\ k \notin Below(i) /\ k \in Below(k)
    <3>1. i \in Nat /\ k \in Nat /\ \A j \in fresh : j \in Nat
      BY <1>3
    <3>2. ASSUME NEW j \in Below(i) PROVE j \in Below(k)
      <4>1. j \in fresh /\ j <= i /\ j \in Nat
        BY <3>1
      <4>2. j <= k
        BY <1>7, <3>1, <4>1
      <4> QED
        BY <4>1, <4>2
    <3>3. k \notin Below(i)
      BY <1>7, <3>1
    <3>4. k \in Below(k)
      BY <1>4
    <3> QED
      BY <3>2, <3>3, <3>4
  <2>2. Below(i) # Below(k)
    BY <2>1
  <2> QED
    BY <1>2, <2>1, <2>2, FS_Subset
<1> HIDE DEF Below
<1>8. \A i, k \in fresh : number[i] = number[k] => i = k
  <2> TAKE i, k \in fresh
  <2> HAVE number[i] = number[k]
  <2>1. i \in Nat /\ k \in Nat
    BY <1>3
  <2>2. ~(i < k) /\ ~(k < i)
    BY <1>5, <1>7
  <2> QED
    BY <2>1, <2>2
<1>9. \A i \in fresh : number[i] \in Nat /\ 1 <= number[i] /\ number[i] <= Cardinality(fresh)
  BY <1>2, <1>5, <1>6
<1> QED
  BY <1>3, <1>8, <1>9

LEMMA ReplaceKeeps == ASSUME IInv, Replace PROVE IInv'
<1> USE DEF Replace, routerVars
<1>1. ~Replacing /\ ~ByMain /\ running /\ main \in MainStates /\ Names \subseteq Nat /\ built \in Nat
  <2>1. main \in MainStates /\ Names \subseteq Nat
    BY AtFacts, SinkFacts
  <2> QED
    BY <2>1 DEF Replacing, Phases, IInv, CallInv, ShapeInv, TypeInv
<1>2. Moves
  BY <1>1 DEF Moves
<1>3. /\ HeldInv' /\ RecorderInv' /\ CallInv' /\ StepInv' /\ SubmitInv' /\ TruthInv'
      /\ ~ByMain' /\ op' \in Calls \cup {NoOp}
  BY <1>2, MovesKeeps
<1>4. PICK c \in Previews, fresh \in SUBSET Names :
        /\ fresh = {i \in Names : c[i] \in {"added", "replaced"}}
        /\ built + Cardinality(fresh) <= MaxBuilds
        /\ built' = built + Cardinality(fresh)
        /\ main' = [At("stage", 0) EXCEPT
                      !.change = c,
                      !.candidate = [i \in Names |-> IF i \in fresh
                         THEN built + Cardinality({j \in fresh : j <= i}) ELSE None]]
  OBVIOUS
<1>5. PICK number : number = [i \in Names |-> Cardinality({j \in fresh : j <= i})]
  OBVIOUS
<1>6. /\ Cardinality(fresh) \in Nat
      /\ \A i \in fresh : number[i] \in Nat /\ 1 <= number[i] /\ number[i] <= Cardinality(fresh)
      /\ \A i, k \in fresh : number[i] = number[k] => i = k
  BY <1>4, <1>5, Numbered
<1>7. PICK candidate : candidate = [i \in Names |-> IF i \in fresh THEN built + number[i] ELSE None]
  OBVIOUS
<1>8. main' = [At("stage", 0) EXCEPT !.change = c, !.candidate = candidate]
  <2>1. candidate = [i \in Names |-> IF i \in fresh
                       THEN built + Cardinality({j \in fresh : j <= i}) ELSE None]
    BY <1>5, <1>7
  <2> QED
    BY <1>4, <2>1
<1>9. fresh \subseteq Names /\ c \in Changes
  BY <1>4 DEF Previews, Changes
<1>10. \A i \in fresh : /\ candidate[i] \in Nat /\ candidate[i] > built /\ candidate[i] <= built'
                        /\ candidate[i] \in Destinations
  <2>1. MaxBuilds \in Nat
    BY RoutingAssumption
  <2>2. \A i \in fresh : candidate[i] = built + number[i]
    BY <1>7, <1>9
  <2> QED
    BY <1>1, <1>4, <1>6, <2>1, <2>2 DEF Destinations
<1>11. candidate \in Resources
  <2>1. \A i \in Names : candidate[i] \in Destinations \cup {None}
    BY <1>7, <1>10
  <2> QED
    BY <1>7, <2>1 DEF Resources
<1>12. /\ main' \in MainStates /\ main'.pc = "stage" /\ main'.at = 0 /\ main'.change = c
       /\ main'.candidate = candidate
  BY <1>1, <1>8, <1>9, <1>11 DEF At, MainStates, Changes, Resources, Phases
<1>13. Staged' = fresh /\ Replacing'
  BY <1>4, <1>12 DEF Staged, Replacing, Phases
<1>14. TypeInv'
  <2>1. built' \in 0 .. MaxBuilds
    BY <1>1, <1>4, <1>6, RoutingAssumption
  <2> QED
    BY <1>3, <1>12, <2>1 DEF IInv, TypeInv
<1>15. \A i \in Names : /\ candidate[i] # None <=> i \in fresh
                        /\ c[i] = "added" => configured[i] = None
                        /\ c[i] \in {"removed", "replaced"} => configured[i] # None
  <2>1. \A i \in Names : candidate[i] # None <=> i \in fresh
    BY <1>7, <1>10, SinkFacts
  <2> QED
    BY <2>1 DEF Previews
<1>16. ShapeInv'
  <2>1. main'.pc = "stage" /\ main'.pc # "cleanup" /\ main'.pc # "stopped"
    BY <1>12
  <2> QED
    BY <1>1, <1>12, <1>13, <1>15, <2>1 DEF ShapeInv
<1>17. OwnInv'
  <2>1. \A i \in Names : configured[i] # None => configured[i] <= built /\ configured[i] \in Nat
    BY ResourceFacts, SinkFacts DEF IInv, OwnInv
  <2>2. \A i \in Names : configured[i] # None => configured[i] <= built'
    BY <1>1, <1>4, <1>6, <2>1
  <2>3. \A i, j \in Names : configured[i] # None /\ configured[i] = configured[j] => i = j
    BY DEF IInv, OwnInv
  <2>4. ASSUME NEW i \in fresh
        PROVE  /\ candidate[i] <= built'
               /\ \A j \in Names : candidate[i] # configured[j]
               /\ \A j \in fresh : candidate[i] = candidate[j] => i = j
    <3>1. \A j \in Names : candidate[i] # configured[j]
      <4> TAKE j \in Names
      <4>1. CASE configured[j] = None
        BY <1>9, <1>15, <4>1
      <4>2. CASE configured[j] # None
        BY <1>1, <1>10, <2>1, <4>2
      <4> QED
        BY <4>1, <4>2
    <3>2. \A j \in fresh : candidate[i] = candidate[j] => i = j
      <4> TAKE j \in fresh
      <4>1. candidate[i] = built + number[i] /\ candidate[j] = built + number[j]
        BY <1>7, <1>9
      <4>2. number[i] \in Nat /\ number[j] \in Nat
        BY <1>6
      <4>3. candidate[i] = candidate[j] => number[i] = number[j]
        BY <1>1, <4>1, <4>2
      <4> QED
        BY <1>6, <4>3
    <3> QED
      BY <1>10, <3>1, <3>2
  <2>5. main'.pc # "cleanup" /\ configured' = configured
    BY <1>12
  <2>6. \A i \in Staged' :
          /\ main'.candidate[i] <= built'
          /\ \A j \in Names : main'.candidate[i] # configured'[j]
          /\ \A j \in Staged' : main'.candidate[i] = main'.candidate[j] => i = j
    <3>1. ASSUME NEW i \in fresh
          PROVE  /\ main'.candidate[i] <= built'
                 /\ \A j \in Names : main'.candidate[i] # configured'[j]
                 /\ \A j \in fresh : main'.candidate[i] = main'.candidate[j] => i = j
      <4>1. main'.candidate = candidate /\ configured' = configured
        BY <1>12, <2>5
      <4>2. \A j : main'.candidate[j] = candidate[j] /\ configured'[j] = configured[j]
        BY <4>1
      <4>3. candidate[i] <= built' /\ \A j \in Names : candidate[i] # configured[j]
        BY <2>4
      <4>4. \A j \in fresh : candidate[i] = candidate[j] => i = j
        BY <2>4
      <4> QED
        BY <4>2, <4>3, <4>4
    <3> QED
      BY <1>13, <3>1
  <2>7. \A i \in Names : configured'[i] # None => configured'[i] <= built'
    BY <2>2, <2>5
  <2>8. \A i, j \in Names : configured'[i] # None /\ configured'[i] = configured'[j] => i = j
    BY <2>3, <2>5
  <2> QED
    BY <2>5, <2>6, <2>7, <2>8 DEF OwnInv
<1>18. ConfiguredInv'
  <2>1. ASSUME NEW i \in Names, NEW s, s = configured[i] PROVE ConfiguredOK(i, s)'
    <3>1. ~PreviousDetached(i) /\ ~PreviousDetached(i)'
      <4>1. i \in Nat /\ i # 0 /\ ~(i < 0)
        BY SinkFacts
      <4> QED
        BY <1>1, <1>12, <4>1 DEF PreviousDetached
    <3>2. ConfiguredOK(i, s)
      BY <2>1 DEF IInv, ConfiguredInv
    <3> QED
      BY <3>1, <3>2 DEF ConfiguredOK, On
  <2> QED
    BY <2>1 DEF ConfiguredInv
<1>19. CandidateInv'
  <2>1. ASSUME NEW i \in fresh, NEW x, x = candidate[i] PROVE CandidateOK(i, x)'
    <3>1. x \in Destinations /\ x > built
      BY <1>10, <2>1
    <3>2. Untouched(x) /\ x \notin publishing
      BY <3>1 DEF IInv, DestinationInv
    <3>3. Untouched(x)' /\ x \notin publishing'
      BY <3>2, Still
    <3>4. i \in Nat /\ i > 0
      BY <1>9, <1>1, SinkFacts
    <3> QED
      BY <1>12, <3>3, <3>4 DEF CandidateOK, Back
  <2> QED
    BY <1>12, <1>13, <2>1 DEF CandidateInv
<1>20. PreviousInv'
  BY <1>12 DEF PreviousInv
<1>21. DestinationInv'
  <2>1. ASSUME NEW d, Owned(d) PROVE Owned(d)'
    BY <1>1, <2>1 DEF Owned
  <2>2. ASSUME NEW d \in Destinations
        PROVE  /\ d > built' => Untouched(d)' /\ d \notin publishing'
               /\ On(d)' \/ Alive(d)' \/ ~Quit(d)' => Owned(d)'
    <3>1. /\ d > built => Untouched(d) /\ d \notin publishing
          /\ On(d) \/ Alive(d) \/ ~Quit(d) => Owned(d)
      BY DEF IInv, DestinationInv
    <3>2. d > built' => d > built
      <4>1. d \in Nat
        BY SinkFacts
      <4> QED
        BY <1>1, <1>4, <1>6, <4>1
    <3>3. publishing' = publishing
      OBVIOUS
    <3> QED
      BY <2>1, <3>1, <3>2, <3>3, Still
  <2> QED
    BY <2>2 DEF DestinationInv
<1> QED
  BY <1>3, <1>14, <1>16, <1>17, <1>18, <1>19, <1>20, <1>21 DEF IInv

\* ------------------------------------------------------------------ the theorems
LEMMA InitIInv == ASSUME Init PROVE IInv
<1> USE DEF Init
<1>1. op = NoOp /\ ~ByMain /\ ~ByRecorder
  BY DEF NoOp, ByMain, ByRecorder
<1>2. main.pc = "idle" /\ main.at = 0 /\ ~Replacing
  BY DEF Resting, Replacing, Phases
<1>3. main \in MainStates
  <2>1. NoChange \in Changes /\ Nothing \in Resources
    BY DEF NoChange, Nothing, Changes, Resources
  <2>2. PICK p \in {"idle"} : main = Resting(p)
    OBVIOUS
  <2>3. (p # "idle") \in BOOLEAN
    OBVIOUS
  <2> QED
    BY <2>1, <2>2, <2>3 DEF Resting, MainStates, Changes, Resources
<1>4. /\ \A s \in Sinks : ~On(s) /\ Untouched(s) /\ Gone(s) /\ ~Alive(s) /\ Quit(s)
      /\ \A s \in Sinks : record[s].state = "detached"
  BY DEF On, Untouched, Gone, Alive, Quit
<1>5. \A i \in Names : configured[i] = None
  BY DEF Nothing
<1>6. submission \in Submissions /\ ~submission.held /\ submission.waiting = {} /\ submission.current = None
  BY DEF NoSubmission, Submissions
<1>7. recorder \in RecorderStates /\ recorder.pc = "idle" /\ recorder.sink = None
  BY DEF RecorderStates
<1>8. TypeInv
  <2>1. record \in [Sinks -> Records] /\ sink \in [Sinks -> SinkStates]
    BY DEF Records, SinkStates
  <2>2. configured \in [Names -> Destinations \cup {None}]
    BY DEF Nothing
  <2>3. built \in 0 .. MaxBuilds
    BY RoutingAssumption
  <2> QED
    BY <1>1, <1>3, <1>7, <2>1, <2>2, <2>3 DEF TypeInv
<1>9. HeldInv
  BY <1>6 DEF HeldInv
<1>10. ShapeInv
  BY <1>2 DEF ShapeInv, Phases
<1>11. OwnInv
  BY <1>2, <1>5 DEF OwnInv
<1>12. CallInv /\ StepInv
  BY <1>1 DEF CallInv, StepInv
<1>13. ConfiguredInv /\ CandidateInv /\ PreviousInv
  BY <1>2, <1>5 DEF ConfiguredInv, ConfiguredOK, CandidateInv, PreviousInv
<1>14. DestinationInv
  BY <1>4, SinkFacts DEF DestinationInv
<1>15. RecorderInv
  BY <1>4, <1>7, SinkFacts DEF RecorderInv
<1>16. SubmitInv
  BY <1>6, SinkFacts DEF SubmitInv, Visiting
<1>17. TruthInv
  BY <1>1, <1>4 DEF TruthInv
<1> QED
  BY <1>8, <1>9, <1>10, <1>11, <1>12, <1>13, <1>14, <1>15, <1>16, <1>17 DEF IInv

\* Nothing changes.
LEMMA StutterKeeps == ASSUME IInv, UNCHANGED vars PROVE IInv'
<1> USE DEF vars, routerVars, coordinatorVars
<1>1. \A s \in Sinks : Same(s)
  BY DEF Same
<1>2. (ByMain' <=> ByMain) /\ (ByRecorder' <=> ByRecorder)
  BY DEF ByMain, ByRecorder
<1>3. MainInv'
  BY <1>1, <1>2, SinkFacts, MainKept
<1>4. RecorderInv'
  BY <1>1, <1>2, SinkFacts, MainSide
<1>5. CallInv' /\ StepInv'
  BY <1>1, OpFacts, CallKept
<1>6. SubmitInv' /\ TruthInv'
  BY RecordsKept
<1>7. TypeInv' /\ HeldInv'
  BY DEF IInv, TypeInv, HeldInv
<1> QED
  BY <1>3, <1>4, <1>5, <1>6, <1>7 DEF IInv, MainInv

LEMMA NextIInv == ASSUME IInv, [Next]_vars PROVE IInv'
<1>1. CASE SubmitBegin
  BY <1>1, SubmitBeginKeeps
<1>2. CASE SubmitDone
  BY <1>2, SubmitDoneKeeps
<1>3. ASSUME NEW s \in Sinks, WorkerDies(s) PROVE IInv'
  BY <1>3, WorkerDiesKeeps
<1>4. ASSUME NEW s \in Sinks, SubmitTo(s) PROVE IInv'
  BY <1>4, SubmitToKeeps
<1>5. CASE StartSucceeds
  BY <1>5, StartSucceedsKeeps
<1>6. CASE StartFails
  BY <1>6, StartFailsKeeps
<1>7. CASE StartCleanup
  BY <1>7, StartCleanupKeeps
<1>8. CASE PassBarrier
  BY <1>8, PassBarrierKeeps
<1>9. CASE StopSubscriber
  BY <1>9, StopSubscriberKeeps
<1>10. CASE Replace
  BY <1>10, ReplaceKeeps
<1>11. CASE StageNext
  BY <1>11, StageNextKeeps
<1>12. CASE Commit
  BY <1>12, CommitKeeps
<1>13. CASE Publish
  BY <1>13, PublishKeeps
<1>14. CASE CallRuntime
  BY <1>14, CallRuntimeKeeps
<1>15. CASE RuntimeReturns
  BY <1>15, RuntimeReturnsKeeps
<1>16. CASE StopReplaced
  BY <1>16, StopReplacedKeeps
<1>17. CASE StartRecording
  BY <1>17, StartRecordingKeeps
<1>18. CASE StopRecording
  BY <1>18, StopRecordingKeeps
<1>19. CASE RecorderCalls
  BY <1>19, RecorderCallsKeeps
<1>20. CASE RecorderReturns
  BY <1>20, RecorderReturnsKeeps
<1>21. CASE StopWavSink
  BY <1>21, StopWavSinkKeeps
<1>22. CASE CloseManager
  BY <1>22, CloseManagerKeeps
<1>23. CASE CloseCoordinator
  BY <1>23, CloseCoordinatorKeeps
<1>24. CASE RuntimeStop
  BY <1>24, RuntimeStopKeeps
<1>25. CASE UNCHANGED vars
  BY <1>25, StutterKeeps
<1> QED
  BY <1>1, <1>2, <1>3, <1>4, <1>5, <1>6, <1>7, <1>8, <1>9, <1>10, <1>11, <1>12, <1>13, <1>14, <1>15,
     <1>16, <1>17, <1>18, <1>19, <1>20, <1>21, <1>22, <1>23, <1>24, <1>25 DEF Next

\* The invariant holds in every state: it is inductive.
THEOREM Invariance == Spec => []IInv
<1>1. Init => IInv
  BY InitIInv
<1>2. IInv /\ [Next]_vars => IInv'
  BY NextIInv
<1> QED
  BY <1>1, <1>2, PTL DEF Spec

LEMMA TypesOf == ASSUME IInv PROVE TypeOK
<1>1. op.by \in {"nobody", "main", "recorder"} /\ op.sink \in Sinks \cup {None}
  BY OpFacts DEF NoOp, Calls
<1>2. main.at \in Names \cup {0} /\ recorder.sink \in Recordings \cup {None}
  BY AtFacts DEF IInv, TypeInv, RecorderStates
<1>3. running \in BOOLEAN /\ record \in [Sinks -> [state : {"detached", "starting", "active",
        "stopping", "failed"}, attached : BOOLEAN]]
  BY DEF IInv, TypeInv, Records
<1>4. sink \in [Sinks -> {"new", "running", "dead", "stuck", "stopped"}]
  BY DEF IInv, TypeInv, SinkStates
<1>5. submission \in [held : BOOLEAN, waiting : SUBSET Sinks, current : Sinks \cup {None},
                      accepted : BOOLEAN]
  BY DEF IInv, HeldInv, Submissions
<1>6. submission.held <=> submission.waiting # {} \/ submission.current # None
  BY DEF IInv, HeldInv
<1>7. /\ configured \in [Names -> Destinations \cup {None}]
      /\ publishing \in SUBSET Destinations /\ reported \in SUBSET Destinations
  BY DEF IInv, TypeInv
<1> QED
  BY <1>1, <1>2, <1>3, <1>4, <1>5, <1>6, <1>7 DEF TypeOK

\* Between replacements a destination belongs to somebody only when it is configured.
LEMMA QuietFacts ==
  ASSUME IInv, Quiet
  PROVE  /\ \A d \in Destinations : Owned(d) => \E i \in Names : d = configured[i]
         /\ \A i \in Names : ~PreviousDetached(i)
         /\ recorder.pc \in {"idle", "recording"}
<1>1. main.pc \notin Phases /\ main.pc # "cleanup"
  BY DEF Quiet, Phases
<1> QED
  BY <1>1 DEF Quiet, Owned, PreviousDetached, Replacing, RecorderRests

LEMMA OwnedOf == ASSUME IInv PROVE NothingLeaks
<1> SUFFICES ASSUME Quiet
             PROVE  /\ \A s \in Sinks : sink[s] \in {"running", "dead"} => s \in InUse
                    /\ publishing \subseteq InUse \cup reported
  BY DEF NothingLeaks
<1>1. ASSUME NEW d \in Destinations, Alive(d) \/ ~Quit(d) PROVE d \in InUse
  <2>1. Owned(d)
    BY <1>1 DEF IInv, DestinationInv
  <2> QED
    BY <2>1, QuietFacts DEF InUse
<1>2. ASSUME NEW s \in Recordings, Alive(s) PROVE s \in InUse
  <2>1. s = recorder.sink
    BY <1>2 DEF IInv, RecorderInv, Gone
  <2> QED
    BY <2>1 DEF InUse
<1>3. publishing \subseteq Destinations
  BY DEF IInv, TypeInv
<1> QED
  BY <1>1, <1>2, <1>3, SinkFacts DEF Alive, Quit

\* Between replacements no sink runs without an owner and no publisher without an
\* owner or a report, whatever failed: PcmSinkRouter and the coordinator's cleanup.
THEOREM NothingRunsAlone == Spec => []SinksOwned
<1>1. IInv => SinksOwned
  BY TypesOf, OwnedOf DEF SinksOwned
<1> QED
  BY <1>1, Invariance, PTL

LEMMA ServedOf == ASSUME IInv PROVE CommittedServed
<1> SUFFICES ASSUME Quiet
             PROVE  Attached = ({configured[i] : i \in Names} \ {None})
                      \cup (IF recorder.pc = "recording" THEN {recorder.sink} ELSE {})
  BY DEF CommittedServed
<1> DEFINE Wanted == ({configured[i] : i \in Names} \ {None})
                       \cup (IF recorder.pc = "recording" THEN {recorder.sink} ELSE {})
<1>1. ASSUME NEW d \in Destinations PROVE On(d) <=> \E i \in Names : d = configured[i]
  <2>1. ASSUME NEW i \in Names, d = configured[i] PROVE On(d)
    <3>1. d # None
      BY SinkFacts
    <3>2. ConfiguredOK(i, d)
      BY <2>1 DEF IInv, ConfiguredInv
    <3> QED
      BY <3>1, <3>2, QuietFacts DEF ConfiguredOK
  <2>2. On(d) => Owned(d)
    BY DEF IInv, DestinationInv
  <2> QED
    BY <2>1, <2>2, QuietFacts
<1>2. ASSUME NEW s \in Recordings PROVE On(s) <=> recorder.pc = "recording" /\ s = recorder.sink
  <2>1. s # recorder.sink => ~On(s)
    BY DEF IInv, RecorderInv, Gone
  <2>2. recorder.pc = "recording" => On(recorder.sink)
    BY DEF IInv, RecorderInv, Serving
  <2>3. recorder.pc = "idle" /\ s = recorder.sink => ~On(s)
    BY SinkFacts DEF IInv, RecorderInv
  <2> QED
    BY <2>1, <2>2, <2>3, QuietFacts
<1>3. recorder.pc = "recording" => recorder.sink \in Recordings
  BY DEF IInv, TypeInv, RecorderInv, RecorderStates
<1>4. \A i \in Names : configured[i] \in Destinations \cup {None}
  BY ResourceFacts
<1>5. \A s : s \in Attached <=> s \in Sinks /\ On(s)
  BY DEF Attached, On
<1>6. \A d \in Destinations : d \in Wanted <=> \E i \in Names : d = configured[i]
  BY <1>3, SinkFacts
<1>7. \A s \in Recordings : s \in Wanted <=> recorder.pc = "recording" /\ s = recorder.sink
  BY <1>3, <1>4, SinkFacts
<1>8. Wanted \subseteq Sinks
  BY <1>3, <1>4, SinkFacts
<1> HIDE DEF Wanted
<1>9. \A s \in Sinks : s \in Attached <=> s \in Wanted
  BY <1>1, <1>2, <1>5, <1>6, <1>7, SinkFacts
<1>10. Attached = Wanted
  BY <1>5, <1>8, <1>9
<1> QED
  BY <1>10 DEF Wanted

\* Between replacements the router serves what is configured and the recording,
\* whichever stages of however many replacements failed and were rolled back.
THEOREM CommittedStays == Spec => []CommittedServed
<1>1. IInv => CommittedServed
  BY ServedOf
<1> QED
  BY <1>1, Invariance, PTL

\* No late submission makes a record that is not attached claim to be served.
THEOREM RecordsTellTheTruth == Spec => []RecordsTruthful
<1>1. IInv => RecordsTruthful
  BY DEF IInv, TruthInv, RecordsTruthful, Attached, On
<1> QED
  BY <1>1, Invariance, PTL

\* A sink that is detached, and whose detach has waited, is not being visited.
LEMMA NotVisited ==
  ASSUME IInv, NEW x \in Sinks, ~On(x), x # op.sink \/ op.step # "barrier"
  PROVE  Visiting(x) => sink[x] = "new"
  BY DEF IInv, SubmitInv

Unhurt == \A s \in Sinks : sink[s] \in {"running", "dead"} /\ sink'[s] \in {"stopped", "stuck"} =>
            s # submission.current /\ s \notin submission.waiting

LEMMA StopsOne ==
  ASSUME IInv, NEW x \in Sinks, Visiting(x) => sink[x] = "new",
         \A s \in Sinks : s # x => sink'[s] = sink[s]
  PROVE  Unhurt
  BY DEF Unhurt, Visiting

LEMMA StepUnhurt == ASSUME IInv, [Next]_vars PROVE Unhurt
<1>1. CASE StartCleanup
  <2>1. op.step = "cleanup" /\ op.sink \in Sinks
    BY <1>1, OpFacts DEF StartCleanup
  <2>2. PICK x \in Sinks : x = op.sink
    BY <2>1
  <2>3. sink[x] = "new"
    BY <2>1, <2>2, OpFacts DEF IInv, StepInv, Untouched
  <2>4. PICK outcome \in StopOutcomes(x) : StopSink(x, outcome)
    BY <1>1, <2>2 DEF StartCleanup
  <2> QED
    BY <2>3, <2>4, StopFacts, StopsOne
<1>2. CASE StopSubscriber
  <2>1. op.step = "stop" /\ op.sink \in Sinks
    BY <1>2, OpFacts DEF StopSubscriber
  <2>2. PICK x \in Sinks : x = op.sink
    BY <2>1
  <2>3. ~On(x)
    BY <2>1, <2>2, OpFacts DEF IInv, StepInv
  <2>4. PICK outcome \in StopOutcomes(x) : StopSink(x, outcome)
    BY <1>2, <2>2 DEF StopSubscriber
  <2>5. Visiting(x) => sink[x] = "new"
    BY <2>1, <2>3, NotVisited
  <2>6. \A s \in Sinks : s # x => sink'[s] = sink[s]
    BY <2>4, StopFacts
  <2> QED
    BY <2>5, <2>6, StopsOne
<1>3. CASE StopReplaced
  <2>1. main.pc = "cleanup" /\ Change = "replaced"
    BY <1>3 DEF StopReplaced
  <2>2. PICK x \in Destinations : x = Previous
    BY <2>1, AtFacts
  <2>3. ~On(x)
    <3>1. PreviousOK(main.at, main.previous[main.at])
      BY <2>1, AtFacts DEF IInv, PreviousInv
    <3> QED
      BY <2>1, <2>2, <3>1 DEF PreviousOK, Previous, Change
  <2>4. op.step # "barrier" \/ x # op.sink
    <3>1. ~ByMain
      BY <2>1 DEF IInv, CallInv
    <3> QED
      BY <3>1, OpFacts, SinkFacts
  <2>5. PICK outcome \in StopOutcomes(x) : StopSink(x, outcome)
    BY <1>3, <2>2 DEF StopReplaced
  <2>6. x \in Sinks
    BY SinkFacts
  <2>7. Visiting(x) => sink[x] = "new"
    BY <2>3, <2>4, <2>6, NotVisited
  <2>8. \A s \in Sinks : s # x => sink'[s] = sink[s]
    BY <2>5, <2>6, StopFacts
  <2> QED
    BY <2>6, <2>7, <2>8, StopsOne
<1>4. CASE StopWavSink
  <2>1. recorder.pc \in {"discarding", "finalizing"}
    BY <1>4 DEF StopWavSink
  <2>2. PICK x \in Recordings : x = recorder.sink
    BY <2>1 DEF IInv, TypeInv, RecorderStates, RecorderInv
  <2>3. ~On(x)
    BY <2>1, <2>2, SinkFacts DEF IInv, RecorderInv
  <2>4. op.step # "barrier" \/ x # op.sink
    <3>1. ~ByRecorder
      BY <2>1 DEF IInv, CallInv
    <3> QED
      BY <3>1, OpFacts, SinkFacts
  <2>5. PICK outcome \in StopOutcomes(x) : StopSink(x, outcome)
    BY <1>4, <2>2 DEF StopWavSink
  <2>6. x \in Sinks
    BY SinkFacts
  <2>7. Visiting(x) => sink[x] = "new"
    BY <2>3, <2>4, <2>6, NotVisited
  <2>8. \A s \in Sinks : s # x => sink'[s] = sink[s]
    BY <2>5, <2>6, StopFacts
  <2> QED
    BY <2>6, <2>7, <2>8, StopsOne
<1>5. CASE \E s \in Sinks : WorkerDies(s)
  <2>1. PICK x \in Sinks : WorkerDies(x)
    BY <1>5
  <2>2. sink'[x] = "dead" /\ \A s \in Sinks : s # x => sink'[s] = sink[s]
    BY <2>1 DEF WorkerDies, IInv, TypeInv
  <2> QED
    BY <2>2 DEF Unhurt
<1>6. CASE StartSucceeds
  <2>1. \A s \in Sinks : sink'[s] = sink[s] \/ sink'[s] = "running"
    BY <1>6 DEF StartSucceeds, IInv, TypeInv
  <2> QED
    BY <2>1 DEF Unhurt
<1>7. sink' = sink => Unhurt
  BY DEF Unhurt
<1>8. SubmitBegin \/ SubmitDone \/ (\E s \in Sinks : SubmitTo(s)) \/ StartFails \/ PassBarrier
        \/ Replace \/ StageNext \/ Commit \/ Publish \/ RuntimeReturns => sink' = sink
  BY DEF SubmitBegin, SubmitDone, SubmitTo, StartFails, PassBarrier, Replace, StageNext, Commit,
         Publish, RuntimeReturns, routerVars
<1>9. StartRecording \/ StopRecording \/ RecorderReturns \/ CloseManager \/ CloseCoordinator
        \/ RuntimeStop \/ UNCHANGED vars => sink' = sink
  BY DEF StartRecording, StopRecording, RecorderReturns, CloseManager, CloseCoordinator,
         RuntimeStop, vars, routerVars
<1>10. CallRuntime \/ RecorderCalls => sink' = sink
  BY DEF CallRuntime, RecorderCalls, Attach, Detach
<1> QED
  BY <1>1, <1>2, <1>3, <1>4, <1>5, <1>6, <1>7, <1>8, <1>9, <1>10 DEF Next

\* No sink that was started is stopped while the audio thread is inside its
\* submit_pcm or about to call it: detach waits at the submit lock.
THEOREM StopsWait == Spec => NoStopUnderSubmission
<1>1. IInv /\ [Next]_vars => [Unhurt]_vars
  BY StepUnhurt
<1>2. [Unhurt]_vars => [\A s \in Sinks :
        sink[s] \in {"running", "dead"} /\ sink'[s] \in {"stopped", "stuck"} =>
          s # submission.current /\ s \notin submission.waiting]_vars
  BY DEF Unhurt
<1> QED
  BY <1>1, <1>2, Invariance, PTL DEF Spec, NoStopUnderSubmission

=============================================================================

--------------------------- MODULE MetadataPublisher ---------------------------
(***************************************************************************)
(* RemoteMetadataPublisher (remote_audio_metadata_publisher.py): the title *)
(* of a remote stream, published by a worker of its own.  Only the newest  *)
(* title waits; equal ones are suppressed; a failed request is retried     *)
(* unless a newer title came, and given up when the policy allows no more. *)
(* A request may have been carried out although it failed: its response    *)
(* was lost, or stop closed its socket.                                    *)
(***************************************************************************)
EXTENDS Naturals

CONSTANTS
  Titles,
  MaxTitles,    \* bound: submissions
  MaxAttempts,  \* ReconnectPolicy.max_attempts
  None

VARIABLES
  generation,   \* _generation
  pending,      \* _pending: its generation and title
  current,      \* the one the worker is publishing
  lastTitle,    \* _last_published_title
  tries,        \* _retry_attempt
  runner,       \* where _run is
  failed,       \* the request raised
  request,      \* the active publication: "none", "open" or "interrupted"
  leaving,      \* _stopping
  closer,       \* where the caller of stop is
  shown,        \* the title the server shows
  wanted,       \* the title that was submitted last
  gaveUp        \* the retries of a title ran out and nothing was published since

titleVars == <<generation, pending>>
requestVars == <<current, failed, request>>
stopVars == <<leaving, closer>>
serverVars == <<shown, gaveUp>>
vars == <<titleVars, requestVars, lastTitle, tries, runner, stopVars, serverVars, wanted>>

Goto(where) == runner' = where
Superseded == pending = None \/ pending.generation # current.generation

Start == runner = "new" /\ Goto("wait")
         /\ UNCHANGED <<titleVars, requestVars, lastTitle, tries, stopVars, serverVars, wanted>>

\* Mutant: the title published last is suppressed whatever is pending.
SuppressedPublished(t) == (pending # None /\ t = pending.title) \/ t = lastTitle

Suppressed(t) == IF pending = None THEN t = lastTitle ELSE t = pending.title

\* submit: a title is suppressed or replaces the one that waits.
Submit ==
  /\ runner \notin {"new", "ended"} /\ ~leaving
  /\ \E t \in Titles :
       /\ wanted' = t
       /\ \/ Suppressed(t) /\ UNCHANGED <<titleVars, tries>>
          \/ /\ ~Suppressed(t) /\ generation < MaxTitles
             /\ generation' = generation + 1
             /\ pending' = [generation |-> generation', title |-> t]
             /\ tries' = 0
  /\ UNCHANGED <<requestVars, lastTitle, runner, stopVars, serverVars>>

\* -------------------------------------------------------------------- the worker
\* The minimum interval between updates is a wait that ends here, too.
Take ==
  /\ runner = "wait"
  /\ \/ leaving /\ Goto("ended") /\ UNCHANGED current
     \/ ~leaving /\ pending # None /\ current' = pending /\ Goto("open")
  /\ UNCHANGED <<titleVars, failed, request, lastTitle, tries, stopVars, serverVars, wanted>>

\* Secrets are resolved and the publication made, or one of them raises; a stop that
\* came before it is published for stop to interrupt ends the worker.
Open ==
  /\ runner = "open"
  /\ \/ ~leaving /\ request' = "open" /\ failed' = FALSE /\ Goto("publish")
     \/ leaving /\ Goto("ended") /\ UNCHANGED <<request, failed>>
     \/ failed' = TRUE /\ Goto("settle") /\ UNCHANGED request
  /\ UNCHANGED <<titleVars, current, lastTitle, tries, stopVars, serverVars, wanted>>

Publish ==
  /\ runner = "publish"
  /\ \/ request = "open" /\ shown' = current.title /\ failed' = FALSE
     \/ shown' \in {shown, current.title} /\ failed' = TRUE
  /\ Goto("close")
  /\ UNCHANGED <<titleVars, current, request, lastTitle, tries, stopVars, gaveUp, wanted>>

Close ==
  /\ runner = "close"
  /\ request' = "none" /\ failed' \in {failed, TRUE} /\ Goto("settle")
  /\ UNCHANGED <<titleVars, current, lastTitle, tries, stopVars, serverVars, wanted>>

Settle ==
  /\ runner = "settle"
  /\ Goto(IF leaving THEN "ended" ELSE IF failed THEN "fail" ELSE "record")
  /\ UNCHANGED <<titleVars, requestVars, lastTitle, tries, stopVars, serverVars, wanted>>

Record ==
  /\ runner = "record"
  /\ lastTitle' = current.title /\ tries' = 0 /\ gaveUp' = FALSE
  /\ pending' = IF Superseded THEN pending ELSE None
  /\ Goto("wait")
  /\ UNCHANGED <<generation, requestVars, stopVars, shown, wanted>>

\* _handle_failure: a newer title is not made to wait for the older one's retries.
Fail ==
  /\ runner = "fail"
  /\ \/ leaving /\ Goto("ended") /\ UNCHANGED <<tries, pending, gaveUp>>
     \/ ~leaving /\ Superseded /\ tries' = 0 /\ Goto("wait") /\ UNCHANGED <<pending, gaveUp>>
     \/ /\ ~leaving /\ ~Superseded
        /\ tries' = tries + 1
        /\ IF tries + 1 > MaxAttempts
           THEN pending' = None /\ gaveUp' = TRUE /\ Goto("wait")
           ELSE Goto("backoff") /\ UNCHANGED <<pending, gaveUp>>
  /\ UNCHANGED <<generation, requestVars, lastTitle, stopVars, shown, wanted>>

BackoffEnds ==
  /\ runner = "backoff"
  /\ IF leaving THEN Goto("ended") /\ UNCHANGED tries
     ELSE Goto("wait") /\ tries' = IF Superseded THEN 0 ELSE tries
  /\ UNCHANGED <<titleVars, requestVars, lastTitle, stopVars, serverVars, wanted>>

\* ------------------------------------------------------------------------- stop
StopBegin ==
  /\ runner \notin {"new", "ended"} /\ closer \in {"none", "timedout"}
  /\ leaving' = TRUE /\ pending' = None
  /\ generation' = IF leaving THEN generation ELSE generation + 1
  /\ closer' = IF request = "open" THEN "interrupt" ELSE "join"
  /\ UNCHANGED <<requestVars, lastTitle, tries, runner, serverVars, wanted>>

StopInterrupt ==
  /\ closer = "interrupt"
  /\ request' = IF request = "open" THEN "interrupted" ELSE request
  /\ closer' = "join"
  /\ UNCHANGED <<titleVars, current, failed, lastTitle, tries, runner, leaving, serverVars, wanted>>

StopReturns ==
  /\ closer = "join"
  /\ closer' = IF runner = "ended" THEN "done" ELSE "timedout"
  /\ UNCHANGED <<titleVars, requestVars, lastTitle, tries, runner, leaving, serverVars, wanted>>

\* ---------------------------------------------------------------- specification
Init ==
  /\ generation = 0 /\ pending = None /\ current = None
  /\ lastTitle = None /\ tries = 0 /\ runner = "new" /\ failed = FALSE /\ request = "none"
  /\ leaving = FALSE /\ closer = "none"
  /\ shown = None /\ wanted = None /\ gaveUp = FALSE

RunnerNext ==
  Take \/ Open \/ Publish \/ Close \/ Settle \/ Record \/ Fail \/ BackoffEnds

Next == Start \/ Submit \/ RunnerNext \/ StopBegin \/ StopInterrupt \/ StopReturns

\* The worker runs; a request ends by itself, in its timeout, or by the interrupt.
Fairness == WF_vars(RunnerNext)

\* ------------------------------------------------------------------- properties
TypeOK ==
  /\ pending \in {None} \cup [generation : 1 .. MaxTitles, title : Titles]
  /\ current \in {None} \cup [generation : 1 .. MaxTitles, title : Titles]
  /\ tries \in 0 .. MaxAttempts + 1
  /\ request \in {"none", "open", "interrupted"} /\ {leaving, failed, gaveUp} \subseteq BOOLEAN

\* The server comes to show the title that was submitted last and keeps it, however
\* submissions, failures, lost responses and suppressed duplicates interleaved,
\* unless the publisher is being stopped or has given the title up.
NewestShown ==
  <>[](runner = "new" \/ leaving \/ gaveUp \/ (shown = wanted /\ pending = None))

=============================================================================

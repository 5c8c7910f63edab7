--------------------------- MODULE RemoteDestination ---------------------------
(***************************************************************************)
(* A Broadcastify destination of the daemon: its audio (RemoteSink) and    *)
(* its titles (MetadataPublisher).  The two workers share nothing but      *)
(* their configuration - "a worker independent from the PCM sink" - so a   *)
(* behaviour runs one of them, and nothing is lost by it.                  *)
(***************************************************************************)
EXTENDS RemoteSink

CONSTANTS Titles, MaxTitles

ASSUME TitleAssumption == MaxTitles \in Nat /\ None \notin Titles

VARIABLES
  part,  \* "audio" or "titles"
  generation, pending, current, lastTitle, tries, runner, failed, request, leaving, closer,
  shown, wanted, gaveUp

Publisher == INSTANCE MetadataPublisher

titleVars == <<generation, pending, current, lastTitle, tries, runner, failed, request,
               leaving, closer, shown, wanted, gaveUp>>

DestinationInit == part \in {"audio", "titles"} /\ Init /\ Publisher!Init

DestinationNext ==
  \/ part = "audio" /\ Next /\ UNCHANGED <<part, titleVars>>
  \/ part = "titles" /\ Publisher!Next /\ UNCHANGED <<part, vars>>

\* ------------------------------------------------------------------- properties
\* The variables keep to their types, and of the audio every byte is accounted
\* for, connections are the worker's and reported states are true.
DestinationSound == TypeOK /\ Sound /\ Publisher!TypeOK

\* The server comes to show the newest title, unless the publisher gave it up.
TitleShown == Publisher!NewestShown

\* A stop began, or the retries ran out; and the worker ended in whatever call it
\* was and left no connection and no publication open.
Leaving == stopping \/ leaving
Left == IF part = "audio" THEN worker = "ended" ELSE runner = "ended" /\ request = "none"

=============================================================================

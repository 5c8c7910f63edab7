-------------------------------- MODULE MCWorkers --------------------------------
(***************************************************************************)
(* Model checking of workers that end, and of what they do until then.  A  *)
(* behaviour is about one of them, and the others do not move:             *)
(*   "destination" a Broadcastify destination (RemoteDestination),         *)
(*   "network"     audio from a scanner on the network (NetworkAudio).     *)
(* An other one has no step to take: it was never started.                 *)
(***************************************************************************)
EXTENDS RemoteDestination

CONSTANTS MaxPackets, MaxFaults

VARIABLES
  subject,
  pc, failing, sock, client, published, halt, handler, subscribed, wav, reader, keeper,
  asking, waiting, server, previous, recent, clock, shift, tally, first, stuck, faults

Network == INSTANCE NetworkAudio

destinationVars == <<part, vars, titleVars>>
networkVars == <<pc, failing, sock, client, published, halt, handler, subscribed, wav, reader,
                 keeper, asking, waiting, server, previous, recent, clock, shift, tally, first, stuck, faults>>

MCInit ==
  /\ subject \in {"destination", "network"}
  /\ DestinationInit /\ Network!Init
  /\ subject # "destination" => part = "audio"

MCNext ==
  \/ subject = "destination" /\ DestinationNext /\ UNCHANGED <<subject, networkVars>>
  \/ subject = "network" /\ Network!Next /\ UNCHANGED <<subject, destinationVars>>

MCSpec ==
  MCInit /\ [][MCNext]_<<subject, destinationVars, networkVars>>
    /\ Fairness /\ Publisher!Fairness /\ Network!Fairness

\* Of a destination's audio every byte is accounted for, of a scanner's every packet;
\* connections are their worker's, reported states are true, and a session that is
\* over has let go of everything.
WorkersSound == DestinationSound /\ Network!TypeOK /\ Network!PacketsAccounted /\ Network!Released

\* The server comes to show the newest title, unless the publisher gave it up; and
\* a packet of the scanner is delivered after those before it, never twice.
NewestShown == TitleShown /\ Network!DeliveredForward

\* Once a stop began, or the retries ran out, every worker ends in whatever call it
\* was and leaves no connection and no publication open; a stream is started or
\* stopped, and its threads end.
WorkersEnd ==
  (Leaving \/ Network!Leaving) ~> (IF subject = "network" THEN Network!Left ELSE Left)

=============================================================================

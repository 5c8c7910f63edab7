------------------------------ MODULE SocketPath ------------------------------
(***************************************************************************)
(* The name of a daemon's socket in the file system (DaemonSocketListener  *)
(* of daemon_ipc.py).  A daemon that starts removes what a dead one left   *)
(* there, and one that stops removes its own; both look first.  Daemons    *)
(* may die anywhere.                                                       *)
(***************************************************************************)
EXTENDS Naturals

CONSTANTS
  Daemons,       \* processes that use the same path
  MaxBinds       \* bound: sockets bound

VARIABLES
  name,          \* the socket the path leads to, or 0
  place,         \* where each daemon is in start or stop
  bound,         \* its socket
  identity,      \* _identity
  before,        \* what it saw first
  listening,     \* sockets that accept connections
  binds,
  crowded        \* history: two daemons were starting or stopping at the same time

vars == <<name, place, bound, identity, before, listening, binds, crowded>>

In(d, where) == place[d] = where
Resting(d) == place[d] \in {"down", "up"}

Goes(d, where) ==
  /\ place' = [place EXCEPT ![d] = where]
  /\ crowded' = (crowded \/ \E other \in Daemons \ {d} : ~Resting(d)' /\ ~Resting(other))

\* -------------------------------------------------------------------- starting
Begin(d) ==
  /\ In(d, "down") /\ binds < MaxBinds
  /\ Goes(d, "look")
  /\ UNCHANGED <<name, bound, identity, before, listening, binds>>

\* Mutant: what a dead daemon left is not looked for.
LookFree(d) ==
  /\ In(d, "look")
  /\ before' = [before EXCEPT ![d] = name]
  /\ Goes(d, "bind")
  /\ UNCHANGED <<name, bound, identity, listening, binds>>

\* _remove_stale_socket
Look(d) ==
  /\ In(d, "look")
  /\ before' = [before EXCEPT ![d] = name]
  /\ Goes(d, IF name = 0 THEN "bind" ELSE "probe")
  /\ UNCHANGED <<name, bound, identity, listening, binds>>

\* Mutant: a socket that is there is a dead one.
ProbeDead(d) ==
  /\ In(d, "probe")
  /\ Goes(d, IF name = 0 THEN "bind" ELSE "recheck")
  /\ UNCHANGED <<name, bound, identity, before, listening, binds>>

\* The daemon refuses to start where a connection is accepted.
Probe(d) ==
  /\ In(d, "probe")
  /\ Goes(d, IF name = 0 THEN "bind" ELSE IF name \in listening THEN "down" ELSE "recheck")
  /\ UNCHANGED <<name, bound, identity, before, listening, binds>>

Recheck(d) ==
  /\ In(d, "recheck")
  /\ Goes(d, IF name = 0 THEN "bind" ELSE IF name = before[d] THEN "unlink" ELSE "down")
  /\ UNCHANGED <<name, bound, identity, before, listening, binds>>

\* Whatever the path leads to by now.
UnlinkStale(d) ==
  /\ In(d, "unlink")
  /\ name' = 0 /\ Goes(d, IF name = 0 THEN "down" ELSE "bind")
  /\ UNCHANGED <<bound, identity, before, listening, binds>>

Bind(d) ==
  /\ In(d, "bind")
  /\ IF name = 0
     THEN /\ binds' = binds + 1 /\ name' = binds' /\ bound' = [bound EXCEPT ![d] = binds']
          /\ Goes(d, "identify")
     ELSE Goes(d, "down") /\ UNCHANGED <<binds, name, bound>>
  /\ UNCHANGED <<identity, before, listening>>

Identify(d) ==
  /\ In(d, "identify")
  /\ identity' = [identity EXCEPT ![d] = name]
  /\ Goes(d, IF name = 0 THEN "down" ELSE "listen")
  /\ UNCHANGED <<name, bound, before, listening, binds>>

\* chmod, which needs the name, and listen.
Listen(d) ==
  /\ In(d, "listen")
  /\ IF name = 0 THEN Goes(d, "own") /\ UNCHANGED listening
     ELSE listening' = listening \cup {bound[d]} /\ Goes(d, "up")
  /\ UNCHANGED <<name, bound, identity, before, binds>>

\* -------------------------------------------------------------------- stopping
Stop(d) ==
  /\ In(d, "up")
  /\ listening' = listening \ {bound[d]} /\ Goes(d, "own")
  /\ UNCHANGED <<name, bound, identity, before, binds>>

\* _unlink_matching_socket
Own(d) ==
  /\ In(d, "own")
  /\ Goes(d, IF name = identity[d] /\ name # 0 THEN "remove" ELSE "down")
  /\ UNCHANGED <<name, bound, identity, before, listening, binds>>

Remove(d) ==
  /\ In(d, "remove")
  /\ name' = 0 /\ Goes(d, "down")
  /\ UNCHANGED <<bound, identity, before, listening, binds>>

Dies(d) ==
  /\ ~In(d, "down")
  /\ listening' = listening \ {bound[d]} /\ Goes(d, "down")
  /\ UNCHANGED <<name, bound, identity, before, binds>>

Init ==
  /\ name = 0 /\ place = [d \in Daemons |-> "down"] /\ bound = [d \in Daemons |-> 0]
  /\ identity = bound /\ before = bound /\ listening = {} /\ binds = 0 /\ crowded = FALSE

Next ==
  \E d \in Daemons :
    \/ Begin(d) \/ Look(d) \/ Probe(d) \/ Recheck(d) \/ UnlinkStale(d) \/ Bind(d) \/ Identify(d)
    \/ Listen(d) \/ Stop(d) \/ Own(d) \/ Remove(d) \/ Dies(d)

Spec == Init /\ [][Next]_vars

\* ------------------------------------------------------------------ properties
\* The path leads to the daemon that is up, and there is only one, whatever others
\* began and died; unless two started or stopped at the same time.
OneEndpoint ==
  ~crowded =>
    \A d \in Daemons : In(d, "up") =>
      name = bound[d] /\ name \in listening /\ \A other \in Daemons \ {d} : ~In(other, "up")

Refused(d) ==
  \/ In(d, "probe") /\ name \in listening
  \/ In(d, "recheck") /\ name \notin {0, before[d]}
  \/ In(d, "unlink") /\ name = 0
  \/ In(d, "bind") /\ name # 0
  \/ In(d, "identify") /\ name = 0

\* What dead daemons left at the path keeps no other from starting.
NoneKeptOut == \A d \in Daemons : Refused(d) /\ ~crowded => \E other \in Daemons \ {d} : In(other, "up")

===============================================================================

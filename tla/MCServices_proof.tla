--------------------------- MODULE MCServices_proof ---------------------------
(***************************************************************************)
(* The daemon's servers on local sockets, for any numbers of connections,  *)
(* clients, callers, daemons, events and chunks and any faults: every      *)
(* connection of a server is somebody's and no more clients are admitted   *)
(* than allowed, a caller gets the answer to its own request, an event is  *)
(* refused for a loss only, a verified recording is the whole one, and the *)
(* socket's path leads to the daemon that is up.                           *)
(***************************************************************************)
EXTENDS MCServices, FiniteSetTheorems, SequenceTheorems, TLAPS

Server == INSTANCE SocketServer

\* Where workers are.
Places == {"off", "release", "receive", "dispatch", "subscribe", "get", "send", "look", "scan", "open"}

(***************************************************************************)
(* What the servers have in common.  A connection is not made yet, waits   *)
(* to be accepted, is being admitted or has a worker, and is so once.      *)
(***************************************************************************)
Fresh(s) == s \in unused \/ s \in backlog \/ s = admitting

ServerTypes ==
  /\ backlog \subseteq Conns /\ unused \subseteq Conns /\ near \subseteq Conns /\ far \subseteq Conns
  /\ admitting \in Conns \cup {None} /\ serving \in [Conns -> Places]
  /\ IsFiniteSet(clients)

Owned ==
  /\ near \subseteq backlog \cup {admitting} \cup clients
  /\ clients = {s \in Conns : serving[s] # "off"}
  /\ Cardinality(clients) <= MaxClients

ServerInv ==
  /\ ServerTypes
  /\ acceptor # "admit" => admitting = None
  /\ stage = "new" => acceptor = "off"
  /\ \A s \in Conns : Fresh(s) => serving[s] = "off"
  /\ \A s \in unused : s \notin backlog /\ s # admitting /\ s \notin near /\ s \notin far
  /\ \A s \in backlog : s # admitting
  /\ Owned

LEMMA SameCount == \A S : Server!Cardinality(S) = Cardinality(S)
  BY DEF Server!Cardinality, Cardinality

\* The client's end is closed.
Hangs == far' \subseteq far /\ UNCHANGED <<stopEvent, stage, acceptor, admitting, backlog, clients, serving, near, unused>>

LEMMA ServerBegins == Server!ServerInit => ServerInv
<1> SUFFICES ASSUME Server!ServerInit PROVE ServerInv
  OBVIOUS
<1>1. IsFiniteSet(clients) /\ Cardinality(clients) <= MaxClients
  BY FS_EmptySet, ServicesAssumption DEF Server!ServerInit
<1>2. serving \in [Conns -> Places] /\ clients = {s \in Conns : serving[s] # "off"}
  BY DEF Server!ServerInit, Places
<1>3. QED
  BY <1>1, <1>2, ServicesAssumption DEF Server!ServerInit, ServerInv, ServerTypes, Fresh, Owned

LEMMA ServerStarts == ServerInv /\ Server!Start => ServerInv'
  BY DEF Server!Start, Server!Fault, Server!socketVars, ServerInv, ServerTypes, Fresh, Owned

LEMMA ServerStops ==
  ASSUME NEW next, next # "new", ServerInv, Server!StopBegin(next)
  PROVE  ServerInv'
  BY DEF Server!StopBegin, ServerInv, ServerTypes, Fresh, Owned

LEMMA ServerShuts == ServerInv /\ Server!StopSockets => ServerInv'
  BY DEF Server!StopSockets, ServerInv, ServerTypes, Fresh, Owned

LEMMA ServerJoins ==
  ASSUME NEW left_, ServerInv, Server!StopJoin(left_)
  PROVE  ServerInv'
  BY DEF Server!StopJoin, ServerInv, ServerTypes, Fresh, Owned

LEMMA ServerExits == ServerInv /\ Server!Exit => ServerInv'
<1> SUFFICES ASSUME ServerInv, Server!Exit PROVE ServerInv'
  OBVIOUS
<1>1. IsFiniteSet(clients') /\ Cardinality(clients') <= MaxClients
  BY FS_EmptySet, ServicesAssumption DEF Server!Exit
<1>2. serving' \in [Conns -> Places] /\ clients' = {s \in Conns : serving'[s] # "off"}
  BY DEF Server!Exit, Places
<1>3. QED
  BY <1>1, <1>2, ServicesAssumption DEF Server!Exit, ServerInv, ServerTypes, Fresh, Owned

LEMMA ServerAccepts ==
  ASSUME NEW s \in Conns, ServerInv, Server!Accept(s)
  PROVE  ServerInv'
  BY ServicesAssumption DEF Server!Accept, ServerInv, ServerTypes, Fresh, Owned

LEMMA ServerDeaf == ServerInv /\ (Server!AcceptEnds \/ Server!AcceptBreaks) => ServerInv'
  BY DEF Server!AcceptEnds, Server!AcceptBreaks, Server!Fault, Server!socketVars, ServerInv,
         ServerTypes, Fresh, Owned

LEMMA ServerAdmits ==
  ASSUME NEW s \in Conns, NEW begin \in Places \ {"off"}, ServerInv, Server!Admit(s, begin)
  PROVE  ServerInv'
<1>1. IsFiniteSet(clients) /\ Cardinality(clients) \in Nat /\ MaxClients \in Nat
  BY FS_CardinalityType, ServicesAssumption DEF ServerInv, ServerTypes
<1>2. /\ IsFiniteSet(clients \cup {s})
      /\ Cardinality(clients \cup {s}) <= Cardinality(clients) + 1
  BY <1>1, FS_AddElement
<1>3. CASE Server!Room /\ clients' = clients \cup {s} /\ serving' = [serving EXCEPT ![s] = begin]
  <2>1. IsFiniteSet(clients') /\ Cardinality(clients') <= MaxClients
    <3>1. /\ IsFiniteSet(clients') /\ Cardinality(clients') \in Nat
          /\ Cardinality(clients') <= Cardinality(clients) + 1
      BY <1>2, <1>3, FS_CardinalityType
    <3>2. Cardinality(clients) < MaxClients
      BY <1>3, SameCount DEF Server!Room
    <3>3. QED
      BY <1>1, <3>1, <3>2
  <2>2. serving' \in [Conns -> Places] /\ clients' = {t \in Conns : serving'[t] # "off"}
    BY <1>3 DEF ServerInv, ServerTypes, Owned
  <2>3. QED
    BY <1>3, <2>1, <2>2, ServicesAssumption
       DEF Server!Admit, Server!Room, ServerInv, ServerTypes, Fresh, Owned
<1>4. CASE clients' = clients /\ serving' = serving
  BY <1>4, ServicesAssumption
     DEF Server!Admit, Server!Room, Server!Fault, ServerInv, ServerTypes, Fresh, Owned
<1>5. QED
  BY <1>3, <1>4 DEF Server!Admit

LEMMA WorkerMoves ==
  ASSUME NEW s \in Conns, NEW where \in Places \ {"off"}, ServerInv,
         serving[s] # "off", Server!Becomes(s, where)
  PROVE  ServerInv'
  BY DEF Server!Becomes, Server!socketVars, ServerInv, ServerTypes, Fresh, Owned

LEMMA WorkerEnds ==
  ASSUME NEW s \in Conns, ServerInv, Server!Release(s)
  PROVE  ServerInv'
<1>1. IsFiniteSet(clients) /\ Cardinality(clients) \in Nat /\ MaxClients \in Nat
  BY FS_CardinalityType, ServicesAssumption DEF ServerInv, ServerTypes
<1>2. IsFiniteSet(clients \ {s}) /\ Cardinality(clients \ {s}) <= Cardinality(clients)
  BY <1>1, FS_RemoveElement
<1>3. Cardinality(clients \ {s}) \in Nat
  BY <1>2, FS_CardinalityType
<1>4. Cardinality(clients') <= MaxClients /\ IsFiniteSet(clients')
  <2>1. clients' = clients \ {s}
    BY DEF Server!Release
  <2>2. Cardinality(clients) <= MaxClients
    BY DEF ServerInv, Owned
  <2>3. /\ IsFiniteSet(clients') /\ Cardinality(clients') <= Cardinality(clients)
        /\ Cardinality(clients') \in Nat
    BY <1>2, <1>3, <2>1
  <2>4. QED
    BY <1>1, <2>2, <2>3
<1>5. serving' \in [Conns -> Places] /\ clients' = {t \in Conns : serving'[t] # "off"}
  BY DEF Server!Release, ServerInv, ServerTypes, Owned, Places
<1>6. QED
  BY <1>4, <1>5 DEF Server!Release, ServerInv, ServerTypes, Fresh, Owned

LEMMA ClientConnects ==
  ASSUME NEW s \in Conns, ServerInv, Server!Opens(s),
         UNCHANGED <<stopEvent, stage, acceptor, admitting, clients, serving>>
  PROVE  ServerInv'
  BY ServicesAssumption
     DEF Server!Opens, Server!Reachable, ServerInv, ServerTypes, Fresh, Owned

LEMMA ClientHangs == ServerInv /\ Hangs => ServerInv'
  BY DEF Hangs, ServerInv, ServerTypes, Fresh, Owned

\* A step of start, stop or the accept thread; a worker begins on a connection that
\* was fresh, and nothing else happens to workers.
ServerStep(begin) ==
  \/ Server!Start \/ Server!StopSockets \/ Server!AcceptEnds \/ Server!AcceptBreaks
  \/ \E next \in {"sockets", "stream"} : Server!StopBegin(next)
  \/ \E over \in {{}, clients} : Server!StopJoin(over)
  \/ \E s \in Conns : Server!Accept(s) \/ Server!Admit(s, begin)

LEMMA ServerSteps ==
  ASSUME NEW begin \in Places \ {"off"}, ServerInv, ServerStep(begin)
  PROVE  /\ ServerInv'
         /\ far' = far /\ unused' = unused
         /\ \A s \in Conns : /\ Fresh(s)' => Fresh(s)
                             /\ serving'[s] = serving[s] \/ (Fresh(s) /\ serving'[s] = begin)
<1>1. ServerInv'
  BY ServerStarts, ServerStops, ServerShuts, ServerJoins, ServerAccepts, ServerAdmits, ServerDeaf
     DEF ServerStep
<1>2. CASE Server!Start \/ Server!StopSockets \/ Server!AcceptEnds \/ Server!AcceptBreaks
  BY <1>1, <1>2 DEF Server!Start, Server!StopSockets, Server!AcceptEnds, Server!AcceptBreaks,
     Server!socketVars, Fresh
<1>3. CASE \E next \in {"sockets", "stream"} : Server!StopBegin(next)
  BY <1>1, <1>3 DEF Server!StopBegin, Fresh
<1>4. CASE \E over \in {{}, clients} : Server!StopJoin(over)
  BY <1>1, <1>4 DEF Server!StopJoin, Fresh
<1>5. ASSUME NEW c \in Conns, Server!Accept(c)
      PROVE  far' = far /\ unused' = unused /\ serving' = serving /\ \A s \in Conns : Fresh(s)' => Fresh(s)
  BY <1>5 DEF Server!Accept, Fresh
<1>7. ASSUME NEW c \in Conns, Server!Admit(c, begin)
      PROVE  /\ far' = far /\ unused' = unused
             /\ \A s \in Conns : /\ Fresh(s)' => Fresh(s)
                                 /\ serving'[s] = serving[s] \/ (Fresh(s) /\ serving'[s] = begin)
  BY <1>7, ServicesAssumption DEF Server!Admit, Fresh, ServerInv, ServerTypes
<1>6. QED
  BY <1>1, <1>2, <1>3, <1>4, <1>5, <1>7 DEF ServerStep

(***************************************************************************)
(* The socket's path.  Unless two daemons were starting or stopping at     *)
(* once, the one that starts finds nobody up once it has probed, and the   *)
(* path is as it saw it.                                                   *)
(***************************************************************************)
PathSteps == {"down", "look", "probe", "recheck", "unlink", "bind", "identify", "listen", "up", "own", "remove"}

PathTypes ==
  /\ name \in Nat /\ binds \in Nat /\ crowded \in BOOLEAN /\ listening \subseteq Nat
  /\ place \in [Daemons -> PathSteps] /\ bound \in [Daemons -> Nat]
  /\ identity \in [Daemons -> Nat] /\ before \in [Daemons -> Nat]

\* A socket is bound once, and one that listens is that of a daemon that is up.
BindInv ==
  /\ \A d \in Daemons : bound[d] <= binds
  /\ \A d, e \in Daemons : d # e /\ bound[d] = bound[e] => bound[d] = 0
  /\ \A d \in Daemons : place[d] \in {"identify", "listen", "up"} => bound[d] # 0
  /\ \A n \in listening : \E d \in Daemons : place[d] = "up" /\ bound[d] = n

\* What a daemon that starts alone knows of the path.
NameInv(d) ==
  /\ place[d] \in {"probe", "recheck", "unlink"} => name = before[d] /\ name # 0
  /\ place[d] = "bind" => name = 0
  /\ place[d] \in {"identify", "listen"} => name = bound[d]
  /\ place[d] = "up" => name = bound[d] /\ name \in listening

Moving(d) == place[d] \notin {"down", "up"}

AloneInv ==
  /\ \A d, e \in Daemons : d # e => ~(Moving(d) /\ Moving(e))
  /\ \A d, e \in Daemons :
       d # e /\ place[e] = "up" => place[d] \in {"down", "look", "probe"}
  /\ \A d \in Daemons : NameInv(d)

PathInv == PathTypes /\ BindInv /\ (~crowded => AloneInv)

LEMMA PathGoes ==
  ASSUME NEW d \in Daemons, NEW where \in PathSteps, PathTypes, Path!Goes(d, where)
  PROVE  /\ place' = [place EXCEPT ![d] = where] /\ place' \in [Daemons -> PathSteps]
         /\ crowded' \in BOOLEAN
         /\ ~crowded' => ~crowded /\ (where \in {"down", "up"} \/ \A e \in Daemons \ {d} : ~Moving(e))
<1>1. place' = [place EXCEPT ![d] = where] /\ place' \in [Daemons -> PathSteps] /\ place'[d] = where
  BY DEF Path!Goes, PathTypes
<1>2. crowded' \in BOOLEAN
  BY DEF Path!Goes, PathTypes
<1>3. ASSUME ~crowded', where \notin {"down", "up"}
      PROVE  \A e \in Daemons \ {d} : ~Moving(e)
  BY <1>1, <1>3 DEF Path!Goes, Path!Resting, Moving
<1>4. ~crowded' => ~crowded
  BY DEF Path!Goes
<1>5. QED
  BY <1>1, <1>2, <1>3, <1>4

LEMMA PathBegins == Path!Init => PathInv
<1> SUFFICES ASSUME Path!Init PROVE PathInv
  OBVIOUS
<1>1. PathTypes
  BY DEF Path!Init, PathTypes, PathSteps
<1>2. \A d \in Daemons : place[d] = "down" /\ bound[d] = 0
  BY DEF Path!Init
<1>3. binds = 0 /\ listening = {}
  BY DEF Path!Init
<1>4. QED
  BY <1>1, <1>2, <1>3 DEF PathInv, BindInv, AloneInv, NameInv, Moving

\* A daemon that moves on and leaves the sockets alone.
LEMMA PathLooks ==
  ASSUME NEW d \in Daemons, PathInv,
         Path!Begin(d) \/ Path!Look(d) \/ Path!Probe(d) \/ Path!Recheck(d) \/ Path!Own(d)
  PROVE  PathInv'
<1>1. PICK where \in PathSteps : Path!Goes(d, where)
  BY DEF Path!Begin, Path!Look, Path!Probe, Path!Recheck, Path!Own, PathSteps
<1>2. /\ place' = [place EXCEPT ![d] = where] /\ place' \in [Daemons -> PathSteps]
      /\ crowded' \in BOOLEAN
      /\ ~crowded' => ~crowded /\ (where \in {"down", "up"} \/ \A e \in Daemons \ {d} : ~Moving(e))
  BY <1>1, PathGoes DEF PathInv
<1>3. PathTypes'
  BY <1>2 DEF Path!Begin, Path!Look, Path!Probe, Path!Recheck, Path!Own, PathInv, PathTypes
<1>5. /\ UNCHANGED <<bound, listening, binds>>
      /\ place[d] # "up" /\ where \notin {"identify", "listen", "up"}
  BY <1>1, <1>2 DEF Path!Begin, Path!Look, Path!Probe, Path!Recheck, Path!Own, Path!In, Path!Goes, PathInv, PathTypes
<1>6. BindInv'
  BY <1>2, <1>5 DEF PathInv, PathTypes, BindInv
<1>4. ASSUME ~crowded' PROVE AloneInv'
  BY <1>2, <1>4 DEF Path!Begin, Path!Look, Path!Probe, Path!Recheck, Path!Own, Path!In, Path!Goes,
     PathInv, PathTypes, BindInv, AloneInv, NameInv, Moving
<1>7. QED
  BY <1>3, <1>4, <1>6 DEF PathInv

\* A daemon that removes what is at the path, whoever's it is.
LEMMA PathRemoves ==
  ASSUME NEW d \in Daemons, PathInv, Path!UnlinkStale(d) \/ Path!Remove(d)
  PROVE  PathInv'
<1>1. PICK where \in {"down", "bind"} : Path!Goes(d, where)
  BY DEF Path!UnlinkStale, Path!Remove
<1>2. /\ place' = [place EXCEPT ![d] = where] /\ place' \in [Daemons -> PathSteps]
      /\ crowded' \in BOOLEAN
      /\ ~crowded' => ~crowded /\ (where \in {"down", "up"} \/ \A e \in Daemons \ {d} : ~Moving(e))
  BY <1>1, PathGoes DEF PathInv, PathSteps
<1>3. name' = 0 /\ UNCHANGED <<bound, identity, before, listening, binds>> /\ place[d] \in {"unlink", "remove"}
  BY DEF Path!UnlinkStale, Path!Remove, Path!In
<1>4. PathTypes' /\ BindInv'
  BY <1>2, <1>3 DEF PathInv, PathTypes, BindInv
<1>5. ASSUME ~crowded' PROVE AloneInv'
  BY <1>2, <1>3, <1>5 DEF PathInv, PathTypes, AloneInv, NameInv, Moving
<1>6. QED
  BY <1>4, <1>5 DEF PathInv

LEMMA PathBinds ==
  ASSUME NEW d \in Daemons, PathInv, Path!Bind(d)
  PROVE  PathInv'
<1>1. PICK where \in {"down", "identify"} : Path!Goes(d, where)
  BY DEF Path!Bind
<1>2. /\ place' = [place EXCEPT ![d] = where] /\ place' \in [Daemons -> PathSteps]
      /\ crowded' \in BOOLEAN
      /\ ~crowded' => ~crowded /\ (where \in {"down", "up"} \/ \A e \in Daemons \ {d} : ~Moving(e))
  BY <1>1, PathGoes DEF PathInv, PathSteps
<1>3. place[d] = "bind" /\ UNCHANGED <<identity, before, listening>>
  BY DEF Path!Bind, Path!In
<1>4. CASE name = 0
  <2>1. /\ binds' = binds + 1 /\ name' = binds + 1 /\ bound' = [bound EXCEPT ![d] = binds + 1]
        /\ where = "identify"
    BY <1>2, <1>4 DEF Path!Bind, Path!Goes, PathInv, PathTypes
  <2>2. PathTypes'
    BY <1>2, <1>3, <2>1 DEF PathInv, PathTypes
  <2>3. BindInv'
    BY <1>2, <1>3, <2>1 DEF PathInv, PathTypes, BindInv
  <2>4. ASSUME ~crowded' PROVE AloneInv'
    BY <1>2, <1>3, <2>1, <2>4 DEF PathInv, PathTypes, AloneInv, NameInv, Moving
  <2>5. QED
    BY <2>2, <2>3, <2>4 DEF PathInv
<1>5. CASE name # 0
  <2>1. UNCHANGED <<name, bound, binds>> /\ where = "down"
    BY <1>2, <1>5 DEF Path!Bind, Path!Goes, PathInv, PathTypes
  <2>2. PathTypes' /\ BindInv'
    BY <1>2, <1>3, <2>1 DEF PathInv, PathTypes, BindInv
  <2>3. ASSUME ~crowded' PROVE AloneInv'
    BY <1>2, <1>3, <2>1, <2>3 DEF PathInv, PathTypes, AloneInv, NameInv, Moving
  <2>4. QED
    BY <2>2, <2>3 DEF PathInv
<1>6. QED
  BY <1>4, <1>5

LEMMA PathIdentifies ==
  ASSUME NEW d \in Daemons, PathInv, Path!Identify(d)
  PROVE  PathInv'
<1>1. PICK where \in {"down", "listen"} : Path!Goes(d, where) /\ (where = "down" <=> name = 0)
  BY DEF Path!Identify
<1>2. /\ place' = [place EXCEPT ![d] = where] /\ place' \in [Daemons -> PathSteps]
      /\ crowded' \in BOOLEAN
      /\ ~crowded' => ~crowded /\ (where \in {"down", "up"} \/ \A e \in Daemons \ {d} : ~Moving(e))
  BY <1>1, PathGoes DEF PathInv, PathSteps
<1>3. /\ place[d] = "identify" /\ identity' = [identity EXCEPT ![d] = name]
      /\ UNCHANGED <<name, bound, before, listening, binds>>
  BY DEF Path!Identify, Path!In
<1>4. PathTypes' /\ BindInv'
  BY <1>2, <1>3 DEF PathInv, PathTypes, BindInv
<1>5. ASSUME ~crowded' PROVE AloneInv'
  BY <1>1, <1>2, <1>3, <1>5 DEF PathInv, PathTypes, AloneInv, NameInv, Moving
<1>6. QED
  BY <1>4, <1>5 DEF PathInv

LEMMA PathListens ==
  ASSUME NEW d \in Daemons, PathInv, Path!Listen(d)
  PROVE  PathInv'
<1>1. PICK where \in {"own", "up"} : Path!Goes(d, where)
  BY DEF Path!Listen
<1>2. /\ place' = [place EXCEPT ![d] = where] /\ place' \in [Daemons -> PathSteps]
      /\ crowded' \in BOOLEAN
      /\ ~crowded' => ~crowded /\ (where \in {"down", "up"} \/ \A e \in Daemons \ {d} : ~Moving(e))
  BY <1>1, PathGoes DEF PathInv, PathSteps
<1>3. /\ place[d] = "listen" /\ UNCHANGED <<name, bound, identity, before, binds>>
      /\ listening' = IF name = 0 THEN listening ELSE listening \cup {bound[d]}
      /\ where = IF name = 0 THEN "own" ELSE "up"
  BY <1>1, <1>2 DEF Path!Listen, Path!In, Path!Goes, PathInv, PathTypes
<1>4. PathTypes' /\ BindInv'
  <2>1. PathTypes'
    BY <1>2, <1>3 DEF PathInv, PathTypes
  <2>2. ASSUME NEW n \in listening'
        PROVE  \E e \in Daemons : place'[e] = "up" /\ bound'[e] = n
    <3>1. CASE n \in listening
      <4>1. PICK e \in Daemons : place[e] = "up" /\ bound[e] = n
        BY <3>1 DEF PathInv, BindInv
      <4>2. QED
        BY <1>2, <1>3, <4>1 DEF PathInv, PathTypes
    <3>2. CASE n \notin listening
      BY <1>2, <1>3, <2>2, <3>2 DEF PathInv, PathTypes
    <3>3. QED
      BY <3>1, <3>2
  <2>3. \A e \in Daemons : place'[e] \in {"identify", "listen", "up"} => bound'[e] # 0
    BY <1>2, <1>3 DEF PathInv, PathTypes, BindInv
  <2>4. QED
    BY <1>3, <2>1, <2>2, <2>3 DEF PathInv, BindInv
<1>5. ASSUME ~crowded' PROVE AloneInv'
  BY <1>2, <1>3, <1>5 DEF PathInv, PathTypes, AloneInv, NameInv, BindInv, Moving
<1>6. QED
  BY <1>4, <1>5 DEF PathInv

\* A daemon that stops or dies.
LEMMA PathLeaves ==
  ASSUME NEW d \in Daemons, PathInv, Path!Stop(d) \/ Path!Dies(d)
  PROVE  PathInv'
<1>1. PICK where \in {"own", "down"} : Path!Goes(d, where)
  BY DEF Path!Stop, Path!Dies
<1>2. /\ place' = [place EXCEPT ![d] = where] /\ place' \in [Daemons -> PathSteps]
      /\ crowded' \in BOOLEAN
      /\ ~crowded' => ~crowded /\ (where \in {"down", "up"} \/ \A e \in Daemons \ {d} : ~Moving(e))
  BY <1>1, PathGoes DEF PathInv, PathSteps
<1>3. /\ UNCHANGED <<name, bound, identity, before, binds>> /\ listening' = listening \ {bound[d]}
      /\ where = "own" => place[d] = "up"
  BY <1>1, <1>2 DEF Path!Stop, Path!Dies, Path!In, Path!Goes, PathInv, PathTypes
<1>4. PathTypes' /\ BindInv'
  <2>1. PathTypes'
    BY <1>2, <1>3 DEF PathInv, PathTypes
  <2>2. ASSUME NEW n \in listening'
        PROVE  \E e \in Daemons : place'[e] = "up" /\ bound'[e] = n
    <3>1. PICK e \in Daemons : place[e] = "up" /\ bound[e] = n
      BY <1>3 DEF PathInv, BindInv
    <3>2. e # d
      BY <1>3, <3>1
    <3>3. QED
      BY <1>2, <1>3, <3>1, <3>2 DEF PathInv, PathTypes
  <2>3. \A e \in Daemons : place'[e] \in {"identify", "listen", "up"} => bound'[e] # 0
    BY <1>2, <1>3 DEF PathInv, PathTypes, BindInv
  <2>4. QED
    BY <1>3, <2>1, <2>2, <2>3 DEF PathInv, BindInv
<1>5. ASSUME ~crowded' PROVE AloneInv'
  BY <1>2, <1>3, <1>5 DEF PathInv, PathTypes, AloneInv, NameInv, BindInv, Moving
<1>6. QED
  BY <1>4, <1>5 DEF PathInv

LEMMA PathStep == PathInv /\ Path!Next => PathInv'
  BY PathLooks, PathRemoves, PathBinds, PathIdentifies, PathListens, PathLeaves DEF Path!Next

LEMMA PathRests ==
  PathInv /\ UNCHANGED <<name, place, bound, identity, before, listening, binds, crowded>> => PathInv'
  BY DEF PathInv, PathTypes, BindInv, AloneInv, NameInv, Moving

LEMMA PathSound == PathInv => Path!OneEndpoint /\ Path!NoneKeptOut
<1> SUFFICES ASSUME PathInv, ~crowded PROVE Path!OneEndpoint /\ Path!NoneKeptOut
  BY DEF Path!OneEndpoint, Path!NoneKeptOut
<1>1. Path!OneEndpoint
  BY DEF Path!OneEndpoint, Path!In, PathInv, PathTypes, AloneInv, NameInv
<1>2. ASSUME NEW d \in Daemons, Path!Refused(d)
      PROVE  place[d] = "probe" /\ name \in listening
  BY <1>2 DEF Path!Refused, Path!In, PathInv, PathTypes, BindInv, AloneInv, NameInv
<1>3. Path!NoneKeptOut
  BY <1>2 DEF Path!NoneKeptOut, Path!In, PathInv, BindInv
<1>4. QED
  BY <1>1, <1>3

(***************************************************************************)
(* The services extend the same server.                                    *)
(***************************************************************************)
LEMMA ApiServer ==
  /\ Api!ServerInit <=> Server!ServerInit
  /\ Api!Start <=> Server!Start
  /\ \A next : Api!StopBegin(next) <=> Server!StopBegin(next)
  /\ Api!StopSockets <=> Server!StopSockets
  /\ \A over : Api!StopJoin(over) <=> Server!StopJoin(over)
  /\ Api!Exit <=> Server!Exit
  /\ \A s : Api!Accept(s) <=> Server!Accept(s)
  /\ Api!AcceptEnds <=> Server!AcceptEnds
  /\ Api!AcceptBreaks <=> Server!AcceptBreaks
  /\ \A s, begin : Api!Admit(s, begin) <=> Server!Admit(s, begin)
  /\ \A s, where : Api!Becomes(s, where) <=> Server!Becomes(s, where)
  /\ \A s : Api!Release(s) <=> Server!Release(s)
  /\ \A s : Api!Opens(s) <=> Server!Opens(s)
  /\ Api!Owned <=> Owned
<1>1. Api!ServerInit <=> Server!ServerInit
  BY DEF Api!ServerInit, Server!ServerInit
<1>2. Api!Start <=> Server!Start
  BY DEF Api!Start, Api!Fault, Api!socketVars, Server!Start, Server!Fault, Server!socketVars
<1>3. \A next : Api!StopBegin(next) <=> Server!StopBegin(next)
  BY DEF Api!StopBegin, Server!StopBegin
<1>4. Api!StopSockets <=> Server!StopSockets
  BY DEF Api!StopSockets, Server!StopSockets
<1>5. \A over : Api!StopJoin(over) <=> Server!StopJoin(over)
  BY DEF Api!StopJoin, Server!StopJoin
<1>6. Api!Exit <=> Server!Exit
  BY DEF Api!Exit, Server!Exit
<1>7. \A s : Api!Accept(s) <=> Server!Accept(s)
  BY DEF Api!Accept, Server!Accept
<1>8. (Api!AcceptEnds <=> Server!AcceptEnds) /\ (Api!AcceptBreaks <=> Server!AcceptBreaks)
  BY DEF Api!AcceptEnds, Api!AcceptBreaks, Api!Fault, Api!socketVars,
         Server!AcceptEnds, Server!AcceptBreaks, Server!Fault, Server!socketVars
<1>9. \A S : Api!Cardinality(S) = Cardinality(S)
  BY DEF Api!Cardinality, Cardinality
<1>10. Api!Room <=> Server!Room
  BY <1>9, SameCount DEF Api!Room, Server!Room
<1>11. \A s, begin : Api!Admit(s, begin) <=> Server!Admit(s, begin)
  BY <1>10 DEF Api!Admit, Api!Fault, Server!Admit, Server!Fault
<1>12. \A s, where : Api!Becomes(s, where) <=> Server!Becomes(s, where)
  BY DEF Api!Becomes, Api!socketVars, Server!Becomes, Server!socketVars
<1>13. \A s : Api!Release(s) <=> Server!Release(s)
  BY DEF Api!Release, Server!Release
<1>14. \A s : Api!Opens(s) <=> Server!Opens(s)
  BY DEF Api!Opens, Api!Reachable, Server!Opens, Server!Reachable
<1>15. Api!Owned <=> Owned
  BY <1>9 DEF Api!Owned, Owned
<1>16. QED
  BY <1>1, <1>2, <1>3, <1>4, <1>5, <1>6, <1>7, <1>8, <1>11, <1>12, <1>13, <1>14, <1>15

LEMMA EventsServer ==
  /\ Events!ServerInit <=> Server!ServerInit
  /\ Events!Start <=> Server!Start
  /\ \A next : Events!StopBegin(next) <=> Server!StopBegin(next)
  /\ Events!StopSockets <=> Server!StopSockets
  /\ \A over : Events!StopJoin(over) <=> Server!StopJoin(over)
  /\ Events!Exit <=> Server!Exit
  /\ \A s : Events!Accept(s) <=> Server!Accept(s)
  /\ Events!AcceptEnds <=> Server!AcceptEnds
  /\ Events!AcceptBreaks <=> Server!AcceptBreaks
  /\ \A s, begin : Events!Admit(s, begin) <=> Server!Admit(s, begin)
  /\ \A s, where : Events!Becomes(s, where) <=> Server!Becomes(s, where)
  /\ \A s : Events!Release(s) <=> Server!Release(s)
  /\ \A s : Events!Opens(s) <=> Server!Opens(s)
  /\ Events!Owned <=> Owned
<1>1. Events!ServerInit <=> Server!ServerInit
  BY DEF Events!ServerInit, Server!ServerInit
<1>2. Events!Start <=> Server!Start
  BY DEF Events!Start, Events!Fault, Events!socketVars, Server!Start, Server!Fault, Server!socketVars
<1>3. \A next : Events!StopBegin(next) <=> Server!StopBegin(next)
  BY DEF Events!StopBegin, Server!StopBegin
<1>4. Events!StopSockets <=> Server!StopSockets
  BY DEF Events!StopSockets, Server!StopSockets
<1>5. \A over : Events!StopJoin(over) <=> Server!StopJoin(over)
  BY DEF Events!StopJoin, Server!StopJoin
<1>6. Events!Exit <=> Server!Exit
  BY DEF Events!Exit, Server!Exit
<1>7. \A s : Events!Accept(s) <=> Server!Accept(s)
  BY DEF Events!Accept, Server!Accept
<1>8. (Events!AcceptEnds <=> Server!AcceptEnds) /\ (Events!AcceptBreaks <=> Server!AcceptBreaks)
  BY DEF Events!AcceptEnds, Events!AcceptBreaks, Events!Fault, Events!socketVars,
         Server!AcceptEnds, Server!AcceptBreaks, Server!Fault, Server!socketVars
<1>9. \A S : Events!Cardinality(S) = Cardinality(S)
  BY DEF Events!Cardinality, Cardinality
<1>10. Events!Room <=> Server!Room
  BY <1>9, SameCount DEF Events!Room, Server!Room
<1>11. \A s, begin : Events!Admit(s, begin) <=> Server!Admit(s, begin)
  BY <1>10 DEF Events!Admit, Events!Fault, Server!Admit, Server!Fault
<1>12. \A s, where : Events!Becomes(s, where) <=> Server!Becomes(s, where)
  BY DEF Events!Becomes, Events!socketVars, Server!Becomes, Server!socketVars
<1>13. \A s : Events!Release(s) <=> Server!Release(s)
  BY DEF Events!Release, Server!Release
<1>14. \A s : Events!Opens(s) <=> Server!Opens(s)
  BY DEF Events!Opens, Events!Reachable, Server!Opens, Server!Reachable
<1>15. Events!Owned <=> Owned
  BY <1>9 DEF Events!Owned, Owned
<1>16. QED
  BY <1>1, <1>2, <1>3, <1>4, <1>5, <1>6, <1>7, <1>8, <1>11, <1>12, <1>13, <1>14, <1>15

LEMMA FilesServer ==
  /\ Files!ServerInit <=> Server!ServerInit
  /\ Files!Start <=> Server!Start
  /\ \A next : Files!StopBegin(next) <=> Server!StopBegin(next)
  /\ Files!StopSockets <=> Server!StopSockets
  /\ \A over : Files!StopJoin(over) <=> Server!StopJoin(over)
  /\ Files!Exit <=> Server!Exit
  /\ \A s : Files!Accept(s) <=> Server!Accept(s)
  /\ Files!AcceptEnds <=> Server!AcceptEnds
  /\ Files!AcceptBreaks <=> Server!AcceptBreaks
  /\ \A s, begin : Files!Admit(s, begin) <=> Server!Admit(s, begin)
  /\ \A s, where : Files!Becomes(s, where) <=> Server!Becomes(s, where)
  /\ \A s : Files!Release(s) <=> Server!Release(s)
  /\ \A s : Files!Opens(s) <=> Server!Opens(s)
  /\ Files!Owned <=> Owned
<1>1. Files!ServerInit <=> Server!ServerInit
  BY DEF Files!ServerInit, Server!ServerInit
<1>2. Files!Start <=> Server!Start
  BY DEF Files!Start, Files!Fault, Files!socketVars, Server!Start, Server!Fault, Server!socketVars
<1>3. \A next : Files!StopBegin(next) <=> Server!StopBegin(next)
  BY DEF Files!StopBegin, Server!StopBegin
<1>4. Files!StopSockets <=> Server!StopSockets
  BY DEF Files!StopSockets, Server!StopSockets
<1>5. \A over : Files!StopJoin(over) <=> Server!StopJoin(over)
  BY DEF Files!StopJoin, Server!StopJoin
<1>6. Files!Exit <=> Server!Exit
  BY DEF Files!Exit, Server!Exit
<1>7. \A s : Files!Accept(s) <=> Server!Accept(s)
  BY DEF Files!Accept, Server!Accept
<1>8. (Files!AcceptEnds <=> Server!AcceptEnds) /\ (Files!AcceptBreaks <=> Server!AcceptBreaks)
  BY DEF Files!AcceptEnds, Files!AcceptBreaks, Files!Fault, Files!socketVars,
         Server!AcceptEnds, Server!AcceptBreaks, Server!Fault, Server!socketVars
<1>9. \A S : Files!Cardinality(S) = Cardinality(S)
  BY DEF Files!Cardinality, Cardinality
<1>10. Files!Room <=> Server!Room
  BY <1>9, SameCount DEF Files!Room, Server!Room
<1>11. \A s, begin : Files!Admit(s, begin) <=> Server!Admit(s, begin)
  BY <1>10 DEF Files!Admit, Files!Fault, Server!Admit, Server!Fault
<1>12. \A s, where : Files!Becomes(s, where) <=> Server!Becomes(s, where)
  BY DEF Files!Becomes, Files!socketVars, Server!Becomes, Server!socketVars
<1>13. \A s : Files!Release(s) <=> Server!Release(s)
  BY DEF Files!Release, Server!Release
<1>14. \A s : Files!Opens(s) <=> Server!Opens(s)
  BY DEF Files!Opens, Files!Reachable, Server!Opens, Server!Reachable
<1>15. Files!Owned <=> Owned
  BY <1>9 DEF Files!Owned, Owned
<1>16. QED
  BY <1>1, <1>2, <1>3, <1>4, <1>5, <1>6, <1>7, <1>8, <1>11, <1>12, <1>13, <1>14, <1>15

(***************************************************************************)
(* Recording files.  What a worker saw when it asked the manager stays     *)
(* true of the recording if it was final, a response is promised only for  *)
(* a recording that was nobody's, and what the client has and still        *)
(* expects is what was promised.                                           *)
(***************************************************************************)
Recordings == {"none", "open", "held", "closed", "final", "deleted"}

Statuses == {"ok", "not_found", "unavailable", "not_playable", "failed"}

FilesTypes ==
  /\ recording \in Recordings /\ chunks \in Nat
  /\ saw \in [Conns -> Recordings \cup {None}]
  /\ left \in [Conns -> Nat] /\ header \in [Conns -> {None} \cup [status : Statuses, length : Nat]]
  /\ body \in [Conns -> Nat] /\ expects \in [Conns -> Nat] /\ received \in [Conns -> Nat]
  /\ download \in [Conns -> {"none", "header", "body", "verified", "broken"} \cup Statuses]

Offers(s) == header[s] # None /\ header[s].status = "ok"
Promised(s) == Offers(s) \/ download[s] \in {"body", "verified"}

FileInv(s) ==
  /\ Fresh(s) => header[s] = None
  /\ s \in unused => download[s] = "none"
  /\ download[s] \in {"none", "header"} => received[s] = 0
  /\ serving[s] = "receive" => ~Promised(s)
  /\ Promised(s) => ~Fresh(s) /\ serving[s] \in {"send", "release", "off"}
  /\ serving[s] \in {"scan", "open"} \/ Promised(s) =>
       /\ saw[s] \in Recordings
       /\ saw[s] \in {"final", "deleted"} => recording \in {saw[s], "deleted"}
  /\ serving[s] = "open" \/ Promised(s) => saw[s] \in {"none", "open", "final"}
  /\ saw[s] = "final" /\ Offers(s) => header[s].length = chunks
  /\ saw[s] = "final" /\ download[s] \in {"body", "verified"} => received[s] + expects[s] = chunks
  /\ download[s] = "verified" => expects[s] = 0

FilesInv == ServerInv /\ FilesTypes /\ \A s \in Conns : FileInv(s)

LEMMA FilesBegins == Files!Init => FilesInv
<1> SUFFICES ASSUME Files!Init PROVE FilesInv
  OBVIOUS
<1>1. ServerInv
  BY ServerBegins, FilesServer DEF Files!Init
<1>2. FilesTypes
  BY DEF Files!Init, FilesTypes, Recordings, Statuses
<1>3. \A s \in Conns : serving[s] = "off" /\ header[s] = None /\ download[s] = "none" /\ received[s] = 0
  BY DEF Files!Init, Files!ServerInit
<1>4. QED
  BY <1>1, <1>2, <1>3 DEF FilesInv, FileInv, Promised, Offers

\* The threads of the server leave the files and the wire alone.
LEMMA FilesServes ==
  ASSUME FilesInv,
         \/ Files!ServerStart \/ Files!ServerStop \/ Files!Accepting \/ Files!ServerBreaks
  PROVE  FilesInv'
<1>1. UNCHANGED <<recording, chunks, saw, left, header, body, download, expects, received>>
  BY DEF Files!ServerStart, Files!ServerStop, Files!Stopping, Files!Accepting, Files!ServerBreaks,
         Files!fileVars, Files!workVars, Files!wireVars, Files!clientVars
<1>2. ServerStep("receive")
  BY FilesServer
     DEF ServerStep, Files!ServerStart, Files!ServerStop, Files!Stopping, Files!Accepting,
         Files!ServerBreaks, Files!Acceptor
<1>3. /\ ServerInv' /\ unused' = unused
      /\ \A s \in Conns : /\ Fresh(s)' => Fresh(s)
                          /\ serving'[s] = serving[s] \/ (Fresh(s) /\ serving'[s] = "receive")
  BY <1>2, ServerSteps DEF FilesInv, Places
<1>4. QED
  BY <1>1, <1>2, <1>3 DEF FilesInv, FilesTypes, FileInv, Promised, Offers

\* A daemon that ends leaves its recording as it is, and its workers are no more.
LEMMA FilesReplaced == FilesInv /\ Files!Replaced => FilesInv'
<1> SUFFICES ASSUME FilesInv, Files!Replaced PROVE FilesInv'
  OBVIOUS
<1>1. /\ UNCHANGED <<chunks, saw, left, header, body, download, expects, received>>
      /\ recording' = IF recording \in {"open", "held", "closed"} THEN "final" ELSE recording
  BY DEF Files!Replaced, Files!workVars, Files!wireVars, Files!clientVars
<1>2. ServerInv'
  BY FilesServer, ServerExits DEF FilesInv, Files!Replaced
<1>3. unused' = unused /\ \A s \in Conns : (Fresh(s)' => Fresh(s)) /\ serving'[s] = "off"
  BY ServicesAssumption DEF Files!Replaced, Files!Exit, Fresh
<1>4. QED
  BY <1>1, <1>2, <1>3 DEF FilesInv, FilesTypes, FileInv, Promised, Offers, Recordings

LEMMA FilesRecorder == FilesInv /\ Files!Recorder => FilesInv'
<1> SUFFICES ASSUME FilesInv, Files!Recorder PROVE FilesInv'
  OBVIOUS
<1>1. /\ UNCHANGED <<stopEvent, stage, acceptor, admitting, backlog, clients, serving, near, far, unused>>
      /\ UNCHANGED <<saw, left, header, body, download, expects, received>>
  BY DEF Files!Recorder, Files!Records, Files!serverVars, Files!lifeVars, Files!socketVars,
         Files!workVars, Files!wireVars, Files!clientVars
<1>2. /\ recording' \in Recordings /\ chunks' \in Nat
      /\ recording = "final" => recording' \in {"final", "deleted"}
      /\ recording = "deleted" => recording' = "deleted"
      /\ recording \in {"final", "deleted"} => chunks' = chunks
  BY DEF Files!Recorder, Files!Records, FilesInv, FilesTypes, Recordings
<1>3. ServerInv'
  BY <1>1, ClientHangs DEF Hangs, FilesInv
<1>4. QED
  BY <1>1, <1>2, <1>3 DEF FilesInv, FilesTypes, FileInv, Promised, Offers, Fresh

\* A step of one connection leaves the others alone.
FileRests(t) ==
  /\ (Fresh(t)' => Fresh(t)) /\ (t \in unused' => t \in unused)
  /\ serving'[t] = serving[t] /\ saw'[t] = saw[t] /\ header'[t] = header[t]
  /\ download'[t] = download[t] /\ expects'[t] = expects[t] /\ received'[t] = received[t]

LEMMA FileStays ==
  ASSUME NEW t \in Conns, FileInv(t), FileRests(t), UNCHANGED <<recording, chunks>>
  PROVE  FileInv(t)'
  BY DEF FileInv, FileRests, Promised, Offers

LEMMA FilesReceive ==
  ASSUME NEW s \in Conns, FilesInv, Files!Receive(s)
  PROVE  FilesInv'
<1>1. /\ UNCHANGED <<recording, chunks, saw, left, header, body, download, expects, received>>
      /\ serving[s] = "receive"
  BY DEF Files!Receive, Files!fileVars, Files!workVars, Files!wireVars, Files!clientVars
<1>2. PICK where \in {"look", "release"} : Server!Becomes(s, where)
  BY FilesServer DEF Files!Receive
<1>3. ServerInv'
  BY <1>1, <1>2, WorkerMoves DEF FilesInv, Places
<1>4. /\ serving' = [serving EXCEPT ![s] = where] /\ unused' = unused
      /\ \A t : Fresh(t)' <=> Fresh(t)
  BY <1>2 DEF Server!Becomes, Server!socketVars, Fresh
<1>5. FilesTypes'
  BY <1>1 DEF FilesInv, FilesTypes
<1>6. \A t \in Conns \ {s} : FileInv(t)'
  BY <1>1, <1>4, FileStays DEF FilesInv, FileRests, ServerInv, ServerTypes
<1>7. FileInv(s)'
  BY <1>1, <1>4 DEF FilesInv, FileInv, Promised, Offers, ServerInv, ServerTypes
<1>8. QED
  BY <1>3, <1>5, <1>6, <1>7 DEF FilesInv

LEMMA FilesLook ==
  ASSUME NEW s \in Conns, FilesInv, Files!Look(s)
  PROVE  FilesInv'
<1>1. /\ UNCHANGED <<recording, chunks, left, header, body, download, expects, received>>
      /\ serving[s] = "look" /\ saw' = [saw EXCEPT ![s] = recording]
  BY DEF Files!Look, Files!fileVars, Files!wireVars, Files!clientVars
<1>2. Server!Becomes(s, "scan")
  BY FilesServer DEF Files!Look
<1>3. ServerInv'
  BY <1>1, <1>2, WorkerMoves DEF FilesInv, Places
<1>4. /\ serving' = [serving EXCEPT ![s] = "scan"] /\ unused' = unused
      /\ \A t : Fresh(t)' <=> Fresh(t)
  BY <1>2 DEF Server!Becomes, Server!socketVars, Fresh
<1>5. FilesTypes'
  BY <1>1 DEF FilesInv, FilesTypes
<1>6. \A t \in Conns \ {s} : FileInv(t)'
  BY <1>1, <1>4, FileStays DEF FilesInv, FileRests, FilesTypes, ServerInv, ServerTypes
<1>7. FileInv(s)'
  BY <1>1, <1>4 DEF FilesInv, FilesTypes, FileInv, Promised, Offers, ServerInv, ServerTypes
<1>8. QED
  BY <1>3, <1>5, <1>6, <1>7 DEF FilesInv

\* A refusal, or the way on to the file.
LEMMA FilesScan ==
  ASSUME NEW s \in Conns, FilesInv, Files!Scan(s)
  PROVE  FilesInv'
<1>1. /\ UNCHANGED <<recording, chunks, saw, left, body, download, expects, received>>
      /\ serving[s] = "scan"
  BY DEF Files!Scan, Files!fileVars, Files!workVars, Files!clientVars
<1>2. PICK where \in {"open", "release"} :
        /\ Server!Becomes(s, where)
        /\ where = "open" => header' = header /\ saw[s] \in {"none", "open", "final"}
        /\ \/ header' = header
           \/ \E status \in Statuses \ {"ok"} : header' = [header EXCEPT ![s] = [status |-> status, length |-> 0]]
  <2>1. CASE \E status \in Statuses \ {"ok"} : Files!Refuse(s, status)
    BY <2>1, FilesServer DEF Files!Refuse, Files!Answer
  <2>2. CASE header' = header /\ Files!Exists /\ ~Files!Pending(s) /\ Files!Becomes(s, "open")
    BY <1>1, <2>2, FilesServer DEF Files!Exists, Files!Pending, FilesInv, FileInv, Recordings
  <2>3. QED
    BY <2>1, <2>2 DEF Files!Scan, Statuses
<1>3. ServerInv'
  BY <1>1, <1>2, WorkerMoves DEF FilesInv, Places
<1>4. /\ serving' = [serving EXCEPT ![s] = where] /\ unused' = unused
      /\ \A t : Fresh(t)' <=> Fresh(t)
  BY <1>2 DEF Server!Becomes, Server!socketVars, Fresh
<1>5. FilesTypes'
  BY <1>1, <1>2 DEF FilesInv, FilesTypes
<1>6. \A t \in Conns \ {s} : FileInv(t)'
  BY <1>1, <1>2, <1>4, FileStays DEF FilesInv, FileRests, FilesTypes, ServerInv, ServerTypes
<1>7. FileInv(s)'
  BY <1>1, <1>2, <1>4 DEF FilesInv, FilesTypes, FileInv, Promised, Offers, ServerInv, ServerTypes
<1>8. QED
  BY <1>3, <1>5, <1>6, <1>7 DEF FilesInv

LEMMA FilesOpen ==
  ASSUME NEW s \in Conns, FilesInv, Files!OpenFile(s)
  PROVE  FilesInv'
<1>1. /\ UNCHANGED <<recording, chunks, saw, body, download, expects, received>>
      /\ serving[s] = "open" /\ (left' = left \/ left' = [left EXCEPT ![s] = chunks])
  BY DEF Files!OpenFile, Files!fileVars, Files!clientVars
<1>2. PICK where \in {"send", "release"} :
        /\ Server!Becomes(s, where)
        /\ \/ header' = header
           \/ \E status \in Statuses, n \in Nat :
                /\ status = "ok" => n = chunks /\ where = "send"
                /\ header' = [header EXCEPT ![s] = [status |-> status, length |-> n]]
  <2>1. CASE \E status \in Statuses \ {"ok"} : Files!Refuse(s, status)
    BY <2>1, FilesServer DEF Files!Refuse, Files!Answer
  <2>2. CASE Files!Answer(s, "ok", chunks) /\ Files!Becomes(s, "send")
    BY <2>2, FilesServer DEF Files!Answer, FilesInv, FilesTypes, Statuses
  <2>3. CASE header' = header /\ Files!Becomes(s, "release")
    BY <2>3, FilesServer
  <2>4. QED
    BY <2>1, <2>2, <2>3 DEF Files!OpenFile, Statuses
<1>3. ServerInv'
  BY <1>1, <1>2, WorkerMoves DEF FilesInv, Places
<1>4. /\ serving' = [serving EXCEPT ![s] = where] /\ unused' = unused
      /\ \A t : Fresh(t)' <=> Fresh(t)
  BY <1>2 DEF Server!Becomes, Server!socketVars, Fresh
<1>5. FilesTypes'
  BY <1>1, <1>2 DEF FilesInv, FilesTypes
<1>6. \A t \in Conns \ {s} : FileInv(t)'
  BY <1>1, <1>2, <1>4, FileStays DEF FilesInv, FileRests, FilesTypes, ServerInv, ServerTypes
<1>7. FileInv(s)'
  BY <1>1, <1>2, <1>4 DEF FilesInv, FilesTypes, FileInv, Promised, Offers, ServerInv, ServerTypes
<1>8. QED
  BY <1>3, <1>5, <1>6, <1>7 DEF FilesInv

LEMMA FilesSend ==
  ASSUME NEW s \in Conns, FilesInv, Files!Send(s)
  PROVE  FilesInv'
<1>1. /\ UNCHANGED <<recording, chunks, saw, header, download, expects, received>>
      /\ serving[s] = "send"
  BY DEF Files!Send, Files!fileVars, Files!clientVars
<1>2. /\ \E where \in {"send", "release"} : Server!Becomes(s, where)
      /\ left' \in [Conns -> Nat] /\ body' \in [Conns -> Nat]
  BY FilesServer DEF Files!Send, FilesInv, FilesTypes
<1>3. PICK where \in {"send", "release"} : Server!Becomes(s, where)
  BY <1>2
<1>4. ServerInv'
  BY <1>1, <1>3, WorkerMoves DEF FilesInv, Places
<1>5. /\ serving' = [serving EXCEPT ![s] = where] /\ unused' = unused
      /\ \A t : Fresh(t)' <=> Fresh(t)
  BY <1>3 DEF Server!Becomes, Server!socketVars, Fresh
<1>6. FilesTypes'
  BY <1>1, <1>2 DEF FilesInv, FilesTypes
<1>7. \A t \in Conns \ {s} : FileInv(t)'
  BY <1>1, <1>5, FileStays DEF FilesInv, FileRests, ServerInv, ServerTypes
<1>8. FileInv(s)'
  BY <1>1, <1>5 DEF FilesInv, FileInv, Promised, Offers, ServerInv, ServerTypes
<1>9. QED
  BY <1>4, <1>6, <1>7, <1>8 DEF FilesInv

LEMMA FilesRelease ==
  ASSUME NEW s \in Conns, FilesInv, Files!ServerReleases(s)
  PROVE  FilesInv'
<1>1. /\ UNCHANGED <<recording, chunks, saw, left, header, body, download, expects, received>>
      /\ Server!Release(s)
  BY FilesServer DEF Files!ServerReleases, Files!fileVars, Files!workVars, Files!wireVars, Files!clientVars
<1>2. ServerInv'
  BY <1>1, WorkerEnds DEF FilesInv
<1>3. /\ serving' = [serving EXCEPT ![s] = "off"] /\ serving[s] = "release" /\ unused' = unused
      /\ \A t : Fresh(t)' <=> Fresh(t)
  BY <1>1 DEF Server!Release, Fresh
<1>4. FilesTypes'
  BY <1>1 DEF FilesInv, FilesTypes
<1>5. \A t \in Conns \ {s} : FileInv(t)'
  BY <1>1, <1>3, FileStays DEF FilesInv, FileRests, ServerInv, ServerTypes
<1>6. FileInv(s)'
  BY <1>1, <1>3 DEF FilesInv, FileInv, Promised, Offers, ServerInv, ServerTypes
<1>7. QED
  BY <1>2, <1>4, <1>5, <1>6 DEF FilesInv

LEMMA FilesAsk ==
  ASSUME NEW s \in Conns, FilesInv, Files!Ask(s)
  PROVE  FilesInv'
<1>1. /\ UNCHANGED <<recording, chunks, saw, left, header, body, expects, received>>
      /\ UNCHANGED <<stopEvent, stage, acceptor, admitting, clients, serving>>
      /\ download' = [download EXCEPT ![s] = "header"]
  BY DEF Files!Ask, Files!Comes, Files!Served, Files!lifeVars, Files!fileVars, Files!workVars, Files!wireVars
<1>2. Server!Opens(s)
  BY FilesServer DEF Files!Ask
<1>3. ServerInv'
  BY <1>1, <1>2, ClientConnects DEF FilesInv
<1>4. s \in unused /\ unused' = unused \ {s} /\ \A t : t # s /\ Fresh(t)' => Fresh(t)
  BY <1>1, <1>2 DEF Server!Opens, Server!Reachable, Fresh
<1>5. FilesTypes'
  BY <1>1 DEF FilesInv, FilesTypes
<1>6. \A t \in Conns \ {s} : FileInv(t)'
  BY <1>1, <1>4, FileStays DEF FilesInv, FileRests, FilesTypes
<1>7. FileInv(s)'
  <2>1. Fresh(s) /\ download[s] = "none" /\ serving[s] = "off"
    BY <1>4 DEF Fresh, FilesInv, FileInv, ServerInv
  <2>2. QED
    BY <1>1, <1>4, <2>1 DEF FilesInv, FilesTypes, FileInv, Promised, Offers
<1>8. QED
  BY <1>3, <1>5, <1>6, <1>7 DEF FilesInv

\* The client of one connection.
ClientRests(s) ==
  /\ far' \subseteq far
  /\ UNCHANGED <<stopEvent, stage, acceptor, admitting, backlog, clients, serving, near, unused,
                 recording, chunks, saw, left>>
  /\ \A t \in Conns \ {s} : /\ header'[t] = header[t] /\ download'[t] = download[t]
                            /\ expects'[t] = expects[t] /\ received'[t] = received[t]

LEMMA FilesOthers ==
  ASSUME NEW s \in Conns, FilesInv, ClientRests(s)
  PROVE  ServerInv' /\ \A t \in Conns \ {s} : FileInv(t)'
<1>1. ServerInv'
  BY ClientHangs DEF ClientRests, Hangs, FilesInv
<1>2. \A t \in Conns \ {s} : FileInv(t)'
  BY FileStays DEF ClientRests, FilesInv, FileRests, Fresh
<1>3. QED
  BY <1>1, <1>2

LEMMA FilesReadHeader ==
  ASSUME NEW s \in Conns, FilesInv, Files!ReadHeader(s)
  PROVE  FilesInv'
<1>1. /\ download[s] = "header" /\ body' = body /\ received' = received
      /\ header' = [header EXCEPT ![s] = None]
      /\ \/ /\ header[s] # None /\ header[s].status = "ok"
            /\ download' = [download EXCEPT ![s] = "body"]
            /\ expects' = [expects EXCEPT ![s] = header[s].length]
         \/ /\ expects' = expects
            /\ \E where \in (Statuses \ {"ok"}) \cup {"broken"} : download' = [download EXCEPT ![s] = where]
  BY DEF Files!ReadHeader, Files!Comes, Files!Finishes, FilesInv, FilesTypes
<1>2. ClientRests(s)
  BY <1>1 DEF ClientRests, Files!ReadHeader, Files!Comes, Files!Finishes, Files!Served, Files!lifeVars,
     Files!fileVars, Files!workVars, FilesInv, FilesTypes
<1>3. ServerInv' /\ \A t \in Conns \ {s} : FileInv(t)'
  BY <1>2, FilesOthers
<1>4. FilesTypes'
  BY <1>1, <1>2 DEF FilesInv, FilesTypes, ClientRests
<1>5. FileInv(s)'
  BY <1>1, <1>2 DEF FilesInv, FilesTypes, FileInv, Promised, Offers, ClientRests, Fresh, Statuses
<1>6. QED
  BY <1>3, <1>4, <1>5 DEF FilesInv

LEMMA FilesReadBody ==
  ASSUME NEW s \in Conns, FilesInv, Files!ReadBody(s)
  PROVE  FilesInv'
<1>1. /\ download[s] = "body" /\ expects[s] > 0 /\ header' = header
      /\ \/ /\ body[s] > 0 /\ body' = [body EXCEPT ![s] = @ - 1] /\ expects' = [expects EXCEPT ![s] = @ - 1]
            /\ received' = [received EXCEPT ![s] = @ + 1] /\ download' = download
         \/ /\ download' = [download EXCEPT ![s] = "broken"] /\ UNCHANGED <<body, expects, received>>
  BY DEF Files!ReadBody, Files!Comes, Files!Finishes
<1>2. ClientRests(s)
  BY <1>1 DEF ClientRests, Files!ReadBody, Files!Comes, Files!Finishes, Files!Served, Files!lifeVars,
     Files!fileVars, Files!workVars, FilesInv, FilesTypes
<1>3. ServerInv' /\ \A t \in Conns \ {s} : FileInv(t)'
  BY <1>2, FilesOthers
<1>4. FilesTypes'
  BY <1>1, <1>2 DEF FilesInv, FilesTypes, ClientRests
<1>5. FileInv(s)'
  <2>1. /\ Fresh(s)' = Fresh(s) /\ Offers(s)' = Offers(s) /\ header'[s] = header[s]
        /\ serving'[s] = serving[s] /\ unused' = unused /\ saw'[s] = saw[s]
        /\ recording' = recording /\ chunks' = chunks
    BY <1>1, <1>2 DEF ClientRests, Fresh, Offers
  <2>2. FileInv(s) /\ Promised(s) /\ body \in [Conns -> Nat] /\ expects \in [Conns -> Nat]
        /\ received \in [Conns -> Nat]
        /\ download \in [Conns -> {"none", "header", "body", "verified", "broken"} \cup Statuses]
    BY <1>1 DEF FilesInv, FilesTypes, Promised
  <2>3. CASE expects'[s] = expects[s] - 1 /\ received'[s] = received[s] + 1 /\ download'[s] = "body"
    BY <1>1, <2>1, <2>2, <2>3 DEF FileInv, Promised
  <2>4. CASE download'[s] = "broken"
    BY <1>1, <2>1, <2>2, <2>4 DEF FileInv, Promised
  <2> QED
    BY <1>1, <2>2, <2>3, <2>4
<1>6. QED
  BY <1>3, <1>4, <1>5 DEF FilesInv

LEMMA FilesVerify ==
  ASSUME NEW s \in Conns, FilesInv, Files!Verify(s)
  PROVE  FilesInv'
<1>1. /\ download[s] = "body" /\ expects[s] = 0 /\ UNCHANGED <<header, body, expects, received>>
      /\ \E where \in {"verified", "broken"} : download' = [download EXCEPT ![s] = where]
  BY DEF Files!Verify, Files!Comes, Files!Finishes, Files!wireVars
<1>2. ClientRests(s)
  BY <1>1 DEF ClientRests, Files!Verify, Files!Comes, Files!Finishes, Files!Served, Files!lifeVars,
     Files!fileVars, Files!workVars, FilesInv, FilesTypes
<1>3. ServerInv' /\ \A t \in Conns \ {s} : FileInv(t)'
  BY <1>2, FilesOthers
<1>4. FilesTypes'
  BY <1>1, <1>2 DEF FilesInv, FilesTypes, ClientRests
<1>5. FileInv(s)'
  BY <1>1, <1>2 DEF FilesInv, FilesTypes, FileInv, Promised, Offers, ClientRests, Fresh, Statuses
<1>6. QED
  BY <1>3, <1>4, <1>5 DEF FilesInv

LEMMA FilesStep == FilesInv /\ Files!Next => FilesInv'
  BY FilesServes, FilesReplaced, FilesRecorder, FilesReceive, FilesLook, FilesScan, FilesOpen, FilesSend,
     FilesRelease, FilesAsk, FilesReadHeader, FilesReadBody, FilesVerify
     DEF Files!Next, Files!Worker, Files!Client

LEMMA FilesSound == FilesInv => Files!FilesWhole
<1> SUFFICES ASSUME FilesInv PROVE Files!FilesWhole
  OBVIOUS
<1>1. Files!Owned
  BY FilesServer DEF FilesInv, ServerInv
<1>2. QED
  BY <1>1 DEF Files!FilesWhole, FilesInv, FilesTypes, FileInv, Promised

(***************************************************************************)
(* The API.  One caller at a time has the request lock.  On a connection   *)
(* that is open at the client, or not made yet, nothing is under way,      *)
(* unless a caller reads from it: then it is that caller's request, which  *)
(* is asked, handled or answered, or was lost with its worker.             *)
(***************************************************************************)
Operations == {"hello", "snapshot", "control"}
Answers == [id : Nat \cup {None}, op : Operations \cup {"error"}, ok : BOOLEAN]
CallRecords ==
  [pc : {"idle", "look", "lock", "send", "read", "check"}, wants : {"snapshot", "control", None},
   left : 0 .. 2, op : Operations \cup {None}, id : Nat, conn : Conns \cup {None},
   answer : Answers \cup {None}]

ApiTypes ==
  /\ daemon \in {1, 2} /\ home \in [Conns -> {1, 2}] /\ hello \in {1, 2, None}
  /\ socket \in Conns \cup {None} /\ turn \in Callers \cup {None} /\ ids \in Nat
  /\ DOMAIN up = Conns /\ DOMAIN down = Conns /\ DOMAIN handling = Conns
  /\ call \in [Callers -> CallRecords]

SocketInv == refused = FALSE /\ far \subseteq {socket} /\ (socket # None => socket \in far)

CallInv(c) ==
  /\ turn = c <=> call[c].pc \in {"send", "read"}
  /\ call[c].pc # "idle" => call[c].wants # None
  /\ call[c].pc \in {"lock", "send", "read", "check"} =>
       call[c].op # None /\ (call[c].op = "hello" => call[c].left > 0)
  /\ call[c].pc \in {"send", "read", "check"} => call[c].conn \in Conns \ unused
  /\ call[c].pc = "check" => call[c].answer.id = call[c].id /\ call[c].answer.op = call[c].op
  /\ call[c].pc # "check" => call[c].answer = None

Still(s) == up[s] = <<>> /\ down[s] = <<>> /\ serving[s] # "dispatch"
Asks(c) == Api!Request(call[c].id, call[c].op)
Asked(s, c) == up[s] = <<Asks(c)>> /\ down[s] = <<>> /\ serving[s] # "dispatch"
Handled(s, c) == up[s] = <<>> /\ down[s] = <<>> /\ serving[s] = "dispatch" /\ handling[s] = Asks(c)
Replies(a, s, c) == down[s] = <<a>> /\ (a.id = None \/ (a.id = call[c].id /\ a.op = call[c].op))
AnsweredTo(s, c) == up[s] = <<>> /\ serving[s] # "dispatch" /\ \E a \in Answers : Replies(a, s, c)
Reads(c, s) == call[c].pc = "read" /\ call[c].conn = s

ConnInv(s) ==
  s \in far \cup unused =>
    Still(s) \/ \E c \in Callers : Reads(c, s) /\ (Asked(s, c) \/ Handled(s, c) \/ AnsweredTo(s, c))

\* The requests a call may still make: a control looks hello up twice.
Rest(c) == call[c].left + IF call[c].pc \in {"look", "lock"} THEN 1 ELSE 0
Budget == {p \in Callers \X (1 .. 3) : p[2] <= Rest(p[1])}
BudgetInv ==
  /\ calls \in Nat /\ calls <= MaxCalls
  /\ IsFiniteSet(Budget) /\ ids + Cardinality(Budget) <= 3 * calls

ApiInv ==
  /\ ServerInv /\ ApiTypes /\ SocketInv /\ BudgetInv
  /\ (\A c \in Callers : CallInv(c)) /\ \A s \in Conns : ConnInv(s)

LEMMA ApiBegins == Api!Init => ApiInv
<1> SUFFICES ASSUME Api!Init PROVE ApiInv
  OBVIOUS
<1>1. ServerInv
  BY ServerBegins, ApiServer DEF Api!Init
<1>2. \A c \in Callers : call[c] = Api!Idle
  BY DEF Api!Init
<1>3. Api!Idle \in CallRecords /\ Api!Idle.pc = "idle" /\ Api!Idle.left = 0 /\ Api!Idle.answer = None
  BY DEF Api!Idle, CallRecords
<1>4. ApiTypes /\ SocketInv
  BY <1>3 DEF Api!Init, Api!ServerInit, ApiTypes, SocketInv
<1>5. \A c \in Callers : CallInv(c)
  BY <1>2, <1>3, ServicesAssumption DEF CallInv, Api!Init
<1>6. \A s \in Conns : ConnInv(s)
  BY DEF Api!Init, Api!ServerInit, ConnInv, Still
<1>7. BudgetInv
  <2>1. Budget = {}
    BY <1>2, <1>3 DEF Budget, Rest
  <2>2. IsFiniteSet(Budget) /\ Cardinality(Budget) = 0
    BY <2>1, FS_EmptySet
  <2>3. QED
    BY <2>2, ServicesAssumption DEF BudgetInv, Api!Init
<1>8. QED
  BY <1>1, <1>4, <1>5, <1>6, <1>7 DEF ApiInv

\* What a step leaves of a connection that is nobody's concern in it.
ConnRests(s) ==
  /\ up'[s] = up[s] /\ down'[s] = down[s] /\ handling'[s] = handling[s]
  /\ serving'[s] = serving[s] \/ (serving[s] # "dispatch" /\ serving'[s] # "dispatch")
  /\ s \in far' \cup unused' => s \in far \cup unused
  /\ \A c \in Callers : Reads(c, s) => call'[c] = call[c]

LEMMA ConnStays ==
  ASSUME NEW s \in Conns, ConnInv(s), ConnRests(s)
  PROVE  ConnInv(s)'
<1>1. CASE Still(s)
  BY <1>1 DEF ConnInv, ConnRests, Still
<1>2. ASSUME NEW c \in Callers, Reads(c, s), Asked(s, c) \/ Handled(s, c) \/ AnsweredTo(s, c)
      PROVE  Reads(c, s)' /\ (Asked(s, c) \/ Handled(s, c) \/ AnsweredTo(s, c))'
  BY <1>2 DEF ConnRests, Reads, Asked, Handled, AnsweredTo, Replies, Asks
<1>3. QED
  BY <1>1, <1>2 DEF ConnInv, ConnRests

\* What a step leaves of the calls.
CallsRest ==
  /\ UNCHANGED <<hello, socket, turn, call, ids, calls, refused, home>> /\ far' = far
  /\ unused' = unused

LEMMA CallsStay ==
  ASSUME ApiInv, CallsRest, daemon' \in {1, 2},
         DOMAIN up' = Conns, DOMAIN down' = Conns, DOMAIN handling' = Conns
  PROVE  ApiTypes' /\ SocketInv' /\ BudgetInv' /\ \A c \in Callers : CallInv(c)'
  BY DEF ApiInv, CallsRest, ApiTypes, SocketInv, BudgetInv, Budget, Rest, CallInv

LEMMA ApiServes ==
  ASSUME ApiInv, Api!ServerStart \/ Api!ServerStop \/ Api!ServerAccepts
  PROVE  ApiInv'
<1>1. UNCHANGED <<daemon, offers, home, up, down, handling, socket, hello, turn, call, ids, calls, refused>>
  BY DEF Api!ServerStart, Api!ServerStop, Api!ServerAccepts, Api!apiVars, Api!clientVars, Api!callVars
<1>2. ServerStep("receive")
  BY ApiServer DEF ServerStep, Api!ServerStart, Api!ServerStop, Api!ServerAccepts, Api!Acceptor
<1>3. /\ ServerInv' /\ far' = far /\ unused' = unused
      /\ \A s \in Conns : serving'[s] = serving[s] \/ (Fresh(s) /\ serving'[s] = "receive")
  BY <1>2, ServerSteps DEF ApiInv, Places
<1>4. ApiTypes' /\ SocketInv' /\ BudgetInv' /\ \A c \in Callers : CallInv(c)'
  BY <1>1, <1>3, CallsStay DEF CallsRest, ApiInv, ApiTypes
<1>5. \A s \in Conns : ConnInv(s)'
  BY <1>1, <1>3, ConnStays DEF ConnRests, ApiInv, ServerInv
<1>6. QED
  BY <1>3, <1>4, <1>5 DEF ApiInv

\* With the daemon its workers are gone, and so are the requests they handled.
LEMMA ApiReplaced == ApiInv /\ Api!Replaced => ApiInv'
<1> SUFFICES ASSUME ApiInv, Api!Replaced PROVE ApiInv'
  OBVIOUS
<1>1. /\ UNCHANGED <<offers, home, up, down, socket, hello, turn, call, ids, calls, refused>>
      /\ daemon' = 2 /\ handling' = [s \in Conns |-> None]
  BY DEF Api!Replaced, Api!clientVars, Api!callVars
<1>2. Server!Exit
  BY ApiServer DEF Api!Replaced
<1>3. ServerInv' /\ far' = far /\ unused' = unused /\ serving' = [s \in Conns |-> "off"]
  BY <1>2, ServerExits DEF ApiInv, Server!Exit
<1>4. ApiTypes' /\ SocketInv' /\ BudgetInv' /\ \A c \in Callers : CallInv(c)'
  BY <1>1, <1>3, CallsStay DEF CallsRest, ApiInv, ApiTypes
<1>5. ASSUME NEW s \in Conns PROVE ConnInv(s)'
  <2>1. serving'[s] = "off"
    BY <1>3
  <2>2. CASE Still(s) \/ \E c \in Callers : Handled(s, c)
    BY <1>1, <2>1, <2>2 DEF Still, Handled, ConnInv
  <2>3. ASSUME NEW c \in Callers, Reads(c, s), Asked(s, c) \/ AnsweredTo(s, c)
        PROVE  Reads(c, s)' /\ (Asked(s, c) \/ AnsweredTo(s, c))'
    BY <1>1, <2>1, <2>3 DEF Reads, Asked, AnsweredTo, Replies, Asks
  <2>4. QED
    BY <1>3, <2>2, <2>3 DEF ConnInv, ApiInv
<1>6. QED
  BY <1>3, <1>4, <1>5 DEF ApiInv

LEMMA ApiReceives ==
  ASSUME NEW s \in Conns, ApiInv, Api!Receive(s)
  PROVE  ApiInv'
<1>1. /\ UNCHANGED <<daemon, offers, home, down, socket, hello, turn, call, ids, calls, refused>>
      /\ serving[s] = "receive"
  BY DEF Api!Receive, Api!clientVars, Api!callVars
<1>2. PICK where \in {"dispatch", "release"} :
        /\ Server!Becomes(s, where)
        /\ where = "release" => UNCHANGED <<up, handling>>
        /\ where = "dispatch" => /\ up[s] # <<>> /\ handling' = [handling EXCEPT ![s] = Head(up[s])]
                                /\ up' = [up EXCEPT ![s] = Tail(@)]
  BY ApiServer DEF Api!Receive
<1>3. ServerInv'
  BY <1>1, <1>2, WorkerMoves DEF ApiInv, Places
<1>4. far' = far /\ unused' = unused /\ serving' = [serving EXCEPT ![s] = where]
  BY <1>2 DEF Server!Becomes, Server!socketVars
<1>5. ApiTypes' /\ SocketInv' /\ BudgetInv' /\ \A c \in Callers : CallInv(c)'
  BY <1>1, <1>2, <1>4, CallsStay DEF CallsRest, ApiInv, ApiTypes
<1>6. \A t \in Conns \ {s} : ConnInv(t)'
  BY <1>1, <1>2, <1>4, ConnStays DEF ConnRests, ApiInv, ApiTypes, ServerInv, ServerTypes
<1>7. ConnInv(s)'
  <2>1. serving'[s] = where
    BY <1>4 DEF ApiInv, ServerInv, ServerTypes
  <2>2. CASE where = "release"
    BY <1>1, <1>2, <1>4, <2>1, <2>2, ConnStays DEF ConnRests, ApiInv
  <2>3. CASE where = "dispatch"
    <3>1. ASSUME NEW c \in Callers, Reads(c, s), Asked(s, c)
          PROVE  Reads(c, s)' /\ Handled(s, c)'
      BY <1>1, <1>2, <2>1, <2>3, <3>1 DEF Reads, Asked, Handled, Asks, ApiInv, ApiTypes
    <3>2. s \in far \cup unused => \E c \in Callers : Reads(c, s) /\ Asked(s, c)
      BY <1>1, <1>2, <2>3 DEF ApiInv, ConnInv, Still, Handled, AnsweredTo
    <3>3. QED
      BY <1>4, <3>1, <3>2 DEF ConnInv
  <2>4. QED
    BY <2>2, <2>3
<1>8. QED
  BY <1>3, <1>5, <1>6, <1>7 DEF ApiInv

\* An answer to a client that is there, which is to its request or has no ID.
LEMMA ApiDispatches ==
  ASSUME NEW s \in Conns, ApiInv, Api!Dispatch(s)
  PROVE  ApiInv'
<1>1. /\ UNCHANGED <<daemon, offers, home, up, socket, hello, turn, call, ids, calls, refused>>
      /\ serving[s] = "dispatch" /\ handling' = [handling EXCEPT ![s] = None]
  BY DEF Api!Dispatch, Api!clientVars, Api!callVars
<1>2. \E where \in {"receive", "release"} :
        /\ Server!Becomes(s, where)
        /\ \/ down' = down
           \/ \E a : /\ down' = [down EXCEPT ![s] = Append(@, a)]
                    /\ \/ a = Api!Answer(None, "error", FALSE)
                       \/ \E ok \in BOOLEAN : a = Api!Answer(handling[s].id, handling[s].op, ok)
  BY ApiServer DEF Api!Dispatch, Api!Respond, Api!Outcomes, Api!Performs
<1>3. PICK where \in {"receive", "release"} :
        /\ Server!Becomes(s, where)
        /\ \/ down' = down
           \/ \E a : /\ down' = [down EXCEPT ![s] = Append(@, a)]
                    /\ \/ a = Api!Answer(None, "error", FALSE)
                       \/ \E ok \in BOOLEAN : a = Api!Answer(handling[s].id, handling[s].op, ok)
  BY <1>2
<1>4. ServerInv'
  BY <1>1, <1>3, WorkerMoves DEF ApiInv, Places
<1>5. far' = far /\ unused' = unused /\ serving' = [serving EXCEPT ![s] = where]
  BY <1>3 DEF Server!Becomes, Server!socketVars
<1>6. ApiTypes' /\ SocketInv' /\ BudgetInv' /\ \A c \in Callers : CallInv(c)'
  BY <1>1, <1>3, <1>5, CallsStay DEF CallsRest, ApiInv, ApiTypes
<1>7. \A t \in Conns \ {s} : ConnInv(t)'
  BY <1>1, <1>3, <1>5, ConnStays DEF ConnRests, ApiInv, ApiTypes, ServerInv, ServerTypes
<1>8. ConnInv(s)'
  <2>1. serving'[s] = where
    BY <1>5 DEF ApiInv, ServerInv, ServerTypes
  <2>2. ASSUME NEW c \in Callers, Reads(c, s), Handled(s, c)
        PROVE  Still(s)' \/ (Reads(c, s)' /\ AnsweredTo(s, c)')
    <3>1. Reads(c, s)' /\ up'[s] = <<>> /\ serving'[s] # "dispatch"
      BY <1>1, <2>1, <2>2 DEF Reads, Handled
    <3>2. CASE down' = down
      BY <2>2, <3>1, <3>2 DEF Still, Handled
    <3>3. ASSUME NEW a, down' = [down EXCEPT ![s] = Append(@, a)],
                 \/ a = Api!Answer(None, "error", FALSE)
                 \/ \E ok \in BOOLEAN : a = Api!Answer(handling[s].id, handling[s].op, ok)
          PROVE  AnsweredTo(s, c)'
      <4>1. down'[s] = <<a>>
        BY <2>2, <3>3 DEF Handled, ApiInv, ApiTypes
      <4>2. call[c].id \in Nat /\ call[c].op \in Operations /\ call' = call
        BY <1>1, <2>2 DEF Reads, ApiInv, ApiTypes, CallInv, CallRecords
      <4>3. CASE a = Api!Answer(None, "error", FALSE)
        <5>1. a \in Answers /\ a.id = None
          BY <4>3 DEF Answers, Api!Answer
        <5>2. QED
          BY <3>1, <4>1, <5>1 DEF AnsweredTo, Replies
      <4>4. ASSUME NEW ok \in BOOLEAN, a = Api!Answer(handling[s].id, handling[s].op, ok)
            PROVE  AnsweredTo(s, c)'
        <5>1. a = [id |-> call[c].id, op |-> call[c].op, ok |-> ok]
          BY <2>2, <4>4 DEF Handled, Asks, Api!Request, Api!Answer
        <5>2. QED
          BY <3>1, <4>1, <4>2, <5>1 DEF AnsweredTo, Replies, Answers
      <4>5. QED
        BY <3>3, <4>3, <4>4
    <3>4. QED
      BY <1>3, <3>1, <3>2, <3>3
  <2>3. s \in far \cup unused => \E c \in Callers : Reads(c, s) /\ Handled(s, c)
    BY <1>1 DEF ApiInv, ConnInv, Still, Asked, AnsweredTo
  <2>4. QED
    BY <1>5, <2>2, <2>3 DEF ConnInv
<1>9. QED
  BY <1>4, <1>6, <1>7, <1>8 DEF ApiInv

LEMMA ApiReleases ==
  ASSUME NEW s \in Conns, ApiInv, Api!ServerReleases(s)
  PROVE  ApiInv'
<1>1. /\ UNCHANGED <<daemon, offers, home, up, down, handling, socket, hello, turn, call, ids, calls, refused>>
      /\ Server!Release(s)
  BY ApiServer DEF Api!ServerReleases, Api!apiVars, Api!clientVars, Api!callVars
<1>2. ServerInv'
  BY <1>1, WorkerEnds DEF ApiInv
<1>3. /\ far' = far /\ unused' = unused /\ serving[s] = "release"
      /\ serving' = [serving EXCEPT ![s] = "off"]
  BY <1>1 DEF Server!Release
<1>4. ApiTypes' /\ SocketInv' /\ BudgetInv' /\ \A c \in Callers : CallInv(c)'
  BY <1>1, <1>3, CallsStay DEF CallsRest, ApiInv, ApiTypes
<1>5. \A t \in Conns : ConnInv(t)'
  BY <1>1, <1>3, ConnStays DEF ConnRests, ApiInv, ServerInv, ServerTypes
<1>6. QED
  BY <1>2, <1>4, <1>5 DEF ApiInv

\* What is spent is not more than before.
LEMMA BudgetKept ==
  ASSUME BudgetInv, ids' = ids, calls' = calls, \A c \in Callers : Rest(c)' <= Rest(c),
         \A c \in Callers : Rest(c) \in Int /\ Rest(c)' \in Int, ids \in Nat
  PROVE  BudgetInv'
<1>1. Budget' \subseteq Budget
  BY DEF Budget
<1>2. IsFiniteSet(Budget') /\ Cardinality(Budget') <= Cardinality(Budget)
  BY <1>1, FS_Subset DEF BudgetInv
<1>3. Cardinality(Budget') \in Nat /\ Cardinality(Budget) \in Nat
  BY <1>2, FS_CardinalityType DEF BudgetInv
<1>4. QED
  BY <1>2, <1>3 DEF BudgetInv

\* A step of a client leaves the workers alone, and connects or hangs up.
ClientStep ==
  /\ UNCHANGED <<stopEvent, stage, acceptor, admitting, clients, serving, down, handling>>
  /\ \/ far' \subseteq far /\ UNCHANGED <<backlog, near, unused>>
     \/ \E s \in Conns : Server!Opens(s)

LEMMA ApiClientStep ==
  ASSUME ServerInv, ClientStep
  PROVE  ServerInv'
  BY ClientHangs, ClientConnects DEF ClientStep, Hangs

LEMMA IdleCall == Api!Idle \in CallRecords /\ Api!Idle.pc = "idle" /\ Api!Idle.left = 0 /\ Api!Idle.answer = None
  BY DEF Api!Idle, CallRecords

\* Calls that are not at the socket, before and after.
LEMMA CallsAway ==
  ASSUME NEW c \in Callers, NEW r \in CallRecords, ApiInv,
         call' = [call EXCEPT ![c] = r],
         UNCHANGED <<turn, ids, calls, refused, home, up, down, handling, daemon>>,
         hello' \in {1, 2, None},
         \/ UNCHANGED <<far, socket>>
         \/ far' = far \ {socket} /\ socket' = None,
         UNCHANGED <<stopEvent, stage, acceptor, admitting, clients, serving, backlog, near, unused>>,
         call[c].pc \in {"look", "lock", "check"}, r.pc \in {"idle", "look", "lock"},
         r.pc \in {"look", "lock"} => r.wants # None,
         r.pc = "lock" => r.op # None /\ (r.op = "hello" => r.left > 0),
         r.answer = None,
         r.left + (IF r.pc = "idle" THEN 0 ELSE 1) <= Rest(c)
  PROVE  ApiInv'
<1>1. ServerInv'
  BY ApiClientStep DEF ClientStep, ApiInv
<1>2. call' \in [Callers -> CallRecords] /\ call'[c] = r /\ \A d \in Callers \ {c} : call'[d] = call[d]
  BY DEF ApiInv, ApiTypes
<1>3. ApiTypes'
  BY <1>2 DEF ApiInv, ApiTypes
<1>4. SocketInv'
  BY ServicesAssumption DEF ApiInv, SocketInv, ApiTypes
<1>5. \A d \in Callers : CallInv(d)'
  BY <1>2 DEF ApiInv, CallInv
<1>6. BudgetInv'
  <2>1. \A d \in Callers : Rest(d) \in Int /\ Rest(d)' \in Int
    BY <1>2 DEF Rest, ApiInv, ApiTypes, CallRecords
  <2>2. \A d \in Callers : Rest(d)' <= Rest(d)
    BY <1>2, <2>1 DEF Rest, CallRecords
  <2>3. QED
    BY <2>1, <2>2, BudgetKept DEF ApiInv, ApiTypes
<1>7. \A s \in Conns : ConnInv(s)'
  BY <1>2, ConnStays DEF ConnRests, ApiInv, Reads
<1>8. QED
  BY <1>1, <1>3, <1>4, <1>5, <1>6, <1>7 DEF ApiInv

LEMMA AwayIdle ==
  ASSUME NEW c \in Callers, ApiInv, call' = [call EXCEPT ![c] = Api!Idle],
         UNCHANGED <<turn, ids, calls, refused, home, up, down, handling, daemon>>,
         hello' \in {1, 2, None},
         \/ UNCHANGED <<far, socket>>
         \/ far' = far \ {socket} /\ socket' = None,
         UNCHANGED <<stopEvent, stage, acceptor, admitting, clients, serving, backlog, near, unused>>,
         call[c].pc \in {"look", "lock", "check"}
  PROVE  ApiInv'
<1>1. PICK i \in CallRecords : i = Api!Idle
  BY IdleCall
<1>2. i.pc = "idle" /\ i.left = 0 /\ i.answer = None /\ call' = [call EXCEPT ![c] = i]
  BY <1>1, IdleCall
<1>3. Rest(c) \in Nat
  BY DEF ApiInv, ApiTypes, CallRecords, Rest
<1>4. i.left + (IF i.pc = "idle" THEN 0 ELSE 1) <= Rest(c)
  BY <1>2, <1>3
<1>5. QED
  BY <1>2, <1>4, CallsAway

\* What a call comes to when hello() has told of daemon d.
LEMMA TellsCall ==
  ASSUME NEW c \in Callers, NEW d, ApiInv, Api!Told(c, d), call[c].left > 0, call[c].pc # "idle"
  PROVE  \E r \in CallRecords :
           /\ call' = [call EXCEPT ![c] = r] /\ r.pc \in {"idle", "look"} /\ r.answer = None
           /\ r.pc = "look" => r.wants = call[c].wants
           /\ r.left + (IF r.pc = "idle" THEN 0 ELSE 1) <= call[c].left
<1>0. PICK r : r = [Api!Idle EXCEPT !.pc = "look", !.wants = call[c].wants, !.left = call[c].left - 1]
  OBVIOUS
<1>1. call[c] \in CallRecords
  BY DEF ApiInv, ApiTypes
<1>2. /\ r \in CallRecords /\ r.pc = "look" /\ r.answer = None /\ r.wants = call[c].wants
      /\ r.left = call[c].left - 1
  <2>1. call[c].left - 1 \in 0 .. 2 /\ call[c].wants \in {"snapshot", "control", None}
    BY <1>1 DEF CallRecords
  <2>2. PICK i \in CallRecords : i = Api!Idle
    BY IdleCall
  <2>3. r = [i EXCEPT !.pc = "look", !.wants = call[c].wants, !.left = call[c].left - 1]
    BY <1>0, <2>2
  <2>4. i.answer = None
    BY <2>2, IdleCall
  <2>5. QED
    BY <2>1, <2>3, <2>4 DEF CallRecords
<1>3. call' = [call EXCEPT ![c] = r] \/ call' = [call EXCEPT ![c] = Api!Idle]
  BY <1>0 DEF Api!Told
<1>4. call[c].left \in 0 .. 2
  BY <1>1 DEF CallRecords
<1>5. QED
  BY <1>2, <1>3, <1>4, IdleCall

LEMMA ApiCalls ==
  ASSUME NEW c \in Callers, NEW op \in {"control", "snapshot"}, ApiInv, Api!Calls(c, op)
  PROVE  ApiInv'
<1>0. PICK r : r = [Api!Idle EXCEPT !.pc = "look", !.wants = op, !.left = Api!Lookups(op)]
  OBVIOUS
<1>1. /\ call[c].pc = "idle" /\ calls < MaxCalls /\ calls' = calls + 1 /\ call' = [call EXCEPT ![c] = r]
      /\ UNCHANGED <<daemon, home, up, down, handling, hello, socket, turn, ids, refused>>
      /\ UNCHANGED <<stopEvent, stage, acceptor, admitting, clients, serving, backlog, near, far, unused>>
  BY <1>0 DEF Api!Calls, Api!At, Api!Unserved, Api!lifeVars, Api!apiVars, Api!socketVars
<1>2. r \in CallRecords /\ r.pc = "look" /\ r.answer = None /\ r.wants # None /\ r.left \in 0 .. 2
  <2>1. Api!Lookups(op) \in 0 .. 2 /\ op \in {"snapshot", "control", None} /\ op # None
    BY ServicesAssumption DEF Api!Lookups
  <2>2. PICK i \in CallRecords : i = Api!Idle
    BY IdleCall
  <2>3. r = [i EXCEPT !.pc = "look", !.wants = op, !.left = Api!Lookups(op)]
    BY <1>0, <2>2
  <2>4. i.answer = None
    BY <2>2, IdleCall
  <2>5. QED
    BY <2>1, <2>3, <2>4 DEF CallRecords
<1>3. ServerInv'
  BY <1>1, ApiClientStep DEF ClientStep, ApiInv
<1>4. call' \in [Callers -> CallRecords] /\ call'[c] = r /\ \A d \in Callers \ {c} : call'[d] = call[d]
  BY <1>1, <1>2 DEF ApiInv, ApiTypes
<1>5. ApiTypes' /\ SocketInv'
  BY <1>1, <1>4 DEF ApiInv, ApiTypes, SocketInv
<1>6. \A d \in Callers : CallInv(d)'
  BY <1>1, <1>2, <1>4 DEF ApiInv, CallInv
<1>7. BudgetInv'
  <2>1. Budget' \subseteq Budget \cup {<<c, 1>>} \cup {<<c, 2>>} \cup {<<c, 3>>}
    BY <1>4 DEF Budget, Rest
  <2>2. /\ IsFiniteSet(Budget \cup {<<c, 1>>} \cup {<<c, 2>>} \cup {<<c, 3>>})
        /\ Cardinality(Budget \cup {<<c, 1>>} \cup {<<c, 2>>} \cup {<<c, 3>>}) <= Cardinality(Budget) + 3
    <3>1. ASSUME NEW S, NEW x, IsFiniteSet(S)
          PROVE  /\ IsFiniteSet(S \cup {x}) /\ Cardinality(S \cup {x}) <= Cardinality(S) + 1
                 /\ Cardinality(S) \in Nat /\ Cardinality(S \cup {x}) \in Nat
      <4>1. IsFiniteSet(S \cup {x}) /\ (Cardinality(S \cup {x}) = Cardinality(S) \/ Cardinality(S \cup {x}) = Cardinality(S) + 1)
        BY <3>1, FS_AddElement
      <4>2. Cardinality(S) \in Nat /\ Cardinality(S \cup {x}) \in Nat
        BY <3>1, <4>1, FS_CardinalityType
      <4>3. QED
        BY <4>1, <4>2
    <3> DEFINE A == Budget \cup {<<c, 1>>}
               B == A \cup {<<c, 2>>}
    <3>2. /\ IsFiniteSet(A) /\ Cardinality(A) <= Cardinality(Budget) + 1
          /\ Cardinality(Budget) \in Nat /\ Cardinality(A) \in Nat
      BY <3>1 DEF ApiInv, BudgetInv
    <3> HIDE DEF A
    <3>3. IsFiniteSet(B) /\ Cardinality(B) <= Cardinality(A) + 1 /\ Cardinality(B) \in Nat
      BY <3>1, <3>2
    <3> HIDE DEF B
    <3>4. /\ IsFiniteSet(B \cup {<<c, 3>>}) /\ Cardinality(B \cup {<<c, 3>>}) <= Cardinality(B) + 1
          /\ Cardinality(B \cup {<<c, 3>>}) \in Nat
      BY <3>1, <3>3
    <3>5. IsFiniteSet(B \cup {<<c, 3>>}) /\ Cardinality(B \cup {<<c, 3>>}) <= Cardinality(Budget) + 3
      BY <3>2, <3>3, <3>4
    <3>6. QED
      BY <3>5 DEF A, B
  <2>3. IsFiniteSet(Budget') /\ Cardinality(Budget') <= Cardinality(Budget) + 3
    <3>1. /\ IsFiniteSet(Budget') /\ Cardinality(Budget') \in Nat /\ Cardinality(Budget) \in Nat
          /\ Cardinality(Budget \cup {<<c, 1>>} \cup {<<c, 2>>} \cup {<<c, 3>>}) \in Nat
          /\ Cardinality(Budget') <= Cardinality(Budget \cup {<<c, 1>>} \cup {<<c, 2>>} \cup {<<c, 3>>})
      BY <2>1, <2>2, FS_Subset, FS_CardinalityType DEF ApiInv, BudgetInv
    <3>2. QED
      BY <2>2, <3>1
  <2>4. Cardinality(Budget') \in Nat /\ Cardinality(Budget) \in Nat /\ ids \in Nat /\ calls \in Nat
    BY <2>3, FS_CardinalityType DEF ApiInv, ApiTypes, BudgetInv
  <2>5. QED
    BY <1>1, <2>3, <2>4, ServicesAssumption DEF ApiInv, BudgetInv
<1>8. \A s \in Conns : ConnInv(s)'
  BY <1>1, <1>4, ConnStays DEF ConnRests, ApiInv, Reads
<1>9. QED
  BY <1>3, <1>5, <1>6, <1>7, <1>8 DEF ApiInv

LEMMA ApiLooks ==
  ASSUME NEW c \in Callers, ApiInv, Api!Look(c)
  PROVE  ApiInv'
<1>1. /\ call[c].pc = "look"
      /\ UNCHANGED <<daemon, home, up, down, handling, hello, socket, turn, ids, calls, refused>>
      /\ UNCHANGED <<stopEvent, stage, acceptor, admitting, clients, serving, backlog, near, far, unused>>
  BY DEF Api!Look, Api!At, Api!Unserved, Api!lifeVars, Api!apiVars, Api!socketVars
<1>2. call[c] \in CallRecords /\ call[c].wants # None /\ call[c].answer = None /\ hello \in {1, 2, None}
  BY <1>1 DEF ApiInv, ApiTypes, CallInv
<1>3. CASE call[c].left > 0 /\ hello # None
  <2>1. PICK r \in CallRecords :
           /\ call' = [call EXCEPT ![c] = r] /\ r.pc \in {"idle", "look"} /\ r.answer = None
           /\ r.pc = "look" => r.wants = call[c].wants
           /\ r.left + (IF r.pc = "idle" THEN 0 ELSE 1) <= call[c].left
    BY <1>1, <1>3, TellsCall DEF Api!Look
  <2>2. r.left + (IF r.pc = "idle" THEN 0 ELSE 1) <= Rest(c)
    BY <1>1, <1>2, <2>1 DEF Rest, CallRecords
  <2>3. QED
    BY <1>1, <1>2, <2>1, <2>2, CallsAway
<1>4. CASE ~(call[c].left > 0 /\ hello # None)
  <2>0. PICK op : op = IF call[c].left > 0 THEN "hello" ELSE call[c].wants
    OBVIOUS
  <2>5. PICK r : r = [call[c] EXCEPT !.pc = "lock", !.op = op]
    OBVIOUS
  <2>1. call' = [call EXCEPT ![c] = r]
    BY <1>1, <1>4, <2>0, <2>5 DEF Api!Look
  <2>2. /\ r \in CallRecords /\ r.pc = "lock" /\ r.wants # None /\ r.answer = None /\ r.left = call[c].left
        /\ r.op # None /\ (r.op = "hello" => r.left > 0)
    <3>1. op \in Operations /\ (op = "hello" => call[c].left > 0)
      BY <1>2, <2>0 DEF CallRecords, Operations
    <3>2. op # None
      BY <1>2, <2>0, ServicesAssumption DEF CallRecords
    <3>3. PICK i \in CallRecords : i = call[c]
      BY <1>2
    <3>4. r = [i EXCEPT !.pc = "lock", !.op = op] /\ op \in Operations
      BY <2>5, <3>1, <3>3
    <3>5. /\ r \in CallRecords /\ r.pc = "lock" /\ r.op = op /\ r.left = i.left /\ r.wants = i.wants
          /\ r.answer = i.answer
      BY <3>4 DEF CallRecords
    <3>6. QED
      BY <1>2, <3>1, <3>2, <3>3, <3>5
  <2>3. r.left + (IF r.pc = "idle" THEN 0 ELSE 1) <= Rest(c)
    BY <1>1, <1>2, <2>2 DEF Rest, CallRecords
  <2>4. QED
    BY <1>1, <1>2, <2>1, <2>2, <2>3, CallsAway
<1>5. QED
  BY <1>3, <1>4

\* A request that begins spends one of those its call may make.
LEMMA ApiBeginsRequest ==
  ASSUME NEW c \in Callers, ApiInv, Api!Begin(c)
  PROVE  ApiInv'
<1>1. /\ call[c].pc = "lock" /\ turn = None /\ turn' = c /\ ids' = ids + 1
      /\ UNCHANGED <<stopEvent, stage, acceptor, admitting, clients, serving, failures>>
      /\ UNCHANGED <<daemon, up, down, handling, hello, calls, refused>>
  BY DEF Api!Begin, Api!At, Api!lifeVars
<1>2. PICK s \in Conns :
        /\ s = socket \/ (socket = None /\ Server!Opens(s) /\ socket' = s /\ home' = [home EXCEPT ![s] = daemon])
        /\ socket # None => UNCHANGED <<backlog, near, far, unused, home, socket>>
        /\ call' = [call EXCEPT ![c].pc = "send", ![c].conn = s, ![c].id = ids']
  BY ApiServer DEF Api!Begin, Api!Connects, Api!socketVars
<1>3. /\ ServerInv' /\ unused' \subseteq unused /\ far' \cup unused' \subseteq far \cup unused
      /\ socket' = s /\ s \in far' /\ far' \subseteq {s} /\ s \notin unused' /\ home' \in [Conns -> {1, 2}]
  <2>1. CASE s = socket
    <3>1. socket # None
      BY <1>2, <2>1, ServicesAssumption
    <3>2. UNCHANGED <<backlog, near, far, unused, home, socket>>
      BY <1>2, <3>1
    <3>3. ServerInv'
      BY <1>1, <3>2, ApiClientStep DEF ClientStep, ApiInv
    <3>4. QED
      BY <2>1, <3>1, <3>2, <3>3 DEF ApiInv, ApiTypes, SocketInv, ServerInv
  <2>2. CASE socket = None /\ Server!Opens(s) /\ socket' = s /\ home' = [home EXCEPT ![s] = daemon]
    <3>1. ServerInv'
      BY <1>1, <2>2, ApiClientStep DEF ClientStep, ApiInv
    <3>2. far = {}
      BY <2>2, ServicesAssumption DEF ApiInv, ServerInv, ServerTypes, SocketInv
    <3>3. QED
      BY <2>2, <3>1, <3>2 DEF ApiInv, ApiTypes, Server!Opens, Server!Reachable
  <2>3. QED
    BY <1>2, <2>1, <2>2
<1>4. PICK r : r = [call[c] EXCEPT !.pc = "send", !.conn = s, !.id = ids']
  OBVIOUS
<1>5. call[c] \in CallRecords /\ ids \in Nat
  BY DEF ApiInv, ApiTypes
<1>6. /\ r \in CallRecords /\ r.pc = "send" /\ r.conn = s /\ r.op = call[c].op /\ r.left = call[c].left
      /\ r.answer = call[c].answer /\ r.wants = call[c].wants
  <2>1. PICK i \in CallRecords : i = call[c]
    BY <1>5
  <2>2. r = [i EXCEPT !.pc = "send", !.conn = s, !.id = ids'] /\ ids' \in Nat
    BY <1>1, <1>4, <1>5, <2>1
  <2>3. QED
    BY <2>1, <2>2 DEF CallRecords
<1>7. /\ call' = [call EXCEPT ![c] = r] /\ call' \in [Callers -> CallRecords] /\ call'[c] = r
      /\ \A d \in Callers \ {c} : call'[d] = call[d]
  BY <1>2, <1>4, <1>6 DEF ApiInv, ApiTypes
<1>8. ApiTypes'
  BY <1>1, <1>3, <1>5, <1>7 DEF ApiInv, ApiTypes
<1>9. SocketInv'
  BY <1>1, <1>3 DEF ApiInv, SocketInv
<1>10. \A d \in Callers : CallInv(d)'
  <2>1. call[c].op # None /\ (call[c].op = "hello" => call[c].left > 0) /\ call[c].answer = None
        /\ call[c].wants # None
    BY <1>1 DEF ApiInv, CallInv
  <2>2. CallInv(c)'
    BY <1>1, <1>3, <1>6, <1>7, <2>1 DEF CallInv
  <2>3. ASSUME NEW d \in Callers \ {c} PROVE CallInv(d)'
    <3>1. CallInv(d) /\ call'[d] = call[d] /\ d # c /\ turn # d /\ turn' # d
      BY <1>1, <1>7, ServicesAssumption DEF ApiInv
    <3>2. QED
      BY <1>3, <3>1 DEF CallInv
  <2>4. QED
    BY <2>2, <2>3
<1>11. \A t \in Conns : ConnInv(t)'
  <2>1. \A d \in Callers : call[d].pc # "read"
    BY <1>1, ServicesAssumption DEF ApiInv, CallInv
  <2>2. QED
    BY <1>1, <1>3, <2>1 DEF ApiInv, ConnInv, Reads, Still
<1>12. BudgetInv'
  <2>1. Rest(c) \in 1 .. 3 /\ Rest(c)' = Rest(c) - 1
    BY <1>1, <1>5, <1>6, <1>7 DEF Rest, CallRecords
  <2>2. \A d \in Callers \ {c} : Rest(d)' = Rest(d)
    BY <1>7 DEF Rest
  <2>3. <<c, Rest(c)>> \in Budget
    BY <2>1 DEF Budget
  <2>4. Budget' = Budget \ {<<c, Rest(c)>>}
    <3>1. ASSUME NEW p \in Callers \X (1 .. 3)
          PROVE  p[2] <= Rest(p[1])' <=> p[2] <= Rest(p[1]) /\ p # <<c, Rest(c)>>
      <4>1. CASE p[1] = c
        BY <2>1, <4>1
      <4>2. CASE p[1] # c
        BY <2>2, <4>2
      <4>3. QED
        BY <4>1, <4>2
    <3>2. QED
      BY <3>1 DEF Budget
  <2>5. IsFiniteSet(Budget') /\ Cardinality(Budget') = Cardinality(Budget) - 1
    BY <2>3, <2>4, FS_RemoveElement DEF ApiInv, BudgetInv
  <2>6. Cardinality(Budget) \in Nat /\ Cardinality(Budget') \in Nat
    BY <2>5, FS_CardinalityType DEF ApiInv, BudgetInv
  <2>7. QED
    BY <1>1, <1>5, <2>5, <2>6, ServicesAssumption DEF ApiInv, BudgetInv
<1>13. QED
  BY <1>3, <1>8, <1>9, <1>10, <1>11, <1>12 DEF ApiInv

LEMMA ApiUnavailable ==
  ASSUME NEW c \in Callers, ApiInv, Api!Unavailable(c)
  PROVE  ApiInv'
<1>1. /\ call[c].pc = "lock" /\ call' = [call EXCEPT ![c] = Api!Idle]
      /\ UNCHANGED <<daemon, home, up, down, handling, hello, socket, turn, ids, calls, refused>>
      /\ UNCHANGED <<stopEvent, stage, acceptor, admitting, clients, serving, backlog, near, far, unused>>
  BY DEF Api!Unavailable, Api!Fails, Api!At, Api!Unserved, Api!lifeVars, Api!apiVars, Api!socketVars
<1>2. Rest(c) \in Nat
  BY DEF ApiInv, ApiTypes, CallRecords, Rest
<1>3. hello \in {1, 2, None}
  BY DEF ApiInv, ApiTypes
<1>4. QED
  BY <1>1, <1>3, AwayIdle

\* A call that fails at the socket, and the connection with it.
LEMMA CallFails ==
  ASSUME NEW c \in Callers, ApiInv, turn = c, turn' = None, call' = [call EXCEPT ![c] = Api!Idle],
         Api!Invalidate(call[c].conn), refused' = refused,
         UNCHANGED <<ids, calls, home, up, down, handling, daemon>>,
         UNCHANGED <<stopEvent, stage, acceptor, admitting, clients, serving, backlog, near, unused>>
  PROVE  ApiInv'
<1>1. /\ call[c].pc \in {"send", "read"} /\ call[c].conn \in Conns
      /\ \A d \in Callers \ {c} : call[d].pc \notin {"send", "read"}
  BY DEF ApiInv, CallInv
<1>2. /\ far' = far \ {call[c].conn} /\ hello' \in {1, 2, None}
      /\ IF socket = call[c].conn THEN socket' = None ELSE socket' = socket
  BY DEF Api!Invalidate, ApiInv, ApiTypes
<1>3. ServerInv'
  BY <1>2, ApiClientStep DEF ClientStep, ApiInv
<1>4. call' \in [Callers -> CallRecords] /\ call'[c] = Api!Idle /\ \A d \in Callers \ {c} : call'[d] = call[d]
  BY IdleCall DEF ApiInv, ApiTypes
<1>5. ApiTypes'
  BY <1>2, <1>4 DEF ApiInv, ApiTypes
<1>6. SocketInv'
  BY <1>1, <1>2, ServicesAssumption DEF ApiInv, SocketInv, ApiTypes
<1>7. \A d \in Callers : CallInv(d)'
  <2>1. CallInv(c)'
    BY <1>4, IdleCall, ServicesAssumption DEF CallInv
  <2>2. ASSUME NEW d \in Callers \ {c} PROVE CallInv(d)'
    BY <1>1, <1>4, <2>2, ServicesAssumption DEF ApiInv, CallInv
  <2>3. QED
    BY <2>1, <2>2
<1>8. BudgetInv'
  <2>1. \A d \in Callers : Rest(d) \in Int /\ Rest(d)' \in Int
    BY <1>4 DEF Rest, ApiInv, ApiTypes, CallRecords
  <2>2. Rest(c)' = 0 /\ Rest(c) >= 0
    BY <1>4, IdleCall DEF Rest, ApiInv, ApiTypes, CallRecords
  <2>3. \A d \in Callers : Rest(d)' <= Rest(d)
    BY <1>4, <2>1, <2>2 DEF Rest
  <2>4. QED
    BY <2>1, <2>3, BudgetKept DEF ApiInv, ApiTypes
<1>9. \A s \in Conns : ConnInv(s)'
  <2>1. ASSUME NEW s \in Conns, s # call[c].conn PROVE ConnInv(s)'
    BY <1>2, <1>4, <2>1, ConnStays DEF ConnRests, ApiInv, Reads
  <2>2. call[c].conn \notin far' \cup unused'
    BY <1>1, <1>2 DEF ApiInv, CallInv
  <2>3. QED
    BY <2>1, <2>2 DEF ConnInv
<1>10. QED
  BY <1>3, <1>5, <1>6, <1>7, <1>8, <1>9 DEF ApiInv

LEMMA ApiSends ==
  ASSUME NEW c \in Callers, ApiInv, Api!SendCall(c)
  PROVE  ApiInv'
<1>0. PICK s : s = call[c].conn
  OBVIOUS
<1>1. /\ call[c].pc = "send" /\ turn = c /\ s \in Conns \ unused
      /\ UNCHANGED <<stopEvent, stage, acceptor, admitting, clients, serving, failures, backlog, near, unused>>
      /\ UNCHANGED <<daemon, offers, home, down, handling, ids, calls, refused>>
  BY <1>0 DEF Api!SendCall, Api!At, Api!lifeVars, ApiInv, CallInv
<1>2. CASE ~Api!Open(s)
  <2>1. Api!Invalidate(s) /\ call' = [call EXCEPT ![c] = Api!Idle] /\ turn' = None /\ up' = up
    BY <1>0, <1>2 DEF Api!SendCall, Api!Fails
  <2>2. QED
    BY <1>0, <1>1, <2>1, CallFails
<1>3. CASE Api!Open(s)
  <2>0. PICK r : r = [call[c] EXCEPT !.pc = "read"]
    OBVIOUS
  <2>1. /\ up' = [up EXCEPT ![s] = Append(@, Asks(c))] /\ call' = [call EXCEPT ![c] = r]
        /\ UNCHANGED <<far, socket, hello, turn>>
    BY <1>0, <1>3, <2>0 DEF Api!SendCall, Api!Goes, Asks
  <2>2. /\ r \in CallRecords /\ r.pc = "read" /\ r.conn = s /\ r.op = call[c].op /\ r.left = call[c].left
        /\ r.answer = call[c].answer /\ r.id = call[c].id /\ r.wants = call[c].wants
    <3>1. PICK i \in CallRecords : i = call[c]
      BY DEF ApiInv, ApiTypes
    <3>2. r = [i EXCEPT !.pc = "read"]
      BY <2>0, <3>1
    <3>3. QED
      BY <1>0, <3>1, <3>2 DEF CallRecords
  <2>3. /\ call' \in [Callers -> CallRecords] /\ call'[c] = r
        /\ \A d \in Callers \ {c} : call'[d] = call[d]
    BY <2>1, <2>2 DEF ApiInv, ApiTypes
  <2>4. ServerInv'
    BY <1>0, <1>1, <2>1, ApiClientStep DEF ClientStep, ApiInv
  <2>5. ApiTypes' /\ SocketInv'
    BY <1>0, <1>1, <2>1, <2>3 DEF ApiInv, ApiTypes, SocketInv
  <2>6. \A d \in Callers : CallInv(d)'
    BY <1>0, <1>1, <2>1, <2>2, <2>3 DEF ApiInv, CallInv
  <2>7. BudgetInv'
    <3>1. \A d \in Callers : Rest(d) \in Int /\ Rest(d)' \in Int
      BY <2>3 DEF Rest, ApiInv, ApiTypes, CallRecords
    <3>2. \A d \in Callers : Rest(d)' <= Rest(d)
      BY <1>0, <1>1, <2>2, <2>3, <3>1 DEF Rest
    <3>3. QED
      BY <1>0, <1>1, <3>1, <3>2, BudgetKept DEF ApiInv, ApiTypes
  <2>8. \A d \in Callers : call[d].pc # "read"
    BY <1>1 DEF ApiInv, CallInv
  <2>9. ASSUME NEW t \in Conns, t # s PROVE ConnInv(t)'
    BY <1>0, <1>1, <2>1, <2>3, <2>8, <2>9, ConnStays DEF ConnRests, ApiInv, ApiTypes, Reads
  <2>10. ConnInv(s)'
    <3>1. s \in far => Still(s)
      BY <1>0, <1>1, <2>8 DEF ApiInv, ConnInv, Reads
    <3>2. Still(s) => Reads(c, s)' /\ Asked(s, c)'
      BY <1>0, <1>1, <2>1, <2>2, <2>3 DEF Still, Reads, Asked, Asks, Api!Request, ApiInv, ApiTypes
    <3>3. QED
      BY <1>0, <1>1, <2>1, <3>1, <3>2 DEF ConnInv
  <2>11. QED
    BY <1>0, <1>1, <2>4, <2>5, <2>6, <2>7, <2>9, <2>10 DEF ApiInv
<1>4. QED
  BY <1>2, <1>3

\* What is on the socket of a caller that reads: its answer, or one without an ID.
LEMMA OwnAnswer ==
  ASSUME NEW c \in Callers, ApiInv, call[c].pc = "read", call[c].conn \in far, down[call[c].conn] # <<>>
  PROVE  AnsweredTo(call[c].conn, c)
<1>1. call[c].conn \in Conns /\ \A d \in Callers \ {c} : call[d].pc # "read"
  BY DEF ApiInv, CallInv
<1>2. QED
  BY <1>1 DEF ApiInv, ConnInv, Still, Reads, Asked, Handled, AnsweredTo

LEMMA ApiReads ==
  ASSUME NEW c \in Callers, ApiInv, Api!ReadCall(c)
  PROVE  ApiInv'
<1>0. PICK s : s = call[c].conn
  OBVIOUS
<1>1. /\ call[c].pc = "read" /\ turn = c /\ turn' = None /\ s \in Conns \ unused
      /\ UNCHANGED <<stopEvent, stage, acceptor, admitting, clients, serving, failures, backlog, near, unused>>
      /\ UNCHANGED <<daemon, offers, home, up, handling, ids, calls>>
  BY <1>0 DEF Api!ReadCall, Api!At, Api!lifeVars, ApiInv, CallInv
<1>2. CASE /\ s \in far /\ Len(down[s]) = 1 /\ Api!Accepts(down[s][1], c)
           /\ call' = [call EXCEPT ![c].answer = down[s][1], ![c].pc = "check"]
           /\ down' = [down EXCEPT ![s] = <<>>]
           /\ UNCHANGED <<far, socket, hello, refused>>
  <2>1. PICK a \in Answers : Replies(a, s, c) /\ up[s] = <<>> /\ serving[s] # "dispatch"
    <3>1. down[s] # <<>>
      BY <1>2
    <3>2. AnsweredTo(s, c)
      BY <1>0, <1>1, <1>2, <3>1, OwnAnswer
    <3>3. QED
      BY <3>2 DEF AnsweredTo
  <2>2. a.id = call[c].id /\ a.op = call[c].op
    <3>1. call[c].id \in Nat
      BY DEF ApiInv, ApiTypes, CallRecords
    <3>2. a.id = call[c].id
      BY <1>2, <2>1 DEF Api!Accepts, Replies
    <3>3. QED
      BY <2>1, <3>1, <3>2, ServicesAssumption DEF Replies
  <2>3. PICK r : r = [call[c] EXCEPT !.answer = a, !.pc = "check"]
    OBVIOUS
  <2>4. call' = [call EXCEPT ![c] = r]
    <3>1. down[s][1] = a
      BY <2>1 DEF Replies
    <3>2. call' = [call EXCEPT ![c].answer = a, ![c].pc = "check"]
      BY <1>2, <3>1
    <3>3. QED
      BY <2>3, <3>2 DEF ApiInv, ApiTypes
  <2>5. /\ r \in CallRecords /\ r.pc = "check" /\ r.conn = s /\ r.op = call[c].op /\ r.left = call[c].left
        /\ r.answer = a /\ r.id = call[c].id /\ r.wants = call[c].wants
    <3>1. PICK i \in CallRecords : i = call[c]
      BY DEF ApiInv, ApiTypes
    <3>2. r = [i EXCEPT !.answer = a, !.pc = "check"] /\ a \in Answers \cup {None}
      BY <2>3, <3>1
    <3>3. QED
      BY <1>0, <3>1, <3>2 DEF CallRecords
  <2>6. /\ call' \in [Callers -> CallRecords] /\ call'[c] = r
        /\ \A d \in Callers \ {c} : call'[d] = call[d]
    BY <2>4, <2>5 DEF ApiInv, ApiTypes
  <2>7. ServerInv'
    <3>1. ServerInv /\ Hangs
      BY <1>0, <1>1, <1>2 DEF Hangs, ApiInv
    <3>2. QED
      BY <3>1, ClientHangs
  <2>8. ApiTypes' /\ SocketInv'
    BY <1>0, <1>1, <1>2, <2>6 DEF ApiInv, ApiTypes, SocketInv
  <2>9. \A d \in Callers : CallInv(d)'
    <3>1. CallInv(c)'
      BY <1>0, <1>1, <2>2, <2>5, <2>6, ServicesAssumption DEF ApiInv, CallInv
    <3>2. ASSUME NEW d \in Callers \ {c} PROVE CallInv(d)'
      <4>1. CallInv(d) /\ call'[d] = call[d] /\ d # c /\ turn # d /\ turn' # d
        BY <1>0, <1>1, <2>6, ServicesAssumption DEF ApiInv
      <4>2. QED
        BY <1>0, <1>1, <4>1 DEF CallInv
    <3>3. QED
      BY <3>1, <3>2
  <2>10. BudgetInv'
    <3>1. \A d \in Callers : Rest(d) \in Int /\ Rest(d)' \in Int
      BY <2>6 DEF Rest, ApiInv, ApiTypes, CallRecords
    <3>2. \A d \in Callers : Rest(d)' <= Rest(d)
      BY <1>0, <1>1, <2>5, <2>6, <3>1 DEF Rest
    <3>3. QED
      BY <1>0, <1>1, <3>1, <3>2, BudgetKept DEF ApiInv, ApiTypes
  <2>11. ASSUME NEW t \in Conns, t # s PROVE ConnInv(t)'
    BY <1>0, <1>1, <1>2, <2>6, <2>11, ConnStays DEF ConnRests, ApiInv, ApiTypes, Reads
  <2>12. ConnInv(s)'
    BY <1>0, <1>1, <1>2, <2>1 DEF ConnInv, Still, ApiInv, ApiTypes
  <2>13. QED
    BY <1>0, <1>1, <2>7, <2>8, <2>9, <2>10, <2>11, <2>12 DEF ApiInv
<1>3. CASE /\ s \in far /\ down[s] # <<>> /\ ~(Len(down[s]) = 1 /\ Api!Accepts(down[s][1], c))
           /\ refused' = (refused \/ \A i \in DOMAIN down[s] : down[s][i].id # None)
           /\ Api!Invalidate(s) /\ Api!Fails(c) /\ UNCHANGED down
  <2>1. PICK a \in Answers : Replies(a, s, c)
    <3>1. call[c].conn \in far /\ down[call[c].conn] # <<>>
      BY <1>0, <1>3
    <3>2. AnsweredTo(s, c)
      BY <1>0, <1>1, <3>1, OwnAnswer
    <3>3. QED
      BY <3>2 DEF AnsweredTo
  <2>2. a.id = None
    BY <1>3, <2>1 DEF Api!Accepts, Replies
  <2>3. 1 \in DOMAIN down[s] /\ down[s][1].id = None
    BY <2>1, <2>2 DEF Replies
  <2>4. refused = FALSE
    BY DEF ApiInv, SocketInv
  <2>5. refused' = refused
    BY <1>3, <2>3, <2>4
  <2>6. QED
    BY <1>0, <1>1, <1>3, <2>5, CallFails DEF Api!Fails
<1>4. CASE Api!Invalidate(s) /\ Api!Fails(c) /\ UNCHANGED <<down, refused>>
  BY <1>0, <1>1, <1>4, CallFails DEF Api!Fails
<1>5. QED
  BY <1>0, <1>2, <1>3, <1>4 DEF Api!ReadCall

LEMMA ApiChecks ==
  ASSUME NEW c \in Callers, ApiInv, Api!Check(c)
  PROVE  ApiInv'
<1>1. /\ call[c].pc = "check" /\ call[c].conn \in Conns /\ home[call[c].conn] \in {1, 2}
      /\ (call[c].op = "hello" => call[c].left > 0) /\ Rest(c) = call[c].left /\ Rest(c) \in Nat
      /\ hello \in {1, 2, None}
      /\ UNCHANGED <<daemon, home, up, down, handling, turn, ids, calls, refused>>
      /\ UNCHANGED <<stopEvent, stage, acceptor, admitting, clients, serving, backlog, near, unused>>
  BY DEF Api!Check, Api!At, Api!Unserved, Api!lifeVars, Api!apiVars, ApiInv, ApiTypes, CallInv, Rest, CallRecords
<1>2. CASE Api!Closes /\ Api!Fails(c)
  <2>1. call' = [call EXCEPT ![c] = Api!Idle] /\ far' = far \ {socket} /\ socket' = None /\ hello' = None
    BY <1>2 DEF Api!Closes, Api!Fails
  <2>2. QED
    BY <1>1, <2>1, AwayIdle
<1>3. CASE /\ call[c].op = "hello" /\ hello' = IF socket # None THEN home[call[c].conn] ELSE hello
           /\ Api!Told(c, home[call[c].conn]) /\ UNCHANGED <<far, socket>>
  <2>1. PICK r \in CallRecords :
           /\ call' = [call EXCEPT ![c] = r] /\ r.pc \in {"idle", "look"} /\ r.answer = None
           /\ r.pc = "look" => r.wants = call[c].wants
           /\ r.left + (IF r.pc = "idle" THEN 0 ELSE 1) <= call[c].left
    BY <1>1, <1>3, TellsCall
  <2>2. r.pc = "look" => r.wants # None
    BY <1>1, <2>1 DEF ApiInv, CallInv
  <2>3. hello' \in {1, 2, None}
    BY <1>1, <1>3
  <2>4. QED
    BY <1>1, <1>3, <2>1, <2>2, <2>3, CallsAway
<1>4. CASE Api!Fails(c) /\ UNCHANGED <<far, socket, hello>>
  BY <1>1, <1>4, AwayIdle DEF Api!Fails
<1>5. QED
  BY <1>2, <1>3, <1>4 DEF Api!Check

LEMMA ApiCloses == ApiInv /\ Api!Close => ApiInv'
<1> SUFFICES ASSUME ApiInv, Api!Close PROVE ApiInv'
  OBVIOUS
<1>1. /\ socket # None /\ far' = far \ {socket} /\ socket' = None /\ hello' = None
      /\ UNCHANGED <<daemon, offers, home, up, down, handling, turn, call, ids, calls, refused>>
      /\ UNCHANGED <<stopEvent, stage, acceptor, admitting, clients, serving, backlog, near, unused>>
  BY DEF Api!Close, Api!Closes, Api!Unserved, Api!lifeVars, Api!apiVars, Api!callVars
<1>2. ServerInv'
  BY <1>1, ApiClientStep DEF ClientStep, ApiInv
<1>3. ApiTypes' /\ SocketInv' /\ BudgetInv' /\ \A c \in Callers : CallInv(c)'
  BY <1>1, ServicesAssumption DEF ApiInv, ApiTypes, SocketInv, BudgetInv, Budget, Rest, CallInv
<1>4. \A s \in Conns : ConnInv(s)'
  BY <1>1, ConnStays DEF ConnRests, ApiInv
<1>5. QED
  BY <1>2, <1>3, <1>4 DEF ApiInv

LEMMA ApiStep == ApiInv /\ Api!Next => ApiInv'
  BY ApiServes, ApiReplaced, ApiReceives, ApiDispatches, ApiReleases, ApiCalls, ApiLooks, ApiBeginsRequest,
     ApiUnavailable, ApiSends, ApiReads, ApiChecks, ApiCloses DEF Api!Next, Api!Worker, Api!Caller

LEMMA ApiSound == ApiInv => Api!TypeOK /\ Api!AnswersOwn /\ Api!SocketsOwned
<1> SUFFICES ASSUME ApiInv PROVE Api!TypeOK /\ Api!AnswersOwn /\ Api!SocketsOwned
  OBVIOUS
<1>1. ids <= 3 * MaxCalls
  <2>1. Cardinality(Budget) \in Nat /\ ids \in Nat /\ calls \in Nat /\ calls <= MaxCalls
    BY FS_CardinalityType DEF ApiInv, ApiTypes, BudgetInv
  <2>2. QED
    BY <2>1, ServicesAssumption DEF ApiInv, BudgetInv
<1>2. Api!TypeOK
  BY <1>1, ApiServer DEF Api!TypeOK, Api!Incarnations, ApiInv, ApiTypes, ServerInv
<1>3. Api!AnswersOwn
  BY DEF Api!AnswersOwn, ApiInv, SocketInv, CallInv
<1>4. Api!SocketsOwned
  BY DEF Api!SocketsOwned, ApiInv, SocketInv
<1>5. QED
  BY <1>2, <1>3, <1>4

(***************************************************************************)
(* Events.  A connection holds what is written and not read, the event its *)
(* worker writes and those queued: only the first of them can be a         *)
(* snapshot.  What receive() has of a connection is a line of the client's *)
(* buffer, the rest of it, or what recv() gave.                            *)
(***************************************************************************)
EventRecords == [conn : Conns, n : Nat, snapshot : BOOLEAN]

StreamTypes ==
  /\ latest \in 0 .. MaxEvents /\ lossy \subseteq Conns
  /\ subscription \in [Conns -> Seq(EventRecords)] /\ sending \in [Conns -> Seq(EventRecords)]
  /\ wire \in [Conns -> Seq(EventRecords)]

ReaderTypes ==
  /\ socket \in Conns \cup {None} /\ receiving \in Conns \cup {None} /\ source \in Conns \cup {None}
  /\ buffer \in Seq(EventRecords) /\ given \in Seq(EventRecords) /\ frame \in Seq(EventRecords)
  /\ last \in Nat \cup {None} /\ disturbed \in BOOLEAN

Plain(q) == \A i \in 1 .. Len(q) : ~q[i].snapshot
PlainTail(q) == \A i \in 2 .. Len(q) : ~q[i].snapshot
Of(q, s) == \A i \in 1 .. Len(q) : q[i].conn = s

\* What a connection holds.
Waits(s) == Fresh(s) \/ serving[s] = "subscribe"

StreamInv(s) ==
  /\ Len(subscription[s]) <= QueueCapacity /\ Len(wire[s]) <= WireCapacity
  /\ IF serving[s] = "send" THEN Len(sending[s]) = 1 ELSE sending[s] = <<>>
  /\ Of(wire[s], s) /\ Of(sending[s], s) /\ Of(subscription[s], s)
  /\ PlainTail(wire[s]) /\ PlainTail(subscription[s])
  /\ wire[s] # <<>> => Plain(sending[s]) /\ Plain(subscription[s])
  /\ sending[s] # <<>> => Plain(subscription[s])
  /\ Waits(s) => wire[s] = <<>> /\ subscription[s] = <<>>

\* The snapshot of a connection is still to be read.
Unread(s) ==
  IF wire[s] # <<>> THEN wire[s][1].snapshot
  ELSE IF sending[s] # <<>> THEN sending[s][1].snapshot
  ELSE serving[s] \in {"get", "send"} => closed \/ (subscription[s] # <<>> /\ subscription[s][1].snapshot)

\* What receive() has.
ReaderInv ==
  /\ given # <<>> => receiving # None /\ frame = <<>> /\ buffer = <<>>
  /\ frame # <<>> => Len(frame) = 1 /\ receiving # None
  /\ Of(given, receiving) /\ PlainTail(given)
  /\ PlainTail(buffer) /\ \A i, j \in 1 .. Len(buffer) : buffer[i].conn = buffer[j].conn
  /\ frame # <<>> => Plain(buffer) /\ Of(buffer, frame[1].conn)
  /\ frame # <<>> /\ frame[1].snapshot => frame[1].conn = receiving
  /\ buffer # <<>> /\ buffer[1].snapshot => buffer[1].conn = receiving

\* The first of the events it has.
HasSnapshot ==
  IF frame # <<>> THEN frame[1].snapshot
  ELSE IF buffer # <<>> THEN buffer[1].snapshot
  ELSE given # <<>> /\ given[1].snapshot
HasConn == IF frame # <<>> THEN frame[1].conn ELSE IF buffer # <<>> THEN buffer[1].conn ELSE receiving
HasAny == frame # <<>> \/ buffer # <<>> \/ given # <<>>

SourceInv ==
  /\ last # None /\ receiving # None => receiving = socket
  /\ last # None /\ HasAny /\ ~HasSnapshot => HasConn = source
  /\ \A s \in Conns : last # None /\ socket = s /\ source # s => HasSnapshot \/ Unread(s)
  /\ \A s \in Conns : receiving # None /\ socket = s /\ receiving # s => Unread(s)

\* Events of connection s, numbered from k on, of which number m is the snapshot.
Run(q, s, k, m) == \A i \in 1 .. Len(q) : q[i] = Events!Event(s, k + i - 1, k + i - 1 = m)

Line(s, k, m) ==
  /\ Run(frame, s, k, m)
  /\ Run(buffer, s, k + Len(frame), m)
  /\ Run(given, s, k + Len(frame) + Len(buffer), m)
  /\ Run(wire[s], s, k + Len(frame) + Len(buffer) + Len(given), m)
  /\ Run(sending[s], s, k + Len(frame) + Len(buffer) + Len(given) + Len(wire[s]), m)
  /\ serving[s] \in {"get", "send"} =>
       Run(subscription[s], s, k + Len(frame) + Len(buffer) + Len(given) + Len(wire[s]) + Len(sending[s]), m)
Total(s) == Len(frame) + Len(buffer) + Len(given) + Len(wire[s]) + Len(sending[s]) + Len(subscription[s])

Follows(s, k, m) ==
  /\ Line(s, k, m)
  /\ IF last = None THEN k = m ELSE k = last + 1 /\ m <= last
  /\ serving[s] \in {"get", "send"} /\ ~closed => k + Total(s) = latest + 1 /\ (last = None => Total(s) > 0)

\* As long as nobody disturbs it, receive() has events of the current connection, in order
\* and beginning with the snapshot, unless one was dropped.
OrderAt(s) ==
  /\ receiving # None => receiving = s
  /\ Of(frame, s) /\ Of(buffer, s)
  /\ Waits(s) => ~HasAny /\ last = None
  /\ s \notin lossy => \E k, m \in Nat : Follows(s, k, m)

OrderInv ==
  ~disturbed => /\ socket = None => receiving = None /\ ~HasAny /\ last = None
                /\ \A s \in Conns : socket = s => OrderAt(s)

EventsInv ==
  /\ ServerInv /\ StreamTypes /\ ReaderTypes
  /\ stage = "new" => ~closed
  /\ (\A s \in unused : receiving # s /\ socket # s)
  /\ (\A s \in Conns : StreamInv(s)) /\ ReaderInv /\ SourceInv /\ OrderInv

LEMMA EventsBegins == Events!Init => EventsInv
<1> SUFFICES ASSUME Events!Init PROVE EventsInv
  OBVIOUS
<1>1. ServerInv
  BY ServerBegins, EventsServer DEF Events!Init
<1>2. <<>> \in Seq(EventRecords) /\ Len(<<>>) = 0
  OBVIOUS
<1>3. /\ subscription = [s \in Conns |-> <<>>] /\ sending = [s \in Conns |-> <<>>]
      /\ wire = [s \in Conns |-> <<>>] /\ serving = [s \in Conns |-> "off"]
      /\ latest = 0 /\ closed = FALSE /\ lossy = {} /\ socket = None /\ buffer = <<>> /\ last = None
      /\ receiving = None /\ given = <<>> /\ frame = <<>> /\ disturbed = FALSE /\ source = None
  BY DEF Events!Init, Events!ServerInit, Events!Nothing
<1>4. /\ StreamTypes /\ ReaderTypes
      /\ \A s \in Conns : StreamInv(s)
  <2>1. StreamTypes
    <3>1. latest \in 0 .. MaxEvents
      BY <1>3, ServicesAssumption
    <3>2. [s \in Conns |-> <<>>] \in [Conns -> Seq(EventRecords)]
      BY <1>2
    <3>3. QED
      BY <1>3, <3>1, <3>2 DEF StreamTypes
  <2>2. ReaderTypes
    BY <1>2, <1>3 DEF ReaderTypes
  <2>3. ASSUME NEW s \in Conns PROVE StreamInv(s)
    <3>1. subscription[s] = <<>> /\ sending[s] = <<>> /\ wire[s] = <<>> /\ serving[s] = "off"
      BY <1>3
    <3>2. 0 <= QueueCapacity /\ 0 <= WireCapacity
      BY ServicesAssumption
    <3>3. QED
      BY <1>2, <3>1, <3>2 DEF StreamInv, Of, Plain, PlainTail
  <2>4. QED
    BY <2>1, <2>2, <2>3
<1>5. ReaderInv /\ SourceInv /\ OrderInv
  <2>1. \A s \in Conns : socket # s
    BY <1>3, ServicesAssumption
  <2>2. QED
    BY <1>2, <1>3, <2>1 DEF ReaderInv, SourceInv, OrderInv, HasAny, Of, PlainTail
<1>6. stage = "new" => ~closed
  BY DEF Events!Init
<1>7. \A s \in unused : receiving # s /\ socket # s
  BY ServicesAssumption DEF Events!Init, Events!ServerInit
<1>8. QED
  BY <1>1, <1>4, <1>5, <1>6, <1>7 DEF EventsInv

\* What is on a connection stays, or is dropped with its worker or the stream.
ConnHolds(s) ==
  /\ wire'[s] = wire[s] /\ latest' = latest /\ (closed => closed')
  /\ sending'[s] = sending[s] \/ (sending'[s] = <<>> /\ serving'[s] = "release")
  /\ \/ subscription'[s] = subscription[s]
     \/ subscription'[s] = <<>> /\ (closed' \/ serving'[s] \notin {"get", "send"})
  /\ \/ serving'[s] = serving[s]
     \/ Fresh(s) /\ serving'[s] = "subscribe"
     \/ serving'[s] \in {"release", "off"} /\ (serving[s] = "send" => sending'[s] = <<>>)
  /\ Waits(s)' => Waits(s)

LEMMA HoldsStream ==
  ASSUME NEW s \in Conns, StreamInv(s), ConnHolds(s), Fresh(s) => serving[s] = "off"
  PROVE  StreamInv(s)' /\ (Unread(s) => Unread(s)')
<1>1. StreamInv(s)'
  <2>1. /\ Len(subscription'[s]) <= QueueCapacity /\ Len(wire'[s]) <= WireCapacity
        /\ IF serving'[s] = "send" THEN Len(sending'[s]) = 1 ELSE sending'[s] = <<>>
    BY ServicesAssumption DEF StreamInv, ConnHolds
  <2>2. Of(wire'[s], s) /\ Of(sending'[s], s) /\ Of(subscription'[s], s)
    BY DEF StreamInv, ConnHolds, Of
  <2>3. /\ PlainTail(wire'[s]) /\ PlainTail(subscription'[s])
        /\ wire'[s] # <<>> => Plain(sending'[s]) /\ Plain(subscription'[s])
        /\ sending'[s] # <<>> => Plain(subscription'[s])
    BY DEF StreamInv, ConnHolds, Plain, PlainTail
  <2>4. Waits(s)' => wire'[s] = <<>> /\ subscription'[s] = <<>>
    BY DEF StreamInv, ConnHolds, Waits
  <2>5. QED
    BY <2>1, <2>2, <2>3, <2>4 DEF StreamInv, Waits, Of, Plain, PlainTail
<1>2. Unread(s) => Unread(s)'
  BY DEF StreamInv, ConnHolds, Unread
<1>3. QED
  BY <1>1, <1>2

ReaderRests == UNCHANGED <<socket, buffer, last, receiving, given, frame, disturbed, source>>

LEMMA HoldsLine ==
  ASSUME NEW s \in Conns, NEW k, NEW m, StreamInv(s), ConnHolds(s), ReaderRests, Fresh(s) => serving[s] = "off",
         Follows(s, k, m)
  PROVE  Follows(s, k, m)'
<1>1. Line(s, k, m)'
  <2>1. \A j : Run(sending[s], s, j, m) => Run(sending'[s], s, j, m)
    BY DEF ConnHolds, Run
  <2>2. \A j : serving'[s] \in {"get", "send"} /\ Run(subscription[s], s, j, m) => Run(subscription'[s], s, j, m)
    BY DEF ConnHolds, Run
  <2>3. serving'[s] \in {"get", "send"} => sending'[s] = sending[s] /\ serving'[s] = serving[s]
    BY DEF ConnHolds
  <2>4. /\ Run(frame', s, k, m)
        /\ Run(buffer', s, k + Len(frame'), m)
        /\ Run(given', s, k + Len(frame') + Len(buffer'), m)
        /\ Run(wire'[s], s, k + Len(frame') + Len(buffer') + Len(given'), m)
    BY DEF Follows, Line, ConnHolds, ReaderRests
  <2>5. Run(sending'[s], s, k + Len(frame') + Len(buffer') + Len(given') + Len(wire'[s]), m)
    BY <2>1 DEF Follows, Line, ConnHolds, ReaderRests
  <2>6. serving'[s] \in {"get", "send"} =>
          Run(subscription'[s], s, k + Len(frame') + Len(buffer') + Len(given') + Len(wire'[s]) + Len(sending'[s]), m)
    BY <2>2, <2>3 DEF Follows, Line, ConnHolds, ReaderRests
  <2>7. QED
    BY <2>4, <2>5, <2>6 DEF Line, Run
<1>2. IF last' = None THEN k = m ELSE k = last' + 1 /\ m <= last'
  BY DEF Follows, ReaderRests
<1>3. serving'[s] \in {"get", "send"} /\ ~closed' => k + Total(s)' = latest' + 1 /\ (last' = None => Total(s)' > 0)
  BY DEF Follows, ConnHolds, ReaderRests, Total
<1>4. QED
  BY <1>1, <1>2, <1>3 DEF Follows

\* A step of the server or the stream leaves what receive() has.
LEMMA EventsRests ==
  ASSUME EventsInv, ReaderRests, unused' = unused, lossy \subseteq lossy', ServerInv', StreamTypes',
         stage' = "new" => ~closed',
         \A s \in Conns : StreamInv(s)' /\ (Unread(s) => Unread(s)') /\ (Waits(s)' => Waits(s)),
         \A s \in Conns \ lossy' :
           (\E k, m \in Nat : Follows(s, k, m)) /\ (Waits(s) => ~HasAny /\ last = None) =>
             \E k, m \in Nat : Follows(s, k, m)'
  PROVE  EventsInv'
<1>1. ReaderTypes' /\ (\A s \in unused' : receiving' # s /\ socket' # s)
  BY DEF EventsInv, ReaderTypes, ReaderRests
<1>2. ReaderInv'
  BY DEF EventsInv, ReaderInv, ReaderRests, Of, Plain, PlainTail
<1>0. HasAny' = HasAny /\ HasSnapshot' = HasSnapshot /\ HasConn' = HasConn
  BY DEF HasAny, HasSnapshot, HasConn, ReaderRests
<1>3. SourceInv'
  BY <1>0 DEF EventsInv, SourceInv, ReaderRests
<1>4. OrderInv'
  <2>1. ASSUME NEW s \in Conns, OrderAt(s) PROVE OrderAt(s)'
    <3>1. Of(frame', s) /\ Of(buffer', s)
      BY <2>1 DEF OrderAt, ReaderRests
    <3>2. Of(frame, s)' /\ Of(buffer, s)'
      BY <3>1 DEF Of
    <3>3. s \notin lossy' => \E k, m \in Nat : Follows(s, k, m)'
      BY <2>1 DEF OrderAt
    <3>4. QED
      BY <1>0, <2>1, <3>2, <3>3 DEF OrderAt, ReaderRests
  <2>2. QED
    BY <1>0, <2>1 DEF EventsInv, OrderInv, ReaderRests
<1>5. QED
  BY <1>1, <1>2, <1>3, <1>4 DEF EventsInv

\* A step of which every connection holds what it has.
LEMMA EventsHold ==
  ASSUME EventsInv, ReaderRests, unused' = unused, ServerInv', StreamTypes', lossy' = lossy,
         stage' = "new" => ~closed', \A s \in Conns : ConnHolds(s)
  PROVE  EventsInv'
<1>1. \A s \in Conns : StreamInv(s) /\ (Fresh(s) => serving[s] = "off")
  BY DEF EventsInv, ServerInv
<1>2. \A s \in Conns : StreamInv(s)' /\ (Unread(s) => Unread(s)') /\ (Waits(s)' => Waits(s))
  BY <1>1, HoldsStream DEF ConnHolds
<1>3. ASSUME NEW s \in Conns, NEW k \in Nat, NEW m \in Nat, Follows(s, k, m)
      PROVE  Follows(s, k, m)'
  BY <1>1, <1>3, HoldsLine
<1>4. \A s \in Conns \ lossy' :
           (\E k, m \in Nat : Follows(s, k, m)) /\ (Waits(s) => ~HasAny /\ last = None) =>
             \E k, m \in Nat : Follows(s, k, m)'
  BY <1>3
<1>5. QED
  BY <1>2, <1>4, EventsRests

LEMMA EventsServes ==
  ASSUME EventsInv,
         \/ Events!ServerStart \/ Events!ServerStop \/ Events!Accepting \/ Events!ServerBreaks
  PROVE  EventsInv'
<1>1. ReaderRests /\ UNCHANGED <<latest, sending, wire, lossy>>
  BY DEF Events!ServerStart, Events!ServerStop, Events!Stopping, Events!CloseStream, Events!Accepting,
         Events!ServerBreaks, Events!streamVars, Events!clientVars, Events!receiveVars, ReaderRests
<1>2. ASSUME ServerStep("subscribe"), subscription' = subscription, closed => closed',
             stage' = "new" => ~closed'
      PROVE  EventsInv'
  <2>1. /\ ServerInv' /\ unused' = unused
        /\ \A s \in Conns : /\ Fresh(s)' => Fresh(s)
                            /\ serving'[s] = serving[s] \/ (Fresh(s) /\ serving'[s] = "subscribe")
    BY <1>2, ServerSteps DEF EventsInv, Places
  <2>2. StreamTypes'
    BY <1>1, <1>2 DEF EventsInv, StreamTypes
  <2>3. \A s \in Conns : ConnHolds(s)
    BY <1>1, <1>2, <2>1 DEF ConnHolds, Waits
  <2>4. QED
    BY <1>1, <1>2, <2>1, <2>2, <2>3, EventsHold
<1>3. CASE Events!CloseStream
  <2>1. /\ UNCHANGED <<stopEvent, acceptor, admitting, backlog, clients, serving, near, far, unused>>
        /\ stage' = "sockets" /\ closed' = TRUE /\ subscription' = [s \in Conns |-> <<>>]
    BY <1>3 DEF Events!CloseStream, Events!socketVars, Events!Nothing
  <2>2. ServerInv'
    BY <2>1 DEF EventsInv, ServerInv, ServerTypes, Fresh, Owned
  <2>3. StreamTypes'
    BY <1>1, <2>1 DEF EventsInv, StreamTypes
  <2>4. \A s \in Conns : ConnHolds(s)
    BY <1>1, <2>1 DEF ConnHolds, Waits, Fresh
  <2>5. QED
    BY <1>1, <2>1, <2>2, <2>3, <2>4, EventsHold
<1>4. CASE Events!ServerStart
  <2>1. Server!Start /\ closed' = stopEvent' /\ subscription' = subscription
    BY <1>4, EventsServer DEF Events!ServerStart
  <2>2. /\ stage = "new" /\ stage' # "new" /\ (stopEvent' = stopEvent \/ stopEvent' = TRUE)
    BY <2>1 DEF Server!Start
  <2>3. closed => closed'
    BY <2>1, <2>2 DEF EventsInv
  <2>4. QED
    BY <1>2, <2>1, <2>2, <2>3 DEF ServerStep
<1>5. ASSUME \/ Events!StopBegin("stream") \/ Events!StopSockets \/ Events!StopJoin(clients)
             \/ Events!Acceptor("subscribe") \/ Events!AcceptBreaks,
             UNCHANGED <<subscription, closed>>
      PROVE  EventsInv'
  <2>1. ServerStep("subscribe")
    BY <1>5, EventsServer DEF ServerStep, Events!Acceptor
  <2>2. stage' = "new" => stage = "new"
    BY <1>5 DEF Events!StopBegin, Events!StopSockets, Events!StopJoin, Events!Acceptor, Events!AcceptEnds,
                Events!AcceptBreaks, Events!Accept, Events!Admit
  <2>3. QED
    BY <1>2, <1>5, <2>1, <2>2 DEF EventsInv, StreamTypes
<1>6. QED
  BY <1>3, <1>4, <1>5 DEF Events!ServerStop, Events!Stopping, Events!Accepting, Events!ServerBreaks, Events!streamVars

LEMMA SnapshotEvent ==
  ASSUME NEW s \in Conns, NEW n \in Nat, NEW b \in BOOLEAN
  PROVE  /\ Events!Event(s, n, b) \in EventRecords
         /\ Events!Event(s, n, b).conn = s /\ Events!Event(s, n, b).n = n /\ Events!Event(s, n, b).snapshot = b
  BY DEF Events!Event, EventRecords

LEMMA OneEvent ==
  ASSUME NEW e \in EventRecords
  PROVE  /\ <<e>> \in Seq(EventRecords) /\ Len(<<e>>) = 1 /\ <<e>>[1] = e /\ <<e>> # <<>>
         /\ Of(<<e>>, e.conn) /\ PlainTail(<<e>>) /\ (~e.snapshot => Plain(<<e>>))
<1>1. <<e>> \in Seq(EventRecords) /\ Len(<<e>>) = 1 /\ <<e>>[1] = e /\ <<e>> # <<>>
  OBVIOUS
<1>2. \A i \in 1 .. Len(<<e>>) : i = 1 /\ <<e>>[i] = e
  BY <1>1
<1>3. \A i \in 2 .. Len(<<e>>) : FALSE
  BY <1>1
<1>4. QED
  BY <1>1, <1>2, <1>3 DEF Of, PlainTail, Plain

LEMMA NoEvents == Len(<<>>) = 0 /\ Plain(<<>>) /\ PlainTail(<<>>) /\ \A s : Of(<<>>, s)
  BY DEF Plain, PlainTail, Of

\* A worker of which every connection holds what it has.
LEMMA WorkerHolds ==
  ASSUME NEW s \in Conns, NEW where \in {"get", "send", "release"}, EventsInv, Server!Becomes(s, where),
         ReaderRests, lossy' = lossy, closed' = closed, StreamTypes',
         serving[s] # "off",
         \A t \in Conns \ {s} : /\ wire'[t] = wire[t] /\ sending'[t] = sending[t]
                                /\ subscription'[t] = subscription[t],
         latest' = latest
  PROVE  /\ ServerInv' /\ unused' = unused /\ (stage' = "new" => ~closed') /\ serving' = [serving EXCEPT ![s] = where]
         /\ serving'[s] = where /\ ~Waits(s)'
         /\ \A t \in Conns \ {s} : ConnHolds(t)
<1>1. ServerInv'
  BY WorkerMoves DEF EventsInv, Places
<1>2. /\ unused' = unused /\ serving' = [serving EXCEPT ![s] = where] /\ stage' = stage
      /\ backlog' = backlog /\ admitting' = admitting
  BY DEF Server!Becomes, Server!socketVars
<1>3. serving'[s] = where /\ ~Waits(s)'
  BY <1>1, <1>2 DEF EventsInv, ServerInv, ServerTypes, Waits
<1>4. \A t \in Conns \ {s} : ConnHolds(t)
  BY <1>2 DEF ConnHolds, Waits, Fresh, EventsInv, ServerInv, ServerTypes
<1>5. QED
  BY <1>1, <1>2, <1>3, <1>4 DEF EventsInv

\* A step on one connection.
LEMMA EventsOne ==
  ASSUME NEW s \in Conns, EventsInv, ReaderRests, unused' = unused, ServerInv', StreamTypes', lossy' = lossy,
         stage' = "new" => ~closed', \A t \in Conns \ {s} : ConnHolds(t),
         StreamInv(s)', Unread(s) => Unread(s)', Waits(s)' => Waits(s),
         (\E k, m \in Nat : Follows(s, k, m)) /\ (Waits(s) => ~HasAny /\ last = None) =>
            \E k, m \in Nat : Follows(s, k, m)'
  PROVE  EventsInv'
<1>1. \A t \in Conns : StreamInv(t) /\ (Fresh(t) => serving[t] = "off")
  BY DEF EventsInv, ServerInv
<1>2. \A t \in Conns : StreamInv(t)' /\ (Unread(t) => Unread(t)') /\ (Waits(t)' => Waits(t))
  BY <1>1, HoldsStream DEF ConnHolds
<1>3. ASSUME NEW t \in Conns \ {s}, NEW k \in Nat, NEW m \in Nat, Follows(t, k, m)
      PROVE  Follows(t, k, m)'
  BY <1>1, <1>3, HoldsLine
<1>4. \A t \in Conns \ lossy' :
           (\E k, m \in Nat : Follows(t, k, m)) /\ (Waits(t) => ~HasAny /\ last = None) =>
             \E k, m \in Nat : Follows(t, k, m)'
  BY <1>3
<1>5. QED
  BY <1>2, <1>4, EventsRests

LEMMA EventsSubscribe ==
  ASSUME NEW s \in Conns, EventsInv, Events!Subscribe(s)
  PROVE  EventsInv'
<1>1. ReaderRests /\ UNCHANGED <<latest, closed, sending, wire, lossy>> /\ serving[s] = "subscribe"
  BY DEF Events!Subscribe, Events!clientVars, Events!receiveVars, ReaderRests
<1>9. latest \in Nat
  BY ServicesAssumption DEF EventsInv, StreamTypes
<1>0. PICK e \in EventRecords : e = Events!Event(s, latest, TRUE) /\ e.conn = s /\ e.n = latest /\ e.snapshot
  BY <1>9, SnapshotEvent
<1>2. CASE ~closed /\ Events!Becomes(s, "get") /\ subscription' = [subscription EXCEPT ![s] = <<e>>]
  <2>1. Server!Becomes(s, "get")
    BY <1>2, EventsServer
  <2>2. StreamTypes' /\ subscription'[s] = <<e>> /\ \A t \in Conns \ {s} : subscription'[t] = subscription[t]
    BY <1>1, <1>2, OneEvent DEF EventsInv, StreamTypes
  <2>3. /\ ServerInv' /\ unused' = unused /\ (stage' = "new" => ~closed')
        /\ serving'[s] = "get" /\ ~Waits(s)'
        /\ \A t \in Conns \ {s} : ConnHolds(t)
    BY <1>1, <2>1, <2>2, WorkerHolds
  <2>4. wire'[s] = <<>> /\ sending'[s] = <<>> /\ wire[s] = <<>> /\ sending[s] = <<>> /\ Waits(s)
    BY <1>1 DEF EventsInv, StreamInv, Waits
  <2>5. StreamInv(s)'
    <3>1. Len(<<e>>) = 1 /\ <<e>>[1] = e /\ 1 <= QueueCapacity /\ Len(<<>>) = 0 /\ 0 <= WireCapacity
      BY OneEvent, ServicesAssumption
    <3>2. Of(<<e>>, s) /\ PlainTail(<<e>>) /\ Of(<<>>, s) /\ PlainTail(<<>>)
      BY <1>0, OneEvent, NoEvents
    <3>3. Of(subscription'[s], s) /\ PlainTail(subscription'[s]) /\ Of(wire'[s], s) /\ PlainTail(wire'[s]) /\ Of(sending'[s], s)
      BY <2>2, <2>4, <3>2
    <3>4. Len(subscription'[s]) <= QueueCapacity /\ Len(wire'[s]) <= WireCapacity
      BY <2>2, <2>4, <3>1
    <3>5. QED
      BY <2>3, <2>4, <3>3, <3>4 DEF StreamInv, Of, Plain, PlainTail
  <2>6. Unread(s)'
    BY <1>0, <2>2, <2>3, <2>4, OneEvent DEF Unread
  <2>7. ASSUME ~HasAny, last = None PROVE Follows(s, latest, latest)'
    <3>1. /\ frame' = <<>> /\ buffer' = <<>> /\ given' = <<>> /\ last' = None /\ latest' = latest /\ latest \in Nat
      BY <1>1, <2>7 DEF HasAny, ReaderRests, EventsInv, StreamTypes
    <3>2. \A j : Run(<<>>, s, j, latest)
      BY DEF Run
    <3>3. Run(<<e>>, s, latest, latest)
      <4>1. \A i \in 1 .. Len(<<e>>) : i = 1 /\ <<e>>[i] = e /\ latest + i - 1 = latest
        BY <3>1, OneEvent
      <4>2. QED
        BY <1>0, <4>1 DEF Run
    <3>4. Len(<<>>) = 0 /\ latest + 0 + 0 + 0 + 0 + 0 = latest
      BY <3>1
    <3>5. Line(s, latest, latest)'
      BY <2>2, <2>4, <3>1, <3>2, <3>3, <3>4 DEF Line, Run
    <3>6. Total(s)' = 1
      BY <2>2, <2>4, <3>1, OneEvent DEF Total
    <3>7. QED
      BY <3>1, <3>5, <3>6 DEF Follows
  <2>8. QED
    <3>1. latest \in Nat /\ latest' = latest
      BY <1>1 DEF EventsInv, StreamTypes
    <3>2. (\E k, m \in Nat : Follows(s, k, m)) /\ (Waits(s) => ~HasAny /\ last = None) =>
            \E k, m \in Nat : Follows(s, k, m)'
      BY <2>4, <2>7, <3>1
    <3>3. QED
      BY <1>1, <2>2, <2>3, <2>5, <2>6, <3>2, EventsOne
<1>3. CASE Events!Becomes(s, "release") /\ UNCHANGED subscription
  <2>1. Server!Becomes(s, "release")
    BY <1>3, EventsServer
  <2>2. StreamTypes'
    BY <1>1, <1>3 DEF EventsInv, StreamTypes
  <2>3. /\ ServerInv' /\ unused' = unused /\ (stage' = "new" => ~closed')
        /\ serving'[s] = "release" /\ ~Waits(s)'
        /\ \A t \in Conns \ {s} : ConnHolds(t)
    BY <1>1, <1>3, <2>1, <2>2, WorkerHolds
  <2>4. ConnHolds(s)
    BY <1>1, <1>3, <2>3 DEF ConnHolds
  <2>5. QED
    BY <1>1, <2>2, <2>3, <2>4, EventsHold
<1>4. QED
  BY <1>0, <1>2, <1>3 DEF Events!Subscribe

LEMMA TailEvents ==
  ASSUME NEW q \in Seq(EventRecords), q # <<>>
  PROVE  /\ Head(q) \in EventRecords /\ Head(q) = q[1] /\ Len(q) >= 1
         /\ Tail(q) \in Seq(EventRecords) /\ Len(Tail(q)) = Len(q) - 1
         /\ PlainTail(q) => Plain(Tail(q))
         /\ \A s : Of(q, s) => Of(Tail(q), s) /\ Head(q).conn = s
         /\ Plain(q) => Plain(Tail(q)) /\ ~Head(q).snapshot
         /\ \A s, m : \A k \in Int : Run(q, s, k, m) => Run(<<Head(q)>>, s, k, m) /\ Run(Tail(q), s, k + 1, m)
<1>1. /\ Head(q) \in EventRecords /\ Head(q) = q[1] /\ Len(q) >= 1 /\ Len(q) \in Nat
      /\ Tail(q) \in Seq(EventRecords) /\ Len(Tail(q)) = Len(q) - 1
      /\ \A i \in 1 .. Len(Tail(q)) : Tail(q)[i] = q[i + 1]
  BY HeadTailProperties
<1>2. \A i \in 1 .. Len(Tail(q)) : i + 1 \in 2 .. Len(q) /\ i + 1 \in 1 .. Len(q)
  BY <1>1
<1>3. 1 \in 1 .. Len(q)
  BY <1>1
<1>4. (PlainTail(q) => Plain(Tail(q))) /\ (Plain(q) => Plain(Tail(q)) /\ ~Head(q).snapshot)
  BY <1>1, <1>2, <1>3 DEF Plain, PlainTail
<1>5. \A s : Of(q, s) => Of(Tail(q), s) /\ Head(q).conn = s
  BY <1>1, <1>2, <1>3 DEF Of
<1>6. ASSUME NEW s, NEW m, NEW k \in Int, Run(q, s, k, m)
      PROVE  Run(<<Head(q)>>, s, k, m) /\ Run(Tail(q), s, k + 1, m)
  <2>1. Run(Tail(q), s, k + 1, m)
    <3>1. ASSUME NEW i \in 1 .. Len(Tail(q))
          PROVE  Tail(q)[i] = Events!Event(s, k + 1 + i - 1, k + 1 + i - 1 = m)
      <4>1. Tail(q)[i] = q[i + 1] /\ q[i + 1] = Events!Event(s, k + (i + 1) - 1, k + (i + 1) - 1 = m)
        BY <1>1, <1>2, <1>6 DEF Run
      <4>2. k + (i + 1) - 1 = k + 1 + i - 1
        OBVIOUS
      <4>3. QED
        BY <4>1, <4>2
    <3>2. QED
      BY <3>1 DEF Run
  <2>2. Run(<<Head(q)>>, s, k, m)
    <3>1. Head(q) = Events!Event(s, k + 1 - 1, k + 1 - 1 = m)
      BY <1>1, <1>3, <1>6 DEF Run
    <3>2. \A i \in 1 .. Len(<<Head(q)>>) : i = 1 /\ <<Head(q)>>[i] = Head(q)
      BY <1>1, OneEvent
    <3>3. QED
      BY <3>1, <3>2 DEF Run
  <2>3. QED
    BY <2>1, <2>2
<1>7. QED
  BY <1>1, <1>4, <1>5, <1>6

LEMMA LineNumbers ==
  ASSUME EventsInv, NEW s \in Conns
  PROVE  /\ Len(frame) \in Nat /\ Len(buffer) \in Nat /\ Len(given) \in Nat
         /\ Len(wire[s]) \in Nat /\ Len(sending[s]) \in Nat /\ Len(subscription[s]) \in Nat
         /\ wire[s] \in Seq(EventRecords) /\ sending[s] \in Seq(EventRecords)
         /\ subscription[s] \in Seq(EventRecords) /\ latest \in Nat
  BY ServicesAssumption DEF EventsInv, StreamTypes, ReaderTypes

LEMMA EventsGet ==
  ASSUME NEW s \in Conns, EventsInv, Events!Get(s)
  PROVE  EventsInv'
<1>1. ReaderRests /\ UNCHANGED <<latest, closed, wire, lossy>> /\ serving[s] = "get"
  BY DEF Events!Get, Events!clientVars, Events!receiveVars, ReaderRests
<1>2. CASE /\ subscription[s] # <<>> /\ ~closed
           /\ sending' = [sending EXCEPT ![s] = <<Head(subscription[s])>>]
           /\ subscription' = [subscription EXCEPT ![s] = Tail(@)]
           /\ Events!Becomes(s, "send")
  <2>0. PICK q \in Seq(EventRecords) : q = subscription[s] /\ q # <<>>
    BY <1>2, LineNumbers
  <2>1. Server!Becomes(s, "send")
    BY <1>2, EventsServer
  <2>2. /\ StreamTypes' /\ subscription'[s] = Tail(q) /\ sending'[s] = <<Head(q)>> /\ wire'[s] = wire[s]
        /\ \A t \in Conns \ {s} : subscription'[t] = subscription[t] /\ sending'[t] = sending[t]
    <3>1. Tail(q) \in Seq(EventRecords) /\ <<Head(q)>> \in Seq(EventRecords)
      BY <2>0, TailEvents, OneEvent
    <3>2. subscription' = [subscription EXCEPT ![s] = Tail(q)] /\ sending' = [sending EXCEPT ![s] = <<Head(q)>>]
      BY <1>2, <2>0
    <3>3. QED
      BY <1>1, <3>1, <3>2 DEF EventsInv, StreamTypes
  <2>3. /\ ServerInv' /\ unused' = unused /\ (stage' = "new" => ~closed')
        /\ serving'[s] = "send" /\ ~Waits(s)'
        /\ \A t \in Conns \ {s} : ConnHolds(t)
    BY <1>1, <2>1, <2>2, WorkerHolds
  <2>4. /\ StreamInv(s) /\ sending[s] = <<>> /\ ~Waits(s)
    BY <1>1 DEF EventsInv, StreamInv, Waits, ServerInv
  <2>5. StreamInv(s)'
    <3>1. /\ Len(subscription[s]) <= QueueCapacity /\ Len(wire[s]) <= WireCapacity
          /\ Of(wire[s], s) /\ Of(q, s) /\ PlainTail(wire[s]) /\ PlainTail(q)
          /\ wire[s] # <<>> => Plain(q)
      BY <2>0, <2>4 DEF StreamInv
    <3>2. /\ Len(Tail(q)) <= QueueCapacity /\ Len(<<Head(q)>>) = 1 /\ Of(<<Head(q)>>, s) /\ Of(Tail(q), s)
          /\ Plain(Tail(q)) /\ PlainTail(Tail(q))
          /\ wire[s] # <<>> => Plain(<<Head(q)>>)
      <4>1. /\ Head(q) \in EventRecords /\ Len(Tail(q)) = Len(q) - 1 /\ Len(q) \in Nat
            /\ Plain(Tail(q)) /\ Of(Tail(q), s) /\ Head(q).conn = s /\ (wire[s] # <<>> => ~Head(q).snapshot)
        <5>1. /\ Head(q) \in EventRecords /\ Len(Tail(q)) = Len(q) - 1 /\ Len(q) >= 1
              /\ PlainTail(q) => Plain(Tail(q))
              /\ \A t : Of(q, t) => Of(Tail(q), t) /\ Head(q).conn = t
              /\ Plain(q) => Plain(Tail(q)) /\ ~Head(q).snapshot
          BY <2>0, TailEvents
        <5>2. Len(q) \in Nat
          OBVIOUS
        <5>3. QED
          BY <3>1, <5>1, <5>2
      <4>2. PlainTail(Tail(q))
        BY <4>1 DEF Plain, PlainTail
      <4>3. QED
        BY <2>0, <3>1, <4>1, <4>2, OneEvent, ServicesAssumption
    <3>3. /\ Of(wire'[s], s) /\ Of(sending'[s], s) /\ Of(subscription'[s], s)
          /\ PlainTail(wire'[s]) /\ PlainTail(subscription'[s])
          /\ wire'[s] # <<>> => Plain(sending'[s])
          /\ Plain(subscription'[s]) /\ Len(subscription'[s]) <= QueueCapacity /\ Len(wire'[s]) <= WireCapacity
          /\ Len(sending'[s]) = 1
      BY <2>2, <3>1, <3>2
    <3>4. QED
      BY <2>3, <3>3 DEF StreamInv, Of, Plain, PlainTail
  <2>6. Unread(s) => Unread(s)'
    <3>1. <<Head(q)>> # <<>> /\ <<Head(q)>>[1] = q[1]
      BY <2>0, TailEvents, OneEvent
    <3>2. QED
      BY <1>1, <1>2, <2>0, <2>2, <2>4, <3>1 DEF Unread
  <2>7. ASSUME NEW k \in Nat, NEW m \in Nat, Follows(s, k, m) PROVE Follows(s, k, m)'
    <3>1. /\ Len(frame) \in Nat /\ Len(buffer) \in Nat /\ Len(given) \in Nat /\ Len(wire[s]) \in Nat
          /\ Len(q) \in Nat /\ Len(Tail(q)) = Len(q) - 1 /\ Len(sending[s]) = 0 /\ Len(<<Head(q)>>) = 1
          /\ latest \in Nat
      BY <2>0, <2>4, LineNumbers, TailEvents, OneEvent, NoEvents
    <3> DEFINE j == k + Len(frame) + Len(buffer) + Len(given) + Len(wire[s])
    <3>2. j \in Int /\ j + Len(sending[s]) = j /\ j + Len(<<Head(q)>>) = j + 1
      BY <3>1
    <3>3. Run(q, s, j, m)
      BY <1>1, <2>0, <2>7, <3>2 DEF Follows, Line
    <3>4. Run(<<Head(q)>>, s, j, m) /\ Run(Tail(q), s, j + 1, m)
      BY <2>0, <3>2, <3>3, TailEvents
    <3>5. Line(s, k, m)'
      <4>1. /\ Run(frame', s, k, m)
            /\ Run(buffer', s, k + Len(frame'), m)
            /\ Run(given', s, k + Len(frame') + Len(buffer'), m)
            /\ Run(wire'[s], s, k + Len(frame') + Len(buffer') + Len(given'), m)
        BY <1>1, <2>2, <2>7 DEF Follows, Line, ReaderRests
      <4>2. /\ Run(sending'[s], s, k + Len(frame') + Len(buffer') + Len(given') + Len(wire'[s]), m)
            /\ Run(subscription'[s], s, k + Len(frame') + Len(buffer') + Len(given') + Len(wire'[s]) + Len(sending'[s]), m)
        BY <1>1, <2>2, <3>2, <3>4 DEF ReaderRests
      <4>3. QED
        BY <4>1, <4>2 DEF Line, Run
    <3>6. Total(s)' = Total(s)
      <4>0. Len(frame) \in Nat /\ Len(buffer) \in Nat /\ Len(given) \in Nat /\ Len(wire[s]) \in Nat /\ Len(q) \in Nat
        BY <3>1
      <4>8. \A a, b, c, d \in Nat : a + b + c + d \in Nat
        OBVIOUS
      <4>9. Len(frame) + Len(buffer) + Len(given) + Len(wire[s]) \in Nat
        BY <4>0, <4>8
      <4>1. PICK x \in Nat : x = Len(frame) + Len(buffer) + Len(given) + Len(wire[s])
        BY <4>9
      <4>2. Total(s) = x + Len(q)
        BY <2>0, <3>1, <4>1 DEF Total
      <4>3. Total(s)' = x + 1 + (Len(q) - 1)
        BY <1>1, <2>2, <3>1, <4>1 DEF Total, ReaderRests
      <4>4. \A l \in Nat : x + l = x + 1 + (l - 1)
        OBVIOUS
      <4>5. QED
        BY <4>0, <4>2, <4>3, <4>4
    <3>7. QED
      BY <1>1, <2>3, <2>7, <3>5, <3>6 DEF Follows, ReaderRests
  <2>8. QED
    BY <1>1, <2>2, <2>3, <2>5, <2>6, <2>7, EventsOne
<1>3. CASE Events!Becomes(s, "release") /\ UNCHANGED <<sending, subscription>>
  <2>1. Server!Becomes(s, "release")
    BY <1>3, EventsServer
  <2>2. StreamTypes'
    BY <1>1, <1>3 DEF EventsInv, StreamTypes
  <2>3. /\ ServerInv' /\ unused' = unused /\ (stage' = "new" => ~closed')
        /\ serving'[s] = "release" /\ ~Waits(s)'
        /\ \A t \in Conns \ {s} : ConnHolds(t)
    BY <1>1, <1>3, <2>1, <2>2, WorkerHolds
  <2>4. ConnHolds(s)
    BY <1>1, <1>3, <2>3 DEF ConnHolds
  <2>5. QED
    BY <1>1, <2>2, <2>3, <2>4, EventsHold
<1>4. QED
  BY <1>2, <1>3 DEF Events!Get, Events!Nothing

\* One event more.
LEMMA AppendEvents ==
  ASSUME NEW q \in Seq(EventRecords), NEW e \in EventRecords
  PROVE  /\ q \o <<e>> = Append(q, e) /\ Append(q, e) \in Seq(EventRecords)
         /\ Len(Append(q, e)) = Len(q) + 1 /\ Append(q, e) # <<>>
         /\ \A s : Of(q, s) /\ e.conn = s => Of(Append(q, e), s)
         /\ Plain(q) /\ ~e.snapshot => Plain(Append(q, e))
         /\ PlainTail(q) /\ (q # <<>> => ~e.snapshot) => PlainTail(Append(q, e))
         /\ Append(q, e)[1] = IF q = <<>> THEN e ELSE q[1]
         /\ \A s, m : \A k \in Int : Run(q, s, k, m) /\ Run(<<e>>, s, k + Len(q), m) => Run(Append(q, e), s, k, m)
<1>1. /\ Append(q, e) \in Seq(EventRecords) /\ Append(q, e) # <<>> /\ Len(Append(q, e)) = Len(q) + 1
      /\ \A i \in 1 .. Len(q) : Append(q, e)[i] = q[i]
      /\ Append(q, e)[Len(q) + 1] = e /\ Len(q) \in Nat
  BY AppendProperties
<1>2. q \o <<e>> = Append(q, e)
  BY AppendIsConcat
<1>3. \A i \in 1 .. Len(Append(q, e)) : i \in 1 .. Len(q) \/ i = Len(q) + 1
  BY <1>1
<1>4. \A s : Of(q, s) /\ e.conn = s => Of(Append(q, e), s)
  BY <1>1, <1>3 DEF Of
<1>5. Plain(q) /\ ~e.snapshot => Plain(Append(q, e))
  BY <1>1, <1>3 DEF Plain
<1>6. PlainTail(q) /\ (q # <<>> => ~e.snapshot) => PlainTail(Append(q, e))
  <2>1. CASE q = <<>>
    <3>1. \A i \in 2 .. Len(Append(q, e)) : FALSE
      BY <1>1, <2>1
    <3>2. QED
      BY <3>1 DEF PlainTail
  <2>2. CASE q # <<>>
    <3>1. \A i \in 2 .. Len(Append(q, e)) : i \in 1 .. Len(Append(q, e)) /\ (i \in 2 .. Len(q) \/ i = Len(q) + 1)
      BY <1>1
    <3>2. \A i \in 2 .. Len(q) : i \in 1 .. Len(q)
      BY <1>1
    <3>3. QED
      BY <1>1, <2>2, <3>1, <3>2 DEF PlainTail
  <2>3. QED
    BY <2>1, <2>2
<1>7. Append(q, e)[1] = IF q = <<>> THEN e ELSE q[1]
  <2>1. q = <<>> => Len(q) = 0
    OBVIOUS
  <2>2. q # <<>> => 1 \in 1 .. Len(q)
    BY TailEvents, <1>1
  <2>3. QED
    BY <1>1, <2>1, <2>2
<1>8. ASSUME NEW s, NEW m, NEW k \in Int, Run(q, s, k, m), Run(<<e>>, s, k + Len(q), m)
      PROVE  Run(Append(q, e), s, k, m)
  <2>1. e = Events!Event(s, k + Len(q) + 1 - 1, k + Len(q) + 1 - 1 = m)
    <3>1. 1 \in 1 .. Len(<<e>>) /\ <<e>>[1] = e
      OBVIOUS
    <3>2. QED
      BY <1>8, <3>1 DEF Run
  <2>2. k + Len(q) + 1 - 1 = k + (Len(q) + 1) - 1
    BY <1>1
  <2>3. ASSUME NEW i \in 1 .. Len(Append(q, e))
        PROVE  Append(q, e)[i] = Events!Event(s, k + i - 1, k + i - 1 = m)
    <3>1. CASE i \in 1 .. Len(q)
      BY <1>1, <1>8, <3>1 DEF Run
    <3>2. CASE i = Len(q) + 1
      BY <1>1, <2>1, <2>2, <3>2
    <3>3. QED
      BY <1>3, <3>1, <3>2
  <2>4. QED
    BY <2>3 DEF Run
<1>9. QED
  BY <1>1, <1>2, <1>4, <1>5, <1>6, <1>7, <1>8

LEMMA EventsSend ==
  ASSUME NEW s \in Conns, EventsInv, Events!Send(s)
  PROVE  EventsInv'
<1>1. /\ ReaderRests /\ UNCHANGED <<latest, closed, subscription, lossy>> /\ serving[s] = "send"
      /\ sending' = [sending EXCEPT ![s] = <<>>]
  BY DEF Events!Send, Events!Nothing, Events!clientVars, Events!receiveVars, ReaderRests
<1>2. /\ sending' \in [Conns -> Seq(EventRecords)] /\ sending'[s] = <<>>
      /\ \A t \in Conns \ {s} : sending'[t] = sending[t]
  <2>1. <<>> \in Seq(EventRecords)
    OBVIOUS
  <2>2. QED
    BY <1>1, <2>1 DEF EventsInv, StreamTypes
<1>3. CASE Events!Becomes(s, "release") /\ UNCHANGED wire
  <2>1. Server!Becomes(s, "release")
    BY <1>3, EventsServer
  <2>2. StreamTypes'
    BY <1>1, <1>2, <1>3 DEF EventsInv, StreamTypes
  <2>3. /\ ServerInv' /\ unused' = unused /\ (stage' = "new" => ~closed')
        /\ serving'[s] = "release" /\ ~Waits(s)'
        /\ \A t \in Conns \ {s} : ConnHolds(t)
    BY <1>1, <1>2, <1>3, <2>1, <2>2, WorkerHolds
  <2>4. ConnHolds(s)
    BY <1>1, <1>2, <1>3, <2>3 DEF ConnHolds
  <2>5. QED
    BY <1>1, <2>2, <2>3, <2>4, EventsHold
<1>4. CASE /\ Len(wire[s]) < WireCapacity /\ wire' = [wire EXCEPT ![s] = @ \o sending[s]]
           /\ Events!Becomes(s, "get")
  <2>0. PICK w \in Seq(EventRecords), e \in EventRecords : w = wire[s] /\ sending[s] = <<e>>
    <3>1. sending[s] \in Seq(EventRecords) /\ Len(sending[s]) = 1 /\ wire[s] \in Seq(EventRecords)
      BY <1>1, LineNumbers DEF EventsInv, StreamInv
    <3>2. sending[s][1] \in EventRecords /\ sending[s] = <<sending[s][1]>>
      BY <3>1
    <3>3. QED
      BY <3>1, <3>2
  <2>1. Server!Becomes(s, "get")
    BY <1>4, EventsServer
  <2>2. /\ StreamTypes' /\ wire'[s] = Append(w, e) /\ subscription'[s] = subscription[s]
        /\ \A t \in Conns \ {s} : subscription'[t] = subscription[t] /\ wire'[t] = wire[t]
    <3>1. Append(w, e) \in Seq(EventRecords) /\ w \o <<e>> = Append(w, e)
      BY AppendEvents
    <3>2. wire' = [wire EXCEPT ![s] = Append(w, e)]
      BY <1>4, <2>0, <3>1
    <3>3. QED
      BY <1>1, <1>2, <3>1, <3>2 DEF EventsInv, StreamTypes
  <2>3. /\ ServerInv' /\ unused' = unused /\ (stage' = "new" => ~closed')
        /\ serving'[s] = "get" /\ ~Waits(s)'
        /\ \A t \in Conns \ {s} : ConnHolds(t)
    BY <1>1, <1>2, <2>1, <2>2, WorkerHolds
  <2>4. /\ StreamInv(s) /\ ~Waits(s)
    BY <1>1 DEF EventsInv, Waits, ServerInv
  <2>5. /\ <<e>> # <<>> /\ <<e>>[1] = e /\ (Plain(<<e>>) => ~e.snapshot) /\ (Of(<<e>>, s) => e.conn = s)
        /\ Len(<<e>>) = 1
    <3>1. <<e>> # <<>> /\ <<e>>[1] = e /\ Len(<<e>>) = 1 /\ 1 \in 1 .. Len(<<e>>)
      BY OneEvent
    <3>2. QED
      BY <3>1 DEF Plain, Of
  <2>6. StreamInv(s)'
    <3>1. /\ Len(subscription[s]) <= QueueCapacity
          /\ Of(w, s) /\ e.conn = s /\ Of(subscription[s], s) /\ PlainTail(w) /\ PlainTail(subscription[s])
          /\ w # <<>> => ~e.snapshot
          /\ Plain(subscription[s])
      BY <2>0, <2>4, <2>5 DEF StreamInv
    <3>2. /\ Of(Append(w, e), s) /\ PlainTail(Append(w, e)) /\ Len(Append(w, e)) = Len(w) + 1 /\ Len(w) \in Nat
      <4>1. /\ Len(Append(w, e)) = Len(w) + 1 /\ \A t : Of(w, t) /\ e.conn = t => Of(Append(w, e), t)
            /\ PlainTail(w) /\ (w # <<>> => ~e.snapshot) => PlainTail(Append(w, e))
        BY AppendEvents
      <4>2. Len(w) \in Nat
        OBVIOUS
      <4>3. QED
        BY <3>1, <4>1, <4>2
    <3>3. Len(Append(w, e)) <= WireCapacity
      BY <1>4, <2>0, <3>2, ServicesAssumption
    <3>4. /\ Of(wire'[s], s) /\ Of(sending'[s], s) /\ Of(subscription'[s], s)
          /\ PlainTail(wire'[s]) /\ PlainTail(subscription'[s])
          /\ Plain(sending'[s]) /\ Plain(subscription'[s])
          /\ Len(subscription'[s]) <= QueueCapacity /\ Len(wire'[s]) <= WireCapacity
      BY <1>2, <2>2, <3>1, <3>2, <3>3, NoEvents
    <3>5. QED
      BY <1>2, <2>3, <3>4 DEF StreamInv, Of, Plain, PlainTail
  <2>7. Unread(s) => Unread(s)'
    <3>1. Append(w, e) # <<>> /\ Append(w, e)[1] = IF w = <<>> THEN e ELSE w[1]
      BY AppendEvents
    <3>2. QED
      BY <2>0, <2>2, <2>5, <3>1 DEF Unread
  <2>8. ASSUME NEW k \in Nat, NEW m \in Nat, Follows(s, k, m) PROVE Follows(s, k, m)'
    <3>1. /\ Len(frame) \in Nat /\ Len(buffer) \in Nat /\ Len(given) \in Nat /\ Len(w) \in Nat
          /\ Len(subscription[s]) \in Nat /\ Len(Append(w, e)) = Len(w) + 1 /\ Len(<<e>>) = 1 /\ Len(<<>>) = 0
      BY <2>0, <2>5, LineNumbers, AppendEvents, NoEvents
    <3> DEFINE j == k + Len(frame) + Len(buffer) + Len(given)
    <3>2. j \in Int /\ j + Len(Append(w, e)) + Len(<<>>) = j + Len(w) + Len(<<e>>)
      BY <3>1
    <3>3. Run(w, s, j, m) /\ Run(<<e>>, s, j + Len(w), m) /\ Run(subscription[s], s, j + Len(w) + Len(<<e>>), m)
      BY <1>1, <2>0, <2>8 DEF Follows, Line
    <3>4. Run(Append(w, e), s, j, m) /\ Run(subscription[s], s, j + Len(Append(w, e)) + Len(<<>>), m)
      BY <3>2, <3>3, AppendEvents
    <3>5. Line(s, k, m)'
      <4>1. /\ Run(frame', s, k, m)
            /\ Run(buffer', s, k + Len(frame'), m)
            /\ Run(given', s, k + Len(frame') + Len(buffer'), m)
        BY <1>1, <2>8 DEF Follows, Line, ReaderRests
      <4>2. Run(wire'[s], s, k + Len(frame') + Len(buffer') + Len(given'), m)
        BY <1>1, <2>2, <3>4 DEF ReaderRests
      <4>3. Run(sending'[s], s, k + Len(frame') + Len(buffer') + Len(given') + Len(wire'[s]), m)
        BY <1>2, <3>1 DEF Run
      <4>4. Run(subscription'[s], s, k + Len(frame') + Len(buffer') + Len(given') + Len(wire'[s]) + Len(sending'[s]), m)
        BY <1>1, <1>2, <2>2, <3>4 DEF ReaderRests
      <4>5. QED
        BY <4>1, <4>2, <4>3, <4>4 DEF Line, Run
    <3>6. Total(s)' = Total(s)
      <4>1. PICK x \in Nat : x = Len(frame) + Len(buffer) + Len(given)
        BY <3>1
      <4>2. Total(s) = x + Len(w) + 1 + Len(subscription[s])
        BY <2>0, <3>1, <4>1 DEF Total
      <4>3. Total(s)' = x + (Len(w) + 1) + 0 + Len(subscription[s])
        BY <1>1, <1>2, <2>2, <3>1, <4>1 DEF Total, ReaderRests
      <4>4. \A l, n \in Nat : x + l + 1 + n = x + (l + 1) + 0 + n
        OBVIOUS
      <4>5. Len(w) \in Nat /\ Len(subscription[s]) \in Nat
        BY <3>1
      <4>6. QED
        BY <4>2, <4>3, <4>4, <4>5
    <3>7. QED
      BY <1>1, <2>3, <2>8, <3>5, <3>6 DEF Follows, ReaderRests
  <2>9. QED
    BY <1>1, <2>2, <2>3, <2>6, <2>7, <2>8, EventsOne
<1>5. QED
  BY <1>3, <1>4 DEF Events!Send

LEMMA EventsUnserve ==
  ASSUME NEW s \in Conns, EventsInv, Events!Unserve(s)
  PROVE  EventsInv'
<1>1. /\ ReaderRests /\ UNCHANGED <<latest, closed, sending, wire, lossy>>
      /\ Server!Release(s) /\ subscription' = [subscription EXCEPT ![s] = <<>>]
  BY EventsServer DEF Events!Unserve, Events!Nothing, Events!clientVars, Events!receiveVars, ReaderRests
<1>2. ServerInv'
  BY <1>1, WorkerEnds DEF EventsInv
<1>3. /\ unused' = unused /\ stage' = stage /\ serving[s] = "release" /\ serving' = [serving EXCEPT ![s] = "off"]
      /\ backlog' = backlog /\ admitting' = admitting
  BY <1>1 DEF Server!Release
<1>4. StreamTypes'
  <2>1. <<>> \in Seq(EventRecords)
    OBVIOUS
  <2>2. QED
    BY <1>1, <2>1 DEF EventsInv, StreamTypes
<1>5. \A t \in Conns : ConnHolds(t)
  BY <1>1, <1>3 DEF ConnHolds, Waits, Fresh, EventsInv, ServerInv, ServerTypes, StreamTypes
<1>6. QED
  BY <1>1, <1>2, <1>3, <1>4, <1>5, EventsHold DEF EventsInv

\* Publication.  A full subscription loses an event, but never its snapshot.
LEMMA Enqueues ==
  ASSUME NEW q \in Seq(EventRecords), NEW e \in EventRecords, Len(q) <= QueueCapacity, ~e.snapshot, PlainTail(q)
  PROVE  /\ Events!Enqueue(q, e) \in Seq(EventRecords) /\ Len(Events!Enqueue(q, e)) <= QueueCapacity
         /\ Events!Enqueue(q, e) # <<>>
         /\ \A s : Of(q, s) /\ e.conn = s => Of(Events!Enqueue(q, e), s)
         /\ PlainTail(Events!Enqueue(q, e))
         /\ Plain(q) => Plain(Events!Enqueue(q, e))
         /\ q # <<>> /\ q[1].snapshot => Events!Enqueue(q, e)[1].snapshot
         /\ Len(q) < QueueCapacity => Events!Enqueue(q, e) = Append(q, e)
<1>1. QueueCapacity \in Nat /\ QueueCapacity >= 2 /\ Len(q) \in Nat
  BY ServicesAssumption
<1>2. CASE Len(q) < QueueCapacity
  <2>1. Events!Enqueue(q, e) = Append(q, e)
    BY <1>2 DEF Events!Enqueue
  <2>2. /\ Append(q, e) \in Seq(EventRecords) /\ Len(Append(q, e)) = Len(q) + 1 /\ Append(q, e) # <<>>
        /\ \A s : Of(q, s) /\ e.conn = s => Of(Append(q, e), s)
        /\ Plain(q) /\ ~e.snapshot => Plain(Append(q, e))
        /\ PlainTail(q) /\ (q # <<>> => ~e.snapshot) => PlainTail(Append(q, e))
        /\ Append(q, e)[1] = IF q = <<>> THEN e ELSE q[1]
    BY AppendEvents
  <2>3. QED
    BY <1>1, <1>2, <2>1, <2>2
<1>3. ASSUME NEW kept \in Seq(EventRecords), ~(Len(q) < QueueCapacity), Events!Enqueue(q, e) = Append(kept, e),
             Len(kept) = Len(q) - 1, kept # <<>>,
             PlainTail(kept), Plain(q) => Plain(kept), \A s : Of(q, s) => Of(kept, s),
             q # <<>> /\ q[1].snapshot => kept[1].snapshot
      PROVE  /\ Events!Enqueue(q, e) \in Seq(EventRecords) /\ Len(Events!Enqueue(q, e)) <= QueueCapacity
             /\ Events!Enqueue(q, e) # <<>>
             /\ \A s : Of(q, s) /\ e.conn = s => Of(Events!Enqueue(q, e), s)
             /\ PlainTail(Events!Enqueue(q, e))
             /\ Plain(q) => Plain(Events!Enqueue(q, e))
             /\ q # <<>> /\ q[1].snapshot => Events!Enqueue(q, e)[1].snapshot
  <2>1. /\ Append(kept, e) \in Seq(EventRecords) /\ Len(Append(kept, e)) = Len(kept) + 1 /\ Append(kept, e) # <<>>
        /\ \A s : Of(kept, s) /\ e.conn = s => Of(Append(kept, e), s)
        /\ Plain(kept) /\ ~e.snapshot => Plain(Append(kept, e))
        /\ PlainTail(kept) /\ (kept # <<>> => ~e.snapshot) => PlainTail(Append(kept, e))
        /\ Append(kept, e)[1] = IF kept = <<>> THEN e ELSE kept[1]
    BY AppendEvents
  <2>2. QED
    BY <1>1, <1>3, <2>1
<1>4. CASE ~(Len(q) < QueueCapacity)
  <2>1. Len(q) >= 2 /\ q # <<>> /\ 1 \in 1 .. Len(q) /\ q[1] \in EventRecords
    BY <1>1, <1>4
  <2>2. CASE q[1].snapshot
    <3> DEFINE r == SubSeq(q, 3, Len(q))
               kept == <<q[1]>> \o r
    <3>1. r \in Seq(EventRecords) /\ Len(r) = Len(q) - 2 /\ \A i \in 1 .. Len(r) : r[i] = q[i + 2]
      <4>1. \A i \in 3 .. Len(q) : q[i] \in EventRecords
        BY <1>1
      <4>2. /\ r \in Seq(EventRecords) /\ Len(r) = IF 3 <= Len(q) THEN Len(q) - 3 + 1 ELSE 0
            /\ \A i \in 1 .. Len(q) - 3 + 1 : r[i] = q[3 + i - 1]
        BY <1>1, <4>1, SubSeqProperties
      <4>3. Len(r) = Len(q) - 2
        <5>1. Len(q) >= 2 /\ Len(q) \in Nat /\ Len(r) = IF 3 <= Len(q) THEN Len(q) - 3 + 1 ELSE 0
          BY <1>1, <2>1, <4>2
        <5>2. \A n \in Nat : n >= 2 => (IF 3 <= n THEN n - 3 + 1 ELSE 0) = n - 2
          OBVIOUS
        <5>3. QED
          BY <5>1, <5>2
      <4>4. ASSUME NEW i \in 1 .. Len(r) PROVE r[i] = q[i + 2]
        <5>1. i \in 1 .. Len(q) - 3 + 1 /\ 3 + i - 1 = i + 2
          BY <1>1, <4>3
        <5>2. QED
          BY <4>2, <5>1
      <4>5. QED
        BY <4>2, <4>3, <4>4
    <3>2. /\ kept \in Seq(EventRecords) /\ Len(kept) = 1 + Len(r)
          /\ \A i \in 1 .. 1 + Len(r) : kept[i] = IF i <= 1 THEN <<q[1]>>[i] ELSE r[i - 1]
      <4>1. <<q[1]>> \in Seq(EventRecords) /\ Len(<<q[1]>>) = 1
        BY <2>1
      <4>2. QED
        BY <3>1, <4>1, ConcatProperties
    <3>3. Len(kept) = Len(q) - 1 /\ kept # <<>> /\ kept[1] = q[1]
      BY <1>1, <2>1, <3>1, <3>2
    <3>4. \A i \in 2 .. Len(kept) : kept[i] = q[i + 1] /\ i + 1 \in 2 .. Len(q) /\ i + 1 \in 1 .. Len(q)
      <4>1. ASSUME NEW i \in 2 .. Len(kept) PROVE kept[i] = q[i + 1] /\ i + 1 \in 2 .. Len(q) /\ i + 1 \in 1 .. Len(q)
        <5>1. i \in 1 .. 1 + Len(r) /\ ~(i <= 1) /\ i - 1 \in 1 .. Len(r) /\ (i - 1) + 2 = i + 1
          BY <1>1, <3>1, <3>2
        <5>2. kept[i] = q[i + 1]
          BY <3>1, <3>2, <5>1
        <5>3. QED
          BY <1>1, <3>3, <5>2
      <4>2. QED
        BY <4>1
    <3> HIDE DEF kept, r
    <3>5. PlainTail(kept)
      BY <3>4 DEF PlainTail
    <3>6. ~Plain(q)
      BY <2>1, <2>2 DEF Plain
    <3>7. ASSUME NEW s, Of(q, s) PROVE Of(kept, s)
      <4>1. \A i \in 1 .. Len(kept) : i = 1 \/ i \in 2 .. Len(kept)
        BY <1>1, <3>3
      <4>2. QED
        BY <2>1, <3>3, <3>4, <3>7, <4>1 DEF Of
    <3>8. Events!Enqueue(q, e) = Append(kept, e)
      BY <1>4, <2>2 DEF Events!Enqueue, kept, r
    <3>9. QED
      BY <1>3, <1>4, <2>2, <3>2, <3>3, <3>5, <3>6, <3>7, <3>8
  <2>3. CASE ~q[1].snapshot
    <3>1. PICK kept : kept = Tail(q)
      OBVIOUS
    <3>2. /\ kept \in Seq(EventRecords) /\ Len(kept) = Len(q) - 1 /\ (PlainTail(q) => Plain(kept))
          /\ \A s : Of(q, s) => Of(kept, s) /\ Head(q).conn = s
      BY <2>1, <3>1, TailEvents
    <3>3. PlainTail(kept) /\ kept # <<>>
      BY <1>1, <2>1, <3>2 DEF Plain, PlainTail
    <3>4. Events!Enqueue(q, e) = Append(kept, e)
      BY <1>4, <2>3, <3>1 DEF Events!Enqueue
    <3>5. QED
      BY <1>3, <1>4, <2>3, <3>2, <3>3, <3>4
  <2>4. QED
    BY <2>2, <2>3
<1>5. QED
  BY <1>2, <1>4

LEMMA EventsPublish == EventsInv /\ Events!Publish => EventsInv'
<1> SUFFICES ASSUME EventsInv, Events!Publish PROVE EventsInv'
  OBVIOUS
<1> DEFINE Full(s) == Len(subscription[s]) = QueueCapacity
<1>1. /\ latest < MaxEvents /\ ~closed /\ latest' = latest + 1 /\ UNCHANGED <<closed, sending, wire>>
      /\ UNCHANGED <<stopEvent, stage, acceptor, admitting, backlog, clients, serving, near, far, unused>>
      /\ lossy' = lossy \cup {s \in Conns : serving[s] \in {"get", "send"} /\ Full(s)}
      /\ ReaderRests /\ latest \in Nat
  BY ServicesAssumption DEF EventsInv, StreamTypes, Events!Publish, Events!Subscribed, Events!serverVars, Events!lifeVars,
     Events!socketVars, Events!clientVars, Events!receiveVars, ReaderRests
<1>2. ServerInv'
  BY <1>1, ClientHangs DEF Hangs, EventsInv
<1>3. ASSUME NEW s \in Conns
      PROVE  \E e \in EventRecords :
               /\ e = Events!Event(s, latest + 1, FALSE) /\ e.conn = s /\ ~e.snapshot
               /\ subscription'[s] = IF serving[s] \in {"get", "send"} THEN Events!Enqueue(subscription[s], e)
                                     ELSE subscription[s]
  <2>1. PICK e \in EventRecords : e = Events!Event(s, latest + 1, FALSE) /\ e.conn = s /\ e.snapshot = FALSE
    <3>1. latest + 1 \in Nat /\ FALSE \in BOOLEAN
      BY <1>1
    <3>2. /\ Events!Event(s, latest + 1, FALSE) \in EventRecords
          /\ Events!Event(s, latest + 1, FALSE).conn = s
          /\ Events!Event(s, latest + 1, FALSE).snapshot = FALSE
      BY <3>1, SnapshotEvent
    <3>3. QED
      BY <3>2
  <2>2. subscription'[s] = IF s \in Events!Subscribed THEN Events!Enqueue(subscription[s], Events!Event(s, latest', FALSE))
                           ELSE subscription[s]
    BY DEF Events!Publish
  <2>3. s \in Events!Subscribed <=> serving[s] \in {"get", "send"}
    BY DEF Events!Subscribed
  <2>4. QED
    BY <1>1, <2>1, <2>2, <2>3
<1>4. ASSUME NEW s \in Conns
      PROVE  /\ subscription'[s] \in Seq(EventRecords) /\ StreamInv(s)' /\ (Unread(s) => Unread(s)')
             /\ (Waits(s)' => Waits(s))
  <2>1. PICK e \in EventRecords :
               /\ e = Events!Event(s, latest + 1, FALSE) /\ e.conn = s /\ ~e.snapshot
               /\ subscription'[s] = IF serving[s] \in {"get", "send"} THEN Events!Enqueue(subscription[s], e)
                                     ELSE subscription[s]
    BY <1>3
  <2>2. PICK q \in Seq(EventRecords) : q = subscription[s]
    BY LineNumbers
  <2>3. Waits(s)' <=> Waits(s)
    BY <1>1 DEF Waits, Fresh
  <2>4. CASE serving[s] \notin {"get", "send"}
    <3>1. subscription'[s] = subscription[s]
      BY <2>1, <2>4
    <3>2. StreamInv(s)' /\ (Unread(s) => Unread(s)')
      <4>1. /\ serving'[s] = serving[s] /\ wire'[s] = wire[s] /\ sending'[s] = sending[s] /\ closed' = closed
            /\ StreamInv(s)
        BY <1>1 DEF EventsInv
      <4>2. StreamInv(s)'
        BY <2>3, <3>1, <4>1 DEF StreamInv, Of, Plain, PlainTail
      <4>3. Unread(s) => Unread(s)'
        BY <3>1, <4>1 DEF Unread
      <4>4. QED
        BY <4>2, <4>3
    <3>3. QED
      BY <2>2, <2>3, <3>1, <3>2
  <2>5. CASE serving[s] \in {"get", "send"}
    <3>1. PICK r : r = Events!Enqueue(q, e)
      OBVIOUS
    <3>2. subscription'[s] = r
      BY <2>1, <2>2, <2>5, <3>1
    <3>3. /\ Len(q) <= QueueCapacity /\ PlainTail(q) /\ Of(q, s) /\ StreamInv(s)
      BY <2>2 DEF EventsInv, StreamInv
    <3>4. /\ r \in Seq(EventRecords) /\ Len(r) <= QueueCapacity /\ r # <<>>
          /\ \A t : Of(q, t) /\ e.conn = t => Of(r, t)
          /\ PlainTail(r) /\ (Plain(q) => Plain(r)) /\ (q # <<>> /\ q[1].snapshot => r[1].snapshot)
      BY <2>1, <3>1, <3>3, Enqueues
    <3>5. Of(r, s)
      BY <2>1, <3>3, <3>4
    <3>6. ~Waits(s)
      BY <2>5 DEF Waits, EventsInv, ServerInv
    <3>7. StreamInv(s)'
      <4>1. /\ Len(subscription'[s]) <= QueueCapacity /\ Len(wire'[s]) <= WireCapacity
            /\ IF serving'[s] = "send" THEN Len(sending'[s]) = 1 ELSE sending'[s] = <<>>
            /\ Of(wire'[s], s) /\ Of(sending'[s], s) /\ Of(subscription'[s], s)
            /\ PlainTail(wire'[s]) /\ PlainTail(subscription'[s])
            /\ wire'[s] # <<>> => Plain(sending'[s]) /\ Plain(subscription'[s])
            /\ sending'[s] # <<>> => Plain(subscription'[s])
        BY <1>1, <2>2, <3>2, <3>3, <3>4, <3>5 DEF StreamInv
      <4>2. QED
        BY <2>3, <3>6, <4>1 DEF StreamInv, Of, Plain, PlainTail
    <3>8. Unread(s) => Unread(s)'
      BY <1>1, <2>2, <2>5, <3>2, <3>4 DEF Unread
    <3>9. QED
      BY <2>3, <3>2, <3>4, <3>7, <3>8
  <2>6. QED
    BY <2>4, <2>5
<1>5. StreamTypes'
  <2>1. DOMAIN subscription' = Conns /\ subscription' = [s \in Conns |-> subscription'[s]]
    BY DEF Events!Publish
  <2>2. subscription' \in [Conns -> Seq(EventRecords)]
    BY <1>4, <2>1
  <2>3. latest' \in 0 .. MaxEvents
    BY <1>1, ServicesAssumption DEF EventsInv, StreamTypes
  <2>4. QED
    BY <1>1, <2>2, <2>3 DEF EventsInv, StreamTypes
<1>6. ASSUME NEW s \in Conns \ lossy', NEW k \in Nat, NEW m \in Nat, Follows(s, k, m)
      PROVE  Follows(s, k, m)'
  <2>1. PICK e \in EventRecords :
               /\ e = Events!Event(s, latest + 1, FALSE) /\ e.conn = s /\ ~e.snapshot
               /\ subscription'[s] = IF serving[s] \in {"get", "send"} THEN Events!Enqueue(subscription[s], e)
                                     ELSE subscription[s]
    BY <1>3
  <2>2. PICK q \in Seq(EventRecords) : q = subscription[s]
    BY LineNumbers
  <2>3. CASE serving[s] \notin {"get", "send"}
    BY <1>1, <1>6, <2>3 DEF Follows, Line, ReaderRests, Run
  <2>4. CASE serving[s] \in {"get", "send"}
    <3>1. Len(q) <= QueueCapacity /\ PlainTail(q) /\ Len(q) # QueueCapacity
      BY <1>1, <1>6, <2>2, <2>4 DEF EventsInv, StreamInv
    <3>2. subscription'[s] = Append(q, e)
      <4>1. Len(q) < QueueCapacity
        BY <3>1, ServicesAssumption
      <4>2. Events!Enqueue(q, e) = Append(q, e)
        BY <2>1, <3>1, <4>1, Enqueues
      <4>3. QED
        BY <2>1, <2>2, <2>4, <4>2
    <3>3. /\ Len(frame) \in Nat /\ Len(buffer) \in Nat /\ Len(given) \in Nat /\ Len(wire[s]) \in Nat
          /\ Len(sending[s]) \in Nat /\ Len(q) \in Nat
      BY LineNumbers
    <3>4. PICK j \in Nat : j = Len(frame) + Len(buffer) + Len(given) + Len(wire[s]) + Len(sending[s])
      <4>1. \A a, b, c, d, f \in Nat : a + b + c + d + f \in Nat
        OBVIOUS
      <4>2. Len(frame) + Len(buffer) + Len(given) + Len(wire[s]) + Len(sending[s]) \in Nat
        BY <3>3, <4>1
      <4>3. QED
        BY <4>2
    <3>5. k + Len(frame) + Len(buffer) + Len(given) + Len(wire[s]) + Len(sending[s]) = k + j
      <4>1. PICK a \in Nat : a = Len(frame)
        BY <3>3
      <4>2. PICK b \in Nat : b = Len(buffer)
        BY <3>3
      <4>3. PICK c \in Nat : c = Len(given)
        BY <3>3
      <4>4. PICK d \in Nat : d = Len(wire[s])
        BY <3>3
      <4>5. PICK f \in Nat : f = Len(sending[s])
        BY <3>3
      <4>6. k + a + b + c + d + f = k + (a + b + c + d + f)
        OBVIOUS
      <4>7. j = a + b + c + d + f
        BY <3>4, <4>1, <4>2, <4>3, <4>4, <4>5
      <4>8. QED
        BY <4>1, <4>2, <4>3, <4>4, <4>5, <4>6, <4>7
    <3>6. /\ Run(q, s, k + j, m) /\ Total(s) = j + Len(q) /\ k + Total(s) = latest + 1
          /\ last = None => Total(s) > 0
          /\ IF last = None THEN k = m ELSE k = last + 1 /\ m <= last
      BY <1>1, <1>6, <2>2, <2>4, <3>4, <3>5 DEF Follows, Line, Total
    <3>7. k + j + Len(q) = latest + 1 /\ m <= latest
      <4>1. k + j + Len(q) = latest + 1
        BY <3>3, <3>6
      <4>2. CASE last = None
        BY <1>1, <3>3, <3>6, <4>1, <4>2
      <4>3. CASE last # None
        <5>1. last \in Nat
          BY <4>3 DEF EventsInv, ReaderTypes
        <5>2. QED
          BY <1>1, <3>3, <3>6, <4>1, <4>3, <5>1
      <4>4. QED
        BY <4>2, <4>3
    <3>8. Run(<<e>>, s, k + j + Len(q), m)
      <4>1. \A i \in 1 .. Len(<<e>>) : i = 1 /\ <<e>>[i] = e
        BY OneEvent
      <4>2. k + j + Len(q) + 1 - 1 = latest + 1 /\ latest + 1 # m
        BY <1>1, <3>3, <3>7
      <4>3. QED
        BY <2>1, <4>1, <4>2 DEF Run
    <3>9. Run(Append(q, e), s, k + j, m) /\ Len(Append(q, e)) = Len(q) + 1
      <4>1. k + j \in Int
        OBVIOUS
      <4>2. QED
        BY <3>6, <3>8, <4>1, AppendEvents
    <3>10. Line(s, k, m)'
      <4>1. /\ Run(frame', s, k, m)
            /\ Run(buffer', s, k + Len(frame'), m)
            /\ Run(given', s, k + Len(frame') + Len(buffer'), m)
            /\ Run(wire'[s], s, k + Len(frame') + Len(buffer') + Len(given'), m)
            /\ Run(sending'[s], s, k + Len(frame') + Len(buffer') + Len(given') + Len(wire'[s]), m)
        BY <1>1, <1>6 DEF Follows, Line, ReaderRests
      <4>2. Run(subscription'[s], s, k + Len(frame') + Len(buffer') + Len(given') + Len(wire'[s]) + Len(sending'[s]), m)
        BY <1>1, <3>2, <3>5, <3>9 DEF ReaderRests
      <4>3. QED
        BY <4>1, <4>2 DEF Line, Run
    <3>11. Total(s)' = j + (Len(q) + 1)
      BY <1>1, <3>2, <3>4, <3>9 DEF Total, ReaderRests
    <3>12. k + Total(s)' = latest' + 1 /\ Total(s)' > 0
      BY <1>1, <3>3, <3>6, <3>11
    <3>13. IF last' = None THEN k = m ELSE k = last' + 1 /\ m <= last'
      BY <1>1, <3>6 DEF ReaderRests
    <3>14. QED
      BY <3>10, <3>12, <3>13 DEF Follows
  <2>5. QED
    BY <2>3, <2>4
<1>7. \A s \in Conns \ lossy' :
        (\E k, m \in Nat : Follows(s, k, m)) /\ (Waits(s) => ~HasAny /\ last = None) =>
          \E k, m \in Nat : Follows(s, k, m)'
  BY <1>6
<1>8. stage' = "new" => ~closed'
  BY <1>1
<1>9. QED
  BY <1>1, <1>2, <1>4, <1>5, <1>7, <1>8, EventsRests

\* A step of the client leaves what is on the connections, unless it reads.
StreamRests ==
  /\ UNCHANGED <<stopEvent, stage, acceptor, admitting, clients, serving>>
  /\ UNCHANGED <<latest, closed, subscription, sending, wire, lossy>>

LEMMA StreamKept ==
  ASSUME EventsInv, StreamRests,
         (far' \subseteq far /\ UNCHANGED <<backlog, near, unused>>) \/ \E s \in Conns : Server!Opens(s)
  PROVE  /\ ServerInv' /\ StreamTypes' /\ (stage' = "new" => ~closed') /\ unused' \subseteq unused
         /\ \A s \in Conns : StreamInv(s)' /\ (Unread(s)' <=> Unread(s)) /\ (Waits(s)' => Waits(s))
<1>1. ServerInv'
  BY ClientHangs, ClientConnects DEF StreamRests, Hangs, EventsInv
<1>2. unused' \subseteq unused /\ \A s \in Conns : Waits(s)' => Waits(s)
  BY DEF StreamRests, Waits, Fresh, Server!Opens, Server!Reachable
<1>3. \A s \in Conns : StreamInv(s)'
  BY <1>2 DEF EventsInv, StreamRests, StreamInv, Of, Plain, PlainTail
<1>4. \A s \in Conns : Unread(s)' <=> Unread(s)
  BY DEF StreamRests, Unread
<1>5. QED
  BY <1>1, <1>2, <1>3, <1>4 DEF EventsInv, StreamRests, StreamTypes

LEMMA EventsConnects ==
  ASSUME NEW s \in Conns, EventsInv, StreamRests, Server!Opens(s), socket = None, socket' = s, buffer' = <<>>, last' = None,
         UNCHANGED <<given, frame, source>>,
         \/ receiving = None /\ receiving' = s /\ disturbed' = FALSE
         \/ receiving' = receiving /\ disturbed' = (receiving # None)
  PROVE  EventsInv'
<1>1. /\ ServerInv' /\ StreamTypes' /\ (stage' = "new" => ~closed') /\ unused' \subseteq unused
      /\ \A t \in Conns : StreamInv(t)' /\ (Unread(t)' <=> Unread(t)) /\ (Waits(t)' => Waits(t))
  BY StreamKept
<1>2. <<>> \in Seq(EventRecords) /\ None \notin Conns
  BY ServicesAssumption
<1>3. ReaderTypes'
  BY <1>2 DEF EventsInv, ReaderTypes
<1>4. s \in unused /\ unused' = unused \ {s}
  BY DEF Server!Opens, Server!Reachable
<1>5. \A t \in unused' : receiving' # t /\ socket' # t
  BY <1>4 DEF EventsInv
<1>6. ReaderInv'
  <2>1. receiving = None => given = <<>> /\ frame = <<>>
    BY DEF EventsInv, ReaderInv
  <2>2. Of(given', receiving') /\ PlainTail(given') /\ Plain(buffer') /\ PlainTail(buffer') /\ Of(buffer', frame[1].conn)
    BY <2>1, NoEvents DEF EventsInv, ReaderInv
  <2>3. /\ given' # <<>> => receiving' # None /\ frame' = <<>> /\ buffer' = <<>>
        /\ frame' # <<>> => Len(frame') = 1 /\ receiving' # None
        /\ frame' # <<>> /\ frame'[1].snapshot => frame'[1].conn = receiving'
    BY <2>1 DEF EventsInv, ReaderInv
  <2>4. \A i, j \in 1 .. Len(buffer') : buffer'[i].conn = buffer'[j].conn
    BY NoEvents
  <2>5. QED
    BY <2>2, <2>3, <2>4 DEF ReaderInv, Of, Plain, PlainTail
<1>7. wire[s] = <<>> /\ subscription[s] = <<>> /\ sending[s] = <<>> /\ serving[s] = "off"
  BY <1>4 DEF EventsInv, StreamInv, Waits, Fresh, ServerInv
<1>8. SourceInv'
  <2>1. Unread(s)
    BY <1>7 DEF Unread
  <2>2. QED
    BY <1>1, <1>2, <2>1 DEF SourceInv
<1>9. OrderInv'
  <2>1. CASE disturbed'
    BY <2>1 DEF OrderInv
  <2>2. CASE ~disturbed'
    <3>1. receiving = None /\ frame = <<>> /\ given = <<>>
      BY <2>2 DEF EventsInv, ReaderInv
    <3>2. frame' = <<>> /\ given' = <<>> /\ (receiving' = None \/ receiving' = s)
      BY <3>1
    <3>3. ~HasAny'
      BY <3>2 DEF HasAny
    <3>4. Follows(s, 0, 0)'
      <4>1. /\ wire'[s] = <<>> /\ subscription'[s] = <<>> /\ sending'[s] = <<>> /\ serving'[s] = "off"
        BY <1>7 DEF StreamRests
      <4>2. \A j : Run(<<>>, s, j, 0)
        BY NoEvents DEF Run
      <4>3. Line(s, 0, 0)'
        BY <3>2, <4>1, <4>2 DEF Line, Run
      <4>4. QED
        BY <4>1, <4>3 DEF Follows
    <3>5. OrderAt(s)'
      <4>1. \E k, m \in Nat : Follows(s, k, m)'
        <5>1. 0 \in Nat
          OBVIOUS
        <5>2. QED
          BY <3>4, <5>1
      <4>2. Of(frame', s) /\ Of(buffer', s)
        BY <3>2, NoEvents
      <4>3. QED
        BY <3>2, <3>3, <4>1, <4>2 DEF OrderAt, Of
    <3>6. QED
      BY <1>2, <3>5 DEF OrderInv
  <2>3. QED
    BY <2>1, <2>2
<1>10. QED
  BY <1>1, <1>3, <1>5, <1>6, <1>8, <1>9 DEF EventsInv

LEMMA ReadsOne ==
  ASSUME EventsInv
  PROVE  /\ frame # <<>> => /\ frame = <<frame[1]>> /\ frame[1] \in EventRecords /\ given = <<>> /\ receiving \in Conns
         /\ buffer # <<>> => /\ 1 \in 1 .. Len(buffer) /\ buffer[1] \in EventRecords
         /\ given # <<>> => /\ 1 \in 1 .. Len(given) /\ given[1] \in EventRecords /\ given[1].conn = receiving
                            /\ receiving \in Conns
<1>1. /\ frame \in Seq(EventRecords) /\ buffer \in Seq(EventRecords) /\ given \in Seq(EventRecords)
      /\ receiving \in Conns \cup {None}
  BY DEF EventsInv, ReaderTypes
<1>2. ASSUME NEW q \in Seq(EventRecords), q # <<>> PROVE 1 \in 1 .. Len(q) /\ q[1] \in EventRecords
  <2>1. Len(q) >= 1 /\ Len(q) \in Nat /\ Head(q) = q[1] /\ Head(q) \in EventRecords
    BY <1>2, TailEvents
  <2>2. QED
    BY <2>1
<1>3. given # <<>> => given[1].conn = receiving /\ receiving # None
  BY <1>1, <1>2 DEF EventsInv, ReaderInv, Of
<1>4. frame # <<>> => frame = <<frame[1]>> /\ given = <<>> /\ receiving # None
  <2>1. frame # <<>> => Len(frame) = 1 /\ given = <<>> /\ receiving # None
    BY DEF EventsInv, ReaderInv
  <2>2. QED
    BY <1>1, <2>1
<1>5. QED
  BY <1>1, <1>2, <1>3, <1>4

LEMMA EventsReceive == EventsInv /\ Events!Receive => EventsInv'
<1> SUFFICES ASSUME EventsInv, Events!Receive PROVE EventsInv'
  OBVIOUS
<1>1. /\ receiving = None /\ StreamRests /\ UNCHANGED <<given, frame, source>>
  BY DEF Events!Receive, Events!Reading, Events!Quiet, Events!lifeVars, Events!streamVars, StreamRests
<1>2. PICK s \in Conns :
       /\ \/ s = socket /\ UNCHANGED <<backlog, near, far, unused, socket, buffer, last, disturbed>>
          \/ socket = None /\ Server!Opens(s) /\ socket' = s /\ buffer' = <<>> /\ last' = None /\ disturbed' = FALSE
       /\ receiving' = s
  BY EventsServer DEF Events!Receive, Events!Connect, Events!socketVars, Events!Nothing
<1>3. CASE socket = None /\ Server!Opens(s) /\ socket' = s /\ buffer' = <<>> /\ last' = None /\ disturbed' = FALSE
  BY <1>1, <1>2, <1>3, EventsConnects
<1>4. CASE s = socket /\ UNCHANGED <<backlog, near, far, unused, socket, buffer, last, disturbed>>
  <2>1. /\ ServerInv' /\ StreamTypes' /\ (stage' = "new" => ~closed') /\ unused' \subseteq unused
        /\ \A t \in Conns : StreamInv(t)' /\ (Unread(t)' <=> Unread(t)) /\ (Waits(t)' => Waits(t))
    BY <1>1, <1>4, StreamKept
  <2>2. frame = <<>> /\ given = <<>> /\ (buffer # <<>> => ~buffer[1].snapshot)
    <3>1. frame = <<>> /\ given = <<>>
      BY <1>1 DEF EventsInv, ReaderInv
    <3>2. buffer # <<>> => buffer[1].conn \in Conns
      BY ReadsOne DEF EventRecords
    <3>3. QED
      BY <1>1, <3>1, <3>2, ServicesAssumption DEF EventsInv, ReaderInv
  <2>3. ReaderTypes' /\ \A t \in unused' : receiving' # t /\ socket' # t
    BY <1>1, <1>2, <1>4 DEF EventsInv, ReaderTypes
  <2>4. ReaderInv'
    <3>1. Of(given', receiving') /\ PlainTail(given')
      BY <1>1, <2>2, NoEvents
    <3>2. QED
      BY <1>1, <1>4, <2>2, <3>1 DEF EventsInv, ReaderInv, Of, Plain, PlainTail
  <2>5. HasAny' = HasAny /\ HasSnapshot' = HasSnapshot /\ (HasAny => HasConn' = HasConn)
    BY <1>1, <1>4, <2>2 DEF HasAny, HasSnapshot, HasConn
  <2>6. SourceInv'
    BY <1>1, <1>2, <1>4, <2>1, <2>5 DEF EventsInv, SourceInv
  <2>7. OrderInv'
    <3>1. ASSUME OrderAt(s) PROVE OrderAt(s)'
      <4>1. ASSUME NEW k, NEW m, Follows(s, k, m) PROVE Follows(s, k, m)'
        BY <1>1, <1>4, <4>1 DEF Follows, Line, Total, Run, StreamRests
      <4>2. s \notin lossy' => \E k, m \in Nat : Follows(s, k, m)'
        BY <1>1, <3>1, <4>1 DEF OrderAt, StreamRests
      <4>3. QED
        BY <1>1, <1>2, <1>4, <2>1, <2>5, <3>1, <4>2 DEF OrderAt, Of
    <3>2. QED
      BY <1>2, <1>4, <3>1, ServicesAssumption DEF EventsInv, OrderInv
  <2>8. QED
    BY <2>1, <2>3, <2>4, <2>6, <2>7 DEF EventsInv
<1>5. QED
  BY <1>2, <1>3, <1>4

LEMMA EventsReconnect == EventsInv /\ Events!Reconnect => EventsInv'
<1> SUFFICES ASSUME EventsInv, Events!Reconnect PROVE EventsInv'
  OBVIOUS
<1>1. /\ StreamRests /\ UNCHANGED <<receiving, given, frame, source>> /\ socket = None
      /\ disturbed' = (receiving # None)
  BY DEF Events!Reconnect, Events!Reading, Events!Quiet, Events!lifeVars, Events!streamVars, StreamRests
<1>2. PICK s \in Conns : Server!Opens(s) /\ socket' = s /\ buffer' = <<>> /\ last' = None
  BY EventsServer DEF Events!Reconnect, Events!Connect, Events!Nothing
<1>3. QED
  BY <1>1, <1>2, EventsConnects

\* The client lets the connection go.
LEMMA EventsClose == EventsInv /\ Events!Close => EventsInv'
<1> SUFFICES ASSUME EventsInv, Events!Close PROVE EventsInv'
  OBVIOUS
<1>1. /\ StreamRests /\ UNCHANGED <<backlog, near, unused, receiving, given, frame, source>>
      /\ far' \subseteq far /\ socket' = None /\ buffer' = <<>> /\ last' = None
      /\ disturbed' = (disturbed \/ receiving # None)
  BY DEF Events!Close, Events!Reading, Events!Quiet, Events!Nothing, Events!lifeVars, Events!streamVars, StreamRests
<1>2. /\ ServerInv' /\ StreamTypes' /\ (stage' = "new" => ~closed') /\ unused' \subseteq unused
      /\ \A t \in Conns : StreamInv(t)' /\ (Unread(t)' <=> Unread(t)) /\ (Waits(t)' => Waits(t))
  BY <1>1, StreamKept
<1>3. <<>> \in Seq(EventRecords) /\ None \notin Conns
  BY ServicesAssumption
<1>4. ReaderTypes' /\ \A t \in unused' : receiving' # t /\ socket' # t
  BY <1>1, <1>3, <1>2 DEF EventsInv, ReaderTypes, ServerInv, ServerTypes
<1>5. ReaderInv'
  <2>1. /\ Of(given', receiving') /\ PlainTail(given') /\ Plain(buffer') /\ PlainTail(buffer')
        /\ Of(buffer', frame[1].conn) /\ \A i, j \in 1 .. Len(buffer') : buffer'[i].conn = buffer'[j].conn
    BY <1>1, NoEvents DEF EventsInv, ReaderInv
  <2>2. QED
    BY <1>1, <2>1 DEF EventsInv, ReaderInv, Of, Plain, PlainTail
<1>6. SourceInv'
  BY <1>1, <1>3 DEF SourceInv
<1>7. OrderInv'
  <2>1. receiving = None => frame = <<>> /\ given = <<>>
    BY DEF EventsInv, ReaderInv
  <2>2. QED
    BY <1>1, <1>3, <2>1 DEF OrderInv, HasAny
<1>8. QED
  BY <1>2, <1>4, <1>5, <1>6, <1>7 DEF EventsInv

LEMMA EventsDiscards ==
  ASSUME EventsInv, StreamRests, UNCHANGED <<backlog, near, unused, disturbed, source>>,
         receiving # None, receiving' = None, frame' = <<>>, given = <<>>, given' = <<>>,
         frame = <<>> => buffer = <<>>, Events!Discard(receiving)
  PROVE  EventsInv'
<1>1. /\ far' \subseteq far
      /\ IF socket = receiving THEN socket' = None /\ buffer' = <<>> /\ last' = None
         ELSE UNCHANGED <<socket, buffer, last>>
  BY DEF Events!Discard, Events!Nothing
<1>2. /\ ServerInv' /\ StreamTypes' /\ (stage' = "new" => ~closed') /\ unused' \subseteq unused
      /\ \A t \in Conns : StreamInv(t)' /\ (Unread(t)' <=> Unread(t)) /\ (Waits(t)' => Waits(t))
  BY <1>1, StreamKept
<1>3. <<>> \in Seq(EventRecords) /\ None \notin Conns
  BY ServicesAssumption
<1>4. ReaderTypes' /\ \A t \in unused' : receiving' # t /\ socket' # t
  BY <1>1, <1>3, <1>2 DEF EventsInv, ReaderTypes, ServerInv, ServerTypes
<1>5. buffer' = <<>> \/ (buffer' = buffer /\ Plain(buffer))
  BY <1>1 DEF EventsInv, ReaderInv
<1>6. ReaderInv'
  <2>1. Of(given', receiving') /\ PlainTail(given')
    BY NoEvents
  <2>2. PlainTail(buffer') /\ \A i, j \in 1 .. Len(buffer') : buffer'[i].conn = buffer'[j].conn
    BY <1>5, NoEvents DEF EventsInv, ReaderInv
  <2>3. buffer' # <<>> => ~buffer'[1].snapshot
    BY <1>5, ReadsOne DEF Plain
  <2>4. QED
    BY <2>1, <2>2, <2>3 DEF ReaderInv, Of, Plain, PlainTail
<1>7. last' = None
  BY <1>1 DEF EventsInv, SourceInv
<1>8. SourceInv'
  BY <1>3, <1>7 DEF SourceInv
<1>9. OrderInv'
  <2>1. CASE socket = receiving
    BY <1>1, <1>3, <2>1 DEF OrderInv, HasAny
  <2>2. CASE socket # receiving
    <3>1. disturbed
      <4>1. CASE socket = None
        BY <4>1 DEF EventsInv, OrderInv
      <4>2. CASE socket # None
        BY <2>2, <4>2 DEF EventsInv, OrderInv, OrderAt, ReaderTypes
      <4>3. QED
        BY <4>1, <4>2
    <3>2. QED
      BY <3>1 DEF OrderInv
  <2>3. QED
    BY <2>1, <2>2
<1>10. QED
  BY <1>2, <1>4, <1>6, <1>8, <1>9 DEF EventsInv

\* What receive() has is moved on by its own steps.
LEMMA EventsMoves ==
  ASSUME EventsInv, StreamRests, UNCHANGED <<backlog, near, far, unused, socket, receiving, last, disturbed, source>>,
         ReaderTypes', ReaderInv', HasAny, HasAny', HasSnapshot' = HasSnapshot, HasConn' = HasConn,
         \A s \in Conns : Of(frame, s) /\ Of(buffer, s) /\ receiving = s => Of(frame', s) /\ Of(buffer', s),
         \A s \in Conns : \A k, m \in Nat : Follows(s, k, m) => Follows(s, k, m)',
         receiving # None
  PROVE  EventsInv'
<1>1. /\ ServerInv' /\ StreamTypes' /\ (stage' = "new" => ~closed') /\ unused' \subseteq unused
      /\ \A t \in Conns : StreamInv(t)' /\ (Unread(t)' <=> Unread(t)) /\ (Waits(t)' => Waits(t))
  BY StreamKept
<1>2. SourceInv'
  BY <1>1 DEF EventsInv, SourceInv
<1>3. OrderInv'
  <2>1. ASSUME NEW s \in Conns, OrderAt(s) PROVE OrderAt(s)'
    <3>1. Of(frame', s) /\ Of(buffer', s) /\ receiving = s
      BY <2>1 DEF OrderAt
    <3>2. s \notin lossy' => \E k, m \in Nat : Follows(s, k, m)'
      BY <2>1 DEF OrderAt, StreamRests
    <3>3. ~Waits(s)'
      BY <1>1, <2>1 DEF OrderAt
    <3>4. QED
      BY <3>1, <3>2, <3>3 DEF OrderAt, Of
  <2>2. QED
    BY <2>1 DEF EventsInv, OrderInv
<1>4. QED
  BY <1>1, <1>2, <1>3 DEF EventsInv

LEMMA EventsExtend == EventsInv /\ Events!Extend => EventsInv'
<1> SUFFICES ASSUME EventsInv, Events!Extend PROVE EventsInv'
  OBVIOUS
<1>1. /\ StreamRests /\ UNCHANGED <<backlog, near, far, unused, socket, last, receiving, frame, disturbed, source>>
      /\ given # <<>> /\ buffer' = buffer \o given /\ given' = <<>>
  BY DEF Events!Extend, Events!Quiet, Events!Nothing, Events!lifeVars, Events!socketVars, Events!streamVars, StreamRests
<1>2. frame = <<>> /\ buffer = <<>> /\ receiving \in Conns /\ given \in Seq(EventRecords)
  BY <1>1, ReadsOne DEF EventsInv, ReaderInv, ReaderTypes
<1>3. buffer' = given /\ frame' = <<>>
  BY <1>1, <1>2, ConcatEmptySeq
<1>4. <<>> \in Seq(EventRecords)
  OBVIOUS
<1>5. ReaderTypes'
  BY <1>1, <1>2, <1>3, <1>4 DEF EventsInv, ReaderTypes
<1>6. given[1].conn = receiving /\ Of(given, receiving) /\ PlainTail(given)
  BY <1>1, ReadsOne DEF EventsInv, ReaderInv
<1>7. ReaderInv'
  <2>1. \A i, j \in 1 .. Len(given) : given[i].conn = given[j].conn
    BY <1>6 DEF Of
  <2>2. Of(given', receiving') /\ PlainTail(given') /\ PlainTail(buffer')
    BY <1>1, <1>3, <1>6, NoEvents
  <2>3. QED
    BY <1>1, <1>3, <1>6, <2>1, <2>2 DEF ReaderInv, Of, Plain, PlainTail
<1>8. HasAny /\ HasAny' /\ HasSnapshot' = HasSnapshot /\ HasConn' = HasConn
  <2>1. given[1].snapshot \in BOOLEAN
    BY <1>1, ReadsOne DEF EventRecords
  <2>2. HasAny /\ HasAny'
    BY <1>1, <1>3 DEF HasAny
  <2>3. HasSnapshot' = given[1].snapshot
    BY <1>1, <1>3 DEF HasSnapshot
  <2>4. HasSnapshot = given[1].snapshot
    BY <1>1, <1>2, <2>1 DEF HasSnapshot
  <2>5. HasConn' = HasConn
    BY <1>1, <1>2, <1>3, <1>6 DEF HasConn
  <2>6. QED
    BY <2>2, <2>3, <2>4, <2>5
<1>9. ASSUME NEW s \in Conns, Of(frame, s), Of(buffer, s), receiving = s
      PROVE  Of(frame', s) /\ Of(buffer', s)
  BY <1>3, <1>6, <1>9, NoEvents
<1>10. ASSUME NEW s \in Conns, NEW k \in Nat, NEW m \in Nat, Follows(s, k, m) PROVE Follows(s, k, m)'
  <2>1. /\ Len(<<>>) = 0 /\ Len(given) \in Nat /\ Len(wire[s]) \in Nat /\ Len(sending[s]) \in Nat
        /\ Len(subscription[s]) \in Nat
    BY LineNumbers
  <2>2. PICK g \in Nat : g = Len(given)
    BY <2>1
  <2>3. k + 0 + 0 = k /\ k + 0 = k /\ k + 0 + 0 + g = k + g /\ k + 0 + g = k + g /\ k + 0 + g + 0 = k + g /\ 0 + 0 + g = 0 + g + 0
    OBVIOUS
  <2>4. Total(s)' = Total(s)
    BY <1>1, <1>2, <1>3, <2>1, <2>2, <2>3 DEF Total, StreamRests
  <2>5. /\ Run(given, s, k, m) /\ Run(wire[s], s, k + g, m) /\ Run(sending[s], s, k + g + Len(wire[s]), m)
        /\ serving[s] \in {"get", "send"} => Run(subscription[s], s, k + g + Len(wire[s]) + Len(sending[s]), m)
    BY <1>2, <1>10, <2>1, <2>2, <2>3 DEF Follows, Line
  <2>6. Line(s, k, m)'
    <3>1. /\ Run(frame', s, k, m) /\ Run(buffer', s, k + Len(frame'), m)
          /\ Run(given', s, k + Len(frame') + Len(buffer'), m)
          /\ Run(wire'[s], s, k + Len(frame') + Len(buffer') + Len(given'), m)
          /\ Run(sending'[s], s, k + Len(frame') + Len(buffer') + Len(given') + Len(wire'[s]), m)
          /\ serving'[s] \in {"get", "send"} =>
               Run(subscription'[s], s, k + Len(frame') + Len(buffer') + Len(given') + Len(wire'[s]) + Len(sending'[s]), m)
      <4>1. Run(<<>>, s, k, m) /\ Run(<<>>, s, k + g, m)
        BY NoEvents DEF Run
      <4>2. QED
        BY <1>1, <1>3, <2>1, <2>2, <2>3, <2>5, <4>1 DEF StreamRests
    <3>2. QED
      BY <3>1 DEF Line, Run
  <2>7. QED
    BY <1>1, <1>10, <2>4, <2>6 DEF Follows, StreamRests
<1>11. QED
  BY <1>1, <1>2, <1>5, <1>7, <1>8, <1>9, <1>10, EventsMoves, ServicesAssumption

LEMMA EventsTakeLine == EventsInv /\ Events!TakeLine => EventsInv'
<1> SUFFICES ASSUME EventsInv, Events!TakeLine PROVE EventsInv'
  OBVIOUS
<1>1. /\ StreamRests /\ UNCHANGED <<backlog, near, far, unused, socket, last, receiving, given, disturbed, source>>
      /\ receiving # None /\ frame = <<>> /\ buffer # <<>> /\ given = <<>> /\ given' = <<>>
      /\ frame' = <<Head(buffer)>> /\ buffer' = Tail(buffer)
  BY DEF Events!TakeLine, Events!Reading, Events!Quiet, Events!Nothing, Events!lifeVars, Events!socketVars,
     Events!streamVars, StreamRests
<1>2. PICK q \in Seq(EventRecords) : q = buffer
  BY DEF EventsInv, ReaderTypes
<1>3. PICK e \in EventRecords : e = Head(q) /\ e = q[1]
  BY <1>1, <1>2, TailEvents
<1>4. PICK r \in Seq(EventRecords) : r = Tail(q)
  BY <1>1, <1>2, TailEvents
<1>5. frame' = <<e>> /\ buffer' = r /\ q # <<>>
  BY <1>1, <1>2, <1>3, <1>4
<1>6. /\ <<e>> \in Seq(EventRecords) /\ Len(<<e>>) = 1 /\ <<e>>[1] = e /\ <<e>> # <<>>
      /\ Len(q) >= 1 /\ Len(r) = Len(q) - 1 /\ Len(q) \in Nat
      /\ PlainTail(q) => Plain(r)
      /\ \A s : Of(q, s) => Of(r, s) /\ e.conn = s
      /\ \A s, m : \A k \in Int : Run(q, s, k, m) => Run(<<e>>, s, k, m) /\ Run(r, s, k + 1, m)
  <2>1. <<e>> \in Seq(EventRecords) /\ Len(<<e>>) = 1 /\ <<e>>[1] = e /\ <<e>> # <<>>
    BY OneEvent
  <2>2. /\ Len(q) >= 1 /\ Len(Tail(q)) = Len(q) - 1
        /\ PlainTail(q) => Plain(Tail(q))
        /\ \A s : Of(q, s) => Of(Tail(q), s) /\ Head(q).conn = s
        /\ \A s, m : \A k \in Int : Run(q, s, k, m) => Run(<<Head(q)>>, s, k, m) /\ Run(Tail(q), s, k + 1, m)
    BY <1>5, TailEvents
  <2>3. Len(q) \in Nat
    OBVIOUS
  <2>4. QED
    BY <1>3, <1>4, <2>1, <2>2, <2>3
<1>7. ReaderTypes'
  BY <1>1, <1>4, <1>5, <1>6 DEF EventsInv, ReaderTypes
<1>8. Of(q, e.conn) /\ PlainTail(q) /\ (e.snapshot => e.conn = receiving)
  <2>1. \A i \in 1 .. Len(q) : q[i].conn = q[1].conn
    <3>1. 1 \in 1 .. Len(q)
      BY <1>6
    <3>2. QED
      BY <1>2, <3>1 DEF EventsInv, ReaderInv
  <2>2. QED
    BY <1>2, <1>3, <1>5, <2>1 DEF EventsInv, ReaderInv, Of
<1>9. Of(r, e.conn) /\ Plain(r)
  BY <1>6, <1>8
<1>10. ReaderInv'
  <2>1. /\ Of(given', receiving') /\ PlainTail(given') /\ PlainTail(buffer') /\ Plain(buffer') /\ Of(buffer', frame'[1].conn)
        /\ \A i, j \in 1 .. Len(buffer') : buffer'[i].conn = buffer'[j].conn
    <3>1. Of(given', receiving') /\ PlainTail(given')
      BY <1>1, NoEvents
    <3>2. frame'[1] = e
      BY <1>5, <1>6
    <3>3. Plain(buffer') /\ Of(buffer', frame'[1].conn)
      BY <1>5, <1>9, <3>2
    <3>4. PlainTail(r)
      <4>1. \A i \in 2 .. Len(r) : i \in 1 .. Len(r)
        BY <1>6
      <4>2. QED
        BY <1>9, <4>1 DEF Plain, PlainTail
    <3>5. \A i, j \in 1 .. Len(r) : r[i].conn = r[j].conn
      BY <1>9 DEF Of
    <3>6. QED
      BY <1>5, <3>1, <3>3, <3>4, <3>5
  <2>2. buffer' # <<>> => ~buffer'[1].snapshot
    <3>1. r # <<>> => 1 \in 1 .. Len(r)
      <4>1. r # <<>> => Len(r) >= 1 /\ Len(r) \in Nat
        BY TailEvents
      <4>2. QED
        BY <4>1
    <3>2. QED
      BY <1>5, <1>9, <3>1 DEF Plain
  <2>3. QED
    BY <1>1, <1>5, <1>6, <1>8, <2>1, <2>2 DEF ReaderInv, Of, Plain, PlainTail
<1>11. HasAny /\ HasAny' /\ HasSnapshot' = HasSnapshot /\ HasConn' = HasConn
  BY <1>1, <1>2, <1>3, <1>5, <1>6 DEF HasAny, HasSnapshot, HasConn
<1>12. ASSUME NEW s \in Conns, Of(frame, s), Of(buffer, s), receiving = s
      PROVE  Of(frame', s) /\ Of(buffer', s)
  <2>1. Of(r, s) /\ e.conn = s
    BY <1>2, <1>6, <1>12
  <2>2. QED
    BY <1>5, <2>1, OneEvent
<1>13. ASSUME NEW s \in Conns, NEW k \in Nat, NEW m \in Nat, Follows(s, k, m) PROVE Follows(s, k, m)'
  <2>1. /\ Len(<<>>) = 0 /\ Len(wire[s]) \in Nat /\ Len(sending[s]) \in Nat
        /\ Len(subscription[s]) \in Nat
    BY LineNumbers
  <2>2. PICK g \in Nat : g = Len(r) /\ Len(q) = g + 1
    BY <1>6
  <2>3. k + 0 = k /\ k + 0 + (g + 1) = k + 1 + g /\ k + 0 + (g + 1) + 0 = k + 1 + g /\ k + 1 + g + 0 = k + 1 + g
        /\ 0 + (g + 1) + 0 = 1 + g + 0 /\ k \in Int
    OBVIOUS
  <2>4. Total(s)' = Total(s)
    BY <1>1, <1>2, <1>5, <1>6, <2>1, <2>2, <2>3 DEF Total, StreamRests
  <2>5. /\ Run(q, s, k, m) /\ Run(wire[s], s, k + 1 + g, m) /\ Run(sending[s], s, k + 1 + g + Len(wire[s]), m)
        /\ serving[s] \in {"get", "send"} => Run(subscription[s], s, k + 1 + g + Len(wire[s]) + Len(sending[s]), m)
    BY <1>1, <1>2, <1>13, <2>1, <2>2, <2>3 DEF Follows, Line
  <2>6. Line(s, k, m)'
    <3>1. /\ Run(frame', s, k, m) /\ Run(buffer', s, k + Len(frame'), m)
          /\ Run(given', s, k + Len(frame') + Len(buffer'), m)
          /\ Run(wire'[s], s, k + Len(frame') + Len(buffer') + Len(given'), m)
          /\ Run(sending'[s], s, k + Len(frame') + Len(buffer') + Len(given') + Len(wire'[s]), m)
          /\ serving'[s] \in {"get", "send"} =>
               Run(subscription'[s], s, k + Len(frame') + Len(buffer') + Len(given') + Len(wire'[s]) + Len(sending'[s]), m)
      <4>1. Run(<<>>, s, k + 1 + g, m)
        BY NoEvents DEF Run
      <4>2. Run(<<e>>, s, k, m) /\ Run(r, s, k + 1, m)
        BY <1>6, <2>3, <2>5
      <4>3. QED
        BY <1>1, <1>5, <1>6, <2>1, <2>2, <2>3, <2>5, <4>1, <4>2 DEF StreamRests
    <3>2. QED
      BY <3>1 DEF Line, Run
  <2>7. QED
    BY <1>1, <1>13, <2>4, <2>6 DEF Follows, StreamRests
<1>14. QED
  BY <1>1, <1>7, <1>10, <1>11, <1>12, <1>13, EventsMoves

\* recv() on a connection that still holds something.
LEMMA EventsRecv == EventsInv /\ Events!Recv => EventsInv'
<1> SUFFICES ASSUME EventsInv, Events!Recv PROVE EventsInv'
  OBVIOUS
<1>1. /\ receiving # None /\ frame = <<>> /\ buffer = <<>> /\ given = <<>>
      /\ UNCHANGED <<stopEvent, stage, acceptor, admitting, backlog, clients, serving, near, unused>>
      /\ UNCHANGED <<latest, closed, subscription, sending, lossy, frame, disturbed, source>>
  BY DEF Events!Recv, Events!Reading, Events!Nothing, Events!lifeVars
<1>2. CASE /\ Events!Discard(receiving) /\ receiving' = None /\ UNCHANGED <<wire, given>>
  <2>1. StreamRests /\ frame' = <<>> /\ given' = <<>>
    BY <1>1, <1>2 DEF StreamRests
  <2>2. QED
    BY <1>1, <1>2, <2>1, EventsDiscards
<1>3. CASE /\ wire[receiving] # <<>> /\ given' = wire[receiving]
           /\ wire' = [wire EXCEPT ![receiving] = <<>>]
           /\ UNCHANGED <<far, socket, buffer, last, receiving>>
  <2>1. PICK s \in Conns : receiving = s
    BY <1>1 DEF EventsInv, ReaderTypes
  <2>2. /\ wire[s] # <<>> /\ given' = wire[s] /\ receiving' = s /\ frame' = <<>> /\ buffer' = <<>>
        /\ wire' = [wire EXCEPT ![s] = <<>>]
    BY <1>1, <1>3, <2>1
  <2>3. /\ wire \in [Conns -> Seq(EventRecords)] /\ <<>> \in Seq(EventRecords) /\ StreamInv(s)
        /\ wire[s] \in Seq(EventRecords)
    BY DEF EventsInv, StreamTypes
  <2>4. /\ wire' \in [Conns -> Seq(EventRecords)] /\ wire'[s] = <<>>
        /\ \A t \in Conns \ {s} : wire'[t] = wire[t]
    BY <2>2, <2>3
  <2>5. ServerInv' /\ unused' = unused /\ (stage' = "new" => ~closed')
    <3>1. far' \subseteq far
      BY <1>3
    <3>2. QED
      BY <1>1, <3>1, ClientHangs DEF Hangs, EventsInv
  <2>6. StreamTypes' /\ ReaderTypes'
    BY <1>1, <1>3, <2>1, <2>2, <2>3, <2>4 DEF EventsInv, StreamTypes, ReaderTypes
  <2>7. \A t \in unused' : receiving' # t /\ socket' # t
    BY <1>3, <2>5 DEF EventsInv
  <2>8. \A t \in Conns : Waits(t)' <=> Waits(t)
    BY <1>1, <1>3 DEF Waits, Fresh
  <2>9. ~Waits(s)
    BY <2>2, <2>3 DEF StreamInv
  <2>10. ASSUME NEW t \in Conns PROVE StreamInv(t)'
    <3>1. CASE t = s
      <4>1. 0 <= WireCapacity /\ Len(<<>>) = 0
        BY ServicesAssumption
      <4>2. QED
        BY <1>1, <1>3, <2>3, <2>4, <2>8, <2>9, <3>1, <4>1, NoEvents DEF StreamInv, Of, Plain, PlainTail
    <3>2. CASE t # s
      <4>1. wire'[t] = wire[t] /\ StreamInv(t)
        BY <2>4, <3>2 DEF EventsInv
      <4>2. QED
        BY <1>1, <1>3, <2>8, <4>1 DEF StreamInv, Of, Plain, PlainTail
    <3>3. QED
      BY <3>1, <3>2
  <2>11. ASSUME NEW t \in Conns, t # s PROVE Unread(t)' <=> Unread(t)
    BY <1>1, <1>3, <2>4, <2>11 DEF Unread
  <2>12. PICK e \in EventRecords : e = wire[s][1] /\ e.conn = s /\ e.snapshot \in BOOLEAN
    <3>1. Len(wire[s]) >= 1 /\ Len(wire[s]) \in Nat
      BY <2>2, <2>3, TailEvents
    <3>2. 1 \in 1 .. Len(wire[s])
      BY <3>1
    <3>3. wire[s][1] \in EventRecords
      BY <2>3, <3>2
    <3>4. wire[s][1].conn = s
      BY <2>3, <3>2 DEF StreamInv, Of
    <3>5. QED
      BY <3>3, <3>4 DEF EventRecords
  <2>13. Of(given', s) /\ PlainTail(given') /\ given' # <<>>
    BY <2>2, <2>3 DEF StreamInv
  <2>14. ReaderInv'
    <3>1. \A i, j \in 1 .. Len(buffer') : buffer'[i].conn = buffer'[j].conn
      BY <2>2, NoEvents
    <3>2. PlainTail(buffer') /\ receiving' # None
      BY <1>1, <1>3, <2>2, NoEvents
    <3>3. QED
      BY <2>2, <2>13, <3>1, <3>2 DEF ReaderInv, Of, PlainTail
  <2>15. HasAny' /\ HasSnapshot' = e.snapshot /\ HasConn' = s /\ ~HasSnapshot
    BY <1>1, <2>2, <2>12, <2>13 DEF HasAny, HasSnapshot, HasConn
  <2>16. Unread(s) = e.snapshot
    BY <2>2, <2>12 DEF Unread
  <2>17. SourceInv'
    <3>1. last' # None /\ receiving' # None => receiving' = socket'
      BY <1>3 DEF EventsInv, SourceInv
    <3>2. ASSUME last' # None, ~e.snapshot PROVE s = source'
      <4>1. socket = s
        BY <1>1, <1>3, <2>1, <3>2 DEF EventsInv, SourceInv
      <4>2. QED
        BY <1>1, <1>3, <2>15, <2>16, <3>2, <4>1 DEF EventsInv, SourceInv
    <3>3. ASSUME NEW t \in Conns, last' # None, socket' = t, source' # t PROVE HasSnapshot' \/ Unread(t)'
      <4>1. t = s
        BY <1>1, <1>3, <2>1, <3>3 DEF EventsInv, SourceInv
      <4>2. HasSnapshot'
        BY <3>2, <3>3, <4>1, <2>15
      <4>3. QED
        BY <4>2
    <3>4. ASSUME NEW t \in Conns, receiving' # None, socket' = t, receiving' # t PROVE Unread(t)'
      <4>1. t # s /\ Unread(t)
        BY <1>1, <1>3, <2>1, <2>2, <3>4 DEF EventsInv, SourceInv
      <4>2. QED
        BY <2>11, <4>1
    <3>5. QED
      BY <2>15, <3>1, <3>2, <3>3, <3>4 DEF SourceInv
  <2>18. OrderInv'
    <3>1. ASSUME NEW k \in Nat, NEW m \in Nat, Follows(s, k, m) PROVE Follows(s, k, m)'
      <4>1. PICK g \in Nat : g = Len(wire[s])
        BY LineNumbers
      <4>2. Len(<<>>) = 0 /\ Len(sending[s]) \in Nat /\ Len(subscription[s]) \in Nat
        BY LineNumbers
      <4>3. /\ k + 0 = k /\ k + 0 + 0 = k /\ k + 0 + 0 + 0 = k /\ k + 0 + 0 + g = k + g
            /\ k + 0 + 0 + 0 + g = k + g /\ k + 0 + 0 + g + 0 = k + g
            /\ 0 + 0 + g + 0 = 0 + 0 + 0 + g
        OBVIOUS
      <4>4. Total(s)' = Total(s)
        BY <1>1, <2>2, <2>4, <4>1, <4>2, <4>3 DEF Total
      <4>5. /\ Run(wire[s], s, k, m) /\ Run(sending[s], s, k + g, m)
            /\ serving[s] \in {"get", "send"} => Run(subscription[s], s, k + g + Len(sending[s]), m)
        BY <1>1, <3>1, <4>1, <4>2, <4>3 DEF Follows, Line
      <4>6. Line(s, k, m)'
        <5>1. /\ Run(frame', s, k, m) /\ Run(buffer', s, k + Len(frame'), m)
              /\ Run(given', s, k + Len(frame') + Len(buffer'), m)
              /\ Run(wire'[s], s, k + Len(frame') + Len(buffer') + Len(given'), m)
              /\ Run(sending'[s], s, k + Len(frame') + Len(buffer') + Len(given') + Len(wire'[s]), m)
              /\ serving'[s] \in {"get", "send"} =>
                   Run(subscription'[s], s, k + Len(frame') + Len(buffer') + Len(given') + Len(wire'[s]) + Len(sending'[s]), m)
          <6>1. Run(<<>>, s, k, m) /\ Run(<<>>, s, k + g, m)
            BY NoEvents DEF Run
          <6>2. QED
            BY <1>1, <1>3, <2>2, <2>4, <4>1, <4>2, <4>3, <4>5, <6>1
        <5>2. QED
          BY <5>1 DEF Line, Run
      <4>7. QED
        BY <1>1, <1>3, <3>1, <4>4, <4>6 DEF Follows
    <3>2. ASSUME OrderAt(s) PROVE OrderAt(s)'
      <4>1. s \notin lossy' => \E k, m \in Nat : Follows(s, k, m)'
        BY <1>1, <3>1, <3>2 DEF OrderAt
      <4>2. Of(frame', s) /\ Of(buffer', s) /\ ~Waits(s)' /\ receiving' = s
        BY <2>2, <2>8, <2>9, NoEvents
      <4>3. QED
        BY <4>1, <4>2 DEF OrderAt, Of
    <3>3. ASSUME ~disturbed' PROVE socket' = s /\ OrderAt(s)
      <4>1. socket # None /\ socket \in Conns
        BY <1>1, <1>3, <3>3 DEF EventsInv, OrderInv, ReaderTypes
      <4>2. QED
        BY <1>1, <1>3, <2>1, <3>3, <4>1 DEF EventsInv, OrderInv, OrderAt
    <3>4. QED
      BY <3>2, <3>3, ServicesAssumption DEF OrderInv
  <2>19. QED
    BY <2>5, <2>6, <2>7, <2>10, <2>14, <2>17, <2>18 DEF EventsInv
<1>4. QED
  BY <1>2, <1>3 DEF Events!Recv, Events!Nothing

LEMMA EventsRefuses == EventsInv /\ Events!Refuses => EventsInv'
<1> SUFFICES ASSUME EventsInv, Events!Refuses PROVE EventsInv'
  OBVIOUS
<1>1. /\ StreamRests /\ UNCHANGED <<backlog, near, unused, given, disturbed, source>>
      /\ receiving # None /\ frame # <<>> /\ Events!Discard(receiving) /\ receiving' = None /\ frame' = <<>>
  BY DEF Events!Refuses, Events!Reading, Events!Quiet, Events!Nothing, Events!lifeVars, Events!streamVars, StreamRests
<1>2. given = <<>> /\ given' = <<>>
  BY <1>1 DEF EventsInv, ReaderInv
<1>3. QED
  BY <1>1, <1>2, EventsDiscards

\* Returning an event that is in order.
LEMMA EventsReturns == EventsInv /\ Events!Returns => EventsInv'
<1> SUFFICES ASSUME EventsInv, Events!Returns PROVE EventsInv'
  OBVIOUS
<1> DEFINE first == frame[1]
<1>1. /\ StreamRests /\ UNCHANGED <<backlog, near, far, unused, socket, buffer, given, disturbed>>
      /\ receiving # None /\ frame # <<>>
      /\ IF last = None THEN first.snapshot ELSE ~first.snapshot /\ first.n = last + 1
      /\ last' = first.n /\ source' = IF first.snapshot THEN first.conn ELSE source
      /\ receiving' = None /\ frame' = <<>>
  BY DEF Events!Returns, Events!Reading, Events!Quiet, Events!Nothing, Events!InOrder, Events!lifeVars,
     Events!socketVars, Events!streamVars, StreamRests
<1>2. PICK e \in EventRecords : e = frame[1] /\ frame = <<e>>
  BY <1>1, ReadsOne
<1>3. PICK s \in Conns : receiving = s
  BY <1>1 DEF EventsInv, ReaderTypes
<1>4. /\ given = <<>> /\ given' = <<>> /\ Plain(buffer) /\ Of(buffer, e.conn)
      /\ e.snapshot => e.conn = s
      /\ e.conn \in Conns /\ e.n \in Nat /\ e.snapshot \in BOOLEAN
  BY <1>1, <1>2, <1>3 DEF EventsInv, ReaderInv, EventRecords
<1>5. /\ IF last = None THEN e.snapshot ELSE ~e.snapshot /\ e.n = last + 1
      /\ last' = e.n /\ source' = IF e.snapshot THEN e.conn ELSE source
      /\ last' # None
  BY <1>1, <1>2, <1>4, ServicesAssumption
<1>6. /\ ServerInv' /\ StreamTypes' /\ (stage' = "new" => ~closed') /\ unused' \subseteq unused
      /\ \A t \in Conns : StreamInv(t)' /\ (Unread(t)' <=> Unread(t)) /\ (Waits(t)' => Waits(t))
  BY <1>1, StreamKept
<1>7. <<>> \in Seq(EventRecords)
  OBVIOUS
<1>8. ReaderTypes' /\ \A t \in unused' : receiving' # t /\ socket' # t
  <2>1. last' \in Nat \cup {None} /\ source' \in Conns \cup {None}
    BY <1>4, <1>5 DEF EventsInv, ReaderTypes
  <2>2. ReaderTypes'
    BY <1>1, <1>7, <2>1 DEF EventsInv, ReaderTypes
  <2>3. ASSUME NEW t \in unused' PROVE receiving' # t /\ socket' # t
    <3>1. t \in unused /\ t \in Conns
      BY <1>1, <2>3 DEF EventsInv, ServerInv, ServerTypes
    <3>2. QED
      BY <1>1, <3>1, ServicesAssumption DEF EventsInv
  <2>4. QED
    BY <2>2, <2>3
<1>9. buffer # <<>> => ~buffer[1].snapshot /\ buffer[1].conn = e.conn
  BY <1>4, ReadsOne DEF Plain, Of
<1>10. ReaderInv'
  <2>1. Of(given', receiving') /\ PlainTail(given')
    BY <1>4, NoEvents
  <2>2. PlainTail(buffer') /\ \A i, j \in 1 .. Len(buffer') : buffer'[i].conn = buffer'[j].conn
    BY <1>1 DEF EventsInv, ReaderInv
  <2>3. QED
    BY <1>1, <1>4, <1>9, <2>1, <2>2 DEF ReaderInv, Of, Plain, PlainTail
<1>11. HasSnapshot = e.snapshot /\ HasConn = e.conn /\ HasAny
  BY <1>1, <1>2 DEF HasSnapshot, HasConn, HasAny
<1>12. /\ ~HasSnapshot'
       /\ HasAny' => HasConn' = e.conn
       /\ HasAny' <=> buffer # <<>>
  BY <1>1, <1>4, <1>9 DEF HasSnapshot, HasConn, HasAny
<1>13. SourceInv'
  <2>1. CASE e.snapshot
    <3>1. source' = s /\ e.conn = s
      BY <1>4, <1>5, <2>1
    <3>2. ASSUME NEW t \in Conns, socket' = t, source' # t PROVE Unread(t)'
      BY <1>1, <1>3, <1>6, <3>1, <3>2 DEF EventsInv, SourceInv
    <3>3. QED
      BY <1>1, <1>12, <3>1, <3>2 DEF SourceInv
  <2>2. CASE ~e.snapshot
    <3>1. last # None /\ source' = source
      BY <1>5, <2>2
    <3>2. e.conn = source
      BY <1>11, <2>2, <3>1 DEF EventsInv, SourceInv
    <3>3. ASSUME NEW t \in Conns, socket' = t, source' # t PROVE Unread(t)'
      BY <1>1, <1>6, <1>11, <2>2, <3>1, <3>3 DEF EventsInv, SourceInv
    <3>4. QED
      BY <1>1, <1>12, <3>1, <3>2, <3>3 DEF SourceInv
  <2>3. QED
    BY <1>4, <2>1, <2>2
<1>14. OrderInv'
  <2>1. ASSUME ~disturbed' PROVE socket' = s /\ OrderAt(s)
    <3>1. socket # None /\ socket \in Conns
      BY <1>1, <2>1 DEF EventsInv, OrderInv, ReaderTypes
    <3>2. QED
      BY <1>1, <1>3, <2>1, <3>1 DEF EventsInv, OrderInv, OrderAt
  <2>2. ASSUME NEW k \in Nat, NEW m \in Nat, Follows(s, k, m) PROVE Follows(s, k + 1, m)'
    <3>1. /\ Len(<<>>) = 0 /\ Len(<<e>>) = 1 /\ Len(wire[s]) \in Nat /\ Len(sending[s]) \in Nat
          /\ Len(subscription[s]) \in Nat /\ Len(buffer) \in Nat /\ <<e>>[1] = e
      BY LineNumbers, OneEvent
    <3>2. PICK b \in Nat : b = Len(buffer)
      BY <3>1
    <3>3. /\ k + 1 + 0 = k + 1 /\ k + 1 + 0 + b = k + 1 + b /\ k + 1 + b + 0 = k + 1 + b
          /\ k + 1 + 0 + b + 0 = k + 1 + b /\ 1 \in 1 .. 1 /\ k + 1 - 1 = k
      OBVIOUS
    <3>4. /\ Run(<<e>>, s, k, m) /\ Run(buffer, s, k + 1, m) /\ Run(wire[s], s, k + 1 + b, m)
          /\ Run(sending[s], s, k + 1 + b + Len(wire[s]), m)
          /\ serving[s] \in {"get", "send"} => Run(subscription[s], s, k + 1 + b + Len(wire[s]) + Len(sending[s]), m)
      BY <1>2, <1>4, <2>2, <3>1, <3>2, <3>3 DEF Follows, Line
    <3>5. e = Events!Event(s, k, k = m)
      BY <3>1, <3>3, <3>4 DEF Run
    <3>6. e.n = k /\ e.snapshot = (k = m)
      BY <3>5 DEF Events!Event
    <3>7. m <= k
      <4>1. CASE last = None
        BY <2>2, <4>1 DEF Follows
      <4>2. CASE last # None
        <5>1. last \in Nat /\ k = last + 1 /\ m <= last
          BY <2>2, <4>2 DEF Follows, EventsInv, ReaderTypes
        <5>2. QED
          BY <5>1
      <4>3. QED
        BY <4>1, <4>2
    <3>8. Line(s, k + 1, m)'
      <4>1. /\ Run(frame', s, k + 1, m) /\ Run(buffer', s, k + 1 + Len(frame'), m)
            /\ Run(given', s, k + 1 + Len(frame') + Len(buffer'), m)
            /\ Run(wire'[s], s, k + 1 + Len(frame') + Len(buffer') + Len(given'), m)
            /\ Run(sending'[s], s, k + 1 + Len(frame') + Len(buffer') + Len(given') + Len(wire'[s]), m)
            /\ serving'[s] \in {"get", "send"} =>
                 Run(subscription'[s], s, k + 1 + Len(frame') + Len(buffer') + Len(given') + Len(wire'[s]) + Len(sending'[s]), m)
        <5>1. Run(<<>>, s, k + 1, m) /\ Run(<<>>, s, k + 1 + b, m)
          BY NoEvents DEF Run
        <5>2. QED
          BY <1>1, <1>4, <3>1, <3>2, <3>3, <3>4, <5>1 DEF StreamRests
      <4>2. QED
        BY <4>1 DEF Line, Run
    <3>9. last' # None /\ k + 1 = last' + 1 /\ m <= last'
      BY <1>5, <3>6, <3>7
    <3>10. k + 1 + Total(s)' = k + Total(s)
      <4>1. PICK w \in Nat : w = Len(wire[s])
        BY <3>1
      <4>2. PICK d \in Nat : d = Len(sending[s])
        BY <3>1
      <4>3. PICK u \in Nat : u = Len(subscription[s])
        BY <3>1
      <4>4. Total(s) = 1 + b + 0 + w + d + u
        BY <1>2, <1>4, <3>1, <3>2, <4>1, <4>2, <4>3 DEF Total
      <4>5. Total(s)' = 0 + b + 0 + w + d + u
        BY <1>1, <1>4, <3>1, <3>2, <4>1, <4>2, <4>3 DEF Total, StreamRests
      <4>6. QED
        BY <4>4, <4>5
    <3>11. QED
      BY <1>1, <2>2, <3>8, <3>9, <3>10 DEF Follows, StreamRests
  <2>3. ASSUME OrderAt(s) PROVE OrderAt(s)'
    <3>1. ASSUME s \notin lossy' PROVE \E k, m \in Nat : Follows(s, k, m)'
      <4>1. PICK k, m \in Nat : Follows(s, k, m)
        BY <1>1, <2>3, <3>1 DEF OrderAt, StreamRests
      <4>2. PICK j \in Nat : j = k + 1
        OBVIOUS
      <4>3. Follows(s, j, m)'
        BY <2>2, <4>1, <4>2
      <4>4. QED
        BY <4>3
    <3>2. Of(frame', s) /\ Of(buffer', s) /\ ~Waits(s)'
      BY <1>1, <1>6, <1>11, <2>3, NoEvents DEF OrderAt
    <3>3. QED
      BY <1>1, <3>1, <3>2 DEF OrderAt, Of
  <2>4. QED
    BY <2>1, <2>3, ServicesAssumption DEF OrderInv
<1>15. QED
  BY <1>6, <1>8, <1>10, <1>13, <1>14 DEF EventsInv

LEMMA EventsStep == EventsInv /\ Events!Next => EventsInv'
<1> SUFFICES ASSUME EventsInv, Events!Next PROVE EventsInv'
  OBVIOUS
<1>1. CASE Events!ServerStart \/ Events!ServerStop \/ Events!Accepting \/ Events!ServerBreaks
  BY <1>1, EventsServes
<1>2. CASE \E s \in Conns : Events!Worker(s)
  BY <1>2, EventsSubscribe, EventsGet, EventsSend, EventsUnserve DEF Events!Worker
<1>3. CASE Events!ReaderStep
  BY <1>3, EventsRecv, EventsExtend, EventsTakeLine, EventsReturns, EventsRefuses DEF Events!ReaderStep
<1>4. QED
  BY <1>1, <1>2, <1>3, EventsPublish, EventsReceive, EventsClose, EventsReconnect DEF Events!Next

\* Events are refused only for a loss, and never mixed.
LEMMA EventsSound == EventsInv => Events!TypeOK /\ Events!RefusedOnlyLoss /\ Events!NotMixed
<1> SUFFICES ASSUME EventsInv PROVE Events!TypeOK /\ Events!RefusedOnlyLoss /\ Events!NotMixed
  OBVIOUS
<1>1. Events!TypeOK
  <2>1. Events!Owned
    BY EventsServer DEF EventsInv, ServerInv
  <2>2. QED
    BY <2>1 DEF EventsInv, StreamTypes, ReaderTypes, StreamInv, Events!TypeOK
<1>2. Events!RefusedOnlyLoss
  <2> SUFFICES ASSUME receiving # None, frame # <<>>, ~Events!InOrder(frame[1]), ~disturbed
               PROVE  frame[1].conn \in lossy
    BY DEF Events!RefusedOnlyLoss, Events!Reading, Events!Nothing
  <2>1. PICK e \in EventRecords : e = frame[1] /\ frame = <<e>>
    BY ReadsOne
  <2>2. PICK s \in Conns : socket = s /\ OrderAt(s)
    BY DEF EventsInv, OrderInv, ReaderTypes
  <2>3. Len(<<e>>) = 1 /\ <<e>>[1] = e /\ 1 \in 1 .. 1
    BY OneEvent
  <2>4. e.conn = s
    BY <2>1, <2>2, <2>3 DEF OrderAt, Of
  <2>5. ASSUME s \notin lossy PROVE Events!InOrder(e)
    <3>1. PICK k, m \in Nat : Follows(s, k, m)
      BY <2>2, <2>5 DEF OrderAt
    <3>2. Run(<<e>>, s, k, m)
      BY <2>1, <3>1 DEF Follows, Line
    <3>3. e = Events!Event(s, k + 1 - 1, k + 1 - 1 = m)
      BY <2>3, <3>2 DEF Run
    <3>4. e.n = k /\ e.snapshot = (k = m)
      BY <3>3 DEF Events!Event
    <3>5. CASE last = None
      BY <3>1, <3>4, <3>5 DEF Follows, Events!InOrder
    <3>6. CASE last # None
      <4>1. last \in Nat /\ k = last + 1 /\ m <= last
        BY <3>1, <3>6 DEF Follows, EventsInv, ReaderTypes
      <4>2. k # m
        BY <4>1
      <4>3. QED
        BY <3>4, <3>6, <4>1, <4>2 DEF Events!InOrder
    <3>7. QED
      BY <3>5, <3>6
  <2>6. QED
    BY <2>1, <2>4, <2>5
<1>3. Events!NotMixed
  <2> SUFFICES ASSUME receiving # None, frame # <<>>, Events!InOrder(frame[1]), ~frame[1].snapshot
               PROVE  frame[1].conn = source /\ frame[1].n = last + 1
    BY DEF Events!NotMixed, Events!Reading, Events!Nothing
  <2>1. last # None /\ frame[1].n = last + 1
    BY DEF Events!InOrder
  <2>2. HasAny /\ ~HasSnapshot /\ HasConn = frame[1].conn
    BY DEF HasAny, HasSnapshot, HasConn
  <2>3. QED
    BY <2>1, <2>2 DEF EventsInv, SourceInv
<1>4. QED
  BY <1>1, <1>2, <1>3

(***************************************************************************)
(* A behaviour is about one of them.                                       *)
(***************************************************************************)
Services == {"api", "events", "files", "path"}

ServicesInv ==
  /\ service \in Services
  /\ service = "api" => ApiInv
  /\ service = "events" => EventsInv
  /\ service = "files" => FilesInv
  /\ service = "path" => PathInv

LEMMA ServicesBegin == MCInit => ServicesInv
<1> SUFFICES ASSUME MCInit PROVE ServicesInv
  OBVIOUS
<1>1. service \in Services /\ Api!Init /\ Events!Init /\ Files!Init /\ Path!Init
  BY DEF MCInit, Services
<1>2. QED
  BY <1>1, ApiBegins, EventsBegins, FilesBegins, PathBegins DEF ServicesInv

\* None of them becomes another.
LEMMA ServerSame ==
  /\ Server!Start \/ Server!StopSockets \/ Server!Exit \/ Server!AcceptEnds \/ Server!AcceptBreaks => service' = service
  /\ \A next : Server!StopBegin(next) => service' = service
  /\ \A over : Server!StopJoin(over) => service' = service
  /\ \A s : Server!Accept(s) \/ Server!Release(s) => service' = service
  /\ \A s, begin : Server!Admit(s, begin) \/ Server!Becomes(s, begin) => service' = service
<1>1. Server!Start \/ Server!StopSockets \/ Server!Exit \/ Server!AcceptEnds \/ Server!AcceptBreaks => service' = service
  BY DEF Server!Start, Server!StopSockets, Server!Exit, Server!AcceptEnds, Server!AcceptBreaks
<1>2. \A next : Server!StopBegin(next) => service' = service
  BY DEF Server!StopBegin
<1>3. \A over : Server!StopJoin(over) => service' = service
  BY DEF Server!StopJoin
<1>4. \A s : Server!Accept(s) \/ Server!Release(s) => service' = service
  BY DEF Server!Accept, Server!Release
<1>5. \A s, begin : Server!Admit(s, begin) \/ Server!Becomes(s, begin) => service' = service
  BY DEF Server!Admit, Server!Becomes
<1>6. QED
  BY <1>1, <1>2, <1>3, <1>4, <1>5

LEMMA ApiSame == Api!Next => service' = service
<1> SUFFICES ASSUME Api!Next PROVE service' = service
  OBVIOUS
<1>1. CASE Api!ServerStart \/ Api!ServerStop \/ Api!ServerAccepts \/ Api!Replaced
  BY <1>1, ServerSame, ApiServer DEF Api!ServerStart, Api!ServerStop, Api!ServerAccepts, Api!Acceptor, Api!Replaced
<1>2. CASE Api!Close
  BY <1>2 DEF Api!Close, Api!Unserved, Api!lifeVars
<1>3. ASSUME NEW s \in Conns, Api!Worker(s) PROVE service' = service
  <2>1. \A where : Api!Becomes(s, where) => service' = service
    BY ServerSame, ApiServer
  <2>2. Api!Release(s) => service' = service
    BY ServerSame, ApiServer
  <2>3. QED
    BY <1>3, <2>1, <2>2 DEF Api!Worker, Api!Receive, Api!Dispatch, Api!Respond, Api!ServerReleases
<1>4. ASSUME NEW c \in Callers, NEW op, Api!Caller(c) \/ Api!Calls(c, op) PROVE service' = service
  BY <1>4 DEF Api!Caller, Api!Calls, Api!Look, Api!Begin, Api!Unavailable, Api!SendCall, Api!ReadCall, Api!Check,
              Api!Unserved, Api!lifeVars
<1>5. QED
  BY <1>1, <1>2, <1>3, <1>4 DEF Api!Next

LEMMA EventsSame == Events!Next => service' = service
<1> SUFFICES ASSUME Events!Next PROVE service' = service
  OBVIOUS
<1>1. CASE Events!ServerStart \/ Events!ServerStop \/ Events!Accepting \/ Events!ServerBreaks
  BY <1>1, ServerSame, EventsServer
     DEF Events!ServerStart, Events!ServerStop, Events!Stopping, Events!CloseStream, Events!Accepting,
         Events!Acceptor, Events!ServerBreaks
<1>2. CASE Events!Publish
  BY <1>2 DEF Events!Publish, Events!serverVars, Events!lifeVars
<1>3. ASSUME NEW s \in Conns, Events!Worker(s) PROVE service' = service
  <2>1. \A where : Events!Becomes(s, where) => service' = service
    BY ServerSame, EventsServer
  <2>2. Events!Release(s) => service' = service
    BY ServerSame, EventsServer
  <2>3. QED
    BY <1>3, <2>1, <2>2 DEF Events!Worker, Events!Subscribe, Events!Get, Events!Send, Events!Unserve
<1>4. CASE Events!Receive \/ Events!ReaderStep \/ Events!Close \/ Events!Reconnect
  BY <1>4 DEF Events!Receive, Events!ReaderStep, Events!Close, Events!Reconnect, Events!Recv, Events!Extend,
              Events!TakeLine, Events!Returns, Events!Refuses, Events!Quiet, Events!lifeVars
<1>5. QED
  BY <1>1, <1>2, <1>3, <1>4 DEF Events!Next

LEMMA FilesSame == Files!Next => service' = service
<1> SUFFICES ASSUME Files!Next PROVE service' = service
  OBVIOUS
<1>1. CASE Files!ServerStart \/ Files!ServerStop \/ Files!Accepting \/ Files!ServerBreaks \/ Files!Replaced
  BY <1>1, ServerSame, FilesServer
     DEF Files!ServerStart, Files!ServerStop, Files!Stopping, Files!Accepting, Files!Acceptor, Files!ServerBreaks,
         Files!Replaced
<1>2. CASE Files!Recorder
  BY <1>2 DEF Files!Recorder, Files!Records, Files!serverVars, Files!lifeVars
<1>3. ASSUME NEW s \in Conns, Files!Worker(s) PROVE service' = service
  <2>1. \A where : Files!Becomes(s, where) => service' = service
    BY ServerSame, FilesServer
  <2>2. Files!Release(s) => service' = service
    BY ServerSame, FilesServer
  <2>3. QED
    BY <1>3, <2>1, <2>2 DEF Files!Worker, Files!Receive, Files!Look, Files!Scan, Files!Refuse, Files!OpenFile,
                            Files!Send, Files!ServerReleases
<1>4. ASSUME NEW s \in Conns, Files!Ask(s) \/ Files!Client(s) PROVE service' = service
  BY <1>4 DEF Files!Ask, Files!Client, Files!ReadHeader, Files!ReadBody, Files!Verify, Files!Served, Files!lifeVars
<1>5. QED
  BY <1>1, <1>2, <1>3, <1>4 DEF Files!Next

allVars == <<service, serverVars, socket, apiVars, eventVars, filesVars, pathVars>>

\* And a step of nobody changes nothing.
LEMMA ServicesRest == ServicesInv /\ UNCHANGED allVars => ServicesInv'
<1> SUFFICES ASSUME ServicesInv, UNCHANGED allVars PROVE ServicesInv'
  OBVIOUS
<1>1. /\ UNCHANGED <<service, stopEvent, stage, acceptor, admitting, backlog, clients, serving, near, far, unused, failures>>
      /\ UNCHANGED <<socket, daemon, offers, home, up, down, handling, hello, turn, call, ids, calls, refused>>
      /\ UNCHANGED <<latest, closed, subscription, sending, wire, buffer, last, receiving, given, frame, lossy,
                     disturbed, source>>
      /\ UNCHANGED <<recording, chunks, saw, left, header, body, download, expects, received>>
      /\ UNCHANGED <<name, place, bound, identity, before, listening, binds, crowded>>
  BY DEF allVars, serverVars, apiVars, eventVars, filesVars, pathVars
<1>2. ServerInv => ServerInv'
  BY <1>1, ClientHangs DEF Hangs
<1>3. ApiInv => ApiInv'
  <2>1. ApiTypes => ApiTypes'
    BY <1>1 DEF ApiTypes
  <2>2. SocketInv => SocketInv'
    BY <1>1 DEF SocketInv
  <2>3. BudgetInv => BudgetInv'
    <3>1. Budget' = Budget
      BY <1>1 DEF Budget, Rest
    <3>2. QED
      BY <1>1, <3>1 DEF BudgetInv
  <2>4. ASSUME NEW c \in Callers, CallInv(c) PROVE CallInv(c)'
    BY <1>1, <2>4 DEF CallInv
  <2>5. ASSUME NEW s \in Conns, ConnInv(s) PROVE ConnInv(s)'
    BY <1>1, <2>5 DEF ConnInv, Still, Reads, Asked, Handled, AnsweredTo, Replies, Asks, Api!Request
  <2>6. QED
    BY <1>2, <2>1, <2>2, <2>3, <2>4, <2>5 DEF ApiInv
<1>4. EventsInv => EventsInv'
  <2> SUFFICES ASSUME EventsInv PROVE EventsInv'
    OBVIOUS
  <2>1. StreamRests /\ ReaderRests /\ far' \subseteq far /\ UNCHANGED <<backlog, near, unused>>
    BY <1>1 DEF StreamRests, ReaderRests
  <2>2. /\ ServerInv' /\ StreamTypes' /\ (stage' = "new" => ~closed') /\ unused' \subseteq unused
        /\ \A s \in Conns : StreamInv(s)' /\ (Unread(s)' <=> Unread(s)) /\ (Waits(s)' => Waits(s))
    BY <2>1, StreamKept
  <2>3. ASSUME NEW s \in Conns, NEW k \in Nat, NEW m \in Nat, Follows(s, k, m) PROVE Follows(s, k, m)'
    BY <1>1, <2>3 DEF Follows, Line, Run, Total
  <2>4. QED
    BY <1>1, <2>1, <2>2, <2>3, EventsRests
<1>5. FilesInv => FilesInv'
  <2>1. FilesTypes => FilesTypes'
    BY <1>1 DEF FilesTypes
  <2>2. ASSUME NEW s \in Conns, FileInv(s) PROVE FileInv(s)'
    BY <1>1, <2>2 DEF FileInv, Promised, Offers, Fresh
  <2>3. QED
    BY <1>2, <2>1, <2>2 DEF FilesInv
<1>6. PathInv => PathInv'
  BY <1>1, PathRests
<1>7. QED
  BY <1>1, <1>3, <1>4, <1>5, <1>6 DEF ServicesInv

LEMMA ServicesStep == ServicesInv /\ [MCNext]_allVars => ServicesInv'
<1> SUFFICES ASSUME ServicesInv, [MCNext]_allVars PROVE ServicesInv'
  OBVIOUS
<1>1. CASE service = "api" /\ Api!Next
  <2>1. service' = "api" /\ ApiInv'
    BY <1>1, ApiStep, ApiSame DEF ServicesInv
  <2>2. QED
    BY <2>1 DEF ServicesInv, Services
<1>2. CASE service = "events" /\ Events!Next
  <2>1. service' = "events" /\ EventsInv'
    BY <1>2, EventsStep, EventsSame DEF ServicesInv
  <2>2. QED
    BY <2>1 DEF ServicesInv, Services
<1>3. CASE service = "files" /\ Files!Next
  <2>1. service' = "files" /\ FilesInv'
    BY <1>3, FilesStep, FilesSame DEF ServicesInv
  <2>2. QED
    BY <2>1 DEF ServicesInv, Services
<1>4. CASE service = "path" /\ Path!Next /\ service' = service
  <2>1. service' = "path" /\ PathInv'
    BY <1>4, PathStep DEF ServicesInv
  <2>2. QED
    BY <2>1 DEF ServicesInv, Services
<1>5. QED
  BY <1>1, <1>2, <1>3, <1>4, ServicesRest DEF MCNext

\* Every server owns its connections and admits no more clients than allowed; the API's
\* answers reach the caller that asked, and its sockets have an owner; events are returned
\* in order and of one subscription, and refused only for a loss; a recording that verified
\* is the whole one; and the path leads to the one daemon that is up.
THEOREM ServicesAreSound == MCSpec => []ServicesSound
<1>1. ServicesInv => ServicesSound
  BY ApiSound, EventsSound, FilesSound, PathSound DEF ServicesInv, ServicesSound
<1>2. MCInit => ServicesInv
  BY ServicesBegin
<1>3. ServicesInv /\ [MCNext]_allVars => ServicesInv'
  BY ServicesStep
<1>4. QED
  BY <1>1, <1>2, <1>3, PTL DEF MCSpec, allVars

=============================================================================

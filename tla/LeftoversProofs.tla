-------------------------- MODULE LeftoversProofs ---------------------------
(* Proofs about what a dead daemon leaves behind: agent servers and process  *)
(* trees are found and put away, and nobody else is.                         *)
EXTENDS Leftovers, TLAPS

-----------------------------------------------------------------------------
(* Agent servers.                                                            *)

TurnPlaces == {"idle", "ensure", "file", "health", "serving", "stop", "drop"}

ServersTyped ==
    /\ pidOf \in [Servers -> {"unborn", "server", "none", "stranger"}]
    /\ file \in [Servers -> BOOLEAN]
    /\ origin \in [Servers -> [who : Owners, inst : Nat, dir : Dirs \union {0}]]
    /\ inst \in [Owners -> Nat]
    /\ up \in [Owners -> BOOLEAN]
    /\ held \in [Owners -> 0..MaxServers]
    /\ tpc \in [Owners -> TurnPlaces]
    /\ tdir \in [Owners -> Dirs \union {0}]
    /\ tries \in [Owners -> 1..TurnTries]
    /\ tsrv \in [Owners -> 0..MaxServers]
    /\ cursor \subseteq Servers
    /\ unfiled \subseteq Servers
    /\ stuck \subseteq Servers

\* What an owner holds was started, and so was the server of its turn; a turn is served by a
\* server launched for the directory it asks for; a dead owner has neither.
Belongs ==
    \A o \in Owners :
        /\ held[o] # 0 => pidOf[held[o]] # "unborn"
        /\ tpc[o] \in {"file", "health", "serving", "stop", "drop"} =>
              tsrv[o] # 0 /\ pidOf[tsrv[o]] # "unborn"
        /\ tpc[o] \in {"file", "health", "serving"} => origin[tsrv[o]].dir = tdir[o]
        /\ tpc[o] = "file" => origin[tsrv[o]].who = o
        /\ up[o] = FALSE => tpc[o] = "idle" /\ held[o] = 0

\* A file names a server that was started, and no server is of a later daemon than this one.
Named ==
    \A s \in Servers :
        /\ file[s] = TRUE => pidOf[s] # "unborn"
        /\ origin[s].who = "daemon" => origin[s].inst <= inst["daemon"]

\* A recovering daemon has started nothing: what is left to look at is its predecessors'.
Recovering ==
    cursor # {} =>
        /\ up["daemon"] = TRUE /\ tpc["daemon"] = "idle" /\ held["daemon"] = 0
        /\ \A s \in cursor : /\ pidOf[s] # "unborn"
                             /\ origin[s].who = "daemon" => origin[s].inst # inst["daemon"]

\* A daemon's server that runs is its own, or still to be looked at, or has an excuse.
Accounted ==
    up["daemon"] = TRUE =>
        \A s \in Servers :
            Running(s) /\ origin[s].who = "daemon" /\ origin[s].inst # inst["daemon"] =>
                s \in cursor \union unfiled \union stuck

ServersInv ==
    ServersTyped /\ Belongs /\ Named /\ Recovering /\ Accounted /\ FileOutlivesServer

USE ServersAssumption DEF Owners, Servers, Running, TurnPlaces, turn, owner, serversVars

\* BeginTurn keeps the invariant.
LEMMA BeginTurnKeeps ==
    ASSUME ServersInv, NEW o \in Owners, BeginTurn(o)
    PROVE  ServersInv'
<1>1. (Named /\ Accounted)'
    BY DEF ServersInv, Named, Accounted, BeginTurn, TurnAt, Goes
<1>2. ServersTyped'
    BY SMTT(30) DEF ServersInv, ServersTyped, Belongs, Named, Recovering, Accounted,
      FileOutlivesServer, BeginTurn, TurnAt, Goes
<1>3. Belongs'
    BY DEF ServersInv, Belongs, BeginTurn, TurnAt, Goes
<1>4. Recovering'
    BY DEF ServersInv, Recovering, BeginTurn, TurnAt, Goes
<1>5. FileOutlivesServer'
    BY DEF ServersInv, FileOutlivesServer, BeginTurn, TurnAt, Goes
<1> QED BY <1>1, <1>2, <1>3, <1>4, <1>5 DEF ServersInv

\* EnsureServer keeps the invariant.
LEMMA EnsureServerKeeps ==
    ASSUME ServersInv, NEW o \in Owners, EnsureServer(o)
    PROVE  ServersInv'
<1>1. (Named /\ Accounted)'
    BY DEF ServersInv, Named, Accounted, EnsureServer, TurnAt, Serving, MatchesLaunch, Goes
<1>2. ServersTyped'
    BY SMTT(30) DEF ServersInv, ServersTyped, Belongs, Named, Recovering, Accounted,
      FileOutlivesServer, EnsureServer, TurnAt, Serving, MatchesLaunch, Goes
<1>3. Belongs'
    BY DEF ServersInv, Belongs, ServersTyped, Recovering, EnsureServer, TurnAt, Serving,
      MatchesLaunch, Goes
<1>4. Recovering'
    BY DEF ServersInv, Recovering, EnsureServer, TurnAt, Serving, MatchesLaunch, Goes
<1>5. FileOutlivesServer'
    BY DEF ServersInv, FileOutlivesServer, EnsureServer, TurnAt, Serving, MatchesLaunch, Goes
<1> QED BY <1>1, <1>2, <1>3, <1>4, <1>5 DEF ServersInv

\* StartServer keeps the invariant.
LEMMA StartServerKeeps ==
    ASSUME ServersInv, NEW o \in Owners, StartServer(o)
    PROVE  ServersInv'
<1>1. ServersTyped'
    BY SMTT(30) DEF ServersInv, ServersTyped, Named, Recovering, Accounted, FileOutlivesServer,
      StartServer, TurnAt, Serving, Goes
<1>2. Belongs'
    BY SMTT(30) DEF ServersInv, Belongs, ServersTyped, StartServer, TurnAt, Serving, Goes
<1>3. Named'
    BY DEF ServersInv, Named, ServersTyped, StartServer, TurnAt, Serving, Goes
<1>4. Recovering'
    BY DEF ServersInv, Recovering, StartServer, TurnAt, Serving, Goes
<1>5. Accounted'
    BY DEF ServersInv, Accounted, ServersTyped, StartServer, TurnAt, Serving, Goes
<1>6. FileOutlivesServer'
    BY DEF ServersInv, FileOutlivesServer, ServersTyped, StartServer, TurnAt, Serving, Goes
<1> QED BY <1>1, <1>2, <1>3, <1>4, <1>5, <1>6 DEF ServersInv

\* StartFails keeps the invariant.
LEMMA StartFailsKeeps ==
    ASSUME ServersInv, NEW o \in Owners, StartFails(o)
    PROVE  ServersInv'
<1>1. (Named /\ Accounted)'
    BY DEF ServersInv, Named, Accounted, StartFails, TurnAt, TurnOver, Serving, Goes
<1>2. ServersTyped'
    BY DEF ServersInv, ServersTyped, Accounted, StartFails, TurnAt, TurnOver, Serving, Goes
<1>3. Belongs'
    BY DEF ServersInv, Belongs, StartFails, TurnAt, TurnOver, Serving, Goes
<1>4. Recovering'
    BY DEF ServersInv, Recovering, StartFails, TurnAt, TurnOver, Serving, Goes
<1>5. FileOutlivesServer'
    BY DEF ServersInv, FileOutlivesServer, StartFails, TurnAt, TurnOver, Serving, Goes
<1> QED BY <1>1, <1>2, <1>3, <1>4, <1>5 DEF ServersInv

\* WriteServerPIDFile keeps the invariant.
LEMMA WriteServerPIDFileKeeps ==
    ASSUME ServersInv, NEW o \in Owners, WriteServerPIDFile(o)
    PROVE  ServersInv'
<1>1. ServersTyped'
  <2>1. (/\ pidOf \in [Servers -> {"unborn", "server", "none", "stranger"}]
         /\ origin \in [Servers -> [who : Owners, inst : Nat, dir : Dirs \union {0}]]
         /\ inst \in [Owners -> Nat]
         /\ up \in [Owners -> BOOLEAN]
         /\ held \in [Owners -> 0..MaxServers]
         /\ tdir \in [Owners -> Dirs \union {0}]
         /\ tries \in [Owners -> 1..TurnTries]
         /\ tsrv \in [Owners -> 0..MaxServers]
         /\ cursor \subseteq Servers
         /\ stuck \subseteq Servers)'
    BY DEF ServersInv, ServersTyped, WriteServerPIDFile, TurnAt, Goes
  <2>2. (file \in [Servers -> BOOLEAN])'
    <3>1. file \in [Servers -> BOOLEAN]
      BY DEF ServersInv, ServersTyped
    <3>2. file' = file \/ file' = [file EXCEPT ![tsrv[o]] = TRUE]
      BY DEF WriteServerPIDFile
    <3> QED BY <3>1, <3>2
  <2>3. (tpc \in [Owners -> TurnPlaces])'
    BY DEF ServersInv, ServersTyped, WriteServerPIDFile, TurnAt, Goes
  <2>4. (unfiled \subseteq Servers)'
    <3>1. tsrv[o] \in Servers
      BY DEF ServersInv, ServersTyped, Belongs, WriteServerPIDFile, TurnAt
    <3>2. unfiled' = unfiled \/ unfiled' = unfiled \union {tsrv[o]}
      BY DEF WriteServerPIDFile
    <3>3. unfiled \subseteq Servers
      BY DEF ServersInv, ServersTyped
    <3> QED BY <3>1, <3>2, <3>3
  <2> QED BY <2>1, <2>2, <2>3, <2>4 DEF ServersTyped
<1>2. Belongs'
    BY DEF ServersInv, Belongs, WriteServerPIDFile, TurnAt, Goes
<1>3. Named'
  <2>1. UNCHANGED <<pidOf, origin, inst>> /\ pidOf[tsrv[o]] # "unborn"
    BY DEF ServersInv, Belongs, WriteServerPIDFile, TurnAt
  <2>2. file' = file \/ file' = [file EXCEPT ![tsrv[o]] = TRUE]
    BY DEF WriteServerPIDFile
  <2>3. file \in [Servers -> BOOLEAN] /\ Named
    BY DEF ServersInv, ServersTyped
  <2> QED BY <2>1, <2>2, <2>3 DEF Named
<1>4. Recovering'
    BY DEF ServersInv, Recovering, WriteServerPIDFile, TurnAt, Goes
<1>5. Accounted'
    BY DEF ServersInv, Accounted, WriteServerPIDFile, TurnAt, Goes
<1>6. FileOutlivesServer'
    BY DEF ServersInv, FileOutlivesServer, ServersTyped, Recovering, WriteServerPIDFile, TurnAt,
      Goes
<1> QED BY <1>1, <1>2, <1>3, <1>4, <1>5, <1>6 DEF ServersInv

\* Healthy keeps the invariant.
LEMMA HealthyKeeps ==
    ASSUME ServersInv, NEW o \in Owners, Healthy(o)
    PROVE  ServersInv'
<1>1. (Named /\ Accounted)'
    BY DEF ServersInv, Named, Accounted, Healthy, TurnAt, Goes
<1>2. ServersTyped'
    BY DEF ServersInv, ServersTyped, Named, Recovering, Healthy, TurnAt, Goes
<1>3. Belongs'
    BY DEF ServersInv, Belongs, Healthy, TurnAt, Goes
<1>4. Recovering'
    BY DEF ServersInv, Recovering, Healthy, TurnAt, Goes
<1>5. FileOutlivesServer'
    BY DEF ServersInv, FileOutlivesServer, Healthy, TurnAt, Goes
<1> QED BY <1>1, <1>2, <1>3, <1>4, <1>5 DEF ServersInv

\* Unhealthy keeps the invariant.
LEMMA UnhealthyKeeps ==
    ASSUME ServersInv, NEW o \in Owners, Unhealthy(o)
    PROVE  ServersInv'
<1>1. (Named /\ Accounted)'
    BY DEF ServersInv, Named, Accounted, Unhealthy, TurnAt, Goes
<1>2. ServersTyped'
    BY DEF ServersInv, ServersTyped, Belongs, Named, Unhealthy, TurnAt, Goes
<1>3. Belongs'
    BY DEF ServersInv, Belongs, Unhealthy, TurnAt, Goes
<1>4. Recovering'
    BY DEF ServersInv, Recovering, Unhealthy, TurnAt, Goes
<1>5. FileOutlivesServer'
    BY DEF ServersInv, FileOutlivesServer, Unhealthy, TurnAt, Goes
<1> QED BY <1>1, <1>2, <1>3, <1>4, <1>5 DEF ServersInv

\* EndTurn keeps the invariant.
LEMMA EndTurnKeeps ==
    ASSUME ServersInv, NEW o \in Owners, EndTurn(o)
    PROVE  ServersInv'
<1>1. (Named /\ Accounted)'
    BY DEF ServersInv, Named, Accounted, EndTurn, TurnAt, TurnOver, Serving, Goes
<1>2. ServersTyped'
    BY DEF ServersInv, ServersTyped, Belongs, FileOutlivesServer, EndTurn, TurnAt, TurnOver,
      Serving, Goes
<1>3. Belongs'
    BY DEF ServersInv, Belongs, ServersTyped, Named, EndTurn, TurnAt, TurnOver, Serving, Goes
<1>4. Recovering'
    BY DEF ServersInv, Recovering, EndTurn, TurnAt, TurnOver, Serving, Goes
<1>5. FileOutlivesServer'
    BY DEF ServersInv, FileOutlivesServer, EndTurn, TurnAt, TurnOver, Serving, Goes
<1> QED BY <1>1, <1>2, <1>3, <1>4, <1>5 DEF ServersInv

\* CloseAgent keeps the invariant.
LEMMA CloseAgentKeeps ==
    ASSUME ServersInv, NEW o \in Owners, CloseAgent(o)
    PROVE  ServersInv'
<1>1. (Named /\ Accounted)'
    BY DEF ServersInv, Named, Accounted, CloseAgent, TurnAt, Serving, Goes
<1>2. ServersTyped'
    BY SMTT(30) DEF ServersInv, ServersTyped, Recovering, FileOutlivesServer, CloseAgent,
      TurnAt, Serving, Goes
<1>3. Belongs'
    BY DEF ServersInv, Belongs, ServersTyped, Recovering, Accounted, CloseAgent, TurnAt, Serving,
      Goes
<1>4. Recovering'
    BY DEF ServersInv, Recovering, CloseAgent, TurnAt, Serving, Goes
<1>5. FileOutlivesServer'
    BY DEF ServersInv, FileOutlivesServer, CloseAgent, TurnAt, Serving, Goes
<1> QED BY <1>1, <1>2, <1>3, <1>4, <1>5 DEF ServersInv

\* ShutdownConfirmed keeps the invariant.
LEMMA ShutdownConfirmedKeeps ==
    ASSUME ServersInv, NEW o \in Owners, ShutdownConfirmed(o)
    PROVE  ServersInv'
<1>1. ServersTyped'
    BY SMTT(30) DEF ServersInv, ServersTyped, Belongs, Named, Recovering, Accounted,
      FileOutlivesServer, ShutdownConfirmed, AfterShutdown, Serving, TurnOver, Goes
<1>2. Belongs'
    BY SMTT(30) DEF ServersInv, Belongs, ServersTyped, Named, Recovering, Accounted,
      FileOutlivesServer, ShutdownConfirmed, AfterShutdown, Serving, TurnOver, Goes
<1>3. Named'
    BY DEF ServersInv, Named, ShutdownConfirmed, AfterShutdown, Serving, TurnOver, Goes
<1>4. Recovering'
    BY DEF ServersInv, Recovering, ServersTyped, ShutdownConfirmed, AfterShutdown, Serving,
      TurnOver, Goes
<1>5. Accounted'
    BY DEF ServersInv, Accounted, ShutdownConfirmed, AfterShutdown, Serving, TurnOver, Goes
<1>6. FileOutlivesServer'
    BY DEF ServersInv, FileOutlivesServer, ServersTyped, ShutdownConfirmed, AfterShutdown, Serving,
      TurnOver, Goes
<1> QED BY <1>1, <1>2, <1>3, <1>4, <1>5, <1>6 DEF ServersInv

\* ShutdownGivesUp keeps the invariant.
LEMMA ShutdownGivesUpKeeps ==
    ASSUME ServersInv, NEW o \in Owners, ShutdownGivesUp(o)
    PROVE  ServersInv'
<1>1. ServersTyped'
  <2>1. (/\ pidOf \in [Servers -> {"unborn", "server", "none", "stranger"}]
         /\ origin \in [Servers -> [who : Owners, inst : Nat, dir : Dirs \union {0}]]
         /\ inst \in [Owners -> Nat]
         /\ up \in [Owners -> BOOLEAN]
         /\ cursor \subseteq Servers
         /\ unfiled \subseteq Servers)'
    BY DEF ServersInv, ServersTyped, ShutdownGivesUp, AfterShutdown, Serving, TurnOver, Goes,
        UnconfirmedFile
  <2>2. (file \in [Servers -> BOOLEAN])'
    BY DEF ServersInv, ServersTyped, ShutdownGivesUp, AfterShutdown, Serving, TurnOver, Goes,
        UnconfirmedFile
  <2>3. (held \in [Owners -> 0..MaxServers])'
    BY DEF ServersInv, ServersTyped, ShutdownGivesUp, AfterShutdown, Serving, TurnOver, Goes,
        UnconfirmedFile
  <2>4. (tpc \in [Owners -> TurnPlaces])'
    BY DEF ServersInv, ServersTyped, ShutdownGivesUp, AfterShutdown, Serving, TurnOver, Goes,
        UnconfirmedFile
  <2>5. (tdir \in [Owners -> Dirs \union {0}])'
    BY DEF ServersInv, ServersTyped, ShutdownGivesUp, AfterShutdown, Serving, TurnOver, Goes,
        UnconfirmedFile
  <2>6. (tries \in [Owners -> 1..TurnTries])'
    BY DEF ServersInv, ServersTyped, ShutdownGivesUp, AfterShutdown, Serving, TurnOver, Goes,
        UnconfirmedFile
  <2>7. (tsrv \in [Owners -> 0..MaxServers])'
    BY DEF ServersInv, ServersTyped, ShutdownGivesUp, AfterShutdown, Serving, TurnOver, Goes,
        UnconfirmedFile
  <2>8. (stuck \subseteq Servers)'
    <3>1. tsrv[o] \in Servers
      BY DEF ServersInv, ServersTyped, Belongs, ShutdownGivesUp, TurnAt, AfterShutdown
    <3>2. stuck' = stuck \union {tsrv[o]}
      BY DEF ShutdownGivesUp
    <3>3. stuck \subseteq Servers
      BY DEF ServersInv, ServersTyped
    <3> QED BY <3>1, <3>2, <3>3
  <2> QED BY <2>1, <2>2, <2>3, <2>4, <2>5, <2>6, <2>7, <2>8 DEF ServersTyped
<1>2. Belongs'
    BY SMTT(30) DEF ServersInv, Belongs, ServersTyped, Recovering, Accounted,
      FileOutlivesServer, ShutdownGivesUp, AfterShutdown, Serving, TurnOver, Goes, UnconfirmedFile
<1>3. Named'
    BY DEF ServersInv, Named, ShutdownGivesUp, AfterShutdown, Serving, TurnOver, Goes,
      UnconfirmedFile
<1>4. Recovering'
    BY DEF ServersInv, Recovering, ServersTyped, ShutdownGivesUp, AfterShutdown, Serving, TurnOver,
      Goes, UnconfirmedFile
<1>5. Accounted'
    BY DEF ServersInv, Accounted, ShutdownGivesUp, AfterShutdown, Serving, TurnOver, Goes,
      UnconfirmedFile
<1>6. FileOutlivesServer'
    BY DEF ServersInv, FileOutlivesServer, ServersTyped, ShutdownGivesUp, AfterShutdown, Serving,
      TurnOver, Goes, UnconfirmedFile
<1> QED BY <1>1, <1>2, <1>3, <1>4, <1>5, <1>6 DEF ServersInv

\* OwnerDies keeps the invariant.
LEMMA OwnerDiesKeeps ==
    ASSUME ServersInv, NEW o \in Owners, OwnerDies(o)
    PROVE  ServersInv'
<1>1. Named'
    BY DEF ServersInv, Named, OwnerDies, TurnOver, Serving, Goes
<1>2. ServersTyped'
  <2>1. (/\ pidOf \in [Servers -> {"unborn", "server", "none", "stranger"}]
         /\ file \in [Servers -> BOOLEAN]
         /\ origin \in [Servers -> [who : Owners, inst : Nat, dir : Dirs \union {0}]]
         /\ inst \in [Owners -> Nat]
         /\ stuck \subseteq Servers)'
    BY DEF ServersInv, ServersTyped, OwnerDies, TurnOver, Serving, Goes
  <2>2. (up \in [Owners -> BOOLEAN])'
    BY DEF ServersInv, ServersTyped, OwnerDies, TurnOver, Serving, Goes
  <2>3. (held \in [Owners -> 0..MaxServers])'
    BY DEF ServersInv, ServersTyped, OwnerDies, TurnOver, Serving, Goes
  <2>4. (tpc \in [Owners -> TurnPlaces])'
    BY DEF ServersInv, ServersTyped, OwnerDies, TurnOver, Serving, Goes
  <2>5. (tdir \in [Owners -> Dirs \union {0}])'
    BY DEF ServersInv, ServersTyped, OwnerDies, TurnOver, Serving, Goes
  <2>6. (tries \in [Owners -> 1..TurnTries])'
    BY DEF ServersInv, ServersTyped, OwnerDies, TurnOver, Serving, Goes
  <2>7. (tsrv \in [Owners -> 0..MaxServers])'
    BY DEF ServersInv, ServersTyped, OwnerDies, TurnOver, Serving, Goes
  <2>8. (cursor \subseteq Servers)'
    <3>1. cursor' = {} \/ cursor' = cursor
      BY DEF OwnerDies
    <3> QED BY <3>1 DEF ServersInv, ServersTyped
  <2>9. (unfiled \subseteq Servers)'
    <3>1. tpc[o] = "file" => tsrv[o] \in Servers
      BY DEF ServersInv, ServersTyped, Belongs
    <3>2. unfiled \subseteq Servers
      BY DEF ServersInv, ServersTyped
    <3>3. unfiled' = unfiled \/ (tpc[o] = "file" /\ unfiled' = unfiled \union {tsrv[o]})
      BY DEF OwnerDies
    <3> QED BY <3>1, <3>2, <3>3
  <2> QED BY <2>1, <2>2, <2>3, <2>4, <2>5, <2>6, <2>7, <2>8, <2>9 DEF ServersTyped
<1>3. Belongs'
    BY DEF ServersInv, Belongs, ServersTyped, OwnerDies, TurnOver, Serving, Goes
<1>4. Recovering'
    BY DEF ServersInv, Recovering, OwnerDies, TurnOver, Serving, Goes
<1>5. Accounted'
    BY DEF ServersInv, Accounted, ServersTyped, OwnerDies, TurnOver, Serving, Goes
<1>6. FileOutlivesServer'
    BY DEF ServersInv, FileOutlivesServer, OwnerDies, TurnOver, Serving, Goes
<1> QED BY <1>1, <1>2, <1>3, <1>4, <1>5, <1>6 DEF ServersInv

\* Transient keeps the invariant.
LEMMA TransientKeeps ==
    ASSUME ServersInv, NEW o \in Owners, NEW refused \in BOOLEAN, Transient(o, refused)
    PROVE  ServersInv'
<1>1. (Named /\ Accounted)'
    BY DEF ServersInv, Named, Accounted, Transient, TurnOver, Serving, Goes, TurnAt
<1>2. ServersTyped'
    BY DEF ServersInv, ServersTyped, Named, Recovering, Transient, TurnOver, Serving, Goes, TurnAt
<1>3. Belongs'
    BY SMTT(30) DEF ServersInv, Belongs, ServersTyped, Named, Recovering, Accounted,
      FileOutlivesServer, Transient, TurnOver, Serving, Goes, TurnAt
<1>4. Recovering'
    BY DEF ServersInv, Recovering, ServersTyped, Transient, TurnOver, Serving, Goes, TurnAt
<1>5. FileOutlivesServer'
    BY DEF ServersInv, FileOutlivesServer, ServersTyped, Transient, TurnOver, Serving, Goes, TurnAt
<1> QED BY <1>1, <1>2, <1>3, <1>4, <1>5 DEF ServersInv

\* ServerExits keeps the invariant.
LEMMA ServerExitsKeeps ==
    ASSUME ServersInv, NEW s \in Servers, ServerExits(s)
    PROVE  ServersInv'
<1>1. ServersTyped'
    BY DEF ServersInv, ServersTyped, ServerExits
<1>2. Belongs'
    BY DEF ServersInv, Belongs, ServerExits
<1>3. Named'
    BY DEF ServersInv, Named, ServerExits
<1>4. Recovering'
    BY DEF ServersInv, Recovering, ServerExits
<1>5. Accounted'
    BY DEF ServersInv, Accounted, ServerExits
<1>6. FileOutlivesServer'
    BY DEF ServersInv, FileOutlivesServer, ServerExits
<1> QED BY <1>1, <1>2, <1>3, <1>4, <1>5, <1>6 DEF ServersInv

\* PidTaken keeps the invariant.
LEMMA PidTakenKeeps ==
    ASSUME ServersInv, NEW s \in Servers, PidTaken(s)
    PROVE  ServersInv'
<1>1. ServersTyped'
    BY DEF ServersInv, ServersTyped, PidTaken, OwnerUp
<1>2. Belongs'
    BY DEF ServersInv, Belongs, PidTaken, OwnerUp
<1>3. Named'
    BY DEF ServersInv, Named, PidTaken, OwnerUp
<1>4. Recovering'
    BY DEF ServersInv, Recovering, PidTaken, OwnerUp
<1>5. Accounted'
    BY DEF ServersInv, Accounted, PidTaken, OwnerUp
<1>6. FileOutlivesServer'
    BY DEF ServersInv, FileOutlivesServer, PidTaken, OwnerUp
<1> QED BY <1>1, <1>2, <1>3, <1>4, <1>5, <1>6 DEF ServersInv

\* ReapOrphanedServer keeps the invariant.
LEMMA ReapOrphanedServerKeeps ==
    ASSUME ServersInv, NEW s \in Servers, ReapOrphanedServer(s)
    PROVE  ServersInv'
<1>1. ServersTyped'
  <2>1. (/\ origin \in [Servers -> [who : Owners, inst : Nat, dir : Dirs \union {0}]]
         /\ inst \in [Owners -> Nat]
         /\ up \in [Owners -> BOOLEAN]
         /\ held \in [Owners -> 0..MaxServers]
         /\ tdir \in [Owners -> Dirs \union {0}]
         /\ tries \in [Owners -> 1..TurnTries]
         /\ tsrv \in [Owners -> 0..MaxServers]
         /\ unfiled \subseteq Servers)'
    BY DEF ServersInv, ServersTyped, ReapOrphanedServer, StartMatches, SkipOrphan
  <2>2. (pidOf \in [Servers -> {"unborn", "server", "none", "stranger"}])'
    <3>1. pidOf' = pidOf \/ pidOf' = [pidOf EXCEPT ![s] = "none"]
      BY DEF ReapOrphanedServer
    <3> QED BY <3>1 DEF ServersInv, ServersTyped
  <2>3. (file \in [Servers -> BOOLEAN])'
    <3>1. file' = file \/ file' = [file EXCEPT ![s] = FALSE]
      BY DEF ReapOrphanedServer
    <3>2. file \in [Servers -> BOOLEAN]
      BY DEF ServersInv, ServersTyped
    <3> QED BY <3>1, <3>2
  <2>4. (tpc \in [Owners -> TurnPlaces])'
    BY DEF ServersInv, ServersTyped, ReapOrphanedServer, StartMatches, SkipOrphan
  <2>5. (cursor \subseteq Servers)'
    BY DEF ServersInv, ServersTyped, ReapOrphanedServer, StartMatches, SkipOrphan
  <2>6. (stuck \subseteq Servers)'
    <3>1. stuck' = stuck \/ stuck' = stuck \union {s}
      BY DEF ReapOrphanedServer
    <3>2. stuck \subseteq Servers
      BY DEF ServersInv, ServersTyped
    <3> QED BY <3>1, <3>2
  <2> QED BY <2>1, <2>2, <2>3, <2>4, <2>5, <2>6 DEF ServersTyped
<1>2. Belongs'
    BY SMTT(30) DEF ServersInv, Belongs, ServersTyped, Named, Recovering, Accounted,
      FileOutlivesServer, ReapOrphanedServer, StartMatches, SkipOrphan
<1>3. Named'
  <2>1. UNCHANGED <<origin, inst>>
    BY DEF ReapOrphanedServer
  <2>2. pidOf' = pidOf \/ pidOf' = [pidOf EXCEPT ![s] = "none"]
    BY DEF ReapOrphanedServer
  <2>3. file' = file \/ file' = [file EXCEPT ![s] = FALSE]
    BY DEF ReapOrphanedServer
  <2>4. pidOf \in [Servers -> {"unborn", "server", "none", "stranger"}] /\ file \in [Servers -> BOOLEAN]
    BY DEF ServersInv, ServersTyped
  <2>5. \A r \in Servers : (pidOf[r] # "unborn" => pidOf'[r] # "unborn") /\ (file'[r] = TRUE => file[r] = TRUE)
    BY <2>2, <2>3, <2>4
  <2> QED BY <2>1, <2>5 DEF ServersInv, Named
<1>4. Recovering'
    BY DEF ServersInv, Recovering, ServersTyped, Accounted, ReapOrphanedServer, StartMatches,
      SkipOrphan
<1>5. Accounted'
    BY SMTT(30) DEF ServersInv, Accounted, ServersTyped, Belongs, Named, Recovering,
      FileOutlivesServer, ReapOrphanedServer, StartMatches, SkipOrphan
<1>6. FileOutlivesServer'
    BY SMTT(30) DEF ServersInv, FileOutlivesServer, ServersTyped, Belongs, Named, Recovering,
      Accounted, ReapOrphanedServer, StartMatches, SkipOrphan
<1> QED BY <1>1, <1>2, <1>3, <1>4, <1>5, <1>6 DEF ServersInv

\* DaemonStarts keeps the invariant.
LEMMA DaemonStartsKeeps ==
    ASSUME ServersInv, DaemonStarts
    PROVE  ServersInv'
<1>1. FileOutlivesServer'
    BY DEF ServersInv, FileOutlivesServer, DaemonStarts
<1>2. ServersTyped'
    BY SMTT(30) DEF ServersInv, ServersTyped, Belongs, FileOutlivesServer, DaemonStarts
<1>3. Belongs'
    BY DEF ServersInv, Belongs, DaemonStarts
<1>4. Named'
    BY DEF ServersInv, Named, ServersTyped, DaemonStarts
<1>5. Recovering'
    BY DEF ServersInv, Recovering, ServersTyped, Belongs, Named, DaemonStarts
<1>6. Accounted'
    BY DEF ServersInv, Accounted, ServersTyped, Belongs, FileOutlivesServer, DaemonStarts
<1> QED BY <1>1, <1>2, <1>3, <1>4, <1>5, <1>6 DEF ServersInv

\* The invariant holds before any server was started.
LEMMA ServersInitially == ServersInit => ServersInv
<1> SUFFICES ASSUME ServersInit PROVE ServersInv
  OBVIOUS
<1>1. ServersTyped
  BY DEF ServersInit, ServersTyped
<1>2. Belongs /\ Named /\ Recovering /\ Accounted /\ FileOutlivesServer
  BY DEF ServersInit, Belongs, Named, Recovering, Accounted, FileOutlivesServer
<1> QED BY <1>1, <1>2 DEF ServersInv

\* A step of the process trees leaves the servers alone.
LEMMA ServersStay ==
    ASSUME ServersInv, UNCHANGED serversVars
    PROVE  ServersInv'
<1>1. ServersTyped' /\ Belongs' /\ Named'
  BY DEF ServersInv, ServersTyped, Belongs, Named
<1>2. Recovering' /\ Accounted' /\ FileOutlivesServer'
  BY DEF ServersInv, Recovering, Accounted, FileOutlivesServer
<1> QED BY <1>1, <1>2 DEF ServersInv

\* Every step of the servers keeps the invariant.
LEMMA ServersStep ==
    ASSUME ServersInv, ServersNext
    PROVE  ServersInv'
<1>1. ASSUME NEW o \in Owners,
             \/ BeginTurn(o) \/ EnsureServer(o) \/ StartServer(o) \/ StartFails(o) \/ WriteServerPIDFile(o)
             \/ Healthy(o) \/ Unhealthy(o) \/ EndTurn(o) \/ CloseAgent(o)
      PROVE  ServersInv'
  BY <1>1, BeginTurnKeeps, EnsureServerKeeps, StartServerKeeps, StartFailsKeeps, WriteServerPIDFileKeeps,
     HealthyKeeps, UnhealthyKeeps, EndTurnKeeps, CloseAgentKeeps
<1>2. ASSUME NEW o \in Owners, NEW refused \in BOOLEAN, Transient(o, refused) PROVE ServersInv'
  BY <1>2, TransientKeeps
<1>3. ASSUME NEW o \in Owners, ShutdownConfirmed(o) \/ ShutdownGivesUp(o) \/ OwnerDies(o) PROVE ServersInv'
  BY <1>3, ShutdownConfirmedKeeps, ShutdownGivesUpKeeps, OwnerDiesKeeps
<1>4. ASSUME NEW s \in Servers, ServerExits(s) \/ PidTaken(s) \/ ReapOrphanedServer(s) PROVE ServersInv'
  BY <1>4, ServerExitsKeeps, PidTakenKeeps, ReapOrphanedServerKeeps
<1>5. CASE DaemonStarts
  BY <1>5, DaemonStartsKeeps
<1> QED BY <1>1, <1>2, <1>3, <1>4, <1>5 DEF ServersNext

\* The invariant implies what the servers promise.
LEMMA ServersAreSafe == ServersInv => ServersSafe
<1> SUFFICES ASSUME ServersInv PROVE ServersSafe
  OBVIOUS
<1>1. ServersTypeOK
  BY DEF ServersInv, ServersTyped, ServersTypeOK
<1>2. PredecessorsAreGone
  BY DEF ServersInv, Accounted, PredecessorsAreGone
<1>3. ServedWhereAsked
  BY DEF ServersInv, Belongs, ServedWhereAsked
<1> QED BY <1>1, <1>2, <1>3 DEF ServersInv, ServersSafe

\* What a recovering daemon ends is an orphan.
ReapsAnOrphan == \A s \in cursor \ cursor' : pidOf'[s] # pidOf[s] => Running(s) /\ ~OwnerUp(s)

\* A recovering daemon ends orphans only: the files it looks at are of daemons before it, and it skips those of a wizard that lives.
LEMMA OnlyOrphansReaped ==
    ASSUME ServersInv, ServersNext
    PROVE  ReapsAnOrphan
<1>1. ASSUME UNCHANGED cursor PROVE ReapsAnOrphan
  BY <1>1 DEF ReapsAnOrphan
<1>2. ASSUME UNCHANGED pidOf PROVE ReapsAnOrphan
  BY <1>2 DEF ReapsAnOrphan
<1>3. ASSUME NEW o \in Owners,
             \/ BeginTurn(o) \/ EnsureServer(o) \/ StartServer(o) \/ StartFails(o) \/ WriteServerPIDFile(o)
             \/ Healthy(o) \/ Unhealthy(o) \/ EndTurn(o) \/ CloseAgent(o)
      PROVE  ReapsAnOrphan
  BY <1>1, <1>3 DEF BeginTurn, EnsureServer, StartServer, StartFails, WriteServerPIDFile,
     Healthy, Unhealthy, EndTurn, CloseAgent
<1>4. ASSUME NEW o \in Owners, NEW refused \in BOOLEAN, Transient(o, refused) PROVE ReapsAnOrphan
  BY <1>1, <1>4 DEF Transient
<1>5. ASSUME NEW o \in Owners, ShutdownConfirmed(o) \/ ShutdownGivesUp(o) PROVE ReapsAnOrphan
  BY <1>1, <1>5 DEF ShutdownConfirmed, ShutdownGivesUp
<1>6. ASSUME NEW o \in Owners, OwnerDies(o) PROVE ReapsAnOrphan
  BY <1>2, <1>6 DEF OwnerDies
<1>7. ASSUME NEW s \in Servers, ServerExits(s) \/ PidTaken(s) PROVE ReapsAnOrphan
  BY <1>1, <1>7 DEF ServerExits, PidTaken
<1>8. CASE DaemonStarts
  BY <1>2, <1>8 DEF DaemonStarts
<1>9. ASSUME NEW s \in Servers, ReapOrphanedServer(s) PROVE ReapsAnOrphan
  <2>1. s \in cursor /\ cursor' = cursor \ {s}
    BY <1>9 DEF ReapOrphanedServer
  <2>2. UNCHANGED pidOf \/ (~SkipOrphan(s) /\ Running(s))
    BY <1>9 DEF ReapOrphanedServer, StartMatches
  <2>3. origin[s].who \in {"daemon", "wizard"}
    BY DEF ServersInv, ServersTyped
  <2>4. ~SkipOrphan(s) => ~OwnerUp(s)
    BY <2>1, <2>3 DEF ServersInv, Recovering, SkipOrphan, OwnerUp
  <2> QED BY <2>1, <2>2, <2>4 DEF ReapsAnOrphan
<1> QED BY <1>3, <1>4, <1>5, <1>6, <1>7, <1>8, <1>9 DEF ServersNext

HIDE ServersAssumption DEF Owners, Servers, Running, TurnPlaces, turn, owner, serversVars

-----------------------------------------------------------------------------
(* Process trees.                                                            *)

Entries == [id : Ids, desc : SUBSET Rows, groups : SUBSET Pids]
Teardowns == [pid : Pids, id : Ids, desc : SUBSET Rows, groups : SUBSET Pids, phase : {"taken", "term"}]

\* The processes of commands that are alive.
Kin == {p \in Live : table[p].kin = TRUE}

TreesTyped ==
    /\ table \in [Pids -> Processes \union {Free}]
    /\ born \in 0..MaxBirths
    /\ commands \in 0..MaxCommands
    /\ tracked \in [Pids -> Entries \union {Free}]
    /\ records \in [Pids -> Entries \union {Free}]
    /\ shot # Free => /\ shot \in [id : {1}, todo : SUBSET Pids, found : {shot.found}, live : SUBSET Pids]
                      /\ \A l \in shot.todo : shot.found[l] \subseteq Rows
    /\ going \subseteq Teardowns
    /\ daemon \in {"up", "down", "records", "sweep"}
    /\ runOver \in BOOLEAN
    /\ falls \in 0..MaxFalls
    /\ seen \subseteq Ids \X Ids
    /\ reaped \subseteq Ids
    /\ lost \subseteq Ids

\* Ids are never used again; only a process of a command has a parent, and that one is alive; a
\* stranger is alone in its group, and away.
Kinship ==
    \A p \in Live :
        /\ table[p].id <= born
        /\ table[p].pp # 0 => table[p].pp \in Kin
        /\ table[p].kin = FALSE => table[p].pp = 0 /\ table[p].pg = p /\ table[p].at = "away"
        /\ \A q \in Live : /\ table[q].id = table[p].id => q = p
                           /\ table[q].pg = p /\ table[p].kin = FALSE => q = p

\* A row of a listing names a process by its pid for as long as it lives, and a process of a command.
Names(x) == x.id <= born /\ \A p \in Live : table[p].id = x.id => p = x.pid /\ p \in Kin

Remembers ==
    /\ \A p \in Pids : tracked[p] # Free => \A x \in tracked[p].desc : Names(x)
    /\ \A p \in Pids : records[p] # Free => \A x \in records[p].desc : Names(x)
    /\ \A g \in going : \A x \in g.desc : Names(x)
    /\ shot # Free => \A l \in shot.todo : \A x \in shot.found[l] : Names(x)

\* The rows of one listing agree with each other, and with what older ones left that is alive.
Listing ==
    shot # Free =>
        /\ \A l, m \in shot.todo : \A x \in shot.found[l], y \in shot.found[m] : x.pid = y.pid => x = y
        /\ \A l \in shot.todo : \A x \in shot.found[l] : x.pid \in shot.live
        /\ \A p \in Pids : tracked[p] # Free =>
              \A x \in tracked[p].desc : IsAt(x) =>
                  /\ x.pid \in shot.live
                  /\ \A l \in shot.todo : \A y \in shot.found[l] : y.pid = x.pid => y.id = x.id

\* A leader is tracked or torn down, once, and its pid is nobody else's meanwhile.
Leading ==
    /\ \A p \in Pids : tracked[p] # Free =>
          /\ tracked[p].id <= born /\ tracked[p].id \notin reaped \union lost
          /\ p \in Live => p \in Kin
          /\ \A x, y \in tracked[p].desc : x.pid = y.pid => x = y
          /\ \A q \in Pids : tracked[q] # Free /\ tracked[q].id = tracked[p].id => q = p
          /\ \A g \in going : g.pid # p /\ g.id # tracked[p].id
    /\ \A g \in going :
          /\ g.id <= born /\ g.id \notin reaped \union lost
          /\ g.pid \in Live => g.pid \in Kin
          /\ \A h \in going : h.pid = g.pid \/ h.id = g.id => h = g
    /\ reaped \intersect lost = {}
    /\ \A i \in reaped \union lost : i <= born
    /\ \A s \in seen : s[1] <= born /\ s[2] <= born

\* The record of a leader says what is remembered of it, and goes with its teardown.
Recording ==
    /\ daemon # "up" => going = {} /\ shot = Free /\ \A p \in Pids : tracked[p] = Free
    /\ daemon = "sweep" => \A p \in Pids : records[p] = Free
    /\ \A p \in Pids : tracked[p] # Free /\ tracked[p].desc # {} => records[p] = tracked[p]
    /\ \A g \in going : g.phase = "taken" /\ g.desc # {} =>
          records[g.pid] # Free /\ records[g.pid].id = g.id /\ records[g.pid].desc = g.desc
    /\ \A p \in Pids : records[p] # Free =>
          /\ records[p].id <= born /\ records[p].id \notin reaped
          /\ daemon = "up" => \/ records[p] = tracked[p]
                              \/ \E g \in going : g.pid = p /\ g.phase = "taken" /\ g.id = records[p].id

\* A sampled process that is alive is still remembered by whoever will kill it.
Accountable ==
    \A s \in seen : Alive(s[1]) =>
        \/ \E p \in Pids : tracked[p] # Free /\ tracked[p].id = s[2] /\ \E x \in tracked[p].desc : x.id = s[1]
        \/ \E g \in going : g.id = s[2] /\ \E x \in g.desc : x.id = s[1]
        \/ daemon # "up" /\ \E p \in Pids : records[p] # Free /\ records[p].id = s[2]
                                            /\ \E x \in records[p].desc : x.id = s[1]
        \/ s[2] \in lost

TreesInv == TreesTyped /\ Kinship /\ Remembers /\ Listing /\ Leading /\ Recording /\ Accountable

USE ProcTreesAssumption DEF Ids, Rows, Live, Up, Free, Kin, Entries, treesVars

\* What one step may do to the table: an id that was there before names the same process.
TableStep ==
    /\ born' \in Nat /\ born <= born'
    /\ \A p \in Live' : \/ table'[p].id > born /\ table'[p].id <= born'
                        \/ p \in Live /\ table'[p].id = table[p].id /\ table'[p].kin = table[p].kin

Spared == \A p \in Live : table[p].kin = FALSE => table'[p] = table[p]

TableTyped == table \in [Pids -> Processes \union {Free}] /\ born \in 0..MaxBirths

\* One row is new.
Grown(p, kin) == (\A r \in Live' : r = p \/ (r \in Live /\ table'[r] = table[r])) /\ table'[p].kin = kin

\* A row goes on naming the process it named.
LEMMA NamesLast ==
    ASSUME TreesTyped, TableStep, NEW x \in Rows, Names(x)
    PROVE  Names(x)'
BY DEF TreesTyped, TableStep, Names, Processes

\* An id that was given out is not alive again.
LEMMA AliveLast ==
    ASSUME TreesTyped, TableStep, NEW i \in Ids, i <= born, Alive(i)'
    PROVE  Alive(i)
BY DEF TreesTyped, TableStep, Alive, Processes

\* Nor is it at its pid again.
LEMMA IsAtLast ==
    ASSUME TreesTyped, TableStep, NEW x \in Rows, x.id <= born, IsAt(x)'
    PROVE  IsAt(x)
BY DEF TreesTyped, TableStep, IsAt, Processes

\* A process is born.
LEMMA Places ==
    ASSUME TreesTyped, Kinship, NEW p \in Pids, Unused(p),
           NEW q \in Pids \union {0}, NEW pg \in Pids, NEW at \in {"tree", "away"}, NEW kin \in BOOLEAN,
           q # 0 => q \in Kin,
           kin = TRUE \/ (q = 0 /\ pg = p /\ at = "away"),
           pg \in Live => pg \in Kin,
           Place(p, q, pg, at, kin)
    PROVE  TableTyped' /\ Kinship' /\ TableStep /\ Spared /\ Grown(p, kin)
<1> DEFINE new == [id |-> born + 1, pp |-> q, pg |-> pg, at |-> at, kin |-> kin]
<1>1. new \in Processes /\ born' = born + 1 /\ table' = [table EXCEPT ![p] = new] /\ p \notin Live
  BY DEF Place, Unused, Processes, TreesTyped
<1>2. /\ new.id = born + 1 /\ new.pp = q /\ new.pg = pg /\ new.at = at /\ new.kin = kin
  OBVIOUS
<1> HIDE DEF new
<1>3. new # Free /\ Live' = Live \union {p} /\ table'[p] = new /\ \A r \in Live : table'[r] = table[r]
  BY <1>1 DEF TreesTyped, Processes
<1>4. (table \in [Pids -> Processes \union {Free}])' /\ (born \in 0..MaxBirths)'
  BY <1>1 DEF TreesTyped, Unused
<1>5. TableStep /\ Spared
  BY <1>1, <1>2, <1>3 DEF TableStep, Spared, TreesTyped, Kinship
<1>6. Kinship'
  <2>1. \A r \in Live : r # p /\ table[r].pp # p /\ table[r].pg # p /\ table[r].id <= born
    BY <1>1 DEF Unused, Kinship
  <2>2. Kin \subseteq Kin'
    BY <1>1, <1>3
  <2>3. ASSUME NEW r \in Live, table[r].pp # 0 PROVE table[r].pp \in Kin'
    BY <2>2, <2>3 DEF Kinship
  <2> QED BY <1>1, <1>2, <1>3, <2>1, <2>2, <2>3 DEF Kinship, TreesTyped, Processes
<1> QED BY <1>2, <1>3, <1>4, <1>5, <1>6 DEF TableTyped, Grown

\* Processes are killed, or exit.
LEMMA Deaths ==
    ASSUME TreesTyped, Kinship, NEW dead, dead \subseteq Kin, table' = Without(table, dead), born' = born
    PROVE  /\ TableTyped' /\ Kinship' /\ TableStep /\ Spared
           /\ Live' = Live \ dead /\ Kin' = Kin \ dead
<1>1. ASSUME NEW p \in Live, p \notin dead
      PROVE  /\ table'[p] \in Processes
             /\ table'[p].id = table[p].id /\ table'[p].pg = table[p].pg
             /\ table'[p].at = table[p].at /\ table'[p].kin = table[p].kin
             /\ table'[p].pp = IF table[p].pp \in dead THEN 0 ELSE table[p].pp
  <2>1. table[p] \in Processes
    BY DEF TreesTyped
  <2>2. table'[p] = [table[p] EXCEPT !.pp = IF @ \in dead THEN 0 ELSE @]
    BY <1>1 DEF Without
  <2> QED BY <2>1, <2>2 DEF Processes
<1>2. \A p \in Pids : p \notin Live \/ p \in dead => table'[p] = Free
  BY DEF Without
<1>3. Live' = Live \ dead
  <2>1. \A x \in Processes : x # Free
    BY DEF Processes
  <2>2. \A p \in Pids : p \in Live /\ p \notin dead => table'[p] # Free
    BY <1>1, <2>1
  <2> HIDE DEF Free
  <2> QED BY <1>2, <2>2
<1>4. Kin' = Kin \ dead
  BY <1>1, <1>3
<1>5. (table \in [Pids -> Processes \union {Free}])'
  BY <1>1, <1>2 DEF Without
<1>6. TableStep
  BY <1>1, <1>3 DEF TableStep, TreesTyped
<1>7. Spared
  <2> SUFFICES ASSUME NEW p \in Live, table[p].kin = FALSE PROVE table'[p] = table[p]
    BY DEF Spared
  <2>1. p \notin dead /\ table[p] \in Processes /\ table[p].pp = 0 /\ 0 \notin dead
    BY DEF TreesTyped, Kinship
  <2>2. table'[p] = [table[p] EXCEPT !.pp = IF @ \in dead THEN 0 ELSE @]
    BY <2>1 DEF Without
  <2> QED BY <2>1, <2>2 DEF Processes
<1>8. Kinship'
  BY <1>1, <1>3, <1>4 DEF Kinship, TreesTyped
<1> QED BY <1>3, <1>4, <1>5, <1>6, <1>7, <1>8 DEF TreesTyped, TableTyped

\* What is remembered stays true while the world moves on, and less of it may be left.
LEMMA MemoryLasts ==
    ASSUME TreesInv, TableStep, UNCHANGED shot, going' \subseteq going,
           \A p \in Pids : tracked'[p] = tracked[p] \/ tracked'[p].desc = {},
           \A p \in Pids : records'[p] = records[p] \/ records'[p] = Free
    PROVE  (Remembers /\ Listing)'
<1>1. Remembers'
  <2>1. ASSUME NEW p \in Pids, tracked'[p] # Free, NEW x \in tracked'[p].desc PROVE Names(x)'
    <3>1. x \in Rows /\ Names(x)
      BY <2>1 DEF TreesInv, TreesTyped, Remembers
    <3> QED BY <3>1, NamesLast DEF TreesInv
  <2>2. ASSUME NEW p \in Pids, records'[p] # Free, NEW x \in records'[p].desc PROVE Names(x)'
    <3>1. x \in Rows /\ Names(x)
      BY <2>2 DEF TreesInv, TreesTyped, Remembers
    <3> QED BY <3>1, NamesLast DEF TreesInv
  <2>3. ASSUME NEW g \in going, NEW x \in g.desc PROVE Names(x)'
    <3>1. x \in Rows /\ Names(x)
      BY <2>3 DEF TreesInv, TreesTyped, Teardowns, Remembers
    <3> QED BY <3>1, NamesLast DEF TreesInv
  <2>4. ASSUME shot # Free, NEW l \in shot.todo, NEW x \in shot.found[l] PROVE Names(x)'
    <3>1. x \in Rows /\ Names(x)
      BY <2>4 DEF TreesInv, TreesTyped, Remembers
    <3> QED BY <3>1, NamesLast DEF TreesInv
  <2> QED BY <2>1, <2>2, <2>3, <2>4 DEF Remembers
<1>2. Listing'
  <2>1. ASSUME NEW p \in Pids, tracked'[p] # Free, NEW x \in tracked'[p].desc, IsAt(x)'
        PROVE IsAt(x) /\ tracked[p] # Free /\ x \in tracked[p].desc
    <3>1. x \in Rows /\ x.id <= born
      BY <2>1 DEF TreesInv, TreesTyped, Remembers, Names
    <3> QED BY <2>1, <3>1, IsAtLast DEF TreesInv
  <2> QED BY <2>1 DEF TreesInv, Listing
<1> QED BY <1>1, <1>2

\* Ids given out stay given out, and what was sampled is not alive again.
LEMMA BornLast ==
    ASSUME TreesInv, TableStep
    PROVE  /\ \A i \in Ids : i <= born => i <= born'
           /\ \A s \in seen : Alive(s[1])' => Alive(s[1])
<1>1. \A i \in Ids : i <= born => i <= born'
  BY DEF TreesInv, TreesTyped, TableStep
<1>2. ASSUME NEW s \in seen, Alive(s[1])' PROVE Alive(s[1])
  <2>1. s[1] \in Ids /\ s[1] <= born
    BY DEF TreesInv, TreesTyped, Leading
  <2> QED BY <1>2, <2>1, AliveLast DEF TreesInv
<1> QED BY <1>1, <1>2

\* The world moves on while the daemon's memory stays as it is.
LEMMA WorldMoves ==
    ASSUME TreesInv, TableStep,
           UNCHANGED <<tracked, shot, records, going, seen, reaped, lost>>,
           daemon' = daemon \/ (daemon = "sweep" /\ daemon' = "up"),
           \A p \in Live' : tracked[p] # Free \/ (\E g \in going : g.pid = p) => p \in Kin'
    PROVE  (Remembers /\ Listing /\ Leading /\ Recording /\ Accountable)'
<1>1. (Remembers /\ Listing)'
  BY MemoryLasts
<1>2. /\ \A i \in Ids : i <= born => i <= born'
      /\ \A s \in seen : Alive(s[1])' => Alive(s[1])
  BY BornLast
<1>3. Leading'
  <2>1. ASSUME NEW p \in Pids, tracked[p] # Free
        PROVE  /\ tracked[p].id <= born' /\ tracked[p].id \notin reaped \union lost
               /\ p \in Live' => p \in Kin'
               /\ \A x, y \in tracked[p].desc : x.pid = y.pid => x = y
               /\ \A q \in Pids : tracked[q] # Free /\ tracked[q].id = tracked[p].id => q = p
               /\ \A g \in going : g.pid # p /\ g.id # tracked[p].id
    BY <1>2, <2>1 DEF TreesInv, TreesTyped, Leading
  <2>2. ASSUME NEW g \in going
        PROVE  /\ g.id <= born' /\ g.id \notin reaped \union lost
               /\ g.pid \in Live' => g.pid \in Kin'
               /\ \A h \in going : h.pid = g.pid \/ h.id = g.id => h = g
    BY <1>2 DEF TreesInv, TreesTyped, Teardowns, Leading
  <2>3. /\ reaped \intersect lost = {}
        /\ \A i \in reaped \union lost : i <= born'
        /\ \A s \in seen : s[1] <= born' /\ s[2] <= born'
    BY <1>2 DEF TreesInv, TreesTyped, Leading
  <2> QED BY <2>1, <2>2, <2>3 DEF Leading
<1>4. Recording'
  BY <1>2 DEF TreesInv, TreesTyped, Recording
<1>5. Accountable'
  BY <1>2 DEF TreesInv, Accountable, Recording
<1> QED BY <1>1, <1>3, <1>4, <1>5

-----------------------------------------------------------------------------
(* Whom a kill can hit.                                                      *)

\* The least closed set lies within any closed one: the processes of commands are closed under
\* "child of" and "in a group led by".
LEMMA VictimsAreKin ==
    ASSUME TreesTyped, Kinship, NEW matched, matched \subseteq Kin
    PROVE  Victims(matched) \subseteq Kin
<1>1. Kids(Kin) \subseteq Kin
  BY DEF Kids, TreesTyped, Kinship, Processes
<1>2. {p \in Live : table[p].pg \in Kin} \subseteq Kin
  BY DEF TreesTyped, Kinship, Processes
<1>3. Kin \in SUBSET Live
  OBVIOUS
<1> QED BY <1>1, <1>2, <1>3 DEF Victims

\* What the walk from a leader finds are processes of commands.
LEMMA DescendantsAreKin ==
    ASSUME TreesTyped, Kinship, NEW l \in Pids, l \in Live => l \in Kin
    PROVE  \A x \in Descendants(l) : \E p \in Kin : x = Row(p)
<1> DEFINE start == IF Up(l) THEN Kids({l}) \union {p \in Live : table[l].pg = l /\ table[p].pg = l} ELSE {}
<1>1. Kids(Kin) \subseteq Kin
  BY DEF Kids, TreesTyped, Kinship, Processes
<1>2. start \subseteq Kin
  BY DEF Kids, TreesTyped, Kinship, Processes
<1>3. Kin \in {S \in SUBSET Live : start \subseteq S /\ Kids(S) \subseteq S}
  BY <1>1, <1>2
<1>4. \A x \in Descendants(l) : \E p \in {q \in Live : q # l /\ q \in Kin} : x = Row(p)
  BY <1>3 DEF Descendants
<1> QED BY <1>4

\* Only processes of commands stand in a worktree.
LEMMA StandingAreKin ==
    ASSUME TreesTyped, Kinship
    PROVE  Standing \subseteq Kin
BY DEF Standing, TreesTyped, Kinship, Processes

\* The verified kills hit processes of commands only.
LEMMA KillsHitKin ==
    ASSUME TreesTyped, Kinship, NEW desc \in SUBSET Rows, \A x \in desc : Names(x), NEW groups
    PROVE  GroupKill(groups, desc) \subseteq Kin /\ PidKill(desc) \subseteq Kin
<1>1. \A x \in desc : IsAt(x) => x.pid \in Kin
  BY DEF Names, IsAt
<1>2. PidKill(desc) \subseteq Kin
  BY <1>1 DEF PidKill
<1>3. ASSUME NEW p \in GroupKill(groups, desc) PROVE p \in Kin
  <2>1. p \in Live /\ table[p].pg \in Kin
    BY <1>1 DEF GroupKill
  <2> QED BY <2>1 DEF TreesTyped, Kinship, Processes
<1> QED BY <1>2, <1>3

\* Nothing that a row names survives being killed by that row.
LEMMA KilledIsDead ==
    ASSUME TreesTyped, TableStep, NEW x \in Rows, Names(x), NEW dead, Live' = Live \ dead,
           IsAt(x) => x.pid \in dead
    PROVE  ~Alive(x.id)'
<1> SUFFICES ASSUME Alive(x.id)' PROVE FALSE
  OBVIOUS
<1>1. PICK p \in Live' : table'[p].id = x.id
  BY DEF Alive
<1>2. p \in Live /\ table[p].id = x.id
  BY <1>1 DEF TableStep, TreesTyped, Names
<1> QED BY <1>1, <1>2 DEF Names, IsAt

\* A merged entry has what the sample found, and what it does not contradict, of what is in the table.
Merges(n, e, found, live) ==
    /\ n \in Entries /\ n.id = e.id
    /\ \A x \in n.desc : x.pid \in live /\ (x \in found \/ (x \in e.desc /\ \A y \in found : y.pid # x.pid))
    /\ \A x \in found : x.pid \in live => x \in n.desc
    /\ \A x \in e.desc : x.pid \in live /\ (\A y \in found : y.pid # x.pid) => x \in n.desc

\* mergeSampleLocked keeps what it should.
LEMMA Merged ==
    ASSUME NEW e \in Entries, NEW l, NEW found \in SUBSET Rows, NEW live \in SUBSET Pids
    PROVE  Merges(Merge(e, l, found, live), e, found, live)
BY DEF Merge, Merges

\* A row of the table names the process it shows.
LEMMA RowNames ==
    ASSUME TreesTyped, Kinship, NEW p \in Kin
    PROVE  Names(Row(p)) /\ Row(p) \in Rows
BY DEF TreesTyped, Kinship, Names, Row, Processes

-----------------------------------------------------------------------------
(* Every action keeps the invariant, and kills no stranger.                  *)

\* StartShellCommand keeps the invariant.
LEMMA StartShellCommandKeeps ==
    ASSUME TreesInv, NEW p \in Pids, StartShellCommand(p)
    PROVE  TreesInv' /\ Spared
<1> DEFINE new == [id |-> born + 1, desc |-> {}, groups |-> {}]
<1>1. /\ Unused(p) /\ Place(p, 0, p, "tree", TRUE) /\ daemon = "up"
      /\ tracked' = [tracked EXCEPT ![p] = new] /\ commands' = commands + 1 /\ commands < MaxCommands
      /\ UNCHANGED <<shot, records, going, daemon, runOver, falls, seen, reaped, lost>>
  BY DEF StartShellCommand
<1>2. TableTyped' /\ Kinship' /\ TableStep /\ Spared /\ Grown(p, TRUE)
  <2>1. p \notin Live /\ 0 \in Pids \union {0} /\ TRUE \in BOOLEAN /\ "tree" \in {"tree", "away"}
    BY <1>1 DEF Unused
  <2> QED BY <1>1, <2>1, Places DEF TreesInv
<1>3. tracked[p] = Free /\ (\A g \in going : g.pid # p) /\ born' = born + 1 /\ born < MaxBirths
  BY <1>1 DEF Unused, Place
<1>4. new \in Entries /\ new # Free /\ new.desc = {} /\ new.id = born + 1
  BY <1>3 DEF TreesInv, TreesTyped
<1> HIDE DEF new
<1>5. tracked'[p] = new /\ \A q \in Pids : q # p => tracked'[q] = tracked[q]
  BY <1>1 DEF TreesInv, TreesTyped
<1>6. TreesTyped'
  <2>1. (tracked \in [Pids -> Entries \union {Free}])' /\ (commands \in 0..MaxCommands)'
    BY <1>1, <1>4 DEF TreesInv, TreesTyped
  <2> QED BY <1>1, <1>2, <2>1 DEF TreesInv, TreesTyped, TableTyped
<1>7. (Remembers /\ Listing)'
  BY <1>1, <1>2, <1>4, <1>5, MemoryLasts
<1>8. Leading'
  <2>1. born \in Nat /\ born' = born + 1
    BY <1>3 DEF TreesInv, TreesTyped
  <2>2. \A q \in Pids : tracked[q] # Free => tracked[q].id \in Nat
    BY DEF TreesInv, TreesTyped
  <2>3. \A g \in going : g.id \in Nat
    BY DEF TreesInv, TreesTyped, Teardowns
  <2>4. ASSUME NEW q \in Pids, tracked'[q] # Free
        PROVE  /\ tracked'[q].id <= born' /\ tracked'[q].id \notin reaped \union lost
               /\ q \in Live' => q \in Kin'
               /\ \A x, y \in tracked'[q].desc : x.pid = y.pid => x = y
               /\ \A r \in Pids : tracked'[r] # Free /\ tracked'[r].id = tracked'[q].id => r = q
               /\ \A g \in going : g.pid # q /\ g.id # tracked'[q].id
    <3>1. CASE q = p
      BY <1>2, <1>3, <1>4, <1>5, <2>1, <2>2, <2>3, <3>1 DEF TreesInv, Leading, Grown
    <3>2. CASE q # p
      BY <1>2, <1>3, <1>4, <1>5, <2>1, <2>2, <2>3, <2>4, <3>2 DEF TreesInv, Leading, Grown
    <3> QED BY <3>1, <3>2
  <2>5. ASSUME NEW g \in going
        PROVE  /\ g.id <= born' /\ g.id \notin reaped \union lost
               /\ g.pid \in Live' => g.pid \in Kin'
               /\ \A h \in going : h.pid = g.pid \/ h.id = g.id => h = g
    BY <1>2, <1>3, <2>1, <2>3 DEF TreesInv, Leading, Grown
  <2>6. /\ reaped \intersect lost = {}
        /\ \A i \in reaped \union lost : i <= born'
        /\ \A s \in seen : s[1] <= born' /\ s[2] <= born'
    BY <2>1 DEF TreesInv, TreesTyped, Leading
  <2> QED BY <1>1, <2>4, <2>5, <2>6 DEF Leading
<1>9. Recording'
  <2>1. records[p] = Free
    BY <1>1, <1>3 DEF TreesInv, Recording
  <2>2. \A q \in Pids : records[q] # Free => records[q].id \in Nat
    BY DEF TreesInv, TreesTyped
  <2> QED BY <1>1, <1>3, <1>4, <1>5, <2>1, <2>2 DEF TreesInv, TreesTyped, Recording
<1>10. Accountable'
  BY <1>1, <1>2, <1>3, <1>5, BornLast DEF TreesInv, Accountable
<1> QED BY <1>2, <1>6, <1>7, <1>8, <1>9, <1>10 DEF TreesInv

\* The conjuncts the table has no part in.
LEMMA TypeLasts ==
    ASSUME TreesInv, TableTyped',
           daemon' \in {"up", "down", "records", "sweep"}, runOver' \in BOOLEAN,
           UNCHANGED <<commands, tracked, shot, records, going, falls, seen, reaped, lost>>
    PROVE  TreesTyped'
BY DEF TreesInv, TreesTyped, TableTyped

\* Fork keeps the invariant.
LEMMA ForkKeeps ==
    ASSUME TreesInv, NEW q \in Pids, NEW p \in Pids, Fork(q, p)
    PROVE  TreesInv' /\ Spared
<1>1. /\ q \in Live /\ q \in Kin /\ Unused(p) /\ Place(p, q, table[q].pg, table[q].at, TRUE)
      /\ UNCHANGED <<commands, tracked, shot, records, going, daemon, runOver, falls, seen, reaped, lost>>
  BY DEF Fork, rest, TreesInv, TreesTyped, Processes
<1>2. table[q] \in Processes
  BY <1>1 DEF TreesInv, TreesTyped
<1>3. table[q].pg \in Pids /\ table[q].at \in {"tree", "away"} /\ (table[q].pg \in Live => table[q].pg \in Kin)
  BY <1>1, <1>2 DEF TreesInv, TreesTyped, Kinship, Processes
<1>4. TableTyped' /\ Kinship' /\ TableStep /\ Spared /\ Grown(p, TRUE)
  <2>1. PICK pg \in Pids, at \in {"tree", "away"}, kin \in BOOLEAN :
            kin = TRUE /\ Place(p, q, pg, at, kin) /\ (pg \in Live => pg \in Kin)
    BY <1>1, <1>3
  <2>2. q \in Pids \union {0} /\ q \in Kin /\ Unused(p) /\ TreesTyped /\ Kinship
    BY <1>1 DEF TreesInv
  <2> QED BY <2>1, <2>2, Places
<1>5. TreesTyped'
  BY <1>1, <1>4, TypeLasts DEF TreesInv, TreesTyped
<1>6. \A r \in Live' : tracked[r] # Free \/ (\E g \in going : g.pid = r) => r \in Kin'
  BY <1>4 DEF TreesInv, Leading, Grown
<1>7. (Remembers /\ Listing /\ Leading /\ Recording /\ Accountable)'
  BY <1>1, <1>4, <1>6, WorldMoves
<1> QED BY <1>4, <1>5, <1>7 DEF TreesInv

\* Stranger keeps the invariant.
LEMMA StrangerKeeps ==
    ASSUME TreesInv, NEW p \in Pids, Stranger(p)
    PROVE  TreesInv' /\ Spared
<1>1. /\ Unused(p) /\ Place(p, 0, p, "away", FALSE)
      /\ UNCHANGED <<commands, tracked, shot, records, going, daemon, runOver, falls, seen, reaped, lost>>
  BY DEF Stranger, rest
<1>2. p \notin Live /\ tracked[p] = Free /\ \A g \in going : g.pid # p
  BY <1>1 DEF Unused
<1>3. TableTyped' /\ Kinship' /\ TableStep /\ Spared /\ Grown(p, FALSE)
  BY <1>1, <1>2, Places DEF TreesInv
<1>4. TreesTyped'
  BY <1>1, <1>3, TypeLasts DEF TreesInv, TreesTyped
<1>5. \A r \in Live' : tracked[r] # Free \/ (\E g \in going : g.pid = r) => r \in Kin'
  BY <1>2, <1>3 DEF TreesInv, Leading, Grown
<1>6. (Remembers /\ Listing /\ Leading /\ Recording /\ Accountable)'
  BY <1>1, <1>3, <1>5, WorldMoves
<1> QED BY <1>3, <1>4, <1>6 DEF TreesInv

\* Setsid keeps the invariant.
LEMMA SetsidKeeps ==
    ASSUME TreesInv, NEW q \in Pids, Setsid(q)
    PROVE  TreesInv' /\ Spared
<1>1. /\ q \in Kin /\ table[q] \in Processes
      /\ UNCHANGED <<born, commands, tracked, shot, records, going, daemon, runOver, falls, seen, reaped, lost>>
  BY DEF Setsid, rest, TreesInv, TreesTyped, Processes
<1>2. PICK at \in {table[q].at, "away"} : table' = [table EXCEPT ![q].pg = q, ![q].at = at]
  BY DEF Setsid
<1> DEFINE new == [table[q] EXCEPT !.pg = q, !.at = at]
<1>3. /\ new \in Processes /\ new.id = table[q].id /\ new.pp = table[q].pp /\ new.pg = q /\ new.kin = TRUE
      /\ table' = [table EXCEPT ![q] = new]
  BY <1>1, <1>2 DEF Processes, TreesInv, TreesTyped
<1> HIDE DEF new
<1>4. (table \in [Pids -> Processes \union {Free}])'
  BY <1>3 DEF TreesInv, TreesTyped
<1>5. new # Free /\ Live' = Live /\ table'[q] = new /\ \A r \in Pids : r # q => table'[r] = table[r]
  BY <1>1, <1>3 DEF TreesInv, TreesTyped, Processes
<1>6. Kin' = Kin
  BY <1>1, <1>3, <1>5
<1>7. TableStep /\ Spared
  <2>1. \A r \in Live : table'[r].id = table[r].id /\ table'[r].kin = table[r].kin
    BY <1>1, <1>3, <1>5
  <2>2. born \in Nat /\ born' = born
    BY <1>1 DEF TreesInv, TreesTyped
  <2>3. TableStep
    <3> HIDE DEF Live
    <3> QED BY <1>5, <2>1, <2>2, SMT DEF TableStep
  <2>4. table[q].kin = TRUE
    BY <1>1
  <2>5. Spared
    <3> SUFFICES ASSUME NEW r \in Pids, table[r].kin = FALSE PROVE table'[r] = table[r]
      BY DEF Spared
    <3>1. r # q
      BY <2>4
    <3> QED BY <1>5, <3>1
  <2> QED BY <2>3, <2>5
<1>8. Kinship'
  BY <1>1, <1>3, <1>5, <1>6 DEF TreesInv, Kinship
<1>9. TreesTyped'
  <2>1. TableTyped'
    BY <1>1, <1>4 DEF TableTyped, TreesInv, TreesTyped
  <2> QED BY <1>1, <2>1, TypeLasts DEF TreesInv, TreesTyped
<1>10. \A r \in Live' : tracked[r] # Free \/ (\E g \in going : g.pid = r) => r \in Kin'
  BY <1>5, <1>6 DEF TreesInv, Leading
<1>11. (Remembers /\ Listing /\ Leading /\ Recording /\ Accountable)'
  BY <1>1, <1>7, <1>10, WorldMoves
<1> QED BY <1>7, <1>8, <1>9, <1>11 DEF TreesInv

\* An exit or a sweep: the daemon's memory stays as it is.
LEMMA DeathsKeep ==
    ASSUME TreesInv, NEW dead, dead \subseteq Kin, table' = Without(table, dead), runOver' \in BOOLEAN,
           daemon' = daemon \/ (daemon = "sweep" /\ daemon' = "up"),
           UNCHANGED <<born, commands, tracked, shot, records, going, falls, seen, reaped, lost>>
    PROVE  TreesInv' /\ Spared
<1>1. /\ TableTyped' /\ Kinship' /\ TableStep /\ Spared
      /\ Live' = Live \ dead /\ Kin' = Kin \ dead
  BY Deaths DEF TreesInv
<1>2. TreesTyped'
  BY <1>1, TypeLasts DEF TreesInv, TreesTyped
<1>3. \A r \in Live' : tracked[r] # Free \/ (\E g \in going : g.pid = r) => r \in Kin'
  BY <1>1 DEF TreesInv, Leading
<1>4. (Remembers /\ Listing /\ Leading /\ Recording /\ Accountable)'
  BY <1>1, <1>3, WorldMoves
<1> QED BY <1>1, <1>2, <1>4 DEF TreesInv

\* Exit keeps the invariant.
LEMMA ExitKeeps ==
    ASSUME TreesInv, NEW q \in Pids, Exit(q)
    PROVE  TreesInv' /\ Spared
<1>1. /\ {q} \subseteq Kin /\ table' = Without(table, {q})
      /\ UNCHANGED <<born, commands, tracked, shot, records, going, daemon, runOver, falls, seen, reaped, lost>>
  BY DEF Exit, rest, TreesInv, TreesTyped, Processes
<1>2. runOver' \in BOOLEAN
  BY <1>1 DEF TreesInv, TreesTyped
<1> QED BY <1>1, <1>2, DeathsKeep

\* SweepRun keeps the invariant.
LEMMA SweepRunKeeps ==
    ASSUME TreesInv, SweepRun
    PROVE  TreesInv' /\ Spared
<1>1. Victims(Standing) \subseteq Kin
  BY StandingAreKin, VictimsAreKin DEF TreesInv
<1>2. /\ table' = Without(table, Victims(Standing)) /\ runOver' = TRUE
      /\ UNCHANGED <<born, commands, tracked, shot, records, going, daemon, falls, seen, reaped, lost>>
  BY DEF SweepRun
<1> QED BY <1>1, <1>2, DeathsKeep

\* ResumedRunEnds keeps the invariant.
LEMMA ResumedRunEndsKeeps ==
    ASSUME TreesInv, ResumedRunEnds
    PROVE  TreesInv' /\ Spared
<1>1. /\ runOver' \in BOOLEAN
      /\ UNCHANGED <<table, born, commands, tracked, shot, records, going, daemon, falls, seen, reaped, lost>>
  BY DEF ResumedRunEnds
<1>2. TableStep /\ Spared /\ Kinship'
  BY <1>1 DEF TableStep, Spared, TreesInv, TreesTyped, Kinship
<1>3. TreesTyped'
  BY <1>1, TypeLasts DEF TreesInv, TreesTyped, TableTyped
<1>4. \A r \in Live' : tracked[r] # Free \/ (\E g \in going : g.pid = r) => r \in Kin'
  BY <1>1 DEF TreesInv, Leading
<1>5. (Remembers /\ Listing /\ Leading /\ Recording /\ Accountable)'
  BY <1>1, <1>2, <1>4, WorldMoves
<1> QED BY <1>2, <1>3, <1>5 DEF TreesInv

\* SweepStartup keeps the invariant.
LEMMA SweepStartupKeeps ==
    ASSUME TreesInv, SweepStartup
    PROVE  TreesInv' /\ Spared
<1>1. PICK resumed \in BOOLEAN, young \in SUBSET Standing :
          /\ table' = IF resumed THEN table ELSE Without(table, Victims(Standing \ young))
          /\ runOver' = ~resumed
  BY DEF SweepStartup
<1>2. /\ daemon = "sweep" /\ daemon' = "up" /\ runOver' \in BOOLEAN
      /\ UNCHANGED <<born, commands, tracked, shot, records, going, falls, seen, reaped, lost>>
  BY <1>1 DEF SweepStartup
<1>3. CASE ~resumed
  <2>1. Victims(Standing \ young) \subseteq Kin
    BY StandingAreKin, VictimsAreKin DEF TreesInv
  <2> QED BY <1>1, <1>2, <1>3, <2>1, DeathsKeep
<1>4. CASE resumed
  <2>1. UNCHANGED <<table, born>>
    BY <1>1, <1>2, <1>4
  <2>2. TableStep /\ Spared /\ Kinship'
    BY <2>1 DEF TableStep, Spared, TreesInv, TreesTyped, Kinship
  <2>3. TreesTyped'
    BY <1>2, <2>1, TypeLasts DEF TreesInv, TreesTyped, TableTyped
  <2>4. \A r \in Live' : tracked[r] # Free \/ (\E g \in going : g.pid = r) => r \in Kin'
    BY <2>1 DEF TreesInv, Leading
  <2>5. (Remembers /\ Listing /\ Leading /\ Recording /\ Accountable)'
    BY <1>2, <2>2, <2>4, WorldMoves
  <2> QED BY <2>2, <2>3, <2>5 DEF TreesInv
<1> QED BY <1>3, <1>4

\* TakeLeader keeps the invariant.
LEMMA TakeLeaderKeeps ==
    ASSUME TreesInv, NEW l \in Pids, TakeLeader(l)
    PROVE  TreesInv'
<1>1. Kinship'
    BY DEF TreesInv, Kinship, TakeLeader
<1>2. TreesTyped'
    BY DEF TreesInv, TreesTyped, Teardowns, Processes, TakeLeader
<1>3. Remembers'
    BY DEF TreesInv, Remembers, Names, TakeLeader
<1>4. Listing'
    BY DEF TreesInv, Listing, IsAt, TakeLeader
<1>5. Leading'
    BY DEF TreesInv, Leading, TreesTyped, Teardowns, Processes, TakeLeader
<1>6. Recording'
  <2>1. (/\ daemon = "sweep" => \A p \in Pids : records[p] = Free)'
    BY DEF TreesInv, Recording, TakeLeader
  <2>2. (daemon # "up" => going = {} /\ shot = Free /\ \A p \in Pids : tracked[p] = Free)'
    BY DEF TreesInv, Recording, TakeLeader
  <2>3. (\A p \in Pids : tracked[p] # Free /\ tracked[p].desc # {} => records[p] = tracked[p])'
    BY DEF TreesInv, Recording, TakeLeader
  <2>4. (\A g \in going : g.phase = "taken" /\ g.desc # {} =>
            records[g.pid] # Free /\ records[g.pid].id = g.id /\ records[g.pid].desc = g.desc)'
    BY DEF TreesInv, Recording, TakeLeader
  <2>5. (\A p \in Pids : records[p] # Free =>
            /\ records[p].id <= born /\ records[p].id \notin reaped
            /\ daemon = "up" => \/ records[p] = tracked[p]
                                \/ \E g \in going : g.pid = p /\ g.phase = "taken" /\ g.id = records[p].id)'
    <3> DEFINE g0 == [pid |-> l, id |-> tracked[l].id, desc |-> tracked[l].desc,
                      groups |-> tracked[l].groups, phase |-> "taken"]
    <3>1. /\ g0 \in going' /\ going \subseteq going' /\ g0.pid = l /\ g0.phase = "taken" /\ g0.id = tracked[l].id
          /\ tracked' = [tracked EXCEPT ![l] = Free]
          /\ daemon = "up" /\ UNCHANGED <<records, daemon, born, reaped>>
      BY DEF TakeLeader
    <3>2. \A p \in Pids : p # l => tracked'[p] = tracked[p]
      BY <3>1 DEF TreesInv, TreesTyped
    <3> HIDE DEF g0
    <3> SUFFICES ASSUME NEW p \in Pids, records[p] # Free
                 PROVE  /\ records[p].id <= born /\ records[p].id \notin reaped
                        /\ \/ records[p] = tracked'[p]
                           \/ \E g \in going' : g.pid = p /\ g.phase = "taken" /\ g.id = records[p].id
      BY <3>1
    <3>3. /\ records[p].id <= born /\ records[p].id \notin reaped
          /\ \/ records[p] = tracked[p]
             \/ \E g \in going : g.pid = p /\ g.phase = "taken" /\ g.id = records[p].id
      BY <3>1 DEF TreesInv, Recording
    <3>4. CASE records[p] = tracked[p]
      BY <3>1, <3>2, <3>3, <3>4
    <3> QED BY <3>1, <3>3, <3>4
  <2> QED BY <2>1, <2>2, <2>3, <2>4, <2>5 DEF Recording
<1>7. Accountable'
  <2> DEFINE g0 == [pid |-> l, id |-> tracked[l].id, desc |-> tracked[l].desc,
                    groups |-> tracked[l].groups, phase |-> "taken"]
  <2>1. /\ g0 \in going' /\ going \subseteq going' /\ g0.id = tracked[l].id /\ g0.desc = tracked[l].desc
        /\ tracked' = [tracked EXCEPT ![l] = Free]
        /\ UNCHANGED <<table, daemon, records, seen, lost>>
    BY DEF TakeLeader
  <2>2. \A p \in Pids : p # l => tracked'[p] = tracked[p]
    BY <2>1 DEF TreesInv, TreesTyped
  <2> HIDE DEF g0
  <2> SUFFICES ASSUME NEW s \in seen, Alive(s[1])
               PROVE  \/ \E p \in Pids : tracked'[p] # Free /\ tracked'[p].id = s[2] /\ \E x \in tracked'[p].desc : x.id = s[1]
                      \/ \E g \in going' : g.id = s[2] /\ \E x \in g.desc : x.id = s[1]
                      \/ s[2] \in lost
    BY <2>1 DEF Accountable, Alive
  <2>3. daemon = "up"
    BY DEF TakeLeader
  <2>4. ASSUME NEW p \in Pids, tracked[p] # Free, tracked[p].id = s[2], \E x \in tracked[p].desc : x.id = s[1]
        PROVE  \/ tracked'[p] # Free /\ tracked'[p].id = s[2] /\ \E x \in tracked'[p].desc : x.id = s[1]
               \/ \E g \in going' : g.id = s[2] /\ \E x \in g.desc : x.id = s[1]
    <3>1. CASE p = l
      BY <2>1, <2>4, <3>1
    <3>2. CASE p # l
      BY <2>2, <2>4, <3>2
    <3> QED BY <3>1, <3>2
  <2>5. \/ \E p \in Pids : tracked[p] # Free /\ tracked[p].id = s[2] /\ \E x \in tracked[p].desc : x.id = s[1]
        \/ \E g \in going : g.id = s[2] /\ \E x \in g.desc : x.id = s[1]
        \/ s[2] \in lost
    BY <2>3 DEF TreesInv, Accountable
  <2> QED BY <2>1, <2>4, <2>5
<1> QED BY <1>1, <1>2, <1>3, <1>4, <1>5, <1>6, <1>7 DEF TreesInv

\* DropRecord keeps the invariant.
LEMMA DropRecordKeeps ==
    ASSUME TreesInv, NEW g \in going, DropRecord(g)
    PROVE  TreesInv'
<1>1. (Kinship /\ Listing)'
    BY DEF TreesInv, Kinship, Listing, IsAt, DropRecord
<1>2. TreesTyped'
    BY DEF TreesInv, TreesTyped, Teardowns, Processes, DropRecord
<1>3. Remembers'
    BY DEF TreesInv, Remembers, Names, TreesTyped, Teardowns, Processes, DropRecord
<1>4. Leading'
    BY DEF TreesInv, Leading, TreesTyped, Teardowns, Processes, DropRecord
<1>5. Recording'
    BY DEF TreesInv, Recording, TreesTyped, Teardowns, Processes, Leading, DropRecord
<1>6. Accountable'
  <2> DEFINE g1 == [g EXCEPT !.phase = "term"]
  <2>1. /\ going' = (going \ {g}) \union {g1} /\ daemon = "up" /\ UNCHANGED <<table, daemon, tracked, seen, lost>>
    BY DEF DropRecord
  <2>2. g1.id = g.id /\ g1.desc = g.desc
    BY DEF TreesInv, TreesTyped, Teardowns
  <2> HIDE DEF g1
  <2> QED BY <2>1, <2>2 DEF TreesInv, Accountable, Alive
<1> QED BY <1>1, <1>2, <1>3, <1>4, <1>5, <1>6 DEF TreesInv

\* DaemonKilled keeps the invariant.
LEMMA DaemonKilledKeeps ==
    ASSUME TreesInv, DaemonKilled
    PROVE  TreesInv'
<1>1. Kinship'
    BY DEF TreesInv, Kinship, DaemonKilled
<1>2. TreesTyped'
    BY DEF TreesInv, TreesTyped, Teardowns, Processes, DaemonKilled
<1>3. Remembers'
    BY DEF TreesInv, Remembers, Names, DaemonKilled
<1>4. Listing'
    BY DEF TreesInv, Listing, IsAt, DaemonKilled
<1>5. Leading'
    BY DEF TreesInv, Leading, DaemonKilled
<1>6. Recording'
    BY DEF TreesInv, Recording, DaemonKilled
<1>7. Accountable'
  <2>1. /\ daemon = "up" /\ daemon' = "down" /\ lost' = lost \union {g.id : g \in {x \in going : x.phase = "term"}}
        /\ UNCHANGED <<table, records, seen>>
    BY DEF DaemonKilled
  <2> SUFFICES ASSUME NEW s \in seen, Alive(s[1])
               PROVE  \/ \E p \in Pids : records[p] # Free /\ records[p].id = s[2] /\ \E x \in records[p].desc : x.id = s[1]
                      \/ s[2] \in lost'
    BY <2>1 DEF Accountable, Alive
  <2>2. \A g \in going : g.pid \in Pids /\ g.phase \in {"taken", "term"}
    BY DEF TreesInv, TreesTyped, Teardowns
  <2>3. CASE \E p \in Pids : tracked[p] # Free /\ tracked[p].id = s[2] /\ \E x \in tracked[p].desc : x.id = s[1]
    BY <2>3 DEF TreesInv, Recording
  <2>4. CASE \E g \in going : g.id = s[2] /\ \E x \in g.desc : x.id = s[1]
    <3>1. PICK g \in going : g.id = s[2] /\ \E x \in g.desc : x.id = s[1]
      BY <2>4
    <3>2. CASE g.phase = "taken"
      <4>1. g.desc # {} /\ g.pid \in Pids
        BY <2>2, <3>1
      <4>2. records[g.pid] # Free /\ records[g.pid].id = g.id /\ records[g.pid].desc = g.desc
        BY <3>2, <4>1 DEF TreesInv, Recording
      <4> QED BY <3>1, <4>1, <4>2
    <3>3. CASE g.phase = "term"
      BY <2>1, <3>1, <3>3
    <3> QED BY <2>2, <3>2, <3>3
  <2> QED BY <2>1, <2>3, <2>4 DEF TreesInv, Accountable
<1> QED BY <1>1, <1>2, <1>3, <1>4, <1>5, <1>6, <1>7 DEF TreesInv

\* DaemonReturns keeps the invariant.
LEMMA DaemonReturnsKeeps ==
    ASSUME TreesInv, DaemonReturns
    PROVE  TreesInv'
<1>1. (Kinship /\ Remembers /\ Listing /\ Leading)'
    BY DEF TreesInv, Kinship, Remembers, Names, Listing, IsAt, Leading, DaemonReturns
<1>2. TreesTyped'
    BY DEF TreesInv, TreesTyped, Teardowns, Processes, DaemonReturns
<1>3. Recording'
    BY DEF TreesInv, Recording, DaemonReturns
<1>4. Accountable'
    BY DEF TreesInv, Accountable, Alive, DaemonReturns
<1> QED BY <1>1, <1>2, <1>3, <1>4 DEF TreesInv

\* RecordsDone keeps the invariant.
LEMMA RecordsDoneKeeps ==
    ASSUME TreesInv, RecordsDone
    PROVE  TreesInv'
<1>1. (Kinship /\ Remembers /\ Listing /\ Leading)'
    BY DEF TreesInv, Kinship, Remembers, Names, Listing, IsAt, Leading, RecordsDone
<1>2. TreesTyped'
    BY DEF TreesInv, TreesTyped, Teardowns, Processes, RecordsDone
<1>3. Recording'
    BY DEF TreesInv, Recording, RecordsDone
<1>4. Accountable'
    BY DEF TreesInv, Accountable, Alive, RecordsDone
<1> QED BY <1>1, <1>2, <1>3, <1>4 DEF TreesInv

\* SampleList keeps the invariant.
LEMMA SampleListKeeps ==
    ASSUME TreesInv, SampleList
    PROVE  TreesInv'
<1>1. (Kinship /\ Leading /\ Accountable)'
    BY DEF TreesInv, Kinship, Leading, Accountable, Alive, SampleList, Descendants, Row, Kids,
      Leaders
<1>2. TreesTyped'
    BY DEF TreesInv, TreesTyped, Teardowns, Processes, SampleList, Descendants, Row, Kids,
      Leaders
<1>3. Remembers'
  <2>1. (/\ \A p \in Pids : tracked[p] # Free => \A x \in tracked[p].desc : Names(x)
         /\ \A p \in Pids : records[p] # Free => \A x \in records[p].desc : Names(x)
         /\ \A g \in going : \A x \in g.desc : Names(x))'
    BY DEF TreesInv, Remembers, Names, SampleList, Descendants, Row, Kids, Leaders
  <2>2. (shot # Free => \A l \in shot.todo : \A x \in shot.found[l] : Names(x))'
    <3>1. /\ shot' = [id |-> 1, todo |-> Leaders, found |-> [l \in Leaders |-> Descendants(l)], live |-> Live]
          /\ UNCHANGED <<table, born>>
      BY DEF SampleList
    <3>2. ASSUME NEW l \in Leaders, NEW x \in Descendants(l) PROVE Names(x)
      <4>1. l \in Pids /\ (l \in Live => l \in Kin)
        BY DEF Leaders, TreesInv, Leading
      <4>2. PICK p \in Kin : x = Row(p)
        BY <4>1, DescendantsAreKin DEF TreesInv
      <4> QED BY <4>2, RowNames DEF TreesInv
    <3>3. \A x : Names(x) => Names(x)'
      BY <3>1 DEF Names
    <3>4. shot'.todo = Leaders /\ \A l \in Leaders : shot'.found[l] = Descendants(l)
      BY <3>1
    <3> QED BY <3>2, <3>3, <3>4
  <2> QED BY <2>1, <2>2 DEF Remembers
<1>4. Listing'
    BY DEF TreesInv, Listing, IsAt, TreesTyped, Teardowns, Processes, SampleList, Descendants,
      Row, Kids, Leaders
<1>5. Recording'
    BY DEF TreesInv, Recording, SampleList, Descendants, Row, Kids, Leaders
<1> QED BY <1>1, <1>2, <1>3, <1>4, <1>5 DEF TreesInv

\* KillTree keeps the invariant.
LEMMA KillTreeKeeps ==
    ASSUME TreesInv, NEW g \in going, KillTree(g)
    PROVE  TreesInv' /\ Spared
<1> DEFINE dead == {p \in Live : table[p].pg = g.pid} \union TrackedKill(g.pid, g.desc, g.groups)
<1>1. /\ daemon = "up" /\ table' = Without(table, dead) /\ going' = going \ {g} /\ reaped' = reaped \union {g.id}
      /\ UNCHANGED <<born, commands, tracked, shot, records, daemon, runOver, falls, seen, lost>>
      /\ g.phase = "term"
  BY DEF KillTree
<1>2. g \in Teardowns /\ g.desc \in SUBSET Rows /\ (\A x \in g.desc : Names(x)) /\ g.id \in Ids /\ g.id <= born
  BY DEF TreesInv, TreesTyped, Teardowns, Remembers, Leading
<1>3. dead \subseteq Kin
  <2>1. {p \in Live : table[p].pg = g.pid} \subseteq Kin
    BY <1>2 DEF TreesInv, TreesTyped, Kinship, Leading, Teardowns, Processes
  <2>2. TrackedKill(g.pid, g.desc, g.groups) \subseteq Kin
    BY <1>2, KillsHitKin DEF TrackedKill, TreesInv
  <2> QED BY <2>1, <2>2
<1>4. \A x \in g.desc : IsAt(x) => x.pid \in dead
  BY DEF TrackedKill, PidKill
<1> HIDE DEF dead
<1>5. /\ TableTyped' /\ Kinship' /\ TableStep /\ Spared
      /\ Live' = Live \ dead /\ Kin' = Kin \ dead
  BY <1>1, <1>3, Deaths DEF TreesInv
<1>6. TreesTyped'
  BY <1>1, <1>2, <1>5 DEF TreesInv, TreesTyped, TableTyped
<1>7. (Remembers /\ Listing)'
  BY <1>1, <1>5, MemoryLasts
<1>8. Leading'
  <2>1. \A p \in Pids : tracked[p] # Free => g.id # tracked[p].id
    BY DEF TreesInv, Leading
  <2>2. \A h \in going \ {g} : h.id # g.id
    BY DEF TreesInv, Leading
  <2>3. g.id \notin lost
    BY DEF TreesInv, Leading
  <2>4. ASSUME NEW p \in Pids, tracked[p] # Free
        PROVE  /\ tracked[p].id <= born /\ tracked[p].id \notin reaped' \union lost
               /\ p \in Live' => p \in Kin'
               /\ \A x, y \in tracked[p].desc : x.pid = y.pid => x = y
               /\ \A q \in Pids : tracked[q] # Free /\ tracked[q].id = tracked[p].id => q = p
               /\ \A h \in going' : h.pid # p /\ h.id # tracked[p].id
    BY <1>1, <1>5, <2>1, <2>4 DEF TreesInv, Leading
  <2>5. ASSUME NEW h \in going'
        PROVE  /\ h.id <= born /\ h.id \notin reaped' \union lost
               /\ h.pid \in Live' => h.pid \in Kin'
               /\ \A k \in going' : k.pid = h.pid \/ k.id = h.id => k = h
    BY <1>1, <1>5, <2>2 DEF TreesInv, Leading
  <2>6. /\ reaped' \intersect lost = {}
        /\ \A i \in reaped' \union lost : i <= born
        /\ \A s \in seen : s[1] <= born /\ s[2] <= born
    BY <1>1, <1>2, <2>3 DEF TreesInv, Leading
  <2> QED BY <1>1, <2>4, <2>5, <2>6 DEF Leading
<1>9. Recording'
  <2>1. ASSUME NEW p \in Pids, records[p] # Free
        PROVE  /\ records[p].id <= born /\ records[p].id \notin reaped'
               /\ \/ records[p] = tracked[p]
                  \/ \E h \in going' : h.pid = p /\ h.phase = "taken" /\ h.id = records[p].id
    <3>1. CASE records[p] = tracked[p]
      BY <1>1, <2>1, <3>1 DEF TreesInv, Recording, Leading
    <3>2. CASE \E h \in going : h.pid = p /\ h.phase = "taken" /\ h.id = records[p].id
      <4>1. PICK h \in going : h.pid = p /\ h.phase = "taken" /\ h.id = records[p].id
        BY <3>2
      <4>2. h # g /\ h \in going' /\ h.id # g.id
        BY <1>1, <4>1 DEF TreesInv, Leading
      <4> QED BY <1>1, <2>1, <4>1, <4>2 DEF TreesInv, Recording
    <3> QED BY <1>1, <2>1, <3>1, <3>2 DEF TreesInv, Recording
  <2> QED BY <1>1, <2>1 DEF TreesInv, Recording
<1>10. Accountable'
  <2> SUFFICES ASSUME NEW s \in seen, Alive(s[1])'
               PROVE  \/ \E p \in Pids : tracked[p] # Free /\ tracked[p].id = s[2] /\ \E x \in tracked[p].desc : x.id = s[1]
                      \/ \E h \in going' : h.id = s[2] /\ \E x \in h.desc : x.id = s[1]
                      \/ s[2] \in lost
    BY <1>1 DEF Accountable
  <2>1. Alive(s[1])
    BY <1>5, BornLast
  <2>2. \A x \in g.desc : x.id # s[1]
    BY <1>2, <1>4, <1>5, KilledIsDead DEF TreesInv
  <2> QED BY <1>1, <2>1, <2>2 DEF TreesInv, Accountable
<1> QED BY <1>5, <1>6, <1>7, <1>8, <1>9, <1>10 DEF TreesInv

\* ReapOrphanedTree keeps the invariant.
LEMMA ReapOrphanedTreeKeeps ==
    ASSUME TreesInv, NEW l \in Pids, ReapOrphanedTree(l)
    PROVE  TreesInv' /\ Spared
<1> DEFINE rec == records[l]
           dead == RecordKill(l, rec)
<1>1. /\ daemon = "records" /\ rec # Free /\ table' = Without(table, dead)
      /\ records' = [records EXCEPT ![l] = Free]
      /\ lost' = IF Up(l) /\ table[l].id = rec.id THEN lost \union {rec.id} ELSE lost
      /\ UNCHANGED <<born, commands, tracked, shot, going, daemon, runOver, falls, seen, reaped>>
  BY DEF ReapOrphanedTree
<1>2. /\ rec \in Entries /\ rec.desc \in SUBSET Rows /\ (\A x \in rec.desc : Names(x))
      /\ rec.id \in Ids /\ rec.id <= born /\ rec.id \notin reaped
  BY <1>1 DEF TreesInv, TreesTyped, Remembers, Recording
<1>3. dead \subseteq Kin
  BY <1>2, KillsHitKin DEF RecordKill, TreesInv
<1>4. rec.id \notin lost' => \A x \in rec.desc : IsAt(x) => x.pid \in dead
  BY <1>1 DEF RecordKill, PidKill
<1> HIDE DEF dead
<1>5. /\ TableTyped' /\ Kinship' /\ TableStep /\ Spared
      /\ Live' = Live \ dead /\ Kin' = Kin \ dead
  BY <1>1, <1>3, Deaths DEF TreesInv
<1>6. /\ going = {} /\ shot = Free /\ \A p \in Pids : tracked[p] = Free
  BY <1>1 DEF TreesInv, Recording
<1>7. \A p \in Pids : records'[p] = IF p = l THEN Free ELSE records[p]
  BY <1>1 DEF TreesInv, TreesTyped
<1> HIDE DEF rec
<1>8. TreesTyped'
  BY <1>1, <1>2, <1>5 DEF TreesInv, TreesTyped, TableTyped
<1>9. (Remembers /\ Listing)'
  BY <1>1, <1>5, <1>7, MemoryLasts
<1>10. Leading'
  BY <1>1, <1>2, <1>6 DEF TreesInv, Leading
<1>11. Recording'
  BY <1>1, <1>6, <1>7 DEF TreesInv, Recording
<1>12. Accountable'
  <2> SUFFICES ASSUME NEW s \in seen, Alive(s[1])'
               PROVE  \/ \E p \in Pids : records'[p] # Free /\ records'[p].id = s[2] /\ \E x \in records'[p].desc : x.id = s[1]
                      \/ s[2] \in lost'
    BY <1>1 DEF Accountable
  <2>1. Alive(s[1])
    BY <1>5, BornLast
  <2>2. rec.id \in lost' \/ \A x \in rec.desc : x.id # s[1]
    BY <1>2, <1>4, <1>5, KilledIsDead DEF TreesInv
  <2>3. \/ \E p \in Pids : records[p] # Free /\ records[p].id = s[2] /\ \E x \in records[p].desc : x.id = s[1]
        \/ s[2] \in lost
    BY <1>6, <2>1 DEF TreesInv, Accountable
  <2>4. CASE \E p \in Pids : records[p] # Free /\ records[p].id = s[2] /\ \E x \in records[p].desc : x.id = s[1]
    <3>1. PICK p \in Pids : records[p] # Free /\ records[p].id = s[2] /\ \E x \in records[p].desc : x.id = s[1]
      BY <2>4
    <3>2. CASE p = l
      BY <2>2, <3>1, <3>2 DEF rec
    <3>3. CASE p # l
      BY <1>7, <3>1, <3>3
    <3> QED BY <3>2, <3>3
  <2> QED BY <1>1, <2>3, <2>4
<1> QED BY <1>5, <1>8, <1>9, <1>10, <1>11, <1>12 DEF TreesInv

\* SampleMerge keeps the invariant.
LEMMA SampleMergeKeeps ==
    ASSUME TreesInv, SampleMerge
    PROVE  TreesInv' /\ Spared
<1>1. PICK l \in shot.todo :
        /\ shot' = IF shot.todo = {l} THEN Free ELSE [shot EXCEPT !.todo = @ \ {l}]
        /\ IF StillTracked(l)
           THEN LET entry == IF tracked[l] = Free THEN [id |-> 1, desc |-> {}, groups |-> {}] ELSE tracked[l]
                    next == Merge(entry, l, shot.found[l], shot.live)
                IN  /\ tracked' = IF tracked[l] = Free THEN tracked ELSE [tracked EXCEPT ![l] = next]
                    /\ records' = IF next = entry /\ tracked[l] # Free THEN records ELSE [records EXCEPT ![l] = next]
                    /\ seen' = seen \union {<<d.id, entry.id>> : d \in shot.found[l]}
           ELSE UNCHANGED <<tracked, records, seen>>
  BY DEF SampleMerge
<1>2. /\ daemon = "up" /\ shot # Free
      /\ UNCHANGED <<table, born, commands, going, daemon, runOver, falls, reaped, lost>>
  BY DEF SampleMerge
<1>3. /\ shot \in [id : {1}, todo : SUBSET Pids, found : {shot.found}, live : SUBSET Pids]
      /\ \A m \in shot.todo : shot.found[m] \subseteq Rows
      /\ l \in Pids
  BY <1>2 DEF TreesInv, TreesTyped
<1>4. shot' # Free => /\ shot' \in [id : {1}, todo : SUBSET Pids, found : {shot'.found}, live : SUBSET Pids]
                      /\ shot'.todo \subseteq shot.todo /\ shot'.found = shot.found /\ shot'.live = shot.live
  BY <1>1, <1>3
<1>5. Kinship' /\ Spared
  BY <1>2 DEF TreesInv, Kinship, Spared
<1>6. CASE tracked[l] = Free
  <2>1. UNCHANGED <<tracked, records, seen>>
    BY <1>1, <1>6 DEF StillTracked
  <2>2. TreesTyped'
    BY <1>2, <1>3, <1>4, <2>1 DEF TreesInv, TreesTyped
  <2>3. Remembers'
    BY <1>2, <1>4, <2>1 DEF TreesInv, Remembers, Names
  <2>4. Listing'
    BY <1>2, <1>4, <2>1 DEF TreesInv, Listing, IsAt
  <2>5. Leading'
    BY <1>2, <2>1 DEF TreesInv, Leading
  <2>6. Recording'
    BY <1>2, <2>1 DEF TreesInv, Recording
  <2>7. Accountable'
    BY <1>2, <2>1 DEF TreesInv, Accountable, Alive
  <2> QED BY <1>5, <2>2, <2>3, <2>4, <2>5, <2>6, <2>7 DEF TreesInv
<1>7. CASE tracked[l] # Free
  <2> DEFINE entry == tracked[l]
             found == shot.found[l]
             next == Merge(entry, l, found, shot.live)
  <2>1. /\ tracked' = [tracked EXCEPT ![l] = next]
        /\ records' = IF next = entry THEN records ELSE [records EXCEPT ![l] = next]
        /\ seen' = seen \union {<<d.id, entry.id>> : d \in found}
    BY <1>1, <1>7 DEF StillTracked
  <2>2. /\ entry \in Entries /\ found \in SUBSET Rows /\ shot.live \in SUBSET Pids
        /\ entry.id \in Ids /\ entry.desc \subseteq Rows
    BY <1>3, <1>7 DEF TreesInv, TreesTyped
  <2>13. Merges(next, entry, found, shot.live)
    BY <2>2, Merged
  <2> HIDE DEF next
  <2>3. /\ next \in Entries /\ next.id = entry.id
        /\ \A x \in next.desc : /\ x.pid \in shot.live
                                /\ x \in found \/ (x \in entry.desc /\ \A y \in found : y.pid # x.pid)
        /\ \A x \in found : x.pid \in shot.live => x \in next.desc
        /\ \A x \in entry.desc : x.pid \in shot.live /\ (\A y \in found : y.pid # x.pid) => x \in next.desc
    BY <2>13 DEF Merges
  <2>4. /\ tracked'[l] = next /\ next # Free
        /\ \A p \in Pids : p # l => tracked'[p] = tracked[p]
        /\ \A p \in Pids : p # l => records'[p] = records[p]
        /\ records'[l] = next \/ (records'[l] = records[l] /\ next = entry)
    BY <1>3, <2>1, <2>3 DEF TreesInv, TreesTyped
  <2>5. /\ \A x \in entry.desc : Names(x)
        /\ \A m \in shot.todo : \A x \in shot.found[m] : Names(x)
    BY <1>2, <1>3, <1>7 DEF TreesInv, Remembers
  <2>6. /\ \A k, m \in shot.todo : \A x \in shot.found[k], y \in shot.found[m] : x.pid = y.pid => x = y
        /\ \A k \in shot.todo : \A x \in shot.found[k] : x.pid \in shot.live
        /\ \A x \in entry.desc : IsAt(x) =>
              /\ x.pid \in shot.live
              /\ \A k \in shot.todo : \A y \in shot.found[k] : y.pid = x.pid => y.id = x.id
    BY <1>2, <1>3, <1>7 DEF TreesInv, Listing
  <2>7. TreesTyped'
    <3>1. (tracked \in [Pids -> Entries \union {Free}])'
      BY <2>1, <2>3 DEF TreesInv, TreesTyped
    <3>2. (records \in [Pids -> Entries \union {Free}])'
      BY <2>1, <2>3 DEF TreesInv, TreesTyped
    <3>3. (seen \subseteq Ids \X Ids)'
      BY <2>1, <2>2 DEF TreesInv, TreesTyped
    <3> QED BY <1>2, <1>3, <1>4, <3>1, <3>2, <3>3 DEF TreesInv, TreesTyped
  <2>8. Remembers'
    <3>1. \A x \in next.desc : Names(x)
      BY <2>3, <2>5
    <3>2. \A p \in Pids : tracked'[p] # Free => \A x \in tracked'[p].desc : Names(x)
      BY <2>4, <3>1 DEF TreesInv, Remembers
    <3>3. \A p \in Pids : records'[p] # Free => \A x \in records'[p].desc : Names(x)
      BY <2>4, <3>1 DEF TreesInv, Remembers
    <3>4. shot' # Free => \A m \in shot'.todo : \A x \in shot'.found[m] : Names(x)
      BY <1>4, <2>5
    <3>5. \A g \in going : \A x \in g.desc : Names(x)
      BY DEF TreesInv, Remembers
    <3>6. \A x : Names(x) => Names(x)'
      BY <1>2 DEF Names
    <3> QED BY <1>2, <3>2, <3>3, <3>4, <3>5, <3>6 DEF Remembers
  <2>9. Listing'
    <3>1. \A x : IsAt(x)' => IsAt(x)
      BY <1>2 DEF IsAt
    <3>2. \A x \in next.desc : IsAt(x) =>
              \A k \in shot.todo : \A y \in shot.found[k] : y.pid = x.pid => y.id = x.id
      BY <2>3, <2>6
    <3>3. ASSUME shot' # Free, NEW p \in Pids, tracked'[p] # Free, NEW x \in tracked'[p].desc, IsAt(x)'
          PROVE  /\ x.pid \in shot'.live
                 /\ \A k \in shot'.todo : \A y \in shot'.found[k] : y.pid = x.pid => y.id = x.id
      <4>1. CASE p = l
        BY <1>4, <2>3, <2>4, <3>1, <3>2, <3>3, <4>1
      <4>2. CASE p # l
        BY <1>2, <1>4, <2>4, <3>1, <3>3, <4>2 DEF TreesInv, Listing
      <4> QED BY <4>1, <4>2
    <3> QED BY <1>4, <2>6, <3>3 DEF Listing
  <2>10. Leading'
    <3>1. \A x, y \in next.desc : x.pid = y.pid => x = y
      BY <1>7, <1>3, <2>3, <2>6 DEF TreesInv, Leading
    <3>2. \A s \in seen' : s[1] <= born /\ s[2] <= born
      <4>1. entry.id <= born
        BY <1>3, <1>7 DEF TreesInv, Leading
      <4>2. \A d \in found : d.id <= born
        BY <2>5 DEF Names
      <4> QED BY <2>1, <4>1, <4>2 DEF TreesInv, Leading
    <3>3. \A p \in Pids : /\ tracked'[p] # Free <=> tracked[p] # Free
                          /\ tracked[p] # Free => tracked'[p].id = tracked[p].id
      BY <1>7, <2>3, <2>4
    <3>4. \A p \in Pids : tracked'[p] # Free => \A x, y \in tracked'[p].desc : x.pid = y.pid => x = y
      BY <2>4, <3>1 DEF TreesInv, Leading
    <3> QED BY <1>2, <3>2, <3>3, <3>4 DEF TreesInv, Leading
  <2>11. Recording'
    <3>1. \A g \in going : g.pid # l
      BY <1>3, <1>7 DEF TreesInv, Leading
    <3>2. \A g \in going : g.pid \in Pids
      BY DEF TreesInv, TreesTyped, Teardowns
    <3>3. entry.id <= born /\ entry.id \notin reaped
      BY <1>3, <1>7 DEF TreesInv, Leading
    <3>4. tracked'[l].desc # {} => records'[l] = tracked'[l]
      BY <1>3, <1>7, <2>4 DEF TreesInv, Recording
    <3>5. records'[l] # Free => /\ records'[l].id <= born /\ records'[l].id \notin reaped
                                /\ records'[l] = tracked'[l]
      BY <1>2, <1>3, <1>7, <2>3, <2>4, <3>1, <3>3 DEF TreesInv, Recording
    <3>6. \A p \in Pids : tracked'[p] # Free /\ tracked'[p].desc # {} => records'[p] = tracked'[p]
      BY <2>4, <3>4 DEF TreesInv, Recording
    <3>7. \A g \in going : g.phase = "taken" /\ g.desc # {} =>
              records'[g.pid] # Free /\ records'[g.pid].id = g.id /\ records'[g.pid].desc = g.desc
      <4>1. \A g \in going : records'[g.pid] = records[g.pid]
        BY <2>4, <3>1, <3>2
      <4> QED BY <4>1 DEF TreesInv, Recording
    <3>8. \A p \in Pids : records'[p] # Free =>
              /\ records'[p].id <= born /\ records'[p].id \notin reaped
              /\ \/ records'[p] = tracked'[p]
                 \/ \E g \in going : g.pid = p /\ g.phase = "taken" /\ g.id = records'[p].id
      BY <1>2, <2>4, <3>5 DEF TreesInv, Recording
    <3> QED BY <1>2, <3>6, <3>7, <3>8 DEF Recording
  <2>12. Accountable'
    <3> SUFFICES ASSUME NEW s \in seen', Alive(s[1])
                 PROVE  \/ \E p \in Pids : tracked'[p] # Free /\ tracked'[p].id = s[2] /\ \E x \in tracked'[p].desc : x.id = s[1]
                        \/ \E g \in going : g.id = s[2] /\ \E x \in g.desc : x.id = s[1]
                        \/ s[2] \in lost
      BY <1>2 DEF Accountable, Alive
    <3>1. \A x \in found : \E y \in next.desc : y.id = x.id
      BY <2>3, <2>6, <1>3
    <3>2. \A x \in entry.desc : x.id = s[1] => \E y \in next.desc : y.id = x.id
      <4> SUFFICES ASSUME NEW x \in entry.desc, x.id = s[1] PROVE \E y \in next.desc : y.id = x.id
        OBVIOUS
      <4>1. IsAt(x)
        BY <2>5 DEF Alive, Names, IsAt
      <4>2. CASE \E y \in found : y.pid = x.pid
        BY <2>6, <3>1, <4>1, <4>2
      <4>3. CASE ~\E y \in found : y.pid = x.pid
        BY <2>3, <2>6, <4>1, <4>3
      <4> QED BY <4>2, <4>3
    <3>3. CASE s \in seen
      <4>1. \/ \E p \in Pids : tracked[p] # Free /\ tracked[p].id = s[2] /\ \E x \in tracked[p].desc : x.id = s[1]
            \/ \E g \in going : g.id = s[2] /\ \E x \in g.desc : x.id = s[1]
            \/ s[2] \in lost
        BY <1>2, <3>3 DEF TreesInv, Accountable
      <4>2. ASSUME NEW p \in Pids, tracked[p] # Free, tracked[p].id = s[2], \E x \in tracked[p].desc : x.id = s[1]
            PROVE  tracked'[p] # Free /\ tracked'[p].id = s[2] /\ \E x \in tracked'[p].desc : x.id = s[1]
        <5>1. CASE p = l
          BY <2>3, <2>4, <3>2, <4>2, <5>1
        <5>2. CASE p # l
          BY <2>4, <4>2, <5>2
        <5> QED BY <5>1, <5>2
      <4> QED BY <4>1, <4>2
    <3>4. CASE \E d \in found : s = <<d.id, entry.id>>
      BY <1>3, <2>3, <2>4, <3>1, <3>4
    <3> QED BY <2>1, <3>3, <3>4
  <2> QED BY <1>5, <2>7, <2>8, <2>9, <2>10, <2>11, <2>12 DEF TreesInv
<1> QED BY <1>6, <1>7

\* The invariant holds before any command was started.
LEMMA TreesInitially == TreesInit => TreesInv
<1> SUFFICES ASSUME TreesInit PROVE TreesInv
  OBVIOUS
<1>1. Live = {} /\ table = [p \in Pids |-> Free] /\ tracked = [p \in Pids |-> Free] /\ records = [p \in Pids |-> Free]
  BY DEF TreesInit
<1>2. TreesTyped
  <2>1. table \in [Pids -> Processes \union {Free}]
    BY <1>1
  <2>2. tracked \in [Pids -> Entries \union {Free}] /\ records \in [Pids -> Entries \union {Free}]
    BY <1>1
  <2>3. born \in 0..MaxBirths /\ commands \in 0..MaxCommands /\ falls \in 0..MaxFalls
    BY DEF TreesInit
  <2>4. shot = Free /\ going = {} /\ daemon = "up" /\ seen = {} /\ reaped = {} /\ lost = {}
    BY DEF TreesInit
  <2>5. runOver \in BOOLEAN
    BY Zenon DEF TreesInit
  <2> QED BY <2>1, <2>2, <2>3, <2>4, <2>5 DEF TreesTyped
<1>3. Kinship /\ Remembers /\ Listing /\ Leading /\ Recording /\ Accountable
  BY <1>1 DEF TreesInit, Kinship, Remembers, Listing, Leading, Recording, Accountable
<1> QED BY <1>2, <1>3 DEF TreesInv

\* A step of the agent servers leaves the trees alone.
LEMMA TreesStay ==
    ASSUME TreesInv, UNCHANGED treesVars
    PROVE  TreesInv' /\ Spared
<1>1. TreesTyped' /\ Kinship'
  BY DEF TreesInv, TreesTyped, Kinship
<1>2. Remembers' /\ Listing'
  BY DEF TreesInv, Remembers, Names, Listing, IsAt
<1>3. Leading' /\ Recording' /\ Accountable'
  BY DEF TreesInv, Leading, Recording, Accountable, Alive
<1> QED BY <1>1, <1>2, <1>3 DEF TreesInv, Spared

\* Every step of the trees keeps the invariant and kills no stranger.
LEMMA TreesStep ==
    ASSUME TreesInv, TreesNext
    PROVE  TreesInv' /\ Spared
<1>1. ASSUME UNCHANGED table PROVE Spared
  BY <1>1 DEF Spared
<1>2. ASSUME NEW p \in Pids, StartShellCommand(p) \/ Setsid(p) \/ Exit(p) \/ Stranger(p) PROVE TreesInv' /\ Spared
  BY <1>2, StartShellCommandKeeps, SetsidKeeps, ExitKeeps, StrangerKeeps
<1>3. ASSUME NEW q \in Pids, NEW p \in Pids, Fork(q, p) PROVE TreesInv' /\ Spared
  BY <1>3, ForkKeeps
<1>4. CASE SampleList
  BY <1>1, <1>4, SampleListKeeps DEF SampleList
<1>5. CASE SampleMerge
  BY <1>5, SampleMergeKeeps
<1>6. ASSUME NEW l \in Pids, TakeLeader(l) PROVE TreesInv' /\ Spared
  BY <1>1, <1>6, TakeLeaderKeeps DEF TakeLeader
<1>7. ASSUME NEW l \in Pids, ReapOrphanedTree(l) PROVE TreesInv' /\ Spared
  BY <1>7, ReapOrphanedTreeKeeps
<1>8. ASSUME NEW g \in going, DropRecord(g) PROVE TreesInv' /\ Spared
  BY <1>1, <1>8, DropRecordKeeps DEF DropRecord
<1>9. ASSUME NEW g \in going, KillTree(g) PROVE TreesInv' /\ Spared
  BY <1>9, KillTreeKeeps
<1>10. CASE SweepRun \/ ResumedRunEnds \/ SweepStartup
  BY <1>10, SweepRunKeeps, ResumedRunEndsKeeps, SweepStartupKeeps
<1>11. CASE DaemonKilled
  BY <1>1, <1>11, DaemonKilledKeeps DEF DaemonKilled
<1>12. CASE DaemonReturns
  BY <1>1, <1>12, DaemonReturnsKeeps DEF DaemonReturns
<1>13. CASE RecordsDone
  BY <1>1, <1>13, RecordsDoneKeeps DEF RecordsDone
<1> QED BY <1>2, <1>3, <1>4, <1>5, <1>6, <1>7, <1>8, <1>9, <1>10, <1>11, <1>12, <1>13 DEF TreesNext

\* The invariant implies what the trees promise.
LEMMA TreesAreSafe == TreesInv => TreesSafe
<1> SUFFICES ASSUME TreesInv PROVE TreesSafe
  OBVIOUS
<1>1. TreesTypeOK
  <2>1. \A p \in Pids : Up(p) => table[p] \in Processes
    BY DEF TreesInv, TreesTyped
  <2>2. \A p \in Pids : tracked[p] # Free =>
          tracked[p].id \in Ids /\ tracked[p].desc \subseteq Rows /\ tracked[p].groups \subseteq Pids
    BY DEF TreesInv, TreesTyped
  <2> QED BY <2>1, <2>2 DEF TreesInv, TreesTyped, Leading, TreesTypeOK
<1>2. SampledNeverLeaks
  BY DEF TreesInv, Accountable, Leading, Recording, SampledNeverLeaks
<1>3. RecordHasLeader
  BY DEF TreesInv, Recording, RecordHasLeader
<1>4. RecordedNeverLeaks
  BY DEF TreesInv, Accountable, Recording, RecordedNeverLeaks
<1> QED BY <1>1, <1>2, <1>3, <1>4 DEF TreesSafe

HIDE ProcTreesAssumption DEF Ids, Rows, Live, Up, Free, Kin, Entries, treesVars

-----------------------------------------------------------------------------
(* Both, side by side.                                                       *)

\* The two strengthened invariants hold of every behaviour.
THEOREM LeftoversInvHolds == LeftoversSpec => [](TreesInv /\ ServersInv)
<1>1. LeftoversInit => TreesInv /\ ServersInv
  BY TreesInitially, ServersInitially DEF LeftoversInit
<1>2. TreesInv /\ ServersInv /\ [LeftoversNext]_leftoversVars => (TreesInv /\ ServersInv)'
  <2> SUFFICES ASSUME TreesInv, ServersInv, [LeftoversNext]_leftoversVars PROVE TreesInv' /\ ServersInv'
    OBVIOUS
  <2>1. TreesNext \/ UNCHANGED treesVars
    BY DEF LeftoversNext, leftoversVars
  <2>2. ServersNext \/ UNCHANGED serversVars
    BY DEF LeftoversNext, leftoversVars
  <2> QED BY <2>1, <2>2, TreesStep, TreesStay, ServersStep, ServersStay
<1> QED BY <1>1, <1>2, PTL DEF LeftoversSpec

\* No process that a sample ever showed below a command survives its teardown, or its record after
\* a crash; no agent server of a dead daemon goes unnoticed (internal/procreap, internal/agent).
THEOREM LeftoversAreReaped == LeftoversSpec => []LeftoversReaped
<1>1. TreesInv /\ ServersInv => LeftoversReaped
  BY TreesAreSafe, ServersAreSafe DEF LeftoversReaped
<1> QED BY <1>1, LeftoversInvHolds, PTL

\* No kill of a teardown, a record, a sweep or a recovering daemon ever hits a stranger, nor a
\* server whose owner is alive.
THEOREM OthersAreSpared == LeftoversSpec => OthersSpared
<1>1. TreesInv /\ [LeftoversNext]_leftoversVars
        => [\A p \in Pids : Up(p) /\ ~table[p].kin => table'[p] = table[p]]_treesVars
  <2> SUFFICES ASSUME TreesInv, [LeftoversNext]_leftoversVars,
                      NEW p \in Pids, Up(p), ~table[p].kin, ~ UNCHANGED treesVars
               PROVE  table'[p] = table[p]
    OBVIOUS
  <2>1. TreesNext
    BY DEF LeftoversNext, leftoversVars
  <2>2. Spared
    BY <2>1, TreesStep
  <2>3. table[p].kin \in BOOLEAN
    BY DEF TreesInv, TreesTyped, Processes, Up, Free
  <2> QED BY <2>2, <2>3 DEF Spared, Live
<1>2. ServersInv /\ [LeftoversNext]_leftoversVars
        => [\A s \in cursor \ cursor' : pidOf'[s] # pidOf[s] => Running(s) /\ ~OwnerUp(s)]_serversVars
  <2> SUFFICES ASSUME ServersInv, [LeftoversNext]_leftoversVars, ~ UNCHANGED serversVars
               PROVE  \A s \in cursor \ cursor' : pidOf'[s] # pidOf[s] => Running(s) /\ ~OwnerUp(s)
    OBVIOUS
  <2>1. ServersNext
    BY DEF LeftoversNext, leftoversVars
  <2> QED BY <2>1, OnlyOrphansReaped DEF ReapsAnOrphan
<1> QED BY <1>1, <1>2, LeftoversInvHolds, PTL DEF LeftoversSpec, OthersSpared, StrangersSpared, ReapsOnlyOrphans
=============================================================================

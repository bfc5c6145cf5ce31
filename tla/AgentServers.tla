---------------------------- MODULE AgentServers ----------------------------
(* The servers opencode and rovodev turns talk to (internal/agent/server.go, *)
(* serverpid.go) and what a restarted daemon does with the ones its          *)
(* predecessor left (internal/daemon/recover_servers.go). The daemon and the *)
(* setup wizard each own an agent with at most one server; a PID file says   *)
(* whose a server is. A server's pid and its owner's may be taken by a       *)
(* stranger once they are free; comparing start times is how the code tells, *)
(* so it is exact here. There is one daemon at a time (the singleton lock).  *)
EXTENDS Naturals

CONSTANTS
    MaxServers,  \* bound: servers ever launched
    MaxDeaths,   \* bound: deaths of the daemon
    TurnTries,   \* attempts of a turn (claudeMaxRetries + 1)
    Dirs         \* launch directories the turns of a run may ask for

ASSUME ServersAssumption == MaxServers \in Nat /\ MaxDeaths \in Nat /\ TurnTries \in Nat \ {0}

Owners == {"daemon", "wizard"}
Servers == 1..MaxServers

VARIABLES
    pidOf,    \* who has the pid of a server: "unborn", "server", "none", "stranger"
    file,     \* its PID file exists
    origin,   \* its owner, the owner's instance and its launch directory
    inst,     \* each owner's instance, whether it is up, and the server its agent holds
    up,
    held,
    tpc,      \* each owner's turn: where it is, its launch directory, its attempt, its server
    tdir,
    tries,
    tsrv,
    cursor,   \* PID files a recovering daemon has still to look at
    unfiled,  \* servers whose file could not be written, or whose owner died before it was
    stuck     \* servers that survived a kill

turn == <<tpc, tdir, tries, tsrv>>
owner == <<inst, up, held, turn>>
serversVars == <<pidOf, file, origin, owner, cursor, unfiled, stuck>>

Running(s) == pidOf[s] = "server"
Born == {s \in Servers : pidOf[s] # "unborn"}
OwnerUp(s) == up[origin[s].who] /\ inst[origin[s].who] = origin[s].inst

ServersInit ==
    /\ pidOf = [s \in Servers |-> "unborn"] /\ file = [s \in Servers |-> FALSE]
    /\ origin = [s \in Servers |-> [who |-> "daemon", inst |-> 0, dir |-> 0]]
    /\ inst = [o \in Owners |-> 1] /\ up = [o \in Owners |-> TRUE] /\ held = [o \in Owners |-> 0]
    /\ tpc = [o \in Owners |-> "idle"] /\ tdir = [o \in Owners |-> 0]
    /\ tries = [o \in Owners |-> 1] /\ tsrv = [o \in Owners |-> 0]
    /\ cursor = {} /\ unfiled = {} /\ stuck = {}

TurnAt(o, pc) == up[o] /\ tpc[o] = pc

\* The turn goes on, with this server, or is over.
Goes(o, pc) == tpc' = [tpc EXCEPT ![o] = pc]
Serving(o, s) == tsrv' = [tsrv EXCEPT ![o] = s]
TurnOver(o) ==
    /\ Goes(o, "idle") /\ Serving(o, 0)
    /\ tdir' = [tdir EXCEPT ![o] = 0] /\ tries' = [tries EXCEPT ![o] = 1]

------------------------------------------------------------------------------
(* A turn. *)

\* Run: the first attempt of a turn in a directory; the wizard stays in its own.
BeginTurn(o) ==
    /\ TurnAt(o, "idle") /\ (o = "daemon" => cursor = {})
    /\ Goes(o, "ensure")
    /\ \E d \in IF o = "wizard" THEN {0} ELSE Dirs : tdir' = [tdir EXCEPT ![o] = d]
    /\ UNCHANGED <<pidOf, file, origin, inst, up, held, tries, tsrv, cursor, unfiled, stuck>>

\* matchesLaunch
MatchesLaunch(o) == origin[held[o]].dir = tdir[o]

\* ensureServer: the held server serves if it was launched for this directory; another
\* one is shut down first.
EnsureServer(o) ==
    /\ TurnAt(o, "ensure") /\ held[o] # 0
    /\ Goes(o, IF MatchesLaunch(o) THEN "serving" ELSE "stop") /\ Serving(o, held[o])
    /\ UNCHANGED <<pidOf, file, origin, inst, up, held, tdir, tries, cursor, unfiled, stuck>>

\* startServerWithPort: the process runs before its file exists.
StartServer(o) ==
    /\ TurnAt(o, "ensure") /\ held[o] = 0
    /\ Goes(o, "file")
    /\ \E s \in Servers :
        /\ pidOf[s] = "unborn" /\ \A r \in Servers : r < s => pidOf[r] # "unborn"
        /\ pidOf' = [pidOf EXCEPT ![s] = "server"]
        /\ origin' = [origin EXCEPT ![s] = [who |-> o, inst |-> inst[o], dir |-> tdir[o]]]
        /\ Serving(o, s)
    /\ UNCHANGED <<file, inst, up, held, tdir, tries, cursor, unfiled, stuck>>

\* cmd.Start fails, and with it the turn.
StartFails(o) ==
    /\ TurnAt(o, "ensure") /\ held[o] = 0
    /\ TurnOver(o)
    /\ UNCHANGED <<pidOf, file, origin, inst, up, held, cursor, unfiled, stuck>>

\* writeServerPIDFile is best effort.
WriteServerPIDFile(o) ==
    /\ TurnAt(o, "file") /\ Goes(o, "health")
    /\ \/ file' = [file EXCEPT ![tsrv[o]] = TRUE] /\ UNCHANGED unfiled
       \/ unfiled' = unfiled \union {tsrv[o]} /\ UNCHANGED file
    /\ UNCHANGED <<pidOf, origin, inst, up, held, tdir, tries, tsrv, cursor, stuck>>

\* waitForHealth: the server answers, or it exited, was too slow or the turn was
\* cancelled, and is shut down.
Healthy(o) ==
    /\ TurnAt(o, "health") /\ Running(tsrv[o])
    /\ Goes(o, "serving") /\ held' = [held EXCEPT ![o] = tsrv[o]]
    /\ UNCHANGED <<pidOf, file, origin, inst, up, tdir, tries, tsrv, cursor, unfiled, stuck>>

Unhealthy(o) ==
    /\ TurnAt(o, "health") /\ Goes(o, "drop")
    /\ UNCHANGED <<pidOf, file, origin, inst, up, held, tdir, tries, tsrv, cursor, unfiled, stuck>>

\* The answer, or an error that is not retried.
EndTurn(o) ==
    /\ TurnAt(o, "serving") /\ TurnOver(o)
    /\ UNCHANGED <<pidOf, file, origin, inst, up, held, cursor, unfiled, stuck>>

\* runWithRetry after a transient error: "connection refused" gives the server up first,
\* on the last attempt too.
Transient(o, refused) ==
    /\ TurnAt(o, "serving")
    /\ \/ /\ tries[o] < TurnTries
          /\ Goes(o, IF refused THEN "stop" ELSE "ensure")
          /\ tries' = [tries EXCEPT ![o] = @ + 1]
          /\ UNCHANGED <<tdir, tsrv>>
       \/ tries[o] = TurnTries /\ refused /\ Goes(o, "drop") /\ UNCHANGED <<tdir, tries, tsrv>>
       \/ tries[o] = TurnTries /\ ~refused /\ TurnOver(o)
    /\ UNCHANGED <<pidOf, file, origin, inst, up, held, cursor, unfiled, stuck>>

\* Close, when the run is over.
CloseAgent(o) ==
    /\ TurnAt(o, "idle") /\ held[o] # 0
    /\ Goes(o, "drop") /\ Serving(o, held[o])
    /\ UNCHANGED <<pidOf, file, origin, inst, up, held, tdir, tries, cursor, unfiled, stuck>>

------------------------------------------------------------------------------
(* shutdown: SIGTERM, three seconds, SIGKILL, five more. "stop" goes on with *)
(* the turn, "drop" ends it.                                                  *)

AfterShutdown(o) ==
    /\ held' = [held EXCEPT ![o] = 0]
    /\ \/ tpc[o] = "stop" /\ Goes(o, "ensure") /\ Serving(o, 0) /\ UNCHANGED <<tdir, tries>>
       \/ tpc[o] = "drop" /\ TurnOver(o)

\* The files a shutdown removes when the kill went unanswered: none.
UnconfirmedFile(s) == file

\* The exit is observed: the file goes too.
ShutdownConfirmed(o) ==
    /\ up[o] /\ AfterShutdown(o)
    /\ pidOf' = IF Running(tsrv[o]) THEN [pidOf EXCEPT ![tsrv[o]] = "none"] ELSE pidOf
    /\ file' = [file EXCEPT ![tsrv[o]] = FALSE]
    /\ UNCHANGED <<origin, inst, up, cursor, unfiled, stuck>>

\* It is not, even after SIGKILL: the agent lets go of the server.
ShutdownGivesUp(o) ==
    /\ up[o] /\ AfterShutdown(o) /\ Running(tsrv[o])
    /\ file' = UnconfirmedFile(tsrv[o]) /\ stuck' = stuck \union {tsrv[o]}
    /\ UNCHANGED <<pidOf, origin, inst, up, cursor, unfiled>>

------------------------------------------------------------------------------
(* The world: servers exit by themselves, pids are used again, owners die. *)

ServerExits(s) ==
    /\ Running(s)
    /\ pidOf' = [pidOf EXCEPT ![s] = "none"]
    /\ UNCHANGED <<file, origin, owner, cursor, unfiled, stuck>>

PidTaken(s) ==
    /\ pidOf[s] = "none" /\ ~OwnerUp(s)
    /\ pidOf' = [pidOf EXCEPT ![s] = "stranger"]
    /\ UNCHANGED <<file, origin, owner, cursor, unfiled, stuck>>

OwnerDies(o) ==
    /\ up[o] /\ (o = "daemon" => inst[o] <= MaxDeaths)
    /\ up' = [up EXCEPT ![o] = FALSE] /\ held' = [held EXCEPT ![o] = 0] /\ TurnOver(o)
    /\ unfiled' = IF tpc[o] = "file" THEN unfiled \union {tsrv[o]} ELSE unfiled
    /\ cursor' = IF o = "daemon" THEN {} ELSE cursor
    /\ UNCHANGED <<pidOf, file, origin, inst, stuck>>

\* The next daemon reads the directory before it runs anything.
DaemonStarts ==
    /\ ~up["daemon"]
    /\ up' = [up EXCEPT !["daemon"] = TRUE] /\ inst' = [inst EXCEPT !["daemon"] = @ + 1]
    /\ cursor' = {s \in Servers : file[s]}
    /\ UNCHANGED <<pidOf, file, origin, held, turn, unfiled, stuck>>

\* Mutant: a live wizard protects every file.
SkipWhileWizard(s) == up["wizard"]

\* shouldSkipOrphanRecord: a wizard that lives keeps its server.
SkipOrphan(s) == origin[s].who = "wizard" /\ up["wizard"]

\* orphanStartTimeMatches
StartMatches(s) == Running(s)

\* reapOrphanedServers, one file: skip it, forget it, or terminate the group; when that
\* fails the file stays for the next daemon.
ReapOrphanedServer(s) ==
    /\ s \in cursor /\ cursor' = cursor \ {s}
    /\ \/ SkipOrphan(s) /\ UNCHANGED <<pidOf, file, stuck>>
       \/ /\ ~SkipOrphan(s) /\ (~file[s] \/ pidOf[s] = "none" \/ ~StartMatches(s))
          /\ file' = [file EXCEPT ![s] = FALSE] /\ UNCHANGED <<pidOf, stuck>>
       \/ /\ ~SkipOrphan(s) /\ file[s] /\ pidOf[s] # "none" /\ StartMatches(s)
          /\ \/ pidOf' = [pidOf EXCEPT ![s] = "none"] /\ file' = [file EXCEPT ![s] = FALSE] /\ UNCHANGED stuck
             \/ stuck' = stuck \union {s} /\ UNCHANGED <<pidOf, file>>
    /\ UNCHANGED <<origin, owner, unfiled>>

ServersNext ==
    \/ \E o \in Owners :
        \/ BeginTurn(o) \/ EnsureServer(o) \/ StartServer(o) \/ StartFails(o) \/ WriteServerPIDFile(o)
        \/ Healthy(o) \/ Unhealthy(o) \/ EndTurn(o) \/ CloseAgent(o)
        \/ \E refused \in BOOLEAN : Transient(o, refused)
        \/ ShutdownConfirmed(o) \/ ShutdownGivesUp(o) \/ OwnerDies(o)
    \/ \E s \in Servers : ServerExits(s) \/ PidTaken(s) \/ ReapOrphanedServer(s)
    \/ DaemonStarts

ServersSpec == ServersInit /\ [][ServersNext]_serversVars

------------------------------------------------------------------------------
\* Every variable has its type.
ServersTypeOK ==
    /\ pidOf \in [Servers -> {"unborn", "server", "none", "stranger"}] /\ file \in [Servers -> BOOLEAN]
    /\ \A o \in Owners :
        held[o] \in 0..MaxServers /\ tsrv[o] \in 0..MaxServers /\ tries[o] \in 1..TurnTries
    /\ cursor \subseteq Servers /\ unfiled \subseteq Servers /\ stuck \subseteq Servers

\* A running server can always be found again: its file exists until its exit was seen,
\* except before it is written, when writing it failed or when its owner died just then.
FileOutlivesServer ==
    \A s \in Servers : Running(s) =>
        file[s] \/ s \in unfiled \/ \E o \in Owners : tpc[o] = "file" /\ tsrv[o] = s

\* Recovery ends no process but an orphan: not a stranger with an old pid, not a server
\* whose wizard is alive.
ReapsOnlyOrphans ==
    [][\A s \in cursor \ cursor' : pidOf'[s] # pidOf[s] => Running(s) /\ ~OwnerUp(s)]_serversVars

\* A daemon that has recovered has no running server of an earlier one to account for
\* but those that resisted a kill or never had a file.
PredecessorsAreGone ==
    up["daemon"] /\ cursor = {} =>
        \A s \in Servers : Running(s) /\ origin[s].who = "daemon" /\ origin[s].inst # inst["daemon"] =>
            s \in unfiled \union stuck

\* A turn is answered by a server launched for its directory.
ServedWhereAsked ==
    \A o \in Owners : tpc[o] = "serving" => origin[tsrv[o]].dir = tdir[o]

\* Every running server can be found again, none of a dead daemon's is left, and each serves
\* its own directory.
ServersSafe == ServersTypeOK /\ FileOutlivesServer /\ PredecessorsAreGone /\ ServedWhereAsked
=============================================================================

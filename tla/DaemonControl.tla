--------------------------- MODULE DaemonControl ----------------------------
(* The daemon process of one NS_HOME and the commands that start and stop   *)
(* it (daemon/selfexec.go, collision.go, lock.go, the life of the process   *)
(* in daemon.go): the singleton lock, the pid file, the socket, and on      *)
(* Linux the systemd unit that restarts the daemon whenever it dies.        *)
(*                                                                          *)
(* A process number is used once: the comparison of start times that keeps  *)
(* a recycled number from being taken for the daemon is exact here.         *)
EXTENDS Naturals

CONSTANTS
    Commands,     \* CLI processes
    MaxProcs      \* bound on the daemon processes ever started

ASSUME DaemonAssumption == MaxProcs \in Nat

Procs == 1..MaxProcs
Alive == {"boot", "locked", "recover", "ready", "drain", "closing", "parting"}

VARIABLES
    proc,      \* the daemon processes
    lock,      \* holder of the singleton lock, released by its death
    pidfile,   \* process named by the pid file
    sock,      \* process whose socket the path names; it may be dead
    installed, \* the service exists,
    activated, \* systemd keeps it running,
    mainPid,   \* with this main process
    does,      \* each command: start, stop or restart,
    place,     \* where it is,
    captured,  \* the daemon it means to stop,
    child,     \* the daemon it started itself,
    victims,   \* the processes it is about to kill,
    outcome,   \* and how it ended
    crowd      \* history: a command met another one, an outside signal, or a unit
               \* that systemd kept running behind an install that failed

unit == <<installed, activated, mainPid>>
cmd == <<does, place, captured, child, victims, outcome>>
daemonVars == <<proc, lock, pidfile, sock, unit, cmd, crowd>>

NewCommands ==
    /\ does \in [Commands -> {"start", "stop", "restart"}]
    /\ place = [c \in Commands |-> "idle"] /\ outcome = [c \in Commands |-> "none"]
    /\ captured = [c \in Commands |-> 0] /\ child = [c \in Commands |-> 0]
    /\ victims = [c \in Commands |-> {}]

DaemonInit ==
    /\ proc = [p \in Procs |-> "unborn"]
    /\ lock = 0 /\ pidfile = 0 /\ sock = 0
    /\ installed \in BOOLEAN /\ activated = FALSE /\ mainPid = 0
    /\ NewCommands
    /\ crowd = FALSE

Living(p) == p # 0 /\ proc[p] \in Alive
Fresh == {p \in Procs : proc[p] = "unborn" /\ \A q \in 1..p - 1 : proc[q] # "unborn"}
Accepting == sock # 0 /\ proc[sock] \in {"ready", "drain"}
Listed == {p \in Procs : Living(p)}

\* Death by a signal that cannot be refused, or by a crash: the lock goes,
\* the files stay.
Dead(S) == [p \in Procs |-> IF p \in S /\ Living(p) THEN "dead" ELSE proc[p]]
LockAfter(S) == IF lock \in S THEN 0 ELSE lock

\* SIGTERM: a daemon that is up drains its runs, one that has not yet
\* installed its handler dies.
Terminated(p) == [proc EXCEPT ![p] = CASE @ = "ready" -> "drain"
                                       [] @ \in {"boot", "locked", "recover"} -> "dead"
                                       [] OTHER -> @]

-----------------------------------------------------------------------------
(* The daemon *)

\* The lock comes before anything destructive; a second daemon gives up.
TakeSingleton(p) ==
    /\ proc[p] = "boot"
    /\ IF lock = 0 THEN /\ lock' = p /\ proc' = [proc EXCEPT ![p] = "locked"]
                   ELSE /\ proc' = [proc EXCEPT ![p] = "dead"] /\ UNCHANGED lock
    /\ UNCHANGED <<pidfile, sock, unit, cmd, crowd>>

\* The identity is published before recovery, the socket bound after it.
PublishPid(p) ==
    /\ proc[p] = "locked"
    /\ pidfile' = p
    /\ proc' = [proc EXCEPT ![p] = "recover"]
    /\ UNCHANGED <<lock, sock, unit, cmd, crowd>>

Bind(p) ==
    /\ proc[p] = "recover" /\ ~Accepting
    /\ sock' = p
    /\ proc' = [proc EXCEPT ![p] = "ready"]
    /\ UNCHANGED <<lock, pidfile, unit, cmd, crowd>>

\* Binding or the first health check fails: the pid file goes, and the process.
BindFails(p) ==
    /\ proc[p] = "recover"
    /\ pidfile' = IF pidfile = p THEN 0 ELSE pidfile
    /\ proc' = Dead({p}) /\ lock' = LockAfter({p})
    /\ UNCHANGED <<sock, unit, cmd, crowd>>

\* Runs drained, the listener closes and unlinks the path.
CloseListener(p) ==
    /\ proc[p] = "drain"
    /\ sock' = 0
    /\ proc' = [proc EXCEPT ![p] = "closing"]
    /\ UNCHANGED <<lock, pidfile, unit, cmd, crowd>>

\* The daemon removes its files if the pid file still names it, then ends;
\* the lock is the last thing to go.
RemoveOwnFiles(p) ==
    /\ proc[p] = "closing"
    /\ IF pidfile = p THEN pidfile' = 0 /\ sock' = 0 ELSE UNCHANGED <<pidfile, sock>>
    /\ proc' = [proc EXCEPT ![p] = "parting"]
    /\ UNCHANGED <<lock, unit, cmd, crowd>>

ProcessEnds(p) ==
    /\ proc[p] = "parting"
    /\ proc' = Dead({p}) /\ lock' = LockAfter({p})
    /\ UNCHANGED <<pidfile, sock, unit, cmd, crowd>>

\* The process dies, or is signalled by something that is not a command.
ProcessCrashes(p) ==
    /\ Living(p)
    /\ proc' = Dead({p}) /\ lock' = LockAfter({p})
    /\ UNCHANGED <<pidfile, sock, unit, cmd, crowd>>

OutsideSignal(p) ==
    /\ proc[p] = "ready"
    /\ proc' = Terminated(p) /\ crowd' = TRUE
    /\ UNCHANGED <<lock, pidfile, sock, unit, cmd>>

\* Restart=always.
UnitRespawns ==
    /\ activated /\ ~Living(mainPid)
    /\ \E p \in Fresh : /\ proc' = [proc EXCEPT ![p] = "boot"]
                        /\ mainPid' = p
    /\ UNCHANGED <<lock, pidfile, sock, installed, activated, cmd, crowd>>

\* systemctl stop kills what does not end in time.
UnitKills ==
    /\ ~activated /\ Living(mainPid)
    /\ proc' = Dead({mainPid}) /\ lock' = LockAfter({mainPid})
    /\ UNCHANGED <<pidfile, sock, unit, cmd, crowd>>

-----------------------------------------------------------------------------
(* The commands *)

In(c, p) == place[c] = p
Goto(c, p) == place' = [place EXCEPT ![c] = p] /\ UNCHANGED <<does, captured, child, victims, outcome>>
End(c, res) ==
    /\ place' = [place EXCEPT ![c] = "over"] /\ outcome' = [outcome EXCEPT ![c] = res]
    /\ UNCHANGED <<does, captured, child, victims>>
NoFiles == sock' = 0 /\ pidfile' = 0

BeginCommand(c) ==
    /\ In(c, "idle")
    /\ Goto(c, IF does[c] = "start" THEN "look" ELSE "capture")
    /\ crowd' = (crowd \/ \E d \in Commands : place[d] \notin {"idle", "over"})
    /\ UNCHANGED <<proc, lock, pidfile, sock, unit>>

\* Start: a daemon that answers is left alone. A process of this root that
\* does not answer is killed, with its unit and its files.
LookAndList(c) ==
    /\ In(c, "look")
    /\ IF Accepting THEN End(c, "already")
       ELSE IF Listed = {} THEN Goto(c, "launch")
       ELSE /\ place' = [place EXCEPT ![c] = "reap"] /\ victims' = [victims EXCEPT ![c] = Listed]
            /\ UNCHANGED <<does, captured, child, outcome>>
    /\ UNCHANGED <<proc, lock, pidfile, sock, unit, crowd>>

ReapColliding(c) ==
    /\ In(c, "reap")
    /\ IF Accepting
         THEN /\ End(c, "already") /\ UNCHANGED <<proc, lock, pidfile, sock, unit>>
         ELSE LET S == victims[c] \cup (IF activated THEN {mainPid} ELSE {})
              IN  /\ proc' = Dead(S) /\ lock' = LockAfter(S)
                  /\ activated' = FALSE /\ UNCHANGED <<installed, mainPid>>
                  /\ NoFiles
                  /\ Goto(c, "launch")
    /\ UNCHANGED crowd

\* The service cannot be installed: a remnant of an old one ends the command, a
\* daemon that answers meanwhile is as good, else the command starts its own
\* child. It does not stop a unit that systemd may still keep running.
InstallFails(c) ==
    /\ \/ End(c, "failed") /\ UNCHANGED <<sock, pidfile, crowd>>
       \/ Accepting /\ End(c, "ok") /\ UNCHANGED <<sock, pidfile, crowd>>
       \/ ~Accepting /\ NoFiles /\ Goto(c, "spawn") /\ crowd' = (crowd \/ activated)
    /\ UNCHANGED <<proc, unit>>

\* The service is preferred; without one the command clears the files of the
\* last daemon and starts its own child. Every one of these may fail.
LaunchDaemon(c) ==
    /\ In(c, "launch")
    /\ \/ /\ installed
          /\ IF activated /\ Living(mainPid)
               THEN UNCHANGED <<proc, unit>>
               ELSE \E p \in Fresh : /\ proc' = [proc EXCEPT ![p] = "boot"]
                                     /\ activated' = TRUE /\ mainPid' = p /\ UNCHANGED installed
          /\ Goto(c, "watch")
          /\ UNCHANGED <<sock, pidfile, crowd>>
       \/ /\ NoFiles
          /\ ~installed
          /\ Goto(c, "spawn")
          /\ UNCHANGED <<proc, unit, crowd>>
       \/ /\ installed
          /\ Goto(c, "fallback")
          /\ UNCHANGED <<proc, unit, sock, pidfile, crowd>>
       \/ InstallFails(c)
    /\ UNCHANGED lock

SpawnChild(c) ==
    /\ In(c, "spawn")
    /\ \/ \E p \in Fresh : /\ proc' = [proc EXCEPT ![p] = "boot"]
                           /\ place' = [place EXCEPT ![c] = "watch"] /\ child' = [child EXCEPT ![c] = p]
                           /\ UNCHANGED <<does, captured, victims, outcome>>
       \/ End(c, "failed") /\ UNCHANGED proc
    /\ UNCHANGED <<lock, pidfile, sock, unit, crowd>>

\* Readiness is a health answer. An exit is noticed; a child still silent at
\* the deadline is killed, a unit is stopped and the command falls back to a
\* child of its own.
Watch(c) ==
    /\ In(c, "watch")
    /\ \/ /\ Accepting /\ End(c, "ok")
          /\ UNCHANGED <<proc, lock>>
       \/ /\ ~Accepting /\ child[c] # 0
          /\ proc' = Dead({child[c]}) /\ lock' = LockAfter({child[c]})
          /\ End(c, "failed")
       \/ /\ ~Accepting /\ child[c] = 0
          /\ Goto(c, "fallback")
          /\ UNCHANGED <<proc, lock>>
    /\ UNCHANGED <<pidfile, sock, unit, crowd>>

Fallback(c) ==
    /\ In(c, "fallback")
    /\ activated' = FALSE /\ UNCHANGED <<installed, mainPid>>
    /\ proc' = IF activated /\ Living(mainPid) THEN Terminated(mainPid) ELSE proc
    /\ lock' = IF activated /\ Living(mainPid) /\ proc'[mainPid] = "dead" THEN LockAfter({mainPid}) ELSE lock
    /\ Goto(c, "vacate")
    /\ UNCHANGED <<pidfile, sock, crowd>>

\* waitForManagedServiceExit: no process of this root may be left.
Vacate(c) ==
    /\ In(c, "vacate")
    /\ IF Listed = {} THEN /\ NoFiles /\ Goto(c, "spawn")
                      ELSE /\ End(c, "failed") /\ UNCHANGED <<sock, pidfile>>
    /\ UNCHANGED <<proc, lock, unit, crowd>>

\* Stop: the process to be stopped is identified before it is asked.
Capture(c) ==
    /\ In(c, "capture")
    /\ captured' = [captured EXCEPT ![c] = pidfile]
    /\ place' = [place EXCEPT ![c] = IF installed THEN "unitstop" ELSE "dial"]
    /\ UNCHANGED <<does, child, victims, outcome>>
    /\ UNCHANGED <<proc, lock, pidfile, sock, unit, crowd>>

\* systemctl stop: the unit is inactive from now on, its process is told.
StopUnit(c) ==
    /\ In(c, "unitstop")
    /\ activated' = FALSE /\ UNCHANGED <<installed, mainPid>>
    /\ IF activated /\ Living(mainPid)
         THEN /\ proc' = Terminated(mainPid)
              /\ lock' = IF proc'[mainPid] = "dead" THEN LockAfter({mainPid}) ELSE lock
              /\ Goto(c, "unitwait")
         ELSE Goto(c, "settle") /\ UNCHANGED <<proc, lock>>
    /\ UNCHANGED <<pidfile, sock, crowd>>

UnitStopped(c) ==
    /\ In(c, "unitwait") /\ ~Living(mainPid)
    /\ Goto(c, "settle")
    /\ UNCHANGED <<proc, lock, pidfile, sock, unit, crowd>>

\* The recorded daemon is gone and nothing answers on the socket.
Gone == pidfile # 0 /\ ~Living(pidfile) /\ ~Accepting

\* After a stop: over, or on to the start of a restart.
Stopped(c) == IF does[c] = "restart" THEN Goto(c, "look") ELSE End(c, "ok")

\* An answering daemon is asked to shut down. Files that nothing stands
\* behind are stale; a daemon that is up and does not answer is killed.
AskShutdown(c) ==
    /\ In(c, "dial")
    /\ \/ /\ Accepting
          /\ proc' = Terminated(sock)
          /\ Goto(c, "settle")
          /\ UNCHANGED <<lock, pidfile, sock>>
       \/ /\ ~Accepting /\ (pidfile = 0 \/ Gone)
          /\ NoFiles /\ Stopped(c)
          /\ UNCHANGED <<proc, lock>>
       \/ /\ ~Accepting /\ Living(pidfile)
          /\ proc' = Dead({pidfile}) /\ lock' = LockAfter({pidfile})
          /\ Goto(c, "clear")
          /\ UNCHANGED <<pidfile, sock>>
    /\ UNCHANGED <<unit, crowd>>

\* Mutant: an unreachable socket is taken for the end of the daemon.
SettleOnSocket(c) ==
    /\ In(c, "settle")
    /\ Gone \/ sock = 0
    /\ NoFiles /\ Stopped(c)
    /\ UNCHANGED <<proc, lock, unit, crowd>>

\* waitForDaemonStop: an unreachable socket is not enough, the captured
\* process must have ended.
Settle(c) ==
    /\ In(c, "settle")
    /\ Gone \/ (sock = 0 /\ ~Living(captured[c]))
    /\ NoFiles /\ Stopped(c)
    /\ UNCHANGED <<proc, lock, unit, crowd>>

\* Past the deadline: the daemon of the pid file is killed, else the captured
\* one; without either the stop fails.
SettleByForce(c) ==
    /\ In(c, "settle") /\ ~Gone
    /\ LET target == IF pidfile # 0 THEN pidfile ELSE captured[c]
       IN  IF Living(target)
             THEN /\ proc' = Dead({target}) /\ lock' = LockAfter({target})
                  /\ Goto(c, "clear")
             ELSE End(c, "failed") /\ UNCHANGED <<proc, lock>>
    /\ UNCHANGED <<pidfile, sock, unit, crowd>>

ClearFiles(c) ==
    /\ In(c, "clear")
    /\ NoFiles /\ Stopped(c)
    /\ UNCHANGED <<proc, lock, unit, crowd>>

CommandStep(c) ==
    \/ BeginCommand(c) \/ LookAndList(c) \/ ReapColliding(c) \/ LaunchDaemon(c) \/ SpawnChild(c)
    \/ Watch(c) \/ Fallback(c) \/ Vacate(c) \/ Capture(c) \/ StopUnit(c) \/ UnitStopped(c)
    \/ AskShutdown(c) \/ Settle(c) \/ SettleByForce(c) \/ ClearFiles(c)

DaemonStep(p) ==
    \/ TakeSingleton(p) \/ PublishPid(p) \/ Bind(p) \/ BindFails(p)
    \/ CloseListener(p) \/ RemoveOwnFiles(p) \/ ProcessEnds(p)

DaemonNext ==
    \/ \E c \in Commands : CommandStep(c)
    \/ \E p \in Procs : DaemonStep(p) \/ ProcessCrashes(p) \/ OutsideSignal(p)
    \/ UnitRespawns \/ UnitKills

DaemonSpec == DaemonInit /\ [][DaemonNext]_daemonVars

\* A command keeps running and systemd keeps its word; a daemon may hang at
\* any step of its life.
FairDaemonSpec ==
    /\ DaemonSpec
    /\ WF_daemonVars(UnitKills)
    /\ \A c \in Commands : WF_daemonVars(~In(c, "idle") /\ CommandStep(c))
-----------------------------------------------------------------------------
(* Properties *)

\* One process past the singleton lock, and the files name processes.
DaemonTypeOK ==
    /\ proc \in [Procs -> Alive \cup {"unborn", "dead"}]
    /\ \A p \in Procs : proc[p] \in Alive \ {"boot"} => lock = p
    /\ {lock, pidfile, sock} \subseteq 0..MaxProcs

\* "Daemon stopped" means that the daemon's resources are free
\* (waitForDaemonStop): a stop that identified a process and met no other
\* command returns only when that process has ended, so the start of a
\* restart finds the lock free.
StopFreesTheRoot ==
    \A c \in Commands :
      (~crowd /\ captured[c] # 0 /\ (place[c] = "look" \/ (In(c, "over") /\ does[c] = "stop" /\ outcome[c] = "ok")))
        => ~Living(captured[c])

\* A daemon that serves can be reached: no command removes the socket of a
\* daemon that has come up meanwhile, unless commands overlapped or the service
\* could not be installed while systemd was restarting its unit.
ServingIsReachable ==
    \A p \in Procs : (proc[p] = "ready" /\ ~crowd) => sock = p /\ pidfile = p

\* One daemon serves, where its files say, and a stop that returns has ended it.
DaemonSafe == DaemonTypeOK /\ StopFreesTheRoot /\ ServingIsReachable

\* A command that began ends, whatever the daemon does: the waits for its
\* exit and for its readiness are bounded (waitForDaemonStop,
\* waitForDaemonStartWithProcess).
CommandEnds == \A c \in Commands : (place[c] \notin {"idle", "over"}) ~> In(c, "over")
=============================================================================

----------------------------- MODULE DaemonProofs -----------------------------
(* Proofs about the daemon process and the commands that start and stop it.  *)
EXTENDS DaemonControl, TLAPS

Places == {"idle", "look", "reap", "launch", "spawn", "watch", "fallback", "vacate", "capture",
           "dial", "unitstop", "unitwait", "settle", "clear", "over"}
Begun(c) == place[c] # "idle" /\ place[c] # "over"
Starting(p) == proc[p] = "boot" \/ proc[p] = "locked" \/ proc[p] = "recover"
Parting(p) == proc[p] = "drain" \/ proc[p] = "closing" \/ proc[p] = "parting"
NobodyLives == \A p \in Procs : ~Living(p)

\* The shape of the state.
DaemonTyped ==
    /\ proc \in [Procs -> Alive \cup {"unborn", "dead"}]
    /\ place \in [Commands -> Places]
    /\ does \in [Commands -> {"start", "stop", "restart"}]
    /\ outcome \in [Commands -> {"none", "already", "failed", "ok"}]
    /\ captured \in [Commands -> 0..MaxProcs] /\ child \in [Commands -> 0..MaxProcs]
    /\ victims \in [Commands -> SUBSET Procs]
    /\ crowd \in BOOLEAN

Numbered == {lock, pidfile, sock, mainPid} \subseteq 0..MaxProcs

\* Whoever is past the singleton lock holds it.
Locked == \A p \in Procs : Living(p) /\ proc[p] # "boot" => lock = p

\* One command at a time, and one process.
Single == ~crowd => \A c, d \in Commands : Begun(c) /\ Begun(d) => c = d
Lone == ~crowd => \A p, q \in Procs : Living(p) /\ Living(q) => p = q

\* The process of an active unit is the only one.
UnitOwns ==
    /\ activated => installed
    /\ ~crowd /\ activated => \A p \in Procs : Living(p) => p = mainPid

\* The files name the process that wrote them as long as it serves.
FilesNameIt ==
    ~crowd => \A p \in Procs :
        /\ proc[p] \in {"recover", "ready", "drain", "closing"} => pidfile = p
        /\ proc[p] \in {"ready", "drain"} => sock = p
        /\ proc[p] = "closing" => sock = 0
        /\ proc[p] = "parting" => pidfile = 0 /\ sock = 0

\* A process that has not come up is the unit's or is watched.
Steady ==
    ~crowd /\ ~activated /\ (\A c \in Commands : ~In(c, "watch")) => \A p \in Procs : ~Starting(p)

\* What a command watches: the child it started, else the unit.
Watched(c) ==
    In(c, "watch") =>
        IF child[c] = 0 THEN activated
        ELSE ~activated /\ \A p \in Procs : Living(p) => p = child[c]

\* A process that lives when a start reaps is among its victims or is the unit's.
Reaps(c) ==
    In(c, "reap") => \A p \in Procs : Living(p) => p \in victims[c] \/ (activated /\ p = mainPid)

\* Nobody lives when a command launches, starts its child or clears the files.
Cleared(c) ==
    /\ In(c, "launch") => activated \/ NobodyLives
    /\ In(c, "spawn") \/ In(c, "clear") => ~activated /\ NobodyLives

\* The way through the service and the way around it.
Ways(c) ==
    /\ In(c, "dial") => ~installed
    /\ In(c, "unitstop") \/ In(c, "unitwait") \/ In(c, "vacate") \/ In(c, "fallback") => installed
    /\ In(c, "unitwait") \/ In(c, "vacate") \/ In(c, "settle") => ~activated
    /\ In(c, "unitwait") => \A p \in Procs : Living(p) => p = mainPid
    /\ In(c, "idle") => captured[c] = 0
    /\ child[c] # 0 => In(c, "watch") \/ In(c, "over")
    /\ does[c] = "stop" => place[c] \notin {"look", "reap", "launch", "spawn", "watch", "fallback", "vacate"}

\* A stop that identified a process waits for the only one there is; one that found no pid
\* file met at most a process about to end.
Captures(c) ==
    /\ In(c, "dial") \/ In(c, "settle") \/ (In(c, "unitstop") /\ ~activated) =>
          \A p \in Procs : Living(p) => IF captured[c] = 0 THEN proc[p] = "parting" ELSE p = captured[c]
    /\ In(c, "settle") /\ ~installed => captured[c] # 0

Orders ==
    ~crowd => \A c \in Commands : Watched(c) /\ Reaps(c) /\ Cleared(c) /\ Ways(c) /\ Captures(c)

\* Without a unit a daemon goes down because a command that waits for it asked.
Asked ==
    ~crowd /\ ~installed /\ (\A c \in Commands : ~In(c, "settle")) => \A p \in Procs : ~Parting(p)

\* What is named was started.
Started ==
    ~crowd =>
        /\ pidfile # 0 => proc[pidfile] # "unborn"
        /\ \A c \in Commands : captured[c] # 0 => proc[captured[c]] # "unborn"

DaemonInv ==
    /\ DaemonTyped /\ Numbered /\ Locked /\ Single /\ Lone /\ UnitOwns /\ FilesNameIt /\ Steady
    /\ Orders /\ Asked /\ Started /\ StopFreesTheRoot

\* A step of a command leaves the other commands where they are.
OthersHold(c) ==
    \A d \in Commands : d # c =>
        /\ place'[d] = place[d] /\ captured'[d] = captured[d] /\ child'[d] = child[d]
        /\ outcome'[d] = outcome[d] /\ does'[d] = does[d]

USE DaemonAssumption DEF Procs, Alive, Living, In, Begun, unit, cmd, Places, Starting, Parting,
    NobodyLives

\* While commands do not overlap, the others have not begun or are over.
LEMMA OthersRest ==
    ASSUME DaemonInv, NEW c \in Commands, Begun(c), ~crowd
    PROVE  \A d \in Commands : d # c => place[d] = "idle" \/ place[d] = "over"
    BY DEF DaemonInv, Single

\* What holds of the other commands keeps holding of them.
LEMMA OthersKeepOrders ==
    ASSUME DaemonInv, NEW c \in Commands, OthersHold(c), ~crowd,
           \A d \in Commands : d # c => place[d] = "idle" \/ place[d] = "over"
    PROVE  \A d \in Commands : d # c => (Watched(d) /\ Reaps(d) /\ Cleared(d) /\ Ways(d) /\ Captures(d))'
<1> SUFFICES ASSUME NEW d \in Commands, d # c
             PROVE  (Watched(d) /\ Reaps(d) /\ Cleared(d) /\ Ways(d) /\ Captures(d))'
    OBVIOUS
<1>1. place'[d] = place[d] /\ captured'[d] = captured[d] /\ child'[d] = child[d] /\ does'[d] = does[d]
    BY DEF OthersHold
<1>2. Ways(d)
    BY DEF DaemonInv, Orders
<1> QED BY <1>1, <1>2 DEF Watched, Reaps, Cleared, Ways, Captures

\* A command that watches nothing and has no active unit has nobody coming up.
LEMMA NobodyStarts ==
    ASSUME DaemonInv, NEW c \in Commands, Begun(c), ~In(c, "watch"), ~crowd, ~activated
    PROVE  \A p \in Procs : ~Starting(p)
    BY DEF DaemonInv, Single, Steady

\* A stop that finds nobody behind the files met at most a process about to end.
LEMMA NobodyServes ==
    ASSUME DaemonInv, NEW c \in Commands, In(c, "dial") \/ In(c, "settle"), ~crowd, ~Accepting,
           pidfile = 0 \/ ~Living(pidfile)
    PROVE  \A p \in Procs : Living(p) => proc[p] = "parting"
<1>1. ~activated
    BY DEF DaemonInv, Orders, Ways, UnitOwns
<1>2. \A p \in Procs : ~Starting(p)
    BY <1>1, NobodyStarts
<1>3. ASSUME NEW p \in Procs, Living(p), proc[p] # "parting"
      PROVE  FALSE
  <2>1. proc[p] = "ready" \/ proc[p] = "drain" \/ proc[p] = "closing"
    BY <1>2, <1>3
  <2>2. pidfile = p
    BY <2>1 DEF DaemonInv, FilesNameIt
  <2> QED BY <1>3, <2>2
<1> QED BY <1>3

\* A dial that gets no answer finds nobody.
LEMMA NobodyAnswers ==
    ASSUME DaemonInv, NEW c \in Commands, In(c, "dial"), ~crowd, ~Accepting, pidfile = 0 \/ ~Living(pidfile)
    PROVE  NobodyLives
<1>1. ~installed
    BY DEF DaemonInv, Orders, Ways
<1>2. \A d \in Commands : ~In(d, "settle")
    BY OthersRest
<1>3. \A p \in Procs : ~Parting(p)
    BY <1>1, <1>2 DEF DaemonInv, Asked
<1> QED BY <1>3, NobodyServes

\* A stop that has settled leaves at most a process about to end, and not the one it captured.
LEMMA SettledIsOver ==
    ASSUME DaemonInv, NEW c \in Commands, In(c, "settle"), ~crowd,
           Gone \/ (sock = 0 /\ ~Living(captured[c]))
    PROVE  /\ \A p \in Procs : Living(p) => proc[p] = "parting"
           /\ captured[c] # 0 => NobodyLives
<1>1. CASE Gone
  <2>1. \A p \in Procs : Living(p) => proc[p] = "parting"
    BY <1>1, NobodyServes DEF Gone
  <2>2. \A p \in Procs : proc[p] = "parting" => pidfile = 0
    BY DEF DaemonInv, FilesNameIt
  <2> QED BY <1>1, <2>1, <2>2 DEF Gone
<1>2. CASE sock = 0 /\ ~Living(captured[c])
    BY <1>2 DEF DaemonInv, Orders, Captures
<1> QED BY <1>1, <1>2


\* BeginCommand keeps the invariant.
LEMMA BeginCommandKeeps ==
    ASSUME DaemonInv, NEW c \in Commands, BeginCommand(c)
    PROVE  DaemonInv'
<1>1. OthersHold(c)
        BY DEF DaemonInv, OthersHold, BeginCommand, Goto
<1>2. (Numbered /\ Locked)'
        BY DEF DaemonInv, Numbered, Locked, BeginCommand, Goto
<1>3. DaemonTyped'
  <2>1. (/\ proc \in [Procs -> Alive \cup {"unborn", "dead"}]
        /\ does \in [Commands -> {"start", "stop", "restart"}]
        /\ outcome \in [Commands -> {"none", "already", "failed", "ok"}]
        /\ captured \in [Commands -> 0..MaxProcs]
        /\ child \in [Commands -> 0..MaxProcs]
        /\ victims \in [Commands -> SUBSET Procs])'
        BY DEF DaemonInv, DaemonTyped, BeginCommand, Goto
  <2>2. (place \in [Commands -> Places])'
        BY DEF DaemonInv, DaemonTyped, BeginCommand, Goto
  <2>3. (crowd \in BOOLEAN)'
        BY DEF DaemonInv, DaemonTyped, BeginCommand, Goto
    <2> QED BY <2>1, <2>2, <2>3 DEF DaemonTyped
<1>4. Single'
      <2>1. ASSUME ~crowd'
            PROVE  ~crowd /\ \A d \in Commands : ~Begun(d)
        BY <2>1 DEF DaemonInv, DaemonTyped, BeginCommand
      <2> QED BY <1>1, <2>1 DEF Single, OthersHold
<1>5. Lone'
        BY DEF DaemonInv, Lone, DaemonTyped, BeginCommand, Goto
<1>6. UnitOwns'
        BY DEF DaemonInv, UnitOwns, DaemonTyped, BeginCommand, Goto
<1>7. FilesNameIt'
        BY DEF DaemonInv, FilesNameIt, DaemonTyped, BeginCommand, Goto
<1>8. Steady'
        BY DEF DaemonInv, Steady, DaemonTyped, BeginCommand, Goto
<1>9. Orders'
  <2>1. ASSUME ~crowd'
        PROVE  \A d \in Commands : d # c => (Watched(d) /\ Reaps(d) /\ Cleared(d) /\ Ways(d) /\ Captures(d))'
    <3>1. ~crowd /\ \A d \in Commands : d # c => place[d] = "idle" \/ place[d] = "over"
      BY <2>1 DEF DaemonInv, DaemonTyped, BeginCommand
    <3> QED BY <1>1, <3>1, OthersKeepOrders
  <2>2. ~crowd' => Watched(c)'
        BY DEF DaemonInv, DaemonTyped, Orders, Watched, Reaps, Cleared, Ways, Captures,
        BeginCommand, Goto
  <2>3. ~crowd' => Reaps(c)'
        BY DEF DaemonInv, DaemonTyped, Orders, Watched, Reaps, Cleared, Ways, Captures,
        BeginCommand, Goto
  <2>4. ~crowd' => Cleared(c)'
        BY DEF DaemonInv, DaemonTyped, Orders, Watched, Reaps, Cleared, Ways, Captures,
        BeginCommand, Goto
  <2>5. ~crowd' => Ways(c)'
        BY DEF DaemonInv, DaemonTyped, Orders, Watched, Reaps, Cleared, Ways, Captures,
        BeginCommand, Goto
  <2>6. ~crowd' => Captures(c)'
        BY DEF DaemonInv, DaemonTyped, Orders, Watched, Reaps, Cleared, Ways, Captures,
        BeginCommand, Goto
  <2> QED BY <2>1, <2>2, <2>3, <2>4, <2>5, <2>6 DEF Orders
<1>10. Asked'
        BY DEF DaemonInv, Asked, DaemonTyped, BeginCommand, Goto
<1>11. Started'
        BY DEF DaemonInv, Started, DaemonTyped, BeginCommand, Goto
<1>12. StopFreesTheRoot'
      <2>1. crowd' = FALSE => crowd = FALSE /\ captured[c] = 0
        BY DEF DaemonInv, DaemonTyped, Orders, Ways, BeginCommand
      <2>2. captured' = captured /\ proc' = proc
        BY DEF BeginCommand, Goto
      <2> QED BY <1>1, <2>1, <2>2 DEF DaemonInv, StopFreesTheRoot, OthersHold
<1> QED BY <1>2, <1>3, <1>4, <1>5, <1>6, <1>7, <1>8, <1>9, <1>10, <1>11, <1>12 DEF DaemonInv

\* LookAndList keeps the invariant.
LEMMA LookAndListKeeps ==
    ASSUME DaemonInv, NEW c \in Commands, LookAndList(c)
    PROVE  DaemonInv'
<1>1. OthersHold(c)
        BY DEF DaemonInv, OthersHold, DaemonTyped, LookAndList, End, Goto, Accepting, Listed
<1>2. (Numbered /\ Locked /\ Lone /\ UnitOwns /\ FilesNameIt /\ Started)'
        BY DEF DaemonInv, Numbered, Locked, Lone, UnitOwns, FilesNameIt, Started, LookAndList,
      End, Goto, Accepting, Listed
<1>3. DaemonTyped'
  <2>1. (/\ proc \in [Procs -> Alive \cup {"unborn", "dead"}]
        /\ does \in [Commands -> {"start", "stop", "restart"}]
        /\ captured \in [Commands -> 0..MaxProcs]
        /\ child \in [Commands -> 0..MaxProcs]
        /\ crowd \in BOOLEAN)'
        BY DEF DaemonInv, DaemonTyped, LookAndList, End, Goto, Accepting, Listed
  <2>2. (place \in [Commands -> Places])'
        <3>1. \E q \in {"over", "launch", "reap"} : place' = [place EXCEPT ![c] = q]
          BY DEF LookAndList, Goto, End
        <3> QED BY <3>1 DEF DaemonInv, DaemonTyped
  <2>3. (outcome \in [Commands -> {"none", "already", "failed", "ok"}])'
        BY DEF DaemonInv, DaemonTyped, Lone, LookAndList, End, Goto, Accepting, Listed
  <2>4. (victims \in [Commands -> SUBSET Procs])'
        BY DEF DaemonInv, DaemonTyped, Locked, LookAndList, End, Goto, Accepting, Listed
    <2> QED BY <2>1, <2>2, <2>3, <2>4 DEF DaemonTyped
<1>4. Single'
        BY DEF DaemonInv, Single, DaemonTyped, LookAndList, End, Goto, Accepting, Listed
<1>5. Steady'
        BY DEF DaemonInv, Steady, DaemonTyped, LookAndList, End, Goto, Accepting, Listed
<1>6. Orders'
  <2>1. ASSUME ~crowd'
        PROVE  \A d \in Commands : d # c => (Watched(d) /\ Reaps(d) /\ Cleared(d) /\ Ways(d) /\ Captures(d))'
    <3>1. ~crowd /\ \A d \in Commands : d # c => place[d] = "idle" \/ place[d] = "over"
      BY <2>1, OthersRest DEF LookAndList
    <3> QED BY <1>1, <3>1, OthersKeepOrders
  <2>2. ~crowd' => Watched(c)'
        BY DEF DaemonInv, DaemonTyped, Orders, Watched, Reaps, Cleared, Ways, Captures,
        LookAndList, End, Goto, Accepting, Listed
  <2>3. ~crowd' => Reaps(c)'
        BY DEF DaemonInv, DaemonTyped, Orders, Lone, Watched, Reaps, Cleared, Ways, Captures,
        LookAndList, End, Goto, Accepting, Listed
  <2>4. ~crowd' => Cleared(c)'
        <3>1. Listed = {} => NobodyLives
          BY DEF Listed
        <3>2. Listed # {} => place'[c] = "over" \/ place'[c] = "reap"
          BY DEF DaemonInv, DaemonTyped, LookAndList, Goto, End
        <3>3. proc' = proc /\ activated' = activated /\ crowd' = crowd
          BY DEF LookAndList
        <3>4. place'[c] \in {"launch", "reap", "over"}
          BY DEF DaemonInv, DaemonTyped, LookAndList, Goto, End
        <3>5. ~crowd => TRUE
          BY DEF DaemonInv, Orders, Ways, LookAndList
        <3> QED BY <3>1, <3>2, <3>3, <3>4, <3>5 DEF Cleared
  <2>5. ~crowd' => Ways(c)'
        BY DEF DaemonInv, DaemonTyped, Orders, Watched, Reaps, Cleared, Ways, Captures,
        LookAndList, End, Goto, Accepting, Listed
  <2>6. ~crowd' => Captures(c)'
        BY DEF DaemonInv, DaemonTyped, Orders, Watched, Reaps, Cleared, Ways, Captures,
        LookAndList, End, Goto, Accepting, Listed
  <2> QED BY <2>1, <2>2, <2>3, <2>4, <2>5, <2>6 DEF Orders
<1>7. Asked'
        BY DEF DaemonInv, Asked, DaemonTyped, LookAndList, End, Goto, Accepting, Listed
<1>8. StopFreesTheRoot'
        BY DEF DaemonInv, StopFreesTheRoot, DaemonTyped, LookAndList, End, Goto, Accepting,
        Listed
<1> QED BY <1>2, <1>3, <1>4, <1>5, <1>6, <1>7, <1>8 DEF DaemonInv

\* ReapColliding keeps the invariant.
LEMMA ReapCollidingKeeps ==
    ASSUME DaemonInv, NEW c \in Commands, ReapColliding(c)
    PROVE  DaemonInv'
<1>1. OthersHold(c)
        BY DEF DaemonInv, OthersHold, DaemonTyped, ReapColliding, End, Goto, LockAfter,
        Accepting, NoFiles, Dead
<1>2. DaemonTyped'
  <2>1. (/\ does \in [Commands -> {"start", "stop", "restart"}]
        /\ captured \in [Commands -> 0..MaxProcs]
        /\ child \in [Commands -> 0..MaxProcs]
        /\ victims \in [Commands -> SUBSET Procs]
        /\ crowd \in BOOLEAN)'
        BY DEF DaemonInv, DaemonTyped, ReapColliding, End, Goto, LockAfter, Accepting, NoFiles,
        Dead
  <2>2. (proc \in [Procs -> Alive \cup {"unborn", "dead"}])'
        BY DEF DaemonInv, DaemonTyped, ReapColliding, End, Goto, LockAfter, Accepting, NoFiles,
        Dead
  <2>3. (place \in [Commands -> Places])'
        <3>1. \E q \in {"over", "launch"} : place' = [place EXCEPT ![c] = q]
          BY DEF ReapColliding, Goto, End
        <3> QED BY <3>1 DEF DaemonInv, DaemonTyped
  <2>4. (outcome \in [Commands -> {"none", "already", "failed", "ok"}])'
        BY DEF DaemonInv, DaemonTyped, Numbered, ReapColliding, End, Goto, LockAfter, Accepting,
        NoFiles, Dead
    <2> QED BY <2>1, <2>2, <2>3, <2>4 DEF DaemonTyped
<1>3. Numbered'
        BY DEF DaemonInv, Numbered, ReapColliding, End, Goto, LockAfter, Accepting, NoFiles,
        Dead
<1>4. Locked'
        BY DEF DaemonInv, Locked, ReapColliding, End, Goto, LockAfter, Accepting, NoFiles, Dead
<1>5. Single'
        BY DEF DaemonInv, Single, DaemonTyped, Locked, ReapColliding, End, Goto, LockAfter,
        Accepting, NoFiles, Dead
<1>6. Lone'
        BY DEF DaemonInv, Lone, ReapColliding, End, Goto, LockAfter, Accepting, NoFiles, Dead
<1>7. UnitOwns'
        BY DEF DaemonInv, UnitOwns, ReapColliding, End, Goto, LockAfter, Accepting, NoFiles,
        Dead
<1>8. FilesNameIt'
      <2>1. CASE UNCHANGED <<proc, pidfile, sock, crowd>>
        BY <2>1 DEF DaemonInv, FilesNameIt
      <2>2. CASE proc' = Dead(victims[c] \cup (IF activated THEN {mainPid} ELSE {})) /\ crowd' = crowd
        <3>1. ~crowd => \A p \in Procs : Living(p) => p \in victims[c] \/ (activated /\ p = mainPid)
          BY DEF DaemonInv, Orders, Reaps, ReapColliding
        <3>2. ~crowd => \A p \in Procs : ~Living(p)'
          BY <2>2, <3>1 DEF Dead
        <3> QED BY <2>2, <3>2 DEF FilesNameIt
      <2> QED BY <2>1, <2>2 DEF ReapColliding
<1>9. Steady'
        BY DEF DaemonInv, Steady, DaemonTyped, UnitOwns, ReapColliding, End, Goto, LockAfter,
        Accepting, NoFiles, Dead
<1>10. Orders'
  <2>1. ASSUME ~crowd'
        PROVE  \A d \in Commands : d # c => (Watched(d) /\ Reaps(d) /\ Cleared(d) /\ Ways(d) /\ Captures(d))'
    <3>1. ~crowd /\ \A d \in Commands : d # c => place[d] = "idle" \/ place[d] = "over"
      BY <2>1, OthersRest DEF ReapColliding
    <3> QED BY <1>1, <3>1, OthersKeepOrders
  <2>2. ~crowd' => Watched(c)'
        BY DEF DaemonInv, DaemonTyped, Orders, Watched, Reaps, Cleared, Ways, Captures,
        ReapColliding, End, Goto, LockAfter, Accepting, NoFiles, Dead
  <2>3. ~crowd' => Reaps(c)'
        BY DEF DaemonInv, DaemonTyped, Orders, Watched, Reaps, Cleared, Ways, Captures,
        ReapColliding, End, Goto, LockAfter, Accepting, NoFiles, Dead
  <2>4. ~crowd' => Cleared(c)'
        BY DEF DaemonInv, DaemonTyped, Orders, Watched, Reaps, Cleared, Ways, Captures,
        ReapColliding, End, Goto, LockAfter, Accepting, NoFiles, Dead
  <2>5. ~crowd' => Ways(c)'
        BY DEF DaemonInv, DaemonTyped, Orders, Watched, Reaps, Cleared, Ways, Captures,
        ReapColliding, End, Goto, LockAfter, Accepting, NoFiles, Dead
  <2>6. ~crowd' => Captures(c)'
        BY DEF DaemonInv, DaemonTyped, Orders, Watched, Reaps, Cleared, Ways, Captures,
        ReapColliding, End, Goto, LockAfter, Accepting, NoFiles, Dead
  <2> QED BY <2>1, <2>2, <2>3, <2>4, <2>5, <2>6 DEF Orders
<1>11. Asked'
        BY DEF DaemonInv, Asked, DaemonTyped, ReapColliding, End, Goto, LockAfter, Accepting,
        NoFiles, Dead
<1>12. Started'
        BY DEF DaemonInv, Started, DaemonTyped, ReapColliding, End, Goto, LockAfter, Accepting,
        NoFiles, Dead
<1>13. StopFreesTheRoot'
        BY DEF DaemonInv, StopFreesTheRoot, DaemonTyped, Numbered, ReapColliding, End, Goto,
        LockAfter, Accepting, NoFiles, Dead
<1> QED BY <1>2, <1>3, <1>4, <1>5, <1>6, <1>7, <1>8, <1>9, <1>10, <1>11, <1>12, <1>13 DEF
      DaemonInv

\* LaunchDaemon keeps the invariant.
LEMMA LaunchDaemonKeeps ==
    ASSUME DaemonInv, NEW c \in Commands, LaunchDaemon(c)
    PROVE  DaemonInv'
<1>0. /\ In(c, "launch") /\ (~crowd' => ~crowd)
      /\ \E q \in {"watch", "spawn", "fallback", "over"} : place' = [place EXCEPT ![c] = q]
      /\ does' = does /\ captured' = captured /\ child' = child /\ installed' = installed
      /\ place'[c] = "spawn" => NoFiles /\ UNCHANGED <<proc, unit>> /\ (~installed \/ crowd' = (crowd \/ activated))
      /\ place'[c] = "fallback" => installed
      /\ place'[c] # "spawn" => UNCHANGED <<pidfile, sock>> /\ crowd' = crowd
        BY DEF LaunchDaemon, InstallFails, Goto, End, DaemonInv, DaemonTyped
<1>0a. ~crowd => ~(activated /\ ~installed) /\ (activated \/ NobodyLives) /\ Ways(c) /\ place'[c] # "idle"
        BY <1>0 DEF DaemonInv, DaemonTyped, Orders, Cleared, UnitOwns
<1>1. OthersHold(c)
        BY DEF DaemonInv, OthersHold, DaemonTyped, LaunchDaemon, InstallFails, Fresh, Goto, End, NoFiles
<1>2. DaemonTyped'
  <2>1. (/\ does \in [Commands -> {"start", "stop", "restart"}]
        /\ outcome \in [Commands -> {"none", "already", "failed", "ok"}]
        /\ captured \in [Commands -> 0..MaxProcs]
        /\ child \in [Commands -> 0..MaxProcs]
        /\ victims \in [Commands -> SUBSET Procs]
        /\ crowd \in BOOLEAN)'
        BY DEF DaemonInv, DaemonTyped, LaunchDaemon, InstallFails, Fresh, Goto, End, NoFiles
  <2>2. (proc \in [Procs -> Alive \cup {"unborn", "dead"}])'
        BY DEF DaemonInv, DaemonTyped, LaunchDaemon, InstallFails, Fresh, Goto, End, NoFiles
  <2>3. (place \in [Commands -> Places])'
        BY <1>0 DEF DaemonInv, DaemonTyped
    <2> QED BY <2>1, <2>2, <2>3 DEF DaemonTyped
<1>3. Numbered'
        BY DEF DaemonInv, Numbered, LaunchDaemon, InstallFails, Fresh, Goto, End, NoFiles
<1>4. Locked'
        BY DEF DaemonInv, Locked, DaemonTyped, LaunchDaemon, InstallFails, Fresh, Goto, End, NoFiles
<1>5. Single'
        BY <1>0 DEF DaemonInv, Single, DaemonTyped
<1>6. Lone'
      <2>1. ASSUME ~crowd, ~(activated /\ Living(mainPid))
            PROVE  NobodyLives
        BY <2>1 DEF DaemonInv, Orders, Cleared, UnitOwns, LaunchDaemon, InstallFails
      <2>2. proc' = proc \/ (~(activated /\ Living(mainPid)) /\ \E p \in Fresh : proc' = [proc EXCEPT ![p] = "boot"])
        BY DEF LaunchDaemon, InstallFails
      <2>3. ~crowd' => ~crowd
        BY <1>0
      <2> QED BY <2>1, <2>2, <2>3 DEF DaemonInv, DaemonTyped, Lone, Fresh
<1>7. UnitOwns'
        BY DEF DaemonInv, UnitOwns, DaemonTyped, Orders, Watched, Reaps, Cleared, Ways,
        Captures, LaunchDaemon, InstallFails, Fresh, Goto, End, NoFiles
<1>8. FilesNameIt'
      <2>1. ASSUME NEW p \in Procs, proc'[p] # "boot"
            PROVE  proc'[p] = proc[p]
        BY <2>1 DEF DaemonInv, DaemonTyped, LaunchDaemon, InstallFails, Fresh
      <2>2. CASE UNCHANGED <<pidfile, sock, crowd>>
        BY <2>1, <2>2 DEF DaemonInv, FilesNameIt
      <2>3. CASE place'[c] = "spawn"
        <3>1. ~crowd' => NobodyLives
          BY <1>0, <1>0a, <2>3
        <3>2. ~crowd' => \A p \in Procs : proc'[p] \notin {"recover", "ready", "drain", "closing", "parting"}
          BY <3>1, <1>0, <2>3
        <3> QED BY <3>2 DEF FilesNameIt
      <2> QED BY <1>0, <2>2, <2>3
<1>9. Steady'
        BY DEF DaemonInv, Steady, DaemonTyped, LaunchDaemon, InstallFails, Fresh, Goto, End, NoFiles
<1>10. Orders'
  <2>1. ASSUME ~crowd'
        PROVE  \A d \in Commands : d # c => (Watched(d) /\ Reaps(d) /\ Cleared(d) /\ Ways(d) /\ Captures(d))'
    <3>1. ~crowd /\ \A d \in Commands : d # c => place[d] = "idle" \/ place[d] = "over"
      BY <1>0, <2>1, OthersRest
    <3> QED BY <1>1, <3>1, OthersKeepOrders
  <2>2. ~crowd' => Watched(c)'
        <3>1. place'[c] = "watch" => activated' /\ child'[c] = child[c]
          BY DEF DaemonInv, DaemonTyped, LaunchDaemon, InstallFails, Goto, End
        <3>2. ~crowd' => child[c] = 0
          BY <1>0, <1>0a DEF Ways
        <3> QED BY <3>1, <3>2 DEF Watched
  <2>3. ~crowd' => Reaps(c)'
        BY DEF DaemonInv, DaemonTyped, Orders, Watched, Reaps, Cleared, Ways, Captures,
        LaunchDaemon, InstallFails, Fresh, Goto, End, NoFiles
  <2>4. ~crowd' => Cleared(c)'
        <3>1. place'[c] = "spawn" /\ ~crowd' => ~activated' /\ NobodyLives'
          BY <1>0, <1>0a
        <3>2. place'[c] # "launch" /\ place'[c] # "clear"
          BY <1>0 DEF DaemonInv, DaemonTyped
        <3> QED BY <3>1, <3>2 DEF Cleared
  <2>5. ~crowd' => Ways(c)'
        <3>1. place'[c] \in {"watch", "spawn", "fallback", "over"}
          BY <1>0 DEF DaemonInv, DaemonTyped
        <3> QED BY <3>1, <1>0, <1>0a DEF Ways
  <2>6. ~crowd' => Captures(c)'
        BY DEF DaemonInv, DaemonTyped, Orders, Watched, Reaps, Cleared, Ways, Captures,
        LaunchDaemon, InstallFails, Fresh, Goto, End, NoFiles
  <2> QED BY <2>1, <2>2, <2>3, <2>4, <2>5, <2>6 DEF Orders
<1>11. Asked'
        BY DEF DaemonInv, Asked, DaemonTyped, LaunchDaemon, InstallFails, Fresh, Goto, End, NoFiles
<1>12. Started'
        BY DEF DaemonInv, Started, DaemonTyped, Numbered, LaunchDaemon, InstallFails, Fresh, Goto, End, NoFiles
<1>13. StopFreesTheRoot'
      <2>1. ASSUME ~crowd', NEW d \in Commands, captured'[d] # 0,
                   place'[d] = "look" \/ (place'[d] = "over" /\ does'[d] = "stop" /\ outcome'[d] = "ok")
            PROVE  d # c
        <3> SUFFICES ASSUME d = c
                     PROVE  FALSE
            OBVIOUS
        <3>1. place'[c] = "over" /\ does[c] = "stop"
            BY <1>0, <2>1 DEF DaemonInv, DaemonTyped
        <3> QED BY <3>1, <1>0, <1>0a, <2>1 DEF Ways
      <2>2. \A p \in 1..MaxProcs : proc[p] # "unborn" /\ ~Living(p) => ~Living(p)'
        BY DEF DaemonInv, DaemonTyped, LaunchDaemon, InstallFails, Fresh
      <2>3. ~crowd' => \A d \in Commands : captured[d] # 0 => proc[captured[d]] # "unborn" /\ captured[d] \in 1..MaxProcs
        BY <1>0 DEF DaemonInv, Started, DaemonTyped
      <2> QED BY <1>0, <1>1, <2>1, <2>2, <2>3 DEF StopFreesTheRoot, OthersHold, DaemonInv
<1> QED BY <1>2, <1>3, <1>4, <1>5, <1>6, <1>7, <1>8, <1>9, <1>10, <1>11, <1>12, <1>13 DEF
      DaemonInv

\* SpawnChild keeps the invariant.
LEMMA SpawnChildKeeps ==
    ASSUME DaemonInv, NEW c \in Commands, SpawnChild(c)
    PROVE  DaemonInv'
<1>1. OthersHold(c)
        BY DEF DaemonInv, OthersHold, DaemonTyped, SpawnChild, End, Fresh
<1>2. (Numbered)'
        BY DEF DaemonInv, Numbered, SpawnChild, End, Fresh
<1>3. DaemonTyped'
  <2>1. (/\ does \in [Commands -> {"start", "stop", "restart"}]
        /\ captured \in [Commands -> 0..MaxProcs]
        /\ victims \in [Commands -> SUBSET Procs]
        /\ crowd \in BOOLEAN)'
        BY DEF DaemonInv, DaemonTyped, SpawnChild, End, Fresh
  <2>2. (proc \in [Procs -> Alive \cup {"unborn", "dead"}])'
        BY DEF DaemonInv, DaemonTyped, SpawnChild, End, Fresh
  <2>3. (place \in [Commands -> Places])'
        BY DEF DaemonInv, DaemonTyped, Numbered, SpawnChild, End, Fresh
  <2>4. (outcome \in [Commands -> {"none", "already", "failed", "ok"}])'
        BY DEF DaemonInv, DaemonTyped, Numbered, SpawnChild, End, Fresh
  <2>5. (child \in [Commands -> 0..MaxProcs])'
        BY DEF DaemonInv, DaemonTyped, Locked, SpawnChild, End, Fresh
    <2> QED BY <2>1, <2>2, <2>3, <2>4, <2>5 DEF DaemonTyped
<1>4. Locked'
        BY DEF DaemonInv, Locked, DaemonTyped, SpawnChild, End, Fresh
<1>5. Single'
        BY DEF DaemonInv, Single, DaemonTyped, SpawnChild, End, Fresh
<1>6. Lone'
        BY DEF DaemonInv, Lone, DaemonTyped, Orders, Watched, Reaps, Cleared, Ways, Captures,
        SpawnChild, End, Fresh
<1>7. UnitOwns'
        BY DEF DaemonInv, UnitOwns, DaemonTyped, Orders, Watched, Reaps, Cleared, Ways,
        Captures, SpawnChild, End, Fresh
<1>8. FilesNameIt'
        BY DEF DaemonInv, FilesNameIt, DaemonTyped, SpawnChild, End, Fresh
<1>9. Steady'
        BY DEF DaemonInv, Steady, DaemonTyped, SpawnChild, End, Fresh
<1>10. Orders'
  <2>1. ASSUME ~crowd'
        PROVE  \A d \in Commands : d # c => (Watched(d) /\ Reaps(d) /\ Cleared(d) /\ Ways(d) /\ Captures(d))'
    <3>1. ~crowd /\ \A d \in Commands : d # c => place[d] = "idle" \/ place[d] = "over"
      BY <2>1, OthersRest DEF SpawnChild
    <3> QED BY <1>1, <3>1, OthersKeepOrders
  <2>2. ~crowd' => Watched(c)'
        BY DEF DaemonInv, DaemonTyped, Orders, Watched, Reaps, Cleared, Ways, Captures,
        SpawnChild, End, Fresh
  <2>3. ~crowd' => Reaps(c)'
        BY DEF DaemonInv, DaemonTyped, Orders, Watched, Reaps, Cleared, Ways, Captures,
        SpawnChild, End, Fresh
  <2>4. ~crowd' => Cleared(c)'
        BY DEF DaemonInv, DaemonTyped, Orders, Watched, Reaps, Cleared, Ways, Captures,
        SpawnChild, End, Fresh
  <2>5. ~crowd' => Ways(c)'
        BY DEF DaemonInv, DaemonTyped, Orders, Watched, Reaps, Cleared, Ways, Captures,
        SpawnChild, End, Fresh
  <2>6. ~crowd' => Captures(c)'
        BY DEF DaemonInv, DaemonTyped, Orders, Watched, Reaps, Cleared, Ways, Captures,
        SpawnChild, End, Fresh
  <2> QED BY <2>1, <2>2, <2>3, <2>4, <2>5, <2>6 DEF Orders
<1>11. Asked'
        BY DEF DaemonInv, Asked, DaemonTyped, SpawnChild, End, Fresh
<1>12. Started'
        BY DEF DaemonInv, Started, DaemonTyped, Numbered, SpawnChild, End, Fresh
<1>13. StopFreesTheRoot'
      <2>1. crowd' = crowd /\ place'[c] \in {"watch", "over"} /\ (place'[c] = "over" => outcome'[c] = "failed")
        BY DEF DaemonInv, DaemonTyped, SpawnChild, End
      <2>2. ASSUME NEW d \in Commands, d # c, captured[d] # 0, ~crowd, ~Living(captured[d])
            PROVE  ~Living(captured[d])'
        BY <2>2 DEF DaemonInv, DaemonTyped, Started, SpawnChild, Fresh, End
      <2> QED BY <1>1, <2>1, <2>2 DEF DaemonInv, StopFreesTheRoot, OthersHold
<1> QED BY <1>2, <1>3, <1>4, <1>5, <1>6, <1>7, <1>8, <1>9, <1>10, <1>11, <1>12, <1>13 DEF
      DaemonInv

\* Watch keeps the invariant.
LEMMA WatchKeeps ==
    ASSUME DaemonInv, NEW c \in Commands, Watch(c)
    PROVE  DaemonInv'
<1>1. OthersHold(c)
        BY DEF DaemonInv, OthersHold, DaemonTyped, Watch, End, Goto, LockAfter, Accepting, Dead
<1>2. DaemonTyped'
  <2>1. (/\ does \in [Commands -> {"start", "stop", "restart"}]
        /\ captured \in [Commands -> 0..MaxProcs]
        /\ child \in [Commands -> 0..MaxProcs]
        /\ victims \in [Commands -> SUBSET Procs]
        /\ crowd \in BOOLEAN)'
        BY DEF DaemonInv, DaemonTyped, Watch, End, Goto, LockAfter, Accepting, Dead
  <2>2. (proc \in [Procs -> Alive \cup {"unborn", "dead"}])'
        BY DEF DaemonInv, DaemonTyped, Watch, End, Goto, LockAfter, Accepting, Dead
  <2>3. (place \in [Commands -> Places])'
        <3>1. \E q \in {"over", "fallback"} : place' = [place EXCEPT ![c] = q]
          BY DEF Watch, Goto, End
        <3> QED BY <3>1 DEF DaemonInv, DaemonTyped
  <2>4. (outcome \in [Commands -> {"none", "already", "failed", "ok"}])'
        <3>1. outcome' = outcome \/ \E q \in {"failed", "ok"} : outcome' = [outcome EXCEPT ![c] = q]
          BY DEF Watch, Goto, End
        <3> QED BY <3>1 DEF DaemonInv, DaemonTyped
    <2> QED BY <2>1, <2>2, <2>3, <2>4 DEF DaemonTyped
<1>3. Numbered'
        BY DEF DaemonInv, Numbered, Watch, End, Goto, LockAfter, Accepting, Dead
<1>4. Locked'
        BY DEF DaemonInv, Locked, Watch, End, Goto, LockAfter, Accepting, Dead
<1>5. Single'
        BY DEF DaemonInv, Single, DaemonTyped, Locked, Watch, End, Goto, LockAfter, Accepting,
        Dead
<1>6. Lone'
        BY DEF DaemonInv, Lone, Watch, End, Goto, LockAfter, Accepting, Dead
<1>7. UnitOwns'
        BY DEF DaemonInv, UnitOwns, Watch, End, Goto, LockAfter, Accepting, Dead
<1>8. FilesNameIt'
        BY DEF DaemonInv, FilesNameIt, Watch, End, Goto, LockAfter, Accepting, Dead
<1>9. Steady'
      <2>1. crowd' = crowd /\ activated' = activated /\ In(c, "watch")
        BY DEF Watch
      <2>2. ASSUME ~crowd, ~activated, NEW p \in Procs
            PROVE  ~Starting(p)'
        <3>1. CASE Accepting /\ proc' = proc
          BY <2>2, <3>1 DEF DaemonInv, Numbered, Lone, Accepting
        <3>2. CASE child[c] # 0 /\ proc' = Dead({child[c]})
          BY <2>1, <2>2, <3>2 DEF DaemonInv, Orders, Watched, Dead
        <3>3. CASE child[c] = 0
          BY <2>1, <2>2, <3>3 DEF DaemonInv, Orders, Watched
        <3> QED BY <3>1, <3>2, <3>3 DEF Watch
      <2> QED BY <2>1, <2>2 DEF Steady
<1>10. Orders'
  <2>1. ASSUME ~crowd'
        PROVE  \A d \in Commands : d # c => (Watched(d) /\ Reaps(d) /\ Cleared(d) /\ Ways(d) /\ Captures(d))'
    <3>1. ~crowd /\ \A d \in Commands : d # c => place[d] = "idle" \/ place[d] = "over"
      BY <2>1, OthersRest DEF Watch
    <3> QED BY <1>1, <3>1, OthersKeepOrders
  <2>2. ~crowd' => Watched(c)'
        BY DEF DaemonInv, DaemonTyped, Orders, Watched, Reaps, Cleared, Ways, Captures, Watch,
        End, Goto, LockAfter, Accepting, Dead
  <2>3. ~crowd' => Reaps(c)'
        BY DEF DaemonInv, DaemonTyped, Orders, Watched, Reaps, Cleared, Ways, Captures, Watch,
        End, Goto, LockAfter, Accepting, Dead
  <2>4. ~crowd' => Cleared(c)'
        BY DEF DaemonInv, DaemonTyped, Orders, Watched, Reaps, Cleared, Ways, Captures, Watch,
        End, Goto, LockAfter, Accepting, Dead
  <2>5. ~crowd' => Ways(c)'
        <3>1. place'[c] = "over" \/ (place'[c] = "fallback" /\ child[c] = 0)
          BY DEF DaemonInv, DaemonTyped, Watch, Goto, End
        <3>2. In(c, "watch") /\ UNCHANGED <<unit, crowd, does, child>>
          BY DEF Watch, Goto, End
        <3> QED BY <3>1, <3>2 DEF DaemonInv, Orders, Ways, Watched, UnitOwns
  <2>6. ~crowd' => Captures(c)'
        BY DEF DaemonInv, DaemonTyped, Orders, Watched, Reaps, Cleared, Ways, Captures, Watch,
        End, Goto, LockAfter, Accepting, Dead
  <2> QED BY <2>1, <2>2, <2>3, <2>4, <2>5, <2>6 DEF Orders
<1>11. Asked'
        BY DEF DaemonInv, Asked, DaemonTyped, Watch, End, Goto, LockAfter, Accepting, Dead
<1>12. Started'
        BY DEF DaemonInv, Started, DaemonTyped, Numbered, Watch, End, Goto, LockAfter,
        Accepting, Dead
<1>13. StopFreesTheRoot'
      <2>1. crowd' = crowd /\ In(c, "watch") /\ place'[c] \in {"over", "fallback"} /\ does' = does
        BY DEF DaemonInv, DaemonTyped, Watch, Goto, End
      <2>2. ~crowd => does[c] # "stop"
        BY <2>1 DEF DaemonInv, Orders, Ways
      <2>3. \A p \in Procs : Living(p)' => Living(p)
        BY DEF Watch, Dead
      <2>4. captured \in [Commands -> 0..MaxProcs]
        BY DEF DaemonInv, DaemonTyped
      <2> QED BY <1>1, <2>1, <2>2, <2>3, <2>4 DEF DaemonInv, StopFreesTheRoot, OthersHold
<1> QED BY <1>2, <1>3, <1>4, <1>5, <1>6, <1>7, <1>8, <1>9, <1>10, <1>11, <1>12, <1>13 DEF
      DaemonInv

\* Fallback keeps the invariant.
LEMMA FallbackKeeps ==
    ASSUME DaemonInv, NEW c \in Commands, Fallback(c)
    PROVE  DaemonInv'
<1>1. OthersHold(c)
        BY DEF DaemonInv, OthersHold, Fallback, Goto, LockAfter, Terminated
<1>2. DaemonTyped'
  <2>1. (/\ does \in [Commands -> {"start", "stop", "restart"}]
        /\ outcome \in [Commands -> {"none", "already", "failed", "ok"}]
        /\ captured \in [Commands -> 0..MaxProcs]
        /\ child \in [Commands -> 0..MaxProcs]
        /\ victims \in [Commands -> SUBSET Procs]
        /\ crowd \in BOOLEAN)'
        BY DEF DaemonInv, DaemonTyped, Fallback, Goto, LockAfter, Terminated
  <2>2. (proc \in [Procs -> Alive \cup {"unborn", "dead"}])'
        BY DEF DaemonInv, DaemonTyped, Numbered, Fallback, Goto, LockAfter, Terminated
  <2>3. (place \in [Commands -> Places])'
        BY DEF DaemonInv, DaemonTyped, Fallback, Goto, LockAfter, Terminated
    <2> QED BY <2>1, <2>2, <2>3 DEF DaemonTyped
<1>3. Numbered'
        BY DEF DaemonInv, Numbered, Fallback, Goto, LockAfter, Terminated
<1>4. Locked'
        BY DEF DaemonInv, Locked, Fallback, Goto, LockAfter, Terminated
<1>5. Single'
        BY DEF DaemonInv, Single, Fallback, Goto, LockAfter, Terminated
<1>6. Lone'
        BY DEF DaemonInv, Lone, Fallback, Goto, LockAfter, Terminated
<1>7. UnitOwns'
        BY DEF DaemonInv, UnitOwns, Fallback, Goto, LockAfter, Terminated
<1>8. FilesNameIt'
        BY DEF DaemonInv, FilesNameIt, Fallback, Goto, LockAfter, Terminated
<1>9. Steady'
        BY DEF DaemonInv, Steady, DaemonTyped, UnitOwns, Fallback, Goto, LockAfter, Terminated
<1>10. Orders'
  <2>1. ASSUME ~crowd'
        PROVE  \A d \in Commands : d # c => (Watched(d) /\ Reaps(d) /\ Cleared(d) /\ Ways(d) /\ Captures(d))'
    <3>1. ~crowd /\ \A d \in Commands : d # c => place[d] = "idle" \/ place[d] = "over"
      BY <2>1, OthersRest DEF Fallback
    <3> QED BY <1>1, <3>1, OthersKeepOrders
  <2>2. ~crowd' => Watched(c)'
        BY DEF DaemonInv, DaemonTyped, Orders, Watched, Reaps, Cleared, Ways, Captures,
        Fallback, Goto, LockAfter, Terminated
  <2>3. ~crowd' => Reaps(c)'
        BY DEF DaemonInv, DaemonTyped, Orders, Watched, Reaps, Cleared, Ways, Captures,
        Fallback, Goto, LockAfter, Terminated
  <2>4. ~crowd' => Cleared(c)'
        BY DEF DaemonInv, DaemonTyped, Orders, Watched, Reaps, Cleared, Ways, Captures,
        Fallback, Goto, LockAfter, Terminated
  <2>5. ~crowd' => Ways(c)'
        BY DEF DaemonInv, DaemonTyped, Orders, Watched, Reaps, Cleared, Ways, Captures,
        Fallback, Goto, LockAfter, Terminated
  <2>6. ~crowd' => Captures(c)'
        BY DEF DaemonInv, DaemonTyped, Orders, Watched, Reaps, Cleared, Ways, Captures,
        Fallback, Goto, LockAfter, Terminated
  <2> QED BY <2>1, <2>2, <2>3, <2>4, <2>5, <2>6 DEF Orders
<1>11. Asked'
        BY DEF DaemonInv, Asked, DaemonTyped, UnitOwns, Fallback, Goto, LockAfter, Terminated
<1>12. Started'
        BY DEF DaemonInv, Started, Fallback, Goto, LockAfter, Terminated
<1>13. StopFreesTheRoot'
        BY DEF DaemonInv, StopFreesTheRoot, Fallback, Goto, LockAfter, Terminated
<1> QED BY <1>2, <1>3, <1>4, <1>5, <1>6, <1>7, <1>8, <1>9, <1>10, <1>11, <1>12, <1>13 DEF
      DaemonInv

\* Vacate keeps the invariant.
LEMMA VacateKeeps ==
    ASSUME DaemonInv, NEW c \in Commands, Vacate(c)
    PROVE  DaemonInv'
<1>1. OthersHold(c)
        BY DEF DaemonInv, OthersHold, DaemonTyped, Vacate, End, Goto, NoFiles, Listed
<1>2. (Locked /\ Lone /\ UnitOwns)'
        BY DEF DaemonInv, Locked, Lone, UnitOwns, Vacate, End, Goto, NoFiles, Listed
<1>3. DaemonTyped'
  <2>1. (/\ proc \in [Procs -> Alive \cup {"unborn", "dead"}]
        /\ does \in [Commands -> {"start", "stop", "restart"}]
        /\ captured \in [Commands -> 0..MaxProcs]
        /\ child \in [Commands -> 0..MaxProcs]
        /\ victims \in [Commands -> SUBSET Procs]
        /\ crowd \in BOOLEAN)'
        BY DEF DaemonInv, DaemonTyped, Vacate, End, Goto, NoFiles, Listed
  <2>2. (place \in [Commands -> Places])'
        BY DEF DaemonInv, DaemonTyped, Lone, Vacate, End, Goto, NoFiles, Listed
  <2>3. (outcome \in [Commands -> {"none", "already", "failed", "ok"}])'
        <3>1. outcome' = outcome \/ \E q \in {"failed", "ok"} : outcome' = [outcome EXCEPT ![c] = q]
          BY DEF Vacate, Goto, End
        <3> QED BY <3>1 DEF DaemonInv, DaemonTyped
    <2> QED BY <2>1, <2>2, <2>3 DEF DaemonTyped
<1>4. Numbered'
        BY DEF DaemonInv, Numbered, Vacate, End, Goto, NoFiles, Listed
<1>5. Single'
        BY DEF DaemonInv, Single, DaemonTyped, Vacate, End, Goto, NoFiles, Listed
<1>6. FilesNameIt'
        BY DEF DaemonInv, FilesNameIt, Vacate, End, Goto, NoFiles, Listed
<1>7. Steady'
        BY DEF DaemonInv, Steady, DaemonTyped, Vacate, End, Goto, NoFiles, Listed
<1>8. Orders'
  <2>1. ASSUME ~crowd'
        PROVE  \A d \in Commands : d # c => (Watched(d) /\ Reaps(d) /\ Cleared(d) /\ Ways(d) /\ Captures(d))'
    <3>1. ~crowd /\ \A d \in Commands : d # c => place[d] = "idle" \/ place[d] = "over"
      BY <2>1, OthersRest DEF Vacate
    <3> QED BY <1>1, <3>1, OthersKeepOrders
  <2>2. ~crowd' => Watched(c)'
        BY DEF DaemonInv, DaemonTyped, Orders, Watched, Reaps, Cleared, Ways, Captures, Vacate,
        End, Goto, NoFiles, Listed
  <2>3. ~crowd' => Reaps(c)'
        BY DEF DaemonInv, DaemonTyped, Orders, Watched, Reaps, Cleared, Ways, Captures, Vacate,
        End, Goto, NoFiles, Listed
  <2>4. ~crowd' => Cleared(c)'
        <3>1. Listed = {} => NobodyLives
          BY DEF Listed
        <3>2. Listed # {} => place'[c] = "over" \/ place'[c] = "reap"
          BY DEF DaemonInv, DaemonTyped, Vacate, Goto, End
        <3>3. proc' = proc /\ activated' = activated /\ crowd' = crowd
          BY DEF Vacate
        <3>4. place'[c] \in {"spawn", "over"}
          BY DEF DaemonInv, DaemonTyped, Vacate, Goto, End
        <3>5. ~crowd => ~activated
          BY DEF DaemonInv, Orders, Ways, Vacate
        <3> QED BY <3>1, <3>2, <3>3, <3>4, <3>5 DEF Cleared
  <2>5. ~crowd' => Ways(c)'
        BY DEF DaemonInv, DaemonTyped, Orders, Watched, Reaps, Cleared, Ways, Captures, Vacate,
        End, Goto, NoFiles, Listed
  <2>6. ~crowd' => Captures(c)'
        BY DEF DaemonInv, DaemonTyped, Orders, Watched, Reaps, Cleared, Ways, Captures, Vacate,
        End, Goto, NoFiles, Listed
  <2> QED BY <2>1, <2>2, <2>3, <2>4, <2>5, <2>6 DEF Orders
<1>9. Asked'
        BY DEF DaemonInv, Asked, DaemonTyped, Vacate, End, Goto, NoFiles, Listed
<1>10. Started'
        BY DEF DaemonInv, Started, Vacate, End, Goto, NoFiles, Listed
<1>11. StopFreesTheRoot'
        BY DEF DaemonInv, StopFreesTheRoot, DaemonTyped, Vacate, End, Goto, NoFiles, Listed
<1> QED BY <1>2, <1>3, <1>4, <1>5, <1>6, <1>7, <1>8, <1>9, <1>10, <1>11 DEF DaemonInv

\* Capture keeps the invariant.
LEMMA CaptureKeeps ==
    ASSUME DaemonInv, NEW c \in Commands, Capture(c)
    PROVE  DaemonInv'
<1>1. OthersHold(c)
        BY DEF DaemonInv, OthersHold, Capture
<1>2. (Numbered /\ Locked /\ Lone /\ UnitOwns /\ FilesNameIt)'
        BY DEF DaemonInv, Numbered, Locked, Lone, UnitOwns, FilesNameIt, Capture
<1>3. DaemonTyped'
  <2>1. (/\ proc \in [Procs -> Alive \cup {"unborn", "dead"}]
        /\ does \in [Commands -> {"start", "stop", "restart"}]
        /\ outcome \in [Commands -> {"none", "already", "failed", "ok"}]
        /\ child \in [Commands -> 0..MaxProcs]
        /\ victims \in [Commands -> SUBSET Procs]
        /\ crowd \in BOOLEAN)'
        BY DEF DaemonInv, DaemonTyped, Capture
  <2>2. (place \in [Commands -> Places])'
        BY DEF DaemonInv, DaemonTyped, Capture
  <2>3. (captured \in [Commands -> 0..MaxProcs])'
        BY DEF DaemonInv, DaemonTyped, Numbered, Capture
    <2> QED BY <2>1, <2>2, <2>3 DEF DaemonTyped
<1>4. Single'
        BY DEF DaemonInv, Single, Capture
<1>5. Steady'
        BY DEF DaemonInv, Steady, Capture
<1>6. Orders'
  <2>1. ASSUME ~crowd'
        PROVE  \A d \in Commands : d # c => (Watched(d) /\ Reaps(d) /\ Cleared(d) /\ Ways(d) /\ Captures(d))'
    <3>1. ~crowd /\ \A d \in Commands : d # c => place[d] = "idle" \/ place[d] = "over"
      BY <2>1, OthersRest DEF Capture
    <3> QED BY <1>1, <3>1, OthersKeepOrders
  <2>2. ~crowd' => Watched(c)'
        BY DEF DaemonInv, DaemonTyped, Orders, Watched, Reaps, Cleared, Ways, Captures, Capture
  <2>3. ~crowd' => Reaps(c)'
        BY DEF DaemonInv, DaemonTyped, Orders, Watched, Reaps, Cleared, Ways, Captures, Capture
  <2>4. ~crowd' => Cleared(c)'
        BY DEF DaemonInv, DaemonTyped, Orders, Watched, Reaps, Cleared, Ways, Captures, Capture
  <2>5. ~crowd' => Ways(c)'
        BY DEF DaemonInv, DaemonTyped, Orders, Watched, Reaps, Cleared, Ways, Captures, Capture
  <2>6. ~crowd' => Captures(c)'
        <3>1. captured'[c] = pidfile /\ place'[c] = (IF installed THEN "unitstop" ELSE "dial")
          BY DEF DaemonInv, DaemonTyped, Capture
        <3>2. In(c, "capture") /\ UNCHANGED <<proc, activated, installed, pidfile, crowd>>
          BY DEF Capture
        <3>3. ~installed => ~activated
          BY DEF DaemonInv, UnitOwns
        <3>4. ASSUME ~crowd, ~activated, NEW p \in Procs, Living(p)
              PROVE  IF pidfile = 0 THEN proc[p] = "parting" ELSE p = pidfile
          <4>1. ~Starting(p)
            BY <3>2, <3>4, NobodyStarts
          <4> QED BY <3>4, <4>1 DEF DaemonInv, FilesNameIt
        <3> QED BY <3>1, <3>2, <3>3, <3>4 DEF Captures
  <2> QED BY <2>1, <2>2, <2>3, <2>4, <2>5, <2>6 DEF Orders
<1>7. Asked'
        BY DEF DaemonInv, Asked, Capture
<1>8. Started'
        BY DEF DaemonInv, Started, Capture
<1>9. StopFreesTheRoot'
        BY DEF DaemonInv, StopFreesTheRoot, Capture
<1> QED BY <1>2, <1>3, <1>4, <1>5, <1>6, <1>7, <1>8, <1>9 DEF DaemonInv

\* StopUnit keeps the invariant.
LEMMA StopUnitKeeps ==
    ASSUME DaemonInv, NEW c \in Commands, StopUnit(c)
    PROVE  DaemonInv'
<1>1. OthersHold(c)
        BY DEF DaemonInv, OthersHold, DaemonTyped, StopUnit, Goto, LockAfter, Terminated
<1>2. DaemonTyped'
  <2>1. (/\ does \in [Commands -> {"start", "stop", "restart"}]
        /\ outcome \in [Commands -> {"none", "already", "failed", "ok"}]
        /\ captured \in [Commands -> 0..MaxProcs]
        /\ child \in [Commands -> 0..MaxProcs]
        /\ victims \in [Commands -> SUBSET Procs]
        /\ crowd \in BOOLEAN)'
        BY DEF DaemonInv, DaemonTyped, StopUnit, Goto, LockAfter, Terminated
  <2>2. (proc \in [Procs -> Alive \cup {"unborn", "dead"}])'
        BY DEF DaemonInv, DaemonTyped, StopUnit, Goto, LockAfter, Terminated
  <2>3. (place \in [Commands -> Places])'
        <3>1. \E q \in {"unitwait", "settle"} : place' = [place EXCEPT ![c] = q]
          BY DEF StopUnit, Goto
        <3> QED BY <3>1 DEF DaemonInv, DaemonTyped
    <2> QED BY <2>1, <2>2, <2>3 DEF DaemonTyped
<1>3. Numbered'
        BY DEF DaemonInv, Numbered, StopUnit, Goto, LockAfter, Terminated
<1>4. Locked'
        BY DEF DaemonInv, Locked, DaemonTyped, StopUnit, Goto, LockAfter, Terminated
<1>5. Single'
        BY DEF DaemonInv, Single, DaemonTyped, Started, StopUnit, Goto, LockAfter, Terminated
<1>6. Lone'
        BY DEF DaemonInv, Lone, DaemonTyped, StopUnit, Goto, LockAfter, Terminated
<1>7. UnitOwns'
        BY DEF DaemonInv, UnitOwns, StopUnit, Goto, LockAfter, Terminated
<1>8. FilesNameIt'
        BY DEF DaemonInv, FilesNameIt, DaemonTyped, StopUnit, Goto, LockAfter, Terminated
<1>9. Steady'
        BY DEF DaemonInv, Steady, DaemonTyped, UnitOwns, StopUnit, Goto, LockAfter, Terminated
<1>10. Orders'
  <2>1. ASSUME ~crowd'
        PROVE  \A d \in Commands : d # c => (Watched(d) /\ Reaps(d) /\ Cleared(d) /\ Ways(d) /\ Captures(d))'
    <3>1. ~crowd /\ \A d \in Commands : d # c => place[d] = "idle" \/ place[d] = "over"
      BY <2>1, OthersRest DEF StopUnit
    <3> QED BY <1>1, <3>1, OthersKeepOrders
  <2>2. ~crowd' => Watched(c)'
        BY DEF DaemonInv, DaemonTyped, Orders, Watched, Reaps, Cleared, Ways, Captures,
        StopUnit, Goto, LockAfter, Terminated
  <2>3. ~crowd' => Reaps(c)'
        BY DEF DaemonInv, DaemonTyped, Orders, Watched, Reaps, Cleared, Ways, Captures,
        StopUnit, Goto, LockAfter, Terminated
  <2>4. ~crowd' => Cleared(c)'
        BY DEF DaemonInv, DaemonTyped, Orders, Watched, Reaps, Cleared, Ways, Captures,
        StopUnit, Goto, LockAfter, Terminated
  <2>5. ~crowd' => Ways(c)'
        <3>1. /\ installed' = installed /\ activated' = FALSE /\ mainPid' = mainPid /\ crowd' = crowd
              /\ does' = does /\ captured' = captured /\ child' = child
              /\ place'[c] = "settle" \/ (place'[c] = "unitwait" /\ activated /\ proc' = Terminated(mainPid))
          BY DEF DaemonInv, DaemonTyped, StopUnit, Goto
        <3>2. \A p \in Procs : proc' = Terminated(mainPid) /\ Living(p)' => Living(p)
          BY DEF DaemonInv, DaemonTyped, Terminated
        <3>3. ~crowd => installed /\ child[c] = 0 /\ (activated => \A p \in Procs : Living(p) => p = mainPid)
          BY DEF DaemonInv, Orders, Ways, UnitOwns, StopUnit
        <3> QED BY <3>1, <3>2, <3>3 DEF Ways
  <2>6. ~crowd' => Captures(c)'
        <3>1. /\ installed' = installed /\ crowd' = crowd /\ captured' = captured
              /\ place'[c] = "unitwait" \/ (place'[c] = "settle" /\ ~(activated /\ Living(mainPid)) /\ proc' = proc)
          BY DEF DaemonInv, DaemonTyped, StopUnit, Goto
        <3>2. ASSUME ~crowd, ~(activated /\ Living(mainPid)), NEW p \in Procs, Living(p)
              PROVE  IF captured[c] = 0 THEN proc[p] = "parting" ELSE p = captured[c]
          BY <3>2 DEF DaemonInv, Orders, Captures, UnitOwns, StopUnit
        <3>3. ~crowd => installed
          BY DEF DaemonInv, Orders, Ways, StopUnit
        <3> QED BY <3>1, <3>2, <3>3 DEF Captures
  <2> QED BY <2>1, <2>2, <2>3, <2>4, <2>5, <2>6 DEF Orders
<1>11. Asked'
        BY DEF DaemonInv, Asked, DaemonTyped, UnitOwns, StopUnit, Goto, LockAfter, Terminated
<1>12. Started'
      <2>1. UNCHANGED <<pidfile, captured, crowd>>
        BY DEF StopUnit, Goto
      <2>2. \A p \in Procs : proc[p] # "unborn" => proc'[p] # "unborn"
        BY DEF DaemonInv, DaemonTyped, StopUnit, Terminated
      <2>3. pidfile \in 0..MaxProcs /\ captured \in [Commands -> 0..MaxProcs]
        BY DEF DaemonInv, DaemonTyped, Numbered
      <2> QED BY <2>1, <2>2, <2>3 DEF DaemonInv, Started
<1>13. StopFreesTheRoot'
        BY DEF DaemonInv, StopFreesTheRoot, DaemonTyped, StopUnit, Goto, LockAfter, Terminated
<1> QED BY <1>2, <1>3, <1>4, <1>5, <1>6, <1>7, <1>8, <1>9, <1>10, <1>11, <1>12, <1>13 DEF
      DaemonInv

\* UnitStopped keeps the invariant.
LEMMA UnitStoppedKeeps ==
    ASSUME DaemonInv, NEW c \in Commands, UnitStopped(c)
    PROVE  DaemonInv'
<1>1. OthersHold(c)
        BY DEF DaemonInv, OthersHold, UnitStopped, Goto
<1>2. (Numbered /\ Locked /\ Lone /\ UnitOwns /\ FilesNameIt /\ Started)'
        BY DEF DaemonInv, Numbered, Locked, Lone, UnitOwns, FilesNameIt, Started, UnitStopped,
      Goto
<1>3. DaemonTyped'
  <2>1. (/\ proc \in [Procs -> Alive \cup {"unborn", "dead"}]
        /\ does \in [Commands -> {"start", "stop", "restart"}]
        /\ outcome \in [Commands -> {"none", "already", "failed", "ok"}]
        /\ captured \in [Commands -> 0..MaxProcs]
        /\ child \in [Commands -> 0..MaxProcs]
        /\ victims \in [Commands -> SUBSET Procs]
        /\ crowd \in BOOLEAN)'
        BY DEF DaemonInv, DaemonTyped, UnitStopped, Goto
  <2>2. (place \in [Commands -> Places])'
        BY DEF DaemonInv, DaemonTyped, UnitStopped, Goto
    <2> QED BY <2>1, <2>2 DEF DaemonTyped
<1>4. Single'
        BY DEF DaemonInv, Single, UnitStopped, Goto
<1>5. Steady'
        BY DEF DaemonInv, Steady, UnitStopped, Goto
<1>6. Orders'
  <2>1. ASSUME ~crowd'
        PROVE  \A d \in Commands : d # c => (Watched(d) /\ Reaps(d) /\ Cleared(d) /\ Ways(d) /\ Captures(d))'
    <3>1. ~crowd /\ \A d \in Commands : d # c => place[d] = "idle" \/ place[d] = "over"
      BY <2>1, OthersRest DEF UnitStopped
    <3> QED BY <1>1, <3>1, OthersKeepOrders
  <2>2. ~crowd' => Watched(c)'
        BY DEF DaemonInv, DaemonTyped, Orders, Watched, Reaps, Cleared, Ways, Captures,
        UnitStopped, Goto
  <2>3. ~crowd' => Reaps(c)'
        BY DEF DaemonInv, DaemonTyped, Orders, Watched, Reaps, Cleared, Ways, Captures,
        UnitStopped, Goto
  <2>4. ~crowd' => Cleared(c)'
        BY DEF DaemonInv, DaemonTyped, Orders, Watched, Reaps, Cleared, Ways, Captures,
        UnitStopped, Goto
  <2>5. ~crowd' => Ways(c)'
        BY DEF DaemonInv, DaemonTyped, Orders, Watched, Reaps, Cleared, Ways, Captures,
        UnitStopped, Goto
  <2>6. ~crowd' => Captures(c)'
        BY DEF DaemonInv, DaemonTyped, Orders, Watched, Reaps, Cleared, Ways, Captures,
        UnitStopped, Goto
  <2> QED BY <2>1, <2>2, <2>3, <2>4, <2>5, <2>6 DEF Orders
<1>7. Asked'
        BY DEF DaemonInv, Asked, UnitStopped, Goto
<1>8. StopFreesTheRoot'
        BY DEF DaemonInv, StopFreesTheRoot, UnitStopped, Goto
<1> QED BY <1>2, <1>3, <1>4, <1>5, <1>6, <1>7, <1>8 DEF DaemonInv

\* AskShutdown keeps the invariant.
LEMMA AskShutdownKeeps ==
    ASSUME DaemonInv, NEW c \in Commands, AskShutdown(c)
    PROVE  DaemonInv'
<1>1. OthersHold(c)
        BY DEF DaemonInv, OthersHold, DaemonTyped, AskShutdown, Goto, LockAfter, Terminated,
        Accepting, Stopped, End, NoFiles, Gone, Dead
<1>2. DaemonTyped'
  <2>1. (/\ does \in [Commands -> {"start", "stop", "restart"}]
        /\ captured \in [Commands -> 0..MaxProcs]
        /\ child \in [Commands -> 0..MaxProcs]
        /\ victims \in [Commands -> SUBSET Procs]
        /\ crowd \in BOOLEAN)'
        BY DEF DaemonInv, DaemonTyped, AskShutdown, Goto, LockAfter, Terminated, Accepting,
        Stopped, End, NoFiles, Gone, Dead
  <2>2. (proc \in [Procs -> Alive \cup {"unborn", "dead"}])'
        BY DEF DaemonInv, DaemonTyped, AskShutdown, Goto, LockAfter, Terminated, Accepting,
        Stopped, End, NoFiles, Gone, Dead
  <2>3. (place \in [Commands -> Places])'
        <3>1. \E q \in {"settle", "clear", "look", "over"} : place' = [place EXCEPT ![c] = q]
          BY DEF AskShutdown, Stopped, Goto, End
        <3> QED BY <3>1 DEF DaemonInv, DaemonTyped
  <2>4. (outcome \in [Commands -> {"none", "already", "failed", "ok"}])'
        BY DEF DaemonInv, DaemonTyped, Single, AskShutdown, Goto, LockAfter, Terminated,
        Accepting, Stopped, End, NoFiles, Gone, Dead
    <2> QED BY <2>1, <2>2, <2>3, <2>4 DEF DaemonTyped
<1>3. Numbered'
        BY DEF DaemonInv, Numbered, AskShutdown, Goto, LockAfter, Terminated, Accepting,
        Stopped, End, NoFiles, Gone, Dead
<1>4. Locked'
        BY DEF DaemonInv, Locked, DaemonTyped, AskShutdown, Goto, LockAfter, Terminated,
        Accepting, Stopped, End, NoFiles, Gone, Dead
<1>5. Single'
      <2>1. crowd' = crowd /\ Begun(c)
        BY DEF AskShutdown
      <2> QED BY <1>1, <2>1, OthersRest DEF Single, OthersHold
<1>6. Lone'
        BY DEF DaemonInv, Lone, DaemonTyped, AskShutdown, Goto, LockAfter, Terminated,
        Accepting, Stopped, End, NoFiles, Gone, Dead
<1>7. UnitOwns'
        BY DEF DaemonInv, UnitOwns, DaemonTyped, AskShutdown, Goto, LockAfter, Terminated,
        Accepting, Stopped, End, NoFiles, Gone, Dead
<1>8. FilesNameIt'
        BY DEF DaemonInv, FilesNameIt, DaemonTyped, AskShutdown, Goto, LockAfter, Terminated,
        Accepting, Stopped, End, NoFiles, Gone, Dead
<1>9. Steady'
        BY DEF DaemonInv, Steady, DaemonTyped, AskShutdown, Goto, LockAfter, Terminated,
        Accepting, Stopped, End, NoFiles, Gone, Dead
<1>10. Orders'
  <2>1. ASSUME ~crowd'
        PROVE  \A d \in Commands : d # c => (Watched(d) /\ Reaps(d) /\ Cleared(d) /\ Ways(d) /\ Captures(d))'
    <3>1. ~crowd /\ \A d \in Commands : d # c => place[d] = "idle" \/ place[d] = "over"
      BY <2>1, OthersRest DEF AskShutdown
    <3> QED BY <1>1, <3>1, OthersKeepOrders
  <2>2. ~crowd' => Watched(c)'
        BY DEF DaemonInv, DaemonTyped, Orders, Watched, Reaps, Cleared, Ways, Captures,
        AskShutdown, Goto, LockAfter, Terminated, Accepting, Stopped, End, NoFiles, Gone, Dead
  <2>3. ~crowd' => Reaps(c)'
        BY DEF DaemonInv, DaemonTyped, Orders, Watched, Reaps, Cleared, Ways, Captures,
        AskShutdown, Goto, LockAfter, Terminated, Accepting, Stopped, End, NoFiles, Gone, Dead
  <2>4. ~crowd' => Cleared(c)'
        <3>1. /\ UNCHANGED <<unit, crowd>>
              /\ place'[c] \in {"settle", "look", "over"} \/ (place'[c] = "clear" /\ Living(pidfile) /\ proc' = Dead({pidfile}))
          BY DEF DaemonInv, DaemonTyped, AskShutdown, Stopped, Goto, End
        <3>2. ~crowd => ~activated
          BY DEF DaemonInv, Orders, Ways, UnitOwns, AskShutdown
        <3>3. ~crowd /\ Living(pidfile) => \A p \in Procs : Living(p) => p = pidfile
          BY DEF DaemonInv, Lone, Numbered
        <3> QED BY <3>1, <3>2, <3>3 DEF Cleared, Dead
  <2>5. ~crowd' => Ways(c)'
        <3>1. /\ UNCHANGED <<unit, crowd, does, captured, child>> /\ In(c, "dial")
              /\ \/ place'[c] = "settle" \/ place'[c] = "clear" \/ place'[c] = "over"
                 \/ place'[c] = "look" /\ does[c] = "restart"
          BY DEF DaemonInv, DaemonTyped, AskShutdown, Stopped, Goto, End
        <3>2. ~crowd => ~activated /\ child[c] = 0
          BY <3>1 DEF DaemonInv, Orders, Ways, UnitOwns
        <3> QED BY <3>1, <3>2 DEF Ways
  <2>6. ~crowd' => Captures(c)'
        <3>1. /\ UNCHANGED <<unit, crowd, captured>> /\ In(c, "dial")
              /\ \/ place'[c] = "look" \/ place'[c] = "clear" \/ place'[c] = "over"
                 \/ place'[c] = "settle" /\ Accepting /\ proc' = Terminated(sock)
          BY DEF DaemonInv, DaemonTyped, AskShutdown, Stopped, Goto, End
        <3>2. ASSUME ~crowd
              PROVE  \A p \in Procs : Living(p) => IF captured[c] = 0 THEN proc[p] = "parting" ELSE p = captured[c]
          BY <3>1, <3>2 DEF DaemonInv, Orders, Captures
        <3>3. sock \in 0..MaxProcs /\ proc \in [Procs -> Alive \cup {"unborn", "dead"}]
          BY DEF DaemonInv, DaemonTyped, Numbered
        <3>4. ~crowd /\ Accepting => captured[c] # 0
          BY <3>2, <3>3 DEF Accepting
        <3>5. \A p \in Procs : proc' = Terminated(sock) /\ Living(p)' => Living(p)
          BY <3>3 DEF Terminated
        <3> QED BY <3>1, <3>2, <3>4, <3>5 DEF Captures
  <2> QED BY <2>1, <2>2, <2>3, <2>4, <2>5, <2>6 DEF Orders
<1>11. Asked'
        BY DEF DaemonInv, Asked, DaemonTyped, AskShutdown, Goto, LockAfter, Terminated,
        Accepting, Stopped, End, NoFiles, Gone, Dead
<1>12. Started'
        BY DEF DaemonInv, Started, DaemonTyped, Numbered, AskShutdown, Goto, LockAfter,
        Terminated, Accepting, Stopped, End, NoFiles, Gone, Dead
<1>13. StopFreesTheRoot'
      <2>1. UNCHANGED <<crowd, captured>> /\ In(c, "dial")
        BY DEF AskShutdown, Stopped, Goto, End
      <2>2. \A p \in Procs : Living(p)' => Living(p)
        BY DEF DaemonInv, DaemonTyped, AskShutdown, Dead, Terminated
      <2>3. captured \in [Commands -> 0..MaxProcs]
        BY DEF DaemonInv, DaemonTyped
      <2>4. place'[c] = "settle" \/ place'[c] = "clear" \/ (~Accepting /\ (pidfile = 0 \/ ~Living(pidfile)))
        BY DEF DaemonInv, DaemonTyped, AskShutdown, Gone, Stopped, Goto, End
      <2>5. ~crowd /\ (place'[c] = "look" \/ place'[c] = "over") => NobodyLives
        BY <2>1, <2>4, NobodyAnswers
      <2> QED BY <1>1, <2>1, <2>2, <2>3, <2>5 DEF DaemonInv, StopFreesTheRoot, OthersHold
<1> QED BY <1>2, <1>3, <1>4, <1>5, <1>6, <1>7, <1>8, <1>9, <1>10, <1>11, <1>12, <1>13 DEF
      DaemonInv

\* Settle keeps the invariant.
LEMMA SettleKeeps ==
    ASSUME DaemonInv, NEW c \in Commands, Settle(c)
    PROVE  DaemonInv'
<1>1. OthersHold(c)
        BY DEF DaemonInv, OthersHold, DaemonTyped, Settle, NoFiles, Gone, Accepting, Stopped,
        End, Goto
<1>2. (Locked /\ Lone /\ UnitOwns)'
        BY DEF DaemonInv, Locked, Lone, UnitOwns, Settle, NoFiles, Gone, Accepting, Stopped,
      End, Goto
<1>3. DaemonTyped'
  <2>1. (/\ proc \in [Procs -> Alive \cup {"unborn", "dead"}]
        /\ does \in [Commands -> {"start", "stop", "restart"}]
        /\ captured \in [Commands -> 0..MaxProcs]
        /\ child \in [Commands -> 0..MaxProcs]
        /\ victims \in [Commands -> SUBSET Procs]
        /\ crowd \in BOOLEAN)'
        BY DEF DaemonInv, DaemonTyped, Settle, NoFiles, Gone, Accepting, Stopped, End, Goto
  <2>2. (place \in [Commands -> Places])'
        <3>1. \E q \in {"look", "over"} : place' = [place EXCEPT ![c] = q]
          BY DEF Settle, Stopped, Goto, End
        <3> QED BY <3>1 DEF DaemonInv, DaemonTyped
  <2>3. (outcome \in [Commands -> {"none", "already", "failed", "ok"}])'
        BY DEF DaemonInv, DaemonTyped, StopFreesTheRoot, Settle, NoFiles, Gone, Accepting,
        Stopped, End, Goto
    <2> QED BY <2>1, <2>2, <2>3 DEF DaemonTyped
<1>4. Numbered'
        BY DEF DaemonInv, Numbered, Settle, NoFiles, Gone, Accepting, Stopped, End, Goto
<1>5. Single'
      <2>1. crowd' = crowd /\ Begun(c)
        BY DEF Settle
      <2> QED BY <1>1, <2>1, OthersRest DEF Single, OthersHold
<1>6. FilesNameIt'
      <2>1. UNCHANGED <<proc, crowd, captured, unit>>
        BY DEF Settle, Stopped, Goto, End
      <2>2. ASSUME ~crowd
            PROVE  /\ \A p \in Procs : Living(p) => proc[p] = "parting"
                   /\ captured[c] # 0 => NobodyLives
        BY <2>2, SettledIsOver DEF Settle
      <2> QED BY <2>1, <2>2 DEF FilesNameIt, Settle, NoFiles
<1>7. Steady'
        BY DEF DaemonInv, Steady, DaemonTyped, Settle, NoFiles, Gone, Accepting, Stopped, End,
        Goto
<1>8. Orders'
  <2>1. ASSUME ~crowd'
        PROVE  \A d \in Commands : d # c => (Watched(d) /\ Reaps(d) /\ Cleared(d) /\ Ways(d) /\ Captures(d))'
    <3>1. ~crowd /\ \A d \in Commands : d # c => place[d] = "idle" \/ place[d] = "over"
      BY <2>1, OthersRest DEF Settle
    <3> QED BY <1>1, <3>1, OthersKeepOrders
  <2>2. ~crowd' => Watched(c)'
        BY DEF DaemonInv, DaemonTyped, Orders, Watched, Reaps, Cleared, Ways, Captures, Settle,
        NoFiles, Gone, Accepting, Stopped, End, Goto
  <2>3. ~crowd' => Reaps(c)'
        BY DEF DaemonInv, DaemonTyped, Orders, Watched, Reaps, Cleared, Ways, Captures, Settle,
        NoFiles, Gone, Accepting, Stopped, End, Goto
  <2>4. ~crowd' => Cleared(c)'
        BY DEF DaemonInv, DaemonTyped, Orders, Watched, Reaps, Cleared, Ways, Captures, Settle,
        NoFiles, Gone, Accepting, Stopped, End, Goto
  <2>5. ~crowd' => Ways(c)'
        BY DEF DaemonInv, DaemonTyped, Orders, Watched, Reaps, Cleared, Ways, Captures, Settle,
        NoFiles, Gone, Accepting, Stopped, End, Goto
  <2>6. ~crowd' => Captures(c)'
        BY DEF DaemonInv, DaemonTyped, Orders, Watched, Reaps, Cleared, Ways, Captures, Settle,
        NoFiles, Gone, Accepting, Stopped, End, Goto
  <2> QED BY <2>1, <2>2, <2>3, <2>4, <2>5, <2>6 DEF Orders
<1>9. Asked'
      <2>1. UNCHANGED <<proc, crowd, captured, unit>>
        BY DEF Settle, Stopped, Goto, End
      <2>2. ASSUME ~crowd
            PROVE  /\ \A p \in Procs : Living(p) => proc[p] = "parting"
                   /\ captured[c] # 0 => NobodyLives
        BY <2>2, SettledIsOver DEF Settle
      <2>3. ~crowd /\ ~installed => captured[c] # 0
        BY DEF DaemonInv, Orders, Captures, Settle
      <2> QED BY <2>1, <2>2, <2>3 DEF Asked
<1>10. Started'
        BY DEF DaemonInv, Started, Settle, NoFiles, Gone, Accepting, Stopped, End, Goto
<1>11. StopFreesTheRoot'
      <2>1. UNCHANGED <<proc, crowd, captured, unit>>
        BY DEF Settle, Stopped, Goto, End
      <2>2. ASSUME ~crowd
            PROVE  /\ \A p \in Procs : Living(p) => proc[p] = "parting"
                   /\ captured[c] # 0 => NobodyLives
        BY <2>2, SettledIsOver DEF Settle
      <2>3. captured \in [Commands -> 0..MaxProcs]
        BY DEF DaemonInv, DaemonTyped
      <2> QED BY <1>1, <2>1, <2>2, <2>3 DEF DaemonInv, StopFreesTheRoot, OthersHold
<1> QED BY <1>2, <1>3, <1>4, <1>5, <1>6, <1>7, <1>8, <1>9, <1>10, <1>11 DEF DaemonInv

\* SettleByForce keeps the invariant.
LEMMA SettleByForceKeeps ==
    ASSUME DaemonInv, NEW c \in Commands, SettleByForce(c)
    PROVE  DaemonInv'
<1>1. OthersHold(c)
        BY DEF DaemonInv, OthersHold, DaemonTyped, SettleByForce, End, Goto, LockAfter, Gone,
        Accepting, Dead
<1>2. DaemonTyped'
  <2>1. (/\ does \in [Commands -> {"start", "stop", "restart"}]
        /\ captured \in [Commands -> 0..MaxProcs]
        /\ child \in [Commands -> 0..MaxProcs]
        /\ victims \in [Commands -> SUBSET Procs]
        /\ crowd \in BOOLEAN)'
        BY DEF DaemonInv, DaemonTyped, SettleByForce, End, Goto, LockAfter, Gone, Accepting,
        Dead
  <2>2. (proc \in [Procs -> Alive \cup {"unborn", "dead"}])'
        BY DEF DaemonInv, DaemonTyped, SettleByForce, End, Goto, LockAfter, Gone, Accepting,
        Dead
  <2>3. (place \in [Commands -> Places])'
        <3>1. \E q \in {"clear", "over"} : place' = [place EXCEPT ![c] = q]
          BY DEF SettleByForce, Goto, End
        <3> QED BY <3>1 DEF DaemonInv, DaemonTyped
  <2>4. (outcome \in [Commands -> {"none", "already", "failed", "ok"}])'
        <3>1. outcome' = outcome \/ \E q \in {"failed", "ok"} : outcome' = [outcome EXCEPT ![c] = q]
          BY DEF SettleByForce, Goto, End
        <3> QED BY <3>1 DEF DaemonInv, DaemonTyped
    <2> QED BY <2>1, <2>2, <2>3, <2>4 DEF DaemonTyped
<1>3. Numbered'
        BY DEF DaemonInv, Numbered, SettleByForce, End, Goto, LockAfter, Gone, Accepting, Dead
<1>4. Locked'
        BY DEF DaemonInv, Locked, SettleByForce, End, Goto, LockAfter, Gone, Accepting, Dead
<1>5. Single'
        BY DEF DaemonInv, Single, DaemonTyped, Locked, SettleByForce, End, Goto, LockAfter,
        Gone, Accepting, Dead
<1>6. Lone'
        BY DEF DaemonInv, Lone, SettleByForce, End, Goto, LockAfter, Gone, Accepting, Dead
<1>7. UnitOwns'
        BY DEF DaemonInv, UnitOwns, SettleByForce, End, Goto, LockAfter, Gone, Accepting, Dead
<1>8. FilesNameIt'
        BY DEF DaemonInv, FilesNameIt, SettleByForce, End, Goto, LockAfter, Gone, Accepting,
        Dead
<1>9. Steady'
        BY DEF DaemonInv, Steady, DaemonTyped, SettleByForce, End, Goto, LockAfter, Gone,
        Accepting, Dead
<1>10. Orders'
  <2>1. ASSUME ~crowd'
        PROVE  \A d \in Commands : d # c => (Watched(d) /\ Reaps(d) /\ Cleared(d) /\ Ways(d) /\ Captures(d))'
    <3>1. ~crowd /\ \A d \in Commands : d # c => place[d] = "idle" \/ place[d] = "over"
      BY <2>1, OthersRest DEF SettleByForce
    <3> QED BY <1>1, <3>1, OthersKeepOrders
  <2>2. ~crowd' => Watched(c)'
        BY DEF DaemonInv, DaemonTyped, Orders, Watched, Reaps, Cleared, Ways, Captures,
        SettleByForce, End, Goto, LockAfter, Gone, Accepting, Dead
  <2>3. ~crowd' => Reaps(c)'
        BY DEF DaemonInv, DaemonTyped, Orders, Watched, Reaps, Cleared, Ways, Captures,
        SettleByForce, End, Goto, LockAfter, Gone, Accepting, Dead
  <2>4. ~crowd' => Cleared(c)'
        <3>1. /\ UNCHANGED <<unit, crowd>> /\ In(c, "settle")
              /\ \/ place'[c] = "over"
                 \/ place'[c] = "clear" /\ \E t \in {pidfile, captured[c]} : Living(t) /\ proc' = Dead({t})
          BY DEF DaemonInv, DaemonTyped, SettleByForce, Goto, End
        <3>2. ~crowd => ~activated
          BY <3>1 DEF DaemonInv, Orders, Ways
        <3>3. pidfile \in 0..MaxProcs /\ captured[c] \in 0..MaxProcs
          BY DEF DaemonInv, DaemonTyped, Numbered
        <3>4. ~crowd => \A t \in 0..MaxProcs : Living(t) => \A p \in Procs : Living(p) => p = t
          BY DEF DaemonInv, Lone
        <3> QED BY <3>1, <3>2, <3>3, <3>4 DEF Cleared, Dead
  <2>5. ~crowd' => Ways(c)'
        BY DEF DaemonInv, DaemonTyped, Orders, Watched, Reaps, Cleared, Ways, Captures,
        SettleByForce, End, Goto, LockAfter, Gone, Accepting, Dead
  <2>6. ~crowd' => Captures(c)'
        BY DEF DaemonInv, DaemonTyped, Orders, Watched, Reaps, Cleared, Ways, Captures,
        SettleByForce, End, Goto, LockAfter, Gone, Accepting, Dead
  <2> QED BY <2>1, <2>2, <2>3, <2>4, <2>5, <2>6 DEF Orders
<1>11. Asked'
      <2>1. UNCHANGED <<crowd, installed>> /\ In(c, "settle") /\ ~Gone
        BY DEF SettleByForce
      <2>2. pidfile \in 0..MaxProcs /\ captured[c] \in 0..MaxProcs /\ sock \in 0..MaxProcs
        BY DEF DaemonInv, DaemonTyped, Numbered
      <2>3. ASSUME ~crowd, ~installed, NEW p \in Procs, Living(p)'
            PROVE  FALSE
        <3>1. captured[c] # 0 /\ \A q \in Procs : Living(q) => q = captured[c]
          BY <2>1, <2>3 DEF DaemonInv, Orders, Captures
        <3>2. CASE \E t \in {pidfile, captured[c]} : Living(t) /\ proc' = Dead({t})
          BY <2>2, <2>3, <3>1, <3>2 DEF Dead
        <3>3. CASE pidfile # 0 /\ ~Living(pidfile) /\ proc' = proc
          <4>1. Accepting /\ sock = p
            BY <2>1, <2>2, <2>3, <3>1, <3>3 DEF Gone, Accepting
          <4> QED BY <2>3, <3>3, <4>1 DEF DaemonInv, FilesNameIt, Accepting
        <3>4. CASE pidfile = 0 /\ ~Living(captured[c]) /\ proc' = proc
          BY <2>3, <3>1, <3>4
        <3> QED BY <3>2, <3>3, <3>4 DEF SettleByForce
      <2> QED BY <2>1, <2>3 DEF Asked
<1>12. Started'
        BY DEF DaemonInv, Started, DaemonTyped, SettleByForce, End, Goto, LockAfter, Gone,
        Accepting, Dead
<1>13. StopFreesTheRoot'
        BY DEF DaemonInv, StopFreesTheRoot, DaemonTyped, Locked, SettleByForce, End, Goto,
        LockAfter, Gone, Accepting, Dead
<1> QED BY <1>2, <1>3, <1>4, <1>5, <1>6, <1>7, <1>8, <1>9, <1>10, <1>11, <1>12, <1>13 DEF
      DaemonInv

\* ClearFiles keeps the invariant.
LEMMA ClearFilesKeeps ==
    ASSUME DaemonInv, NEW c \in Commands, ClearFiles(c)
    PROVE  DaemonInv'
<1>1. OthersHold(c)
        BY DEF DaemonInv, OthersHold, DaemonTyped, ClearFiles, NoFiles, Stopped, End, Goto
<1>2. (Locked /\ Lone /\ UnitOwns)'
        BY DEF DaemonInv, Locked, Lone, UnitOwns, ClearFiles, NoFiles, Stopped, End, Goto
<1>3. DaemonTyped'
  <2>1. (/\ proc \in [Procs -> Alive \cup {"unborn", "dead"}]
        /\ does \in [Commands -> {"start", "stop", "restart"}]
        /\ captured \in [Commands -> 0..MaxProcs]
        /\ child \in [Commands -> 0..MaxProcs]
        /\ victims \in [Commands -> SUBSET Procs]
        /\ crowd \in BOOLEAN)'
        BY DEF DaemonInv, DaemonTyped, ClearFiles, NoFiles, Stopped, End, Goto
  <2>2. (place \in [Commands -> Places])'
        <3>1. \E q \in {"look", "over"} : place' = [place EXCEPT ![c] = q]
          BY DEF ClearFiles, Stopped, Goto, End
        <3> QED BY <3>1 DEF DaemonInv, DaemonTyped
  <2>3. (outcome \in [Commands -> {"none", "already", "failed", "ok"}])'
        BY DEF DaemonInv, DaemonTyped, StopFreesTheRoot, ClearFiles, NoFiles, Stopped, End, Goto
    <2> QED BY <2>1, <2>2, <2>3 DEF DaemonTyped
<1>4. Numbered'
        BY DEF DaemonInv, Numbered, ClearFiles, NoFiles, Stopped, End, Goto
<1>5. Single'
        BY DEF DaemonInv, Single, DaemonTyped, Locked, ClearFiles, NoFiles, Stopped, End, Goto
<1>6. FilesNameIt'
        BY DEF DaemonInv, FilesNameIt, DaemonTyped, Orders, Watched, Reaps, Cleared, Ways,
        Captures, ClearFiles, NoFiles, Stopped, End, Goto
<1>7. Steady'
        BY DEF DaemonInv, Steady, DaemonTyped, ClearFiles, NoFiles, Stopped, End, Goto
<1>8. Orders'
  <2>1. ASSUME ~crowd'
        PROVE  \A d \in Commands : d # c => (Watched(d) /\ Reaps(d) /\ Cleared(d) /\ Ways(d) /\ Captures(d))'
    <3>1. ~crowd /\ \A d \in Commands : d # c => place[d] = "idle" \/ place[d] = "over"
      BY <2>1, OthersRest DEF ClearFiles
    <3> QED BY <1>1, <3>1, OthersKeepOrders
  <2>2. ~crowd' => Watched(c)'
        BY DEF DaemonInv, DaemonTyped, Orders, Watched, Reaps, Cleared, Ways, Captures,
        ClearFiles, NoFiles, Stopped, End, Goto
  <2>3. ~crowd' => Reaps(c)'
        BY DEF DaemonInv, DaemonTyped, Orders, Watched, Reaps, Cleared, Ways, Captures,
        ClearFiles, NoFiles, Stopped, End, Goto
  <2>4. ~crowd' => Cleared(c)'
        BY DEF DaemonInv, DaemonTyped, Orders, Watched, Reaps, Cleared, Ways, Captures,
        ClearFiles, NoFiles, Stopped, End, Goto
  <2>5. ~crowd' => Ways(c)'
        BY DEF DaemonInv, DaemonTyped, Orders, Watched, Reaps, Cleared, Ways, Captures,
        ClearFiles, NoFiles, Stopped, End, Goto
  <2>6. ~crowd' => Captures(c)'
        BY DEF DaemonInv, DaemonTyped, Orders, Watched, Reaps, Cleared, Ways, Captures,
        ClearFiles, NoFiles, Stopped, End, Goto
  <2> QED BY <2>1, <2>2, <2>3, <2>4, <2>5, <2>6 DEF Orders
<1>9. Asked'
        BY DEF DaemonInv, Asked, DaemonTyped, ClearFiles, NoFiles, Stopped, End, Goto
<1>10. Started'
        BY DEF DaemonInv, Started, ClearFiles, NoFiles, Stopped, End, Goto
<1>11. StopFreesTheRoot'
        BY DEF DaemonInv, StopFreesTheRoot, DaemonTyped, Orders, Watched, Reaps, Cleared, Ways,
        Captures, ClearFiles, NoFiles, Stopped, End, Goto
<1> QED BY <1>2, <1>3, <1>4, <1>5, <1>6, <1>7, <1>8, <1>9, <1>10, <1>11 DEF DaemonInv

\* TakeSingleton keeps the invariant.
LEMMA TakeSingletonKeeps ==
    ASSUME DaemonInv, NEW p \in Procs, TakeSingleton(p)
    PROVE  DaemonInv'
<1>1. (Single)'
        BY DEF DaemonInv, Single, TakeSingleton
<1>2. DaemonTyped'
  <2>1. (/\ place \in [Commands -> Places]
        /\ does \in [Commands -> {"start", "stop", "restart"}]
        /\ outcome \in [Commands -> {"none", "already", "failed", "ok"}]
        /\ captured \in [Commands -> 0..MaxProcs]
        /\ child \in [Commands -> 0..MaxProcs]
        /\ victims \in [Commands -> SUBSET Procs]
        /\ crowd \in BOOLEAN)'
        BY DEF DaemonInv, DaemonTyped, TakeSingleton
  <2>2. (proc \in [Procs -> Alive \cup {"unborn", "dead"}])'
        BY DEF DaemonInv, DaemonTyped, TakeSingleton
    <2> QED BY <2>1, <2>2 DEF DaemonTyped
<1>3. Numbered'
        BY DEF DaemonInv, Numbered, TakeSingleton
<1>4. Locked'
        BY DEF DaemonInv, Locked, DaemonTyped, TakeSingleton
<1>5. Lone'
        BY DEF DaemonInv, Lone, DaemonTyped, TakeSingleton
<1>6. UnitOwns'
        BY DEF DaemonInv, UnitOwns, DaemonTyped, TakeSingleton
<1>7. FilesNameIt'
        BY DEF DaemonInv, FilesNameIt, DaemonTyped, TakeSingleton
<1>8. Steady'
        BY DEF DaemonInv, Steady, TakeSingleton
<1>9. Orders'
  <2>1. ~crowd' => (\A c \in Commands : Watched(c))'
        BY DEF DaemonInv, DaemonTyped, Orders, Watched, Reaps, Cleared, Ways, Captures,
        TakeSingleton
  <2>2. ~crowd' => (\A c \in Commands : Reaps(c))'
        BY DEF DaemonInv, DaemonTyped, Orders, Watched, Reaps, Cleared, Ways, Captures,
        TakeSingleton
  <2>3. ~crowd' => (\A c \in Commands : Cleared(c))'
        BY DEF DaemonInv, DaemonTyped, Orders, Watched, Reaps, Cleared, Ways, Captures,
        TakeSingleton
  <2>4. ~crowd' => (\A c \in Commands : Ways(c))'
        BY DEF DaemonInv, DaemonTyped, Orders, Watched, Reaps, Cleared, Ways, Captures,
        TakeSingleton
  <2>5. ~crowd' => (\A c \in Commands : Captures(c))'
        BY DEF DaemonInv, DaemonTyped, Orders, Watched, Reaps, Cleared, Ways, Captures,
        TakeSingleton
  <2> QED BY <2>1, <2>2, <2>3, <2>4, <2>5 DEF Orders
<1>10. Asked'
        BY DEF DaemonInv, Asked, DaemonTyped, TakeSingleton
<1>11. Started'
        BY DEF DaemonInv, Started, DaemonTyped, Numbered, TakeSingleton
<1>12. StopFreesTheRoot'
        BY DEF DaemonInv, StopFreesTheRoot, DaemonTyped, TakeSingleton
<1> QED BY <1>1, <1>2, <1>3, <1>4, <1>5, <1>6, <1>7, <1>8, <1>9, <1>10, <1>11, <1>12 DEF
      DaemonInv

\* PublishPid keeps the invariant.
LEMMA PublishPidKeeps ==
    ASSUME DaemonInv, NEW p \in Procs, PublishPid(p)
    PROVE  DaemonInv'
<1>1. (Single)'
        BY DEF DaemonInv, Single, PublishPid
<1>2. DaemonTyped'
  <2>1. (/\ place \in [Commands -> Places]
        /\ does \in [Commands -> {"start", "stop", "restart"}]
        /\ outcome \in [Commands -> {"none", "already", "failed", "ok"}]
        /\ captured \in [Commands -> 0..MaxProcs]
        /\ child \in [Commands -> 0..MaxProcs]
        /\ victims \in [Commands -> SUBSET Procs]
        /\ crowd \in BOOLEAN)'
        BY DEF DaemonInv, DaemonTyped, PublishPid
  <2>2. (proc \in [Procs -> Alive \cup {"unborn", "dead"}])'
        BY DEF DaemonInv, DaemonTyped, PublishPid
    <2> QED BY <2>1, <2>2 DEF DaemonTyped
<1>3. Numbered'
        BY DEF DaemonInv, Numbered, PublishPid
<1>4. Locked'
        BY DEF DaemonInv, Locked, PublishPid
<1>5. Lone'
        BY DEF DaemonInv, Lone, PublishPid
<1>6. UnitOwns'
        BY DEF DaemonInv, UnitOwns, PublishPid
<1>7. FilesNameIt'
        BY DEF DaemonInv, FilesNameIt, DaemonTyped, Lone, PublishPid
<1>8. Steady'
        BY DEF DaemonInv, Steady, PublishPid
<1>9. Orders'
  <2>1. ~crowd' => (\A c \in Commands : Watched(c))'
        BY DEF DaemonInv, DaemonTyped, Orders, Watched, Reaps, Cleared, Ways, Captures,
        PublishPid
  <2>2. ~crowd' => (\A c \in Commands : Reaps(c))'
        BY DEF DaemonInv, DaemonTyped, Orders, Watched, Reaps, Cleared, Ways, Captures,
        PublishPid
  <2>3. ~crowd' => (\A c \in Commands : Cleared(c))'
        BY DEF DaemonInv, DaemonTyped, Orders, Watched, Reaps, Cleared, Ways, Captures,
        PublishPid
  <2>4. ~crowd' => (\A c \in Commands : Ways(c))'
        BY DEF DaemonInv, DaemonTyped, Orders, Watched, Reaps, Cleared, Ways, Captures,
        PublishPid
  <2>5. ~crowd' => (\A c \in Commands : Captures(c))'
        BY DEF DaemonInv, DaemonTyped, Orders, Watched, Reaps, Cleared, Ways, Captures,
        PublishPid
  <2> QED BY <2>1, <2>2, <2>3, <2>4, <2>5 DEF Orders
<1>10. Asked'
        BY DEF DaemonInv, Asked, PublishPid
<1>11. Started'
        BY DEF DaemonInv, Started, PublishPid
<1>12. StopFreesTheRoot'
        BY DEF DaemonInv, StopFreesTheRoot, PublishPid
<1> QED BY <1>1, <1>2, <1>3, <1>4, <1>5, <1>6, <1>7, <1>8, <1>9, <1>10, <1>11, <1>12 DEF
      DaemonInv

\* Bind keeps the invariant.
LEMMA BindKeeps ==
    ASSUME DaemonInv, NEW p \in Procs, Bind(p)
    PROVE  DaemonInv'
<1>1. (Single)'
        BY DEF DaemonInv, Single, Bind, Accepting
<1>2. DaemonTyped'
  <2>1. (/\ place \in [Commands -> Places]
        /\ does \in [Commands -> {"start", "stop", "restart"}]
        /\ outcome \in [Commands -> {"none", "already", "failed", "ok"}]
        /\ captured \in [Commands -> 0..MaxProcs]
        /\ child \in [Commands -> 0..MaxProcs]
        /\ victims \in [Commands -> SUBSET Procs]
        /\ crowd \in BOOLEAN)'
        BY DEF DaemonInv, DaemonTyped, Bind, Accepting
  <2>2. (proc \in [Procs -> Alive \cup {"unborn", "dead"}])'
        BY DEF DaemonInv, DaemonTyped, Bind, Accepting
    <2> QED BY <2>1, <2>2 DEF DaemonTyped
<1>3. Numbered'
        BY DEF DaemonInv, Numbered, Bind, Accepting
<1>4. Locked'
        BY DEF DaemonInv, Locked, Bind, Accepting
<1>5. Lone'
        BY DEF DaemonInv, Lone, Bind, Accepting
<1>6. UnitOwns'
        BY DEF DaemonInv, UnitOwns, Bind, Accepting
<1>7. FilesNameIt'
        BY DEF DaemonInv, FilesNameIt, Bind, Accepting
<1>8. Steady'
        BY DEF DaemonInv, Steady, Bind, Accepting
<1>9. Orders'
  <2>1. ~crowd' => (\A c \in Commands : Watched(c))'
        BY DEF DaemonInv, DaemonTyped, Orders, Watched, Reaps, Cleared, Ways, Captures, Bind,
        Accepting
  <2>2. ~crowd' => (\A c \in Commands : Reaps(c))'
        BY DEF DaemonInv, DaemonTyped, Orders, Watched, Reaps, Cleared, Ways, Captures, Bind,
        Accepting
  <2>3. ~crowd' => (\A c \in Commands : Cleared(c))'
        BY DEF DaemonInv, DaemonTyped, Orders, Watched, Reaps, Cleared, Ways, Captures, Bind,
        Accepting
  <2>4. ~crowd' => (\A c \in Commands : Ways(c))'
        BY DEF DaemonInv, DaemonTyped, Orders, Watched, Reaps, Cleared, Ways, Captures, Bind,
        Accepting
  <2>5. ~crowd' => (\A c \in Commands : Captures(c))'
        BY DEF DaemonInv, DaemonTyped, Orders, Watched, Reaps, Cleared, Ways, Captures, Bind,
        Accepting
  <2> QED BY <2>1, <2>2, <2>3, <2>4, <2>5 DEF Orders
<1>10. Asked'
        BY DEF DaemonInv, Asked, Bind, Accepting
<1>11. Started'
        BY DEF DaemonInv, Started, Bind, Accepting
<1>12. StopFreesTheRoot'
        BY DEF DaemonInv, StopFreesTheRoot, Bind, Accepting
<1> QED BY <1>1, <1>2, <1>3, <1>4, <1>5, <1>6, <1>7, <1>8, <1>9, <1>10, <1>11, <1>12 DEF
      DaemonInv

\* BindFails keeps the invariant.
LEMMA BindFailsKeeps ==
    ASSUME DaemonInv, NEW p \in Procs, BindFails(p)
    PROVE  DaemonInv'
<1>1. (Single)'
        BY DEF DaemonInv, Single, BindFails, LockAfter, Dead
<1>2. DaemonTyped'
  <2>1. (/\ place \in [Commands -> Places]
        /\ does \in [Commands -> {"start", "stop", "restart"}]
        /\ outcome \in [Commands -> {"none", "already", "failed", "ok"}]
        /\ captured \in [Commands -> 0..MaxProcs]
        /\ child \in [Commands -> 0..MaxProcs]
        /\ victims \in [Commands -> SUBSET Procs]
        /\ crowd \in BOOLEAN)'
        BY DEF DaemonInv, DaemonTyped, BindFails, LockAfter, Dead
  <2>2. (proc \in [Procs -> Alive \cup {"unborn", "dead"}])'
        BY DEF DaemonInv, DaemonTyped, BindFails, LockAfter, Dead
    <2> QED BY <2>1, <2>2 DEF DaemonTyped
<1>3. Numbered'
        BY DEF DaemonInv, Numbered, BindFails, LockAfter, Dead
<1>4. Locked'
        BY DEF DaemonInv, Locked, BindFails, LockAfter, Dead
<1>5. Lone'
        BY DEF DaemonInv, Lone, BindFails, LockAfter, Dead
<1>6. UnitOwns'
        BY DEF DaemonInv, UnitOwns, BindFails, LockAfter, Dead
<1>7. FilesNameIt'
        BY DEF DaemonInv, FilesNameIt, BindFails, LockAfter, Dead
<1>8. Steady'
        BY DEF DaemonInv, Steady, BindFails, LockAfter, Dead
<1>9. Orders'
  <2>1. ~crowd' => (\A c \in Commands : Watched(c))'
        BY DEF DaemonInv, DaemonTyped, Orders, Watched, Reaps, Cleared, Ways, Captures,
        BindFails, LockAfter, Dead
  <2>2. ~crowd' => (\A c \in Commands : Reaps(c))'
        BY DEF DaemonInv, DaemonTyped, Orders, Watched, Reaps, Cleared, Ways, Captures,
        BindFails, LockAfter, Dead
  <2>3. ~crowd' => (\A c \in Commands : Cleared(c))'
        BY DEF DaemonInv, DaemonTyped, Orders, Watched, Reaps, Cleared, Ways, Captures,
        BindFails, LockAfter, Dead
  <2>4. ~crowd' => (\A c \in Commands : Ways(c))'
        BY DEF DaemonInv, DaemonTyped, Orders, Watched, Reaps, Cleared, Ways, Captures,
        BindFails, LockAfter, Dead
  <2>5. ~crowd' => (\A c \in Commands : Captures(c))'
        BY DEF DaemonInv, DaemonTyped, Orders, Watched, Reaps, Cleared, Ways, Captures,
        BindFails, LockAfter, Dead
  <2> QED BY <2>1, <2>2, <2>3, <2>4, <2>5 DEF Orders
<1>10. Asked'
        BY DEF DaemonInv, Asked, BindFails, LockAfter, Dead
<1>11. Started'
        BY DEF DaemonInv, Started, DaemonTyped, Numbered, BindFails, LockAfter, Dead
<1>12. StopFreesTheRoot'
        BY DEF DaemonInv, StopFreesTheRoot, DaemonTyped, BindFails, LockAfter, Dead
<1> QED BY <1>1, <1>2, <1>3, <1>4, <1>5, <1>6, <1>7, <1>8, <1>9, <1>10, <1>11, <1>12 DEF
      DaemonInv

\* CloseListener keeps the invariant.
LEMMA CloseListenerKeeps ==
    ASSUME DaemonInv, NEW p \in Procs, CloseListener(p)
    PROVE  DaemonInv'
<1>1. (Single)'
        BY DEF DaemonInv, Single, CloseListener
<1>2. DaemonTyped'
  <2>1. (/\ place \in [Commands -> Places]
        /\ does \in [Commands -> {"start", "stop", "restart"}]
        /\ outcome \in [Commands -> {"none", "already", "failed", "ok"}]
        /\ captured \in [Commands -> 0..MaxProcs]
        /\ child \in [Commands -> 0..MaxProcs]
        /\ victims \in [Commands -> SUBSET Procs]
        /\ crowd \in BOOLEAN)'
        BY DEF DaemonInv, DaemonTyped, CloseListener
  <2>2. (proc \in [Procs -> Alive \cup {"unborn", "dead"}])'
        BY DEF DaemonInv, DaemonTyped, CloseListener
    <2> QED BY <2>1, <2>2 DEF DaemonTyped
<1>3. Numbered'
        BY DEF DaemonInv, Numbered, CloseListener
<1>4. Locked'
        BY DEF DaemonInv, Locked, CloseListener
<1>5. Lone'
        BY DEF DaemonInv, Lone, CloseListener
<1>6. UnitOwns'
        BY DEF DaemonInv, UnitOwns, CloseListener
<1>7. FilesNameIt'
        BY DEF DaemonInv, FilesNameIt, DaemonTyped, CloseListener
<1>8. Steady'
        BY DEF DaemonInv, Steady, CloseListener
<1>9. Orders'
  <2>1. ~crowd' => (\A c \in Commands : Watched(c))'
        BY DEF DaemonInv, DaemonTyped, Orders, Watched, Reaps, Cleared, Ways, Captures,
        CloseListener
  <2>2. ~crowd' => (\A c \in Commands : Reaps(c))'
        BY DEF DaemonInv, DaemonTyped, Orders, Watched, Reaps, Cleared, Ways, Captures,
        CloseListener
  <2>3. ~crowd' => (\A c \in Commands : Cleared(c))'
        BY DEF DaemonInv, DaemonTyped, Orders, Watched, Reaps, Cleared, Ways, Captures,
        CloseListener
  <2>4. ~crowd' => (\A c \in Commands : Ways(c))'
        BY DEF DaemonInv, DaemonTyped, Orders, Watched, Reaps, Cleared, Ways, Captures,
        CloseListener
  <2>5. ~crowd' => (\A c \in Commands : Captures(c))'
        BY DEF DaemonInv, DaemonTyped, Orders, Watched, Reaps, Cleared, Ways, Captures,
        CloseListener
  <2> QED BY <2>1, <2>2, <2>3, <2>4, <2>5 DEF Orders
<1>10. Asked'
        BY DEF DaemonInv, Asked, CloseListener
<1>11. Started'
        BY DEF DaemonInv, Started, CloseListener
<1>12. StopFreesTheRoot'
        BY DEF DaemonInv, StopFreesTheRoot, CloseListener
<1> QED BY <1>1, <1>2, <1>3, <1>4, <1>5, <1>6, <1>7, <1>8, <1>9, <1>10, <1>11, <1>12 DEF
      DaemonInv

\* RemoveOwnFiles keeps the invariant.
LEMMA RemoveOwnFilesKeeps ==
    ASSUME DaemonInv, NEW p \in Procs, RemoveOwnFiles(p)
    PROVE  DaemonInv'
<1>1. (Single)'
        BY DEF DaemonInv, Single, RemoveOwnFiles
<1>2. DaemonTyped'
  <2>1. (/\ place \in [Commands -> Places]
        /\ does \in [Commands -> {"start", "stop", "restart"}]
        /\ outcome \in [Commands -> {"none", "already", "failed", "ok"}]
        /\ captured \in [Commands -> 0..MaxProcs]
        /\ child \in [Commands -> 0..MaxProcs]
        /\ victims \in [Commands -> SUBSET Procs]
        /\ crowd \in BOOLEAN)'
        BY DEF DaemonInv, DaemonTyped, RemoveOwnFiles
  <2>2. (proc \in [Procs -> Alive \cup {"unborn", "dead"}])'
        BY DEF DaemonInv, DaemonTyped, RemoveOwnFiles
    <2> QED BY <2>1, <2>2 DEF DaemonTyped
<1>3. Numbered'
        BY DEF DaemonInv, Numbered, RemoveOwnFiles
<1>4. Locked'
        BY DEF DaemonInv, Locked, RemoveOwnFiles
<1>5. Lone'
        BY DEF DaemonInv, Lone, RemoveOwnFiles
<1>6. UnitOwns'
        BY DEF DaemonInv, UnitOwns, RemoveOwnFiles
<1>7. FilesNameIt'
        BY DEF DaemonInv, FilesNameIt, DaemonTyped, RemoveOwnFiles
<1>8. Steady'
        BY DEF DaemonInv, Steady, RemoveOwnFiles
<1>9. Orders'
  <2>1. ~crowd' => (\A c \in Commands : Watched(c))'
        BY DEF DaemonInv, DaemonTyped, Orders, Watched, Reaps, Cleared, Ways, Captures,
        RemoveOwnFiles
  <2>2. ~crowd' => (\A c \in Commands : Reaps(c))'
        BY DEF DaemonInv, DaemonTyped, Orders, Watched, Reaps, Cleared, Ways, Captures,
        RemoveOwnFiles
  <2>3. ~crowd' => (\A c \in Commands : Cleared(c))'
        BY DEF DaemonInv, DaemonTyped, Orders, Watched, Reaps, Cleared, Ways, Captures,
        RemoveOwnFiles
  <2>4. ~crowd' => (\A c \in Commands : Ways(c))'
        BY DEF DaemonInv, DaemonTyped, Orders, Watched, Reaps, Cleared, Ways, Captures,
        RemoveOwnFiles
  <2>5. ~crowd' => (\A c \in Commands : Captures(c))'
        BY DEF DaemonInv, DaemonTyped, Orders, Watched, Reaps, Cleared, Ways, Captures,
        RemoveOwnFiles
  <2> QED BY <2>1, <2>2, <2>3, <2>4, <2>5 DEF Orders
<1>10. Asked'
        BY DEF DaemonInv, Asked, RemoveOwnFiles
<1>11. Started'
        BY DEF DaemonInv, Started, RemoveOwnFiles
<1>12. StopFreesTheRoot'
        BY DEF DaemonInv, StopFreesTheRoot, RemoveOwnFiles
<1> QED BY <1>1, <1>2, <1>3, <1>4, <1>5, <1>6, <1>7, <1>8, <1>9, <1>10, <1>11, <1>12 DEF
      DaemonInv

\* ProcessEnds keeps the invariant.
LEMMA ProcessEndsKeeps ==
    ASSUME DaemonInv, NEW p \in Procs, ProcessEnds(p)
    PROVE  DaemonInv'
<1>1. (Single)'
        BY DEF DaemonInv, Single, ProcessEnds, LockAfter, Dead
<1>2. DaemonTyped'
  <2>1. (/\ place \in [Commands -> Places]
        /\ does \in [Commands -> {"start", "stop", "restart"}]
        /\ outcome \in [Commands -> {"none", "already", "failed", "ok"}]
        /\ captured \in [Commands -> 0..MaxProcs]
        /\ child \in [Commands -> 0..MaxProcs]
        /\ victims \in [Commands -> SUBSET Procs]
        /\ crowd \in BOOLEAN)'
        BY DEF DaemonInv, DaemonTyped, ProcessEnds, LockAfter, Dead
  <2>2. (proc \in [Procs -> Alive \cup {"unborn", "dead"}])'
        BY DEF DaemonInv, DaemonTyped, ProcessEnds, LockAfter, Dead
    <2> QED BY <2>1, <2>2 DEF DaemonTyped
<1>3. Numbered'
        BY DEF DaemonInv, Numbered, ProcessEnds, LockAfter, Dead
<1>4. Locked'
        BY DEF DaemonInv, Locked, ProcessEnds, LockAfter, Dead
<1>5. Lone'
        BY DEF DaemonInv, Lone, ProcessEnds, LockAfter, Dead
<1>6. UnitOwns'
        BY DEF DaemonInv, UnitOwns, ProcessEnds, LockAfter, Dead
<1>7. FilesNameIt'
        BY DEF DaemonInv, FilesNameIt, ProcessEnds, LockAfter, Dead
<1>8. Steady'
        BY DEF DaemonInv, Steady, ProcessEnds, LockAfter, Dead
<1>9. Orders'
  <2>1. ~crowd' => (\A c \in Commands : Watched(c))'
        BY DEF DaemonInv, DaemonTyped, Orders, Watched, Reaps, Cleared, Ways, Captures,
        ProcessEnds, LockAfter, Dead
  <2>2. ~crowd' => (\A c \in Commands : Reaps(c))'
        BY DEF DaemonInv, DaemonTyped, Orders, Watched, Reaps, Cleared, Ways, Captures,
        ProcessEnds, LockAfter, Dead
  <2>3. ~crowd' => (\A c \in Commands : Cleared(c))'
        BY DEF DaemonInv, DaemonTyped, Orders, Watched, Reaps, Cleared, Ways, Captures,
        ProcessEnds, LockAfter, Dead
  <2>4. ~crowd' => (\A c \in Commands : Ways(c))'
        BY DEF DaemonInv, DaemonTyped, Orders, Watched, Reaps, Cleared, Ways, Captures,
        ProcessEnds, LockAfter, Dead
  <2>5. ~crowd' => (\A c \in Commands : Captures(c))'
        BY DEF DaemonInv, DaemonTyped, Orders, Watched, Reaps, Cleared, Ways, Captures,
        ProcessEnds, LockAfter, Dead
  <2> QED BY <2>1, <2>2, <2>3, <2>4, <2>5 DEF Orders
<1>10. Asked'
        BY DEF DaemonInv, Asked, ProcessEnds, LockAfter, Dead
<1>11. Started'
        BY DEF DaemonInv, Started, DaemonTyped, Numbered, ProcessEnds, LockAfter, Dead
<1>12. StopFreesTheRoot'
        BY DEF DaemonInv, StopFreesTheRoot, DaemonTyped, ProcessEnds, LockAfter, Dead
<1> QED BY <1>1, <1>2, <1>3, <1>4, <1>5, <1>6, <1>7, <1>8, <1>9, <1>10, <1>11, <1>12 DEF
      DaemonInv

\* ProcessCrashes keeps the invariant.
LEMMA ProcessCrashesKeeps ==
    ASSUME DaemonInv, NEW p \in Procs, ProcessCrashes(p)
    PROVE  DaemonInv'
<1>1. (Single)'
        BY DEF DaemonInv, Single, ProcessCrashes, LockAfter, Dead
<1>2. DaemonTyped'
  <2>1. (/\ place \in [Commands -> Places]
        /\ does \in [Commands -> {"start", "stop", "restart"}]
        /\ outcome \in [Commands -> {"none", "already", "failed", "ok"}]
        /\ captured \in [Commands -> 0..MaxProcs]
        /\ child \in [Commands -> 0..MaxProcs]
        /\ victims \in [Commands -> SUBSET Procs]
        /\ crowd \in BOOLEAN)'
        BY DEF DaemonInv, DaemonTyped, ProcessCrashes, LockAfter, Dead
  <2>2. (proc \in [Procs -> Alive \cup {"unborn", "dead"}])'
        BY DEF DaemonInv, DaemonTyped, ProcessCrashes, LockAfter, Dead
    <2> QED BY <2>1, <2>2 DEF DaemonTyped
<1>3. Numbered'
        BY DEF DaemonInv, Numbered, ProcessCrashes, LockAfter, Dead
<1>4. Locked'
        BY DEF DaemonInv, Locked, ProcessCrashes, LockAfter, Dead
<1>5. Lone'
        BY DEF DaemonInv, Lone, ProcessCrashes, LockAfter, Dead
<1>6. UnitOwns'
        BY DEF DaemonInv, UnitOwns, ProcessCrashes, LockAfter, Dead
<1>7. FilesNameIt'
        BY DEF DaemonInv, FilesNameIt, ProcessCrashes, LockAfter, Dead
<1>8. Steady'
        BY DEF DaemonInv, Steady, ProcessCrashes, LockAfter, Dead
<1>9. Orders'
  <2>1. ~crowd' => (\A c \in Commands : Watched(c))'
        BY DEF DaemonInv, DaemonTyped, Orders, Watched, Reaps, Cleared, Ways, Captures,
        ProcessCrashes, LockAfter, Dead
  <2>2. ~crowd' => (\A c \in Commands : Reaps(c))'
        BY DEF DaemonInv, DaemonTyped, Orders, Watched, Reaps, Cleared, Ways, Captures,
        ProcessCrashes, LockAfter, Dead
  <2>3. ~crowd' => (\A c \in Commands : Cleared(c))'
        BY DEF DaemonInv, DaemonTyped, Orders, Watched, Reaps, Cleared, Ways, Captures,
        ProcessCrashes, LockAfter, Dead
  <2>4. ~crowd' => (\A c \in Commands : Ways(c))'
        BY DEF DaemonInv, DaemonTyped, Orders, Watched, Reaps, Cleared, Ways, Captures,
        ProcessCrashes, LockAfter, Dead
  <2>5. ~crowd' => (\A c \in Commands : Captures(c))'
        BY DEF DaemonInv, DaemonTyped, Orders, Watched, Reaps, Cleared, Ways, Captures,
        ProcessCrashes, LockAfter, Dead
  <2> QED BY <2>1, <2>2, <2>3, <2>4, <2>5 DEF Orders
<1>10. Asked'
        BY DEF DaemonInv, Asked, ProcessCrashes, LockAfter, Dead
<1>11. Started'
        BY DEF DaemonInv, Started, DaemonTyped, Numbered, ProcessCrashes, LockAfter, Dead
<1>12. StopFreesTheRoot'
        BY DEF DaemonInv, StopFreesTheRoot, DaemonTyped, ProcessCrashes, LockAfter, Dead
<1> QED BY <1>1, <1>2, <1>3, <1>4, <1>5, <1>6, <1>7, <1>8, <1>9, <1>10, <1>11, <1>12 DEF
      DaemonInv

\* OutsideSignal keeps the invariant.
LEMMA OutsideSignalKeeps ==
    ASSUME DaemonInv, NEW p \in Procs, OutsideSignal(p)
    PROVE  DaemonInv'
<1>1. (Numbered)'
        BY DEF DaemonInv, Numbered, OutsideSignal, Terminated
<1>2. DaemonTyped'
  <2>1. (/\ place \in [Commands -> Places]
        /\ does \in [Commands -> {"start", "stop", "restart"}]
        /\ outcome \in [Commands -> {"none", "already", "failed", "ok"}]
        /\ captured \in [Commands -> 0..MaxProcs]
        /\ child \in [Commands -> 0..MaxProcs]
        /\ victims \in [Commands -> SUBSET Procs])'
        BY DEF DaemonInv, DaemonTyped, OutsideSignal, Terminated
  <2>2. (proc \in [Procs -> Alive \cup {"unborn", "dead"}])'
        BY DEF DaemonInv, DaemonTyped, OutsideSignal, Terminated
  <2>3. (crowd \in BOOLEAN)'
        BY DEF DaemonInv, DaemonTyped, OutsideSignal, Terminated
    <2> QED BY <2>1, <2>2, <2>3 DEF DaemonTyped
<1>3. Locked'
        BY DEF DaemonInv, Locked, OutsideSignal, Terminated
<1>4. Single'
        BY DEF DaemonInv, Single, OutsideSignal, Terminated
<1>5. Lone'
        BY DEF DaemonInv, Lone, OutsideSignal, Terminated
<1>6. UnitOwns'
        BY DEF DaemonInv, UnitOwns, OutsideSignal, Terminated
<1>7. FilesNameIt'
        BY DEF DaemonInv, FilesNameIt, OutsideSignal, Terminated
<1>8. Steady'
        BY DEF DaemonInv, Steady, OutsideSignal, Terminated
<1>9. Orders'
  <2>1. ~crowd' => (\A c \in Commands : Watched(c))'
        BY DEF DaemonInv, OutsideSignal, Terminated
  <2>2. ~crowd' => (\A c \in Commands : Reaps(c))'
        BY DEF DaemonInv, OutsideSignal, Terminated
  <2>3. ~crowd' => (\A c \in Commands : Cleared(c))'
        BY DEF DaemonInv, OutsideSignal, Terminated
  <2>4. ~crowd' => (\A c \in Commands : Ways(c))'
        BY DEF DaemonInv, OutsideSignal, Terminated
  <2>5. ~crowd' => (\A c \in Commands : Captures(c))'
        BY DEF DaemonInv, OutsideSignal, Terminated
  <2> QED BY <2>1, <2>2, <2>3, <2>4, <2>5 DEF Orders
<1>10. Asked'
        BY DEF DaemonInv, Asked, OutsideSignal, Terminated
<1>11. Started'
        BY DEF DaemonInv, Started, OutsideSignal, Terminated
<1>12. StopFreesTheRoot'
        BY DEF DaemonInv, StopFreesTheRoot, OutsideSignal, Terminated
<1> QED BY <1>1, <1>2, <1>3, <1>4, <1>5, <1>6, <1>7, <1>8, <1>9, <1>10, <1>11, <1>12 DEF
      DaemonInv

\* UnitRespawns keeps the invariant.
LEMMA UnitRespawnsKeeps ==
    ASSUME DaemonInv, UnitRespawns
    PROVE  DaemonInv'
<1>1. (Single)'
        BY DEF DaemonInv, Single, UnitRespawns, Fresh
<1>2. DaemonTyped'
  <2>1. (/\ place \in [Commands -> Places]
        /\ does \in [Commands -> {"start", "stop", "restart"}]
        /\ outcome \in [Commands -> {"none", "already", "failed", "ok"}]
        /\ captured \in [Commands -> 0..MaxProcs]
        /\ child \in [Commands -> 0..MaxProcs]
        /\ victims \in [Commands -> SUBSET Procs]
        /\ crowd \in BOOLEAN)'
        BY DEF DaemonInv, DaemonTyped, UnitRespawns, Fresh
  <2>2. (proc \in [Procs -> Alive \cup {"unborn", "dead"}])'
        BY DEF DaemonInv, DaemonTyped, UnitRespawns, Fresh
    <2> QED BY <2>1, <2>2 DEF DaemonTyped
<1>3. Numbered'
        BY DEF DaemonInv, Numbered, UnitRespawns, Fresh
<1>4. Locked'
        BY DEF DaemonInv, Locked, UnitRespawns, Fresh
<1>5. Lone'
        BY DEF DaemonInv, Lone, DaemonTyped, UnitOwns, UnitRespawns, Fresh
<1>6. UnitOwns'
        BY DEF DaemonInv, UnitOwns, UnitRespawns, Fresh
<1>7. FilesNameIt'
        BY DEF DaemonInv, FilesNameIt, UnitRespawns, Fresh
<1>8. Steady'
        BY DEF DaemonInv, Steady, UnitRespawns, Fresh
<1>9. Orders'
  <2>1. ~crowd' => (\A c \in Commands : Watched(c))'
        BY DEF DaemonInv, DaemonTyped, Orders, Watched, Reaps, Cleared, Ways, Captures,
        UnitRespawns, Fresh
  <2>2. ~crowd' => (\A c \in Commands : Reaps(c))'
        BY DEF DaemonInv, DaemonTyped, Orders, Watched, Reaps, Cleared, Ways, Captures,
        UnitRespawns, Fresh
  <2>3. ~crowd' => (\A c \in Commands : Cleared(c))'
        BY DEF DaemonInv, DaemonTyped, Orders, Watched, Reaps, Cleared, Ways, Captures,
        UnitRespawns, Fresh
  <2>4. ~crowd' => (\A c \in Commands : Ways(c))'
        BY DEF DaemonInv, DaemonTyped, Orders, Watched, Reaps, Cleared, Ways, Captures,
        UnitRespawns, Fresh
  <2>5. ~crowd' => (\A c \in Commands : Captures(c))'
        <3>1. activated /\ UNCHANGED <<place, captured, installed, activated, crowd>>
          BY DEF UnitRespawns
        <3>2. ~crowd => \A c \in Commands : ~In(c, "dial") /\ ~In(c, "settle")
          BY <3>1 DEF DaemonInv, Orders, Ways, UnitOwns
        <3> QED BY <3>1, <3>2 DEF Captures
  <2> QED BY <2>1, <2>2, <2>3, <2>4, <2>5 DEF Orders
<1>10. Asked'
        BY DEF DaemonInv, Asked, UnitRespawns, Fresh
<1>11. Started'
        BY DEF DaemonInv, Started, UnitRespawns, Fresh
<1>12. StopFreesTheRoot'
        BY DEF DaemonInv, StopFreesTheRoot, DaemonTyped, Started, UnitRespawns, Fresh
<1> QED BY <1>1, <1>2, <1>3, <1>4, <1>5, <1>6, <1>7, <1>8, <1>9, <1>10, <1>11, <1>12 DEF
      DaemonInv

\* UnitKills keeps the invariant.
LEMMA UnitKillsKeeps ==
    ASSUME DaemonInv, UnitKills
    PROVE  DaemonInv'
<1>1. (Single)'
        BY DEF DaemonInv, Single, UnitKills, LockAfter, Dead
<1>2. DaemonTyped'
  <2>1. (/\ place \in [Commands -> Places]
        /\ does \in [Commands -> {"start", "stop", "restart"}]
        /\ outcome \in [Commands -> {"none", "already", "failed", "ok"}]
        /\ captured \in [Commands -> 0..MaxProcs]
        /\ child \in [Commands -> 0..MaxProcs]
        /\ victims \in [Commands -> SUBSET Procs]
        /\ crowd \in BOOLEAN)'
        BY DEF DaemonInv, DaemonTyped, UnitKills, LockAfter, Dead
  <2>2. (proc \in [Procs -> Alive \cup {"unborn", "dead"}])'
        BY DEF DaemonInv, DaemonTyped, UnitKills, LockAfter, Dead
    <2> QED BY <2>1, <2>2 DEF DaemonTyped
<1>3. Numbered'
        BY DEF DaemonInv, Numbered, UnitKills, LockAfter, Dead
<1>4. Locked'
        BY DEF DaemonInv, Locked, UnitKills, LockAfter, Dead
<1>5. Lone'
        BY DEF DaemonInv, Lone, UnitKills, LockAfter, Dead
<1>6. UnitOwns'
        BY DEF DaemonInv, UnitOwns, UnitKills, LockAfter, Dead
<1>7. FilesNameIt'
        BY DEF DaemonInv, FilesNameIt, UnitKills, LockAfter, Dead
<1>8. Steady'
        BY DEF DaemonInv, Steady, UnitKills, LockAfter, Dead
<1>9. Orders'
  <2>1. ~crowd' => (\A c \in Commands : Watched(c))'
        BY DEF DaemonInv, DaemonTyped, Orders, Watched, Reaps, Cleared, Ways, Captures,
        UnitKills, LockAfter, Dead
  <2>2. ~crowd' => (\A c \in Commands : Reaps(c))'
        BY DEF DaemonInv, DaemonTyped, Orders, Watched, Reaps, Cleared, Ways, Captures,
        UnitKills, LockAfter, Dead
  <2>3. ~crowd' => (\A c \in Commands : Cleared(c))'
        BY DEF DaemonInv, DaemonTyped, Orders, Watched, Reaps, Cleared, Ways, Captures,
        UnitKills, LockAfter, Dead
  <2>4. ~crowd' => (\A c \in Commands : Ways(c))'
        BY DEF DaemonInv, DaemonTyped, Orders, Watched, Reaps, Cleared, Ways, Captures,
        UnitKills, LockAfter, Dead
  <2>5. ~crowd' => (\A c \in Commands : Captures(c))'
        BY DEF DaemonInv, DaemonTyped, Orders, Watched, Reaps, Cleared, Ways, Captures,
        UnitKills, LockAfter, Dead
  <2> QED BY <2>1, <2>2, <2>3, <2>4, <2>5 DEF Orders
<1>10. Asked'
        BY DEF DaemonInv, Asked, UnitKills, LockAfter, Dead
<1>11. Started'
        BY DEF DaemonInv, Started, DaemonTyped, Numbered, UnitKills, LockAfter, Dead
<1>12. StopFreesTheRoot'
        BY DEF DaemonInv, StopFreesTheRoot, DaemonTyped, UnitKills, LockAfter, Dead
<1> QED BY <1>1, <1>2, <1>3, <1>4, <1>5, <1>6, <1>7, <1>8, <1>9, <1>10, <1>11, <1>12 DEF
      DaemonInv

\* No process and no command has begun.
LEMMA DaemonInitially == DaemonInit => DaemonInv
<1> SUFFICES ASSUME DaemonInit
             PROVE  DaemonInv
    OBVIOUS
<1>1. DaemonTyped /\ Numbered
  <2>1. /\ proc \in [Procs -> Alive \cup {"unborn", "dead"}]
        /\ place \in [Commands -> Places]
        /\ outcome \in [Commands -> {"none", "already", "failed", "ok"}]
    BY DEF DaemonInit, NewCommands
  <2>2. /\ does \in [Commands -> {"start", "stop", "restart"}]
        /\ captured \in [Commands -> 0..MaxProcs] /\ child \in [Commands -> 0..MaxProcs]
        /\ victims \in [Commands -> SUBSET Procs]
    BY DEF DaemonInit, NewCommands
  <2>3. crowd \in BOOLEAN
    BY DEF DaemonInit
  <2>4. Numbered
    BY DEF DaemonInit, Numbered
  <2> QED BY <2>1, <2>2, <2>3, <2>4 DEF DaemonTyped
<1>2. Locked /\ Single /\ Lone /\ UnitOwns /\ FilesNameIt /\ Steady /\ Asked /\ Started /\ StopFreesTheRoot
    BY DEF DaemonInit, NewCommands, Locked, Single, Lone, UnitOwns, FilesNameIt, Steady, Asked, Started,
           StopFreesTheRoot
<1>3. Orders
    BY DEF DaemonInit, NewCommands, Orders, Watched, Reaps, Cleared, Ways, Captures
<1> QED BY <1>1, <1>2, <1>3 DEF DaemonInv

\* A step that changes nothing keeps the invariant.
LEMMA DaemonRests == DaemonInv /\ UNCHANGED daemonVars => DaemonInv'
<1> SUFFICES ASSUME DaemonInv, UNCHANGED daemonVars
             PROVE  DaemonInv'
    OBVIOUS
<1>1. (DaemonTyped /\ Numbered /\ Locked /\ Single /\ Lone /\ UnitOwns /\ FilesNameIt /\ Steady)'
    BY DEF DaemonInv, daemonVars, DaemonTyped, Numbered, Locked, Single, Lone, UnitOwns, FilesNameIt, Steady
<1>2. (Orders /\ Asked /\ Started /\ StopFreesTheRoot)'
    BY DEF DaemonInv, daemonVars, Orders, Watched, Reaps, Cleared, Ways, Captures, Asked, Started,
           StopFreesTheRoot
<1> QED BY <1>1, <1>2 DEF DaemonInv

\* Every step keeps the invariant.
LEMMA DaemonSteps == DaemonInv /\ [DaemonNext]_daemonVars => DaemonInv'
<1> SUFFICES ASSUME DaemonInv, [DaemonNext]_daemonVars
             PROVE  DaemonInv'
    OBVIOUS
<1>1. ASSUME NEW c \in Commands, CommandStep(c)
      PROVE  DaemonInv'
    BY <1>1, BeginCommandKeeps, LookAndListKeeps, ReapCollidingKeeps, LaunchDaemonKeeps,
        SpawnChildKeeps, WatchKeeps, FallbackKeeps, VacateKeeps,
        CaptureKeeps, StopUnitKeeps, UnitStoppedKeeps, AskShutdownKeeps,
        SettleKeeps, SettleByForceKeeps, ClearFilesKeeps DEF CommandStep
<1>2. ASSUME NEW p \in Procs, DaemonStep(p) \/ ProcessCrashes(p) \/ OutsideSignal(p)
      PROVE  DaemonInv'
    BY <1>2, TakeSingletonKeeps, PublishPidKeeps, BindKeeps, BindFailsKeeps, CloseListenerKeeps,
        RemoveOwnFilesKeeps, ProcessEndsKeeps, ProcessCrashesKeeps, OutsideSignalKeeps DEF DaemonStep
<1> QED BY <1>1, <1>2, UnitRespawnsKeeps, UnitKillsKeeps, DaemonRests DEF DaemonNext

\* The invariant that the daemon's steps and the commands' preserve together.
THEOREM DaemonInvHolds == DaemonSpec => []DaemonInv
<1> QED BY DaemonInitially, DaemonSteps, PTL DEF DaemonSpec

\* The daemon's process is safe, whatever the commands and however many processes are started:
\* only the holder of the singleton lock is past it; a daemon that serves is the one its pid
\* file and its socket name; and a stop that identified a process and met no other command
\* returns only when that process has ended (waitForDaemonStop).
THEOREM DaemonIsSafe == DaemonSpec => []DaemonSafe
<1>1. DaemonInv => DaemonTypeOK
    BY DEF DaemonInv, DaemonTyped, Numbered, Locked, DaemonTypeOK
<1>2. DaemonInv => ServingIsReachable
    BY DEF DaemonInv, FilesNameIt, ServingIsReachable
<1>3. DaemonInv => DaemonSafe
    BY <1>1, <1>2 DEF DaemonInv, DaemonSafe
<1> QED BY <1>3, DaemonInvHolds, PTL

\* Of the processes of one root at most one lives, as long as commands do not overlap and
\* nothing outside signals the daemon.
THEOREM DaemonIsAlone == DaemonSpec => []Lone
<1>1. DaemonInv => Lone
    BY DEF DaemonInv
<1> QED BY <1>1, DaemonInvHolds, PTL
=============================================================================

----------------------------- MODULE ProcTrees ------------------------------
(* The processes a command of a run leaves behind, and the three ways the  *)
(* daemon gets rid of them (internal/shellenv, internal/proctree,          *)
(* internal/procreap): a command's teardown kills its process group and    *)
(* every descendant the sampler saw; a restarted daemon finishes what the  *)
(* records on disk name; and a sweep kills whatever stands in the worktree *)
(* of a run that is over, unless that run had been resumed.                *)
(*                                                                         *)
(* A process is known by its pid and its start time: a pid is used again,  *)
(* an id (the start time) never. Verifying a start time and sending the    *)
(* signal are one step, as are the listing of a sweep and its signals, and *)
(* no pid is used again while the command that led it is being torn down:  *)
(* the code relies on a pid not coming back within those instants. SIGTERM *)
(* is an exit of any member of the group and changes nothing by itself.    *)
EXTENDS Naturals, FiniteSets

CONSTANTS
    Pids,        \* the process table
    MaxBirths,   \* bound: processes ever started
    MaxCommands, \* bound: commands the run starts
    MaxFalls   \* bound: deaths of the daemon

ASSUME ProcTreesAssumption ==
    /\ Pids \subseteq Nat \ {0} /\ MaxBirths \in Nat \ {0}
    /\ MaxCommands \in Nat /\ MaxFalls \in Nat

VARIABLES
    table,    \* pid -> the process it names now, or Free
    born,     \* processes started so far
    commands, \* commands started so far
    tracked,  \* pid of a running command -> what the sampler saw below it, or Free
    shot,     \* the listing the sampler is working through, or Free
    records,  \* pid -> the record file of that leader, or Free
    going,    \* teardowns under way
    daemon,   \* "up", "down", or a phase of its recovery
    runOver,  \* the run's row is settled
    falls,
    seen,     \* <<process, leader>> pairs a sample of the leader ever held (ids)
    reaped,   \* leaders whose teardown returned (ids)
    lost      \* leaders whose record went without a kill (ids)

treesVars == <<table, born, commands, tracked, shot, records, going, daemon, runOver, falls, seen, reaped, lost>>

Free == [id |-> 0]
Up(p) == table[p] # Free
Live == {p \in Pids : Up(p)}
Alive(id) == \E p \in Live : table[p].id = id
IsAt(x) == Up(x.pid) /\ table[x.pid].id = x.id   \* sameProcess

\* What remains of a process table when the pids in dead are gone.
Without(t, dead) ==
    [p \in Pids |-> IF t[p] = Free \/ p \in dead THEN Free
                    ELSE [t[p] EXCEPT !.pp = IF @ \in dead THEN 0 ELSE @]]

------------------------------------------------------------------------------
(* What the listing shows below a leader. *)

Row(p) == [pid |-> p, id |-> table[p].id, pg |-> table[p].pg]

Kids(S) == {p \in Live : table[p].pp \in S}

\* The walk starts at the children of a leader and the group it leads, and goes from
\* children to children: the least set that has those and its own children.
Descendants(l) ==
    LET start == IF Up(l) THEN Kids({l}) \union {p \in Live : table[l].pg = l /\ table[p].pg = l} ELSE {}
        closed == {S \in SUBSET Live : start \subseteq S /\ Kids(S) \subseteq S}
    IN  {Row(p) : p \in {q \in Live : q # l /\ \A S \in closed : q \in S}}

\* Mutant: prunes what the walk from the leader no longer reaches.
MergeReachable(entry, l, found, live) ==
    [entry EXCEPT !.desc = found, !.groups = {f.pg : f \in found} \ {l}]

\* mergeSampleLocked: later rows replace earlier ones; what left the table is forgotten.
Merge(entry, l, found, live) ==
    LET kept == {d \in entry.desc : d.pid \notin {f.pid : f \in found}} \union found
        groups == entry.groups \union ({f.pg : f \in found} \ {l})
    IN  [entry EXCEPT !.desc = {d \in kept : d.pid \in live}, !.groups = groups \intersect live]

------------------------------------------------------------------------------
(* Kills. *)

\* Mutant: trusts a recorded group.
GroupKillUnverified(groups, desc) == {p \in Live : table[p].pg \in groups}

\* KillGroups: only groups whose leader was sampled and is still that process.
GroupKill(groups, desc) ==
    {p \in Live : table[p].pg \in groups /\ \E d \in desc : d.pid = table[p].pg /\ IsAt(d)}

\* Kill: only what still has the start time that was sampled.
PidKill(desc) == {d.pid : d \in {x \in desc : IsAt(x)}}

\* killTrackedProcessTree
TrackedKill(l, desc, groups) ==
    GroupKill(groups \union ({d.pg : d \in desc} \ {l}), desc) \union PidKill(desc)

\* ReapRecord: nothing while the leader lives.
RecordKill(l, rec) ==
    IF Up(l) /\ table[l].id = rec.id THEN {} ELSE GroupKill(rec.groups, rec.desc) \union PidKill(rec.desc)

\* expandVictims: what stands in the worktree, its children and the groups it leads, and
\* so on: the least such set.
Victims(matched) ==
    LET closed == {S \in SUBSET Live :
                      /\ matched \subseteq S /\ Kids(S) \subseteq S
                      /\ {p \in Live : table[p].pg \in S} \subseteq S}
    IN  {p \in Live : \A S \in closed : p \in S}

Standing == {p \in Live : table[p].at = "tree"}

------------------------------------------------------------------------------
TreesInit ==
    /\ table = [p \in Pids |-> Free] /\ born = 0 /\ commands = 0
    /\ tracked = [p \in Pids |-> Free] /\ shot = Free
    /\ records = [p \in Pids |-> Free] /\ going = {}
    /\ daemon = "up" /\ runOver = FALSE /\ falls = 0
    /\ seen = {} /\ reaped = {} /\ lost = {}

\* A pid the kernel may hand out: no process and no group has it, and no command
\* that led it is still to be torn down. (Pids are alike: the first is 1, and so on.)
Unused(p) ==
    /\ ~Up(p) /\ born < MaxBirths /\ p <= born + 1
    /\ \A q \in Live : table[q].pg # p
    /\ tracked[p] = Free /\ \A g \in going : g.pid # p

Place(p, pp, pg, at, kin) ==
    /\ table' = [table EXCEPT ![p] = [id |-> born + 1, pp |-> pp, pg |-> pg, at |-> at, kin |-> kin]]
    /\ born' = born + 1

\* StartShellCommand: a leader of its own group, registered with the sampler.
StartShellCommand(p) ==
    /\ daemon = "up" /\ ~runOver /\ commands < MaxCommands /\ Unused(p)
    /\ commands' = commands + 1
    /\ Place(p, 0, p, "tree", TRUE)
    /\ tracked' = [tracked EXCEPT ![p] = [id |-> born + 1, desc |-> {}, groups |-> {}]]
    /\ UNCHANGED <<shot, records, going, daemon, runOver, falls, seen, reaped, lost>>

rest == <<commands, tracked, shot, records, going, daemon, runOver, falls, seen, reaped, lost>>

\* A process of a command forks, daemonizes (a group of its own, perhaps another
\* directory) or exits.
Fork(q, p) ==
    /\ Up(q) /\ table[q].kin /\ Unused(p)
    /\ Place(p, q, table[q].pg, table[q].at, TRUE)
    /\ UNCHANGED rest

Setsid(q) ==
    /\ Up(q) /\ table[q].kin /\ table[q].pg # q
    /\ \E at \in {table[q].at, "away"} : table' = [table EXCEPT ![q].pg = q, ![q].at = at]
    /\ UNCHANGED <<born, rest>>

Exit(q) ==
    /\ Up(q) /\ table[q].kin
    /\ table' = Without(table, {q})
    /\ UNCHANGED <<born, rest>>

\* Someone else's process takes a pid that was used and leads a group.
Stranger(p) ==
    /\ Unused(p) /\ p <= born
    /\ Place(p, 0, p, "away", FALSE)
    /\ UNCHANGED rest

------------------------------------------------------------------------------
(* The sampler, one listing at a time. *)

Leaders == {p \in Pids : tracked[p] # Free}

SampleList ==
    /\ daemon = "up" /\ shot = Free /\ Leaders # {} /\ Live # {}
    /\ shot' = [id |-> 1, todo |-> Leaders, found |-> [l \in Leaders |-> Descendants(l)], live |-> Live]
    /\ UNCHANGED <<table, born, commands, tracked, records, going, daemon, runOver, falls, seen, reaped, lost>>

\* Who is still tracked when the sampler comes to merge.
StillTracked(l) == tracked[l] # Free

\* One leader of the listing: merged and written under recordMu, if it is still tracked.
SampleMerge ==
    /\ daemon = "up" /\ shot # Free
    /\ \E l \in shot.todo :
        /\ shot' = IF shot.todo = {l} THEN Free ELSE [shot EXCEPT !.todo = @ \ {l}]
        /\ IF StillTracked(l)
           THEN LET entry == IF tracked[l] = Free THEN [id |-> 1, desc |-> {}, groups |-> {}] ELSE tracked[l]
                    next == Merge(entry, l, shot.found[l], shot.live)
                IN  /\ tracked' = IF tracked[l] = Free THEN tracked ELSE [tracked EXCEPT ![l] = next]
                    /\ records' = IF next = entry /\ tracked[l] # Free THEN records ELSE [records EXCEPT ![l] = next]
                    /\ seen' = seen \union {<<d.id, entry.id>> : d \in shot.found[l]}
           ELSE UNCHANGED <<tracked, records, seen>>
    /\ UNCHANGED <<table, born, commands, going, daemon, runOver, falls, reaped, lost>>

------------------------------------------------------------------------------
(* The teardown of a command: on cancellation its leader still lives,      *)
(* otherwise it was waited for.                                             *)

\* takeTrackedLeader, up to the unlock: the entry is taken, so a second call finds nothing.
TakeLeader(l) ==
    /\ daemon = "up" /\ tracked[l] # Free
    /\ going' = going \union {[pid |-> l, id |-> tracked[l].id, desc |-> tracked[l].desc,
                               groups |-> tracked[l].groups, phase |-> "taken"]}
    /\ tracked' = [tracked EXCEPT ![l] = Free]
    /\ UNCHANGED <<table, born, commands, shot, records, daemon, runOver, falls, seen, reaped, lost>>

\* The record is dropped before the tree is signalled.
DropRecord(g) ==
    /\ daemon = "up" /\ g.phase = "taken"
    /\ records' = [records EXCEPT ![g.pid] = Free]
    /\ going' = (going \ {g}) \union {[g EXCEPT !.phase = "term"]}
    /\ UNCHANGED <<table, born, commands, tracked, shot, daemon, runOver, falls, seen, reaped, lost>>

\* terminateProcessTree after the grace: the group, then what the sampler saw.
KillTree(g) ==
    /\ daemon = "up" /\ g.phase = "term"
    /\ table' = Without(table, {p \in Live : table[p].pg = g.pid} \union TrackedKill(g.pid, g.desc, g.groups))
    /\ going' = going \ {g}
    /\ reaped' = reaped \union {g.id}
    /\ UNCHANGED <<born, commands, tracked, shot, records, daemon, runOver, falls, seen, lost>>

\* The run's execution returned, its commands torn down: sweepRunWorktreeProcesses.
SweepRun ==
    /\ daemon = "up" /\ falls = 0 /\ ~runOver /\ Leaders = {} /\ going = {}
    /\ table' = Without(table, Victims(Standing))
    /\ runOver' = TRUE
    /\ UNCHANGED <<born, commands, tracked, shot, records, going, daemon, falls, seen, reaped, lost>>

\* A run resumed after a restart ends without the sweep: resumeRecoveredRun.
ResumedRunEnds ==
    /\ daemon = "up" /\ falls > 0 /\ ~runOver /\ Leaders = {} /\ going = {}
    /\ runOver' = TRUE
    /\ UNCHANGED <<table, born, commands, tracked, shot, records, going, daemon, falls, seen, reaped, lost>>

------------------------------------------------------------------------------
(* The daemon is killed; its commands live on and it starts again. *)

DaemonKilled ==
    /\ daemon = "up" /\ falls < MaxFalls
    /\ daemon' = "down" /\ falls' = falls + 1
    /\ tracked' = [p \in Pids |-> Free] /\ shot' = Free /\ going' = {}
    /\ lost' = lost \union {g.id : g \in {x \in going : x.phase = "term"}}
    /\ UNCHANGED <<table, born, commands, records, runOver, seen, reaped>>

DaemonReturns ==
    /\ daemon = "down" /\ daemon' = "records"
    /\ UNCHANGED <<table, born, commands, tracked, shot, records, going, runOver, falls, seen, reaped, lost>>

\* reapOrphanedProcessTrees: each record is reaped and removed, whatever came of it.
ReapOrphanedTree(l) ==
    /\ daemon = "records" /\ records[l] # Free
    /\ table' = Without(table, RecordKill(l, records[l]))
    /\ records' = [records EXCEPT ![l] = Free]
    /\ lost' = IF Up(l) /\ table[l].id = records[l].id THEN lost \union {records[l].id} ELSE lost
    /\ UNCHANGED <<born, commands, tracked, shot, going, daemon, runOver, falls, seen, reaped>>

RecordsDone ==
    /\ daemon = "records" /\ \A l \in Pids : records[l] = Free
    /\ daemon' = "sweep"
    /\ UNCHANGED <<table, born, commands, tracked, shot, records, going, runOver, falls, seen, reaped, lost>>

\* sweepOrphanRunProcesses: the run's row is stale unless the run parked and is to be
\* resumed; what started within the age floor is left alone.
SweepStartup ==
    /\ daemon = "sweep" /\ daemon' = "up"
    /\ \E resumed \in BOOLEAN, young \in SUBSET Standing :
        /\ runOver => ~resumed
        /\ table' = IF resumed THEN table ELSE Without(table, Victims(Standing \ young))
        /\ runOver' = ~resumed
    /\ UNCHANGED <<born, commands, tracked, shot, records, going, falls, seen, reaped, lost>>

TreesNext ==
    \/ \E p \in Pids : StartShellCommand(p) \/ Setsid(p) \/ Exit(p) \/ Stranger(p)
    \/ \E q, p \in Pids : Fork(q, p)
    \/ SampleList \/ SampleMerge
    \/ \E l \in Pids : TakeLeader(l) \/ ReapOrphanedTree(l)
    \/ \E g \in going : DropRecord(g) \/ KillTree(g)
    \/ SweepRun \/ ResumedRunEnds \/ DaemonKilled \/ DaemonReturns \/ RecordsDone \/ SweepStartup

TreesSpec == TreesInit /\ [][TreesNext]_treesVars

------------------------------------------------------------------------------
Ids == 1..MaxBirths
Rows == [pid : Pids, id : Ids, pg : Pids]
Processes == [id : Ids, pp : Pids \union {0}, pg : Pids, at : {"tree", "away"}, kin : BOOLEAN]

\* Every variable has its type, and a leader's descendants are a map from their pids.
TreesTypeOK ==
    /\ \A p \in Pids : Up(p) => table[p] \in Processes
    /\ \A p \in Pids : tracked[p] # Free =>
        tracked[p].id \in Ids /\ tracked[p].desc \subseteq Rows /\ tracked[p].groups \subseteq Pids
    /\ \A p \in Pids : tracked[p] # Free => \A d, e \in tracked[p].desc : d.pid = e.pid => d = e
    /\ daemon \in {"up", "down", "records", "sweep"} /\ runOver \in BOOLEAN
    /\ born \in 0..MaxBirths /\ commands \in 0..MaxCommands /\ falls \in 0..MaxFalls
    /\ seen \subseteq Ids \X Ids /\ reaped \subseteq Ids /\ lost \subseteq Ids

\* No teardown, record or sweep ever kills a process that came from no command, although
\* pids and group numbers it remembers may have been handed out again.
StrangersSpared == [][\A p \in Pids : Up(p) /\ ~table[p].kin => table'[p] = table[p]]_treesVars

\* Once a command's teardown has returned, nothing that a sample ever showed below it is
\* alive, whatever parents have died and groups have been left since.
SampledNeverLeaks == \A s \in seen : s[2] \in reaped => ~Alive(s[1])

\* A record file outlives neither its command nor a late sample: a daemon that is up has
\* one only for a command it tracks or is just tearing down.
RecordHasLeader ==
    daemon = "up" => \A l \in Pids : records[l] # Free =>
        tracked[l] # Free \/ \E g \in going : g.pid = l /\ g.phase = "taken"

\* After a crash the records finish the job: of what was ever sampled only two kinds are
\* alive once the daemon is up again, those whose teardown had dropped its record and those
\* whose leader was still running when the record was read.
RecordedNeverLeaks ==
    daemon \in {"sweep", "up"} => \A s \in seen :
        Alive(s[1]) => \/ s[2] \in lost
                       \/ \E p \in Pids : tracked[p].id = s[2]
                       \/ \E g \in going : g.id = s[2]

\* No process that was sampled below a command outlives its teardown or, after a crash, its record.
TreesSafe == TreesTypeOK /\ SampledNeverLeaks /\ RecordHasLeader /\ RecordedNeverLeaks
=============================================================================

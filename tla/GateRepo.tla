------------------------------ MODULE GateRepo ------------------------------
(* The gate of a checkout (gate/gate.go, git/hook.go, the migration in      *)
(* daemon/daemon.go): init and eject run against checkouts that are moved,  *)
(* copied and removed, hooks are kept in order by init and by every start   *)
(* of the daemon, and a push goes through them.                             *)
(*                                                                          *)
(* A gate's number is that of the path it was made for (repoID). A push     *)
(* comes from a checkout, never from a run. Remotes that are not gates are  *)
(* all alike; the two preserved copies of a user's hook are one.            *)
EXTENDS Naturals

CONSTANTS
    Paths,       \* directories a checkout can be in, numbers from 1
    MaxShifts,   \* bound on moves, copies, clones and removals
    MaxTampers,  \* bound on what others do to the hooks
    MaxInits     \* bound on init and eject commands

\* No remote, no record; a remote the user manages.
None == 0
User == 99

ASSUME GateAssumption ==
    /\ Paths \subseteq Nat /\ None \notin Paths /\ User \notin Paths
    /\ MaxShifts \in Nat /\ MaxTampers \in Nat /\ MaxInits \in Nat

VARIABLES
    dir,       \* checkouts: there, the two remotes
    rec,       \* repos.working_path of each gate number
    gates,      \* gate directories
    cli,       \* the init or eject command that runs
    server,    \* the daemon: down, migrating, up
    todo,      \* gates the migration has not looked at
    settled,   \* history: gate the last init of a checkout ended with
    tampered,  \* history: gates whose hooks others changed since the daemon came up
    pushed,    \* what became of the last push
    budget     \* what is left of the bounds

gateVars == <<dir, rec, gates, cli, server, todo, settled, tampered, pushed, budget>>

NoDir == [there |-> FALSE, canon |-> None, legacy |-> None]
NewDir == [NoDir EXCEPT !.there = TRUE]
NoGate == [there |-> FALSE, pre |-> "none", kept |-> "none", post |-> "none",
           pinned |-> FALSE, hijacked |-> FALSE, stamp |-> "none", shared |-> FALSE]
Idle == [op |-> "none", w |-> 0, g |-> 0, fresh |-> FALSE, pc |-> "idle"]

GateInit ==
    /\ dir = [w \in Paths |-> IF w = 1 THEN NewDir ELSE NoDir]
    /\ rec = [g \in Paths |-> None] /\ gates = [g \in Paths |-> NoGate]
    /\ cli = Idle /\ server = "down" /\ todo = {}
    /\ settled = [w \in Paths |-> None] /\ tampered = {}
    /\ pushed = "none"
    /\ budget = [k \in {"shifts", "tampers", "inits"} |->
                     CASE k = "shifts" -> MaxShifts [] k = "tampers" -> MaxTampers [] OTHER -> MaxInits]

RecordOf(w) == {g \in Paths : rec[g] = w}
Spend(what) == budget[what] > 0 /\ budget' = [budget EXCEPT ![what] = @ - 1]
GoTo(pc) == cli' = [cli EXCEPT !.pc = pc]

-----------------------------------------------------------------------------
(* Checkouts come and go. *)

CloneDir(w) ==
    /\ ~dir[w].there /\ Spend("shifts")
    /\ \E r \in {None, User} : dir' = [dir EXCEPT ![w] = [NewDir EXCEPT !.canon = r]]
    /\ UNCHANGED <<rec, gates, cli, server, todo, settled, tampered, pushed>>

\* A move takes the remotes along, a copy leaves the original.
MoveDir(w, v) ==
    /\ dir[w].there /\ ~dir[v].there /\ cli.w # w /\ Spend("shifts")
    /\ dir' = [dir EXCEPT ![v] = dir[w], ![w] = NoDir]
    /\ settled' = [settled EXCEPT ![w] = None]
    /\ UNCHANGED <<rec, gates, cli, server, todo, tampered, pushed>>

CopyDir(w, v) ==
    /\ dir[w].there /\ ~dir[v].there /\ cli.w # w /\ Spend("shifts")
    /\ dir' = [dir EXCEPT ![v] = dir[w]]
    /\ UNCHANGED <<rec, gates, cli, server, todo, settled, tampered, pushed>>

-----------------------------------------------------------------------------
(* Hooks *)

\* Mutant: a user's hook is overwritten.
RearmPreOver(h) == [h EXCEPT !.kept = IF @ = "self" THEN "none" ELSE @, !.pre = "managed"]

\* RefreshManagedPreReceiveHook: a preserved copy of the managed hook is
\* disarmed, a user's hook is preserved behind it; any other state becomes
\* the managed hook.
RearmPre(h) == [h EXCEPT !.kept = IF h.pre = "user" THEN "user" ELSE IF @ = "self" THEN "none" ELSE @,
                         !.pre = "managed"]

\* Two user hooks cannot both be preserved.
Conflict(h) == h.pre = "user" /\ h.kept = "user"

\* RefreshManagedPostReceiveHook leaves a user's hook alone.
RearmPost(h) == [h EXCEPT !.post = IF @ = "user" THEN @ ELSE "managed"]

\* GateConfigCurrent: the stamp, and the hooks as git would run them.
Current(h) == h.stamp = "now" /\ h.pre = "managed" /\ h.post \in {"managed", "user"}

\* core.hookspath pinned per worktree, evidence kept, the stamp last.
Pinned(h) == [h EXCEPT !.pinned = TRUE, !.stamp = "now"]

\* Others: a hook of the user's own, a mirror that lost the executable bits
\* or preserved the managed hook as the user's, a tool that sets
\* core.hookspath in the shared configuration, an upgrade of the program.
Tamper(g) ==
    /\ gates[g].there /\ Spend("tampers")
    /\ \E h \in {[gates[g] EXCEPT !.pre = "user"],
                 [gates[g] EXCEPT !.post = "user"],
                 [gates[g] EXCEPT !.pre = "dead", !.post = "dead"],
                 [gates[g] EXCEPT !.kept = "self"],
                 [gates[g] EXCEPT !.hijacked = TRUE]} :
         gates' = [gates EXCEPT ![g] = h]
    /\ tampered' = tampered \cup {g}
    /\ UNCHANGED <<dir, rec, cli, server, todo, settled, pushed>>

Stale(h) == [h EXCEPT !.pre = IF @ = "managed" THEN "stale" ELSE @,
                      !.post = IF @ = "managed" THEN "stale" ELSE @,
                      !.stamp = IF @ = "now" THEN "old" ELSE @]

Upgrade ==
    /\ server = "down" /\ cli = Idle /\ Spend("tampers")
    /\ gates' = [g \in Paths |-> Stale(gates[g])]
    /\ UNCHANGED <<dir, rec, cli, server, todo, settled, tampered, pushed>>

-----------------------------------------------------------------------------
(* The daemon *)

DaemonStarts ==
    /\ server = "down" /\ server' = "migrating"
    /\ todo' = {g \in Paths : gates[g].there}
    /\ UNCHANGED <<dir, rec, gates, cli, settled, tampered, pushed, budget>>

\* migrateGateConfigs: a gate that is current is passed over, one that cannot
\* be repaired is reported and left.
MigrateGate(g) ==
    /\ server = "migrating" /\ g \in todo
    /\ todo' = todo \ {g}
    /\ gates' = [gates EXCEPT ![g] = IF ~@.there \/ Current(@) \/ Conflict(@) THEN @
                                   ELSE Pinned(RearmPost(RearmPre(@)))]
    /\ tampered' = tampered \ {g}
    /\ UNCHANGED <<dir, rec, cli, server, settled, pushed, budget>>

DaemonServes ==
    /\ server = "migrating" /\ todo = {} /\ server' = "up"
    /\ UNCHANGED <<dir, rec, gates, cli, todo, settled, tampered, pushed, budget>>

DaemonStops ==
    /\ server # "down" /\ server' = "down" /\ todo' = {}
    /\ UNCHANGED <<dir, rec, gates, cli, settled, tampered, pushed, budget>>

-----------------------------------------------------------------------------
(* init *)

BeginInit(w) ==
    /\ cli = Idle /\ dir[w].there /\ Spend("inits")
    /\ cli' = [Idle EXCEPT !.op = "init", !.w = w, !.pc = "find"]
    /\ settled' = [settled EXCEPT ![w] = None]
    /\ UNCHANGED <<dir, rec, gates, server, todo, tampered, pushed>>

\* sameWorkingRemoteURL: two remotes that name different places.
Differ(d) == d.canon # None /\ d.legacy # None /\ d.canon # d.legacy
NamedBy(d) == IF d.canon # None THEN d.canon ELSE d.legacy

\* Mutant: a copy takes the gate of the checkout it was copied from.
RelocatedOrCopied(w) ==
    {g \in Paths : RecordOf(w) = {} /\ NamedBy(dir[w]) = g /\ rec[g] # None}

\* reattachRelocatedRepo: the gate this checkout's remote names, if the
\* checkout it was made for is no longer there.
Relocated(w) ==
    {g \in Paths : RecordOf(w) = {} /\ NamedBy(dir[w]) = g /\ rec[g] # None /\ ~dir[rec[g]].there}

\* The record of this path, a relocated one, or a fresh gate. The origin may
\* turn out to be unreachable or its default branch missing.
FindGate ==
    /\ cli.op = "init" /\ cli.pc = "find"
    /\ LET w == cli.w IN
       \/ /\ RecordOf(w) = {} /\ Differ(dir[w])
          /\ cli' = Idle /\ UNCHANGED rec
       \/ /\ ~(RecordOf(w) = {} /\ Differ(dir[w]))
          /\ LET known == RecordOf(w) \cup Relocated(w)
                 g == IF known = {} THEN w ELSE CHOOSE k \in known : TRUE
             IN  /\ rec' = IF known = {} THEN rec ELSE [rec EXCEPT ![g] = w]
                 /\ \/ cli' = [cli EXCEPT !.g = g, !.fresh = known = {}, !.pc = "hooks"]
                    \/ cli' = Idle
    /\ UNCHANGED <<dir, gates, server, todo, settled, tampered, pushed, budget>>

\* Whatever fails in a fresh init takes the gate with it; a repair leaves it.
\* The remotes go if they name the gate, or all of them.
GiveUp(anyRemote) ==
    /\ cli' = Idle
    /\ IF cli.fresh
         THEN /\ gates' = [gates EXCEPT ![cli.g] = NoGate]
              /\ dir' = [dir EXCEPT ![cli.w].canon = IF anyRemote \/ @ = cli.g THEN None ELSE @,
                                    ![cli.w].legacy = IF anyRemote \/ @ = cli.g THEN None ELSE @]
         ELSE UNCHANGED <<gates, dir>>
    /\ UNCHANGED <<rec, server, todo, settled, tampered, pushed, budget>>

\* provisionGate creates the bare repository if there is none and puts the
\* hooks in order, pins them and stamps the gate.
ProvisionHooks ==
    /\ cli.pc = "hooks"
    /\ \/ /\ Conflict(gates[cli.g]) /\ GiveUp(FALSE)
       \/ /\ ~Conflict(gates[cli.g])
          /\ gates' = [gates EXCEPT ![cli.g] = Pinned(RearmPost(RearmPre([@ EXCEPT !.there = TRUE])))]
          /\ GoTo("canon")
          /\ UNCHANGED <<dir, rec, server, todo, settled, tampered, pushed, budget>>

\* ensureWorkingRemote, one remote after the other: a repair sets it, a fresh
\* init leaves a remote of the user's alone and fails.
Wirable(remote) == ~cli.fresh \/ remote # User

WireCanonical ==
    /\ cli.pc = "canon"
    /\ IF ~Differ(dir[cli.w]) /\ Wirable(dir[cli.w].canon)
         THEN /\ dir' = [dir EXCEPT ![cli.w].canon = cli.g]
              /\ GoTo("legacy")
              /\ UNCHANGED <<rec, gates, server, todo, settled, tampered, pushed, budget>>
         ELSE GiveUp(FALSE)

WireLegacy ==
    /\ cli.pc = "legacy"
    /\ IF Wirable(dir[cli.w].legacy)
         THEN /\ dir' = [dir EXCEPT ![cli.w].legacy = cli.g]
              /\ GoTo(IF cli.fresh THEN "store" ELSE "record")
              /\ UNCHANGED <<rec, gates, server, todo, settled, tampered, pushed, budget>>
         ELSE GiveUp(FALSE)

\* attachUpstreamStore: only a new gate borrows from the upstream's pool.
AttachStore ==
    /\ cli.pc = "store"
    /\ \/ /\ gates' = [gates EXCEPT ![cli.g].shared = TRUE]
          /\ GoTo("record")
          /\ UNCHANGED <<dir, rec, server, todo, settled, tampered, pushed, budget>>
       \/ GiveUp(TRUE)

\* A fresh record takes the gate's number and the path, each of which may
\* stand in one record only.
RecordGate ==
    /\ cli.pc = "record"
    /\ IF cli.fresh /\ (rec[cli.g] # None \/ RecordOf(cli.w) # {})
         THEN GiveUp(TRUE)
         ELSE /\ rec' = [rec EXCEPT ![cli.g] = cli.w]
              /\ settled' = [settled EXCEPT ![cli.w] = cli.g]
              /\ cli' = Idle
              /\ UNCHANGED <<dir, gates, server, todo, tampered, pushed, budget>>

-----------------------------------------------------------------------------
(* eject *)

BeginEject(w) ==
    /\ cli = Idle /\ dir[w].there /\ RecordOf(w) # {} /\ Spend("inits")
    /\ cli' = [Idle EXCEPT !.op = "eject", !.w = w, !.pc = "unwire", !.g = CHOOSE g \in RecordOf(w) : TRUE]
    /\ settled' = [settled EXCEPT ![w] = None]
    /\ UNCHANGED <<dir, rec, gates, server, todo, tampered, pushed>>

Unwire ==
    /\ cli.pc = "unwire"
    /\ dir' = [dir EXCEPT ![cli.w].canon = None, ![cli.w].legacy = None]
    /\ GoTo("drop")
    /\ UNCHANGED <<rec, gates, server, todo, settled, tampered, pushed, budget>>

DropGate ==
    /\ cli.pc = "drop"
    /\ gates' = [gates EXCEPT ![cli.g] = NoGate]
    /\ GoTo("forget")
    /\ UNCHANGED <<dir, rec, server, todo, settled, tampered, pushed, budget>>

ForgetRecord ==
    /\ cli.pc = "forget"
    /\ rec' = [rec EXCEPT ![cli.g] = None]
    /\ cli' = Idle
    /\ UNCHANGED <<dir, gates, server, todo, settled, tampered, pushed, budget>>

\* The command is killed between two steps.
Killed ==
    /\ cli # Idle /\ cli' = Idle
    /\ UNCHANGED <<dir, rec, gates, server, todo, settled, tampered, pushed, budget>>

-----------------------------------------------------------------------------
(* A push *)

\* Git runs the gate's hooks unless another directory was set for them.
HooksRun(h) == h.pinned \/ ~h.hijacked

\* preReceiveHookScript: the daemon admits the push, then a preserved hook is
\* run unless it is a copy of this one. Hooks git does not run ask nobody.
Admission(h) ==
    IF ~HooksRun(h) \/ h.pre \notin {"managed", "stale"} THEN "unasked"
    ELSE IF server # "up" THEN "refused" ELSE "admitted"

\* The remote may be stale wiring. The ref moves when the push was not
\* refused, and the post-receive hook brings it to the record's run.
PushFrom(w) ==
    /\ dir[w].there /\ dir[w].canon \in Paths /\ gates[dir[w].canon].there
    /\ LET g == dir[w].canon
           how == Admission(gates[g])
           heard == /\ HooksRun(gates[g]) /\ gates[g].post \in {"managed", "stale"}
                    /\ server = "up" /\ rec[g] # None
       IN  pushed' = IF how = "admitted" /\ heard THEN "done"
                     ELSE IF how = "admitted" /\ settled[w] = g /\ g \notin tampered /\ gates[g].post # "user" THEN "stranded"
                     ELSE IF how = "unasked" /\ server = "up" /\ g \notin tampered /\ ~Conflict(gates[g]) THEN "slipped"
                     ELSE "done"
    /\ UNCHANGED <<dir, rec, gates, cli, server, todo, settled, tampered, budget>>

GateNext ==
    \/ \E w, v \in Paths : MoveDir(w, v) \/ CopyDir(w, v)
    \/ \E w \in Paths : CloneDir(w) \/ BeginInit(w) \/ BeginEject(w) \/ PushFrom(w)
    \/ \E g \in Paths : Tamper(g) \/ MigrateGate(g)
    \/ Upgrade \/ DaemonStarts \/ DaemonServes \/ DaemonStops
    \/ FindGate \/ ProvisionHooks \/ WireCanonical \/ WireLegacy \/ AttachStore \/ RecordGate
    \/ Unwire \/ DropGate \/ ForgetRecord \/ Killed

GateSpec == GateInit /\ [][GateNext]_gateVars

-----------------------------------------------------------------------------
(* Properties *)

\* A path stands in one record.
GateTypeOK ==
    /\ \A w \in Paths : {dir[w].canon, dir[w].legacy} \subseteq Paths \cup {None, User}
    /\ rec \in [Paths -> Paths \cup {None}]
    /\ \A g, h \in Paths : rec[g] = rec[h] /\ rec[g] # None => g = h
    /\ \A g \in Paths : /\ gates[g].pre \in {"none", "managed", "stale", "user", "dead"}
                        /\ gates[g].kept \in {"none", "user", "self"}
    /\ todo \subseteq Paths /\ tampered \subseteq Paths
    /\ pushed \in {"none", "done", "slipped", "stranded"}

Wired(w, g) == rec[g] = w /\ gates[g].there /\ dir[w].canon = g /\ dir[w].legacy = g

\* Whatever happens to other checkouts, copies of this one and their gates, a
\* checkout that was initialised where it stands keeps its gate, its record
\* and its remotes until it is moved, ejected or initialised again
\* (reattachRelocatedRepo, ensureNamedWorkingRemote, the rollbacks of init).
OwnGateStays == \A w \in Paths : settled[w] = w => Wired(w, w)

\* The same of every checkout, one whose gate came along when it was moved
\* included: init tears down only a gate it created (gate.go).
TearsDownItsOwn == \A w \in Paths : settled[w] # None => Wired(w, settled[w])

\* No push gets past admission while the daemon serves, except where the hooks
\* were changed since it came up or where a user's hook cannot be preserved;
\* and a push that was admitted through a settled gate starts a run
\* (GateConfigCurrent, managedPostReceiveHookNeedsWrite).
PushesAreAdmitted == pushed \notin {"slipped", "stranded"}

\* A checkout keeps its own gate, and every push through it is admitted.
GateSafe == GateTypeOK /\ OwnGateStays /\ PushesAreAdmitted

\* A user's hook outlives every refresh, as the hook or behind the managed one
\* (RefreshManagedPreReceiveHook); only the removal of the gate ends it.
UserHookKept ==
    [][\A g \in Paths : (gates[g].there /\ gates'[g].there /\ budget'["tampers"] = budget["tampers"])
          => ("user" \in {gates[g].pre, gates[g].kept} => "user" \in {gates'[g].pre, gates'[g].kept})]_gateVars
=============================================================================

------------------------------- MODULE Config -------------------------------
(***************************************************************************)
(* Which configuration a run obeys: internal/config, the start and the     *)
(* recovery of a run in internal/daemon/manager.go, the refresh of a       *)
(* repository's URLs and "no-slop axi plan".                               *)
(*                                                                         *)
(* A run reads the file its branch pushed, the operator's global file and  *)
(* the file on the default branch, which a fetch brings to a tracking ref  *)
(* that all runs of the gate share.  Meanwhile the default branch moves,   *)
(* the remote may move, the operator edits, agents edit their worktree,    *)
(* and the daemon dies.                                                    *)
(*                                                                         *)
(* A fetch is one step, as git's own ref transaction makes it but for a    *)
(* window within one process.  Fields that are handled alike are kept as   *)
(* one function over their names; log level, timeouts, quartermaster and   *)
(* path overrides go the way of "localRoot".                               *)
(***************************************************************************)
EXTENDS Naturals, Integers, Sequences, FiniteSets, SequencesExt, FiniteSetsExt

CONSTANTS
    ConfigRuns,      \* runs, each of a branch of its own
    Pairs,           \* alias pairs by name
    TrustedPairs,    \* those the default branch may carry
    PushedPairs,     \* those a branch or an agent may leave in a worktree
    GlobalFiles,     \* what the global file may say, by name
    Paths,           \* binaries that may be installed together, by name
    MaxTips,         \* bound: commits of the default branch
    MaxConfigEvents  \* bound: edits, installations, deaths

VARIABLES
    hosted,        \* files of each commit, and the tip at each URL
    cloneOrigin, registered,   \* URL in the checkout, URL in the database
    tracking,      \* refs/remotes/origin/<default> of the gate
    globalFile, installed,
    attempt,       \* what each run is doing
    plan,          \* the last answer of "axi plan"
    configEvents

configVars == <<hosted, cloneOrigin, registered, tracking, globalFile, installed, attempt, plan, configEvents>>
surroundings == <<cloneOrigin, registered, globalFile, installed>>

Urls == {"old", "new"}
GateOrigin == "old"          \* a gate keeps the origin it was cloned with
NoPin == 0
Unset == "unset"
NotSet == -99

GateFields == {"blockingSeverity", "document", "slop", "review", "disableProjectSettings", "noCI",
               "evidenceBranch"}
PrefFields == {"autoFix", "intent", "commit", "evidenceDir"}

NoGates == [f \in GateFields |-> Unset]
NoPrefs == [f \in PrefFields |-> Unset]

\* A file that is not there, and one that says nothing.
Absent == [is |-> "absent", commands |-> "", agents |-> <<>>, gates |-> NoGates, rerun |-> NotSet,
           prefs |-> NoPrefs, localRoot |-> Unset, allow |-> FALSE]
NoConfig == Absent
EmptyFile == [Absent EXCEPT !.is = "config"]
Present(f) == f.is # "absent"

-----------------------------------------------------------------------------
(* Reading a file and its alias.                                           *)

Parses(f) == f.is = "config"

\* First of two settings that is set.
Or(v, w) == IF v = Unset THEN w ELSE v

MaxCIRerunTransient == 5
RerunBudget(v, otherwise) ==
    IF v = NotSet THEN otherwise ELSE Min({Max({v, 0}), MaxCIRerunTransient})

DefaultGates == [f \in GateFields |-> IF f = "blockingSeverity" THEN "warning" ELSE "default"]

CodeFields(c) == [commands |-> c.commands, agents |-> c.agents]

\* The branch may choose its preferences; all that gates, executes or spends is trusted.
EffectiveRepoConfig(pushed, trusted, allow) ==
    LET code == IF allow THEN pushed ELSE trusted
    IN  [pushed EXCEPT !.gates = trusted.gates, !.rerun = trusted.rerun,
                       !.commands = code.commands, !.agents = code.agents]

\* The built-in defaults, then the operator, then the repository; where evidence lies on this
\* machine is the operator's alone.
Merge(global, repo) ==
    [agents |-> IF repo.agents # <<>> THEN repo.agents ELSE global.agents,
     commands |-> repo.commands,
     gates |-> [f \in GateFields |-> Or(repo.gates[f], DefaultGates[f])],
     rerun |-> RerunBudget(repo.rerun, RerunBudget(global.rerun, 0)),
     prefs |-> [f \in PrefFields |-> Or(repo.prefs[f], Or(global.prefs[f], "default"))],
     localRoot |-> Or(global.localRoot, "default"),
     unneutralized |-> global.overridden]

EmptyGlobal == [is |-> "config", agents |-> <<>>, rerun |-> NotSet, prefs |-> NoPrefs,
                localRoot |-> Unset, overridden |-> {}]
DefaultGlobal == [EmptyGlobal EXCEPT !.agents = <<"auto">>]

\* What a file has: the branch's or the default branch's, and the operator's.
RepoFile(f) == DOMAIN f = DOMAIN Absent /\ f.rerun \in Int /\ f.allow \in BOOLEAN
OperatorFile(f) ==
    /\ DOMAIN f = DOMAIN EmptyGlobal /\ f.rerun \in Int
    /\ ~Present(f) => f.overridden = {}

ASSUME FilesAssumption ==
    /\ TrustedPairs \cup PushedPairs \subseteq DOMAIN Pairs
    /\ \A p \in DOMAIN Pairs : /\ Pairs[p] = <<Pairs[p][1], Pairs[p][2]>>
                              /\ RepoFile(Pairs[p][1]) /\ RepoFile(Pairs[p][2])
    /\ \A g \in DOMAIN GlobalFiles : OperatorFile(GlobalFiles[g])

AliasSemantics(f) == <<Merge(EmptyGlobal, EffectiveRepoConfig(f, f, TRUE)), f.allow>>

\* A file and its alias are one; both must parse and mean the same to a machine without a
\* global file.
PairParses(p) ==
    /\ \A f \in Range(Pairs[p]) : Present(f) => Parses(f)
    /\ (\A f \in Range(Pairs[p]) : Present(f)) => AliasSemantics(Pairs[p][1]) = AliasSemantics(Pairs[p][2])

PairPresent(p) == \E f \in Range(Pairs[p]) : Present(f)
PairConfig(p) == IF Present(Pairs[p][1]) THEN Pairs[p][1]
                 ELSE IF Present(Pairs[p][2]) THEN Pairs[p][2] ELSE EmptyFile

LoadGlobal(g) ==
    LET file == GlobalFiles[g]
    IN  IF file.is = "absent" THEN DefaultGlobal
        ELSE [file EXCEPT !.agents = IF @ = <<>> THEN <<"auto">> ELSE @]
GlobalParses(g) == GlobalFiles[g].is # "bad"

-----------------------------------------------------------------------------
(* The agents of a run.                                                    *)

ProbeOrder == <<"claude", "codex", "copilot">>
Aliases == <<"cursor">>
Explicit == {"acp:cursor"}
Native(a) == a \in Range(ProbeOrder)
Known(a) == Native(a) \/ a \in Range(Aliases) \cup Explicit

Identity(a) == IF Native(a) THEN a ELSE "acp:cursor"
Binaries(a) == IF Native(a) THEN <<a>> ELSE <<"cursor-agent", "acpx">>

\* What looking a name's binaries up says: the first that is not simply found decides.
Lookup(a, path) ==
    LET bins == Binaries(a)
        odd == {i \in DOMAIN bins : bins[i] \notin path.found}
    IN  IF odd = {} THEN "found"
        ELSE IF bins[Min(odd)] \in path.broken THEN "error" ELSE "missing"

AutoOrder == ProbeOrder \o Aliases

\* The first candidate that is there; a lookup that fails otherwise ends the search.
ProbeAuto(path) ==
    LET hits == {i \in DOMAIN AutoOrder : Lookup(AutoOrder[i], path) # "missing"}
    IN  IF hits = {} THEN "missing"
        ELSE IF Lookup(AutoOrder[Min(hits)], path) = "error" THEN "error" ELSE AutoOrder[Min(hits)]

ResolveName(a, path) ==
    IF a = "auto" THEN ProbeAuto(path)
    ELSE IF ~Known(a) THEN "error"
    ELSE IF Lookup(a, path) = "found" THEN a ELSE Lookup(a, path)

\* Those that are there, each identity once; none, when any lookup fails or nothing is there.
ResolveAgent(agents, path) ==
    LET names == [i \in DOMAIN agents |-> ResolveName(agents[i], path)]
        Adds(acc, n) == IF n = "missing" \/ \E i \in DOMAIN acc : Identity(acc[i]) = Identity(n)
                        THEN acc ELSE Append(acc, n)
    IN  IF \E i \in DOMAIN names : names[i] = "error" THEN <<>> ELSE FoldLeft(Adds, <<>>, names)

\* Only these adapters can start without the project's own instructions, unless the operator's
\* arguments bring them back.
Neutralizes(a, cfg) == a \in {"claude", "codex"} /\ a \notin cfg.unneutralized

EnsureGateNeutralized(chain, cfg) ==
    cfg.gates["disableProjectSettings"] = "on" => \A a \in Range(chain) : Neutralizes(a, cfg)

-----------------------------------------------------------------------------
(* Runs.                                                                   *)

Idle == [pc |-> "idle"]
Aborted == [pc |-> "aborted"]
NewAttempt == [pc |-> "begun", recovering |-> FALSE, url |-> "old", pushed |-> "", global |-> "",
               path |-> "", pinned |-> NoPin, chain |-> <<>>, session |-> "none", live |-> {}]
NoPlan == <<>>

ConfigInit ==
    /\ \E pair \in TrustedPairs : hosted = [files |-> <<pair>>, tip |-> [u \in Urls |-> 1]]
    /\ cloneOrigin = "old" /\ registered = "old" /\ tracking = NoPin
    /\ globalFile \in DOMAIN GlobalFiles /\ installed \in DOMAIN Paths
    /\ attempt = [r \in ConfigRuns |-> Idle]
    /\ plan = NoPlan /\ configEvents = 0

At(r, pc) == attempt[r].pc = pc
Becomes(r, new) == attempt' = [attempt EXCEPT ![r] = new]
Event == configEvents < MaxConfigEvents /\ configEvents' = configEvents + 1

\* The remotes a run may be told to fetch from, and what a start that is under way has seen there.
Sources == {GateOrigin, cloneOrigin}
Seen(commits) ==
    attempt' = [r \in ConfigRuns |-> IF attempt[r].pc \in {"begun", "fetched"}
                                     THEN [attempt[r] EXCEPT !.live = @ \cup commits] ELSE attempt[r]]

\* A commit that changes the files reaches the default branch of a remote.
Lands(u, pair) ==
    /\ Len(hosted.files) < MaxTips /\ pair # hosted.files[hosted.tip[u]]
    /\ hosted' = [files |-> Append(hosted.files, pair), tip |-> [hosted.tip EXCEPT ![u] = Len(hosted.files) + 1]]
    /\ Seen(IF u \in Sources THEN {Len(hosted.files) + 1} ELSE {})
    /\ UNCHANGED <<surroundings, tracking, plan, configEvents>>

RemoteMoves ==
    /\ cloneOrigin = "old" /\ cloneOrigin' = "new" /\ Event
    /\ Seen({hosted.tip["new"]})
    /\ UNCHANGED <<hosted, registered, globalFile, installed, tracking, plan>>

OperatorEdits ==
    /\ Event /\ \E g \in DOMAIN GlobalFiles \ {globalFile} : globalFile' = g
    /\ UNCHANGED <<hosted, cloneOrigin, registered, installed, tracking, attempt, plan>>

Installs ==
    /\ Event /\ \E p \in DOMAIN Paths \ {installed} : installed' = p
    /\ UNCHANGED <<hosted, cloneOrigin, registered, globalFile, tracking, attempt, plan>>

Tips == {hosted.tip[u] : u \in Sources}

\* A push: the URLs are read from the checkout, and when that fails stay as they are registered.
StartRun(r, pair) ==
    /\ At(r, "idle")
    /\ \E refreshed \in BOOLEAN :
        /\ registered' = IF refreshed THEN cloneOrigin ELSE registered
        /\ Becomes(r, [NewAttempt EXCEPT !.pushed = pair, !.live = Tips,
                                         !.url = IF refreshed THEN cloneOrigin ELSE GateOrigin])
    /\ UNCHANGED <<hosted, cloneOrigin, globalFile, installed, tracking, plan, configEvents>>

\* A parked run of a daemon that died: the files are read from its worktree, and the default
\* branch from the gate's own origin.
BeginRecovery(r) ==
    /\ At(r, "interrupted")
    /\ Becomes(r, IF ~GlobalParses(globalFile) THEN Aborted
                  ELSE [attempt[r] EXCEPT !.pc = "begun", !.recovering = TRUE, !.url = GateOrigin,
                                          !.global = globalFile, !.live = Tips, !.pinned = NoPin])
    /\ UNCHANGED <<hosted, surroundings, tracking, plan, configEvents>>

FetchRunDefaultBranch(r) ==
    /\ At(r, "begun")
    /\ tracking' = hosted.tip[attempt[r].url]
    /\ Becomes(r, [attempt[r] EXCEPT !.pc = "fetched"])
    /\ UNCHANGED <<hosted, surroundings, plan, configEvents>>

\* Mutant: a ref of an earlier fetch is good enough.
FetchFailsPinsStale(r) ==
    /\ At(r, "begun")
    /\ Becomes(r, [attempt[r] EXCEPT !.pc = "pinned", !.pinned = tracking])
    /\ UNCHANGED <<hosted, surroundings, tracking, plan, configEvents>>

FetchFails(r) ==
    /\ At(r, "begun")
    /\ Becomes(r, [attempt[r] EXCEPT !.pc = "pinned", !.pinned = NoPin])
    /\ UNCHANGED <<hosted, surroundings, tracking, plan, configEvents>>

Pin(r) ==
    /\ At(r, "fetched")
    /\ Becomes(r, [attempt[r] EXCEPT !.pc = "pinned", !.pinned = tracking])
    /\ UNCHANGED <<hosted, surroundings, tracking, plan, configEvents>>

TrustedPair(c) == hosted.files[c]

\* The trusted tree was read, and what it carries parses.
TrustedReadable(c) == c # NoPin /\ PairParses(TrustedPair(c))

LoadTrusted(c) ==
    IF c = NoPin \/ ~PairPresent(TrustedPair(c)) \/ ~PairParses(TrustedPair(c)) THEN EmptyFile
    ELSE PairConfig(TrustedPair(c))

Resolved(g, pushed, c) ==
    LET trusted == LoadTrusted(c)
    IN  Merge(LoadGlobal(g), EffectiveRepoConfig(PairConfig(pushed), trusted, trusted.allow))

\* What the run would obey, or nothing when it must not run.
Outcome(g, pushed, c, path) ==
    LET cfg == Resolved(g, pushed, c)
        chain == ResolveAgent(cfg.agents, Paths[path])
    IN  [chain |-> chain,
         runs |-> /\ GlobalParses(g) /\ PairParses(pushed) /\ TrustedReadable(c)
                  /\ chain # <<>> /\ EnsureGateNeutralized(chain, cfg)]

\* The executor is made with what was resolved, or the run ends before an agent starts.  A
\* recovered run goes on only with the provider that owns its session.
Launch(r) ==
    /\ At(r, "pinned")
    /\ LET a == attempt[r]
           g == IF a.recovering THEN a.global ELSE globalFile
           out == Outcome(g, a.pushed, a.pinned, installed)
           ok == out.runs /\ (a.session = "none" \/ a.session \in Range(out.chain))
       IN  Becomes(r, IF ok THEN [a EXCEPT !.pc = "running", !.global = g, !.path = installed,
                                           !.chain = out.chain]
                      ELSE Aborted)
    /\ UNCHANGED <<hosted, surroundings, tracking, plan, configEvents>>

\* A running agent may leave anything in its worktree, and a session of its own.
AgentActs(r) ==
    /\ At(r, "running") /\ Event
    /\ \E pair \in PushedPairs, a \in Range(attempt[r].chain) :
        Becomes(r, [attempt[r] EXCEPT !.pc = "edited", !.pushed = pair, !.session = a])
    /\ UNCHANGED <<hosted, surroundings, tracking, plan>>

DaemonDies ==
    /\ Event
    /\ attempt' = [r \in ConfigRuns |->
        IF attempt[r].pc \in {"running", "edited"} THEN [attempt[r] EXCEPT !.pc = "interrupted"]
        ELSE IF attempt[r].pc \in {"idle", "interrupted"} THEN attempt[r]
        ELSE Aborted]
    /\ UNCHANGED <<hosted, surroundings, tracking, plan>>

\* "axi plan" resolves the same without touching the gate: the committed file of the branch, and
\* the default branch of the checkout's own origin.
PlanAxiRun(pair) ==
    /\ plan = NoPlan /\ GlobalParses(globalFile) /\ Event
    /\ LET c == hosted.tip[cloneOrigin]
           out == Outcome(globalFile, pair, c, installed)
       IN  /\ PairParses(pair) /\ PairParses(TrustedPair(c)) /\ out.chain # <<>>
           /\ plan' = [at |-> <<c, pair, globalFile, installed>>, chain |-> out.chain]
    /\ UNCHANGED <<hosted, surroundings, tracking, attempt>>

Settles ==
    /\ \A r \in ConfigRuns : attempt[r].pc \in {"running", "edited", "aborted", "idle", "interrupted"}
    /\ UNCHANGED configVars

ConfigNext ==
    \/ RemoteMoves \/ OperatorEdits \/ Installs \/ DaemonDies \/ Settles
    \/ \E u \in Urls, pair \in TrustedPairs : Lands(u, pair)
    \/ \E pair \in PushedPairs : PlanAxiRun(pair)
    \/ \E r \in ConfigRuns :
        \/ \E pair \in PushedPairs : StartRun(r, pair)
        \/ BeginRecovery(r) \/ FetchRunDefaultBranch(r) \/ FetchFails(r) \/ Pin(r) \/ Launch(r) \/ AgentActs(r)

ConfigSpec == ConfigInit /\ [][ConfigNext]_configVars

-----------------------------------------------------------------------------
(* Properties.                                                             *)

Obeying == {r \in ConfigRuns : attempt[r].pc \in {"running", "edited"}}

\* What a run was gated by was the default branch of a registered remote at some moment of this
\* very start or recovery, never what an earlier one had left in the gate.
PinIsFresh(a) == a.pinned \in a.live

\* Nothing a branch or an agent could have put in its place changes what gates, bills or launches.
BranchHasNoSay(a) ==
    \A other \in PushedPairs :
        LET is == Resolved(a.global, a.pushed, a.pinned)
            would == Resolved(a.global, other, a.pinned)
        IN  /\ would.gates = is.gates /\ would.rerun = is.rerun /\ would.localRoot = is.localRoot
            /\ \/ PairConfig(TrustedPair(a.pinned)).allow
               \/ would.commands = is.commands /\ would.agents = is.agents

\* Every rule the default branch states is in force, one that forbids the project's instructions
\* for whichever agent of the chain takes over, and the account is never billed beyond the cap.
RulesInForce(a) ==
    LET rules == PairConfig(TrustedPair(a.pinned))
        cfg == Resolved(a.global, a.pushed, a.pinned)
    IN  /\ \A f \in Range(Pairs[TrustedPair(a.pinned)]) : Present(f) => Parses(f)
        /\ \A f \in GateFields : rules.gates[f] # Unset => cfg.gates[f] = rules.gates[f]
        /\ rules.gates["disableProjectSettings"] = "on" =>
               \A g \in Range(a.chain) : g \in {"claude", "codex"} \ GlobalFiles[a.global].overridden
        /\ cfg.rerun \in 0..MaxCIRerunTransient

\* A recovered run still has the provider that owns its session, and a plan named the agents that
\* a run under the same circumstances gets.
PromisesKept(a) ==
    /\ a.session = "none" \/ a.session \in Range(a.chain)
    /\ (a.pc = "running" /\ plan # NoPlan /\ plan.at = <<a.pinned, a.pushed, a.global, a.path>>)
           => plan.chain = a.chain

\* A branch is never judged, served or paid for by rules of its own making or by rules that were
\* withdrawn, however pushes, fetches, edits, deaths and recoveries fall together.
ConfigTrusted ==
    \A r \in Obeying : /\ PinIsFresh(attempt[r]) /\ BranchHasNoSay(attempt[r])
                       /\ RulesInForce(attempt[r]) /\ PromisesKept(attempt[r])
=============================================================================

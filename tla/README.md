# A TLA+ model of no-slop

no-slop is a local git gate. A developer pushes a branch to a bare gate
repository; a daemon starts a *run* for that push; the run drives nine steps
(intent, rebase, review, test, document, lint, push, pr, ci) in a detached
worktree and publishes the branch upstream only when its gates have passed.
SQLite holds the durable state; clients follow a run over a local socket and
rule on its approval gates.

This directory holds TLA+ modules for the parts of the program that have state
and order, TLC configurations that check them on small instances, and proofs
that TLAPS checks for every value of the constants. Paths below are relative to
`src/internal/` unless they start with another directory of `src/`.

## 1. Inventory

| Part | Source | State it keeps | What is hard | What makes it correct |
|---|---|---|---|---|
| Executor, rows, steps | `pipeline/executor.go`, `db/run.go`, `db/step.go`, `pipeline/steps` | place in the step list, fix counters, the open gate, the head in memory and in the row | a crash between two writes; heads that move under a certified gate; a gate ruled on, reconciled and cancelled at once | what is published was reviewed and tested as it is; parked gates survive a crash; budgets hold; cancelled runs end |
| Findings and convergence | `pipeline/findings.go`, `convergence` | identities and lineages of review findings, rounds | which earlier finding a report means; what a fix removes | nothing shown gets lost or weaker, nothing passes unasked |
| Capacity pools | `pipeline/capacity.go` | limits, slots in use, a notification channel | lost wake-ups, leaks, a limit lowered below its use | slots match holders, waiters wake |
| Run events and the terminal | `daemon/eventmailbox.go`, `daemon/daemon.go`, `tui` | per subscriber ring and gap, revisions; the screen's rows, reads, gates and edits | overflow, reads overtaken by events, restarts, several clients at a gate | no change is lost silently, no ruling about something not on show |
| Gate responses and the drive loop | `pipeline/respond.go`, `db/response.go`, `cli/axi_drive.go` | receipts, the loop's place | lost replies, repeats, deaths | one ruling, one effect |
| Run manager | `daemon/manager.go` | active runs, cancels, done channels, branch locks | check-then-act between lock, shutdown and cancellation; the wait for a superseded run | one executor per branch, every row and worktree has an owner |
| Daemon life | `daemon/daemon.go`, `daemon/selfexec.go`, `daemon/service*.go` | lock, pid file, socket, unit | hangs, crashes, overlapping commands | one daemon, reachable through its files |
| Delivery of a branch | `pipeline/uncertified.go`, `pipeline/steps/rebase.go`, `forcepush.go` | gate ref, uncertified range, recorded head, lease | three writes with rollback; others on the remote | pushes and fixes survive, nothing unseen is overwritten |
| Branch synchronisation | `branchsync` | custody refs and rows | refs and rows written by several processes that die | no commit is lost |
| Gate repository | `gate`, `git/hook.go` | gate directories, records, remotes, hooks | moved and copied checkouts, interrupted inits, user hooks | own gate stays, every push is admitted |
| Lanes and seats | `agent/fallback.go`, `quartermaster.go`, `lanehealth` | quota marks, probes, leases | marks shared without locks, seats on every exit path | seats accounted, marks move as time allows |
| Agents' turns and sessions | `agent/claude.go`, `codex.go`, `copilot.go`, `pi.go`, `acpx.go`, `pipeline/sessions.go`, `instrument.go` | the fixer's session in memory and row, token counters | dead sessions, other lanes after a restart, cumulative counters | owner resumes, nothing is charged twice |
| Agents' answers | `agent/agent.go` | none (a search in a text) | code fences, drafts, examples | the answer taken is the one meant |
| Agent servers, process trees | `agent/server*.go`, `shellenv`, `proctree` | pid files, samples, records | reuse of pids, deaths of the daemon, late merges | nothing outlives its owner unfound, strangers are spared |
| CI step | `pipeline/steps/ci*.go`, `scm` | rerun and repair counters, readiness | a rollup that lags, deaths between request and record | limits hold, green is earned |
| PR step | `pipeline/steps/pr*.go`, `scm` | the description and its record | nested limits, a publication that is not recorded | fits, keeps the attestation, latest update first |
| Configuration | `config`, `daemon/manager.go` | global, pushed and trusted files, pins | a ref that all runs share, edits while a run starts | no branch sets its own rules |
| Slop engine | `slop` | history of a lane | processes that die in a write, repeats | a pass is earned, history is heeded |
| Evaluation corpus | `eval` | registry, pool refs, case directories, pins | deaths between the three | registry, refs and directories agree |
| Setup wizard | `wizard`, `cli/attach.go` | branch, commit and push of a first run | keys, retries, late answers | one thing at a time, its report is true |
| Intent extraction, updates, telemetry, skills, views, test doubles | see `PROJECT.json` | – | parsing, text and I/O | not modelled |

How they interact. `git push` reaches the run manager through a hook
(`GateRepo`); the manager (`RunManager`) starts one goroutine per run with an
executor, a worktree and a cancellable context, under a configuration that is
resolved for that start (`Config`). The executor (`Pipeline`) calls the steps in
order, takes a slot of a capacity pool (`Capacity`) round each pooled step,
runs agents through lanes, sessions and child processes (`Lanes`, `AgentTurns`,
`AgentServers`, `ProcTrees`), writes every change to the database *before* it
announces it to the event mailboxes (`EventStream`), and blocks at a gate until
a client's ruling (`GateDrive`, `Screen`), a reconciliation or a cancellation
ends the wait. What it makes of the branch goes through the gate's refs and a
leased push (`Delivery`), the pull request (`PullRequest`) and its checks
(`CIMonitor`), and comes back to the developer's checkout by `BranchSync`. After
a crash a new daemon (`DaemonControl`) reads the rows, resumes the runs parked
at a gate in the same worktree, and fails the others.

## 2. Modules

| Module | Models | Actions correspond to |
|---|---|---|
| `Capacity`, `Pool` | the admission pools; `Pool` is the abstract pool of slots they implement | one action per critical section of `Acquire`, the release closure and `Configure`, and per case of the select |
| `Pipeline`, `ReviewedPush` | one run: executor, rows, heads, gate, crash and recovery; `ReviewedPush` is the abstract promise it implements | one action per database write, so that a crash may fall between any two |
| `Findings` | the review step's findings over rounds, with its convergence verdict | a report, a rejected test change put in its place, the merge with what was known, auto-fix, gate, selection, user additions |
| `EventStream` | one subscriber: mailbox, socket, TUI | `publish`, `next`, soft close; `applyEvent`, `applySnapshot`, reads, resubscription |
| `Screen` | what the TUI offers at gates: notes, added findings, diffs, yolo, reruns | the message handlers and keys of `tui` |
| `GateDrive` | drive loop, `axi respond`, `axi abort`, `respond`, the executor's gate | each read, request, store and channel operation |
| `RunManager` | start, supersession, cancellation, shutdown, recovery | steps between the lock operations of `manager.go` |
| `DaemonControl` | start, stop, restart, systemd, crashes | steps of `selfexec.go` and of the daemon's own start and exit |
| `Delivery` | gate ref, range, row and remote of a branch | the writes of `adoptBranchHead`, rebase, fix, force push, with rollback |
| `BranchSync` | sync, recovery, `--keep-local` | each git call that moves a ref, with operator and others in between |
| `GateRepo` | init, eject, refresh, hooks, pushes | the stages of `InitWithFork` and its rollback, hook migration, git's push |
| `Lanes` | invocations over shared quota marks and seats | check, claim, acquire, turn, release, judge, and the late write of a mark or its clearing |
| `AgentTurns` | the fixer's session over turns, events, retries, restarts | `RunSessions.Run`, one attempt's events per adapter, `recordResult` |
| `AgentAnswers` | the search for the structured answer | `parseStructuredTextOutput` and its helpers as functions |
| `AgentServers`, `ProcTrees`, `Leftovers` | servers with pid files; process trees with samples and records; what both promise | `StartServer`, `Stop`, reaping; sampling, merging, teardown, recovery |
| `CIMonitor`, `PullRequest` | the CI step and the PR step | one action per poll, decision, request and record |
| `Config` | what a run obeys | fetch, pin, merge, resolve, recover, plan |
| `Slop`, `SlopRules` | the noslop gate; its classifier, checks and scoring as rules on abstract files | the gate command from flags to exit code |
| `Corpus` | captured cases, reservations, pruning, pins | the writes of `eval/store.go`, `replay.go`, each of which may be the last |
| `Wizard` | the set-up wizard and what it waits for | its `Update`, its commands, its headless caller |
| `MC*` | constants for TLC; modules that compose the parts of one run | |
| `*Proofs` | theorems (section 5) | |

The modules with several components in one run (`MCHost`, `MCProcesses`,
`MCClients`, `MCPublish`, `MCReview`, `MCLive`, `MCEventStream`) put components
beside each other that share no variable: a variable `focus`, chosen at the
start, says which of them moves. That is the disjoint union of their behaviours
and of their state counts, and lets one run answer for several.

Two refinements are stated with `INSTANCE ... WITH`: `Capacity` implements
`Pool` (`AdmitsAsPool`: the counters, the lock and the channel that is closed
are a pool that admits at most its limit) and `Pipeline` implements
`ReviewedPush` (`KeepsPromise`: a completed review grants the recorded head, a
head that moves loses the grant, and only what a granted head underlies is
delivered).

Conventions. A commit is a number or a name, ancestry a set or a sequence. What
people, agents, forges, providers and other writers do is a choice among what
the code tells apart. Constants named `Max*`, `*Bound`, `*Limit` that are not
configuration of the program bound the exploration; the guards that use them say
so. `PROJECT.json` maps every definition that models code to its lines.

## 3. Runs

| Run | Parts | Bounds and why they are enough |
|---|---|---|
| `pipeline_heads` | `Pipeline` without crashes; `Findings`; `Config` | 2 commits (the submitted one and a fix, repair or foreign one after it), every set of gates, one automatic fix per step; 3 rounds, 2 reported findings, at most one proposed test change a round, rounds begun over at most 2 known findings: a finding can vanish, come back, be replaced by the question a rejected repair puts, and be answered; 2 runs over 2 states of the default branch with 2 events, so that every file may change between pin and use |
| `pipeline_crash` | `Pipeline` with a crash; `PullRequest`; `Corpus` | 2 commits and 1 crash, after which every recovery and a second gate are reached; 2 publications; 2 evaluators, 1 case beyond those captured, 3 operations and 1 death: a death in every write with the other evaluator in between |
| `pipeline_live` | liveness of `Pipeline`; `Wizard` | no crash; rebase with its own fix, or PR and CI alone: the places where a run waits |
| `event_stream` | `EventStream`, `Slop`, `SlopRules` | a ring of 2 frames and 3 units, frames of 1 or 2 units, 1 frame on the wire, one write, the end and a log chunk, 2 faults: one more write than wire and ring hold, so that eviction and folding happen; 2 gates that share a history, a window of 2 and 2 repeats, so that a record falls out of the window |
| `clients` | `GateDrive`, `CIMonitor`, `ProcTrees`, `AgentServers` | 2 gate rounds, 2 drives, 1 crash; 2 checks, 1 rerun, 1 repair, 2 heads; 3 pids for 4 births, so that a pid is reused; 2 servers |
| `processes` | `DaemonControl`, `RunManager`, `Capacity` | 2 commands and 2 daemons; 2 pushes on a branch with 2 runs and 2 daemon lives; 3 workers and limits 0 (the default) and 1, with reconfiguration |
| `host` | `BranchSync`, `Delivery`, `Lanes`, `GateRepo`, `Screen`, `AgentTurns`, `AgentAnswers` | 2 runs and 2 moves by others; 2 fixes and 2 acts; 2 invocations over a chain of two lanes with a seat, or 3 on one lane, with a clock of 3 and probes every tick: two probes a lane, and an outage read before the first of them and written after it; 2 paths with 2 moves or copies; 2 rounds at a gate; 2 turns, 2 sessions and 3 events an attempt; texts of two blocks |

What they show, beside the type invariant each of the compound ones contains:

* `AuthorityCoversGates`: whenever the run records a review approval, it is for
  the recorded head, that commit was examined by a completed review, and no
  completed required gate is about another commit.
* `PublishesOnlyCertified`, `PublishedWasReviewed`, `DeliveredHeadCertified`:
  what is pushed, what a completed run has published, and that an uninterrupted
  one has published exactly its certified head. The last is checked without
  crashes: a recovered run can break it (`repaired_head`).
* `RowsConsistent`: a parked run is always one that recovery accepts, and the
  loop meets no row it cannot dispatch. `AutoFixBudget`: restarts and recoveries
  refill no budget. `GateSlotFree`: a ruling is only put into an empty slot.
* `FindingsSafe`: what was shown stays, under its id and no weaker, until it is
  handed to a fixer. A finding of the source that was handed to one and is
  claimed again by the next report is there again, no weaker; its id may by then
  be another one's (`Displaced`), and when the fixer's change of existing tests
  was rejected a question under that id may stand in its place. Nothing
  actionable passes by itself, nor anything asked unless two findings shared an
  id.
* `ConfigTrusted`: what gates, serves or bills a run is the default branch of a
  registered remote at a moment of this very start, and every rule it states
  is in force.
* `PublicationSafe`: a description fits its provider, keeps the attestation,
  shows the latest update first, and is the one the run recorded.
* `CorpusSafe`: registry, refs and directories agree; no evaluated case is
  pruned; a confirmed miss stays.
* `StreamSafe`: whatever a connected TUI does not show, a frame that its
  revision guard lets through, a gap, a read or the end of the stream is on its
  way to make it show. `ReadsNeverRegress`: no read moves the screen backwards,
  unless it was answered by a daemon that has gone since.
* `SlopSafe`: the history of a lane is heeded, a pass is earned by every check
  of its tier, a verdict told is on record, and the rules agree with what
  they are for on small changes.
* `RulingsSettle`, `YesIsBounded`: a ruling takes effect once, on the round it
  was accepted for; `--yes` stays in its budget and passes no finding.
* `CISafe`, `GreenIsEarned`: reruns, repairs and readiness; a head is green only
  on its own attestation and with every rerun answered.
* `LeftoversReaped`, `OthersSpared`: what a sample showed is found after a
  crash; nobody else is killed.
* `DaemonSafe`, `RunsOwned`, `OnlyAbandonedOverlap`, `SlotsSafe`: one daemon
  reachable through its files; rows, worktrees and leases have owners; two runs
  of a branch overlap only when a cancelled one did not stop in time; slots
  match holders and no waiter sleeps beside a free one.
* `HostSafe`: nothing that recovery, rebase, fix or push moves on a branch loses
  a commit that is wanted (`SyncSafe`, `DeliverySafe`); what the screen offers is
  about the round on show (`ScreenSafe`); the answer found is the one meant
  (`AnswerAsMeant`). `CustodyIsEarned`, `PushKeepsUnseen`: when custody
  returns, and what a force push may drop.
* `LanesSafe`, `MarksMove`: seats are accounted for, an outage outlives the
  success of an older turn, and probes keep their distance unless an outage read
  before them is written late.
* `GateSafe`, `UserHookKept`: a checkout keeps the gate that was made for it,
  no push gets past admission, no refresh loses a user's hook.
* `TurnsSafe`: a session is resumed by the adapter that minted it, given up only
  for a fresh one, not kept once its resume failed, and each of its tokens is
  charged once.
* `WizardSafe`: one command at a time, the default branch spared, its report
  true, and success only with the work in the gate and its run seen.
* `CancelledRunEnds`, `MergedGateCloses`, `EndIsNoticed`, `CallersAreAnswered`,
  `WaitersReturn`: liveness.

Larger instances were checked while the invariants of the proofs were found:
`BranchSync` with more runs and moves (9.6 million states), `Delivery` with three
fixes (2.1 million), `CIMonitor` with two reruns (3.1 million), `ProcTrees` with
two commands (1.5 million), `DaemonControl` with three processes.

### Disagreements between code and documentation

Five runs exhibit a behaviour that a comment or a document excludes; `findings`
in `PROJECT.json` quotes the lines.

* `repaired_head`: `Resume` completes an approved gate without
  `restartAfterStep`. A CI gate parked after a committed repair and approved
  after a crash lets the run complete with a head nobody reviewed or pushed.
* `stuck_drive`: a daemon that dies between storing a ruling and acting on it
  reopens a gate that the drive loop takes for one it has answered; it waits
  for ever.
* `lease`: the tracking ref that anchors the lease of a force push is shared by
  the runs of a gate, so what an earlier run fetched and never rebased onto is
  pushed over.
* `reclone`: the failing init of a checkout cloned to the path where a relocated
  one used to be removes the gate the relocated one still uses.
* `asked`: two findings of one report may take the id of the same earlier
  finding; an automatic fix of the one removes the other, an ask-user one, and
  the review passes without a gate (needs `auto_fix.review` above its default 0).

## 4. Fairness

`Pipeline` assumes weak fairness of the executor goroutine as a whole: Go
schedules it, git, agents and the provider return once their context is
cancelled, and the reconciliation timer of a gate fires again and again.
`Capacity` assumes weak fairness of the steps of each worker. `EventStream`
assumes weak fairness of each goroutine (announcement, streaming, request
handling) and of the message kinds of the TUI's loop, which takes every message.
`DaemonControl` assumes that a command that has begun goes on and that systemd
kills at its timeout; `RunManager` that a handler goes on, and strong fairness of
taking a branch lock, since Go's mutex admits a waiter that starves
(`sync.Mutex`, starvation mode). `GateDrive` (violation run) assumes the executor,
the daemon and the loop go on, and strong fairness of a read that succeeds while
a daemon serves. Nothing is assumed of people, agents, the forge or crashes, and
faults are bounded.

## 5. Proofs

Eight modules hold theorems; `PROJECT.json` lists those to know. TLAPS checks
them with Z3, Zenon and LS4 from the assumptions named in the modules they
extend (bounds are natural numbers, sets of workers finite, `AutoFixLimit` a
function to naturals, the sets of configurations well formed, files with their
fields) and from nothing
else. Each safety proof has the same shape: an inductive invariant, one lemma
per action that keeps it, the theorem that it always holds, and the properties
that follow. TLC checked each inductive invariant on an instance first.

| Theorems | Inductive invariant and why it is needed |
|---|---|
| `PipelineProofs`: `TypeCorrect`, `AuthorityHolds` (`AuthorityCoversGates`), `RowsAreConsistent`, `DispatchIsClean`, `GateIsRecoverable`, `SlotIsFree` (`GateSlotFree`), `BudgetHolds` (`AutoFixBudget`), `SkipsAreFinal`, `PushIsCertified` (`PublishesOnlyCertified`) | `IInv`: where the executor stands (`Position`: steps before it settled, those after it pending or skipped, its own row as its place says), what memory and row agree on (`Candidate`), the response slot, the budget and the awaiting mark. None of the properties is inductive without `Position`: that a gate is recoverable or that no later gate vouches for another head depends on where the executor is |
| `PublishedIsReviewed`, `DeliveryIsCertified` | `DeliveryInv`, above `IInv`: which heads were reviewed or made by a certified step, who granted the head that is moved, what a push may carry. `DeliveryIsCertified` is for runs no crash interrupted: `repaired_head` shows why |
| `PipelineKeepsPromise` (`KeepsPromise`), `RemoteDescends` | the refinement of `ReviewedPush`, step by step, and what the abstract protocol then says of the remote |
| `PipelineProofs`: `ConfigIsTrusted` (`ConfigTrusted`) | `ConfigInv`: the ref a pin is read from belongs to all runs, so that a pin is fresh is not inductive; a start that has not pinned counts as live every tip that it or another may fetch (`SeesTips`), so whoever moves the ref leaves something live in it. What a launched run obeys was decided by the files of its pin (`Governed`), commits stay, and a plan is tied to the files it read (`Foretold`) |
| `RunManagerProofs`: `CapacitySafe` (`SlotsSafe`), `CapacityDrains`, `CapacityIsAPool` (`AdmitsAsPool`) | `SlotsSafe` is itself inductive; the refinement maps the counters to the abstract pool's |
| `RunManagerProofs`: `RunsAreOwned`, `OverlapIsAbandoned` | `RunsInv`: who holds the branch lock, which executions are registered, what their rows say and which worktrees they own |
| `ClientsProofs`: `RulingsAreSettled`, `YesStaysBounded` | `DriveInv`: what each client read, which rulings wait, were taken or answered, and what the step has become since |
| `ClientsProofs`: `MonitorIsSafe` (`CISafe`), `GreenIsAlwaysEarned` | `MonitorInv`: counters in row and step agree, readiness follows the last poll, an owed rerun is on record in the row and in a step that runs |
| `LeftoversProofs`: `LeftoversAreReaped`, `OthersAreSpared` | `TreesInv` (every sampled live process is in an entry, a teardown, a record or lost for a known reason) and `ServersInv` (every running server is held, filed or excused) |
| `LanesProofs`: `LanesAreSafe`, `MarksMoveSoundly` | `LanesInv`: an invocation's place in its chain and the outages it met, whose each seat is, how a mark relates to the last probe through it |
| `LanesProofs`: `TurnsAreSafe` (`TurnsSafe`) | `TurnsInv`: a session asked for is the one in memory until it is given up; a name heard is that session or a fresh one of the adapter asked; a thread's counter lies between its latest row and what it has used, and the messages of the others add up to no more than was used |
| `LanesProofs`: `ScreenIsSafe` (`ScreenSafe`, a part of `HostSafe`) | `ScreenInv`: what the step rows of the run were at each revision (`Past`), so that the frames on their way or the read in flight lead from the rows shown to the run's (`Followable`); diffs held or on their way are no older than the round shown (`DiffsCurrent`), notes are of that round (`Noted`), and a missing diff is asked for unless a read or a retry is due (`DiffsAsked`). That one answer suffices needs that a run has one gate at a time, which `Past` says of whatever is shown |
| `DaemonProofs`: `DaemonIsSafe` (`DaemonSafe`), `DaemonIsAlone` | `DaemonInv`: one command and one process at a time, files that name it, what each place of a start, stop or restart may rely on |
| `HostProofs`: `TakenPushesStay`, `PushesKeepUnseen` (`PushKeepsUnseen`) | `HeadsInv`, `LeaseInv`, `KeepsInv`: where the recorded head lies with respect to the gate's ref and which lease a push may have |
| `HostProofs`: `GateIsSafe` (`GateSafe`), `HooksOutlive` (`UserHookKept`) | `RepoInv`: a path stands in one record (`OneRecord`), what a command under way has come to own (`Underway`), a settled checkout is there (`Settled`), the hooks of every gate the daemon has seen to are in order or both the user's (`Hooked`), and admission stands while it serves (`Admitted`) |
| `TerminalProofs`: `WizardIsSafe` (`WizardSafe`) | `WizardInv`: the steps before the active one are settled (`InOrder`), which command or report may be in flight and what it was asked for (`InFlight`, `Awaited`), what each place of a step knows of checkout, work and gate (`Checkout`, `Work`, `InGate`), and what the result claims (`Claims`, `Told`) |
| `TerminalProofs`: `StreamIsSafe` (`StreamSafe`), `ReadsGoForward` (`ReadsNeverRegress`) | `StreamInv`: folding the frames that are due and the read in flight into what each row shows leads to what the database holds; revisions rise within the life of one daemon and nothing is ahead of it (`Ordered`, `Behind`); a TUI whose calls are dead asks again (`DeadAsks`) |

Proofs found errors of the model that no run had shown, because they need more
than an instance holds: `RearmPre` preserved a copy before it disarmed the
managed hook (the code disarms first), and the history that `GreenIsEarned`
reads counted an attempt too few at two reruns. Both were put right against the
source. `ReadsNeverRegress`, as first stated, held only up to the two faults of
its run: an answer of a daemon that has gone, taken after the next daemon's
first frame, moves the screen back. The code allows that, so the property now
excepts it.

`DispatchIsClean`, `GateIsRecoverable`, `SkipsAreFinal`, `CapacityDrains`,
`DaemonIsAlone`, `ScreenIsSafe`, `TakenPushesStay` and `RemoteDescends` state
properties that no run lists by themselves; they are parts of a compound one, or of larger
reach.

Only model-checked:

* liveness and the use of fairness (outside the provers' fragment);
* `AnswerAsMeant`, `SlopSafe` (`RulesSound`) and the convergence and merging of
  findings: recursive functions over texts and sequences, whose value for every
  input needs induction over data;
* `FixesStayRanged` in `DeliverySafe`: after a rebase the range is remapped by
  counting along a filtered sequence, which needs the same induction;
* `FindingsSafe`, `PublicationSafe`, `CorpusSafe`, `CustodyIsEarned` and the rest of `HostSafe`: safety for which no proof has
  been written.

## 6. What reading and checking showed beside

Behaviour met while modelling that no document excludes, or that is excluded
loosely; the models contain it.

* Pipeline: pre-skipped steps run after a recovery (the skip set is in memory
  only); a run finalized as completed because its pull request merged may be
  overwritten as failed. `DeliveredHeadCertified` does not hold after crashes.
* Findings: ambiguous prior findings are appended again in every round whose
  test changes are rejected. The report of such a round loses what has the id
  of a handed finding and is normalized a second time, so what remains of it is
  matched again by its text alone: a finding claimed again may have a new
  lineage, and only the question keeps the gate closed. A finding that lost its
  id to another one can be given the id of a third (`<step>-<n>` counts from one
  in every round). The model's thresholds are smaller than the
  defaults (5 rounds, 3 recurrences, 120 minutes); evidence, risk, wording and
  the time budget are left out; the similarity of descriptions is equality.
* Terminal: yolo does not act on a gate first seen in a snapshot; a failed yolo
  ruling is not retried; added findings are listed twice; after a rerun a late
  sync answer may open a dialog that cannot apply. A reconnected TUI reads on
  the connection of the dead daemon. Revisions start over with a new daemon, and
  a read is not marked with the one that answered it: a retry pressed while the
  TUI reconnects, answered just before a restart and taken after the new
  daemon's first frame, shows the older state until the next one.
* Run manager: a launch after `Shutdown` has copied the cancels runs on; a
  worktree leaks when `CopyLocalUserIdentity` fails. Daemon: with overlapping
  commands a stop may return while a process still holds the lock, and a start's
  clean-up may remove the socket of a daemon that came up meanwhile. A start whose installation of the
  unit failed cleans up before it starts a daemon of its own (`InstallFails`):
  when systemd restarts the unit between, the pid file of that daemon goes with
  it. `crowd` records it, and `ServingIsReachable` excepts it.
* Delivery, synchronisation: an equivalent advance does `git reset --hard` after
  separate checks; a push of an ancestor of the gate's head is undone by the
  adoption at the end of a run; a death between range and ref leaves a range
  that names a commit the gate does not hold; a death between `adoptBranchRef`
  and `UpdateRunHeadSHA` blocks `recover --keep-local`.
* Gate: an interrupted init over a copied checkout leaves two remotes that name
  different gates, and every later init refuses.
* Lanes: an outage is read before the wait for the lock and replaces the lane's
  row whatever that says by then (`MarkLane`; `agent/lanehealth.go:218`,
  `lanehealth/store.go:60-68`). A probe claimed meanwhile is forgotten with the
  row, so that the next one comes before its interval is over, though
  `agent/lanehealth.go:125` lets through one invocation an interval; an outage
  whose reset came during the wait drops a fresher mark. `MarksMove` excepts
  exactly these (`claims` forgets what the file forgot). A lease is not renewed; a lease without an account home is not classed
  as unavailable; a failed release turns a successful turn into an error.
* Agents: a failed resumed codex attempt is recorded with its session and no
  tokens, so that the retry's delta is the whole cumulative count (hence the
  exception `blank` in `UsageAccounted`); a session row that could not be
  written or deleted is not tried again, and a row that stayed resumes the dead
  session once more (`sticky`); a block opened and closed on one line, which
  `Blocks` has not, flips what the search takes for inside and outside of a
  fence; an earlier bare draft is taken when the last fenced answer is cut off
  (`AnswerAsMeant` counts it as meant).
* Servers and trees: a run resumed after a recovery ends without the sweep of
  its worktree's processes that other runs have (`ResumedRunEnds`). A server whose kill failed stays until the next start; one
  whose owner died between its start and its file is never found; a group kill
  does not verify start times again. Assumed: no pid is reused during a single
  teardown or sweep, one sampler.
* CI: the memory of the rollup reaches the row when a rerun is retired or
  reserved, not at every poll (`Persisted`). A failed write of readiness is not retried; a run that timed out while
  ready stays so until the next poll. Assumed: the attestation check is
  configured, and a push starts one attempt of every check.
* PR: the clamp for Azure DevOps keeps the oldest updates; an unparsable listing
  counts as no pull request.
* Configuration: alias files are compared after a merge with an empty global
  file; `axi plan` does not check the opt-out; a recovery fetches the gate's
  inherited origin, a start the registered one. A fetch is one step.
* Slop: every command that got to a decision appends a record, refused and
  failed ones too, so repeating washes an escalation out of the window of ten;
  a torn line makes the history unreadable for good.
* Corpus: `incrementQueuedFindings` and `IngestPostPRMiss` overwrite labels that
  `reference/eval.md` says are never overwritten. Assumed: a live replay
  refreshes its lease in time.
* Wizard: a name typed with a "q" quits; q in the first command quits without
  the second press though git may have created the branch; a failed set-up of
  the agent sticks; a run that ends between two polls counts as never
  registered.

## 7. Not modelled

Intent extraction, prompts, the agents' HTTP protocols (opencode, rovodev) and
tool metrics, the forge clients' commands and JSON, the text heuristics of the
slop engine, evidence publication, views, transports and peer credentials,
telemetry, skills, and self update (disabled in this build): parsing, text and
I/O without state that the properties above depend on. launchd and scheduled
tasks (systemd is modelled), Windows jobs, database errors other than those
named, disk exhaustion and clock jumps are not modelled either. Every row of
`components` in `PROJECT.json` says what of it is left out.

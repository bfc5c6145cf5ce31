------------------------------- MODULE Wizard -------------------------------
(***************************************************************************)
(* The setup wizard (internal/wizard) as bare `no-slop` runs it            *)
(* (internal/cli attach.go, wizard.go): branch, commit, push, and the wait *)
(* for the run that the push's hook should have started.  Keys, the        *)
(* messages that press Enter by themselves, and the answers of commands in *)
(* flight reach Update in any order; a command whose wizard has quit may   *)
(* still take effect.                                                      *)
(*                                                                         *)
(* The uncommitted work is one change that is in the tree, or on the       *)
(* branches that hold its commit.  Somebody else may move the checkout or  *)
(* commit the work once meanwhile.                                         *)
(***************************************************************************)
EXTENDS Integers, Sequences, FiniteSets, SequencesExt

CONSTANTS
    Default,    \* the default branch
    Topic,      \* a feature branch that exists,
    Fresh,      \* and a name that is free
    Detached,   \* HEAD is on no branch
    NoName      \* nothing typed, nothing cached

ASSUME WizardAssumption == Cardinality({Default, Topic, Fresh, Detached, NoName}) = 5

Branches == {Default, Topic, Fresh}
StepIds == <<"branch", "commit", "push">>

VARIABLES
    mode,     \* "keys", "auto" (-y in a terminal) or "headless" (-y without one)
    attach,   \* attachRun: [at, run]
    wiz,      \* the wizard's Model
    jobs,     \* its commands in flight, with their answer when they have one
    advances, \* autoAdvanceMsgs under way
    suggests, \* the suggester: [agent, cached]
    repo,     \* the checkout: [head, branches, dirty, work, moved, began]
    gate,     \* what the gate has of a branch: "absent", "base" or "work"
    started   \* the runs of a branch: "none", "pending", "active" or "over"

worldVars == <<repo, gate, started>>
wizardVars == <<mode, attach, wiz, jobs, advances, suggests, worldVars>>

-----------------------------------------------------------------------------
(* The Model.                                                              *)

needsBranch == repo.head \in {Detached, Default}

NewModel ==
    [steps |-> [s \in ToSet(StepIds) |->
        CASE s = "branch" /\ ~needsBranch -> "skipped"
          [] s = "commit" /\ ~repo.dirty -> "skipped"
          [] OTHER -> "pending"],
     typed |-> NoName, value |-> NoName, target |-> repo.head,
     branchCreated |-> FALSE, commitMade |-> FALSE, pushed |-> FALSE,
     confirmQuit |-> FALSE, failed |-> FALSE, quitting |-> FALSE, success |-> FALSE, aborted |-> FALSE,
     waiting |-> FALSE, waitStarted |-> FALSE]

\* firstPending: the step being worked on, or "none" when all are over.
activeStep(m) ==
    LET open == {i \in DOMAIN StepIds : m.steps[StepIds[i]] \notin {"done", "skipped"}}
    IN IF open = {} THEN "none" ELSE StepIds[CHOOSE i \in open : \A j \in open : i <= j]

hasSideEffects(m) == m.branchCreated \/ m.commitMade

\* Mutant: a push is enough, whatever became of the wait for its run.
setupActivePushed(m) ==
    LET s == activeStep(m)
    IN IF s = "none"
       THEN IF mode # "headless" /\ m.pushed /\ ~m.waitStarted
            THEN [m EXCEPT !.waiting = TRUE, !.waitStarted = TRUE]
            ELSE [m EXCEPT !.success = m.pushed, !.quitting = TRUE]
       ELSE [m EXCEPT !.steps[s] = IF s = "push" THEN "confirm" ELSE "input",
                      !.typed = IF s = "push" THEN @ ELSE NoName]

\* setupActive: without a step left comes the wait for the run, once, and then the
\* end.  RunAuto does not wait: its caller does.
setupActive(m) ==
    LET s == activeStep(m)
    IN IF s = "none"
       THEN IF mode # "headless" /\ m.pushed /\ ~m.waitStarted
            THEN [m EXCEPT !.waiting = TRUE, !.waitStarted = TRUE]
            ELSE [m EXCEPT !.success = m.pushed /\ ~m.failed, !.quitting = TRUE]
       ELSE [m EXCEPT !.steps[s] = IF s = "push" THEN "confirm" ELSE "input",
                      !.typed = IF s = "push" THEN @ ELSE NoName]

\* What is asked of whom: an agent for a text, git for an action, the daemon for the run.
Job(kind, step, value) == [kind |-> kind, step |-> step, value |-> value, answer |-> "none"]

executed(m, s, value) == [m EXCEPT !.steps[s] = "running", !.value = value]
Action(m, s, value) == Job("act", s, IF s = "push" THEN m.target ELSE value)

Becomes(m, work) == wiz' = m /\ jobs' = work /\ UNCHANGED advances

executeStep(m, s, value, others) == Becomes(executed(m, s, value), Append(others, Action(m, s, value)))
Suggest(m, s, others) == Becomes([m EXCEPT !.steps[s] = "agent"], Append(others, Job("suggest", s, NoName)))

Quits(m, others) == Becomes([m EXCEPT !.quitting = TRUE], others)
Aborts(m) == Quits([m EXCEPT !.aborted = TRUE], jobs)

\* RunAuto, to its next call: an agent's text for branch and commit, then the push.
RunAuto(m, others) ==
    LET s == activeStep(m)
    IN IF s = "push" THEN executeStep(m, s, NoName, others) ELSE Suggest(m, s, others)

\* setupActive and afterEnterCmd, or the next statement of RunAuto.
Enters(before, others) ==
    LET m == setupActive(before)
    IN IF m.waiting THEN Becomes(m, Append(others, Job("wait", "none", m.target)))
       ELSE IF m.quitting \/ mode = "keys" THEN Becomes(m, others)
       ELSE IF mode = "headless" THEN RunAuto(m, others)
       ELSE wiz' = m /\ jobs' = others /\ advances' = advances + 1

-----------------------------------------------------------------------------
(* Update: keys.                                                           *)

Running == attach.at = "wizard" /\ ~wiz.quitting
Listens == Running /\ mode # "headless"
Status == wiz.steps[activeStep(wiz)]
InState(s) == activeStep(wiz) # "none" /\ Status = s
Rest == UNCHANGED <<mode, attach, suggests, worldVars>>
Heard == [wiz EXCEPT !.confirmQuit = FALSE]

PressQ ==
    /\ Listens
    /\ IF activeStep(wiz) = "none" THEN Quits(wiz, jobs)
       ELSE IF hasSideEffects(wiz) /\ ~wiz.confirmQuit THEN Becomes([wiz EXCEPT !.confirmQuit = TRUE], jobs)
       ELSE Aborts(wiz)
    /\ Rest

PressCtrlC == Listens /\ (IF activeStep(wiz) = "none" THEN Quits(wiz, jobs) ELSE Aborts(wiz)) /\ Rest

\* A key without a meaning here clears the question whether to quit.
OtherKey == Listens /\ wiz.confirmQuit /\ Becomes(Heard, jobs) /\ Rest

Type(name) ==
    /\ Listens /\ InState("input")
    /\ Becomes([Heard EXCEPT !.typed = name], jobs) /\ Rest

\* handleInputKey: an empty line asks the agent.
Enter ==
    IF wiz.typed = NoName THEN Suggest(Heard, activeStep(wiz), jobs)
    ELSE executeStep(Heard, activeStep(wiz), wiz.typed, jobs)

PressEnter == Listens /\ InState("input") /\ Enter /\ Rest

PressYes == Listens /\ InState("confirm") /\ executeStep(Heard, "push", NoName, jobs) /\ Rest
PressNo == Listens /\ InState("confirm") /\ Aborts(Heard) /\ Rest

\* handleFailedKey.
PressRetry ==
    /\ Listens /\ InState("failed")
    /\ Enters([Heard EXCEPT !.steps[activeStep(wiz)] = "pending"], jobs) /\ Rest

\* handleAutoAdvance: one that comes when the step does not wait for it is dropped.
AutoAdvance ==
    /\ Listens /\ advances > 0 /\ advances' = advances - 1
    /\ LET s == activeStep(wiz)
       IN CASE InState("confirm") ->
                   wiz' = executed(wiz, s, NoName) /\ jobs' = Append(jobs, Action(wiz, s, NoName))
            [] InState("input") /\ wiz.typed = NoName ->
                   wiz' = [Heard EXCEPT !.steps[s] = "agent"] /\ jobs' = Append(jobs, Job("suggest", s, NoName))
            [] InState("input") /\ wiz.typed # NoName ->
                   wiz' = executed(Heard, s, wiz.typed) /\ jobs' = Append(jobs, Action(Heard, s, wiz.typed))
            [] OTHER -> UNCHANGED <<wiz, jobs>>
    /\ Rest

-----------------------------------------------------------------------------
(* Update: answers.                                                        *)

Others(i) == RemoveAt(jobs, i)
Answered(i, kind) == i \in DOMAIN jobs /\ jobs[i].kind = kind /\ jobs[i].answer # "none"

\* The first error of an unattended wizard ends it.
Gives(m, s, others) == Quits([m EXCEPT !.steps[s] = "failed", !.failed = TRUE], others)

handleSuggestion(i) ==
    /\ Running /\ Answered(i, "suggest")
    /\ LET s == jobs[i].step
       IN IF activeStep(wiz) # s THEN Becomes(wiz, Others(i))
          ELSE IF jobs[i].answer = "ok" THEN executeStep(wiz, s, jobs[i].value, Others(i))
          ELSE IF mode # "keys" THEN Gives(wiz, s, Others(i))
          ELSE Becomes([wiz EXCEPT !.steps[s] = "input", !.typed = NoName], Others(i))
    /\ Rest

handleAction(i) ==
    /\ Running /\ Answered(i, "act")
    /\ LET s == jobs[i].step
       IN IF activeStep(wiz) # s THEN Becomes(wiz, Others(i))
          ELSE IF jobs[i].answer = "ok"
          THEN Enters([wiz EXCEPT !.steps[s] = "done",
                                  !.target = IF s = "branch" THEN wiz.value ELSE @,
                                  !.branchCreated = @ \/ s = "branch", !.commitMade = @ \/ s = "commit",
                                  !.pushed = @ \/ s = "push"], Others(i))
          ELSE IF mode # "keys" THEN Gives(wiz, s, Others(i))
          ELSE Becomes([wiz EXCEPT !.steps[s] = "failed"], Others(i))
    /\ Rest

handleWait(i) ==
    /\ Running /\ Answered(i, "wait")
    /\ Enters([wiz EXCEPT !.waiting = FALSE, !.failed = jobs[i].answer # "ok"], Others(i))
    /\ Rest

-----------------------------------------------------------------------------
(* The commands themselves.  One whose wizard has quit is cancelled: it may *)
(* be killed before or after it took effect, and nobody hears of it.       *)

Open(i, kind) == i \in DOMAIN jobs /\ jobs[i].kind = kind /\ jobs[i].answer = "none"
Answers(i, answer, value) ==
    /\ jobs' = [jobs EXCEPT ![i].answer = answer, ![i].value = value]
    /\ UNCHANGED <<mode, attach, wiz, advances>>

\* wizardAgentSuggester: the agent is set up once, for good or bad; a suggested
\* branch brings a commit subject along, which the commit step uses up first.
SuggestAnswers(i) ==
    /\ Open(i, "suggest") /\ ~wiz.quitting /\ UNCHANGED worldVars
    /\ LET Agent(cached) == [agent |-> "set", cached |-> cached]
       IN IF jobs[i].step = "commit" /\ suggests.cached # NoName
          THEN suggests' = Agent(NoName) /\ Answers(i, "ok", suggests.cached)
          ELSE \/ suggests.agent # "set" /\ suggests' = [suggests EXCEPT !.agent = "unusable"] /\ Answers(i, "err", NoName)
               \/ /\ suggests.agent # "unusable"
                  /\ \/ suggests' = Agent(NoName) /\ Answers(i, "err", NoName)
                     \/ /\ jobs[i].step = "branch"
                        /\ \E name \in {Topic, Fresh}, subject \in {NoName, Fresh} :
                               suggests' = Agent(subject) /\ Answers(i, "ok", name)
                     \/ jobs[i].step = "commit" /\ suggests' = Agent(NoName) /\ Answers(i, "ok", Fresh)

\* git.CreateBranch, git.CommitAll and git.PushWithOptions may fail; only a push
\* that fails may have had its effect.  A push that moves nothing starts no run.
CreateBranch(i) ==
    /\ Open(i, "act") /\ jobs[i].step = "branch" /\ UNCHANGED <<suggests, gate, started>>
    /\ \/ /\ jobs[i].value \notin repo.branches
          /\ repo' = [repo EXCEPT !.head = jobs[i].value, !.branches = @ \cup {jobs[i].value},
                                  !.work = @ \cup (IF repo.head \in @ THEN {jobs[i].value} ELSE {})]
          /\ Answers(i, "ok", jobs[i].value)
       \/ UNCHANGED repo /\ Answers(i, "err", jobs[i].value)

CommitAll(i) ==
    /\ Open(i, "act") /\ jobs[i].step = "commit" /\ UNCHANGED <<suggests, gate, started>>
    /\ \/ repo.dirty /\ repo' = [repo EXCEPT !.dirty = FALSE, !.work = @ \cup {repo.head}]
                     /\ Answers(i, "ok", jobs[i].value)
       \/ UNCHANGED repo /\ Answers(i, "err", jobs[i].value)

PushGate(i) ==
    /\ Open(i, "act") /\ jobs[i].step = "push" /\ UNCHANGED <<suggests, repo>>
    /\ LET b == jobs[i].value
           tip == IF b \in repo.work THEN "work" ELSE "base"
       IN \/ /\ b \in repo.branches
             /\ gate' = [gate EXCEPT ![b] = tip]
             /\ \/ gate[b] # tip /\ started' = [started EXCEPT ![b] = "pending"]
                \/ UNCHANGED started   \* nothing moved, or the hook did not fire
             /\ \E answer \in {"ok", "err"} : Answers(i, answer, b)
          \/ UNCHANGED <<gate, started>> /\ Answers(i, "err", b)

\* waitForActiveRun: a poll that sees an active run, or the limit of five seconds.
WaitAnswers(i) ==
    /\ Open(i, "wait") /\ ~wiz.quitting /\ UNCHANGED <<suggests, worldVars>>
    /\ \/ started[jobs[i].value] = "active" /\ Answers(i, "ok", jobs[i].value)
       \/ Answers(i, "err", jobs[i].value)

\* Cancelled before it took effect.
Killed(i) == i \in DOMAIN jobs /\ wiz.quitting /\ Becomes(wiz, Others(i)) /\ Rest

-----------------------------------------------------------------------------
(* attachRun, and the world.                                               *)

\* An active run of the branch is attached to; a detached HEAD has none.
AttachRun ==
    /\ attach.at = "start"
    /\ IF repo.head # Detached /\ started[repo.head] = "active"
       THEN attach' = [at |-> "attached", run |-> repo.head] /\ UNCHANGED <<wiz, jobs, advances>>
       ELSE attach' = [attach EXCEPT !.at = "wizard"] /\ Enters(NewModel, <<>>)
    /\ UNCHANGED <<mode, suggests, worldVars>>

WizardReturns ==
    /\ attach.at = "wizard" /\ wiz.quitting
    /\ attach' = [attach EXCEPT !.at = IF wiz.failed THEN "error" ELSE IF wiz.success THEN "await" ELSE "nothing"]
    /\ UNCHANGED <<mode, wiz, jobs, advances, suggests, worldVars>>

\* The second look for the run: none is an error for -y only.
AwaitRun ==
    /\ attach.at = "await"
    /\ attach' = IF started[wiz.target] = "active" THEN [at |-> "attached", run |-> wiz.target]
                 ELSE [attach EXCEPT !.at = IF mode = "keys" THEN "nothing" ELSE "error"]
    /\ UNCHANGED <<mode, wiz, jobs, advances, suggests, worldVars>>

\* The caller's context ends: Run returns its error.
CallerCancels ==
    /\ Running
    /\ attach' = [attach EXCEPT !.at = "error"] /\ Quits(wiz, jobs)
    /\ UNCHANGED <<mode, suggests, worldVars>>

\* Bound: the world stands still when the command is over.
Watched == attach.at \in {"start", "wizard", "await"}

RunMoves(b) ==
    /\ Watched
    /\ \/ started[b] = "pending" /\ started' = [started EXCEPT ![b] = "active"]
       \/ started[b] = "active" /\ started' = [started EXCEPT ![b] = "over"]
    /\ UNCHANGED <<mode, attach, wiz, jobs, advances, suggests, repo, gate>>

SomebodyElse ==
    /\ Running /\ ~repo.moved
    /\ \/ \E b \in repo.branches \ {repo.head} : repo' = [repo EXCEPT !.moved = TRUE, !.head = b]
       \/ repo.dirty /\ repo' = [repo EXCEPT !.moved = TRUE, !.dirty = FALSE, !.work = {repo.head}]
    /\ UNCHANGED <<mode, attach, wiz, jobs, advances, suggests, gate, started>>

\* The command is over.
WizardOver == attach.at \in {"attached", "nothing", "error"} /\ UNCHANGED wizardVars

WizardInit ==
    /\ mode \in {"keys", "auto", "headless"}
    /\ \E head \in {Default, Topic, Detached}, dirty \in BOOLEAN :
           repo = [head |-> head, branches |-> {Default, Topic}, dirty |-> dirty,
                   work |-> {}, moved |-> FALSE, began |-> dirty]
    /\ gate = [b \in Branches |-> "absent"]
    /\ \E old \in {"none", "active"} :
           /\ started = [b \in Branches |-> IF b = Topic THEN old ELSE "none"]
           /\ old = "active" => repo.head = Topic
    /\ attach = [at |-> "start", run |-> NoName]
    /\ wiz = NewModel /\ jobs = <<>> /\ advances = 0
    /\ suggests = [agent |-> "unknown", cached |-> NoName]

Command(i) ==
    \/ SuggestAnswers(i) \/ CreateBranch(i) \/ CommitAll(i) \/ PushGate(i) \/ WaitAnswers(i) \/ Killed(i)
    \/ handleSuggestion(i) \/ handleAction(i) \/ handleWait(i)

WizardNext ==
    \/ AttachRun \/ WizardReturns \/ AwaitRun \/ CallerCancels
    \/ PressQ \/ PressCtrlC \/ OtherKey \/ PressEnter \/ PressYes \/ PressNo \/ PressRetry \/ AutoAdvance
    \/ \E name \in {Topic, Fresh} : Type(name)
    \/ \E i \in DOMAIN jobs : Command(i)
    \/ \E b \in Branches : RunMoves(b)
    \/ SomebodyElse \/ WizardOver

WizardSpec == WizardInit /\ [][WizardNext]_wizardVars

-----------------------------------------------------------------------------
(* Properties.                                                             *)

WizardTypeOK ==
    /\ attach.at \in {"start", "wizard", "await", "attached", "nothing", "error"}
    /\ \A s \in ToSet(StepIds) :
           wiz.steps[s] \in {"pending", "input", "agent", "confirm", "running", "done", "skipped", "failed"}
    /\ advances \in 0..Len(StepIds) /\ gate \in [Branches -> {"absent", "base", "work"}]

\* wizard.go, Update: however keys, automatic ones and answers interleave, exactly
\* the command that the active step shows is in flight, and a wizard that waits for
\* nobody's key will be woken.
OneThingAtATime == Running =>
    /\ Len(jobs) = IF wiz.waiting \/ InState("agent") \/ InState("running") THEN 1 ELSE 0
    /\ \A i \in DOMAIN jobs : jobs[i].step = activeStep(wiz)
    /\ ~wiz.waiting => activeStep(wiz) # "none" /\ Status # "pending"
    /\ mode # "keys" => Len(jobs) + advances > 0

\* wizard.go, NewModel: the default branch gets no commit and no push, unless
\* somebody put the checkout back on it.
DefaultIsSpared == gate[Default] = "absent" /\ (~repo.moved => Default \notin repo.work)

\* wizard.go, Result: what it claims was done, and what was done beyond its claims
\* is at most the one command it was quit in.
ResultIsTrue ==
    /\ wiz.branchCreated => wiz.target \in repo.branches \ {Default, Topic}
    /\ wiz.commitMade => ~repo.dirty
    /\ wiz.pushed => gate[wiz.target] # "absent"
    /\ Cardinality({x \in {
           <<"branch", Fresh \in repo.branches /\ ~wiz.branchCreated>>,
           <<"commit", repo.began /\ ~repo.dirty /\ ~repo.moved /\ ~wiz.commitMade>>,
           <<"push", (\E b \in Branches : gate[b] # "absent") /\ ~wiz.pushed>>} : x[2]}) <= 1

\* wizard.go, Result: success means that the work it found is in the gate, on the
\* branch it names, and that its run has been seen (the headless caller looks itself).
SuccessIsDelivered == wiz.success =>
    /\ wiz.pushed /\ wiz.target # Default
    /\ repo.began /\ ~repo.moved => gate[wiz.target] = "work"
    /\ mode # "headless" \/ attach.at = "attached" => started[wiz.target] \in {"active", "over"}

\* The wizard does one thing at a time, and what it says it did.
WizardSafe == WizardTypeOK /\ OneThingAtATime /\ DefaultIsSpared /\ ResultIsTrue /\ SuccessIsDelivered
=============================================================================

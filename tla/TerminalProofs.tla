--------------------------- MODULE TerminalProofs ---------------------------
(* Proofs about what a terminal shows and does: the setup wizard, and a run *)
(* as its screen follows it.                                                *)
EXTENDS Wizard, EventStream, FiniteSetTheorems, TLAPS

-----------------------------------------------------------------------------
(* The wizard: what its model, its checkout and its gate say of each other. *)

Names == {Default, Topic, Fresh, Detached, NoName}
StepNames == {"branch", "commit", "push"}
Entered == {NoName, Topic, Fresh}

Models ==
    [steps : [StepNames -> {"pending", "input", "agent", "confirm", "running", "done", "skipped", "failed"}],
     typed : Entered, value : Entered, target : Names,
     branchCreated : BOOLEAN, commitMade : BOOLEAN, pushed : BOOLEAN,
     confirmQuit : BOOLEAN, failed : BOOLEAN, quitting : BOOLEAN, success : BOOLEAN, aborted : BOOLEAN,
     waiting : BOOLEAN, waitStarted : BOOLEAN]

JobRecords == [kind : {"suggest", "act", "wait"}, step : StepNames \cup {"none"}, value : Names,
               answer : {"none", "ok", "err"}]

\* What each variable may hold; there is at most one command in flight.
WorldTyped ==
    /\ repo \in [head : Branches \cup {Detached}, branches : SUBSET Branches, dirty : BOOLEAN,
                 work : SUBSET (Branches \cup {Detached}), moved : BOOLEAN, began : BOOLEAN]
    /\ gate \in [Branches -> {"absent", "base", "work"}]
    /\ started \in [Branches -> {"none", "pending", "active", "over"}]

WizardTyped ==
    /\ mode \in {"keys", "auto", "headless"}
    /\ attach \in [at : {"start", "wizard", "await", "attached", "nothing", "error"}, run : Names]
    /\ wiz \in Models
    /\ jobs = <<>> \/ \E j \in JobRecords : jobs = <<j>>
    /\ advances \in Nat
    /\ suggests \in [agent : {"unknown", "set", "unusable"}, cached : {NoName, Fresh}]
    /\ WorldTyped

Over(m, s) == m.steps[s] \in {"done", "skipped"}

\* The steps go in their order: what comes after the active one has not begun.
InOrder(m) ==
    /\ m.steps["branch"] # "confirm" /\ m.steps["commit"] # "confirm"
    /\ m.steps["push"] \notin {"input", "agent", "skipped"}
    /\ ~Over(m, "branch") => m.steps["commit"] \in {"pending", "skipped"} /\ m.steps["push"] = "pending"
    /\ ~Over(m, "commit") => m.steps["push"] = "pending"

\* What the Result claims is what the steps show.
Claims(m) ==
    /\ m.branchCreated = (m.steps["branch"] = "done")
    /\ m.commitMade = (m.steps["commit"] = "done")
    /\ m.pushed = (m.steps["push"] = "done")
    /\ m.waiting => m.pushed /\ m.waitStarted /\ mode # "headless"
    /\ m.waitStarted => m.pushed
    /\ m.success => m.pushed /\ m.quitting /\ ~m.failed

\* The checkout: Topic has been there all along, Fresh is there when it was made,
\* and it is the target that is checked out, unless somebody moved it.
Checkout(m) ==
    /\ {Default, Topic} \subseteq repo.branches /\ gate[Default] = "absent"
    /\ m.steps["branch"] = "skipped" => m.target = Topic
    /\ m.steps["branch"] = "done" => m.target = Fresh /\ Fresh \in repo.branches
    /\ ~Over(m, "branch") => m.target \in {Default, Detached}
    /\ Over(m, "branch") /\ Fresh \in repo.branches => m.branchCreated
    /\ ~repo.moved /\ Over(m, "branch") => repo.head = m.target
    /\ ~repo.moved => Default \notin repo.work

\* The work: uncommitted until the commit step, then on the target.
Work(m) ==
    /\ m.steps["commit"] = "skipped" => ~repo.began
    /\ repo.began /\ ~repo.moved /\ ~Over(m, "branch") => repo.dirty
    /\ m.commitMade => ~repo.dirty
    /\ m.commitMade /\ ~repo.moved => m.target \in repo.work

\* The gate has something from the push on, and then what the checkout has.
InGate(m) ==
    /\ (\E b \in Branches : gate[b] # "absent") => Over(m, "branch") /\ Over(m, "commit")
    /\ m.pushed => gate[m.target] # "absent"
    /\ m.pushed /\ repo.began /\ ~repo.moved => gate[m.target] = "work"

\* Who is waited for, while the wizard runs.
Awaited == Running =>
    /\ activeStep(wiz) = "none" <=> wiz.waiting
    /\ wiz.waiting => jobs # <<>>
    /\ activeStep(wiz) # "none" => /\ Status \in {"input", "agent", "confirm", "running", "failed"}
                                   /\ jobs # <<>> <=> Status \in {"agent", "running"}
    /\ mode # "keys" => jobs # <<>> \/ advances > 0
    /\ mode = "headless" => jobs # <<>>
    /\ mode # "keys" => \A s \in StepNames : wiz.steps[s] # "failed"

\* The command in flight is the active step's, with the value that is on show.
InFlight == \A i \in DOMAIN jobs :
    /\ jobs[i].step = activeStep(wiz)
    /\ jobs[i].kind # "wait" => jobs[i].step # "none" /\ ~wiz.waiting
    /\ jobs[i].kind = "suggest" => /\ wiz.steps[jobs[i].step] = "agent"
                                   /\ jobs[i].answer = "ok" => jobs[i].value \in {Topic, Fresh}
    /\ jobs[i].kind = "act" => /\ wiz.steps[jobs[i].step] = "running"
                               /\ jobs[i].step = "push" => jobs[i].value = wiz.target
                               /\ jobs[i].step # "push" => jobs[i].value = wiz.value /\ wiz.value \in {Topic, Fresh}
    /\ jobs[i].kind = "wait" => wiz.waiting /\ jobs[i].value = wiz.target

\* What an answer says has happened.
Told == \A i \in DOMAIN jobs : jobs[i].answer = "ok" =>
    /\ jobs[i].kind = "act" /\ jobs[i].step = "branch" =>
           /\ wiz.value = Fresh /\ Fresh \in repo.branches
           /\ ~repo.moved => repo.head = Fresh
    /\ jobs[i].kind = "act" /\ jobs[i].step = "commit" =>
           ~repo.dirty /\ (~repo.moved => wiz.target \in repo.work)
    /\ jobs[i].kind = "act" /\ jobs[i].step = "push" =>
           /\ gate[wiz.target] # "absent"
           /\ repo.began /\ ~repo.moved => gate[wiz.target] = "work"
    /\ jobs[i].kind = "wait" => started[wiz.target] \in {"active", "over"}

\* Before the wizard is started, and when it is over.
Phases ==
    /\ attach.at = "start" => wiz = NewModel /\ jobs = <<>> /\ advances = 0 /\ ~repo.moved
                              /\ repo.work = {} /\ Fresh \notin repo.branches
                              /\ repo.began = repo.dirty /\ (\A b \in Branches : gate[b] = "absent")
    /\ attach.at \notin {"start", "wizard"} => wiz.quitting \/ (jobs = <<>> /\ ~wiz.success)
    /\ attach.at = "await" => wiz.success
    /\ wiz.success => jobs = <<>> /\ ((mode # "headless" \/ attach.at = "attached") => started[wiz.target] \in {"active", "over"})

\* At most one automatic key for each step that was entered.
Bound(m) == IF activeStep(m) = "branch" THEN 1 ELSE IF activeStep(m) = "commit" THEN 2 ELSE 3
AdvancesBounded == advances <= Bound(wiz) /\ (mode = "keys" => advances = 0)

WizardInv ==
    /\ WizardTyped /\ InOrder(wiz) /\ Claims(wiz) /\ Checkout(wiz) /\ Work(wiz) /\ InGate(wiz)
    /\ Awaited /\ InFlight /\ Told /\ Phases /\ AdvancesBounded

LEMMA OneMore ==
    ASSUME NEW S, IsFiniteSet(S), NEW x, NEW n \in Nat, Cardinality(S) <= n
    PROVE  IsFiniteSet(S \cup {x}) /\ Cardinality(S \cup {x}) <= n + 1
<1>1. Cardinality(S) \in Nat
  BY FS_CardinalityType
<1>2. IsFiniteSet(S \cup {x}) /\ (Cardinality(S \cup {x}) = Cardinality(S) \/ Cardinality(S \cup {x}) = Cardinality(S) + 1)
  BY FS_AddElement
<1> QED BY <1>1, <1>2

LEMMA CardinalityOfFour ==
    ASSUME NEW a, NEW b, NEW c, NEW d
    PROVE  Cardinality({a, b, c, d}) <= 4
<1>1. IsFiniteSet({a}) /\ Cardinality({a}) <= 1
  BY FS_Singleton
<1>2. IsFiniteSet({a} \cup {b}) /\ Cardinality({a} \cup {b}) <= 2
  BY <1>1, OneMore, 1 + 1 = 2
<1>3. IsFiniteSet({a} \cup {b} \cup {c}) /\ Cardinality({a} \cup {b} \cup {c}) <= 3
  BY <1>2, OneMore, 2 + 1 = 3
<1>4. Cardinality({a} \cup {b} \cup {c} \cup {d}) <= 3 + 1
  BY <1>3, OneMore
<1>5. {a, b, c, d} = {a} \cup {b} \cup {c} \cup {d}
  OBVIOUS
<1> QED BY <1>4, <1>5

LEMMA NoFourNames ==
    ASSUME NEW a, NEW b, NEW c, NEW d, {Default, Topic, Fresh, Detached, NoName} = {a, b, c, d}
    PROVE  FALSE
<1>1. Cardinality({a, b, c, d}) <= 4 /\ Cardinality({a, b, c, d}) = 5
  BY CardinalityOfFour, WizardAssumption
<1> QED BY <1>1

\* The five names are five.
LEMMA NamesDiffer ==
    /\ Default \notin {Topic, Fresh, Detached, NoName} /\ Topic \notin {Fresh, Detached, NoName}
    /\ Fresh \notin {Detached, NoName} /\ Detached # NoName
<1>1. CASE Default \in {Topic, Fresh, Detached, NoName}
  BY <1>1, {Default, Topic, Fresh, Detached, NoName} = {Topic, Fresh, Detached, NoName}, NoFourNames
<1>2. CASE Topic \in {Fresh, Detached, NoName}
  BY <1>2, {Default, Topic, Fresh, Detached, NoName} = {Default, Fresh, Detached, NoName}, NoFourNames
<1>3. CASE Fresh \in {Detached, NoName}
  BY <1>3, {Default, Topic, Fresh, Detached, NoName} = {Default, Topic, Detached, NoName}, NoFourNames
<1>4. CASE Detached = NoName
  BY <1>4, {Default, Topic, Fresh, Detached, NoName} = {Default, Topic, Fresh, NoName}, NoFourNames
<1> QED BY <1>1, <1>2, <1>3, <1>4

LEMMA StepIdsAre == ToSet(StepIds) = StepNames
BY DEF ToSet, StepIds, StepNames

\* firstPending, case by case.
LEMMA ActiveStepIs ==
    ASSUME NEW m
    PROVE  activeStep(m) = IF ~Over(m, "branch") THEN "branch" ELSE IF ~Over(m, "commit") THEN "commit"
                           ELSE IF ~Over(m, "push") THEN "push" ELSE "none"
<1> DEFINE open == {i \in DOMAIN StepIds : m.steps[StepIds[i]] \notin {"done", "skipped"}}
           first == CHOOSE i \in open : \A j \in open : i <= j
<1>1. activeStep(m) = IF open = {} THEN "none" ELSE StepIds[first]
  BY DEF activeStep
<1>2. DOMAIN StepIds = {1, 2, 3} /\ StepIds[1] = "branch" /\ StepIds[2] = "commit" /\ StepIds[3] = "push"
  BY DEF StepIds
<1>3. /\ 1 \in open <=> ~Over(m, "branch")
      /\ 2 \in open <=> ~Over(m, "commit")
      /\ 3 \in open <=> ~Over(m, "push")
      /\ open \subseteq {1, 2, 3}
  BY <1>2 DEF Over
<1> HIDE DEF open
<1>4. CASE open = {}
  BY <1>1, <1>3, <1>4
<1>5. CASE open # {}
  <2>1. \E i \in open : \A j \in open : i <= j
    <3>1. open = {1} \/ open = {2} \/ open = {3} \/ open = {1, 2} \/ open = {1, 3} \/ open = {2, 3} \/ open = {1, 2, 3}
      BY <1>3, <1>5
    <3> QED BY <3>1
  <2>2. first \in open /\ \A j \in open : first <= j
    BY <2>1
  <2> HIDE DEF first
  <2> QED BY <2>2, <1>1, <1>2, <1>3, <1>5
<1> QED BY <1>4, <1>5

LEMMA OneJob ==
    ASSUME NEW j, jobs = <<j>>, NEW i \in DOMAIN jobs
    PROVE  i = 1 /\ jobs[i] = j /\ Others(i) = <<>> /\ jobs # <<>> /\ Len(jobs) = 1
<1>1. i = 1 /\ jobs[i] = j /\ Len(jobs) = 1
  OBVIOUS
<1>2. SubSeq(jobs, 1, 0) = <<>> /\ SubSeq(jobs, 2, 1) = <<>>
  BY <1>1
<1> QED BY <1>1, <1>2 DEF Others, RemoveAt

-----------------------------------------------------------------------------
(* What an update makes of the Model.                                      *)

StepStates == {"pending", "input", "agent", "confirm", "running", "done", "skipped", "failed"}

\* The fields that a keystroke alone does not touch.
Alike(m, x) ==
    /\ m.target = x.target /\ m.branchCreated = x.branchCreated /\ m.commitMade = x.commitMade
    /\ m.pushed = x.pushed /\ m.failed = x.failed /\ m.quitting = x.quitting /\ m.success = x.success
    /\ m.waiting = x.waiting /\ m.waitStarted = x.waitStarted

\* One step has another state.
Moves(m, x, s, st) ==
    /\ m.steps[s] = st
    /\ \A t \in StepNames \ {s} : m.steps[t] = x.steps[t]

LEMMA SetStep ==
    ASSUME NEW m \in Models, NEW s \in StepNames, NEW st \in StepStates
    PROVE  /\ [m EXCEPT !.steps[s] = st] \in Models
           /\ Moves([m EXCEPT !.steps[s] = st], m, s, st) /\ Alike([m EXCEPT !.steps[s] = st], m)
           /\ [m EXCEPT !.steps[s] = st].typed = m.typed /\ [m EXCEPT !.steps[s] = st].value = m.value
BY DEF Models, StepStates, Moves, Alike, StepNames

LEMMA SetKeys ==
    ASSUME NEW m \in Models, NEW t \in Entered, NEW c \in BOOLEAN
    PROVE  /\ [m EXCEPT !.confirmQuit = c] \in Models /\ [m EXCEPT !.confirmQuit = c, !.typed = t] \in Models
           /\ [m EXCEPT !.confirmQuit = c].steps = m.steps /\ Alike([m EXCEPT !.confirmQuit = c], m)
           /\ [m EXCEPT !.confirmQuit = c].typed = m.typed
           /\ [m EXCEPT !.confirmQuit = c, !.typed = t].steps = m.steps
           /\ Alike([m EXCEPT !.confirmQuit = c, !.typed = t], m)
BY DEF Models, Alike

LEMMA ExecutedIs ==
    ASSUME NEW m \in Models, NEW s \in StepNames, NEW v \in Entered
    PROVE  /\ executed(m, s, v) \in Models /\ Moves(executed(m, s, v), m, s, "running")
           /\ Alike(executed(m, s, v), m) /\ executed(m, s, v).value = v
BY DEF executed, Models, Moves, Alike, StepNames

LEMMA JobIs ==
    ASSUME NEW k \in {"suggest", "act", "wait"}, NEW s \in StepNames \cup {"none"}, NEW v \in Names
    PROVE  Job(k, s, v) \in JobRecords /\ Job(k, s, v).kind = k /\ Job(k, s, v).step = s
           /\ Job(k, s, v).value = v /\ Job(k, s, v).answer = "none"
BY DEF Job, JobRecords

\* The active step is what the over steps leave: moving it on without its end
\* leaves it the active one.
LEMMA StaysActive ==
    ASSUME NEW x, NEW m, NEW s \in StepNames, s = activeStep(x), NEW st, st \notin {"done", "skipped"}, Moves(m, x, s, st)
    PROVE  activeStep(m) = s /\ \A t \in StepNames : Over(m, t) <=> Over(x, t)
BY ActiveStepIs DEF Moves, Over, StepNames

\* What the parts of the invariant that speak of a model read of it.
LEMMA MoveKeeps ==
    ASSUME WorldTyped, NEW x, NEW m, NEW s \in StepNames, s = activeStep(x), NEW st \in {"pending", "input", "agent", "running", "failed", "confirm"},
           st = "confirm" => s = "push", s = "push" => st \notin {"input", "agent"},
           Moves(m, x, s, st), Alike(m, x),
           InOrder(x), Claims(x), Checkout(x), Work(x), InGate(x)
    PROVE  InOrder(m) /\ Claims(m) /\ Checkout(m) /\ Work(m) /\ InGate(m)
<1>1. activeStep(m) = s /\ (\A t \in StepNames : Over(m, t) <=> Over(x, t)) /\ ~Over(x, s) /\ ~Over(m, s)
  BY StaysActive, ActiveStepIs DEF Moves, Over
<1>2. \A t \in StepNames : /\ m.steps[t] = "done" <=> x.steps[t] = "done"
                           /\ m.steps[t] = "skipped" <=> x.steps[t] = "skipped"
  BY <1>1 DEF Moves, Over
<1>3. {"branch", "commit", "push"} = StepNames
  BY DEF StepNames
<1>4. InOrder(m)
  BY <1>1, <1>2, <1>3, ActiveStepIs DEF InOrder, Moves, Over
<1>5. Claims(m)
  BY <1>2, <1>3 DEF Claims, Alike
<1>6. Checkout(m) /\ Work(m) /\ InGate(m)
  BY <1>1, <1>2, <1>3 DEF Checkout, Work, InGate, Alike
<1> QED BY <1>4, <1>5, <1>6

-----------------------------------------------------------------------------
(* The ways an update ends.                                                *)

\* What an update of a wizard that runs leaves alone.
Within == /\ attach.at = "wizard" /\ UNCHANGED <<mode, attach, worldVars>>
          /\ suggests' = suggests

LEMMA WithinKeeps == ASSUME WizardTyped, Within, wiz' \in Models, advances' \in Nat,
                            jobs' = <<>> \/ \E j \in JobRecords : jobs' = <<j>>
                     PROVE  WizardTyped'
BY DEF WizardTyped, WorldTyped, Within, worldVars

\* A part that speaks of a model, after an update.
LEMMA WithinParts ==
    ASSUME Within, InOrder(wiz'), Claims(wiz'), Checkout(wiz'), Work(wiz'), InGate(wiz')
    PROVE  InOrder(wiz)' /\ Claims(wiz)' /\ Checkout(wiz)' /\ Work(wiz)' /\ InGate(wiz)'
<1>1. mode' = mode /\ repo' = repo /\ gate' = gate
  BY DEF Within, worldVars
<1> QED BY <1>1 DEF InOrder, Claims, Checkout, Work, InGate, Over

LEMMA ActiveIsStep == ASSUME NEW m PROVE activeStep(m) \in StepNames \cup {"none"}
BY ActiveStepIs DEF StepNames

\* The active step's command is started, or asked for.
LEMMA Starts ==
    ASSUME WizardInv, Within, ~wiz.quitting,
           NEW s \in StepNames, s = activeStep(wiz), wiz' \in Models, Alike(wiz', wiz),
           NEW st \in {"running", "agent"}, Moves(wiz', wiz, s, st),
           NEW j \in JobRecords, jobs' = <<j>>, j.step = s, j.answer = "none",
           st = "agent" => s # "push" /\ j.kind = "suggest",
           st = "running" => /\ j.kind = "act"
                             /\ s = "push" => j.value = wiz.target
                             /\ s # "push" => j.value = wiz'.value /\ wiz'.value \in {Topic, Fresh},
           advances' \in Nat, advances' <= advances
    PROVE  WizardInv'
<1>1. activeStep(wiz') = s /\ s # "none" /\ wiz'.steps[s] = st
  BY StaysActive DEF Moves, StepNames
<1>2. WizardTyped'
  BY WithinKeeps DEF WizardInv
<1>3. InOrder(wiz)' /\ Claims(wiz)' /\ Checkout(wiz)' /\ Work(wiz)' /\ InGate(wiz)'
  BY WithinParts, MoveKeeps DEF WizardInv, WizardTyped
<1>4. DOMAIN jobs' = {1} /\ jobs'[1] = j /\ jobs' # <<>>
  OBVIOUS
<1>5. ~wiz.waiting /\ ~wiz'.waiting /\ ~wiz.success /\ ~wiz'.success /\ wiz'.target = wiz.target /\ ~wiz'.quitting
  BY <1>1 DEF WizardInv, Awaited, Running, Alike, Claims, Within, WizardTyped, Models
<1>6. Awaited'
  <2>1. mode # "keys" => \A t \in StepNames : wiz'.steps[t] # "failed"
    BY <1>5 DEF WizardInv, Awaited, Running, Within, Moves
  <2> QED BY <1>1, <1>4, <1>5, <2>1 DEF Awaited, Within, Status
<1>7. InFlight'
  BY <1>1, <1>4, <1>5 DEF InFlight, JobRecords
<1>8. Told'
  BY <1>4 DEF Told
<1>9. Phases'
  BY <1>5 DEF Phases, Within
<1>10. AdvancesBounded'
  BY <1>1 DEF WizardInv, AdvancesBounded, Bound, WizardTyped, Within
<1> QED BY <1>2, <1>3, <1>6, <1>7, <1>8, <1>9, <1>10 DEF WizardInv

\* A keystroke that only edits.
LEMMA Edits ==
    ASSUME WizardInv, Within, wiz' \in Models, Alike(wiz', wiz), wiz'.steps = wiz.steps, wiz'.value = wiz.value,
           jobs' = jobs, advances' = advances
    PROVE  WizardInv'
<1>1. activeStep(wiz') = activeStep(wiz) /\ \A s : Over(wiz', s) <=> Over(wiz, s)
  BY ActiveStepIs DEF Over
<1>2. WizardTyped'
  BY WithinKeeps DEF WizardInv, WizardTyped
<1>3. InOrder(wiz') /\ Claims(wiz') /\ Checkout(wiz') /\ Work(wiz') /\ InGate(wiz')
  BY <1>1 DEF WizardInv, InOrder, Claims, Checkout, Work, InGate, Alike, Over
<1>4. Awaited' /\ InFlight'
  BY <1>1 DEF WizardInv, Awaited, InFlight, Running, Status, Within, Alike
<1>5. Told'
  BY DEF WizardInv, Told, Within, worldVars, Alike
<1>6. Phases' /\ AdvancesBounded'
  BY <1>1 DEF WizardInv, Phases, AdvancesBounded, Bound, Within, worldVars, Alike
<1> QED BY <1>2, <1>3, <1>4, <1>5, <1>6, WithinParts DEF WizardInv

\* The wizard quits: what is in flight may stay in flight.
LEMMA Ends ==
    ASSUME WizardInv, attach.at = "wizard", ~wiz.quitting,
           attach' \in [at : {"wizard", "error"}, run : Names], UNCHANGED <<mode, suggests, worldVars>>,
           wiz' \in Models, wiz'.quitting, wiz'.target = wiz.target, wiz'.value = wiz.value, wiz'.waiting = wiz.waiting,
           wiz'.branchCreated = wiz.branchCreated, wiz'.commitMade = wiz.commitMade, wiz'.pushed = wiz.pushed,
           wiz'.waitStarted = wiz.waitStarted, wiz'.success = wiz.success,
           \/ wiz'.steps = wiz.steps /\ jobs' = jobs
           \/ /\ activeStep(wiz) \in StepNames /\ jobs' = <<>>
              /\ Moves(wiz', wiz, activeStep(wiz), "failed"),
           advances' = advances
    PROVE  WizardInv'
<1>1. activeStep(wiz') = activeStep(wiz) /\ \A s \in StepNames : Over(wiz', s) <=> Over(wiz, s)
  <2>1. CASE wiz'.steps = wiz.steps
    BY <2>1, ActiveStepIs DEF Over
  <2>2. CASE wiz'.steps # wiz.steps
    BY <2>2, StaysActive
  <2> QED BY <2>1, <2>2
<1>2. WizardTyped'
  BY DEF WizardInv, WizardTyped, WorldTyped, worldVars
<1>3. \A s \in StepNames : /\ wiz'.steps[s] = "done" <=> wiz.steps[s] = "done"
                           /\ wiz'.steps[s] = "skipped" <=> wiz.steps[s] = "skipped"
                           /\ wiz'.steps[s] \in {wiz.steps[s], "failed"}
                           /\ s # activeStep(wiz) => wiz'.steps[s] = wiz.steps[s]
  BY <1>1, ActiveStepIs DEF Over, Moves, StepNames
<1>4. {"branch", "commit", "push"} = StepNames
  BY DEF StepNames
<1>5. ~wiz.success /\ ~wiz'.success
  BY DEF WizardInv, Claims
<1>6. InOrder(wiz')
  BY <1>1, <1>3, <1>4, ActiveStepIs DEF WizardInv, InOrder, Over
<1>7. Claims(wiz')
  BY <1>3, <1>4, <1>5 DEF WizardInv, Claims
<1>8. Checkout(wiz') /\ Work(wiz') /\ InGate(wiz')
  BY <1>1, <1>3, <1>4 DEF WizardInv, Checkout, Work, InGate
<1>9. InOrder(wiz)' /\ Claims(wiz)' /\ Checkout(wiz)' /\ Work(wiz)' /\ InGate(wiz)'
  BY <1>6, <1>7, <1>8 DEF InOrder, Claims, Checkout, Work, InGate, Over, worldVars
<1>10. Awaited' /\ Phases' /\ AdvancesBounded'
  BY <1>1, <1>5 DEF WizardInv, Awaited, Running, Phases, AdvancesBounded, Bound, worldVars
<1>11. InFlight' /\ Told'
  BY <1>1 DEF WizardInv, InFlight, Told, worldVars
<1> QED BY <1>2, <1>9, <1>10, <1>11 DEF WizardInv

\* What makes a model ready to enter its next step.
Ready(b) ==
    /\ b \in Models /\ InOrder(b) /\ Claims(b) /\ Checkout(b) /\ Work(b) /\ InGate(b)
    /\ ~b.waiting /\ ~b.quitting /\ ~b.success
    /\ activeStep(b) # "none" => b.steps[activeStep(b)] = "pending"
    /\ activeStep(b) = "none" /\ b.waitStarted /\ ~b.failed => started[b.target] \in {"active", "over"}
    /\ mode # "keys" => \A s \in StepNames : b.steps[s] # "failed"
    /\ mode = "keys" => advances = 0
    /\ advances <= Bound(b) /\ (mode = "auto" /\ activeStep(b) # "none" => advances + 1 <= Bound(b))

\* setupActive: the next step, the wait, or the end.
LEMMA SetupIs ==
    ASSUME NEW b \in Models
    PROVE  LET m == setupActive(b) s == activeStep(b) IN
           /\ m \in Models
           /\ m.target = b.target /\ m.branchCreated = b.branchCreated /\ m.commitMade = b.commitMade
           /\ m.pushed = b.pushed /\ m.failed = b.failed
           /\ s # "none" => /\ m.steps[s] = IF s = "push" THEN "confirm" ELSE "input"
                            /\ \A t \in StepNames \ {s} : m.steps[t] = b.steps[t]
                            /\ m.waiting = b.waiting /\ m.waitStarted = b.waitStarted
                            /\ m.quitting = b.quitting /\ m.success = b.success
                            /\ s # "push" => m.typed = NoName
           /\ s = "none" => /\ m.steps = b.steps
                            /\ (mode # "headless" /\ b.pushed /\ ~b.waitStarted) =>
                                   m.waiting /\ m.waitStarted /\ m.quitting = b.quitting /\ m.success = b.success
                            /\ ~(mode # "headless" /\ b.pushed /\ ~b.waitStarted) =>
                                   /\ m.waiting = b.waiting /\ m.waitStarted = b.waitStarted
                                   /\ m.quitting /\ m.success = (b.pushed /\ ~b.failed)
<1>1. activeStep(b) \in StepNames \cup {"none"}
  BY ActiveIsStep
<1>2. CASE activeStep(b) = "none"
  BY <1>2 DEF setupActive, Models
<1>3. CASE activeStep(b) # "none"
  <2> DEFINE s == activeStep(b)
             st == IF s = "push" THEN "confirm" ELSE "input"
             t0 == IF s = "push" THEN b.typed ELSE NoName
  <2>1. s \in StepNames /\ st \in StepStates /\ t0 \in Entered
    BY <1>1, <1>3 DEF StepStates, Models, Entered
  <2>2. setupActive(b) = [[b EXCEPT !.steps[s] = st] EXCEPT !.typed = t0]
    BY <1>3, <2>1 DEF setupActive, Models
  <2> HIDE DEF s, st, t0
  <2>3. LET m == [[b EXCEPT !.steps[s] = st] EXCEPT !.typed = t0] IN
        /\ m \in Models /\ m.steps[s] = st /\ (\A t \in StepNames \ {s} : m.steps[t] = b.steps[t])
        /\ m.typed = t0 /\ m.target = b.target /\ m.branchCreated = b.branchCreated /\ m.commitMade = b.commitMade
        /\ m.pushed = b.pushed /\ m.failed = b.failed
        /\ m.waiting = b.waiting /\ m.waitStarted = b.waitStarted
        /\ m.quitting = b.quitting /\ m.success = b.success
    BY <2>1 DEF Models, StepNames, StepStates
  <2> QED BY <2>2, <2>3, <1>3 DEF s, st, t0
<1> QED BY <1>2, <1>3

LEMMA SetupParts ==
    ASSUME WorldTyped, NEW b, Ready(b)
    PROVE  LET m == setupActive(b) IN
           /\ InOrder(m) /\ Claims(m) /\ Checkout(m) /\ Work(m) /\ InGate(m)
           /\ activeStep(m) = activeStep(b)
<1> DEFINE m == setupActive(b)
           s == activeStep(b)
<1>1. b \in Models /\ InOrder(b) /\ Claims(b) /\ Checkout(b) /\ Work(b) /\ InGate(b) /\ s \in StepNames \cup {"none"}
  BY ActiveIsStep DEF Ready
<1>2. CASE s = "none"
  <2>1. m.steps = b.steps /\ activeStep(m) = s /\ \A t : Over(m, t) <=> Over(b, t)
    BY SetupIs, <1>1, <1>2, ActiveStepIs DEF Over
  <2>2. m.target = b.target /\ m.branchCreated = b.branchCreated /\ m.commitMade = b.commitMade
        /\ m.pushed = b.pushed /\ m.failed = b.failed
    BY SetupIs, <1>1
  <2>3. Claims(m)
    <3>1. m.waiting => m.pushed /\ m.waitStarted /\ mode # "headless"
      BY SetupIs, <1>1, <1>2 DEF Claims
    <3>2. (m.waitStarted => m.pushed) /\ (m.success => m.pushed /\ m.quitting /\ ~m.failed)
      BY SetupIs, <1>1, <1>2 DEF Claims
    <3> HIDE DEF m
    <3> QED BY <1>1, <2>1, <2>2, <3>1, <3>2 DEF Claims
  <2> HIDE DEF m, s
  <2>4. InOrder(m) /\ Checkout(m)
    BY <1>1, <2>1, <2>2 DEF InOrder, Checkout
  <2>5. Work(m) /\ InGate(m)
    BY <1>1, <2>1, <2>2 DEF Work, InGate
  <2> QED BY <1>1, <2>1, <2>3, <2>4, <2>5 DEF m, s
<1>3. CASE s # "none"
  <2>1. s \in StepNames /\ Moves(m, b, s, IF s = "push" THEN "confirm" ELSE "input") /\ Alike(m, b)
    BY SetupIs, <1>1, <1>3 DEF Moves, Alike
  <2>2. activeStep(m) = s
    BY <2>1, StaysActive
  <2> HIDE DEF m, s
  <2> QED BY <2>1, <2>2, <1>1, MoveKeeps DEF s, m
<1> QED BY <1>1, <1>2, <1>3

\* After Enters the wizard waits, or has quit, or the next step waits for its
\* key, its automatic key or its command.
LEMMA EntersKeeps ==
    ASSUME WizardTyped, NEW b, Ready(b), Enters(b, <<>>),
           attach' \in [at : {"wizard"}, run : Names], UNCHANGED <<mode, suggests, worldVars>>
    PROVE  WizardInv'
<1> DEFINE m == setupActive(b)
           s == activeStep(b)
<1>1. /\ InOrder(m) /\ Claims(m) /\ Checkout(m) /\ Work(m) /\ InGate(m) /\ activeStep(m) = s
      /\ b \in Models /\ m \in Models /\ WorldTyped /\ s \in StepNames \cup {"none"}
  BY SetupParts, SetupIs, ActiveIsStep DEF WizardTyped, Ready
<1>2. mode' = mode /\ repo' = repo /\ gate' = gate /\ started' = started /\ attach'.at = "wizard"
  BY DEF worldVars
<1>3. ASSUME wiz' \in Models, advances' \in Nat, jobs' = <<>> \/ \E j \in JobRecords : jobs' = <<j>> PROVE WizardTyped'
  BY <1>3 DEF WizardTyped, WorldTyped, worldVars
<1>4. ASSUME InOrder(wiz'), Claims(wiz'), Checkout(wiz'), Work(wiz'), InGate(wiz')
      PROVE  InOrder(wiz)' /\ Claims(wiz)' /\ Checkout(wiz)' /\ Work(wiz)' /\ InGate(wiz)'
  BY <1>2, <1>4 DEF InOrder, Claims, Checkout, Work, InGate, Over
<1>5. CASE s = "none" /\ m.waiting
  <2>1. wiz' = m /\ jobs' = <<Job("wait", "none", m.target)>> /\ advances' = advances
    BY <1>5 DEF Enters, Becomes
  <2>2. m.quitting = FALSE /\ m.success = FALSE
    BY SetupIs, <1>1, <1>5 DEF Ready, Models
  <2> DEFINE j == Job("wait", "none", m.target)
  <2>3. /\ j \in JobRecords /\ j.kind = "wait" /\ j.step = "none" /\ j.value = m.target /\ j.answer = "none"
        /\ DOMAIN jobs' = {1} /\ jobs'[1] = j /\ jobs' # <<>>
    <3>1. m.target \in Names
      BY <1>1 DEF Models
    <3>2. j \in JobRecords /\ j.kind = "wait" /\ j.step = "none" /\ j.value = m.target /\ j.answer = "none"
      BY <3>1, JobIs
    <3> HIDE DEF j
    <3> QED BY <2>1, <3>2 DEF j
  <2> HIDE DEF j, m
  <2>4. WizardTyped'
    BY <1>1, <1>3, <2>1, <2>3 DEF WizardTyped, j
  <2>5. Awaited' /\ InFlight'
    <3>1. mode # "keys" => \A t \in StepNames : m.steps[t] # "failed"
      BY SetupIs, <1>1, <1>5 DEF Ready, m
    <3> QED BY <1>1, <1>2, <1>5, <2>1, <2>2, <2>3, <3>1 DEF Awaited, InFlight, Running
  <2>6. Told' /\ Phases'
    BY <1>2, <2>1, <2>2, <2>3 DEF Told, Phases
  <2>7. AdvancesBounded'
    BY <1>1, <2>1 DEF AdvancesBounded, Bound, Ready
  <2> QED BY <1>1, <1>4, <2>1, <2>4, <2>5, <2>6, <2>7 DEF WizardInv
<1>6. CASE s = "none" /\ ~m.waiting
  <2>1. m.quitting /\ (m.success <=> (b.pushed /\ ~b.failed)) /\ m.target = b.target /\ m.pushed = b.pushed
    BY SetupIs, <1>1, <1>6
  <2>2. ~(mode # "headless" /\ b.pushed /\ ~b.waitStarted)
    BY SetupIs, <1>1, <1>6
  <2>3. wiz' = m /\ jobs' = <<>> /\ advances' = advances
    BY <1>6, <2>1 DEF Enters, Becomes
  <2> HIDE DEF m
  <2>4. WizardTyped'
    BY <1>1, <1>3, <2>3 DEF WizardTyped
  <2>5. Awaited' /\ InFlight' /\ Told'
    BY <2>1, <2>3 DEF Awaited, InFlight, Told, Running
  <2>6. Phases'
    BY <1>2, <1>6, <2>1, <2>2, <2>3 DEF Phases, Ready
  <2>7. AdvancesBounded'
    BY <1>1, <2>3 DEF AdvancesBounded, Bound, Ready
  <2> QED BY <1>1, <1>4, <2>3, <2>4, <2>5, <2>6, <2>7 DEF WizardInv
<1>7. CASE s # "none"
  <2>1. /\ s \in StepNames /\ m.steps[s] = (IF s = "push" THEN "confirm" ELSE "input")
        /\ ~m.waiting /\ ~m.quitting /\ ~m.success
        /\ \A t \in StepNames \ {s} : m.steps[t] = b.steps[t]
    BY SetupIs, <1>1, <1>7 DEF Ready
  <2>2. mode # "keys" => \A t \in StepNames : m.steps[t] # "failed"
    BY <2>1 DEF Ready
  <2>3. CASE mode # "headless"
    <3>1. wiz' = m /\ jobs' = <<>> /\ advances' = (IF mode = "keys" THEN advances ELSE advances + 1)
      BY <2>1, <2>3 DEF Enters, Becomes
    <3> HIDE DEF m
    <3>2. WizardTyped' /\ AdvancesBounded'
      BY <1>1, <1>3, <1>7, <2>3, <3>1 DEF WizardTyped, AdvancesBounded, Bound, Ready
    <3>3. Awaited' /\ InFlight' /\ Told' /\ Phases'
      BY <1>1, <1>2, <1>7, <2>1, <2>2, <2>3, <3>1, <3>2 DEF Awaited, InFlight, Told, Running, Status, Phases, WizardTyped
    <3> QED BY <1>1, <1>4, <3>1, <3>2, <3>3 DEF WizardInv
  <2>4. CASE mode = "headless"
    <3> DEFINE st == IF s = "push" THEN "running" ELSE "agent"
    <3>1. PICK j \in JobRecords :
              /\ wiz' \in Models /\ Moves(wiz', m, s, st) /\ Alike(wiz', m) /\ jobs' = <<j>> /\ advances' = advances
              /\ j.step = s /\ j.answer = "none"
              /\ s # "push" => j.kind = "suggest"
              /\ s = "push" => j.kind = "act" /\ j.value = m.target
      <4>1. RunAuto(m, <<>>)
        BY <2>1, <2>4 DEF Enters
      <4> HIDE DEF m
      <4>2. CASE s = "push"
        <5>1. wiz' = executed(m, s, NoName) /\ jobs' = <<Job("act", s, m.target)>> /\ advances' = advances
          BY <4>1, <4>2, <1>1 DEF RunAuto, executeStep, Becomes, Action
        <5>2. m.target \in Names /\ NoName \in Entered
          BY <1>1 DEF Entered, Models
        <5>3. wiz' \in Models /\ Moves(wiz', m, s, "running") /\ Alike(wiz', m)
          BY <5>1, <5>2, <1>1, <2>1, ExecutedIs
        <5> DEFINE j == Job("act", s, m.target)
        <5>4. j \in JobRecords /\ j.kind = "act" /\ j.step = s /\ j.value = m.target /\ j.answer = "none"
          BY <5>2, <2>1, JobIs
        <5> QED BY <5>1, <5>3, <5>4, <4>2
      <4>3. CASE s # "push"
        <5>1. wiz' = [m EXCEPT !.steps[s] = "agent"] /\ jobs' = <<Job("suggest", s, NoName)>> /\ advances' = advances
          BY <4>1, <4>3, <1>1 DEF RunAuto, Suggest, Becomes
        <5>2. wiz' \in Models /\ Moves(wiz', m, s, "agent") /\ Alike(wiz', m)
          BY <5>1, <1>1, <2>1, SetStep DEF StepStates
        <5> DEFINE j == Job("suggest", s, NoName)
        <5>3. j \in JobRecords /\ j.kind = "suggest" /\ j.step = s /\ j.answer = "none"
          BY <2>1, JobIs DEF Names
        <5> QED BY <5>1, <5>2, <5>3, <4>3
      <4> QED BY <4>2, <4>3
    <3> HIDE DEF m
    <3>2. InOrder(wiz') /\ Claims(wiz') /\ Checkout(wiz') /\ Work(wiz') /\ InGate(wiz')
      BY <1>1, <2>1, <3>1, MoveKeeps
    <3>3. activeStep(wiz') = s /\ wiz'.steps[s] = st
      BY <1>1, <2>1, <3>1, StaysActive DEF Moves
    <3>4. DOMAIN jobs' = {1} /\ jobs'[1] = j /\ jobs' # <<>> /\ ~wiz'.waiting /\ ~wiz'.success /\ ~wiz'.quitting /\ wiz'.target = m.target
      BY <2>1, <3>1 DEF Alike
    <3>5. WizardTyped' /\ AdvancesBounded'
      BY <1>1, <1>3, <1>7, <3>1, <3>3 DEF WizardTyped, AdvancesBounded, Bound, Ready
    <3>6. Awaited'
      <4>1. \A t \in StepNames : wiz'.steps[t] # "failed"
        BY <2>2, <2>4, <3>1 DEF Moves
      <4> QED BY <1>2, <1>7, <3>3, <3>4, <4>1 DEF Awaited, Running, Status
    <3>7. InFlight' /\ Told' /\ Phases'
      BY <1>2, <1>7, <3>1, <3>3, <3>4 DEF InFlight, Told, Phases
    <3> QED BY <1>1, <1>4, <3>2, <3>5, <3>6, <3>7 DEF WizardInv
  <2> QED BY <2>3, <2>4
<1> QED BY <1>5, <1>6, <1>7

-----------------------------------------------------------------------------
(* Keys.                                                                   *)

\* In input, in confirm and after a failure nothing is in flight.
LEMMA Idle ==
    ASSUME WizardInv, Running, NEW st \in {"input", "confirm", "failed"}, InState(st)
    PROVE  /\ jobs = <<>> /\ activeStep(wiz) \in StepNames /\ wiz.steps[activeStep(wiz)] = st
           /\ st = "input" => activeStep(wiz) # "push"
           /\ st = "confirm" => activeStep(wiz) = "push"
           /\ st = "failed" => mode = "keys"
<1>1. activeStep(wiz) \in StepNames /\ wiz.steps[activeStep(wiz)] = st
  BY ActiveIsStep DEF InState, Status
<1>2. jobs = <<>> /\ (st = "failed" => mode = "keys")
  BY <1>1 DEF WizardInv, Awaited, InState, Status
<1>3. /\ st = "input" => activeStep(wiz) # "push"
      /\ st = "confirm" => activeStep(wiz) = "push"
  BY <1>1 DEF WizardInv, InOrder, StepNames
<1> QED BY <1>1, <1>2, <1>3

LEMMA RunningWithin == ASSUME Running, Rest PROVE Within /\ ~wiz.quitting
BY DEF Running, Rest, Within

LEMMA HeardIs == ASSUME wiz \in Models
                 PROVE  /\ Heard \in Models /\ Heard.steps = wiz.steps /\ Alike(Heard, wiz) /\ Heard.typed = wiz.typed
                        /\ Heard.value = wiz.value
BY DEF Heard, Models, Alike

\* executeStep, of the model as it is or without its question.
LEMMA Executes ==
    ASSUME WizardInv, Running, Rest, NEW m \in {wiz, Heard}, NEW s \in StepNames, s = activeStep(wiz),
           NEW v \in Entered, s # "push" => v \in {Topic, Fresh},
           wiz' = executed(m, s, v), jobs' = <<Action(m, s, v)>>, advances' \in Nat, advances' <= advances
    PROVE  WizardInv'
<1>1. wiz \in Models /\ m \in Models /\ m.steps = wiz.steps /\ Alike(m, wiz) /\ m.target \in Names
  BY HeardIs DEF WizardInv, WizardTyped, Alike, Models
<1>2. wiz' \in Models /\ Moves(wiz', wiz, s, "running") /\ Alike(wiz', wiz) /\ wiz'.value = v
  BY <1>1, ExecutedIs DEF Moves, Alike
<1> DEFINE x == IF s = "push" THEN m.target ELSE v
           j == Job("act", s, x)
<1>3. x \in Names
  BY <1>1 DEF Names, Entered
<1>4. j \in JobRecords /\ j.kind = "act" /\ j.step = s /\ j.value = x /\ j.answer = "none"
  BY <1>3, JobIs
<1>5. jobs' = <<j>> /\ (s = "push" => j.value = wiz.target) /\ (s # "push" => j.value = v)
  BY <1>1, <1>4 DEF Action, Alike
<1> HIDE DEF j, x
<1> QED BY <1>1, <1>2, <1>4, <1>5, RunningWithin, Starts

\* Suggest, likewise.
LEMMA Asks ==
    ASSUME WizardInv, Running, Rest, NEW m \in {wiz, Heard}, NEW s \in StepNames, s = activeStep(wiz), s # "push",
           wiz' = [m EXCEPT !.steps[s] = "agent"], jobs' = <<Job("suggest", s, NoName)>>,
           advances' \in Nat, advances' <= advances
    PROVE  WizardInv'
<1>1. wiz \in Models /\ m \in Models /\ m.steps = wiz.steps /\ Alike(m, wiz)
  BY HeardIs DEF WizardInv, WizardTyped, Alike, Models
<1>2. wiz' \in Models /\ Moves(wiz', m, s, "agent") /\ Alike(wiz', m)
  BY <1>1, SetStep DEF StepStates
<1>3. Moves(wiz', wiz, s, "agent") /\ Alike(wiz', wiz)
  BY <1>1, <1>2 DEF Moves, Alike
<1> DEFINE j == Job("suggest", s, NoName)
<1>4. j \in JobRecords /\ j.kind = "suggest" /\ j.step = s /\ j.answer = "none"
  BY JobIs DEF Names
<1> HIDE DEF j
<1> QED BY <1>2, <1>3, <1>4, RunningWithin, Starts DEF j

LEMMA QuitsKeep ==
    ASSUME WizardInv, Running, Rest, Quits(wiz, jobs) \/ Aborts(wiz) \/ Aborts(Heard)
    PROVE  WizardInv'
<1>1. wiz \in Models /\ Heard \in Models /\ Heard.steps = wiz.steps /\ Alike(Heard, wiz) /\ Heard.value = wiz.value
  BY HeardIs DEF WizardInv, WizardTyped
<1>2. \A m \in Models : LET a == [m EXCEPT !.aborted = TRUE] IN
          /\ a \in Models /\ a.steps = m.steps /\ a.value = m.value /\ Alike(a, m)
  BY DEF Models, Alike
<1>3. \A m \in Models : LET q == [m EXCEPT !.quitting = TRUE] IN
          /\ q \in Models /\ q.quitting /\ q.steps = m.steps /\ q.value = m.value /\ q.target = m.target
          /\ q.waiting = m.waiting /\ q.branchCreated = m.branchCreated /\ q.commitMade = m.commitMade
          /\ q.pushed = m.pushed /\ q.waitStarted = m.waitStarted /\ q.success = m.success
  BY DEF Models
<1>4. PICK m \in Models : /\ wiz' = [m EXCEPT !.quitting = TRUE] /\ jobs' = jobs /\ advances' = advances
                          /\ m.steps = wiz.steps /\ m.value = wiz.value /\ Alike(m, wiz)
  <2>1. CASE Quits(wiz, jobs)
    BY <2>1, <1>1 DEF Quits, Becomes, Alike
  <2>2. CASE Aborts(wiz)
    BY <2>2, <1>1, <1>2 DEF Aborts, Quits, Becomes, Alike
  <2>3. CASE Aborts(Heard)
    <3> DEFINE a == [Heard EXCEPT !.aborted = TRUE]
    <3>1. wiz' = [a EXCEPT !.quitting = TRUE] /\ jobs' = jobs /\ advances' = advances
      BY <2>3 DEF Aborts, Quits, Becomes
    <3>2. a \in Models /\ a.steps = Heard.steps /\ a.value = Heard.value /\ Alike(a, Heard)
      BY <1>1, <1>2
    <3>3. a.steps = wiz.steps /\ a.value = wiz.value /\ Alike(a, wiz)
      BY <1>1, <3>2 DEF Alike
    <3> HIDE DEF a
    <3> QED BY <3>1, <3>2, <3>3
  <2> QED BY <2>1, <2>2, <2>3
<1>5. attach' = attach /\ attach \in [at : {"wizard", "error"}, run : Names] /\ UNCHANGED <<mode, suggests, worldVars>>
  BY DEF Rest, Running, WizardInv, WizardTyped
<1>6. wiz' \in Models /\ wiz'.quitting /\ wiz'.steps = wiz.steps /\ wiz'.value = wiz.value /\ wiz'.target = wiz.target
      /\ wiz'.waiting = wiz.waiting /\ wiz'.branchCreated = wiz.branchCreated /\ wiz'.commitMade = wiz.commitMade
      /\ wiz'.pushed = wiz.pushed /\ wiz'.waitStarted = wiz.waitStarted /\ wiz'.success = wiz.success
  BY <1>3, <1>4 DEF Alike
<1> QED BY <1>4, <1>5, <1>6, Ends DEF Running

LEMMA KeysKeep ==
    ASSUME WizardInv, \/ PressQ \/ PressCtrlC \/ OtherKey \/ PressEnter \/ PressYes \/ PressNo
                      \/ \E name \in {Topic, Fresh} : Type(name)
    PROVE  WizardInv'
<1>1. Running /\ Rest
  BY DEF PressQ, PressCtrlC, OtherKey, PressEnter, PressYes, PressNo, Type, Listens
<1>2. Within /\ ~wiz.quitting /\ wiz \in Models /\ advances \in Nat
  BY <1>1, RunningWithin DEF WizardInv, WizardTyped
<1>3. Heard \in Models /\ Heard.steps = wiz.steps /\ Alike(Heard, wiz) /\ Heard.typed = wiz.typed /\ Heard.value = wiz.value
  BY <1>2, HeardIs
<1>4. CASE PressQ
  <2>1. CASE Becomes([wiz EXCEPT !.confirmQuit = TRUE], jobs)
    <3>1. LET m == [wiz EXCEPT !.confirmQuit = TRUE] IN m \in Models /\ m.steps = wiz.steps /\ Alike(m, wiz) /\ m.value = wiz.value
      BY <1>2 DEF Models, Alike
    <3> QED BY <2>1, <3>1, <1>2, Edits DEF Becomes
  <2> QED BY <1>4, <1>1, <2>1, QuitsKeep DEF PressQ
<1>5. CASE PressCtrlC
  BY <1>5, <1>1, QuitsKeep DEF PressCtrlC
<1>6. CASE OtherKey
  BY <1>6, <1>2, <1>3, Edits DEF OtherKey, Becomes
<1>7. CASE PressEnter
  <2>1. jobs = <<>> /\ activeStep(wiz) \in StepNames /\ activeStep(wiz) # "push"
    BY <1>1, <1>7, Idle DEF PressEnter
  <2>2. CASE wiz.typed = NoName
    <3>1. wiz' = [Heard EXCEPT !.steps[activeStep(wiz)] = "agent"] /\ jobs' = <<Job("suggest", activeStep(wiz), NoName)>> /\ advances' = advances
      BY <1>7, <2>1, <2>2 DEF PressEnter, Enter, Suggest, Becomes
    <3> QED BY <3>1, <2>1, <1>1, <1>2, Asks
  <2>3. CASE wiz.typed # NoName
    <3>1. wiz' = executed(Heard, activeStep(wiz), wiz.typed) /\ jobs' = <<Action(Heard, activeStep(wiz), wiz.typed)>> /\ advances' = advances
      BY <1>7, <2>1, <2>3 DEF PressEnter, Enter, executeStep, Becomes
    <3>2. wiz.typed \in Entered /\ wiz.typed \in {Topic, Fresh}
      BY <1>2, <2>3 DEF Models, Entered
    <3> QED BY <3>1, <3>2, <2>1, <1>1, <1>2, Executes
  <2> QED BY <2>2, <2>3
<1>8. CASE PressYes
  <2>1. jobs = <<>> /\ "push" \in StepNames /\ activeStep(wiz) = "push" /\ NoName \in Entered
    BY <1>1, <1>8, Idle DEF PressYes, Entered, StepNames
  <2>2. wiz' = executed(Heard, "push", NoName) /\ jobs' = <<Action(Heard, "push", NoName)>> /\ advances' = advances
    BY <1>8, <2>1 DEF PressYes, executeStep, Becomes
  <2> QED BY <2>1, <2>2, <1>1, <1>2, Executes
<1>9. CASE PressNo
  BY <1>9, <1>1, QuitsKeep DEF PressNo
<1>10. CASE \E name \in {Topic, Fresh} : Type(name)
  <2>1. PICK name \in {Topic, Fresh} : Type(name)
    BY <1>10
  <2>2. LET m == [Heard EXCEPT !.typed = name] IN m \in Models /\ m.steps = wiz.steps /\ Alike(m, wiz) /\ m.value = wiz.value
    <3>1. name \in Entered
      BY DEF Entered
    <3>2. \A x \in Models : LET m == [x EXCEPT !.typed = name] IN m \in Models /\ m.steps = x.steps /\ Alike(m, x) /\ m.value = x.value
      BY <3>1 DEF Models, Alike
    <3> QED BY <3>2, <1>3 DEF Alike
  <2> QED BY <2>1, <2>2, <1>2, Edits DEF Type, Becomes
<1> QED BY <1>4, <1>5, <1>6, <1>7, <1>8, <1>9, <1>10

LEMMA RetryKeeps == ASSUME WizardInv, PressRetry PROVE WizardInv'
<1> DEFINE s == activeStep(wiz)
           b == [Heard EXCEPT !.steps[s] = "pending"]
<1>1. Running /\ Rest /\ jobs = <<>> /\ s \in StepNames /\ mode = "keys" /\ wiz \in Models
  BY Idle DEF PressRetry, Listens, WizardInv, WizardTyped
<1>2. Heard \in Models /\ Heard.steps = wiz.steps /\ Alike(Heard, wiz)
  BY <1>1, HeardIs
<1>3. b \in Models /\ Moves(b, wiz, s, "pending") /\ Alike(b, wiz)
  <2>1. b \in Models /\ Moves(b, Heard, s, "pending") /\ Alike(b, Heard)
    BY <1>1, <1>2, SetStep DEF StepStates
  <2> HIDE DEF b
  <2> QED BY <2>1, <1>2 DEF Moves, Alike
<1>4. Enters(b, <<>>)
  BY <1>1 DEF PressRetry
<1> HIDE DEF b
<1>5. InOrder(b) /\ Claims(b) /\ Checkout(b) /\ Work(b) /\ InGate(b) /\ activeStep(b) = s
  BY <1>1, <1>3, MoveKeeps, StaysActive DEF WizardInv, WizardTyped
<1>6. ~b.waiting /\ ~b.quitting /\ ~b.success /\ s # "none" /\ b.steps[s] = "pending"
  BY <1>1, <1>3 DEF WizardInv, Awaited, Running, Claims, Alike, Moves, StepNames
<1>7. Ready(b)
  BY <1>1, <1>3, <1>5, <1>6 DEF Ready, WizardInv, AdvancesBounded, Bound
<1>8. attach' \in [at : {"wizard"}, run : Names] /\ UNCHANGED <<mode, suggests, worldVars>>
  BY <1>1 DEF WizardInv, WizardTyped, Rest, Running
<1> QED BY <1>4, <1>7, <1>8, EntersKeeps DEF WizardInv

LEMMA AutoKeeps == ASSUME WizardInv, AutoAdvance PROVE WizardInv'
<1> DEFINE s == activeStep(wiz)
<1>1. Running /\ Rest /\ wiz \in Models /\ advances \in Nat /\ advances' = advances - 1 /\ advances' \in Nat /\ advances' <= advances
      /\ mode \in {"auto", "keys"}
  BY DEF AutoAdvance, Listens, WizardInv, WizardTyped
<1>2. CASE InState("confirm")
  <2>1. jobs = <<>> /\ s = "push" /\ s \in StepNames /\ NoName \in Entered
    BY <1>1, <1>2, Idle DEF Entered
  <2>2. wiz' = executed(wiz, s, NoName) /\ jobs' = <<Action(wiz, s, NoName)>>
    BY <1>2, <2>1, ~InState("input") DEF AutoAdvance, InState
  <2> QED BY <2>1, <2>2, <1>1, Executes
<1>3. CASE InState("input") /\ ~InState("confirm")
  <2>1. jobs = <<>> /\ s \in StepNames /\ s # "push"
    BY <1>1, <1>3, Idle
  <2>2. CASE wiz.typed = NoName
    <3>1. wiz' = [Heard EXCEPT !.steps[s] = "agent"] /\ jobs' = <<Job("suggest", s, NoName)>>
      BY <1>3, <2>1, <2>2 DEF AutoAdvance
    <3> QED BY <2>1, <3>1, <1>1, Asks
  <2>3. CASE wiz.typed # NoName
    <3>1. wiz' = executed(Heard, s, wiz.typed) /\ jobs' = <<Action(Heard, s, wiz.typed)>>
      BY <1>3, <2>1, <2>3 DEF AutoAdvance
    <3>2. wiz.typed \in Entered /\ wiz.typed \in {Topic, Fresh}
      BY <1>1, <2>3 DEF Models, Entered
    <3> QED BY <2>1, <3>1, <3>2, <1>1, Executes
  <2> QED BY <2>2, <2>3
<1>4. CASE ~InState("input") /\ ~InState("confirm")
  <2>1. wiz' = wiz /\ jobs' = jobs
    BY <1>4 DEF AutoAdvance
  <2>2. Within /\ ~wiz.quitting
    BY <1>1, RunningWithin
  <2>3. mode = "auto" /\ jobs # <<>>
    <3>1. mode = "auto"
      BY <1>1 DEF WizardInv, AdvancesBounded, AutoAdvance
    <3>2. ~wiz.waiting => s # "none" /\ Status \in {"agent", "running"}
      BY <1>1, <1>4, <3>1, ActiveIsStep DEF WizardInv, Awaited, InState, Status
    <3> QED BY <1>1, <3>1, <3>2 DEF WizardInv, Awaited
  <2>4. InOrder(wiz)' /\ Claims(wiz)' /\ Checkout(wiz)' /\ Work(wiz)' /\ InGate(wiz)'
    BY <2>1, <2>2, WithinParts DEF WizardInv
  <2>5. WizardTyped'
    BY <1>1, <2>1, <2>2, WithinKeeps DEF WizardInv, WizardTyped
  <2>6. Awaited' /\ InFlight' /\ Told'
    BY <2>1, <2>2, <2>3 DEF WizardInv, Awaited, Running, Status, InFlight, Told, Within, worldVars
  <2>7. Phases' /\ AdvancesBounded'
    BY <1>1, <2>1, <2>2, <2>3 DEF WizardInv, Phases, AdvancesBounded, Bound, Within, worldVars
  <2> QED BY <2>4, <2>5, <2>6, <2>7 DEF WizardInv
<1> QED BY <1>2, <1>3, <1>4

-----------------------------------------------------------------------------
(* Answers.                                                                *)

\* The one command that is in flight.
LEMMA TheJob ==
    ASSUME WizardTyped, NEW i \in DOMAIN jobs
    PROVE  i = 1 /\ jobs[1] \in JobRecords /\ jobs = <<jobs[1]>> /\ Others(i) = <<>> /\ jobs # <<>>
<1>1. PICK j \in JobRecords : jobs = <<j>>
  BY DEF WizardTyped
<1> QED BY <1>1, OneJob

\* A refused answer gives the step back to the user.
LEMMA FallsBack ==
    ASSUME WizardInv, Within, ~wiz.quitting, mode = "keys",
           NEW s \in StepNames, s = activeStep(wiz), NEW st \in {"input", "failed"}, st = "input" => s # "push",
           wiz' \in Models, Moves(wiz', wiz, s, st), Alike(wiz', wiz), jobs' = <<>>, advances' = advances
    PROVE  WizardInv'
<1>1. activeStep(wiz') = s /\ wiz'.steps[s] = st /\ s # "none"
  BY StaysActive DEF Moves, StepNames
<1>2. WizardTyped'
  BY WithinKeeps DEF WizardInv, WizardTyped
<1>3. InOrder(wiz)' /\ Claims(wiz)' /\ Checkout(wiz)' /\ Work(wiz)' /\ InGate(wiz)'
  BY WithinParts, MoveKeeps DEF WizardInv, WizardTyped
<1>4. ~wiz'.waiting /\ ~wiz'.success
  BY <1>1 DEF WizardInv, Awaited, Running, Within, Alike, Claims
<1>5. Awaited'
  BY <1>1, <1>4 DEF Awaited, Within, Status
<1>6. InFlight' /\ Told'
  BY DEF InFlight, Told
<1>7. Phases' /\ AdvancesBounded'
  BY <1>1, <1>4 DEF WizardInv, Phases, AdvancesBounded, Bound, Within
<1> QED BY <1>2, <1>3, <1>5, <1>6, <1>7 DEF WizardInv

\* The first error of an unattended wizard.
LEMMA GivesKeep ==
    ASSUME WizardInv, Running, Rest, activeStep(wiz) \in StepNames, Gives(wiz, activeStep(wiz), <<>>)
    PROVE  WizardInv'
<1> DEFINE s == activeStep(wiz)
<1>1. wiz \in Models
  BY DEF WizardInv, WizardTyped
<1>2. LET m == [[wiz EXCEPT !.steps[s] = "failed", !.failed = TRUE] EXCEPT !.quitting = TRUE] IN
      /\ m \in Models /\ m.quitting /\ m.target = wiz.target /\ m.value = wiz.value /\ m.waiting = wiz.waiting
      /\ m.branchCreated = wiz.branchCreated /\ m.commitMade = wiz.commitMade /\ m.pushed = wiz.pushed
      /\ m.waitStarted = wiz.waitStarted /\ m.success = wiz.success /\ Moves(m, wiz, s, "failed")
  <2> HIDE DEF s
  <2> QED BY <1>1, s \in StepNames DEF s, Models, Moves, StepNames
<1>3. wiz' = [[wiz EXCEPT !.steps[s] = "failed", !.failed = TRUE] EXCEPT !.quitting = TRUE] /\ jobs' = <<>> /\ advances' = advances
  BY DEF Gives, Quits, Becomes
<1>4. attach' = attach /\ attach \in [at : {"wizard", "error"}, run : Names] /\ attach.at = "wizard" /\ ~wiz.quitting
      /\ UNCHANGED <<mode, suggests, worldVars>>
  BY DEF Rest, Running, WizardInv, WizardTyped
<1> HIDE DEF s
<1> QED BY <1>2, <1>3, <1>4, Ends DEF s

LEMMA SuggestionKeeps ==
    ASSUME WizardInv, NEW i \in DOMAIN jobs, handleSuggestion(i)
    PROVE  WizardInv'
<1> DEFINE s == jobs[i].step
<1>1. i = 1 /\ jobs[1] \in JobRecords /\ jobs = <<jobs[1]>> /\ Others(i) = <<>>
  BY TheJob DEF WizardInv
<1>2. Running /\ Rest /\ Within /\ ~wiz.quitting /\ wiz \in Models /\ advances \in Nat /\ jobs[1].kind = "suggest"
  BY <1>1, RunningWithin DEF handleSuggestion, Answered, WizardInv, WizardTyped
<1>3. /\ s = activeStep(wiz) /\ s \in StepNames /\ wiz.steps[s] = "agent" /\ s # "push"
      /\ jobs[1].answer = "ok" => jobs[1].value \in {Topic, Fresh}
  BY <1>1, <1>2 DEF WizardInv, InFlight, InOrder, JobRecords
<1>4. CASE jobs[i].answer = "ok"
  <2>1. wiz' = executed(wiz, s, jobs[i].value) /\ jobs' = <<Action(wiz, s, jobs[i].value)>> /\ advances' = advances
    BY <1>1, <1>3, <1>4 DEF handleSuggestion, executeStep, Becomes
  <2>2. jobs[i].value \in Entered /\ jobs[i].value \in {Topic, Fresh}
    BY <1>1, <1>3, <1>4 DEF Entered
  <2> QED BY <1>2, <1>3, <2>1, <2>2, Executes
<1>5. CASE jobs[i].answer # "ok" /\ mode # "keys"
  BY <1>1, <1>2, <1>3, <1>5, GivesKeep DEF handleSuggestion
<1>6. CASE jobs[i].answer # "ok" /\ mode = "keys"
  <2>1. wiz' = [wiz EXCEPT !.steps[s] = "input", !.typed = NoName] /\ jobs' = <<>> /\ advances' = advances
    BY <1>1, <1>3, <1>6 DEF handleSuggestion, Becomes
  <2>2. LET m == [wiz EXCEPT !.steps[s] = "input", !.typed = NoName] IN
        m \in Models /\ Moves(m, wiz, s, "input") /\ Alike(m, wiz)
    <3> HIDE DEF s
    <3> QED BY <1>2, <1>3 DEF Models, Moves, Alike, StepNames, Entered
  <2> QED BY <1>2, <1>3, <1>6, <2>1, <2>2, FallsBack
<1> QED BY <1>4, <1>5, <1>6

\* What a step that is done leaves.
LEMMA DoneIs ==
    ASSUME wiz \in Models, NEW s \in StepNames
    PROVE  LET b == [wiz EXCEPT !.steps[s] = "done",
                                !.target = IF s = "branch" THEN wiz.value ELSE @,
                                !.branchCreated = @ \/ s = "branch", !.commitMade = @ \/ s = "commit",
                                !.pushed = @ \/ s = "push"] IN
           /\ b \in Models /\ Moves(b, wiz, s, "done")
           /\ b.target = (IF s = "branch" THEN wiz.value ELSE wiz.target)
           /\ b.branchCreated = (wiz.branchCreated \/ s = "branch") /\ b.commitMade = (wiz.commitMade \/ s = "commit")
           /\ b.pushed = (wiz.pushed \/ s = "push")
           /\ b.failed = wiz.failed /\ b.quitting = wiz.quitting /\ b.success = wiz.success
           /\ b.waiting = wiz.waiting /\ b.waitStarted = wiz.waitStarted
<1> DEFINE t == IF s = "branch" THEN wiz.value ELSE wiz.target
           x == wiz.branchCreated \/ s = "branch"
           y == wiz.commitMade \/ s = "commit"
           z == wiz.pushed \/ s = "push"
           b == [wiz EXCEPT !.steps[s] = "done", !.target = t, !.branchCreated = x, !.commitMade = y, !.pushed = z]
<1>1. t \in Names /\ x \in BOOLEAN /\ y \in BOOLEAN /\ z \in BOOLEAN
  BY DEF Models, Entered, Names
<1> HIDE DEF t, x, y, z
<1>2. /\ b \in Models /\ Moves(b, wiz, s, "done") /\ b.target = t
      /\ b.branchCreated = x /\ b.commitMade = y /\ b.pushed = z
      /\ b.failed = wiz.failed /\ b.quitting = wiz.quitting /\ b.success = wiz.success
      /\ b.waiting = wiz.waiting /\ b.waitStarted = wiz.waitStarted
  BY <1>1 DEF Models, Moves, StepNames
<1>3. b = [wiz EXCEPT !.steps[s] = "done",
                      !.target = IF s = "branch" THEN wiz.value ELSE @,
                      !.branchCreated = @ \/ s = "branch", !.commitMade = @ \/ s = "commit",
                      !.pushed = @ \/ s = "push"]
  BY DEF t, x, y, z, Models
<1> QED BY <1>2, <1>3 DEF t, x, y, z

LEMMA DoneIsReady ==
    ASSUME WizardInv, Running, NEW j, jobs = <<j>>, j.kind = "act", j.answer = "ok", NEW s \in StepNames, j.step = s,
           NEW b \in Models, Moves(b, wiz, s, "done"),
           b.target = (IF s = "branch" THEN wiz.value ELSE wiz.target),
           b.branchCreated = (wiz.branchCreated \/ s = "branch"), b.commitMade = (wiz.commitMade \/ s = "commit"),
           b.pushed = (wiz.pushed \/ s = "push"),
           b.failed = wiz.failed, b.quitting = wiz.quitting, b.success = wiz.success,
           b.waiting = wiz.waiting, b.waitStarted = wiz.waitStarted
    PROVE  Ready(b)
<1>1. /\ InOrder(wiz) /\ Claims(wiz) /\ Checkout(wiz) /\ Work(wiz) /\ InGate(wiz)
      /\ activeStep(wiz) = s /\ ~wiz.waiting /\ ~wiz.quitting /\ ~wiz.success /\ wiz.steps[s] = "running"
  BY DEF WizardInv, InFlight, Running, Claims
<1>2. /\ wiz.steps["branch"] \in StepStates /\ wiz.steps["commit"] \in StepStates /\ wiz.steps["push"] \in StepStates
      /\ wiz.branchCreated \in BOOLEAN /\ wiz.commitMade \in BOOLEAN /\ wiz.pushed \in BOOLEAN
  BY DEF WizardInv, WizardTyped, Models, StepNames, StepStates
<1>3. Told /\ (s = "branch" => wiz.value = Fresh /\ Fresh \in repo.branches /\ (~repo.moved => repo.head = Fresh))
      /\ (s = "commit" => ~repo.dirty /\ (~repo.moved => wiz.target \in repo.work))
      /\ (s = "push" => gate[wiz.target] # "absent" /\ (repo.began /\ ~repo.moved => gate[wiz.target] = "work"))
  BY DEF WizardInv, Told
<1>4. ~wiz.waitStarted
  <2>1. ~Over(wiz, s)
    BY <1>1, ActiveStepIs DEF Over
  <2>2. wiz.steps["push"] # "done"
    BY <1>1, <2>1 DEF InOrder, Over, StepNames
  <2> QED BY <1>1, <2>2 DEF Claims
<1>5. CASE s = "branch"
  <2>1. /\ b.steps["branch"] = "done" /\ b.steps["commit"] = wiz.steps["commit"] /\ b.steps["push"] = wiz.steps["push"]
        /\ wiz.steps["commit"] \in {"pending", "skipped"} /\ wiz.steps["push"] = "pending"
    BY <1>1, <1>5 DEF Moves, StepNames, InOrder, Over
  <2>2. activeStep(b) = (IF b.steps["commit"] = "pending" THEN "commit" ELSE "push")
    BY <2>1, ActiveStepIs DEF Over
  <2>3. InOrder(b) /\ Claims(b)
    BY <1>1, <1>4, <1>5, <2>1 DEF InOrder, Claims, Over
  <2>4. Checkout(b) /\ Work(b) /\ InGate(b)
    BY <1>1, <1>3, <1>5, <2>1 DEF Checkout, Work, InGate, Over, Claims
  <2>5. advances \in Nat /\ advances <= 1 /\ (mode = "keys" => advances = 0)
    BY <1>1, <1>5 DEF WizardInv, WizardTyped, AdvancesBounded, Bound
  <2>6. mode # "keys" => \A t \in StepNames : b.steps[t] # "failed"
    BY <1>5, <2>1 DEF StepNames
  <2> QED BY <1>1, <1>4, <2>1, <2>2, <2>3, <2>4, <2>5, <2>6 DEF Ready, Bound
<1>6. CASE s = "commit"
  <2>1. /\ b.steps["commit"] = "done" /\ b.steps["branch"] = wiz.steps["branch"] /\ b.steps["push"] = wiz.steps["push"]
        /\ Over(wiz, "branch") /\ wiz.steps["push"] = "pending"
    BY <1>1, <1>6, ActiveStepIs DEF Moves, StepNames, InOrder, Over
  <2>2. activeStep(b) = "push"
    BY <2>1, ActiveStepIs DEF Over
  <2>3. InOrder(b) /\ Claims(b)
    BY <1>1, <1>4, <1>6, <2>1 DEF InOrder, Claims, Over
  <2>4. Checkout(b) /\ Work(b) /\ InGate(b)
    BY <1>1, <1>3, <1>6, <2>1 DEF Checkout, Work, InGate, Over, Claims
  <2>5. advances \in Nat /\ advances <= 2 /\ (mode = "keys" => advances = 0)
    BY <1>1, <1>6 DEF WizardInv, WizardTyped, AdvancesBounded, Bound
  <2>6. mode # "keys" => \A t \in StepNames : b.steps[t] # "failed"
    BY <1>6, <2>1 DEF StepNames, Over
  <2> QED BY <1>1, <1>4, <2>1, <2>2, <2>3, <2>4, <2>5, <2>6 DEF Ready, Bound
<1>7. CASE s = "push"
  <2>1. /\ b.steps["push"] = "done" /\ b.steps["branch"] = wiz.steps["branch"] /\ b.steps["commit"] = wiz.steps["commit"]
        /\ Over(wiz, "branch") /\ Over(wiz, "commit")
    BY <1>1, <1>7, ActiveStepIs DEF Moves, StepNames, InOrder, Over
  <2>2. activeStep(b) = "none"
    BY <2>1, ActiveStepIs DEF Over
  <2>3. InOrder(b) /\ Claims(b)
    BY <1>1, <1>4, <1>7, <2>1 DEF InOrder, Claims, Over
  <2>4. Checkout(b) /\ Work(b) /\ InGate(b)
    BY <1>1, <1>3, <1>7, <2>1 DEF Checkout, Work, InGate, Over, Claims
  <2>5. advances \in Nat /\ advances <= 3 /\ (mode = "keys" => advances = 0)
    BY <1>1, <1>7 DEF WizardInv, WizardTyped, AdvancesBounded, Bound
  <2>6. mode # "keys" => \A t \in StepNames : b.steps[t] # "failed"
    BY <1>7, <2>1 DEF StepNames, Over
  <2> QED BY <1>1, <1>4, <2>1, <2>2, <2>3, <2>4, <2>5, <2>6 DEF Ready, Bound
<1> QED BY <1>5, <1>6, <1>7 DEF StepNames

LEMMA ActionKeeps ==
    ASSUME WizardInv, NEW i \in DOMAIN jobs, handleAction(i)
    PROVE  WizardInv'
<1> DEFINE s == jobs[i].step
<1>1. i = 1 /\ jobs[1] \in JobRecords /\ jobs = <<jobs[1]>> /\ Others(i) = <<>>
  BY TheJob DEF WizardInv
<1>2. Running /\ Rest /\ Within /\ ~wiz.quitting /\ wiz \in Models /\ jobs[1].kind = "act"
  BY <1>1, RunningWithin DEF handleAction, Answered, WizardInv, WizardTyped
<1>3. s = activeStep(wiz) /\ s \in StepNames
  BY <1>1, <1>2 DEF WizardInv, InFlight, JobRecords
<1>4. CASE jobs[i].answer = "ok"
  <2> DEFINE b == [wiz EXCEPT !.steps[s] = "done",
                              !.target = IF s = "branch" THEN wiz.value ELSE @,
                              !.branchCreated = @ \/ s = "branch", !.commitMade = @ \/ s = "commit",
                              !.pushed = @ \/ s = "push"]
  <2>1. Enters(b, <<>>)
    BY <1>1, <1>3, <1>4 DEF handleAction
  <2>2. Ready(b)
    <3>1. /\ b \in Models /\ Moves(b, wiz, s, "done")
          /\ b.target = (IF s = "branch" THEN wiz.value ELSE wiz.target)
          /\ b.branchCreated = (wiz.branchCreated \/ s = "branch") /\ b.commitMade = (wiz.commitMade \/ s = "commit")
          /\ b.pushed = (wiz.pushed \/ s = "push")
          /\ b.failed = wiz.failed /\ b.quitting = wiz.quitting /\ b.success = wiz.success
          /\ b.waiting = wiz.waiting /\ b.waitStarted = wiz.waitStarted
      BY <1>2, <1>3, DoneIs
    <3> HIDE DEF b
    <3> QED BY <1>1, <1>2, <1>3, <1>4, <3>1, DoneIsReady
  <2>3. attach' \in [at : {"wizard"}, run : Names] /\ UNCHANGED <<mode, suggests, worldVars>>
    BY <1>2 DEF WizardInv, WizardTyped, Rest, Running
  <2> HIDE DEF b
  <2> QED BY <2>1, <2>2, <2>3, EntersKeeps DEF WizardInv
<1>5. CASE jobs[i].answer # "ok" /\ mode # "keys"
  BY <1>1, <1>2, <1>3, <1>5, GivesKeep DEF handleAction
<1>6. CASE jobs[i].answer # "ok" /\ mode = "keys"
  <2>1. wiz' = [wiz EXCEPT !.steps[s] = "failed"] /\ jobs' = <<>> /\ advances' = advances
    BY <1>1, <1>3, <1>6 DEF handleAction, Becomes
  <2>2. wiz' \in Models /\ Moves(wiz', wiz, s, "failed") /\ Alike(wiz', wiz)
    BY <1>2, <1>3, <2>1, SetStep DEF StepStates
  <2> QED BY <1>2, <1>3, <1>6, <2>1, <2>2, FallsBack
<1> QED BY <1>4, <1>5, <1>6

LEMMA WaitKeeps ==
    ASSUME WizardInv, NEW i \in DOMAIN jobs, handleWait(i)
    PROVE  WizardInv'
<1> DEFINE f == jobs[i].answer # "ok"
           b == [wiz EXCEPT !.waiting = FALSE, !.failed = f]
<1>1. i = 1 /\ jobs[1] \in JobRecords /\ jobs = <<jobs[1]>> /\ Others(i) = <<>>
  BY TheJob DEF WizardInv
<1>2. Running /\ Rest /\ ~wiz.quitting /\ wiz \in Models /\ jobs[1].kind = "wait"
  BY <1>1, RunningWithin DEF handleWait, Answered, WizardInv, WizardTyped
<1>3. activeStep(wiz) = "none" /\ wiz.waiting /\ jobs[1].value = wiz.target /\ wiz.pushed /\ wiz.waitStarted /\ ~wiz.success
  BY <1>1, <1>2 DEF WizardInv, InFlight, Awaited, Claims
<1>4. Enters(b, <<>>)
  BY <1>1 DEF handleWait
<1>5. /\ b \in Models /\ b.steps = wiz.steps /\ b.target = wiz.target /\ b.branchCreated = wiz.branchCreated
      /\ b.commitMade = wiz.commitMade /\ b.pushed = wiz.pushed /\ b.quitting = wiz.quitting /\ b.success = wiz.success
      /\ ~b.waiting /\ b.failed = f /\ b.waitStarted = wiz.waitStarted
  <2>1. f \in BOOLEAN
    OBVIOUS
  <2> HIDE DEF f
  <2> QED BY <1>2, <2>1 DEF Models
<1>6. ~f => started[wiz.target] \in {"active", "over"}
  BY <1>1, <1>2 DEF WizardInv, Told
<1> HIDE DEF b, f
<1>7. activeStep(b) = "none" /\ \A s : Over(b, s) <=> Over(wiz, s)
  BY <1>3, <1>5, ActiveStepIs DEF Over
<1>8. InOrder(b) /\ Claims(b) /\ Checkout(b) /\ Work(b) /\ InGate(b)
  BY <1>2, <1>3, <1>5, <1>7 DEF WizardInv, InOrder, Claims, Checkout, Work, InGate
<1>9. Ready(b)
  BY <1>2, <1>3, <1>5, <1>6, <1>7, <1>8 DEF Ready, WizardInv, Awaited, AdvancesBounded, Bound
<1>10. attach' \in [at : {"wizard"}, run : Names] /\ UNCHANGED <<mode, suggests, worldVars>>
  BY <1>2 DEF WizardInv, WizardTyped, Rest, Running
<1> QED BY <1>4, <1>9, <1>10, EntersKeeps DEF WizardInv

-----------------------------------------------------------------------------
(* The commands.                                                           *)

LEMMA AnswersIs ==
    ASSUME WizardTyped, NEW i \in DOMAIN jobs, NEW a \in {"ok", "err"}, NEW v \in Names, Answers(i, a, v)
    PROVE  /\ UNCHANGED <<mode, attach, wiz, advances>> /\ i = 1 /\ DOMAIN jobs' = {1} /\ jobs' # <<>> /\ jobs # <<>>
           /\ jobs' = <<jobs'[1]>> /\ jobs'[1] \in JobRecords
           /\ jobs'[1].kind = jobs[1].kind /\ jobs'[1].step = jobs[1].step /\ jobs'[1].answer = a /\ jobs'[1].value = v
<1>1. i = 1 /\ jobs[1] \in JobRecords /\ jobs = <<jobs[1]>>
  BY TheJob
<1> DEFINE j == jobs[1]
           k == [j EXCEPT !.answer = a, !.value = v]
<1>2. jobs' = [jobs EXCEPT ![1] = k]
  BY <1>1 DEF Answers, JobRecords
<1>3. k \in JobRecords /\ k.kind = j.kind /\ k.step = j.step /\ k.answer = a /\ k.value = v
  BY <1>1 DEF JobRecords
<1> HIDE DEF k, j
<1>4. jobs' = <<k>>
  BY <1>1, <1>2
<1> QED BY <1>1, <1>3, <1>4 DEF Answers, j

\* An answer changes nothing that the wizard knows: what speaks of it is what the
\* answer says, and what its effect was.
LEMMA Answered1 ==
    ASSUME WizardInv, NEW i \in DOMAIN jobs, NEW a \in {"ok", "err"}, NEW v \in Names, Answers(i, a, v),
           (jobs[1].kind # "suggest" /\ v = jobs[1].value) \/ (jobs[1].kind = "suggest" /\ (a = "ok" => v \in {Topic, Fresh})),
           WizardTyped', Checkout(wiz)', Work(wiz)', InGate(wiz)', Told', UNCHANGED started \/ jobs[1].kind = "act"
    PROVE  WizardInv'
<1>1. /\ UNCHANGED <<mode, attach, wiz, advances>> /\ i = 1 /\ DOMAIN jobs' = {1} /\ jobs' # <<>> /\ jobs # <<>>
      /\ jobs'[1].kind = jobs[1].kind /\ jobs'[1].step = jobs[1].step /\ jobs'[1].answer = a /\ jobs'[1].value = v
  BY AnswersIs DEF WizardInv
<1>2. InOrder(wiz)' /\ Claims(wiz)'
  BY <1>1 DEF WizardInv, InOrder, Claims, Over
<1>3. Awaited' /\ InFlight'
  BY <1>1 DEF WizardInv, Awaited, InFlight, Running, Status
<1>4. Phases' /\ AdvancesBounded'
  BY <1>1 DEF WizardInv, Phases, AdvancesBounded, Bound
<1> QED BY <1>2, <1>3, <1>4 DEF WizardInv

\* Without a change of the world, an answer need not say anything.
LEMMA QuietAnswer ==
    ASSUME WizardInv, NEW i \in DOMAIN jobs, NEW a \in {"ok", "err"}, NEW v \in Names, Answers(i, a, v),
           (jobs[1].kind # "suggest" /\ v = jobs[1].value) \/ (jobs[1].kind = "suggest" /\ (a = "ok" => v \in {Topic, Fresh})),
           UNCHANGED worldVars, suggests' \in [agent : {"unknown", "set", "unusable"}, cached : {NoName, Fresh}],
           a = "ok" => jobs[1].kind = "suggest" \/ (jobs[1].kind = "wait" /\ started[wiz.target] \in {"active", "over"})
    PROVE  WizardInv'
<1>1. /\ UNCHANGED <<mode, attach, wiz, advances>> /\ i = 1 /\ DOMAIN jobs' = {1} /\ jobs' = <<jobs'[1]>> /\ jobs'[1] \in JobRecords
      /\ jobs'[1].kind = jobs[1].kind /\ jobs'[1].step = jobs[1].step /\ jobs'[1].answer = a /\ jobs'[1].value = v
  BY AnswersIs DEF WizardInv
<1>2. WizardTyped' /\ Checkout(wiz)' /\ Work(wiz)' /\ InGate(wiz)'
  BY <1>1 DEF WizardInv, WizardTyped, WorldTyped, Checkout, Work, InGate, Over, worldVars
<1>3. Told'
  BY <1>1 DEF Told, worldVars
<1>4. UNCHANGED started
  BY DEF worldVars
<1> QED BY <1>2, <1>3, <1>4, Answered1

LEMMA SuggestedKeeps == ASSUME WizardInv, NEW i \in DOMAIN jobs, SuggestAnswers(i) PROVE WizardInv'
<1>1. jobs[1].kind = "suggest" /\ UNCHANGED worldVars /\ i = 1
  BY TheJob DEF WizardInv, SuggestAnswers, Open
<1>2. /\ suggests \in [agent : {"unknown", "set", "unusable"}, cached : {NoName, Fresh}]
      /\ NoName \in Names /\ Fresh \in Names /\ Topic \in Names
  BY DEF WizardInv, WizardTyped, Names
<1>3. CASE jobs[i].step = "commit" /\ suggests.cached # NoName
  <2>1. suggests' = [agent |-> "set", cached |-> NoName] /\ Answers(i, "ok", suggests.cached) /\ suggests.cached = Fresh
    BY <1>2, <1>3 DEF SuggestAnswers
  <2> QED BY <2>1, <1>1, <1>2, QuietAnswer
<1>4. CASE ~(jobs[i].step = "commit" /\ suggests.cached # NoName)
  <2>1. PICK a \in {"ok", "err"}, v \in {NoName, Topic, Fresh} :
            /\ Answers(i, a, v) /\ (a = "ok" => v \in {Topic, Fresh})
            /\ suggests' \in [agent : {"unknown", "set", "unusable"}, cached : {NoName, Fresh}]
    BY <1>2, <1>4 DEF SuggestAnswers
  <2> QED BY <2>1, <1>1, <1>2, QuietAnswer
<1> QED BY <1>3, <1>4

LEMMA WaitedKeeps == ASSUME WizardInv, NEW i \in DOMAIN jobs, WaitAnswers(i) PROVE WizardInv'
<1>1. jobs[1].kind = "wait" /\ UNCHANGED <<suggests, worldVars>> /\ i = 1 /\ jobs[1] \in JobRecords /\ jobs[1].value = wiz.target
  BY TheJob DEF WizardInv, WaitAnswers, Open, InFlight
<1>2. PICK a \in {"ok", "err"} : Answers(i, a, jobs[i].value) /\ (a = "ok" => started[wiz.target] = "active")
  BY <1>1 DEF WaitAnswers
<1>3. suggests' \in [agent : {"unknown", "set", "unusable"}, cached : {NoName, Fresh}] /\ jobs[i].value \in Names
  BY <1>1 DEF WizardInv, WizardTyped, JobRecords
<1> QED BY <1>1, <1>2, <1>3, QuietAnswer

LEMMA KilledKeeps == ASSUME WizardInv, NEW i \in DOMAIN jobs, Killed(i) PROVE WizardInv'
<1>1. /\ wiz.quitting /\ wiz' = wiz /\ jobs' = <<>> /\ UNCHANGED <<advances, mode, attach, suggests, worldVars>>
  BY TheJob DEF WizardInv, Killed, Becomes, Rest
<1>2. WizardTyped'
  BY <1>1 DEF WizardInv, WizardTyped, WorldTyped, worldVars
<1>3. InOrder(wiz)' /\ Claims(wiz)' /\ Checkout(wiz)' /\ Work(wiz)' /\ InGate(wiz)'
  BY <1>1 DEF WizardInv, InOrder, Claims, Checkout, Work, InGate, Over, worldVars
<1>4. Awaited' /\ InFlight' /\ Told'
  BY <1>1 DEF Awaited, InFlight, Told, Running
<1>5. Phases' /\ AdvancesBounded'
  BY <1>1 DEF WizardInv, Phases, AdvancesBounded, Bound, worldVars
<1> QED BY <1>2, <1>3, <1>4, <1>5 DEF WizardInv

\* The command of an active step, and the steps before it.
LEMMA TheAction ==
    ASSUME WizardInv, NEW i \in DOMAIN jobs, Open(i, "act"), NEW s \in StepNames, jobs[i].step = s
    PROVE  /\ i = 1 /\ jobs[1] \in JobRecords /\ jobs[1].kind = "act" /\ jobs[1].value \in Names
           /\ activeStep(wiz) = s /\ wiz.steps[s] = "running"
           /\ s = "push" => jobs[1].value = wiz.target
           /\ s # "push" => jobs[1].value = wiz.value /\ wiz.value \in {Topic, Fresh}
           /\ s = "branch" => ~Over(wiz, "branch") /\ ~wiz.commitMade /\ ~wiz.pushed /\ ~wiz.branchCreated
           /\ s = "commit" => Over(wiz, "branch") /\ ~wiz.commitMade /\ ~wiz.pushed
           /\ s = "push" => Over(wiz, "branch") /\ Over(wiz, "commit") /\ ~wiz.pushed
           /\ Over(wiz, "branch") => wiz.target \in {Topic, Fresh}
<1>1. i = 1 /\ jobs[1] \in JobRecords /\ jobs[1].kind = "act"
  BY TheJob DEF WizardInv, Open
<1>2. activeStep(wiz) = s /\ wiz.steps[s] = "running"
  BY <1>1 DEF WizardInv, InFlight
<1>3. /\ s = "push" => jobs[1].value = wiz.target
      /\ s # "push" => jobs[1].value = wiz.value /\ wiz.value \in {Topic, Fresh}
  BY <1>1 DEF WizardInv, InFlight
<1>4. /\ s = "branch" => ~Over(wiz, "branch")
      /\ s = "commit" => Over(wiz, "branch") /\ ~Over(wiz, "commit")
      /\ s = "push" => Over(wiz, "branch") /\ Over(wiz, "commit") /\ ~Over(wiz, "push")
  BY <1>2, ActiveStepIs DEF StepNames
<1>5. /\ ~Over(wiz, "branch") => ~wiz.branchCreated /\ ~wiz.commitMade /\ ~wiz.pushed
      /\ ~Over(wiz, "commit") => ~wiz.commitMade /\ ~wiz.pushed
      /\ ~Over(wiz, "push") => ~wiz.pushed
  BY DEF WizardInv, InOrder, Claims, Over
<1>6. Over(wiz, "branch") => wiz.target \in {Topic, Fresh}
  BY DEF WizardInv, Checkout, Over
<1>7. jobs[1].value \in Names
  BY <1>1 DEF JobRecords
<1> QED BY <1>1, <1>2, <1>3, <1>4, <1>5, <1>6, <1>7

\* A command that fails without an effect.
LEMMA FailedCommand ==
    ASSUME WizardInv, NEW i \in DOMAIN jobs, jobs[i].kind = "act", Answers(i, "err", jobs[i].value),
           UNCHANGED <<suggests, worldVars>>
    PROVE  WizardInv'
<1>1. i = 1 /\ jobs[1] \in JobRecords /\ jobs[1].value \in Names
  BY TheJob DEF WizardInv, JobRecords
<1>2. suggests' \in [agent : {"unknown", "set", "unusable"}, cached : {NoName, Fresh}]
  BY DEF WizardInv, WizardTyped
<1> QED BY <1>1, <1>2, QuietAnswer

LEMMA CreatedKeeps == ASSUME WizardInv, NEW i \in DOMAIN jobs, CreateBranch(i) PROVE WizardInv'
<1>1. Open(i, "act") /\ jobs[i].step = "branch" /\ UNCHANGED <<suggests, gate, started>> /\ "branch" \in StepNames /\ jobs[i].kind = "act"
  BY DEF CreateBranch, StepNames, Open
<1>2. /\ i = 1 /\ jobs[1].kind = "act" /\ jobs[1].value \in Names /\ jobs[1].value = wiz.value /\ wiz.value \in {Topic, Fresh}
      /\ ~Over(wiz, "branch") /\ ~wiz.commitMade /\ ~wiz.pushed
  BY <1>1, TheAction
<1>3. CASE UNCHANGED repo /\ Answers(i, "err", jobs[i].value)
  BY <1>1, <1>3, FailedCommand DEF worldVars
<1>4. CASE ~(UNCHANGED repo /\ Answers(i, "err", jobs[i].value))
  <2>1. /\ wiz.value \notin repo.branches /\ Answers(i, "ok", wiz.value)
        /\ repo' = [repo EXCEPT !.head = wiz.value, !.branches = @ \cup {wiz.value},
                                !.work = @ \cup (IF repo.head \in @ THEN {wiz.value} ELSE {})]
    BY <1>2, <1>4 DEF CreateBranch
  <2>2. wiz.value = Fresh
    BY <1>2, <2>1 DEF WizardInv, Checkout
  <2>3. WorldTyped
    BY DEF WizardInv, WizardTyped
  <2> DEFINE w == repo.work \cup (IF repo.head \in repo.work THEN {Fresh} ELSE {})
  <2>4. /\ repo.work \subseteq w /\ w \subseteq repo.work \cup {Fresh} /\ w \in SUBSET (Branches \cup {Detached})
    BY <2>3 DEF WorldTyped, Branches
  <2>5. repo' = [repo EXCEPT !.head = Fresh, !.branches = @ \cup {Fresh}, !.work = w]
    BY <2>1, <2>2, <2>3 DEF WorldTyped
  <2> HIDE DEF w
  <2>6. /\ repo' \in [head : Branches \cup {Detached}, branches : SUBSET Branches, dirty : BOOLEAN,
                      work : SUBSET (Branches \cup {Detached}), moved : BOOLEAN, began : BOOLEAN]
        /\ repo'.head = Fresh /\ repo'.branches = repo.branches \cup {Fresh} /\ repo'.work = w
        /\ repo'.dirty = repo.dirty /\ repo'.moved = repo.moved /\ repo'.began = repo.began
    BY <2>3, <2>4, <2>5 DEF WorldTyped, Branches
  <2>7. /\ UNCHANGED <<mode, attach, wiz, advances>> /\ DOMAIN jobs' = {1} /\ jobs' = <<jobs'[1]>> /\ jobs'[1] \in JobRecords
        /\ jobs'[1].kind = "act" /\ jobs'[1].step = "branch" /\ jobs'[1].answer = "ok" /\ jobs'[1].value = Fresh
    BY <1>1, <1>2, <2>1, <2>2, AnswersIs DEF WizardInv
  <2>8. WizardTyped'
    BY <1>1, <2>6, <2>7 DEF WizardInv, WizardTyped, WorldTyped
  <2>9. Checkout(wiz)' /\ Work(wiz)' /\ InGate(wiz)'
    BY <1>1, <1>2, <2>4, <2>6, <2>7, NamesDiffer DEF WizardInv, Checkout, Work, InGate, Over
  <2>10. Told'
    BY <2>2, <2>6, <2>7 DEF Told
  <2> QED BY <1>2, <2>1, <2>8, <2>9, <2>10, Answered1
<1> QED BY <1>3, <1>4

LEMMA CommittedKeeps == ASSUME WizardInv, NEW i \in DOMAIN jobs, CommitAll(i) PROVE WizardInv'
<1>1. Open(i, "act") /\ jobs[i].step = "commit" /\ UNCHANGED <<suggests, gate, started>> /\ "commit" \in StepNames /\ jobs[i].kind = "act"
  BY DEF CommitAll, StepNames, Open
<1>2. /\ i = 1 /\ jobs[1].kind = "act" /\ jobs[1].value \in Names /\ Over(wiz, "branch") /\ ~wiz.commitMade /\ ~wiz.pushed
      /\ wiz.target \in {Topic, Fresh}
  BY <1>1, TheAction
<1>3. CASE UNCHANGED repo /\ Answers(i, "err", jobs[i].value)
  BY <1>1, <1>3, FailedCommand DEF worldVars
<1>4. CASE ~(UNCHANGED repo /\ Answers(i, "err", jobs[i].value))
  <2>1. Answers(i, "ok", jobs[1].value) /\ repo' = [repo EXCEPT !.dirty = FALSE, !.work = @ \cup {repo.head}]
    BY <1>2, <1>4 DEF CommitAll
  <2>2. WorldTyped
    BY DEF WizardInv, WizardTyped
  <2>3. /\ repo' \in [head : Branches \cup {Detached}, branches : SUBSET Branches, dirty : BOOLEAN,
                      work : SUBSET (Branches \cup {Detached}), moved : BOOLEAN, began : BOOLEAN]
        /\ repo'.head = repo.head /\ repo'.branches = repo.branches /\ repo'.work = repo.work \cup {repo.head}
        /\ ~repo'.dirty /\ repo'.moved = repo.moved /\ repo'.began = repo.began
    BY <2>1, <2>2 DEF WorldTyped
  <2>4. /\ UNCHANGED <<mode, attach, wiz, advances>> /\ DOMAIN jobs' = {1} /\ jobs' = <<jobs'[1]>> /\ jobs'[1] \in JobRecords
        /\ jobs'[1].kind = "act" /\ jobs'[1].step = "commit" /\ jobs'[1].answer = "ok"
    BY <1>1, <1>2, <2>1, AnswersIs DEF WizardInv
  <2>5. WizardTyped'
    BY <1>1, <2>3, <2>4 DEF WizardInv, WizardTyped, WorldTyped
  <2>6. Checkout(wiz)' /\ Work(wiz)' /\ InGate(wiz)'
    BY <1>1, <1>2, <2>3, <2>4, NamesDiffer DEF WizardInv, Checkout, Work, InGate, Over
  <2>7. Told'
    BY <1>2, <2>3, <2>4 DEF Told, WizardInv, Checkout
  <2> QED BY <1>2, <2>1, <2>5, <2>6, <2>7, Answered1
<1> QED BY <1>3, <1>4

LEMMA PushedKeeps == ASSUME WizardInv, NEW i \in DOMAIN jobs, PushGate(i) PROVE WizardInv'
<1>1. Open(i, "act") /\ jobs[i].step = "push" /\ UNCHANGED <<suggests, repo>> /\ "push" \in StepNames /\ jobs[i].kind = "act"
  BY DEF PushGate, StepNames, Open
<1>2. /\ i = 1 /\ jobs[1].kind = "act" /\ jobs[1].value \in Names /\ jobs[1].value = wiz.target
      /\ Over(wiz, "branch") /\ Over(wiz, "commit") /\ ~wiz.pushed /\ wiz.target \in {Topic, Fresh}
  BY <1>1, TheAction
<1>3. CASE UNCHANGED <<gate, started>> /\ Answers(i, "err", jobs[i].value)
  BY <1>1, <1>3, FailedCommand DEF worldVars
<1>4. CASE ~(UNCHANGED <<gate, started>> /\ Answers(i, "err", jobs[i].value))
  <2> DEFINE b == wiz.target
             tip == IF b \in repo.work THEN "work" ELSE "base"
  <2>1. PICK a \in {"ok", "err"} :
            /\ Answers(i, a, b) /\ gate' = [gate EXCEPT ![b] = tip]
            /\ started' = [started EXCEPT ![b] = "pending"] \/ UNCHANGED started
    BY <1>2, <1>4 DEF PushGate
  <2>2. WorldTyped /\ b \in Branches
    BY <1>2 DEF WizardInv, WizardTyped, Branches
  <2>3. /\ gate' \in [Branches -> {"absent", "base", "work"}] /\ gate'[b] = tip
        /\ \A c \in Branches \ {b} : gate'[c] = gate[c]
        /\ started' \in [Branches -> {"none", "pending", "active", "over"}]
    BY <2>1, <2>2 DEF WorldTyped
  <2>4. /\ UNCHANGED <<mode, attach, wiz, advances>> /\ DOMAIN jobs' = {1} /\ jobs' = <<jobs'[1]>> /\ jobs'[1] \in JobRecords
        /\ jobs'[1].kind = "act" /\ jobs'[1].step = "push"
    BY <1>1, <1>2, <2>1, AnswersIs DEF WizardInv
  <2>5. WizardTyped'
    BY <1>1, <2>2, <2>3, <2>4 DEF WizardInv, WizardTyped, WorldTyped
  <2>6. repo.began /\ ~repo.moved => tip = "work"
    BY <1>2 DEF WizardInv, Work, Claims, Over
  <2> HIDE DEF tip
  <2>7. tip # "absent"
    BY DEF tip
  <2>8. Checkout(wiz)'
    BY <1>1, <1>2, <2>2, <2>3, <2>4, NamesDiffer DEF WizardInv, Checkout, Over, Branches
  <2>9. Work(wiz)' /\ InGate(wiz)'
    BY <1>1, <1>2, <2>4 DEF WizardInv, Work, InGate, Over
  <2>10. Told'
    BY <1>1, <2>3, <2>4, <2>6, <2>7 DEF Told
  <2> QED BY <1>2, <2>1, <2>5, <2>8, <2>9, <2>10, Answered1
<1> QED BY <1>3, <1>4

-----------------------------------------------------------------------------
(* The caller and the world.                                               *)

LEMMA NewModelIs ==
    ASSUME WorldTyped
    PROVE  /\ NewModel \in Models
           /\ NewModel.steps["branch"] = IF needsBranch THEN "pending" ELSE "skipped"
           /\ NewModel.steps["commit"] = IF repo.dirty THEN "pending" ELSE "skipped"
           /\ NewModel.steps["push"] = "pending" /\ NewModel.target = repo.head
           /\ ~NewModel.branchCreated /\ ~NewModel.commitMade /\ ~NewModel.pushed /\ ~NewModel.failed
           /\ ~NewModel.quitting /\ ~NewModel.success /\ ~NewModel.waiting /\ ~NewModel.waitStarted
<1> DEFINE of(s) == CASE s = "branch" /\ ~needsBranch -> "skipped"
                      [] s = "commit" /\ ~repo.dirty -> "skipped"
                      [] OTHER -> "pending"
           steps == [s \in StepNames |-> of(s)]
<1>1. /\ of("branch") = (IF needsBranch THEN "pending" ELSE "skipped")
      /\ of("commit") = (IF repo.dirty THEN "pending" ELSE "skipped")
      /\ of("push") = "pending"
  OBVIOUS
<1>2. \A s \in StepNames : of(s) \in {"pending", "skipped"}
  BY <1>1 DEF StepNames
<1> HIDE DEF of
<1>3. /\ steps \in [StepNames -> {"pending", "skipped"}] /\ steps["branch"] = of("branch")
      /\ steps["commit"] = of("commit") /\ steps["push"] = of("push")
  BY <1>2 DEF StepNames
<1>4. NewModel = [steps |-> steps, typed |-> NoName, value |-> NoName, target |-> repo.head,
     branchCreated |-> FALSE, commitMade |-> FALSE, pushed |-> FALSE,
     confirmQuit |-> FALSE, failed |-> FALSE, quitting |-> FALSE, success |-> FALSE, aborted |-> FALSE,
     waiting |-> FALSE, waitStarted |-> FALSE]
  BY StepIdsAre DEF NewModel, of
<1>5. repo.head \in Names /\ NoName \in Entered
  BY DEF WorldTyped, Branches, Names, Entered
<1> HIDE DEF steps
<1> QED BY <1>1, <1>3, <1>4, <1>5 DEF Models

\* The wizard may be entered as soon as it is made.
LEMMA StartKeeps == ASSUME WizardInv, AttachRun PROVE WizardInv'
<1>1. /\ attach.at = "start" /\ UNCHANGED <<mode, suggests, worldVars>> /\ wiz = NewModel /\ jobs = <<>> /\ advances = 0
      /\ InOrder(NewModel) /\ Claims(NewModel) /\ Checkout(NewModel) /\ Work(NewModel) /\ InGate(NewModel)
      /\ WorldTyped /\ WizardTyped
  BY DEF AttachRun, WizardInv, Phases, WizardTyped
<1>2. CASE Enters(NewModel, <<>>) /\ attach' = [attach EXCEPT !.at = "wizard"]
  <2>1. NewModel \in Models /\ activeStep(NewModel) # "none" /\ ~NewModel.quitting /\ ~NewModel.success /\ ~NewModel.waiting
        /\ NewModel.steps[activeStep(NewModel)] = "pending" /\ \A s \in StepNames : NewModel.steps[s] # "failed"
    BY <1>1, NewModelIs, ActiveStepIs DEF Over, StepNames
  <2>2. Ready(NewModel)
    BY <1>1, <2>1 DEF Ready, Bound
  <2>3. attach' \in [at : {"wizard"}, run : Names]
    BY <1>1, <1>2 DEF WizardTyped
  <2> QED BY <1>1, <1>2, <2>2, <2>3, EntersKeeps
<1>3. CASE ~(Enters(NewModel, <<>>) /\ attach' = [attach EXCEPT !.at = "wizard"])
  <2>1. attach' = [at |-> "attached", run |-> repo.head] /\ UNCHANGED <<wiz, jobs, advances>>
    BY <1>1, <1>3 DEF AttachRun
  <2>2. WizardTyped'
    BY <1>1, <2>1 DEF WizardTyped, WorldTyped, worldVars, Branches, Names
  <2>3. InOrder(wiz)' /\ Claims(wiz)' /\ Checkout(wiz)' /\ Work(wiz)' /\ InGate(wiz)'
    BY <1>1, <2>1 DEF WizardInv, InOrder, Claims, Checkout, Work, InGate, Over, worldVars
  <2>4. Awaited' /\ InFlight' /\ Told'
    BY <1>1, <2>1 DEF Awaited, InFlight, Told, Running
  <2>5. Phases' /\ AdvancesBounded'
    BY <1>1, <2>1, NewModelIs DEF WizardInv, Phases, AdvancesBounded, Bound
  <2> QED BY <2>2, <2>3, <2>4, <2>5 DEF WizardInv
<1> QED BY <1>2, <1>3

\* Only the caller moves on.
LEMMA CallerKeeps ==
    ASSUME WizardInv, attach' \in [at : {"await", "attached", "nothing", "error"}, run : Names], wiz.quitting,
           attach'.at = "await" => wiz.success,
           attach'.at = "attached" /\ wiz.success => started[wiz.target] \in {"active", "over"},
           UNCHANGED <<mode, wiz, jobs, advances, suggests, worldVars>>
    PROVE  WizardInv'
<1>1. WizardTyped'
  BY DEF WizardInv, WizardTyped, WorldTyped, worldVars
<1>2. InOrder(wiz)' /\ Claims(wiz)' /\ Checkout(wiz)' /\ Work(wiz)' /\ InGate(wiz)'
  BY DEF WizardInv, InOrder, Claims, Checkout, Work, InGate, Over, worldVars
<1>3. Awaited' /\ InFlight' /\ Told'
  BY DEF WizardInv, Awaited, InFlight, Told, Running, worldVars
<1>4. Phases' /\ AdvancesBounded'
  BY DEF WizardInv, Phases, AdvancesBounded, Bound, worldVars
<1> QED BY <1>1, <1>2, <1>3, <1>4 DEF WizardInv

LEMMA AttachKeeps == ASSUME WizardInv, WizardReturns \/ AwaitRun \/ CallerCancels PROVE WizardInv'
<1>1. WizardTyped /\ attach \in [at : {"start", "wizard", "await", "attached", "nothing", "error"}, run : Names]
      /\ wiz \in Models /\ WorldTyped
  BY DEF WizardInv, WizardTyped
<1>2. CASE WizardReturns
  <2>1. attach' \in [at : {"await", "attached", "nothing", "error"}, run : Names] /\ wiz.quitting
        /\ (attach'.at = "await" => wiz.success) /\ attach'.at # "attached"
    BY <1>1, <1>2 DEF WizardReturns
  <2> QED BY <1>2, <2>1, CallerKeeps DEF WizardReturns
<1>3. CASE AwaitRun
  <2>1. wiz.success /\ wiz.quitting /\ attach.at = "await"
    BY <1>3 DEF AwaitRun, WizardInv, Phases, Claims
  <2>2. attach' \in [at : {"await", "attached", "nothing", "error"}, run : Names] /\ attach'.at # "await"
        /\ (attach'.at = "attached" => started[wiz.target] \in {"active", "over"})
    BY <1>1, <1>3 DEF AwaitRun, Models
  <2> QED BY <1>3, <2>1, <2>2, CallerKeeps DEF AwaitRun
<1>4. CASE CallerCancels
  <2>1. LET q == [wiz EXCEPT !.quitting = TRUE] IN
          /\ q \in Models /\ q.quitting /\ q.steps = wiz.steps /\ q.value = wiz.value /\ q.target = wiz.target
          /\ q.waiting = wiz.waiting /\ q.branchCreated = wiz.branchCreated /\ q.commitMade = wiz.commitMade
          /\ q.pushed = wiz.pushed /\ q.waitStarted = wiz.waitStarted /\ q.success = wiz.success
    BY <1>1 DEF Models
  <2>2. wiz' = [wiz EXCEPT !.quitting = TRUE] /\ jobs' = jobs /\ advances' = advances
        /\ attach' \in [at : {"wizard", "error"}, run : Names] /\ UNCHANGED <<mode, suggests, worldVars>>
        /\ attach.at = "wizard" /\ ~wiz.quitting
    BY <1>1, <1>4 DEF CallerCancels, Quits, Becomes, Running
  <2> QED BY <2>1, <2>2, Ends
<1> QED BY <1>2, <1>3, <1>4

LEMMA RunMovesKeeps == ASSUME WizardInv, NEW b \in Branches, RunMoves(b) PROVE WizardInv'
<1>1. /\ UNCHANGED <<mode, attach, wiz, jobs, advances, suggests, repo, gate>> /\ Watched
      /\ started \in [Branches -> {"none", "pending", "active", "over"}]
  BY DEF RunMoves, WizardInv, WizardTyped, WorldTyped
<1>2. /\ started' \in [Branches -> {"none", "pending", "active", "over"}]
      /\ \A c \in Branches : started[c] \in {"active", "over"} => started'[c] \in {"active", "over"}
  BY <1>1 DEF RunMoves
<1>3. WizardTyped'
  BY <1>1, <1>2 DEF WizardInv, WizardTyped, WorldTyped
<1>4. InOrder(wiz)' /\ Claims(wiz)' /\ Checkout(wiz)' /\ Work(wiz)' /\ InGate(wiz)'
  BY <1>1 DEF WizardInv, InOrder, Claims, Checkout, Work, InGate, Over
<1>5. wiz.pushed => wiz.target \in Branches
  BY DEF WizardInv, Claims, InOrder, Checkout, Over, Branches
<1>6. Told'
  <2>1. \A i \in DOMAIN jobs : jobs[i].kind = "wait" => wiz.pushed
    BY DEF WizardInv, InFlight, Claims
  <2> QED BY <1>1, <1>2, <1>5, <2>1 DEF WizardInv, Told
<1>7. Awaited' /\ InFlight' /\ AdvancesBounded'
  BY <1>1 DEF WizardInv, Awaited, InFlight, Running, Status, AdvancesBounded, Bound
<1>8. Phases'
  <2>1. NewModel' = NewModel
    BY <1>1 DEF NewModel, needsBranch
  <2> QED BY <1>1, <1>2, <1>5, <2>1 DEF WizardInv, Phases, Claims
<1> QED BY <1>3, <1>4, <1>6, <1>7, <1>8 DEF WizardInv

LEMMA SomebodyKeeps == ASSUME WizardInv, SomebodyElse PROVE WizardInv'
<1>1. /\ UNCHANGED <<mode, attach, wiz, jobs, advances, suggests, gate, started>> /\ Running /\ WorldTyped /\ WizardTyped
  BY DEF SomebodyElse, WizardInv, WizardTyped
<1>2. /\ repo' \in [head : Branches \cup {Detached}, branches : SUBSET Branches, dirty : BOOLEAN,
                    work : SUBSET (Branches \cup {Detached}), moved : BOOLEAN, began : BOOLEAN]
      /\ repo'.moved /\ repo'.branches = repo.branches /\ repo'.began = repo.began /\ (repo'.dirty => repo.dirty)
  <2>1. CASE \E b \in repo.branches \ {repo.head} : repo' = [repo EXCEPT !.moved = TRUE, !.head = b]
    <3>1. PICK b \in repo.branches : repo' = [repo EXCEPT !.moved = TRUE, !.head = b]
      BY <2>1
    <3>2. b \in Branches \cup {Detached}
      BY <1>1 DEF WorldTyped
    <3> QED BY <1>1, <3>1, <3>2 DEF WorldTyped
  <2>2. CASE repo' = [repo EXCEPT !.moved = TRUE, !.dirty = FALSE, !.work = {repo.head}]
    BY <1>1, <2>2 DEF WorldTyped
  <2> QED BY <2>1, <2>2 DEF SomebodyElse
<1>3. WizardTyped'
  BY <1>1, <1>2 DEF WizardTyped, WorldTyped
<1>4. InOrder(wiz)' /\ Claims(wiz)' /\ Checkout(wiz)' /\ Work(wiz)' /\ InGate(wiz)'
  BY <1>1, <1>2 DEF WizardInv, InOrder, Claims, Checkout, Work, InGate, Over, WorldTyped
<1>5. Awaited' /\ InFlight' /\ AdvancesBounded'
  BY <1>1 DEF WizardInv, Awaited, InFlight, Running, Status, AdvancesBounded, Bound
<1>6. Told'
  BY <1>1, <1>2 DEF WizardInv, Told, WorldTyped
<1>7. Phases'
  BY <1>1 DEF WizardInv, Phases, Running
<1> QED BY <1>3, <1>4, <1>5, <1>6, <1>7 DEF WizardInv

-----------------------------------------------------------------------------

LEMMA WizardInitInv == ASSUME WizardInit PROVE WizardInv
<1>1. /\ repo.head \in {Default, Topic, Detached} /\ repo.branches = {Default, Topic} /\ repo.dirty \in BOOLEAN
      /\ repo.work = {} /\ ~repo.moved /\ repo.began = repo.dirty
      /\ repo \in [head : Branches \cup {Detached}, branches : SUBSET Branches, dirty : BOOLEAN,
                   work : SUBSET (Branches \cup {Detached}), moved : BOOLEAN, began : BOOLEAN]
  BY DEF WizardInit, Branches
<1>2. /\ gate \in [Branches -> {"absent", "base", "work"}] /\ \A b \in Branches : gate[b] = "absent"
  BY DEF WizardInit
<1>3. started \in [Branches -> {"none", "pending", "active", "over"}]
  BY DEF WizardInit
<1>4. WorldTyped
  BY <1>1, <1>2, <1>3 DEF WorldTyped
<1>5. /\ mode \in {"keys", "auto", "headless"} /\ attach = [at |-> "start", run |-> NoName] /\ wiz = NewModel /\ jobs = <<>>
      /\ advances = 0 /\ suggests = [agent |-> "unknown", cached |-> NoName]
  BY DEF WizardInit
<1>6. WizardTyped
  BY <1>4, <1>5, NewModelIs DEF WizardTyped, Names
<1>7. needsBranch <=> repo.head \in {Default, Detached}
  BY DEF needsBranch
<1>8. InOrder(wiz) /\ Claims(wiz)
  <2>1. /\ wiz.branchCreated = FALSE /\ wiz.commitMade = FALSE /\ wiz.pushed = FALSE
        /\ wiz.success = FALSE /\ wiz.waiting = FALSE /\ wiz.waitStarted = FALSE
    BY <1>4, <1>5, NewModelIs DEF Models
  <2>2. wiz.steps["branch"] \in {"pending", "skipped"} /\ wiz.steps["commit"] \in {"pending", "skipped"} /\ wiz.steps["push"] = "pending"
    BY <1>4, <1>5, NewModelIs
  <2> QED BY <2>1, <2>2 DEF InOrder, Claims, Over
<1>9. Checkout(wiz) /\ Work(wiz) /\ InGate(wiz)
  BY <1>1, <1>2, <1>4, <1>5, <1>7, NewModelIs, NamesDiffer DEF Checkout, Work, InGate, Over, Branches
<1>10. Awaited /\ InFlight /\ Told
  BY <1>5 DEF Awaited, InFlight, Told, Running
<1>11. Phases /\ AdvancesBounded
  BY <1>1, <1>2, <1>4, <1>5, NewModelIs, NamesDiffer DEF Phases, AdvancesBounded, Bound
<1> QED BY <1>6, <1>8, <1>9, <1>10, <1>11 DEF WizardInv

LEMMA WizardStep == ASSUME WizardInv, [WizardNext]_wizardVars PROVE WizardInv'
<1>1. CASE UNCHANGED wizardVars
  <2>1. UNCHANGED <<mode, attach, wiz, jobs, advances, suggests, repo, gate, started>>
    BY <1>1 DEF wizardVars, worldVars
  <2>2. WizardTyped'
    BY <2>1 DEF WizardInv, WizardTyped, WorldTyped
  <2>3. InOrder(wiz)' /\ Claims(wiz)' /\ Checkout(wiz)' /\ Work(wiz)' /\ InGate(wiz)'
    BY <2>1 DEF WizardInv, InOrder, Claims, Checkout, Work, InGate, Over
  <2>4. Awaited' /\ InFlight' /\ Told' /\ AdvancesBounded'
    BY <2>1 DEF WizardInv, Awaited, InFlight, Told, Running, Status, AdvancesBounded, Bound
  <2>5. Phases'
    BY <2>1 DEF WizardInv, Phases, NewModel, needsBranch
  <2> QED BY <2>2, <2>3, <2>4, <2>5 DEF WizardInv
<1>2. CASE AttachRun \/ WizardReturns \/ AwaitRun \/ CallerCancels
  BY <1>2, StartKeeps, AttachKeeps
<1>3. CASE PressQ \/ PressCtrlC \/ OtherKey \/ PressEnter \/ PressYes \/ PressNo \/ \E name \in {Topic, Fresh} : Type(name)
  BY <1>3, KeysKeep
<1>4. CASE PressRetry \/ AutoAdvance
  BY <1>4, RetryKeeps, AutoKeeps
<1>5. CASE \E i \in DOMAIN jobs : Command(i)
  BY <1>5, SuggestedKeeps, CreatedKeeps, CommittedKeeps, PushedKeeps, WaitedKeeps, KilledKeeps,
     SuggestionKeeps, ActionKeeps, WaitKeeps DEF Command
<1>6. CASE (\E b \in Branches : RunMoves(b)) \/ SomebodyElse
  BY <1>6, RunMovesKeeps, SomebodyKeeps
<1>7. CASE WizardOver
  BY <1>1, <1>7 DEF WizardOver
<1> QED BY <1>1, <1>2, <1>3, <1>4, <1>5, <1>6, <1>7 DEF WizardNext

\* However keys, automatic keys, answers and other people's commands interleave,
\* the wizard's model, its command in flight, the checkout and the gate agree.
THEOREM WizardInvHolds == WizardSpec => []WizardInv
BY WizardInitInv, WizardStep, PTL DEF WizardSpec

LEMMA WizardInvSafe == ASSUME WizardInv PROVE WizardSafe
<1>1. /\ InOrder(wiz) /\ Claims(wiz) /\ Checkout(wiz) /\ Work(wiz) /\ InGate(wiz) /\ WizardTyped /\ wiz \in Models
      /\ advances \in Nat /\ WorldTyped
  BY DEF WizardInv, WizardTyped
<1>2. WizardTypeOK
  <2>1. Len(StepIds) = 3
    BY DEF StepIds
  <2>2. advances \in 0..Len(StepIds)
    BY <1>1, <2>1 DEF WizardInv, AdvancesBounded, Bound
  <2> QED BY <1>1, <2>2, StepIdsAre DEF WizardTypeOK, WizardTyped, WorldTyped, Models
<1>3. OneThingAtATime
  <2>1. (jobs = <<>> /\ Len(jobs) = 0) \/ (jobs # <<>> /\ Len(jobs) = 1)
    BY DEF WizardInv, WizardTyped
  <2>2. \A i \in DOMAIN jobs : jobs[i].step = activeStep(wiz)
    BY DEF WizardInv, InFlight
  <2>3. ASSUME Running PROVE Len(jobs) = IF wiz.waiting \/ InState("agent") \/ InState("running") THEN 1 ELSE 0
    BY <2>1, <2>3 DEF WizardInv, Awaited, InState
  <2>4. ASSUME Running PROVE ~wiz.waiting => activeStep(wiz) # "none" /\ Status # "pending"
    BY <2>4 DEF WizardInv, Awaited
  <2>5. ASSUME Running PROVE mode # "keys" => Len(jobs) + advances > 0
    BY <1>1, <2>1, <2>5 DEF WizardInv, Awaited
  <2> QED BY <2>2, <2>3, <2>4, <2>5 DEF OneThingAtATime
<1>4. DefaultIsSpared
  BY <1>1 DEF DefaultIsSpared, Checkout
<1>5. wiz.pushed => wiz.target \in {Topic, Fresh}
  BY <1>1 DEF InOrder, Claims, Checkout, Over
<1>6. ResultIsTrue
  <2> DEFINE S == {x \in {
           <<"branch", Fresh \in repo.branches /\ ~wiz.branchCreated>>,
           <<"commit", repo.began /\ ~repo.dirty /\ ~repo.moved /\ ~wiz.commitMade>>,
           <<"push", (\E b \in Branches : gate[b] # "absent") /\ ~wiz.pushed>>} : x[2]}
  <2>1. /\ wiz.branchCreated => wiz.target \in repo.branches \ {Default, Topic}
        /\ wiz.commitMade => ~repo.dirty
        /\ wiz.pushed => gate[wiz.target] # "absent"
    BY <1>1, NamesDiffer DEF Claims, Checkout, Work, InGate
  <2>2. /\ Fresh \in repo.branches /\ ~wiz.branchCreated => activeStep(wiz) = "branch"
        /\ repo.began /\ ~repo.dirty /\ ~repo.moved /\ ~wiz.commitMade => activeStep(wiz) = "commit"
        /\ (\E b \in Branches : gate[b] # "absent") /\ ~wiz.pushed => activeStep(wiz) = "push"
    <3>1. Fresh \in repo.branches /\ ~wiz.branchCreated => ~Over(wiz, "branch")
      BY <1>1 DEF Checkout
    <3>2. repo.began /\ ~repo.dirty /\ ~repo.moved /\ ~wiz.commitMade => Over(wiz, "branch") /\ ~Over(wiz, "commit")
      BY <1>1 DEF Work, Claims, Over
    <3>3. (\E b \in Branches : gate[b] # "absent") /\ ~wiz.pushed => Over(wiz, "branch") /\ Over(wiz, "commit") /\ ~Over(wiz, "push")
      BY <1>1 DEF InGate, InOrder, Claims, Over
    <3> QED BY <3>1, <3>2, <3>3, ActiveStepIs
  <2>3. \A x \in S : x = <<activeStep(wiz), TRUE>>
    <3> DEFINE p == Fresh \in repo.branches /\ ~wiz.branchCreated
               q == repo.began /\ ~repo.dirty /\ ~repo.moved /\ ~wiz.commitMade
               r == (\E b \in Branches : gate[b] # "absent") /\ ~wiz.pushed
    <3>1. p \in BOOLEAN /\ q \in BOOLEAN /\ r \in BOOLEAN
      OBVIOUS
    <3>2. (p => activeStep(wiz) = "branch") /\ (q => activeStep(wiz) = "commit") /\ (r => activeStep(wiz) = "push")
      BY <2>2
    <3>3. S = {x \in {<<"branch", p>>, <<"commit", q>>, <<"push", r>>} : x[2]}
      OBVIOUS
    <3> HIDE DEF p, q, r, S
    <3>4. ASSUME NEW x \in S PROVE x \in {<<"branch", p>>, <<"commit", q>>, <<"push", r>>} /\ x[2]
      BY <3>3
    <3>5. ASSUME NEW v \in BOOLEAN, NEW n, <<n, v>>[2] PROVE v = TRUE
      BY <3>5
    <3>6. ASSUME NEW x \in S PROVE x = <<activeStep(wiz), TRUE>>
      <4>1. CASE x = <<"branch", p>>
        BY <3>1, <3>2, <3>4, <3>5, <3>6, <4>1
      <4>2. CASE x = <<"commit", q>>
        BY <3>1, <3>2, <3>4, <3>5, <3>6, <4>2
      <4>3. CASE x = <<"push", r>>
        BY <3>1, <3>2, <3>4, <3>5, <3>6, <4>3
      <4> QED BY <3>4, <3>6, <4>1, <4>2, <4>3
    <3> QED BY <3>6
  <2>4. S \subseteq {<<activeStep(wiz), TRUE>>}
    BY <2>3
  <2> HIDE DEF S
  <2>5. IsFiniteSet({<<activeStep(wiz), TRUE>>}) /\ Cardinality({<<activeStep(wiz), TRUE>>}) = 1
    BY FS_Singleton
  <2>6. Cardinality(S) <= 1
    BY <2>4, <2>5, FS_Subset
  <2> QED BY <2>1, <2>6 DEF ResultIsTrue, S
<1>7. SuccessIsDelivered
  BY <1>1, <1>5, NamesDiffer DEF WizardInv, Claims, InGate, Phases, SuccessIsDelivered
<1> QED BY <1>2, <1>3, <1>4, <1>6, <1>7 DEF WizardSafe

\* The wizard does one thing at a time, spares the default branch, and what its
\* Result says of the branch, the commit, the push and the run is so.
THEOREM WizardIsSafe == WizardSpec => []WizardSafe
BY WizardInvHolds, WizardInvSafe, PTL
-----------------------------------------------------------------------------
(* A run, followed: what the stream holds, what the TUI shows and what the  *)
(* read in flight will bring.                                               *)

\* A frame of state: it carries a revision.
News(e) == e.kind \notin {"gap", "log"}

Held(s) == {s[i] : i \in DOMAIN s}

\* The state frames of a sequence have rising revisions.
Rising(s) == \A i, j \in DOMAIN s : i < j /\ News(s[i]) /\ News(s[j]) => s[i].rev < s[j].rev

\* State frames between the mailbox and the TUI.
Due == {e \in InStream : News(e)}

\* Whatever the TUI shows, something makes it read the run again.
GapAhead == gap \/ wireEnd \/ \E e \in InStream : e.kind = "gap"

\* Of a change of row r the stream holds no frame yet, or need not.
Untold(r) ==
    \/ GapAhead
    \/ unsent # NoFrame /\ unsent.row = r
    \/ r = "run" /\ fin # 0 /\ (alive \/ closed)

\* Frame e makes the TUI show w of row r, or read the run again.
Shows(e, r, w) == e.row = r /\ (e.kind = "reset" \/ e.v = w)

\* Of the frames D, those newer than b show w of row r in the end.
EndsWith(D, r, w, b) ==
    \A e \in D : e.row = r /\ e.rev > b /\ ~Shows(e, r, w) => \E f \in D : f.rev > e.rev /\ Shows(f, r, w)

\* Version v of row r is w, or a frame newer than b will make it w.
WillBe(D, r, w, v, b) == v = w \/ \E e \in D : e.rev > b /\ Shows(e, r, w)

\* The rows the read in flight has seen.
HasRead(r) == read.at = "answered" \/ (read.at = "half" /\ r = "run")

\* What the TUI shows of row r will be what the row is.
ViewKeepsUp(r) ==
    \/ retry \/ pending \/ Untold(r)
    \/ EndsWith(Due, r, db[r], stateRev) /\ WillBe(Due, r, db[r], view[r], stateRev)

\* So will what the read in flight brings, if it is the last one asked for.
ReadKeepsUp(r) ==
    \/ ~pending \/ again \/ read.at \notin {"sampled", "half", "answered"} \/ read.rev < stateRev \/ Untold(r)
    \/ /\ EndsWith(Due, r, db[r], read.rev)
       /\ HasRead(r) => WillBe(Due, r, db[r], read.got[r], read.rev)

KeepsUp == ~dead /\ ~done => \A r \in Rows : ViewKeepsUp(r) /\ ReadKeepsUp(r)

\* A TUI whose calls fail keeps asking for a retry.
DeadAsks ==
    dead /\ link = "open" /\ ~done =>
        \/ GapAhead \/ retry
        \/ pending /\ (again \/ read.at \in {"asked", "failed"})

\* The executor's end, and what it has not announced.
Ended ==
    /\ fin = 0 => writes <= MaxWrites
    /\ finished => ~alive /\ fin # 0 /\ unsent = NoFrame
    /\ unsent # NoFrame => News(unsent) /\ unsent.row \in Rows /\ unsent.v = db[unsent.row]

\* An open stream has its mailbox, or one that was closed at the run's end.
Connected ==
    /\ link # "open" => wireEnd
    /\ ~wireEnd => registered \/ (finished /\ closed)

Asking ==
    /\ pending <=> read.at # "idle"
    /\ pending => ~retry

\* Within one daemon, revisions rise along the stream.
Rises ==
    /\ Rising(wire) /\ Rising(ring)
    /\ \A e \in Held(wire), f \in Held(ring) : News(e) /\ News(f) => e.rev < f.rev

Ordered ==
    /\ Rises
    /\ \A e \in Due : e.rev <= rev /\ e.row \in Rows
    /\ stateRev <= rev /\ read.rev <= rev

\* Nothing shown, carried or read is ahead of the database.
Behind ==
    \A r \in Rows :
        /\ view[r] <= db[r] /\ db[r] <= writes
        /\ \A e \in Due : e.row = r => e.v <= db[r]
        /\ HasRead(r) =>
            /\ read.got[r] <= db[r]
            /\ stateRev <= read.rev => view[r] <= read.got[r]
            /\ \A e \in Due : e.row = r /\ e.rev <= read.rev => e.v <= read.got[r]

StreamInv ==
    /\ TypeOK /\ Ended /\ Connected /\ Asking /\ KeepsUp /\ DeadAsks
    /\ ~dead => Ordered /\ Behind

-----------------------------------------------------------------------------
(* Frames in a row.                                                        *)

LEMMA HeldOfAppend ==
    ASSUME NEW s \in Seq(Frames), NEW e \in Frames
    PROVE  /\ Append(s, e) \in Seq(Frames)
           /\ Held(Append(s, e)) = Held(s) \cup {e}
           /\ Rising(s) /\ (\A f \in Held(s) : News(e) /\ News(f) => f.rev < e.rev) => Rising(Append(s, e))
<1> DEFINE t == Append(s, e)
<1>1. t \in Seq(Frames) /\ Len(t) = Len(s) + 1 /\ t[Len(s) + 1] = e /\ \A i \in 1..Len(s) : t[i] = s[i]
    OBVIOUS
<1>2. DOMAIN s = 1..Len(s) /\ DOMAIN t = 1..(Len(s) + 1) /\ Len(s) \in Nat
    BY <1>1
<1> HIDE DEF t
<1>3. Held(t) = Held(s) \cup {e}
    BY <1>1, <1>2 DEF Held
<1>4. ASSUME Rising(s), \A f \in Held(s) : News(e) /\ News(f) => f.rev < e.rev
      PROVE  Rising(t)
    <2> SUFFICES ASSUME NEW i \in DOMAIN t, NEW j \in DOMAIN t, i < j, News(t[i]), News(t[j])
                 PROVE  t[i].rev < t[j].rev
        BY DEF Rising
    <2>1. i \in DOMAIN s /\ t[i] = s[i]
        BY <1>1, <1>2
    <2>2. CASE j \in DOMAIN s
        BY <2>1, <2>2, <1>1, <1>2, <1>4 DEF Rising
    <2>3. CASE j = Len(s) + 1
        BY <2>1, <2>3, <1>1, <1>4 DEF Held
    <2> QED BY <2>2, <2>3, <1>2
<1> QED BY <1>1, <1>3, <1>4 DEF t

LEMMA HeldOfTail ==
    ASSUME NEW s \in Seq(Frames), s # <<>>
    PROVE  /\ Head(s) \in Frames /\ Tail(s) \in Seq(Frames) /\ Tail(s) # s
           /\ Held(s) = Held(Tail(s)) \cup {Head(s)}
           /\ Rising(s) => /\ Rising(Tail(s))
                           /\ \A f \in Held(Tail(s)) : News(Head(s)) /\ News(f) => Head(s).rev < f.rev
<1> DEFINE t == Tail(s)
           e == Head(s)
<1>1. /\ t \in Seq(Frames) /\ Len(s) \in Nat \ {0} /\ Len(t) = Len(s) - 1 /\ e = s[1] /\ e \in Frames
      /\ \A i \in 1..Len(t) : t[i] = s[i + 1]
    OBVIOUS
<1>2. DOMAIN s = 1..Len(s) /\ DOMAIN t = 1..(Len(s) - 1)
    BY <1>1
<1> HIDE DEF t, e
<1>8. t # s
    BY <1>1
<1>3. Held(s) = Held(t) \cup {e}
    <2>1. \A i \in DOMAIN s : i = 1 \/ (i - 1 \in DOMAIN t /\ t[i - 1] = s[i])
        BY <1>1, <1>2
    <2>2. \A i \in DOMAIN t : i + 1 \in DOMAIN s /\ t[i] = s[i + 1]
        BY <1>1, <1>2
    <2>3. 1 \in DOMAIN s
        BY <1>1, <1>2
    <2>4. Held(s) \subseteq Held(t) \cup {e}
        BY <2>1, <1>1 DEF Held
    <2>5. Held(t) \subseteq Held(s)
        BY <2>2 DEF Held
    <2>6. e \in Held(s)
        BY <2>3, <1>1 DEF Held
    <2> QED BY <2>4, <2>5, <2>6
<1>4. ASSUME Rising(s)
      PROVE  Rising(t)
    <2>1. \A i \in DOMAIN t : i \in Int /\ i + 1 \in DOMAIN s /\ t[i] = s[i + 1]
        BY <1>1, <1>2
    <2>2. \A i, j \in DOMAIN t : i < j => i + 1 < j + 1
        BY <2>1
    <2> QED BY <2>1, <2>2, <1>4 DEF Rising
<1>5. ASSUME Rising(s), NEW f \in Held(t), News(e), News(f)
      PROVE  e.rev < f.rev
    <2>1. PICK i \in DOMAIN t : f = t[i]
        BY <1>5 DEF Held
    <2>2. i + 1 \in DOMAIN s /\ 1 \in DOMAIN s /\ 1 < i + 1 /\ f = s[i + 1]
        BY <2>1, <1>1, <1>2
    <2> QED BY <2>2, <1>1, <1>5 DEF Rising
<1> QED BY <1>1, <1>8, <1>3, <1>4, <1>5 DEF t, e

LEMMA HeldOfPrefix ==
    ASSUME NEW s \in Seq(Frames), NEW n \in 0..Len(s)
    PROVE  /\ SubSeq(s, 1, n) \in Seq(Frames)
           /\ Held(SubSeq(s, 1, n)) \subseteq Held(s)
           /\ Rising(s) => Rising(SubSeq(s, 1, n))
<1> DEFINE t == SubSeq(s, 1, n)
<1>1. t \in Seq(Frames) /\ Len(t) = n /\ \A i \in 1..n : t[i] = s[i]
    OBVIOUS
<1>2. DOMAIN t = 1..n /\ DOMAIN t \subseteq DOMAIN s
    BY <1>1
<1> HIDE DEF t
<1>3. \A i \in DOMAIN t : i \in DOMAIN s /\ t[i] = s[i]
    BY <1>1, <1>2
<1> QED BY <1>1, <1>3 DEF t, Held, Rising

\* Where i stands among the numbers K, and the n-th of them.
Rank(K, i) == Cardinality({j \in K : j <= i})
Nth(K, n) == CHOOSE i \in K : Rank(K, i) = n

LEMMA RankRises ==
    ASSUME NEW K, IsFiniteSet(K), K \subseteq Nat
    PROVE  /\ Cardinality(K) \in Nat
           /\ \A i \in K : Rank(K, i) \in 1..Cardinality(K)
           /\ \A i, j \in K : i < j => Rank(K, i) < Rank(K, j)
<1> DEFINE to(i) == {j \in K : j <= i}
<1>0. \A i \in K : i \in Nat
    OBVIOUS
<1>1. Cardinality(K) \in Nat
    BY FS_CardinalityType
<1>2. ASSUME NEW i \in K
      PROVE  IsFiniteSet(to(i)) /\ Rank(K, i) \in 1..Cardinality(K)
    <2>1. to(i) \in SUBSET K /\ i \in to(i)
        BY <1>0
    <2>2. IsFiniteSet(to(i)) /\ Rank(K, i) <= Cardinality(K)
        BY <2>1, FS_Subset DEF Rank
    <2>3. Rank(K, i) \in Nat /\ Rank(K, i) # 0
        BY <2>1, <2>2, FS_CardinalityType, FS_EmptySet DEF Rank
    <2> QED BY <2>2, <2>3, <1>1
<1>3. ASSUME NEW i \in K, NEW j \in K, i < j
      PROVE  Rank(K, i) < Rank(K, j)
    <2>0. i \in Nat /\ j \in Nat
        BY <1>0
    <2>1. \A l \in to(i) : l \in K /\ l \in Nat /\ l <= i
        BY <1>0
    <2>2. \A l \in to(i) : l \in to(j)
        BY <2>0, <2>1, <1>3
    <2>3. j \in to(j) /\ j \notin to(i)
        BY <2>0, <1>3
    <2>4. to(i) \in SUBSET to(j) /\ to(i) # to(j)
        BY <2>2, <2>3
    <2>5. Rank(K, i) <= Rank(K, j) /\ Rank(K, i) # Rank(K, j)
        BY <2>4, <1>2, FS_Subset DEF Rank
    <2>6. Rank(K, i) \in 1..Cardinality(K) /\ Rank(K, j) \in 1..Cardinality(K)
        BY <1>2
    <2> QED BY <2>5, <2>6, <1>1
<1> QED BY <1>1, <1>2, <1>3

LEMMA NthOfSet ==
    ASSUME NEW K, IsFiniteSet(K), K \subseteq Nat
    PROVE  /\ Cardinality(K) \in Nat
           /\ \A n \in 1..Cardinality(K) : Nth(K, n) \in K
           /\ \A i \in K : \E n \in 1..Cardinality(K) : Nth(K, n) = i
           /\ \A m, n \in 1..Cardinality(K) : m < n => Nth(K, m) < Nth(K, n)
<1> DEFINE N == Cardinality(K)
           I == {Rank(K, i) : i \in K}
           g == [i \in K |-> Rank(K, i)]
<1>0. \A i \in K : i \in Nat
    OBVIOUS
<1>1. /\ N \in Nat
      /\ \A i \in K : Rank(K, i) \in 1..N
      /\ \A i, j \in K : i < j => Rank(K, i) < Rank(K, j)
    BY RankRises
<1> HIDE DEF N
<1>2. \A i, j \in K : Rank(K, i) = Rank(K, j) => i = j
    <2> TAKE i, j \in K
    <2> HAVE Rank(K, i) = Rank(K, j)
    <2>1. ~(i < j) /\ ~(j < i)
        BY <1>1
    <2> QED BY <2>1, <1>0
<1>3. g \in Bijection(K, I)
    BY <1>2 DEF Bijection, Injection, Surjection, IsInjective
<1>4. IsFiniteSet(I) /\ Cardinality(I) = N
    BY <1>3, FS_Bijection DEF ExistsBijection, N
<1>5. I \in SUBSET (1..N)
    BY <1>1
<1>6. IsFiniteSet(1..N) /\ Cardinality(1..N) = N
    BY <1>1, FS_Interval
<1>7. I = 1..N
    BY <1>4, <1>5, <1>6, FS_Subset
<1>8. \A n \in 1..N : Nth(K, n) \in K /\ Rank(K, Nth(K, n)) = n
    BY <1>7 DEF Nth
<1>9. \A i \in K : Rank(K, i) \in 1..N /\ Nth(K, Rank(K, i)) = i
    BY <1>1, <1>2, <1>8
<1>10. ASSUME NEW m \in 1..N, NEW n \in 1..N, m < n
       PROVE  Nth(K, m) < Nth(K, n)
    <2> DEFINE i == Nth(K, m)
               j == Nth(K, n)
    <2>1. i \in K /\ j \in K /\ Rank(K, i) = m /\ Rank(K, j) = n /\ m \in Int /\ n \in Int
        BY <1>8, <1>1
    <2> HIDE DEF i, j
    <2>2. i # j /\ ~(j < i)
        BY <2>1, <1>1, <1>10
    <2>3. i \in Nat /\ j \in Nat
        BY <2>1, <1>0
    <2>4. i < j
        BY <2>2, <2>3
    <2> QED BY <2>4 DEF i, j
<1> QED BY <1>1, <1>8, <1>9, <1>10 DEF N

\* evictActivityLocked drops activity only, and keeps the rest in its order.
LEMMA EvictionKeepsNews ==
    ASSUME ring \in Seq(Frames), NEW k
    PROVE  /\ WithoutLogs(k) \in Seq(Frames)
           /\ Held(WithoutLogs(k)) \subseteq Held(ring)
           /\ \A e \in Held(ring) : e.kind # "log" => e \in Held(WithoutLogs(k))
           /\ Rising(ring) => Rising(WithoutLogs(k))
<1> DEFINE logsUpTo(i) == Cardinality({j \in 1..i : ring[j].kind = "log"})
           kept == {i \in DOMAIN ring : ring[i].kind # "log" \/ logsUpTo(i) > k}
           N == Cardinality(kept)
           f == [n \in 1..N |-> Nth(kept, n)]
<1>1. kept \subseteq DOMAIN ring /\ \A i \in DOMAIN ring : ring[i].kind # "log" => i \in kept
    OBVIOUS
<1>2. WithoutLogs(k) = [n \in 1..N |-> ring[Nth(kept, n)]]
    BY DEF WithoutLogs, Nth, Rank
<1> HIDE DEF kept
<1>3. DOMAIN ring = 1..Len(ring) /\ Len(ring) \in Nat
    OBVIOUS
<1>4. IsFiniteSet(kept) /\ kept \subseteq Nat
    <2>1. IsFiniteSet(1..Len(ring))
        BY <1>3, FS_Interval
    <2>2. kept \in SUBSET (1..Len(ring))
        BY <1>1, <1>3
    <2>3. IsFiniteSet(kept)
        BY <2>1, <2>2, FS_Subset
    <2> QED BY <2>2, <2>3
<1>5. /\ N \in Nat
      /\ \A n \in 1..N : Nth(kept, n) \in kept
      /\ \A i \in kept : \E n \in 1..N : Nth(kept, n) = i
      /\ \A m, n \in 1..N : m < n => Nth(kept, m) < Nth(kept, n)
    BY <1>4, NthOfSet
<1> HIDE DEF N
<1>6. f \in [1..N -> kept] /\ \A n \in 1..N : f[n] = Nth(kept, n)
    BY <1>5
<1>12. \A n \in 1..N : ring[f[n]] \in Frames
    BY <1>1, <1>6
<1>7. WithoutLogs(k) \in [1..N -> Frames] /\ \A n \in 1..N : WithoutLogs(k)[n] = ring[f[n]]
    BY <1>2, <1>6, <1>12
<1> HIDE DEF f
<1>11. /\ \A i, j \in 1..N : i < j => f[i] < f[j]
       /\ \A i \in kept : \E n \in 1..N : f[n] = i
    BY <1>5, <1>6
<1> DEFINE t == WithoutLogs(k)
<1>13. \A n \in 1..N : f[n] \in kept /\ f[n] \in DOMAIN ring /\ t[n] = ring[f[n]]
    BY <1>1, <1>6, <1>7
<1>14. t \in Seq(Frames) /\ DOMAIN t = 1..N
    BY <1>5, <1>7
<1> HIDE DEF t
<1>15. \A i \in DOMAIN ring : ring[i].kind # "log" => \E n \in 1..N : t[n] = ring[i]
    BY <1>1, <1>11, <1>13
<1>16. Rising(ring) => Rising(t)
    BY <1>13, <1>14, <1>11 DEF Rising
<1>17. Held(t) \subseteq Held(ring) /\ \A e \in Held(ring) : e.kind # "log" => e \in Held(t)
    BY <1>13, <1>14, <1>15 DEF Held
<1> QED BY <1>14, <1>16, <1>17 DEF t

-----------------------------------------------------------------------------
(* What the frames under way lead to.                                      *)

LEMMA BoundsAreNat ==
    /\ MaxEvents \in Nat /\ MaxBytes \in Nat /\ WireCap \in Nat
    /\ MaxTries \in Nat /\ MaxWrites \in Nat /\ MaxLogs \in Nat /\ MaxFaults \in Nat
BY BoundsAssumption

LEMMA FramesHeld ==
    ASSUME TypeOK
    PROVE  /\ InStream = Held(wire) \cup Held(ring)
           /\ \A e \in InStream : e \in Frames /\ e.rev \in Nat /\ e.v \in Nat
<1>1. InStream = Held(wire) \cup Held(ring)
    BY DEF InStream, Held
<1>2. wire \in Seq(Frames) /\ ring \in Seq(Frames)
    BY DEF TypeOK
<1>3. \A e \in InStream : e \in Frames
    BY <1>1, <1>2 DEF Held
<1>4. \A e \in Frames : e.rev \in Nat /\ e.v \in Nat
    BY BoundsAreNat DEF Frames, Versions
<1> QED BY <1>1, <1>3, <1>4

\* Frames that come or go where they do not matter change nothing.
LEMMA StillEnds ==
    ASSUME NEW D, NEW E, NEW r, NEW w, NEW b, NEW c, b \in Nat, c \in Nat, b <= c,
           \A e \in D \cup E : e.rev \in Nat,
           \A e \in E : e.row = r /\ e.rev > c => e \in D,
           \A e \in D : e.row = r /\ e.rev > c => e \in E
    PROVE  /\ EndsWith(D, r, w, b) => EndsWith(E, r, w, c)
           /\ \A v : WillBe(D, r, w, v, c) => WillBe(E, r, w, v, c)
<1>1. ASSUME EndsWith(D, r, w, b)
      PROVE  EndsWith(E, r, w, c)
    <2> SUFFICES ASSUME NEW e \in E, e.row = r, e.rev > c, ~Shows(e, r, w)
                 PROVE  \E f \in E : f.rev > e.rev /\ Shows(f, r, w)
        BY DEF EndsWith
    <2>1. e \in D /\ e.rev > b /\ e.rev \in Nat
        OBVIOUS
    <2>2. PICK f \in D : f.rev > e.rev /\ Shows(f, r, w)
        BY <2>1, <1>1 DEF EndsWith
    <2>3. f.rev \in Nat /\ f.rev > c /\ f.row = r
        BY <2>1, <2>2 DEF Shows
    <2> QED BY <2>2, <2>3
<1>2. ASSUME NEW v, WillBe(D, r, w, v, c)
      PROVE  WillBe(E, r, w, v, c)
    BY <1>2 DEF WillBe, Shows
<1> QED BY <1>1, <1>2

\* The newest frame is the last word on its row.
LEMMA NewestShows ==
    ASSUME NEW D, NEW r, NEW w, NEW b, NEW e \in D, Shows(e, r, w), b \in Nat, e.rev > b,
           \A f \in D : f.rev \in Nat /\ (f = e \/ f.rev < e.rev)
    PROVE  EndsWith(D, r, w, b) /\ \A v : WillBe(D, r, w, v, b)
BY DEF EndsWith, WillBe

\* A frame applied in its turn: the view then leads on from it.
LEMMA AppliedInTurn ==
    ASSUME NEW D, NEW E, NEW r, NEW w, NEW b, NEW e \in D, b \in Nat, e.rev > b,
           \A f \in D : f.rev \in Nat, E \subseteq D,
           \A f \in D : f \in E \/ f = e,
           \A f \in E : f.rev > e.rev,
           EndsWith(D, r, w, b)
    PROVE  /\ EndsWith(E, r, w, e.rev)
           /\ e.row = r /\ e.kind # "reset" => WillBe(E, r, w, e.v, e.rev)
           /\ \A v : e.row # r /\ WillBe(D, r, w, v, b) => WillBe(E, r, w, v, e.rev)
<1>1. e.rev \in Nat
    OBVIOUS
<1>2. EndsWith(E, r, w, e.rev)
    <2>1. \A f \in E : f \in D /\ f.rev \in Nat /\ f.rev > b
        BY <1>1
    <2> SUFFICES ASSUME NEW f \in E, f.row = r, ~Shows(f, r, w)
                 PROVE  \E g \in E : g.rev > f.rev /\ Shows(g, r, w)
        BY DEF EndsWith
    <2>2. PICK g \in D : g.rev > f.rev /\ Shows(g, r, w)
        BY <2>1 DEF EndsWith
    <2>3. g # e
        BY <2>1, <2>2, <1>1
    <2> QED BY <2>2, <2>3
<1>3. ASSUME e.row = r, e.kind # "reset"
      PROVE  WillBe(E, r, w, e.v, e.rev)
    <2>1. CASE e.v = w
        BY <2>1 DEF WillBe
    <2>2. CASE e.v # w
        <3>1. PICK g \in D : g.rev > e.rev /\ Shows(g, r, w)
            BY <1>3, <2>2 DEF EndsWith, Shows
        <3>2. g \in E
            BY <3>1, <1>1
        <3> QED BY <3>1, <3>2 DEF WillBe
    <2> QED BY <2>1, <2>2
<1>4. ASSUME NEW v, e.row # r, WillBe(D, r, w, v, b)
      PROVE  WillBe(E, r, w, v, e.rev)
    BY <1>4 DEF WillBe, Shows
<1> QED BY <1>2, <1>3, <1>4

\* publish: the frame is queued or folded away, and no other state is lost.
LEMMA PublishKeeps ==
    ASSUME ring \in Seq(Frames), gap \in BOOLEAN, NEW e \in Frames, publish(e)
    PROVE  /\ ring' \in Seq(Frames) /\ gap' \in BOOLEAN
           /\ Held(ring') \subseteq Held(ring) \cup {e}
           /\ \A f \in Held(ring) : f.kind # "log" => f \in Held(ring')
           /\ gap => gap'
           /\ gap' \/ e \in Held(ring')
           /\ Rising(ring) /\ (\A f \in Held(ring) : News(e) /\ News(f) => f.rev < e.rev) => Rising(ring')
<1>1. CASE gap
    BY <1>1 DEF publish
<1>2. CASE ~gap
    <2>1. PICK kept : /\ kept = IF hasRoom(ring, e.size) THEN ring ELSE evictActivity(e.size)
                      /\ IF hasRoom(kept, e.size) THEN ring' = Append(kept, e) /\ gap' = gap
                         ELSE ring' = kept /\ gap' = TRUE
        BY <1>2 DEF publish
    <2>2. /\ kept \in Seq(Frames) /\ Held(kept) \subseteq Held(ring)
          /\ \A f \in Held(ring) : f.kind # "log" => f \in Held(kept)
          /\ Rising(ring) => Rising(kept)
        <3>1. CASE kept = ring
            BY <3>1
        <3>2. CASE kept = evictActivity(e.size)
            BY <3>2, EvictionKeepsNews DEF evictActivity
        <3> QED BY <2>1, <3>1, <3>2
    <2>3. CASE ring' = Append(kept, e) /\ gap' = gap
        BY <2>2, <2>3, HeldOfAppend
    <2>4. CASE ring' = kept /\ gap' = TRUE
        BY <2>2, <2>4
    <2> QED BY <2>1, <2>3, <2>4
<1> QED BY <1>1, <1>2

-----------------------------------------------------------------------------
(* What each action keeps.                                                 *)

\* The executor announces what it wrote before it writes again, and nothing after its end.
LEMMA EndedKept ==
    ASSUME TypeOK, Ended, [Next]_vars
    PROVE  Ended'
<1> USE DEF Ended, TypeOK, News, Versions, Rows
<1>1. CASE WriteRow
    BY <1>1, BoundsAreNat DEF WriteRow, vars, dbVars, boxVars, brokerVars, wireVars, linkVars, viewVars, callVars, readVars, Frame, NoFrame
<1>2. CASE EndRun
    BY <1>2, BoundsAreNat DEF EndRun, vars, dbVars, boxVars, brokerVars, wireVars, linkVars, viewVars, callVars, readVars, Frame, NoFrame
<1>3. CASE Broadcast
    BY <1>3, BoundsAreNat DEF Broadcast, vars, dbVars, boxVars, brokerVars, wireVars, linkVars, viewVars, callVars, readVars, NoFrame, Frame
<1>4. CASE EmitLog
    BY <1>4, BoundsAreNat DEF EmitLog, vars, dbVars, boxVars, brokerVars, wireVars, linkVars, viewVars, callVars, readVars, LogFrame, Frame
<1>5. CASE closeSubscribers
    BY <1>5, BoundsAreNat DEF closeSubscribers, vars, dbVars, boxVars, brokerVars, wireVars, linkVars, viewVars, callVars, readVars
<1>6. CASE Send
    BY <1>6, BoundsAreNat DEF Send, vars, dbVars, boxVars, brokerVars, wireVars, linkVars, viewVars, callVars, readVars, GapFrame, Frame
<1>7. CASE StreamEnds
    BY <1>7, BoundsAreNat DEF StreamEnds, vars, dbVars, boxVars, brokerVars, wireVars, linkVars, viewVars, callVars, readVars
<1>8. CASE Disconnect
    BY <1>8, BoundsAreNat DEF Disconnect, vars, dbVars, boxVars, brokerVars, wireVars, linkVars, viewVars, callVars, readVars, CutWire, release
<1>9. CASE RestartDaemon
    BY <1>9, BoundsAreNat DEF RestartDaemon
<1>10. CASE AnswerGetRun
    BY <1>10, BoundsAreNat DEF AnswerGetRun, vars, dbVars, boxVars, brokerVars, wireVars, linkVars, viewVars, callVars, readVars, runSnapshot
<1>11. CASE GetRunFails
    BY <1>11, BoundsAreNat DEF GetRunFails, vars, dbVars, boxVars, brokerVars, wireVars, linkVars, viewVars, callVars, readVars
<1>12. CASE CallOnDeadConn
    BY <1>12, BoundsAreNat DEF CallOnDeadConn, vars, dbVars, boxVars, brokerVars, wireVars, linkVars, viewVars, callVars, readVars
<1>13. CASE Subscribe
    BY <1>13, BoundsAreNat DEF Subscribe, vars, dbVars, boxVars, brokerVars, wireVars, linkVars, viewVars, callVars, readVars
<1>14. CASE SubscribeFails
    BY <1>14, BoundsAreNat DEF SubscribeFails, vars, dbVars, boxVars, brokerVars, wireVars, linkVars, viewVars, callVars, readVars, subscriptionErr, startResubscribe
<1>15. CASE StreamLost
    BY <1>15, BoundsAreNat DEF StreamLost, vars, dbVars, boxVars, brokerVars, wireVars, linkVars, viewVars, callVars, readVars, subscriptionErr, startResubscribe
<1>16. CASE applyEvent
    BY <1>16, BoundsAreNat DEF applyEvent, vars, dbVars, boxVars, brokerVars, wireVars, linkVars, viewVars, callVars, readVars, applyState, reconcileCmd, NewRead, NoRead
<1>17. CASE Reconciled
    BY <1>17, BoundsAreNat DEF Reconciled, vars, dbVars, boxVars, brokerVars, wireVars, linkVars, viewVars, callVars, readVars, startResubscribe, NewRead, NoRead, accepts
<1>18. CASE ReconcileErrs
    BY <1>18, BoundsAreNat DEF ReconcileErrs, vars, dbVars, boxVars, brokerVars, wireVars, linkVars, viewVars, callVars, readVars, startResubscribe, NoRead
<1>19. CASE RetryReview
    BY <1>19, BoundsAreNat DEF RetryReview, vars, dbVars, boxVars, brokerVars, wireVars, linkVars, viewVars, callVars, readVars, reconcileCmd, NewRead, NoRead
<1>20. CASE UNCHANGED vars
    BY <1>20 DEF vars, dbVars, boxVars, brokerVars, wireVars, linkVars, viewVars, callVars, readVars
<1> QED BY <1>1, <1>2, <1>3, <1>4, <1>5, <1>6, <1>7, <1>8, <1>9, <1>10, <1>11, <1>12, <1>13, <1>14, <1>15, <1>16, <1>17, <1>18, <1>19, <1>20 DEF Next, Progress, Environment

\* Only a mailbox in use feeds an open stream.
LEMMA ConnectedKept ==
    ASSUME TypeOK, Ended, Connected, [Next]_vars
    PROVE  Connected'
<1> USE DEF Connected, Ended, TypeOK
<1>1. CASE WriteRow
    BY <1>1, BoundsAreNat DEF WriteRow, vars, dbVars, boxVars, brokerVars, wireVars, linkVars, viewVars, callVars, readVars, Frame, NoFrame
<1>2. CASE EndRun
    BY <1>2, BoundsAreNat DEF EndRun, vars, dbVars, boxVars, brokerVars, wireVars, linkVars, viewVars, callVars, readVars, Frame, NoFrame
<1>3. CASE Broadcast
    BY <1>3, BoundsAreNat DEF Broadcast, vars, dbVars, boxVars, brokerVars, wireVars, linkVars, viewVars, callVars, readVars, NoFrame, Frame
<1>4. CASE EmitLog
    BY <1>4, BoundsAreNat DEF EmitLog, vars, dbVars, boxVars, brokerVars, wireVars, linkVars, viewVars, callVars, readVars, LogFrame, Frame
<1>5. CASE closeSubscribers
    BY <1>5, BoundsAreNat DEF closeSubscribers, vars, dbVars, boxVars, brokerVars, wireVars, linkVars, viewVars, callVars, readVars
<1>6. CASE Send
    BY <1>6, BoundsAreNat DEF Send, vars, dbVars, boxVars, brokerVars, wireVars, linkVars, viewVars, callVars, readVars, GapFrame, Frame
<1>7. CASE StreamEnds
    BY <1>7, BoundsAreNat DEF StreamEnds, vars, dbVars, boxVars, brokerVars, wireVars, linkVars, viewVars, callVars, readVars
<1>8. CASE Disconnect
    BY <1>8, BoundsAreNat DEF Disconnect, vars, dbVars, boxVars, brokerVars, wireVars, linkVars, viewVars, callVars, readVars, CutWire, release
<1>9. CASE RestartDaemon
    BY <1>9, BoundsAreNat DEF RestartDaemon, vars, dbVars, boxVars, brokerVars, wireVars, linkVars, viewVars, callVars, readVars, CutWire, release, BreakCall, NoFrame, Frame
<1>10. CASE AnswerGetRun
    BY <1>10, BoundsAreNat DEF AnswerGetRun, vars, dbVars, boxVars, brokerVars, wireVars, linkVars, viewVars, callVars, readVars, runSnapshot
<1>11. CASE GetRunFails
    BY <1>11, BoundsAreNat DEF GetRunFails, vars, dbVars, boxVars, brokerVars, wireVars, linkVars, viewVars, callVars, readVars
<1>12. CASE CallOnDeadConn
    BY <1>12, BoundsAreNat DEF CallOnDeadConn, vars, dbVars, boxVars, brokerVars, wireVars, linkVars, viewVars, callVars, readVars
<1>13. CASE Subscribe
    BY <1>13, BoundsAreNat DEF Subscribe, vars, dbVars, boxVars, brokerVars, wireVars, linkVars, viewVars, callVars, readVars
<1>14. CASE SubscribeFails
    BY <1>14, BoundsAreNat DEF SubscribeFails, vars, dbVars, boxVars, brokerVars, wireVars, linkVars, viewVars, callVars, readVars, subscriptionErr, startResubscribe
<1>15. CASE StreamLost
    BY <1>15, BoundsAreNat DEF StreamLost, vars, dbVars, boxVars, brokerVars, wireVars, linkVars, viewVars, callVars, readVars, subscriptionErr, startResubscribe
<1>16. CASE applyEvent
    BY <1>16, BoundsAreNat DEF applyEvent, vars, dbVars, boxVars, brokerVars, wireVars, linkVars, viewVars, callVars, readVars, applyState, reconcileCmd, NewRead, NoRead
<1>17. CASE Reconciled
    BY <1>17, BoundsAreNat DEF Reconciled, vars, dbVars, boxVars, brokerVars, wireVars, linkVars, viewVars, callVars, readVars, startResubscribe, NewRead, NoRead, accepts
<1>18. CASE ReconcileErrs
    BY <1>18, BoundsAreNat DEF ReconcileErrs, vars, dbVars, boxVars, brokerVars, wireVars, linkVars, viewVars, callVars, readVars, startResubscribe, NoRead
<1>19. CASE RetryReview
    BY <1>19, BoundsAreNat DEF RetryReview, vars, dbVars, boxVars, brokerVars, wireVars, linkVars, viewVars, callVars, readVars, reconcileCmd, NewRead, NoRead
<1>20. CASE UNCHANGED vars
    BY <1>20 DEF vars, dbVars, boxVars, brokerVars, wireVars, linkVars, viewVars, callVars, readVars
<1> QED BY <1>1, <1>2, <1>3, <1>4, <1>5, <1>6, <1>7, <1>8, <1>9, <1>10, <1>11, <1>12, <1>13, <1>14, <1>15, <1>16, <1>17, <1>18, <1>19, <1>20 DEF Next, Progress, Environment

\* One read at a time.
LEMMA AskingKept ==
    ASSUME TypeOK, Asking, [Next]_vars
    PROVE  Asking'
<1> USE DEF Asking, TypeOK
<1>1. CASE WriteRow
    BY <1>1, BoundsAreNat DEF WriteRow, vars, dbVars, boxVars, brokerVars, wireVars, linkVars, viewVars, callVars, readVars, Frame, NoFrame
<1>2. CASE EndRun
    BY <1>2, BoundsAreNat DEF EndRun, vars, dbVars, boxVars, brokerVars, wireVars, linkVars, viewVars, callVars, readVars, Frame, NoFrame
<1>3. CASE Broadcast
    BY <1>3, BoundsAreNat DEF Broadcast, vars, dbVars, boxVars, brokerVars, wireVars, linkVars, viewVars, callVars, readVars, NoFrame, Frame
<1>4. CASE EmitLog
    BY <1>4, BoundsAreNat DEF EmitLog, vars, dbVars, boxVars, brokerVars, wireVars, linkVars, viewVars, callVars, readVars, LogFrame, Frame
<1>5. CASE closeSubscribers
    BY <1>5, BoundsAreNat DEF closeSubscribers, vars, dbVars, boxVars, brokerVars, wireVars, linkVars, viewVars, callVars, readVars
<1>6. CASE Send
    BY <1>6, BoundsAreNat DEF Send, vars, dbVars, boxVars, brokerVars, wireVars, linkVars, viewVars, callVars, readVars, GapFrame, Frame
<1>7. CASE StreamEnds
    BY <1>7, BoundsAreNat DEF StreamEnds, vars, dbVars, boxVars, brokerVars, wireVars, linkVars, viewVars, callVars, readVars
<1>8. CASE Disconnect
    BY <1>8, BoundsAreNat DEF Disconnect, vars, dbVars, boxVars, brokerVars, wireVars, linkVars, viewVars, callVars, readVars, CutWire, release
<1>9. CASE RestartDaemon
    BY <1>9, BoundsAreNat DEF RestartDaemon, vars, dbVars, boxVars, brokerVars, wireVars, linkVars, viewVars, callVars, readVars, CutWire, release, BreakCall, NoFrame, Frame
<1>10. CASE AnswerGetRun
    BY <1>10, BoundsAreNat DEF AnswerGetRun, vars, dbVars, boxVars, brokerVars, wireVars, linkVars, viewVars, callVars, readVars, runSnapshot
<1>11. CASE GetRunFails
    BY <1>11, BoundsAreNat DEF GetRunFails, vars, dbVars, boxVars, brokerVars, wireVars, linkVars, viewVars, callVars, readVars
<1>12. CASE CallOnDeadConn
    BY <1>12, BoundsAreNat DEF CallOnDeadConn, vars, dbVars, boxVars, brokerVars, wireVars, linkVars, viewVars, callVars, readVars
<1>13. CASE Subscribe
    BY <1>13, BoundsAreNat DEF Subscribe, vars, dbVars, boxVars, brokerVars, wireVars, linkVars, viewVars, callVars, readVars
<1>14. CASE SubscribeFails
    BY <1>14, BoundsAreNat DEF SubscribeFails, vars, dbVars, boxVars, brokerVars, wireVars, linkVars, viewVars, callVars, readVars, subscriptionErr, startResubscribe
<1>15. CASE StreamLost
    BY <1>15, BoundsAreNat DEF StreamLost, vars, dbVars, boxVars, brokerVars, wireVars, linkVars, viewVars, callVars, readVars, subscriptionErr, startResubscribe
<1>16. CASE applyEvent
    BY <1>16, BoundsAreNat DEF applyEvent, vars, dbVars, boxVars, brokerVars, wireVars, linkVars, viewVars, callVars, readVars, applyState, reconcileCmd, NewRead, NoRead
<1>17. CASE Reconciled
    BY <1>17, BoundsAreNat DEF Reconciled, vars, dbVars, boxVars, brokerVars, wireVars, linkVars, viewVars, callVars, readVars, startResubscribe, NewRead, NoRead, accepts
<1>18. CASE ReconcileErrs
    BY <1>18, BoundsAreNat DEF ReconcileErrs, vars, dbVars, boxVars, brokerVars, wireVars, linkVars, viewVars, callVars, readVars, startResubscribe, NoRead
<1>19. CASE RetryReview
    BY <1>19, BoundsAreNat DEF RetryReview, vars, dbVars, boxVars, brokerVars, wireVars, linkVars, viewVars, callVars, readVars, reconcileCmd, NewRead, NoRead
<1>20. CASE UNCHANGED vars
    BY <1>20 DEF vars, dbVars, boxVars, brokerVars, wireVars, linkVars, viewVars, callVars, readVars
<1> QED BY <1>1, <1>2, <1>3, <1>4, <1>5, <1>6, <1>7, <1>8, <1>9, <1>10, <1>11, <1>12, <1>13, <1>14, <1>15, <1>16, <1>17, <1>18, <1>19, <1>20 DEF Next, Progress, Environment

-----------------------------------------------------------------------------
(* Types.                                                                  *)

Reads == [at : {"idle", "asked", "sampled", "half", "answered", "failed"}, rev : Nat, got : [Rows -> Versions]]

DbTyped ==
    /\ db \in [Rows -> Versions] /\ writes \in Versions /\ fin \in Versions
    /\ alive \in BOOLEAN /\ unsent \in Frames
BoxTyped ==
    /\ rev \in Nat /\ finished \in BOOLEAN
    /\ registered \in BOOLEAN /\ ring \in Seq(Frames) /\ gap \in BOOLEAN /\ closed \in BOOLEAN
    /\ wire \in Seq(Frames) /\ wireEnd \in BOOLEAN /\ serving \in BOOLEAN
LinkTyped ==
    /\ link \in {"connecting", "open", "lost"} /\ armed \in BOOLEAN /\ tries \in 0..MaxTries
    /\ view \in [Rows -> Versions] /\ stateRev \in Nat /\ done \in BOOLEAN
CallTyped ==
    /\ pending \in BOOLEAN /\ again \in BOOLEAN /\ retry \in BOOLEAN
    /\ read \in Reads /\ dead \in BOOLEAN
CountTyped == logs \in 0..MaxLogs /\ faults \in 0..MaxFaults

LEMMA TypeParts == TypeOK <=> DbTyped /\ BoxTyped /\ LinkTyped /\ CallTyped /\ CountTyped
BY DEF TypeOK, DbTyped, BoxTyped, LinkTyped, CallTyped, CountTyped, Reads

LEMMA VersionsAreNat == Versions \subseteq Nat /\ 0 \in Versions
BY BoundsAreNat DEF Versions

LEMMA FrameTypes ==
    /\ \A kind \in Kinds, row \in Rows \cup {"none"}, v \in Versions : Frame(kind, row, v) \in Frames
    /\ NoFrame \in Frames /\ GapFrame \in Frames /\ LogFrame \in Frames
    /\ \A e \in Frames, n \in Nat, size \in Sizes : [e EXCEPT !.rev = n, !.size = size] \in Frames
<1>1. \A kind \in Kinds, row \in Rows \cup {"none"}, v \in Versions : Frame(kind, row, v) \in Frames
    BY DEF Frame, Frames
<1>2. NoFrame \in Frames /\ GapFrame \in Frames /\ LogFrame \in Frames
    BY <1>1, VersionsAreNat DEF NoFrame, GapFrame, LogFrame, Kinds
<1>3. \A e \in Frames, n \in Nat, size \in Sizes : [e EXCEPT !.rev = n, !.size = size] \in Frames
    BY DEF Frames
<1> QED BY <1>1, <1>2, <1>3

LEMMA ReadTypes ==
    /\ NoRead \in Reads /\ NewRead \in Reads
    /\ \A c \in Reads :
        /\ c.rev \in Nat /\ c.got \in [Rows -> Versions]
        /\ [c EXCEPT !.at = "failed"] \in Reads
        /\ \A n \in Nat : [c EXCEPT !.at = "sampled", !.rev = n] \in Reads
        /\ \A r \in Rows, v \in Versions, at \in {"half", "answered"} : [c EXCEPT !.at = at, !.got[r] = v] \in Reads
BY VersionsAreNat DEF Reads, NoRead, NewRead

LEMMA DbKept ==
    ASSUME TypeOK, Ended, [Next]_vars
    PROVE  DbTyped'
<1>0. DbTyped /\ fin \in Nat /\ writes \in Nat
    BY TypeParts, VersionsAreNat DEF DbTyped
<1>1. CASE WriteRow
    <2>1. writes + 1 \in Versions
        BY <1>0, <1>1, BoundsAreNat DEF WriteRow, Versions
    <2>2. PICK r \in Rows :
            /\ db' = [db EXCEPT ![r] = writes + 1]
            /\ unsent' \in {Frame("changed", r, writes + 1)} \cup {e \in {Frame("reset", r, writes + 1)} : r = "steps"}
        BY <1>1 DEF WriteRow
    <2>3. unsent' \in Frames
        BY <2>1, <2>2, FrameTypes DEF Kinds
    <2>4. db' \in [Rows -> Versions]
        BY <2>1, <2>2, <1>0 DEF DbTyped
    <2> QED BY <2>1, <2>3, <2>4, <1>0, <1>1 DEF WriteRow, DbTyped
<1>2. CASE EndRun
    <2>1. writes + 1 \in Versions /\ "run" \in Rows
        BY <1>0, <1>2, BoundsAreNat DEF EndRun, Versions, Ended, Rows
    <2>2. unsent' \in Frames
        BY <2>1, <1>2, FrameTypes DEF Kinds, EndRun
    <2>3. db' \in [Rows -> Versions]
        BY <2>1, <1>0, <1>2 DEF DbTyped, EndRun
    <2> QED BY <2>1, <2>2, <2>3, <1>0, <1>2 DEF EndRun, DbTyped
<1>3. CASE RestartDaemon
    <2>1. unsent' \in Frames
        BY <1>3, FrameTypes DEF RestartDaemon
    <2>2. CASE UNCHANGED <<db, writes, fin>> /\ alive' \in {alive, FALSE}
        BY <2>1, <2>2, <1>0 DEF DbTyped
    <2>3. CASE fin = 0 /\ writes' = writes + 1 /\ fin' = writes + 1 /\ db' = [r \in Rows |-> writes + 1] /\ alive' = FALSE
        <3>1. writes + 1 \in Versions
            BY <1>0, <2>3, BoundsAreNat DEF Versions, Ended
        <3> QED BY <3>1, <2>1, <2>3 DEF DbTyped
    <2> QED BY <2>2, <2>3, <1>3 DEF RestartDaemon
<1>4. CASE Broadcast
    BY <1>0, <1>4, FrameTypes DEF Broadcast, DbTyped
<1>5. CASE closeSubscribers
    BY <1>0, <1>5 DEF closeSubscribers, DbTyped
<1>6. CASE UNCHANGED dbVars
    BY <1>0, <1>6 DEF dbVars, DbTyped
<1> QED BY <1>1, <1>2, <1>3, <1>4, <1>5, <1>6 DEF Next, Progress, Environment, vars,
    EmitLog, Send, StreamEnds, Disconnect, AnswerGetRun, GetRunFails, CallOnDeadConn, Subscribe, SubscribeFails,
    StreamLost, applyEvent, Reconciled, ReconcileErrs, RetryReview

LEMMA BoxKept ==
    ASSUME TypeOK, [Next]_vars
    PROVE  BoxTyped'
<1>0. BoxTyped /\ unsent \in Frames
    BY TypeParts DEF BoxTyped, DbTyped
<1>1. CASE Broadcast
    <2>3. /\ rev' \in Nat /\ finished' \in BOOLEAN /\ registered' \in BOOLEAN /\ closed' \in BOOLEAN
          /\ wire' \in Seq(Frames) /\ wireEnd' \in BOOLEAN /\ serving' \in BOOLEAN
        <3>1. rev' = rev + 1 /\ UNCHANGED <<finished, registered, closed, wire, wireEnd, serving>>
            BY <1>1 DEF Broadcast, wireVars
        <3> QED BY <3>1, <1>0 DEF BoxTyped
    <2>1. CASE registered
        <3>1. PICK size \in Sizes : publish([unsent EXCEPT !.rev = rev + 1, !.size = size])
            BY <1>1, <2>1 DEF Broadcast
        <3>2. [unsent EXCEPT !.rev = rev + 1, !.size = size] \in Frames
            <4>1. rev + 1 \in Nat
                BY <1>0 DEF BoxTyped
            <4> QED BY <4>1, <1>0, FrameTypes
        <3>3. ring' \in Seq(Frames) /\ gap' \in BOOLEAN
            BY <3>1, <3>2, <1>0, PublishKeeps DEF BoxTyped
        <3> QED BY <3>3, <2>3 DEF BoxTyped
    <2>2. CASE ~registered
        BY <2>2, <2>3, <1>0, <1>1 DEF Broadcast, BoxTyped
    <2> QED BY <2>1, <2>2
<1>2. CASE EmitLog
    <2>1. ring' \in Seq(Frames)
        BY <1>0, <1>2, FrameTypes, HeldOfAppend DEF EmitLog, BoxTyped
    <2> QED BY <2>1, <1>0, <1>2 DEF EmitLog, BoxTyped, wireVars, brokerVars
<1>3. CASE closeSubscribers
    BY <1>0, <1>3 DEF closeSubscribers, BoxTyped, wireVars
<1>4. CASE Send
    <2>1. CASE gap /\ gap' = FALSE /\ ring' = ring /\ wire' = Append(wire, GapFrame)
        <3>1. wire' \in Seq(Frames)
            BY <2>1, <1>0, FrameTypes, HeldOfAppend DEF BoxTyped
        <3> QED BY <3>1, <2>1, <1>0, <1>4 DEF Send, BoxTyped, brokerVars
    <2>2. CASE ~gap /\ ring # <<>> /\ gap' = gap /\ ring' = Tail(ring) /\ wire' = Append(wire, Head(ring))
        <3>1. Head(ring) \in Frames /\ ring' \in Seq(Frames)
            BY <2>2, <1>0, HeldOfTail DEF BoxTyped
        <3>2. wire' \in Seq(Frames)
            BY <3>1, <2>2, <1>0 DEF BoxTyped
        <3> QED BY <3>1, <3>2, <2>2, <1>0, <1>4 DEF Send, BoxTyped, brokerVars
    <2> QED BY <2>1, <2>2, <1>4 DEF Send
<1>5. CASE StreamEnds
    BY <1>0, <1>5 DEF StreamEnds, BoxTyped, boxVars, brokerVars
<1>6. CASE CutWire /\ (UNCHANGED brokerVars \/ (rev' = 0 /\ finished' = FALSE))
    <2>1. wire' \in Seq(Frames)
        BY <1>0, <1>6, HeldOfPrefix DEF CutWire, BoxTyped
    <2>2. ring' \in Seq(Frames) /\ rev' \in Nat /\ finished' \in BOOLEAN
        <3>1. ring' = <<>>
            BY <1>6 DEF CutWire, release
        <3>2. (rev' = rev \/ rev' = 0) /\ (finished' = finished \/ finished' = FALSE)
            BY <1>6 DEF brokerVars
        <3>3. ring' \in Seq(Frames)
            BY <3>1
        <3>4. rev' \in Nat
            BY <3>2, <1>0 DEF BoxTyped
        <3>5. finished' \in BOOLEAN
            BY <3>2, <1>0, Zenon DEF BoxTyped
        <3> QED BY <3>3, <3>4, <3>5
    <2>3. /\ registered' \in BOOLEAN /\ gap' \in BOOLEAN /\ closed' \in BOOLEAN
          /\ wireEnd' \in BOOLEAN /\ serving' \in BOOLEAN
        BY <1>6 DEF CutWire, release
    <2> QED BY <2>1, <2>2, <2>3 DEF BoxTyped
<1>7. CASE Subscribe
    <2>1. CASE done
        BY <2>1, <1>0, <1>7 DEF Subscribe, BoxTyped, boxVars, wireVars, brokerVars
    <2>2. CASE ~done
        <3>1. ring' \in Seq(Frames) /\ wire' \in Seq(Frames)
            BY <2>2, <1>7 DEF Subscribe
        <3>2. registered' \in BOOLEAN /\ closed' \in BOOLEAN /\ gap' \in BOOLEAN /\ wireEnd' \in BOOLEAN /\ serving' \in BOOLEAN
            BY <2>2, <1>0, <1>7 DEF Subscribe, BoxTyped
        <3> QED BY <3>1, <3>2, <1>0, <1>7 DEF Subscribe, BoxTyped, brokerVars
    <2> QED BY <2>1, <2>2
<1>8. CASE applyEvent
    <2>1. wire' \in Seq(Frames)
        BY <1>0, <1>8, HeldOfTail DEF applyEvent, BoxTyped
    <2> QED BY <2>1, <1>0, <1>8 DEF applyEvent, BoxTyped, boxVars, brokerVars
<1>9. CASE UNCHANGED <<boxVars, brokerVars, wireVars>>
    BY <1>0, <1>9 DEF BoxTyped, boxVars, brokerVars, wireVars
<1> QED BY <1>1, <1>2, <1>3, <1>4, <1>5, <1>6, <1>7, <1>8, <1>9 DEF Next, Progress, Environment, vars,
    WriteRow, EndRun, Disconnect, RestartDaemon, AnswerGetRun, GetRunFails, CallOnDeadConn, SubscribeFails,
    StreamLost, Reconciled, ReconcileErrs, RetryReview

LEMMA LinkKept ==
    ASSUME TypeOK, [Next]_vars
    PROVE  LinkTyped'
<1>0. LinkTyped /\ CallTyped /\ wire \in Seq(Frames)
    BY TypeParts DEF BoxTyped
<1>1. ASSUME NEW n \in 0..MaxTries, startResubscribe(n)
      PROVE  link' \in {"connecting", "open", "lost"} /\ tries' \in 0..MaxTries /\ stateRev' \in Nat
    BY <1>0, <1>1, BoundsAreNat DEF startResubscribe, LinkTyped
<1>2. CASE subscriptionErr /\ UNCHANGED <<view, done>>
    BY <1>0, <1>1, <1>2 DEF subscriptionErr, LinkTyped
<1>3. CASE Subscribe
    BY <1>0, <1>3 DEF Subscribe, LinkTyped, viewVars
<1>4. CASE applyEvent
    <2> DEFINE e == Head(wire)
    <2>1. e \in Frames
        BY <1>0, <1>4, HeldOfTail DEF applyEvent
    <2>2. e.rev \in Nat /\ e.v \in Versions
        BY <2>1 DEF Frames
    <2>3. UNCHANGED viewVars \/ applyState(e)
        BY <1>4 DEF applyEvent
    <2> HIDE DEF e
    <2>4. view' \in [Rows -> Versions] /\ stateRev' \in Nat /\ done' \in BOOLEAN
        BY <2>2, <2>3, <1>0 DEF applyState, viewVars, LinkTyped
    <2> QED BY <2>4, <1>0, <1>4 DEF applyEvent, LinkTyped
<1>5. CASE Reconciled
    <2>1. read.got \in [Rows -> Versions] /\ read.rev \in Nat
        BY <1>0, ReadTypes DEF CallTyped
    <2>2. view' \in [Rows -> Versions] /\ done' \in BOOLEAN /\ armed' \in BOOLEAN
        BY <2>1, <1>0, <1>5 DEF Reconciled, LinkTyped
    <2>3. link' \in {"connecting", "open", "lost"} /\ tries' \in 0..MaxTries /\ stateRev' \in Nat
        BY <2>1, <1>0, <1>1, <1>5, BoundsAreNat DEF Reconciled, LinkTyped
    <2> QED BY <2>2, <2>3 DEF LinkTyped
<1>6. CASE ReconcileErrs
    BY <1>0, <1>1, <1>6 DEF ReconcileErrs, LinkTyped
<1>7. CASE UNCHANGED <<linkVars, viewVars>>
    BY <1>0, <1>7 DEF LinkTyped, linkVars, viewVars
<1> QED BY <1>2, <1>3, <1>4, <1>5, <1>6, <1>7 DEF Next, Progress, Environment, vars,
    WriteRow, EndRun, Broadcast, closeSubscribers, EmitLog, Send, StreamEnds, Disconnect, RestartDaemon,
    AnswerGetRun, GetRunFails, CallOnDeadConn, SubscribeFails, StreamLost, RetryReview

LEMMA CallKept ==
    ASSUME TypeOK, [Next]_vars
    PROVE  CallTyped'
<1>0. CallTyped /\ rev \in Nat /\ db \in [Rows -> Versions] /\ wire \in Seq(Frames)
    BY TypeParts DEF BoxTyped, DbTyped
<1>1. CASE reconcileCmd /\ dead' = dead
    BY <1>0, <1>1, ReadTypes DEF reconcileCmd, CallTyped
<1>2. CASE RestartDaemon
    <2>1. read' \in Reads
        <3>1. CASE read.at \in {"asked", "sampled", "half"}
            BY <3>1, <1>0, <1>2, ReadTypes DEF RestartDaemon, BreakCall, CallTyped
        <3>2. CASE read.at \notin {"asked", "sampled", "half"}
            BY <3>2, <1>0, <1>2 DEF RestartDaemon, BreakCall, CallTyped, Reads
        <3> QED BY <3>1, <3>2
    <2> QED BY <2>1, <1>0, <1>2 DEF RestartDaemon, CallTyped
<1>3. CASE AnswerGetRun
    <2>0. "run" \in Rows /\ "steps" \in Rows /\ db["run"] \in Versions /\ db["steps"] \in Versions
        BY <1>0 DEF Rows
    <2>1. read' \in Reads
        <3>1. CASE read.at = "asked"
            BY <3>1, <1>0, <1>3, ReadTypes DEF AnswerGetRun, runSnapshot, CallTyped
        <3>2. CASE read.at = "sampled"
            BY <3>2, <2>0, <1>0, <1>3, ReadTypes DEF AnswerGetRun, runSnapshot, CallTyped
        <3>3. CASE read.at = "half"
            BY <3>3, <2>0, <1>0, <1>3, ReadTypes DEF AnswerGetRun, runSnapshot, CallTyped
        <3> QED BY <3>1, <3>2, <3>3, <1>3 DEF AnswerGetRun
    <2> QED BY <2>1, <1>0, <1>3 DEF AnswerGetRun, CallTyped
<1>4. CASE GetRunFails
    BY <1>0, <1>4, ReadTypes DEF GetRunFails, CallTyped
<1>5. CASE CallOnDeadConn
    BY <1>0, <1>5, ReadTypes DEF CallOnDeadConn, CallTyped
<1>6. CASE applyEvent
    <2>1. UNCHANGED readVars \/ reconcileCmd
        BY <1>6 DEF applyEvent, applyState
    <2>2. dead' = dead
        BY <1>6 DEF applyEvent
    <2> QED BY <2>1, <2>2, <1>0, <1>1 DEF readVars, CallTyped
<1>7. CASE Reconciled
    BY <1>0, <1>7, ReadTypes DEF Reconciled, CallTyped
<1>8. CASE ReconcileErrs
    BY <1>0, <1>8, ReadTypes DEF ReconcileErrs, CallTyped
<1>9. CASE UNCHANGED callVars
    BY <1>0, <1>9 DEF CallTyped, callVars, readVars
<1> QED BY <1>1, <1>2, <1>3, <1>4, <1>5, <1>6, <1>7, <1>8, <1>9 DEF Next, Progress, Environment, vars,
    WriteRow, EndRun, Broadcast, closeSubscribers, EmitLog, Send, StreamEnds, Disconnect,
    Subscribe, SubscribeFails, StreamLost, RetryReview

LEMMA TypeKept ==
    ASSUME TypeOK, Ended, [Next]_vars
    PROVE  TypeOK'
<1>1. CountTyped'
    <2>1. logs \in 0..MaxLogs /\ faults \in 0..MaxFaults
        BY TypeParts DEF CountTyped
    <2>2. logs' = logs \/ (logs < MaxLogs /\ logs' = logs + 1)
        BY DEF Next, Progress, Environment, vars,
            WriteRow, EndRun, Broadcast, closeSubscribers, EmitLog, Send, StreamEnds, Disconnect, RestartDaemon, AnswerGetRun,
            GetRunFails, CallOnDeadConn, Subscribe, SubscribeFails, StreamLost, applyEvent, Reconciled, ReconcileErrs, RetryReview
    <2>3. faults' = faults \/ (faults < MaxFaults /\ faults' = faults + 1)
        BY DEF Next, Progress, Environment, vars,
            WriteRow, EndRun, Broadcast, closeSubscribers, EmitLog, Send, StreamEnds, Disconnect, RestartDaemon, AnswerGetRun,
            GetRunFails, CallOnDeadConn, Subscribe, SubscribeFails, StreamLost, applyEvent, Reconciled, ReconcileErrs, RetryReview
    <2> QED BY <2>1, <2>2, <2>3, BoundsAreNat DEF CountTyped
<1>2. DbTyped' /\ BoxTyped' /\ LinkTyped' /\ CallTyped'
    BY DbKept, BoxKept, LinkKept, CallKept
<1>3. TypeOK' <=> DbTyped' /\ BoxTyped' /\ LinkTyped' /\ CallTyped' /\ CountTyped'
    BY DEF TypeOK, DbTyped, BoxTyped, LinkTyped, CallTyped, CountTyped, Reads
<1> QED BY <1>1, <1>2, <1>3

-----------------------------------------------------------------------------
(* How each action moves the frames.                                       *)

LEMMA StillFlow ==
    ASSUME UNCHANGED <<wire, ring, gap>>, wireEnd => wireEnd'
    PROVE  Due' = Due /\ (GapAhead => GapAhead') /\ (Rises => Rises')
BY DEF Due, InStream, GapAhead, Rises, Held, Rising

LEMMA EmitFlow ==
    ASSUME TypeOK, EmitLog
    PROVE  Due' = Due /\ (GapAhead => GapAhead') /\ (Rises => Rises')
<1>1. ring \in Seq(Frames) /\ wire' = wire /\ gap' = gap /\ wireEnd' = wireEnd
    BY DEF TypeOK, EmitLog, wireVars
<1>2. InStream = Held(wire) \cup Held(ring) /\ InStream' = Held(wire) \cup Held(ring')
    BY <1>1 DEF InStream, Held
<1>3. ~News(LogFrame) /\ LogFrame \in Frames
    BY FrameTypes DEF News, LogFrame, Frame
<1>4. /\ Held(ring') = Held(ring) \/ Held(ring') = Held(ring) \cup {LogFrame}
      /\ Rising(ring) => Rising(ring')
    <2>1. CASE ring' = ring
        BY <2>1
    <2>2. CASE ring' = Append(ring, LogFrame)
        BY <2>2, <1>1, <1>3, HeldOfAppend
    <2> QED BY <2>1, <2>2 DEF EmitLog
<1>5. Due' = Due
    BY <1>2, <1>3, <1>4 DEF Due
<1>6. GapAhead => GapAhead'
    BY <1>1, <1>2, <1>4 DEF GapAhead
<1>7. Rises => Rises'
    BY <1>1, <1>3, <1>4 DEF Rises
<1> QED BY <1>5, <1>6, <1>7

LEMMA SendFlow ==
    ASSUME TypeOK, Send
    PROVE  Due' = Due /\ (GapAhead => GapAhead') /\ (Rises => Rises')
<1>1. ring \in Seq(Frames) /\ wire \in Seq(Frames) /\ wireEnd' = wireEnd
    BY DEF TypeOK, Send
<1>2. InStream = Held(wire) \cup Held(ring) /\ InStream' = Held(wire') \cup Held(ring')
    BY DEF InStream, Held
<1>3. CASE gap /\ ring' = ring /\ wire' = Append(wire, GapFrame)
    <2>1. ~News(GapFrame) /\ GapFrame \in Frames /\ GapFrame.kind = "gap"
        BY FrameTypes DEF News, GapFrame, Frame
    <2>2. Held(wire') = Held(wire) \cup {GapFrame} /\ (Rising(wire) => Rising(wire'))
        BY <1>3, <2>1, <1>1, HeldOfAppend
    <2>3. Due' = Due
        BY <1>2, <1>3, <2>1, <2>2 DEF Due
    <2>4. GapAhead'
        BY <1>2, <2>1, <2>2 DEF GapAhead
    <2>5. Rises => Rises'
        BY <1>3, <2>1, <2>2 DEF Rises
    <2> QED BY <2>3, <2>4, <2>5
<1>4. CASE ~gap /\ ring # <<>> /\ gap' = gap /\ ring' = Tail(ring) /\ wire' = Append(wire, Head(ring))
    <2> DEFINE e == Head(ring)
    <2>1. /\ e \in Frames /\ Held(ring) = Held(ring') \cup {e}
          /\ Rising(ring) => Rising(ring') /\ \A f \in Held(ring') : News(e) /\ News(f) => e.rev < f.rev
        BY <1>4, <1>1, HeldOfTail
    <2>2. wire' = Append(wire, e)
        BY <1>4
    <2> HIDE DEF e
    <2>3. /\ Held(wire') = Held(wire) \cup {e}
          /\ Rising(wire) /\ (\A f \in Held(wire) : News(e) /\ News(f) => f.rev < e.rev) => Rising(wire')
        BY <2>1, <2>2, <1>1, HeldOfAppend
    <2>4. InStream' = InStream
        BY <1>2, <2>1, <2>3
    <2>5. Due' = Due
        BY <2>4 DEF Due
    <2>6. GapAhead => GapAhead'
        BY <2>4, <1>1, <1>4 DEF GapAhead
    <2>7. Rises => Rises'
        BY <2>1, <2>3 DEF Rises
    <2> QED BY <2>5, <2>6, <2>7
<1> QED BY <1>3, <1>4 DEF Send

LEMMA BroadcastFlow ==
    ASSUME TypeOK, Ended, Connected, Broadcast
    PROVE  /\ GapAhead => GapAhead'
           /\ Rises /\ (\A f \in Due : f.rev <= rev) => Rises'
           /\ \E e \in Frames :
                /\ News(e) /\ e.kind = unsent.kind /\ e.row = unsent.row /\ e.v = unsent.v /\ e.rev = rev + 1
                /\ Due \subseteq Due' /\ Due' \subseteq Due \cup {e}
                /\ GapAhead' \/ e \in Due'
<1>1. ring \in Seq(Frames) /\ gap \in BOOLEAN /\ unsent \in Frames /\ rev \in Nat /\ wire' = wire /\ wireEnd' = wireEnd
    BY DEF TypeOK, Broadcast, wireVars
<1>2. InStream = Held(wire) \cup Held(ring) /\ InStream' = Held(wire) \cup Held(ring')
    BY <1>1 DEF InStream, Held
<1>3. News(unsent)
    BY DEF Broadcast, Ended
<1>4. CASE registered
    <2>1. PICK size \in Sizes : publish([unsent EXCEPT !.rev = rev + 1, !.size = size])
        BY <1>4 DEF Broadcast
    <2> DEFINE e == [unsent EXCEPT !.rev = rev + 1, !.size = size]
    <2>2. e \in Frames
        <3>1. rev + 1 \in Nat
            BY <1>1
        <3> QED BY <3>1, <1>1, FrameTypes
    <2>3. e.kind = unsent.kind /\ e.row = unsent.row /\ e.v = unsent.v /\ e.rev = rev + 1
        BY <1>1 DEF Frames
    <2>4. publish(e)
        BY <2>1
    <2> HIDE DEF e
    <2>5. News(e)
        BY <1>3, <2>3 DEF News
    <2>6. /\ Held(ring') \subseteq Held(ring) \cup {e}
          /\ \A f \in Held(ring) : f.kind # "log" => f \in Held(ring')
          /\ gap => gap'
          /\ gap' \/ e \in Held(ring')
          /\ Rising(ring) /\ (\A f \in Held(ring) : News(e) /\ News(f) => f.rev < e.rev) => Rising(ring')
        BY <2>2, <2>4, <1>1, PublishKeeps
    <2>7. GapAhead => GapAhead'
        BY <1>1, <1>2, <2>6 DEF GapAhead
    <2>8. Due \subseteq Due' /\ Due' \subseteq Due \cup {e}
        BY <1>2, <2>6 DEF Due, News
    <2>9. GapAhead' \/ e \in Due'
        BY <1>2, <2>5, <2>6 DEF Due, GapAhead
    <2>10. ASSUME Rises, \A f \in Due : f.rev <= rev
           PROVE  Rises'
        <3>1. \A f \in InStream : News(f) => f.rev < e.rev
            <4> SUFFICES ASSUME NEW f \in InStream, News(f)
                         PROVE  f.rev < rev + 1
                BY <2>3
            <4>1. f.rev <= rev /\ f.rev \in Nat
                BY <2>10, FramesHeld DEF Due
            <4> QED BY <4>1, <1>1
        <3>2. Rising(ring')
            BY <3>1, <1>2, <2>6, <2>10 DEF Rises
        <3>3. \A g \in Held(wire), f \in Held(ring') : News(g) /\ News(f) => g.rev < f.rev
            BY <3>1, <1>2, <2>6, <2>10 DEF Rises
        <3> QED BY <3>2, <3>3, <1>1, <2>10 DEF Rises
    <2> QED BY <2>2, <2>3, <2>5, <2>7, <2>8, <2>9, <2>10
<1>5. CASE ~registered
    <2> DEFINE e == [unsent EXCEPT !.rev = rev + 1]
    <2>1. e \in Frames /\ e.kind = unsent.kind /\ e.row = unsent.row /\ e.v = unsent.v /\ e.rev = rev + 1
        BY <1>1 DEF Frames
    <2>2. News(e)
        BY <1>3, <2>1 DEF News
    <2> HIDE DEF e
    <2>3. ring' = ring /\ gap' = gap
        BY <1>5 DEF Broadcast
    <2>4. Due' = Due /\ (GapAhead => GapAhead') /\ (Rises => Rises')
        BY <2>3, <1>1, StillFlow
    <2>5. GapAhead'
        BY <1>1, <1>5 DEF GapAhead, Connected, Ended, Broadcast
    <2> QED BY <2>1, <2>2, <2>4, <2>5
<1> QED BY <1>4, <1>5

LEMMA CutFlow ==
    ASSUME TypeOK, CutWire
    PROVE  GapAhead' /\ Due' \subseteq Due /\ (Rises => Rises')
<1>1. PICK n \in 0..Len(wire) : wire' = SubSeq(wire, 1, n)
    BY DEF CutWire
<1>2. ring' = <<>> /\ wireEnd'
    BY DEF CutWire, release
<1>3. Held(wire') \subseteq Held(wire) /\ (Rising(wire) => Rising(wire'))
    BY <1>1, HeldOfPrefix DEF TypeOK
<1>4. Held(ring') = {} /\ Rising(ring')
    BY <1>2 DEF Held, Rising
<1>5. InStream = Held(wire) \cup Held(ring) /\ InStream' = Held(wire') \cup Held(ring')
    BY DEF InStream, Held
<1> QED BY <1>2, <1>3, <1>4, <1>5 DEF GapAhead, Due, Rises

LEMMA SubscribeFlow ==
    ASSUME Subscribe, ~done
    PROVE  GapAhead' /\ Due' = {} /\ Rises'
<1>1. ring' = <<>> /\ wire' = <<>> /\ gap'
    BY DEF Subscribe
<1>2. InStream' = {} /\ Held(ring') = {} /\ Held(wire') = {} /\ Rising(ring') /\ Rising(wire')
    BY <1>1 DEF Held, Rising, InStream
<1> QED BY <1>1, <1>2 DEF GapAhead, Due, Rises

LEMMA ApplyFlow ==
    ASSUME TypeOK, applyEvent, NEW e, e = Head(wire)
    PROVE  /\ e \in Frames /\ e \in InStream
           /\ Due' \subseteq Due /\ \A f \in Due : f \in Due' \/ f = e
           /\ e.kind # "gap" /\ GapAhead => GapAhead'
           /\ Rises => Rises' /\ (News(e) => \A f \in Due' : e.rev < f.rev)
<1>1. wire \in Seq(Frames) /\ wire # <<>> /\ wire' = Tail(wire) /\ ring' = ring /\ gap' = gap /\ wireEnd' = wireEnd
    BY DEF TypeOK, applyEvent, boxVars
<1>2. /\ e \in Frames /\ Held(wire) = Held(wire') \cup {e}
      /\ Rising(wire) => Rising(wire') /\ \A f \in Held(wire') : News(e) /\ News(f) => e.rev < f.rev
    BY <1>1, HeldOfTail
<1>3. InStream = Held(wire) \cup Held(ring) /\ InStream' = Held(wire') \cup Held(ring)
    BY <1>1 DEF InStream, Held
<1>4. Due' \subseteq Due /\ \A f \in Due : f \in Due' \/ f = e
    BY <1>2, <1>3 DEF Due
<1>5. e.kind # "gap" /\ GapAhead => GapAhead'
    BY <1>1, <1>2, <1>3 DEF GapAhead
<1>6. Rises => Rises' /\ (News(e) => \A f \in Due' : e.rev < f.rev)
    BY <1>1, <1>2, <1>3 DEF Rises, Due
<1> QED BY <1>2, <1>3, <1>4, <1>5, <1>6

-----------------------------------------------------------------------------
(* Revisions rise along the stream.                                        *)

LEMMA DeadStays ==
    ASSUME dead, [Next]_vars
    PROVE  dead'
BY DEF Next, Progress, Environment, vars, callVars,
    WriteRow, EndRun, Broadcast, closeSubscribers, EmitLog, Send, StreamEnds, Disconnect, RestartDaemon, AnswerGetRun,
    GetRunFails, CallOnDeadConn, Subscribe, SubscribeFails, StreamLost, applyEvent, Reconciled, ReconcileErrs, RetryReview

\* What a TUI step does to the two revisions the TUI holds.
LEMMA RevisionsHeld ==
    ASSUME TypeOK, [Next]_vars, ~dead'
    PROVE  /\ \/ stateRev' = stateRev \/ stateRev' = 0 \/ stateRev' = read.rev
              \/ applyEvent /\ News(Head(wire)) /\ stateRev' = Head(wire).rev
           /\ read'.rev = read.rev \/ read'.rev = 0 \/ (read'.rev = rev /\ rev' = rev)
           /\ rev' = rev \/ Broadcast
<1>0. read \in Reads /\ wire \in Seq(Frames)
    BY TypeParts DEF CallTyped, BoxTyped
<1>1. rev' = rev \/ Broadcast
    BY DEF Next, Progress, Environment, vars, brokerVars,
        WriteRow, EndRun, closeSubscribers, EmitLog, Send, StreamEnds, Disconnect, RestartDaemon, AnswerGetRun,
        GetRunFails, CallOnDeadConn, Subscribe, SubscribeFails, StreamLost, applyEvent, Reconciled, ReconcileErrs, RetryReview
<1>2. NewRead.rev = 0 /\ NoRead.rev = 0
    BY DEF NewRead, NoRead
<1>3. CASE AnswerGetRun
    <2>1. rev' = rev /\ stateRev' = stateRev
        BY <1>3 DEF AnswerGetRun, brokerVars, viewVars
    <2>2. read'.rev = read.rev \/ read'.rev = rev
        BY <1>0, <1>3 DEF AnswerGetRun, runSnapshot, Reads
    <2> QED BY <2>1, <2>2
<1>4. CASE GetRunFails \/ CallOnDeadConn
    <2>1. read'.rev = read.rev
        BY <1>0, <1>4 DEF GetRunFails, CallOnDeadConn, Reads
    <2>2. stateRev' = stateRev
        BY <1>4 DEF GetRunFails, CallOnDeadConn, viewVars
    <2> QED BY <2>1, <2>2, <1>1
<1>5. CASE applyEvent
    <2> DEFINE e == Head(wire)
    <2>1. e \in Frames
        BY <1>0, <1>5, HeldOfTail DEF applyEvent
    <2>2. UNCHANGED readVars \/ reconcileCmd
        BY <1>5 DEF applyEvent, applyState
    <2>3. read'.rev = read.rev \/ read'.rev = 0
        BY <2>2, <1>2 DEF reconcileCmd, readVars
    <2>4. stateRev' = stateRev \/ (News(e) /\ stateRev' = e.rev)
        BY <1>5 DEF applyEvent, applyState, News, viewVars
    <2> QED BY <2>3, <2>4, <1>1, <1>5
<1>6. CASE Reconciled
    BY <1>1, <1>2, <1>6 DEF Reconciled, startResubscribe
<1>7. CASE ReconcileErrs
    BY <1>1, <1>2, <1>7 DEF ReconcileErrs, startResubscribe
<1>8. CASE SubscribeFails \/ StreamLost
    BY <1>1, <1>8 DEF SubscribeFails, StreamLost, subscriptionErr, startResubscribe, callVars, readVars
<1>9. CASE RetryReview
    BY <1>1, <1>2, <1>9 DEF RetryReview, reconcileCmd, viewVars
<1>10. CASE UNCHANGED <<read, stateRev>>
    BY <1>1, <1>10
<1> QED BY <1>3, <1>4, <1>5, <1>6, <1>7, <1>8, <1>9, <1>10 DEF Next, Progress, Environment, vars, viewVars, callVars, readVars,
    WriteRow, EndRun, Broadcast, closeSubscribers, EmitLog, Send, StreamEnds, Disconnect, RestartDaemon, Subscribe

LEMMA OrderedKept ==
    ASSUME TypeOK, TypeOK', Ended, Connected, Ordered, [Next]_vars, ~dead'
    PROVE  Ordered'
<1>0. rev \in Nat /\ rev' \in Nat /\ stateRev \in Nat /\ read.rev \in Nat /\ read \in Reads
    BY TypeParts, ReadTypes DEF CallTyped, BoxTyped, LinkTyped, TypeOK
<1>1. ASSUME Due' \subseteq Due, Rises', rev' = rev
      PROVE  Ordered'
    <2>1. stateRev' <= rev
        <3>1. CASE applyEvent /\ News(Head(wire)) /\ stateRev' = Head(wire).rev
            <4>1. Head(wire) \in InStream
                BY <3>1, ApplyFlow
            <4> QED BY <3>1, <4>1 DEF Ordered, Due
        <3> QED BY <3>1, <1>0, RevisionsHeld DEF Ordered
    <2>2. read'.rev <= rev
        BY <1>0, RevisionsHeld DEF Ordered
    <2> QED BY <1>1, <2>1, <2>2 DEF Ordered
<1>2. CASE Broadcast
    <2>1. Rises'
        BY <1>2, BroadcastFlow DEF Ordered
    <2>2. rev' = rev + 1 /\ stateRev' = stateRev /\ read' = read
        BY <1>2 DEF Broadcast, viewVars, callVars, readVars
    <2>3. PICK e \in Frames : e.row = unsent.row /\ e.rev = rev + 1 /\ Due' \subseteq Due \cup {e}
        BY <1>2, BroadcastFlow
    <2>4. e.row \in Rows
        BY <1>2, <2>3 DEF Ended, Broadcast
    <2>5. \A f \in Due : f.rev \in Nat /\ f.rev <= rev /\ f.row \in Rows
        BY FramesHeld DEF Ordered, Due
    <2>6. \A f \in Due' : f.rev <= rev' /\ f.row \in Rows
        BY <2>2, <2>3, <2>4, <2>5, <1>0
    <2> QED BY <2>1, <2>2, <2>6, <1>0 DEF Ordered
<1>3. CASE EmitLog
    BY <1>1, <1>3, EmitFlow DEF Ordered, EmitLog, brokerVars
<1>4. CASE Send
    BY <1>1, <1>4, SendFlow DEF Ordered, Send, brokerVars
<1>5. CASE Disconnect
    BY <1>1, <1>5, CutFlow DEF Ordered, Disconnect, brokerVars
<1>6. CASE Subscribe /\ ~done
    BY <1>1, <1>6, SubscribeFlow DEF Ordered, Subscribe, brokerVars
<1>7. CASE applyEvent
    <2>1. Due' \subseteq Due /\ Rises'
        BY <1>7, ApplyFlow DEF Ordered
    <2> QED BY <2>1, <1>1, <1>7 DEF applyEvent, brokerVars
<1>8. ASSUME UNCHANGED <<boxVars, wireVars, brokerVars>>
      PROVE  Ordered'
    BY <1>1, <1>8, StillFlow DEF Ordered, boxVars, wireVars, brokerVars
<1>9. CASE WriteRow \/ EndRun \/ AnswerGetRun \/ GetRunFails \/ CallOnDeadConn
    BY <1>8, <1>9 DEF WriteRow, EndRun, AnswerGetRun, GetRunFails, CallOnDeadConn
<1>10. CASE SubscribeFails \/ StreamLost \/ Reconciled \/ ReconcileErrs \/ RetryReview
    BY <1>8, <1>10 DEF SubscribeFails, StreamLost, Reconciled, ReconcileErrs, RetryReview
<1>11. CASE closeSubscribers
    BY <1>1, <1>11, StillFlow DEF Ordered, closeSubscribers, wireVars
<1>12. CASE StreamEnds
    BY <1>1, <1>12, StillFlow DEF Ordered, StreamEnds, boxVars, brokerVars
<1>13. CASE Subscribe /\ done
    BY <1>8, <1>13 DEF Subscribe
<1>14. CASE UNCHANGED vars
    BY <1>8, <1>14 DEF vars
<1>15. ~RestartDaemon
    BY DEF RestartDaemon
<1> QED BY <1>2, <1>3, <1>4, <1>5, <1>6, <1>7, <1>9, <1>10, <1>11, <1>12, <1>13, <1>14, <1>15 DEF Next, Progress, Environment

-----------------------------------------------------------------------------
(* A TUI whose connection for calls is gone.                               *)

\* A request is answered by a read that has yet to begin.
LEMMA AsksAgain ==
    ASSUME reconcileCmd
    PROVE  pending' /\ (again' \/ read'.at \in {"asked", "failed"})
<1>1. NewRead.at = "asked"
    BY DEF NewRead, NoRead
<1> QED BY <1>1 DEF reconcileCmd

LEMMA DeadAsksKept ==
    ASSUME TypeOK, Ended, Connected, Asking, DeadAsks, [Next]_vars
    PROVE  DeadAsks'
<1> SUFFICES ASSUME dead', link' = "open", ~done'
             PROVE  GapAhead' \/ retry' \/ (pending' /\ (again' \/ read'.at \in {"asked", "failed"}))
    BY DEF DeadAsks
<1>0. read \in Reads /\ pending \in BOOLEAN /\ retry \in BOOLEAN
    BY TypeParts DEF CallTyped
<1>1. CASE RestartDaemon \/ Disconnect
    BY <1>1, CutFlow DEF RestartDaemon, Disconnect
<1>2. CASE GetRunFails \/ CallOnDeadConn
    <2>1. pending /\ pending' = pending
        BY <1>2 DEF GetRunFails, CallOnDeadConn, Asking, readVars
    <2>2. read'.at = "failed"
        BY <1>0, <1>2 DEF GetRunFails, CallOnDeadConn, Reads
    <2> QED BY <2>1, <2>2
<1>3. CASE Subscribe
    <2>1. CASE done
        BY <1>3, <2>1 DEF Subscribe, viewVars
    <2>2. CASE ~done
        BY <1>3, <2>2, SubscribeFlow
    <2> QED BY <2>1, <2>2
<1>4. CASE SubscribeFails \/ StreamLost
    <2>1. wireEnd /\ wireEnd' = wireEnd
        BY <1>4 DEF SubscribeFails, StreamLost, wireVars, Connected
    <2> QED BY <2>1 DEF GapAhead
<1>5. CASE StreamEnds
    BY <1>5 DEF StreamEnds, GapAhead
<1>6. CASE reconcileCmd
    BY <1>6, AsksAgain
<1>7. CASE ReconcileErrs
    BY <1>7 DEF ReconcileErrs
<1>8. ASSUME dead' = dead, link' = link, done' = done, UNCHANGED readVars, GapAhead => GapAhead'
      PROVE  GapAhead' \/ retry' \/ (pending' /\ (again' \/ read'.at \in {"asked", "failed"}))
    BY <1>8 DEF DeadAsks, readVars
<1>9. CASE UNCHANGED <<linkVars, viewVars, callVars>> /\ (GapAhead => GapAhead')
    BY <1>8, <1>9 DEF linkVars, viewVars, callVars
<1>10. CASE UNCHANGED <<boxVars, wireVars, linkVars, viewVars, callVars>>
    BY <1>9, <1>10, StillFlow DEF boxVars, wireVars
<1>11. CASE closeSubscribers
    BY <1>9, <1>11, StillFlow DEF closeSubscribers, wireVars
<1>12. CASE Broadcast \/ EmitLog \/ Send
    BY <1>9, <1>12, BroadcastFlow, EmitFlow, SendFlow DEF Broadcast, EmitLog, Send
<1>13. CASE applyEvent
    <2>1. reconcileCmd \/ (Head(wire).kind # "gap" /\ UNCHANGED readVars)
        BY <1>13 DEF applyEvent, applyState
    <2>2. CASE Head(wire).kind # "gap" /\ UNCHANGED readVars
        <3>1. GapAhead => GapAhead'
            BY <1>13, <2>2, ApplyFlow
        <3>2. dead' = dead /\ link' = link /\ ~done
            <4>1. dead' = dead /\ link' = link
                BY <1>13 DEF applyEvent
            <4>2. UNCHANGED viewVars \/ applyState(Head(wire))
                BY <1>13 DEF applyEvent
            <4>3. CASE UNCHANGED viewVars
                BY <4>1, <4>3 DEF viewVars
            <4>4. CASE applyState(Head(wire))
                BY <4>1, <4>4, Zenon DEF applyState
            <4> QED BY <4>2, <4>3, <4>4
        <3> QED BY <3>1, <3>2, <2>2 DEF DeadAsks, readVars
    <2> QED BY <2>1, <2>2, <1>6
<1>14. CASE Reconciled
    <2>1. ~done /\ dead /\ pending /\ ~retry /\ UNCHANGED <<wire, ring, gap, wireEnd>>
        BY <1>14 DEF Reconciled, Asking, boxVars, wireVars
    <2>2. link = "open" \/ wireEnd
        BY DEF Connected
    <2>3. CASE wireEnd
        BY <2>1, <2>3 DEF GapAhead
    <2>4. CASE GapAhead
        BY <2>1, <2>4, StillFlow
    <2>5. CASE again
        <3>1. read' = NewRead /\ pending'
            BY <1>14, <2>5 DEF Reconciled
        <3> QED BY <3>1 DEF NewRead, NoRead
    <2>6. GapAhead \/ again \/ wireEnd
        BY <2>1, <2>2, <1>14 DEF DeadAsks, Reconciled
    <2> QED BY <2>3, <2>4, <2>5, <2>6
<1>15. CASE RetryReview
    BY <1>6, <1>15 DEF RetryReview
<1>16. CASE AnswerGetRun
    BY <1>16 DEF AnswerGetRun
<1>17. CASE WriteRow \/ EndRun
    BY <1>10, <1>17 DEF WriteRow, EndRun
<1>18. CASE UNCHANGED vars
    BY <1>10, <1>18 DEF vars
<1> QED BY <1>1, <1>2, <1>3, <1>4, <1>5, <1>7, <1>11, <1>12, <1>13, <1>14, <1>15, <1>16, <1>17, <1>18 DEF Next, Progress, Environment

-----------------------------------------------------------------------------
(* Nothing shown or read is ahead of the database.                         *)

LEMMA BehindKept ==
    ASSUME TypeOK, TypeOK', Ended, Connected, Asking, Ordered, Behind, [Next]_vars, ~dead'
    PROVE  Behind'
<1>0. /\ \A r \in Rows : db[r] \in Nat /\ view[r] \in Nat /\ read.got[r] \in Nat
      /\ writes \in Nat /\ rev \in Nat /\ stateRev \in Nat /\ read.rev \in Nat /\ read \in Reads
    <2>1. DbTyped /\ BoxTyped /\ LinkTyped /\ CallTyped
        BY TypeParts
    <2>2. read.got \in [Rows -> Versions]
        BY <2>1, ReadTypes DEF CallTyped
    <2> QED BY <2>1, <2>2, ReadTypes, VersionsAreNat DEF DbTyped, BoxTyped, LinkTyped, CallTyped
<1>a. \A r \in Rows : view[r] <= db[r] /\ db[r] <= writes /\ \A e \in Due : e.row = r => e.v <= db[r]
    BY DEF Behind
<1>b. \A r \in Rows : HasRead(r) =>
            /\ read.got[r] <= db[r]
            /\ stateRev <= read.rev => view[r] <= read.got[r]
            /\ \A e \in Due : e.row = r /\ e.rev <= read.rev => e.v <= read.got[r]
    BY DEF Behind
<1>c. \A e \in Due : e.v \in Nat /\ e.rev \in Nat /\ e.rev <= rev /\ e.row \in Rows
    BY FramesHeld DEF Ordered, Due
<1>e. read.rev <= rev /\ stateRev <= rev
    BY DEF Ordered
\* The executor and the stream: what is due is not more than it was.
<1>1. ASSUME Due' \subseteq Due, UNCHANGED <<view, stateRev, read>>,
             \A r \in Rows : db'[r] \in Nat /\ db[r] <= db'[r] /\ db'[r] <= writes'
      PROVE  Behind'
    <2>1. \A r \in Rows : view[r] <= db'[r] /\ \A e \in Due' : e.row = r => e.v <= db'[r]
        BY <1>0, <1>a, <1>c, <1>1
    <2>2. \A r \in Rows : HasRead(r) => read.got[r] <= db'[r]
        BY <1>0, <1>b, <1>1
    <2>3. \A r \in Rows : HasRead(r)' <=> HasRead(r)
        BY <1>1 DEF HasRead
    <2> QED BY <2>1, <2>2, <2>3, <1>1, <1>b DEF Behind
\* A read that has not begun: only the view matters.
<1>2. ASSUME Due' \subseteq Due, UNCHANGED <<db, writes>>, read'.at \notin {"half", "answered"},
             \A r \in Rows : view'[r] <= db[r]
      PROVE  Behind'
    BY <1>2, <1>a DEF Behind, HasRead
<1>3. CASE WriteRow \/ EndRun
    <2>1. Due' = Due /\ UNCHANGED <<view, stateRev, read>>
        BY <1>3, StillFlow DEF WriteRow, EndRun, boxVars, wireVars, viewVars, callVars, readVars
    <2>2. writes' = writes + 1 /\ \E r \in Rows : db' = [db EXCEPT ![r] = writes + 1]
        BY <1>3 DEF WriteRow, EndRun, Rows
    <2>3. db \in [Rows -> Versions]
        BY TypeParts DEF DbTyped
    <2>4. \A r \in Rows : db'[r] \in Nat /\ db[r] <= db'[r] /\ db'[r] <= writes'
        BY <2>2, <2>3, <1>0, <1>a
    <2> QED BY <2>1, <2>4, <1>1
<1>4. CASE Broadcast
    <2>1. PICK e \in Frames : e.row = unsent.row /\ e.v = unsent.v /\ e.rev = rev + 1 /\ Due' \subseteq Due \cup {e}
        BY <1>4, BroadcastFlow
    <2>2. e.v = db[e.row] /\ ~(e.rev <= read.rev)
        <3>1. unsent # NoFrame
            BY <1>4 DEF Broadcast
        <3>2. unsent.v = db[unsent.row]
            BY <3>1 DEF Ended
        <3>3. ~(rev + 1 <= read.rev)
            BY <1>0, <1>e
        <3> QED BY <2>1, <3>2, <3>3
    <2>3. UNCHANGED <<db, writes, view, stateRev, read>>
        BY <1>4 DEF Broadcast, viewVars, callVars, readVars
    <2>4. \A r \in Rows, f \in Due' : f.row = r => f.v <= db[r] /\ (HasRead(r) /\ f.rev <= read.rev => f.v <= read.got[r])
        BY <2>1, <2>2, <1>0, <1>a, <1>b
    <2>5. \A r \in Rows : HasRead(r)' <=> HasRead(r)
        BY <2>3 DEF HasRead
    <2> QED BY <2>3, <2>4, <2>5, <1>a, <1>b DEF Behind
<1>5. ASSUME UNCHANGED <<db, writes, viewVars, callVars>>, Due' \subseteq Due
      PROVE  Behind'
    BY <1>0, <1>1, <1>5, <1>a DEF viewVars, callVars, readVars
<1>6. CASE EmitLog \/ Send
    BY <1>5, <1>6, EmitFlow, SendFlow DEF EmitLog, Send, dbVars
<1>7. CASE closeSubscribers
    BY <1>5, <1>7, StillFlow DEF closeSubscribers, wireVars
<1>8. CASE StreamEnds
    BY <1>5, <1>8, StillFlow DEF StreamEnds, boxVars, dbVars
<1>9. CASE Disconnect
    BY <1>5, <1>9, CutFlow DEF Disconnect, dbVars
<1>10. CASE Subscribe
    <2>1. CASE done
        BY <2>1, <1>5, <1>10, StillFlow DEF Subscribe, dbVars, boxVars, wireVars
    <2>2. CASE ~done
        BY <2>2, <1>5, <1>10, SubscribeFlow DEF Subscribe, dbVars
    <2> QED BY <2>1, <2>2
<1>11. CASE UNCHANGED vars
    BY <1>5, <1>11, StillFlow DEF vars, dbVars, boxVars, wireVars
<1>12. CASE GetRunFails \/ CallOnDeadConn
    <2>1. read'.at = "failed"
        BY <1>0, <1>12 DEF GetRunFails, CallOnDeadConn, Reads
    <2>2. Due' = Due /\ UNCHANGED <<db, writes, view>>
        BY <1>12, StillFlow DEF GetRunFails, CallOnDeadConn, boxVars, wireVars, dbVars, viewVars
    <2> QED BY <2>1, <2>2, <1>2, <1>a
\* The read itself.
<1>13. CASE AnswerGetRun
    <2>1. Due' = Due /\ UNCHANGED <<db, writes, view, stateRev>>
        BY <1>13, StillFlow DEF AnswerGetRun, boxVars, wireVars, dbVars, viewVars
    <2>2. CASE read.at = "asked"
        <3>1. read'.at = "sampled"
            BY <1>0, <1>13, <2>2 DEF AnswerGetRun, runSnapshot, Reads
        <3> QED BY <3>1, <2>1, <1>2, <1>a
    <2>3. CASE read.at = "sampled"
        <3>1. read'.at = "half" /\ read'.got["run"] = db["run"] /\ read'.rev = read.rev
            BY <1>0, <1>13, <2>3 DEF AnswerGetRun, runSnapshot, Reads, Rows
        <3>2. \A r \in Rows : HasRead(r)' => read'.got[r] = db[r]
            BY <3>1 DEF HasRead
        <3> QED BY <3>1, <3>2, <2>1, <1>0, <1>a DEF Behind
    <2>4. CASE read.at = "half"
        <3>1. /\ read'.got["steps"] = db["steps"] /\ read'.got["run"] = read.got["run"] /\ read'.rev = read.rev
              /\ read'.at = "answered"
            BY <1>0, <1>13, <2>4 DEF AnswerGetRun, runSnapshot, Reads, Rows
        <3>2. HasRead("run")
            BY <2>4 DEF HasRead
        <3>3. \A r \in Rows : read'.got[r] = db[r] \/ (r = "run" /\ read'.got[r] = read.got[r])
            BY <3>1 DEF Rows
        <3> QED BY <3>1, <3>2, <3>3, <2>1, <1>0, <1>a, <1>b DEF Behind
    <2> QED BY <2>2, <2>3, <2>4, <1>13 DEF AnswerGetRun
\* The TUI.
<1>14. ASSUME Due' = Due, UNCHANGED <<db, writes, view>>, stateRev' = stateRev \/ ~pending, UNCHANGED <<pending, read>>
       PROVE  Behind'
    <2>1. CASE ~pending
        <3>1. read'.at = "idle"
            BY <2>1, <1>14 DEF Asking
        <3> QED BY <3>1, <1>14, <1>2, <1>a
    <2>2. CASE stateRev' = stateRev
        BY <2>2, <1>0, <1>1, <1>14, <1>a
    <2> QED BY <2>1, <2>2, <1>14
<1>15. CASE SubscribeFails \/ StreamLost
    <2>1. Due' = Due /\ UNCHANGED <<db, writes, view, pending, read>>
        BY <1>15, StillFlow DEF SubscribeFails, StreamLost, boxVars, wireVars, dbVars, callVars, readVars
    <2>2. stateRev' = stateRev \/ ~pending
        BY <1>15 DEF SubscribeFails, StreamLost, subscriptionErr
    <2> QED BY <2>1, <2>2, <1>14
<1>16. CASE Reconciled
    <2>1. read'.at \in {"idle", "asked"}
        BY <1>16 DEF Reconciled, NewRead, NoRead
    <2>2. Due' = Due /\ UNCHANGED <<db, writes>>
        BY <1>16, StillFlow DEF Reconciled, boxVars, wireVars, dbVars
    <2>3. \A r \in Rows : view'[r] = view[r] \/ (HasRead(r) /\ view'[r] = read.got[r])
        BY <1>16 DEF Reconciled, HasRead
    <2> QED BY <2>1, <2>2, <2>3, <1>2, <1>a, <1>b
<1>17. CASE ReconcileErrs
    <2>1. read'.at = "idle" /\ UNCHANGED <<db, writes, view>>
        BY <1>17 DEF ReconcileErrs, NoRead, dbVars
    <2>2. Due' = Due
        BY <1>17, StillFlow DEF ReconcileErrs, boxVars, wireVars
    <2> QED BY <2>1, <2>2, <1>2, <1>a
<1>18. CASE RetryReview
    <2>1. Due' = Due /\ UNCHANGED <<db, writes, view, stateRev>>
        BY <1>18, StillFlow DEF RetryReview, boxVars, wireVars, dbVars, viewVars
    <2>2. CASE read' = NewRead
        BY <2>1, <2>2, <1>2, <1>a DEF NewRead, NoRead
    <2>3. CASE read' = read
        BY <2>1, <2>3, <1>0, <1>1, <1>a
    <2> QED BY <2>2, <2>3, <1>18 DEF RetryReview, reconcileCmd
<1>19. CASE applyEvent
    <2> DEFINE e == Head(wire)
    <2>1. Due' \subseteq Due /\ e \in InStream /\ e \in Frames
        BY <1>19, ApplyFlow
    <2>2. UNCHANGED <<db, writes>> /\ (read' = read \/ read' = NewRead)
        BY <1>19 DEF applyEvent, applyState, reconcileCmd, dbVars, readVars
    <2>3. \/ UNCHANGED viewVars
          \/ /\ News(e) /\ e.rev > stateRev /\ stateRev' = e.rev
             /\ view' = view \/ view' = [view EXCEPT ![e.row] = e.v]
        BY <1>19 DEF applyEvent, applyState, News
    <2> HIDE DEF e
    <2>4. CASE UNCHANGED viewVars
        <3>1. CASE read' = read
            BY <3>1, <2>1, <2>2, <2>4, <1>0, <1>1, <1>a DEF viewVars
        <3>2. CASE read' = NewRead
            BY <3>2, <2>1, <2>2, <2>4, <1>2, <1>a DEF NewRead, NoRead, viewVars
        <3> QED BY <3>1, <3>2, <2>2
    <2>5. CASE /\ News(e) /\ e.rev > stateRev /\ stateRev' = e.rev
               /\ view' = view \/ view' = [view EXCEPT ![e.row] = e.v]
        <3>1. e \in Due
            BY <2>1, <2>5 DEF Due
        <3>2. view \in [Rows -> Versions]
            BY TypeParts DEF LinkTyped
        <3>3. \A r \in Rows : view'[r] = view[r] \/ (r = e.row /\ view'[r] = e.v)
            BY <2>5, <3>2
        <3>4. \A r \in Rows : view'[r] <= db[r]
            BY <3>1, <3>3, <1>a
        <3>5. CASE read' = NewRead
            BY <3>4, <3>5, <2>1, <2>2, <1>2 DEF NewRead, NoRead
        <3>6. CASE read' = read
            <4>1. \A r \in Rows : HasRead(r)' <=> HasRead(r)
                BY <3>6 DEF HasRead
            <4>2. \A r \in Rows : HasRead(r) /\ stateRev' <= read.rev => view'[r] <= read.got[r]
                BY <3>1, <3>3, <2>5, <1>0, <1>b, <1>c
            <4> QED BY <3>4, <3>6, <4>1, <4>2, <2>1, <2>2, <1>a, <1>b DEF Behind
        <3> QED BY <3>5, <3>6, <2>2
    <2> QED BY <2>3, <2>4, <2>5
<1>20. ~RestartDaemon
    BY DEF RestartDaemon
<1> QED BY <1>3, <1>4, <1>6, <1>7, <1>8, <1>9, <1>10, <1>11, <1>12, <1>13, <1>15, <1>16, <1>17, <1>18, <1>19, <1>20
        DEF Next, Progress, Environment

-----------------------------------------------------------------------------
(* The view and the read in flight lead to what the rows are.              *)

LEMMA KeepsUpKept ==
    ASSUME TypeOK, TypeOK', Ended, Connected, Asking, Ordered, KeepsUp, [Next]_vars, ~dead'
    PROVE  KeepsUp'
<1> SUFFICES ASSUME ~done', NEW r \in Rows
             PROVE  ViewKeepsUp(r)' /\ ReadKeepsUp(r)'
    BY DEF KeepsUp
<1>0. /\ stateRev \in Nat /\ read.rev \in Nat /\ rev \in Nat /\ read \in Reads /\ pending \in BOOLEAN /\ again \in BOOLEAN
      /\ \A e \in Due : e.rev \in Nat /\ e.rev <= rev
    <2>1. BoxTyped /\ LinkTyped /\ CallTyped
        BY TypeParts
    <2> QED BY <2>1, ReadTypes, FramesHeld DEF BoxTyped, LinkTyped, CallTyped, Due, Ordered
<1>d. ~dead
    BY DeadStays
<1>e. ~done
    <2>1. CASE applyEvent
        <3>1. UNCHANGED viewVars \/ applyState(Head(wire))
            BY <2>1 DEF applyEvent
        <3>2. CASE applyState(Head(wire))
            BY <3>2, Zenon DEF applyState
        <3> QED BY <3>1, <3>2 DEF viewVars
    <2>2. CASE Reconciled
        BY <2>2, Zenon DEF Reconciled
    <2>3. CASE done' = done
        BY <2>3
    <2> QED BY <2>1, <2>2, <2>3 DEF Next, Progress, Environment, vars, viewVars,
            WriteRow, EndRun, Broadcast, closeSubscribers, EmitLog, Send, StreamEnds, Disconnect, RestartDaemon, AnswerGetRun,
            GetRunFails, CallOnDeadConn, Subscribe, SubscribeFails, StreamLost, ReconcileErrs, RetryReview
<1>u. ViewKeepsUp(r) /\ ReadKeepsUp(r)
    BY <1>d, <1>e DEF KeepsUp
\* What is not told of the row needs no more.
<1>1. ASSUME Untold(r)'
      PROVE  ViewKeepsUp(r)' /\ ReadKeepsUp(r)'
    BY <1>1 DEF ViewKeepsUp, ReadKeepsUp
<1>2. ASSUME GapAhead'
      PROVE  ViewKeepsUp(r)' /\ ReadKeepsUp(r)'
    BY <1>1, <1>2 DEF Untold
\* A read that has not begun will show all.
<1>3. ASSUME pending' \/ retry', ~pending' \/ again' \/ read'.at \notin {"sampled", "half", "answered"}
      PROVE  ViewKeepsUp(r)' /\ ReadKeepsUp(r)'
    BY <1>3 DEF ViewKeepsUp, ReadKeepsUp
<1>4. CASE reconcileCmd
    <2>1. pending' /\ (again' \/ read'.at = "asked")
        BY <1>4 DEF reconcileCmd, NewRead, NoRead
    <2> QED BY <2>1, <1>3
\* The executor and the stream.
<1>5. ASSUME UNCHANGED <<viewVars, callVars>>, db'[r] = db[r], Untold(r) => Untold(r)',
             \A e \in Due' : e.rev \in Nat, \A e \in Due : e.row = r => e \in Due', \A e \in Due' : e.row = r => e \in Due
      PROVE  ViewKeepsUp(r)' /\ ReadKeepsUp(r)'
    <2>1. UNCHANGED <<view, stateRev, retry, pending, again, read>>
        BY <1>5 DEF viewVars, callVars, readVars
    <2> DEFINE w == db[r]
               D == Due
               E == Due'
    <2>2. \A b \in Nat : EndsWith(D, r, w, b) => EndsWith(E, r, w, b)
        BY <1>0, <1>5, StillEnds
    <2>3. \A b \in Nat : \A v : WillBe(D, r, w, v, b) => WillBe(E, r, w, v, b)
        BY <1>5 DEF WillBe, Shows
    <2> HIDE DEF w, D, E
    <2>4. ViewKeepsUp(r) => retry \/ pending \/ Untold(r) \/ (EndsWith(D, r, w, stateRev) /\ WillBe(D, r, w, view[r], stateRev))
        BY DEF ViewKeepsUp, w, D
    <2>5. retry' \/ pending' \/ Untold(r)' \/ (EndsWith(E, r, w, stateRev) /\ WillBe(E, r, w, view[r], stateRev)) => ViewKeepsUp(r)'
        BY <2>1, <1>5 DEF ViewKeepsUp, w, E
    <2>6. ReadKeepsUp(r) =>
            \/ ~pending \/ again \/ read.at \notin {"sampled", "half", "answered"} \/ read.rev < stateRev \/ Untold(r)
            \/ EndsWith(D, r, w, read.rev) /\ (HasRead(r) => WillBe(D, r, w, read.got[r], read.rev))
        BY DEF ReadKeepsUp, w, D
    <2>7. (\/ ~pending \/ again \/ read.at \notin {"sampled", "half", "answered"} \/ read.rev < stateRev \/ Untold(r)'
           \/ EndsWith(E, r, w, read.rev) /\ (HasRead(r) => WillBe(E, r, w, read.got[r], read.rev)))
          => ReadKeepsUp(r)'
        BY <2>1, <1>5 DEF ReadKeepsUp, HasRead, w, E
    <2>8. ViewKeepsUp(r)'
        BY <1>u, <2>4, <2>5, <2>2, <2>3, <2>1, <1>5, <1>0
    <2>9. ReadKeepsUp(r)'
        BY <1>u, <2>6, <2>7, <2>2, <2>3, <1>5, <1>0
    <2> QED BY <2>8, <2>9
<1>6. ASSUME UNCHANGED <<viewVars, callVars>>, db'[r] = db[r], Untold(r) => Untold(r)', Due' = Due
      PROVE  ViewKeepsUp(r)' /\ ReadKeepsUp(r)'
    BY <1>5, <1>6, <1>0
<1>7. CASE WriteRow
    <2>1. UNCHANGED <<viewVars, callVars>> /\ Due' = Due /\ (GapAhead => GapAhead')
        BY <1>7, StillFlow DEF WriteRow, boxVars, wireVars
    <2>6. PICK x \in Rows :
            /\ db' = [db EXCEPT ![x] = writes + 1]
            /\ unsent' \in {Frame("changed", x, writes + 1)} \cup {e \in {Frame("reset", x, writes + 1)} : x = "steps"}
        BY <1>7 DEF WriteRow
    <2>2. db' = [db EXCEPT ![x] = writes + 1] /\ unsent'.row = x
        BY <2>6 DEF Frame
    <2>3. unsent' # NoFrame
        BY <2>2 DEF NoFrame, Frame, Rows
    <2>4. CASE x = r
        BY <2>2, <2>3, <2>4, <1>1 DEF Untold
    <2>5. CASE x # r
        <3>1. db'[r] = db[r]
            BY <2>2, <2>5, TypeParts DEF DbTyped
        <3>2. Untold(r) => Untold(r)'
            BY <2>1, <1>7 DEF Untold, WriteRow, boxVars
        <3> QED BY <2>1, <3>1, <3>2, <1>6
    <2> QED BY <2>4, <2>5
<1>8. CASE EndRun
    <2>1. UNCHANGED <<viewVars, callVars>> /\ Due' = Due /\ (GapAhead => GapAhead')
        BY <1>8, StillFlow DEF EndRun, boxVars, wireVars
    <2>2. CASE r = "run"
        <3>1. fin' # 0 /\ alive'
            <4>1. writes \in Nat
                BY TypeParts, VersionsAreNat DEF DbTyped
            <4>2. fin' = writes + 1 /\ alive' = alive /\ alive
                BY <1>8 DEF EndRun
            <4> QED BY <4>1, <4>2
        <3> QED BY <3>1, <2>2, <1>1 DEF Untold
    <2>3. CASE r # "run"
        <3>1. db'[r] = db[r]
            BY <2>3, <1>8, TypeParts DEF DbTyped, EndRun
        <3>2. Untold(r) => Untold(r)'
            BY <2>1, <2>3, <1>8 DEF Untold, EndRun
        <3> QED BY <2>1, <3>1, <3>2, <1>6
    <2> QED BY <2>2, <2>3
<1>9. CASE Broadcast
    <2>0. unsent # NoFrame /\ unsent.v = db[unsent.row]
        BY <1>9 DEF Broadcast, Ended
    <2>1. PICK e \in Frames :
            /\ News(e) /\ e.kind = unsent.kind /\ e.row = unsent.row /\ e.v = unsent.v /\ e.rev = rev + 1
            /\ Due \subseteq Due' /\ Due' \subseteq Due \cup {e}
            /\ GapAhead' \/ e \in Due'
        BY <1>9, BroadcastFlow
    <2>2. UNCHANGED <<viewVars, callVars, db, fin, alive, closed>> /\ (GapAhead => GapAhead')
        BY <1>9, BroadcastFlow DEF Broadcast
    <2>3. \A f \in Due' : f.rev \in Nat /\ (f = e \/ f.rev < e.rev)
        BY <2>1, <1>0
    <2>4. CASE e.row = r /\ e \in Due'
        <3> DEFINE E == Due'
                   w == db[r]
        <3>1. Shows(e, r, w)
            BY <2>0, <2>1, <2>4 DEF Shows
        <3>2. stateRev < e.rev /\ read.rev < e.rev
            BY <2>1, <1>0 DEF Ordered
        <3>3. \A b \in Nat : b < e.rev => EndsWith(E, r, w, b) /\ \A v : WillBe(E, r, w, v, b)
            BY <3>1, <2>3, <2>4, NewestShows
        <3> HIDE DEF E, w
        <3>4. EndsWith(E, r, w, stateRev) /\ WillBe(E, r, w, view[r], stateRev)
            BY <3>2, <3>3, <1>0
        <3>5. EndsWith(E, r, w, read.rev) /\ WillBe(E, r, w, read.got[r], read.rev)
            BY <3>2, <3>3, <1>0
        <3>6. ViewKeepsUp(r)'
            BY <3>4, <2>2 DEF ViewKeepsUp, E, w, viewVars
        <3>7. ReadKeepsUp(r)'
            BY <3>5, <2>2 DEF ReadKeepsUp, E, w, callVars, readVars
        <3> QED BY <3>6, <3>7
    <2>5. CASE e.row # r
        <3>1. \A f \in Due' : f.row = r => f \in Due
            BY <2>1, <2>5
        <3>2. Untold(r) => Untold(r)'
            BY <2>1, <2>2, <2>5 DEF Untold
        <3> QED BY <2>1, <2>2, <2>3, <3>1, <3>2, <1>5
    <2> QED BY <2>1, <2>4, <2>5, <1>2
<1>10. CASE EmitLog \/ Send
    <2>1. UNCHANGED <<viewVars, callVars, dbVars, closed>> /\ Due' = Due /\ (GapAhead => GapAhead')
        BY <1>10, EmitFlow, SendFlow DEF EmitLog, Send
    <2>2. Untold(r) => Untold(r)'
        BY <2>1 DEF Untold, dbVars
    <2> QED BY <2>1, <2>2, <1>6 DEF dbVars
<1>11. CASE closeSubscribers
    <2>1. UNCHANGED <<viewVars, callVars, db>> /\ Due' = Due /\ (GapAhead => GapAhead')
        BY <1>11, StillFlow DEF closeSubscribers, wireVars
    <2>2. Untold(r) => Untold(r)'
        BY <2>1, <1>11 DEF Untold, closeSubscribers, Connected, GapAhead
    <2> QED BY <2>1, <2>2, <1>6
<1>12. CASE StreamEnds
    BY <1>2, <1>12 DEF StreamEnds, GapAhead
<1>13. CASE Disconnect
    BY <1>2, <1>13, CutFlow DEF Disconnect
<1>14. CASE Subscribe
    BY <1>2, <1>14, <1>e, SubscribeFlow
<1>15. CASE UNCHANGED vars
    <2>1. Due' = Due /\ (GapAhead => GapAhead') /\ UNCHANGED <<viewVars, callVars, dbVars, closed>>
        BY <1>15, StillFlow DEF vars, boxVars, wireVars
    <2>2. Untold(r) => Untold(r)'
        BY <2>1 DEF Untold, dbVars
    <2> QED BY <2>1, <2>2, <1>6 DEF dbVars
\* The read.
<1>16. CASE AnswerGetRun
    <2>1. /\ Due' = Due /\ (GapAhead => GapAhead')
          /\ UNCHANGED <<dbVars, closed, viewVars, pending, again, retry>>
        BY <1>16, StillFlow DEF AnswerGetRun, boxVars, wireVars
    <2>2. pending /\ pending'
        BY <2>1, <1>16 DEF AnswerGetRun, Asking
    <2>3. ViewKeepsUp(r)'
        BY <2>2 DEF ViewKeepsUp
    <2>4. Untold(r) => Untold(r)'
        BY <2>1 DEF Untold, dbVars
    <2> DEFINE w == db[r]
               D == Due
    <2>5. CASE read.at = "asked"
        <3>1. read'.at = "sampled" /\ read'.rev = rev
            BY <1>0, <1>16, <2>5 DEF AnswerGetRun, runSnapshot, Reads
        <3>2. EndsWith(D, r, w, rev)
            BY <1>0 DEF EndsWith
        <3>3. ~HasRead(r)'
            BY <3>1 DEF HasRead
        <3>4. ReadKeepsUp(r)'
            BY <2>1, <3>1, <3>2, <3>3 DEF ReadKeepsUp, dbVars
        <3> QED BY <2>3, <3>4
    <2>6. CASE read.at \in {"sampled", "half"}
        <3>1. read'.rev = read.rev /\ (read'.got[r] = db[r] \/ (HasRead(r) /\ read'.got[r] = read.got[r]) \/ ~HasRead(r)')
            <4>1. CASE read.at = "sampled"
                <5>1. read'.rev = read.rev /\ read'.at = "half" /\ read'.got["run"] = db["run"]
                    BY <1>0, <1>16, <4>1 DEF AnswerGetRun, runSnapshot, Reads, Rows
                <5> QED BY <5>1 DEF HasRead
            <4>2. CASE read.at = "half"
                <5>1. /\ read'.rev = read.rev /\ read'.got["steps"] = db["steps"] /\ read'.got["run"] = read.got["run"]
                    BY <1>0, <1>16, <4>2 DEF AnswerGetRun, runSnapshot, Reads, Rows
                <5> QED BY <5>1, <4>2 DEF HasRead, Rows
            <4> QED BY <4>1, <4>2, <2>6
        <3>2. again \/ read.rev < stateRev \/ Untold(r) \/
                (EndsWith(D, r, w, read.rev) /\ (HasRead(r) => WillBe(D, r, w, read.got[r], read.rev)))
            BY <1>u, <2>2, <2>6 DEF ReadKeepsUp
        <3>3. ASSUME EndsWith(D, r, w, read.rev), HasRead(r) => WillBe(D, r, w, read.got[r], read.rev), HasRead(r)'
              PROVE  WillBe(D, r, w, read'.got[r], read.rev)
            BY <3>1, <3>3 DEF WillBe
        <3> HIDE DEF D, w
        <3>4. ASSUME EndsWith(D, r, w, read.rev), HasRead(r)' => WillBe(D, r, w, read'.got[r], read.rev)
              PROVE  ReadKeepsUp(r)'
            BY <3>4, <3>1, <2>1 DEF ReadKeepsUp, D, w, dbVars
        <3>5. ASSUME again \/ read.rev < stateRev \/ Untold(r)
              PROVE  ReadKeepsUp(r)'
            BY <3>5, <3>1, <2>1, <2>4 DEF ReadKeepsUp, viewVars
        <3> QED BY <2>3, <3>2, <3>3, <3>4, <3>5
    <2> QED BY <2>5, <2>6, <1>16 DEF AnswerGetRun
<1>17. CASE GetRunFails
    <2>1. pending' /\ read'.at = "failed"
        BY <1>0, <1>17 DEF GetRunFails, Asking, Reads
    <2> QED BY <2>1, <1>3
<1>18. ~CallOnDeadConn /\ ~RestartDaemon
    BY <1>d DEF CallOnDeadConn, RestartDaemon
\* The TUI.
<1>19. CASE SubscribeFails \/ StreamLost
    <2>1. wireEnd'
        BY <1>19 DEF SubscribeFails, StreamLost, Connected, wireVars
    <2> QED BY <2>1, <1>2 DEF GapAhead
<1>20. CASE ReconcileErrs
    BY <1>3, <1>20 DEF ReconcileErrs
<1>21. CASE RetryReview
    BY <1>4, <1>21 DEF RetryReview
<1>22. CASE Reconciled
    <2>1. CASE again \/ ~accepts(read)
        <3>1. pending' /\ read'.at = "asked"
            BY <1>22, <2>1 DEF Reconciled, NewRead, NoRead
        <3> QED BY <3>1, <1>3
    <2>2. CASE ~again /\ accepts(read)
        <3>1. ~pending' /\ view' = read.got /\ pending /\ read.at = "answered" /\ read.rev >= stateRev
            BY <1>22, <2>2 DEF Reconciled, accepts, Asking
        <3>2. Due' = Due /\ (GapAhead => GapAhead') /\ UNCHANGED <<dbVars, closed, wireEnd>>
            BY <1>22, StillFlow DEF Reconciled, boxVars, wireVars
        <3>3. ReadKeepsUp(r)'
            BY <3>1 DEF ReadKeepsUp
        <3>4. CASE wireEnd
            BY <3>2, <3>4, <1>2 DEF GapAhead
        <3>5. CASE Untold(r)
            BY <3>2, <3>5, <1>1 DEF Untold, dbVars
        <3>6. CASE ~wireEnd /\ ~Untold(r)
            <4>1. stateRev' = read.rev
                BY <1>22, <2>2, <3>6 DEF Reconciled, Connected
            <4>2. EndsWith(Due, r, db[r], read.rev) /\ WillBe(Due, r, db[r], read.got[r], read.rev)
                BY <1>u, <3>1, <3>6, <2>2, <1>0 DEF ReadKeepsUp, HasRead
            <4>3. ViewKeepsUp(r)'
                BY <4>1, <4>2, <3>1, <3>2 DEF ViewKeepsUp, dbVars
            <4> QED BY <3>3, <4>3
        <3> QED BY <3>4, <3>5, <3>6
    <2> QED BY <2>1, <2>2
<1>23. CASE applyEvent
    <2> DEFINE e == Head(wire)
    <2>1. /\ e \in Frames /\ e \in InStream
          /\ Due' \subseteq Due /\ \A f \in Due : f \in Due' \/ f = e
          /\ e.kind # "gap" /\ GapAhead => GapAhead'
          /\ News(e) => \A f \in Due' : e.rev < f.rev
        BY <1>23, ApplyFlow DEF Ordered
    <2>2. UNCHANGED <<dbVars, closed>>
        BY <1>23 DEF applyEvent, boxVars
    <2>3. \/ reconcileCmd
          \/ /\ e.kind # "gap" /\ UNCHANGED readVars /\ (~News(e) \/ e.rev <= stateRev) /\ UNCHANGED viewVars
          \/ /\ e.kind # "gap" /\ UNCHANGED readVars /\ News(e) /\ e.rev > stateRev /\ applyState(e) /\ e.kind # "reset"
        BY <1>23 DEF applyEvent, applyState, News
    <2> HIDE DEF e
    <2>4. e.kind # "gap" => (Untold(r) => Untold(r)')
        BY <2>1, <2>2 DEF Untold, dbVars
    <2> DEFINE D == Due
               E == Due'
               w == db[r]
    <2>5. \A f \in E : f.rev \in Nat
        BY <2>1, <1>0
    <2> USE DEF HasRead
    <2>6. ASSUME e.kind # "gap", UNCHANGED readVars, ~News(e) \/ e.rev <= read.rev, stateRev' >= stateRev, stateRev' \in Nat
          PROVE  ReadKeepsUp(r)'
        <3>1. \A f \in D : f.rev > read.rev => f \in E
            BY <2>1, <2>6, <1>0 DEF Due
        <3>2. EndsWith(D, r, w, read.rev) => EndsWith(E, r, w, read.rev)
            BY <2>1, <2>5, <3>1, <1>0, StillEnds
        <3>3. \A v : WillBe(D, r, w, v, read.rev) => WillBe(E, r, w, v, read.rev)
            BY <3>1 DEF WillBe
        <3>4. \/ ~pending \/ again \/ read.at \notin {"sampled", "half", "answered"} \/ read.rev < stateRev \/ Untold(r)
              \/ EndsWith(D, r, w, read.rev) /\ (HasRead(r) => WillBe(D, r, w, read.got[r], read.rev))
            BY <1>u DEF ReadKeepsUp
        <3> HIDE DEF D, E, w
        <3>5. ASSUME \/ ~pending \/ again \/ read.at \notin {"sampled", "half", "answered"} \/ read.rev < stateRev' \/ Untold(r)'
                     \/ EndsWith(E, r, w, read.rev) /\ (HasRead(r) => WillBe(E, r, w, read.got[r], read.rev))
              PROVE  ReadKeepsUp(r)'
            BY <3>5, <2>2, <2>6 DEF ReadKeepsUp, E, w, readVars, dbVars
        <3>6. read.rev < stateRev => read.rev < stateRev'
            BY <2>6, <1>0
        <3> QED BY <3>2, <3>3, <3>4, <3>5, <3>6, <2>4, <2>6
    <2>7. CASE reconcileCmd
        BY <2>7, <1>4
    <2>8. CASE e.kind # "gap" /\ UNCHANGED readVars /\ (~News(e) \/ e.rev <= stateRev) /\ UNCHANGED viewVars
        <3>1. e.rev \in Nat
            BY <2>1 DEF Frames
        <3>2. \A f \in D : f.rev > stateRev => f \in E
            BY <2>1, <2>8, <1>0 DEF Due
        <3>3. EndsWith(D, r, w, stateRev) => EndsWith(E, r, w, stateRev)
            BY <2>1, <2>5, <3>2, <1>0, StillEnds
        <3>4. WillBe(D, r, w, view[r], stateRev) => WillBe(E, r, w, view[r], stateRev)
            BY <3>2 DEF WillBe
        <3>5. \/ retry \/ pending \/ Untold(r)
              \/ EndsWith(D, r, w, stateRev) /\ WillBe(D, r, w, view[r], stateRev)
            BY <1>u DEF ViewKeepsUp
        <3>6. CASE ~News(e) \/ e.rev <= read.rev
            <4>1. ReadKeepsUp(r)'
                BY <3>6, <2>6, <2>8, <1>0 DEF viewVars
            <4> HIDE DEF D, E, w
            <4>2. ASSUME retry \/ pending \/ Untold(r)' \/ (EndsWith(E, r, w, stateRev) /\ WillBe(E, r, w, view[r], stateRev))
                  PROVE  ViewKeepsUp(r)'
                BY <4>2, <2>2, <2>8 DEF ViewKeepsUp, E, w, readVars, viewVars, dbVars
            <4> QED BY <4>1, <4>2, <3>3, <3>4, <3>5, <2>4, <2>8
        <3>7. CASE read.rev < e.rev /\ News(e)
            <4>1. read.rev < stateRev
                BY <3>1, <3>7, <2>8, <1>0
            <4>2. ReadKeepsUp(r)'
                BY <4>1, <2>8 DEF ReadKeepsUp, readVars, viewVars
            <4> HIDE DEF D, E, w
            <4>3. ASSUME retry \/ pending \/ Untold(r)' \/ (EndsWith(E, r, w, stateRev) /\ WillBe(E, r, w, view[r], stateRev))
                  PROVE  ViewKeepsUp(r)'
                BY <4>3, <2>2, <2>8 DEF ViewKeepsUp, E, w, readVars, viewVars, dbVars
            <4> QED BY <4>2, <4>3, <3>3, <3>4, <3>5, <2>4, <2>8
        <3> QED BY <3>1, <3>6, <3>7, <1>0
    <2>9. CASE e.kind # "gap" /\ UNCHANGED readVars /\ News(e) /\ e.rev > stateRev /\ applyState(e) /\ e.kind # "reset"
        <3>1. e.rev \in Nat /\ stateRev' = e.rev /\ view' = [view EXCEPT ![e.row] = e.v] /\ e \in D
            BY <2>1, <2>9 DEF Frames, applyState, Due
        <3>2. ReadKeepsUp(r)'
            <4>1. CASE e.rev <= read.rev
                BY <4>1, <3>1, <2>6, <2>9, <1>0
            <4>2. CASE read.rev < e.rev
                BY <4>2, <3>1, <2>9 DEF ReadKeepsUp, readVars
            <4> QED BY <4>1, <4>2, <3>1, <1>0
        <3>3. \/ retry \/ pending \/ Untold(r)
              \/ EndsWith(D, r, w, stateRev) /\ WillBe(D, r, w, view[r], stateRev)
            BY <1>u DEF ViewKeepsUp
        <3>4. view'[r] = IF e.row = r THEN e.v ELSE view[r]
            BY <3>1, TypeParts DEF LinkTyped
        <3>5. ASSUME EndsWith(D, r, w, stateRev), WillBe(D, r, w, view[r], stateRev)
              PROVE  EndsWith(E, r, w, e.rev) /\ WillBe(E, r, w, view'[r], e.rev)
            <4>1. /\ EndsWith(E, r, w, e.rev)
                  /\ e.row = r /\ e.kind # "reset" => WillBe(E, r, w, e.v, e.rev)
                  /\ \A v : e.row # r /\ WillBe(D, r, w, v, stateRev) => WillBe(E, r, w, v, e.rev)
                <5>1. \A f \in E : f.rev > e.rev
                    BY <2>1, <2>5, <2>9, <3>1
                <5> QED BY <5>1, <3>1, <3>5, <2>1, <2>9, <1>0, AppliedInTurn
            <4> QED BY <4>1, <3>4, <3>5, <2>9
        <3> HIDE DEF D, E, w
        <3>6. ASSUME retry \/ pending \/ Untold(r)' \/ (EndsWith(E, r, w, e.rev) /\ WillBe(E, r, w, view'[r], e.rev))
              PROVE  ViewKeepsUp(r)'
            BY <3>6, <3>1, <2>2, <2>9 DEF ViewKeepsUp, E, w, readVars, dbVars
        <3> QED BY <3>2, <3>3, <3>5, <3>6, <2>4, <2>9
    <2> QED BY <2>3, <2>7, <2>8, <2>9
<1> QED BY <1>7, <1>8, <1>9, <1>10, <1>11, <1>12, <1>13, <1>14, <1>15, <1>16, <1>17, <1>18, <1>19, <1>20, <1>21, <1>22, <1>23
        DEF Next, Progress, Environment

-----------------------------------------------------------------------------
(* What a terminal shows of a run.                                         *)

LEMMA StreamInvInit ==
    ASSUME Init
    PROVE  StreamInv
<1>1. db \in [Rows -> Versions] /\ view = db /\ \A r \in Rows : db[r] = 0 /\ view[r] = 0
    BY VersionsAreNat DEF Init
<1>2. TypeOK
    <2>1. DbTyped
        BY <1>1, VersionsAreNat, FrameTypes DEF Init, DbTyped
    <2>2. BoxTyped
        <3>1. ring = <<>> /\ wire = <<>> /\ rev = 0
            BY DEF Init
        <3>2. ring \in Seq(Frames) /\ wire \in Seq(Frames) /\ rev \in Nat
            BY <3>1
        <3> QED BY <3>2 DEF Init, BoxTyped
    <2>3. LinkTyped
        <3>1. tries \in 0..MaxTries /\ stateRev \in Nat
            BY BoundsAreNat DEF Init
        <3>2. view \in [Rows -> Versions]
            BY <1>1
        <3> QED BY <3>1, <3>2 DEF Init, LinkTyped
    <2>4. CallTyped
        BY ReadTypes DEF Init, CallTyped
    <2>5. CountTyped
        BY BoundsAreNat DEF Init, CountTyped
    <2> QED BY <2>1, <2>2, <2>3, <2>4, <2>5, TypeParts
<1>3. Ended /\ Connected
    BY BoundsAreNat DEF Init, Ended, Connected
<1>4. read.at = "idle" /\ read.rev = 0 /\ ~pending /\ ~dead
    BY DEF Init, NoRead
<1>5. Asking /\ DeadAsks
    BY <1>4 DEF Asking, DeadAsks
<1>6. GapAhead
    BY DEF Init, GapAhead
<1>7. KeepsUp
    BY <1>6 DEF KeepsUp, ViewKeepsUp, ReadKeepsUp, Untold
<1>8. InStream = {} /\ Rises
    BY DEF Init, InStream, Rises, Rising, Held
<1>9. Ordered
    BY <1>8, <1>4 DEF Init, Ordered, Due
<1>10. Behind
    BY <1>1, <1>4, <1>8 DEF Init, Behind, Due, HasRead
<1> QED BY <1>2, <1>3, <1>5, <1>7, <1>9, <1>10 DEF StreamInv

LEMMA StreamInvNext ==
    ASSUME StreamInv, [Next]_vars
    PROVE  StreamInv'
<1>1. TypeOK'
    BY TypeKept DEF StreamInv
<1>2. Ended' /\ Connected' /\ Asking' /\ DeadAsks'
    BY EndedKept, ConnectedKept, AskingKept, DeadAsksKept DEF StreamInv
<1>3. CASE dead'
    BY <1>1, <1>2, <1>3 DEF StreamInv, KeepsUp
<1>4. CASE ~dead'
    <2>1. Ordered /\ Behind
        BY <1>4, DeadStays DEF StreamInv
    <2> QED BY <1>1, <1>2, <1>4, <2>1, OrderedKept, BehindKept, KeepsUpKept DEF StreamInv
<1> QED BY <1>3, <1>4

\* The inductive invariant of a run as a terminal follows it.
THEOREM StreamInvHolds == Spec => []StreamInv
<1>1. Init => StreamInv
    BY StreamInvInit
<1>2. StreamInv /\ [Next]_vars => StreamInv'
    BY StreamInvNext
<1> QED BY <1>1, <1>2, PTL DEF Spec

LEMMA StreamInvSafe == ASSUME StreamInv PROVE StreamSafe
<1> SUFFICES ASSUME link = "open", ~done, NEW r \in Rows, view[r] # db[r]
             PROVE  WillHear(r)
    BY DEF StreamSafe, NothingLost, StreamInv
<1>0. TypeOK /\ stateRev \in Nat /\ read.rev \in Nat /\ read \in Reads
    BY TypeParts, ReadTypes DEF StreamInv, LinkTyped, CallTyped
<1>1. CASE GapAhead \/ Untold(r)
    BY <1>1 DEF GapAhead, Untold, WillHear
<1>2. CASE dead
    <2>1. GapAhead \/ retry \/ (pending /\ (again \/ read.at \in {"asked", "failed"}))
        BY <1>2 DEF StreamInv, DeadAsks
    <2> QED BY <2>1, <1>1 DEF WillHear, ReadWillShow
<1>3. ASSUME NEW v, NEW b \in Nat, b >= stateRev, v # db[r], WillBe(Due, r, db[r], v, b)
      PROVE  WillHear(r)
    <2>1. PICK e \in Due : e.rev > b /\ Shows(e, r, db[r])
        BY <1>3 DEF WillBe
    <2>2. e \in InStream /\ e.rev \in Nat /\ e.rev > stateRev
        BY <2>1, <1>0, <1>3, FramesHeld DEF Due
    <2> QED BY <2>1, <2>2 DEF WillHear, Shows
<1>4. CASE ~dead /\ ~Untold(r)
    <2>1. ViewKeepsUp(r) /\ ReadKeepsUp(r)
        BY <1>4 DEF StreamInv, KeepsUp
    <2>2. CASE retry
        BY <2>2 DEF WillHear
    <2>3. CASE pending
        <3>1. CASE again \/ read.at \notin {"sampled", "half", "answered"} \/ read.rev < stateRev
            <4>1. read.at # "idle"
                BY <2>3 DEF StreamInv, Asking
            <4> QED BY <4>1, <3>1, <2>3, <1>0 DEF WillHear, ReadWillShow, Reads
        <3>2. CASE ~HasRead(r) /\ read.at \in {"sampled", "half", "answered"}
            BY <3>2, <2>3 DEF HasRead, WillHear, ReadWillShow, Rows
        <3>3. CASE HasRead(r) /\ ~(again \/ read.at \notin {"sampled", "half", "answered"} \/ read.rev < stateRev)
            <4>1. WillBe(Due, r, db[r], read.got[r], read.rev) /\ read.rev >= stateRev
                BY <3>3, <2>1, <2>3, <1>0, <1>4 DEF ReadKeepsUp
            <4>2. CASE read.got[r] = db[r]
                BY <4>2, <2>3 DEF WillHear, ReadWillShow
            <4>3. CASE read.got[r] # db[r]
                BY <4>1, <4>3, <1>0, <1>3
            <4> QED BY <4>2, <4>3
        <3> QED BY <3>1, <3>2, <3>3
    <2>4. CASE WillBe(Due, r, db[r], view[r], stateRev)
        BY <2>4, <1>0, <1>3
    <2> QED BY <2>1, <2>2, <2>3, <2>4, <1>4 DEF ViewKeepsUp
<1> QED BY <1>1, <1>2, <1>4

\* NothingLost: whatever a connected TUI does not show yet, something on its way
\* will make it show, through overflowing mailboxes, racing reads, lost
\* connections and daemons that crash.
THEOREM StreamIsSafe == Spec => []StreamSafe
<1>1. StreamInv => StreamSafe
    BY StreamInvSafe
<1> QED BY <1>1, StreamInvHolds, PTL

LEMMA ReadsStayAhead ==
    ASSUME StreamInv, [Next]_vars, wire' = wire, ~dead
    PROVE  \A r \in Rows : view'[r] >= view[r]
<1> SUFFICES ASSUME NEW r \in Rows
             PROVE  view'[r] >= view[r]
    OBVIOUS
<1>0. view[r] \in Nat /\ wire \in Seq(Frames)
    BY TypeParts, VersionsAreNat DEF StreamInv, LinkTyped, BoxTyped
<1>1. CASE Reconciled
    <2>1. CASE accepts(read)
        <3>1. HasRead(r) /\ stateRev <= read.rev /\ view' = read.got
            <4>1. read.rev \in Nat /\ stateRev \in Nat
                BY TypeParts, ReadTypes DEF StreamInv, LinkTyped, CallTyped
            <4> QED BY <4>1, <1>1, <2>1 DEF Reconciled, HasRead, accepts
        <3>2. view[r] <= read.got[r] /\ read.got[r] \in Nat
            BY <3>1, TypeParts, ReadTypes, VersionsAreNat DEF StreamInv, Behind, CallTyped
        <3> QED BY <3>1, <3>2, <1>0
    <2>2. CASE ~accepts(read)
        BY <2>2, <1>0, <1>1 DEF Reconciled
    <2> QED BY <2>1, <2>2
<1>2. ~applyEvent
    BY <1>0, HeldOfTail DEF applyEvent
<1>3. CASE view' = view
    BY <1>0, <1>3
<1> QED BY <1>1, <1>2, <1>3 DEF Next, Progress, Environment, vars, viewVars,
        WriteRow, EndRun, Broadcast, closeSubscribers, EmitLog, Send, StreamEnds, Disconnect, RestartDaemon, AnswerGetRun,
        GetRunFails, CallOnDeadConn, Subscribe, SubscribeFails, StreamLost, ReconcileErrs, RetryReview

\* applySnapshot: no read of the daemon that the TUI is connected to moves the
\* screen backwards, however reads, frames and new connections race.
THEOREM ReadsGoForward == Spec => ReadsNeverRegress
<1>1. StreamInv /\ [Next]_vars => (wire' = wire /\ ~dead => \A r \in Rows : view'[r] >= view[r])
    BY ReadsStayAhead
<1> QED BY <1>1, StreamInvHolds, PTL DEF Spec, ReadsNeverRegress
=============================================================================

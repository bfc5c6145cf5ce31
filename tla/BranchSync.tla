----------------------------- MODULE BranchSync -----------------------------
(***************************************************************************)
(* Custody of a branch: internal/branchsync/sync.go ("no-slop sync", with  *)
(* --recover and --keep-local) together with the writes the pipeline makes *)
(* to the same branch (internal/git/adopt.go, steps/rebase.go, push.go and *)
(* the executor's terminal adoption).                                      *)
(*                                                                         *)
(* Four places hold the branch: the operator's repository, the gate's bare *)
(* repository, the push target and the run's detached worktree; the run    *)
(* rows say who owns it.  Every one of them may move while a command runs, *)
(* and a command may die between any two of its Git calls.                 *)
(*                                                                         *)
(* A commit is the sequence of the changes of its history above the base   *)
(* of the branch: an ancestor is a prefix, and a three-way merge of l into *)
(* p gives p's tree when p has every change l made since the merge base.   *)
(* The legacy spelling of the private refs, a second worktree of the same  *)
(* branch and a call from inside a pipeline step are left out.             *)
(***************************************************************************)
EXTENDS Naturals, Sequences, SequencesExt

CONSTANTS
    Stranded,      \* initial rows of legacy runs, recorded past a gate that never moved
    MaxRuns,       \* bound: runs of the branch
    MaxMoves,      \* bound: moves of the operator and of others, deaths of a command
    MaxHeads       \* bound: commits of a run

NoCommit == <<"none">>

VARIABLES
    runs,        \* the branch's run rows, oldest first
    gate,        \* refs/heads/<branch> of the gate
    loose,       \* commits of the gate's object store that no ref holds
    wt,          \* HEAD of the active run's worktree
    heads,       \* commits the run has made
    remote,      \* the branch at the push target
    retired, retargeted,   \* PR merged or closed; the push target reconfigured
    local,       \* the branch in the operator's repository
    at,          \* "branch" or "other": what the invoking worktree has checked out
    dirty,       \* uncommitted edits
    stale,       \* the files are still those of the head before a recovery
    refs,        \* private refs of each run
    cmd,         \* the sync command that is running
    moves,
    made         \* history: commits somebody must be able to find again

rows == <<runs, loose, wt, heads>>
tree == <<local, at, dirty, stale>>
world == <<remote, retired, retargeted>>
syncVars == <<runs, gate, loose, wt, heads, world, tree, refs, cmd, moves, made>>

NoRefs == [recover |-> NoCommit, recLocal |-> NoCommit, abandoned |-> NoCommit,
           sync |-> NoCommit, syncAnchor |-> NoCommit]
NoCmd == [pc |-> "idle"]

NewRun(c) == [status |-> "active", submitted |-> c, head |-> c, verified |-> FALSE,
              pushed |-> NoCommit, pushActive |-> FALSE, gen |-> 0, custody |-> FALSE]

Last1 == Len(runs)
Clean == ~dirty /\ ~stale

InWork(c) ==
    c # NoCommit /\ (IsPrefix(c, local) \/ \E r \in DOMAIN refs : \E k \in DOMAIN refs[r] :
        refs[r][k] # NoCommit /\ IsPrefix(c, refs[r][k]))
InGate(c) ==
    c # NoCommit /\ \E d \in {gate, wt} \cup loose : d # NoCommit /\ IsPrefix(c, d)

SyncTypeOK ==
    /\ Len(runs) \in 1..MaxRuns /\ DOMAIN refs = 1..MaxRuns
    /\ \A r \in DOMAIN runs :
        /\ runs[r].status \in {"active", "over"}
        /\ runs[r].head # NoCommit /\ runs[r].submitted # NoCommit
        /\ runs[r].pushActive => runs[r].status = "active"
        /\ r < Len(runs) => runs[r].status = "over"
    /\ (wt # NoCommit) = (runs[Last1].status = "active")
    /\ at \in {"branch", "other"} /\ {dirty, stale, retired, retargeted} \subseteq BOOLEAN
    /\ cmd.pc \in {"idle", "refresh", "check", "anchor", "reset", "verify", "plan", "fetch",
                   "stage", "cas", "ff", "merge", "adopt", "swap", "tree", "stamp"}

SyncInit ==
    /\ \E run \in {NewRun(<<"a">>)} \cup Stranded : \E kept \in BOOLEAN :
        /\ runs = <<run>>
        /\ wt = IF run.status = "active" THEN run.head ELSE NoCommit
        /\ loose = IF run.status = "over" /\ kept THEN {run.head} ELSE {}
    /\ local = <<"a">> /\ gate = <<"a">> /\ remote = NoCommit
    /\ heads = 0 /\ retired = FALSE /\ retargeted = FALSE
    /\ at = "branch" /\ dirty = FALSE /\ stale = FALSE
    /\ refs = [r \in 1..MaxRuns |-> NoRefs]
    /\ cmd = NoCmd /\ moves = 0
    /\ made = {<<"a">>}

-----------------------------------------------------------------------------
(* The pipeline.                                                           *)

Run == runs[Last1]
Active == Run.status = "active"
SetRun(r, f, v) == runs' = [runs EXCEPT ![r][f] = v]

\* A fix on top of the head, a clean rebase, or one that rewrote the branch.
NewHeads(c) ==
    (IF "f" \notin ToSet(c) THEN {Append(c, "f")} ELSE {})
    \cup (IF "b" \notin ToSet(c) THEN {<<"b">> \o c, <<"b", "f">>} ELSE {})

StepCommits ==
    /\ Active /\ ~Run.pushActive /\ wt = Run.head /\ heads < MaxHeads
    /\ \E c \in NewHeads(wt) : wt' = c
    /\ heads' = heads + 1
    /\ UNCHANGED <<runs, gate, loose, world, tree, refs, cmd, moves, made>>

\* AdoptBranchRef: the ref is at the recorded head, at the new one or before it.
Adoptable(recorded, c) == gate = recorded \/ IsPrefix(gate, c)

\* A fix gives way to the head a later rebase made of it; the operator's commit does not.
Made(old, c) == (made \ (IF Last(old) = "f" THEN {old} ELSE {})) \cup {c}

\* The gate's branch is moved before the row.
AdoptRef ==
    /\ Active /\ wt # Run.head /\ gate # wt
    /\ Adoptable(Run.head, wt)
    /\ gate' = wt
    /\ loose' = loose \cup {gate}
    /\ made' = Made(gate, wt)
    /\ UNCHANGED <<runs, wt, heads, world, tree, refs, cmd, moves>>

AdoptRow ==
    /\ Active /\ gate = wt /\ Run.head # wt
    /\ SetRun(Last1, "head", wt)
    /\ UNCHANGED <<gate, loose, wt, heads, world, tree, refs, cmd, moves, made>>

PushBegins ==
    /\ Active /\ ~Run.pushActive /\ Run.head = wt /\ Run.pushed # wt /\ ~retargeted
    /\ SetRun(Last1, "pushActive", TRUE)
    /\ UNCHANGED <<gate, loose, wt, heads, world, tree, refs, cmd, moves, made>>

\* The push, its verification and the binding; a lease keeps it off others' commits.
LeaseFits == remote \in {NoCommit, Run.pushed} \/ ToSet(remote) \subseteq ToSet(wt)

PushBinds ==
    /\ Active /\ Run.pushActive
    /\ \/ remote' = wt /\ LeaseFits
          /\ runs' = [runs EXCEPT ![Last1].pushed = wt, ![Last1].gen = @ + 1, ![Last1].pushActive = FALSE]
       \/ UNCHANGED remote /\ SetRun(Last1, "pushActive", FALSE)
    /\ UNCHANGED <<gate, loose, wt, heads, retired, retargeted, tree, refs, cmd, moves, made>>

\* The executor's last write reads the worktree's head and adopts a descendant;
\* what the daemon's restart or a failed check ends stays unverified.
EndRun(verified) ==
    LET adopts == verified /\ wt # Run.head
    IN  /\ verified => wt = Run.head \/ (IsPrefix(Run.head, wt) /\ (gate = wt \/ Adoptable(Run.head, wt)))
        /\ runs' = [runs EXCEPT ![Last1].status = "over", ![Last1].pushActive = FALSE,
                                ![Last1].verified = verified,
                                ![Last1].head = IF adopts THEN wt ELSE @]
        /\ gate' = IF adopts THEN wt ELSE gate
        /\ made' = IF adopts THEN Made(gate, wt) ELSE made
        /\ loose' = (loose \cup {wt}) \ {gate'}
        /\ wt' = NoCommit

RunEnds(verified) ==
    /\ Active /\ EndRun(verified)
    /\ UNCHANGED <<heads, world, tree, refs, cmd, moves>>

\* A push to the gate is a fast-forward; the daemon hears of it afterwards.
GatePush ==
    /\ moves < MaxMoves /\ moves' = moves + 1
    /\ at = "branch" /\ gate # local /\ IsPrefix(gate, local)
    /\ gate' = local
    /\ UNCHANGED <<rows, world, tree, refs, cmd, made>>

\* A run of the gate's head: for that push, or a rerun.  Bound: nobody moves
\* where there is a second run.
RunStarts ==
    /\ ~Active /\ Len(runs) < MaxRuns /\ moves = 0
    /\ runs' = Append(runs, NewRun(gate))
    /\ wt' = gate /\ heads' = 0 /\ moves' = MaxMoves
    /\ UNCHANGED <<gate, loose, world, tree, refs, cmd, made>>

CollectGarbage ==
    /\ loose # {} /\ loose' = {}
    /\ UNCHANGED <<runs, gate, wt, heads, world, tree, refs, cmd, moves, made>>

-----------------------------------------------------------------------------
(* The operator and everybody else.                                        *)

Moving == moves < MaxMoves /\ moves' = moves + 1

\* What the operator rewrites is the operator's to give up.
OthersOf(c) == {d \in made : ~IsPrefix(d, c)}

OperatorCommits ==
    /\ Moving /\ at = "branch" /\ "x" \notin ToSet(local)
    /\ local' = Append(local, "x") /\ dirty' = FALSE /\ stale' = FALSE
    /\ made' = made \cup {local'}
    /\ UNCHANGED <<rows, gate, world, at, refs, cmd>>

OperatorAmends ==
    /\ Moving /\ at = "branch" /\ local = <<"a">>
    /\ local' = <<"y">> /\ dirty' = FALSE /\ stale' = FALSE
    /\ made' = OthersOf(local) \cup {local'}
    /\ UNCHANGED <<rows, gate, world, at, refs, cmd>>

OperatorEdits ==
    /\ Moving /\ dirty' = ~dirty /\ stale' = (stale /\ ~dirty)
    /\ UNCHANGED <<rows, gate, world, local, at, refs, cmd, made>>

OperatorSwitches ==
    /\ Moving /\ at' = IF at = "branch" THEN "other" ELSE "branch"
    /\ UNCHANGED <<rows, gate, world, local, dirty, stale, refs, cmd, made>>

\* The operator takes the anchored head, as a refusal suggests.
OperatorReconciles ==
    /\ Moving /\ at = "branch" /\ Clean
    /\ LET p == refs[Last1].recover
       IN  /\ p # NoCommit /\ ~IsPrefix(p, local)
           /\ local' = IF IsPrefix(local, p) THEN p ELSE Append(p, "x")
    /\ made' = OthersOf(local) \cup {local'}
    /\ UNCHANGED <<rows, gate, world, at, dirty, stale, refs, cmd>>

OthersMoveRemote ==
    /\ Moving /\ remote' \in {NoCommit, <<"z">>} \cup
         (IF remote = NoCommit THEN {} ELSE {Append(remote, "z")})
    /\ UNCHANGED <<rows, gate, retired, retargeted, tree, refs, cmd, made>>

OthersSettle ==
    /\ Moving
    /\ \/ ~retired /\ retired' = TRUE /\ UNCHANGED retargeted
       \/ ~retargeted /\ retargeted' = TRUE /\ UNCHANGED retired
    /\ UNCHANGED <<rows, gate, remote, tree, refs, cmd, made>>

-----------------------------------------------------------------------------
(* inspect: which run speaks for the branch, and what it says.             *)

Pushed(r) == runs[r].pushed # NoCommit
Unmoved(r) == runs[r].head = runs[r].submitted

Unpublished(r) ==
    /\ ~runs[r].custody
    /\ IF Pushed(r) THEN runs[r].head # runs[r].pushed
       ELSE ~Unmoved(r) \/ (runs[r].status = "over" /\ ~runs[r].verified)

ExactlyPushed(r) == Pushed(r) /\ ~runs[r].pushActive /\ runs[r].head = runs[r].pushed /\ ~retargeted

\* A newer exact binding at the gate's head contains the older run's head; both
\* have a binding.
Superseded(r) ==
    /\ runs[r].status = "over" /\ Unpublished(r) /\ Pushed(r)
    /\ \E n \in DOMAIN runs :
        /\ n > r /\ ExactlyPushed(n) /\ ~Unpublished(n)
        /\ \A m \in DOMAIN runs : m > n => ~ExactlyPushed(m)
        /\ gate = runs[n].pushed /\ InGate(runs[r].head) /\ IsPrefix(runs[r].head, runs[n].pushed)

Holds(r) == (runs[r].status = "active" \/ Unpublished(r)) /\ ~Superseded(r)
Released(r) == runs[r].status = "over" /\ ~runs[r].custody /\ ~Pushed(r) /\ runs[r].verified /\ Unmoved(r)
Speaks(r) == ~Unpublished(r) /\ runs[r].status = "over" /\ (Pushed(r) \/ runs[r].custody \/ Released(r))

Newest(S) == IF S = {} THEN 0 ELSE CHOOSE r \in S : \A q \in S : q <= r

\* The newest run that owns the branch, else the newest with something to say.
Selected ==
    IF at # "branch" THEN 0
    ELSE IF \E r \in DOMAIN runs : Holds(r) THEN Newest({r \in DOMAIN runs : Holds(r)})
    ELSE Newest({r \in DOMAIN runs : Speaks(r)})

\* mergeTreePreservesFinalHead, from the merge base.
Base(l, p) == CHOOSE n \in 0..Len(l) :
    /\ n <= Len(p) /\ SubSeq(l, 1, n) = SubSeq(p, 1, n)
    /\ n + 1 <= Len(l) /\ n + 1 <= Len(p) => l[n + 1] # p[n + 1]
Carries(p, l) == l # p /\ \A i \in (Base(l, p) + 1)..Len(l) : l[i] \in ToSet(p)

Relation(l, p) ==
    IF l = p THEN "synchronized"
    ELSE IF InWork(p)
         THEN IF IsPrefix(l, p) THEN "behind"
              ELSE IF IsPrefix(p, l) THEN "ahead"
              ELSE IF Carries(p, l) THEN "equivalent" ELSE "diverged"
         ELSE "unknown"

Class(r) ==
    IF r = 0 THEN "ambiguous"
    ELSE IF runs[r].pushActive THEN "push_in_progress"
    ELSE IF ~Pushed(r)
         THEN IF runs[r].custody THEN "custody_returned"
              ELSE IF Released(r) THEN "user_owned" ELSE "pipeline_owned"
    ELSE IF runs[r].head # runs[r].pushed /\ ~runs[r].custody THEN "pipeline_owned"
    ELSE IF retired THEN "retired"
    ELSE IF retargeted THEN "target_changed"
    ELSE IF ~Clean THEN "dirty"
    ELSE Relation(local, runs[r].pushed)

-----------------------------------------------------------------------------
(* The command.                                                            *)

Goto(pc) == cmd' = [cmd EXCEPT !.pc = pc]
Refuses == cmd' = NoCmd
SetRef(k, c) == refs' = [refs EXCEPT ![cmd.r][k] = c]
Ref(k) == refs[cmd.r][k]

\* The checks before a move: the branch, its head and the files are as they were read.
AsRead == at = "branch" /\ local = cmd.local /\ Clean

\* git merge --ff-only: Git refuses what is no fast-forward, and an edit that the
\* move would overwrite.  On another branch it is that branch that moves.
FastForwards ==
    \/ /\ at = "branch" /\ IsPrefix(local, cmd.head)
       /\ local' = cmd.head /\ stale' = FALSE
       /\ IF Clean /\ cmd.op = "recover" THEN Goto("stamp") ELSE Refuses
    \/ /\ at = "other" /\ UNCHANGED <<local, stale>>
       /\ IF Clean /\ cmd.op = "recover" THEN Goto("stamp") ELSE Refuses
    \/ /\ ~AsRead /\ UNCHANGED <<local, stale>> /\ Refuses

MergeRuns ==
    /\ cmd.pc = "merge" /\ FastForwards
    /\ UNCHANGED <<rows, gate, world, at, dirty, refs, moves, made>>

CommandDies ==
    /\ moves < MaxMoves /\ moves' = moves + 1
    /\ cmd.pc # "idle" /\ Refuses
    /\ UNCHANGED <<rows, gate, world, tree, refs, made>>

-----------------------------------------------------------------------------
(* sync: Refresh and Apply.                                                *)

SyncReads ==
    /\ cmd.pc = "idle"
    /\ Class(Selected) \in {"behind", "synchronized", "ahead", "equivalent", "diverged", "unknown", "retired"}
    /\ cmd' = [op |-> "sync", pc |-> "refresh", r |-> Selected, local |-> local,
               head |-> runs[Selected].pushed, gen |-> runs[Selected].gen]
    /\ UNCHANGED <<rows, gate, world, tree, refs, moves, made>>

BindingHolds ==
    /\ ~runs[cmd.r].pushActive /\ runs[cmd.r].gen = cmd.gen /\ runs[cmd.r].pushed = cmd.head
    /\ ~retargeted

\* The live branch is fetched into a private ref and compared with the binding.
SyncRefreshes ==
    /\ cmd.pc = "refresh"
    /\ IF BindingHolds /\ remote # NoCommit
       THEN /\ SetRef("sync", remote)
            /\ IF remote = cmd.head /\ ~retired /\ ~IsPrefix(cmd.head, cmd.local)
                  /\ (IsPrefix(cmd.local, cmd.head) \/ Carries(cmd.head, cmd.local))
               THEN Goto("check") ELSE Refuses
       ELSE Refuses /\ UNCHANGED refs
    /\ UNCHANGED <<rows, gate, world, tree, moves, made>>

\* Row, worktree and remote are read again, and the worktree once more.
SyncChecks ==
    /\ cmd.pc = "check"
    /\ IF /\ BindingHolds /\ AsRead /\ remote = cmd.head
          /\ Class(Selected) \notin {"ambiguous", "push_in_progress", "pipeline_owned", "target_changed"}
       THEN Goto(IF IsPrefix(cmd.local, cmd.head) THEN "merge" ELSE "anchor")
       ELSE Refuses
    /\ UNCHANGED <<rows, gate, world, tree, refs, moves, made>>

SyncAnchors ==
    /\ cmd.pc = "anchor"
    /\ IF Ref("syncAnchor") \in {NoCommit, cmd.local}
       THEN SetRef("syncAnchor", cmd.local) /\ Goto("reset")
       ELSE Refuses /\ UNCHANGED refs
    /\ UNCHANGED <<rows, gate, world, tree, moves, made>>

\* git reset --hard, which checks nothing: it also takes what was committed or
\* edited since the last look.
SyncResets ==
    /\ cmd.pc = "reset"
    /\ dirty' = FALSE /\ stale' = FALSE
    /\ local' = IF at = "branch" THEN cmd.head ELSE local
    /\ made' = IF at = "branch" /\ local # cmd.local THEN OthersOf(local) ELSE made
    /\ Refuses
    /\ UNCHANGED <<rows, gate, world, at, refs, moves>>

-----------------------------------------------------------------------------
(* sync --recover.                                                         *)

\* A returned or released branch is reported as such; nothing changes.
RecoverReads(keep) ==
    /\ cmd.pc = "idle"
    /\ Class(Selected) = "pipeline_owned" /\ runs[Selected].status = "over"
    /\ cmd' = [op |-> "recover", pc |-> "verify", r |-> Selected, keep |-> keep, local |-> local,
               clean |-> Clean, head |-> runs[Selected].head, gate |-> NoCommit]
    /\ UNCHANGED <<rows, gate, world, tree, refs, moves, made>>

FrozenGate == gate = runs[cmd.r].submitted /\ gate # cmd.head

\* Without a verified head the gate must hold it or a descendant, which is
\* then adopted, or be where the run was submitted.
RecoverVerifies ==
    /\ cmd.pc = "verify"
    /\ IF runs[cmd.r].verified \/ gate = cmd.head \/ FrozenGate
       THEN Goto("plan") /\ UNCHANGED runs
       ELSE IF IsPrefix(cmd.head, gate)
       THEN SetRun(cmd.r, "head", gate) /\ cmd' = [cmd EXCEPT !.pc = "plan", !.head = gate]
       ELSE Refuses /\ UNCHANGED runs
    /\ UNCHANGED <<gate, loose, wt, heads, world, tree, refs, moves, made>>

\* The table of Recover's comment, once the preserved head is anchored.
NextMove ==
    IF IsPrefix(cmd.head, cmd.local) THEN "stamp"
    ELSE IF cmd.keep THEN "stage"
    ELSE IF ~cmd.clean THEN "idle"
    ELSE IF IsPrefix(cmd.local, cmd.head) THEN "ff"
    ELSE IF Carries(cmd.head, cmd.local) THEN "adopt" ELSE "idle"

Proceed(pc, g) == cmd' = IF pc = "idle" THEN NoCmd ELSE [cmd EXCEPT !.pc = pc, !.gate = g]

IncompleteAdoption ==
    Ref("recLocal") \notin {NoCommit, cmd.head} /\ cmd.local = cmd.head /\ ~cmd.clean

Anchorable == Ref("recover") \in {NoCommit, cmd.head}

\* Mutant: a head the gate's store still has is taken for lost.
AnchorStrandedLocal == IF InWork(cmd.head) THEN SetRef("recover", cmd.head) ELSE UNCHANGED refs

\* anchorStrandedPipelineHead: pinned when any store still has it.
AnchorStranded ==
    IF InWork(cmd.head) \/ InGate(cmd.head) THEN SetRef("recover", cmd.head) ELSE UNCHANGED refs

RecoverPlans ==
    /\ cmd.pc = "plan"
    /\ IF IncompleteAdoption \/ ~Anchorable THEN Refuses /\ UNCHANGED refs
       ELSE IF InWork(cmd.head) /\ IsPrefix(cmd.head, cmd.local)
       THEN SetRef("recover", cmd.head) /\ Goto("stamp")
       ELSE IF FrozenGate
       THEN /\ AnchorStranded
            /\ Proceed(IF cmd.keep THEN "stage" ELSE IF IsPrefix(gate, cmd.local) THEN "stamp" ELSE "idle", gate)
       ELSE IF Ref("recover") = cmd.head
       THEN /\ UNCHANGED refs
            /\ Proceed(IF gate = cmd.head \/ (cmd.keep /\ gate = cmd.local) THEN NextMove ELSE "idle", gate)
       ELSE UNCHANGED refs /\ Proceed(IF gate = cmd.head THEN "fetch" ELSE "idle", gate)
    /\ UNCHANGED <<rows, gate, world, tree, moves, made>>

\* The gate's branch is fetched by name: it may have moved since it was read.
RecoverFetches ==
    /\ cmd.pc = "fetch"
    /\ SetRef("recover", gate)
    /\ IF gate = cmd.head THEN Proceed(NextMove, gate) ELSE Refuses
    /\ UNCHANGED <<rows, gate, world, tree, moves, made>>

\* anchorAbandonedGateHead.
AnchorAbandoned ==
    IF IsPrefix(cmd.gate, cmd.local) \/ Ref("recover") = cmd.gate \/ Ref("abandoned") = cmd.gate
    THEN UNCHANGED refs /\ Goto("cas")
    ELSE IF Ref("abandoned") # NoCommit THEN UNCHANGED refs /\ Refuses
    ELSE /\ SetRef("abandoned", IF InWork(cmd.gate) THEN cmd.gate ELSE gate)
         /\ IF InWork(cmd.gate) \/ gate = cmd.gate THEN Goto("cas") ELSE Refuses

\* recoverKeepLocal: the kept head is staged in the gate.
RecoverStages ==
    /\ cmd.pc = "stage"
    /\ IF cmd.gate = cmd.local THEN Goto("stamp") /\ UNCHANGED refs
       ELSE IF at = "branch" /\ local = cmd.local THEN AnchorAbandoned
       ELSE Refuses /\ UNCHANGED refs
    /\ UNCHANGED <<rows, gate, world, tree, moves, made>>

\* update-ref with the old value: a push that came first wins.
Swap ==
    IF gate = cmd.gate THEN gate' = cmd.local /\ loose' = loose \cup {gate} /\ Goto("stamp")
    ELSE Refuses /\ UNCHANGED <<gate, loose>>

RecoverSwaps ==
    /\ cmd.pc = "cas" /\ Swap
    /\ UNCHANGED <<runs, wt, heads, world, tree, refs, moves, made>>

RecoverChecks ==
    /\ cmd.pc = "ff" /\ (IF AsRead THEN Goto("merge") ELSE Refuses)
    /\ UNCHANGED <<rows, gate, world, tree, refs, moves, made>>

\* recoverAdoptPreserved: the head that is left is pinned first.
RecoverPins ==
    /\ cmd.pc = "adopt"
    /\ IF AsRead /\ Ref("recLocal") \in {NoCommit, local}
       THEN SetRef("recLocal", local) /\ Goto("swap")
       ELSE Refuses /\ UNCHANGED refs
    /\ UNCHANGED <<rows, gate, world, tree, moves, made>>

MovesBranch ==
    IF at = "branch" /\ local = cmd.local THEN local' = cmd.head /\ stale' = TRUE /\ Goto("tree")
    ELSE Refuses /\ UNCHANGED <<local, stale>>

RecoverMovesBranch ==
    /\ cmd.pc = "swap" /\ MovesBranch
    /\ UNCHANGED <<rows, gate, world, at, dirty, refs, moves, made>>

\* read-tree -m -u refuses to overwrite an edit; the branch is then swapped back.
RecoverReadsTree ==
    /\ cmd.pc = "tree"
    /\ \/ /\ at = "other" \/ dirty
          /\ local' = IF local = cmd.head THEN cmd.local ELSE local
          /\ stale' = FALSE /\ Refuses /\ UNCHANGED dirty
       \/ /\ at = "branch" /\ UNCHANGED local
          /\ stale' = FALSE /\ dirty' = (dirty \/ local # cmd.head)
          /\ IF local = cmd.head /\ ~dirty THEN Goto("stamp") ELSE Refuses
    /\ UNCHANGED <<rows, gate, world, at, refs, moves, made>>

RecoverStamps ==
    /\ cmd.pc = "stamp"
    /\ SetRun(cmd.r, "custody", TRUE) /\ Refuses
    /\ UNCHANGED <<gate, loose, wt, heads, world, tree, refs, moves, made>>

-----------------------------------------------------------------------------

Pipeline ==
    \/ StepCommits \/ AdoptRef \/ AdoptRow \/ PushBegins \/ PushBinds
    \/ (\E v \in BOOLEAN : RunEnds(v)) \/ RunStarts

Others ==
    \/ GatePush \/ OperatorCommits \/ OperatorAmends \/ OperatorEdits \/ OperatorSwitches
    \/ OperatorReconciles \/ OthersMoveRemote \/ OthersSettle \/ CollectGarbage

Recovering ==
    \/ RecoverVerifies \/ RecoverPlans \/ RecoverFetches \/ RecoverStages \/ RecoverSwaps
    \/ RecoverChecks \/ MergeRuns \/ RecoverPins \/ RecoverMovesBranch \/ RecoverReadsTree \/ RecoverStamps

Running == SyncRefreshes \/ SyncChecks \/ SyncAnchors \/ SyncResets \/ Recovering

Command == SyncReads \/ (\E keep \in BOOLEAN : RecoverReads(keep)) \/ Running

SyncNext == Pipeline \/ Others \/ Command \/ CommandDies

SyncSpec == SyncInit /\ [][SyncNext]_syncVars

-----------------------------------------------------------------------------
(* Properties.                                                             *)

Held(c) == InWork(c) \/ (gate # NoCommit /\ IsPrefix(c, gate)) \/ (wt # NoCommit /\ IsPrefix(c, wt))
           \/ (remote # NoCommit /\ IsPrefix(c, remote))

\* Whatever the operator committed and whatever the pipeline put on the gate's
\* branch stays reachable, through every recovery, sync, push and death of the
\* command.  What a hard reset takes from under a concurrent commit is given up
\* in SyncResets: recover refuses there, sync does not.
NothingIsLost == \A c \in made : Held(c)

\* No commit of the operator or the pipeline is lost.
SyncSafe == SyncTypeOK /\ NothingIsLost

\* Custody comes back only from a run that is over, and with its head on the
\* branch, in an anchor, or gone from every store.
CustodyIsEarned ==
    [][\A r \in DOMAIN runs : runs'[r].custody /\ ~runs[r].custody =>
        /\ runs[r].status = "over"
        /\ InWork(runs[r].head)' \/ ~InGate(runs[r].head)]_syncVars
=============================================================================

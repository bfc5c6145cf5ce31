-------------------------- MODULE RunManagerProofs --------------------------
(* Proofs about the run manager: who owns a row and a worktree, and which   *)
(* executors of one branch may overlap; and about the pools that admit its  *)
(* heavy steps.                                                             *)
EXTENDS RunManager, Capacity, FiniteSetTheorems, TLAPS

\* Where a handler holds its branch's lock, and where it has a run of its own.
Holding == {"locked", "waiting", "clear", "inserted", "added", "guarded"}
Owning == {"inserted", "added", "guarded"}

\* Until it serves a process has no handler and no goroutine, and its plans are for parked runs
\* that are whole and alone on their branch.
Phases ==
    /\ daemon # "serving" =>
          /\ tracked = {} /\ stop = "none" /\ shuttingDown = FALSE
          /\ \A r \in Runs : gor[r] = "none" /\ cause[r] = "none"
          /\ \A c \in Callers : cpc[c] = "idle"
    /\ daemon \in {"down", "serving"} => plans = {}
    /\ \A r \in plans :
          /\ row[r] = "running" /\ parked[r] = TRUE /\ wt[r] = TRUE
          /\ \A q \in Runs : row[q] \in ActiveRow /\ branch[q] = branch[r] => q = r
    /\ daemon \in {"cleaning", "resuming"} => \A r \in Runs : row[r] \in ActiveRow => r \in plans
    /\ daemon = "resuming" => \A r \in Runs : wt[r] = TRUE => row[r] \in ActiveRow

\* Runs are numbered in the order of their rows.
Numbered ==
    \A r \in Runs :
        /\ row[r] = "none" => /\ branch[r] = None /\ parked[r] = FALSE /\ wt[r] = FALSE
                              /\ gor[r] = "none"
        /\ row[r] # "none" => branch[r] \in Branches
        /\ \A q \in Runs : row[r] = "none" /\ r < q => row[q] = "none"

\* A handler past the lock holds its branch's, and what is locked has such a handler.
Locked ==
    /\ \A c \in Callers :
          /\ cpc[c] = "idle" <=> target[c] = None
          /\ cpc[c] \in Holding => locks[target[c]] = c
          /\ mine[c] # None <=> cpc[c] \in Owning
          /\ cpc[c] # "waiting" => waits[c] = {}
    /\ \A b \in Branches : locks[b] # None => cpc[locks[b]] \in Holding /\ target[locks[b]] = b

\* The run a handler sets up: nobody else's, the last of its branch, with a worktree once added.
SettingUp ==
    \A c \in Callers : mine[c] # None =>
        /\ row[mine[c]] = "starting" /\ branch[mine[c]] = target[c]
        /\ gor[mine[c]] = "none" /\ mine[c] \notin tracked
        /\ wt[mine[c]] = TRUE <=> cpc[c] \in {"added", "guarded"}
        /\ \A q \in Runs : branch[q] = branch[mine[c]] => q <= mine[c]
        /\ \A d \in Callers : mine[d] = mine[c] => d = c

\* A goroutine is tracked until its clean-up, and settles its row before.
Tracking ==
    \A r \in Runs :
        /\ r \in tracked <=> gor[r] \in {"executing", "returned"}
        /\ gor[r] = "executing" => row[r] \in ActiveRow /\ wt[r] = TRUE
        /\ gor[r] \in {"returned", "untracked", "gone"} => row[r] \in TerminalRow
        /\ gor[r] \in {"untracked", "gone"} => wt[r] = FALSE

\* What a handler knows of the executors on its branch: it waits for them, or has given them up.
Superseding ==
    \A c \in Callers, r \in Runs : Executing(r) /\ branch[r] = target[c] =>
        /\ cpc[c] = "waiting" => r \in waits[c] /\ cause[r] # "none"
        /\ cpc[c] \in {"clear", "inserted", "added", "guarded"} => r \in abandoned /\ cause[r] # "none"

RunsInv ==
    /\ RunsTypeOK /\ Phases /\ Numbered /\ Locked /\ SettingUp /\ Tracking /\ Superseding
    /\ OnlyAbandonedOverlap /\ ActiveRowHasOwner /\ WorktreeHasOwner
-----------------------------------------------------------------------------
(* Each action keeps the invariant.                                         *)

USE RunsAssumption DEF Runs, None, ActiveRow, TerminalRow, CancelCauses, Holding, Owning, Executing, rows, process,
    stopping, runMem, handlers, history, runsVars

\* Admit keeps the invariant.
LEMMA AdmitKeeps ==
    ASSUME RunsInv, NEW c \in Callers, NEW b \in Branches, Admit(c, b)
    PROVE  RunsInv'
<1>1. (Numbered /\ Tracking /\ OnlyAbandonedOverlap /\ ActiveRowHasOwner /\ WorktreeHasOwner)'
    BY DEF RunsInv, Numbered, Tracking, OnlyAbandonedOverlap, ActiveRowHasOwner,
      WorktreeHasOwner, Admit, RunsLeft
<1>2. RunsTypeOK'
    BY DEF RunsInv, RunsTypeOK, Admit, RunsLeft
<1>3. Phases'
    BY DEF RunsInv, Phases, Admit, RunsLeft
<1>4. Locked'
    BY DEF RunsInv, Locked, RunsTypeOK, Admit, RunsLeft
<1>5. SettingUp'
    BY DEF RunsInv, SettingUp, RunsTypeOK, Locked, Admit, RunsLeft
<1>6. Superseding'
    BY DEF RunsInv, Superseding, Admit, RunsLeft
<1> QED BY <1>1, <1>2, <1>3, <1>4, <1>5, <1>6 DEF RunsInv

\* TakeLock keeps the invariant.
LEMMA TakeLockKeeps ==
    ASSUME RunsInv, NEW c \in Callers, TakeLock(c)
    PROVE  RunsInv'
<1>1. (Numbered /\ Tracking /\ OnlyAbandonedOverlap /\ ActiveRowHasOwner /\ WorktreeHasOwner)'
    BY DEF RunsInv, Numbered, Tracking, OnlyAbandonedOverlap, ActiveRowHasOwner,
      WorktreeHasOwner, TakeLock
<1>2. RunsTypeOK'
    BY DEF RunsInv, RunsTypeOK, Locked, TakeLock
<1>3. Phases'
    BY DEF RunsInv, Phases, TakeLock
<1>4. Locked'
    BY DEF RunsInv, Locked, RunsTypeOK, TakeLock
<1>5. SettingUp'
    BY DEF RunsInv, SettingUp, TakeLock
<1>6. Superseding'
    BY DEF RunsInv, Superseding, TakeLock
<1> QED BY <1>1, <1>2, <1>3, <1>4, <1>5, <1>6 DEF RunsInv

\* CancelActive keeps the invariant.
LEMMA CancelActiveKeeps ==
    ASSUME RunsInv, NEW c \in Callers, CancelActive(c)
    PROVE  RunsInv'
<1>1. (Numbered /\ Tracking /\ ActiveRowHasOwner /\ WorktreeHasOwner)'
    BY DEF RunsInv, Numbered, Tracking, ActiveRowHasOwner, WorktreeHasOwner, CancelActive,
      Cancelled
<1>2. RunsTypeOK'
  <2>1. (cause \in [Runs -> CancelCauses \cup {"none"}])'
        BY DEF RunsInv, RunsTypeOK, CancelActive, Cancelled
  <2>2. (cpc \in [Callers -> {"idle", "admitted", "locked", "waiting", "clear", "inserted", "added", "guarded"}])'
        BY DEF RunsInv, RunsTypeOK, CancelActive, Cancelled
  <2>3. (waits \in [Callers -> SUBSET Runs])'
        BY DEF RunsInv, RunsTypeOK, CancelActive, Cancelled
    <2> QED BY <2>1, <2>2, <2>3 DEF RunsInv, RunsTypeOK, CancelActive, Cancelled
<1>3. Phases'
    BY DEF RunsInv, Phases, CancelActive, Cancelled
<1>4. Locked'
    BY DEF RunsInv, Locked, RunsTypeOK, CancelActive, Cancelled
<1>5. SettingUp'
    BY DEF RunsInv, SettingUp, CancelActive, Cancelled
<1>6. Superseding'
    BY DEF RunsInv, Superseding, RunsTypeOK, Tracking, CancelActive, Cancelled
<1>7. OnlyAbandonedOverlap'
    BY DEF RunsInv, OnlyAbandonedOverlap, CancelActive, Cancelled
<1> QED BY <1>1, <1>2, <1>3, <1>4, <1>5, <1>6, <1>7 DEF RunsInv

\* WaitDone keeps the invariant.
LEMMA WaitDoneKeeps ==
    ASSUME RunsInv, NEW c \in Callers, WaitDone(c)
    PROVE  RunsInv'
<1>1. (Numbered /\ Tracking /\ OnlyAbandonedOverlap /\ ActiveRowHasOwner /\ WorktreeHasOwner)'
    BY DEF RunsInv, Numbered, Tracking, OnlyAbandonedOverlap, ActiveRowHasOwner,
      WorktreeHasOwner, WaitDone
<1>2. RunsTypeOK'
    BY DEF RunsInv, RunsTypeOK, WaitDone
<1>3. Phases'
    BY DEF RunsInv, Phases, WaitDone
<1>4. Locked'
    BY DEF RunsInv, Locked, RunsTypeOK, WaitDone
<1>5. SettingUp'
    BY DEF RunsInv, SettingUp, WaitDone
<1>6. Superseding'
    BY DEF RunsInv, Superseding, WaitDone
<1> QED BY <1>1, <1>2, <1>3, <1>4, <1>5, <1>6 DEF RunsInv

\* WaitTimeout keeps the invariant.
LEMMA WaitTimeoutKeeps ==
    ASSUME RunsInv, NEW c \in Callers, WaitTimeout(c)
    PROVE  RunsInv'
<1>1. (Numbered /\ Tracking /\ ActiveRowHasOwner /\ WorktreeHasOwner)'
    BY DEF RunsInv, Numbered, Tracking, ActiveRowHasOwner, WorktreeHasOwner, WaitTimeout
<1>2. RunsTypeOK'
  <2>1. (cpc \in [Callers -> {"idle", "admitted", "locked", "waiting", "clear", "inserted", "added", "guarded"}])'
        BY DEF RunsInv, RunsTypeOK, WaitTimeout
  <2>2. (waits \in [Callers -> SUBSET Runs])'
        BY DEF RunsInv, RunsTypeOK, WaitTimeout
  <2>3. (abandoned \subseteq Runs)'
        BY DEF RunsInv, RunsTypeOK, WaitTimeout
    <2> QED BY <2>1, <2>2, <2>3 DEF RunsInv, RunsTypeOK, WaitTimeout
<1>3. Phases'
    BY DEF RunsInv, Phases, WaitTimeout
<1>4. Locked'
    BY DEF RunsInv, Locked, RunsTypeOK, WaitTimeout
<1>5. SettingUp'
    BY DEF RunsInv, SettingUp, WaitTimeout
<1>6. Superseding'
    BY DEF RunsInv, Superseding, RunsTypeOK, WaitTimeout
<1>7. OnlyAbandonedOverlap'
    BY DEF RunsInv, OnlyAbandonedOverlap, WaitTimeout
<1> QED BY <1>1, <1>2, <1>3, <1>4, <1>5, <1>6, <1>7 DEF RunsInv

\* InsertRun keeps the invariant.
LEMMA InsertRunKeeps ==
    ASSUME RunsInv, NEW c \in Callers, InsertRun(c)
    PROVE  RunsInv'
<1>1. RunsTypeOK'
    BY DEF RunsInv, RunsTypeOK, InsertRun
<1>2. Phases'
    BY DEF RunsInv, Phases, InsertRun
<1>3. Numbered'
    BY DEF RunsInv, Numbered, RunsTypeOK, Locked, InsertRun
<1>4. Locked'
    BY DEF RunsInv, Locked, RunsTypeOK, InsertRun
<1>5. SettingUp'
    BY DEF RunsInv, SettingUp, RunsTypeOK, Numbered, Locked, Tracking, InsertRun
<1>6. Tracking'
    BY DEF RunsInv, Tracking, InsertRun
<1>7. Superseding'
    BY DEF RunsInv, Superseding, RunsTypeOK, Numbered, InsertRun
<1>8. OnlyAbandonedOverlap'
    BY DEF RunsInv, OnlyAbandonedOverlap, RunsTypeOK, Numbered, InsertRun
<1>9. ActiveRowHasOwner'
    BY DEF RunsInv, ActiveRowHasOwner, RunsTypeOK, Locked, SettingUp, InsertRun
<1>10. WorktreeHasOwner'
    BY DEF RunsInv, WorktreeHasOwner, RunsTypeOK, SettingUp, Tracking, InsertRun
<1> QED BY <1>1, <1>2, <1>3, <1>4, <1>5, <1>6, <1>7, <1>8, <1>9, <1>10 DEF RunsInv

\* AddWorktree keeps the invariant.
LEMMA AddWorktreeKeeps ==
    ASSUME RunsInv, NEW c \in Callers, AddWorktree(c)
    PROVE  RunsInv'
<1>1. (OnlyAbandonedOverlap /\ ActiveRowHasOwner)'
    BY DEF RunsInv, OnlyAbandonedOverlap, ActiveRowHasOwner, AddWorktree
<1>2. RunsTypeOK'
    BY DEF RunsInv, RunsTypeOK, Locked, AddWorktree
<1>3. Phases'
    BY DEF RunsInv, Phases, AddWorktree
<1>4. Numbered'
    BY DEF RunsInv, Numbered, RunsTypeOK, SettingUp, AddWorktree
<1>5. Locked'
    BY DEF RunsInv, Locked, AddWorktree
<1>6. SettingUp'
    BY DEF RunsInv, SettingUp, RunsTypeOK, AddWorktree
<1>7. Tracking'
    BY DEF RunsInv, Tracking, RunsTypeOK, SettingUp, AddWorktree
<1>8. Superseding'
    BY DEF RunsInv, Superseding, AddWorktree
<1>9. WorktreeHasOwner'
    BY DEF RunsInv, WorktreeHasOwner, AddWorktree
<1> QED BY <1>1, <1>2, <1>3, <1>4, <1>5, <1>6, <1>7, <1>8, <1>9 DEF RunsInv

\* Guard keeps the invariant.
LEMMA GuardKeeps ==
    ASSUME RunsInv, NEW c \in Callers, Guard(c)
    PROVE  RunsInv'
<1>1. (Numbered /\ Tracking /\ OnlyAbandonedOverlap /\ ActiveRowHasOwner /\ WorktreeHasOwner)'
    BY DEF RunsInv, Numbered, Tracking, OnlyAbandonedOverlap, ActiveRowHasOwner,
      WorktreeHasOwner, Guard
<1>2. RunsTypeOK'
    BY DEF RunsInv, RunsTypeOK, Guard
<1>3. Phases'
    BY DEF RunsInv, Phases, Guard
<1>4. Locked'
    BY DEF RunsInv, Locked, Guard
<1>5. SettingUp'
    BY DEF RunsInv, SettingUp, Guard
<1>6. Superseding'
    BY DEF RunsInv, Superseding, Guard
<1> QED BY <1>1, <1>2, <1>3, <1>4, <1>5, <1>6 DEF RunsInv

\* SetupFails keeps the invariant.
LEMMA SetupFailsKeeps ==
    ASSUME RunsInv, NEW c \in Callers, SetupFails(c)
    PROVE  RunsInv'
<1>1. OnlyAbandonedOverlap'
    BY DEF RunsInv, OnlyAbandonedOverlap, SetupFails, Return
<1>2. RunsTypeOK'
  <2>1. mine[c] \in Runs
    BY DEF RunsInv, RunsTypeOK, Locked, SetupFails
  <2>2. (row \in [Runs -> ActiveRow \cup TerminalRow \cup {"none"}])'
        BY <2>1 DEF RunsInv, RunsTypeOK, SetupFails, Return
  <2>3. (wt \in [Runs -> BOOLEAN])'
        BY <2>1 DEF RunsInv, RunsTypeOK, SetupFails, Return
  <2>4. (locks \in [Branches -> Callers \cup {None}])'
        BY <2>1 DEF RunsInv, RunsTypeOK, SetupFails, Return
  <2>5. (cpc \in [Callers -> {"idle", "admitted", "locked", "waiting", "clear", "inserted", "added", "guarded"}])'
        BY <2>1 DEF RunsInv, RunsTypeOK, SetupFails, Return
  <2>6. (target \in [Callers -> Branches \cup {None}])'
        BY <2>1 DEF RunsInv, RunsTypeOK, SetupFails, Return
  <2>7. (mine \in [Callers -> Runs \cup {None}])'
        BY <2>1 DEF RunsInv, RunsTypeOK, SetupFails, Return
  <2>8. (leaked \subseteq Runs)'
        BY <2>1 DEF RunsInv, RunsTypeOK, SetupFails, Return
    <2> QED BY <2>1, <2>2, <2>3, <2>4, <2>5, <2>6, <2>7, <2>8 DEF RunsInv, RunsTypeOK,
        SetupFails, Return
<1>3. Phases'
    BY DEF RunsInv, Phases, SetupFails, Return
<1>4. Numbered'
    BY DEF RunsInv, Numbered, RunsTypeOK, SettingUp, SetupFails, Return
<1>5. Locked'
    BY DEF RunsInv, Locked, RunsTypeOK, SetupFails, Return
<1>6. SettingUp'
    BY DEF RunsInv, SettingUp, RunsTypeOK, SetupFails, Return
<1>7. Tracking'
    BY DEF RunsInv, Tracking, RunsTypeOK, SettingUp, SetupFails, Return
<1>8. Superseding'
    BY DEF RunsInv, Superseding, RunsTypeOK, SetupFails, Return
<1>9. ActiveRowHasOwner'
    BY DEF RunsInv, ActiveRowHasOwner, RunsTypeOK, SetupFails, Return
<1>10. WorktreeHasOwner'
  <2>1. mine[c] \in Runs
    BY DEF RunsInv, RunsTypeOK, Locked, SetupFails
  <2>2. \A d \in Callers : mine'[d] # mine[d] => d = c
    BY DEF RunsInv, RunsTypeOK, SetupFails, Return
  <2>3. ASSUME daemon' = "serving", NEW r \in Runs, wt'[r] = TRUE
        PROVE  \/ gor'[r] \in {"executing", "returned"}
               \/ \E d \in Callers : mine'[d] = r
               \/ r \in leaked'
    <3>1. CASE r = mine[c]
      <4>1. wt[mine[c]] = TRUE /\ cpc[c] \in {"inserted", "added"}
        BY <2>1, <2>3, <3>1 DEF RunsInv, RunsTypeOK, SetupFails
      <4>2. cpc[c] = "added"
        BY <2>1, <4>1 DEF RunsInv, SettingUp
      <4> QED BY <3>1, <4>2 DEF SetupFails
    <3>2. CASE r # mine[c]
      BY <2>1, <2>2, <2>3, <3>2 DEF RunsInv, RunsTypeOK, WorktreeHasOwner, SetupFails
    <3> QED BY <3>1, <3>2
  <2> QED BY <2>3, <1>2 DEF WorktreeHasOwner, RunsTypeOK
<1> QED BY <1>1, <1>2, <1>3, <1>4, <1>5, <1>6, <1>7, <1>8, <1>9, <1>10 DEF RunsInv

\* Launch keeps the invariant.
LEMMA LaunchKeeps ==
    ASSUME RunsInv, NEW c \in Callers, Launch(c)
    PROVE  RunsInv'
<1>1. RunsTypeOK'
  <2>1. mine[c] \in Runs
    BY DEF RunsInv, RunsTypeOK, Locked, Launch
  <2>2. (tracked \subseteq Runs)'
        BY <2>1 DEF RunsInv, RunsTypeOK, Launch, Return
  <2>3. (gor \in [Runs -> {"none", "executing", "returned", "untracked", "gone"}])'
        BY <2>1 DEF RunsInv, RunsTypeOK, Launch, Return
  <2>4. (locks \in [Branches -> Callers \cup {None}])'
        BY <2>1 DEF RunsInv, RunsTypeOK, Launch, Return
  <2>5. (cpc \in [Callers -> {"idle", "admitted", "locked", "waiting", "clear", "inserted", "added", "guarded"}])'
        BY <2>1 DEF RunsInv, RunsTypeOK, Launch, Return
  <2>6. (target \in [Callers -> Branches \cup {None}])'
        BY <2>1 DEF RunsInv, RunsTypeOK, Launch, Return
  <2>7. (mine \in [Callers -> Runs \cup {None}])'
        BY <2>1 DEF RunsInv, RunsTypeOK, Launch, Return
    <2> QED BY <2>1, <2>2, <2>3, <2>4, <2>5, <2>6, <2>7 DEF RunsInv, RunsTypeOK, Launch, Return
<1>2. Phases'
    BY DEF RunsInv, Phases, Launch, Return
<1>3. Numbered'
    BY DEF RunsInv, Numbered, RunsTypeOK, SettingUp, Launch, Return
<1>4. Locked'
    BY DEF RunsInv, Locked, RunsTypeOK, Launch, Return
<1>5. SettingUp'
    BY DEF RunsInv, SettingUp, RunsTypeOK, Launch, Return
<1>6. Tracking'
    BY DEF RunsInv, Tracking, RunsTypeOK, SettingUp, Launch, Return
<1>7. Superseding'
    BY DEF RunsInv, Superseding, RunsTypeOK, Locked, SettingUp, Launch, Return
<1>8. OnlyAbandonedOverlap'
    BY DEF RunsInv, OnlyAbandonedOverlap, RunsTypeOK, SettingUp, Superseding, Launch, Return
<1>9. ActiveRowHasOwner'
    BY DEF RunsInv, ActiveRowHasOwner, RunsTypeOK, Launch, Return
<1>10. WorktreeHasOwner'
    BY DEF RunsInv, WorktreeHasOwner, RunsTypeOK, Launch, Return
<1> QED BY <1>1, <1>2, <1>3, <1>4, <1>5, <1>6, <1>7, <1>8, <1>9, <1>10 DEF RunsInv

\* ExecutorBegins keeps the invariant.
LEMMA ExecutorBeginsKeeps ==
    ASSUME RunsInv, NEW r \in Runs, ExecutorBegins(r)
    PROVE  RunsInv'
<1>1. (Locked /\ Superseding /\ OnlyAbandonedOverlap /\ WorktreeHasOwner)'
    BY DEF RunsInv, Locked, Superseding, OnlyAbandonedOverlap, WorktreeHasOwner, ExecutorBegins
<1>2. RunsTypeOK'
    BY DEF RunsInv, RunsTypeOK, ExecutorBegins
<1>3. Phases'
    BY DEF RunsInv, Phases, ExecutorBegins
<1>4. Numbered'
    BY DEF RunsInv, Numbered, ExecutorBegins
<1>5. SettingUp'
    BY DEF RunsInv, SettingUp, ExecutorBegins
<1>6. Tracking'
    BY DEF RunsInv, Tracking, ExecutorBegins
<1>7. ActiveRowHasOwner'
    BY DEF RunsInv, ActiveRowHasOwner, ExecutorBegins
<1> QED BY <1>1, <1>2, <1>3, <1>4, <1>5, <1>6, <1>7 DEF RunsInv

\* ExecutorParks keeps the invariant.
LEMMA ExecutorParksKeeps ==
    ASSUME RunsInv, NEW r \in Runs, ExecutorParks(r)
    PROVE  RunsInv'
<1>1. (Locked /\ SettingUp /\ Tracking /\ Superseding /\ OnlyAbandonedOverlap /\
      ActiveRowHasOwner /\ WorktreeHasOwner)'
    BY DEF RunsInv, Locked, SettingUp, Tracking, Superseding, OnlyAbandonedOverlap,
      ActiveRowHasOwner, WorktreeHasOwner, ExecutorParks
<1>2. RunsTypeOK'
    BY DEF RunsInv, RunsTypeOK, ExecutorParks
<1>3. Phases'
    BY DEF RunsInv, Phases, ExecutorParks
<1>4. Numbered'
    BY DEF RunsInv, Numbered, ExecutorParks
<1> QED BY <1>1, <1>2, <1>3, <1>4 DEF RunsInv

\* ExecutorReturns keeps the invariant.
LEMMA ExecutorReturnsKeeps ==
    ASSUME RunsInv, NEW r \in Runs, ExecutorReturns(r)
    PROVE  RunsInv'
<1>1. Locked'
    BY DEF RunsInv, Locked, ExecutorReturns, Outcomes
<1>2. RunsTypeOK'
    BY DEF RunsInv, RunsTypeOK, ExecutorReturns, Outcomes
<1>3. Phases'
    BY DEF RunsInv, Phases, ExecutorReturns, Outcomes
<1>4. Numbered'
    BY DEF RunsInv, Numbered, ExecutorReturns, Outcomes
<1>5. SettingUp'
    BY DEF RunsInv, SettingUp, ExecutorReturns, Outcomes
<1>6. Tracking'
    BY DEF RunsInv, Tracking, RunsTypeOK, ExecutorReturns, Outcomes
<1>7. Superseding'
    BY DEF RunsInv, Superseding, ExecutorReturns, Outcomes
<1>8. OnlyAbandonedOverlap'
    BY DEF RunsInv, OnlyAbandonedOverlap, ExecutorReturns, Outcomes
<1>9. ActiveRowHasOwner'
    BY DEF RunsInv, ActiveRowHasOwner, RunsTypeOK, ExecutorReturns, Outcomes
<1>10. WorktreeHasOwner'
    BY DEF RunsInv, WorktreeHasOwner, ExecutorReturns, Outcomes
<1> QED BY <1>1, <1>2, <1>3, <1>4, <1>5, <1>6, <1>7, <1>8, <1>9, <1>10 DEF RunsInv

\* CleansUp keeps the invariant.
LEMMA CleansUpKeeps ==
    ASSUME RunsInv, NEW r \in Runs, CleansUp(r)
    PROVE  RunsInv'
<1>1. Locked'
    BY DEF RunsInv, Locked, CleansUp
<1>2. RunsTypeOK'
    BY DEF RunsInv, RunsTypeOK, CleansUp
<1>3. Phases'
    BY DEF RunsInv, Phases, CleansUp
<1>4. Numbered'
    BY DEF RunsInv, Numbered, CleansUp
<1>5. SettingUp'
    BY DEF RunsInv, SettingUp, CleansUp
<1>6. Tracking'
    BY DEF RunsInv, Tracking, RunsTypeOK, CleansUp
<1>7. Superseding'
    BY DEF RunsInv, Superseding, CleansUp
<1>8. OnlyAbandonedOverlap'
    BY DEF RunsInv, OnlyAbandonedOverlap, CleansUp
<1>9. ActiveRowHasOwner'
    BY DEF RunsInv, ActiveRowHasOwner, CleansUp
<1>10. WorktreeHasOwner'
    BY DEF RunsInv, WorktreeHasOwner, RunsTypeOK, CleansUp
<1> QED BY <1>1, <1>2, <1>3, <1>4, <1>5, <1>6, <1>7, <1>8, <1>9, <1>10 DEF RunsInv

\* ClosesDone keeps the invariant.
LEMMA ClosesDoneKeeps ==
    ASSUME RunsInv, NEW r \in Runs, ClosesDone(r)
    PROVE  RunsInv'
<1>1. Locked'
    BY DEF RunsInv, Locked, ClosesDone
<1>2. RunsTypeOK'
    BY DEF RunsInv, RunsTypeOK, ClosesDone
<1>3. Phases'
    BY DEF RunsInv, Phases, ClosesDone
<1>4. Numbered'
    BY DEF RunsInv, Numbered, ClosesDone
<1>5. SettingUp'
    BY DEF RunsInv, SettingUp, ClosesDone
<1>6. Tracking'
    BY DEF RunsInv, Tracking, ClosesDone
<1>7. Superseding'
    BY DEF RunsInv, Superseding, ClosesDone
<1>8. OnlyAbandonedOverlap'
    BY DEF RunsInv, OnlyAbandonedOverlap, ClosesDone
<1>9. ActiveRowHasOwner'
    BY DEF RunsInv, ActiveRowHasOwner, ClosesDone
<1>10. WorktreeHasOwner'
    BY DEF RunsInv, WorktreeHasOwner, ClosesDone
<1> QED BY <1>1, <1>2, <1>3, <1>4, <1>5, <1>6, <1>7, <1>8, <1>9, <1>10 DEF RunsInv

\* HandleCancel keeps the invariant.
LEMMA HandleCancelKeeps ==
    ASSUME RunsInv, NEW r \in Runs, HandleCancel(r)
    PROVE  RunsInv'
<1>1. (Numbered /\ Locked /\ SettingUp /\ Tracking /\ ActiveRowHasOwner /\ WorktreeHasOwner)'
    BY DEF RunsInv, Numbered, Locked, SettingUp, Tracking, ActiveRowHasOwner, WorktreeHasOwner,
      HandleCancel, Cancelled
<1>2. RunsTypeOK'
    BY DEF RunsInv, RunsTypeOK, HandleCancel, Cancelled
<1>3. Phases'
    BY DEF RunsInv, Phases, HandleCancel, Cancelled
<1>4. Superseding'
    BY DEF RunsInv, Superseding, HandleCancel, Cancelled
<1>5. OnlyAbandonedOverlap'
    BY DEF RunsInv, OnlyAbandonedOverlap, HandleCancel, Cancelled
<1> QED BY <1>1, <1>2, <1>3, <1>4, <1>5 DEF RunsInv

\* ShutdownFlags keeps the invariant.
LEMMA ShutdownFlagsKeeps ==
    ASSUME RunsInv, ShutdownFlags
    PROVE  RunsInv'
<1>1. (Numbered /\ Locked /\ SettingUp /\ Tracking /\ Superseding /\ OnlyAbandonedOverlap /\
      ActiveRowHasOwner /\ WorktreeHasOwner)'
    BY DEF RunsInv, Numbered, Locked, SettingUp, Tracking, Superseding, OnlyAbandonedOverlap,
      ActiveRowHasOwner, WorktreeHasOwner, ShutdownFlags
<1>2. RunsTypeOK'
    BY DEF RunsInv, RunsTypeOK, ShutdownFlags
<1>3. Phases'
    BY DEF RunsInv, Phases, ShutdownFlags
<1> QED BY <1>1, <1>2, <1>3 DEF RunsInv

\* ShutdownCancels keeps the invariant.
LEMMA ShutdownCancelsKeeps ==
    ASSUME RunsInv, ShutdownCancels
    PROVE  RunsInv'
<1>1. (Numbered /\ Locked /\ SettingUp /\ Tracking /\ ActiveRowHasOwner /\ WorktreeHasOwner)'
    BY DEF RunsInv, Numbered, Locked, SettingUp, Tracking, ActiveRowHasOwner, WorktreeHasOwner,
      ShutdownCancels, Cancelled
<1>2. RunsTypeOK'
    BY DEF RunsInv, RunsTypeOK, ShutdownCancels, Cancelled
<1>3. Phases'
    BY DEF RunsInv, Phases, ShutdownCancels, Cancelled
<1>4. Superseding'
    BY DEF RunsInv, Superseding, ShutdownCancels, Cancelled
<1>5. OnlyAbandonedOverlap'
    BY DEF RunsInv, OnlyAbandonedOverlap, ShutdownCancels, Cancelled
<1> QED BY <1>1, <1>2, <1>3, <1>4, <1>5 DEF RunsInv

\* ShutdownWaits keeps the invariant.
LEMMA ShutdownWaitsKeeps ==
    ASSUME RunsInv, ShutdownWaits
    PROVE  RunsInv'
<1>1. (Numbered /\ Locked /\ SettingUp /\ Tracking /\ Superseding /\ OnlyAbandonedOverlap /\
      ActiveRowHasOwner /\ WorktreeHasOwner)'
    BY DEF RunsInv, Numbered, Locked, SettingUp, Tracking, Superseding, OnlyAbandonedOverlap,
      ActiveRowHasOwner, WorktreeHasOwner, ShutdownWaits
<1>2. RunsTypeOK'
    BY DEF RunsInv, RunsTypeOK, ShutdownWaits
<1>3. Phases'
    BY DEF RunsInv, Phases, ShutdownWaits
<1> QED BY <1>1, <1>2, <1>3 DEF RunsInv

\* Exit keeps the invariant.
LEMMA ExitKeeps ==
    ASSUME RunsInv, Exit
    PROVE  RunsInv'
<1>1. RunsTypeOK'
  <2>1. (daemon \in {"down", "recovering", "cleaning", "resuming", "serving"})'
        BY DEF RunsInv, RunsTypeOK, Exit, ProcessDies
  <2>2. (plans \subseteq Runs)'
        BY DEF RunsInv, RunsTypeOK, Exit, ProcessDies
  <2>3. (shuttingDown \in BOOLEAN)'
        BY DEF RunsInv, RunsTypeOK, Exit, ProcessDies
  <2>4. (stop \in {"none", "flagged", "waiting", "over"})'
        BY DEF RunsInv, RunsTypeOK, Exit, ProcessDies
  <2>5. (tracked \subseteq Runs)'
        BY DEF RunsInv, RunsTypeOK, Exit, ProcessDies
  <2>6. (cause \in [Runs -> CancelCauses \cup {"none"}])'
        BY DEF RunsInv, RunsTypeOK, Exit, ProcessDies
  <2>7. (gor \in [Runs -> {"none", "executing", "returned", "untracked", "gone"}])'
        BY DEF RunsInv, RunsTypeOK, Exit, ProcessDies
  <2>8. (locks \in [Branches -> Callers \cup {None}])'
        BY DEF RunsInv, RunsTypeOK, Exit, ProcessDies
  <2>9. (cpc \in [Callers -> {"idle", "admitted", "locked", "waiting", "clear", "inserted", "added", "guarded"}])'
        BY DEF RunsInv, RunsTypeOK, Exit, ProcessDies
  <2>10. (target \in [Callers -> Branches \cup {None}])'
        BY DEF RunsInv, RunsTypeOK, Exit, ProcessDies
  <2>11. (mine \in [Callers -> Runs \cup {None}])'
        BY DEF RunsInv, RunsTypeOK, Exit, ProcessDies
  <2>12. (waits \in [Callers -> SUBSET Runs])'
        BY DEF RunsInv, RunsTypeOK, Exit, ProcessDies
    <2> QED BY <2>1, <2>2, <2>3, <2>4, <2>5, <2>6, <2>7, <2>8, <2>9, <2>10, <2>11, <2>12 DEF
        RunsInv, RunsTypeOK, Exit, ProcessDies
<1>2. Phases'
    BY DEF RunsInv, Phases, Exit, ProcessDies
<1>3. Numbered'
    BY DEF RunsInv, Numbered, Exit, ProcessDies
<1>4. Locked'
    BY DEF RunsInv, Locked, Exit, ProcessDies
<1>5. SettingUp'
    BY DEF RunsInv, SettingUp, Exit, ProcessDies
<1>6. Tracking'
    BY DEF RunsInv, Tracking, Exit, ProcessDies
<1>7. Superseding'
    BY DEF RunsInv, Superseding, Exit, ProcessDies
<1>8. OnlyAbandonedOverlap'
    BY DEF RunsInv, OnlyAbandonedOverlap, Exit, ProcessDies
<1>9. ActiveRowHasOwner'
    BY DEF RunsInv, ActiveRowHasOwner, Exit, ProcessDies
<1>10. WorktreeHasOwner'
    BY DEF RunsInv, WorktreeHasOwner, Exit, ProcessDies
<1> QED BY <1>1, <1>2, <1>3, <1>4, <1>5, <1>6, <1>7, <1>8, <1>9, <1>10 DEF RunsInv

\* Crash keeps the invariant.
LEMMA CrashKeeps ==
    ASSUME RunsInv, Crash
    PROVE  RunsInv'
<1>1. RunsTypeOK'
  <2>1. (daemon \in {"down", "recovering", "cleaning", "resuming", "serving"})'
        BY DEF RunsInv, RunsTypeOK, Crash, ProcessDies
  <2>2. (plans \subseteq Runs)'
        BY DEF RunsInv, RunsTypeOK, Crash, ProcessDies
  <2>3. (shuttingDown \in BOOLEAN)'
        BY DEF RunsInv, RunsTypeOK, Crash, ProcessDies
  <2>4. (stop \in {"none", "flagged", "waiting", "over"})'
        BY DEF RunsInv, RunsTypeOK, Crash, ProcessDies
  <2>5. (tracked \subseteq Runs)'
        BY DEF RunsInv, RunsTypeOK, Crash, ProcessDies
  <2>6. (cause \in [Runs -> CancelCauses \cup {"none"}])'
        BY DEF RunsInv, RunsTypeOK, Crash, ProcessDies
  <2>7. (gor \in [Runs -> {"none", "executing", "returned", "untracked", "gone"}])'
        BY DEF RunsInv, RunsTypeOK, Crash, ProcessDies
  <2>8. (locks \in [Branches -> Callers \cup {None}])'
        BY DEF RunsInv, RunsTypeOK, Crash, ProcessDies
  <2>9. (cpc \in [Callers -> {"idle", "admitted", "locked", "waiting", "clear", "inserted", "added", "guarded"}])'
        BY DEF RunsInv, RunsTypeOK, Crash, ProcessDies
  <2>10. (target \in [Callers -> Branches \cup {None}])'
        BY DEF RunsInv, RunsTypeOK, Crash, ProcessDies
  <2>11. (mine \in [Callers -> Runs \cup {None}])'
        BY DEF RunsInv, RunsTypeOK, Crash, ProcessDies
  <2>12. (waits \in [Callers -> SUBSET Runs])'
        BY DEF RunsInv, RunsTypeOK, Crash, ProcessDies
    <2> QED BY <2>1, <2>2, <2>3, <2>4, <2>5, <2>6, <2>7, <2>8, <2>9, <2>10, <2>11, <2>12 DEF
        RunsInv, RunsTypeOK, Crash, ProcessDies
<1>2. Phases'
    BY DEF RunsInv, Phases, Crash, ProcessDies
<1>3. Numbered'
    BY DEF RunsInv, Numbered, Crash, ProcessDies
<1>4. Locked'
    BY DEF RunsInv, Locked, Crash, ProcessDies
<1>5. SettingUp'
    BY DEF RunsInv, SettingUp, Crash, ProcessDies
<1>6. Tracking'
    BY DEF RunsInv, Tracking, Crash, ProcessDies
<1>7. Superseding'
    BY DEF RunsInv, Superseding, Crash, ProcessDies
<1>8. OnlyAbandonedOverlap'
    BY DEF RunsInv, OnlyAbandonedOverlap, Crash, ProcessDies
<1>9. ActiveRowHasOwner'
    BY DEF RunsInv, ActiveRowHasOwner, Crash, ProcessDies
<1>10. WorktreeHasOwner'
    BY DEF RunsInv, WorktreeHasOwner, Crash, ProcessDies
<1> QED BY <1>1, <1>2, <1>3, <1>4, <1>5, <1>6, <1>7, <1>8, <1>9, <1>10 DEF RunsInv

\* Start keeps the invariant.
LEMMA StartKeeps ==
    ASSUME RunsInv, Start
    PROVE  RunsInv'
<1>1. (Numbered /\ Locked /\ SettingUp /\ Tracking /\ Superseding /\ OnlyAbandonedOverlap)'
    BY DEF RunsInv, Numbered, Locked, SettingUp, Tracking, Superseding, OnlyAbandonedOverlap,
      Start, Recoverable
<1>2. RunsTypeOK'
    BY DEF RunsInv, RunsTypeOK, Start, Recoverable
<1>3. Phases'
    BY DEF RunsInv, Phases, Start, Recoverable
<1>4. ActiveRowHasOwner'
    BY DEF RunsInv, ActiveRowHasOwner, Start, Recoverable
<1>5. WorktreeHasOwner'
    BY DEF RunsInv, WorktreeHasOwner, Start, Recoverable
<1> QED BY <1>1, <1>2, <1>3, <1>4, <1>5 DEF RunsInv

\* RecoverStale keeps the invariant.
LEMMA RecoverStaleKeeps ==
    ASSUME RunsInv, RecoverStale
    PROVE  RunsInv'
<1>1. (Locked /\ Superseding /\ OnlyAbandonedOverlap)'
    BY DEF RunsInv, Locked, Superseding, OnlyAbandonedOverlap, RecoverStale
<1>2. RunsTypeOK'
    BY DEF RunsInv, RunsTypeOK, RecoverStale
<1>3. Phases'
    BY DEF RunsInv, Phases, RunsTypeOK, RecoverStale
<1>4. Numbered'
    BY DEF RunsInv, Numbered, RunsTypeOK, RecoverStale
<1>5. SettingUp'
    BY DEF RunsInv, SettingUp, RunsTypeOK, Phases, Locked, RecoverStale
<1>6. Tracking'
    BY DEF RunsInv, Tracking, RunsTypeOK, Phases, RecoverStale
<1>7. ActiveRowHasOwner'
    BY DEF RunsInv, ActiveRowHasOwner, RecoverStale
<1>8. WorktreeHasOwner'
    BY DEF RunsInv, WorktreeHasOwner, RecoverStale
<1> QED BY <1>1, <1>2, <1>3, <1>4, <1>5, <1>6, <1>7, <1>8 DEF RunsInv

\* CleanupOrphanWorktrees keeps the invariant.
LEMMA CleanupOrphanWorktreesKeeps ==
    ASSUME RunsInv, CleanupOrphanWorktrees
    PROVE  RunsInv'
<1>1. (Locked /\ Superseding /\ OnlyAbandonedOverlap)'
    BY DEF RunsInv, Locked, Superseding, OnlyAbandonedOverlap, CleanupOrphanWorktrees
<1>2. RunsTypeOK'
    BY DEF RunsInv, RunsTypeOK, CleanupOrphanWorktrees
<1>3. Phases'
    BY DEF RunsInv, Phases, RunsTypeOK, CleanupOrphanWorktrees
<1>4. Numbered'
    BY DEF RunsInv, Numbered, RunsTypeOK, CleanupOrphanWorktrees
<1>5. SettingUp'
    BY DEF RunsInv, SettingUp, RunsTypeOK, CleanupOrphanWorktrees
<1>6. Tracking'
    BY DEF RunsInv, Tracking, RunsTypeOK, CleanupOrphanWorktrees
<1>7. ActiveRowHasOwner'
    BY DEF RunsInv, ActiveRowHasOwner, CleanupOrphanWorktrees
<1>8. WorktreeHasOwner'
    BY DEF RunsInv, WorktreeHasOwner, CleanupOrphanWorktrees
<1> QED BY <1>1, <1>2, <1>3, <1>4, <1>5, <1>6, <1>7, <1>8 DEF RunsInv

\* ResumeRecovered keeps the invariant.
LEMMA ResumeRecoveredKeeps ==
    ASSUME RunsInv, ResumeRecovered
    PROVE  RunsInv'
<1>1. Locked'
    BY DEF RunsInv, Locked, ResumeRecovered
<1>2. RunsTypeOK'
    BY DEF RunsInv, RunsTypeOK, ResumeRecovered
<1>3. Phases'
    BY DEF RunsInv, Phases, ResumeRecovered
<1>4. Numbered'
    BY DEF RunsInv, Numbered, RunsTypeOK, Phases, ResumeRecovered
<1>5. SettingUp'
    BY DEF RunsInv, SettingUp, RunsTypeOK, Phases, ResumeRecovered
<1>6. Tracking'
    BY DEF RunsInv, Tracking, RunsTypeOK, Phases, ResumeRecovered
<1>7. Superseding'
    BY DEF RunsInv, Superseding, RunsTypeOK, Phases, ResumeRecovered
<1>8. OnlyAbandonedOverlap'
    BY DEF RunsInv, OnlyAbandonedOverlap, RunsTypeOK, Phases, ResumeRecovered
<1>9. ActiveRowHasOwner'
    BY DEF RunsInv, ActiveRowHasOwner, RunsTypeOK, Phases, ResumeRecovered
<1>10. WorktreeHasOwner'
    BY DEF RunsInv, WorktreeHasOwner, RunsTypeOK, Phases, ResumeRecovered
<1> QED BY <1>1, <1>2, <1>3, <1>4, <1>5, <1>6, <1>7, <1>8, <1>9, <1>10 DEF RunsInv

-----------------------------------------------------------------------------

\* The invariant holds before anything has started.
LEMMA RunsInitially == RunsInit => RunsInv
<1> SUFFICES ASSUME RunsInit PROVE RunsInv
  OBVIOUS
<1>1. RunsTypeOK
  <2>1. /\ row \in [Runs -> ActiveRow \cup TerminalRow \cup {"none"}]
        /\ branch \in [Runs -> Branches \cup {None}]
        /\ parked \in [Runs -> BOOLEAN] /\ wt \in [Runs -> BOOLEAN]
    BY DEF RunsInit
  <2>2. /\ cause \in [Runs -> CancelCauses \cup {"none"}]
        /\ gor \in [Runs -> {"none", "executing", "returned", "untracked", "gone"}]
        /\ locks \in [Branches -> Callers \cup {None}]
    BY DEF RunsInit
  <2>3. /\ cpc \in [Callers -> {"idle", "admitted", "locked", "waiting", "clear", "inserted", "added", "guarded"}]
        /\ target \in [Callers -> Branches \cup {None}]
        /\ mine \in [Callers -> Runs \cup {None}]
        /\ waits \in [Callers -> SUBSET Runs]
    BY DEF RunsInit
  <2>4. /\ daemon = "down" /\ starts \in 0..MaxStarts /\ plans = {} /\ shuttingDown = FALSE
        /\ stop = "none" /\ tracked = {} /\ abandoned = {} /\ leaked = {}
    BY DEF RunsInit
  <2> QED BY <2>1, <2>2, <2>3, <2>4 DEF RunsTypeOK
<1>2. Phases /\ Numbered /\ Locked /\ SettingUp
  BY DEF RunsInit, Phases, Numbered, Locked, SettingUp
<1>3. Tracking /\ Superseding /\ OnlyAbandonedOverlap /\ ActiveRowHasOwner /\ WorktreeHasOwner
  BY DEF RunsInit, Tracking, Superseding, OnlyAbandonedOverlap, ActiveRowHasOwner, WorktreeHasOwner
<1> QED BY <1>1, <1>2, <1>3 DEF RunsInv

\* Every step keeps the invariant.
LEMMA RunsStep == RunsInv /\ [RunsNext]_runsVars => RunsInv'
<1> SUFFICES ASSUME RunsInv, [RunsNext]_runsVars PROVE RunsInv'
  OBVIOUS
<1>1. ASSUME NEW c \in Callers, NEW b \in Branches, Admit(c, b) PROVE RunsInv'
  BY <1>1, AdmitKeeps
<1>2. ASSUME NEW c \in Callers, Handler(c) PROVE RunsInv'
  BY <1>2, TakeLockKeeps, CancelActiveKeeps, WaitDoneKeeps, WaitTimeoutKeeps, InsertRunKeeps,
      AddWorktreeKeeps, GuardKeeps, SetupFailsKeeps, LaunchKeeps DEF Handler
<1>3. ASSUME NEW r \in Runs, Goroutine(r) \/ HandleCancel(r) PROVE RunsInv'
  BY <1>3, ExecutorBeginsKeeps, ExecutorParksKeeps, ExecutorReturnsKeeps, CleansUpKeeps,
      ClosesDoneKeeps, HandleCancelKeeps DEF Goroutine
<1>4. ASSUME Lifecycle PROVE RunsInv'
  BY <1>4, ShutdownFlagsKeeps, ShutdownCancelsKeeps, ShutdownWaitsKeeps, ExitKeeps, CrashKeeps,
      StartKeeps, RecoverStaleKeeps, CleanupOrphanWorktreesKeeps, ResumeRecoveredKeeps DEF Lifecycle
<1>5. ASSUME UNCHANGED runsVars PROVE RunsInv'
  BY <1>5 DEF RunsInv, RunsTypeOK, Phases, Numbered, Locked, SettingUp, Tracking, Superseding,
      OnlyAbandonedOverlap, ActiveRowHasOwner, WorktreeHasOwner
<1> QED BY <1>1, <1>2, <1>3, <1>4, <1>5 DEF RunsNext

\* What the other theorems rest on: the inductive invariant holds in every state of the manager.
THEOREM RunsInvHolds == RunsSpec => []RunsInv
<1> QED BY RunsInitially, RunsStep, PTL DEF RunsSpec

\* For any number of handlers, branches and runs: an active row and a worktree have somebody
\* who will settle them while a daemon serves, and a run executes in its worktree
\* (startRunWithIntentSource, recoverOnStartup, cleanupOrphanWorktrees).
THEOREM RunsAreOwned == RunsSpec => []RunsOwned
<1>1. RunsInv => RunsOwned
  BY DEF RunsInv, RunsOwned, Tracking, ExecutesInItsWorktree
<1> QED BY <1>1, RunsInvHolds, PTL

\* For any number of handlers, branches and runs: two executors share a branch only after a
\* handler gave up waiting for the older one (cancelActiveRuns).
THEOREM OverlapIsAbandoned == RunsSpec => []OnlyAbandonedOverlap
<1>1. RunsInv => OnlyAbandonedOverlap
  BY DEF RunsInv
<1> QED BY <1>1, RunsInvHolds, PTL

-----------------------------------------------------------------------------
(* The pools, for any number of workers and any configuration.  Typing     *)
(* needs the accounting (active never goes below zero because a releasing  *)
(* worker is one of the holders counted), and the accounting needs typing, *)
(* so the three invariants are proved together.                            *)

\* Only a pooled duty ever waits.
WaitersArePooled == \A w \in Workers : pc[w] = "waiting" => pool[w] \in Pools

IInv == TypeOK /\ SlotsMatchHolders /\ NoLostWakeup /\ WaitersArePooled

\* Holders are workers, so there are finitely many of them.
LEMMA HoldersFinite == \A p \in Pools : IsFiniteSet(Holders(p))
  BY WorkersAssumption, FS_Subset DEF Holders

\* A step that leaves every worker's holding alone leaves the accounting alone.
LEMMA SameHolders ==
  ASSUME SlotsMatchHolders, active' = active,
         \A p \in Pools : Holders(p)' = Holders(p)
  PROVE  SlotsMatchHolders'
  BY DEF SlotsMatchHolders

LEMMA InitIInv == Init => IInv
  <1> SUFFICES ASSUME Init PROVE IInv
    OBVIOUS
  <1>1. TypeOK
    BY DefaultAssumption DEF Init, TypeOK, Places
  <1>2. SlotsMatchHolders
    <2>1. \A p \in Pools : Holders(p) = {}
      BY DEF Init, Holders
    <2>2. QED
      BY <2>1, FS_EmptySet DEF Init, SlotsMatchHolders
  <1>3. NoLostWakeup /\ WaitersArePooled
    BY DEF Init, NoLostWakeup, WaitersArePooled
  <1>4. QED
    BY <1>1, <1>2, <1>3 DEF IInv

\* Taking a slot adds the worker to the holders of its pool and to no other.
LEMMA AcquireSlotIInv ==
  ASSUME IInv, NEW w \in Workers, AcquireSlot(w)
  PROVE  IInv'
  <1> USE DEF IInv
  <1>0. PICK q \in Pools : q = pool[w]
    BY DEF AcquireSlot, TypeOK
  <1>1. q \in Pools /\ q = pool[w] /\ w \notin Holders(q)
    BY <1>0 DEF AcquireSlot, TypeOK, Holders
  <1>2. TypeOK'
    BY <1>1 DEF AcquireSlot, TypeOK, Places
  <1>3. SlotsMatchHolders'
    <2>1. Holders(q)' = Holders(q) \cup {w}
      BY <1>1 DEF AcquireSlot, Holders, TypeOK
    <2>2. Cardinality(Holders(q) \cup {w}) = Cardinality(Holders(q)) + 1
      BY <1>1, HoldersFinite, FS_AddElement
    <2>3. \A p \in Pools : p # q => Holders(p)' = Holders(p) /\ active'[p] = active[p]
      BY <1>1 DEF AcquireSlot, Holders, TypeOK
    <2>4. active'[q] = active[q] + 1
      BY <1>1 DEF AcquireSlot, TypeOK
    <2>5. active'[q] = Cardinality(Holders(q)')
      BY <1>1, <2>1, <2>2, <2>4 DEF SlotsMatchHolders
    <2>6. QED
      BY <2>3, <2>5 DEF SlotsMatchHolders
  <1>4. NoLostWakeup'
    BY <1>1 DEF AcquireSlot, NoLostWakeup, TypeOK, WaitersArePooled
  <1>5. WaitersArePooled'
    BY DEF AcquireSlot, WaitersArePooled, TypeOK
  <1>6. QED
    BY <1>2, <1>3, <1>4, <1>5

\* Giving a slot back removes the worker from the holders and wakes everyone.
LEMMA ReleaseIInv ==
  ASSUME IInv, NEW w \in Workers, Release(w)
  PROVE  IInv'
  <1> USE DEF IInv
  <1>1. CASE pool[w] = NoPool
    <2>1. \A p \in Pools : Holders(p)' = Holders(p)
      BY <1>1 DEF Release, Holders, TypeOK, Pools, NoPool
    <2>2. TypeOK' /\ NoLostWakeup' /\ WaitersArePooled'
      BY <1>1 DEF Release, TypeOK, NoLostWakeup, WaitersArePooled, Places
    <2>3. QED
      BY <1>1, <2>1, <2>2, SameHolders DEF Release
  <1>2. CASE pool[w] # NoPool
    <2>0. PICK q \in Pools : q = pool[w]
      BY <1>2 DEF Release, TypeOK
    <2>1. q \in Pools /\ q = pool[w] /\ w \in Holders(q)
      BY <1>2, <2>0 DEF Release, TypeOK, Holders
    <2>2. Holders(q)' = Holders(q) \ {w}
      BY <1>2, <2>1 DEF Release, Holders, TypeOK, Pools, NoPool
    <2>3. /\ Cardinality(Holders(q) \ {w}) = Cardinality(Holders(q)) - 1
          /\ Cardinality(Holders(q)) \in Nat
          /\ Cardinality(Holders(q) \ {w}) \in Nat
      BY <2>1, HoldersFinite, FS_RemoveElement, FS_CardinalityType, FS_Subset
    <2>4. /\ active' = [active EXCEPT ![q] = @ - 1]
          /\ active'[q] = active[q] - 1
          /\ \A p \in Pools : p # q => active'[p] = active[p]
      BY <1>2, <2>1 DEF Release, TypeOK
    <2>5. active'[q] = Cardinality(Holders(q)')
      BY <2>1, <2>2, <2>3, <2>4 DEF SlotsMatchHolders
    <2>6. \A p \in Pools : p # q => Holders(p)' = Holders(p)
      BY <1>2, <2>1 DEF Release, Holders, TypeOK, Pools, NoPool
    <2>7. SlotsMatchHolders'
      BY <2>4, <2>5, <2>6 DEF SlotsMatchHolders
    <2>8. active' \in [Pools -> Nat]
      <3>1. active'[q] \in Nat
        BY <2>2, <2>3, <2>5
      <3>2. QED
        BY <3>1, <2>1, <2>4 DEF TypeOK
    <2>9. TypeOK'
      BY <1>2, <2>8 DEF Release, TypeOK, Notify, Places
    <2>10. NoLostWakeup' /\ WaitersArePooled'
      BY <1>2 DEF Release, Notify, NoLostWakeup, WaitersArePooled, TypeOK
    <2>11. QED
      BY <2>7, <2>9, <2>10
  <1>3. QED
    BY <1>1, <1>2

\* Changing the limits wakes everyone, so nobody sleeps through a raise.
LEMMA ConfigureIInv ==
  ASSUME IInv, NEW new \in [Pools -> ConfigLimits], Configure(new)
  PROVE  IInv'
  <1> USE DEF IInv
  <1>1. \A p \in Pools : Effective(p, new[p]) \in Nat \ {0}
    <2> SUFFICES ASSUME NEW p \in Pools PROVE Effective(p, new[p]) \in Nat \ {0}
      OBVIOUS
    <2>1. new[p] \in Int /\ DefaultLimits[p] \in Nat \ {0}
      BY ConfigAssumption, DefaultAssumption
    <2>2. QED
      BY <2>1 DEF Effective
  <1>2. TypeOK'
    BY <1>1 DEF Configure, Notify, TypeOK
  <1>3. SlotsMatchHolders'
    BY SameHolders DEF Configure, Holders
  <1>4. NoLostWakeup' /\ WaitersArePooled'
    BY DEF Configure, Notify, NoLostWakeup, WaitersArePooled, TypeOK
  <1>5. QED
    BY <1>2, <1>3, <1>4

\* The other steps move one worker between places where it holds no slot.
LEMMA OtherStepsIInv ==
  ASSUME IInv, NEW w \in Workers,
         \/ StartRun(w) \/ EndRun(w) \/ Cancel(w)
         \/ \E step \in Steps, l \in BOOLEAN : BeginStep(w, step, l)
         \/ AcquireCancelled(w) \/ AcquireUnpooled(w) \/ Wait(w) \/ Wake(w)
  PROVE  IInv'
  <1> USE DEF IInv
  <1>1. CASE StartRun(w) \/ EndRun(w) \/ Cancel(w)
    <2>1. \A p \in Pools : Holders(p)' = Holders(p)
      BY <1>1 DEF StartRun, EndRun, Cancel, Holders, TypeOK
    <2>2. TypeOK' /\ NoLostWakeup' /\ WaitersArePooled'
      BY <1>1 DEF StartRun, EndRun, Cancel, TypeOK, Places, NoLostWakeup, WaitersArePooled
    <2>3. QED
      BY <1>1, <2>1, <2>2, SameHolders DEF StartRun, EndRun, Cancel
  <1>2. ASSUME NEW step \in Steps, NEW l \in BOOLEAN, BeginStep(w, step, l)
        PROVE  IInv'
    <2>1. PoolOf(Duty(step, l)) \in Pools \cup {NoPool}
      BY DEF PoolOf, Duty, Pools
    <2>2. \A p \in Pools : Holders(p)' = Holders(p)
      BY <1>2 DEF BeginStep, Holders, TypeOK
    <2>3. TypeOK' /\ NoLostWakeup' /\ WaitersArePooled'
      BY <1>2, <2>1 DEF BeginStep, TypeOK, Places, NoLostWakeup, WaitersArePooled
    <2>4. QED
      BY <1>2, <2>2, <2>3, SameHolders DEF BeginStep
  <1>3. CASE AcquireCancelled(w) \/ AcquireUnpooled(w)
    <2>1. \A p \in Pools : Holders(p)' = Holders(p)
      BY <1>3 DEF AcquireCancelled, AcquireUnpooled, Holders, TypeOK, Pools, NoPool
    <2>2. TypeOK' /\ NoLostWakeup' /\ WaitersArePooled'
      BY <1>3 DEF AcquireCancelled, AcquireUnpooled, TypeOK, Places, NoLostWakeup, WaitersArePooled
    <2>3. QED
      BY <1>3, <2>1, <2>2, SameHolders DEF AcquireCancelled, AcquireUnpooled
  <1>4. CASE Wait(w) \/ Wake(w)
    <2>1. \A p \in Pools : Holders(p)' = Holders(p)
      BY <1>4 DEF Wait, Wake, Holders, TypeOK
    <2>2. TypeOK' /\ WaitersArePooled'
      BY <1>4 DEF Wait, Wake, TypeOK, Places, WaitersArePooled
    <2>3. NoLostWakeup'
      BY <1>4 DEF Wait, Wake, TypeOK, NoLostWakeup
    <2>4. QED
      BY <1>4, <2>1, <2>2, <2>3, SameHolders DEF Wait, Wake
  <1>5. QED
    BY <1>1, <1>2, <1>3, <1>4

LEMMA NextIInv == IInv /\ [Next]_vars => IInv'
  <1> SUFFICES ASSUME IInv, [Next]_vars PROVE IInv'
    OBVIOUS
  <1>1. ASSUME NEW new \in [Pools -> ConfigLimits], Configure(new) PROVE IInv'
    BY <1>1, ConfigureIInv
  <1>2. ASSUME NEW w \in Workers, AcquireSlot(w) PROVE IInv'
    BY <1>2, AcquireSlotIInv
  <1>3. ASSUME NEW w \in Workers, Release(w) PROVE IInv'
    BY <1>3, ReleaseIInv
  <1>4. CASE UNCHANGED vars
    BY <1>4 DEF IInv, vars, TypeOK, SlotsMatchHolders, Holders, NoLostWakeup, WaitersArePooled
  <1>5. QED
    BY <1>1, <1>2, <1>3, <1>4, OtherStepsIInv DEF Next

\* The pools' counters always equal the number of executing holders and nobody
\* sleeps through a free slot, for every set of workers and every sequence of
\* reconfigurations.
THEOREM CapacitySafe == Spec => []SlotsSafe
  <1>1. IInv => SlotsSafe
    BY DEF IInv, SlotsSafe
  <1>2. QED
    BY <1>1, InitIInv, NextIInv, PTL DEF Spec

\* Above a lowered limit the holders of a pool only become fewer.
THEOREM CapacityDrains == Spec => LoweredLimitDrains
  <1> DEFINE Drain == \A p \in Pools :
                Cardinality(Holders(p)') > Cardinality(Holders(p))
                   => Cardinality(Holders(p)') <= limits[p]
  <1>1. IInv /\ IInv' /\ [Next]_vars => [Drain]_vars
    <2> SUFFICES ASSUME IInv, IInv', Next, NEW p \in Pools,
                        Cardinality(Holders(p)') > Cardinality(Holders(p))
                 PROVE  Cardinality(Holders(p)') <= limits[p]
      OBVIOUS
    <2>1. active[p] = Cardinality(Holders(p)) /\ active'[p] = Cardinality(Holders(p)')
      BY DEF IInv, SlotsMatchHolders
    <2>2. active \in [Pools -> Nat] /\ limits \in [Pools -> Nat \ {0}]
      BY DEF IInv, TypeOK
    <2>3. active'[p] > active[p]
      BY <2>1
    <2>4. \E w \in Workers : AcquireSlot(w)
      BY <2>2, <2>3 DEF Next, Configure, StartRun, EndRun, Cancel, BeginStep,
           AcquireCancelled, AcquireUnpooled, Wait, Wake, Release
    <2>5. active'[p] <= limits[p]
      BY <2>2, <2>3, <2>4 DEF AcquireSlot
    <2>6. QED
      BY <2>1, <2>5
  <1>2. QED
    BY <1>1, InitIInv, NextIInv, PTL DEF Spec, LoweredLimitDrains

-----------------------------------------------------------------------------
(* The pools admit as the abstract Pool does.                              *)

\* Who holds a slot, as the abstract pool sees it.
Held == [p \in Pools |-> Holders(p)]

\* The abstract pool counts its holders as the accounting does.
LEMMA SameSize == \A S : Admission!Cardinality(S) = Cardinality(S)
  BY DEF Admission!Cardinality, Cardinality

\* A slot taken is an admission: there was room, and the worker held none.
LEMMA SlotIsAdmission ==
  ASSUME IInv, NEW w \in Workers, AcquireSlot(w)
  PROVE  \E p \in Pools : Admission!Admit(w, p)
  <1>0. PICK q \in Pools : q = pool[w]
    BY DEF AcquireSlot, IInv, TypeOK
  <1>1. q \in Pools /\ q = pool[w]
    BY <1>0
  <1>2. \A p \in Pools : w \notin Holders(p)
    BY DEF AcquireSlot, Holders
  <1>3. Cardinality(Holders(q)) < limits[q]
    BY <1>1 DEF AcquireSlot, IInv, SlotsMatchHolders
  <1>4. Held' = [Held EXCEPT ![q] = @ \cup {w}]
    <2>1. Holders(q)' = Holders(q) \cup {w}
      BY <1>1 DEF AcquireSlot, Holders, IInv, TypeOK
    <2>2. \A p \in Pools : p # q => Holders(p)' = Holders(p)
      BY <1>1 DEF AcquireSlot, Holders, IInv, TypeOK
    <2>3. QED
      BY <1>1, <2>1, <2>2 DEF Held
  <1>5. limits' = limits
    BY DEF AcquireSlot
  <1>6. Held[q] = Holders(q)
    BY <1>1 DEF Held
  <1>7. Cardinality(Held[q]) < limits[q]
    BY <1>3, <1>6
  <1>8. \A p \in Pools : w \notin Held[p]
    BY <1>2 DEF Held
  <1>9. Admission!Admit(w, q)
    BY <1>4, <1>5, <1>7, <1>8, SameSize DEF Held, Admission!Admit, Admission!Idle
  <1>10. QED
    BY <1>9

\* A release gives back the slot the worker held, if its duty was pooled.
LEMMA ReleaseGivesBack ==
  ASSUME IInv, NEW w \in Workers, Release(w)
  PROVE  (\E p \in Pools : Admission!GiveBack(w, p)) \/ UNCHANGED <<limits, Held>>
  <1>1. limits' = limits
    BY DEF Release
  <1>2. CASE pool[w] = NoPool
    <2>1. \A p \in Pools : Holders(p)' = Holders(p)
      BY <1>2 DEF Release, Holders, Pools, NoPool, IInv, TypeOK
    <2>2. QED
      BY <1>1, <2>1 DEF Held
  <1>3. CASE pool[w] # NoPool
    <2>0. PICK q \in Pools : q = pool[w]
      BY <1>3 DEF IInv, TypeOK
    <2>1. q \in Pools /\ q = pool[w] /\ w \in Holders(q)
      BY <2>0 DEF Release, Holders
    <2>2. Holders(q)' = Holders(q) \ {w}
      BY <2>1 DEF Release, Holders, IInv, TypeOK, Pools, NoPool
    <2>3. \A p \in Pools : p # q => Holders(p)' = Holders(p)
      BY <2>1 DEF Release, Holders, IInv, TypeOK, Pools, NoPool
    <2>4. Held' = [Held EXCEPT ![q] = @ \ {w}] /\ w \in Held[q]
      BY <2>1, <2>2, <2>3 DEF Held
    <2>5. QED
      BY <1>1, <2>1, <2>4 DEF Held, Admission!GiveBack
  <1>4. QED
    BY <1>2, <1>3

\* No other step moves a worker in or out of its execution with a pool.
LEMMA OtherStepsHoldStill ==
  ASSUME IInv, NEW w \in Workers, NEW step \in Steps, NEW lintCommand \in BOOLEAN,
         \/ StartRun(w) \/ EndRun(w) \/ Cancel(w) \/ BeginStep(w, step, lintCommand)
         \/ AcquireCancelled(w) \/ AcquireUnpooled(w) \/ Wait(w) \/ Wake(w)
  PROVE  UNCHANGED <<limits, Held>>
  <1>1. \A p \in Pools : Holders(p)' = Holders(p)
    BY DEF StartRun, EndRun, Cancel, BeginStep, AcquireCancelled, AcquireUnpooled, Wait, Wake,
         Holders, Pools, NoPool, IInv, TypeOK
  <1>2. limits' = limits
    BY DEF StartRun, EndRun, Cancel, BeginStep, AcquireCancelled, AcquireUnpooled, Wait, Wake
  <1>3. QED
    BY <1>1, <1>2 DEF Held

\* Every step of the workers and the operator is one of the pool's, or nothing to it.
LEMMA StepAdmitsAsPool == IInv /\ IInv' /\ [Next]_vars => [Admission!PoolNext]_(Admission!poolVars)
  <1> SUFFICES ASSUME IInv, IInv', [Next]_vars
               PROVE  Admission!PoolNext \/ UNCHANGED <<limits, Held>>
    BY DEF Admission!poolVars, Held
  <1>1. ASSUME NEW new \in [Pools -> ConfigLimits], Configure(new) PROVE Admission!PoolNext
    <2>1. limits' \in [Pools -> Nat \ {0}]
      BY DEF IInv, TypeOK
    <2>2. \A p \in Pools : Holders(p)' = Holders(p)
      BY <1>1 DEF Configure, Holders
    <2>3. QED
      BY <2>1, <2>2 DEF Admission!PoolNext, Admission!Resize
  <1>2. ASSUME NEW w \in Workers, AcquireSlot(w) PROVE Admission!PoolNext
    BY <1>2, SlotIsAdmission DEF Admission!PoolNext
  <1>3. ASSUME NEW w \in Workers, Release(w) PROVE Admission!PoolNext \/ UNCHANGED <<limits, Held>>
    BY <1>3, ReleaseGivesBack DEF Admission!PoolNext
  <1>4. CASE UNCHANGED vars
    BY <1>4 DEF vars, Held, Holders
  <1>5. ASSUME NEW w \in Workers, NEW step \in Steps, NEW lintCommand \in BOOLEAN,
               BeginStep(w, step, lintCommand)
        PROVE  UNCHANGED <<limits, Held>>
    BY <1>5, OtherStepsHoldStill
  <1>6. ASSUME NEW w \in Workers,
               \/ StartRun(w) \/ EndRun(w) \/ Cancel(w)
               \/ AcquireCancelled(w) \/ AcquireUnpooled(w) \/ Wait(w) \/ Wake(w)
        PROVE  UNCHANGED <<limits, Held>>
    <2>1. "review" \in Steps /\ TRUE \in BOOLEAN
      BY DEF Steps
    <2>2. QED
      BY <1>6, <2>1, OtherStepsHoldStill
  <1>7. QED
    BY <1>1, <1>2, <1>3, <1>4, <1>5, <1>6 DEF Next

\* The counters under the lock and the channel that is closed implement a pool
\* of slots with a limit: for any workers, limits and reconfigurations, every
\* step is one of the abstract pool's or one it does not see.
THEOREM CapacityIsAPool == Spec => AdmitsAsPool
  <1>1. Init => Admission!PoolInit
    <2> SUFFICES ASSUME Init PROVE Admission!PoolInit
      OBVIOUS
    <2>1. \A p \in Pools : Holders(p) = {}
      BY DEF Init, Holders
    <2>2. QED
      BY <2>1, DefaultAssumption DEF Init, Admission!PoolInit
  <1>2. QED
    BY <1>1, InitIInv, NextIInv, StepAdmitsAsPool, PTL DEF Spec, AdmitsAsPool, Admission!PoolSpec
=============================================================================

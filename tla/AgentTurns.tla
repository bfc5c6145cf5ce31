----------------------------- MODULE AgentTurns -----------------------------
(* The turns of a run's fixer: the durable session they resume             *)
(* (pipeline/sessions.go), the child processes of the native adapters and   *)
(* what is made of their event streams (agent/claude.go, codex.go,          *)
(* copilot.go, pi.go, acpx.go), retries and the next lane, and the tokens   *)
(* each session is charged for (pipeline/instrument.go). Quota marks and    *)
(* seats of a lane are in Lanes, managed servers in AgentServers.           *)
EXTENDS Naturals, Sequences

CONSTANTS
    Setups,       \* configurations: the lanes in order, and whether sessions are reused
    MaxTurns,     \* bound: turns of the run
    MaxSessions,  \* bound: sessions ever minted
    MaxHeard,     \* bound: events of an attempt
    MaxSpent,     \* bound: tokens of a session
    TurnRetries   \* retries of one lane (claudeMaxRetries)

Adapters == {"claude", "codex", "copilot", "pi", "acp"}
Resumable == {"claude", "codex"}    \* SupportsSessionResume
NoSession == 0
Sessions == 1..MaxSessions

ASSUME TurnsAssumption ==
    /\ Setups \subseteq [lanes : Seq(Adapters) \ {<<>>}, reuse : BOOLEAN]
    /\ MaxTurns \in Nat /\ MaxSessions \in Nat /\ MaxHeard \in Nat /\ MaxSpent \in Nat /\ TurnRetries \in Nat

VARIABLES
    setup,       \* the configuration of this daemon
    fixerId,     \* the fixer's session in memory
    fixerRow,    \* and in run_agent_sessions
    fixTurn,     \* the turn under way
    heard,       \* what its attempt's events said
    nTurns, nMinted,
    mintedBy,    \* the adapter that minted each session
    spent,       \* tokens a session has used, as its provider counts them
    lastRaw,     \* raw counter of a session's latest invocation row
    billed,      \* sum of the per-round amounts of its rows
    blank,       \* history: sessions with a row that reported no usage
    refused,     \* history: sessions whose resume failed,
    sticky       \* and those whose row could not be deleted then

ledger == <<lastRaw, billed, blank>>
turnsVars == <<setup, fixerId, fixerRow, fixTurn, heard, nTurns, nMinted, mintedBy, spent, ledger, refused, sticky>>

LanesOf(s) == {s.lanes[i] : i \in 1..Len(s.lanes)}
Owned(p) == p \in LanesOf(setup) \cap Resumable      \* SupportsSessionProvider
Unheard == [text |-> "none", verdict |-> "none", sid |-> NoSession, raw |-> 0, n |-> 0]
NoTurn == [pc |-> "idle", session |-> NoSession, had |-> NoSession, again |-> FALSE, durable |-> FALSE,
           cands |-> <<"acp">>, at |-> 1, tries |-> 0, cancelled |-> FALSE, end |-> "none"]

TurnsInit ==
    /\ setup \in Setups /\ fixerId = NoSession /\ fixerRow = NoSession
    /\ fixTurn = NoTurn /\ heard = Unheard /\ nTurns = 0 /\ nMinted = 0
    /\ mintedBy = [s \in Sessions |-> "acp"] /\ spent = [s \in Sessions |-> 0]
    /\ lastRaw = [s \in Sessions |-> 0] /\ billed = [s \in Sessions |-> 0]
    /\ blank = {} /\ refused = {} /\ sticky = {}

Adapter == fixTurn.cands[fixTurn.at]
TurnIs(pc) == fixTurn.pc = pc

-----------------------------------------------------------------------------
(* The turn and its session *)

\* The lanes asked: all of them, or the one that owns the session.
LanesFor(s) == IF s = NoSession THEN setup.lanes ELSE <<mintedBy[s]>>

\* A turn with the fixer's session, where sessions are reused and some lane can.
BeginFix ==
    /\ TurnIs("idle") /\ nTurns < MaxTurns /\ nTurns' = nTurns + 1
    /\ LET durable == setup.reuse /\ LanesOf(setup) \cap Resumable # {}
           s == IF durable THEN fixerId ELSE NoSession
       IN  fixTurn' = [NoTurn EXCEPT !.pc = "lane", !.session = s, !.had = s, !.durable = durable, !.cands = LanesFor(s)]
    /\ UNCHANGED <<setup, fixerId, fixerRow, heard, nMinted, mintedBy, spent, ledger, refused, sticky>>

\* The run is cancelled, or the step runs out of time.
CancelTurn ==
    /\ fixTurn.pc \in {"lane", "run"} /\ ~fixTurn.cancelled
    /\ fixTurn' = [fixTurn EXCEPT !.cancelled = TRUE]
    /\ UNCHANGED <<setup, fixerId, fixerRow, heard, nTurns, nMinted, mintedBy, spent, ledger, refused, sticky>>

\* The row is written, or deleted, or not.
StoreSession(s) == fixerRow' \in {fixerRow, s}

\* The result's session becomes the fixer's. Its row is written when it is
\* another than before.
Remember ==
    IF fixTurn.durable /\ heard.sid \notin {NoSession, fixerId} /\ Owned(Adapter)
      THEN fixerId' = heard.sid /\ StoreSession(heard.sid)
      ELSE UNCHANGED <<fixerId, fixerRow>>

\* Mutant: only the memory forgets.
ForgetInMemory ==
    /\ fixerId' = NoSession /\ UNCHANGED <<fixerRow, sticky>>
    /\ refused' = refused \cup {fixTurn.session}

\* A resume that failed never skips the turn: the session is dropped, and the
\* turn runs again in a fresh one. The row may not be deleted.
Forget ==
    /\ fixerId' = NoSession
    /\ StoreSession(NoSession)
    /\ refused' = refused \cup {fixTurn.session}
    /\ sticky' = IF fixerRow' # NoSession THEN sticky \cup {fixerRow'} ELSE sticky

Fresh(r) == [r EXCEPT !.pc = "lane", !.session = NoSession, !.again = TRUE, !.cands = LanesFor(NoSession),
                      !.at = 1, !.tries = 0]

\* One lane's turn failed: it is tried again where a retry may help, the next
\* lane is asked if this one is unavailable, or the turn has failed.
LaneFails(retry, unavailable) ==
    LET retried == retry /\ ~fixTurn.cancelled /\ fixTurn.tries < TurnRetries
        passedOn == unavailable /\ ~fixTurn.cancelled /\ fixTurn.at < Len(fixTurn.cands)
        again == fixTurn.session # NoSession /\ ~fixTurn.cancelled
    IN  IF retried
          THEN /\ fixTurn' = [fixTurn EXCEPT !.pc = "lane", !.tries = @ + 1]
               /\ UNCHANGED <<fixerId, fixerRow, refused, sticky>>
        ELSE IF passedOn
          THEN /\ fixTurn' = [fixTurn EXCEPT !.pc = "lane", !.tries = 0, !.at = @ + 1]
               /\ UNCHANGED <<fixerId, fixerRow, refused, sticky>>
        ELSE IF again THEN fixTurn' = Fresh(fixTurn) /\ Forget
        ELSE /\ fixTurn' = [fixTurn EXCEPT !.pc = "over", !.end = IF fixTurn.cancelled THEN "cancelled" ELSE "failed"]
             /\ UNCHANGED <<fixerId, fixerRow, refused, sticky>>

\* What a failure's text is taken for: a transient one is retried, and passed
\* on. Nothing said and claude's own error are neither; a missing structured
\* output is retried only.
Failures(how) ==
    {f \in [retry : BOOLEAN, unavailable : BOOLEAN] :
       IF how = "silent" \/ (how = "reported" /\ Adapter = "claude") THEN ~f.retry /\ ~f.unavailable
       ELSE IF how = "unstructured" THEN f.retry /\ ~f.unavailable
       ELSE f.retry => f.unavailable}

-----------------------------------------------------------------------------
(* The row of an attempt *)

\* A cumulative counter is charged from where the session's latest row left it.
PerRoundTokens(raw, prior, cumulative) ==
    IF ~cumulative \/ prior = 0 \/ raw < prior THEN raw ELSE raw - prior

\* The session of the result, or the one asked for.
RowKey(answered) == IF answered /\ heard.sid # NoSession THEN heard.sid ELSE fixTurn.session

\* A failed attempt's row reports nothing. A row may not be written.
RecordAttempt(answered) ==
    LET key == RowKey(answered)
        raw == IF answered THEN heard.raw ELSE 0
    IN  \/ UNCHANGED ledger
        \/ /\ key # NoSession
           /\ lastRaw' = [lastRaw EXCEPT ![key] = raw]
           /\ billed' = [billed EXCEPT ![key] = @ + PerRoundTokens(raw, lastRaw[key], Adapter = "codex")]
           /\ blank' = IF raw = 0 THEN blank \cup {key} ELSE blank

-----------------------------------------------------------------------------
(* An attempt: a child process, its events, its end *)

\* The process starts, or cannot be: a seat is refused, the lane is out, the
\* program is missing.
SpawnAgent ==
    /\ TurnIs("lane")
    /\ \/ /\ fixTurn' = [fixTurn EXCEPT !.pc = "run"]
          /\ heard' = [Unheard EXCEPT !.sid = IF Adapter = "claude" THEN fixTurn.session ELSE NoSession]
          /\ UNCHANGED <<fixerId, fixerRow, ledger, refused, sticky>>
       \/ /\ RecordAttempt(FALSE) /\ \E f \in Failures("exited") : LaneFails(f.retry, f.unavailable)
          /\ heard' = Unheard
    /\ UNCHANGED <<setup, nTurns, nMinted, mintedBy, spent>>

\* The session an event names: the one resumed, or one the provider mints.
Named(r) ==
    IF fixTurn.session # NoSession
      THEN r = fixTurn.session /\ UNCHANGED <<nMinted, mintedBy>>
      ELSE /\ nMinted < MaxSessions /\ r = nMinted + 1
           /\ nMinted' = r /\ mintedBy' = [mintedBy EXCEPT ![r] = Adapter]

Works(s) ==
    IF s = NoSession THEN UNCHANGED spent ELSE spent[s] < MaxSpent /\ spent' = [spent EXCEPT ![s] = @ + 1]
Hear(h) == heard' = [h EXCEPT !.n = @ + 1]
SameNames == UNCHANGED <<nMinted, mintedBy>>
Says == {"answer", "prose"}
Kept(text) == IF heard.text = "answer" THEN "answer" ELSE text

\* codex: the thread's identity, the last message, the counter of the whole
\* thread at the turn's end. An error event only words a later failure.
HearCodex ==
    \/ /\ heard.sid = NoSession
       /\ \E s \in Sessions : Named(s) /\ Hear([heard EXCEPT !.sid = s])
       /\ UNCHANGED spent
    \/ \E m \in Says : Hear([heard EXCEPT !.text = m]) /\ Works(heard.sid) /\ SameNames
    \/ /\ heard.sid # NoSession /\ heard.raw = 0
       /\ Hear([heard EXCEPT !.raw = spent[heard.sid]]) /\ SameNames /\ UNCHANGED spent

\* claude: every event carries the session; each message its own usage; the
\* last result event decides.
HearClaude ==
    \E s \in Sessions :
      /\ IF heard.sid = NoSession THEN Named(s) ELSE s = heard.sid /\ SameNames
      /\ \/ Hear([heard EXCEPT !.sid = s, !.raw = @ + 1]) /\ Works(s)
         \/ \E v \in {"good", "bad", "bare"} : Hear([heard EXCEPT !.sid = s, !.verdict = v]) /\ UNCHANGED spent

\* copilot: any message may hold the answer; the result carries an exit code.
HearCopilot ==
    /\ \/ \E m \in Says : Hear([heard EXCEPT !.text = Kept(m)])
       \/ \E v \in {"good", "bad"} : Hear([heard EXCEPT !.verdict = v])
    /\ SameNames /\ UNCHANGED spent

\* pi: the last assistant message, and whether it stopped for an error.
HearPi ==
    /\ \E m \in Says, v \in {"none", "bad"} : Hear([heard EXCEPT !.text = m, !.verdict = v])
    /\ SameNames /\ UNCHANGED spent

\* acp: chunks of one text.
HearAcp ==
    /\ \E m \in Says : Hear([heard EXCEPT !.text = Kept(m)])
    /\ SameNames /\ UNCHANGED spent

HearEvent ==
    /\ TurnIs("run") /\ heard.n < MaxHeard
    /\ \/ Adapter = "codex" /\ HearCodex
       \/ Adapter = "claude" /\ HearClaude
       \/ Adapter = "copilot" /\ HearCopilot
       \/ Adapter = "pi" /\ HearPi
       \/ Adapter = "acp" /\ HearAcp
    /\ UNCHANGED <<setup, fixerId, fixerRow, fixTurn, nTurns, ledger, refused, sticky>>

\* What a process that ended well amounts to. An answer is looked for in the
\* text (AgentAnswers), but claude hands it over apart.
TextOutcome == [none |-> "silent", prose |-> "unparsed", answer |-> "ok"][heard.text]
CodexOutcome == TextOutcome
ClaudeOutcome == [none |-> "silent", bad |-> "reported", bare |-> "unstructured", good |-> "ok"][heard.verdict]
CopilotOutcome == IF heard.verdict = "bad" THEN "reported" ELSE TextOutcome
PiOutcome == IF heard.verdict = "bad" THEN "reported" ELSE TextOutcome
AcpOutcome == TextOutcome

Outcome ==
    CASE Adapter = "claude" -> ClaudeOutcome
      [] Adapter = "codex" -> CodexOutcome
      [] Adapter = "copilot" -> CopilotOutcome
      [] Adapter = "pi" -> PiOutcome
      [] Adapter = "acp" -> AcpOutcome

\* The leader exits: its group is killed and the pipes are awaited; a stray
\* that still holds them makes an error of a good exit.
EndAgent ==
    /\ TurnIs("run")
    /\ \E good \in BOOLEAN :
         LET how == IF good THEN Outcome ELSE "exited"
         IN  /\ RecordAttempt(how = "ok")
             /\ \/ /\ how = "ok" /\ Remember
                   /\ fixTurn' = [fixTurn EXCEPT !.pc = "over", !.end = "ok"]
                   /\ UNCHANGED <<refused, sticky>>
                \/ /\ how # "ok"
                   /\ \E f \in Failures(how) : LaneFails(f.retry, f.unavailable)
    /\ heard' = Unheard
    /\ UNCHANGED <<setup, nTurns, nMinted, mintedBy, spent>>

-----------------------------------------------------------------------------
(* Between turns *)

\* An answered turn lets the run go on, in the end to the next ruling.
NextTurn ==
    /\ TurnIs("over") /\ fixTurn.end = "ok" /\ fixTurn' = NoTurn
    /\ UNCHANGED <<setup, fixerId, fixerRow, heard, nTurns, nMinted, mintedBy, spent, ledger, refused, sticky>>

\* The daemon restarts while the run is parked, perhaps with another
\* configuration: where sessions are reused, a run whose fixer's provider is
\* gone is not recovered.
RestartParked ==
    /\ TurnIs("idle") /\ nTurns > 0
    /\ setup' \in Setups
    /\ LET known == fixerRow # NoSession /\ mintedBy[fixerRow] \in LanesOf(setup') \cap Resumable
           lost == setup'.reuse /\ fixerRow # NoSession /\ ~known
       IN  /\ fixerId' = IF known THEN fixerRow ELSE NoSession
           /\ fixTurn' = IF lost THEN [NoTurn EXCEPT !.pc = "over", !.end = "lost"] ELSE fixTurn
    /\ UNCHANGED <<fixerRow, heard, nTurns, nMinted, mintedBy, spent, ledger, refused, sticky>>

TurnsNext == BeginFix \/ CancelTurn \/ SpawnAgent \/ HearEvent \/ EndAgent \/ NextTurn \/ RestartParked

TurnsSpec == TurnsInit /\ [][TurnsNext]_turnsVars
-----------------------------------------------------------------------------
(* Properties *)

TurnsTypeOK ==
    /\ setup \in Setups
    /\ fixerId \in 0..nMinted /\ fixerRow \in 0..nMinted /\ nMinted \in 0..MaxSessions
    /\ mintedBy \in [Sessions -> Adapters] /\ blank \subseteq Sessions
    /\ spent \in [Sessions -> Nat] /\ lastRaw \in [Sessions -> Nat] /\ billed \in [Sessions -> Nat]
    /\ fixTurn.at \in 1..Len(fixTurn.cands) /\ fixTurn.session \in 0..nMinted

\* A session is resumed only by the adapter that minted it, whatever lanes are
\* configured after a restart (fallbackAgent.Run, NewRunSessions).
OnlyOwnerResumes ==
    fixTurn.pc \in {"lane", "run"} /\ fixTurn.session # NoSession => Adapter = mintedBy[fixTurn.session]

\* A turn that set out to resume fails only after a fresh session was tried
\* (RunSessions.Run: "never skip the turn").
FreshBeforeFailing ==
    fixTurn.end = "failed" /\ fixTurn.had # NoSession => fixTurn.again

\* A session whose resume failed is not kept for a later turn, of this daemon
\* or the next, unless its row could not be deleted (forget).
DeadIsDropped ==
    /\ fixerId \in refused => fixerId \in sticky
    /\ fixerRow \in refused => fixerRow \in sticky

\* Every token a codex session reported is charged to some row, and no token
\* twice as long as none of its rows was recorded without usage
\* (recordResult, PerRoundTokens).
UsageAccounted ==
    \A s \in Sessions :
      /\ mintedBy[s] = "codex" => lastRaw[s] <= billed[s]
      /\ s \notin blank => billed[s] <= spent[s]

\* Sessions are resumed, replaced, dropped and charged as they should be.
TurnsSafe == TurnsTypeOK /\ OnlyOwnerResumes /\ FreshBeforeFailing /\ DeadIsDropped /\ UsageAccounted
=============================================================================

--------------------------- MODULE MCEventStream ---------------------------
(* Two ways to be told about a change, checked side by side: the stream of *)
(* a run's events, and the standalone noslop gate with its history.  An    *)
(* initial state chooses the part that moves.                              *)
EXTENDS EventStream, Slop

VARIABLE focus

\* A frame without findings, and one with many.
MCSizes == {1, 2}

MCTraits == [logic |-> {"go"}, unit |-> {"go", "tests"}, flow |-> {"yaml", "fixed"}, data |-> {"yaml"},
             guide |-> {"md", "high"}, note |-> {"md"}, post |-> {"md", "outbound"}, ddl |-> {"schema", "fixed"}]
File(p, s) == [path |-> p, base |-> "none", status |-> s, lines |-> 1,
    before |-> <<"a", "(">>, after |-> <<"a", "2">>, beside |-> {}, sameBuild |-> TRUE,
    shapes |-> {}, leaks |-> {}, testsWere |-> 0, tests |-> 0, comments |-> <<>>, commentsWere |-> <<>>,
    frontMatter |-> FALSE, tells |-> {}, evidence |-> {}, says |-> "nothing"]
Secret(marked) == [kind |-> "secret", marked |-> marked]
Renamed(f) == [f EXCEPT !.after = <<"x", "2">>, !.before = <<"a", "2">>]
\* Files of every kind the rules tell apart: moved, thinned out, of high reach, outbound.
MCFiles == {
    File("logic", "modified"), Renamed(File("logic", "modified")),
    [File("logic", "added") EXCEPT !.lines = 500, !.shapes = {"permissive", "error"}, !.before = <<>>],
    [File("logic", "modified") EXCEPT !.shapes = {"permissive", "error", "strict-beside-lax"}, !.base = "flow"],
    [File("logic", "renamed") EXCEPT !.base = "unit", !.testsWere = 1],
    [File("unit", "modified") EXCEPT !.testsWere = 2, !.tests = 1, !.shapes = {"wider-limit"}],
    File("unit", "deleted"),
    [File("data", "renamed") EXCEPT !.base = "flow"], [File("data", "renamed") EXCEPT !.base = "data"],
    [File("flow", "modified") EXCEPT !.leaks = {Secret(FALSE)}],
    File("guide", "added"), [File("note", "modified") EXCEPT !.leaks = {Secret(TRUE)}],
    [File("post", "modified") EXCEPT !.tells = {"em-dash"}, !.says = "point"],
    File("ddl", "added")}
Q == [files |-> {File("note", "modified")}, onDefault |-> FALSE, key |-> "lane", override |-> 0, force |-> FALSE,
      names |-> "absent", refuseExemptions |-> FALSE, intent |-> "none", floor |-> FALSE, thread |-> FALSE,
      tests |-> TRUE, evidence |-> [f \in {"f"} |-> <<1>>]]
\* What the processes are asked: changes of one lane, and overrides of its tier.
MCRequests == [
    lowered |-> [Q EXCEPT !.override = 1, !.files = {File("logic", "modified")}],
    forced |-> [Q EXCEPT !.override = 1, !.force = TRUE, !.files = {File("logic", "modified")}],
    shape |-> [Q EXCEPT !.files = {[File("logic", "modified") EXCEPT !.shapes = {"same-sides", "permissive", "error"}]}],
    flow |-> [Q EXCEPT !.files = {File("flow", "modified")}, !.key = "unknown", !.onDefault = TRUE, !.tests = FALSE],
    untested |-> [Q EXCEPT !.files = {[File("unit", "modified") EXCEPT !.testsWere = 2, !.tests = 1]}, !.floor = TRUE],
    thinned |-> [Q EXCEPT !.files = {[File("unit", "modified") EXCEPT !.testsWere = 2, !.tests = 1]}],
    posted |-> [Q EXCEPT !.files = {[File("post", "modified") EXCEPT !.says = "point"]}, !.thread = TRUE],
    lost |-> [Q EXCEPT !.thread = TRUE],
    other |-> [Q EXCEPT !.key = "unknown", !.names = "unreadable"]]
MCMenu == <<{"untested"}, {"untested"},
            {"lowered", "forced", "thinned", "posted", "lost", "flow", "shape", "other"}>>

toldVars == <<focus, vars, slopVars>>

ToldInit == focus \in {"stream", "gate"} /\ Init /\ SlopInit

ToldNext ==
    \/ focus = "stream" /\ Next /\ UNCHANGED <<focus, slopVars>>
    \/ focus = "gate" /\ SlopNext /\ UNCHANGED <<focus, vars>>

\* The fairness of the stream, while it is the part that moves.
ToldSpec ==
    /\ ToldInit /\ [][ToldNext]_toldVars
    /\ WF_vars(focus = "stream" /\ (Broadcast \/ closeSubscribers) /\ UNCHANGED <<focus, slopVars>>)
    /\ WF_vars(focus = "stream" /\ (Send \/ StreamEnds) /\ UNCHANGED <<focus, slopVars>>)
    /\ WF_vars(focus = "stream" /\ (AnswerGetRun \/ CallOnDeadConn) /\ UNCHANGED <<focus, slopVars>>)
    /\ WF_vars(focus = "stream" /\ Subscribe /\ UNCHANGED <<focus, slopVars>>)
    /\ WF_vars(focus = "stream" /\ (applyEvent \/ StreamLost) /\ UNCHANGED <<focus, slopVars>>)
    /\ WF_vars(focus = "stream" /\ (Reconciled \/ ReconcileErrs) /\ UNCHANGED <<focus, slopVars>>)
=============================================================================

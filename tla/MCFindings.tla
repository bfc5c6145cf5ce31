----------------------------- MODULE MCFindings -----------------------------
(* A small instance of Findings for TLC. *)
EXTENDS Findings

\* An advisory fix and a question about the same text at two lines, and a blocking remark that
\* only speaks of the delivery to come.
MCSorts == {Sort(<<<<"x">>, 1>>, AutoFixAct, FALSE, "source"), Sort(<<<<"x">>, 2>>, AskUser, TRUE, "source"),
            Sort(<<<<"y">>, 1>>, AutoFixAct, TRUE, "delivery")}

Old(n, place, act) == Finding(<<"review", n>>, n, Sort(place, act, TRUE, "source"), NoClaim)

\* An earlier run left one finding, or two that read the same.
MCInherited == {<<Old(1, <<<<"x">>, 1>>, AutoFixAct)>>,
                <<Old(1, <<<<"x">>, 1>>, AutoFixAct), Old(2, <<<<"x">>, 2>>, AskUser)>>}

MCLimits == [maxRounds |-> 3, maxRecurring |-> 3, nonDecreasing |-> 2, recurring |-> 2]

MCAdded == {<<<<"x">>, 1>>}
=============================================================================

---------------------------- MODULE AgentAnswers ----------------------------
(* How the structured answer is found in the text an agent ends its turn   *)
(* with (internal/agent/agent.go). A text is a sequence of lines, told     *)
(* apart by what the search looks at: objects, and markers of code fences. *)
EXTENDS Naturals, Sequences, FiniteSets

CONSTANT MaxBlocks   \* bound: blocks of a text

Valid == {"one", "two"}          \* objects that fit the schema; "bad" is one that does not
NoAnswer == "none"

VARIABLE doc   \* the text under way, as the blocks its author meant

answersVars == doc

-----------------------------------------------------------------------------
(* The search, line by line *)

\* "glued" is an opener that ends a line of prose, "sealed" an object whose
\* line ends with the closing marker.
HasTicks(l) == l \in {"json", "glued", "go", "fence", "sealed"}
StartsTicks(l) == l \in {"json", "go", "fence"}
IsJson(l) == l \in {"json", "glued"}
ObjectOf(l) == IF l = "sealed" THEN "one" ELSE l

LeastOr0(S) == IF S = {} THEN 0 ELSE CHOOSE n \in S : \A k \in S : n <= k

\* The line after the fenced block that begins at line i, or 0: an opener
\* inside it deepens it.
skipFenceBlock(t, i) ==
    LET opened(j) == Cardinality({k \in i..j : t[k] \in {"json", "go"}})
        closed(j) == Cardinality({k \in i..j : t[k] = "fence"})
        last == LeastOr0({j \in i..Len(t) : closed(j) = opened(j) + 1})
    IN  IF last = 0 THEN 0 ELSE last + 1

\* The first line of the next json block at or after each line, or 0.
indexJSONFenceOpen(t) ==
    LET open[i \in 0..Len(t) + 1] ==
          LET at == LeastOr0({j \in i..Len(t) : j > 0 /\ HasTicks(t[j])})
              next == skipFenceBlock(t, at + 1)
          IN  IF i = 0 \/ at = 0 THEN 0
              ELSE IF IsJson(t[at]) THEN at + 1
              ELSE IF next = 0 THEN 0 ELSE open[next]
    IN  open

\* The line that closes the json block begun at line i, or 0.
indexJSONFenceClose(t, i) ==
    LET first == LeastOr0({j \in i..Len(t) : StartsTicks(t[j])})
    IN  IF first = 0 /\ i <= Len(t) /\ t[Len(t)] = "sealed" THEN Len(t) ELSE first

\* What an object's text parses to against the schema.
parseStructuredCandidate(lines) ==
    IF Len(lines) = 1 /\ ObjectOf(lines[1]) \in Valid THEN ObjectOf(lines[1]) ELSE NoAnswer

\* The valid objects in the json blocks from each line on.
fencedJSONCandidates(t) ==
    LET found[i \in 0..Len(t) + 1] ==
          LET start == IF i = 0 THEN 0 ELSE indexJSONFenceOpen(t)[i]
              end == indexJSONFenceClose(t, start)
              body == SubSeq(t, start, IF t[end] = "sealed" THEN end ELSE end - 1)
              value == parseStructuredCandidate(body)
          IN  IF start = 0 \/ end = 0 THEN <<>>
              ELSE (IF value = NoAnswer THEN <<>> ELSE <<value>>) \o found[end + 1]
    IN  found[1]

\* The last valid object outside every block; the search ends at a block left
\* open.
lastBareJSONObject(t) ==
    LET bare[i \in 0..Len(t) + 1] ==
          IF i = 0 \/ i > Len(t) THEN NoAnswer
          ELSE LET here == IF ObjectOf(t[i]) \in Valid THEN ObjectOf(t[i]) ELSE NoAnswer
                   next == IF HasTicks(t[i]) THEN skipFenceBlock(t, i + 1) ELSE i + 1
                   later == bare[next]
               IN  IF later # NoAnswer THEN later ELSE here
    IN  bare[1]

\* The whole text, or its one valid json block, or its last bare object.
parseStructuredTextOutput(t) ==
    LET fenced == fencedJSONCandidates(t)
    IN  IF Len(t) = 1 /\ t[1] \in Valid THEN t[1]
        ELSE IF Len(fenced) = 1 THEN fenced[1]
        ELSE IF Len(fenced) > 1 THEN NoAnswer ELSE lastBareJSONObject(t)

-----------------------------------------------------------------------------
(* Texts, and what their author meant *)

Block(kind, o) == [kind |-> kind, o |-> o]
Blocks ==
    {Block("prose", "prose")}
    \cup {Block(k, o) : k \in {"bare", "json", "glued", "other", "plain", "nested", "cut"}, o \in Valid \cup {"bad"}}
    \cup {Block("json", "prose"), Block("sealed", "one")}

Rendered(b) ==
    CASE b.kind = "prose" -> <<"prose">>
      [] b.kind = "bare" -> <<b.o>>
      [] b.kind = "json" -> <<"json", b.o, "fence">>
      [] b.kind = "glued" -> <<"glued", b.o, "fence">>
      [] b.kind = "other" -> <<"go", b.o, "fence">>
      [] b.kind = "plain" -> <<"fence", b.o, "fence">>
      [] b.kind = "nested" -> <<"go", "json", b.o, "fence", "fence">>
      [] b.kind = "sealed" -> <<"json", "sealed">>
      [] b.kind = "cut" -> <<"json", b.o>>

Text == LET upTo[n \in 0..Len(doc)] == IF n = 0 THEN <<>> ELSE upTo[n - 1] \o Rendered(doc[n])
        IN  upTo[Len(doc)]

\* The author goes on, until the text is cut off or sealed.
AnswersInit == doc = <<>>
WriteBlock ==
    /\ Len(doc) < MaxBlocks
    /\ Len(doc) > 0 => doc[Len(doc)].kind \notin {"cut", "sealed"}
    /\ \E b \in Blocks : doc' = Append(doc, b)

AnswersNext == WriteBlock
AnswersSpec == AnswersInit /\ [][AnswersNext]_answersVars

ValidIn(kinds) == {i \in 1..Len(doc) : doc[i].kind \in kinds /\ doc[i].o \in Valid}

\* Whatever prose, examples in other fences or refused objects surround it, the
\* answer taken is the one the author meant: the object of the only json block
\* that fits, with none the last bare object, and none when several blocks fit;
\* what a quoted example or a block cut off holds is never taken
\* (parseStructuredTextOutput).
AnswerAsMeant ==
    LET fenced == ValidIn({"json", "glued", "sealed"})
        bare == ValidIn({"bare"})
        meant == IF Cardinality(fenced) > 1 THEN NoAnswer
                 ELSE IF fenced # {} THEN doc[CHOOSE i \in fenced : TRUE].o
                 ELSE IF bare # {} THEN doc[CHOOSE i \in bare : \A j \in bare : j <= i].o
                 ELSE NoAnswer
    IN  parseStructuredTextOutput(Text) = meant
=============================================================================

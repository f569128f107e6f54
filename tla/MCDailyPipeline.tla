-------------------------- MODULE MCDailyPipeline ---------------------------
(***************************************************************************)
(* DailyPipeline for TLC: two seed topics, and documents of which the     *)
(* second is taken for the first and the third is about a seed topic.      *)
(***************************************************************************)
EXTENDS DailyPipeline

CONSTANTS s1, s2, t1, t2, d1, d2, d3, d4

MCTopicOf == [d \in Docs |-> CASE d = d3 -> s1 [] d = d4 -> t2 [] OTHER -> t1]
MCAlike == {<<d1, d2>>, <<d2, d1>>}
MCBatches == {<<>>, <<d1, d2, d3>>, <<d1, d3, d4>>}

Measured(e, c) == [t \in Topics |-> [edges |-> e[t], centrality |-> c[t]]]
\* Nothing differs; each leads in one; one leads, one is behind in both.
MCMeasures ==
  { Measured([t \in Topics |-> 1], [t \in Topics |-> 1]),
    Measured([t \in Topics |-> IF t = s1 THEN 4 ELSE 1], [t \in Topics |-> IF t = s2 THEN 3 ELSE 1]),
    Measured([t \in Topics |-> IF t = t1 THEN 1 ELSE 2], [t \in Topics |-> IF t = t1 THEN 1 ELSE 3]) }

Answer(flaws, quoted, attributed, license) ==
  [flaws |-> flaws, quoted |-> quoted, attributed |-> attributed, license |-> license]
MCAnswers == { Answer({}, 0, FALSE, 40), Answer({}, 30, TRUE, 5), Answer({"format"}, 0, TRUE, 0) }
=============================================================================

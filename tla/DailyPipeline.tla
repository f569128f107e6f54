--------------------------- MODULE DailyPipeline ----------------------------
(***************************************************************************)
(* run_daily_pipeline() and what calls it: the polling loop of the worker, *)
(* which runs it every ten minutes, and the Prefect flow, which runs it a  *)
(* second time when the first one raises.  A run builds a graph, scores    *)
(* its topics, selects some, generates a text for each of them and sends   *)
(* it through the quality gate.                                            *)
(*                                                                         *)
(* The graph is abstracted to its topics and what is measured of them, a   *)
(* text to what the gate looks at.  Nothing is kept from one call to the   *)
(* next, except in the database and in the metrics.                        *)
(***************************************************************************)
EXTENDS Integers, Sequences, SequencesExt, FiniteSetsExt

CONSTANTS
  Docs,       \* documents
  TopicOf,    \* [Docs -> Topics]: make_node_id("topic", title)
  Alike,      \* the pairs of documents is_duplicate() takes for one
  Batches,    \* the sequences of documents a run may be given
  Topics,     \* topic node ids
  SeedTopics, \* those of the seed files
  Measures,   \* [Topics -> [edges, centrality]]: what a graph may measure
  TopK,       \* top_k
  Quota,      \* api_quota_per_day of the platform
  MaxSame,    \* max_channels_per_topic
  Budget,     \* the monthly budget, in calls: OPENAI_MONTHLY_BUDGET_USD / 0.001
  Answers     \* what the LLM may answer, as the gate sees it

Texts == [flaws    : SUBSET {"format", "readability", "banned"},
          quoted   : 0..100,   \* per cent of the text
          attributed : BOOLEAN,\* source_url
          license  : 0..100]   \* per cent of risk

ASSUME DocsAssumption ==
  TopicOf \in [Docs -> Topics] /\ Alike \subseteq Docs \X Docs /\ Batches \subseteq Seq(Docs)
ASSUME TopicsAssumption == SeedTopics \subseteq Topics /\ IsFiniteSet(SeedTopics)
ASSUME MeasuresAssumption ==
  Measures \subseteq [Topics -> [edges : Nat, centrality : Nat]]
ASSUME LimitsAssumption ==
  TopK \in Nat /\ Quota \in Nat /\ MaxSame \in Nat \ {0} /\ Budget \in Nat
ASSUME AnswersAssumption == Answers \subseteq Texts

VARIABLES
  caller,    \* "poll", or "flow": daily_pipeline() where Prefect is installed
  pc,        \* where the run is
  attempt,   \* the runs since the caller was called, or woke up
  topics,    \* the topics of the graph
  measured,  \* what is measured of them
  scores,    \* [topics -> Nat]: the score of each
  queue,     \* the selected topics that have no text yet
  text,      \* <<the text on its way to the gate>>, or <<>>
  outputs,   \* <<[topic, by, passed], ...>>: the outputs of the run
  spent,     \* _cost_this_month of the run's generator, in calls
  billed,    \* calls the LLM charged for, in all attempts
  lost,      \* those whose answer did not come
  unpushed   \* was a run counted since the metrics were pushed?

run == <<topics, measured, scores, queue, text, outputs>>
money == <<spent, billed, lost>>
vars == <<caller, pc, attempt, run, money, unpushed>>

\* A text that waits for the gate, and an output the gate has judged.
Written == [topic : topics, by : {"llm", "template"}, as : Texts]
Made == [topic : topics, by : {"llm", "template"}, passed : BOOLEAN]

CallTyped ==
  /\ caller \in {"poll", "flow"}
  /\ pc \in {"sleep", "begin", "score", "select", "generate", "gate", "succeed", "push"}
  /\ attempt \in 0..2 /\ (caller = "poll" => attempt < 2)
  /\ caller = "poll" /\ pc = "begin" => attempt = 0
  /\ spent \in 0..Budget /\ billed \in Nat /\ lost \in 0..billed
  /\ unpushed \in BOOLEAN

TopicsTyped == topics \subseteq Topics /\ IsFiniteSet(topics) /\ measured \in Measures
ScoresTyped == DOMAIN scores \subseteq topics /\ \A t \in DOMAIN scores : scores[t] \in 0..10000
QueueTyped == queue \in Seq(topics) /\ Len(queue) <= TopK
TextTyped == text \in Seq(Written) /\ Len(text) = IF pc = "gate" THEN 1 ELSE 0
OutputsTyped == outputs \in Seq(Made)
RunTyped == TopicsTyped /\ ScoresTyped /\ QueueTyped /\ TextTyped /\ OutputsTyped

TypeOK == CallTyped /\ RunTyped

Init ==
  /\ caller \in {"poll", "flow"}
  /\ pc = "sleep"
  /\ attempt = 0
  /\ topics = {}
  /\ measured \in Measures
  /\ scores = <<>> /\ queue = <<>> /\ text = <<>> /\ outputs = <<>>
  /\ spent = 0 /\ billed = 0 /\ lost = 0
  /\ unpushed = FALSE

-----------------------------------------------------------------------------
(* Deduplication and the graph.  The deduplicator is new in every run.     *)

\* The positions of the documents that are kept (there is one such set): a
\* document is compared with those kept before it.
Unique(batch) ==
  {kept \in SUBSET DOMAIN batch :
     \A i \in DOMAIN batch :
       i \in kept <=> \A j \in kept : j < i => <<batch[j], batch[i]>> \notin Alike}

Begin ==
  /\ pc = "begin"
  /\ \E batch \in Batches : \E kept \in Unique(batch) :
       topics' = SeedTopics \cup {TopicOf[batch[i]] : i \in kept}
  /\ attempt' = attempt + 1
  /\ pc' = "score"
  /\ spent' = 0
  /\ scores' = <<>> /\ queue' = <<>> /\ text' = <<>> /\ outputs' = <<>>
  /\ UNCHANGED <<caller, measured, billed, lost, unpushed>>

-----------------------------------------------------------------------------
(* Scores, in 1/10000: min-max over the topics of the graph.  The trend is *)
(* 0.5 and the event boost 0 for every topic, and what is the same for all *)
(* counts 0, so no score is above 0.55.  Shares are rounded up: only what  *)
(* is smallest in everything scores 0, as in the code, which rounds nothing.*)

\* Mutation: a measure is taken as a share of the largest one.
ShareOfMax(value, values) == IF Max(values) = 0 THEN 0 ELSE (100 * value) \div Max(values)

MinMax(value, values) ==
  IF Max(values) = Min(values) THEN 0
  ELSE LET span == Max(values) - Min(values)
       IN (100 * (value - Min(values)) + span - 1) \div span

Score(m, t) ==
  30 * MinMax(m[t].edges, {m[u].edges : u \in topics}) +
  25 * MinMax(m[t].centrality, {m[u].centrality : u \in topics})

\* The revenue of a candidate is computed and not used.
ComputeScores ==
  /\ pc = "score"
  /\ \E m \in Measures :
       /\ measured' = m
       /\ scores' = [t \in topics |-> Score(m, t)]
  /\ pc' = "select"
  /\ UNCHANGED <<caller, attempt, topics, queue, text, outputs, money, unpushed>>

-----------------------------------------------------------------------------
(* Selection.  A candidate's value is its score times a draw from (0, 1):  *)
(* those with a score come in any order, those without one after them.     *)

Orders ==
  {order \in SetToSeqs(topics) :
     \A i, j \in 1..Len(order) : scores[order[i]] = 0 /\ scores[order[j]] > 0 => j < i}

\* A candidate's "topic" is its node, so no two of them share one.
KeepDiverse(kept, t) ==
  IF Cardinality({i \in DOMAIN kept : kept[i] = t}) >= MaxSame THEN kept ELSE Append(kept, t)

EnforceDiversity(order) ==
  LET kept[n \in 0..Len(order)] ==
        IF n = 0 THEN <<>> ELSE KeepDiverse(kept[n - 1], order[n])
  IN kept[Len(order)]

First(order, n) == SubSeq(order, 1, Min({n, Len(order)}))

Select ==
  /\ pc = "select"
  /\ \E order \in Orders : queue' = First(First(EnforceDiversity(order), Quota), TopK)
  /\ pc' = "generate"
  /\ UNCHANGED <<caller, attempt, topics, measured, scores, text, outputs, money, unpushed>>

-----------------------------------------------------------------------------
(* Generation: the LLM while the generator's own count is within the       *)
(* budget, otherwise, or when it does not answer with JSON, a template.    *)

\* Mutation: the cost of the call itself is not counted in.
BudgetNotUsedUp == spent <= Budget

BudgetOk == spent + 1 <= Budget

\* No generator adds a source or a license to a text.
Template == [flaws |-> {}, quoted |-> 0, attributed |-> FALSE, license |-> 40]

ToGate(by, as) ==
  /\ text' = <<[topic |-> Head(queue), by |-> by, as |-> as]>>
  /\ queue' = Tail(queue)
  /\ pc' = "gate"
  /\ UNCHANGED <<caller, attempt, topics, measured, scores, outputs, unpushed>>

Generating == pc = "generate" /\ queue # <<>>

\* There is no key, the budget is used up, or the call fails at once.
GenerateOffline ==
  /\ Generating
  /\ ToGate("template", Template)
  /\ UNCHANGED money

GenerateOnline ==
  /\ Generating /\ BudgetOk
  /\ \/ \E a \in Answers : ToGate("llm", a)
     \/ ToGate("template", Template)
  /\ spent' = spent + 1
  /\ billed' = billed + 1
  /\ UNCHANGED lost

\* The request times out after the LLM has done its work.
AnswerLost ==
  /\ Generating /\ BudgetOk
  /\ ToGate("template", Template)
  /\ billed' = billed + 1
  /\ lost' = lost + 1
  /\ UNCHANGED spent

-----------------------------------------------------------------------------
(* The quality gate.  The risk of a text, in 1/10000, weighs what is       *)
(* quoted, whether a source is named, and the license.                     *)

\* Mutation: no license counts as fair use.
RiskOfUnknownAsFairUse(as) ==
  50 * as.quoted + (IF as.attributed THEN 0 ELSE 2000) +
  30 * (IF as.license = 40 THEN 30 ELSE as.license)

Risk(as) == 50 * as.quoted + (IF as.attributed THEN 0 ELSE 2000) + 30 * as.license

Passes(as) == as.flaws = {} /\ Risk(as) <= 3000

Gate ==
  /\ pc = "gate"
  /\ outputs' = Append(outputs, [topic  |-> text[1].topic, by |-> text[1].by,
                                 passed |-> Passes(text[1].as)])
  /\ text' = <<>>
  /\ pc' = "generate"
  /\ UNCHANGED <<caller, attempt, topics, measured, scores, queue, money, unpushed>>

-----------------------------------------------------------------------------
(* The end of a run.                                                       *)

\* record_graph_size(), then persist_graph_to_db(), which never raises and
\* whose answer is not looked at.
Persist ==
  /\ pc = "generate" /\ queue = <<>>
  /\ pc' = "succeed"
  /\ UNCHANGED <<caller, attempt, run, money, unpushed>>

Succeed ==
  /\ pc = "succeed"
  /\ pc' = "push"
  /\ unpushed' = TRUE
  /\ UNCHANGED <<caller, attempt, run, money>>

\* Mutation: the loop pushes what a run returned.
RaiseUnpushed ==
  /\ pc \in {"score", "select", "generate", "gate"}
  /\ pc' = IF caller = "flow" /\ attempt = 1 THEN "begin" ELSE "sleep"
  /\ unpushed' = TRUE
  /\ text' = <<>>
  /\ UNCHANGED <<caller, attempt, topics, measured, scores, queue, outputs, money>>

\* Any step before may raise: reading the seeds, a JSON answer that is no
\* object, the metrics.  The run is counted as an error.  The loop catches
\* it; the flow runs once more and lets the second error through.
Raise ==
  /\ pc \in {"score", "select", "generate", "gate"}
  /\ pc' = CASE caller = "poll"                 -> "push"
             [] caller = "flow" /\ attempt = 1  -> "begin"
             [] caller = "flow" /\ attempt = 2  -> "sleep"
  /\ unpushed' = TRUE
  /\ text' = <<>>
  /\ UNCHANGED <<caller, attempt, topics, measured, scores, queue, outputs, money>>

\* push_metrics() never raises; a gateway that is down is logged.
Push ==
  /\ pc = "push"
  /\ pc' = "sleep"
  /\ unpushed' = FALSE
  /\ UNCHANGED <<caller, attempt, run, money>>

\* Ten minutes later, or when Prefect calls the flow the next time.
Wake ==
  /\ pc = "sleep"
  /\ pc' = "begin"
  /\ attempt' = 0
  /\ billed' = 0 /\ lost' = 0
  /\ UNCHANGED <<caller, run, spent, unpushed>>

RunStep ==
  \/ Begin \/ ComputeScores \/ Select
  \/ GenerateOffline \/ GenerateOnline \/ AnswerLost \/ Gate
  \/ Persist \/ Succeed \/ Raise \/ Push

Next == RunStep \/ Wake

Spec == Init /\ [][Next]_vars

\* The caller calls a run, and a run that was called goes on.
FairSpec == Spec /\ WF_vars(RunStep) /\ WF_vars(Wake)

-----------------------------------------------------------------------------
(* Correctness.                                                            *)

Ahead == {text[i].topic : i \in DOMAIN text} \cup {queue[i] : i \in DOMAIN queue}
Selected == {outputs[i].topic : i \in DOMAIN outputs} \cup Ahead

Behind(t) == \A u \in topics : /\ measured[t].edges <= measured[u].edges
                             /\ measured[t].centrality <= measured[u].centrality

\* A run writes as many texts as top_k, the quota and the graph allow, no two
\* of one topic, and a topic that leads in nothing is never preferred to one
\* that leads it in something, however the draws fall (graph_score.py:58-91,
\* selector.py:54-92).
SelectionIsSound ==
  pc \in {"generate", "gate", "succeed"} =>
    /\ Cardinality(Selected) = Min({TopK, Quota, Cardinality(topics)})
    /\ Len(outputs) + Len(text) + Len(queue) = Cardinality(Selected)
    /\ \A t \in Selected, u \in topics \ Selected : Behind(t) => Behind(u)

\* What the LLM charges of the generators' budgets, lost answers included.
ChargesAreBounded ==
  /\ spent <= Budget
  /\ billed <= attempt * Budget + lost

\* The monthly budget is one of a generator, and every run has its own: what
\* the LLM charges is bounded per attempt, and answers that are lost are
\* charged but not counted (blog_generator.py:46-52,72-90).
BudgetHoldsPerAttempt == ChargesAreBounded /\ billed <= attempt * TopK

\* Only a text of the LLM can pass the gate: a text that names neither source
\* nor license is above the copyright threshold, and a template never does
\* (copyright_scorer.py:49-61, quality_gate.py:103-132).
OnlyTheLlmPasses ==
  \A i \in DOMAIN outputs : outputs[i].passed => outputs[i].by = "llm"

\* In the polling loop every run that was counted, whatever became of it, is
\* pushed to the gateway (worker.py:46-52).
RunsArePushed == caller = "poll" /\ unpushed ~> ~unpushed
=============================================================================

------------------------------ MODULE Feedback ------------------------------
(***************************************************************************)
(* AttributionScheduler: the revenue that was observed at the checkpoints  *)
(* of a post, and the total that is projected from it.  Observations come  *)
(* in any order, and again; a label is not checked when it is recorded.    *)
(* WeightUpdater: the weights of the scores, moved by the errors of        *)
(* predictions.  A weight is counted in steps of the learning rate.        *)
(***************************************************************************)
EXTENDS Integers, FiniteSets, FiniteSetsExt

CONSTANTS
  Posts,       \* content ids
  Labels,      \* labels record_raw() is called with: "7d"
  Checkpoints, \* those of them that are checkpoints of the configuration
  Hours,       \* [Labels -> Nat]: _hours() of a label, NoHours if it raises
  Spelling,    \* [Labels -> Nat]: the order of the labels as strings
  Percent,     \* [Labels -> Nat]: decay_correction of a label, 100 by default
  Revenues,    \* revenues that are observed
  Components,  \* named weights
  InitialWeights,  \* weights the updater starts with
  WMin, WMax,  \* w_min, w_max
  GradClip,    \* gradient_clip
  Errors,      \* actual - expected
  Gradients    \* gradients update() is called with

NoHours == -1

ASSUME LabelsAssumption ==
  /\ Checkpoints \subseteq {l \in Labels : Hours[l] # NoHours}
  /\ \A l, m \in Checkpoints : Hours[l] = Hours[m] => l = m
  /\ Hours \in [Labels -> Nat \cup {NoHours}]
  /\ Percent \in [Labels -> Nat] /\ Spelling \in [Labels -> Nat]
  /\ Revenues \subseteq Nat

ASSUME WeightsAssumption ==
  /\ InitialWeights \subseteq Int /\ WMin \in Int /\ WMax \in Int /\ WMin <= WMax
  /\ GradClip \in Nat /\ Errors \subseteq Int /\ Gradients \subseteq Int

VARIABLES
  raw,      \* _snapshots: [Posts -> [labels recorded -> Revenues]]
  weights,  \* weights: [Components -> Int]
  updated   \* components that were updated

feedbackVars == <<raw, weights, updated>>

FeedbackTypeOK ==
  /\ raw \in [Posts -> UNION {[D -> Revenues] : D \in SUBSET Labels}]
  /\ updated \subseteq Components
  /\ weights \in [Components -> InitialWeights \cup WMin..WMax]
  /\ \A c \in updated : weights[c] \in WMin..WMax

FeedbackInit ==
  /\ raw = [p \in Posts |-> [l \in {} |-> 0]]
  /\ weights \in [Components -> InitialWeights] /\ updated = {}

RecordRaw(p, l, revenue) ==
  /\ raw' = [raw EXCEPT ![p] = [m \in DOMAIN @ \cup {l} |-> IF m = l THEN revenue ELSE @[m]]]
  /\ UNCHANGED <<weights, updated>>

Clamp(x, low, high) == Max({low, Min({high, x})})

Update(c, error, gradient) ==
  /\ weights' = [weights EXCEPT
       ![c] = Clamp(@ + error * Clamp(gradient, -GradClip, GradClip), WMin, WMax)]
  /\ updated' = updated \cup {c}
  /\ UNCHANGED raw

AttributionNext ==
  \E p \in Posts, l \in Labels, revenue \in Revenues : RecordRaw(p, l, revenue)
WeightsNext ==
  \E c \in Components, error \in Errors, gradient \in Gradients : Update(c, error, gradient)
FeedbackNext == AttributionNext \/ WeightsNext

FeedbackSpec == FeedbackInit /\ [][FeedbackNext]_feedbackVars

-----------------------------------------------------------------------------

Raises == [raises |-> TRUE, raw |-> 0, percent |-> 0]
Projected(revenue, l) ==
  [raises |-> FALSE, raw |-> revenue, percent |-> IF Percent[l] > 0 THEN Percent[l] ELSE 100]

\* Mutation: the label that is the last in the order of strings.
LatestByName(p) ==
  CHOOSE l \in DOMAIN raw[p] : \A m \in DOMAIN raw[p] : Spelling[l] >= Spelling[m]

\* The label of most hours; of two with as many, the code takes the one that
\* was recorded first and the model any.
LatestPoint(p) ==
  CHOOSE l \in DOMAIN raw[p] : \A m \in DOMAIN raw[p] : Hours[l] >= Hours[m]

\* aggregate_total(): the total, as what was observed by what percentage.
AggregateTotal(p) ==
  IF DOMAIN raw[p] = {} THEN [raises |-> FALSE, raw |-> 0, percent |-> 100]
  ELSE IF \E l \in DOMAIN raw[p] : Hours[l] = NoHours THEN Raises
  ELSE Projected(raw[p][LatestPoint(p)], LatestPoint(p))

PointsForHours(hours) == {l \in Checkpoints : Hours[l] = hours}

\* run_attribution(): what is projected from the checkpoint of some hours.
RunAttribution(p, hours) ==
  LET l == CHOOSE m \in PointsForHours(hours) : TRUE
  IN IF PointsForHours(hours) = {} THEN Raises
     ELSE Projected(IF l \in DOMAIN raw[p] THEN raw[p][l] ELSE 0, l)

-----------------------------------------------------------------------------
(* Correctness.                                                            *)

\* What a step may do to the estimate of a post.
EstimateFollows(p) ==
  LET old == {Hours[l] : l \in DOMAIN raw[p]}
      new == {Hours[l] : l \in {l \in DOMAIN raw'[p] :
                          l \notin DOMAIN raw[p] \/ raw[p][l] # raw'[p][l]}}
  IN /\ NoHours \in old => AggregateTotal(p)' = Raises
     /\ AggregateTotal(p)' # AggregateTotal(p) =>
          NoHours \in new \/ \E h \in new : \A g \in old : h >= g
     /\ old # {} /\ NoHours \notin old /\ LatestPoint(p) \in Checkpoints =>
          AggregateTotal(p) = RunAttribution(p, Max(old))

\* The estimate changes only with an observation at the latest checkpoint, or
\* a later one: those that come late or again change nothing, and it always
\* is what the latest checkpoint projects.  A label that cannot be read takes
\* the estimate of its post away for good (attribution_scheduler.py:72-99).
EstimateIsLatest == [][\A p \in Posts : EstimateFollows(p)]_feedbackVars
=============================================================================

---------------------------- MODULE Experiments -----------------------------
(***************************************************************************)
(* A/B experiments.  Each worker process of the API has a manager of its   *)
(* own, in memory: an experiment is known to the worker that created it,   *)
(* until that worker ends.  A unit is assigned a variant by a hash of the  *)
(* experiment's and its own id; outcomes are compared with a rank test.    *)
(*                                                                         *)
(* Shares and hashes are counted in 1/Grain of the unit interval.          *)
(* record_outcome() has no caller but tests; it is modelled as called in   *)
(* the worker that has the experiment.                                     *)
(***************************************************************************)
EXTENDS Integers, Sequences, FiniteSets, SequencesExt, FiniteSetsExt, StableOrder

CONSTANTS
  Managers,     \* worker processes
  Units,        \* unit ids
  Splits,       \* [variants, shares]: what create_experiment() may be called with
  Grain,        \* parts of the unit interval
  Metrics,      \* values of an outcome
  MaxCreated,   \* bound: experiments
  MaxOutcomes   \* bound: outcomes of a variant

ASSUME ExperimentsAssumption ==
  /\ Grain \in Nat \ {0} /\ Metrics \subseteq Nat
  /\ Splits \subseteq [variants : Seq(STRING), shares : Seq(Int)]
  /\ MaxCreated \in Nat

VARIABLES
  experiments,  \* <<[owner, variants, shares, hash, outcomes], ...>>, with ids 1, 2, ...
  answered      \* {<<id, unit, variant>>, ...}: what assign_variant() has returned

experimentsVars == <<experiments, answered>>

Ids == DOMAIN experiments
Nobody == "nobody"

ExperimentsTypeOK ==
  /\ Len(experiments) <= MaxCreated
  /\ \A e \in Ids :
       /\ experiments[e].owner \in Managers \cup {Nobody}
       /\ [variants |-> experiments[e].variants, shares |-> experiments[e].shares] \in Splits
       /\ experiments[e].hash \in [Units -> 0..Grain - 1]
       /\ DOMAIN experiments[e].outcomes = ToSet(experiments[e].variants)
       /\ \A v \in DOMAIN experiments[e].outcomes :
            experiments[e].outcomes[v] \in Seq(Metrics)
  /\ answered \subseteq Ids \X Units \X UNION {ToSet(experiments[e].variants) : e \in Ids}

ExperimentsInit == experiments = <<>> /\ answered = {}

-----------------------------------------------------------------------------
(* create_experiment() and assign_variant().                               *)

Total(shares) == SumFunction(shares)

\* Shares below zero pass, and so do two variants of one name.
Valid(s) ==
  /\ Len(s.variants) = Len(s.shares)
  /\ Total(s.shares) = Grain
  /\ Len(s.variants) >= 2

Create(w) ==
  /\ Len(experiments) < MaxCreated
  /\ \E s \in Splits, hash \in [Units -> 0..Grain - 1] :
       /\ Valid(s)
       /\ experiments' = Append(experiments,
            [owner |-> w, variants |-> s.variants, shares |-> s.shares, hash |-> hash,
             outcomes |-> [v \in ToSet(s.variants) |-> <<>>]])
  /\ UNCHANGED answered

\* Mutation: the bounds of the shares belong to the variants below them.
ClosedShares(s, bucket) ==
  LET reached == {i \in DOMAIN s.shares : bucket <= SumFunctionOnSet(s.shares, 1..i)}
  IN  IF reached = {} THEN Len(s.variants) ELSE Min(reached)

\* The first variant whose cumulative share is above the bucket, or the last.
VariantOf(s, bucket) ==
  LET reached == {i \in DOMAIN s.shares : bucket < SumFunctionOnSet(s.shares, 1..i)}
  IN  IF reached = {} THEN Len(s.variants) ELSE Min(reached)

Assign(w, e, u) ==
  /\ experiments[e].owner = w
  /\ answered' = answered \cup
       {<<e, u, experiments[e].variants[VariantOf(experiments[e], experiments[e].hash[u])]>>}
  /\ UNCHANGED experiments

-----------------------------------------------------------------------------
(* record_outcome() and get_results().                                     *)

Record(e, v, metric) ==
  /\ experiments[e].owner # Nobody
  /\ Len(experiments[e].outcomes[v]) < MaxOutcomes
  /\ experiments' = [experiments EXCEPT ![e].outcomes[v] = Append(@, metric)]
  /\ UNCHANGED answered

\* Twice the average rank of a value among all.
DoubledRank(value, all) ==
  LET sorted == SortedBy(all, all)
      places == {i \in DOMAIN sorted : sorted[i] = value}
  IN  Min(places) + Max(places)

\* Twice the rank sum of the treatment, less what it is at least.
DoubledU(control, treatment) ==
  Total([i \in DOMAIN treatment |-> DoubledRank(treatment[i], treatment \o control)])
    - Len(treatment) * (Len(treatment) + 1)

\* p < 0.05: the smaller U is 1.96 standard deviations below the mean.
Significant(control, treatment) ==
  LET pairs == Len(control) * Len(treatment)
      u1    == DoubledU(control, treatment)
      u     == Min({u1, 2 * pairs - u1})
  IN  /\ Len(control) >= 2 /\ Len(treatment) >= 2
      /\ 30000 * (u - pairs) * (u - pairs) > 38415 * pairs * (Len(control) + Len(treatment) + 1)

\* The mean of one is at least that of the other; the mean of nothing is 0.
AsGood(a, b) == Total(a) * Max({1, Len(b)}) >= Total(b) * Max({1, Len(a)})

\* Two variants are tested; of more, the first with the largest mean wins.
Winner(e) ==
  LET variants == experiments[e].variants
      o        == experiments[e].outcomes
      best     == SelectSeq(variants, LAMBDA v : \A w \in ToSet(variants) : AsGood(o[v], o[w]))
  IN  IF Len(variants) = 2
        THEN IF ~Significant(o[variants[1]], o[variants[2]]) THEN <<>>
             ELSE IF AsGood(o[variants[1]], o[variants[2]]) THEN <<variants[1]>>
             ELSE <<variants[2]>>
        ELSE IF \A v \in ToSet(variants) : Total(o[v]) = 0 THEN <<>> ELSE <<Head(best)>>

-----------------------------------------------------------------------------

\* A worker ends: its experiments are gone, and their ids are unknown to all.
EndWorker(w) ==
  /\ \E e \in Ids : experiments[e].owner = w
  /\ experiments' = [e \in Ids |-> IF experiments[e].owner = w
                                   THEN [experiments[e] EXCEPT !.owner = Nobody]
                                   ELSE experiments[e]]
  /\ UNCHANGED answered

ExperimentsNext ==
  \/ \E w \in Managers :
       \/ Create(w) \/ EndWorker(w)
       \/ \E e \in Ids, u \in Units : Assign(w, e, u)
  \/ \E e \in Ids : \E v \in DOMAIN experiments[e].outcomes, metric \in Metrics :
       Record(e, v, metric)

ExperimentsSpec == ExperimentsInit /\ [][ExperimentsNext]_experimentsVars

-----------------------------------------------------------------------------
(* Correctness.                                                            *)

\* Over all hashes each variant gets exactly its share, whatever the order of
\* the variants, and a unit is never assigned two of them
\* (ab_test_manager.py:49-65).
SharesAreHonoured ==
  /\ \A e \in Ids : (\A i \in DOMAIN experiments[e].shares : experiments[e].shares[i] >= 0) =>
       \A i \in DOMAIN experiments[e].shares :
         Cardinality({b \in 0..Grain - 1 : VariantOf(experiments[e], b) = i}) =
           experiments[e].shares[i]
  /\ \A a, b \in answered : a[1] = b[1] /\ a[2] = b[2] => a[3] = b[3]

Beats(a, b) == Cardinality({p \in (DOMAIN a) \X (DOMAIN b) : a[p[1]] > b[p[2]]})
Ties(a, b) == Cardinality({p \in (DOMAIN a) \X (DOMAIN b) : a[p[1]] = b[p[2]]})

\* The ranks count the pairs in which the treatment is ahead, a tie for half
\* of one, and there is a winner of two only when one of them is ahead in more
\* pairs than the other: not always the winner, which has the larger mean
\* (statistical_significance.py:74-101, ab_test_manager.py:89-98).
WinnersAreSound ==
  \A e \in Ids : Len(experiments[e].variants) = 2 =>
    LET a == experiments[e].outcomes[experiments[e].variants[1]]
        b == experiments[e].outcomes[experiments[e].variants[2]]
    IN  /\ DoubledU(a, b) = 2 * Beats(b, a) + Ties(a, b)
        /\ Winner(e) # <<>> => Beats(a, b) # Beats(b, a)

\* An experiment is decided by what was shown and recorded, and by that only.
ExperimentsAreSound == SharesAreHonoured /\ WinnersAreSound
=============================================================================

------------------------------ MODULE Signals -------------------------------
(***************************************************************************)
(* What makes a topic worth writing about now: the events that are on      *)
(* (EventDB, EventMatcher) and the trend of its scores (TrendDetector).    *)
(*                                                                         *)
(* Events are kept in SQLite with their dates as text, and texts are what  *)
(* is compared.  A date is [day, part], part 0 being a date without a time *)
(* of day: the shorter text, which comes before every time of its day.     *)
(* Scores may arrive in any order.  Boosts and thresholds are in per cent, *)
(* a velocity is a fraction <<num, den>>.                                  *)
(***************************************************************************)
EXTENDS Integers, Sequences, FiniteSets, SequencesExt, StableOrder

CONSTANTS
  EventIds,   \* event ids
  Dates,      \* dates events are given: records [day, part]
  Moments,    \* dates with a time of day, at which events are asked for
  Tags,       \* tags of events and nodes
  Boosts,     \* boost multipliers, in per cent
  Inputs,     \* the events insert() and upsert() are called with
  Times,      \* times of scores, in hours of some length
  Scores,     \* scores
  Day,        \* the velocity window, in the same hours
  Window,     \* the acceleration window, in the same hours
  MaxPoints   \* bound: scores that arrive

ASSUME DatesAssumption ==
  /\ Moments \subseteq Dates
  /\ \A d \in Dates : d.day \in Nat /\ d.part \in 0..24
  /\ \A m \in Moments : m.part > 0
ASSUME ScoresAssumption ==
  /\ Times \subseteq Nat /\ Scores \subseteq Nat /\ Day \in Nat /\ Window \in Nat
  /\ MaxPoints \in Nat /\ Boosts \subseteq Nat

VARIABLES
  events,  \* [EventIds -> Rows or NoRow]: the table
  points   \* the scores of a node, as they came: <<[at, score], ...>>

signalsVars == <<events, points>>

Rows == [start : Dates, end : Dates, tags : SUBSET Tags, boost : Boosts]
NoRow == [boost |-> -1]
ASSUME InputsAssumption == Inputs \subseteq Rows
Stored == {e \in EventIds : events[e] # NoRow}

SignalsTypeOK ==
  /\ events \in [EventIds -> Rows \cup {NoRow}]
  /\ points \in Seq([at : Times, score : Scores]) /\ Len(points) <= MaxPoints

SignalsInit ==
  /\ events = [e \in EventIds |-> NoRow]
  /\ points = <<>>

-----------------------------------------------------------------------------
(* The events.                                                             *)

\* A new id; the statement fails on one there is.
InsertEvent(e, row) ==
  /\ events[e] = NoRow
  /\ events' = [events EXCEPT ![e] = row]
  /\ UNCHANGED points

UpsertEvent(e, row) ==
  /\ events' = [events EXCEPT ![e] = row]
  /\ UNCHANGED points

\* a <= b, as texts.
NotAfter(a, b) == a.day < b.day \/ (a.day = b.day /\ a.part <= b.part)

ActiveEvents(at) ==
  {e \in Stored : NotAfter(events[e].start, at) /\ NotAfter(at, events[e].end)}

\* A Jaccard index of 0.30 or more.
Alike(s, t) ==
  s # {} /\ t # {} /\ 100 * Cardinality(s \cap t) >= 30 * Cardinality(s \cup t)

Matching(tags, qids, active) ==
  {e \in active : Alike(tags, events[e].tags) \/ qids \cap events[e].tags # {}}

EventBoost(matched) ==
  LET extra == SumFunctionOnSet([e \in Stored |-> Max({0, events[e].boost - 100})], matched)
  IN Min({300, 100 + extra})

-----------------------------------------------------------------------------
(* The trend.                                                              *)

ScoreArrives(p) ==
  /\ Len(points) < MaxPoints
  /\ points' = Append(points, p)
  /\ UNCHANGED events

Sorted(s) == SortedBy(s, [i \in DOMAIN s |-> s[i].at])

\* The index of the last score that is no later than t, 0 if there is none:
\* the loop ends at the first that is later.
AtOrBefore(s, t) ==
  LET later == {i \in DOMAIN s : s[i].at > t}
  IN IF later = {} THEN Len(s) ELSE Min(later) - 1

Velocity(s) ==
  IF Len(s) < 2 THEN <<0, 1>>
  ELSE LET ordered == Sorted(s)
           now  == Last(ordered)
           i    == AtOrBefore(Front(ordered), now.at - Day)
           past == ordered[IF i = 0 THEN 1 ELSE i].score
       IN IF past = 0 THEN <<0, 1>> ELSE <<now.score - past, past>>

Minus(x, y) == <<x[1] * y[2] - y[1] * x[2], x[2] * y[2]>>
Above(x, percent) == 100 * x[1] > percent * x[2]
Below(x, percent) == 100 * x[1] < percent * x[2]

\* Mutation: the velocity there was is that of all scores before the last.
AccelerationOfTheLast(s) ==
  IF Len(s) < 3 THEN <<0, 1>>
  ELSE LET ordered == Sorted(s)
       IN Minus(Velocity(ordered), Velocity(Front(ordered)))

\* Of scores in order, those from before the window come first.
Acceleration(s) ==
  IF Len(s) < 3 THEN <<0, 1>>
  ELSE LET ordered == Sorted(s)
           sub == SubSeq(ordered, 1, AtOrBefore(ordered, Last(ordered).at - Window))
       IN Minus(Velocity(ordered), IF Len(sub) >= 2 THEN Velocity(sub) ELSE <<0, 1>>)

ClassifyState(v, a) ==
  IF Above(v, 100) THEN "viral"
  ELSE IF Above(v, 20) /\ Above(a, 0) THEN "rising"
  ELSE IF Below(v, -10) THEN "falling"
  ELSE IF Above(v, -5) /\ Below(v, 5) THEN "peaking"
  ELSE "stable"

OptimalWindow(v, a) == ClassifyState(v, a) = "rising" /\ Above(a, 5)

EventsNext == \E e \in EventIds, row \in Inputs : InsertEvent(e, row) \/ UpsertEvent(e, row)
TrendNext == \E at \in Times, score \in Scores : ScoreArrives([at |-> at, score |-> score])
SignalsNext == EventsNext \/ TrendNext

SignalsSpec == SignalsInit /\ [][SignalsNext]_signalsVars

-----------------------------------------------------------------------------
(* Correctness.                                                            *)

\* The hour a date means: the first of its day if it has no time of day, or
\* then the last that it could mean.
Instant(d) == d.day * 24 + Max({0, d.part - 1})
LastInstant(d) == IF d.part = 0 THEN d.day * 24 + 23 ELSE Instant(d)

\* The order of the texts never puts an event on before it starts or after it
\* ends, whatever its dates have for a time of day, and it is on in between;
\* but whether a last day without a time of day belongs to it is left open.  A
\* match makes a topic worth no less, and all of them three times as much at
\* most (event_db.py:92-97, event_matcher.py:36-63).
EventsKeepToTheirDays ==
  \A e \in Stored, m \in Moments :
    LET start == events[e].start
        end   == events[e].end
    IN /\ e \in ActiveEvents(m) =>
            Instant(start) <= Instant(m) /\ Instant(m) <= LastInstant(end)
       /\ /\ Instant(start) <= Instant(m)
          /\ m.day < end.day \/ (end.part > 0 /\ Instant(m) <= Instant(end))
          => e \in ActiveEvents(m)
       /\ \A tags, qids \in SUBSET Tags :
            LET matched == Matching(tags, qids, ActiveEvents(m))
            IN /\ EventBoost(matched) \in 100..300
               /\ EventBoost(matched \ {e}) <= EventBoost(matched)

Latest(set) == CHOOSE p \in set : \A q \in set : q.at <= p.at
Earliest(set) == CHOOSE p \in set : \A q \in set : p.at <= q.at

\* What the velocity is of scores that are a set: the change to the latest
\* from the latest that is a day older, or else from the first.
VelocityOf(set) ==
  LET now   == Latest(set)
      older == {p \in set : p.at <= now.at - Day} \ {now}
      past  == IF older # {} THEN Latest(older) ELSE Earliest(set)
  IN IF Cardinality(set) < 2 \/ past.score = 0 THEN <<0, 1>>
     ELSE <<now.score - past.score, past.score>>

\* The scores from before the acceleration window that ends with the latest.
Early(set) == {p \in set : p.at <= Latest(set).at - Window}

\* The order in which scores arrive does not change the trend: its velocity is
\* that of the scores as a set, and its acceleration the change of that since
\* the window before the latest began, so that scores within the window, other
\* than the latest, do not count for what the velocity was; one that is
\* called viral or rising rose, one that is called falling fell, and the
\* moment to publish is one at which it rises faster than it did
\* (trend_detector.py:55-125).
TrendIgnoresOrder ==
  (\A i, j \in DOMAIN points : i # j => points[i].at # points[j].at) =>
    LET set == ToSet(points)
        v   == Velocity(points)
        a   == Acceleration(points)
    IN /\ v = VelocityOf(set)
       /\ Len(points) >= 3 => a = Minus(v, VelocityOf(Early(set)))
       /\ ClassifyState(v, a) \in {"viral", "rising"} => v[1] > 0
       /\ ClassifyState(v, a) = "falling" => v[1] < 0
       /\ OptimalWindow(v, a) => v[1] > 0 /\ a[1] > 0

\* What a topic is worth now is what its events and its scores say.
SignalsAreSound == EventsKeepToTheirDays /\ TrendIgnoresOrder
=============================================================================

----------------------------- MODULE MCServices -----------------------------
(***************************************************************************)
(* Services for TLC: clocks that differ, shares that add up or do not,     *)
(* events on both sides of midnight, and labels spelt in another order     *)
(* than their hours.                                                       *)
(***************************************************************************)
EXTENDS Services

\* One client's clock is ahead of the others'.
OneAhead == [c \in Clients |-> IF c = CHOOSE d \in Clients : TRUE THEN MaxAhead ELSE 0]

\* Shares that sum up, one that is below zero, some that do not sum up, and a
\* name that is used twice.
SomeSplits ==
  {[variants |-> <<"A", "B">>, shares |-> <<1, 2>>],
   [variants |-> <<"A", "B", "C">>, shares |-> <<1, 0, 2>>],
   [variants |-> <<"A", "B">>, shares |-> <<4, -1>>],
   [variants |-> <<"A", "A">>, shares |-> <<1, 2>>],
   [variants |-> <<"A", "B">>, shares |-> <<1, 1>>],
   [variants |-> <<"A">>, shares |-> <<3>>]}

Ttls == [k \in CacheKeys |-> 2]

\* A day of two times, a date without one, and the next day.
SomeDates == {[day |-> 1, part |-> 0], [day |-> 1, part |-> 1], [day |-> 1, part |-> 13],
              [day |-> 2, part |-> 1]}
SomeMoments == {d \in SomeDates : d.part > 0}

\* Events of every length, worth less, more and much more.
SomeEvents ==
  {[start |-> d, end |-> e, tags |-> Tags, boost |-> 150] : d, e \in SomeDates}
    \cup {[start |-> [day |-> 1, part |-> 0], end |-> [day |-> 2, part |-> 1],
           tags |-> t, boost |-> b] : t \in SUBSET Tags, b \in Boosts}

\* Checkpoints of the configuration, one of another number of hours, and one
\* that is none.
LabelHours == [l \in Labels |->
  CASE l = "24h" -> 24 [] l = "48h" -> 48 [] l = "7d" -> 168 [] l = "30d" -> 720 [] OTHER -> -1]
LabelSpelling == [l \in Labels |->
  CASE l = "24h" -> 1 [] l = "30d" -> 2 [] l = "48h" -> 3 [] l = "7d" -> 4 [] OTHER -> 5]
LabelPercent == [l \in Labels |-> CASE l = "24h" -> 40 [] l = "7d" -> 95 [] OTHER -> 100]

SomeErrors == {-3, 0, 2}
SomeGradients == {-5, -1, 0, 1, 5}
=============================================================================

--------------------------- MODULE MCContentQueue ---------------------------
(***************************************************************************)
(* Instances of ContentQueue for TLC: the fault budgets of the runs.       *)
(***************************************************************************)
EXTENDS ContentQueue

\* Exactly the faults of `kinds` may happen, once each.
Once(kinds) == [k \in FaultKinds |-> IF k \in kinds THEN 1 ELSE 0]

\* Faults that make a job run again, with one dropped write.
RepeatingFaults == Once({"ambiguous", "redeliver", "crash", "metrics", "db"})

\* Faults that lose writes, messages or processes, but repeat nothing.
LosingFaults == [Once({"publish", "kill", "api"}) EXCEPT !["db"] = 2]

\* Nothing but database statements that fail.
DatabaseFaults == Once({"db"})
=============================================================================

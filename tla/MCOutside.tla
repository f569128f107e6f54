------------------------------ MODULE MCOutside -----------------------------
(***************************************************************************)
(* What the system shows to the outside, for TLC: posts on the platforms   *)
(* (Publishing, one saga of three for a platform without a publisher) and  *)
(* the graph on the explorer page (GraphPersistence: two nodes, the edge   *)
(* between them, two runs that share the tables, and a poll that may fail  *)
(* once).  The two share no state, so `part` says which one runs and the   *)
(* other stays as it was initialised.                                      *)
(***************************************************************************)
EXTENDS Publishing, GraphPersistence

CONSTANTS a, b

VARIABLE part

OneEdge == {<<a, b>>}

OutsideInit == Init /\ PersistenceInit /\ part \in {"posts", "page"}

RunPosts(step) == part = "posts" /\ step /\ UNCHANGED <<part, persistence>>
RunPage(step) == part = "page" /\ step /\ UNCHANGED <<part, vars>>

outside == <<part, vars, persistence>>

\* The fairness of FairSpec and of FairPersistenceSpec, for the part that runs.
OutsideSpec ==
  /\ OutsideInit
  /\ [][RunPosts(Next) \/ RunPage(PersistenceNext)]_outside
  /\ \A s \in Sagas : WF_outside(RunPosts(ExecuteStep(s)))
  /\ WF_outside(RunPage(Poll))
  /\ WF_outside(RunPage(Answer \/ AnswerFails))
=============================================================================

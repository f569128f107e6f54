-------------------------- MODULE PublishingProofs --------------------------
(***************************************************************************)
(* What TLAPS proves of Publishing, for any sagas and any number of        *)
(* attempts: types, and what is known of the posts that are live.          *)
(***************************************************************************)
EXTENDS Publishing, TLAPS

\* A saga knows its post, and calls itself published, only once execute()
\* has returned; and an attempt is being made only while one is counted.
NamedAtTheEnd ==
  \A s \in Sagas :
    /\ postId[s] # NoPost \/ status[s] = "published" => at[s] = "returned"
    /\ at[s] = "publishing" => attempts[s] \in Attempts

SagaInv ==
  /\ TypeOK
  /\ NamedAtTheEnd
  /\ EveryPostIsExplained
  /\ PublishedIsLive

LEMMA InitSaga == Init => SagaInv
  BY RetriesAssumption
  DEF Init, SagaInv, TypeOK, NamedAtTheEnd, EveryPostIsExplained, PublishedIsLive,
      NoPost, Attempts, Pcs

\* Whatever the loop does next, it counts a real attempt or ends.
LEMMA NextAttemptTyped ==
  ASSUME TypeOK, NEW s \in Sagas, NextAttempt(s)
  PROVE  /\ attempts' \in [Sagas -> 0..MaxRetries]
         /\ at' \in [Sagas -> Pcs]
         /\ at'[s] \in {"publishing", "exhausted"}
         /\ at'[s] = "publishing" => attempts'[s] \in Attempts
         /\ \A t \in Sagas \ {s} : at'[t] = at[t] /\ attempts'[t] = attempts[t]
  BY RetriesAssumption DEF TypeOK, NextAttempt, Pcs, Attempts

LEMMA StepKeepsTypes ==
  ASSUME SagaInv, NEW s \in Sagas, Create(s) \/ ExecuteStep(s) \/ Undo(s)
  PROVE  TypeOK'
<1> USE DEF SagaInv
<1>1. CASE Create(s)
  BY <1>1 DEF Create, GoTo, Set, TypeOK, SagaStatus, Pcs
<1>2. CASE NoPublisher(s)
  BY <1>2 DEF NoPublisher, GoTo, Set, TypeOK, SagaStatus, Pcs
<1>3. CASE Begin(s)
  BY <1>3, NextAttemptTyped DEF Begin, Set, TypeOK, SagaStatus
<1>4. CASE Answered(s)
  BY <1>4 DEF Answered, GoTo, Set, Store, TypeOK, NamedAtTheEnd, SagaStatus, Pcs
<1>5. CASE AnsweredWithoutId(s)
  BY <1>5 DEF AnsweredWithoutId, GoTo, Set, Store, Unnamed, TypeOK, NamedAtTheEnd,
              SagaStatus, Pcs
<1>6. CASE Refused(s)
  BY <1>6, NextAttemptTyped DEF Refused, TypeOK
<1>7. CASE AnswerLost(s)
  BY <1>7, NextAttemptTyped DEF AnswerLost, Store, Unnamed, TypeOK, NamedAtTheEnd
<1>8. CASE RollBack(s)
  BY <1>8 DEF RollBack, GoTo, Set, Delete, TypeOK, SagaStatus, Pcs
<1>9. CASE MarkFailed(s)
  BY <1>9 DEF MarkFailed, GoTo, Set, TypeOK, SagaStatus, Pcs
<1>10. CASE Undo(s)
  BY <1>10 DEF Undo, Set, Delete, TypeOK, SagaStatus
<1>11. QED
  BY <1>1, <1>2, <1>3, <1>4, <1>5, <1>6, <1>7, <1>8, <1>9, <1>10 DEF ExecuteStep

\* One saga's part of what SagaInv says beyond types.
SagaOK(s) ==
  /\ postId[s] # NoPost \/ status[s] = "published" => at[s] = "returned"
  /\ at[s] = "publishing" => attempts[s] \in Attempts
  /\ posts[s] \subseteq unnamed[s] \cup {postId[s]}
  /\ status[s] = "published" => attempts[s] \in posts[s]

LEMMA StepKeepsSaga ==
  ASSUME SagaInv, NEW s \in Sagas, Create(s) \/ ExecuteStep(s) \/ Undo(s)
  PROVE  SagaOK(s)'
<1>0. TypeOK /\ SagaOK(s)
  BY DEF SagaInv, NamedAtTheEnd, EveryPostIsExplained, PublishedIsLive, SagaOK
<1>1. CASE Create(s)
  BY <1>0, <1>1 DEF Create, GoTo, Set, TypeOK, SagaOK
<1>2. CASE NoPublisher(s)
  BY <1>0, <1>2 DEF NoPublisher, GoTo, Set, TypeOK, SagaOK
<1>3. CASE Begin(s)
  BY <1>0, <1>3, NextAttemptTyped DEF Begin, Set, TypeOK, SagaOK
<1>4. CASE Answered(s)
  <2>1. at[s] = "publishing" /\ postId[s] = NoPost
    BY <1>0, <1>4 DEF Answered, GoTo, SagaOK
  <2>2. posts[s] \subseteq unnamed[s]
    BY <1>0, <2>1 DEF TypeOK, SagaOK, NoPost, Attempts
  <2>3. QED
    BY <1>0, <1>4, <2>2 DEF Answered, GoTo, Set, Store, TypeOK, SagaOK
<1>5. CASE AnsweredWithoutId(s)
  BY <1>0, <1>5 DEF AnsweredWithoutId, GoTo, Set, Store, Unnamed, TypeOK, SagaOK
<1>6. CASE Refused(s)
  BY <1>0, <1>6, NextAttemptTyped DEF Refused, TypeOK, SagaOK
<1>7. CASE AnswerLost(s)
  BY <1>0, <1>7, NextAttemptTyped DEF AnswerLost, Store, Unnamed, TypeOK, SagaOK
<1>8. CASE RollBack(s)
  BY <1>0, <1>8 DEF RollBack, GoTo, Set, Delete, TypeOK, SagaOK
<1>9. CASE MarkFailed(s)
  BY <1>0, <1>9 DEF MarkFailed, GoTo, Set, TypeOK, SagaOK
<1>10. CASE Undo(s)
  BY <1>0, <1>10 DEF Undo, Set, Delete, TypeOK, SagaOK
<1>11. QED
  BY <1>1, <1>2, <1>3, <1>4, <1>5, <1>6, <1>7, <1>8, <1>9, <1>10 DEF ExecuteStep

\* A step of one saga leaves every other alone: they share only a publisher.
LEMMA StepLeavesOthers ==
  ASSUME SagaInv, NEW s \in Sagas, Create(s) \/ ExecuteStep(s) \/ Undo(s),
         NEW t \in Sagas, t # s
  PROVE  /\ status'[t] = status[t] /\ postId'[t] = postId[t]
         /\ attempts'[t] = attempts[t] /\ at'[t] = at[t]
         /\ posts'[t] = posts[t] /\ unnamed'[t] = unnamed[t]
<1> USE DEF SagaInv, TypeOK
<1>1. CASE Create(s) \/ NoPublisher(s) \/ MarkFailed(s)
  BY <1>1 DEF Create, NoPublisher, MarkFailed, GoTo, Set
<1>2. CASE Begin(s) \/ Refused(s) \/ AnswerLost(s)
  BY <1>2, NextAttemptTyped DEF Begin, Refused, AnswerLost, Set, Store, Unnamed
<1>3. CASE Answered(s) \/ AnsweredWithoutId(s)
  BY <1>3 DEF Answered, AnsweredWithoutId, GoTo, Set, Store, Unnamed
<1>4. CASE RollBack(s) \/ Undo(s)
  BY <1>4 DEF RollBack, Undo, GoTo, Set, Delete
<1>5. QED
  BY <1>1, <1>2, <1>3, <1>4 DEF ExecuteStep

LEMMA NextKeepsSaga ==
  ASSUME SagaInv, [Next]_vars
  PROVE  SagaInv'
<1>1. ASSUME NEW s \in Sagas, Create(s) \/ ExecuteStep(s) \/ Undo(s)
      PROVE  SagaInv'
  <2>1. ASSUME NEW t \in Sagas PROVE SagaOK(t)'
    <3>1. CASE t = s
      BY <1>1, <3>1, StepKeepsSaga
    <3>2. CASE t # s
      <4>1. SagaOK(t)
        BY DEF SagaInv, NamedAtTheEnd, EveryPostIsExplained, PublishedIsLive, SagaOK
      <4>2. QED
        BY <1>1, <3>2, <4>1, StepLeavesOthers DEF SagaOK
    <3>3. QED
      BY <3>1, <3>2
  <2>2. TypeOK'
    BY <1>1, StepKeepsTypes
  <2>3. QED
    BY <2>1, <2>2
    DEF SagaInv, NamedAtTheEnd, EveryPostIsExplained, PublishedIsLive, SagaOK
<1>2. CASE UNCHANGED vars
  BY <1>2
  DEF vars, SagaInv, TypeOK, NamedAtTheEnd, EveryPostIsExplained, PublishedIsLive
<1>3. QED
  BY <1>1, <1>2 DEF Next, Done

THEOREM SagaInvariant == Spec => []SagaInv
<1>1. QED
  BY InitSaga, NextKeepsSaga, PTL DEF Spec

\* Every record and every set of posts keeps its type.
THEOREM TypeCorrect == Spec => []TypeOK
<1>1. SagaInv => TypeOK
  BY DEF SagaInv
<1>2. QED
  BY <1>1, SagaInvariant, PTL

\* Whatever is on the platform was named by the answer the saga recorded, or
\* was never named at all (execute and compensate).
THEOREM PostsExplained == Spec => []EveryPostIsExplained
<1>1. SagaInv => EveryPostIsExplained
  BY DEF SagaInv
<1>2. QED
  BY <1>1, SagaInvariant, PTL

\* A saga that says "published" has its last attempt on the platform.
THEOREM PublishedMeansLive == Spec => []PublishedIsLive
<1>1. SagaInv => PublishedIsLive
  BY DEF SagaInv
<1>2. QED
  BY <1>1, SagaInvariant, PTL

\* When execute() compensates there is no post it could delete.
THEOREM NothingToCompensate == Spec => []CompensationIsIdle
<1>1. SagaInv => CompensationIsIdle
  BY DEF SagaInv, NamedAtTheEnd, CompensationIsIdle
<1>2. QED
  BY <1>1, SagaInvariant, PTL
=============================================================================

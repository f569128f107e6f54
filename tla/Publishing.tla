----------------------------- MODULE Publishing -----------------------------
(***************************************************************************)
(* SagaCoordinator: publishing to an external platform with retries and a  *)
(* compensation (delete) when they run out.                                *)
(*                                                                         *)
(* A publish is one HTTP request: the platform may refuse it, may store    *)
(* the post and answer, or may store it and the answer is lost or carries  *)
(* no identifier.  The coordinator learns of a post only from the answer,  *)
(* and keeps its sagas in memory.  Every attempt would create its own post,*)
(* so a post of a saga is named by its attempt.                            *)
(***************************************************************************)
EXTENDS Naturals

CONSTANTS
  Sagas,        \* calls of execute()
  MaxRetries,   \* max_retries: attempts of one saga
  Unsupported   \* sagas for a platform that has no publisher

ASSUME RetriesAssumption == MaxRetries \in Nat
ASSUME UnsupportedAssumption == Unsupported \subseteq Sagas

VARIABLES
  status,    \* [Sagas -> saga["status"], or "none" when there is no record]
  postId,    \* [Sagas -> saga["post_id"]; NoPost when it is not known]
  attempts,  \* [Sagas -> saga["attempts"]]
  at,        \* [Sagas -> where execute() is]
  posts,     \* [Sagas -> the posts that are live on the platform]
  unnamed    \* [Sagas -> attempts whose answer did not name the post (history)]

vars == <<status, postId, attempts, at, posts, unnamed>>

NoPost == 0
Attempts == 1..MaxRetries

SagaStatus == {"pending", "publishing", "published", "failed", "compensating"}

Pcs == {"new", "pending", "publishing", "exhausted", "compensated", "returned"}

TypeOK ==
  /\ status \in [Sagas -> SagaStatus \cup {"none"}]
  /\ postId \in [Sagas -> Attempts \cup {NoPost}]
  /\ attempts \in [Sagas -> 0..MaxRetries]
  /\ at \in [Sagas -> Pcs]
  /\ posts \in [Sagas -> SUBSET Attempts]
  /\ unnamed \in [Sagas -> SUBSET Attempts]

Init ==
  /\ status = [s \in Sagas |-> "none"]
  /\ postId = [s \in Sagas |-> NoPost]
  /\ attempts = [s \in Sagas |-> 0]
  /\ at = [s \in Sagas |-> "new"]
  /\ posts = [s \in Sagas |-> {}]
  /\ unnamed = [s \in Sagas |-> {}]

-----------------------------------------------------------------------------
(* execute()                                                               *)

GoTo(s, from, to) ==
  /\ at[s] = from
  /\ at' = [at EXCEPT ![s] = to]

Set(s, new) == status' = [status EXCEPT ![s] = new]

\* _new_saga()
Create(s) ==
  /\ GoTo(s, "new", "pending")
  /\ Set(s, "pending")
  /\ UNCHANGED <<postId, attempts, posts, unnamed>>

NoPublisher(s) ==
  /\ s \in Unsupported
  /\ GoTo(s, "pending", "returned")
  /\ Set(s, "failed")
  /\ UNCHANGED <<postId, attempts, posts, unnamed>>

\* Mutation: the counter stays where it is.
SameAttempt(s) == at' = at /\ attempts' = attempts

\* Mutation: one attempt too many.
AttemptPastLast(s) ==
  IF attempts[s] <= MaxRetries
    THEN /\ attempts' = [attempts EXCEPT ![s] = @ + 1]
         /\ at' = [at EXCEPT ![s] = "publishing"]
    ELSE /\ at' = [at EXCEPT ![s] = "exhausted"]
         /\ UNCHANGED attempts

\* The loop goes on with the next attempt, or its attempts are used up.
NextAttempt(s) ==
  IF attempts[s] < MaxRetries
    THEN /\ attempts' = [attempts EXCEPT ![s] = @ + 1]
         /\ at' = [at EXCEPT ![s] = "publishing"]
    ELSE /\ at' = [at EXCEPT ![s] = "exhausted"]
         /\ UNCHANGED attempts

Begin(s) ==
  /\ at[s] = "pending"
  /\ s \notin Unsupported
  /\ Set(s, "publishing")
  /\ NextAttempt(s)
  /\ UNCHANGED <<postId, posts, unnamed>>

Store(s) == posts' = [posts EXCEPT ![s] = @ \cup {attempts[s]}]
Unnamed(s) == unnamed' = [unnamed EXCEPT ![s] = @ \cup {attempts[s]}]

\* The publisher returned the identifier: published.
Answered(s) ==
  /\ GoTo(s, "publishing", "returned")
  /\ Set(s, "published")
  /\ Store(s)
  /\ postId' = [postId EXCEPT ![s] = attempts[s]]
  /\ UNCHANGED <<attempts, unnamed>>

\* The answer has no logNo (id): post_id is falsy, and the saga is published.
AnsweredWithoutId(s) ==
  /\ GoTo(s, "publishing", "returned")
  /\ Set(s, "published")
  /\ Store(s)
  /\ Unnamed(s)
  /\ UNCHANGED <<postId, attempts>>

\* publish() raised before the platform stored anything.
Refused(s) ==
  /\ at[s] = "publishing"
  /\ NextAttempt(s)
  /\ UNCHANGED <<status, postId, posts, unnamed>>

\* publish() raised (a timeout) after the platform had stored the post.
AnswerLost(s) ==
  /\ at[s] = "publishing"
  /\ Store(s)
  /\ Unnamed(s)
  /\ NextAttempt(s)
  /\ UNCHANGED <<status, postId>>

\* Mutation: the saga forgets the post, whatever the platform answered.
DeleteForgetsPost(s) ==
  /\ postId' = [postId EXCEPT ![s] = NoPost]
  /\ \/ posts' = [posts EXCEPT ![s] = @ \ {postId[s]}]
     \/ UNCHANGED posts

\* delete(): nothing without an identifier; a False or an error is ignored.
Delete(s) ==
  /\ \/ postId[s] # NoPost /\ posts' = [posts EXCEPT ![s] = @ \ {postId[s]}]
     \/ UNCHANGED posts
  /\ UNCHANGED postId

\* compensate(), called by execute() when the attempts are used up.
RollBack(s) ==
  /\ GoTo(s, "exhausted", "compensated")
  /\ Set(s, "compensating")
  /\ Delete(s)
  /\ UNCHANGED <<attempts, unnamed>>

MarkFailed(s) ==
  /\ GoTo(s, "compensated", "returned")
  /\ Set(s, "failed")
  /\ UNCHANGED <<postId, attempts, posts, unnamed>>

ExecuteStep(s) ==
  \/ NoPublisher(s) \/ Begin(s)
  \/ Answered(s) \/ AnsweredWithoutId(s) \/ Refused(s) \/ AnswerLost(s)
  \/ RollBack(s) \/ MarkFailed(s)

-----------------------------------------------------------------------------
(* compensate(), called by whoever has the saga_id execute() returned.     *)
Undo(s) ==
  /\ at[s] = "returned"
  /\ Set(s, "compensating")
  /\ Delete(s)
  /\ UNCHANGED <<attempts, at, unnamed>>

Done ==
  /\ \A s \in Sagas : at[s] = "returned"
  /\ UNCHANGED vars

Next ==
  \/ \E s \in Sagas : Create(s) \/ ExecuteStep(s) \/ Undo(s)
  \/ Done

Spec == Init /\ [][Next]_vars

\* execute() runs to its end; nobody has to call it, or compensate().
FairSpec == Spec /\ \A s \in Sagas : WF_vars(ExecuteStep(s))

-----------------------------------------------------------------------------
(* Correctness.                                                            *)

\* Every post that is live was named by the answer the saga recorded, or is
\* one whose answer never named it: no retry and no compensation leaves a
\* post behind that the saga knew of (saga_coordinator.py:70-84,97-105).
EveryPostIsExplained ==
  \A s \in Sagas : posts[s] \subseteq unnamed[s] \cup {postId[s]}

\* A published saga's last attempt is on the platform: the loop ends at the
\* first answer, and only compensate() takes a post away.
PublishedIsLive ==
  \A s \in Sagas : status[s] = "published" => attempts[s] \in posts[s]

\* execute() compensates only sagas that know no post, so the delete it asks
\* for never happens; what the platform stored is left to the callers.
CompensationIsIdle ==
  \A s \in Sagas : at[s] \in {"exhausted", "compensated"} => postId[s] = NoPost

\* A failed saga leaves nothing on the platform: when the attempts are used
\* up the coordinator "runs the publisher's compensation (delete) to roll
\* back partial state" (saga_coordinator.py:4-5).
FailedLeavesNothing ==
  \A s \in Sagas : status[s] = "failed" => posts[s] = {}

\* Every saga that is created is answered, whatever its attempts meet.
Returns ==
  \A s \in Sagas : at[s] = "pending" ~> at[s] = "returned"

=============================================================================

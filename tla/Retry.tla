------------------------------- MODULE Retry --------------------------------
(***************************************************************************)
(* The retry() decorator, the same for functions and coroutines: a call    *)
(* that raises a listed exception is made again, after a delay that grows  *)
(* with the attempt; any other exception is the caller's at once.          *)
(***************************************************************************)
EXTENDS Integers

CONSTANTS
  MaxAttempts,  \* max_attempts
  Base,         \* base: seconds
  MaxDelay      \* max_delay: seconds

\* With no attempt at all there is no exception to raise: an assertion fails.
ASSUME RetryAssumption == MaxAttempts \in Nat \ {0} /\ Base \in Nat /\ MaxDelay \in Nat

VARIABLES
  strategy,  \* the strategy of the decorator
  attempt,   \* the attempt that is made
  call,      \* "running", "sleeping", "returned", "raised" or "passed" on
  slept      \* seconds slept

retryVars == <<strategy, attempt, call, slept>>

Strategies == {"linear", "fibonacci", "exponential"}

RetryTypeOK ==
  /\ strategy \in Strategies
  /\ attempt \in 1..MaxAttempts /\ slept \in Nat
  /\ call \in {"running", "sleeping", "returned", "raised", "passed"}

RetryInit ==
  /\ strategy \in Strategies
  /\ attempt = 1 /\ call = "running" /\ slept = 0

-----------------------------------------------------------------------------

\* By how much the delay before attempt n + 1 is longer than "base".
Factor(how, n) ==
  LET factor[i \in 1..n] ==
        IF i = 1 THEN 1
        ELSE CASE how = "linear" -> factor[i - 1] + 1
               [] how = "fibonacci" -> IF i = 2 THEN 1 ELSE factor[i - 1] + factor[i - 2]
               [] how = "exponential" -> 2 * factor[i - 1]
  IN factor[n]

\* compute_delay(), without its jitter.
ComputeDelay(how, n) ==
  IF Base * Factor(how, n) <= MaxDelay THEN Base * Factor(how, n) ELSE MaxDelay

Returns(by) ==
  /\ call = "running"
  /\ call' = by
  /\ UNCHANGED <<strategy, attempt, slept>>

\* Mutation: one attempt more than max_attempts.
FailsOnceMore ==
  /\ call = "running"
  /\ call' = IF attempt > MaxAttempts THEN "raised" ELSE "sleeping"
  /\ UNCHANGED <<strategy, attempt, slept>>

\* A listed exception.
Fails ==
  /\ call = "running"
  /\ call' = IF attempt = MaxAttempts THEN "raised" ELSE "sleeping"
  /\ UNCHANGED <<strategy, attempt, slept>>

\* Jitter makes the delay any part of itself.
Sleep ==
  /\ call = "sleeping"
  /\ \E d \in 0..ComputeDelay(strategy, attempt) : slept' = slept + d
  /\ attempt' = attempt + 1
  /\ call' = "running"
  /\ UNCHANGED strategy

RetryNext == Returns("returned") \/ Returns("passed") \/ Fails \/ Sleep

RetrySpec == RetryInit /\ [][RetryNext]_retryVars

-----------------------------------------------------------------------------
(* Correctness.                                                            *)

\* Whatever the strategy, no delay is shorter than one before it, up to
\* max_delay: so a call has never slept longer than its next delay would be,
\* once for each attempt it has made, and it gives up only after all of them
\* (retry.py:34-46, 70-93, 98-117).
BackoffGrows ==
  /\ call = "raised" => attempt = MaxAttempts
  /\ slept <= (attempt - 1) * ComputeDelay(strategy, attempt)
=============================================================================

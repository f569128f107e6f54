----------------------------- MODULE Collector ------------------------------
(***************************************************************************)
(* One BaseCollector shared by concurrent collect() coroutines: the token  *)
(* bucket and the circuit breaker in front of the platform's API, the      *)
(* retry loop with its sleeps, and the dead-letter queue behind it.        *)
(*                                                                         *)
(* The coroutines run on one event loop, so a step is what happens between *)
(* two awaits (fetch and sleep).  Time passes in ticks of TokenBucket's    *)
(* refill interval; a fetch and a sleep may take any number of ticks.      *)
(***************************************************************************)
EXTENDS Naturals, FiniteSets

CONSTANTS
  Callers,           \* coroutines that call collect(), each one call at a time
  Capacity,          \* api_quota_per_day: the tokens a full bucket holds
  FailureThreshold,  \* consecutive failures that open the circuit
  ResetTimeout,      \* ticks after which an open circuit lets a probe through
  MaxAttempts        \* max_retries: fetches of one call

ASSUME CallersAssumption == Callers # {} /\ IsFiniteSet(Callers)
ASSUME CapacityAssumption == Capacity \in Nat \ {0}
ASSUME ThresholdAssumption == FailureThreshold \in Nat \ {0}
ASSUME TimeoutAssumption == ResetTimeout \in Nat \ {0}
ASSUME AttemptsAssumption == MaxAttempts \in Nat \ {0}

VARIABLES
  state,     \* CircuitBreaker._state
  failures,  \* CircuitBreaker._failures (saturates at FailureThreshold)
  age,       \* ticks since _opened_at (saturates at ResetTimeout)
  tokens,    \* TokenBucket._tokens
  pc,        \* [Callers -> where the coroutine is]
  attempt,   \* [Callers -> the fetch its call is at; 0 outside a call]
  dlq,       \* the callers whose failed calls wait in the dead-letter queue
  up,        \* whether the platform answers
  leaked     \* fetches begun while the circuit was open (history, this period)

breaker == <<state, failures, age>>
vars == <<breaker, tokens, pc, attempt, dlq, up, leaked>>

TypeOK ==
  /\ state \in {"closed", "open", "half_open"}
  /\ failures \in 0..FailureThreshold
  /\ age \in 0..ResetTimeout
  /\ tokens \in 0..Capacity
  /\ pc \in [Callers -> {"idle", "fetching", "sleeping"}]
  /\ attempt \in [Callers -> 0..MaxAttempts]
  /\ \A c \in Callers : pc[c] = "idle" <=> attempt[c] = 0
  /\ dlq \subseteq Callers
  /\ up \in BOOLEAN
  /\ leaked \in Nat

Init ==
  /\ state = "closed"
  /\ failures = 0
  /\ age = 0
  /\ tokens = Capacity
  /\ pc = [c \in Callers |-> "idle"]
  /\ attempt = [c \in Callers |-> 0]
  /\ dlq = {}
  /\ up \in BOOLEAN
  /\ leaked = 0

-----------------------------------------------------------------------------
(* CircuitBreaker and TokenBucket.                                         *)

TimedOut == state = "open" /\ age >= ResetTimeout

\* _current_state(): reading the state turns a timed-out circuit half-open.
CurrentState == IF TimedOut THEN "half_open" ELSE state

\* Mutation: an open circuit rejects nothing.
AllowsAlways == TRUE

\* allow(), as a guard; every caller of it also sets state' = CurrentState.
Allows == CurrentState # "open"

\* Mutation: the counter survives a success.
RecordSuccessKeepsCount ==
  /\ state' = "closed"
  /\ UNCHANGED <<failures, age>>

\* Mutation: a success clears the counter but not the state.
RecordSuccessKeepsState ==
  /\ failures' = 0
  /\ UNCHANGED <<state, age>>

RecordSuccess ==
  /\ failures' = 0
  /\ state' = "closed"
  /\ UNCHANGED age

Failures == IF failures < FailureThreshold THEN failures + 1 ELSE failures

\* At the threshold the circuit opens, or stays open for a new period.
RecordFailure ==
  /\ failures' = Failures
  /\ IF Failures >= FailureThreshold
       THEN state' = "open" /\ age' = 0
       ELSE UNCHANGED <<state, age>>

\* Mutation: the bucket overflows.
RefilledPastCapacity == tokens + 1

\* _refill(): one token a tick, up to the capacity.
Refilled == IF tokens < Capacity THEN tokens + 1 ELSE tokens

\* The history counts fetches begun in an open period; it ends with it.
CountLeak(begins) ==
  leaked' = IF state' # "open" THEN 0
            ELSE IF begins THEN leaked + 1 ELSE leaked

-----------------------------------------------------------------------------
(* collect().                                                              *)

\* quota_exhausted: nothing was tried.
CallWithoutToken(c) ==
  /\ pc[c] = "idle"
  /\ tokens = 0
  /\ UNCHANGED vars

\* circuit_open: the token is spent, but nothing is tried.
CallWhileOpen(c) ==
  /\ pc[c] = "idle"
  /\ tokens > 0
  /\ ~Allows
  /\ tokens' = tokens - 1
  /\ UNCHANGED <<breaker, pc, attempt, dlq, up, leaked>>

Call(c) ==
  /\ pc[c] = "idle"
  /\ tokens > 0
  /\ Allows
  /\ tokens' = tokens - 1
  /\ state' = CurrentState
  /\ pc' = [pc EXCEPT ![c] = "fetching"]
  /\ attempt' = [attempt EXCEPT ![c] = 1]
  /\ CountLeak(TRUE)
  /\ UNCHANGED <<failures, age, dlq, up>>

Return(c) ==
  /\ pc' = [pc EXCEPT ![c] = "idle"]
  /\ attempt' = [attempt EXCEPT ![c] = 0]

FetchSucceeds(c) ==
  /\ pc[c] = "fetching"
  /\ up
  /\ RecordSuccess
  /\ Return(c)
  /\ CountLeak(FALSE)
  /\ UNCHANGED <<tokens, dlq, up>>

\* The last attempt, or the circuit is open now: dead letter, and [] returned.
FetchGivesUp(c) ==
  /\ pc[c] = "fetching"
  /\ ~up
  /\ RecordFailure
  /\ attempt[c] = MaxAttempts \/ state' = "open"
  /\ dlq' = dlq \cup {c}
  /\ Return(c)
  /\ CountLeak(FALSE)
  /\ UNCHANGED <<tokens, up>>

FetchWillRetry(c) ==
  /\ pc[c] = "fetching"
  /\ ~up
  /\ RecordFailure
  /\ attempt[c] # MaxAttempts /\ state' # "open"
  /\ pc' = [pc EXCEPT ![c] = "sleeping"]
  /\ CountLeak(FALSE)
  /\ UNCHANGED <<tokens, attempt, dlq, up>>

\* After the sleep the next fetch begins; the circuit is not asked again.
Wake(c) ==
  /\ pc[c] = "sleeping"
  /\ pc' = [pc EXCEPT ![c] = "fetching"]
  /\ attempt' = [attempt EXCEPT ![c] = @ + 1]
  /\ UNCHANGED <<breaker, tokens, dlq, up>>
  /\ CountLeak(TRUE)

\* What goes on in a call that has begun.
UnderWay(c) ==
  FetchSucceeds(c) \/ FetchGivesUp(c) \/ FetchWillRetry(c) \/ Wake(c)

CollectStep(c) ==
  CallWithoutToken(c) \/ CallWhileOpen(c) \/ Call(c) \/ UnderWay(c)

-----------------------------------------------------------------------------
(* The rest of the process and the world.                                  *)

\* health_check() reads the state through the same property.
HealthCheck ==
  /\ state' = CurrentState
  /\ CountLeak(FALSE)
  /\ UNCHANGED <<failures, age, tokens, pc, attempt, dlq, up>>

Drain ==
  /\ dlq' = {}
  /\ UNCHANGED <<breaker, tokens, pc, attempt, up, leaked>>

Tick ==
  /\ tokens' = Refilled
  /\ age' = IF state = "open" /\ age < ResetTimeout THEN age + 1 ELSE age
  /\ UNCHANGED <<state, failures, pc, attempt, dlq, up, leaked>>

PlatformTurns ==
  /\ up' = ~up
  /\ UNCHANGED <<breaker, tokens, pc, attempt, dlq, leaked>>

Next ==
  \/ \E c \in Callers : CollectStep(c)
  \/ HealthCheck \/ Drain \/ Tick \/ PlatformTurns

Spec == Init /\ [][Next]_vars

\* The event loop resumes every coroutine, the client's timeouts end every
\* fetch, and time passes.  Nothing in the repository makes a collector's
\* calls go on (the daily flow's _collect_live() returns no documents), so no
\* call is fair: what the calls bring about is said of runs that have them.
Fairness ==
  /\ \A c \in Callers : WF_vars(UnderWay(c))
  /\ WF_vars(Tick)

FairSpec == Spec /\ Fairness

-----------------------------------------------------------------------------
(* Correctness.                                                            *)

\* State and counter of the breaker never disagree: a closed circuit has
\* fewer failures than open it, and an open or probing one exactly that many,
\* whatever late answers concurrent fetches bring (base_collector.py:109-119).
BreakerConsistent ==
  state = "closed" <=> failures < FailureThreshold

\* The circuit is not asked again after a sleep (base_collector.py:310), so
\* fetches do start while it is open; but each coroutine that was asleep when
\* it opened starts one at most, and the one that opened it none.
LeakIsBounded ==
  leaked + 1 <= Cardinality(Callers)

\* One failed probe is enough to open a half-open circuit again: the counter
\* is kept through the open period (base_collector.py:96-102,114-119).
HalfOpenFailureReopens ==
  [][\A c \in Callers :
       /\ state = "half_open"
       /\ FetchGivesUp(c) \/ FetchWillRetry(c)
       => state' = "open" /\ age' = 0]_vars

\* An open circuit stays open until its timeout has passed
\* (base_collector.py:79-80).
StaysOpen ==
  [][state = "open" /\ age < ResetTimeout => state' = "open"]_vars

\* Somebody does not stop calling: whenever a call would do something, it is
\* made at last.
CallsGoOn ==
  \E c \in Callers : WF_vars(CallWhileOpen(c) \/ Call(c))

\* Once the platform answers for good, the circuit closes for good for those
\* who keep calling: neither an empty bucket, nor the rejected calls that
\* empty it, nor fetches still under way keep the probe away
\* (base_collector.py:96-112,284-310).
Recovers ==
  <>[]up /\ CallsGoOn => <>[](state = "closed")

=============================================================================

-------------------------- MODULE CollectorProofs ---------------------------
(***************************************************************************)
(* What TLAPS proves of Collector, for any number of coroutines and any    *)
(* quota, threshold, timeout and number of attempts: types, the agreement  *)
(* of the breaker's state with its counter, what one failed probe does,    *)
(* and how many fetches can begin while the circuit is open.               *)
(***************************************************************************)
EXTENDS Collector, FiniteSetTheorems, TLAPS

\* A coroutine sleeps only before a fetch it still has.
AttemptsLeft == \A c \in Callers : pc[c] = "sleeping" => attempt[c] < MaxAttempts

BreakerInv == TypeOK /\ BreakerConsistent /\ AttemptsLeft

LEMMA InitBreaker == Init => BreakerInv
  BY ThresholdAssumption, TimeoutAssumption, AttemptsAssumption, CapacityAssumption
  DEF Init, BreakerInv, TypeOK, BreakerConsistent, AttemptsLeft

\* The three operations of the breaker keep its state and counter in step.
LEMMA SuccessKeeps ==
  ASSUME BreakerInv, RecordSuccess
  PROVE  /\ state' \in {"closed", "open", "half_open"}
         /\ failures' \in 0..FailureThreshold
         /\ age' \in 0..ResetTimeout
         /\ BreakerConsistent'
  BY ThresholdAssumption
  DEF BreakerInv, TypeOK, BreakerConsistent, RecordSuccess

LEMMA FailureKeeps ==
  ASSUME BreakerInv, RecordFailure
  PROVE  /\ state' \in {"closed", "open", "half_open"}
         /\ failures' \in 0..FailureThreshold
         /\ age' \in 0..ResetTimeout
         /\ BreakerConsistent'
  BY ThresholdAssumption, TimeoutAssumption
  DEF BreakerInv, TypeOK, BreakerConsistent, RecordFailure, Failures

LEMMA ReadKeeps ==
  ASSUME BreakerInv, state' = CurrentState, UNCHANGED <<failures, age>>
  PROVE  /\ state' \in {"closed", "open", "half_open"}
         /\ failures' \in 0..FailureThreshold
         /\ age' \in 0..ResetTimeout
         /\ BreakerConsistent'
  BY DEF BreakerInv, TypeOK, BreakerConsistent, CurrentState, TimedOut

LEMMA LeakTyped ==
  ASSUME BreakerInv, NEW b \in BOOLEAN, CountLeak(b)
  PROVE  leaked' \in Nat
  BY DEF BreakerInv, TypeOK, CountLeak

\* The part of the invariant about the coroutines themselves.
Coroutines ==
  /\ pc \in [Callers -> {"idle", "fetching", "sleeping"}]
  /\ attempt \in [Callers -> 0..MaxAttempts]
  /\ \A c \in Callers : pc[c] = "idle" <=> attempt[c] = 0
  /\ AttemptsLeft

LEMMA ReturnKeeps ==
  ASSUME Coroutines, NEW c \in Callers, Return(c)
  PROVE  Coroutines'
<1>1. /\ pc' \in [Callers -> {"idle", "fetching", "sleeping"}]
      /\ attempt' \in [Callers -> 0..MaxAttempts]
  BY AttemptsAssumption DEF Coroutines, Return
<1>2. ASSUME NEW d \in Callers
      PROVE  /\ pc'[d] = "idle" <=> attempt'[d] = 0
             /\ pc'[d] = "sleeping" => attempt'[d] < MaxAttempts
  BY DEF Coroutines, Return, AttemptsLeft
<1>3. QED
  BY <1>1, <1>2 DEF Coroutines, AttemptsLeft

LEMMA SleepKeeps ==
  ASSUME Coroutines, NEW c \in Callers, FetchWillRetry(c)
  PROVE  Coroutines'
<1>1. /\ pc' \in [Callers -> {"idle", "fetching", "sleeping"}]
      /\ attempt' = attempt
      /\ pc[c] = "fetching" /\ attempt[c] # MaxAttempts
  BY DEF Coroutines, FetchWillRetry
<1>2. attempt[c] < MaxAttempts
  BY <1>1, AttemptsAssumption DEF Coroutines
<1>3. ASSUME NEW d \in Callers
      PROVE  /\ pc'[d] = "idle" <=> attempt'[d] = 0
             /\ pc'[d] = "sleeping" => attempt'[d] < MaxAttempts
  BY <1>1, <1>2 DEF Coroutines, FetchWillRetry, AttemptsLeft
<1>4. QED
  BY <1>1, <1>3 DEF Coroutines, AttemptsLeft

LEMMA WakeKeeps ==
  ASSUME Coroutines, NEW c \in Callers, Wake(c)
  PROVE  Coroutines'
<1>1. pc[c] = "sleeping" /\ attempt[c] \in 0..MaxAttempts /\ attempt[c] < MaxAttempts
  BY DEF Coroutines, Wake, AttemptsLeft
<1>2. attempt[c] + 1 \in 1..MaxAttempts
  BY <1>1, AttemptsAssumption
<1>3. /\ pc' \in [Callers -> {"idle", "fetching", "sleeping"}]
      /\ attempt' \in [Callers -> 0..MaxAttempts]
  BY <1>2 DEF Coroutines, Wake
<1>4. ASSUME NEW d \in Callers
      PROVE  /\ pc'[d] = "idle" <=> attempt'[d] = 0
             /\ pc'[d] = "sleeping" => attempt'[d] < MaxAttempts
  BY <1>2 DEF Coroutines, Wake, AttemptsLeft
<1>5. QED
  BY <1>3, <1>4 DEF Coroutines, AttemptsLeft

LEMMA CollectKeepsBreaker ==
  ASSUME BreakerInv, NEW c \in Callers, CollectStep(c)
  PROVE  BreakerInv'
<1> USE DEF BreakerInv
<1>0. Coroutines
  BY DEF Coroutines, TypeOK
<1>1. CASE CallWithoutToken(c)
  BY <1>1 DEF CallWithoutToken, TypeOK, BreakerConsistent, AttemptsLeft, vars, breaker
<1>2. CASE CallWhileOpen(c)
  BY <1>2, CapacityAssumption
  DEF CallWhileOpen, TypeOK, BreakerConsistent, AttemptsLeft, breaker
<1>3. CASE Call(c)
  <2>1. BreakerConsistent' /\ state' \in {"closed", "open", "half_open"}
    BY <1>3, ReadKeeps DEF Call
  <2>2. leaked' \in Nat
    BY <1>3, LeakTyped DEF Call
  <2>3. QED
    BY <1>3, <2>1, <2>2, CapacityAssumption, AttemptsAssumption
    DEF Call, TypeOK, AttemptsLeft
<1>4. CASE FetchSucceeds(c)
  <2>1. RecordSuccess /\ CountLeak(FALSE)
    BY <1>4 DEF FetchSucceeds
  <2>2. Coroutines'
    BY <1>0, <1>4, ReturnKeeps DEF FetchSucceeds
  <2>3. QED
    BY <1>4, <2>1, <2>2, SuccessKeeps, LeakTyped DEF FetchSucceeds, Coroutines, TypeOK
<1>5. CASE FetchGivesUp(c)
  <2>1. RecordFailure /\ CountLeak(FALSE)
    BY <1>5 DEF FetchGivesUp
  <2>2. Coroutines'
    BY <1>0, <1>5, ReturnKeeps DEF FetchGivesUp
  <2>3. QED
    BY <1>5, <2>1, <2>2, FailureKeeps, LeakTyped DEF FetchGivesUp, Coroutines, TypeOK
<1>6. CASE FetchWillRetry(c)
  <2>1. RecordFailure /\ CountLeak(FALSE)
    BY <1>6 DEF FetchWillRetry
  <2>2. Coroutines'
    BY <1>0, <1>6, SleepKeeps
  <2>3. QED
    BY <1>6, <2>1, <2>2, FailureKeeps, LeakTyped DEF FetchWillRetry, Coroutines, TypeOK
<1>7. CASE Wake(c)
  <2>1. leaked' \in Nat
    BY <1>7, LeakTyped DEF Wake
  <2>2. Coroutines'
    BY <1>0, <1>7, WakeKeeps
  <2>3. QED
    BY <1>7, <2>1, <2>2 DEF Wake, breaker, Coroutines, TypeOK, BreakerConsistent
<1>8. QED
  BY <1>1, <1>2, <1>3, <1>4, <1>5, <1>6, <1>7 DEF CollectStep, UnderWay

LEMMA NextKeepsBreaker ==
  ASSUME BreakerInv, [Next]_vars
  PROVE  BreakerInv'
<1>1. CASE \E c \in Callers : CollectStep(c)
  BY <1>1, CollectKeepsBreaker
<1>2. CASE HealthCheck
  BY <1>2, ReadKeeps, LeakTyped DEF HealthCheck, BreakerInv, TypeOK, AttemptsLeft
<1>3. CASE Drain
  BY <1>3 DEF Drain, breaker, BreakerInv, TypeOK, BreakerConsistent, AttemptsLeft
<1>4. CASE Tick
  BY <1>4, CapacityAssumption, TimeoutAssumption
  DEF Tick, Refilled, BreakerInv, TypeOK, BreakerConsistent, AttemptsLeft
<1>5. CASE PlatformTurns
  BY <1>5 DEF PlatformTurns, breaker, BreakerInv, TypeOK, BreakerConsistent, AttemptsLeft
<1>6. CASE UNCHANGED vars
  BY <1>6 DEF vars, breaker, BreakerInv, TypeOK, BreakerConsistent, AttemptsLeft
<1>7. QED
  BY <1>1, <1>2, <1>3, <1>4, <1>5, <1>6 DEF Next

THEOREM BreakerInvariant == Spec => []BreakerInv
<1>1. QED
  BY InitBreaker, NextKeepsBreaker, PTL DEF Spec

\* Every variable of the collector keeps its type.
THEOREM TypeCorrect == Spec => []TypeOK
<1>1. BreakerInv => TypeOK
  BY DEF BreakerInv
<1>2. QED
  BY <1>1, BreakerInvariant, PTL

\* A closed circuit has fewer failures than open it, and no other has
\* (CircuitBreaker, base_collector.py:76-119).
THEOREM BreakerAgrees == Spec => []BreakerConsistent
<1>1. BreakerInv => BreakerConsistent
  BY DEF BreakerInv
<1>2. QED
  BY <1>1, BreakerInvariant, PTL

\* One failed probe opens a half-open circuit again, whatever the threshold:
\* the counter of a half-open circuit is still at it.
THEOREM OneProbeReopens == Spec => HalfOpenFailureReopens
<1>1. ASSUME BreakerInv, [Next]_vars
      PROVE  [\A c \in Callers :
                /\ state = "half_open"
                /\ FetchGivesUp(c) \/ FetchWillRetry(c)
                => state' = "open" /\ age' = 0]_vars
  <2>1. SUFFICES ASSUME NEW c \in Callers, state = "half_open", RecordFailure
                 PROVE  state' = "open" /\ age' = 0
    BY DEF FetchGivesUp, FetchWillRetry
  <2>2. failures = FailureThreshold
    BY <1>1, <2>1, ThresholdAssumption DEF BreakerInv, TypeOK, BreakerConsistent
  <2>3. QED
    BY <2>1, <2>2, ThresholdAssumption DEF RecordFailure, Failures
<1>2. QED
  BY <1>1, BreakerInvariant, PTL DEF Spec, HalfOpenFailureReopens

-----------------------------------------------------------------------------
(* Fetches that begin while the circuit is open.                           *)

Asleep == {c \in Callers : pc[c] = "sleeping"}

\* A leak is counted in an open period only, and each one used up a coroutine
\* that was asleep when the circuit opened; the one that opened it was not.
LeakInv ==
  /\ state # "open" => leaked = 0
  /\ state = "open" => leaked + Cardinality(Asleep) + 1 <= Cardinality(Callers)

LEMMA AsleepIsFinite ==
  ASSUME TypeOK
  PROVE  /\ IsFiniteSet(Asleep)
         /\ Cardinality(Asleep) \in Nat
         /\ Cardinality(Callers) \in Nat
<1>1. IsFiniteSet(Callers) /\ IsFiniteSet(Asleep)
  BY CallersAssumption, FS_Subset DEF Asleep
<1> QED BY <1>1, FS_CardinalityType

\* Among the coroutines there is one that is awake, so fewer sleep than exist.
LEMMA AwakeCounts ==
  ASSUME TypeOK, NEW c \in Callers, pc[c] # "sleeping"
  PROVE  Cardinality(Asleep) + 1 <= Cardinality(Callers)
<1>1. Asleep \subseteq Callers \ {c}
  BY DEF Asleep
<1>2. /\ IsFiniteSet(Callers \ {c})
      /\ Cardinality(Callers \ {c}) = Cardinality(Callers) - 1
  BY CallersAssumption, FS_RemoveElement
<1>3. Cardinality(Asleep) <= Cardinality(Callers \ {c})
  BY <1>1, <1>2, FS_Subset
<1> QED BY <1>2, <1>3, AsleepIsFinite

\* A coroutine that wakes up makes one fewer asleep.
LEMMA WakeCounts ==
  ASSUME TypeOK, NEW c \in Callers, pc[c] = "sleeping", pc' = [pc EXCEPT ![c] = "fetching"]
  PROVE  Cardinality(Asleep') = Cardinality(Asleep) - 1
<1>1. Asleep' = Asleep \ {c} /\ c \in Asleep
  BY DEF Asleep, TypeOK
<1> QED BY <1>1, AsleepIsFinite, FS_RemoveElement

\* Steps that put nobody to sleep and begin no fetch.
LEMMA QuietKeepsLeak ==
  ASSUME TypeOK, LeakInv, TypeOK', Asleep' \subseteq Asleep,
         state' = "open" => state = "open" /\ leaked' = leaked,
         state' # "open" => leaked' = 0
  PROVE  LeakInv'
<1>1. Cardinality(Asleep') <= Cardinality(Asleep) /\ Cardinality(Asleep') \in Nat
  BY AsleepIsFinite, FS_Subset, FS_CardinalityType
<1> QED BY <1>1, AsleepIsFinite DEF LeakInv, TypeOK

LEMMA CollectKeepsLeak ==
  ASSUME BreakerInv, LeakInv, BreakerInv', NEW c \in Callers, CollectStep(c)
  PROVE  LeakInv'
<1>0. TypeOK /\ TypeOK'
  BY DEF BreakerInv
<1>1. CASE CallWithoutToken(c) \/ CallWhileOpen(c)
  <2>1. state' = state /\ leaked' = leaked /\ Asleep' = Asleep
    BY <1>1 DEF CallWithoutToken, CallWhileOpen, vars, breaker, Asleep
  <2> QED BY <1>0, <2>1, QuietKeepsLeak DEF LeakInv
<1>2. CASE Call(c)
  <2>1. state' # "open" /\ leaked' = 0
    BY <1>2 DEF Call, Allows, CountLeak
  <2> QED BY <2>1 DEF LeakInv
<1>3. CASE FetchSucceeds(c)
  <2>1. state' # "open" /\ leaked' = 0
    BY <1>3 DEF FetchSucceeds, RecordSuccess, CountLeak
  <2> QED BY <2>1 DEF LeakInv
<1>4. CASE FetchGivesUp(c)
  <2>1. /\ leaked' = IF state' # "open" THEN 0 ELSE leaked
        /\ Asleep' \subseteq Asleep /\ pc[c] # "sleeping"
    BY <1>0, <1>4 DEF FetchGivesUp, Return, CountLeak, Asleep, TypeOK
  <2>2. CASE state # "open" /\ state' = "open"
    <3>1. leaked' = 0
      BY <2>1, <2>2 DEF LeakInv
    <3>2. Cardinality(Asleep) + 1 <= Cardinality(Callers)
      BY <1>0, <2>1, AwakeCounts
    <3>3. Cardinality(Asleep') <= Cardinality(Asleep) /\ Cardinality(Asleep') \in Nat
      BY <1>0, <2>1, AsleepIsFinite, FS_Subset, FS_CardinalityType
    <3> QED BY <2>2, <3>1, <3>2, <3>3, AsleepIsFinite, <1>0 DEF LeakInv
  <2>3. CASE ~ (state # "open" /\ state' = "open")
    BY <1>0, <2>1, <2>3, QuietKeepsLeak
  <2> QED BY <2>2, <2>3
<1>5. CASE FetchWillRetry(c)
  <2>1. state' # "open" /\ leaked' = 0
    BY <1>5 DEF FetchWillRetry, CountLeak
  <2> QED BY <2>1 DEF LeakInv
<1>6. CASE Wake(c)
  <2>1. state' = state /\ leaked' = (IF state # "open" THEN 0 ELSE leaked + 1)
    BY <1>6 DEF Wake, breaker, CountLeak
  <2>2. Cardinality(Asleep') = Cardinality(Asleep) - 1
    BY <1>0, <1>6, WakeCounts DEF Wake
  <2> QED BY <1>0, <2>1, <2>2, AsleepIsFinite DEF LeakInv, TypeOK
<1> QED BY <1>1, <1>2, <1>3, <1>4, <1>5, <1>6 DEF CollectStep, UnderWay

LEMMA NextKeepsLeak ==
  ASSUME BreakerInv, LeakInv, [Next]_vars
  PROVE  LeakInv'
<1>0. BreakerInv' /\ TypeOK /\ TypeOK'
  BY NextKeepsBreaker DEF BreakerInv
<1>1. CASE \E c \in Callers : CollectStep(c)
  BY <1>0, <1>1, CollectKeepsLeak
<1>2. CASE HealthCheck
  <2>1. Asleep' = Asleep
    BY <1>2 DEF HealthCheck, Asleep
  <2>2. /\ state' = "open" => state = "open" /\ leaked' = leaked
        /\ state' # "open" => leaked' = 0
    BY <1>2 DEF HealthCheck, CountLeak, CurrentState
  <2> QED BY <1>0, <2>1, <2>2, QuietKeepsLeak
<1>3. CASE Drain \/ Tick \/ PlatformTurns \/ UNCHANGED vars
  <2>1. state' = state /\ leaked' = leaked /\ Asleep' = Asleep
    BY <1>3 DEF Drain, Tick, PlatformTurns, vars, breaker, Asleep
  <2> QED BY <1>0, <2>1, QuietKeepsLeak DEF LeakInv
<1> QED BY <1>1, <1>2, <1>3 DEF Next

\* However the coroutines are interleaved, fewer fetches than there are
\* coroutines begin in one open period: the retry loop does not ask the
\* circuit again after its sleep, and everybody who sleeps while it is open
\* was asleep when it opened (base_collector.py:collect, :109-119).
THEOREM LeakBounded == Spec => []LeakIsBounded
<1>1. BreakerInv /\ LeakInv => LeakIsBounded
  <2> SUFFICES ASSUME BreakerInv, LeakInv PROVE leaked + 1 <= Cardinality(Callers)
    BY DEF LeakIsBounded
  <2>1. Cardinality(Callers) # 0
    BY CallersAssumption, FS_EmptySet
  <2> QED BY <2>1, AsleepIsFinite DEF LeakInv, BreakerInv, TypeOK
<1>2. Init => LeakInv
  BY DEF Init, LeakInv
<1>3. BreakerInv /\ LeakInv /\ [Next]_vars => LeakInv'
  BY NextKeepsLeak
<1> QED BY <1>1, <1>2, <1>3, BreakerInvariant, PTL DEF Spec
=============================================================================

---------------------------- MODULE RateLimiter -----------------------------
(***************************************************************************)
(* The token bucket that processes share through Redis, and the bucket of  *)
(* its own that each of them falls back to.  The script in Redis takes the *)
(* time from its caller, whose clock may be ahead of the others' clocks.   *)
(*                                                                         *)
(* Time is counted in ticks; an acquire() asks for one token.  Redis is    *)
(* external: a call may fail before or after the script has run, a bucket  *)
(* expires when it was not used for an hour or is evicted before that, and *)
(* a restart brings back what the last snapshot had                        *)
(* (docker-compose.prod.yml: allkeys-lru, save 60 1).                      *)
(***************************************************************************)
EXTENDS Integers, FiniteSets

CONSTANTS
  Clients,      \* processes that share the key
  Ahead,        \* [Clients -> Nat]: how far time.time() of one is ahead
  MaxAhead,     \* a bound of Ahead
  Capacity,     \* capacity
  RefillRate,   \* refill_rate, per tick
  MaxTime,      \* bound: ticks that pass
  MaxGranted,   \* bound: tokens that are granted by one bucket
  MaxForgotten  \* bound: times that Redis loses the bucket

ASSUME BucketsAssumption ==
  /\ MaxAhead \in Nat /\ Ahead \in [Clients -> 0..MaxAhead]
  /\ Capacity \in Nat /\ RefillRate \in Nat

VARIABLES
  now,        \* time.monotonic() of every process
  tokens,     \* the hash in Redis: tokens,
  last,       \* and last_refill;
  exists,     \* is there a hash?
  saved,      \* [exists, tokens, last]: the hash in the last snapshot
  ownTokens,  \* [Clients -> Nat]: _tokens of a process
  ownLast,    \* [Clients -> Nat]: its _last
  granted,    \* tokens the script has granted
  ownGranted, \* [Clients -> Nat]: tokens the bucket of a process has granted
  forgotten,  \* how often Redis has lost the bucket, or gone back to an old one
  setBack     \* ticks by which last_refill was ever moved back

bucket == <<tokens, last, exists>>
shared == <<bucket, granted, setBack>>
own == <<ownTokens, ownLast, ownGranted>>
limiterVars == <<now, shared, own, saved, forgotten>>

Buckets == [exists : BOOLEAN, tokens : 0..Capacity, last : Nat]
NoBucket == [exists |-> FALSE, tokens |-> 0, last |-> 0]

LimiterTypeOK ==
  /\ now \in Nat
  /\ tokens \in 0..Capacity /\ last \in Nat /\ exists \in BOOLEAN /\ saved \in Buckets
  /\ last <= now + MaxAhead /\ saved.last <= now + MaxAhead
  /\ ownTokens \in [Clients -> 0..Capacity] /\ ownLast \in [Clients -> 0..now]
  /\ granted \in Nat /\ ownGranted \in [Clients -> Nat]
  /\ forgotten \in Nat /\ setBack \in Nat

LimiterInit ==
  /\ now = 0
  /\ tokens = 0 /\ last = 0 /\ exists = FALSE
  /\ saved = NoBucket
  /\ ownTokens = [c \in Clients |-> Capacity] /\ ownLast = [c \in Clients |-> 0]
  /\ granted = 0 /\ ownGranted = [c \in Clients |-> 0]
  /\ forgotten = 0 /\ setBack = 0

Tick ==
  /\ now < MaxTime
  /\ now' = now + 1
  /\ UNCHANGED <<shared, own, saved, forgotten>>

-----------------------------------------------------------------------------
(* The buckets.                                                            *)

AtMost(n, m) == IF n <= m THEN n ELSE m
AtLeast(n, m) == IF n >= m THEN n ELSE m

\* Mutation: the time of a refill is not written.
ScriptKeepsTime(clock) ==
  LET was     == IF exists THEN last ELSE clock
      elapsed == AtLeast(0, clock - was)
      filled  == AtMost(Capacity, (IF exists THEN tokens ELSE Capacity) + elapsed * RefillRate)
      taken   == IF filled >= 1 THEN 1 ELSE 0
  IN  /\ granted + taken <= MaxGranted
      /\ tokens' = filled - taken
      /\ last' = was
      /\ exists' = TRUE
      /\ granted' = granted + taken
      /\ setBack' = setBack + AtLeast(0, was - clock)

\* The script, called with the time of its caller.
Script(clock) ==
  LET was     == IF exists THEN last ELSE clock
      elapsed == AtLeast(0, clock - was)
      filled  == AtMost(Capacity, (IF exists THEN tokens ELSE Capacity) + elapsed * RefillRate)
      taken   == IF filled >= 1 THEN 1 ELSE 0
  IN  /\ granted + taken <= MaxGranted
      /\ tokens' = filled - taken
      /\ last' = clock
      /\ exists' = TRUE
      /\ granted' = granted + taken
      /\ setBack' = setBack + AtLeast(0, was - clock)

Fallback(c) ==
  LET filled == AtMost(Capacity, ownTokens[c] + (now - ownLast[c]) * RefillRate)
      taken  == IF filled >= 1 THEN 1 ELSE 0
  IN  /\ ownGranted[c] + taken <= MaxGranted
      /\ ownTokens' = [ownTokens EXCEPT ![c] = filled - taken]
      /\ ownLast' = [ownLast EXCEPT ![c] = now]
      /\ ownGranted' = [ownGranted EXCEPT ![c] = @ + taken]

-----------------------------------------------------------------------------
(* acquire().                                                              *)

AcquireShared(c) ==
  /\ Script(now + Ahead[c])
  /\ UNCHANGED <<now, own, saved, forgotten>>

\* There is no connection, or the call fails before the script runs.
AcquireOwn(c) ==
  /\ Fallback(c)
  /\ UNCHANGED <<now, shared, saved, forgotten>>

\* The script runs and its answer is lost.
AcquireBoth(c) ==
  /\ Script(now + Ahead[c])
  /\ Fallback(c)
  /\ UNCHANGED <<now, saved, forgotten>>

-----------------------------------------------------------------------------
(* Redis.                                                                  *)

\* It has an old bucket from now on, or none.
Loses(old) ==
  /\ forgotten < MaxForgotten
  /\ forgotten' = forgotten + 1
  /\ setBack' = setBack + (IF exists THEN AtLeast(0, last - now) ELSE 0)
  /\ exists' = old.exists /\ tokens' = old.tokens /\ last' = old.last
  /\ UNCHANGED <<now, granted, own, saved>>

Forget == exists /\ Loses(NoBucket)

Save ==
  /\ saved' = [exists |-> exists, tokens |-> tokens, last |-> last]
  /\ UNCHANGED <<now, shared, own, forgotten>>

\* An hour after its last use the copy is dropped as well.
RestartRedis == Loses(saved) \/ Loses(NoBucket)

LimiterNext ==
  \/ Tick \/ Forget \/ Save \/ RestartRedis
  \/ \E c \in Clients : AcquireShared(c) \/ AcquireOwn(c) \/ AcquireBoth(c)

LimiterSpec == LimiterInit /\ [][LimiterNext]_limiterVars

-----------------------------------------------------------------------------
(* Correctness.                                                            *)

\* What the processes get together is not what one bucket grants: a clock that
\* runs behind moves last_refill back, and the time up to where it was is
\* granted again; a bucket that Redis lost (expired, evicted, or gone back to
\* an older snapshot at a restart) is worth a full one; and each process has a
\* bucket besides.  Nothing else exceeds the limit
\* (rate_limiter.py:12-41, 54-63, 105-117).
GrantsAreBounded ==
  /\ granted <= Capacity * (1 + forgotten) + RefillRate * (now + MaxAhead + setBack)
  /\ \A c \in Clients : ownGranted[c] <= Capacity + RefillRate * now
=============================================================================

------------------------------- MODULE Cache --------------------------------
(***************************************************************************)
(* RedisCache: entries with a time to live that processes share, behind    *)
(* calls that never raise.  A write that does not reach Redis is dropped   *)
(* without a word, and what was there before stays there; a restart of     *)
(* Redis brings back its last snapshot.                                    *)
(*                                                                         *)
(* A value is the number of the write that made it.  Redis is external; a  *)
(* call whose answer is lost counts as one that was answered: the cache    *)
(* tells its caller nothing of either.                                     *)
(***************************************************************************)
EXTENDS Integers

CONSTANTS
  Users,       \* processes, each with a RedisCache
  CacheKeys,   \* keys
  DefaultTtl,  \* [CacheKeys -> Nat]: default_ttl() of a key's namespace
  AskedTtls,   \* values of ttl_seconds, 0 standing for None too
  LongestTtl,  \* a bound of all of those
  MaxWrites,   \* bound: writes that are asked for
  LastSecond   \* bound: seconds that pass

ASSUME TtlAssumption ==
  /\ LongestTtl \in Nat /\ AskedTtls \subseteq 0..LongestTtl
  /\ DefaultTtl \in [CacheKeys -> 1..LongestTtl]
  /\ MaxWrites \in Nat /\ LastSecond \in Nat

VARIABLES
  connected,  \* [Users -> BOOLEAN]: is there a _client?
  entries,    \* [CacheKeys -> Entries]: what Redis has
  latest,     \* [CacheKeys -> Nat]: the write asked for last, NoValue if a delete was
  snapshot,      \* [CacheKeys -> Entries]: what its last snapshot has
  missed,     \* [CacheKeys -> BOOLEAN]: has that write or delete not reached Redis, or
              \* did Redis go back to a snapshot without it?
  writes,     \* how many writes were asked for
  second      \* the time

cacheVars == <<connected, entries, snapshot, latest, missed, writes, second>>

NoValue == 0
NoEntry == [value |-> NoValue, from |-> 0, until |-> 0]
Entries == [value : 0..MaxWrites, from : 0..LastSecond, until : Nat]

CacheTypeOK ==
  /\ connected \in [Users -> BOOLEAN]
  /\ entries \in [CacheKeys -> Entries] /\ snapshot \in [CacheKeys -> Entries]
  /\ latest \in [CacheKeys -> 0..MaxWrites] /\ missed \in [CacheKeys -> BOOLEAN]
  /\ writes \in 0..MaxWrites /\ second \in 0..LastSecond

CacheInit ==
  /\ connected = [u \in Users |-> FALSE]
  /\ entries = [k \in CacheKeys |-> NoEntry] /\ snapshot = [k \in CacheKeys |-> NoEntry]
  /\ latest = [k \in CacheKeys |-> NoValue] /\ missed = [k \in CacheKeys |-> FALSE]
  /\ writes = 0 /\ second = 0

-----------------------------------------------------------------------------

\* What get() answers, if the call is answered.
Get(k) == IF second < entries[k].until THEN entries[k].value ELSE NoValue

\* Mutation: the time to live that was asked for, and no other.
AskedTtl(k, ttl) == IF ttl = 0 THEN LastSecond ELSE ttl

Ttl(k, ttl) == IF ttl = 0 THEN DefaultTtl[k] ELSE ttl

\* A client is made, and kept, when its first ping is answered.
Connects(u) == connected' = [connected EXCEPT ![u] = TRUE]
NoConnection(u) == ~connected[u] /\ UNCHANGED connected

\* What the callers wanted, and whether it was done.
Ordered(k, value, done) ==
  /\ latest' = [latest EXCEPT ![k] = value]
  /\ missed' = [missed EXCEPT ![k] = ~done]

Set(u, k) ==
  /\ writes < MaxWrites
  /\ writes' = writes + 1
  /\ \/ \E ttl \in AskedTtls :
          /\ Connects(u)
          /\ entries' = [entries EXCEPT ![k] =
               [value |-> writes + 1, from |-> second, until |-> second + Ttl(k, ttl)]]
          /\ Ordered(k, writes + 1, TRUE)
     \/ /\ NoConnection(u) \/ Connects(u)
        /\ Ordered(k, writes + 1, FALSE)
        /\ UNCHANGED entries
  /\ UNCHANGED <<snapshot, second>>

Delete(u, k) ==
  /\ \/ /\ Connects(u)
        /\ entries' = [entries EXCEPT ![k] = NoEntry]
        /\ Ordered(k, NoValue, TRUE)
     \/ /\ NoConnection(u) \/ Connects(u)
        /\ Ordered(k, NoValue, FALSE)
        /\ UNCHANGED entries
  /\ UNCHANGED <<snapshot, writes, second>>

\* A process starts again, with no client.
RestartUser(u) ==
  /\ connected[u]
  /\ connected' = [connected EXCEPT ![u] = FALSE]
  /\ UNCHANGED <<entries, snapshot, latest, missed, writes, second>>

\* allkeys-lru (docker-compose.prod.yml).
Evict(k) ==
  /\ entries[k] # NoEntry
  /\ entries' = [entries EXCEPT ![k] = NoEntry]
  /\ UNCHANGED <<connected, snapshot, latest, missed, writes, second>>

\* save 60 1, and what a restart brings back of it.
SaveEntries ==
  /\ snapshot' = entries
  /\ UNCHANGED <<connected, entries, latest, missed, writes, second>>

RedisRestarts ==
  /\ entries' = snapshot
  /\ missed' = [k \in CacheKeys |-> missed[k] \/ snapshot[k] # entries[k]]
  /\ UNCHANGED <<connected, snapshot, latest, writes, second>>

SecondPasses ==
  /\ second < LastSecond
  /\ second' = second + 1
  /\ UNCHANGED <<connected, entries, snapshot, latest, missed, writes>>

CacheNext ==
  \/ SecondPasses \/ SaveEntries \/ RedisRestarts
  \/ \E k \in CacheKeys : Evict(k)
  \/ \E u \in Users : RestartUser(u) \/ \E k \in CacheKeys : Set(u, k) \/ Delete(u, k)

CacheSpec == CacheInit /\ [][CacheNext]_cacheVars

-----------------------------------------------------------------------------
(* Correctness.                                                            *)

\* What get() answers is what was written last, unless that write, or a
\* delete, was dropped without a word or undone by a restart of Redis; and
\* even then it is no older than the longest time to live (cache.py:74-94).
OldReadsEnd ==
  \A k \in CacheKeys :
    Get(k) # NoValue =>
      /\ Get(k) = latest[k] \/ missed[k]
      /\ second - entries[k].from < LongestTtl
=============================================================================

--------------------------- MODULE LiveCollectors ---------------------------
(***************************************************************************)
(* The collectors that call a platform's API with a state of their own:    *)
(* YouTube's counts the units of a daily quota, Reddit's keeps an access   *)
(* token.  Coroutines share a collector, and each await lets another one   *)
(* run between a check and what it was made for.  Neither collector uses   *)
(* the breaker or the bucket of its base class.                            *)
(*                                                                         *)
(* Documents are left out: a call returns some or, on any error, none.     *)
(*                                                                         *)
(* A request ends within Timeout.  That is an assumption: httpx's timeouts *)
(* (10 s for a token, 15 s for posts) are for each phase of a request and  *)
(* for each part of an answer, not for all of it.                          *)
(***************************************************************************)
EXTENDS Integers, FiniteSets

CONSTANTS
  Callers,     \* coroutines
  UnitLimit,   \* DAILY_UNIT_LIMIT
  SearchCost,  \* SEARCH_COST
  PageSize,    \* videos a search may find: max_results; each costs one unit
  Lifetime,    \* seconds a token is valid: expires_in
  Margin,      \* seconds before its end a token is not used any more: 100
  Timeout,     \* seconds all of a request may take, or else it fails
  MaxClock     \* bound: seconds that pass

ASSUME CoroutinesAssumption == Callers # {} /\ IsFiniteSet(Callers)
ASSUME UnitsAssumption == UnitLimit \in Nat /\ SearchCost \in Nat /\ PageSize \in Nat
ASSUME TokenAssumption ==
  /\ Lifetime \in Nat /\ Margin \in Nat /\ Timeout \in Nat
  /\ 2 * Timeout <= Margin /\ Margin <= Lifetime

VARIABLES
  units,    \* _units_used
  step,     \* [Callers -> {"idle", "search", "details"}]: a search() of YouTube
  found,    \* [Callers -> Nat]: the videos it found
  clock,    \* time.time()
  token,    \* when the platform ends _token, or NoToken
  expires,  \* _token_expires_at
  stage,    \* [Callers -> {"idle", "token", "posts"}]: a call of Reddit
  since,    \* [Callers -> Nat]: when its request was sent
  bearer    \* [Callers -> Nat]: when the platform ends the token it sent

youtubeVars == <<units, step, found>>
redditVars == <<clock, token, expires, stage, since, bearer>>
collectorsVars == <<youtubeVars, redditVars>>

NoToken == -1

CollectorsTypeOK ==
  /\ units \in Nat
  /\ step \in [Callers -> {"idle", "search", "details"}]
  /\ found \in [Callers -> 0..PageSize]
  /\ clock \in Nat
  /\ token \in Nat \cup {NoToken} /\ expires \in Nat
  /\ stage \in [Callers -> {"idle", "token", "posts"}]
  /\ since \in [Callers -> 0..clock] /\ bearer \in [Callers -> Nat]

CollectorsInit ==
  /\ units = 0
  /\ step = [c \in Callers |-> "idle"] /\ found = [c \in Callers |-> 0]
  /\ clock = 0 /\ token = NoToken /\ expires = 0
  /\ stage = [c \in Callers |-> "idle"]
  /\ since = [c \in Callers |-> 0] /\ bearer = [c \in Callers |-> 0]

-----------------------------------------------------------------------------
(* YouTubeCollector.search(): two requests.                                *)

\* Mutation: there is a unit left.
UnitLeft == units < UnitLimit

CanSearch == units + SearchCost <= UnitLimit

Search(c) ==
  /\ step[c] = "idle" /\ CanSearch
  /\ step' = [step EXCEPT ![c] = "search"]
  /\ UNCHANGED <<units, found, redditVars>>

SearchAnswers(c) ==
  /\ step[c] = "search"
  /\ units' = units + SearchCost
  /\ \E n \in 0..PageSize :
       /\ found' = [found EXCEPT ![c] = n]
       /\ step' = [step EXCEPT ![c] = IF n = 0 THEN "idle" ELSE "details"]
  /\ UNCHANGED redditVars

DetailsAnswer(c) ==
  /\ step[c] = "details"
  /\ units' = units + found[c]
  /\ found' = [found EXCEPT ![c] = 0]
  /\ step' = [step EXCEPT ![c] = "idle"]
  /\ UNCHANGED redditVars

\* A request that fails is not counted, whatever the platform counts.
RequestFails(c) ==
  /\ step[c] # "idle"
  /\ found' = [found EXCEPT ![c] = 0]
  /\ step' = [step EXCEPT ![c] = "idle"]
  /\ UNCHANGED <<units, redditVars>>

\* A day's units are counted until the process ends: nothing resets them.
RestartYouTube ==
  /\ units' = 0
  /\ step' = [c \in Callers |-> "idle"] /\ found' = [c \in Callers |-> 0]
  /\ UNCHANGED redditVars

-----------------------------------------------------------------------------
(* RedditCollector.collect() and search(): the token, then the posts.      *)

Fresh == token # NoToken /\ clock < expires - Margin

UseToken(c) ==
  /\ stage[c] = "idle" /\ Fresh
  /\ stage' = [stage EXCEPT ![c] = "posts"]
  /\ since' = [since EXCEPT ![c] = clock]
  /\ bearer' = [bearer EXCEPT ![c] = token]
  /\ UNCHANGED <<clock, token, expires, youtubeVars>>

AskForToken(c) ==
  /\ stage[c] = "idle" /\ ~Fresh
  /\ stage' = [stage EXCEPT ![c] = "token"]
  /\ since' = [since EXCEPT ![c] = clock]
  /\ UNCHANGED <<clock, token, expires, bearer, youtubeVars>>

\* The platform counts the lifetime from when it issues the token, the
\* collector from when it arrives; the last token to arrive is kept.
TokenArrives(c) ==
  /\ stage[c] = "token"
  /\ \E issued \in since[c]..clock :
       /\ token' = issued + Lifetime
       /\ bearer' = [bearer EXCEPT ![c] = issued + Lifetime]
  /\ expires' = clock + Lifetime
  /\ stage' = [stage EXCEPT ![c] = "posts"]
  /\ since' = [since EXCEPT ![c] = clock]
  /\ UNCHANGED <<clock, youtubeVars>>

\* With posts, or with an error that is logged; a token is kept even if the
\* platform refused it.
CallEnds(c) ==
  /\ stage[c] # "idle"
  /\ stage' = [stage EXCEPT ![c] = "idle"]
  /\ UNCHANGED <<clock, token, expires, since, bearer, youtubeVars>>

Second ==
  /\ clock < MaxClock
  /\ \A c \in Callers : stage[c] # "idle" => clock - since[c] < Timeout
  /\ clock' = clock + 1
  /\ UNCHANGED <<token, expires, stage, since, bearer, youtubeVars>>

YouTubeNext ==
  \/ RestartYouTube
  \/ \E c \in Callers : Search(c) \/ SearchAnswers(c) \/ DetailsAnswer(c) \/ RequestFails(c)

RedditNext ==
  \/ Second
  \/ \E c \in Callers : UseToken(c) \/ AskForToken(c) \/ TokenArrives(c) \/ CallEnds(c)

CollectorsNext == YouTubeNext \/ RedditNext

CollectorsSpec == CollectorsInit /\ [][CollectorsNext]_collectorsVars

-----------------------------------------------------------------------------
(* Correctness.                                                            *)

\* The units exceed the day's limit by what the searches that were under way
\* when the last one was let in, and that one, may still use: a page for the
\* last one, a search and a page for each of the others (youtube.py:33-91).
UnitsAreBounded ==
  units <= UnitLimit + PageSize + (Cardinality(Callers) - 1) * (SearchCost + PageSize)

\* No request carries a token that has ended by the time the platform reads
\* it, in whatever order tokens that were asked for together arrive
\* (reddit.py:41-67, 81-139).
TokensAreFresh ==
  \A c \in Callers : stage[c] = "posts" => clock <= bearer[c]

\* The platforms' limits are kept, as far as the collectors do keep them.
QuotasAreKept == UnitsAreBounded /\ TokensAreFresh
=============================================================================

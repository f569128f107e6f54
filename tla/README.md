# LIGP v2.0 in TLA+

LIGP collects posts and articles from public platforms, builds a knowledge
graph from them, scores the topics, and generates and publishes content about
the best ones. This directory models the parts of it that are hard to test:
what several tasks, workers, requests or platforms do to the same state, in
orders nobody wrote a test for. All paths below are under `src/`.

    tlc -workers 2 -config content_recovery.cfg MCContentQueue.tla
    tlapm ContentQueueProofs.tla

`PROJECT.json` lists the components, the runs, the mutants, the lines every
definition stands for, the disagreements found, the hazards and the theorems.

## 1. The system

The process structure: one FastAPI process (`api/main.py`), any number of
Celery workers (`orchestration/celery_app.py`, `orchestration/tasks.py`), and
batch runs of the daily and real-time flows (`orchestration/flows/`). They
share a PostgreSQL database, a message broker and, when it is configured,
Redis. Within a process nearly everything runs on one asyncio event loop, so a
race needs an `await` between a read and the write that depends on it.

### Components that are modelled

**Content generation queue** (`api/routes/content.py`,
`orchestration/celery_app.py`, `orchestration/tasks.py`,
`database/repositories/content_repo.py`).
*State*: the row of each job in the `content` table, the messages in the
broker, and what each worker and each in-process background task is doing.
*Operations*: `POST /content/generate` (queued, background fallback,
`?sync=true`), the task with late acknowledgement, automatic retries with a
limit, `on_failure`, and `GET /content/status`.
*Hard*: every database write is logged and forgotten on error; `delay()` may
raise although the message was stored; an unacknowledged message is delivered
again after a crash or a visibility timeout; a killed pool child is
acknowledged by its parent; the metrics call comes after the row says
completed and its error is retried.
*Correct when*: status and payload of a row belong together; a job that was
accepted is never forgotten; a text is generated twice only because of a fault;
a settled row stays settled.

**Collection** (`ingestion/base_collector.py`).
*State*: `CircuitBreaker`, `TokenBucket` and the dead-letter list of one
collector, shared by concurrent `collect()` coroutines.
*Operations*: `collect()` with its retry loop and sleeps, `health_check()`,
`drain_dlq()`; reading the breaker's state is itself a state change.
*Hard*: the breaker is asked once, at the start of a call, and answers arrive
after it changed; the token is spent before the breaker is asked.
*Correct when*: state and counter agree; one failed probe reopens the circuit;
only a bounded number of fetches slips past an open circuit; it closes again
after an outage.

**Publishing saga** (`publisher/saga_coordinator.py`, `publisher/channels/`).
*State*: the in-memory saga record, and the posts that are live on the
platform.
*Operations*: `execute()` with its attempts, `compensate()`.
*Hard*: a request that timed out may have been carried out; an answer may lack
the identifier; the record is the only knowledge of a post.
*Correct when*: every live post is explained, "published" is true of the
platform, every saga returns.

**Graph persistence and explorer** (`graph/graph_store.py` as used by a run,
`orchestration/hooks/graph_persist.py`, `database/repositories/graph_repo.py`,
`api/admin/data.py`, `api/admin/router.py`, the polling page).
*State*: the store of each run, the tables `graph_nodes` and `graph_edges`,
what a page has read and what it shows.
*Operations*: building, persisting statement by statement, the two admin
writes, and the poll with one query for nodes and one for edges.
*Hard*: several runs write the same tables; a run may be cut short anywhere;
the two queries of a poll are not one snapshot; errors show the seed graph.
*Correct when*: no run leaves a dangling edge; `True` means stored; live data
gives way to the seed only on an error; what is stored is shown in the end.

**Deduplication and real-time ingestion** (`processing/deduplicator.py`,
`orchestration/flows/realtime_ingestion.py`).
*State*: exact hashes, LSH buckets, signatures and SimHashes by key; a store
and a deduplicator, which calls share if their caller passes them on
(`realtime_ingestion.py:36-37`); the node table.
*Operations*: `is_duplicate()`, the call with its two ways to fail before the
end, persisting the whole store. The flow's own entry points (lines 64 and 68)
pass no documents and no objects: each of its calls starts anew.
*Hard*: two of the indexes are keyed by a name the caller chooses and one is
not; a text is registered long before its topic is in the table.
*Correct when*: a text is accepted only if nothing known is like it; whatever
is rejected later is in the store; a call that persists writes what calls
before it were cut short of.

**Graph store, versions and queries** (`graph/graph_store.py`,
`graph/versioning.py`, `graph/query.py`, `graph/propagation.py`).
*State*: nodes; edge objects listed in `_adj` and `_in`; a deque of snapshots.
*Operations*: `add_node()`, `add_edge()`, `bootstrap()`, `create_snapshot()`
with eviction, `rollback()`; k-hop neighbours, shortest path, subgraph, top-k,
propagation and centrality, which only read.
*Hard*: an `Edge` is changed in place while two lists and a snapshot may refer
to it; after a rollback the two lists have copies of their own.
*Correct when*: the two lists agree; nothing changes a kept snapshot; a
rollback gives back the graph of the day; every query answers as it is defined.

**Daily run** (`orchestration/flows/daily_pipeline.py`,
`orchestration/worker.py`, `scoring_engine/graph_score.py`,
`decision_engine/selector.py`, `content_factory/`,
`compliance/copyright_scorer.py`).
*State*: the results of the stages, the generator's spending, the metrics not
pushed yet.
*Operations*: the stages in their order, an error in each of them, the polling
loop, and the flow that runs the pipeline again.
*Hard*: a call of the LLM may be charged and its answer lost; the budget is a
field of an object that is new in every run; random draws decide the order.
*Correct when*: the selection respects its limits and prefers no topic that is
behind in everything; charges are bounded; a counted run is pushed.

**Services that stand by themselves.** They share no state with the others:

| Component | State and operations | What is hard | What should hold |
| --- | --- | --- | --- |
| API workers (`api/main.py`, `api/metrics.py`, `gunicorn.conf.py`) | a metrics file per worker and kind; hooks of the master, start, requests and end of a worker, `/metrics` | a start empties the directory others write to | a server shows nothing of one that was killed; what the documents promise of siblings and of workers that are gone is violated |
| Database adapter (`database/db_adapter.py`) | pool, `_in_transaction`, `_tx_conn`; `execute()`, `transaction()`, `close()` | the flag is set before there is a connection, and belongs to no thread | calls leave no connection and no write behind |
| Rate limiter (`utils/rate_limiter.py`) | the hash in Redis and a bucket per process | clocks differ; answers are lost; Redis expires, evicts and restarts | grants are bounded, by the buckets it lost too |
| Cache (`utils/cache.py`) | entries with a time to live, a client per process | writes that are dropped silently or undone by a restart | an old value ends |
| Retries (`utils/retry.py`) | strategy, attempt and delay | three strategies, the last attempt | no delay shrinks, and a call gives up only after all attempts |
| robots.txt (`compliance/robots_checker.py`) | rules by domain | a site that changes, breaks or disappears | what is allowed is what was answered last |
| Live collectors (`ingestion/collectors/`) | YouTube's units, Reddit's token | checked before an `await`, charged or used after it | overshoot is bounded; no token is used after its end |
| Experiments (`experiments/`) | experiments and outcomes of a worker | bucket boundaries, ties of ranks, a worker that ends | shares are honoured; a winner is ahead |
| Events and trends (`event_engine/`, `time_engine/trend_detector.py`) | the event table, scores of a node | dates are texts; scores come in any order | an event is on between its dates; order is irrelevant |
| Feedback (`feedback_engine/`) | observed revenue by label, weights | late and repeated observations | the latest checkpoint decides |

### Not modelled

* *Language processing and features* (`nlp/`, `feature_engine/`,
  `processing/language_detector.py`), *PII masking*, *decay and seasonality*,
  *optimizer, probability, ranking and revenue formulas*: functions of their
  arguments without state. Nothing interleaves, and their content is regular
  expressions or floating-point formulas a finite instance says nothing about.
  (One note: the optimizer's docstring, `decision_engine/optimizer.py:43`, says
  that each weight is at least `w_min`; the normalisation after the clamp,
  lines 91-96, may take one below.)
* *Authentication and health checks*: functions of their request.
* *The SQLite backend of the adapter*: one connection, no pool.
* *Naver and RSS collectors*: they keep nothing between calls.
* *The weights of rows in `graph_nodes` and `graph_edges`*: every upsert
  overwrites them, and nothing is promised about which run's stays.
* *A crash of a process that publishes*: sagas are in memory only, and no code
  runs after it.
* *Questions about a node that is not there*: `get_neighbors()`,
  `shortest_path()` and `propagate()` raise `KeyError` for one
  (`query.py:32-33`, `:58-59`, `propagation.py:38-39`). That the node is in the
  store is a precondition of `GraphQuery`.
* *The branch of the rank test that calls scipy* where that is installed
  (`statistical_significance.py:43-45`): the modelled one is the code's own.
* *Metric files that cannot be removed*: `cleanup_multiprocess_dir()` goes on
  without them (`metrics.py`), the model removes every file.
* *Migrations, configuration, logging*.

### How they interact

The flows call collectors (awaited), then deduplication, the graph builder,
scoring, selection, generation and the quality gate (plain calls), and end in
`persist_graph_to_db`; the explorer reads what they wrote by polling. The API
hands jobs to workers through the broker, or to its own event loop; both meet
in the `content` table, which callers poll. The rate limiter, the cache, the
retry decorator, the event database, trends, attribution, weight updates and
the robots.txt checker are called by nothing in the repository but its tests,
and are modelled as their callers would use them; both entry points of the
daily run pass no documents. The database and the broker are the only state
shared between processes; no callback crosses a process.

## 2. Modules

| Module | Role |
| --- | --- |
| `ContentJob` | What `POST /content/generate` promises: the abstract specification |
| `ContentQueue` | API process, broker, workers and table: the detailed one |
| `Collector` | Breaker, bucket, retries and dead letters of one collector |
| `Publishing` | `SagaCoordinator` against a platform that may lose answers |
| `GraphPersistence` | Runs, admin writes, tables and the polling page |
| `Deduplicator` | The three indexes of `Deduplicator`, as operators on their state |
| `Realtime` | Successive ingestion calls over a `Deduplicator`, a store and the table |
| `WeightedGraph`, `VersionedGraph` | Graphs with weights; what a graph with versions promises: the abstract specification |
| `GraphVersions` | Store and snapshots as objects in a heap: the detailed one |
| `GraphQuery` | The loops of queries, propagation and centrality, round by round, beside their definitions |
| `GraphAnswers` | These loops asked of every graph `GraphVersions` can hold |
| `DailyPipeline` | A daily run and its two callers |
| `ApiWorkers`, `DBAdapter`, `RateLimiter`, `Cache`, `Retry`, `Robots`, `Experiments`, `LiveCollectors`, `Signals`, `Feedback` | One service each, with an Init, Next and Spec of its own (`WorkersSpec`, `AdapterSpec`, ...) |
| `StableOrder` | Python's stable sort by a key, which trends and rank tests use |
| `Services` | The ten services side by side, one of them running |
| `MC*` | Instances for TLC |
| `*Proofs` | Theorems and their proofs; `GraphProofs` is about all the graph modules |
| `Counting` | Facts of numbers, sums and sorted sequences that proofs share |

**Mutations.** An operator whose comment starts with "Mutation:" belongs to no
specification. It is a plausible bug in the definition that follows it
(`ReceiveAcknowledged`: early acknowledgement; `AddEdgeUncheckedTo`: no
endpoint check). With the definition replaced by it, TLC finds the property
listed in `PROJECT.json` violated, which shows that the property is about the
code. Where a property joins several services (`HelpersAreSound`,
`ExperimentsAreSound`, `QuotasAreKept`, `SignalsAreSound`), `PROJECT.json`
lists one mutation, of one of its parts.

### ContentQueue

| Variable | Code |
| --- | --- |
| `rows` | `status` and the JSON payload of a row of `content` |
| `handler` | where `generate()`, `_process_content()` or `_generate_blocking()` is |
| `ready`, `task`, `unacked` | the Celery broker: a bag of messages, who runs which, which the broker still keeps |
| `pc` | where `generate_content_task` is in a worker |
| `generated`, `repeats` | history: texts produced, and faults that make work run again |
| `budget` | faults that may still happen, per kind |

An action is what happens between two points at which others can run: one SQL
statement, one broker operation, or the awaited generation. `Start`,
`Generate`, `Complete` and `RecordMetrics` are the body of the task in its
order. `generate_async()` and the check of its text share a step, as nothing
another process sees comes between them; but either may raise, and a check that
does (`quality_gate.py:80`, a title that is no string) fails a job whose text
is generated and paid: `Generate`, `BgGenerate` and `SyncGenerate` have both.
`AfterTransient` is `autoretry_for` with `max_retries`; `OnFailure` is
`DatabaseAlertTask.on_failure`; `PublishRetry` and `Acknowledge` are separate
because Celery publishes a retry before it acknowledges the message it
replaces. `UpdatedRow` is the `UPDATE ... COALESCE` of the repository: one
statement, and no row when there was none. `Post` comes before `Enqueue` as in
the route, while a blocking request writes its row only when it has a text.

The broker is external and modelled from its settings (`task_acks_late`, no
`task_reject_on_worker_lost`): `WorkerCrash` returns the message, `ChildKilled`
does not, `Redeliver` is the visibility timeout. Left out: the eager mode
(tests only), running with no `DATABASE_URL` at all (every write is a no-op),
and a retry whose own publish fails.

### Collector

`state`, `failures` and `age` are `CircuitBreaker`'s fields, `age` standing for
the time since `_opened_at`; `tokens` is the bucket in whole tokens, refilled
once a `Tick`. Coroutines share one event loop, so a step reaches from one
`await` (the fetch, the sleep) to the next: `Call` takes a token and asks the
breaker; `FetchSucceeds`, `FetchGivesUp` and `FetchWillRetry` record the answer
and decide how to go on; `Wake` starts the next fetch without asking again, as
the loop does. `failures` stops at the threshold and `age` at the timeout: the
code only compares them with `>=`. `PlatformTurns` is the platform going down
or up. The JSONL copy of the dead letters is left out.

### Publishing

One record per saga as `_new_saga` creates it; `posts` is the platform. Attempt
*n* of a saga would create post *n*. A `publish()` has four outcomes:
`Answered`, `AnsweredWithoutId` (a `logNo` or `id` that is missing is passed on
as it is), `Refused` and `AnswerLost`. `RollBack` and `MarkFailed` end
`execute()` when the attempts are used up; `Undo` is a caller that compensates
with the returned `saga_id`, any number of times. `at` is where `execute()` is.
The sagas are in memory only, so a crash of the process would lose them: that
is a listed hazard, not an action, since no code runs after it.

### GraphPersistence

`built` is the store of each run, where `AddEdgeTo` needs both ends; `Persist`,
`UpsertNode`, `PersistEdges`, `UpsertEdge`, `Stored` and `Aborts` are
`persist_graph_to_db`, one statement a step; `PostNode` and `PostEdge` are the
admin endpoints, which check no ends. `Poll` and `Answer` are the two queries
of `GET /admin/api/graph` with the page's `mergeData`, which drops a link whose
end is missing. Weights, which every upsert overwrites, are left out.

### Deduplicator and Realtime

`exact`, `filed` and `latest` are the exact hashes, the LSH buckets (which key
was filed with which text) and, by key, the signature and SimHash last written.
A signature is a sequence of numbers and a SimHash the set of its ones, so that
`Similar`, `SharesBand` and `Close` are the comparisons of the code; how text
is hashed is left out. `Duplicate` is the order-free disjunction of the three
checks, `Register` the three writes after them.

`Realtime` extends `Deduplicator` with the call: `Skip` and `Accept` are the
two branches of the loop, `Key` is `doc.get("source_id", f"rt{i}")`, and
`Persist`, `Upsert`, `Persisted` and `PersistFails` are `persist_graph_to_db`
for a store of topics (`RealtimeInit`, `RealtimeNext`, `RealtimeSpec`).
`MetricsFail` ends the call with an exception. `Restart` is a new process, or a
call that is not given the objects of the previous ones: all that the flow's
own entry makes. The properties are about callers that pass them on, as the
parameters allow; no caller in the repository does, and without, there is
nothing a call could owe another. `TopicOf` need not be injective:
`make_node_id` drops every character outside ASCII.

### GraphVersions, VersionedGraph and GraphQuery

The hazard is aliasing, so objects are explicit. `heap` maps areas to the
values of the objects in them; a deep copy is a new area. `live` is the area of
the objects in `_nodes` and `_adj`, `shared` the edges whose object `_in` has
too, and `back` the area of the other objects of `_in`: after a rollback, all
of them. `AddEdge` changes the weight of an edge in `live` in place, hence in
`_in` only if it is shared, as the code does. A snapshot is an area, an id, its
parent's id and the delta. `VersionedGraph` knows only values: a graph that
gains until a version is restored, and versions that never change.
`KeepsVersions` is that specification under the mapping `graph <- heap[live]`,
`versions <- ` the values of the kept snapshots; with a rollback that installs
the snapshot's own objects (`RollbackToSnapshotItself`) it fails.

`GraphQuery` has each loop of the code as a function of the rounds it has made,
next to a definition of what it should answer: the ends of walks of each length
for `get_neighbors()`, the costs of walks for `shortest_path()`, the powers of
the matrix of the weights for `propagate()`. A round is one depth of the two
breadth first searches (`Deeper`, `Spread`), one entry taken from the heap
(`PopCheapest`), one iteration of PageRank (`Ranked`). The heap is the set of
the walks in it, and ties are broken either way. Two loops have no bound in the
code: `shortest_path()` goes on while the heap is not empty, of which
`ShortestPath` takes as many rounds as there are edges and one; that nothing is
left to do then is part of the proof. Fractions are exact, as numerators: the
cost 1/w is `Unit \div w`, an influence is in parts of a power of the
denominator of `hop_decay`, and ranks are in parts of a whole that grows with
each iteration. What rounding does to them in the code is not modelled.

`GraphAnswers` adds the queries to `GraphVersions` and states `QueriesAgree`:
in every state, whatever was added, bootstrapped, saved and rolled back, every
query answers the graph of the store as defined.

### DailyPipeline

`pc` is the stage. `Begin` is ingestion, deduplication and the graph, of which
only topics and what is measured of them matter; `ComputeScores`, `Select`,
`GenerateOnline`/`GenerateOffline`/`AnswerLost`, `Gate`, `Persist`, `Succeed`
and `Push` are the stages in their order. Thompson sampling multiplies a score
by a draw from (0, 1): candidates with a score come in any order, those
without one after them. `Unique` is the loop of the deduplicator as the
one set it can end with; `MinMax` normalises a measure in whole per cent,
rounded up so that only the smallest one becomes 0, which is all the order of
the candidates depends on; `EnforceDiversity` keeps the first `MaxSame` of a
topic. A text is what the gate looks at. `Raise` is an
exception of a stage: the loop (`worker.py`) catches it and pushes, the flow
calls the pipeline a second time and lets a second error through. Scores are
in 1/10000, the gate's risk too.

### The services

* `ApiWorkers`: `gauge` and `counter` are a worker's files: none, seen in the
  directory, or removed and still written to by the process that mapped them.
  `Lifespan` is `lifespan()`, which cleans up in every worker; `Kill` ends the
  container without a hook and makes its workers `"old"`, with their files left
  for the next `OnStarting`.
* `DBAdapter`: `at` is where a thread is in `execute()` or `transaction()`,
  each step ending where another thread may run. `dirty` are the statements
  without a commit on a connection; `lost` and `overlapped` are history. The
  pool rolls back what it gets back with an open transaction (external).
* `RateLimiter`: `Script` is the Lua script with the caller's clock as `now`;
  `AcquireBoth` is a script whose answer was lost. `setBack` adds up by how
  much `last_refill` was ever moved back. Redis (external) is that of
  `docker-compose.prod.yml:114`, `allkeys-lru` with `save 60 1`: `Forget` drops
  the bucket at any time, expired or evicted, `Save` takes a snapshot, and
  `RestartRedis` goes back to the last one, or to nothing. `forgotten` counts
  these losses.
* `Cache`: the same Redis, with `snapshot`. A value is the number of its write;
  `missed` says that the last write of a key did not reach Redis, or that a
  restart undid it. A time to live of 0 means the default.
* `Retry`: the decorator with the strategy it was given; `Factor` is what the
  delay is multiplied by, by attempt.
* `Robots`: the parser cached by domain, with the standard library's reading of
  status codes (external). `lastRead` is what a site said last, `verdict` the
  last answer of `is_allowed()`, and `judged` what the site had said by then.
* `LiveCollectors`: each request is a step, so a check and what it was made
  for are separate steps. `bearer` is when the platform ends the token a
  request carries. Units are reset by nothing but a restart. What is bounded is
  `_units_used`, the collector's own count, not the platform's.
* `Experiments`: hashes and shares in parts of `Grain`; `DoubledU` is twice
  the rank sum statistic, so that average ranks stay integers; p < 0.05 is a
  comparison of integers. The rank of a value is looked up in the sorted
  outcomes (`StableOrder`), as the code does, not counted.
* `Signals`: a date is a day and a part of it, part 0 being a date without a
  time, which sorts first, as texts do. Velocities are fractions. Times of
  scores are any numbers, with a window for the velocity (`Day`) and one for
  the acceleration (`Window`); scores may lie within either.
* `Feedback`: `raw` is what was recorded by label; a label has hours, or none
  when `_hours()` raises. Weights count in steps of the learning rate.

## 3. Runs

| Run | Instance | What it shows |
| --- | --- | --- |
| `content_recovery` | 1 job, 2 workers, 1 retry, one each of ambiguous publish, redelivery, crash, metrics error and failed statement | `SettledUnlessOwed`, `RepeatsNeedFaults`, `SettledRowIsStable`, `EventuallySettled` |
| `content_promise` | 2 jobs, 2 workers, 1 retry, two failed statements, one failed publish, kill and API crash | `KeepsPromise` (refinement of `ContentJob`) |
| `content_blip` | 1 job, 1 worker, one failed statement | finds `SuccessMeansRecorded` violated |
| `collector_outage` | 3 coroutines, 2 tokens, threshold 2, timeout 2, 2 attempts | `BreakerConsistent`, `LeakIsBounded`, `Recovers` |
| `collector_late_success` | 2 coroutines, threshold 1 | finds `StaysOpen` violated |
| `outside` | 3 sagas (one without a publisher), 2 attempts; 2 runs, 2 nodes, 1 edge, 1 failed poll | `EveryPostIsExplained`, `Returns`; `OnlyPostedEdgesDangle`, `StoredMeansComplete`, `EventuallyShown` |
| `publish_rollback` | the same sagas for one question | finds `FailedLeavesNothing` violated |
| `in_memory` | 3 nodes, 4 edges of 2 relations in a cycle with a short cut, weights 0, 1 and 3, 3 snapshots of which 2 are kept; 4 documents in batches of up to 2, 2 default keys and one `source_id`, each fault once | `ListsAgree`, `QueriesAgree`, `KeepsVersions` (refinement of `VersionedGraph`); `LookalikesOnlyByReuse`, `SeenIsStored`, `EarlierCallsAreMadeUp` |
| `daily_runs` | 4 documents, 4 topics, 3 graphs, top 3, quota 5, a budget of 2 calls, 2 attempts | `SelectionIsSound`, `BudgetHoldsPerAttempt`, `OnlyTheLlmPasses`, `RunsArePushed` |
| `services` | each service by itself, see below | `OldCountsAreForgotten` (workers); `CallsLeaveNothing` (adapter); `GrantsAreBounded` (limiter); `HelpersAreSound` (cache, retries, robots.txt); `ExperimentsAreSound`; `QuotasAreKept` (YouTube, Reddit); `SignalsAreSound` (events, trends); `EstimateIsLatest` (feedback) |
| `workers_shown` | 2 workers, each with one request at a time | finds `AllWorkersAreShown` violated |
| `workers_gone` | the same | finds `GoneWorkersAreNotCounted` violated |

Every passing run also checks its module's type invariant, except
`content_promise`, whose module `content_recovery` already covers. Six further
properties are proved for every instance and therefore checked by no run:
`PayloadMatchesStatus`, `NoRowFromUpdate` (ContentQueue),
`HalfOpenFailureReopens` (Collector), `PublishedIsLive`, `CompensationIsIdle`
(Publishing) and `SeedOnlyOnError` (GraphPersistence).

`services` is one run for ten modules because they share nothing: in
`Services` the variable `service` says which one is running, and the others
stay as they were initialised. The state space is the sum of theirs, and every
property is checked in the states of its own service. That nothing is lost by
it is a theorem (`EachByItself`): the composition implements the specification
of each service. It and the two runs of the workers do not check
for deadlock: a service whose bounds are used up stops. In the same way
`outside` and `in_memory` run two modules each, which share no state: the
variable `part` says which one, and a property of the other holds throughout as
it did initially.

### Bounds, and why they are enough

* `FaultBudget` gives each kind of fault a number. One of a kind is enough for
  every pair of different faults to meet in every order; two failed statements
  are in the promise run because dropping the first *and* the last write of a
  row is a case of its own. The repeating and the losing faults are in separate
  runs because they carry different promises: with a repeating fault a settled
  row may legitimately move again, so the abstract promise cannot hold.
* One retry is the first for which both branches of `AfterTransient` occur; the
  number only lengthens the loop.
* Two workers are what a redelivered message needs to run twice at once. A
  second job matters only for mixing rows up, which the promise run covers.
* Three coroutines: one opens the circuit while a second sleeps and a third
  waits for its answer. Threshold 2 separates a probe's failure from a first
  failure; two tokens let the bucket run empty during an outage.
* Two attempts let one post be lost and the next one be answered. Sagas do not
  share state, so three are for the two kinds of platform side by side.
* One edge and its two ends is the smallest graph in which order matters; two
  runs and the admin writes share it. `MaxFailures` bounds failed polls.
* Four texts: one pair with similar signatures, one with close SimHashes, and a
  text like no other, which takes a key over. Batches of two give a key to each
  position; the signature has two bands of two positions, of which three must
  be equal, so that similar texts share a band as they do with the defaults.
* Three nodes and the edges a-b, b-c, a-c, c-a are the smallest graph with a
  cycle, a detour cheaper than the direct edge, and a weight of 0. Two kept of
  three snapshots make one eviction; six areas are what two snapshots, the
  store and two further copies need (`AreasAssumption`). Queries of up to three
  hops go once around the cycle; `hop_decay` 1/2 and `damping` 17/20 are the
  code's defaults. Two iterations of PageRank meet a rank that is no longer
  uniform; what more of them do is proved.
* Three of four topics are selected, so a topic may be left out; a budget of
  two calls runs out within a run. The graphs are one in which nothing differs,
  one in which two topics lead in one measure each, and one in which a topic is
  behind in both.
* `services`: three workers are one that starts, one that serves and one that
  has died; two threads and two connections let a transaction meet a statement,
  and the pool run empty; two clients, one of them ahead by a tick, a bucket of
  one token that Redis may lose twice, at any time; one cache key, as keys do
  not meet; a quota that two searches overshoot; two token renewals at once
  with a margin of two timeouts (the code's margin is 100 s, its timeouts 10 s
  for the token and 15 s for the posts; httpx means them for each phase of a
  request, so that a request ends within one is `TokenAssumption`, not a fact);
  one unit of an experiment, with every hash of it; outcomes of two values, up
  to three for a variant; dates on both sides of midnight; scores at 0, 1, 8, 9
  and 10 with windows of 2 and 8, so that gaps fall short of, meet and exceed
  both; four labels of checkpoints, spelt in another order than their hours,
  and one that is none. `MaxTime`, `MaxClock`, `LastSecond`, `MaxGranted`,
  `MaxForgotten`, `MaxWrites`, `MaxCreated`, `MaxOutcomes`, `MaxPoints`,
  `MaxServing` and `MaxServed` bound counters.

### Fairness

* `ContentQueue`: a request being answered, a background task and a worker with
  something to do go on (an event loop and a Celery worker are loops that do).
  Clients need not call, faults need not happen, and an idle API process owes
  nothing. `EventuallySettled` is claimed while no write was dropped and the
  API process, which keeps background tasks in memory, did not die.
* `Collector`: the event loop resumes every coroutine, timeouts end a fetch,
  and time passes. No call is fair: nothing in the repository keeps calling a
  collector (`_collect_live()` returns no documents, and nothing schedules
  one), and a circuit nobody asks stays open. `Recovers` is therefore an
  implication: if the platform answers from some time on, and some coroutine
  goes on calling (`CallsGoOn`, that coroutine's weak fairness as a
  hypothesis), the circuit closes for good. The code has to see to the rest:
  that rejected calls do not starve the probe of tokens, or late failures
  reopen the circuit for ever.
* `Publishing`: `execute()` runs to its end. Nobody has to call it.
* `GraphPersistence`: the page polls on its timer and the API answers. No run
  has to finish.
* `DailyPipeline`: a run that was called goes on, and the loop calls the next
  one (`worker.py` sleeps ten minutes in an endless loop).
* `outside` has the fairness of both its parts, for the one that runs.
* `GraphVersions`, `Realtime` and the services claim no liveness: their
  operations are called by others, who need not. Nothing schedules the
  real-time flow.

### Disagreements found

1. `tasks.py:6-7` lists database connection delays among the failures that are
   retried. `_update_status` (`content.py`) logs and drops the error, so the
   task succeeds and the row stays at `processing` (`content_blip`).
2. `base_collector.py:79-80` says an open circuit stays open for the timeout.
   `record_success` closes it whatever its state, so a fetch that was under way
   closes it at once (`collector_late_success`).
3. `saga_coordinator.py:4-5` promises that compensation rolls partial state
   back. When `execute()` compensates, `post_id` is always `None`
   (`CompensationIsIdle`, proved), so a post whose answer was lost stays live
   (`publish_rollback`).
4. `main.py:57-61` and `gunicorn.conf.py:12-14` say that the metrics directory
   is emptied once, by the master, since a cleanup by each worker would erase
   siblings' metrics. `main.py:63` does it in every worker, after the worker's
   middleware has opened its gauges: siblings' counts disappear at every start,
   and a worker's own gauges are gone before its first request
   (`workers_shown`). `docs/deployment.md:124-128` describes just this and asks
   for the hook of the master besides, which does not make up for it.
5. `gunicorn.conf.py:15-17` and `:60-62` say that once `child_exit` has run, a
   gone worker's gauges and counters are no longer counted.
   `mark_process_dead()` removes its live gauges only; its counters stay in the
   total (`workers_gone`).

Shown by passing runs and proofs, whose properties say what holds instead:

6. `deduplicator.py:169` says `is_duplicate` is true of a text that duplicates
   something already seen. The real-time flow names documents without a
   `source_id` `rt0`, `rt1`, ... in every call, and a key used twice loses its
   first signature, so lookalikes of earlier calls pass: only then
   (`LookalikesOnlyByReuse`, proved).
7. The monthly LLM budget (`blog_generator.py:46-52`) is a field of a generator
   that each run makes anew: it is a budget of a run, of which the polling loop
   makes 144 a day (`BudgetHoldsPerAttempt`, proved). The daily quota of
   `CandidateSelector` is applied to each call in the same way.
8. No generator names a source or a license, so a template text has a risk of
   0.32 and the threshold is 0.30: what is generated without the LLM can never
   pass the gate (`OnlyTheLlmPasses`, proved).
9. `db_adapter.py:13-15` says that connections are always returned. A
   `transaction()` whose `getconn()` times out leaves the flag set, and the
   next call's connection and writes behind (`CallsLeaveNothing`, proved).
   Every adapter of the repository serves one call and is closed, and
   `transaction()` is called by tests only. `executemany()` calls a method
   psycopg 3 has on cursors only.
10. `robots_checker.py:57` says "fail-open when robots is unavailable": that is
    so for a site that was never reached; one that answered with a 5xx is
    closed until `refresh()` reads something else (`LastAnswerCounts`, proved).
11. A label `aggregate_total()` cannot read makes it raise for that post from
    then on (`EstimateIsLatest`, proved). An event whose end is given as a date
    ends as that day begins; whether its last day should belong to it no
    document says, and `EventsKeepToTheirDays` leaves it open.
12. What the rate limiter grants is bounded by one bucket only as long as Redis
    keeps it: each loss, which `allkeys-lru` allows at any time, is worth a
    capacity (`GrantsAreBounded`, proved).

## 4. Proofs

Every safety property and every action property the runs check is proved, and
so are both refinements. All theorems hold for every value of the constants
that satisfies the named assumptions of the modules:

* numbers are in `Nat`, at least one where the code needs it; edges join nodes;
  the values that stand for nothing (`NoTask`, `NoText`, `NoConn`) are no
  values;
* `Callers`, `Pids`, `Threads`, `Conns` and the topics of the seed graph are
  finite, because what is said of them is a number; there is a caller; areas
  are finite and enough for two more copies (`AreasAssumption`). The seed graph
  is finite (`SeedsAssumption`; it is two JSON files). `Jobs`, `Workers`,
  `Sagas`, `Flows`, `Nodes`, `Edges`, `Texts`, `NodeIds`, `Keys` may be
  infinite;
* every weight but 0 divides `Unit`, `hop_decay` is above 0 and, like
  `damping`, at most 1 (`UnitAssumption`, `DecayAssumption`,
  `DampingAssumption`);
* two similar signatures share a band (`BandingAssumption`), two requests that
  end within their timeout fit the margin of a token (`TokenAssumption`), the
  clocks of clients are ahead by `MaxAhead` at most (`BucketsAssumption`), the
  moments at which events are asked for have a time of day (`DatesAssumption`),
  two checkpoints have different hours (`LabelsAssumption`), times to live are
  at most `LongestTtl` (`TtlAssumption`).

One theorem has a hypothesis of its own: *PromiseKept* assumes
`NothingRepeats`, that the four kinds of fault that make work run again do not
occur. The run `content_promise` is such an instance; with those faults the
promise is false.

**ContentQueueProofs.**
*NobodyForgotten* is `Spec => []SettledUnlessOwed`. By itself the
property is not inductive. A crash keeps a job attended only if the broker
still has the message (`BrokerKeeps`); a failing task goes on owing a write
only if a retry is published when one is left (`RetriesLeft`); an update
settles a row only if there is one (`RowInserted`); and each of these is
conditional on faults not having happened yet, which is meaningful because
budgets only fall (`BudgetFalls`). `QueueInv` is their conjunction.
*OutcomeMatchesPayload* uses `PayloadInv`: whoever is about to write a result
has generated a text (`TextExists`). *OnlyRequestsInsert* is an action property
that needs the types only. *TypeCorrect* supports all of them.

*TextsNeedFaults* and *SettledIsFinal* need to know who may still generate a
text, or write the row. `OneAtATime` counts them: the request while it may, the
copies of the job's messages in the queue (numbered, as a set: `Copies`), the
workers that are with it (`Busy`). Together with the texts there are, or with
the outcome the row has, they are one, and one more for each fault that repeats
work. Each step moves one of them from a place to the next, which a lemma for
each kind of place says once (a copy more, a copy less, a worker that comes,
stays or goes); the sets need no finite `Workers`, as they are finite
themselves. With no repeats, whoever may generate finds no text and whoever may
write finds no outcome (`OneAuthor`), so each step is one of a few for a job
(`JobStep`). *PromiseKept*, `Spec => KeepsPromise`, maps these to the steps of
`ContentJob`; it needs in addition that a request that has not inserted its row
finds none (`Unposted`). A job may fail without a text or with one that was not
checked.

**CollectorProofs.** *BreakerAgrees* and *OneProbeReopens* from `BreakerInv`:
types, the agreement of state and counter, and `AttemptsLeft` (a sleeping
coroutine has a fetch left, without which `attempt` could leave its range).
A half-open circuit carries a full counter, so one failure is enough.
*LeakBounded*: a fetch starts on an open circuit only by waking up, and who is
awake while it is open stays so until the period ends. `LeakInv` adds the
leaks to those asleep and to the one that opened the circuit.

**PublishingProofs.** `SagaInv` adds to the three safety properties that a saga
knows a post only after `execute()` returned (`NamedAtTheEnd`); a retry would
otherwise be able to overwrite an identifier, and *PostsExplained* would fail.
*NothingToCompensate* is the same fact at the moment of compensation.

**GraphProofs, of GraphPersistence.** `GraphInv`: every run that has reached
its edges has stored its nodes, what it has still to write plus what is in the
tables covers its store, and nothing is ever deleted. *NoDanglingEdges* and
*StoredIsComplete* follow; *LiveStaysLive* needs in addition that a page has
read only what is still there and that live data has at least one node.

**RealtimeProofs.** *MissesOnlyByReuse* rests on `PassedIsUnlike`: a similar
text shares a band, so its key is a candidate, and the comparison can only fail
if the key has another signature by now; that never comes back, because an
accepted text is never accepted again. The sharing of a band is the assumption
`BandingAssumption`. It holds for the defaults by counting: similar signatures
differ in at most 19 of 128 positions, which cannot touch all 32 bands. The
invariant `SeenInv` also carries *SeenMeansStored* and the types, among them
that no candidate is without a signature. *CutShortIsMadeUp* adds that a call
that persists has every topic of the store either in the table or still to do
(`UpsertsAll`); with *SeenMeansStored*, that is every text it would reject.

**GraphProofs, of GraphVersions.** `StoreInv` is the types, `ListsAgree`, and
`Apart`: `live`, `back` and the areas of the snapshots are different, without
which a step on the store could be seen in a snapshot. `TwoFresh` counts areas:
at most `Keep` snapshots and the two of the store leave two free. Every action
that adds is shown to be one fact, a *gain* (`AddNodeGains`, `AddEdgeGains`,
`BootstrapGains`), so that invariant and refinement are proved once for the
three. *Refines*, `Spec => KeepsVersions`, then maps a gain to `Merge`, a
snapshot to `Save` (`RoomKeeps`: eviction shifts the versions by at most one)
and a rollback to `Restore`. *FiniteGraphs*: every object keeps finitely many
nodes and edges (`AllFinite`), which is inductive by itself.

**GraphProofs, of GraphQuery and GraphAnswers.** *QueriesStayRight* is
`Spec => []QueriesAgree`. Two invariants of the store are all it needs
(`QueriesHold`): the graph is finite, without which sums are nothing and
Dijkstra's loop need not end, and every edge has its ends, which is part of
`TypeOK`. The rest are six theorems of the queries, for any such graph and any
number of hops, rounds and iterations. Each loop has an invariant of its own:

* *NeighborsRight* (`SearchInv`): after r rounds the nodes answered are the
  ends of the walks of 1 to r edges, each with the length of its shortest one,
  and the frontier is what the last round met first. A node that is met again
  adds nothing, since whatever follows it was followed before.
* *ShortestPathRight* (`RouteInv`): the heap has walks; a node that is known
  and whose cheapest entry is no longer in the heap is settled: nothing in the
  heap costs less, and its neighbours are known at no more than a step from it
  costs. Hence of every walk there is, either an entry of the heap costs no
  more, or its end is settled at no more (`WalksAreBounded`). So the first
  entry taken that ends at the target is a cheapest walk (`AnswerIsOptimal`),
  and with an empty heap there is none. Edges of weight 0 cost infinitely much
  and are never followed. The loop ends because of `Left`, the entries of the
  heap with the edges that leave nodes that are not settled: every push is paid
  by an edge, every pop takes one away (`PopLeavesLess`).
* *InfluenceRight* (`SpreadInv`): after r rounds the entries that are at a node
  add up to what exactly r hops bring to it, and its score to what 1 to r hops
  do. Entries are kept apart by the way they came (`NoneTwice`); the sum over
  the next entries is taken edge by edge (`NextBrings`).
* *RanksRight* (`AddUp`): the ranks add up to the whole. A node that leads
  somewhere gives away the same share in all, split by its weights
  (`SharesAddUp`), the others are spread over all nodes, and the two parts with
  the base of each node are the whole again (`NothingIsLost`).
* *SubgraphRight* needs that edges have their ends; *TopKRight* is what sorting
  by `Place` gives.

**DailyPipelineProofs.** *ChargesBounded* from `BudgetInv`: what the generator
counted and what was lost covers what was billed in this attempt, and a first
attempt that is over charged a whole budget at most (`ChargesAddUp`).
*BudgetHolds* adds the bound by calls (`CallsInv`): what was billed and what
may still be billed for the topics that wait is `TopK` an attempt.
*TemplatesNeverPass* follows the template from its generation to the gate
(`GateInv`); that it fails there is the arithmetic of the risk
(`TemplateFails`). *SelectionSound* rests on `Line`, the topics that have an
output, the one on its way to the gate and those that wait, in this order: once
selected, the sequence never changes, and `Selection` holds of it
(`SelectedOf`: as many different topics as the limits and the graph allow, none
without a score while one with a score is left out). That such a topic leads in
no measure is a fact of `MinMax`: it is above 0 exactly for what is above the
smallest.

**ServicesProofs**, first of each service by itself:

* *OldCountsForgotten* (`WorkersInv`): the files of workers of a killed server
  are removed when the next one starts, and nobody opens them again.
* *NothingIsLeft* (`AdapterInv`): while threads do not overlap with the flag,
  one of them is in the adapter (`Alone`), each connection is in the pool, kept
  by the flag or used by one statement (`Connected`), and what is not committed
  will be, or is on the connection a failed `transaction()` left (`Committed`).
* *GrantsBounded* (`SharedAccount`, `OwnAccount`): tokens granted and left come
  from the capacity, once per bucket Redis has had, and from the time `last`
  has come to, counting what it was moved back (`BucketAccount`). Of a bucket
  that is lost only what was granted counts (`LostAccount`), which is less by a
  capacity than the next bucket may bring; so whatever an old snapshot comes
  back with is covered. Products with `RefillRate` are facts of their own
  (`Distributes`), as the prover does no non-linear arithmetic by itself.
* *OldReadsEndSoon* (`EntriesKnown`): an entry is the last write or something
  since was missed, and is kept for `LongestTtl` at most; so is every entry of
  the snapshot a restart may bring back.
* *HelpersStaySound* adds retries and robots.txt. That no delay shrinks
  (`DelayGrows`) is first that the recursive `Factor` exists and has numbers
  for values (`FactorGrows`), then that the functions of two lengths agree as
  far as both go (`FactorsAgree`), so that one more attempt is one more step of
  the same growth; `RetryInv` adds that a call sleeps only with an attempt
  left. For robots.txt, the rules that are kept are those that were read last
  (`KeptIsLast`), which no load that fails changes (`LoadKeeps`).
* *SharesHonoured*: shares add up one by one to the whole (`SharesAddUp`), so
  the buckets of a variant are an interval as long as its share; what a unit is
  assigned is settled when the experiment is created (`Answer`).
* *WinnersSound*: the places of a value in sorted outcomes are those from the
  number of smaller ones, plus one, to that of the smaller and equal ones
  (`RankCounts`); summed over the treatment this counts pairs, with the control
  and within the treatment (`RanksAddUp`), and the latter are as many as the
  ranks' least sum (`RanksCountPairs`). What is ahead as often as behind is at
  the mean and not significant (`EvenIsNotSignificant`).
* *TokensStayFresh* (`TokensLast`): a kept token ends no earlier than one
  timeout before the collector believes, so a margin of two covers the request
  too. `QuotasKept` counts what searches under way may still charge
  (`PendingUnits`, a sum over coroutines): when one is let in, the units were
  below the limit, and every other coroutine holds a search and a page at most.
* *EventsKept*: the order of dates as texts is that of instants but for an end
  without a time (`TextsAreInstants`); a boost is a sum over a subset.
* *OrderIgnored*: scores at different times have one place each in the sorted
  sequence, so the last one, the first one, and what a window cuts off are
  those of the set, whatever the order they came in (`SortedInTime`,
  `VelocityInOrder`). The scores from before the acceleration window are the
  sorted ones up to some place (`OlderComeFirst`, `PrefixInTime`), and their
  velocity is that of the set they make up (`AccelerationIs`).
* *EstimateStaysLatest*: among the checkpoints recorded for a post one is the
  latest (`SomeAreLatest`), and an observation that is not at it leaves it and
  its value alone.

*EachByItself* then shows that a step of the composition is a step of one
service that leaves the others as they are, so each of these holds of `Spec` of
`Services`, which is what the run checks (*ServicesTypes*, *HelpersStaySound*).

**Instead of induction.** The library's induction theorems cannot be
instantiated by the installed provers, and most of these results are about
sums, sorted sequences or functions defined by recursion. They are proved by
the least counterexample instead: a set of numbers that is not empty has a
least element (`LeastElement`, from the well-foundedness of `<`), and of the
finite sets for which a claim fails one has no smaller one among them
(`SmallestSet`). From these follow the facts on `SumFunctionOnSet`, whose
definition fixes one order of taking the elements: any element can be taken
first (`SumTakes`), sums add (`SumsAdd`), a relation is counted row by row
(`SumOfRows`). `StableOrder` defines sorting without recursion, by the number
of elements that come before (`Place`); that every place is taken exactly once
is the pigeonhole principle (`PlacesAreTaken`). What holds of 0, and of the
next number when of one, is true of all of them in the form of a set of numbers
(`AllNumbers`); a function defined round by round exists and has its values
(`RoundsExist`), once its rounds are known to stay in some set. These facts are
in the module `Counting`.

**Model-checked only.** Liveness (`EventuallySettled`, `Recovers`, `Returns`,
`EventuallyShown`, `RunsArePushed`), which is out of this prover's reach. The
five violated properties are disagreements found by TLC.

## 5. Plan

1. The adapter under `GraphPersistence`, as the source of its `Aborts`.
2. The weights of rows, with two runs that upsert one node.
3. The SQLite backend of the adapter, the requests of a collector per window
   against the bucket, and the two statements of `counts()`
   (`content_repo.py:110`): the hazards that have no property yet.

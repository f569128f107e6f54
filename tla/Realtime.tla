------------------------------ MODULE Realtime ------------------------------
(***************************************************************************)
(* run_realtime_ingestion(), one call after another: documents are         *)
(* deduplicated, their topics added to the store, and the whole store is   *)
(* persisted.                                                              *)
(*                                                                         *)
(* Store and deduplicator are parameters: calls that are given the objects *)
(* of the calls before them go on with those, and a call that is given     *)
(* none (all that the flow itself makes) starts with new ones, the step    *)
(* Restart.  They live in the process; the table outlives it.              *)
(***************************************************************************)
EXTENDS Deduplicator, Sequences

CONSTANTS
  Docs,        \* documents
  TextOf,      \* [Docs -> Texts]
  Topics,      \* node ids
  TopicOf,     \* [Docs -> Topics]: make_node_id("topic", title), not injective
  SourceId,    \* [Docs -> DocKeys \cup {NoKey}]
  NoKey,       \* for documents without a source_id
  DefaultKey,  \* [1..MaxBatch -> DocKeys]: "rt{i}", the same in every call
  MaxBatch,    \* bounds the documents of one call
  FaultBudget  \* [FaultKinds -> Nat]: bounds the faults of a behaviour

FaultKinds ==
  { "metrics",   \* record_graph_size() raises: the call ends before persisting
    "db",        \* a statement fails: the rest of the store is not persisted
    "restart" }  \* the process ends, or a call is given new objects

ASSUME DocsAssumption ==
  /\ TextOf \in [Docs -> Texts]
  /\ TopicOf \in [Docs -> Topics]
  /\ SourceId \in [Docs -> DocKeys \cup {NoKey}]
  /\ MaxBatch \in Nat
  /\ DefaultKey \in [1..MaxBatch -> DocKeys]
ASSUME BudgetAssumption == FaultBudget \in [FaultKinds -> Nat]

VARIABLES
  topics,  \* the topics of the in-memory graph store
  table,   \* the topics in graph_nodes
  pc,      \* where the call is
  batch,   \* the documents the call has still to look at
  at,      \* the position of the next one
  todo,    \* topics persist_graph_to_db has still to upsert
  budget   \* [FaultKinds -> Nat]: the faults that may still happen

call == <<pc, batch, at, todo>>
realtime == <<seen, topics, table, call, budget>>

Batches == UNION {[1..n -> Docs] : n \in 0..MaxBatch}

RealtimeTypeOK ==
  /\ SeenType
  /\ \A p \in filed : latest[p[1]] # NoText
  /\ topics \subseteq Topics
  /\ table \subseteq Topics
  /\ pc \in {"idle", "ingest", "persist"}
  /\ batch \in Seq(Docs) /\ Len(batch) <= MaxBatch
  /\ at \in 1..(MaxBatch + 1)
  /\ at <= Len(batch) + 1
  /\ todo \subseteq Topics
  /\ budget \in [FaultKinds -> Nat]

RealtimeInit ==
  /\ SeenNothing
  /\ topics = {}
  /\ table = {}
  /\ pc = "idle"
  /\ batch = <<>>
  /\ at = 1
  /\ todo = {}
  /\ budget = FaultBudget

-----------------------------------------------------------------------------
Spend(kind) ==
  /\ budget[kind] > 0
  /\ budget' = [budget EXCEPT ![kind] = @ - 1]

Begin(b) ==
  /\ pc = "idle"
  /\ pc' = "ingest"
  /\ batch' = b
  /\ at' = 1
  /\ UNCHANGED <<seen, topics, table, todo, budget>>

Doc == batch[at]
Key == IF SourceId[Doc] = NoKey THEN DefaultKey[at] ELSE SourceId[Doc]

Skip ==
  /\ pc = "ingest" /\ at <= Len(batch)
  /\ Duplicate(TextOf[Doc])
  /\ at' = at + 1
  /\ UNCHANGED <<seen, topics, table, pc, batch, todo, budget>>

Accept ==
  /\ pc = "ingest" /\ at <= Len(batch)
  /\ ~Duplicate(TextOf[Doc])
  /\ Register(Key, TextOf[Doc])
  /\ topics' = topics \cup {TopicOf[Doc]}
  /\ at' = at + 1
  /\ UNCHANGED <<table, pc, batch, todo, budget>>

\* Mutation: a call persists what it added itself.
PersistNewOnly ==
  /\ pc = "ingest" /\ at > Len(batch)
  /\ pc' = "persist"
  /\ todo' = {TopicOf[batch[i]] : i \in 1..Len(batch)}
  /\ UNCHANGED <<seen, topics, table, batch, at, budget>>

\* record_graph_size(), then persist_graph_to_db() with the whole store.
Persist ==
  /\ pc = "ingest" /\ at > Len(batch)
  /\ pc' = "persist"
  /\ todo' = topics
  /\ UNCHANGED <<seen, topics, table, batch, at, budget>>

MetricsFail ==
  /\ pc = "ingest" /\ at > Len(batch)
  /\ pc' = "idle"
  /\ Spend("metrics")
  /\ UNCHANGED <<seen, topics, table, batch, at, todo>>

Upsert(n) ==
  /\ pc = "persist"
  /\ n \in todo
  /\ todo' = todo \ {n}
  /\ table' = table \cup {n}
  /\ UNCHANGED <<seen, topics, pc, batch, at, budget>>

Persisted ==
  /\ pc = "persist" /\ todo = {}
  /\ pc' = "idle"
  /\ UNCHANGED <<seen, topics, table, batch, at, todo, budget>>

\* persist_graph_to_db() returns False; the call succeeds all the same.
PersistFails ==
  /\ pc = "persist"
  /\ pc' = "idle"
  /\ todo' = {}
  /\ Spend("db")
  /\ UNCHANGED <<seen, topics, table, batch, at>>

CallStep ==
  \/ Skip \/ Accept \/ Persist \/ MetricsFail
  \/ \E n \in Topics : Upsert(n)
  \/ Persisted \/ PersistFails

\* Mutation: the deduplicator survives, the store does not.
RestartKeepsSeen ==
  /\ Spend("restart")
  /\ topics' = {}
  /\ pc' = "idle"
  /\ todo' = {}
  /\ UNCHANGED <<seen, table, batch, at>>

\* The process starts again, or a call is made without the earlier ones'
\* objects (realtime_ingestion.py:36-37): an empty store and deduplicator.
Restart ==
  /\ Spend("restart")
  /\ Forget
  /\ topics' = {}
  /\ pc' = "idle"
  /\ todo' = {}
  /\ UNCHANGED <<table, batch, at>>

RealtimeNext == (\E b \in Batches : Begin(b)) \/ CallStep \/ Restart

RealtimeSpec == RealtimeInit /\ [][RealtimeNext]_realtime

-----------------------------------------------------------------------------
(* Correctness.                                                            *)

\* No two accepted texts look alike, unless one of them lost its signature
\* to a later document under its key: bands, signatures and SimHashes never
\* miss a text they still know (deduplicator.py:172-190).
LookalikesOnlyByReuse ==
  \A p, q \in filed :
    p[2] # q[2] /\ Alike(p[2], q[2]) => latest[p[1]] # p[2] \/ latest[q[1]] # q[2]

\* What the deduplicator rejects from now on is in the store: a call that
\* fails after it registered a text never makes the next ones skip a topic
\* that is in neither store nor table (realtime_ingestion.py:39-48).
SeenIsStored ==
  \A t \in exact : \E d \in Docs : TextOf[d] = t /\ TopicOf[d] \in topics

\* A call that persists makes up for the calls before it: what they were
\* cut short of, and the deduplicator will never let in again, is among what
\* it upserts if it is not in the table (realtime_ingestion.py:36-49,
\* graph_persist.py:39-45).
EarlierCallsAreMadeUp ==
  pc = "persist" =>
    \A t \in exact : \E d \in Docs : TextOf[d] = t /\ TopicOf[d] \in table \cup todo

=============================================================================

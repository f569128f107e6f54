-------------------------- MODULE GraphPersistence --------------------------
(***************************************************************************)
(* The knowledge graph on its way to the dashboard: a pipeline run builds  *)
(* an in-memory store and persists it statement by statement, other runs   *)
(* and the admin endpoints write the same two tables, and the explorer     *)
(* page polls them with one query for the nodes and one for the edges.     *)
(*                                                                         *)
(* A node or edge is there or not: the weights, which every upsert         *)
(* overwrites, are left out.  No statement deletes anything.               *)
(***************************************************************************)
EXTENDS Naturals

CONSTANTS
  Flows,        \* runs of the daily and real-time pipelines
  Nodes,        \* node ids
  Edges,        \* edge ids: [from, to] pairs (the relation is left out)
  MaxFailures   \* bounds the polls that meet a database error

ASSUME EdgesAssumption == Edges \subseteq Nodes \X Nodes
ASSUME FailuresAssumption == MaxFailures \in Nat

VARIABLES
  built,    \* [Flows -> [nodes, edges]]: InMemoryGraphStore of the run
  pc,       \* [Flows -> where the run is]
  todo,     \* [Flows -> what persist_graph_to_db has still to upsert]
  db,       \* [nodes, edges]: the tables graph_nodes and graph_edges
  posted,   \* edges POST /admin/api/edge wrote (history)
  page,     \* [reading, nodes]: the poll between its two queries
  shown,    \* [source, nodes, links]: what the explorer shows
  failures  \* polls that met a database error

flow == <<built, pc, todo>>
explorer == <<page, shown, failures>>
persistence == <<flow, db, posted, explorer>>

Tables == [nodes : SUBSET Nodes, edges : SUBSET Edges]
Ends(e) == {e[1], e[2]}

PersistenceTypeOK ==
  /\ built \in [Flows -> Tables]
  /\ \A f \in Flows : \A e \in built[f].edges : Ends(e) \subseteq built[f].nodes
  /\ pc \in [Flows -> {"build", "nodes", "edges", "stored", "aborted"}]
  /\ todo \in [Flows -> SUBSET (Nodes \cup Edges)]
  /\ db \in Tables
  /\ posted \in SUBSET Edges
  /\ page \in [reading : BOOLEAN, nodes : SUBSET Nodes]
  /\ shown \in [source : {"none", "live", "seed"},
                nodes : SUBSET Nodes, links : SUBSET Edges]
  /\ failures \in 0..MaxFailures

Empty == [nodes |-> {}, edges |-> {}]

PersistenceInit ==
  /\ built = [f \in Flows |-> Empty]
  /\ pc = [f \in Flows |-> "build"]
  /\ todo = [f \in Flows |-> {}]
  /\ db = Empty
  /\ posted = {}
  /\ page = [reading |-> FALSE, nodes |-> {}]
  /\ shown = [source |-> "none", nodes |-> {}, links |-> {}]
  /\ failures = 0

-----------------------------------------------------------------------------
(* A pipeline run.                                                         *)

AddNodeTo(f, n) ==
  /\ pc[f] = "build"
  /\ built' = [built EXCEPT ![f].nodes = @ \cup {n}]
  /\ UNCHANGED <<pc, todo, db, posted, explorer>>

\* Mutation: the endpoints are not looked at.
AddEdgeUncheckedTo(f, e) ==
  /\ pc[f] = "build"
  /\ built' = [built EXCEPT ![f].edges = @ \cup {e}]
  /\ UNCHANGED <<pc, todo, db, posted, explorer>>

\* An edge whose endpoints are not both there raises KeyError: no step.
AddEdgeTo(f, e) ==
  /\ pc[f] = "build"
  /\ Ends(e) \subseteq built[f].nodes
  /\ built' = [built EXCEPT ![f].edges = @ \cup {e}]
  /\ UNCHANGED <<pc, todo, db, posted, explorer>>

\* Mutation: the edges are written before the nodes.
PersistEdgesFirst(f) ==
  /\ pc[f] = "build"
  /\ pc' = [pc EXCEPT ![f] = "edges"]
  /\ todo' = [todo EXCEPT ![f] = built[f].edges]
  /\ UNCHANGED <<built, db, posted, explorer>>

\* persist_graph_to_db(): the nodes first.
Persist(f) ==
  /\ pc[f] = "build"
  /\ pc' = [pc EXCEPT ![f] = "nodes"]
  /\ todo' = [todo EXCEPT ![f] = built[f].nodes]
  /\ UNCHANGED <<built, db, posted, explorer>>

UpsertNode(f, n) ==
  /\ pc[f] = "nodes"
  /\ n \in todo[f]
  /\ todo' = [todo EXCEPT ![f] = @ \ {n}]
  /\ db' = [db EXCEPT !.nodes = @ \cup {n}]
  /\ UNCHANGED <<built, pc, posted, explorer>>

PersistEdges(f) ==
  /\ pc[f] = "nodes"
  /\ todo[f] = {}
  /\ pc' = [pc EXCEPT ![f] = "edges"]
  /\ todo' = [todo EXCEPT ![f] = built[f].edges]
  /\ UNCHANGED <<built, db, posted, explorer>>

UpsertEdge(f, e) ==
  /\ pc[f] = "edges"
  /\ e \in todo[f]
  /\ todo' = [todo EXCEPT ![f] = @ \ {e}]
  /\ db' = [db EXCEPT !.edges = @ \cup {e}]
  /\ UNCHANGED <<built, pc, posted, explorer>>

\* persist_graph_to_db() returns True.
Stored(f) ==
  /\ pc[f] = "edges"
  /\ todo[f] = {}
  /\ pc' = [pc EXCEPT ![f] = "stored"]
  /\ UNCHANGED <<built, todo, db, posted, explorer>>

\* Mutation: an error of one statement is skipped, and the loop goes on.
SkipsFailed(f) ==
  /\ pc[f] \in {"nodes", "edges"}
  /\ \E x \in todo[f] : todo' = [todo EXCEPT ![f] = @ \ {x}]
  /\ UNCHANGED <<built, pc, db, posted, explorer>>

\* A statement fails: False, and what was committed before it stays.
Aborts(f) ==
  /\ pc[f] \in {"nodes", "edges"}
  /\ pc' = [pc EXCEPT ![f] = "aborted"]
  /\ UNCHANGED <<built, todo, db, posted, explorer>>

FlowStep(f) ==
  \/ \E n \in Nodes : AddNodeTo(f, n) \/ UpsertNode(f, n)
  \/ \E e \in Edges : AddEdgeTo(f, e) \/ UpsertEdge(f, e)
  \/ Persist(f) \/ PersistEdges(f) \/ Stored(f) \/ Aborts(f)

-----------------------------------------------------------------------------
(* POST /admin/api/node and /admin/api/edge: the endpoints of an edge are  *)
(* not looked at.                                                          *)

PostNode(n) ==
  /\ db' = [db EXCEPT !.nodes = @ \cup {n}]
  /\ UNCHANGED <<flow, posted, explorer>>

PostEdge(e) ==
  /\ db' = [db EXCEPT !.edges = @ \cup {e}]
  /\ posted' = posted \cup {e}
  /\ UNCHANGED <<flow, explorer>>

-----------------------------------------------------------------------------
(* The explorer page, GET /admin/api/graph.                                *)

\* Mutation: the timer is not set again after an answer.
PollOnce ==
  /\ ~page.reading
  /\ shown.source # "live"
  /\ page' = [reading |-> TRUE, nodes |-> db.nodes]
  /\ UNCHANGED <<flow, db, posted, shown, failures>>

Poll ==
  /\ ~page.reading
  /\ page' = [reading |-> TRUE, nodes |-> db.nodes]
  /\ UNCHANGED <<flow, db, posted, shown, failures>>

ShowSeed ==
  /\ shown' = [source |-> "seed", nodes |-> {}, links |-> {}]
  /\ page' = [page EXCEPT !.reading = FALSE]

\* mergeData() drops the links one of whose ends was not in the answer.
ShowLive(nodes) ==
  /\ shown' = [source |-> "live", nodes |-> nodes,
               links |-> {e \in db.edges : Ends(e) \subseteq nodes}]
  /\ page' = [page EXCEPT !.reading = FALSE]

\* The second query; a graph without nodes is replaced by the seed graph.
Answer ==
  /\ page.reading
  /\ IF page.nodes = {} THEN ShowSeed ELSE ShowLive(page.nodes)
  /\ UNCHANGED <<flow, db, posted, failures>>

\* Either query fails: the seed graph.
AnswerFails ==
  /\ page.reading
  /\ failures < MaxFailures
  /\ failures' = failures + 1
  /\ ShowSeed
  /\ UNCHANGED <<flow, db, posted>>

PersistenceNext ==
  \/ \E f \in Flows : FlowStep(f)
  \/ \E n \in Nodes : PostNode(n)
  \/ \E e \in Edges : PostEdge(e)
  \/ Poll \/ Answer \/ AnswerFails

PersistenceSpec == PersistenceInit /\ [][PersistenceNext]_persistence

\* The page polls on, and the API answers; no run and no client is needed.
FairPersistenceSpec ==
  PersistenceSpec /\ WF_persistence(Poll) /\ WF_persistence(Answer \/ AnswerFails)

-----------------------------------------------------------------------------
(* Correctness.                                                            *)

\* Only an edge an administrator posted can dangle: runs that share the
\* tables and are cut short anywhere never leave an edge without its ends
\* (graph_persist.py:39-58 writes every node before the first edge).
OnlyPostedEdgesDangle ==
  \A e \in db.edges : Ends(e) \subseteq db.nodes \/ e \in posted

\* When persist_graph_to_db() answers True, the whole store is in the tables,
\* whatever other runs did to them meanwhile (graph_persist.py:55).
StoredMeansComplete ==
  \A f \in Flows :
    pc[f] = "stored" =>
      built[f].nodes \subseteq db.nodes /\ built[f].edges \subseteq db.edges

\* A dashboard that shows live data goes back to the seed graph only on a
\* database error (api/admin/data.py:53-80).
SeedOnlyOnError ==
  [][shown.source = "live" /\ shown'.source = "seed" => failures' > failures]_persistence

\* An edge that is in the tables with its ends is shown in the end, and then
\* stays: a poll that read the nodes too early for it is not the last one.
EventuallyShown ==
  \A e \in Edges :
    e \in db.edges /\ Ends(e) \subseteq db.nodes ~> [](e \in shown.links)

=============================================================================

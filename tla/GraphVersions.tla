--------------------------- MODULE GraphVersions ----------------------------
(***************************************************************************)
(* InMemoryGraphStore and the snapshots GraphVersioning takes of it.       *)
(*                                                                         *)
(* The code works with objects: add_edge() puts one Edge object in the     *)
(* lists _adj and _in and later changes its weight in place, and the only  *)
(* thing between a snapshot and those changes is copy.deepcopy().  Objects *)
(* are therefore kept in areas of a heap, a deep copy being a new area:    *)
(* the objects the store lists in _nodes and _adj are those of one area,   *)
(* each snapshot has another, and an edge in _in is either the object      *)
(* _adj has or, after a rollback, one of an area of its own.               *)
(*                                                                         *)
(* Embeddings, attributes, labels and times are left out, and the order of *)
(* the lists.                                                              *)
(***************************************************************************)
EXTENDS WeightedGraph, Sequences, FiniteSets

CONSTANTS
  Keep,       \* keep_versions
  Areas,      \* areas of the heap
  NodeCalls,  \* the [id, weight] add_node() is called with
  EdgeCalls,  \* the [key, weight] add_edge() is called with
  Seeds,      \* the graph of the seed files
  MaxSaved    \* bounds the snapshots of a behaviour

ASSUME KeepAssumption == Keep \in Nat \ {0}
ASSUME CallsAssumption ==
  /\ NodeCalls \subseteq [id : NodeIds, weight : Weights]
  /\ EdgeCalls \subseteq [key : Keys, weight : Weights]
ASSUME SeedsAssumption ==
  /\ Seeds \in Graphs
  /\ IsFiniteSet(DOMAIN Seeds.nodes) /\ IsFiniteSet(DOMAIN Seeds.edges)
  /\ \A k \in DOMAIN Seeds.edges : {k.from, k.to} \subseteq DOMAIN Seeds.nodes
\* There is always room for two more copies.
ASSUME AreasAssumption == IsFiniteSet(Areas) /\ Cardinality(Areas) >= Keep + 4
ASSUME SavedAssumption == MaxSaved \in Nat

VARIABLES
  heap,      \* [areas in use -> Graphs]: the objects, by what they are
  live,      \* the area of the objects in _nodes and _adj
  back,      \* the area of those objects in _in that _adj has not
  shared,    \* the edges whose object is in _adj and in _in
  snapshots, \* _snapshots: <<[id, parent, at, news], ...>>, newest last
  counter    \* _counter

store == <<heap, live, back, shared>>
vars == <<store, snapshots, counter>>

Kept == DOMAIN snapshots
SnapshotAreas == {snapshots[i].at : i \in Kept}
Adj == heap[live].edges
InKeys == shared \cup DOMAIN heap[back].edges
In(k) == IF k \in shared THEN heap[live].edges[k] ELSE heap[back].edges[k]

Nothing == [nodes |-> {}, edges |-> {}]
Delta == [nodes : SUBSET NodeIds, edges : SUBSET Keys]

TypeOK ==
  /\ live \in Areas /\ back \in Areas
  /\ snapshots \in Seq([id : Nat, parent : Nat, at : Areas, news : Delta])
  /\ Len(snapshots) <= Keep
  /\ DOMAIN heap = {live, back} \cup SnapshotAreas
  /\ \A a \in DOMAIN heap :
       /\ heap[a] \in Graphs
       /\ \A k \in DOMAIN heap[a].edges :
            a # back => {k.from, k.to} \subseteq DOMAIN heap[a].nodes
  /\ shared \subseteq DOMAIN Adj
  /\ counter \in 0..MaxSaved

-----------------------------------------------------------------------------
(* The store.                                                              *)

Larger(f, x, w) == IF x \in DOMAIN f /\ f[x] > w THEN f[x] ELSE w
Put(f, x, w) == [y \in DOMAIN f \cup {x} |-> IF y = x THEN w ELSE f[y]]

\* Mutation: the weight of the last call counts.
PutLast(f, x, w) == Put(f, x, w)

PutLarger(f, x, w) == Put(f, x, Larger(f, x, w))

AddNode(c) ==
  /\ heap' = [heap EXCEPT ![live].nodes = PutLarger(@, c.id, c.weight)]
  /\ UNCHANGED <<live, back, shared, snapshots, counter>>

\* Mutation: only the node the edge leaves is looked up.
HasStart(k) == k.from \in DOMAIN heap[live].nodes

HasEnds(k) == {k.from, k.to} \subseteq DOMAIN heap[live].nodes

\* An edge that is there is made stronger in place, in _adj; a new object
\* goes into both lists.  Without its ends the call raises KeyError.
AddEdge(c) ==
  /\ HasEnds(c.key)
  /\ heap' = [heap EXCEPT ![live].edges = PutLarger(@, c.key, c.weight)]
  /\ shared' = IF c.key \in DOMAIN Adj THEN shared ELSE shared \cup {c.key}
  /\ UNCHANGED <<live, back, snapshots, counter>>

Merged(f, g) ==
  [x \in DOMAIN f \cup DOMAIN g |-> IF x \in DOMAIN g THEN Larger(f, x, g[x]) ELSE f[x]]

\* bootstrap(): add_node() and add_edge() for every seed; a store that has
\* nodes is left alone unless the caller forces it.
Bootstrap ==
  /\ heap' = [heap EXCEPT ![live] = [nodes |-> Merged(@.nodes, Seeds.nodes),
                                     edges |-> Merged(@.edges, Seeds.edges)]]
  /\ shared' = shared \cup (DOMAIN Seeds.edges \ DOMAIN Adj)
  /\ UNCHANGED <<live, back, snapshots, counter>>

-----------------------------------------------------------------------------
(* The versions.                                                           *)

Fresh == Areas \ DOMAIN heap
FreshArea == CHOOSE a \in Fresh : TRUE
OtherFresh == CHOOSE a \in Fresh \ {FreshArea} : TRUE

Parent == snapshots[Len(snapshots)]
ParentGraph == heap[Parent.at]

\* Only what the parent has not: what it had and the store has lost is not
\* in the delta.
DeltaToParent ==
  IF snapshots = <<>> THEN Nothing ELSE Added(heap[live], ParentGraph)

\* The deque drops its oldest snapshot when it is full.
Room == IF Len(snapshots) < Keep THEN snapshots ELSE Tail(snapshots)

CreateSnapshot ==
  /\ counter < MaxSaved
  /\ counter' = counter + 1
  /\ LET saved == [id     |-> counter + 1,
                   parent |-> IF snapshots = <<>> THEN 0 ELSE Parent.id,
                   at     |-> FreshArea,
                   news   |-> DeltaToParent]
         after == Append(Room, saved)
     IN /\ snapshots' = after
        /\ heap' = [a \in {live, back} \cup {after[i].at : i \in DOMAIN after} |->
                      IF a = FreshArea THEN heap[live] ELSE heap[a]]
  /\ UNCHANGED <<live, back, shared>>

\* Mutation: the store is given the snapshot's own nodes and edges.
RollbackToSnapshotItself(i) ==
  /\ i \in Kept
  /\ live' = snapshots[i].at
  /\ back' = OtherFresh
  /\ shared' = {}
  /\ heap' = [a \in {back'} \cup SnapshotAreas |->
                IF a = back' THEN [nodes |-> NoGraph.nodes, edges |-> heap[snapshots[i].at].edges]
                             ELSE heap[a]]
  /\ UNCHANGED <<snapshots, counter>>

\* Every edge is copied once for _adj and once for _in.
Rollback(i) ==
  LET saved == heap[snapshots[i].at]
  IN /\ i \in Kept
     /\ live' = FreshArea
     /\ back' = OtherFresh
     /\ shared' = {}
     /\ heap' = [a \in {FreshArea, OtherFresh} \cup SnapshotAreas |->
                   CASE a = FreshArea  -> saved
                     [] a = OtherFresh -> [nodes |-> NoGraph.nodes, edges |-> saved.edges]
                     [] OTHER          -> heap[a]]
     /\ UNCHANGED <<snapshots, counter>>

FirstArea == CHOOSE a \in Areas : TRUE
SecondArea == CHOOSE a \in Areas \ {FirstArea} : TRUE

Init ==
  /\ live = FirstArea
  /\ back = SecondArea
  /\ heap = [a \in {live, back} |-> NoGraph]
  /\ shared = {}
  /\ snapshots = <<>>
  /\ counter = 0

Next ==
  \/ \E c \in NodeCalls : AddNode(c)
  \/ \E c \in EdgeCalls : AddEdge(c)
  \/ Bootstrap
  \/ CreateSnapshot
  \/ \E i \in 1..Keep : Rollback(i)

Spec == Init /\ [][Next]_vars

-----------------------------------------------------------------------------
(* Correctness.                                                            *)

\* _in lists the edges _adj lists, and never claims more weight than _adj:
\* an edge that was there at the last rollback has two objects, of which
\* add_edge() changes one (graph_store.py:111-116, versioning.py:134-136).
ListsAgree ==
  /\ InKeys = DOMAIN Adj
  /\ \A k \in DOMAIN Adj : In(k) <= Adj[k]

\* What a snapshot says, and the store and its snapshots as a VersionedGraph.
Version(s) ==
  [id |-> s.id, parent |-> s.parent, graph |-> heap[s.at], news |-> s.news]

Versioned == INSTANCE VersionedGraph WITH
  graph    <- heap[live],
  versions <- [i \in Kept |-> Version(snapshots[i])]

\* The store with its snapshots is a graph with versions: nothing done to
\* the store changes a kept snapshot, a rollback gives back the graph of the
\* day, ids are never used twice, and each delta says what the snapshot has
\* that its parent had not.
KeepsVersions == Versioned!Spec

=============================================================================

---------------------------- MODULE GraphProofs -----------------------------
(***************************************************************************)
(* What TLAPS proves of the graph, for any nodes, edges, weights, seeds    *)
(* and runs: that the store and its snapshots are a VersionedGraph and the *)
(* two lists of edges agree (GraphVersions), that every query answers what *)
(* it should (GraphQuery, GraphAnswers), and that only posted edges dangle *)
(* and what is stored is complete (GraphPersistence).                      *)
(***************************************************************************)
EXTENDS GraphAnswers, GraphPersistence, Counting, TLAPS

-----------------------------------------------------------------------------
(* Weights of nodes and of edges.                                          *)

LEMMA PartialFunction ==
  ASSUME NEW S, NEW f \in Partial(S)
  PROVE  DOMAIN f \subseteq S /\ f \in [DOMAIN f -> Weights]
  BY DEF Partial

LEMMA FunctionPartial ==
  ASSUME NEW S, NEW f, DOMAIN f \subseteq S, f \in [DOMAIN f -> Weights]
  PROVE  f \in Partial(S)
  BY DEF Partial

\* add_node() and add_edge() add one object at most and take no weight away.
LEMMA PutLargerGains ==
  ASSUME NEW S, NEW f \in Partial(S), NEW x \in S, NEW w \in Weights
  PROVE  /\ PutLarger(f, x, w) \in Partial(S)
         /\ DOMAIN PutLarger(f, x, w) = DOMAIN f \cup {x}
         /\ Outweighs(PutLarger(f, x, w), f)
<1> DEFINE g == PutLarger(f, x, w)
<1>1. DOMAIN f \subseteq S /\ f \in [DOMAIN f -> Weights]
  BY PartialFunction
<1>2. Larger(f, x, w) \in Weights /\ (x \in DOMAIN f => Larger(f, x, w) >= f[x])
  BY <1>1, WeightsAssumption DEF Larger
<1>3. g \in [DOMAIN f \cup {x} -> Weights]
  BY <1>1, <1>2 DEF PutLarger, Put
<1>4. \A y \in DOMAIN f : g[y] >= f[y]
  BY <1>1, <1>2, WeightsAssumption DEF PutLarger, Put
<1>5. QED
  BY <1>1, <1>3, <1>4, FunctionPartial DEF Outweighs

LEMMA MergedGains ==
  ASSUME NEW S, NEW f \in Partial(S), NEW g \in Partial(S)
  PROVE  /\ Merged(f, g) \in Partial(S)
         /\ DOMAIN Merged(f, g) = DOMAIN f \cup DOMAIN g
         /\ Outweighs(Merged(f, g), f)
<1> DEFINE h == Merged(f, g)
<1>1. /\ DOMAIN f \subseteq S /\ f \in [DOMAIN f -> Weights]
      /\ DOMAIN g \subseteq S /\ g \in [DOMAIN g -> Weights]
  BY PartialFunction
<1>2. ASSUME NEW x \in DOMAIN g
      PROVE  Larger(f, x, g[x]) \in Weights /\ (x \in DOMAIN f => Larger(f, x, g[x]) >= f[x])
  BY <1>1, WeightsAssumption DEF Larger
<1>3. h \in [DOMAIN f \cup DOMAIN g -> Weights]
  BY <1>1, <1>2 DEF Merged
<1>4. \A x \in DOMAIN f : h[x] >= f[x]
  BY <1>1, <1>2, WeightsAssumption DEF Merged
<1>5. QED
  BY <1>1, <1>3, <1>4, FunctionPartial DEF Outweighs

LEMMA OutweighsItself ==
  ASSUME NEW S, NEW f \in Partial(S)
  PROVE  Outweighs(f, f)
  BY PartialFunction, WeightsAssumption DEF Outweighs

LEMMA NoGraphTyped == NoGraph \in Graphs
<1>1. /\ DOMAIN NoGraph.nodes = {} /\ NoGraph.nodes \in [{} -> Weights]
      /\ DOMAIN NoGraph.edges = {} /\ NoGraph.edges \in [{} -> Weights]
  BY DEF NoGraph
<1>2. NoGraph.nodes \in Partial(NodeIds) /\ NoGraph.edges \in Partial(Keys)
  BY <1>1, FunctionPartial
<1>3. QED
  BY <1>2 DEF NoGraph, Graphs

-----------------------------------------------------------------------------
(* Areas.                                                                  *)

\* What the store changes is nobody else's, and a snapshot is not the store.
Apart == live # back /\ live \notin SnapshotAreas /\ back \notin SnapshotAreas

StoreInv == TypeOK /\ Apart /\ ListsAgree

LEMMA OneMore ==
  ASSUME NEW S, IsFiniteSet(S), NEW n \in Nat, Cardinality(S) <= n, NEW x
  PROVE  /\ IsFiniteSet(S \cup {x})
         /\ Cardinality(S \cup {x}) \in Nat /\ Cardinality(S \cup {x}) <= n + 1
<1>1. Cardinality(S) \in Nat
  BY FS_CardinalityType
<1>2. QED
  BY <1>1, FS_AddElement

LEMMA SnapshotAreasFew ==
  ASSUME TypeOK
  PROVE  IsFiniteSet(SnapshotAreas) /\ Cardinality(SnapshotAreas) <= Len(snapshots)
<1> DEFINE f == [i \in Kept |-> snapshots[i].at]
<1>1. Kept = 1..Len(snapshots) /\ Len(snapshots) \in Nat
  BY DEF TypeOK, Kept
<1>2. IsFiniteSet(Kept) /\ Cardinality(Kept) = Len(snapshots)
  BY <1>1, FS_Interval
<1>3. f \in Surjection(Kept, SnapshotAreas)
  BY DEF Surjection, SnapshotAreas
<1>4. QED
  BY <1>2, <1>3, FS_Surjection

LEMMA TwoFresh ==
  ASSUME TypeOK
  PROVE  /\ FreshArea \in Areas \ DOMAIN heap
         /\ OtherFresh \in Areas \ DOMAIN heap
         /\ FreshArea # OtherFresh
<1> USE KeepAssumption
<1>1. IsFiniteSet(SnapshotAreas) /\ Cardinality(SnapshotAreas) <= Keep
  BY SnapshotAreasFew, FS_CardinalityType DEF TypeOK
<1>2. IsFiniteSet(SnapshotAreas \cup {live})
      /\ Cardinality(SnapshotAreas \cup {live}) <= Keep + 1
  BY <1>1, OneMore
<1>3. DOMAIN heap = (SnapshotAreas \cup {live}) \cup {back}
  BY DEF TypeOK
<1>4. IsFiniteSet(DOMAIN heap) /\ Cardinality(DOMAIN heap) <= Keep + 2
      /\ Cardinality(DOMAIN heap) \in Nat
  <2>1. Keep + 1 \in Nat /\ (Keep + 1) + 1 = Keep + 2
    OBVIOUS
  <2>2. IsFiniteSet((SnapshotAreas \cup {live}) \cup {back})
        /\ Cardinality((SnapshotAreas \cup {live}) \cup {back}) \in Nat
        /\ Cardinality((SnapshotAreas \cup {live}) \cup {back}) <= (Keep + 1) + 1
    BY <1>2, <2>1, OneMore
  <2>3. QED
    BY <1>3, <2>1, <2>2
<1>5. Cardinality(Areas) \in Nat
  BY AreasAssumption, FS_CardinalityType
<1>6. PICK a \in Areas : a \notin DOMAIN heap
  <2>1. SUFFICES ASSUME Areas \subseteq DOMAIN heap PROVE FALSE
    OBVIOUS
  <2>2. Cardinality(Areas) <= Cardinality(DOMAIN heap)
    BY <1>4, <2>1, FS_Subset
  <2>3. QED
    BY <1>4, <1>5, <2>2, AreasAssumption
<1>7. FreshArea \in Areas \ DOMAIN heap
  BY <1>6 DEF FreshArea, Fresh
<1>8. PICK b \in Areas : b \notin DOMAIN heap \cup {FreshArea}
  <2>1. SUFFICES ASSUME Areas \subseteq DOMAIN heap \cup {FreshArea} PROVE FALSE
    OBVIOUS
  <2>2. IsFiniteSet(DOMAIN heap \cup {FreshArea})
        /\ Cardinality(DOMAIN heap \cup {FreshArea}) <= Keep + 3
        /\ Cardinality(DOMAIN heap \cup {FreshArea}) \in Nat
    <3>1. Keep + 2 \in Nat /\ (Keep + 2) + 1 = Keep + 3
      OBVIOUS
    <3>2. QED
      BY <1>4, <3>1, OneMore
  <2>3. Cardinality(Areas) <= Cardinality(DOMAIN heap \cup {FreshArea})
    BY <2>1, <2>2, FS_Subset
  <2>4. QED
    BY <1>5, <2>2, <2>3, AreasAssumption
<1>9. OtherFresh \in (Areas \ DOMAIN heap) \ {FreshArea}
  BY <1>8 DEF OtherFresh, Fresh
<1>10. QED
  BY <1>7, <1>9
-----------------------------------------------------------------------------
(* The invariant.                                                          *)

LEMMA InitStore == Init => StoreInv
<1> SUFFICES ASSUME Init PROVE StoreInv
  OBVIOUS
<1>1. \E a, b \in Areas : a # b
  <2>1. SUFFICES ASSUME NEW a, Areas \subseteq {a} PROVE FALSE
    <3>1. Areas # {}
      BY AreasAssumption, KeepAssumption, FS_EmptySet
    <3>2. QED
      BY <3>1
  <2>2. IsFiniteSet({a}) /\ Cardinality({a}) = 1
    BY FS_Singleton
  <2>3. Cardinality(Areas) <= 1 /\ Cardinality(Areas) \in Nat
    BY <2>1, <2>2, FS_Subset, FS_CardinalityType, AreasAssumption
  <2>4. QED
    BY <2>3, AreasAssumption, KeepAssumption
<1>2. FirstArea \in Areas
  BY <1>1 DEF FirstArea
<1>3. SecondArea \in Areas \ {FirstArea}
  BY <1>1, <1>2 DEF SecondArea
<1>4. /\ live \in Areas /\ back \in Areas /\ live # back
      /\ heap = [a \in {live, back} |-> NoGraph]
      /\ shared = {} /\ snapshots = <<>> /\ counter = 0
  BY <1>2, <1>3 DEF Init
<1>5. Kept = {} /\ SnapshotAreas = {}
  BY <1>4 DEF Kept, SnapshotAreas
<1>6. DOMAIN NoGraph.nodes = {} /\ DOMAIN NoGraph.edges = {}
  BY DEF NoGraph
<1>7. TypeOK
  BY <1>4, <1>5, <1>6, NoGraphTyped, KeepAssumption, SavedAssumption DEF TypeOK, Adj
<1>8. ListsAgree
  BY <1>4, <1>6 DEF ListsAgree, InKeys, Adj
<1>9. QED
  BY <1>4, <1>5, <1>7, <1>8 DEF StoreInv, Apart

\* The store gains something: what the three operations of the store share.
Gain(g) ==
  /\ heap' = [heap EXCEPT ![live] = g]
  /\ shared' = shared \cup (DOMAIN g.edges \ DOMAIN heap[live].edges)
  /\ UNCHANGED <<live, back, snapshots, counter>>

Whole(g) == \A k \in DOMAIN g.edges : {k.from, k.to} \subseteq DOMAIN g.nodes

\* Graphs have finitely many nodes and edges.
Finite(g) == IsFiniteSet(DOMAIN g.nodes) /\ IsFiniteSet(DOMAIN g.edges)
AllFinite == \A a \in DOMAIN heap : Finite(heap[a])

Grows(g) ==
  /\ g \in Graphs /\ Gain(g) /\ Whole(g) /\ Extends(g, heap[live])
  /\ Finite(heap[live]) => Finite(g)

LEMMA GainKeepsStore ==
  ASSUME StoreInv, NEW g, Grows(g)
  PROVE  StoreInv'
<1> USE DEF StoreInv, Grows
<1>1. /\ live \in DOMAIN heap /\ DOMAIN heap' = DOMAIN heap
      /\ heap'[live] = g /\ \A a \in DOMAIN heap \ {live} : heap'[a] = heap[a]
      /\ live' = live /\ back' = back /\ snapshots' = snapshots /\ counter' = counter
  BY DEF Gain, TypeOK
<1>2. DOMAIN heap[live].edges \subseteq DOMAIN g.edges
  BY DEF Extends, Outweighs
<1>3. TypeOK'
  <2>1. shared' \subseteq DOMAIN Adj'
    BY <1>1, <1>2 DEF Gain, TypeOK, Adj
  <2>2. \A a \in DOMAIN heap' :
          /\ heap'[a] \in Graphs
          /\ \A k \in DOMAIN heap'[a].edges :
               a # back' => {k.from, k.to} \subseteq DOMAIN heap'[a].nodes
    BY <1>1 DEF TypeOK, Whole
  <2>3. QED
    BY <1>1, <2>1, <2>2 DEF TypeOK, SnapshotAreas, Kept
<1>4. Apart'
  BY <1>1 DEF Apart, SnapshotAreas, Kept
<1>5. heap'[back'] = heap[back]
  BY <1>1 DEF Apart, TypeOK
<1>6. InKeys' = DOMAIN Adj'
  BY <1>1, <1>2, <1>5 DEF ListsAgree, InKeys, Adj, Gain
<1>7. ASSUME NEW k \in DOMAIN Adj' PROVE In(k)' <= Adj'[k]
  <2>1. g.edges[k] \in Nat
    BY <1>1, <1>7, PartialFunction, WeightsAssumption DEF Adj, Graphs
  <2>2. CASE k \in shared'
    BY <1>1, <2>1, <2>2 DEF In, Adj
  <2>3. CASE k \notin shared'
    <3>1. k \in DOMAIN heap[live].edges /\ k \notin shared
      BY <1>1, <1>7, <2>3 DEF Gain, Adj
    <3>2. heap[back].edges[k] <= heap[live].edges[k]
      BY <3>1 DEF ListsAgree, In, Adj
    <3>3. heap[live].edges[k] <= g.edges[k]
      BY <3>1 DEF Extends, Outweighs
    <3>4. k \in DOMAIN heap[back].edges
      BY <3>1 DEF ListsAgree, InKeys, Adj
    <3>5. heap[back].edges[k] \in Nat /\ heap[live].edges[k] \in Nat
      BY <3>1, <3>4, PartialFunction, WeightsAssumption DEF TypeOK, Graphs
    <3>6. In(k)' = heap[back].edges[k] /\ Adj'[k] = g.edges[k]
      BY <1>1, <1>5, <2>3 DEF In, Adj
    <3>7. QED
      BY <2>1, <3>2, <3>3, <3>5, <3>6
  <2>4. QED
    BY <2>2, <2>3
<1>8. QED
  BY <1>3, <1>4, <1>6, <1>7 DEF ListsAgree

\* add_node(), add_edge() and bootstrap() are such gains.
LEMMA AddNodeGains ==
  ASSUME StoreInv, NEW c \in NodeCalls, AddNode(c)
  PROVE  \E g : Grows(g)
<1> DEFINE nodes == PutLarger(heap[live].nodes, c.id, c.weight)
           g     == [heap[live] EXCEPT !.nodes = nodes]
<1>1. /\ heap[live] \in Graphs /\ Whole(heap[live])
      /\ heap[live].nodes \in Partial(NodeIds) /\ heap[live].edges \in Partial(Keys)
  BY DEF StoreInv, TypeOK, Apart, Whole, Graphs
<1>2. c.id \in NodeIds /\ c.weight \in Weights
  BY CallsAssumption
<1>3. nodes \in Partial(NodeIds) /\ DOMAIN nodes = DOMAIN heap[live].nodes \cup {c.id}
      /\ Outweighs(nodes, heap[live].nodes)
  <2> DEFINE f == heap[live].nodes  x == c.id  w == c.weight
  <2>1. f \in Partial(NodeIds) /\ x \in NodeIds /\ w \in Weights
    BY <1>1, <1>2
  <2> HIDE DEF f, x, w
  <2>2. /\ PutLarger(f, x, w) \in Partial(NodeIds)
        /\ DOMAIN PutLarger(f, x, w) = DOMAIN f \cup {x}
        /\ Outweighs(PutLarger(f, x, w), f)
    BY <2>1, PutLargerGains
  <2>3. QED
    BY <2>2 DEF f, x, w
<1>4. g \in Graphs /\ g.nodes = nodes /\ g.edges = heap[live].edges
  BY <1>1, <1>3 DEF Graphs
<1>5. Extends(g, heap[live])
  BY <1>1, <1>3, <1>4, OutweighsItself DEF Graphs, Extends
<1>6. Whole(g)
  BY <1>1, <1>3, <1>4 DEF Whole
<1>7. Gain(g)
  BY <1>4 DEF AddNode, Gain
<1> HIDE DEF g, nodes
<1>8. Finite(heap[live]) => Finite(g)
  BY <1>3, <1>4, FS_AddElement DEF Finite
<1>9. QED
  BY <1>4, <1>5, <1>6, <1>7, <1>8 DEF Grows

LEMMA AddEdgeGains ==
  ASSUME StoreInv, NEW c \in EdgeCalls, AddEdge(c)
  PROVE  \E g : Grows(g)
<1> DEFINE edges == PutLarger(heap[live].edges, c.key, c.weight)
           g     == [heap[live] EXCEPT !.edges = edges]
<1>1. /\ heap[live] \in Graphs /\ Whole(heap[live])
      /\ heap[live].nodes \in Partial(NodeIds) /\ heap[live].edges \in Partial(Keys)
  BY DEF StoreInv, TypeOK, Apart, Whole, Graphs
<1>2. c.key \in Keys /\ c.weight \in Weights
  BY CallsAssumption
<1>3. edges \in Partial(Keys) /\ DOMAIN edges = DOMAIN heap[live].edges \cup {c.key}
      /\ Outweighs(edges, heap[live].edges)
  <2> DEFINE f == heap[live].edges  x == c.key  w == c.weight
  <2>1. f \in Partial(Keys) /\ x \in Keys /\ w \in Weights
    BY <1>1, <1>2
  <2> HIDE DEF f, x, w
  <2>2. /\ PutLarger(f, x, w) \in Partial(Keys)
        /\ DOMAIN PutLarger(f, x, w) = DOMAIN f \cup {x}
        /\ Outweighs(PutLarger(f, x, w), f)
    BY <2>1, PutLargerGains
  <2>3. QED
    BY <2>2 DEF f, x, w
<1>4. g \in Graphs /\ g.nodes = heap[live].nodes /\ g.edges = edges
  BY <1>1, <1>3 DEF Graphs
<1>5. Extends(g, heap[live])
  BY <1>1, <1>3, <1>4, OutweighsItself DEF Graphs, Extends
<1>6. Whole(g)
  BY <1>1, <1>3, <1>4 DEF AddEdge, HasEnds, Whole
<1>7. shared' = shared \cup (DOMAIN g.edges \ DOMAIN heap[live].edges)
  BY <1>3, <1>4 DEF AddEdge, Adj
<1>8. Gain(g)
  BY <1>7 DEF AddEdge, Gain
<1> HIDE DEF g, edges
<1>9. Finite(heap[live]) => Finite(g)
  BY <1>3, <1>4, FS_AddElement DEF Finite
<1>10. QED
  BY <1>4, <1>5, <1>6, <1>8, <1>9 DEF Grows

LEMMA BootstrapGains ==
  ASSUME StoreInv, Bootstrap
  PROVE  \E g : Grows(g)
<1> DEFINE nodes == Merged(heap[live].nodes, Seeds.nodes)
           edges == Merged(heap[live].edges, Seeds.edges)
           g     == [nodes |-> nodes, edges |-> edges]
<1>1. /\ heap[live] \in Graphs /\ Whole(heap[live])
      /\ heap[live].nodes \in Partial(NodeIds) /\ heap[live].edges \in Partial(Keys)
  BY DEF StoreInv, TypeOK, Apart, Whole, Graphs
<1>2. /\ Seeds \in Graphs /\ Whole(Seeds)
      /\ Seeds.nodes \in Partial(NodeIds) /\ Seeds.edges \in Partial(Keys)
  BY SeedsAssumption DEF Whole, Graphs
<1>3. nodes \in Partial(NodeIds) /\ DOMAIN nodes = DOMAIN heap[live].nodes \cup DOMAIN Seeds.nodes
      /\ Outweighs(nodes, heap[live].nodes)
  <2> DEFINE f == heap[live].nodes  h == Seeds.nodes
  <2>1. f \in Partial(NodeIds) /\ h \in Partial(NodeIds)
    BY <1>1, <1>2
  <2> HIDE DEF f, h
  <2>2. /\ Merged(f, h) \in Partial(NodeIds)
        /\ DOMAIN Merged(f, h) = DOMAIN f \cup DOMAIN h
        /\ Outweighs(Merged(f, h), f)
    BY <2>1, MergedGains
  <2>3. QED
    BY <2>2 DEF f, h
<1>4. edges \in Partial(Keys) /\ DOMAIN edges = DOMAIN heap[live].edges \cup DOMAIN Seeds.edges
      /\ Outweighs(edges, heap[live].edges)
  <2> DEFINE f == heap[live].edges  h == Seeds.edges
  <2>1. f \in Partial(Keys) /\ h \in Partial(Keys)
    BY <1>1, <1>2
  <2> HIDE DEF f, h
  <2>2. /\ Merged(f, h) \in Partial(Keys)
        /\ DOMAIN Merged(f, h) = DOMAIN f \cup DOMAIN h
        /\ Outweighs(Merged(f, h), f)
    BY <2>1, MergedGains
  <2>3. QED
    BY <2>2 DEF f, h
<1>5. g \in Graphs /\ Extends(g, heap[live])
  BY <1>3, <1>4 DEF Graphs, Extends
<1>6. Whole(g)
  BY <1>1, <1>2, <1>3, <1>4 DEF Whole
<1>7. shared' = shared \cup (DOMAIN g.edges \ DOMAIN heap[live].edges)
  BY <1>4 DEF Bootstrap, Adj
<1>8. Gain(g)
  BY <1>7 DEF Bootstrap, Gain
<1>9. g.nodes = nodes /\ g.edges = edges
  OBVIOUS
<1> HIDE DEF g, nodes, edges
<1>10. Finite(heap[live]) => Finite(g)
  <2>1. ASSUME Finite(heap[live]) PROVE IsFiniteSet(DOMAIN nodes) /\ IsFiniteSet(DOMAIN edges)
    <3>1. /\ IsFiniteSet(DOMAIN heap[live].nodes) /\ IsFiniteSet(DOMAIN heap[live].edges)
          /\ IsFiniteSet(DOMAIN Seeds.nodes) /\ IsFiniteSet(DOMAIN Seeds.edges)
      BY <2>1, SeedsAssumption DEF Finite
    <3>2. IsFiniteSet(DOMAIN heap[live].nodes \cup DOMAIN Seeds.nodes)
      BY <3>1, FS_Union
    <3>3. IsFiniteSet(DOMAIN heap[live].edges \cup DOMAIN Seeds.edges)
      BY <3>1, FS_Union
    <3>4. QED
      BY <1>3, <1>4, <3>2, <3>3
  <2>2. QED
    BY <1>9, <2>1 DEF Finite
<1>11. QED
  BY <1>5, <1>6, <1>8, <1>10 DEF Grows

\* The deque: what stays of the snapshots before a new one comes.
Snapshot == [id : Nat, parent : Nat, at : Areas, news : Delta]

LEMMA RoomKeeps ==
  ASSUME TypeOK
  PROVE  \E d \in 0..1 :
           /\ d <= Len(snapshots) /\ d = (IF Len(snapshots) < Keep THEN 0 ELSE 1)
           /\ Room \in Seq(Snapshot) /\ Len(Room) = Len(snapshots) - d
           /\ Len(Room) < Keep
           /\ \A i \in 1..Len(Room) : Room[i] = snapshots[i + d]
<1> USE KeepAssumption
<1>1. snapshots \in Seq(Snapshot) /\ Len(snapshots) \in Nat /\ Len(snapshots) <= Keep
  BY DEF TypeOK, Snapshot
<1>2. CASE Len(snapshots) < Keep
  <2>1. Room = snapshots
    BY <1>2 DEF Room
  <2>2. \A i \in 1..Len(Room) : Room[i] = snapshots[i + 0]
    BY <1>1, <2>1
  <2>3. QED
    BY <1>1, <1>2, <2>1, <2>2
<1>3. CASE ~(Len(snapshots) < Keep)
  <2>1. Room = Tail(snapshots) /\ snapshots # <<>>
    BY <1>1, <1>3 DEF Room
  <2>2. Room \in Seq(Snapshot) /\ Len(Room) = Len(snapshots) - 1
        /\ \A i \in 1..Len(Room) : Room[i] = snapshots[i + 1]
    BY <1>1, <2>1
  <2>3. QED
    BY <1>1, <1>3, <2>2
<1>4. QED
  BY <1>2, <1>3

\* The new snapshot, and what becomes of the areas.
Saved == [id     |-> counter + 1,
          parent |-> IF snapshots = <<>> THEN 0 ELSE Parent.id,
          at     |-> FreshArea,
          news   |-> DeltaToParent]

LEMMA SavedTyped ==
  ASSUME StoreInv
  PROVE  Saved \in Snapshot /\ DeltaToParent \in Delta
<1> USE DEF StoreInv
<1>1. snapshots \in Seq(Snapshot) /\ counter \in Nat
  BY SavedAssumption DEF TypeOK, Snapshot
<1>2. ASSUME snapshots # <<>> PROVE Parent \in Snapshot
  BY <1>1, <1>2 DEF Parent
<1>3. heap[live] \in Graphs
  BY DEF TypeOK
<1>4. DOMAIN heap[live].nodes \subseteq NodeIds /\ DOMAIN heap[live].edges \subseteq Keys
  BY <1>3, PartialFunction DEF Graphs
<1>5. DeltaToParent \in Delta
  BY <1>4 DEF DeltaToParent, Delta, Nothing, Added
<1>6. FreshArea \in Areas
  BY TwoFresh
<1>7. (IF snapshots = <<>> THEN 0 ELSE Parent.id) \in Nat
  BY <1>2 DEF Snapshot
<1>8. QED
  BY <1>1, <1>5, <1>6, <1>7 DEF Saved, Snapshot

LEMMA SnapshotEffect ==
  ASSUME StoreInv, CreateSnapshot
  PROVE  /\ snapshots' = Append(Room, Saved) /\ snapshots' \in Seq(Snapshot)
         /\ Len(snapshots') = Len(Room) + 1 /\ Len(snapshots') <= Keep
         /\ snapshots'[Len(snapshots')] = Saved
         /\ \A i \in 1..Len(Room) : snapshots'[i] = Room[i]
         /\ SnapshotAreas' \subseteq SnapshotAreas \cup {FreshArea}
         /\ DOMAIN heap' = {live, back} \cup SnapshotAreas'
         /\ \A a \in DOMAIN heap' : heap'[a] = IF a = FreshArea THEN heap[live] ELSE heap[a]
         /\ live' = live /\ back' = back /\ shared' = shared
         /\ counter' = counter + 1 /\ counter' \in 0..MaxSaved
<1> USE DEF StoreInv
<1>1. PICK d \in 0..1 :
        /\ d <= Len(snapshots) /\ Room \in Seq(Snapshot) /\ Len(Room) = Len(snapshots) - d
        /\ Len(Room) < Keep /\ \A i \in 1..Len(Room) : Room[i] = snapshots[i + d]
  BY RoomKeeps
<1>2. Saved \in Snapshot
  BY SavedTyped
<1>3. /\ snapshots' = Append(Room, Saved)
      /\ heap' = [a \in {live, back} \cup {snapshots'[i].at : i \in DOMAIN snapshots'} |->
                    IF a = FreshArea THEN heap[live] ELSE heap[a]]
      /\ live' = live /\ back' = back /\ shared' = shared
      /\ counter' = counter + 1 /\ counter < MaxSaved
  BY DEF CreateSnapshot, Saved
<1>4. /\ snapshots' \in Seq(Snapshot) /\ Len(snapshots') = Len(Room) + 1
      /\ snapshots'[Len(snapshots')] = Saved
      /\ \A i \in 1..Len(Room) : snapshots'[i] = Room[i]
  BY <1>1, <1>2, <1>3
<1>5. Len(Room) \in Nat /\ Len(snapshots) \in Nat /\ DOMAIN snapshots = 1..Len(snapshots)
      /\ DOMAIN snapshots' = 1..Len(snapshots')
  BY <1>1, <1>4 DEF TypeOK
<1>6. ASSUME NEW i \in DOMAIN snapshots'
      PROVE  snapshots'[i].at \in SnapshotAreas \cup {FreshArea}
  <2>1. CASE i = Len(snapshots')
    BY <1>4, <2>1 DEF Saved
  <2>2. CASE i # Len(snapshots')
    <3>1. i \in 1..Len(Room) /\ i + d \in DOMAIN snapshots
      BY <1>1, <1>4, <1>5, <1>6, <2>2
    <3>2. snapshots'[i] = snapshots[i + d]
      BY <1>1, <1>4, <3>1
    <3>3. QED
      BY <3>1, <3>2 DEF SnapshotAreas, Kept
  <2>3. QED
    BY <2>1, <2>2
<1>7. Len(snapshots') <= Keep
  BY <1>1, <1>4, <1>5, KeepAssumption
<1>8. counter' \in 0..MaxSaved
  BY <1>3, SavedAssumption DEF TypeOK
<1>9. SnapshotAreas' = {snapshots'[i].at : i \in DOMAIN snapshots'}
  BY DEF SnapshotAreas, Kept
<1>10. SnapshotAreas' \subseteq SnapshotAreas \cup {FreshArea}
  BY <1>6, <1>9
<1>11. DOMAIN heap' = {live, back} \cup SnapshotAreas'
       /\ \A a \in DOMAIN heap' : heap'[a] = IF a = FreshArea THEN heap[live] ELSE heap[a]
  BY <1>3, <1>9
<1>12. QED
  BY <1>3, <1>4, <1>7, <1>8, <1>10, <1>11

LEMMA SnapshotKeepsStore ==
  ASSUME StoreInv, CreateSnapshot
  PROVE  StoreInv'
<1> USE SnapshotEffect, TwoFresh DEF StoreInv
<1>1. live \in DOMAIN heap /\ back \in DOMAIN heap
  BY DEF TypeOK
<1>2. Apart'
  BY <1>1 DEF Apart
<1>3. heap'[live] = heap[live] /\ heap'[back] = heap[back]
  BY <1>1
<1>4. \A a \in DOMAIN heap' :
        /\ heap'[a] \in Graphs
        /\ \A k \in DOMAIN heap'[a].edges :
             a # back' => {k.from, k.to} \subseteq DOMAIN heap'[a].nodes
  <2> SUFFICES ASSUME NEW a \in DOMAIN heap'
               PROVE  /\ heap'[a] \in Graphs
                      /\ \A k \in DOMAIN heap'[a].edges :
                           a # back' => {k.from, k.to} \subseteq DOMAIN heap'[a].nodes
    OBVIOUS
  <2>1. CASE a = FreshArea
    BY <1>1, <2>1 DEF TypeOK, Apart
  <2>2. CASE a # FreshArea
    <3>1. a \in DOMAIN heap /\ heap'[a] = heap[a]
      BY <2>2 DEF TypeOK
    <3>2. QED
      BY <3>1 DEF TypeOK
  <2>3. QED
    BY <2>1, <2>2
<1>5. TypeOK'
  BY <1>3, <1>4 DEF TypeOK, Snapshot, Adj
<1>6. ListsAgree'
  BY <1>3 DEF ListsAgree, InKeys, In, Adj
<1>7. QED
  BY <1>2, <1>5, <1>6

LEMMA RollbackEffect ==
  ASSUME StoreInv, NEW i \in 1..Keep, Rollback(i)
  PROVE  LET saved == heap[snapshots[i].at]
         IN  /\ i \in Kept /\ saved \in Graphs /\ Whole(saved)
             /\ live' = FreshArea /\ back' = OtherFresh /\ shared' = {}
             /\ snapshots' = snapshots /\ counter' = counter /\ SnapshotAreas' = SnapshotAreas
             /\ DOMAIN heap' = {live', back'} \cup SnapshotAreas
             /\ heap'[live'] = saved
             /\ heap'[back'] = [nodes |-> NoGraph.nodes, edges |-> saved.edges]
             /\ \A a \in SnapshotAreas : heap'[a] = heap[a]
<1> DEFINE saved == heap[snapshots[i].at]
<1> USE TwoFresh DEF StoreInv
<1>1. i \in Kept
  BY DEF Rollback
<1>2. snapshots[i].at \in SnapshotAreas
  BY <1>1 DEF SnapshotAreas
<1>3. saved \in Graphs /\ Whole(saved)
  BY <1>2 DEF TypeOK, Apart, Whole
<1>4. SnapshotAreas \subseteq DOMAIN heap
  BY DEF TypeOK
<1>5. /\ live' = FreshArea /\ back' = OtherFresh /\ shared' = {}
      /\ snapshots' = snapshots /\ counter' = counter
      /\ heap' = [a \in {FreshArea, OtherFresh} \cup SnapshotAreas |->
                   CASE a = FreshArea  -> saved
                     [] a = OtherFresh -> [nodes |-> NoGraph.nodes, edges |-> saved.edges]
                     [] OTHER          -> heap[a]]
  BY DEF Rollback
<1>6. SnapshotAreas' = SnapshotAreas
  BY <1>5 DEF SnapshotAreas, Kept
<1>7. DOMAIN heap' = {live', back'} \cup SnapshotAreas
  BY <1>5
<1>8. heap'[FreshArea] = saved
  BY <1>5
<1>9. heap'[OtherFresh] = [nodes |-> NoGraph.nodes, edges |-> saved.edges]
  BY <1>5
<1>10. \A a \in SnapshotAreas : heap'[a] = heap[a]
  BY <1>4, <1>5
<1>11. QED
  BY <1>1, <1>3, <1>5, <1>6, <1>7, <1>8, <1>9, <1>10

LEMMA RollbackKeepsStore ==
  ASSUME StoreInv, NEW i \in 1..Keep, Rollback(i)
  PROVE  StoreInv'
<1> DEFINE saved == heap[snapshots[i].at]
<1>1. /\ saved \in Graphs /\ Whole(saved)
      /\ live' = FreshArea /\ back' = OtherFresh /\ shared' = {}
      /\ snapshots' = snapshots /\ counter' = counter /\ SnapshotAreas' = SnapshotAreas
      /\ DOMAIN heap' = {live', back'} \cup SnapshotAreas
      /\ heap'[live'] = saved
      /\ heap'[back'] = [nodes |-> NoGraph.nodes, edges |-> saved.edges]
      /\ \A a \in SnapshotAreas : heap'[a] = heap[a]
  BY RollbackEffect
<1> HIDE DEF saved
<1>2. SnapshotAreas \subseteq DOMAIN heap /\ live' \notin SnapshotAreas
      /\ back' \notin SnapshotAreas /\ live' # back' /\ live' \in Areas /\ back' \in Areas
  BY <1>1, TwoFresh DEF StoreInv, TypeOK
<1>3. Apart'
  BY <1>1, <1>2 DEF Apart
<1>4. heap'[back'] \in Graphs
  <2>1. NoGraph.nodes \in Partial(NodeIds) /\ saved.edges \in Partial(Keys)
    BY <1>1, NoGraphTyped DEF Graphs
  <2>2. QED
    BY <1>1, <2>1 DEF Graphs
<1>5. ASSUME NEW a \in DOMAIN heap'
      PROVE  /\ heap'[a] \in Graphs
             /\ \A k \in DOMAIN heap'[a].edges :
                  a # back' => {k.from, k.to} \subseteq DOMAIN heap'[a].nodes
  <2>1. CASE a = live'
    BY <1>1, <2>1 DEF Whole
  <2>2. CASE a = back'
    BY <1>4, <2>2
  <2>3. CASE a \in SnapshotAreas
    BY <1>1, <1>2, <2>3 DEF StoreInv, TypeOK, Apart
  <2>4. QED
    BY <1>1, <2>1, <2>2, <2>3
<1>6. TypeOK'
  BY <1>1, <1>2, <1>5 DEF StoreInv, TypeOK
<1>7. InKeys' = DOMAIN saved.edges /\ DOMAIN Adj' = DOMAIN saved.edges
  BY <1>1 DEF InKeys, Adj
<1>8. ASSUME NEW k \in DOMAIN Adj' PROVE In(k)' <= Adj'[k]
  <2>1. Adj'[k] = saved.edges[k] /\ In(k)' = saved.edges[k]
    BY <1>1 DEF In, Adj
  <2>2. saved.edges \in Partial(Keys) /\ k \in DOMAIN saved.edges
    BY <1>1, <1>7, <1>8 DEF Graphs
  <2>3. saved.edges[k] \in Nat
    BY <2>2, PartialFunction, WeightsAssumption
  <2>4. QED
    BY <2>1, <2>3
<1>9. QED
  BY <1>3, <1>6, <1>7, <1>8 DEF StoreInv, ListsAgree

LEMMA NextKeepsStore ==
  ASSUME StoreInv, [Next]_vars
  PROVE  StoreInv'
<1>1. CASE \E c \in NodeCalls : AddNode(c)
  BY <1>1, AddNodeGains, GainKeepsStore
<1>2. CASE \E c \in EdgeCalls : AddEdge(c)
  BY <1>2, AddEdgeGains, GainKeepsStore
<1>3. CASE Bootstrap
  BY <1>3, BootstrapGains, GainKeepsStore
<1>4. CASE CreateSnapshot
  BY <1>4, SnapshotKeepsStore
<1>5. CASE \E i \in 1..Keep : Rollback(i)
  BY <1>5, RollbackKeepsStore
<1>6. CASE UNCHANGED vars
  BY <1>6
  DEF vars, store, StoreInv, TypeOK, Apart, ListsAgree, SnapshotAreas, Kept, Adj, InKeys, In
<1>7. QED
  BY <1>1, <1>2, <1>3, <1>4, <1>5, <1>6 DEF Next

THEOREM StoreInvariant == Spec => []StoreInv
<1>1. QED
  BY InitStore, NextKeepsStore, PTL DEF Spec

\* The objects, the snapshots and the ids keep their types; there is always an
\* area left for a copy.
THEOREM TypeCorrect == Spec => []TypeOK
<1>1. StoreInv => TypeOK
  BY DEF StoreInv
<1>2. QED
  BY <1>1, StoreInvariant, PTL

\* Whatever is added, saved and restored, _in lists what _adj lists, with no
\* more weight (add_edge and rollback).
THEOREM ListsStayEqual == Spec => []ListsAgree
<1>1. StoreInv => ListsAgree
  BY DEF StoreInv
<1>2. QED
  BY <1>1, StoreInvariant, PTL

\* No graph is ever infinite: a call adds one object, and the seeds are finite.
LEMMA InitFinite == Init => AllFinite
<1> SUFFICES ASSUME Init PROVE AllFinite
  OBVIOUS
<1>1. Finite(NoGraph)
  BY FS_EmptySet DEF NoGraph, Finite
<1>2. heap = [a \in {live, back} |-> NoGraph]
  BY DEF Init
<1>3. QED
  BY <1>1, <1>2 DEF AllFinite

LEMMA GainKeepsFinite ==
  ASSUME StoreInv, AllFinite, NEW g, Grows(g)
  PROVE  AllFinite'
<1>1. live \in DOMAIN heap
  BY DEF StoreInv, TypeOK
<1>2. Finite(heap[live])
  BY <1>1 DEF AllFinite
<1>3. heap' = [heap EXCEPT ![live] = g] /\ Finite(g)
  BY <1>2 DEF Gain, Grows
<1>4. \A a \in DOMAIN heap' : Finite(heap'[a])
  BY <1>1, <1>3 DEF AllFinite
<1>5. QED
  BY <1>4 DEF AllFinite, Finite

LEMMA NextKeepsFinite ==
  ASSUME StoreInv, AllFinite, [Next]_vars
  PROVE  AllFinite'
<1>0. live \in DOMAIN heap /\ SnapshotAreas \subseteq DOMAIN heap
  BY DEF StoreInv, TypeOK
<1>1. SUFFICES ASSUME NEW a \in DOMAIN heap' PROVE Finite(heap'[a])
  BY DEF AllFinite, Finite
<1>2. CASE \E g : Grows(g)
  <2>1. AllFinite'
    BY <1>2, GainKeepsFinite
  <2>2. QED
    BY <2>1 DEF AllFinite, Finite
<1>3. CASE (\E c \in NodeCalls : AddNode(c)) \/ (\E c \in EdgeCalls : AddEdge(c)) \/ Bootstrap
  <2>1. \E g : Grows(g)
    BY <1>3, AddNodeGains, AddEdgeGains, BootstrapGains
  <2>2. QED
    BY <1>2, <2>1
<1>4. CASE CreateSnapshot
  <2>1. heap'[a] = heap[live] \/ (a \in DOMAIN heap /\ heap'[a] = heap[a])
    <3>1. /\ DOMAIN heap' = {live, back} \cup SnapshotAreas'
          /\ SnapshotAreas' \subseteq SnapshotAreas \cup {FreshArea}
          /\ heap'[a] = IF a = FreshArea THEN heap[live] ELSE heap[a]
      BY <1>4, SnapshotEffect
    <3>2. back \in DOMAIN heap
      BY DEF StoreInv, TypeOK
    <3>3. QED
      BY <1>0, <3>1, <3>2
  <2>2. QED
    BY <1>0, <2>1 DEF AllFinite
<1>5. CASE \E i \in 1..Keep : Rollback(i)
  <2>1. PICK i \in 1..Keep : Rollback(i)
    BY <1>5
  <2> DEFINE saved == heap[snapshots[i].at]
  <2>2. /\ i \in Kept /\ DOMAIN heap' = {live', back'} \cup SnapshotAreas
        /\ heap'[live'] = saved
        /\ heap'[back'] = [nodes |-> NoGraph.nodes, edges |-> saved.edges]
        /\ \A b \in SnapshotAreas : heap'[b] = heap[b]
    BY <2>1, RollbackEffect
  <2>3. Finite(saved)
    BY <1>0, <2>2 DEF SnapshotAreas, AllFinite
  <2> HIDE DEF saved
  <2>4. Finite([nodes |-> NoGraph.nodes, edges |-> saved.edges])
    BY <2>3, FS_EmptySet DEF Finite, NoGraph
  <2>5. \A b \in SnapshotAreas : Finite(heap[b])
    BY <1>0 DEF AllFinite
  <2>6. QED
    BY <2>2, <2>3, <2>4, <2>5
<1>6. CASE UNCHANGED vars
  BY <1>6 DEF vars, store, AllFinite
<1>7. QED
  BY <1>3, <1>4, <1>5, <1>6 DEF Next

\* Every graph the store or a snapshot holds is finite.
THEOREM FiniteGraphs == Spec => []AllFinite
<1>1. QED
  BY InitFinite, NextKeepsFinite, StoreInvariant, PTL DEF Spec

-----------------------------------------------------------------------------
(* The refinement.                                                         *)

Versions == [i \in Kept |-> Version(snapshots[i])]
VersionType == [id : Nat, parent : Nat, graph : Graphs, news : Delta]

VersionsSay ==
  /\ Kept = 1..Len(snapshots) /\ Len(snapshots) \in Nat
  /\ Versions \in Seq(VersionType) /\ Len(Versions) = Len(snapshots)
  /\ \A i \in Kept : Versions[i] = Version(snapshots[i])

LEMMA VersionsTyped == StoreInv => VersionsSay
<1> SUFFICES ASSUME StoreInv PROVE VersionsSay
  OBVIOUS
<1>1. Kept = 1..Len(snapshots) /\ Len(snapshots) \in Nat
      /\ \A i \in Kept : snapshots[i] \in Snapshot
  <2>1. snapshots \in Seq(Snapshot)
    BY DEF StoreInv, TypeOK, Snapshot
  <2>2. QED
    BY <2>1 DEF Kept
<1>2. ASSUME NEW i \in Kept PROVE Version(snapshots[i]) \in VersionType
  <2>1. heap[snapshots[i].at] \in Graphs
    BY DEF StoreInv, TypeOK, SnapshotAreas
  <2>2. QED
    BY <1>1, <2>1 DEF Version, VersionType, Snapshot
<1>3. Versions \in [1..Len(snapshots) -> VersionType]
  BY <1>1, <1>2 DEF Versions
<1>4. QED
  BY <1>1, <1>3 DEF Versions, VersionsSay

\* The same of the state a step leads to.
LEMMA VersionsTypedNext == StoreInv' => VersionsSay'
  BY VersionsTyped, PTL

LEMMA InitIsVersioned == Init => Versioned!Init
<1> SUFFICES ASSUME Init PROVE Versioned!Init
  OBVIOUS
<1>1. heap[live] = NoGraph /\ snapshots = <<>> /\ counter = 0
  BY DEF Init
<1>2. Versions = <<>>
  BY <1>1 DEF Versions, Kept
<1>3. QED
  BY <1>1, <1>2 DEF Versioned!Init, Versioned!NoGraph, NoGraph, Versions

LEMMA GainIsMerge ==
  ASSUME StoreInv, NEW g, Grows(g)
  PROVE  Versioned!Merge
<1>1. /\ live \in DOMAIN heap /\ heap'[live'] = g /\ snapshots' = snapshots
      /\ counter' = counter
      /\ \A a \in SnapshotAreas : heap'[a] = heap[a]
  BY DEF Grows, Gain, StoreInv, TypeOK, Apart
<1>2. Versions' = Versions
  BY <1>1 DEF Versions, Version, Kept, SnapshotAreas
<1>3. QED
  BY <1>1, <1>2
  DEF Grows, Versioned!Merge, Versioned!Extends, Versioned!Outweighs, Extends, Outweighs, Versions

LEMMA RollbackIsRestore ==
  ASSUME StoreInv, NEW i \in 1..Keep, Rollback(i)
  PROVE  Versioned!Restore
<1>1. /\ i \in Kept /\ heap'[live'] = heap[snapshots[i].at]
      /\ snapshots' = snapshots /\ counter' = counter
      /\ \A a \in SnapshotAreas : heap'[a] = heap[a]
  BY RollbackEffect
<1>2. Versions' = Versions
  BY <1>1 DEF Versions, Version, Kept, SnapshotAreas
<1>3. i \in 1..Len(Versions) /\ Versions[i].graph = heap[snapshots[i].at]
  <2>1. Versions[i] = Version(snapshots[i]) /\ i \in 1..Len(Versions)
    BY <1>1, VersionsTyped DEF VersionsSay
  <2>2. QED
    BY <2>1 DEF Version
<1>4. QED
  BY <1>1, <1>2, <1>3 DEF Versioned!Restore, Versions

LEMMA SnapshotIsSave ==
  ASSUME StoreInv, CreateSnapshot
  PROVE  Versioned!Save
<1> DEFINE first  == Versions = <<>>
           newest == Versions[Len(Versions)]
           saved  == [id     |-> counter + 1,
                      parent |-> IF first THEN 0 ELSE newest.id,
                      graph  |-> heap[live],
                      news   |-> IF first THEN Nothing ELSE Added(heap[live], newest.graph)]
           room   == IF Len(Versions) < Keep THEN Versions ELSE Tail(Versions)
<1>1. PICK d \in 0..1 :
        /\ d <= Len(snapshots) /\ d = (IF Len(snapshots) < Keep THEN 0 ELSE 1)
        /\ Room \in Seq(Snapshot) /\ Len(Room) = Len(snapshots) - d
        /\ \A i \in 1..Len(Room) : Room[i] = snapshots[i + d]
  BY RoomKeeps DEF StoreInv
<1>2. /\ Versions \in Seq(VersionType) /\ Len(Versions) = Len(snapshots)
      /\ Kept = 1..Len(snapshots) /\ Len(snapshots) \in Nat
      /\ \A i \in Kept : Versions[i] = Version(snapshots[i])
  BY VersionsTyped DEF VersionsSay
<1>3. StoreInv' /\ Versions' \in Seq(VersionType) /\ Len(Versions') = Len(Room) + 1
      /\ Kept' = 1..Len(Room) + 1
      /\ \A i \in Kept' : Versions'[i] = Version(snapshots[i])'
  <2>1. StoreInv'
    BY SnapshotKeepsStore
  <2>2. /\ Versions' \in Seq(VersionType) /\ Len(Versions') = Len(snapshots')
        /\ Kept' = 1..Len(snapshots')
        /\ \A i \in Kept' : Versions'[i] = Version(snapshots[i])'
    BY <2>1, VersionsTypedNext DEF VersionsSay
  <2>3. QED
    BY <2>1, <2>2, SnapshotEffect
<1>4. room \in Seq(VersionType) /\ Len(room) = Len(Room)
      /\ \A i \in 1..Len(room) : room[i] = Versions[i + d]
  <2>1. CASE Len(snapshots) < Keep
    <3>1. room = Versions /\ d = 0
      BY <1>1, <1>2, <2>1
    <3>2. QED
      BY <1>1, <1>2, <3>1
  <2>2. CASE ~(Len(snapshots) < Keep)
    <3>1. room = Tail(Versions) /\ d = 1 /\ Versions # <<>>
      BY <1>1, <1>2, <2>2
    <3>2. QED
      BY <1>1, <1>2, <3>1
  <2>3. QED
    BY <2>1, <2>2
<1>5. ASSUME NEW i \in 1..Len(Room) PROVE Versions'[i] = room[i]
  <2>1. i + d \in Kept /\ i \in Kept'
    BY <1>1, <1>2, <1>3
  <2>2. snapshots'[i] = snapshots[i + d]
    BY <1>1, SnapshotEffect
  <2>3. /\ snapshots[i + d].at \in SnapshotAreas /\ snapshots'[i].at \in SnapshotAreas'
    BY <2>1 DEF SnapshotAreas
  <2>4. heap'[snapshots'[i].at] = heap[snapshots[i + d].at]
    <3>1. snapshots[i + d].at \in DOMAIN heap
      BY <2>3 DEF StoreInv, TypeOK
    <3>2. snapshots[i + d].at # FreshArea
      BY <3>1, TwoFresh DEF StoreInv
    <3>3. snapshots'[i].at \in DOMAIN heap'
      BY <2>3, SnapshotEffect
    <3>4. QED
      BY <2>2, <3>2, <3>3, SnapshotEffect
  <2>5. Version(snapshots[i])' = Version(snapshots[i + d])
    BY <2>2, <2>4 DEF Version
  <2>6. QED
    BY <1>2, <1>3, <1>4, <2>1, <2>5
<1>6. Versions'[Len(Room) + 1] = saved
  <2>1. snapshots'[Len(Room) + 1] = Saved /\ Len(Room) + 1 \in Kept'
    BY <1>1, <1>3, SnapshotEffect
  <2>2. Saved.at = FreshArea /\ FreshArea \in SnapshotAreas'
    BY <2>1 DEF Saved, SnapshotAreas
  <2>3. heap'[FreshArea] = heap[live]
    BY <2>2, SnapshotEffect
  <2>4. Versions'[Len(Room) + 1] =
          [id |-> Saved.id, parent |-> Saved.parent, graph |-> heap[live], news |-> Saved.news]
    BY <1>3, <2>1, <2>2, <2>3 DEF Version
  <2>5. first <=> snapshots = <<>>
    BY <1>2 DEF StoreInv, TypeOK
  <2>6. ASSUME snapshots # <<>>
        PROVE  newest.id = Parent.id /\ newest.graph = ParentGraph
    <3>1. Len(snapshots) \in Kept
      BY <1>2, <2>6 DEF StoreInv, TypeOK
    <3>2. newest = Version(Parent)
      BY <1>2, <3>1 DEF Parent
    <3>3. QED
      BY <3>2 DEF Version, ParentGraph
  <2>7. saved.parent = Saved.parent /\ saved.news = Saved.news
    BY <2>5, <2>6 DEF Saved, DeltaToParent
  <2>8. saved.id = Saved.id
    BY DEF Saved
  <2>9. QED
    BY <2>4, <2>7, <2>8
<1>7. saved \in VersionType
  BY <1>1, <1>3, <1>6
<1> HIDE DEF saved, room
<1>8. Append(room, saved) \in Seq(VersionType) /\ Len(Append(room, saved)) = Len(Room) + 1
      /\ \A i \in 1..Len(Room) : Append(room, saved)[i] = room[i]
      /\ Append(room, saved)[Len(Room) + 1] = saved
  BY <1>1, <1>4, <1>7
<1>9. Versions' = Append(room, saved)
  BY <1>1, <1>3, <1>5, <1>6, <1>8
<1>10. heap'[live'] = heap[live] /\ counter' = counter + 1
  BY SnapshotEffect, TwoFresh DEF StoreInv, TypeOK
<1>11. saved = [id     |-> counter + 1,
                parent |-> IF first THEN 0 ELSE newest.id,
                graph  |-> heap[live],
                news   |-> IF first THEN Versioned!Added(Versioned!NoGraph, Versioned!NoGraph)
                                    ELSE Versioned!Added(heap[live], newest.graph)]
  <2>1. Nothing = Versioned!Added(Versioned!NoGraph, Versioned!NoGraph)
    BY DEF Nothing, Versioned!Added, Versioned!NoGraph
  <2>2. Added(heap[live], newest.graph) = Versioned!Added(heap[live], newest.graph)
    BY DEF Added, Versioned!Added
  <2>3. QED
    BY <2>1, <2>2 DEF saved
<1>12. room = IF Len(Versions) < Keep THEN Versions ELSE Tail(Versions)
  BY DEF room
<1> HIDE DEF first, newest
<1>13. QED
  BY <1>9, <1>10, <1>11, <1>12 DEF Versioned!Save, Versions, first, newest

LEMMA NextIsVersioned ==
  ASSUME StoreInv, [Next]_vars
  PROVE  [Versioned!Next]_Versioned!vars
<1>1. CASE \E c \in NodeCalls : AddNode(c)
  BY <1>1, AddNodeGains, GainIsMerge DEF Versioned!Next
<1>2. CASE \E c \in EdgeCalls : AddEdge(c)
  BY <1>2, AddEdgeGains, GainIsMerge DEF Versioned!Next
<1>3. CASE Bootstrap
  BY <1>3, BootstrapGains, GainIsMerge DEF Versioned!Next
<1>4. CASE CreateSnapshot
  BY <1>4, SnapshotIsSave DEF Versioned!Next
<1>5. CASE \E i \in 1..Keep : Rollback(i)
  BY <1>5, RollbackIsRestore DEF Versioned!Next
<1>6. CASE UNCHANGED vars
  BY <1>6 DEF vars, store, Versioned!vars, Kept, Version
<1>7. QED
  BY <1>1, <1>2, <1>3, <1>4, <1>5, <1>6 DEF Next

\* Nothing add_node(), add_edge() or rollback() does to the store's objects is
\* seen in a snapshot, and every step is one of the abstract graph with
\* versions (create_snapshot, rollback).
THEOREM Refines == Spec => KeepsVersions
<1>1. Init => Versioned!Init
  BY InitIsVersioned
<1>2. StoreInv /\ [Next]_vars => [Versioned!Next]_Versioned!vars
  BY NextIsVersioned
<1>3. QED
  BY <1>1, <1>2, StoreInvariant, PTL DEF Spec, KeepsVersions, Versioned!Spec

-----------------------------------------------------------------------------
(* get_neighbors().                                                        *)

\* A number for some of the nodes.
Numbered == UNION {[D -> Nat] : D \in SUBSET NodeIds}

LEMMA NumberedFunction ==
  ASSUME NEW f \in Numbered
  PROVE  DOMAIN f \subseteq NodeIds /\ f \in [DOMAIN f -> Nat]
  BY DEF Numbered

LEMMA FunctionNumbered ==
  ASSUME NEW f, DOMAIN f \subseteq NodeIds, f \in [DOMAIN f -> Nat]
  PROVE  f \in Numbered
  BY DEF Numbered

LEMMA EdgesAre ==
  ASSUME NEW edges \in Partial(Keys), NEW k \in DOMAIN edges
  PROVE  /\ k \in Keys /\ k.from \in NodeIds /\ k.to \in NodeIds
         /\ edges[k] \in Nat /\ edges[k] \in Weights
  BY KeysAssumption, WeightsAssumption DEF Partial

Searches == [depth : Nat, frontier : SUBSET NodeIds, visited : SUBSET NodeIds, hops : Numbered]

LEMMA MetAreNodes ==
  ASSUME NEW edges \in Partial(Keys), NEW relation, NEW from
  PROVE  Met(edges, relation, from) \in SUBSET NodeIds
  BY EdgesAre DEF Met

SearchStart(n) == [depth |-> 0, frontier |-> {n}, visited |-> {n}, hops |-> NoNodes]

LEMMA DeeperTyped ==
  ASSUME NEW edges \in Partial(Keys), NEW relation, NEW s \in Searches
  PROVE  Deeper(edges, relation, s) \in Searches
<1> DEFINE met == Met(edges, relation, s.frontier)
           hops == [n \in DOMAIN s.hops \cup met |->
                      IF n \in DOMAIN s.hops THEN s.hops[n] ELSE s.depth + 1]
<1>1. met \in SUBSET NodeIds
  BY MetAreNodes
<1>2. s.hops \in Numbered /\ s.depth \in Nat /\ s.visited \in SUBSET NodeIds
  BY DEF Searches
<1>3. hops \in Numbered
  <2>1. DOMAIN s.hops \subseteq NodeIds /\ s.hops \in [DOMAIN s.hops -> Nat]
    BY <1>2, NumberedFunction
  <2> HIDE DEF met
  <2>2. DOMAIN hops \subseteq NodeIds /\ hops \in [DOMAIN hops -> Nat]
    BY <1>1, <1>2, <2>1
  <2> HIDE DEF hops
  <2> QED BY <2>2, FunctionNumbered
<1> HIDE DEF met, hops
<1>4. Deeper(edges, relation, s) =
        [depth |-> s.depth + 1, frontier |-> met \ s.visited, visited |-> s.visited \cup met,
         hops |-> hops]
  BY DEF Deeper, met, hops
<1>5. /\ s.depth + 1 \in Nat /\ met \ s.visited \in SUBSET NodeIds
      /\ s.visited \cup met \in SUBSET NodeIds
  BY <1>1, <1>2
<1> QED BY <1>3, <1>4, <1>5 DEF Searches

\* The search is a loop of Deeper, and stays typed.
LEMMA SearchRounds ==
  ASSUME NEW edges \in Partial(Keys), NEW relation, NEW n \in NodeIds
  PROVE  /\ Search(edges, n, relation)[0] = SearchStart(n)
         /\ \A r \in Nat : /\ Search(edges, n, relation)[r] \in Searches
                           /\ Search(edges, n, relation)[r + 1] =
                                Deeper(edges, relation, Search(edges, n, relation)[r])
<1> DEFINE x == SearchStart(n)
           step == [s \in Searches |-> Deeper(edges, relation, s)]
           Is(f) == f = [r \in Nat |-> IF r = 0 THEN x ELSE Deeper(edges, relation, f[r - 1])]
           f == CHOOSE g : Is(g)
<1>1. x \in Searches
  <2>1. NoNodes \in Numbered
    BY FunctionNumbered DEF NoNodes
  <2> QED BY <2>1 DEF SearchStart, Searches
<1>2. step \in [Searches -> Searches]
  BY DeeperTyped
<1>3. PICK g : Loops(g, Searches, step, x)
  <2> HIDE DEF x, step
  <2> QED BY <1>1, <1>2, RoundsExist
<1>4. Is(g)
  <2>1. \A r \in Nat : g[r] = IF r = 0 THEN x ELSE Deeper(edges, relation, g[r - 1])
    <3>1. \A r \in Nat : r # 0 => g[r - 1] \in Searches
      BY <1>3 DEF Loops
    <3> HIDE DEF x
    <3> QED BY <1>3, <3>1 DEF Loops
  <2> HIDE DEF x
  <2> QED BY <1>3, <2>1 DEF Loops
<1>5. Is(f)
  <2> HIDE DEF Is
  <2> QED BY <1>4
<1>6. f[0] = x /\ \A r \in Nat : f[r + 1] = Deeper(edges, relation, f[r])
  <2> HIDE DEF x, f
  <2>1. \A r \in Nat : f[r] = IF r = 0 THEN x ELSE Deeper(edges, relation, f[r - 1])
    BY <1>5
  <2>2. \A r \in Nat : (r + 1) - 1 = r /\ r + 1 \in Nat /\ r + 1 # 0
    OBVIOUS
  <2> QED BY <2>1, <2>2
<1>7. \A r \in Nat : f[r] \in Searches
  <2> DEFINE T == {r \in Nat : f[r] \in Searches}
  <2> HIDE DEF f, x
  <2>1. 0 \in T
    BY <1>1, <1>6
  <2>2. \A r \in Nat : r \in T => r + 1 \in T
    BY <1>6, DeeperTyped
  <2>3. Nat \subseteq T
    <3> HIDE DEF T
    <3> QED BY <2>1, <2>2, AllNumbers
  <2> QED BY <2>3
<1>8. Search(edges, n, relation) = f
  BY DEF Search, SearchStart
<1> HIDE DEF f
<1> QED BY <1>6, <1>7, <1>8

LEMMA EndsRounds ==
  ASSUME NEW edges \in Partial(Keys), NEW relation, NEW n \in NodeIds
  PROVE  /\ EndsOfWalks(edges, n, relation)[0] = {n}
         /\ \A h \in Nat : EndsOfWalks(edges, n, relation)[h + 1] =
                             Met(edges, relation, EndsOfWalks(edges, n, relation)[h])
<1> DEFINE S == SUBSET NodeIds
           step == [from \in S |-> Met(edges, relation, from)]
           Is(f) == f = [h \in Nat |-> IF h = 0 THEN {n} ELSE Met(edges, relation, f[h - 1])]
           f == CHOOSE g : Is(g)
<1>1. {n} \in S /\ step \in [S -> S]
  BY MetAreNodes
<1>2. PICK g : Loops(g, S, step, {n})
  <2> HIDE DEF S, step
  <2> QED BY <1>1, RoundsExist
<1>3. Is(g)
  <2>1. \A h \in Nat : h # 0 => g[h - 1] \in S
    <3> HIDE DEF S, step
    <3> QED BY <1>2 DEF Loops
  <2>2. \A h \in Nat : g[h] = IF h = 0 THEN {n} ELSE Met(edges, relation, g[h - 1])
    BY <1>2, <2>1 DEF Loops
  <2> HIDE DEF S
  <2> QED BY <1>2, <2>2 DEF Loops
<1>4. Is(f)
  <2> HIDE DEF Is
  <2> QED BY <1>3
<1>5. f[0] = {n} /\ \A h \in Nat : f[h + 1] = Met(edges, relation, f[h])
  <2> HIDE DEF f
  <2>1. \A h \in Nat : f[h] = IF h = 0 THEN {n} ELSE Met(edges, relation, f[h - 1])
    BY <1>4
  <2>2. \A h \in Nat : (h + 1) - 1 = h /\ h + 1 \in Nat /\ h + 1 # 0
    OBVIOUS
  <2> QED BY <2>1, <2>2
<1>6. EndsOfWalks(edges, n, relation) = f
  BY DEF EndsOfWalks
<1> HIDE DEF f
<1> QED BY <1>5, <1>6

\* A wanted edge leads from p to m.
Leads(edges, relation, p, m) ==
  \E k \in DOMAIN edges : Wanted(relation, k) /\ k.from = p /\ k.to = m

LEMMA MetLead ==
  ASSUME NEW edges, NEW relation, NEW from, NEW m
  PROVE  m \in Met(edges, relation, from) <=> \E p \in from : Leads(edges, relation, p, m)
  BY DEF Met, Leads

\* After r rounds: "near" has the ends of the walks of each length.
SearchInv(s, r, near) ==
  /\ s.depth = r
  /\ \A m : m \in s.visited <=> \E h \in 0..r : m \in near[h]
  /\ \A m : m \in s.frontier <=> m \in near[r] /\ \A h \in 0..(r - 1) : m \notin near[h]
  /\ \A m : m \in DOMAIN s.hops <=> \E h \in 1..r : m \in near[h]
  /\ \A m \in DOMAIN s.hops : /\ s.hops[m] \in 1..r /\ m \in near[s.hops[m]]
                              /\ \A h \in 1..(s.hops[m] - 1) : m \notin near[h]

\* A node met from a node that is not on the frontier has been met before.
LEMMA DeeperKeeps ==
  ASSUME NEW edges \in Partial(Keys), NEW relation, NEW s \in Searches, NEW r \in Nat,
         NEW near, SearchInv(s, r, near),
         \A h \in Nat : \A m : m \in near[h + 1] <=> \E p \in near[h] : Leads(edges, relation, p, m)
  PROVE  SearchInv(Deeper(edges, relation, s), r + 1, near)
<1> DEFINE met == Met(edges, relation, s.frontier)
           hops == [n \in DOMAIN s.hops \cup met |->
                      IF n \in DOMAIN s.hops THEN s.hops[n] ELSE s.depth + 1]
           t == Deeper(edges, relation, s)
<1>0. \A m : m \in met <=> \E p \in s.frontier : Leads(edges, relation, p, m)
  BY MetLead
<1> HIDE DEF met
<1>1. /\ t.depth = s.depth + 1 /\ t.frontier = met \ s.visited
      /\ t.visited = s.visited \cup met /\ t.hops = hops
  BY DEF Deeper, met
<1> HIDE DEF t
<1>2. ASSUME NEW m \in met PROVE m \in near[r + 1]
  BY <1>0, <1>2 DEF SearchInv
<1>3. ASSUME NEW m, m \in near[r + 1], m \notin met PROVE \E h \in 1..r : m \in near[h]
  <2>1. PICK p \in near[r] : Leads(edges, relation, p, m)
    BY <1>3
  <2>2. p \notin s.frontier
    BY <1>0, <1>3, <2>1
  <2>3. PICK h \in 0..(r - 1) : p \in near[h]
    BY <2>1, <2>2 DEF SearchInv
  <2>4. h \in Nat /\ h + 1 \in 1..r
    BY <2>3
  <2>5. m \in near[h + 1]
    BY <2>1, <2>3, <2>4
  <2> QED BY <2>4, <2>5
<1>4. \A m : m \in t.visited <=> \E h \in 0..(r + 1) : m \in near[h]
  <2>1. \A m : m \in s.visited <=> \E h \in 0..r : m \in near[h]
    BY DEF SearchInv
  <2>2. ASSUME NEW m, NEW h \in 0..(r + 1), m \in near[h] PROVE m \in t.visited
    <3>1. CASE h \in 0..r
      BY <1>1, <2>1, <2>2, <3>1
    <3>2. CASE h = r + 1
      <4>1. CASE m \in met
        BY <1>1, <4>1
      <4>2. CASE m \notin met
        <5>1. \E i \in 0..r : m \in near[i]
          BY <1>3, <2>2, <3>2, <4>2
        <5> QED BY <1>1, <2>1, <5>1
      <4> QED BY <4>1, <4>2
    <3> QED BY <3>1, <3>2
  <2>3. ASSUME NEW m, m \in t.visited PROVE \E h \in 0..(r + 1) : m \in near[h]
    <3>1. CASE m \in s.visited
      BY <2>1, <3>1
    <3>2. CASE m \in met
      BY <1>2, <3>2
    <3> QED BY <1>1, <2>3, <3>1, <3>2
  <2> QED BY <2>2, <2>3
<1>5. ASSUME NEW m PROVE m \in t.frontier <=> m \in near[r + 1] /\ \A h \in 0..r : m \notin near[h]
  <2>1. m \in s.visited <=> \E h \in 0..r : m \in near[h]
    BY DEF SearchInv
  <2>2. m \in near[r + 1] /\ m \notin met => \E h \in 0..r : m \in near[h]
    BY <1>3
  <2> QED BY <1>1, <1>2, <2>1, <2>2
<1>6. \A m : m \in DOMAIN s.hops <=> \E h \in 1..r : m \in near[h]
  BY DEF SearchInv
<1>7. DOMAIN hops = DOMAIN s.hops \cup met
  OBVIOUS
<1>8. \A m : m \in DOMAIN t.hops <=> \E h \in 1..(r + 1) : m \in near[h]
  <2>1. ASSUME NEW m, m \in DOMAIN t.hops PROVE \E h \in 1..(r + 1) : m \in near[h]
    <3>1. CASE m \in DOMAIN s.hops
      BY <1>6, <3>1
    <3>2. CASE m \in met
      BY <1>2, <3>2
    <3> QED BY <1>1, <1>7, <2>1, <3>1, <3>2
  <2>2. ASSUME NEW m, NEW h \in 1..(r + 1), m \in near[h] PROVE m \in DOMAIN t.hops
    <3>1. h \in 1..r \/ h = r + 1
      OBVIOUS
    <3>2. h \in 1..r => m \in DOMAIN s.hops
      BY <1>6, <2>2
    <3>3. h = r + 1 /\ m \notin met => m \in DOMAIN s.hops
      BY <1>3, <1>6, <2>2
    <3> QED BY <1>1, <1>7, <3>1, <3>2, <3>3
  <2> QED BY <2>1, <2>2
<1>9. ASSUME NEW m \in DOMAIN t.hops
      PROVE  /\ t.hops[m] \in 1..(r + 1) /\ m \in near[t.hops[m]]
             /\ \A h \in 1..(t.hops[m] - 1) : m \notin near[h]
  <2>1. CASE m \in DOMAIN s.hops
    <3>1. t.hops[m] = s.hops[m]
      BY <1>1, <1>7, <2>1
    <3> QED BY <2>1, <3>1 DEF SearchInv
  <2>2. CASE m \notin DOMAIN s.hops
    <3>1. m \in met /\ t.hops[m] = r + 1
      BY <1>1, <1>7, <2>2 DEF SearchInv
    <3> QED BY <1>2, <1>6, <2>2, <3>1
  <2> QED BY <2>1, <2>2
<1>10. t.depth = r + 1
  BY <1>1 DEF SearchInv
<1>11. \A m : m \in t.frontier <=> m \in near[r + 1] /\ \A h \in 0..((r + 1) - 1) : m \notin near[h]
  <2>1. (r + 1) - 1 = r
    OBVIOUS
  <2> QED BY <1>5, <2>1
<1>12. SearchInv(t, r + 1, near)
  BY <1>4, <1>8, <1>9, <1>10, <1>11 DEF SearchInv
<1> QED BY <1>12 DEF t

\* get_neighbors() answers every node within max_hops, with its distance, for
\* any graph (query.py:28-54).
THEOREM NeighborsRight ==
  ASSUME NEW edges \in Partial(Keys), NEW n \in NodeIds, NEW relation, NEW maxHops \in Nat
  PROVE  NeighborsAreNear(edges, n, relation, maxHops)
<1> DEFINE near == EndsOfWalks(edges, n, relation)
           search == Search(edges, n, relation)
           T == {r \in Nat : SearchInv(search[r], r, near)}
<1>1. \A h \in Nat : \A m : m \in near[h + 1] <=> \E p \in near[h] : Leads(edges, relation, p, m)
  BY EndsRounds, MetLead
<1>2. near[0] = {n}
  BY EndsRounds
<1>3. /\ search[0] = SearchStart(n)
      /\ \A r \in Nat : search[r] \in Searches /\ search[r + 1] = Deeper(edges, relation, search[r])
  BY SearchRounds
<1> HIDE DEF near, search
<1>4. 0 \in T
  <2>1. SearchInv(SearchStart(n), 0, near)
    BY <1>2 DEF SearchInv, SearchStart, NoNodes
  <2> QED BY <1>3, <2>1
<1>5. ASSUME NEW r \in Nat, r \in T PROVE r + 1 \in T
  <2>1. SearchInv(search[r], r, near) /\ search[r] \in Searches
    BY <1>3, <1>5
  <2>2. SearchInv(Deeper(edges, relation, search[r]), r + 1, near)
    BY <1>1, <2>1, DeeperKeeps
  <2> QED BY <1>3, <2>2
<1>6. SearchInv(search[maxHops], maxHops, near)
  <2>1. Nat \subseteq T
    <3> HIDE DEF T
    <3> QED BY <1>4, <1>5, AllNumbers
  <2> QED BY <2>1
<1> DEFINE hops == search[maxHops].hops
<1>7. DOMAIN hops = UNION {near[h] : h \in 1..maxHops}
  BY <1>6 DEF SearchInv
<1>8. \A m \in DOMAIN hops : m \in near[hops[m]] /\ \A h \in 1..(hops[m] - 1) : m \notin near[h]
  BY <1>6 DEF SearchInv
<1> QED BY <1>7, <1>8 DEF NeighborsAreNear, Neighbors, near, search

-----------------------------------------------------------------------------
(* shortest_path().                                                        *)

\* What the heap holds.
Entries == [cost : Nat, path : {p \in Seq(NodeIds) : p # <<>>}]

LEMMA EntryEnds ==
  ASSUME NEW e \in Entries
  PROVE  /\ e.cost \in Nat /\ e.path \in Seq(NodeIds) /\ e.path # <<>>
         /\ Len(e.path) \in Nat \ {0} /\ Last(e.path) \in NodeIds
<1>1. e.cost \in Nat /\ e.path \in Seq(NodeIds) /\ e.path # <<>>
  BY DEF Entries
<1>2. Len(e.path) \in Nat \ {0}
  BY <1>1, EmptySeq
<1>3. Last(e.path) \in NodeIds
  BY <1>1, <1>2, ElementOfSeq DEF Last
<1> QED BY <1>1, <1>2, <1>3

LEMMA HomeIsEntry ==
  ASSUME NEW n \in NodeIds
  PROVE  AtHome(n) \in Entries /\ Last(AtHome(n).path) = n /\ Len(AtHome(n).path) = 1
<1>1. <<n>> \in Seq(NodeIds) /\ <<n>> # <<>> /\ Len(<<n>>) = 1 /\ <<n>>[1] = n
  OBVIOUS
<1>2. AtHome(n).path = <<n>> /\ AtHome(n) = [cost |-> 0, path |-> <<n>>]
  BY DEF AtHome
<1> QED BY <1>1, <1>2 DEF Entries, Last

LEMMA StepIsNat ==
  ASSUME NEW w \in Weights, w > 0
  PROVE  Step(w) \in Nat
<1>1. Unit \in Nat /\ w \in Nat \ {0}
  BY UnitAssumption, WeightsAssumption
<1> QED BY <1>1 DEF Step

\* k goes on from where e ends.
GoesOn(edges, e, k) == k \in Links(edges, Last(e.path))

LEMMA LongerGoesOn ==
  ASSUME NEW edges \in Partial(Keys), NEW e \in Entries, NEW k, GoesOn(edges, e, k)
  PROVE  /\ k \in DOMAIN edges /\ k.from = Last(e.path) /\ k.to \in NodeIds
         /\ Step(edges[k]) \in Nat
         /\ Longer(edges, e, k) \in Entries
         /\ Longer(edges, e, k).cost = e.cost + Step(edges[k])
         /\ Longer(edges, e, k).path = Append(e.path, k.to)
         /\ Last(Longer(edges, e, k).path) = k.to
         /\ Len(Longer(edges, e, k).path) = Len(e.path) + 1
<1>1. k \in DOMAIN edges /\ k.from = Last(e.path) /\ edges[k] > 0
  BY DEF GoesOn, Links, OutEdges
<1>2. k.to \in NodeIds /\ Step(edges[k]) \in Nat
  BY <1>1, EdgesAre, StepIsNat
<1> DEFINE p == Append(e.path, k.to)
           c == e.cost + Step(edges[k])
<1>3. p \in Seq(NodeIds) /\ p # <<>> /\ Len(p) = Len(e.path) + 1 /\ p[Len(p)] = k.to
  BY <1>2, EntryEnds
<1>4. c \in Nat
  BY <1>2, EntryEnds
<1>5. Longer(edges, e, k) = [cost |-> c, path |-> p]
  BY DEF Longer
<1> HIDE DEF p, c
<1>6. /\ Longer(edges, e, k) \in Entries
      /\ Longer(edges, e, k).path = p /\ Longer(edges, e, k).cost = c
  BY <1>3, <1>4, <1>5 DEF Entries
<1> QED BY <1>1, <1>2, <1>3, <1>6 DEF p, c, Last

\* The walks of h edges: what they are and where the next ones come from.
WalksAre(walks, edges, src) ==
  /\ walks[0] = {AtHome(src)}
  /\ \A h \in Nat :
       /\ walks[h] \subseteq Entries
       /\ \A w \in walks[h] : Len(w.path) = h + 1
       /\ \A w : w \in walks[h + 1] <=>
                   \E e \in walks[h] : \E k : GoesOn(edges, e, k) /\ w = Longer(edges, e, k)

LEMMA ExtendedHas ==
  ASSUME NEW edges, NEW W, NEW w
  PROVE  w \in Extended(edges, W) <=>
           \E e \in W : \E k : GoesOn(edges, e, k) /\ w = Longer(edges, e, k)
  BY DEF Extended, GoesOn

LEMMA ExtendedTyped ==
  ASSUME NEW edges \in Partial(Keys), NEW W \in SUBSET Entries
  PROVE  Extended(edges, W) \in SUBSET Entries
  BY ExtendedHas, LongerGoesOn

\* The walks of one edge more extend those of one less.
LEMMA WalkRounds ==
  ASSUME NEW edges \in Partial(Keys), NEW src \in NodeIds
  PROVE  WalksAre(WalksFrom(edges, src), edges, src)
<1> DEFINE S == SUBSET Entries
           x == {AtHome(src)}
           step == [W \in S |-> Extended(edges, W)]
           Is(f) == f = [h \in Nat |-> IF h = 0 THEN x ELSE Extended(edges, f[h - 1])]
           f == CHOOSE g : Is(g)
<1>1. x \in S /\ step \in [S -> S]
  BY HomeIsEntry, ExtendedTyped
<1>2. PICK g : Loops(g, S, step, x)
  <2> HIDE DEF S, step, x
  <2> QED BY <1>1, RoundsExist
<1>3. Is(g)
  <2> HIDE DEF x
  <2>1. \A h \in Nat : h # 0 => g[h - 1] \in S
    <3> HIDE DEF S, step
    <3> QED BY <1>2 DEF Loops
  <2>2. \A h \in Nat : g[h] = IF h = 0 THEN x ELSE Extended(edges, g[h - 1])
    <3> HIDE DEF S
    <3> QED BY <1>2, <2>1 DEF Loops
  <2> HIDE DEF S
  <2> QED BY <1>2, <2>2 DEF Loops
<1>4. Is(f)
  <2> HIDE DEF Is
  <2> QED BY <1>3
<1>5. f[0] = x /\ \A h \in Nat : f[h + 1] = Extended(edges, f[h])
  <2> HIDE DEF f, x
  <2>1. \A h \in Nat : f[h] = IF h = 0 THEN x ELSE Extended(edges, f[h - 1])
    BY <1>4
  <2>2. \A h \in Nat : (h + 1) - 1 = h /\ h + 1 \in Nat /\ h + 1 # 0
    OBVIOUS
  <2> QED BY <2>1, <2>2
<1> HIDE DEF f
<1>6. \A h \in Nat : f[h] \in SUBSET Entries /\ \A w \in f[h] : Len(w.path) = h + 1
  <2> DEFINE T == {h \in Nat : f[h] \in SUBSET Entries /\ \A w \in f[h] : Len(w.path) = h + 1}
  <2>1. 0 \in T
    BY <1>5, HomeIsEntry
  <2>2. ASSUME NEW h \in Nat, h \in T PROVE h + 1 \in T
    <3>1. f[h] \in SUBSET Entries /\ \A w \in f[h] : Len(w.path) = h + 1
      BY <2>2
    <3>2. f[h + 1] \in SUBSET Entries
      BY <1>5, <3>1, ExtendedTyped
    <3>3. ASSUME NEW w \in f[h + 1] PROVE Len(w.path) = (h + 1) + 1
      <4>1. PICK e \in f[h] : \E k : GoesOn(edges, e, k) /\ w = Longer(edges, e, k)
        BY <1>5, <3>3, ExtendedHas
      <4> QED BY <3>1, <4>1, LongerGoesOn
    <3> QED BY <3>2, <3>3
  <2>3. Nat \subseteq T
    <3> HIDE DEF T
    <3> QED BY <2>1, <2>2, AllNumbers
  <2> QED BY <2>3
<1>7. \A h \in Nat : \A w : w \in f[h + 1] <=>
        \E e \in f[h] : \E k : GoesOn(edges, e, k) /\ w = Longer(edges, e, k)
  BY <1>5, ExtendedHas
<1>8. WalksFrom(edges, src) = f
  BY DEF WalksFrom, f
<1> QED BY <1>5, <1>6, <1>7, <1>8 DEF WalksAre

\* The states of the loop, and the first.
RouteStates ==
  [heap : {H \in SUBSET Entries : IsFiniteSet(H)}, best : Numbered, answer : Seq(NodeIds)]

RouteStart(src) == [heap |-> {AtHome(src)}, best |-> [n \in {src} |-> 0], answer |-> <<>>]

\* The loop is over: nothing is left, or the node is reached.
Over(s) == s.heap = {} \/ s.answer # <<>>

LEMMA RouteParts ==
  ASSUME NEW s \in RouteStates
  PROVE  /\ s.heap \subseteq Entries /\ IsFiniteSet(s.heap)
         /\ s.best \in Numbered /\ DOMAIN s.best \subseteq NodeIds
         /\ \A n \in DOMAIN s.best : s.best[n] \in Nat
         /\ s.answer \in Seq(NodeIds)
<1>1. /\ s.heap \subseteq Entries /\ IsFiniteSet(s.heap)
      /\ s.best \in Numbered /\ s.answer \in Seq(NodeIds)
  BY DEF RouteStates
<1>2. DOMAIN s.best \subseteq NodeIds /\ s.best \in [DOMAIN s.best -> Nat]
  BY <1>1, NumberedFunction
<1> QED BY <1>1, <1>2

LEMMA RouteOf ==
  ASSUME NEW queue, queue \subseteq Entries, IsFiniteSet(queue), NEW best \in Numbered,
         NEW answer \in Seq(NodeIds)
  PROVE  [heap |-> queue, best |-> best, answer |-> answer] \in RouteStates
  BY DEF RouteStates

LEMMA CheapestIsLeast ==
  ASSUME NEW queue, queue \subseteq Entries, queue # {}
  PROVE  Cheapest(queue) \in queue /\ \A f \in queue : Cheapest(queue).cost <= f.cost
<1> DEFINE costs == {e.cost : e \in queue}
<1>1. costs \subseteq Nat /\ costs # {}
  BY EntryEnds
<1>2. PICK c \in costs : \A d \in costs : c <= d
  <2> HIDE DEF costs
  <2> QED BY <1>1, LeastElement
<1>3. PICK e \in queue : c = e.cost
  BY <1>2
<1>4. \A f \in queue : e.cost <= f.cost
  BY <1>2, <1>3
<1> QED BY <1>3, <1>4 DEF Cheapest

\* What popping e does to the state s, when e does not end at dst: "pushed"
\* are the walks that are new on the heap.
Pops(s, t, edges, e, pushed) ==
  /\ t.heap = (s.heap \ {e}) \cup pushed
  /\ t.answer = s.answer
  /\ DOMAIN t.best = DOMAIN s.best \cup {Last(f.path) : f \in pushed}
  /\ \A f \in pushed :
       /\ t.best[Last(f.path)] <= f.cost
       /\ \E g \in pushed : Last(g.path) = Last(f.path) /\ g.cost = t.best[Last(f.path)]
       /\ e.cost <= f.cost
       /\ Last(f.path) \in DOMAIN s.best => f.cost < s.best[Last(f.path)]
       /\ \E k : GoesOn(edges, e, k) /\ f = Longer(edges, e, k)
  /\ \A n \in DOMAIN s.best : (\A f \in pushed : Last(f.path) # n) => t.best[n] = s.best[n]
  /\ \A f, g \in pushed : Last(f.path) = Last(g.path) /\ f.cost = g.cost => f = g
  /\ \A k : GoesOn(edges, e, k) =>
       \/ \E f \in pushed : f = Longer(edges, e, k)
       \/ k.to \in DOMAIN s.best /\ s.best[k.to] <= e.cost + Step(edges[k])

\* What popping e pushes.
PushedBy(edges, e, best) == {Longer(edges, e, k) : k \in Pushed(edges, e, best)}

LEMMA PushedFinite ==
  ASSUME NEW edges, IsFiniteSet(DOMAIN edges), NEW e, NEW best
  PROVE  /\ IsFiniteSet(PushedBy(edges, e, best)) /\ IsFiniteSet(Pushed(edges, e, best))
         /\ Cardinality(PushedBy(edges, e, best)) <= Cardinality(Pushed(edges, e, best))
<1> DEFINE P == Pushed(edges, e, best)
           f == [k \in P |-> Longer(edges, e, k)]
<1>1. P \subseteq DOMAIN edges
  BY DEF Pushed, Links, OutEdges
<1>2. IsFiniteSet(P)
  <2> HIDE DEF P
  <2> QED BY <1>1, FS_Subset
<1>3. f \in Surjection(P, PushedBy(edges, e, best))
  BY DEF Surjection, PushedBy
<1> HIDE DEF P, f
<1>4. /\ IsFiniteSet(PushedBy(edges, e, best))
      /\ Cardinality(PushedBy(edges, e, best)) <= Cardinality(P)
  BY <1>2, <1>3, FS_Surjection
<1> QED BY <1>2, <1>4 DEF P

\* A round pops one entry and makes no node dearer.
LEMMA PopTyped ==
  ASSUME NEW edges \in Partial(Keys), IsFiniteSet(DOMAIN edges), NEW dst,
         NEW s \in RouteStates, s.heap # {}, Last(Cheapest(s.heap).path) # dst
  PROVE  /\ PopCheapest(edges, dst, s) \in RouteStates
         /\ Pops(s, PopCheapest(edges, dst, s), edges, Cheapest(s.heap),
                 PushedBy(edges, Cheapest(s.heap), s.best))
<1> DEFINE e       == Cheapest(s.heap)
           P       == Pushed(edges, e, s.best)
           pushed  == PushedBy(edges, e, s.best)
           ends    == {Last(f.path) : f \in pushed}
           costs(n) == {f.cost : f \in {f \in pushed : Last(f.path) = n}}
           cost(n) == Min(costs(n))
           queue    == (s.heap \ {e}) \cup pushed
           best    == [n \in DOMAIN s.best \cup ends |-> IF n \in ends THEN cost(n) ELSE s.best[n]]
           t       == PopCheapest(edges, dst, s)
<1>1. /\ s.heap \subseteq Entries /\ IsFiniteSet(s.heap)
      /\ s.best \in Numbered /\ DOMAIN s.best \subseteq NodeIds
      /\ \A n \in DOMAIN s.best : s.best[n] \in Nat
      /\ s.answer \in Seq(NodeIds)
  BY RouteParts
<1>2. e \in s.heap /\ e \in Entries /\ \A f \in s.heap : e.cost <= f.cost
  BY <1>1, CheapestIsLeast
<1>3. t = [heap |-> queue, best |-> best, answer |-> s.answer]
  <2>1. t = [s EXCEPT !.heap = (@ \ {e}) \cup pushed,
                      !.best = [n \in DOMAIN @ \cup ends |-> IF n \in ends THEN cost(n) ELSE @[n]]]
    BY DEF PopCheapest, PushedBy
  <2>2. s = [heap |-> s.heap, best |-> s.best, answer |-> s.answer]
    BY DEF RouteStates
  <2> HIDE DEF t, e, ends, cost, pushed
  <2> QED BY <2>1, <2>2
<1>4. \A f : f \in pushed <=> \E k \in P : f = Longer(edges, e, k)
  BY DEF PushedBy
<1>5. \A k : k \in P <=> /\ GoesOn(edges, e, k)
                         /\ k.to \in DOMAIN s.best => e.cost + Step(edges[k]) < s.best[k.to]
  BY DEF Pushed, GoesOn
<1>6. IsFiniteSet(pushed)
  BY PushedFinite
<1> HIDE DEF t, e, pushed, P
<1>7. ASSUME NEW f \in pushed
      PROVE  /\ f \in Entries /\ f.cost \in Nat /\ e.cost <= f.cost
             /\ Last(f.path) \in NodeIds
             /\ Last(f.path) \in DOMAIN s.best => f.cost < s.best[Last(f.path)]
             /\ f.path = Append(e.path, Last(f.path))
             /\ \E k : GoesOn(edges, e, k) /\ f = Longer(edges, e, k)
  <2>1. PICK k \in P : f = Longer(edges, e, k)
    BY <1>4
  <2>2. GoesOn(edges, e, k) /\ (k.to \in DOMAIN s.best => e.cost + Step(edges[k]) < s.best[k.to])
    BY <1>5
  <2>3. /\ Step(edges[k]) \in Nat /\ f \in Entries /\ f.cost = e.cost + Step(edges[k])
        /\ f.path = Append(e.path, k.to) /\ Last(f.path) = k.to /\ k.to \in NodeIds
    BY <1>2, <2>1, <2>2, LongerGoesOn
  <2>4. e.cost \in Nat /\ f.cost \in Nat
    BY <1>2, <2>3, EntryEnds
  <2> QED BY <2>1, <2>2, <2>3, <2>4
<1>8. ASSUME NEW f \in pushed, NEW g \in pushed, Last(f.path) = Last(g.path), f.cost = g.cost
      PROVE  f = g
  <2>1. f.path = g.path /\ f \in Entries /\ g \in Entries
    BY <1>7, <1>8
  <2> QED BY <1>8, <2>1 DEF Entries
<1>9. ASSUME NEW n \in ends
      PROVE  /\ cost(n) \in Nat /\ n \in NodeIds
             /\ \A f \in pushed : Last(f.path) = n => cost(n) <= f.cost
             /\ \E f \in pushed : Last(f.path) = n /\ f.cost = cost(n)
  <2>1. costs(n) \subseteq Nat /\ costs(n) # {} /\ n \in NodeIds
    BY <1>7
  <2>2. cost(n) \in costs(n) /\ \A c \in costs(n) : cost(n) <= c
    <3> HIDE DEF costs
    <3> QED BY <2>1, MinIsLeast
  <2> HIDE DEF cost
  <2> QED BY <2>1, <2>2
<1> HIDE DEF cost
<1>10. best \in Numbered
  <2>1. DOMAIN best \subseteq NodeIds /\ best \in [DOMAIN best -> Nat]
    BY <1>1, <1>9
  <2> HIDE DEF best
  <2> QED BY <2>1, FunctionNumbered
<1>11. queue \subseteq Entries /\ IsFiniteSet(queue)
  <2>1. IsFiniteSet(s.heap \ {e})
    BY <1>1, FS_RemoveElement
  <2>2. IsFiniteSet(queue)
    BY <1>6, <2>1, FS_Union
  <2> QED BY <1>1, <1>7, <2>2
<1>12. t \in RouteStates
  <2> HIDE DEF queue, best
  <2> QED BY <1>1, <1>3, <1>10, <1>11, RouteOf
<1>13. /\ t.heap = queue /\ t.answer = s.answer /\ DOMAIN t.best = DOMAIN s.best \cup ends
       /\ \A n \in ends : t.best[n] = cost(n)
       /\ \A n \in DOMAIN s.best : n \notin ends => t.best[n] = s.best[n]
  <2> HIDE DEF ends, queue
  <2> QED BY <1>3
<1>14. ASSUME NEW f \in pushed
       PROVE  /\ t.best[Last(f.path)] <= f.cost
              /\ \E g \in pushed : Last(g.path) = Last(f.path) /\ g.cost = t.best[Last(f.path)]
  <2>1. Last(f.path) \in ends
    OBVIOUS
  <2> HIDE DEF ends
  <2>2. t.best[Last(f.path)] = cost(Last(f.path))
    BY <1>13, <2>1
  <2> QED BY <1>9, <2>1, <2>2
<1>15. \A n \in DOMAIN s.best : (\A f \in pushed : Last(f.path) # n) => t.best[n] = s.best[n]
  BY <1>13
<1>16. ASSUME NEW k, GoesOn(edges, e, k)
       PROVE  \/ \E f \in pushed : f = Longer(edges, e, k)
              \/ k.to \in DOMAIN s.best /\ s.best[k.to] <= e.cost + Step(edges[k])
  <2>1. CASE k \in P
    BY <1>4, <2>1
  <2>2. CASE k \notin P
    <3>1. k.to \in DOMAIN s.best /\ ~(e.cost + Step(edges[k]) < s.best[k.to])
      BY <1>5, <1>16, <2>2
    <3>2. s.best[k.to] \in Nat /\ e.cost \in Nat /\ Step(edges[k]) \in Nat
      BY <1>1, <1>2, <1>16, <3>1, EntryEnds, LongerGoesOn
    <3> QED BY <3>1, <3>2
  <2> QED BY <2>1, <2>2
<1>17. Pops(s, t, edges, e, pushed)
  <2> HIDE DEF best
  <2>1. t.heap = (s.heap \ {e}) \cup pushed /\ t.answer = s.answer
        /\ DOMAIN t.best = DOMAIN s.best \cup {Last(f.path) : f \in pushed}
    BY <1>13
  <2>2. \A f \in pushed :
       /\ t.best[Last(f.path)] <= f.cost
       /\ \E g \in pushed : Last(g.path) = Last(f.path) /\ g.cost = t.best[Last(f.path)]
       /\ e.cost <= f.cost
       /\ Last(f.path) \in DOMAIN s.best => f.cost < s.best[Last(f.path)]
       /\ \E k : GoesOn(edges, e, k) /\ f = Longer(edges, e, k)
    BY <1>7, <1>14
  <2> HIDE DEF ends, queue
  <2> QED BY <1>8, <1>15, <1>16, <2>1, <2>2 DEF Pops
<1> QED BY <1>12, <1>17 DEF t, e, pushed

\* The cheapest way to n is known: no entry of the heap would be it.
Settled(s, n) ==
  n \in DOMAIN s.best /\ \A e \in s.heap : Last(e.path) = n => e.cost # s.best[n]

\* A walk that is known to reach where it ends for the least there is.
Optimal(walks, dst, e) ==
  /\ e \in walks[Len(e.path) - 1] /\ Last(e.path) = dst
  /\ \A h \in Nat : \A w \in walks[h] : Last(w.path) = dst => e.cost <= w.cost

\* The loop invariant: the heap has walks, a node that is settled has been
\* expanded at its cheapest, and its neighbours are known at no more than what
\* a step from it costs.
RouteInv(s, edges, src, dst, walks) ==
  /\ src \in DOMAIN s.best /\ s.best[src] = 0
  /\ ~ Settled(s, dst)
  /\ \A e \in s.heap : /\ e \in walks[Len(e.path) - 1]
                       /\ Last(e.path) \in DOMAIN s.best
                       /\ s.best[Last(e.path)] <= e.cost
  /\ \A e, f \in s.heap :
       Last(e.path) = Last(f.path) /\ e.cost = f.cost /\ e.cost = s.best[Last(e.path)] => e = f
  /\ \A n : Settled(s, n) =>
       /\ \A e \in s.heap : s.best[n] <= e.cost
       /\ \A k \in Links(edges, n) : /\ k.to \in DOMAIN s.best
                                     /\ s.best[k.to] <= s.best[n] + Step(edges[k])

\* Of any walk: the heap has an entry that costs no more, or the walk's end
\* is settled and the walk costs no less.
LEMMA WalksAreBounded ==
  ASSUME NEW edges \in Partial(Keys), NEW src \in NodeIds, NEW dst, NEW walks,
         WalksAre(walks, edges, src), NEW s \in RouteStates,
         RouteInv(s, edges, src, dst, walks)
  PROVE  \A h \in Nat : \A w \in walks[h] :
           \/ \E f \in s.heap : f.cost <= w.cost
           \/ Settled(s, Last(w.path)) /\ s.best[Last(w.path)] <= w.cost
<1> DEFINE Bounded(w) == \/ \E f \in s.heap : f.cost <= w.cost
                         \/ Settled(s, Last(w.path)) /\ s.best[Last(w.path)] <= w.cost
           T == {h \in Nat : \A w \in walks[h] : Bounded(w)}
<1>0. \A n \in DOMAIN s.best : s.best[n] \in Nat
  BY RouteParts
<1>1. ASSUME NEW n \in DOMAIN s.best, NEW w, Last(w.path) = n, s.best[n] <= w.cost
      PROVE  Bounded(w)
  <2>1. CASE Settled(s, n)
    BY <1>1, <2>1
  <2>2. CASE ~ Settled(s, n)
    BY <1>1, <2>2 DEF Settled
  <2> QED BY <2>1, <2>2
<1>2. 0 \in T
  <2>1. ASSUME NEW w \in walks[0] PROVE Bounded(w)
    <3>1. w = AtHome(src)
      BY DEF WalksAre
    <3>2. Last(w.path) = src /\ w.cost = 0
      BY <3>1, HomeIsEntry DEF AtHome
    <3>3. src \in DOMAIN s.best /\ s.best[src] <= w.cost
      BY <3>2 DEF RouteInv
    <3> QED BY <1>1, <3>2, <3>3
  <2> QED BY <2>1
<1>3. ASSUME NEW h \in Nat, h \in T PROVE h + 1 \in T
  <2>1. ASSUME NEW w \in walks[h + 1] PROVE Bounded(w)
    <3>1. PICK v \in walks[h] : \E k : GoesOn(edges, v, k) /\ w = Longer(edges, v, k)
      BY DEF WalksAre
    <3>2. PICK k : GoesOn(edges, v, k) /\ w = Longer(edges, v, k)
      BY <3>1
    <3>3. v \in Entries /\ v.cost \in Nat
      BY EntryEnds DEF WalksAre
    <3>4. /\ Step(edges[k]) \in Nat /\ w.cost = v.cost + Step(edges[k])
          /\ Last(w.path) = k.to /\ k \in Links(edges, Last(v.path))
      BY <3>2, <3>3, LongerGoesOn DEF GoesOn
    <3>5. CASE \E f \in s.heap : f.cost <= v.cost
      <4>1. PICK f \in s.heap : f.cost <= v.cost
        BY <3>5
      <4>2. f.cost \in Nat
        BY RouteParts, EntryEnds
      <4>3. f.cost <= w.cost
        BY <3>3, <3>4, <4>1, <4>2
      <4> QED BY <4>3
    <3>6. CASE Settled(s, Last(v.path)) /\ s.best[Last(v.path)] <= v.cost
      <4>1. /\ k.to \in DOMAIN s.best
            /\ s.best[k.to] <= s.best[Last(v.path)] + Step(edges[k])
        BY <3>4, <3>6 DEF RouteInv
      <4>2. s.best[k.to] \in Nat /\ s.best[Last(v.path)] \in Nat
        BY <1>0, <3>6, <4>1 DEF Settled
      <4>3. s.best[k.to] <= w.cost
        BY <3>3, <3>4, <3>6, <4>1, <4>2
      <4> QED BY <1>1, <3>4, <4>1, <4>3
    <3> QED BY <1>3, <3>1, <3>5, <3>6
  <2> QED BY <2>1
<1>4. Nat \subseteq T
  <2> HIDE DEF T
  <2> QED BY <1>2, <1>3, AllNumbers
<1> QED BY <1>4

\* So the first walk popped that ends at dst is one of the cheapest.
LEMMA AnswerIsOptimal ==
  ASSUME NEW edges \in Partial(Keys), NEW src \in NodeIds, NEW dst, NEW walks,
         WalksAre(walks, edges, src), NEW s \in RouteStates,
         RouteInv(s, edges, src, dst, walks), s.heap # {}, Last(Cheapest(s.heap).path) = dst
  PROVE  Optimal(walks, dst, Cheapest(s.heap))
<1> DEFINE e == Cheapest(s.heap)
<1>1. s.heap \subseteq Entries
  BY RouteParts
<1>2. e \in s.heap /\ \A f \in s.heap : e.cost <= f.cost
  BY <1>1, CheapestIsLeast
<1> HIDE DEF e
<1>3. e \in walks[Len(e.path) - 1]
  BY <1>2 DEF RouteInv
<1>4. ASSUME NEW h \in Nat, NEW w \in walks[h], Last(w.path) = dst PROVE e.cost <= w.cost
  <2>1. ~ Settled(s, dst)
    BY DEF RouteInv
  <2>2. PICK f \in s.heap : f.cost <= w.cost
    BY <1>4, <2>1, WalksAreBounded
  <2>3. e.cost \in Nat /\ f.cost \in Nat /\ w.cost \in Nat /\ e.cost <= f.cost
    BY <1>1, <1>2, EntryEnds DEF WalksAre
  <2> QED BY <2>2, <2>3
<1> QED BY <1>3, <1>4 DEF Optimal, e

LEMMA NoneWhenHeapIsEmpty ==
  ASSUME NEW edges \in Partial(Keys), NEW src \in NodeIds, NEW dst, NEW walks,
         WalksAre(walks, edges, src), NEW s \in RouteStates,
         RouteInv(s, edges, src, dst, walks), s.heap = {}
  PROVE  \A h \in Nat : \A w \in walks[h] : Last(w.path) # dst
<1>1. ~ Settled(s, dst)
  BY DEF RouteInv
<1> QED BY <1>1, WalksAreBounded

LEMMA StartIsRoute ==
  ASSUME NEW edges \in Partial(Keys), NEW src \in NodeIds, NEW dst, NEW walks,
         WalksAre(walks, edges, src)
  PROVE  RouteStart(src) \in RouteStates /\ RouteInv(RouteStart(src), edges, src, dst, walks)
<1> DEFINE s == RouteStart(src)
           home == AtHome(src)
<1>1. s.heap = {home} /\ s.best = [n \in {src} |-> 0] /\ s.answer = <<>>
  BY DEF RouteStart
<1>2. home \in Entries /\ Last(home.path) = src /\ Len(home.path) = 1 /\ home.cost = 0
  BY HomeIsEntry DEF AtHome
<1>3. home \in walks[Len(home.path) - 1]
  <2>1. home \in walks[0] /\ Len(home.path) - 1 = 0
    BY <1>2 DEF WalksAre
  <2> QED BY <2>1
<1>4. s \in RouteStates
  <2>1. [n \in {src} |-> 0] \in Numbered
    BY FunctionNumbered
  <2>2. IsFiniteSet({home})
    BY FS_Singleton
  <2> QED BY <1>2, <2>1, <2>2 DEF RouteStart, RouteStates
<1> HIDE DEF s, home
<1>5. \A n : ~ Settled(s, n)
  BY <1>1, <1>2 DEF Settled
<1>6. src \in DOMAIN s.best /\ s.best[src] = 0
  BY <1>1
<1>7. \A e \in s.heap : e = home
  BY <1>1
<1>8. RouteInv(s, edges, src, dst, walks)
  <2>1. ASSUME NEW e \in s.heap
        PROVE  /\ e \in walks[Len(e.path) - 1]
               /\ Last(e.path) \in DOMAIN s.best
               /\ s.best[Last(e.path)] <= e.cost
    <3>1. e = home
      BY <1>7
    <3>2. s.best[Last(home.path)] <= home.cost
      BY <1>2, <1>6
    <3> QED BY <1>2, <1>3, <1>6, <3>1, <3>2
  <2>2. \A e, f \in s.heap : e = f
    BY <1>7
  <2> QED BY <1>5, <1>6, <2>1, <2>2 DEF RouteInv
<1> QED BY <1>4, <1>8 DEF s

\* What popping does to what is settled.
LEMMA PopSettles ==
  ASSUME NEW edges \in Partial(Keys), NEW src, NEW dst, NEW walks, NEW s \in RouteStates,
         RouteInv(s, edges, src, dst, walks), NEW e \in s.heap, \A f \in s.heap : e.cost <= f.cost,
         NEW t \in RouteStates, NEW pushed, Pops(s, t, edges, e, pushed)
  PROVE  /\ \A n : Settled(s, n) => Settled(t, n) /\ t.best[n] = s.best[n]
         /\ Settled(s, Last(e.path)) => pushed = {}
         /\ Settled(t, Last(e.path)) /\ t.best[Last(e.path)] = s.best[Last(e.path)]
         /\ s.best[Last(e.path)] <= e.cost
         /\ ~ Settled(s, Last(e.path)) => e.cost = s.best[Last(e.path)]
         /\ \A n : Settled(t, n) => Settled(s, n) \/ n = Last(e.path)
<1> DEFINE at == Last(e.path)
<1>0. /\ \A n \in DOMAIN s.best : s.best[n] \in Nat
      /\ \A f \in s.heap : f \in Entries /\ f.cost \in Nat
      /\ \A n \in DOMAIN t.best : t.best[n] \in Nat
      /\ \A f \in t.heap : f \in Entries /\ f.cost \in Nat
  BY RouteParts, EntryEnds
<1>1. at \in DOMAIN s.best /\ s.best[at] <= e.cost
  BY DEF RouteInv
<1>2. /\ t.heap = (s.heap \ {e}) \cup pushed
      /\ DOMAIN t.best = DOMAIN s.best \cup {Last(f.path) : f \in pushed}
      /\ \A f \in pushed : /\ f \in t.heap /\ e.cost <= f.cost
                           /\ Last(f.path) \in DOMAIN s.best => f.cost < s.best[Last(f.path)]
                           /\ \E k : GoesOn(edges, e, k) /\ f = Longer(edges, e, k)
                           /\ \E g \in pushed : Last(g.path) = Last(f.path)
                                                /\ g.cost = t.best[Last(f.path)]
      /\ \A n \in DOMAIN s.best : (\A f \in pushed : Last(f.path) # n) => t.best[n] = s.best[n]
  BY DEF Pops
<1>3. ASSUME NEW n, Settled(s, n)
      PROVE  (\A f \in pushed : Last(f.path) # n) /\ t.best[n] = s.best[n] /\ Settled(t, n)
  <2>1. n \in DOMAIN s.best /\ s.best[n] <= e.cost
    BY <1>3 DEF RouteInv, Settled
  <2>2. \A f \in pushed : Last(f.path) # n
    BY <1>0, <1>2, <2>1
  <2>3. t.best[n] = s.best[n] /\ n \in DOMAIN t.best
    BY <1>2, <2>1, <2>2
  <2>4. Settled(t, n)
    BY <1>2, <1>3, <2>2, <2>3 DEF Settled
  <2> QED BY <2>2, <2>3, <2>4
<1>4. ~ Settled(s, at) => e.cost = s.best[at]
  <2>1. SUFFICES ASSUME ~ Settled(s, at) PROVE e.cost = s.best[at]
    OBVIOUS
  <2>2. PICK f \in s.heap : Last(f.path) = at /\ f.cost = s.best[at]
    BY <1>1, <2>1 DEF Settled
  <2>3. e.cost <= f.cost
    OBVIOUS
  <2> QED BY <1>0, <1>1, <2>2, <2>3
<1>5. \A f \in pushed : Last(f.path) # at
  BY <1>0, <1>1, <1>2
<1>6. t.best[at] = s.best[at] /\ at \in DOMAIN t.best
  BY <1>1, <1>2, <1>5
<1>7. Settled(t, at)
  <2>1. CASE Settled(s, at)
    BY <1>3, <2>1
  <2>2. CASE ~ Settled(s, at)
    <3>1. ASSUME NEW f \in t.heap, Last(f.path) = at PROVE f.cost # t.best[at]
      <4>1. f \in s.heap /\ f # e
        BY <1>2, <1>5, <3>1
      <4>2. f.cost = s.best[at] => f = e
        BY <1>4, <2>2, <3>1, <4>1 DEF RouteInv
      <4> QED BY <1>6, <4>1, <4>2
    <3> QED BY <1>6, <3>1 DEF Settled
  <2> QED BY <2>1, <2>2
<1>8. Settled(s, at) => pushed = {}
  <2>1. SUFFICES ASSUME Settled(s, at), NEW f \in pushed PROVE FALSE
    OBVIOUS
  <2>2. PICK k : GoesOn(edges, e, k) /\ f = Longer(edges, e, k)
    BY <1>2, <2>1
  <2>3. k.to \in DOMAIN s.best /\ s.best[k.to] <= s.best[at] + Step(edges[k])
    BY <2>1, <2>2 DEF RouteInv, GoesOn
  <2>4. f.cost = e.cost + Step(edges[k]) /\ Last(f.path) = k.to /\ Step(edges[k]) \in Nat
    BY <1>0, <2>2, LongerGoesOn
  <2>5. f.cost < s.best[k.to]
    BY <1>2, <2>1, <2>3, <2>4
  <2>6. f.cost \in Nat /\ e.cost \in Nat /\ s.best[at] \in Nat /\ s.best[k.to] \in Nat
    BY <1>0, <1>1, <1>2, <2>1, <2>3
  <2> QED BY <1>1, <2>3, <2>4, <2>5, <2>6
<1>9. ASSUME NEW n, Settled(t, n), n # at PROVE Settled(s, n)
  <2>1. \A f \in pushed : Last(f.path) # n
    <3>1. SUFFICES ASSUME NEW f \in pushed, Last(f.path) = n PROVE FALSE
      OBVIOUS
    <3>2. PICK g \in pushed : Last(g.path) = n /\ g.cost = t.best[n]
      BY <1>2, <3>1
    <3>3. g \in t.heap
      BY <1>2
    <3> QED BY <1>9, <3>2, <3>3 DEF Settled
  <2>2. n \in DOMAIN s.best /\ t.best[n] = s.best[n]
    BY <1>2, <1>9, <2>1 DEF Settled
  <2>3. ASSUME NEW f \in s.heap, Last(f.path) = n PROVE f.cost # s.best[n]
    <3>1. f \in t.heap
      BY <1>2, <1>9, <2>3
    <3> QED BY <1>9, <2>2, <2>3, <3>1 DEF Settled
  <2> QED BY <2>2, <2>3 DEF Settled
<1> QED BY <1>1, <1>3, <1>4, <1>6, <1>7, <1>8, <1>9

\* A round that does not reach dst keeps the invariant.
LEMMA PopKeeps ==
  ASSUME NEW edges \in Partial(Keys), NEW src \in NodeIds, NEW dst, NEW walks,
         WalksAre(walks, edges, src), NEW s \in RouteStates,
         RouteInv(s, edges, src, dst, walks),
         NEW e \in s.heap, Last(e.path) # dst, \A f \in s.heap : e.cost <= f.cost,
         NEW t \in RouteStates, NEW pushed, Pops(s, t, edges, e, pushed)
  PROVE  RouteInv(t, edges, src, dst, walks)
<1> DEFINE at == Last(e.path)
<1>0. /\ \A n \in DOMAIN s.best : s.best[n] \in Nat
      /\ \A f \in s.heap : f \in Entries /\ f.cost \in Nat
      /\ \A n \in DOMAIN t.best : t.best[n] \in Nat
      /\ \A f \in t.heap : f \in Entries /\ f.cost \in Nat
  BY RouteParts, EntryEnds
<1>1. /\ t.heap = (s.heap \ {e}) \cup pushed
      /\ DOMAIN t.best = DOMAIN s.best \cup {Last(f.path) : f \in pushed}
      /\ \A f \in pushed : /\ f \in t.heap /\ e.cost <= f.cost /\ t.best[Last(f.path)] <= f.cost
                           /\ Last(f.path) \in DOMAIN s.best => f.cost < s.best[Last(f.path)]
                           /\ \E k : GoesOn(edges, e, k) /\ f = Longer(edges, e, k)
                           /\ \E g \in pushed : Last(g.path) = Last(f.path)
                                                /\ g.cost = t.best[Last(f.path)]
      /\ \A n \in DOMAIN s.best : (\A f \in pushed : Last(f.path) # n) => t.best[n] = s.best[n]
      /\ \A f, g \in pushed : Last(f.path) = Last(g.path) /\ f.cost = g.cost => f = g
      /\ \A k : GoesOn(edges, e, k) =>
           \/ \E f \in pushed : f = Longer(edges, e, k)
           \/ k.to \in DOMAIN s.best /\ s.best[k.to] <= e.cost + Step(edges[k])
  BY DEF Pops
<1>2. /\ \A n : Settled(s, n) => Settled(t, n) /\ t.best[n] = s.best[n]
      /\ Settled(s, at) => pushed = {}
      /\ Settled(t, at) /\ t.best[at] = s.best[at]
      /\ s.best[at] <= e.cost
      /\ ~ Settled(s, at) => e.cost = s.best[at]
      /\ \A n : Settled(t, n) => Settled(s, n) \/ n = at
  BY PopSettles
<1>3. at \in DOMAIN s.best
  BY DEF RouteInv
\* What is known of a way only gets better.
<1>4. ASSUME NEW n \in DOMAIN s.best
      PROVE  n \in DOMAIN t.best /\ t.best[n] <= s.best[n]
  <2>1. CASE \A f \in pushed : Last(f.path) # n
    BY <1>0, <1>1, <2>1
  <2>2. CASE \E f \in pushed : Last(f.path) = n
    <3>1. PICK f \in pushed : Last(f.path) = n
      BY <2>2
    <3>2. t.best[n] <= f.cost /\ f.cost < s.best[n] /\ f.cost \in Nat /\ n \in DOMAIN t.best
      BY <1>0, <1>1, <3>1
    <3> QED BY <1>0, <3>2
  <2> QED BY <2>1, <2>2
<1>5. src \in DOMAIN t.best /\ t.best[src] = 0
  <2>1. src \in DOMAIN s.best /\ s.best[src] = 0
    BY DEF RouteInv
  <2>2. src \in DOMAIN t.best /\ t.best[src] <= 0
    BY <1>4, <2>1
  <2> QED BY <1>0, <2>2
<1>6. ~ Settled(t, dst)
  <2>1. ~ Settled(s, dst)
    BY DEF RouteInv
  <2> QED BY <1>2, <2>1
<1>7. ASSUME NEW f \in t.heap
      PROVE  /\ f \in walks[Len(f.path) - 1]
             /\ Last(f.path) \in DOMAIN t.best
             /\ t.best[Last(f.path)] <= f.cost
  <2>1. CASE f \in pushed
    <3>1. PICK k : GoesOn(edges, e, k) /\ f = Longer(edges, e, k)
      BY <1>1, <2>1
    <3> DEFINE h == Len(e.path) - 1
    <3>2. h \in Nat /\ Len(f.path) - 1 = h + 1
      <4>1. Len(e.path) \in Nat \ {0} /\ Len(f.path) = Len(e.path) + 1
        BY <1>0, <3>1, EntryEnds, LongerGoesOn
      <4> QED BY <4>1
    <3>3. e \in walks[h]
      BY DEF RouteInv
    <3> HIDE DEF h
    <3>4. f \in walks[h + 1]
      BY <3>1, <3>2, <3>3 DEF WalksAre
    <3> QED BY <1>1, <2>1, <3>2, <3>4
  <2>2. CASE f \in s.heap
    <3>1. /\ f \in walks[Len(f.path) - 1] /\ Last(f.path) \in DOMAIN s.best
          /\ s.best[Last(f.path)] <= f.cost
      BY <2>2 DEF RouteInv
    <3>2. Last(f.path) \in DOMAIN t.best /\ t.best[Last(f.path)] <= s.best[Last(f.path)]
      BY <1>4, <3>1
    <3>3. /\ t.best[Last(f.path)] \in Nat /\ s.best[Last(f.path)] \in Nat /\ f.cost \in Nat
      BY <1>0, <3>1, <3>2
    <3> QED BY <3>1, <3>2, <3>3
  <2> QED BY <1>1, <2>1, <2>2
\* An entry that was there and costs what its node is now known to cost has
\* not been beaten.
<1>8. ASSUME NEW f \in t.heap, f \notin pushed, f.cost = t.best[Last(f.path)]
      PROVE  /\ \A g \in pushed : Last(g.path) # Last(f.path)
             /\ f \in s.heap /\ f.cost = s.best[Last(f.path)]
  <2>1. f \in s.heap
    BY <1>1, <1>8
  <2>2. Last(f.path) \in DOMAIN s.best /\ s.best[Last(f.path)] <= f.cost
    BY <2>1 DEF RouteInv
  <2>3. ASSUME NEW g \in pushed, Last(g.path) = Last(f.path) PROVE FALSE
    <3>1. g.cost < s.best[Last(f.path)] /\ t.best[Last(f.path)] <= g.cost
      BY <1>1, <2>2, <2>3
    <3>2. g.cost \in Nat /\ f.cost \in Nat /\ s.best[Last(f.path)] \in Nat
      BY <1>0, <1>1, <2>2, <2>3
    <3> QED BY <1>8, <2>2, <3>1, <3>2
  <2>4. t.best[Last(f.path)] = s.best[Last(f.path)]
    BY <1>1, <2>2, <2>3
  <2> QED BY <1>8, <2>1, <2>3, <2>4
<1>9. ASSUME NEW f \in t.heap, NEW g \in t.heap, Last(f.path) = Last(g.path), f.cost = g.cost,
             f.cost = t.best[Last(f.path)]
      PROVE  f = g
  <2>1. CASE f \in pushed /\ g \in pushed
    BY <1>1, <1>9, <2>1
  <2>2. CASE f \notin pushed
    <3>1. g \notin pushed /\ f \in s.heap /\ f.cost = s.best[Last(f.path)]
      BY <1>8, <1>9, <2>2
    <3>2. g \in s.heap
      BY <1>1, <3>1
    <3> QED BY <1>9, <3>1, <3>2 DEF RouteInv
  <2>3. CASE g \notin pushed
    <3>1. f \notin pushed /\ g \in s.heap /\ g.cost = s.best[Last(g.path)]
      BY <1>8, <1>9, <2>3
    <3>2. f \in s.heap
      BY <1>1, <3>1
    <3> QED BY <1>9, <3>1, <3>2 DEF RouteInv
  <2> QED BY <2>1, <2>2, <2>3
<1>10. ASSUME NEW n, Settled(t, n), NEW f \in t.heap PROVE t.best[n] <= f.cost
  <2>1. n \in DOMAIN s.best /\ t.best[n] = s.best[n] /\ s.best[n] <= e.cost
    <3>1. CASE n = at
      BY <1>2, <1>3, <3>1
    <3>2. CASE Settled(s, n)
      BY <1>2, <3>2 DEF RouteInv, Settled
    <3> QED BY <1>2, <1>10, <3>1, <3>2
  <2>2. e.cost <= f.cost
    BY <1>1
  <2>3. s.best[n] \in Nat /\ e.cost \in Nat /\ f.cost \in Nat
    BY <1>0, <2>1
  <2> QED BY <2>1, <2>2, <2>3
<1>11. ASSUME NEW n, Settled(t, n), NEW k \in Links(edges, n)
       PROVE  k.to \in DOMAIN t.best /\ t.best[k.to] <= t.best[n] + Step(edges[k])
  <2>0. Step(edges[k]) \in Nat
    <3>1. k \in DOMAIN edges /\ edges[k] > 0
      BY DEF Links, OutEdges
    <3> QED BY <3>1, EdgesAre, StepIsNat
  <2>1. CASE Settled(s, n)
    <3>1. /\ k.to \in DOMAIN s.best /\ s.best[k.to] <= s.best[n] + Step(edges[k])
          /\ t.best[n] = s.best[n] /\ n \in DOMAIN s.best
      BY <1>2, <2>1 DEF RouteInv, Settled
    <3>2. k.to \in DOMAIN t.best /\ t.best[k.to] <= s.best[k.to]
      BY <1>4, <3>1
    <3>3. t.best[k.to] \in Nat /\ s.best[k.to] \in Nat /\ s.best[n] \in Nat
      BY <1>0, <3>1, <3>2
    <3> QED BY <2>0, <3>1, <3>2, <3>3
  <2>2. CASE n = at /\ ~ Settled(s, n)
    <3>1. GoesOn(edges, e, k) /\ t.best[n] = e.cost
      BY <1>2, <2>2 DEF GoesOn
    <3>2. CASE \E f \in pushed : f = Longer(edges, e, k)
      <4>1. PICK f \in pushed : f = Longer(edges, e, k)
        BY <3>2
      <4>2. f.cost = e.cost + Step(edges[k]) /\ Last(f.path) = k.to
        BY <1>0, <3>1, <4>1, LongerGoesOn
      <4> QED BY <1>1, <3>1, <4>2
    <3>3. CASE k.to \in DOMAIN s.best /\ s.best[k.to] <= e.cost + Step(edges[k])
      <4>1. k.to \in DOMAIN t.best /\ t.best[k.to] <= s.best[k.to]
        BY <1>4, <3>3
      <4>2. t.best[k.to] \in Nat /\ s.best[k.to] \in Nat /\ e.cost \in Nat
        BY <1>0, <3>3, <4>1
      <4> QED BY <2>0, <3>1, <3>3, <4>1, <4>2
    <3> QED BY <1>1, <3>1, <3>2, <3>3
  <2> QED BY <1>2, <1>11, <2>1, <2>2
<1> QED BY <1>5, <1>6, <1>7, <1>9, <1>10, <1>11 DEF RouteInv

-----------------------------------------------------------------------------
(* A round less is left: entries go, or edges whose start is settled.      *)

\* Edges a round may still follow, and a bound on the rounds to come.
Unseen(edges, s) == {k \in DOMAIN edges : ~ Settled(s, k.from)}
Left(edges, s) == Cardinality(s.heap) + Cardinality(Unseen(edges, s))

LEMMA LeftIsNat ==
  ASSUME NEW edges, IsFiniteSet(DOMAIN edges), NEW s \in RouteStates
  PROVE  /\ IsFiniteSet(s.heap) /\ IsFiniteSet(Unseen(edges, s)) /\ Left(edges, s) \in Nat
         /\ Cardinality(s.heap) \in Nat /\ Cardinality(Unseen(edges, s)) \in Nat
<1>1. Unseen(edges, s) \subseteq DOMAIN edges
  BY DEF Unseen
<1>2. IsFiniteSet(s.heap) /\ IsFiniteSet(Unseen(edges, s))
  BY <1>1, RouteParts, FS_Subset
<1> QED BY <1>2, FS_CardinalityType DEF Left

\* The bound falls with every round: pushes are paid by the edges they follow.
LEMMA PopLeavesLess ==
  ASSUME NEW edges \in Partial(Keys), IsFiniteSet(DOMAIN edges), NEW src, NEW dst, NEW walks,
         NEW s \in RouteStates, RouteInv(s, edges, src, dst, walks),
         NEW e \in s.heap, \A f \in s.heap : e.cost <= f.cost,
         NEW t \in RouteStates, Pops(s, t, edges, e, PushedBy(edges, e, s.best))
  PROVE  Left(edges, t) + 1 <= Left(edges, s)
<1> DEFINE at == Last(e.path)
           P == Pushed(edges, e, s.best)
           pushed == PushedBy(edges, e, s.best)
<1>1. /\ \A n : Settled(s, n) => Settled(t, n)
      /\ Settled(s, at) => pushed = {}
      /\ Settled(t, at)
  BY PopSettles
<1>2. t.heap = (s.heap \ {e}) \cup pushed
  BY DEF Pops
<1>3. \A k \in P : k \in DOMAIN edges /\ k.from = at
  BY DEF Pushed, Links, OutEdges
<1>4. P # {} => pushed # {}
  BY DEF PushedBy
<1>5. P \subseteq Unseen(edges, s) /\ Unseen(edges, t) \subseteq Unseen(edges, s) \ P
  BY <1>1, <1>3, <1>4 DEF Unseen
<1>6. IsFiniteSet(pushed) /\ IsFiniteSet(P) /\ Cardinality(pushed) <= Cardinality(P)
  BY PushedFinite
<1> DEFINE U == Unseen(edges, s)
           V == Unseen(edges, t)
           H == s.heap
<1>7. IsFiniteSet(H) /\ IsFiniteSet(U) /\ IsFiniteSet(V) /\ IsFiniteSet(t.heap)
  BY LeftIsNat
<1> HIDE DEF P, pushed, U, V, H
<1>8. IsFiniteSet(H \ {e}) /\ Cardinality(H \ {e}) = Cardinality(H) - 1
  BY <1>7, FS_RemoveElement DEF H
<1>9. Cardinality(t.heap) <= Cardinality(H) - 1 + Cardinality(pushed)
  <2>1. Cardinality((H \ {e}) \cup pushed) =
          Cardinality(H \ {e}) + Cardinality(pushed) - Cardinality((H \ {e}) \cap pushed)
    BY <1>6, <1>8, FS_Union
  <2>2. Cardinality((H \ {e}) \cap pushed) \in Nat
    BY <1>8, FS_Intersection, FS_CardinalityType
  <2>3. t.heap = (H \ {e}) \cup pushed
    BY <1>2 DEF H
  <2>4. Cardinality(H) \in Nat /\ Cardinality(pushed) \in Nat
    BY <1>6, <1>7, FS_CardinalityType
  <2> QED BY <1>8, <2>1, <2>2, <2>3, <2>4
<1>10. Cardinality(V) <= Cardinality(U) - Cardinality(P)
  <2>1. V \subseteq U \ P /\ P \subseteq U
    BY <1>5 DEF U, V
  <2>2. U \cap P = P
    BY <2>1
  <2>3. IsFiniteSet(U \ P) /\ Cardinality(U \ P) = Cardinality(U) - Cardinality(P)
    BY <1>7, <2>2, FS_Difference
  <2>4. Cardinality(V) <= Cardinality(U \ P)
    <3> DEFINE rest == U \ P
    <3>1. IsFiniteSet(rest) /\ V \in SUBSET rest
      BY <2>1, <2>3
    <3> HIDE DEF rest
    <3>2. Cardinality(V) <= Cardinality(rest)
      BY <3>1, FS_Subset
    <3> QED BY <3>2 DEF rest
  <2> QED BY <2>3, <2>4
<1>11. /\ Cardinality(H) \in Nat /\ Cardinality(U) \in Nat /\ Cardinality(V) \in Nat
       /\ Cardinality(P) \in Nat /\ Cardinality(pushed) \in Nat /\ Cardinality(t.heap) \in Nat
  BY <1>6, <1>7, FS_CardinalityType
<1>12. Cardinality(t.heap) + Cardinality(V) + 1 <= Cardinality(H) + Cardinality(U)
  BY <1>6, <1>9, <1>10, <1>11
<1> QED BY <1>11, <1>12 DEF Left, U, V, H

\* One round, and what a loop of them is.
RoundOfRoute(edges, dst, s) == IF Over(s) THEN s ELSE PopCheapest(edges, dst, s)

LEMMA ArrivedRoute ==
  ASSUME NEW edges, NEW dst, NEW s \in RouteStates, s.heap # {}, Last(Cheapest(s.heap).path) = dst
  PROVE  /\ PopCheapest(edges, dst, s).heap = s.heap
         /\ PopCheapest(edges, dst, s).best = s.best
         /\ PopCheapest(edges, dst, s).answer = Cheapest(s.heap).path
         /\ PopCheapest(edges, dst, s) \in RouteStates
<1> DEFINE e == Cheapest(s.heap)
           t == PopCheapest(edges, dst, s)
<1>1. t = [s EXCEPT !.answer = e.path]
  BY DEF PopCheapest
<1>2. s = [heap |-> s.heap, best |-> s.best, answer |-> s.answer]
  BY DEF RouteStates
<1>3. e.path \in Seq(NodeIds)
  <2>1. e \in s.heap /\ s.heap \subseteq Entries
    BY RouteParts, CheapestIsLeast
  <2> HIDE DEF e
  <2> QED BY <2>1, EntryEnds
<1> HIDE DEF e, t
<1>4. t = [heap |-> s.heap, best |-> s.best, answer |-> e.path]
  BY <1>1, <1>2
<1>5. t \in RouteStates
  BY <1>3, <1>4, RouteParts, RouteOf
<1> QED BY <1>4, <1>5 DEF e, t

LEMMA RouteRoundTyped ==
  ASSUME NEW edges \in Partial(Keys), IsFiniteSet(DOMAIN edges), NEW dst, NEW s \in RouteStates
  PROVE  RoundOfRoute(edges, dst, s) \in RouteStates
<1>1. CASE Over(s)
  BY <1>1 DEF RoundOfRoute
<1>2. CASE ~ Over(s) /\ Last(Cheapest(s.heap).path) = dst
  BY <1>2, ArrivedRoute DEF RoundOfRoute, Over
<1>3. CASE ~ Over(s) /\ Last(Cheapest(s.heap).path) # dst
  BY <1>3, PopTyped DEF RoundOfRoute, Over
<1> QED BY <1>1, <1>2, <1>3

LEMMA RouteRounds ==
  ASSUME NEW edges \in Partial(Keys), IsFiniteSet(DOMAIN edges), NEW src \in NodeIds, NEW dst
  PROVE  /\ Route(edges, src, dst)[0] = RouteStart(src)
         /\ \A r \in Nat : /\ Route(edges, src, dst)[r] \in RouteStates
                           /\ Route(edges, src, dst)[r + 1] =
                                RoundOfRoute(edges, dst, Route(edges, src, dst)[r])
<1> DEFINE S == RouteStates
           x == RouteStart(src)
           step == [s \in S |-> RoundOfRoute(edges, dst, s)]
           Is(f) == f = [r \in Nat |-> IF r = 0 THEN x ELSE RoundOfRoute(edges, dst, f[r - 1])]
           f == CHOOSE g : Is(g)
<1>1. x \in S /\ step \in [S -> S]
  <2>1. x \in S
    <3>1. [n \in {src} |-> 0] \in Numbered
      BY FunctionNumbered
    <3>2. IsFiniteSet({AtHome(src)}) /\ {AtHome(src)} \subseteq Entries
      BY FS_Singleton, HomeIsEntry
    <3>3. <<>> \in Seq(NodeIds)
      BY EmptySeq
    <3> QED BY <3>1, <3>2, <3>3, RouteOf DEF RouteStart
  <2> QED BY <2>1, RouteRoundTyped
<1>2. PICK g : Loops(g, S, step, x)
  <2> HIDE DEF S, step, x
  <2> QED BY <1>1, RoundsExist
<1>3. Is(g)
  <2> HIDE DEF x
  <2>1. \A r \in Nat : r # 0 => g[r - 1] \in S
    <3> HIDE DEF S, step
    <3> QED BY <1>2 DEF Loops
  <2>2. \A r \in Nat : g[r] = IF r = 0 THEN x ELSE RoundOfRoute(edges, dst, g[r - 1])
    <3> HIDE DEF S
    <3> QED BY <1>2, <2>1 DEF Loops
  <2> HIDE DEF S
  <2> QED BY <1>2, <2>2 DEF Loops
<1>4. Is(f)
  <2> HIDE DEF Is
  <2> QED BY <1>3
<1>5. f[0] = x /\ \A r \in Nat : f[r + 1] = RoundOfRoute(edges, dst, f[r])
  <2> HIDE DEF f, x
  <2>1. \A r \in Nat : f[r] = IF r = 0 THEN x ELSE RoundOfRoute(edges, dst, f[r - 1])
    BY <1>4
  <2>2. \A r \in Nat : (r + 1) - 1 = r /\ r + 1 \in Nat /\ r + 1 # 0
    OBVIOUS
  <2> QED BY <2>1, <2>2
<1>6. Route(edges, src, dst) = f
  BY DEF Route, RouteStart, RoundOfRoute, Over
<1> HIDE DEF f
<1>7. \A r \in Nat : f[r] \in S
  <2> DEFINE T == {r \in Nat : f[r] \in S}
  <2> HIDE DEF S, x
  <2>1. 0 \in T
    BY <1>1, <1>5
  <2>2. \A r \in Nat : r \in T => r + 1 \in T
    BY <1>5, RouteRoundTyped DEF S
  <2>3. Nat \subseteq T
    <3> HIDE DEF T
    <3> QED BY <2>1, <2>2, AllNumbers
  <2> QED BY <2>3
<1> QED BY <1>5, <1>6, <1>7

\* After r rounds: the search is over, or less than r is left of it; the
\* answer, if there is one, is the cheapest way.
RouteIsRight(s, r, most, edges, src, dst, walks) ==
  /\ RouteInv(s, edges, src, dst, walks)
  /\ Over(s) \/ Left(edges, s) + r <= most
  /\ s.answer # <<>> => \E e \in Entries : e.path = s.answer /\ Optimal(walks, dst, e)

LEMMA RoundKeepsRoute ==
  ASSUME NEW edges \in Partial(Keys), IsFiniteSet(DOMAIN edges), NEW src \in NodeIds, NEW dst,
         NEW walks, WalksAre(walks, edges, src), NEW s \in RouteStates,
         NEW r \in Nat, NEW most \in Nat,
         RouteIsRight(s, r, most, edges, src, dst, walks)
  PROVE  RouteIsRight(RoundOfRoute(edges, dst, s), r + 1, most, edges, src, dst, walks)
<1> DEFINE t == RoundOfRoute(edges, dst, s)
           e == Cheapest(s.heap)
<1>1. CASE Over(s)
  BY <1>1 DEF RoundOfRoute, RouteIsRight
<1>2. CASE ~ Over(s) /\ Last(e.path) = dst
  <2>1. t = PopCheapest(edges, dst, s) /\ s.heap # {}
    BY <1>2 DEF RoundOfRoute, Over
  <2>2. t.heap = s.heap /\ t.best = s.best /\ t.answer = e.path
    <3> DEFINE u == PopCheapest(edges, dst, s)
    <3>1. u.heap = s.heap /\ u.best = s.best /\ u.answer = e.path
      BY <1>2, <2>1, ArrivedRoute
    <3> HIDE DEF t, u, e
    <3> QED BY <2>1, <3>1 DEF u
  <2>3. RouteInv(t, edges, src, dst, walks)
    BY <2>2 DEF RouteIsRight, RouteInv, Settled
  <2>4. e \in Entries /\ e.path # <<>>
    <3>1. e \in s.heap /\ s.heap \subseteq Entries
      BY <2>1, RouteParts, CheapestIsLeast
    <3> HIDE DEF e
    <3> QED BY <3>1, EntryEnds
  <2>5. Optimal(walks, dst, e)
    BY <1>2, <2>1, AnswerIsOptimal DEF RouteIsRight
  <2> HIDE DEF t, e
  <2>6. Over(t)
    BY <2>2, <2>4 DEF Over
  <2>7. RouteIsRight(t, r + 1, most, edges, src, dst, walks)
    BY <2>2, <2>3, <2>4, <2>5, <2>6 DEF RouteIsRight
  <2> QED BY <2>7 DEF t
<1>3. CASE ~ Over(s) /\ Last(e.path) # dst
  <2>1. t = PopCheapest(edges, dst, s) /\ s.heap # {} /\ s.answer = <<>>
    BY <1>3 DEF RoundOfRoute, Over
  <2> DEFINE pushed == PushedBy(edges, e, s.best)
  <2>2. t \in RouteStates /\ Pops(s, t, edges, e, pushed)
    BY <1>3, <2>1, PopTyped
  <2>3. e \in s.heap /\ \A f \in s.heap : e.cost <= f.cost
    <3>1. s.heap \subseteq Entries
      BY RouteParts
    <3> QED BY <2>1, <3>1, CheapestIsLeast
  <2> HIDE DEF t, e
  <2>4. RouteInv(t, edges, src, dst, walks)
    BY <1>3, <2>2, <2>3, PopKeeps DEF RouteIsRight
  <2>5. Left(edges, t) + 1 <= Left(edges, s)
    BY <2>2, <2>3, PopLeavesLess DEF RouteIsRight
  <2>6. Left(edges, s) \in Nat /\ Left(edges, t) \in Nat
    BY <2>2, LeftIsNat
  <2>7. Left(edges, s) + r <= most
    BY <1>3 DEF RouteIsRight
  <2>8. Left(edges, t) + (r + 1) <= most
    BY <2>5, <2>6, <2>7
  <2>9. t.answer = <<>>
    BY <2>1, <2>2 DEF Pops
  <2>10. RouteIsRight(t, r + 1, most, edges, src, dst, walks)
    BY <2>4, <2>8, <2>9 DEF RouteIsRight
  <2> QED BY <2>10 DEF t
<1> QED BY <1>1, <1>2, <1>3

\* shortest_path() answers the cheapest way of any graph with finitely many
\* edges, and [] only when there is none (query.py:56-75).
THEOREM ShortestPathRight ==
  ASSUME NEW edges \in Partial(Keys), IsFiniteSet(DOMAIN edges), NEW src \in NodeIds,
         NEW dst \in NodeIds, NEW most \in Nat
  PROVE  PathIsShortest(edges, src, dst, most)
<1> DEFINE walks == WalksFrom(edges, src)
           route == Route(edges, src, dst)
           last  == Cardinality(DOMAIN edges) + 1
           T     == {r \in Nat : RouteIsRight(route[r], r, last, edges, src, dst, walks)}
<1>1. WalksAre(walks, edges, src)
  BY WalkRounds
<1>2. /\ route[0] = RouteStart(src)
      /\ \A r \in Nat : /\ route[r] \in RouteStates
                        /\ route[r + 1] = RoundOfRoute(edges, dst, route[r])
  BY RouteRounds
<1>3. Cardinality(DOMAIN edges) \in Nat /\ last \in Nat
  BY FS_CardinalityType
<1>4. PathIsShortest(edges, src, dst, most) <=>
        IF route[last].answer = <<>>
        THEN \A h \in 0..most : {e \in walks[h] : Last(e.path) = dst} = {}
        ELSE \E e \in {f \in walks[Len(route[last].answer) - 1] : Last(f.path) = dst} :
               /\ e.path = route[last].answer
               /\ \A h \in 0..most :
                     \A f \in {g \in walks[h] : Last(g.path) = dst} : e.cost <= f.cost
  BY DEF PathIsShortest, ShortestPath
<1> HIDE DEF walks, route
<1>5. 0 \in T
  <2> DEFINE s == RouteStart(src)
  <2>1. s \in RouteStates /\ RouteInv(s, edges, src, dst, walks)
    BY <1>1, StartIsRoute
  <2>2. Left(edges, s) + 0 <= last
    <3>1. Unseen(edges, s) \in SUBSET (DOMAIN edges)
      BY DEF Unseen
    <3>2. Cardinality(Unseen(edges, s)) <= Cardinality(DOMAIN edges)
      BY <3>1, FS_Subset
    <3>3. s.heap = {AtHome(src)} /\ Cardinality({AtHome(src)}) = 1
      BY FS_Singleton DEF RouteStart
    <3>4. Cardinality(Unseen(edges, s)) \in Nat
      BY <2>1, LeftIsNat
    <3> HIDE DEF s
    <3> QED BY <1>3, <3>2, <3>3, <3>4 DEF Left
  <2>3. s.answer = <<>>
    BY DEF RouteStart
  <2> HIDE DEF s, last
  <2>4. RouteIsRight(s, 0, last, edges, src, dst, walks)
    BY <2>1, <2>2, <2>3 DEF RouteIsRight
  <2> QED BY <1>2, <2>4 DEF s
<1> HIDE DEF last
<1>6. ASSUME NEW r \in Nat, r \in T PROVE r + 1 \in T
  <2>1. RouteIsRight(route[r], r, last, edges, src, dst, walks) /\ route[r] \in RouteStates
    BY <1>2, <1>6
  <2>2. RouteIsRight(RoundOfRoute(edges, dst, route[r]), r + 1, last, edges, src, dst, walks)
    BY <1>1, <1>3, <2>1, RoundKeepsRoute
  <2> QED BY <1>2, <2>2
<1> DEFINE s == route[last]
<1>7. RouteIsRight(s, last, last, edges, src, dst, walks) /\ s \in RouteStates
  <2>1. Nat \subseteq T
    <3> HIDE DEF T
    <3> QED BY <1>5, <1>6, AllNumbers
  <2> QED BY <1>2, <1>3, <2>1
<1> HIDE DEF s, T
<1>8. Over(s)
  <2>1. SUFFICES ASSUME Left(edges, s) + last <= last PROVE s.heap = {}
    BY <1>7 DEF RouteIsRight, Over
  <2>2. /\ IsFiniteSet(s.heap) /\ Left(edges, s) \in Nat
        /\ Cardinality(s.heap) \in Nat /\ Cardinality(Unseen(edges, s)) \in Nat
    BY <1>7, LeftIsNat
  <2>3. Cardinality(s.heap) = 0
    BY <1>3, <2>1, <2>2 DEF Left
  <2> QED BY <2>2, <2>3, FS_EmptySet
<1>9. CASE s.answer = <<>>
  <2>1. \A h \in Nat : \A w \in walks[h] : Last(w.path) # dst
    BY <1>1, <1>7, <1>8, <1>9, NoneWhenHeapIsEmpty DEF RouteIsRight, Over
  <2>2. \A h \in 0..most : {e \in walks[h] : Last(e.path) = dst} = {}
    BY <2>1
  <2> QED BY <1>4, <1>9, <2>2 DEF s
<1>10. CASE s.answer # <<>>
  <2>1. PICK e \in Entries : e.path = s.answer /\ Optimal(walks, dst, e)
    BY <1>7, <1>10 DEF RouteIsRight
  <2>2. e \in {f \in walks[Len(s.answer) - 1] : Last(f.path) = dst}
    BY <2>1 DEF Optimal
  <2>3. \A h \in 0..most : \A f \in {g \in walks[h] : Last(g.path) = dst} : e.cost <= f.cost
    BY <2>1 DEF Optimal
  <2> QED BY <1>4, <1>10, <2>1, <2>2, <2>3 DEF s
<1> QED BY <1>9, <1>10

-----------------------------------------------------------------------------
(* propagate().                                                            *)

\* Parts is never 0.
LEMMA PartsAre == \A h \in Nat : Parts[h] \in Nat \ {0}
<1> DEFINE S == Nat \ {0}
           step == [p \in S |-> HopDecay[2] * p]
           Is(f) == f = [h \in Nat |-> IF h = 0 THEN 1 ELSE HopDecay[2] * f[h - 1]]
           f == CHOOSE g : Is(g)
<1>1. HopDecay[2] \in S
  BY DecayAssumption
<1>2. \A p \in S : HopDecay[2] * p \in S
  BY <1>1
<1>3. 1 \in S /\ step \in [S -> S]
  BY <1>2
<1>4. PICK g : Loops(g, S, step, 1)
  <2> HIDE DEF S, step
  <2> QED BY <1>3, RoundsExist
<1>5. Is(g)
  <2>1. \A h \in Nat : h # 0 => g[h - 1] \in S
    <3> HIDE DEF S, step
    <3> QED BY <1>4 DEF Loops
  <2>2. \A h \in Nat : g[h] = IF h = 0 THEN 1 ELSE HopDecay[2] * g[h - 1]
    <3> HIDE DEF S
    <3> QED BY <1>4, <2>1 DEF Loops
  <2> HIDE DEF S
  <2> QED BY <1>4, <2>2 DEF Loops
<1>6. Is(f)
  <2> HIDE DEF Is
  <2> QED BY <1>5
<1>7. f[0] = 1 /\ \A h \in Nat : f[h + 1] = HopDecay[2] * f[h]
  <2> HIDE DEF f
  <2>1. \A h \in Nat : f[h] = IF h = 0 THEN 1 ELSE HopDecay[2] * f[h - 1]
    BY <1>6
  <2>2. \A h \in Nat : (h + 1) - 1 = h /\ h + 1 \in Nat /\ h + 1 # 0
    OBVIOUS
  <2> QED BY <2>1, <2>2
<1>8. Parts = f
  BY DEF Parts
<1> HIDE DEF f
<1>9. \A h \in Nat : f[h] \in S
  <2> DEFINE T == {h \in Nat : f[h] \in S}
  <2>1. 0 \in T
    BY <1>7
  <2>2. \A h \in Nat : h \in T => h + 1 \in T
    <3> HIDE DEF S
    <3> QED BY <1>2, <1>7
  <2>3. Nat \subseteq T
    <3> HIDE DEF T
    <3> QED BY <2>1, <2>2, AllNumbers
  <2> QED BY <2>3
<1> QED BY <1>8, <1>9

\* The edges that lead to m, and what they carry there.
Into(edges, m) == {k \in DOMAIN edges : k.to = m}
Loads(edges, x) == [k \in DOMAIN edges |-> Decayed(edges, k, x[k.from])]

LEMMA DecayedIsNat ==
  ASSUME NEW edges \in Partial(Keys), NEW k \in DOMAIN edges, NEW x \in Nat
  PROVE  /\ Decayed(edges, k, x) \in Nat
         /\ edges[k] = 0 => Decayed(edges, k, x) = 0
         /\ edges[k] > 0 /\ x > 0 => Decayed(edges, k, x) > 0
         /\ edges[k] * HopDecay[1] \in Nat
         /\ Decayed(edges, k, x) = (edges[k] * HopDecay[1]) * x
<1> DEFINE w == edges[k]
           d == HopDecay[1]
<1>1. w \in Nat /\ d \in Nat \ {0}
  BY EdgesAre, DecayAssumption
<1>2. Decayed(edges, k, x) = x * w * d
  BY DEF Decayed
<1> HIDE DEF w, d
<1>3. x * w \in Nat /\ x * w * d \in Nat /\ w * d \in Nat /\ x * w * d = (w * d) * x
  BY <1>1
<1>4. w = 0 => x * w * d = 0
  BY <1>1
<1>5. w > 0 /\ x > 0 => x * w > 0
  BY <1>1
<1>6. w > 0 /\ x > 0 => x * w * d > 0
  <2> DEFINE y == x * w
  <2>1. y \in Nat /\ (w > 0 /\ x > 0 => y > 0)
    BY <1>3, <1>5
  <2> HIDE DEF y
  <2>2. y > 0 => y * d > 0
    BY <1>1, <2>1
  <2> QED BY <2>1, <2>2 DEF y
<1> QED BY <1>2, <1>3, <1>4, <1>6 DEF w, d

LEMMA CarriedTyped ==
  ASSUME NEW edges \in Partial(Keys), IsFiniteSet(DOMAIN edges), NEW x \in [NodeIds -> Nat]
  PROVE  /\ Carried(edges, x) \in [NodeIds -> Nat]
         /\ \A m \in NodeIds :
               Carried(edges, x)[m] = SumFunctionOnSet(Loads(edges, x), Into(edges, m))
<1>1. ASSUME NEW m \in NodeIds
      PROVE  SumFunctionOnSet(Loads(edges, x), Into(edges, m)) \in Nat
  <2>1. Into(edges, m) \subseteq DOMAIN edges
    BY DEF Into
  <2>2. IsFiniteSet(Into(edges, m))
    BY <2>1, FS_Subset
  <2>3. \A k \in Into(edges, m) : Loads(edges, x)[k] \in Nat
    <3>1. ASSUME NEW k \in Into(edges, m) PROVE Loads(edges, x)[k] \in Nat
      <4>1. k \in DOMAIN edges /\ x[k.from] \in Nat
        BY <2>1, EdgesAre
      <4> QED BY <4>1, DecayedIsNat DEF Loads
    <3> QED BY <3>1
  <2> QED BY <2>2, <2>3, SumIsNat
<1>2. Carried(edges, x) = [m \in NodeIds |-> SumFunctionOnSet(Loads(edges, x), Into(edges, m))]
  BY DEF Carried, Loads, Into
<1> QED BY <1>1, <1>2

\* What no hop brings: 1 to the source.
AtSource(n) == [m \in NodeIds |-> IF m = n THEN 1 ELSE 0]

LEMMA BroughtRounds ==
  ASSUME NEW edges \in Partial(Keys), IsFiniteSet(DOMAIN edges), NEW n \in NodeIds
  PROVE  /\ Brought(edges, n)[0] = AtSource(n)
         /\ \A h \in Nat : /\ Brought(edges, n)[h] \in [NodeIds -> Nat]
                           /\ Brought(edges, n)[h + 1] = Carried(edges, Brought(edges, n)[h])
<1> DEFINE S == [NodeIds -> Nat]
           x == AtSource(n)
           step == [y \in S |-> Carried(edges, y)]
           Is(f) == f = [h \in Nat |-> IF h = 0 THEN x ELSE Carried(edges, f[h - 1])]
           f == CHOOSE g : Is(g)
<1>1. x \in S /\ step \in [S -> S]
  BY CarriedTyped DEF AtSource
<1>2. PICK g : Loops(g, S, step, x)
  <2> HIDE DEF S, step, x
  <2> QED BY <1>1, RoundsExist
<1>3. Is(g)
  <2> HIDE DEF x
  <2>1. \A h \in Nat : h # 0 => g[h - 1] \in S
    <3> HIDE DEF S, step
    <3> QED BY <1>2 DEF Loops
  <2>2. \A h \in Nat : g[h] = IF h = 0 THEN x ELSE Carried(edges, g[h - 1])
    <3> HIDE DEF S
    <3> QED BY <1>2, <2>1 DEF Loops
  <2> HIDE DEF S
  <2> QED BY <1>2, <2>2 DEF Loops
<1>4. Is(f)
  <2> HIDE DEF Is
  <2> QED BY <1>3
<1>5. f[0] = x /\ \A h \in Nat : f[h + 1] = Carried(edges, f[h])
  <2> HIDE DEF f, x
  <2>1. \A h \in Nat : f[h] = IF h = 0 THEN x ELSE Carried(edges, f[h - 1])
    BY <1>4
  <2>2. \A h \in Nat : (h + 1) - 1 = h /\ h + 1 \in Nat /\ h + 1 # 0
    OBVIOUS
  <2> QED BY <2>1, <2>2
<1>6. Brought(edges, n) = f
  BY DEF Brought, AtSource
<1> HIDE DEF f
<1>7. \A h \in Nat : f[h] \in S
  <2> DEFINE T == {h \in Nat : f[h] \in S}
  <2> HIDE DEF x
  <2>1. 0 \in T
    BY <1>1, <1>5
  <2>2. \A h \in Nat : h \in T => h + 1 \in T
    BY <1>5, CarriedTyped
  <2>3. Nat \subseteq T
    <3> HIDE DEF T
    <3> QED BY <2>1, <2>2, AllNumbers
  <2> QED BY <2>3
<1> QED BY <1>5, <1>6, <1>7

-----------------------------------------------------------------------------
(* The entries of propagate(), depth by depth.                             *)

Contributions == [way : Seq(Keys), at : NodeIds, influence : Nat \ {0}]
SpreadStates == [left : Nat, entries : {E \in SUBSET Contributions : IsFiniteSet(E)},
                 scores : Numbered]

LEMMA SpreadParts ==
  ASSUME NEW s \in SpreadStates
  PROVE  /\ s.left \in Nat /\ s.entries \subseteq Contributions /\ IsFiniteSet(s.entries)
         /\ s.scores \in Numbered /\ DOMAIN s.scores \subseteq NodeIds
         /\ \A m \in DOMAIN s.scores : s.scores[m] \in Nat
<1>1. /\ s.left \in Nat /\ s.entries \subseteq Contributions
      /\ IsFiniteSet(s.entries) /\ s.scores \in Numbered
  BY DEF SpreadStates
<1>2. DOMAIN s.scores \subseteq NodeIds /\ s.scores \in [DOMAIN s.scores -> Nat]
  BY <1>1, NumberedFunction
<1> QED BY <1>1, <1>2

LEMMA SpreadOf ==
  ASSUME NEW left \in Nat, NEW entries, entries \subseteq Contributions, IsFiniteSet(entries),
         NEW scores \in Numbered
  PROVE  [left |-> left, entries |-> entries, scores |-> scores] \in SpreadStates
  BY DEF SpreadStates

LEMMA ContributedTyped ==
  ASSUME NEW edges \in Partial(Keys), NEW e \in Contributions, NEW k \in Links(edges, e.at)
  PROVE  /\ k \in DOMAIN edges /\ k.from = e.at /\ edges[k] > 0
         /\ Contributed(edges, e, k) \in Contributions
         /\ Contributed(edges, e, k).way = Append(e.way, k)
         /\ Contributed(edges, e, k).at = k.to
         /\ Contributed(edges, e, k).influence = Decayed(edges, k, e.influence)
         /\ Last(Contributed(edges, e, k).way) = k
<1> DEFINE way == Append(e.way, k)
           i   == Decayed(edges, k, e.influence)
<1>1. k \in DOMAIN edges /\ k.from = e.at /\ edges[k] > 0
  BY DEF Links, OutEdges
<1>2. k \in Keys /\ k.to \in NodeIds
  BY <1>1, EdgesAre
<1>3. e.way \in Seq(Keys) /\ e.influence \in Nat /\ e.influence > 0
  BY DEF Contributions
<1>4. way \in Seq(Keys) /\ Last(way) = k
  BY <1>2, <1>3 DEF Last
<1>5. i \in Nat \ {0}
  BY <1>1, <1>3, DecayedIsNat
<1> HIDE DEF way, i
<1>6. Contributed(edges, e, k) = [way |-> way, at |-> k.to, influence |-> i]
  BY DEF Contributed, way, i
<1>7. Contributed(edges, e, k) \in Contributions
  BY <1>2, <1>4, <1>5, <1>6 DEF Contributions
<1> QED BY <1>1, <1>4, <1>6, <1>7 DEF way, i

\* What the entries contribute, one depth further.
NextEntries(edges, E) == UNION {{Contributed(edges, e, k) : k \in Links(edges, e.at)} : e \in E}

LEMMA NextEntriesAre ==
  ASSUME NEW edges \in Partial(Keys), IsFiniteSet(DOMAIN edges),
         NEW E, E \subseteq Contributions, IsFiniteSet(E)
  PROVE  /\ \A f : f \in NextEntries(edges, E) <=>
                     \E e \in E : \E k \in Links(edges, e.at) : f = Contributed(edges, e, k)
         /\ NextEntries(edges, E) \subseteq Contributions
         /\ IsFiniteSet(NextEntries(edges, E))
<1>1. \A f : f \in NextEntries(edges, E) <=>
               \E e \in E : \E k \in Links(edges, e.at) : f = Contributed(edges, e, k)
  BY DEF NextEntries
<1>2. NextEntries(edges, E) \subseteq Contributions
  BY <1>1, ContributedTyped
<1>3. IsFiniteSet(NextEntries(edges, E))
  <2> DEFINE S == E \X DOMAIN edges
             g == [p \in S |-> Contributed(edges, p[1], p[2])]
  <2>1. IsFiniteSet(S)
    BY FS_Product
  <2>2. ASSUME NEW f \in NextEntries(edges, E) PROVE f \in ImageOf(g, S)
    <3>1. PICK e \in E : \E k \in Links(edges, e.at) : f = Contributed(edges, e, k)
      BY <1>1
    <3>2. PICK k \in Links(edges, e.at) : f = Contributed(edges, e, k)
      BY <3>1
    <3>3. k \in DOMAIN edges
      BY DEF Links, OutEdges
    <3>4. <<e, k>> \in S /\ g[<<e, k>>] = f
      BY <3>2, <3>3
    <3> HIDE DEF g, S
    <3> QED BY <3>4 DEF ImageOf
  <2>3. IsFiniteSet(ImageOf(g, S))
    <3> HIDE DEF g, S
    <3> QED BY <2>1, FiniteImage
  <2> HIDE DEF g, S
  <2> QED BY <2>2, <2>3, FS_Subset
<1> QED BY <1>1, <1>2, <1>3

\* Ways that differ stay different however they go on.
LEMMA AppendKeepsApart ==
  ASSUME NEW S, NEW a \in Seq(S), NEW b \in Seq(S), NEW x \in S, NEW y \in S,
         Append(a, x) = Append(b, y)
  PROVE  a = b /\ x = y
<1> DEFINE c == Append(a, x)
<1>1. /\ Len(a) \in Nat /\ Len(c) = Len(a) + 1 /\ c[Len(a) + 1] = x
      /\ \A i \in 1..Len(a) : c[i] = a[i]
  OBVIOUS
<1>2. c = Append(b, y)
  OBVIOUS
<1> HIDE DEF c
<1>3. /\ Len(b) \in Nat /\ Len(c) = Len(b) + 1 /\ c[Len(b) + 1] = y
      /\ \A i \in 1..Len(b) : c[i] = b[i]
  BY <1>2
<1>4. Len(a) = Len(b)
  BY <1>1, <1>3
<1>5. a = b
  BY <1>1, <1>3, <1>4, SeqEqual
<1> QED BY <1>1, <1>3, <1>4, <1>5

\* What arrives at m.
Arriving(E, m) == {e \in E : e.at = m}
Influences(E) == [e \in E |-> e.influence]

\* No two entries came the same way.
NoneTwice(E) == \A e, f \in E : e.way = f.way => e = f

\* Each depth brings what the one before brought, decayed at every edge.
LEMMA NextBrings ==
  ASSUME NEW edges \in Partial(Keys), IsFiniteSet(DOMAIN edges),
         NEW E, E \subseteq Contributions, IsFiniteSet(E), NoneTwice(E), NEW x \in [NodeIds -> Nat],
         \A m \in NodeIds : SumFunctionOnSet(Influences(E), Arriving(E, m)) = x[m],
         NEW m \in NodeIds
  PROVE  SumFunctionOnSet(Influences(NextEntries(edges, E)), Arriving(NextEntries(edges, E), m))
           = Carried(edges, x)[m]
<1> DEFINE next == NextEntries(edges, E)
           S == Arriving(next, m)
           P == Into(edges, m)
           p == [f \in next |-> Last(f.way)]
           inf == Influences(next)
           loads == Loads(edges, x)
<1>1. /\ \A f : f \in next <=>
                 \E e \in E : \E k \in Links(edges, e.at) : f = Contributed(edges, e, k)
      /\ next \subseteq Contributions /\ IsFiniteSet(next)
  BY NextEntriesAre
<1> HIDE DEF next
<1>2. IsFiniteSet(S) /\ IsFiniteSet(P)
  <2>1. S \subseteq next /\ P \subseteq DOMAIN edges
    BY DEF Arriving, Into
  <2> HIDE DEF S, P
  <2> QED BY <1>1, <2>1, FS_Subset
<1>3. ASSUME NEW f \in S PROVE f \in next /\ p[f] \in P /\ inf[f] \in Int /\ inf[f] = f.influence
  <2>1. f \in next /\ f.at = m
    BY DEF Arriving
  <2>2. PICK e \in E : \E k \in Links(edges, e.at) : f = Contributed(edges, e, k)
    BY <1>1, <2>1
  <2>3. PICK k \in Links(edges, e.at) : f = Contributed(edges, e, k)
    BY <2>2
  <2>4. k \in DOMAIN edges /\ k.to = m /\ Last(f.way) = k
    BY <2>1, <2>3, ContributedTyped
  <2>5. f.influence \in Nat
    BY <1>1, <2>1 DEF Contributions
  <2> QED BY <2>1, <2>4, <2>5 DEF Into, Influences
<1>4. ASSUME NEW k \in P PROVE loads[k] = SumFunctionOnSet(inf, PartOf(p, S, k))
  <2> DEFINE from == Arriving(E, k.from)
             g == [e \in from |-> Contributed(edges, e, k)]
             c == edges[k] * HopDecay[1]
             h == [e \in from |-> Decayed(edges, k, e.influence)]
             old == Influences(E)
  <2>1. k \in DOMAIN edges /\ k.to = m /\ k.from \in NodeIds /\ x[k.from] \in Nat
    <3>1. k \in DOMAIN edges /\ k.to = m
      BY DEF Into
    <3> QED BY <3>1, EdgesAre
  <2>2. loads[k] = Decayed(edges, k, x[k.from])
    BY <2>1 DEF Loads
  <2>3. \A f : f \in PartOf(p, S, k) <=> f \in next /\ f.at = m /\ Last(f.way) = k
    BY DEF PartOf, Arriving
  <2>4. CASE edges[k] = 0
    <3>1. ASSUME NEW f \in PartOf(p, S, k) PROVE FALSE
      <4>1. f \in next /\ Last(f.way) = k
        BY <2>3
      <4>2. PICK e \in E : \E l \in Links(edges, e.at) : f = Contributed(edges, e, l)
        BY <1>1, <4>1
      <4>3. PICK l \in Links(edges, e.at) : f = Contributed(edges, e, l)
        BY <4>2
      <4>4. l = k /\ edges[l] > 0
        BY <4>1, <4>3, ContributedTyped
      <4> QED BY <2>4, <4>4
    <3>2. PartOf(p, S, k) = {}
      BY <3>1
    <3>3. Decayed(edges, k, x[k.from]) = 0
      BY <2>1, <2>4, DecayedIsNat
    <3> HIDE DEF p, S, inf, loads
    <3> QED BY <2>2, <3>2, <3>3, SumOfEmpty
  <2>5. CASE edges[k] > 0
    <3>1. from \subseteq E /\ IsFiniteSet(from)
      <4>1. from \subseteq E
        BY DEF Arriving
      <4> HIDE DEF from
      <4> QED BY <4>1, FS_Subset
    <3>2. ASSUME NEW e \in from
          PROVE  e \in Contributions /\ k \in Links(edges, e.at) /\ e.at = k.from
      BY <2>1, <2>5 DEF Arriving, Links, OutEdges
    <3>3. ASSUME NEW f \in PartOf(p, S, k) PROVE f \in ImageOf(g, from)
      <4>1. f \in next /\ Last(f.way) = k
        BY <2>3
      <4>2. PICK e \in E : \E l \in Links(edges, e.at) : f = Contributed(edges, e, l)
        BY <1>1, <4>1
      <4>3. PICK l \in Links(edges, e.at) : f = Contributed(edges, e, l)
        BY <4>2
      <4>4. l = k /\ k.from = e.at
        BY <4>1, <4>3, ContributedTyped
      <4>5. e \in from /\ g[e] = f
        BY <4>3, <4>4 DEF Arriving
      <4> HIDE DEF g, from
      <4> QED BY <4>5 DEF ImageOf
    <3>4. ASSUME NEW f \in ImageOf(g, from) PROVE f \in PartOf(p, S, k)
      <4>1. PICK e \in from : f = Contributed(edges, e, k)
        BY DEF ImageOf
      <4>2. f.at = k.to /\ Last(f.way) = k
        BY <3>2, <4>1, ContributedTyped
      <4>3. f \in next
        BY <1>1, <3>1, <3>2, <4>1
      <4> QED BY <2>1, <2>3, <4>2, <4>3
    <3>5. PartOf(p, S, k) = ImageOf(g, from)
      BY <3>3, <3>4
    <3>6. IsOneToOne(g, from)
      <4>1. ASSUME NEW e \in from, NEW f \in from, g[e] = g[f] PROVE e = f
        <5>1. Append(e.way, k) = Append(f.way, k)
          <6>1. Contributed(edges, e, k) = Contributed(edges, f, k)
            BY <4>1
          <6>2. /\ Contributed(edges, e, k).way = Append(e.way, k)
                /\ Contributed(edges, f, k).way = Append(f.way, k)
            BY <3>2, ContributedTyped
          <6> QED BY <6>1, <6>2
        <5>2. e.way \in Seq(Keys) /\ f.way \in Seq(Keys) /\ k \in Keys
          BY <2>1, <3>2, EdgesAre DEF Contributions
        <5> DEFINE v == e.way
                   w == f.way
        <5>3. v \in Seq(Keys) /\ w \in Seq(Keys) /\ Append(v, k) = Append(w, k)
          BY <5>1, <5>2
        <5> HIDE DEF v, w
        <5>4. v = w
          BY <5>2, <5>3, AppendKeepsApart
        <5> QED BY <3>1, <5>4 DEF NoneTwice, v, w
      <4> HIDE DEF g, from
      <4> QED BY <4>1 DEF IsOneToOne
    <3>7. Composes(h, inf, g, from)
      <4>1. ASSUME NEW e \in from PROVE h[e] = inf[g[e]] /\ h[e] \in Int
        <5>1. g[e] \in next
          BY <1>1, <3>1, <3>2
        <5>2. inf[g[e]] = Decayed(edges, k, e.influence)
          BY <3>2, <5>1, ContributedTyped DEF Influences
        <5>3. e.influence \in Nat
          BY <3>2 DEF Contributions
        <5>4. Decayed(edges, k, e.influence) \in Int
          BY <2>1, <5>3, DecayedIsNat
        <5> QED BY <5>2, <5>4
      <4> HIDE DEF h, inf, g, from
      <4> QED BY <4>1 DEF Composes
    <3>8. Scales(h, c, old, from) /\ c \in Nat
      <4>1. ASSUME NEW e \in from PROVE old[e] \in Nat /\ h[e] = c * old[e] /\ c \in Nat
        <5>1. old[e] = e.influence /\ e.influence \in Nat
          BY <3>1, <3>2 DEF Influences, Contributions
        <5>2. Decayed(edges, k, e.influence) = c * e.influence /\ c \in Nat
          BY <2>1, <5>1, DecayedIsNat
        <5> QED BY <5>1, <5>2
      <4>2. c \in Nat
        BY <2>1, DecayedIsNat
      <4> HIDE DEF h, c, old, from
      <4> QED BY <4>1, <4>2 DEF Scales
    <3>9. SumFunctionOnSet(old, from) = x[k.from]
      BY <2>1
    <3>10. Decayed(edges, k, x[k.from]) = c * x[k.from]
      BY <2>1, DecayedIsNat
    <3> HIDE DEF from, g, c, h, old, inf, p, S, loads
    <3>11. SumFunctionOnSet(inf, ImageOf(g, from)) = SumFunctionOnSet(h, from)
      BY <3>1, <3>6, <3>7, SumOfImage
    <3>12. SumFunctionOnSet(h, from) = c * SumFunctionOnSet(old, from)
      BY <3>1, <3>8, SumScaled
    <3> QED BY <2>2, <3>5, <3>9, <3>10, <3>11, <3>12
  <2>6. edges[k] \in Nat
    BY <2>1, EdgesAre
  <2> QED BY <2>4, <2>5, <2>6
<1>5. SumFunctionOnSet(loads, P) = SumFunctionOnSet(inf, S)
  <2>1. AddsParts(loads, inf, p, S, P)
    <3> HIDE DEF loads, inf, p, S, P
    <3> QED BY <1>4 DEF AddsParts
  <2> HIDE DEF loads, inf, p, S, P
  <2> QED BY <1>2, <1>3, <2>1, SumByParts
<1>6. Carried(edges, x)[m] = SumFunctionOnSet(loads, P)
  BY CarriedTyped
<1> HIDE DEF loads, P
<1> QED BY <1>5, <1>6 DEF next

LEMMA ArrivingFinite ==
  ASSUME NEW E, E \subseteq Contributions, IsFiniteSet(E), NEW m
  PROVE  /\ IsFiniteSet(Arriving(E, m)) /\ Arriving(E, m) \subseteq E
         /\ \A e \in Arriving(E, m) : Influences(E)[e] = e.influence /\ e.influence \in Nat \ {0}
         /\ SumFunctionOnSet(Influences(E), Arriving(E, m)) \in Nat
         /\ SumFunctionOnSet(Influences(E), Arriving(E, m)) > 0 <=> \E e \in E : e.at = m
<1>1. Arriving(E, m) \subseteq E
  BY DEF Arriving
<1>2. IsFiniteSet(Arriving(E, m))
  BY <1>1, FS_Subset
<1>3. \A e \in Arriving(E, m) : Influences(E)[e] = e.influence /\ e.influence \in Nat \ {0}
  BY <1>1 DEF Influences, Contributions
<1>4. /\ SumFunctionOnSet(Influences(E), Arriving(E, m)) \in Nat
      /\ SumFunctionOnSet(Influences(E), Arriving(E, m)) > 0
           <=> \E e \in Arriving(E, m) : Influences(E)[e] > 0
  BY <1>2, <1>3, SumIsNat
<1>5. (\E e \in Arriving(E, m) : Influences(E)[e] > 0) <=> \E e \in E : e.at = m
  BY <1>3 DEF Arriving
<1> QED BY <1>1, <1>2, <1>3, <1>4, <1>5

\* In parts of the whole.
InParts(E, c) == [e \in E |-> e.influence * c]

LEMMA ArrivingInParts ==
  ASSUME NEW E, E \subseteq Contributions, IsFiniteSet(E), NEW c \in Nat, NEW m
  PROVE  SumFunctionOnSet(InParts(E, c), Arriving(E, m)) =
           c * SumFunctionOnSet(Influences(E), Arriving(E, m))
<1>1. /\ IsFiniteSet(Arriving(E, m)) /\ Arriving(E, m) \subseteq E
      /\ \A e \in Arriving(E, m) : Influences(E)[e] = e.influence /\ e.influence \in Nat \ {0}
  BY ArrivingFinite
<1>2. Scales(InParts(E, c), c, Influences(E), Arriving(E, m))
  <2>1. ASSUME NEW e \in Arriving(E, m)
        PROVE  Influences(E)[e] \in Nat /\ InParts(E, c)[e] = c * Influences(E)[e]
    <3>1. InParts(E, c)[e] = e.influence * c
      BY <1>1 DEF InParts
    <3> DEFINE i == e.influence
    <3>2. i \in Nat /\ Influences(E)[e] = i
      BY <1>1
    <3> HIDE DEF i
    <3>3. i * c = c * i
      BY <3>2
    <3> QED BY <3>1, <3>2, <3>3 DEF i
  <2> QED BY <2>1 DEF Scales
<1> QED BY <1>1, <1>2, SumScaled

\* What the entries of a depth add to the scores.
AddedScores(edges, s, next) ==
  [m \in DOMAIN s.scores \cup {e.at : e \in next} |->
     (IF m \in DOMAIN s.scores THEN s.scores[m] ELSE 0)
       + SumFunctionOnSet(InParts(next, Parts[s.left - 1]), Arriving(next, m))]

LEMMA SpreadIs ==
  ASSUME NEW edges, NEW s
  PROVE  Spread(edges, s) = [left    |-> s.left - 1,
                             entries |-> NextEntries(edges, s.entries),
                             scores  |-> AddedScores(edges, s, NextEntries(edges, s.entries))]
  BY DEF Spread, NextEntries, AddedScores, InParts, Arriving

LEMMA SpreadTyped ==
  ASSUME NEW edges \in Partial(Keys), IsFiniteSet(DOMAIN edges), NEW s \in SpreadStates, s.left # 0
  PROVE  Spread(edges, s) \in SpreadStates
<1> DEFINE next == NextEntries(edges, s.entries)
           scores == AddedScores(edges, s, next)
           c == Parts[s.left - 1]
<1>1. /\ s.left \in Nat /\ s.entries \subseteq Contributions /\ IsFiniteSet(s.entries)
      /\ DOMAIN s.scores \subseteq NodeIds /\ \A m \in DOMAIN s.scores : s.scores[m] \in Nat
  BY SpreadParts
<1>2. s.left - 1 \in Nat /\ c \in Nat
  BY <1>1, PartsAre
<1>3. next \subseteq Contributions /\ IsFiniteSet(next)
  BY <1>1, NextEntriesAre
<1> HIDE DEF next
<1>4. ASSUME NEW m PROVE SumFunctionOnSet(InParts(next, c), Arriving(next, m)) \in Nat
  <2> DEFINE b == SumFunctionOnSet(Influences(next), Arriving(next, m))
  <2>1. b \in Nat
    BY <1>3, ArrivingFinite
  <2>2. SumFunctionOnSet(InParts(next, c), Arriving(next, m)) = c * b
    BY <1>2, <1>3, ArrivingInParts
  <2> HIDE DEF b, c
  <2>3. c * b \in Nat
    BY <1>2, <2>1
  <2> QED BY <2>2, <2>3
<1>5. scores \in Numbered
  <2> DEFINE D == DOMAIN s.scores \cup {e.at : e \in next}
  <2>1. DOMAIN scores = D /\ D \subseteq NodeIds
    BY <1>1, <1>3 DEF AddedScores, Contributions
  <2>2. \A m \in D : scores[m] \in Nat
    BY <1>1, <1>4 DEF AddedScores
  <2>3. scores = [m \in D |-> scores[m]]
    BY DEF AddedScores
  <2> HIDE DEF scores, D
  <2>4. DOMAIN scores \subseteq NodeIds /\ scores \in [DOMAIN scores -> Nat]
    BY <2>1, <2>2, <2>3
  <2> QED BY <2>4, FunctionNumbered
<1>6. Spread(edges, s) = [left |-> s.left - 1, entries |-> next, scores |-> scores]
  BY SpreadIs DEF next
<1> HIDE DEF scores
<1> QED BY <1>2, <1>3, <1>5, <1>6, SpreadOf

SpreadStart(n, hops) ==
  [left |-> hops, entries |-> {[way |-> <<>>, at |-> n, influence |-> 1]}, scores |-> NoNodes]
\* One round; without hops left there is none.
RoundOfSpread(edges, s) == IF s.left = 0 THEN s ELSE Spread(edges, s)

LEMMA SpreadRoundTyped ==
  ASSUME NEW edges \in Partial(Keys), IsFiniteSet(DOMAIN edges), NEW s \in SpreadStates
  PROVE  RoundOfSpread(edges, s) \in SpreadStates
  BY SpreadTyped DEF RoundOfSpread

LEMMA SpreadStartTyped ==
  ASSUME NEW n \in NodeIds, NEW hops \in Nat
  PROVE  SpreadStart(n, hops) \in SpreadStates
<1> DEFINE e == [way |-> <<>>, at |-> n, influence |-> 1]
<1>1. e \in Contributions
  BY DEF Contributions
<1>2. NoNodes \in Numbered
  BY FunctionNumbered DEF NoNodes
<1>3. IsFiniteSet({e}) /\ {e} \subseteq Contributions
  BY <1>1, FS_Singleton
<1>4. SpreadStart(n, hops) = [left |-> hops, entries |-> {e}, scores |-> NoNodes]
  BY DEF SpreadStart
<1> HIDE DEF e
<1> QED BY <1>2, <1>3, <1>4, SpreadOf

LEMMA SpreadRounds ==
  ASSUME NEW edges \in Partial(Keys), IsFiniteSet(DOMAIN edges), NEW n \in NodeIds, NEW hops \in Nat
  PROVE  /\ Propagation(edges, n, hops)[0] = SpreadStart(n, hops)
         /\ \A r \in Nat : /\ Propagation(edges, n, hops)[r] \in SpreadStates
                           /\ Propagation(edges, n, hops)[r + 1] =
                                RoundOfSpread(edges, Propagation(edges, n, hops)[r])
<1> DEFINE S == SpreadStates
           x == SpreadStart(n, hops)
           step == [s \in S |-> RoundOfSpread(edges, s)]
           Is(f) == f = [r \in Nat |-> IF r = 0 THEN x ELSE RoundOfSpread(edges, f[r - 1])]
           f == CHOOSE g : Is(g)
<1>1. x \in S /\ step \in [S -> S]
  BY SpreadStartTyped, SpreadRoundTyped
<1>2. PICK g : Loops(g, S, step, x)
  <2> HIDE DEF S, step, x
  <2> QED BY <1>1, RoundsExist
<1>3. Is(g)
  <2> HIDE DEF x
  <2>1. \A r \in Nat : r # 0 => g[r - 1] \in S
    <3> HIDE DEF S, step
    <3> QED BY <1>2 DEF Loops
  <2>2. \A r \in Nat : g[r] = IF r = 0 THEN x ELSE RoundOfSpread(edges, g[r - 1])
    <3> HIDE DEF S
    <3> QED BY <1>2, <2>1 DEF Loops
  <2> HIDE DEF S
  <2> QED BY <1>2, <2>2 DEF Loops
<1>4. Is(f)
  <2> HIDE DEF Is
  <2> QED BY <1>3
<1>5. f[0] = x /\ \A r \in Nat : f[r + 1] = RoundOfSpread(edges, f[r])
  <2> HIDE DEF f, x
  <2>1. \A r \in Nat : f[r] = IF r = 0 THEN x ELSE RoundOfSpread(edges, f[r - 1])
    BY <1>4
  <2>2. \A r \in Nat : (r + 1) - 1 = r /\ r + 1 \in Nat /\ r + 1 # 0
    OBVIOUS
  <2> QED BY <2>1, <2>2
<1>6. Propagation(edges, n, hops) = f
  BY DEF Propagation, SpreadStart, RoundOfSpread
<1> HIDE DEF f
<1>7. \A r \in Nat : f[r] \in S
  <2> DEFINE T == {r \in Nat : f[r] \in S}
  <2> HIDE DEF S, x
  <2>1. 0 \in T
    BY <1>1, <1>5
  <2>2. \A r \in Nat : r \in T => r + 1 \in T
    BY <1>5, SpreadRoundTyped DEF S
  <2>3. Nat \subseteq T
    <3> HIDE DEF T
    <3> QED BY <2>1, <2>2, AllNumbers
  <2> QED BY <2>3
<1> QED BY <1>5, <1>6, <1>7

-----------------------------------------------------------------------------
(* The scores.                                                             *)

\* What the hops from 1 to r bring to m.
Shares(brought, hops, m) == [h \in 1..hops |-> brought[h][m] * Parts[hops - h]]
Total(brought, hops, m, r) == SumFunctionOnSet(Shares(brought, hops, m), 1..r)

AreBrought(brought) == \A h \in Nat : brought[h] \in [NodeIds -> Nat]

LEMMA TotalGrows ==
  ASSUME NEW brought, AreBrought(brought), NEW hops \in Nat, NEW m \in NodeIds,
         NEW r \in Nat, r < hops
  PROVE  /\ Total(brought, hops, m, 0) = 0
         /\ Total(brought, hops, m, r) \in Nat
         /\ brought[r + 1][m] \in Nat
         /\ Total(brought, hops, m, r + 1) =
              Total(brought, hops, m, r) + brought[r + 1][m] * Parts[hops - (r + 1)]
<1> DEFINE f == Shares(brought, hops, m)
<1>1. ASSUME NEW h \in 1..hops
      PROVE  f[h] = brought[h][m] * Parts[hops - h] /\ f[h] \in Nat /\ brought[h][m] \in Nat
  <2> DEFINE b == brought[h][m]
             c == Parts[hops - h]
  <2>1. b \in Nat
    BY DEF AreBrought
  <2>2. hops - h \in Nat
    OBVIOUS
  <2>3. c \in Nat
    BY <2>2, PartsAre
  <2>4. f[h] = b * c
    BY DEF Shares
  <2> HIDE DEF b, c, f
  <2>5. b * c \in Nat
    BY <2>1, <2>3
  <2> QED BY <2>1, <2>4, <2>5 DEF b, c
<1> HIDE DEF f
<1>2. IsFiniteSet(1..r) /\ IsFiniteSet(1..(r + 1)) /\ 1..0 = {}
  BY FS_Interval
<1>3. r + 1 \in 1..hops /\ (1..(r + 1)) \ {r + 1} = 1..r /\ 1..r \subseteq 1..hops
      /\ 1..(r + 1) \subseteq 1..hops /\ r + 1 \in 1..(r + 1)
  OBVIOUS
<1>4. SumFunctionOnSet(f, 1..0) = 0
  BY <1>2, SumOfEmpty
<1>5. \A h \in 1..r : f[h] \in Nat
  BY <1>1, <1>3
<1>6. SumFunctionOnSet(f, 1..r) \in Nat
  BY <1>2, <1>5, SumIsNat
<1>7. \A h \in 1..(r + 1) : f[h] \in Int
  BY <1>1, <1>3
<1>8. SumFunctionOnSet(f, 1..(r + 1)) = SumFunctionOnSet(f, (1..(r + 1)) \ {r + 1}) + f[r + 1]
  <2> DEFINE D == 1..(r + 1)
             q == r + 1
  <2>1. IsFiniteSet(D) /\ q \in D /\ \A h \in D : f[h] \in Int
    BY <1>2, <1>3, <1>7
  <2> HIDE DEF D, q
  <2>2. SumFunctionOnSet(f, D) = SumFunctionOnSet(f, D \ {q}) + f[q]
    BY <2>1, SumTakes
  <2> QED BY <2>2 DEF D, q
<1> QED BY <1>1, <1>3, <1>4, <1>6, <1>8 DEF Total, f

\* After r rounds: the entries of a node add up to what r hops bring to it, and
\* its score to what all up to then do.
SpreadInv(s, r, hops, brought) ==
  /\ s.left = hops - r
  /\ NoneTwice(s.entries)
  /\ \A m \in NodeIds :
       SumFunctionOnSet(Influences(s.entries), Arriving(s.entries, m)) = brought[r][m]
  /\ \A m \in NodeIds : /\ m \in DOMAIN s.scores <=> Total(brought, hops, m, r) > 0
                        /\ m \in DOMAIN s.scores => s.scores[m] = Total(brought, hops, m, r)

LEMMA NextIsApart ==
  ASSUME NEW edges \in Partial(Keys), IsFiniteSet(DOMAIN edges),
         NEW E, E \subseteq Contributions, IsFiniteSet(E), NoneTwice(E)
  PROVE  NoneTwice(NextEntries(edges, E))
<1>1. ASSUME NEW f \in NextEntries(edges, E), NEW g \in NextEntries(edges, E), f.way = g.way
      PROVE  f = g
  <2>1. PICK d \in E : \E k \in Links(edges, d.at) : f = Contributed(edges, d, k)
    BY NextEntriesAre
  <2>2. PICK k \in Links(edges, d.at) : f = Contributed(edges, d, k)
    BY <2>1
  <2>3. PICK e \in E : \E l \in Links(edges, e.at) : g = Contributed(edges, e, l)
    BY NextEntriesAre
  <2>4. PICK l \in Links(edges, e.at) : g = Contributed(edges, e, l)
    BY <2>3
  <2> DEFINE v == d.way
             w == e.way
  <2>5. /\ f.way = Append(v, k) /\ g.way = Append(w, l)
        /\ k \in DOMAIN edges /\ l \in DOMAIN edges
    BY <2>2, <2>4, ContributedTyped
  <2>6. v \in Seq(Keys) /\ w \in Seq(Keys) /\ k \in Keys /\ l \in Keys
    BY <2>5, EdgesAre DEF Contributions
  <2>7. Append(v, k) = Append(w, l)
    BY <1>1, <2>5
  <2> HIDE DEF v, w
  <2>8. v = w /\ k = l
    BY <2>6, <2>7, AppendKeepsApart
  <2>9. d = e
    BY <2>8 DEF NoneTwice, v, w
  <2> QED BY <2>2, <2>4, <2>8, <2>9
<1> QED BY <1>1 DEF NoneTwice

\* A round adds what one more hop brings.
LEMMA SpreadKeeps ==
  ASSUME NEW edges \in Partial(Keys), IsFiniteSet(DOMAIN edges), NEW hops \in Nat, NEW brought,
         AreBrought(brought), \A h \in Nat : brought[h + 1] = Carried(edges, brought[h]),
         NEW s \in SpreadStates, NEW r \in Nat, r < hops, SpreadInv(s, r, hops, brought)
  PROVE  SpreadInv(RoundOfSpread(edges, s), r + 1, hops, brought)
<1> DEFINE E == s.entries
           next == NextEntries(edges, E)
           c == Parts[s.left - 1]
           inf == Influences(next)
           t == RoundOfSpread(edges, s)
           scores == AddedScores(edges, s, next)
<1>1. /\ E \subseteq Contributions /\ IsFiniteSet(E) /\ DOMAIN s.scores \subseteq NodeIds
      /\ \A m \in DOMAIN s.scores : s.scores[m] \in Nat
  BY SpreadParts
<1>2. s.left = hops - r /\ s.left # 0 /\ s.left - 1 = hops - (r + 1) /\ hops - (r + 1) \in Nat
  BY DEF SpreadInv
<1>3. c \in Nat \ {0} /\ c = Parts[hops - (r + 1)]
  BY <1>2, PartsAre
<1>4. t = [left |-> s.left - 1, entries |-> next, scores |-> scores]
  BY <1>2, SpreadIs DEF RoundOfSpread
<1>5. next \subseteq Contributions /\ IsFiniteSet(next) /\ NoneTwice(next)
  BY <1>1, NextEntriesAre, NextIsApart DEF SpreadInv
<1>6. ASSUME NEW m \in NodeIds
      PROVE  SumFunctionOnSet(inf, Arriving(next, m)) = brought[r + 1][m]
  <2> DEFINE x == brought[r]
  <2>1. x \in [NodeIds -> Nat]
    BY DEF AreBrought
  <2>2. \A i \in NodeIds : SumFunctionOnSet(Influences(E), Arriving(E, i)) = x[i]
    BY DEF SpreadInv
  <2>3. brought[r + 1] = Carried(edges, x)
    OBVIOUS
  <2>4. NoneTwice(E)
    BY DEF SpreadInv
  <2> HIDE DEF x, E
  <2>5. SumFunctionOnSet(inf, Arriving(next, m)) = Carried(edges, x)[m]
    BY <1>1, <2>1, <2>2, <2>4, NextBrings
  <2> QED BY <2>3, <2>5
<1> HIDE DEF next, c, t
<1>7. ASSUME NEW m \in NodeIds
      PROVE  /\ SumFunctionOnSet(InParts(next, c), Arriving(next, m)) = c * brought[r + 1][m]
             /\ brought[r + 1][m] > 0 <=> \E e \in next : e.at = m
             /\ brought[r + 1][m] \in Nat
  <2> DEFINE sum == SumFunctionOnSet(inf, Arriving(next, m))
  <2>1. sum = brought[r + 1][m]
    BY <1>6
  <2>2. sum \in Nat /\ (sum > 0 <=> \E e \in next : e.at = m)
    BY <1>5, ArrivingFinite
  <2>3. SumFunctionOnSet(InParts(next, c), Arriving(next, m)) = c * sum
    BY <1>3, <1>5, ArrivingInParts
  <2> HIDE DEF sum
  <2> QED BY <2>1, <2>2, <2>3
<1>8. ASSUME NEW m \in NodeIds
      PROVE  /\ m \in DOMAIN scores <=> Total(brought, hops, m, r + 1) > 0
             /\ m \in DOMAIN scores => scores[m] = Total(brought, hops, m, r + 1)
  <2> DEFINE b == brought[r + 1][m]
             before == Total(brought, hops, m, r)
             after == Total(brought, hops, m, r + 1)
             brings == SumFunctionOnSet(InParts(next, c), Arriving(next, m))
  <2>1. before \in Nat /\ b \in Nat /\ after = before + b * c
    BY <1>3, TotalGrows
  <2>2. brings = c * b /\ (b > 0 <=> \E e \in next : e.at = m)
    BY <1>7
  <2>3. m \in DOMAIN s.scores <=> before > 0
    BY DEF SpreadInv
  <2>4. m \in DOMAIN s.scores => s.scores[m] = before
    BY DEF SpreadInv
  <2>5. m \in DOMAIN scores <=> m \in DOMAIN s.scores \/ \E e \in next : e.at = m
    BY DEF AddedScores
  <2>6. m \in DOMAIN scores =>
          scores[m] = (IF m \in DOMAIN s.scores THEN s.scores[m] ELSE 0) + brings
    BY DEF AddedScores, c
  <2> HIDE DEF b, before, after, brings, scores
  <2>7. b * c = c * b /\ c * b \in Nat /\ (c * b > 0 <=> b > 0)
    BY <1>3, <2>1
  <2> DEFINE p == c * b
  <2>8. p \in Nat /\ after = before + p /\ brings = p /\ (p > 0 <=> b > 0)
    BY <2>1, <2>2, <2>7
  <2> HIDE DEF p
  <2>9. m \in DOMAIN scores <=> after > 0
    BY <2>1, <2>2, <2>3, <2>5, <2>8
  <2>10. m \in DOMAIN scores => scores[m] = after
    BY <2>1, <2>3, <2>4, <2>6, <2>8
  <2> QED BY <2>9, <2>10 DEF after
<1> HIDE DEF scores, inf
<1>9. t.left = hops - (r + 1) /\ t.entries = next /\ t.scores = scores
  BY <1>2, <1>4
<1>10. SpreadInv(t, r + 1, hops, brought)
  BY <1>5, <1>6, <1>8, <1>9 DEF SpreadInv, inf
<1> QED BY <1>10 DEF t

\* propagate() adds up all walks of at most "hops" edges, for any graph with
\* finitely many edges (propagation.py:31-54).
THEOREM InfluenceRight ==
  ASSUME NEW edges \in Partial(Keys), IsFiniteSet(DOMAIN edges), NEW n \in NodeIds, NEW hops \in Nat
  PROVE  InfluenceAddsUp(edges, n, hops)
<1> DEFINE brought == Brought(edges, n)
           spread == Propagation(edges, n, hops)
           start == SpreadStart(n, hops)
           T == {r \in Nat : r <= hops => SpreadInv(spread[r], r, hops, brought)}
<1>1. /\ brought[0] = AtSource(n) /\ AreBrought(brought)
      /\ \A h \in Nat : brought[h + 1] = Carried(edges, brought[h])
  BY BroughtRounds DEF AreBrought
<1>2. /\ spread[0] = start
      /\ \A r \in Nat : /\ spread[r] \in SpreadStates
                        /\ spread[r + 1] = RoundOfSpread(edges, spread[r])
  BY SpreadRounds
<1>3. InfluenceAddsUp(edges, n, hops) <=>
        LET scores == [m \in DOMAIN spread[hops].scores \ {n} |-> spread[hops].scores[m]]
        IN /\ DOMAIN scores = {m \in NodeIds \ {n} : Total(brought, hops, m, hops) > 0}
           /\ \A m \in DOMAIN scores : scores[m] = Total(brought, hops, m, hops)
  BY DEF InfluenceAddsUp, Influence, Total, Shares
<1> HIDE DEF brought, spread
<1>4. 0 \in T
  <2> DEFINE e == [way |-> <<>>, at |-> n, influence |-> 1]
  <2>1. start.left = hops /\ start.entries = {e} /\ start.scores = NoNodes
    BY DEF SpreadStart
  <2>2. ASSUME NEW m \in NodeIds
        PROVE  SumFunctionOnSet(Influences({e}), Arriving({e}, m)) = brought[0][m]
    <3>1. CASE m = n
      <4>1. Arriving({e}, m) = {e}
        BY <3>1 DEF Arriving
      <4>2. Influences({e})[e] = 1
        BY DEF Influences
      <4>3. SumFunctionOnSet(Influences({e}), {e}) = 1
        <5> DEFINE i == Influences({e})
        <5>1. i[e] = 1
          BY <4>2
        <5> HIDE DEF i, e
        <5> QED BY <5>1, SumOfOne DEF i
      <4> HIDE DEF e
      <4> QED BY <1>1, <3>1, <4>1, <4>3 DEF AtSource
    <3>2. CASE m # n
      <4>1. Arriving({e}, m) = {}
        BY <3>2 DEF Arriving
      <4> HIDE DEF e
      <4> QED BY <1>1, <3>2, <4>1, SumOfEmpty DEF AtSource
    <3> QED BY <3>1, <3>2
  <2>3. NoneTwice({e})
    BY DEF NoneTwice
  <2>4. ASSUME NEW m \in NodeIds PROVE Total(brought, hops, m, 0) = 0
    <3>1. 1..0 = {}
      OBVIOUS
    <3> QED BY <3>1, SumOfEmpty DEF Total
  <2>5. DOMAIN NoNodes = {}
    BY DEF NoNodes
  <2> HIDE DEF start, e
  <2>6. SpreadInv(start, 0, hops, brought)
    <3>1. start.left = hops - 0
      BY <2>1
    <3>2. \A m \in NodeIds :
            /\ m \in DOMAIN start.scores <=> Total(brought, hops, m, 0) > 0
            /\ m \in DOMAIN start.scores => start.scores[m] = Total(brought, hops, m, 0)
      <4> TAKE m \in NodeIds
      <4>1. m \notin DOMAIN start.scores
        BY <2>1, <2>5
      <4>2. Total(brought, hops, m, 0) = 0
        BY <2>4
      <4> HIDE DEF brought
      <4> QED BY <4>1, <4>2
    <3>3. /\ NoneTwice(start.entries)
          /\ \A m \in NodeIds :
               SumFunctionOnSet(Influences(start.entries), Arriving(start.entries, m))
                  = brought[0][m]
      BY <2>1, <2>2, <2>3
    <3> QED BY <3>1, <3>2, <3>3 DEF SpreadInv
  <2> QED BY <1>2, <2>6
<1>5. ASSUME NEW r \in Nat, r \in T PROVE r + 1 \in T
  <2>1. SUFFICES ASSUME r + 1 <= hops PROVE SpreadInv(spread[r + 1], r + 1, hops, brought)
    OBVIOUS
  <2>2. r < hops /\ SpreadInv(spread[r], r, hops, brought) /\ spread[r] \in SpreadStates
    BY <1>2, <1>5, <2>1
  <2>3. SpreadInv(RoundOfSpread(edges, spread[r]), r + 1, hops, brought)
    BY <1>1, <2>2, SpreadKeeps
  <2> QED BY <1>2, <2>3
<1>6. SpreadInv(spread[hops], hops, hops, brought) /\ spread[hops] \in SpreadStates
  <2>1. Nat \subseteq T
    <3> HIDE DEF T
    <3> QED BY <1>4, <1>5, AllNumbers
  <2> QED BY <1>2, <2>1
<1> DEFINE s == spread[hops].scores
           rest == [m \in DOMAIN s \ {n} |-> s[m]]
<1>7. DOMAIN s \subseteq NodeIds
  BY <1>6, SpreadParts
<1>8. \A m \in NodeIds : /\ m \in DOMAIN s <=> Total(brought, hops, m, hops) > 0
                         /\ m \in DOMAIN s => s[m] = Total(brought, hops, m, hops)
  BY <1>6 DEF SpreadInv
<1> HIDE DEF s
<1>9. DOMAIN rest = {m \in NodeIds \ {n} : Total(brought, hops, m, hops) > 0}
  BY <1>7, <1>8
<1>10. \A m \in DOMAIN rest : rest[m] = Total(brought, hops, m, hops)
  BY <1>7, <1>8
<1> QED BY <1>3, <1>9, <1>10 DEF s

-----------------------------------------------------------------------------
(* subgraph() and top_k_by_score().                                        *)

\* Edges that have both their ends.
AreBetween(edges, nodes) == \A k \in DOMAIN edges : {k.from, k.to} \subseteq nodes

\* subgraph() keeps the edges between its nodes and no others (query.py:77-99).
THEOREM SubgraphRight ==
  ASSUME NEW nodes, NEW edges, AreBetween(edges, DOMAIN nodes), NEW ids
  PROVE  SubgraphIsInduced(nodes, edges, ids)
<1> DEFINE g == InducedSubgraph(nodes, edges, ids)
<1>1. g.nodes = ids \cap DOMAIN nodes
  BY DEF InducedSubgraph
<1>2. \A k : k \in g.edges <=> k \in DOMAIN edges /\ k.from \in ids /\ k.to \in ids
  BY DEF InducedSubgraph, OutEdges
<1>3. \A k \in DOMAIN edges : k.from \in DOMAIN nodes /\ k.to \in DOMAIN nodes
  BY DEF AreBetween
<1> HIDE DEF g
<1>4. g.edges = {k \in DOMAIN edges : {k.from, k.to} \subseteq g.nodes}
  BY <1>1, <1>2, <1>3
<1> QED BY <1>4 DEF SubgraphIsInduced, g

\* SetToSeq lists every element once.
LEMMA SeqOfSet ==
  ASSUME NEW S, IsFiniteSet(S)
  PROVE  /\ Cardinality(S) \in Nat
         /\ SetToSeq(S) \in [1..Cardinality(S) -> S] /\ DOMAIN SetToSeq(S) = 1..Cardinality(S)
         /\ \A i, j \in 1..Cardinality(S) : SetToSeq(S)[i] = SetToSeq(S)[j] => i = j
         /\ \A x \in S : \E i \in 1..Cardinality(S) : SetToSeq(S)[i] = x
<1> DEFINE c == Cardinality(S)
           s == SetToSeq(S)
<1>1. c \in Nat /\ ExistsBijection(1..c, S)
  BY FS_CardinalityType
<1> HIDE DEF c
<1>2. PICK f : f \in [1..c -> S] /\ IsInjective(f)
  BY <1>1 DEF ExistsBijection, Bijection, Injection
<1>3. s \in [1..c -> S] /\ IsInjective(s)
  BY <1>2 DEF SetToSeq, c
<1>4. s \in Injection(1..c, S)
  BY <1>3 DEF Injection
<1> HIDE DEF s
<1>5. IsFiniteSet(1..c) /\ Cardinality(1..c) = c
  BY <1>1, FS_Interval
<1>6. s \in Surjection(1..c, S)
  <2>1. Cardinality(1..c) = Cardinality(S)
    BY <1>5 DEF c
  <2> QED BY <1>4, <2>1, FS_Injection
<1>7. \A x \in S : \E i \in 1..c : s[i] = x
  BY <1>6 DEF Surjection
<1>8. DOMAIN s = 1..c /\ \A i, j \in 1..c : s[i] = s[j] => i = j
  BY <1>3 DEF IsInjective
<1> QED BY <1>1, <1>3, <1>7, <1>8 DEF c, s

\* from says what comes to each place.
Sorts(from, s, keys, n) ==
  /\ from \in [1..n -> 1..n]
  /\ SortedBy(s, keys) = [m \in 1..n |-> s[from[m]]]
  /\ \A m \in 1..n : Place(keys, from[m]) = m
  /\ \A i \in 1..n : from[Place(keys, i)] = i
  /\ \A m, k \in 1..n : m < k => Precedes(keys, from[m], from[k])

LEMMA SortedSorts ==
  ASSUME NEW n \in Nat, NEW keys \in [1..n -> Int], NEW s, DOMAIN s = 1..n
  PROVE  \E from : Sorts(from, s, keys, n)
  BY SortedIsPlaced DEF Sorts

LEMMA FunctionIsSeq ==
  ASSUME NEW S, NEW n \in Nat, NEW f \in [1..n -> S]
  PROVE  f \in Seq(S) /\ Len(f) = n
  OBVIOUS

LEMMA MinOfTwo ==
  ASSUME NEW m \in Nat, NEW n \in Nat
  PROVE  /\ Min({m, n}) = (IF m <= n THEN m ELSE n)
         /\ Min({m, n}) \in Nat /\ Min({m, n}) <= m /\ Min({m, n}) <= n
<1>1. CASE m <= n
  <2>1. Min({m, n}) = m
    BY <1>1, MinIsSmallest
  <2> QED BY <1>1, <2>1
<1>2. CASE ~ (m <= n)
  <2>1. Min({m, n}) = n
    BY <1>2, MinIsSmallest
  <2> QED BY <1>2, <2>1
<1> QED BY <1>1, <1>2

\* top_k_by_score() selects as many as it is asked for and none that is beaten
\* by one it leaves out (query.py:101-113).
THEOREM TopKRight ==
  ASSUME NEW nodes \in Partial(NodeIds), IsFiniteSet(DOMAIN nodes), NEW most \in Nat, NEW minScore
  PROVE  TopKIsBest(nodes, most, minScore)
<1> DEFINE best   == {n \in DOMAIN nodes : nodes[n] >= minScore}
           c      == Cardinality(best)
           scored == SetToSeq(best)
           keys   == [i \in DOMAIN scored |-> 0 - nodes[scored[i]]]
           sorted == SortedBy(scored, keys)
           len    == Min({most, Len(sorted)})
           top    == SubSeq(sorted, 1, len)
<1>0. TopKByScore(nodes, most, minScore) = top
  BY DEF TopKByScore
<1>1. \A n \in best : n \in DOMAIN nodes /\ nodes[n] \in Nat
  BY WeightsAssumption DEF Partial
<1>2. best \subseteq DOMAIN nodes /\ IsFiniteSet(best)
  <2>1. best \subseteq DOMAIN nodes
    OBVIOUS
  <2> HIDE DEF best
  <2> QED BY <2>1, FS_Subset
<1>3. TopKIsBest(nodes, most, minScore) <=>
        /\ Len(top) = Min({most, c})
        /\ IsInjective(top) /\ ToSet(top) \subseteq best
        /\ \A i, j \in DOMAIN top : i < j => nodes[top[i]] >= nodes[top[j]]
        /\ \A m \in best \ ToSet(top), n \in ToSet(top) : nodes[m] <= nodes[n]
  <2> HIDE DEF top
  <2> QED BY <1>0 DEF TopKIsBest, best, c
<1> HIDE DEF best
<1>4. /\ c \in Nat /\ scored \in [1..c -> best] /\ DOMAIN scored = 1..c
      /\ \A i, j \in 1..c : scored[i] = scored[j] => i = j
      /\ \A x \in best : \E i \in 1..c : scored[i] = x
  BY <1>2, SeqOfSet
<1> HIDE DEF c, scored
<1>5. keys \in [1..c -> Int] /\ \A i \in 1..c : keys[i] = 0 - nodes[scored[i]]
  BY <1>1, <1>4
<1> HIDE DEF keys, sorted, len, top
<1>6. PICK from :
        /\ from \in [1..c -> 1..c]
        /\ sorted = [m \in 1..c |-> scored[from[m]]]
        /\ \A m \in 1..c : Place(keys, from[m]) = m
        /\ \A i \in 1..c : from[Place(keys, i)] = i
        /\ \A m, k \in 1..c : m < k => Precedes(keys, from[m], from[k])
  <2>1. c \in Nat /\ keys \in [1..c -> Int] /\ DOMAIN scored = 1..c
    BY <1>4, <1>5
  <2>2. PICK from : Sorts(from, scored, keys, c)
    BY <2>1, SortedSorts
  <2> QED BY <2>2 DEF Sorts, sorted
<1>7. sorted \in Seq(best) /\ Len(sorted) = c /\ \A m \in 1..c : sorted[m] = scored[from[m]]
  <2>1. \A m \in 1..c : scored[from[m]] \in best
    BY <1>4, <1>6
  <2>2. sorted \in [1..c -> best] /\ DOMAIN sorted = 1..c
    BY <1>6, <2>1
  <2>3. sorted \in Seq(best) /\ Len(sorted) = c
    BY <1>4, <2>2
  <2> QED BY <1>6, <2>3
<1>8. len = Min({most, c}) /\ len \in Nat /\ len <= c
  BY <1>4, <1>7, MinOfTwo DEF len
<1>9. /\ top \in Seq(best) /\ Len(top) = len /\ DOMAIN top = 1..len
      /\ \A i \in 1..len : top[i] = sorted[i]
  <2>1. \A i \in 1..len : sorted[i] \in best
    BY <1>7, <1>8
  <2>2. top = [i \in 1..len |-> sorted[i]]
    <3>1. sorted \in Seq(best) /\ len \in 0..Len(sorted)
      BY <1>4, <1>7, <1>8
    <3>2. top = Restrict(sorted, 1..len)
      BY <3>1, SubSeqRestrict DEF top
    <3> QED BY <3>2 DEF Restrict
  <2>3. top \in [1..len -> best]
    BY <2>1, <2>2
  <2>4. DOMAIN top = 1..len /\ \A i \in 1..len : top[i] = sorted[i]
    BY <2>2
  <2>5. len \in Nat
    BY <1>8
  <2>6. top \in Seq(best) /\ Len(top) = len
    BY <2>3, <2>4, <2>5, FunctionIsSeq
  <2> QED BY <2>4, <2>6
<1>10. \A i \in 1..len : i \in 1..c /\ top[i] = scored[from[i]]
  <2>1. \A i \in 1..len : i \in 1..c
    BY <1>4, <1>8
  <2> QED BY <1>7, <1>9, <2>1
<1>11. ASSUME NEW i \in 1..c, NEW j \in 1..c, i < j
       PROVE  nodes[scored[from[i]]] >= nodes[scored[from[j]]]
  <2>1. Precedes(keys, from[i], from[j]) /\ from[i] \in 1..c /\ from[j] \in 1..c
    BY <1>6, <1>11
  <2>2. nodes[scored[from[i]]] \in Nat /\ nodes[scored[from[j]]] \in Nat
    BY <1>1, <1>4, <2>1
  <2>3. keys[from[i]] = 0 - nodes[scored[from[i]]] /\ keys[from[j]] = 0 - nodes[scored[from[j]]]
    BY <1>5, <2>1
  <2>4. keys[from[i]] <= keys[from[j]]
    BY <2>1, <2>2, <2>3 DEF Precedes
  <2> QED BY <2>2, <2>3, <2>4
<1>12. IsInjective(top)
  <2>1. ASSUME NEW i \in 1..len, NEW j \in 1..len, top[i] = top[j] PROVE i = j
    <3>1. i \in 1..c /\ j \in 1..c /\ scored[from[i]] = scored[from[j]]
      BY <1>10, <2>1
    <3>2. from[i] \in 1..c /\ from[j] \in 1..c
      BY <1>6, <3>1
    <3>3. from[i] = from[j]
      BY <1>4, <3>1, <3>2
    <3>4. Place(keys, from[i]) = i /\ Place(keys, from[j]) = j
      BY <1>6, <3>1
    <3> QED BY <3>3, <3>4
  <2> QED BY <1>9, <2>1 DEF IsInjective
<1>13. ToSet(top) \subseteq best
  BY <1>9 DEF ToSet
<1>14. \A i, j \in DOMAIN top : i < j => nodes[top[i]] >= nodes[top[j]]
  BY <1>9, <1>10, <1>11
<1>15. ASSUME NEW m \in best \ ToSet(top), NEW n \in ToSet(top) PROVE nodes[m] <= nodes[n]
  <2>1. PICK i \in 1..len : n = top[i]
    BY <1>9 DEF ToSet
  <2>2. PICK q \in 1..c : scored[q] = m
    BY <1>4
  <2> DEFINE j == Place(keys, q)
  <2>3. j \in 1..c /\ from[j] = q
    BY <1>4, <1>5, <1>6, PlacesAreTaken
  <2> HIDE DEF j
  <2>4. j \notin 1..len
    <3>1. j \in 1..len => top[j] = m
      BY <1>10, <2>2, <2>3
    <3> QED BY <1>9, <3>1 DEF ToSet
  <2>5. i \in 1..c /\ i < j /\ n = scored[from[i]]
    <3>1. i \in 1..c /\ n = scored[from[i]]
      BY <1>10, <2>1
    <3>2. i < j
      BY <1>4, <1>8, <2>1, <2>3, <2>4
    <3> QED BY <3>1, <3>2
  <2>6. nodes[scored[from[i]]] >= nodes[scored[from[j]]]
    BY <1>11, <2>3, <2>5
  <2>7. nodes[m] \in Nat /\ nodes[n] \in Nat
    BY <1>1, <1>13
  <2> QED BY <2>2, <2>3, <2>5, <2>6, <2>7
<1> QED BY <1>3, <1>8, <1>9, <1>12, <1>13, <1>14, <1>15

-----------------------------------------------------------------------------
(* compute_centrality().                                                   *)

\* Products are folds, as sums are.
AreProducts(g, f, S) ==
  g = [T \in SUBSET S |-> IF T = {} THEN 1 ELSE f[Pick(T)] * g[T \ {Pick(T)}]]

LEMMA ProductIsFold ==
  ASSUME NEW f, NEW S, IsFiniteSet(S)
  PROVE  ProductOnSet(f, S) = Folds("products", f, S)[S]
<1> DEFINE products == CHOOSE g : AreProducts(g, f, S)
<1>1. ProductOnSet(f, S) = products[S]
  BY DEF ProductOnSet, FoldFunctionOnSet, MapThenFoldSet, AreProducts, Pick
<1>2. \A g : AreProducts(g, f, S) <=> AreFolds("products", g, f, S)
  BY DEF AreProducts, AreFolds, Joined, OfNone
<1>3. AreProducts(Folds("products", f, S), f, S)
  BY <1>2, FoldsExist
<1>4. AreFolds("products", products, f, S)
  BY <1>2, <1>3
<1> HIDE DEF products
<1> QED BY <1>1, <1>4, FoldIs

LEMMA ProductPicks ==
  ASSUME NEW f, NEW S, IsFiniteSet(S)
  PROVE  ProductOnSet(f, S) =
           IF S = {} THEN 1 ELSE f[Pick(S)] * ProductOnSet(f, S \ {Pick(S)})
<1>1. IsFiniteSet(S \ {Pick(S)})
  BY FS_Subset
<1> QED BY <1>1, FoldPicks, ProductIsFold DEF Joined, OfNone

LEMMA Multiplies ==
  ASSUME NEW a \in Nat, NEW b \in Nat, NEW c \in Nat
  PROVE  /\ a * b \in Nat /\ a * b = b * a /\ a * (b * c) = b * (a * c) /\ (a * b) * c = a * (b * c)
         /\ a # 0 /\ b # 0 => a * b # 0
  OBVIOUS

\* A number for each of S, none 0.
Positive(f, S) == \A x \in S : f[x] \in Nat \ {0}

LEMMA ProductIsPositive ==
  ASSUME NEW f, NEW S, IsFiniteSet(S), Positive(f, S)
  PROVE  ProductOnSet(f, S) \in Nat \ {0}
<1> DEFINE P(T) == ProductOnSet(f, T)
           Good == {T \in SUBSET S : P(T) \in Nat \ {0}}
<1>1. {} \in Good
  <2>1. P({}) = 1
    BY ProductPicks, FS_EmptySet
  <2> HIDE DEF P
  <2> QED BY <2>1
<1>2. ASSUME NEW T \in SUBSET S, T # {}, \A x \in T : T \ {x} \in Good PROVE T \in Good
  <2> DEFINE p == Pick(T)
  <2>1. IsFiniteSet(T) /\ p \in T
    BY <1>2, FS_Subset DEF Pick
  <2>2. P(T) = f[p] * P(T \ {p})
    BY <1>2, <2>1, ProductPicks
  <2>3. f[p] \in Nat \ {0} /\ P(T \ {p}) \in Nat \ {0}
    BY <1>2, <2>1 DEF Positive
  <2> HIDE DEF p, P
  <2>4. f[p] * P(T \ {p}) \in Nat \ {0}
    BY <2>3, Multiplies
  <2> QED BY <2>2, <2>4
<1>3. S \in Good
  <2> HIDE DEF Good
  <2>1. GrowsIn(Good, S)
    BY <1>1, <1>2 DEF GrowsIn
  <2> QED BY <2>1, AllSubsets
<1> QED BY <1>3

\* Any element can be taken first.
LEMMA ProductTakes ==
  ASSUME NEW f, NEW S, IsFiniteSet(S), Positive(f, S), NEW x \in S
  PROVE  ProductOnSet(f, S) = ProductOnSet(f, S \ {x}) * f[x]
<1> DEFINE P(T) == ProductOnSet(f, T)
           Good == {T \in SUBSET S : \A y \in T : P(T) = P(T \ {y}) * f[y]}
<1>1. \A T \in SUBSET S : IsFiniteSet(T) /\ P(T) \in Nat /\ \A y \in T : f[y] \in Nat
  <2>1. ASSUME NEW T \in SUBSET S PROVE IsFiniteSet(T) /\ P(T) \in Nat
    <3>1. IsFiniteSet(T) /\ Positive(f, T)
      BY FS_Subset DEF Positive
    <3> QED BY <3>1, ProductIsPositive
  <2> QED BY <2>1 DEF Positive
<1>2. \A T \in SUBSET S : T # {} => Pick(T) \in T /\ P(T) = f[Pick(T)] * P(T \ {Pick(T)})
  BY <1>1, ProductPicks DEF Pick
<1> HIDE DEF P
<1>3. {} \in Good
  OBVIOUS
<1>4. ASSUME NEW T \in SUBSET S, T # {}, \A y \in T : T \ {y} \in Good PROVE T \in Good
  <2>1. ASSUME NEW y \in T PROVE P(T) = P(T \ {y}) * f[y]
    <3> DEFINE p == Pick(T)
               rest == (T \ {p}) \ {y}
    <3>1. p \in T /\ P(T) = f[p] * P(T \ {p}) /\ f[p] \in Nat /\ f[y] \in Nat
      BY <1>1, <1>2, <1>4
    <3> HIDE DEF p
    <3>2. P(T \ {p}) \in Nat /\ P(T \ {y}) \in Nat /\ P(rest) \in Nat
      BY <1>1
    <3>3. CASE p = y
      BY <3>1, <3>2, <3>3, Multiplies
    <3>4. CASE p # y
      <4>1. P(T \ {p}) = P(rest) * f[y]
        BY <1>4, <3>1, <3>4
      <4>2. P(T \ {y}) = P((T \ {y}) \ {p}) * f[p] /\ (T \ {y}) \ {p} = rest
        BY <1>4, <3>1, <3>4
      <4> HIDE DEF rest
      <4>3. P(T \ {y}) = P(rest) * f[p]
        BY <4>2
      <4> DEFINE a == f[p]
                 b == f[y]
                 m == P(rest)
      <4>4. a \in Nat /\ b \in Nat /\ m \in Nat /\ P(T) = a * (m * b) /\ P(T \ {y}) = m * a
        BY <3>1, <3>2, <4>1, <4>3
      <4> HIDE DEF a, m, b
      <4>5. a * (m * b) = (m * a) * b
        BY <4>4, Multiplies
      <4> QED BY <4>4, <4>5 DEF b
    <3> QED BY <3>3, <3>4
  <2> QED BY <2>1
<1>5. S \in Good
  <2> HIDE DEF Good
  <2>1. GrowsIn(Good, S)
    BY <1>3, <1>4 DEF GrowsIn
  <2> QED BY <2>1, AllSubsets
<1> QED BY <1>5 DEF P

\* Ranks with their whole, and whether they add up to it.
Ranks(nodes) == [rank : [nodes -> Nat], whole : Nat \ {0}]
AddUp(r, nodes) == SumFunctionOnSet(r.rank, nodes) = r.whole

LEMMA SumOfSame ==
  ASSUME NEW S, IsFiniteSet(S), NEW f, NEW c \in Nat, \A x \in S : f[x] = c
  PROVE  SumFunctionOnSet(f, S) = c * Cardinality(S)
<1> DEFINE one == [x \in S |-> 1]
<1>1. \A x \in S : one[x] = 1 /\ one[x] \in Nat
  OBVIOUS
<1> HIDE DEF one
<1>2. SumFunctionOnSet(one, S) = Cardinality(S)
  BY <1>1, SumOfOnes
<1>3. Scales(f, c, one, S)
  BY <1>1 DEF Scales
<1>4. SumFunctionOnSet(f, S) = c * SumFunctionOnSet(one, S)
  BY <1>3, SumScaled
<1> QED BY <1>2, <1>4

\* What is dealt out is what there was: a of each damped part to the nodes the
\* edges lead to, the rest to all nodes alike.
LEMMA NothingIsLost ==
  ASSUME NEW a \in Nat, NEW b \in Nat, a <= b, NEW c \in Nat, NEW all \in Nat,
         NEW d \in Nat, NEW l \in Nat
  PROVE  /\ (b - a) * all * (d + l) + a * all * d \in Nat
         /\ ((b - a) * all * (d + l) + a * all * d) * c + (a * c * all) * l = b * c * all * (d + l)
<1> DEFINE w == d + l
<1>1. w \in Nat /\ b - a \in Nat /\ b = a + (b - a)
  OBVIOUS
<1> DEFINE e == b - a
<1> HIDE DEF w, e
<1>2. e * all * w + a * all * d \in Nat
  BY <1>1, Multiplies DEF e
<1>3. (e * all * w + a * all * d) * c + (a * c * all) * l = (a + e) * c * all * (d + l)
  BY <1>1 DEF w, e
<1> QED BY <1>1, <1>2, <1>3 DEF w, e

LEMMA OutWeights ==
  ASSUME NEW edges \in Partial(Keys), IsFiniteSet(DOMAIN edges), NEW n
  PROVE  OutWeight(edges, n) \in Nat /\ IsFiniteSet(OutEdges(edges, n))
<1>1. OutEdges(edges, n) \subseteq DOMAIN edges
  BY DEF OutEdges
<1>2. IsFiniteSet(OutEdges(edges, n)) /\ \A k \in OutEdges(edges, n) : edges[k] \in Nat
  BY <1>1, FS_Subset, EdgesAre
<1> QED BY <1>2, SumIsNat DEF OutWeight

\* The share of an edge is a part of the rank of the node it leaves; all of
\* them are given away.
LEMMA SharesAddUp ==
  ASSUME NEW edges \in Partial(Keys), IsFiniteSet(DOMAIN edges), NEW leading,
         IsFiniteSet(leading), NEW out, Positive(out, leading),
         \A n \in leading : out[n] = OutWeight(edges, n),
         NEW rank, \A n \in leading : rank[n] \in Nat, NEW damped \in Nat,
         NEW share,
         \A k \in DOMAIN edges : share[k] = damped * rank[k.from] * edges[k]
                                              * ProductOnSet(out, leading \ {k.from})
  PROVE  /\ SumFunctionOnSet(share, {k \in DOMAIN edges : k.from \in leading}) =
              (damped * ProductOnSet(out, leading)) * SumFunctionOnSet(rank, leading)
         /\ \A k \in DOMAIN edges : k.from \in leading => share[k] \in Nat
<1> DEFINE E == {k \in DOMAIN edges : k.from \in leading}
           start == [k \in E |-> k.from]
           given == [n \in leading |-> SumFunctionOnSet(share, OutEdges(edges, n))]
           all == ProductOnSet(out, leading)
           others(n) == ProductOnSet(out, leading \ {n})
<1>1. IsFiniteSet(E)
  <2>1. E \subseteq DOMAIN edges
    OBVIOUS
  <2> HIDE DEF E
  <2> QED BY <2>1, FS_Subset
<1>2. /\ all \in Nat
      /\ \A n \in leading : others(n) \in Nat /\ all = others(n) * out[n] /\ out[n] \in Nat
  <2>1. all \in Nat
    BY ProductIsPositive
  <2>2. ASSUME NEW n \in leading PROVE others(n) \in Nat
    <3>1. IsFiniteSet(leading \ {n}) /\ Positive(out, leading \ {n})
      BY FS_Subset DEF Positive
    <3> QED BY <3>1, ProductIsPositive
  <2> QED BY <2>1, <2>2, ProductTakes DEF Positive
<1> HIDE DEF all, others
<1>3. ASSUME NEW n \in leading, NEW k \in OutEdges(edges, n)
      PROVE  /\ k \in E /\ start[k] = n /\ edges[k] \in Nat /\ share[k] \in Nat
             /\ share[k] = (damped * rank[n] * others(n)) * edges[k]
  <2>1. k \in E /\ k.from = n /\ k \in DOMAIN edges /\ edges[k] \in Nat
    BY EdgesAre DEF OutEdges
  <2>2. share[k] = damped * rank[n] * edges[k] * others(n)
    BY <2>1 DEF others
  <2> DEFINE x == rank[n]
             y == edges[k]
             z == others(n)
  <2>3. x \in Nat /\ y \in Nat /\ z \in Nat /\ share[k] = damped * x * y * z
    BY <1>2, <2>1, <2>2
  <2> HIDE DEF x, y, z
  <2>4. share[k] = (damped * x * z) * y /\ share[k] \in Nat
    <3> DEFINE dx == damped * x
    <3>1. dx \in Nat
      BY <2>3, Multiplies
    <3>2. share[k] = dx * y * z
      BY <2>3
    <3> HIDE DEF dx
    <3>3. share[k] = (dx * z) * y /\ share[k] \in Nat
      BY <2>3, <3>1, <3>2
    <3> QED BY <3>3 DEF dx
  <2> QED BY <2>1, <2>4 DEF x, y, z
<1>4. \A k \in E : start[k] \in leading /\ share[k] \in Nat
  <2>1. ASSUME NEW k \in E PROVE k.from \in leading /\ k \in OutEdges(edges, k.from)
    BY DEF OutEdges
  <2> QED BY <1>3, <2>1
<1>5. ASSUME NEW n \in leading
      PROVE  given[n] = (damped * all) * rank[n] /\ PartOf(start, E, n) = OutEdges(edges, n)
  <2>1. PartOf(start, E, n) = OutEdges(edges, n)
    BY DEF PartOf, OutEdges
  <2> DEFINE x == rank[n]
             z == others(n)
             c == damped * x * z
  <2>2. x \in Nat /\ z \in Nat
    BY <1>2
  <2>3. c \in Nat
    BY <2>2, Multiplies
  <2>4. \A k \in OutEdges(edges, n) : edges[k] \in Nat /\ share[k] = c * edges[k]
    BY <1>3
  <2>5. IsFiniteSet(OutEdges(edges, n))
    BY OutWeights
  <2> HIDE DEF c
  <2>6. SumFunctionOnSet(share, OutEdges(edges, n)) =
          c * SumFunctionOnSet(edges, OutEdges(edges, n))
    BY <2>3, <2>4, <2>5, SumScaled DEF Scales
  <2>7. given[n] = c * out[n]
    BY <2>6 DEF OutWeight
  <2> DEFINE o == out[n]
  <2>8. o \in Nat /\ all = z * o /\ given[n] = c * o
    BY <1>2, <2>7
  <2> HIDE DEF x, z, o
  <2>9. c * o = (damped * all) * x
    BY <2>2, <2>8 DEF c
  <2> QED BY <2>1, <2>8, <2>9 DEF x
<1>6. AddsParts(given, share, start, E, leading)
  BY <1>5 DEF AddsParts
<1> HIDE DEF E, start
<1>7. SumFunctionOnSet(given, leading) = SumFunctionOnSet(share, E)
  <2> HIDE DEF given
  <2> QED BY <1>1, <1>4, <1>6, SumByParts
<1>8. SumFunctionOnSet(given, leading) = (damped * all) * SumFunctionOnSet(rank, leading)
  <2> DEFINE c == damped * all
  <2>1. c \in Nat /\ \A n \in leading : given[n] = c * rank[n]
    BY <1>2, <1>5, Multiplies
  <2> HIDE DEF c, given
  <2>2. Scales(given, c, rank, leading)
    BY <2>1 DEF Scales
  <2> QED BY <2>1, <2>2, SumScaled DEF c
<1> QED BY <1>4, <1>7, <1>8 DEF E, all

\* One iteration deals out the whole of before.
LEMMA RankedKeeps ==
  ASSUME NEW nodes, nodes # {}, IsFiniteSet(nodes), NEW edges \in Partial(Keys),
         IsFiniteSet(DOMAIN edges), AreBetween(edges, nodes),
         NEW r \in Ranks(nodes)
  PROVE  /\ Ranked(nodes, edges, r) \in Ranks(nodes)
         /\ AddUp(r, nodes) => AddUp(Ranked(nodes, edges, r), nodes)
<1> DEFINE a == Damping[1]
           b == Damping[2]
           c == Cardinality(nodes)
           rank == r.rank
           whole == r.whole
           out      == [n \in nodes |-> OutWeight(edges, n)]
           leading  == {n \in nodes : out[n] # 0}
           all      == ProductOnSet(out, leading)
           dangling == SumFunctionOnSet(rank, nodes \ leading)
           damped   == a * c
           share    == [k \in DOMAIN edges |-> damped * rank[k.from] * edges[k]
                                                 * ProductOnSet(out, leading \ {k.from})]
           base     == (b - a) * all * whole + a * all * dangling
           E        == {k \in DOMAIN edges : k.from \in leading}
           To(n)    == {k \in DOMAIN edges : k.to = n /\ k.from \in leading}
           got      == [n \in nodes |-> SumFunctionOnSet(share, To(n))]
           same     == [n \in nodes |-> base]
           next     == [n \in nodes |-> base + got[n]]
           there    == [k \in E |-> k.to]
<1>0. Ranked(nodes, edges, r) = [whole |-> b * c * all * whole, rank |-> next]
  BY DEF Ranked
<1>1. a \in Nat /\ b \in Nat \ {0} /\ a <= b
  BY DampingAssumption
<1>2. c \in Nat \ {0}
  BY FS_CardinalityType, FS_EmptySet
<1>3. rank \in [nodes -> Nat] /\ whole \in Nat \ {0}
  BY DEF Ranks
<1> HIDE DEF a, b, c, rank, whole
<1>4. out \in [nodes -> Nat] /\ \A n \in nodes : out[n] = OutWeight(edges, n)
  BY OutWeights
<1> HIDE DEF out
<1>5. leading \subseteq nodes /\ IsFiniteSet(leading) /\ IsFiniteSet(nodes \ leading)
      /\ Positive(out, leading) /\ \A n \in leading : out[n] = OutWeight(edges, n)
  <2>1. leading \subseteq nodes /\ Positive(out, leading)
    BY <1>4 DEF Positive
  <2> HIDE DEF leading
  <2>2. nodes \ leading \subseteq nodes
    OBVIOUS
  <2> QED BY <1>4, <2>1, <2>2, FS_Subset
<1> HIDE DEF leading
<1>6. all \in Nat \ {0}
  BY <1>5, ProductIsPositive
<1>7. damped \in Nat
  BY <1>1, <1>2, Multiplies
<1>8. \A k \in DOMAIN edges : share[k] = damped * rank[k.from] * edges[k]
                                           * ProductOnSet(out, leading \ {k.from})
  OBVIOUS
<1> HIDE DEF share
<1>9. \A n \in leading : rank[n] \in Nat
  BY <1>3, <1>5
<1>10. /\ SumFunctionOnSet(share, E) = (damped * all) * SumFunctionOnSet(rank, leading)
       /\ \A k \in DOMAIN edges : k.from \in leading => share[k] \in Nat
  <2> HIDE DEF damped
  <2> QED BY <1>5, <1>7, <1>8, <1>9, SharesAddUp
<1>11. IsFiniteSet(E)
  <2>1. E \subseteq DOMAIN edges
    OBVIOUS
  <2> HIDE DEF E
  <2> QED BY <2>1, FS_Subset
<1>12. \A k \in E : there[k] \in nodes /\ share[k] \in Nat
  BY <1>10 DEF AreBetween
<1>13. ASSUME NEW n \in nodes
       PROVE  To(n) = PartOf(there, E, n) /\ To(n) \subseteq E /\ got[n] \in Nat
  <2>1. To(n) = PartOf(there, E, n) /\ To(n) \subseteq E
    BY DEF PartOf
  <2> HIDE DEF To, E
  <2>2. IsFiniteSet(To(n)) /\ \A k \in To(n) : share[k] \in Nat
    BY <1>11, <1>12, <2>1, FS_Subset
  <2>3. got[n] \in Nat
    BY <2>2, SumIsNat
  <2> QED BY <2>1, <2>3
<1>14. AddsParts(got, share, there, E, nodes)
  <2>1. \A n \in nodes : got[n] = SumFunctionOnSet(share, PartOf(there, E, n))
    BY <1>13
  <2> HIDE DEF got
  <2> QED BY <2>1 DEF AddsParts
<1> HIDE DEF E, there, To
<1>15. SumFunctionOnSet(got, nodes) = SumFunctionOnSet(share, E)
  <2> HIDE DEF got
  <2> QED BY <1>11, <1>12, <1>14, SumByParts
<1>16. got \in [nodes -> Nat]
  BY <1>13
<1> HIDE DEF got
<1> DEFINE l == SumFunctionOnSet(rank, leading)
<1>17. l \in Nat /\ dangling \in Nat /\ SumFunctionOnSet(rank, nodes) = dangling + l
  <2>1. nodes = (nodes \ leading) \cup leading /\ (nodes \ leading) \cap leading = {}
    BY <1>5
  <2>2. \A n \in nodes : rank[n] \in Nat
    BY <1>3
  <2>3. \A n \in (nodes \ leading) \cup leading : rank[n] \in Int
    BY <2>1, <2>2
  <2> DEFINE rest == nodes \ leading
  <2>4. SumFunctionOnSet(rank, rest \cup leading) =
          SumFunctionOnSet(rank, rest) + SumFunctionOnSet(rank, leading)
    <3> HIDE DEF rest
    <3> QED BY <1>5, <2>1, <2>3, SumOfTwo DEF rest
  <2>5. l \in Nat /\ dangling \in Nat
    BY <1>5, <2>2, SumIsNat
  <2> QED BY <2>1, <2>4, <2>5
<1> HIDE DEF l, dangling, all
<1>18. base \in Nat
  <2>1. b - a \in Nat
    BY <1>1
  <2> DEFINE e == b - a
  <2>2. e \in Nat /\ base = e * all * whole + a * all * dangling
    BY <2>1
  <2> HIDE DEF e, base
  <2>3. e * all * whole \in Nat /\ a * all * dangling \in Nat
    BY <1>1, <1>3, <1>6, <1>17, <2>2, Multiplies
  <2> QED BY <2>2, <2>3
<1>19. next \in [nodes -> Nat]
  <2> HIDE DEF base
  <2> QED BY <1>16, <1>18
<1>20. b * c * all * whole \in Nat \ {0}
  <2>1. b * c \in Nat \ {0}
    BY <1>1, <1>2, Multiplies
  <2> DEFINE bc == b * c
  <2> HIDE DEF bc
  <2>2. bc * all \in Nat \ {0}
    BY <1>6, <2>1, Multiplies DEF bc
  <2> DEFINE bca == bc * all
  <2> HIDE DEF bca
  <2>3. bca * whole \in Nat \ {0}
    BY <1>3, <2>2, Multiplies DEF bca
  <2> QED BY <2>3 DEF bca, bc
<1>21. SumFunctionOnSet(next, nodes) = base * c + SumFunctionOnSet(got, nodes)
  <2> HIDE DEF base
  <2>1. \A n \in nodes : same[n] = base /\ got[n] \in Nat /\ next[n] = same[n] + got[n]
    BY <1>16
  <2> HIDE DEF same, next
  <2>2. IsSumOf(next, same, got, nodes)
    BY <1>18, <2>1 DEF IsSumOf
  <2>3. SumFunctionOnSet(next, nodes) = SumFunctionOnSet(same, nodes) + SumFunctionOnSet(got, nodes)
    BY <2>2, SumsAdd
  <2>4. SumFunctionOnSet(same, nodes) = base * c
    BY <1>18, <2>1, SumOfSame DEF c
  <2> QED BY <2>3, <2>4
<1>22. ASSUME AddUp(r, nodes) PROVE SumFunctionOnSet(next, nodes) = b * c * all * whole
  <2>1. whole = dangling + l
    BY <1>17, <1>22 DEF AddUp, rank, whole
  <2>2. SumFunctionOnSet(next, nodes) = base * c + (damped * all) * l
    BY <1>10, <1>15, <1>21 DEF l, all
  <2>3. SumFunctionOnSet(next, nodes) =
          ((b - a) * all * (dangling + l) + a * all * dangling) * c + (a * c * all) * l
    BY <2>1, <2>2
  <2> HIDE DEF next, base
  <2>4. ((b - a) * all * (dangling + l) + a * all * dangling) * c + (a * c * all) * l
          = b * c * all * (dangling + l)
    BY <1>1, <1>2, <1>6, <1>17, NothingIsLost
  <2> QED BY <2>1, <2>3, <2>4
<1> HIDE DEF next, base
<1> QED BY <1>0, <1>19, <1>20, <1>22 DEF Ranks, AddUp

RankStart(nodes) == [rank |-> [n \in nodes |-> 1], whole |-> Cardinality(nodes)]

\* compute_centrality() deals the ranks out anew and loses none
\* (graph_store.py:124-146).
THEOREM RanksRight ==
  ASSUME NEW nodes, IsFiniteSet(nodes), NEW edges \in Partial(Keys),
         IsFiniteSet(DOMAIN edges), AreBetween(edges, nodes), NEW iterations \in Nat
  PROVE  RanksAddUp(nodes, edges, iterations)
<1> DEFINE S == Ranks(nodes)
           x == RankStart(nodes)
           step == [r \in S |-> Ranked(nodes, edges, r)]
           Is(f) == f = [r \in Nat |-> IF r = 0 THEN x ELSE Ranked(nodes, edges, f[r - 1])]
           f == CHOOSE g : Is(g)
           T == {r \in Nat : f[r] \in S /\ AddUp(f[r], nodes)}
<1>0. SUFFICES ASSUME nodes # {} PROVE iterations \in T
  <2>1. Centrality(nodes, edges) = f
    BY DEF Centrality, RankStart
  <2>2. ASSUME iterations \in T, nodes # {} PROVE RanksAddUp(nodes, edges, iterations)
    <3> DEFINE r == f[iterations]
    <3>1. r \in Ranks(nodes) /\ AddUp(r, nodes) /\ Centrality(nodes, edges)[iterations] = r
      BY <2>1, <2>2
    <3> HIDE DEF r
    <3>2. r.whole > 0 /\ SumFunctionOnSet(r.rank, nodes) = r.whole
      BY <3>1 DEF Ranks, AddUp
    <3> QED BY <3>1, <3>2 DEF RanksAddUp
  <2>3. nodes = {} => RanksAddUp(nodes, edges, iterations)
    BY DEF RanksAddUp
  <2> QED BY <2>2, <2>3
<1>1. x \in S /\ AddUp(x, nodes)
  <2>1. Cardinality(nodes) \in Nat \ {0}
    BY <1>0, FS_CardinalityType, FS_EmptySet
  <2> DEFINE one == [n \in nodes |-> 1]
  <2>2. one \in [nodes -> Nat] /\ \A n \in nodes : one[n] = 1
    OBVIOUS
  <2> HIDE DEF one
  <2>3. SumFunctionOnSet(one, nodes) = Cardinality(nodes)
    BY <2>2, SumOfOnes
  <2> QED BY <2>1, <2>2, <2>3 DEF RankStart, Ranks, AddUp, one
<1>2. \A r \in S : Ranked(nodes, edges, r) \in S
  BY <1>0, RankedKeeps
<1>3. PICK g : Loops(g, S, step, x)
  <2>1. step \in [S -> S]
    BY <1>2
  <2> HIDE DEF x, step, S
  <2> QED BY <1>1, <2>1, RoundsExist
<1>4. Is(g)
  <2>1. \A r \in Nat : r # 0 => g[r - 1] \in S
    <3> HIDE DEF S, step
    <3> QED BY <1>3 DEF Loops
  <2>2. \A r \in Nat : g[r] = IF r = 0 THEN x ELSE Ranked(nodes, edges, g[r - 1])
    <3> HIDE DEF x, S
    <3> QED BY <1>3, <2>1 DEF Loops
  <2> HIDE DEF x, S
  <2> QED BY <1>3, <2>2 DEF Loops
<1>5. Is(f)
  <2> HIDE DEF Is
  <2> QED BY <1>4
<1> HIDE DEF x, S
<1>6. f[0] = x /\ \A r \in Nat : f[r + 1] = Ranked(nodes, edges, f[r])
  <2> HIDE DEF f
  <2>1. \A r \in Nat : f[r] = IF r = 0 THEN x ELSE Ranked(nodes, edges, f[r - 1])
    BY <1>5
  <2>2. \A r \in Nat : (r + 1) - 1 = r /\ r + 1 \in Nat /\ r + 1 # 0
    OBVIOUS
  <2> QED BY <2>1, <2>2
<1> HIDE DEF f
<1>7. 0 \in T
  BY <1>1, <1>6
<1>8. \A r \in Nat : r \in T => r + 1 \in T
  <2>1. ASSUME NEW s \in S, AddUp(s, nodes)
        PROVE  Ranked(nodes, edges, s) \in S /\ AddUp(Ranked(nodes, edges, s), nodes)
    BY <1>0, <2>1, RankedKeeps DEF S
  <2> QED BY <1>6, <2>1
<1>9. Nat \subseteq T
  <2> HIDE DEF T
  <2> QED BY <1>7, <1>8, AllNumbers
<1> QED BY <1>9

-----------------------------------------------------------------------------
(* The queries, asked of the store.                                        *)

\* A finite graph whose edges have their ends is all the queries need.
LEMMA QueriesHold ==
  ASSUME StoreInv, AllFinite
  PROVE  QueriesAgree
<1> DEFINE nodes == heap[live].nodes
           edges == heap[live].edges
<1>1. live \in DOMAIN heap /\ heap[live] \in Graphs /\ Finite(heap[live])
  BY DEF StoreInv, TypeOK, AllFinite
<1>2. /\ nodes \in Partial(NodeIds) /\ edges \in Partial(Keys)
      /\ IsFiniteSet(DOMAIN nodes) /\ IsFiniteSet(DOMAIN edges)
  BY <1>1 DEF Graphs, Finite
<1>3. AreBetween(edges, DOMAIN nodes)
  BY <1>1 DEF StoreInv, TypeOK, Apart, AreBetween
<1>4. Adj = edges /\ heap[live].nodes = nodes
  BY DEF Adj
<1> HIDE DEF nodes, edges
<1>5. \A n \in NodeIds, r \in Relations, h \in Hops : NeighborsAreNear(edges, n, r, h)
  BY <1>2, NeighborsRight, QueriesAssumption
<1>6. \A m, n \in NodeIds, h \in Hops : PathIsShortest(edges, m, n, h)
  BY <1>2, ShortestPathRight, QueriesAssumption
<1>7. \A n \in NodeIds, h \in Hops : InfluenceAddsUp(edges, n, h)
  BY <1>2, InfluenceRight, QueriesAssumption
<1>8. edges \in RightlyAnswered
  BY <1>2, <1>5, <1>6, <1>7 DEF RightlyAnswered, AnswersAreRight
<1>9. \A ids \in SUBSET NodeIds : SubgraphIsInduced(nodes, edges, ids)
  BY <1>3, SubgraphRight
<1>10. \A k \in Sizes, least \in Weights : TopKIsBest(nodes, k, least)
  BY <1>2, TopKRight, QueriesAssumption
<1>11. \A h \in Iterations : RanksAddUp(DOMAIN nodes, edges, h)
  BY <1>2, <1>3, RanksRight, QueriesAssumption
<1>12. SelectionsAreRight(nodes, edges)
  BY <1>9, <1>10, <1>11 DEF SelectionsAreRight
<1> QED BY <1>4, <1>8, <1>12 DEF QueriesAgree

\* Whatever was added, bootstrapped and rolled back, each query answers what
\* it should of the graph the store then holds, however many hops, nodes or
\* iterations it is asked for.
THEOREM QueriesStayRight == Spec => []QueriesAgree
<1>1. StoreInv /\ AllFinite => QueriesAgree
  BY QueriesHold
<1> QED BY <1>1, StoreInvariant, FiniteGraphs, PTL

-----------------------------------------------------------------------------
(* The graph on its way to the dashboard.                                  *)


\* What a run has written so far, by the step it is at.
Progress(f) ==
  /\ pc[f] = "nodes" => built[f].nodes \ todo[f] \subseteq db.nodes
  /\ pc[f] \in {"edges", "stored"} => built[f].nodes \subseteq db.nodes
  /\ pc[f] = "edges" =>
       todo[f] \subseteq built[f].edges /\ built[f].edges \ todo[f] \subseteq db.edges
  /\ pc[f] = "stored" => built[f].edges \subseteq db.edges

\* The nodes a poll has read are still there, and so are those it showed.
PageIsPast == page.nodes \subseteq db.nodes

LiveHasNodes ==
  /\ shown.source = "live" => db.nodes # {}
  /\ shown.source = "live" /\ page.reading => page.nodes # {}

GraphInv ==
  /\ PersistenceTypeOK
  /\ \A f \in Flows : Progress(f)
  /\ OnlyPostedEdgesDangle
  /\ PageIsPast
  /\ LiveHasNodes

USE EdgesAssumption, FailuresAssumption

LEMMA InitGraph == PersistenceInit => GraphInv
<1>1. ASSUME PersistenceInit PROVE PersistenceTypeOK
  BY <1>1 DEF PersistenceInit, PersistenceTypeOK, Tables, Empty
<1>2. ASSUME PersistenceInit PROVE \A f \in Flows : Progress(f)
  BY <1>2 DEF PersistenceInit, Progress
<1>3. ASSUME PersistenceInit PROVE OnlyPostedEdgesDangle /\ PageIsPast /\ LiveHasNodes
  BY <1>3 DEF PersistenceInit, OnlyPostedEdgesDangle, PageIsPast, LiveHasNodes, Empty
<1>4. QED
  BY <1>1, <1>2, <1>3 DEF GraphInv

\* No step takes anything out of the tables.
LEMMA TablesGrow ==
  ASSUME PersistenceTypeOK, [PersistenceNext]_persistence
  PROVE  /\ db' \in Tables
         /\ db.nodes \subseteq db'.nodes
         /\ db.edges \subseteq db'.edges
         /\ posted \subseteq posted' /\ posted' \in SUBSET Edges
<1> USE DEF PersistenceTypeOK, Tables
<1>1. CASE \E f \in Flows : FlowStep(f)
  BY <1>1 DEF FlowStep, AddNodeTo, UpsertNode, AddEdgeTo, UpsertEdge, Persist,
              PersistEdges, Stored, Aborts
<1>2. CASE \E n \in Nodes : PostNode(n)
  BY <1>2 DEF PostNode
<1>3. CASE \E e \in Edges : PostEdge(e)
  BY <1>3 DEF PostEdge
<1>4. CASE Poll \/ Answer \/ AnswerFails
  BY <1>4 DEF Poll, Answer, AnswerFails
<1>5. CASE UNCHANGED persistence
  BY <1>5 DEF persistence
<1>6. QED
  BY <1>1, <1>2, <1>3, <1>4, <1>5 DEF PersistenceNext

LEMMA FlowKeepsTypes ==
  ASSUME PersistenceTypeOK, NEW f \in Flows, FlowStep(f)
  PROVE  PersistenceTypeOK'
<1> USE DEF PersistenceTypeOK, Tables, explorer
<1>0. db' \in Tables /\ posted' \in SUBSET Edges
  BY TablesGrow DEF PersistenceNext
<1>1. CASE \E n \in Nodes : AddNodeTo(f, n)
  BY <1>1 DEF AddNodeTo, Ends
<1>2. CASE \E e \in Edges : AddEdgeTo(f, e)
  BY <1>2 DEF AddEdgeTo, Ends
<1>3. CASE Persist(f) \/ PersistEdges(f)
  BY <1>3 DEF Persist, PersistEdges
<1>4. CASE \E n \in Nodes : UpsertNode(f, n)
  BY <1>0, <1>4 DEF UpsertNode
<1>5. CASE \E e \in Edges : UpsertEdge(f, e)
  BY <1>0, <1>5 DEF UpsertEdge
<1>6. CASE Stored(f) \/ Aborts(f)
  BY <1>6 DEF Stored, Aborts
<1>7. QED
  BY <1>1, <1>2, <1>3, <1>4, <1>5, <1>6 DEF FlowStep

\* What an answered poll shows has the type of shown.
LEMMA ShowTyped ==
  ASSUME PersistenceTypeOK
  PROVE  /\ ShowSeed => page' \in [reading : BOOLEAN, nodes : SUBSET Nodes]
         /\ ShowLive(page.nodes) => page' \in [reading : BOOLEAN, nodes : SUBSET Nodes]
         /\ ShowSeed \/ ShowLive(page.nodes) =>
              shown' \in [source : {"none", "live", "seed"},
                         nodes : SUBSET Nodes, links : SUBSET Edges]
<1>1. page \in [reading : BOOLEAN, nodes : SUBSET Nodes] /\ db.edges \subseteq Edges
  BY DEF PersistenceTypeOK, Tables
<1>2. page.nodes \in SUBSET Nodes
  BY <1>1
<1>3. {e \in db.edges : Ends(e) \subseteq page.nodes} \in SUBSET Edges
  BY <1>1
<1>4. ShowSeed \/ ShowLive(page.nodes) =>
        page' \in [reading : BOOLEAN, nodes : SUBSET Nodes]
  BY <1>1 DEF ShowSeed, ShowLive
<1>5. ShowSeed => shown' = [source |-> "seed", nodes |-> {}, links |-> {}]
  BY DEF ShowSeed
<1>6. ShowLive(page.nodes) =>
        shown' = [source |-> "live", nodes |-> page.nodes,
                  links |-> {e \in db.edges : Ends(e) \subseteq page.nodes}]
  BY DEF ShowLive
<1>7. QED
  <2> DEFINE links == {e \in db.edges : Ends(e) \subseteq page.nodes}
  <2> HIDE DEF links
  <2>1. links \in SUBSET Edges
    BY <1>3 DEF links
  <2>2. ShowLive(page.nodes) =>
          shown' = [source |-> "live", nodes |-> page.nodes, links |-> links]
    BY <1>6 DEF links
  <2>3. QED
    BY <1>2, <1>4, <1>5, <2>1, <2>2

LEMMA NextKeepsTypes ==
  ASSUME PersistenceTypeOK, [PersistenceNext]_persistence
  PROVE  PersistenceTypeOK'
<1>0. db' \in Tables /\ posted' \in SUBSET Edges
  BY TablesGrow
<1> USE DEF PersistenceTypeOK, flow, explorer
<1>1. CASE \E f \in Flows : FlowStep(f)
  BY <1>1, FlowKeepsTypes
<1>2. CASE \E n \in Nodes : PostNode(n)
  BY <1>0, <1>2 DEF PostNode
<1>3. CASE \E e \in Edges : PostEdge(e)
  BY <1>0, <1>3 DEF PostEdge
<1>4. CASE Poll
  BY <1>4 DEF Poll, Tables
<1>5. CASE Answer
  BY <1>5, ShowTyped DEF Answer
<1>6. CASE AnswerFails
  BY <1>6, ShowTyped DEF AnswerFails
<1>7. CASE UNCHANGED persistence
  BY <1>7 DEF persistence
<1>8. QED
  BY <1>1, <1>2, <1>3, <1>4, <1>5, <1>6, <1>7 DEF PersistenceNext

\* A run's own step keeps its progress.
LEMMA FlowKeepsProgress ==
  ASSUME PersistenceTypeOK, NEW f \in Flows, Progress(f), FlowStep(f)
  PROVE  Progress(f)'
<1> USE DEF PersistenceTypeOK, Tables, Progress
<1>1. CASE \E n \in Nodes : AddNodeTo(f, n)
  BY <1>1 DEF AddNodeTo
<1>2. CASE \E e \in Edges : AddEdgeTo(f, e)
  BY <1>2 DEF AddEdgeTo
<1>3. CASE Persist(f)
  BY <1>3 DEF Persist
<1>4. CASE \E n \in Nodes : UpsertNode(f, n)
  BY <1>4 DEF UpsertNode
<1>5. CASE PersistEdges(f)
  BY <1>5 DEF PersistEdges
<1>6. CASE \E e \in Edges : UpsertEdge(f, e)
  BY <1>6 DEF UpsertEdge
<1>7. CASE Stored(f) \/ Aborts(f)
  BY <1>7 DEF Stored, Aborts
<1>8. QED
  BY <1>1, <1>2, <1>3, <1>4, <1>5, <1>6, <1>7 DEF FlowStep

\* And every other step keeps it, because the tables only grow.
LEMMA OthersKeepProgress ==
  ASSUME PersistenceTypeOK, [PersistenceNext]_persistence, NEW f \in Flows,
         Progress(f), ~FlowStep(f)
  PROVE  Progress(f)'
<1>1. built'[f] = built[f] /\ pc'[f] = pc[f] /\ todo'[f] = todo[f]
  <2>1. ASSUME NEW g \in Flows, g # f, FlowStep(g)
        PROVE  built'[f] = built[f] /\ pc'[f] = pc[f] /\ todo'[f] = todo[f]
    BY <2>1 DEF PersistenceTypeOK, FlowStep, AddNodeTo, UpsertNode, AddEdgeTo, UpsertEdge, Persist,
                PersistEdges, Stored, Aborts
  <2>2. CASE UNCHANGED flow
    BY <2>2 DEF flow
  <2>3. QED
    BY <2>1, <2>2
    DEF PersistenceNext, persistence, flow, PostNode, PostEdge, Poll, Answer, AnswerFails
<1>2. QED
  BY <1>1, TablesGrow DEF Progress

\* The tables hold an edge without its ends only if it was posted.
LEMMA NextKeepsEnds ==
  ASSUME GraphInv, [PersistenceNext]_persistence
  PROVE  OnlyPostedEdgesDangle'
<1>1. SUFFICES ASSUME NEW e \in db'.edges
               PROVE  Ends(e) \subseteq db'.nodes \/ e \in posted'
  BY DEF OnlyPostedEdgesDangle, Ends
<1>2. CASE e \in db.edges
  BY <1>2, TablesGrow DEF GraphInv, OnlyPostedEdgesDangle
<1>3. CASE e \notin db.edges
  <2>1. CASE \E f \in Flows : UpsertEdge(f, e) /\ e \in Edges
    <3>1. PICK f \in Flows : UpsertEdge(f, e)
      BY <2>1
    <3>2. e \in built[f].edges /\ built[f].nodes \subseteq db.nodes
      BY <3>1 DEF GraphInv, Progress, UpsertEdge
    <3>3. Ends(e) \subseteq built[f].nodes
      BY <3>2 DEF GraphInv, PersistenceTypeOK
    <3>4. QED
      BY <3>2, <3>3, TablesGrow DEF GraphInv
  <2>2. CASE PostEdge(e)
    BY <2>2 DEF PostEdge
  <2>3. (\E f \in Flows : UpsertEdge(f, e) /\ e \in Edges) \/ PostEdge(e)
    <3>1. ASSUME NEW f \in Flows, FlowStep(f)
          PROVE  \E x \in Edges : UpsertEdge(f, x) /\ x = e
      BY <1>3, <3>1 DEF GraphInv, PersistenceTypeOK, Tables, FlowStep, AddNodeTo, UpsertNode,
                        AddEdgeTo, UpsertEdge, Persist, PersistEdges, Stored, Aborts
    <3>2. ASSUME NEW x \in Edges, PostEdge(x)
          PROVE  x = e
      BY <1>3, <3>2 DEF PostEdge, GraphInv, PersistenceTypeOK, Tables
    <3>3. ~(\E n \in Nodes : PostNode(n)) /\ ~(Poll \/ Answer \/ AnswerFails)
      BY <1>3 DEF PostNode, Poll, Answer, AnswerFails, GraphInv, PersistenceTypeOK, Tables
    <3>4. ~UNCHANGED persistence
      BY <1>3 DEF persistence
    <3>5. QED
      BY <3>1, <3>2, <3>3, <3>4 DEF PersistenceNext
  <2>4. QED
    BY <2>1, <2>2, <2>3
<1>4. QED
  BY <1>2, <1>3

LEMMA NextKeepsPage ==
  ASSUME GraphInv, [PersistenceNext]_persistence
  PROVE  PageIsPast' /\ LiveHasNodes'
<1> USE DEF GraphInv, PageIsPast, LiveHasNodes
<1>1. db.nodes \subseteq db'.nodes
  BY TablesGrow
<1>2. CASE Poll
  BY <1>1, <1>2 DEF Poll
<1>3. CASE Answer
  BY <1>1, <1>3 DEF Answer, ShowSeed, ShowLive, PersistenceTypeOK
<1>4. CASE AnswerFails
  BY <1>1, <1>4 DEF AnswerFails, ShowSeed, PersistenceTypeOK
<1>5. CASE UNCHANGED explorer
  BY <1>1, <1>5 DEF explorer
<1>6. QED
  BY <1>2, <1>3, <1>4, <1>5
  DEF PersistenceNext, FlowStep, AddNodeTo, UpsertNode, AddEdgeTo, UpsertEdge, Persist,
      PersistEdges, Stored, Aborts, PostNode, PostEdge, persistence

LEMMA NextKeepsGraph ==
  ASSUME GraphInv, [PersistenceNext]_persistence
  PROVE  GraphInv'
<1>1. PersistenceTypeOK'
  BY NextKeepsTypes DEF GraphInv
<1>2. \A f \in Flows : Progress(f)'
  BY FlowKeepsProgress, OthersKeepProgress DEF GraphInv
<1>3. QED
  BY <1>1, <1>2, NextKeepsEnds, NextKeepsPage DEF GraphInv

THEOREM GraphInvariant == PersistenceSpec => []GraphInv
<1>1. QED
  BY InitGraph, NextKeepsGraph, PTL DEF PersistenceSpec

\* Every store, both tables and the page keep their types.
THEOREM PersistenceTypes == PersistenceSpec => []PersistenceTypeOK
<1>1. GraphInv => PersistenceTypeOK
  BY DEF GraphInv
<1>2. QED
  BY <1>1, GraphInvariant, PTL

\* However many runs write the tables and wherever they are cut short, only
\* an edge an administrator posted can be without its ends.
THEOREM NoDanglingEdges == PersistenceSpec => []OnlyPostedEdgesDangle
<1>1. GraphInv => OnlyPostedEdgesDangle
  BY DEF GraphInv
<1>2. QED
  BY <1>1, GraphInvariant, PTL

\* When persist_graph_to_db() answers True, the whole store is in the tables.
THEOREM StoredIsComplete == PersistenceSpec => []StoredMeansComplete
<1>1. GraphInv => StoredMeansComplete
  BY DEF GraphInv, Progress, StoredMeansComplete
<1>2. QED
  BY <1>1, GraphInvariant, PTL

\* Live data gives way to the seed graph only on a database error.
THEOREM LiveStaysLive == PersistenceSpec => SeedOnlyOnError
<1>1. ASSUME GraphInv, [PersistenceNext]_persistence
      PROVE  [shown.source = "live" /\ shown'.source = "seed"
                => failures' > failures]_persistence
  <2>1. SUFFICES ASSUME shown.source = "live", shown'.source = "seed"
                 PROVE  failures' > failures
    OBVIOUS
  <2>2. CASE Answer
    <3>1. page.nodes # {}
      BY <1>1, <2>1, <2>2 DEF Answer, GraphInv, LiveHasNodes
    <3>2. QED
      BY <2>1, <2>2, <3>1 DEF Answer, ShowLive
  <2>3. CASE AnswerFails
    BY <1>1, <2>3 DEF AnswerFails, GraphInv, PersistenceTypeOK
  <2>4. CASE UNCHANGED shown
    BY <2>1, <2>4
  <2>5. QED
    BY <1>1, <2>2, <2>3, <2>4
    DEF PersistenceNext, FlowStep, AddNodeTo, UpsertNode, AddEdgeTo, UpsertEdge, Persist,
        PersistEdges, Stored, Aborts, PostNode, PostEdge, Poll, explorer, persistence
<1>2. QED
  BY <1>1, GraphInvariant, PTL DEF PersistenceSpec, SeedOnlyOnError
=============================================================================

---------------------------- MODULE GraphAnswers ----------------------------
(***************************************************************************)
(* The queries of GraphQuery, asked of every graph the store of            *)
(* GraphVersions can hold.                                                 *)
(***************************************************************************)
EXTENDS GraphVersions, GraphQuery

CONSTANTS
  Relations,  \* relations neighbours are asked for by
  Hops,       \* max_hops, hops, and lengths of walks answers are held against
  Sizes,      \* k
  Iterations  \* iterations

ASSUME QueriesAssumption ==
  Hops \subseteq Nat /\ Sizes \subseteq Nat /\ Iterations \subseteq Nat

AnswersAreRight(edges) ==
  /\ \A n \in NodeIds, r \in Relations, h \in Hops : NeighborsAreNear(edges, n, r, h)
  /\ \A m, n \in NodeIds, h \in Hops : PathIsShortest(edges, m, n, h)
  /\ \A n \in NodeIds, h \in Hops : InfluenceAddsUp(edges, n, h)

\* The graphs for which they are, whatever the nodes weigh.
RightlyAnswered == {edges \in Partial(Keys) : AnswersAreRight(edges)}

SelectionsAreRight(nodes, edges) ==
  /\ \A ids \in SUBSET NodeIds : SubgraphIsInduced(nodes, edges, ids)
  /\ \A k \in Sizes, least \in Weights : TopKIsBest(nodes, k, least)
  /\ \A h \in Iterations : RanksAddUp(DOMAIN nodes, edges, h)

\* Whatever was added, bootstrapped and rolled back, neighbours come with
\* their distance, paths are the cheapest there are, influence is the sum
\* over all walks, a subgraph is whole, the best nodes are selected and no
\* rank is lost (query.py:28-113, propagation.py:31-54, graph_store.py:124-146).
QueriesAgree ==
  Adj \in RightlyAnswered /\ SelectionsAreRight(heap[live].nodes, Adj)
=============================================================================

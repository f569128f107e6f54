--------------------------- MODULE WeightedGraph ----------------------------
(***************************************************************************)
(* Graphs as values: the weights of the nodes and of the edges there are.  *)
(***************************************************************************)
EXTENDS Naturals

CONSTANTS
  NodeIds,  \* node ids
  Keys,     \* edges: [from, to, relation], what add_edge() identifies them by
  Weights   \* weights of nodes and edges

ASSUME KeysAssumption ==
  \A k \in Keys : k.from \in NodeIds /\ k.to \in NodeIds
ASSUME WeightsAssumption == Weights \subseteq Nat

Partial(S) == UNION {[D -> Weights] : D \in SUBSET S}
Graphs == [nodes : Partial(NodeIds), edges : Partial(Keys)]
NoGraph == [nodes |-> [x \in {} |-> 0], edges |-> [x \in {} |-> 0]]

\* What g has that h has not.
Added(g, h) == [nodes |-> DOMAIN g.nodes \ DOMAIN h.nodes,
                edges |-> DOMAIN g.edges \ DOMAIN h.edges]

\* h has everything g has, and no less of it.
Outweighs(f, g) ==
  DOMAIN g \subseteq DOMAIN f /\ \A x \in DOMAIN g : f[x] >= g[x]
Extends(h, g) == Outweighs(h.nodes, g.nodes) /\ Outweighs(h.edges, g.edges)
=============================================================================

----------------------------- MODULE GraphQuery -----------------------------
(***************************************************************************)
(* GraphQuery, GraphPropagation and compute_centrality(): the loops of the *)
(* code over a graph, each beside what its answer should be.               *)
(*                                                                         *)
(* The order in which a node lists its edges is left out.  Fractions are   *)
(* kept as numerators: a cost 1/w is the integer Unit / w, an influence h  *)
(* hops away is in parts of HopDecay[2]^h, a rank has a whole of its own.  *)
(***************************************************************************)
EXTENDS WeightedGraph, Sequences, SequencesExt, StableOrder

CONSTANTS
  Unit,        \* every weight but 0 divides it
  HopDecay,    \* hop_decay, as <<numerator, denominator>>
  Damping,     \* damping, as <<numerator, denominator>>
  AnyRelation  \* relation=None

ASSUME UnitAssumption ==
  /\ Unit \in Nat \ {0}
  /\ \A w \in Weights \ {0} : Unit % w = 0
ASSUME DecayAssumption ==
  HopDecay \in (Nat \ {0}) \X (Nat \ {0}) /\ HopDecay[1] <= HopDecay[2]
ASSUME DampingAssumption ==
  Damping \in Nat \X (Nat \ {0}) /\ Damping[1] <= Damping[2]

OutEdges(edges, n) == {k \in DOMAIN edges : k.from = n}

\* propagate() and shortest_path() follow no edge of weight 0.
Links(edges, n) == {k \in OutEdges(edges, n) : edges[k] > 0}

NoNodes == [n \in {} |-> 0]

-----------------------------------------------------------------------------
(* get_neighbors(): breadth first, one depth after the other; a node is    *)
(* answered with the hops at which it was met first.                       *)

Wanted(relation, k) == relation = AnyRelation \/ k.relation = relation

\* Where wanted edges lead from some nodes.
Met(edges, relation, from) ==
  {k.to : k \in {k \in DOMAIN edges : Wanted(relation, k) /\ k.from \in from}}

Deeper(edges, relation, s) ==
  LET met == Met(edges, relation, s.frontier)
  IN [depth    |-> s.depth + 1,
      frontier |-> met \ s.visited,
      visited  |-> s.visited \cup met,
      hops     |-> [n \in DOMAIN s.hops \cup met |->
                      IF n \in DOMAIN s.hops THEN s.hops[n] ELSE s.depth + 1]]

\* After each round.
Search(edges, n, relation) ==
  LET search[r \in Nat] ==
        IF r = 0 THEN [depth |-> 0, frontier |-> {n}, visited |-> {n}, hops |-> NoNodes]
        ELSE Deeper(edges, relation, search[r - 1])
  IN search

Neighbors(edges, n, relation, maxHops) == Search(edges, n, relation)[maxHops].hops

\* The nodes at the end of a walk of exactly h wanted edges, for every h.
EndsOfWalks(edges, n, relation) ==
  LET ends[h \in Nat] == IF h = 0 THEN {n} ELSE Met(edges, relation, ends[h - 1])
  IN ends

\* Every node some walk of at most max_hops ends at, with the length of the
\* shortest: the source too, when a cycle leads back to it.
NeighborsAreNear(edges, n, relation, maxHops) ==
  LET hops == Neighbors(edges, n, relation, maxHops)
      near == EndsOfWalks(edges, n, relation)
  IN /\ DOMAIN hops = UNION {near[h] : h \in 1..maxHops}
     /\ \A m \in DOMAIN hops :
          m \in near[hops[m]] /\ \A h \in 1..(hops[m] - 1) : m \notin near[h]

-----------------------------------------------------------------------------
(* shortest_path(): Dijkstra's algorithm, the heap being the set of the    *)
(* walks pushed and not popped; ties are broken either way.  The code goes *)
(* on while there is a heap, which is no longer than there are edges.      *)

Step(w) == Unit \div w
Longer(edges, e, k) == [cost |-> e.cost + Step(edges[k]), path |-> Append(e.path, k.to)]
AtHome(n) == [cost |-> 0, path |-> <<n>>]

Cheapest(heap) == CHOOSE e \in heap : \A f \in heap : e.cost <= f.cost

\* Mutation: a node is pushed the first time it is met only.
PushedOnce(edges, e, best) ==
  {k \in Links(edges, Last(e.path)) : k.to \notin DOMAIN best}

\* The edges that lead to a node more cheaply than any popped before.  One
\* of weight 0 costs infinitely much, which is no less than what is known.
Pushed(edges, e, best) ==
  {k \in Links(edges, Last(e.path)) :
     k.to \in DOMAIN best => e.cost + Step(edges[k]) < best[k.to]}

PopCheapest(edges, dst, s) ==
  LET e       == Cheapest(s.heap)
      pushed  == {Longer(edges, e, k) : k \in Pushed(edges, e, s.best)}
      ends    == {Last(f.path) : f \in pushed}
      cost(n) == Min({f.cost : f \in {f \in pushed : Last(f.path) = n}})
  IN IF Last(e.path) = dst THEN [s EXCEPT !.answer = e.path]
     ELSE [s EXCEPT !.heap = (@ \ {e}) \cup pushed,
                    !.best = [n \in DOMAIN @ \cup ends |->
                                IF n \in ends THEN cost(n) ELSE @[n]]]

Route(edges, src, dst) ==
  LET route[r \in Nat] ==
        IF r = 0 THEN [heap |-> {AtHome(src)}, best |-> [n \in {src} |-> 0], answer |-> <<>>]
        ELSE LET s == route[r - 1]
             IN IF s.heap = {} \/ s.answer # <<>> THEN s ELSE PopCheapest(edges, dst, s)
  IN route

ShortestPath(edges, src, dst) ==
  Route(edges, src, dst)[Cardinality(DOMAIN edges) + 1].answer

\* The walks of exactly h edges, for every h.
Extended(edges, walks) ==
  UNION {{Longer(edges, e, k) : k \in Links(edges, Last(e.path))} : e \in walks}

WalksFrom(edges, src) ==
  LET walks[h \in Nat] == IF h = 0 THEN {AtHome(src)} ELSE Extended(edges, walks[h - 1])
  IN walks

\* The answer is a walk and none costs less; it is <<>> only when there is
\* none.
PathIsShortest(edges, src, dst, most) ==
  LET path    == ShortestPath(edges, src, dst)
      ways(h) == {e \in WalksFrom(edges, src)[h] : Last(e.path) = dst}
  IN IF path = <<>> THEN \A h \in 0..most : ways(h) = {}
     ELSE \E e \in ways(Len(path) - 1) :
            e.path = path /\ \A h \in 0..most : \A f \in ways(h) : e.cost <= f.cost

-----------------------------------------------------------------------------
(* propagate(): every walk of at most "hops" edges adds the product of its *)
(* weights, decayed at each edge, to the node it ends at.                  *)

\* x hops away, an influence is in parts of Parts[x].
Parts[x \in Nat] == IF x = 0 THEN 1 ELSE HopDecay[2] * Parts[x - 1]

Decayed(edges, k, x) == x * edges[k] * HopDecay[1]

\* The entries of the code's queue of one depth; "way" keeps them apart.
Contributed(edges, e, k) ==
  [way |-> Append(e.way, k), at |-> k.to, influence |-> Decayed(edges, k, e.influence)]

Spread(edges, s) ==
  LET next == UNION {{Contributed(edges, e, k) : k \in Links(edges, e.at)} : e \in s.entries}
      x    == [e \in next |-> e.influence * Parts[s.left - 1]]
  IN [left    |-> s.left - 1,
      entries |-> next,
      scores  |-> [m \in DOMAIN s.scores \cup {e.at : e \in next} |->
                     (IF m \in DOMAIN s.scores THEN s.scores[m] ELSE 0)
                       + SumFunctionOnSet(x, {e \in next : e.at = m})]]

Propagation(edges, n, hops) ==
  LET spread[r \in Nat] ==
        IF r = 0 THEN [left |-> hops, entries |-> {[way |-> <<>>, at |-> n, influence |-> 1]},
                       scores |-> NoNodes]
        ELSE LET s == spread[r - 1] IN IF s.left = 0 THEN s ELSE Spread(edges, s)
  IN spread

\* In parts of Parts[hops].
Influence(edges, n, hops) ==
  LET scores == Propagation(edges, n, hops)[hops].scores
  IN [m \in DOMAIN scores \ {n} |-> scores[m]]

\* What exactly h hops bring to each node: the powers of the matrix of the
\* weights.
Carried(edges, x) ==
  [m \in NodeIds |-> SumFunctionOnSet([k \in DOMAIN edges |-> Decayed(edges, k, x[k.from])],
                                      {k \in DOMAIN edges : k.to = m})]
Brought(edges, n) ==
  LET brought[h \in Nat] ==
        IF h = 0 THEN [m \in NodeIds |-> IF m = n THEN 1 ELSE 0]
        ELSE Carried(edges, brought[h - 1])
  IN brought

\* The influences are the sums over all hops; a node no influence reaches is
\* not answered, nor is the source.
InfluenceAddsUp(edges, n, hops) ==
  LET scores == Influence(edges, n, hops)
      sum(m) == SumFunctionOnSet([h \in 1..hops |-> Brought(edges, n)[h][m] * Parts[hops - h]],
                                 1..hops)
  IN /\ DOMAIN scores = {m \in NodeIds \ {n} : sum(m) > 0}
     /\ \A m \in DOMAIN scores : scores[m] = sum(m)

-----------------------------------------------------------------------------
(* subgraph() and top_k_by_score(), of the nodes and the edges of a graph. *)

\* A node that is asked for twice is answered twice: that is left out.
InducedSubgraph(nodes, edges, ids) ==
  [nodes |-> ids \cap DOMAIN nodes,
   edges |-> UNION {{k \in OutEdges(edges, n) : k.to \in ids} : n \in ids}]

\* No edge of a subgraph lacks an end, and none between its nodes is missing.
SubgraphIsInduced(nodes, edges, ids) ==
  LET g == InducedSubgraph(nodes, edges, ids)
  IN g.edges = {k \in DOMAIN edges : {k.from, k.to} \subseteq g.nodes}

TopKByScore(nodes, k, minScore) ==
  LET scored == SetToSeq({n \in DOMAIN nodes : nodes[n] >= minScore})
      sorted == SortedBy(scored, [i \in DOMAIN scored |-> 0 - nodes[scored[i]]])
  IN SubSeq(sorted, 1, Min({k, Len(sorted)}))

\* As many as there are and are asked for, each once and with the score it
\* takes, the better ones first, and none that is left out better.
TopKIsBest(nodes, k, minScore) ==
  LET top  == TopKByScore(nodes, k, minScore)
      best == {n \in DOMAIN nodes : nodes[n] >= minScore}
  IN /\ Len(top) = Min({k, Cardinality(best)})
     /\ IsInjective(top) /\ ToSet(top) \subseteq best
     /\ \A i, j \in DOMAIN top : i < j => nodes[top[i]] >= nodes[top[j]]
     /\ \A m \in best \ ToSet(top), n \in ToSet(top) : nodes[m] <= nodes[n]

-----------------------------------------------------------------------------
(* compute_centrality(): PageRank.  One iteration multiplies the whole, of *)
(* which the ranks are parts, by the number of nodes, the denominator of   *)
(* the damping and the weights that leave each node.                       *)

OutWeight(edges, n) == SumFunctionOnSet(edges, OutEdges(edges, n))

ProductOnSet(f, S) == FoldFunctionOnSet(LAMBDA x, y : x * y, 1, f, S)

Ranked(nodes, edges, r) ==
  LET out      == [n \in nodes |-> OutWeight(edges, n)]
      leading  == {n \in nodes : out[n] # 0}
      all      == ProductOnSet(out, leading)
      dangling == SumFunctionOnSet(r.rank, nodes \ leading)
      damped   == Damping[1] * Cardinality(nodes)
      share    == [k \in DOMAIN edges |-> damped * r.rank[k.from] * edges[k]
                                            * ProductOnSet(out, leading \ {k.from})]
  IN [whole |-> Damping[2] * Cardinality(nodes) * all * r.whole,
      rank  |-> [n \in nodes |->
                   (Damping[2] - Damping[1]) * all * r.whole + Damping[1] * all * dangling
                     + SumFunctionOnSet(share, {k \in DOMAIN edges :
                                                  k.to = n /\ k.from \in leading})]]

Centrality(nodes, edges) ==
  LET ranks[r \in Nat] ==
        IF r = 0 THEN [rank |-> [n \in nodes |-> 1], whole |-> Cardinality(nodes)]
        ELSE Ranked(nodes, edges, ranks[r - 1])
  IN ranks

\* No rank is lost or made, whatever nodes lead nowhere: dividing by the sum
\* at the end corrects nothing but rounding.
RanksAddUp(nodes, edges, iterations) ==
  LET r == Centrality(nodes, edges)[iterations]
  IN nodes # {} => r.whole > 0 /\ SumFunctionOnSet(r.rank, nodes) = r.whole
=============================================================================

--------------------------- MODULE VersionedGraph ---------------------------
(***************************************************************************)
(* What a graph with versions promises its callers, in values: the graph   *)
(* only gains nodes, edges and weight until somebody restores a version,   *)
(* and a version that is kept says for ever what the graph was when it was *)
(* saved.                                                                  *)
(***************************************************************************)
EXTENDS WeightedGraph, Sequences

CONSTANT
  Keep  \* keep_versions: how many versions are kept

VARIABLES
  graph,     \* [nodes, edges]: the weights of what the graph has
  versions,  \* <<[id, parent, graph, news], ...>>: the kept versions, newest last
  counter    \* the versions saved so far

vars == <<graph, versions, counter>>

Init ==
  /\ graph = NoGraph
  /\ versions = <<>>
  /\ counter = 0

Merge ==
  /\ Extends(graph', graph)
  /\ UNCHANGED <<versions, counter>>

\* The newest of the kept versions is the parent; the first has none, 0.
Save ==
  LET newest == versions[Len(versions)]
      first  == versions = <<>>
      saved  == [id     |-> counter + 1,
                 parent |-> IF first THEN 0 ELSE newest.id,
                 graph  |-> graph,
                 news   |-> IF first THEN Added(NoGraph, NoGraph)
                                     ELSE Added(graph, newest.graph)]
  IN /\ counter' = counter + 1
     /\ versions' = Append(IF Len(versions) < Keep THEN versions ELSE Tail(versions), saved)
     /\ UNCHANGED graph

Restore ==
  /\ \E i \in 1..Len(versions) : graph' = versions[i].graph
  /\ UNCHANGED <<versions, counter>>

Next == Merge \/ Save \/ Restore

Spec == Init /\ [][Next]_vars
=============================================================================

----------------------------- MODULE MCInMemory -----------------------------
(***************************************************************************)
(* What the process keeps of its graph, for TLC: the store with its        *)
(* versions and queries (GraphVersions, GraphAnswers), and the calls of    *)
(* the real-time ingestion with their deduplicator (Realtime).  The two    *)
(* share no state, so `part` says which one runs and the other stays as it *)
(* was initialised.                                                        *)
(*                                                                         *)
(* From a to c there is an edge of weight 1 and, over b, a way that is     *)
(* cheaper when its two edges are strong; c leads back to a.               *)
(*                                                                         *)
(* Of four texts, t1 and t2 have similar signatures, t1 and t3 close       *)
(* SimHashes, and t4 is like no other.  Signatures have two bands of two   *)
(* positions, of which three must be equal.                                *)
(***************************************************************************)
EXTENDS GraphAnswers, Realtime

CONSTANTS a, b, c, related, causes, t1, t2, t3, t4, d1, d2, d3, d4, rt0, rt1, own

VARIABLE part

Ab == [from |-> a, to |-> b, relation |-> related]
Bc == [from |-> b, to |-> c, relation |-> related]
Ac == [from |-> a, to |-> c, relation |-> causes]
Ca == [from |-> c, to |-> a, relation |-> related]

MCKeys == {Ab, Bc, Ac, Ca}
MCNodeCalls == {[id |-> a, weight |-> 3]}
MCEdgeCalls == {[key |-> Ab, weight |-> 3], [key |-> Ab, weight |-> 1], [key |-> Ca, weight |-> 0]}
MCSeeds == [nodes |-> [n \in NodeIds |-> 1], edges |-> [k \in {Bc, Ac} |-> IF k = Bc THEN 3 ELSE 1]]

MCRelations == {related, causes, AnyRelation}

\* The defaults of propagate() and compute_centrality().
MCHopDecay == <<1, 2>>
MCDamping == <<17, 20>>

MCSig == [t \in Texts |-> CASE t = t1 -> <<1, 2, 3, 4>>
                            [] t = t2 -> <<1, 2, 3, 5>>
                            [] t = t3 -> <<6, 7, 8, 9>>
                            [] t = t4 -> <<6, 1, 1, 1>>]
MCBits == [t \in Texts |-> CASE t = t1 -> {1, 2}
                             [] t = t2 -> {3, 4, 5}
                             [] t = t3 -> {1}
                             [] t = t4 -> {1, 6, 7, 8}]

MCTextOf == [d \in Docs |-> CASE d = d1 -> t1 [] d = d2 -> t2 [] d = d3 -> t3 [] d = d4 -> t4]

\* Two titles have one node id.
MCTopicOf == [d \in Docs |-> IF d \in {d1, d4} THEN a ELSE b]

\* Only d2 has a source_id.
MCSourceId == [d \in Docs |-> IF d = d2 THEN own ELSE NoKey]
MCDefaultKey == <<rt0, rt1>>

EachFaultOnce == [k \in FaultKinds |-> 1]

-----------------------------------------------------------------------------
InMemoryInit == Init /\ RealtimeInit /\ part \in {"graph", "calls"}

RunGraph == part = "graph" /\ Next /\ UNCHANGED <<part, realtime>>
RunCalls == part = "calls" /\ RealtimeNext /\ UNCHANGED <<part, vars>>

InMemorySpec == InMemoryInit /\ [][RunGraph \/ RunCalls]_<<part, vars, realtime>>
=============================================================================

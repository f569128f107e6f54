------------------------- MODULE DailyPipelineProofs -------------------------
(***************************************************************************)
(* What TLAPS proves of DailyPipeline, for any documents, topics, measures *)
(* and answers and any budget: what a caller may be charged, that no       *)
(* template is ever published, and which topics a run may select.          *)
(***************************************************************************)
EXTENDS DailyPipeline, FiniteSetTheorems, SequenceTheorems, TLAPS

Running == {"score", "select", "generate", "gate", "succeed", "push"}

\* The parts of the type invariant that the arguments below need.  A run has
\* begun once an attempt is counted.
CountersTyped ==
  /\ caller \in {"poll", "flow"}
  /\ pc \in {"sleep", "begin"} \cup Running
  /\ attempt \in 0..2
  /\ pc \in {"score", "select", "generate", "gate", "succeed"} => attempt \in 1..2
  /\ pc = "begin" => attempt \in 0..1
  /\ spent \in Nat /\ billed \in Nat /\ lost \in Nat

\* Before this attempt the LLM charged at most the budget per attempt; in this
\* one it charged what the generator counted.
ChargesAddUp ==
  /\ spent <= Budget
  /\ attempt = 0 => billed = 0 /\ lost = 0
  /\ attempt = 1 => billed <= spent + lost
  /\ attempt = 2 => billed <= Budget + spent + lost

BudgetInv == CountersTyped /\ ChargesAddUp

LEMMA InitBudget == Init => BudgetInv
  BY LimitsAssumption DEF Init, BudgetInv, CountersTyped, ChargesAddUp, Running

LEMMA NextKeepsBudget ==
  ASSUME BudgetInv, [Next]_vars
  PROVE  BudgetInv'
<1> USE LimitsAssumption DEF BudgetInv, CountersTyped, ChargesAddUp, Running
<1>1. CASE Begin
  BY <1>1 DEF Begin
<1>2. CASE ComputeScores
  BY <1>2 DEF ComputeScores, money
<1>3. CASE Select
  BY <1>3 DEF Select, money
<1>4. CASE GenerateOffline
  BY <1>4 DEF GenerateOffline, Generating, ToGate, money
<1>5. CASE GenerateOnline
  BY <1>5 DEF GenerateOnline, Generating, BudgetOk, ToGate
<1>6. CASE AnswerLost
  BY <1>6 DEF AnswerLost, Generating, BudgetOk, ToGate
<1>7. CASE Gate
  BY <1>7 DEF Gate, money
<1>8. CASE Persist
  BY <1>8 DEF Persist, money
<1>9. CASE Succeed
  BY <1>9 DEF Succeed, money
<1>10. CASE Raise
  BY <1>10 DEF Raise, money
<1>11. CASE Push
  BY <1>11 DEF Push, money
<1>12. CASE Wake
  BY <1>12 DEF Wake
<1>13. CASE UNCHANGED vars
  BY <1>13 DEF vars, money
<1>14. QED
  BY <1>1, <1>2, <1>3, <1>4, <1>5, <1>6, <1>7, <1>8, <1>9, <1>10, <1>11, <1>12, <1>13
  DEF Next, RunStep

THEOREM BudgetInvariant == Spec => []BudgetInv
<1>1. QED
  BY InitBudget, NextKeepsBudget, PTL DEF Spec

\* However often a run is tried and whatever answers are lost, the LLM charges
\* at most the budget per attempt and what was lost (_budget_ok, _track_cost,
\* and the retry of the flow).
THEOREM ChargesBounded == Spec => []ChargesAreBounded
<1>1. BudgetInv => ChargesAreBounded
  BY LimitsAssumption DEF BudgetInv, CountersTyped, ChargesAddUp, ChargesAreBounded
<1>2. QED
  BY <1>1, BudgetInvariant, PTL

-----------------------------------------------------------------------------
(* The gate.                                                               *)

\* A text of the template generator is the template; what it names, and that
\* it names no source, alone puts it above the threshold.
GateInv ==
  /\ pc = "gate" => text[1].by \in {"llm", "template"}
  /\ pc = "gate" /\ text[1].by = "template" => text[1].as = Template
  /\ Len(outputs) \in Nat /\ DOMAIN outputs = 1..Len(outputs)
  /\ \A i \in DOMAIN outputs : outputs[i].by \in {"llm", "template"}
  /\ OnlyTheLlmPasses

LEMMA TemplateFails == ~ Passes(Template)
  BY DEF Passes, Risk, Template

LEMMA InitGate == Init => GateInv
  BY DEF Init, GateInv, OnlyTheLlmPasses

\* The text a generator hands to the gate.
LEMMA ToGateKeeps ==
  ASSUME GateInv, NEW by \in {"llm", "template"}, NEW as, ToGate(by, as),
         by = "template" => as = Template
  PROVE  GateInv'
<1>1. text'[1].by = by /\ text'[1].as = as
  BY DEF ToGate
<1>2. QED
  BY <1>1 DEF ToGate, GateInv, OnlyTheLlmPasses

LEMMA NextKeepsGate ==
  ASSUME BudgetInv, GateInv, [Next]_vars
  PROVE  GateInv'
<1>1. CASE Begin
  BY <1>1 DEF Begin, GateInv, OnlyTheLlmPasses
<1>2. CASE GenerateOffline \/ GenerateOnline \/ AnswerLost
  BY <1>2, ToGateKeeps DEF GenerateOffline, GenerateOnline, AnswerLost
<1>3. CASE Gate
  <2> DEFINE judged == [topic  |-> text[1].topic, by |-> text[1].by,
                        passed |-> Passes(text[1].as)]
  <2>1. pc = "gate" /\ pc' = "generate" /\ outputs' = Append(outputs, judged)
    BY <1>3 DEF Gate
  <2>2. judged.by \in {"llm", "template"} /\ (judged.passed => judged.by = "llm")
    BY <2>1, TemplateFails DEF GateInv
  <2>3. /\ Len(outputs') = Len(outputs) + 1 /\ DOMAIN outputs' = 1..Len(outputs')
        /\ outputs'[Len(outputs')] = judged
        /\ \A i \in DOMAIN outputs : outputs'[i] = outputs[i]
    BY <2>1 DEF GateInv
  <2>4. QED
    BY <2>1, <2>2, <2>3 DEF GateInv, OnlyTheLlmPasses
<1>4. CASE ComputeScores \/ Select
  BY <1>4 DEF ComputeScores, Select, GateInv, OnlyTheLlmPasses
<1>5. CASE Persist \/ Succeed \/ Push \/ Wake
  BY <1>5 DEF Persist, Succeed, Push, Wake, run, GateInv, OnlyTheLlmPasses
<1>6. CASE Raise
  <2>1. pc' # "gate"
    BY <1>6 DEF Raise, BudgetInv, CountersTyped
  <2>2. QED
    BY <1>6, <2>1 DEF Raise, GateInv, OnlyTheLlmPasses
<1>7. CASE UNCHANGED vars
  BY <1>7 DEF vars, run, GateInv, OnlyTheLlmPasses
<1>8. QED
  BY <1>1, <1>2, <1>3, <1>4, <1>5, <1>6, <1>7 DEF Next, RunStep

\* A template is never published: only what the LLM wrote passes the gate
\* (generate() and QualityGate.evaluate()).
THEOREM TemplatesNeverPass == Spec => []OnlyTheLlmPasses
<1>1. GateInv => OnlyTheLlmPasses
  BY DEF GateInv
<1>2. QED
  BY <1>1, InitGate, NextKeepsGate, BudgetInvariant, PTL DEF Spec

-----------------------------------------------------------------------------
(* Least and greatest elements.  The library proves that < is well-founded *)
(* and that a well-founded relation has minimal elements; neither takes an *)
(* operator, so both can be used here where its induction rules cannot.    *)

LEMMA LeastElement ==
  ASSUME NEW T, T \subseteq Nat, T # {}
  PROVE  \E x \in T : \A y \in T : x <= y
<1> DEFINE R == {p \in Nat \X Nat : p[1] < p[2]}
<1>1. IsWellFoundedOn(R, Nat)
  BY NatLessThanWellFounded, Zenon DEF OpToRel
<1>2. \A x, y \in Nat : x < y => <<x, y>> \in R
  OBVIOUS
<1> HIDE DEF R
<1>3. PICK x \in T : \A y \in T : ~ (<<y, x>> \in R)
  BY <1>1, WFMin
<1>4. \A y \in T : x \in Nat /\ y \in Nat /\ ~ (y < x)
  BY <1>2, <1>3
<1> QED BY <1>4

LEMMA MinIsLeast ==
  ASSUME NEW S, S \subseteq Nat, S # {}
  PROVE  Min(S) \in S /\ \A y \in S : Min(S) <= y
<1>1. \E x \in S : \A y \in S : x <= y
  BY LeastElement
<1> QED BY <1>1 DEF Min

LEMMA MinOfTwo ==
  ASSUME NEW a \in Nat, NEW b \in Nat
  PROVE  Min({a, b}) = IF a <= b THEN a ELSE b
<1>1. Min({a, b}) \in {a, b} /\ Min({a, b}) <= a /\ Min({a, b}) <= b
  BY MinIsLeast
<1> QED BY <1>1

LEMMA MinOfThree ==
  ASSUME NEW a \in Nat, NEW b \in Nat, NEW c \in Nat
  PROVE  Min({a, b, c}) = Min({a, Min({b, c})})
<1>1. /\ Min({a, b, c}) \in {a, b, c}
      /\ Min({a, b, c}) <= a /\ Min({a, b, c}) <= b /\ Min({a, b, c}) <= c
  BY MinIsLeast
<1>2. Min({b, c}) \in Nat
  BY MinOfTwo
<1> QED BY <1>1, <1>2, MinOfTwo

\* Of the subsets without a greatest element none is smallest.
LEMMA MaxIsGreatest ==
  ASSUME NEW S, S \subseteq Nat, S # {}, IsFiniteSet(S)
  PROVE  Max(S) \in S /\ \A y \in S : Max(S) >= y
<1> DEFINE HasMax(A) == \E x \in A : \A y \in A : x >= y
<1> DEFINE Sizes == {n \in Nat : \E A \in SUBSET S :
                                    A # {} /\ ~ HasMax(A) /\ Cardinality(A) = n}
<1>1. ASSUME NEW A \in SUBSET S, A # {}, ~ HasMax(A)
      PROVE  \E n \in Sizes : n < Cardinality(A)
  <2>1. PICK a \in A : TRUE
    BY <1>1
  <2>2. IsFiniteSet(A) /\ Cardinality(A) \in Nat
    BY FS_Subset, FS_CardinalityType
  <2>3. IsFiniteSet(A \ {a}) /\ Cardinality(A \ {a}) = Cardinality(A) - 1
    BY <2>1, <2>2, FS_RemoveElement
  <2>4. Cardinality(A \ {a}) \in Nat
    BY <2>3, FS_CardinalityType
  <2>5. A \ {a} # {}
    BY <1>1, <2>1
  <2>6. ~ HasMax(A \ {a})
    <3>1. SUFFICES ASSUME NEW m \in A \ {a}, \A y \in A \ {a} : m >= y PROVE FALSE
      OBVIOUS
    <3>2. m \in Nat /\ a \in Nat
      BY <2>1
    <3>3. CASE m >= a
      BY <1>1, <3>1, <3>3
    <3>4. CASE a >= m
      <4>1. \A y \in A : y \in Nat /\ a >= y
        BY <3>1, <3>2, <3>4
      <4> QED BY <1>1, <2>1, <4>1
    <3> QED BY <3>2, <3>3, <3>4
  <2>7. Cardinality(A \ {a}) \in Sizes
    BY <2>4, <2>5, <2>6
  <2> QED BY <2>2, <2>3, <2>7
<1>2. Sizes = {}
  <2>1. SUFFICES ASSUME Sizes # {} PROVE FALSE
    OBVIOUS
  <2>2. PICK n \in Sizes : \A k \in Sizes : n <= k
    BY <2>1, LeastElement
  <2>3. PICK A \in SUBSET S : A # {} /\ ~ HasMax(A) /\ Cardinality(A) = n
    BY <2>2
  <2>4. PICK k \in Sizes : k < n
    BY <1>1, <2>3
  <2> QED BY <2>2, <2>4
<1>3. HasMax(S)
  <2>1. Cardinality(S) \in Nat
    BY FS_CardinalityType
  <2> QED BY <1>2, <2>1
<1> QED BY <1>3 DEF Max

-----------------------------------------------------------------------------
(* Scores.                                                                 *)

LEMMA Division ==
  ASSUME NEW a \in Nat, NEW s \in Nat, s > 0
  PROVE  a \div s \in Int /\ s * (a \div s) <= a /\ a < s * (a \div s) + s
  OBVIOUS

LEMMA RoundedShare ==
  ASSUME NEW d \in Nat, NEW s \in Nat, s > 0, d <= s
  PROVE  /\ (100 * d + s - 1) \div s \in 0..100
         /\ (100 * d + s - 1) \div s = 0 <=> d = 0
<1> DEFINE q == (100 * d + s - 1) \div s
<1>1. q \in Int /\ s * q <= 100 * d + s - 1 /\ 100 * d + s - 1 < s * q + s
  BY Division
<1> HIDE DEF q
<1>2. q >= 0 /\ q <= 100 /\ (d > 0 => q > 0) /\ (d = 0 => q = 0)
  BY <1>1
<1> QED BY <1>2 DEF q

\* The share of a value is 0 only where the value is the least one.
LEMMA ShareOfRange ==
  ASSUME NEW V, V \subseteq Nat, IsFiniteSet(V), NEW v \in V
  PROVE  /\ MinMax(v, V) \in 0..100
         /\ MinMax(v, V) = 0 <=> \A w \in V : v <= w
<1>1. /\ Min(V) \in V /\ \A w \in V : Min(V) <= w
      /\ Max(V) \in V /\ \A w \in V : Max(V) >= w
      /\ Min(V) \in Nat /\ Max(V) \in Nat /\ v \in Nat
      /\ \A w \in V : w \in Nat
  <2>1. Min(V) \in V /\ \A w \in V : Min(V) <= w
    BY MinIsLeast
  <2>2. Max(V) \in V /\ \A w \in V : Max(V) >= w
    BY MaxIsGreatest
  <2> QED BY <2>1, <2>2
<1>2. CASE Max(V) = Min(V)
  BY <1>1, <1>2 DEF MinMax
<1>3. CASE Max(V) # Min(V)
  <2> DEFINE d == v - Min(V)  s == Max(V) - Min(V)
  <2>1. d \in Nat /\ s \in Nat /\ s > 0 /\ d <= s
    BY <1>1, <1>3
  <2>2. MinMax(v, V) = (100 * d + s - 1) \div s
    BY <1>3 DEF MinMax
  <2>3. d = 0 <=> \A w \in V : v <= w
    BY <1>1
  <2> HIDE DEF d, s
  <2> QED BY <2>1, <2>2, <2>3, RoundedShare
<1> QED BY <1>2, <1>3

LeadsNobody(m, t) == \A u \in topics : /\ m[t].edges <= m[u].edges
                                       /\ m[t].centrality <= m[u].centrality

\* A topic has no score only where it leads no topic in anything.
LEMMA ScoreOfTopic ==
  ASSUME NEW m \in [Topics -> [edges : Nat, centrality : Nat]],
         topics \subseteq Topics, IsFiniteSet(topics), NEW t \in topics
  PROVE  /\ Score(m, t) \in Nat /\ Score(m, t) \in 0..10000
         /\ Score(m, t) = 0 <=> LeadsNobody(m, t)
<1> DEFINE E == {m[u].edges : u \in topics}  C == {m[u].centrality : u \in topics}
<1>1. E \subseteq Nat /\ m[t].edges \in E /\ C \subseteq Nat /\ m[t].centrality \in C
  OBVIOUS
<1>2. IsFiniteSet(E) /\ IsFiniteSet(C)
  <2>1. /\ [u \in topics |-> m[u].edges] \in Surjection(topics, E)
        /\ [u \in topics |-> m[u].centrality] \in Surjection(topics, C)
    BY DEF Surjection
  <2> QED BY <2>1, FS_Surjection
<1>3. /\ MinMax(m[t].edges, E) \in 0..100
      /\ MinMax(m[t].edges, E) = 0 <=> \A w \in E : m[t].edges <= w
  BY <1>1, <1>2, ShareOfRange
<1>4. /\ MinMax(m[t].centrality, C) \in 0..100
      /\ MinMax(m[t].centrality, C) = 0 <=> \A w \in C : m[t].centrality <= w
  BY <1>1, <1>2, ShareOfRange
<1>5. Score(m, t) = 30 * MinMax(m[t].edges, E) + 25 * MinMax(m[t].centrality, C)
  BY DEF Score
<1>6. /\ (\A w \in E : m[t].edges <= w) <=> \A u \in topics : m[t].edges <= m[u].edges
      /\ (\A w \in C : m[t].centrality <= w)
            <=> \A u \in topics : m[t].centrality <= m[u].centrality
  OBVIOUS
<1> DEFINE e == MinMax(m[t].edges, E)  c == MinMax(m[t].centrality, C)
<1>7. e \in 0..100 /\ c \in 0..100 /\ Score(m, t) = 30 * e + 25 * c
  BY <1>3, <1>4, <1>5
<1>8. /\ e = 0 <=> \A u \in topics : m[t].edges <= m[u].edges
      /\ c = 0 <=> \A u \in topics : m[t].centrality <= m[u].centrality
  BY <1>3, <1>4, <1>6
<1> HIDE DEF e, c
<1>9. Score(m, t) \in Nat /\ Score(m, t) \in 0..10000 /\ (Score(m, t) = 0 <=> e = 0 /\ c = 0)
  BY <1>7
<1>10. e = 0 /\ c = 0 <=> LeadsNobody(m, t)
  BY <1>8, Zenon DEF LeadsNobody
<1> QED BY <1>9, <1>10

-----------------------------------------------------------------------------
(* Selection.                                                              *)

Distinct(s) == \A i, j \in DOMAIN s : s[i] = s[j] => i = j

\* The number of elements of a sequence without repetitions.
LEMMA DistinctCounts ==
  ASSUME NEW S, NEW s \in Seq(S), Distinct(s)
  PROVE  Cardinality({s[i] : i \in DOMAIN s}) = Len(s) /\ IsFiniteSet({s[i] : i \in DOMAIN s})
<1> DEFINE T == {s[i] : i \in DOMAIN s}
<1>1. Len(s) \in Nat /\ s \in [1..Len(s) -> S] /\ DOMAIN s = 1..Len(s)
  BY LenProperties
<1>2. s \in Bijection(1..Len(s), T)
  BY <1>1 DEF Distinct, Bijection, Injection, Surjection, IsInjective
<1>3. ExistsBijection(1..Len(s), T)
  BY <1>2 DEF ExistsBijection
<1> QED BY <1>1, <1>3, FS_CountingElements, FS_NatBijection

\* Among topics that are all different nothing is dropped for diversity: the
\* filter counts those with the same "topic", which is the node itself.
LEMMA DiversityKeepsAll ==
  ASSUME NEW S, NEW order \in Seq(S), Distinct(order)
  PROVE  EnforceDiversity(order) = order
<1> DEFINE n == Len(order)
           IsKept(f) == f = [i \in 0..n |-> IF i = 0 THEN <<>>
                                            ELSE KeepDiverse(f[i - 1], order[i])]
           prefix == [i \in 0..n |-> SubSeq(order, 1, i)]
           kept == CHOOSE f : IsKept(f)
<1>1. n \in Nat /\ DOMAIN order = 1..n /\ \A i \in 1..n : order[i] \in S
  BY LenProperties, ElementOfSeq
<1>2. ASSUME NEW i \in 1..n
      PROVE  KeepDiverse(SubSeq(order, 1, i - 1), order[i]) = SubSeq(order, 1, i)
  <2> DEFINE s == SubSeq(order, 1, i - 1)
  <2>1. /\ s \in Seq(S) /\ DOMAIN s = 1..(i - 1)
        /\ \A k \in 1..(i - 1) : s[k] = order[k]
    <3>1. s \in Seq(S) /\ Len(s) = i - 1 /\ \A k \in 1..(i - 1) : s[k] = order[k]
      BY <1>1, SubSeqProperties
    <3> QED BY <3>1, LenProperties
  <2> HIDE DEF s
  <2>2. {k \in DOMAIN s : s[k] = order[i]} = {}
    BY <1>1, <2>1 DEF Distinct
  <2>3. KeepDiverse(s, order[i]) = Append(s, order[i])
    <3>1. Cardinality({k \in DOMAIN s : s[k] = order[i]}) = 0
      BY <2>2, FS_EmptySet
    <3>2. ~ (0 >= MaxSame)
      BY LimitsAssumption
    <3> QED BY <3>1, <3>2 DEF KeepDiverse
  <2>4. SubSeq(order, 1, i) = s \o <<order[i]>>
    BY <1>1, SubSeqRecursiveSecond DEF s
  <2> QED BY <1>1, <2>1, <2>3, <2>4, AppendIsConcat DEF s
<1>3. IsKept(prefix)
  <2>1. SubSeq(order, 1, 0) = <<>>
    BY SubSeqEmpty
  <2>2. \A i \in 1..n : prefix[i - 1] = SubSeq(order, 1, i - 1)
    BY <1>1
  <2>3. \A i \in 0..n : prefix[i] = IF i = 0 THEN <<>>
                                    ELSE KeepDiverse(prefix[i - 1], order[i])
    <3> SUFFICES ASSUME NEW i \in 0..n
                 PROVE  prefix[i] = IF i = 0 THEN <<>>
                                    ELSE KeepDiverse(prefix[i - 1], order[i])
      OBVIOUS
    <3>1. CASE i = 0
      BY <2>1, <3>1
    <3>2. CASE i # 0
      <4>1. i \in 1..n
        BY <1>1, <3>2
      <4> QED BY <1>2, <2>2, <4>1
    <3> QED BY <3>1, <3>2
  <2>4. DOMAIN prefix = 0..n /\ prefix = [i \in 0..n |-> prefix[i]]
    OBVIOUS
  <2> HIDE DEF prefix, n
  <2> QED BY <2>3, <2>4
<1>4. IsKept(kept)
  BY <1>3
<1> HIDE DEF kept
<1>5. \A i \in 0..n : kept[i] = prefix[i]
  <2> DEFINE Wrong == {i \in 0..n : kept[i] # prefix[i]}
  <2>0. Wrong \subseteq Nat
    BY <1>1
  <2>1. SUFFICES ASSUME Wrong # {} PROVE FALSE
    OBVIOUS
  <2>2. PICK i \in Wrong : \A j \in Wrong : i <= j
    <3> HIDE DEF Wrong
    <3> QED BY <2>0, <2>1, LeastElement
  <2>3. CASE i = 0
    BY <1>1, <1>3, <1>4, <2>2, <2>3
  <2>4. CASE i # 0
    <3>1. i \in 0..n /\ i - 1 \in 0..n /\ i - 1 < i
      BY <1>1, <2>2, <2>4
    <3>2. kept[i - 1] = prefix[i - 1]
      BY <2>2, <3>1
    <3>3. kept[i] = KeepDiverse(kept[i - 1], order[i])
      BY <1>4, <2>4, <3>1
    <3>4. prefix[i] = KeepDiverse(prefix[i - 1], order[i])
      BY <1>3, <2>4, <3>1
    <3> QED BY <2>2, <3>2, <3>3, <3>4
  <2> QED BY <2>3, <2>4
<1>6. kept[n] = order
  BY <1>1, <1>5, SubSeqFull
<1> QED BY <1>6 DEF EnforceDiversity, kept

LEMMA FirstOfSeq ==
  ASSUME NEW S, NEW s \in Seq(S), NEW n \in Nat
  PROVE  /\ First(s, n) \in Seq(S)
         /\ Len(First(s, n)) = Min({n, Len(s)})
         /\ \A i \in 1..Len(First(s, n)) : i \in 1..Len(s) /\ First(s, n)[i] = s[i]
<1> DEFINE m == Min({n, Len(s)})
<1>1. Len(s) \in Nat /\ \A i \in 1..Len(s) : s[i] \in S
  BY LenProperties, ElementOfSeq
<1>2. m \in 0..Len(s)
  BY <1>1, MinOfTwo
<1> HIDE DEF m
<1>3. /\ SubSeq(s, 1, m) \in Seq(S)
      /\ Len(SubSeq(s, 1, m)) = m
      /\ \A i \in 1..m : SubSeq(s, 1, m)[i] = s[i]
  BY <1>1, <1>2, SubSeqProperties
<1>4. First(s, n) = SubSeq(s, 1, m)
  BY DEF First, m
<1>5. Len(First(s, n)) = m /\ \A i \in 1..m : i \in 1..Len(s) /\ First(s, n)[i] = s[i]
  BY <1>1, <1>2, <1>3, <1>4
<1> QED BY <1>3, <1>4, <1>5 DEF m

SetOf(s) == {s[i] : i \in DOMAIN s}

\* What is selected: as many different topics as the limits allow, and no
\* topic without a score before one that has a score.
Selection(line) ==
  /\ line \in Seq(topics) /\ Distinct(line)
  /\ Len(line) = Min({TopK, Quota, Cardinality(topics)})
  /\ \A t \in SetOf(line), u \in topics \ SetOf(line) : scores[t] = 0 => ~ (scores[u] > 0)

LEMMA SelectedOf ==
  ASSUME IsFiniteSet(topics), NEW order \in Orders
  PROVE  Selection(First(First(EnforceDiversity(order), Quota), TopK))
<1> DEFINE N == Cardinality(topics)
           some == First(order, Quota)
           line == First(some, TopK)
<1>1. N \in Nat
  BY FS_CardinalityType
<1>2. /\ order \in [1..N -> topics]
      /\ \A i, j \in 1..N : i # j => order[i] # order[j]
      /\ \A i, j \in 1..Len(order) : scores[order[i]] = 0 /\ scores[order[j]] > 0 => j < i
  BY DEF Orders, SetToSeqs
<1>3. order \in Seq(topics) /\ Len(order) = N /\ DOMAIN order = 1..N /\ Distinct(order)
  BY <1>1, <1>2 DEF Distinct
<1>4. \A u \in topics : \E i \in 1..N : order[i] = u
  <2>1. order \in Injection(1..N, topics)
    BY <1>2 DEF Injection, IsInjective
  <2>2. IsFiniteSet(1..N) /\ Cardinality(1..N) = N
    BY <1>1, FS_Interval
  <2>3. order \in Surjection(1..N, topics)
    BY <2>1, <2>2, FS_Injection
  <2> QED BY <2>3 DEF Surjection
<1>5. EnforceDiversity(order) = order
  BY <1>3, DiversityKeepsAll
<1>6. some \in Seq(topics) /\ Len(some) = Min({Quota, N})
      /\ \A i \in 1..Len(some) : i \in 1..N /\ some[i] = order[i]
  BY <1>3, FirstOfSeq, LimitsAssumption
<1> HIDE DEF some
<1>7. line \in Seq(topics) /\ Len(line) = Min({TopK, Len(some)})
      /\ \A i \in 1..Len(line) : i \in 1..Len(some) /\ line[i] = some[i]
  BY <1>6, FirstOfSeq, LimitsAssumption
<1> HIDE DEF line
<1>8. DOMAIN line = 1..Len(line) /\ \A i \in 1..Len(line) : i \in 1..N /\ line[i] = order[i]
  BY <1>6, <1>7, LenProperties
<1>9. Len(line) = Min({TopK, Quota, N})
  <2>1. Min({TopK, Quota, N}) = Min({TopK, Min({Quota, N})})
    BY <1>1, MinOfThree, LimitsAssumption
  <2> QED BY <1>6, <1>7, <2>1
<1>10. Distinct(line)
  BY <1>3, <1>8 DEF Distinct
<1>11. ASSUME NEW t \in SetOf(line), NEW u \in topics \ SetOf(line),
              scores[t] = 0, scores[u] > 0
       PROVE  FALSE
  <2>1. PICK i \in 1..Len(line) : line[i] = t
    BY <1>8, <1>11 DEF SetOf
  <2>2. PICK j \in 1..N : order[j] = u
    BY <1>4
  <2>3. j < i
    BY <1>2, <1>3, <1>8, <1>11, <2>1, <2>2
  <2>4. Len(line) \in Nat
    BY <1>7, LenProperties
  <2>5. j \in 1..Len(line)
    BY <1>1, <2>1, <2>2, <2>3, <2>4
  <2> QED BY <1>8, <1>11, <2>2, <2>5 DEF SetOf
<1> QED BY <1>5, <1>7, <1>9, <1>10, <1>11 DEF Selection, some, line

-----------------------------------------------------------------------------
(* Types and selection.                                                    *)

Picking == pc \in {"generate", "gate", "succeed"}

TopicsOf(s) == [i \in DOMAIN s |-> s[i].topic]

\* The topics a run selected, in order: those with an output, the one whose
\* text is on its way to the gate, and those that have no text yet.  While a
\* run generates, this sequence does not change.
Line == TopicsOf(outputs) \o TopicsOf(text) \o queue

\* The scores a run reads off its graph.
Scored == [t \in topics |-> Score(measured, t)]

PipelineInv ==
  /\ TypeOK /\ BudgetInv
  /\ pc \in {"score", "select"} => outputs = <<>>
  /\ pc = "select" \/ Picking => scores = Scored
  /\ Picking => Selection(Line)


LEMMA TopicsOfSeq ==
  ASSUME NEW S, NEW R, NEW s \in Seq(R), \A r \in R : r.topic \in S
  PROVE  TopicsOf(s) \in Seq(S) /\ Len(TopicsOf(s)) = Len(s)
<1>1. Len(s) \in Nat /\ DOMAIN s = 1..Len(s) /\ \A i \in 1..Len(s) : s[i] \in R
  BY LenProperties, ElementOfSeq
<1>2. TopicsOf(s) \in [1..Len(s) -> S]
  BY <1>1 DEF TopicsOf
<1> QED BY <1>1, <1>2

LEMMA PartsOfLine ==
  ASSUME TypeOK
  PROVE  /\ TopicsOf(outputs) \in Seq(topics) /\ TopicsOf(text) \in Seq(topics)
         /\ queue \in Seq(topics)
         /\ Len(TopicsOf(outputs)) = Len(outputs) /\ Len(TopicsOf(text)) = Len(text)
<1>1. outputs \in Seq(Made) /\ text \in Seq(Written) /\ queue \in Seq(topics)
  BY Zenon DEF TypeOK, RunTyped, OutputsTyped, TextTyped, QueueTyped
<1>2. (\A r \in Made : r.topic \in topics) /\ (\A r \in Written : r.topic \in topics)
  BY DEF Made, Written
<1> QED BY <1>1, <1>2, TopicsOfSeq

\* The text that is generated next keeps its place.
LEMMA ToGateKeepsLine ==
  ASSUME TypeOK, NEW by \in {"llm", "template"}, NEW as, Generating, ToGate(by, as)
  PROVE  Line' = Line
<1> DEFINE O == TopicsOf(outputs)
<1>1. O \in Seq(topics) /\ queue \in Seq(topics) /\ queue # <<>> /\ O' = O
  BY PartsOfLine DEF Generating, ToGate
<1>2. text = <<>>
  BY EmptySeq DEF TypeOK, RunTyped, TextTyped, Generating
<1>3. TopicsOf(text) = <<>>
  BY <1>2 DEF TopicsOf
<1>4. TopicsOf(text') = <<Head(queue)>>
  BY DEF ToGate, TopicsOf
<1>5. Line = O \o queue
  BY <1>1, <1>3, ConcatEmptySeq DEF Line
<1>6. /\ Head(queue) \in topics /\ Tail(queue) \in Seq(topics)
      /\ <<Head(queue)>> \in Seq(topics) /\ queue = <<Head(queue)>> \o Tail(queue)
  BY <1>1, HeadTailProperties
<1>7. Line' = (O \o <<Head(queue)>>) \o Tail(queue)
  BY <1>1, <1>4 DEF Line, ToGate
<1> HIDE DEF O
<1> QED BY <1>1, <1>5, <1>6, <1>7, ConcatAssociative

LEMMA GateKeepsLine ==
  ASSUME TypeOK, Gate
  PROVE  Line' = Line
<1> DEFINE O == TopicsOf(outputs)  t == text[1].topic
           judged == [topic |-> t, by |-> text[1].by, passed |-> Passes(text[1].as)]
<1>1. O \in Seq(topics) /\ queue \in Seq(topics) /\ queue' = queue
  BY PartsOfLine DEF Gate
<1>2. text \in Seq(Written) /\ Len(text) = 1
  BY DEF TypeOK, RunTyped, TextTyped, Gate
<1>3. DOMAIN text = {1} /\ t \in topics
  <2>1. \A r \in Written : r.topic \in topics
    BY DEF Written
  <2>2. DOMAIN text = 1..1 /\ text[1] \in Written
    BY <1>2, LenProperties, ElementOfSeq
  <2> QED BY <2>1, <2>2
<1>4. TopicsOf(text) = <<t>>
  BY <1>3 DEF TopicsOf
<1>5. TopicsOf(text') = <<>>
  BY DEF Gate, TopicsOf
<1>6. TopicsOf(outputs') = Append(O, t)
  <2>1. outputs' = Append(outputs, judged) /\ judged.topic = t
    BY DEF Gate
  <2>2. /\ Len(outputs) \in Nat /\ DOMAIN outputs = 1..Len(outputs)
        /\ Len(O) = Len(outputs)
    BY LenProperties, PartsOfLine DEF TypeOK, RunTyped, OutputsTyped
  <2>3. /\ DOMAIN outputs' = 1..(Len(outputs) + 1)
        /\ \A i \in 1..Len(outputs) : outputs'[i] = outputs[i]
        /\ outputs'[Len(outputs) + 1] = judged
    BY <2>1, <2>2, LenProperties DEF TypeOK, RunTyped, OutputsTyped
  <2> HIDE DEF judged
  <2> QED BY <2>1, <2>2, <2>3 DEF TopicsOf
<1>7. Line' = (Append(O, t) \o <<>>) \o queue
  BY <1>1, <1>5, <1>6 DEF Line
<1>8. Line = (O \o <<t>>) \o queue
  BY <1>4 DEF Line
<1> HIDE DEF O, t
<1>9. Append(O, t) = O \o <<t>> /\ Append(O, t) \in Seq(topics)
  BY <1>1, <1>3, AppendIsConcat, AppendProperties
<1> QED BY <1>7, <1>8, <1>9, ConcatEmptySeq

LEMMA CallStep ==
  ASSUME CallTyped, BudgetInv, [Next]_vars
  PROVE  CallTyped'
<1> USE LimitsAssumption DEF BudgetInv, CountersTyped, ChargesAddUp, Running, CallTyped
<1>1. CASE Begin
  BY <1>1 DEF Begin
<1>2. CASE ComputeScores \/ Select \/ Gate \/ Persist \/ Succeed \/ Push
  BY <1>2 DEF ComputeScores, Select, Gate, Persist, Succeed, Push, money
<1>3. CASE GenerateOffline
  BY <1>3 DEF GenerateOffline, Generating, ToGate, money
<1>4. CASE GenerateOnline
  BY <1>4 DEF GenerateOnline, Generating, BudgetOk, ToGate
<1>5. CASE AnswerLost
  BY <1>5 DEF AnswerLost, Generating, BudgetOk, ToGate
<1>6. CASE Raise
  BY <1>6 DEF Raise, money
<1>7. CASE Wake
  BY <1>7 DEF Wake
<1>8. CASE UNCHANGED vars
  BY <1>8 DEF vars, money
<1> QED BY <1>1, <1>2, <1>3, <1>4, <1>5, <1>6, <1>7, <1>8 DEF Next, RunStep

\* What a run makes of its topics keeps its type while they stay.
LEMMA SameTopics == topics' = topics => Written' = Written /\ Made' = Made
  BY DEF Written, Made

\* A step that leaves a part of the run alone keeps that part's type.
LEMMA PartsStay ==
  ASSUME RunTyped, topics' = topics
  PROVE  /\ UNCHANGED measured => TopicsTyped'
         /\ UNCHANGED scores => ScoresTyped'
         /\ UNCHANGED queue => QueueTyped'
         /\ UNCHANGED text /\ (pc' = "gate" <=> pc = "gate") => TextTyped'
         /\ text' = <<>> /\ pc' # "gate" => TextTyped'
         /\ UNCHANGED outputs => OutputsTyped'
<1>1. TopicsTyped /\ ScoresTyped /\ QueueTyped /\ TextTyped /\ OutputsTyped
  BY Zenon DEF RunTyped
<1>2. Written' = Written /\ Made' = Made
  BY SameTopics
<1>3. UNCHANGED measured => TopicsTyped'
  BY <1>1 DEF TopicsTyped
<1>4. UNCHANGED scores => ScoresTyped'
  BY <1>1 DEF ScoresTyped
<1>5. UNCHANGED queue => QueueTyped'
  BY <1>1 DEF QueueTyped
<1>6. UNCHANGED text /\ (pc' = "gate" <=> pc = "gate") => TextTyped'
  BY <1>1, <1>2 DEF TextTyped
<1>7. text' = <<>> /\ pc' # "gate" => TextTyped'
  BY EmptySeq DEF TextTyped
<1>8. UNCHANGED outputs => OutputsTyped'
  BY <1>1, <1>2 DEF OutputsTyped
<1> QED BY <1>3, <1>4, <1>5, <1>6, <1>7, <1>8, Zenon

\* The topics of a run are those of the seeds and of finitely many documents.
LEMMA BeginTyped ==
  ASSUME RunTyped, Begin
  PROVE  TopicsTyped'
<1>1. PICK batch \in Batches : \E kept \in Unique(batch) :
         topics' = SeedTopics \cup {TopicOf[batch[i]] : i \in kept}
  BY DEF Begin
<1>2. PICK kept \in Unique(batch) :
         topics' = SeedTopics \cup {TopicOf[batch[i]] : i \in kept}
  BY <1>1
<1> DEFINE T == {TopicOf[batch[i]] : i \in kept}
<1>3. batch \in Seq(Docs)
  BY DocsAssumption
<1>4. Len(batch) \in Nat /\ kept \subseteq 1..Len(batch) /\ \A i \in kept : batch[i] \in Docs
  BY <1>3, LenProperties, ElementOfSeq DEF Unique
<1>5. IsFiniteSet(kept)
  <2>1. IsFiniteSet(1..Len(batch))
    BY <1>4, FS_Interval
  <2> QED BY <1>4, <2>1, FS_Subset
<1>6. [i \in kept |-> TopicOf[batch[i]]] \in Surjection(kept, T)
  BY DEF Surjection
<1>7. IsFiniteSet(T)
  BY <1>5, <1>6, FS_Surjection
<1>8. T \subseteq Topics
  BY <1>4, DocsAssumption
<1> HIDE DEF T
<1>9. topics' \subseteq Topics /\ IsFiniteSet(topics')
  BY <1>2, <1>7, <1>8, TopicsAssumption, FS_Union DEF T
<1>10. measured' \in Measures
  BY DEF Begin, RunTyped, TopicsTyped
<1> QED BY <1>9, <1>10 DEF TopicsTyped

LEMMA TemplateIsText == Template \in Texts
  BY DEF Template, Texts

LEMMA ToGateTyped ==
  ASSUME RunTyped, NEW by \in {"llm", "template"}, NEW as \in Texts, Generating, ToGate(by, as)
  PROVE  RunTyped'
<1> DEFINE w == [topic |-> Head(queue), by |-> by, as |-> as]
<1>1. queue \in Seq(topics) /\ queue # <<>> /\ Len(queue) \in Nat
  BY LenProperties DEF RunTyped, QueueTyped, Generating
<1>2. /\ Head(queue) \in topics /\ Tail(queue) \in Seq(topics)
      /\ Len(Tail(queue)) = Len(queue) - 1
  BY <1>1, HeadTailProperties
<1>3. w \in Written
  BY <1>2 DEF Written
<1>4. text' = <<w>> /\ queue' = Tail(queue) /\ pc' = "gate"
  BY DEF ToGate
<1> HIDE DEF w
<1>5. text' \in Seq(Written) /\ Len(text') = 1
  BY <1>3, <1>4
<1>6. Len(queue') <= TopK
  BY <1>1, <1>2, <1>4, LimitsAssumption DEF RunTyped, QueueTyped
<1>7. UNCHANGED <<topics, measured, scores, outputs>>
  BY DEF ToGate
<1>8. TextTyped'
  BY <1>4, <1>5, <1>7, SameTopics DEF TextTyped
<1>9. QueueTyped'
  BY <1>2, <1>4, <1>6, <1>7 DEF QueueTyped
<1>10. TopicsTyped' /\ ScoresTyped' /\ OutputsTyped'
  BY <1>7, PartsStay
<1> QED BY <1>8, <1>9, <1>10, Zenon DEF RunTyped

LEMMA GateTyped ==
  ASSUME RunTyped, Gate
  PROVE  RunTyped'
<1> DEFINE made == [topic |-> text[1].topic, by |-> text[1].by, passed |-> Passes(text[1].as)]
<1>1. text \in Seq(Written) /\ Len(text) = 1
  BY DEF RunTyped, TextTyped, Gate
<1>2. text[1] \in Written
  BY <1>1, ElementOfSeq
<1>3. made \in Made
  BY <1>2 DEF Written, Made, Passes
<1>4. outputs' = Append(outputs, made) /\ text' = <<>> /\ pc' = "generate"
  BY DEF Gate
<1> HIDE DEF made
<1>5. outputs' \in Seq(Made)
  BY <1>3, <1>4, AppendProperties DEF RunTyped, OutputsTyped
<1>6. UNCHANGED <<topics, measured, scores, queue>>
  BY DEF Gate
<1>7. OutputsTyped'
  BY <1>5, <1>6, SameTopics DEF OutputsTyped
<1>8. TopicsTyped' /\ ScoresTyped' /\ QueueTyped' /\ TextTyped'
  BY <1>4, <1>6, PartsStay
<1> QED BY <1>7, <1>8, Zenon DEF RunTyped

LEMMA RunTypedStep ==
  ASSUME CallTyped, RunTyped, BudgetInv, [Next]_vars
  PROVE  RunTyped'
<1>1. CASE Begin
  <2>1. TopicsTyped'
    BY <1>1, BeginTyped
  <2>2. scores' = <<>> /\ queue' = <<>> /\ text' = <<>> /\ outputs' = <<>> /\ pc' = "score"
    BY <1>1 DEF Begin
  <2>3. ScoresTyped'
    BY <2>2 DEF ScoresTyped
  <2>4. QueueTyped'
    BY <2>2, EmptySeq, LimitsAssumption DEF QueueTyped
  <2>5. TextTyped'
    BY <2>2, EmptySeq DEF TextTyped
  <2>6. OutputsTyped'
    BY <2>2, EmptySeq DEF OutputsTyped
  <2> QED BY <2>1, <2>3, <2>4, <2>5, <2>6, Zenon DEF RunTyped
<1>2. CASE ComputeScores
  <2>1. PICK m \in Measures : measured' = m /\ scores' = [t \in topics |-> Score(m, t)]
    BY <1>2 DEF ComputeScores
  <2>2. topics \subseteq Topics /\ IsFiniteSet(topics)
    BY DEF RunTyped, TopicsTyped
  <2>3. \A t \in topics : Score(m, t) \in 0..10000
    <3>1. m \in [Topics -> [edges : Nat, centrality : Nat]]
      BY MeasuresAssumption
    <3> QED BY <2>2, <3>1, ScoreOfTopic
  <2>4. UNCHANGED <<topics, queue, text, outputs>> /\ pc = "score" /\ pc' = "select"
    BY <1>2 DEF ComputeScores
  <2>5. ScoresTyped'
    BY <2>1, <2>3, <2>4 DEF ScoresTyped
  <2>6. TopicsTyped'
    BY <2>1, <2>2, <2>4 DEF TopicsTyped
  <2>7. QueueTyped' /\ TextTyped' /\ OutputsTyped'
    BY <2>4, PartsStay
  <2> QED BY <2>5, <2>6, <2>7, Zenon DEF RunTyped
<1>3. CASE Select
  <2>1. PICK order \in Orders : queue' = First(First(EnforceDiversity(order), Quota), TopK)
    BY <1>3 DEF Select
  <2>2. topics \subseteq Topics /\ IsFiniteSet(topics)
    BY DEF RunTyped, TopicsTyped
  <2>3. Selection(queue')
    BY <2>1, <2>2, SelectedOf
  <2>4. queue' \in Seq(topics) /\ Len(queue') = Min({TopK, Quota, Cardinality(topics)})
    BY <2>3 DEF Selection
  <2>5. Len(queue') <= TopK
    <3>1. Cardinality(topics) \in Nat
      BY <2>2, FS_CardinalityType
    <3>2. {TopK, Quota, Cardinality(topics)} \subseteq Nat
      BY <3>1, LimitsAssumption
    <3> QED BY <2>4, <3>2, MinIsLeast
  <2>6. /\ UNCHANGED <<topics, measured, scores, text, outputs>>
        /\ pc = "select" /\ pc' = "generate"
    BY <1>3 DEF Select
  <2>7. QueueTyped'
    BY <2>4, <2>5, <2>6 DEF QueueTyped
  <2>8. TopicsTyped' /\ ScoresTyped' /\ TextTyped' /\ OutputsTyped'
    BY <2>6, PartsStay
  <2> QED BY <2>7, <2>8, Zenon DEF RunTyped
<1>4. CASE GenerateOffline \/ GenerateOnline \/ AnswerLost
  BY <1>4, ToGateTyped, TemplateIsText, AnswersAssumption
  DEF GenerateOffline, GenerateOnline, AnswerLost
<1>5. CASE Gate
  BY <1>5, GateTyped
<1>6. CASE Persist \/ Succeed \/ Push \/ Wake
  <2>1. UNCHANGED <<topics, measured, scores, queue, text, outputs>>
        /\ pc # "gate" /\ pc' # "gate"
    BY <1>6 DEF Persist, Succeed, Push, Wake, run
  <2>2. TopicsTyped' /\ ScoresTyped' /\ QueueTyped' /\ TextTyped' /\ OutputsTyped'
    BY <2>1, PartsStay
  <2> QED BY <2>2, Zenon DEF RunTyped
<1>7. CASE Raise
  <2>1. pc' # "gate" /\ text' = <<>> /\ UNCHANGED <<topics, measured, scores, queue, outputs>>
    BY <1>7 DEF Raise, BudgetInv, CountersTyped
  <2>2. TopicsTyped' /\ ScoresTyped' /\ QueueTyped' /\ TextTyped' /\ OutputsTyped'
    BY <2>1, PartsStay
  <2> QED BY <2>2, Zenon DEF RunTyped
<1>8. CASE UNCHANGED vars
  <2>1. UNCHANGED <<topics, measured, scores, queue, text, outputs, pc>>
    BY <1>8 DEF vars, run
  <2>2. TopicsTyped' /\ ScoresTyped' /\ QueueTyped' /\ TextTyped' /\ OutputsTyped'
    BY <2>1, PartsStay
  <2> QED BY <2>2, Zenon DEF RunTyped
<1> QED BY <1>1, <1>2, <1>3, <1>4, <1>5, <1>6, <1>7, <1>8 DEF Next, RunStep

LEMMA SameScores ==
  ASSUME UNCHANGED <<topics, measured>>
  PROVE  Scored' = Scored
  BY DEF Scored, Score

LEMMA SelectionStays ==
  ASSUME Selection(Line), UNCHANGED <<topics, scores>>, Line' = Line
  PROVE  Selection(Line)'
  BY DEF Selection

LEMMA InitPipeline == Init => PipelineInv
<1> SUFFICES ASSUME Init PROVE PipelineInv
  OBVIOUS
<1>1. BudgetInv
  BY InitBudget
<1>2. CallTyped
  <2>1. spent \in 0..Budget /\ billed \in Nat /\ lost \in 0..billed
    BY LimitsAssumption DEF Init
  <2>2. attempt = 0 /\ attempt \in 0..2 /\ attempt < 2
    BY DEF Init
  <2>3. caller \in {"poll", "flow"} /\ pc = "sleep" /\ unpushed \in BOOLEAN
    BY DEF Init
  <2> QED BY <2>1, <2>2, <2>3 DEF CallTyped
<1>3. RunTyped
  <2>1. /\ DOMAIN scores = {} /\ queue \in Seq(topics) /\ text \in Seq(Written)
        /\ outputs \in Seq(Made) /\ Len(queue) = 0 /\ Len(text) = 0
    BY EmptySeq DEF Init
  <2>2. TopicsTyped
    BY FS_EmptySet DEF Init, TopicsTyped
  <2>3. ScoresTyped
    BY <2>1 DEF ScoresTyped
  <2>4. QueueTyped
    BY <2>1, LimitsAssumption DEF QueueTyped
  <2>5. TextTyped
    BY <2>1 DEF TextTyped, Init
  <2>6. OutputsTyped
    BY <2>1 DEF OutputsTyped
  <2> QED BY <2>2, <2>3, <2>4, <2>5, <2>6, Zenon DEF RunTyped
<1>4. TypeOK
  BY <1>2, <1>3 DEF TypeOK
<1> QED BY <1>1, <1>4 DEF Init, PipelineInv, Picking

LEMMA NextKeepsPipeline ==
  ASSUME PipelineInv, [Next]_vars
  PROVE  PipelineInv'
<1>0. CallTyped /\ RunTyped /\ BudgetInv /\ TypeOK /\ IsFiniteSet(topics)
  BY DEF PipelineInv, TypeOK, RunTyped, TopicsTyped
<1>1. BudgetInv' /\ CallTyped' /\ RunTyped'
  BY <1>0, NextKeepsBudget, CallStep, RunTypedStep
<1>2. TypeOK'
  BY <1>1 DEF TypeOK
<1> DEFINE Rest == /\ pc \in {"score", "select"} => outputs = <<>>
                   /\ pc = "select" \/ Picking => scores = Scored
                   /\ Picking => Selection(Line)
<1>3. Rest
  BY DEF PipelineInv
<1> SUFFICES Rest'
  BY <1>1, <1>2 DEF PipelineInv
<1>4. CASE Begin
  BY <1>4 DEF Begin, Picking
<1>5. CASE ComputeScores
  <2>1. PICK m \in Measures : measured' = m /\ scores' = [t \in topics |-> Score(m, t)]
    BY <1>5 DEF ComputeScores
  <2>2. UNCHANGED <<topics, outputs>> /\ pc = "score" /\ pc' = "select"
    BY <1>5 DEF ComputeScores
  <2>3. Scored' = scores'
    BY <2>1, <2>2 DEF Scored, Score
  <2> QED BY <1>3, <2>2, <2>3 DEF Picking
<1>6. CASE Select
  <2>1. PICK order \in Orders : queue' = First(First(EnforceDiversity(order), Quota), TopK)
    BY <1>6 DEF Select
  <2>2. /\ UNCHANGED <<topics, measured, scores, text, outputs>>
        /\ pc = "select" /\ pc' = "generate"
    BY <1>6 DEF Select
  <2>3. Selection(queue')
    BY <1>0, <2>1, SelectedOf
  <2>4. Line' = queue'
    <3>1. outputs' = <<>> /\ text' = <<>> /\ queue' \in Seq(topics)
      <4>1. outputs' = <<>> /\ queue' \in Seq(topics)
        BY <1>3, <2>2, <2>3 DEF Selection
      <4>2. text \in Seq(Written) /\ Len(text) = 0
        BY <1>0, <2>2 DEF RunTyped, TextTyped
      <4>3. text' = <<>>
        BY <2>2, <4>2, EmptySeq
      <4> QED BY <4>1, <4>3
    <3>2. TopicsOf(outputs') = <<>> /\ TopicsOf(text') = <<>>
      BY <3>1 DEF TopicsOf
    <3> QED BY <3>1, <3>2, ConcatEmptySeq, EmptySeq DEF Line
  <2>5. Selection(Line)'
    BY <2>2, <2>3, <2>4 DEF Selection
  <2>6. scores' = Scored' /\ pc' = "generate"
    BY <1>3, <2>2, SameScores
  <2> QED BY <2>5, <2>6
<1>7. ASSUME UNCHANGED <<topics, measured, scores>>, Line' = Line, Picking, Picking'
      PROVE  Rest'
  <2>1. Selection(Line)'
    BY <1>3, <1>7, SelectionStays
  <2>2. scores' = Scored'
    BY <1>3, <1>7, SameScores
  <2> QED BY <1>7, <2>1, <2>2 DEF Picking
<1>8. CASE GenerateOffline \/ GenerateOnline \/ AnswerLost
  <2>1. PICK by \in {"llm", "template"} : \E as : Generating /\ ToGate(by, as)
    BY <1>8 DEF GenerateOffline, GenerateOnline, AnswerLost
  <2>2. PICK as : Generating /\ ToGate(by, as)
    BY <2>1
  <2>3. Line' = Line
    BY <1>0, <2>2, ToGateKeepsLine
  <2> QED BY <1>7, <2>2, <2>3 DEF Generating, ToGate, Picking
<1>9. CASE Gate
  <2>1. Line' = Line
    BY <1>0, <1>9, GateKeepsLine
  <2> QED BY <1>7, <1>9, <2>1 DEF Gate, Picking
<1>10. CASE Persist
  BY <1>7, <1>10 DEF Persist, run, Picking, Line
<1>11. CASE Succeed \/ Push \/ Wake \/ Raise
  <2>1. pc' \in {"push", "sleep", "begin"}
    BY <1>0, <1>11 DEF Succeed, Push, Wake, Raise, BudgetInv, CountersTyped
  <2> QED BY <2>1 DEF Picking
<1>12. CASE UNCHANGED vars
  <2>1. UNCHANGED <<topics, measured, scores, text, outputs, queue, pc>>
    BY <1>12 DEF vars, run
  <2>2. Line' = Line /\ Picking' = Picking
    BY <2>1 DEF Line, Picking
  <2>3. CASE Picking
    BY <1>7, <2>1, <2>2, <2>3
  <2>4. CASE ~ Picking
    <3>1. pc = "select" => scores' = Scored'
      BY <1>3, <2>1, SameScores
    <3> QED BY <1>3, <2>1, <2>2, <2>4, <3>1
  <2> QED BY <2>3, <2>4
<1> QED BY <1>4, <1>5, <1>6, <1>8, <1>9, <1>10, <1>11, <1>12 DEF Next, RunStep

THEOREM PipelineInvariant == Spec => []PipelineInv
<1> QED BY InitPipeline, NextKeepsPipeline, PTL DEF Spec

\* Every variable of a run and of its callers keeps its type: what is selected
\* and written is about topics of the graph, no more than top_k texts, and the
\* generator's count stays within the budget.
THEOREM PipelineTypes == Spec => []TypeOK
<1>1. PipelineInv => TypeOK
  BY DEF PipelineInv
<1> QED BY <1>1, PipelineInvariant, PTL

\* The topics that are selected are those of the line.
LEMMA SelectedIsLine ==
  ASSUME TypeOK
  PROVE  Selected = SetOf(Line) /\ Len(Line) = Len(outputs) + Len(text) + Len(queue)
<1> DEFINE O == TopicsOf(outputs)  W == TopicsOf(text)
<1>1. /\ O \in Seq(topics) /\ W \in Seq(topics) /\ queue \in Seq(topics)
      /\ Len(O) = Len(outputs) /\ Len(W) = Len(text)
  BY PartsOfLine
<1>2. /\ SetOf(O) = {outputs[i].topic : i \in DOMAIN outputs}
      /\ SetOf(W) = {text[i].topic : i \in DOMAIN text}
  BY DEF SetOf, TopicsOf
<1>3. Selected = SetOf(O) \cup SetOf(W) \cup SetOf(queue)
  BY <1>2 DEF Selected, Ahead, SetOf
<1> HIDE DEF O, W
<1>4. ASSUME NEW s \in Seq(topics), NEW r \in Seq(topics)
      PROVE  /\ s \o r \in Seq(topics) /\ Len(s \o r) = Len(s) + Len(r)
             /\ SetOf(s \o r) = SetOf(s) \cup SetOf(r)
  <2>1. SetOf(s) = Range(s) /\ SetOf(r) = Range(r) /\ SetOf(s \o r) = Range(s \o r)
    BY DEF SetOf, Range
  <2> QED BY <2>1, ConcatProperties, RangeConcatenation
<1>5. O \o W \in Seq(topics) /\ Len(O \o W) = Len(O) + Len(W)
      /\ SetOf(O \o W) = SetOf(O) \cup SetOf(W)
  BY <1>1, <1>4
<1>6. /\ Len((O \o W) \o queue) = Len(O \o W) + Len(queue)
      /\ SetOf((O \o W) \o queue) = SetOf(O \o W) \cup SetOf(queue)
  BY <1>1, <1>4, <1>5
<1>7. Line = (O \o W) \o queue
  BY DEF Line, O, W
<1> QED BY <1>1, <1>3, <1>5, <1>6, <1>7

\* Whatever order the draws put the candidates in, a run selects exactly as
\* many different topics as top_k, the quota and its graph allow, writes one
\* text for each, and takes a topic that leads in nothing only when every
\* topic it leaves out leads in nothing either (graph_score.py:58-91,
\* selector.py:54-92).
THEOREM SelectionSound == Spec => []SelectionIsSound
<1>1. PipelineInv => SelectionIsSound
  <2> SUFFICES ASSUME PipelineInv, Picking
               PROVE  /\ Cardinality(Selected) = Min({TopK, Quota, Cardinality(topics)})
                      /\ Len(outputs) + Len(text) + Len(queue) = Cardinality(Selected)
                      /\ \A t \in Selected, u \in topics \ Selected : Behind(t) => Behind(u)
    BY DEF SelectionIsSound, Picking
  <2>1. TypeOK /\ Selection(Line) /\ scores = Scored
    BY DEF PipelineInv
  <2>2. Selected = SetOf(Line) /\ Len(Line) = Len(outputs) + Len(text) + Len(queue)
    BY <2>1, SelectedIsLine
  <2>3. Cardinality(SetOf(Line)) = Len(Line)
    BY <2>1, DistinctCounts DEF Selection, SetOf
  <2>4. ASSUME NEW t \in Selected, NEW u \in topics \ Selected, Behind(t)
        PROVE  Behind(u)
    <3>1. Selected \subseteq topics
      BY <2>1, <2>2, LenProperties, ElementOfSeq DEF Selection, SetOf
    <3>2. measured \in [Topics -> [edges : Nat, centrality : Nat]]
      BY <2>1, MeasuresAssumption DEF TypeOK, RunTyped, TopicsTyped
    <3>3. \A v \in topics : /\ Score(measured, v) \in Nat
                            /\ Score(measured, v) = 0 <=> LeadsNobody(measured, v)
      <4>1. topics \subseteq Topics /\ IsFiniteSet(topics)
        BY DEF PipelineInv, TypeOK, RunTyped, TopicsTyped
      <4> QED BY <3>2, <4>1, ScoreOfTopic
    <3>4. scores[t] = 0
      <4>1. t \in topics /\ LeadsNobody(measured, t)
        BY <2>4, <3>1 DEF Behind, LeadsNobody
      <4> QED BY <2>1, <3>3, <4>1 DEF Scored
    <3>5. ~ (scores[u] > 0)
      BY <2>1, <2>2, <2>4, <3>4 DEF Selection
    <3>6. Score(measured, u) = 0
      <4>1. u \in topics /\ scores[u] = Score(measured, u)
        BY <2>1, <2>4 DEF Scored
      <4>2. scores[u] \in Nat
        BY <3>3, <4>1
      <4> QED BY <3>5, <4>1, <4>2
    <3> QED BY <2>4, <3>3, <3>6 DEF Behind, LeadsNobody
  <2> QED BY <2>1, <2>2, <2>3, <2>4 DEF Selection
<1> QED BY <1>1, PipelineInvariant, PTL

-----------------------------------------------------------------------------
(* Calls per attempt.                                                      *)

\* What n attempts may be charged: one call for each text they select.
Allowed(n) == IF n = 0 THEN 0 ELSE IF n = 1 THEN TopK ELSE TopK + TopK

\* Before it generates, an attempt was charged nothing; while it does, every
\* selected topic without a text may still cost a call.
CallsInv ==
  /\ billed <= Allowed(attempt)
  /\ pc \in {"score", "select"} => billed <= Allowed(attempt - 1)
  /\ pc \in {"generate", "gate"} => billed + Len(queue) <= Allowed(attempt)

LEMMA AllowedGrows ==
  ASSUME NEW n \in 1..2
  PROVE  /\ Allowed(n) = Allowed(n - 1) + TopK
         /\ Allowed(n) \in Nat /\ Allowed(n - 1) \in Nat
  BY LimitsAssumption DEF Allowed

LEMMA CallsStep ==
  ASSUME PipelineInv, CallsInv, [Next]_vars
  PROVE  CallsInv'
<1>0. /\ CountersTyped /\ TypeOK /\ RunTyped'
      /\ queue \in Seq(topics) /\ Len(queue) \in Nat
      /\ Len(queue') \in Nat /\ Len(queue') <= TopK
  <2>1. TypeOK /\ BudgetInv /\ CallTyped /\ RunTyped
    BY DEF PipelineInv, TypeOK
  <2>2. RunTyped'
    BY <2>1, RunTypedStep
  <2>3. queue \in Seq(topics) /\ queue' \in Seq(topics') /\ Len(queue') <= TopK
    BY <2>1, <2>2, Zenon DEF RunTyped, QueueTyped
  <2>4. Len(queue) \in Nat /\ Len(queue') \in Nat
    BY <2>3, LenProperties
  <2> QED BY <2>1, <2>2, <2>3, <2>4, Zenon DEF BudgetInv
<1>1. CASE Begin
  <2>1. attempt \in 0..1 /\ attempt' = attempt + 1 /\ billed' = billed /\ pc' = "score"
    BY <1>0, <1>1 DEF Begin, CountersTyped
  <2>2. billed' <= Allowed(attempt' - 1) /\ attempt' \in 1..2 /\ billed' \in Nat
    BY <1>0, <2>1 DEF CallsInv, CountersTyped
  <2> QED BY <2>1, <2>2, AllowedGrows, LimitsAssumption DEF CallsInv
<1>2. CASE ComputeScores
  BY <1>2 DEF ComputeScores, money, CallsInv
<1>3. CASE Select
  <2>1. /\ attempt \in 1..2 /\ attempt' = attempt /\ billed' = billed /\ pc' = "generate"
        /\ billed \in Nat /\ billed <= Allowed(attempt - 1)
    BY <1>0, <1>3 DEF Select, money, CountersTyped, CallsInv
  <2>2. billed + Len(queue') <= Allowed(attempt)
    BY <1>0, <2>1, AllowedGrows, LimitsAssumption
  <2> QED BY <1>0, <2>1, <2>2 DEF CallsInv
<1>4. CASE GenerateOffline \/ GenerateOnline \/ AnswerLost
  <2>1. /\ attempt \in 1..2 /\ attempt' = attempt /\ pc = "generate" /\ pc' = "gate"
        /\ billed \in Nat /\ billed' \in {billed, billed + 1}
    BY <1>0, <1>4
    DEF GenerateOffline, GenerateOnline, AnswerLost, Generating, ToGate, money, CountersTyped
  <2>2. Len(queue') = Len(queue) - 1
    BY <1>0, <1>4, HeadTailProperties
    DEF GenerateOffline, GenerateOnline, AnswerLost, Generating, ToGate
  <2>3. billed' + Len(queue') <= Allowed(attempt)
    BY <1>0, <2>1, <2>2, AllowedGrows DEF CallsInv
  <2> QED BY <1>0, <2>1, <2>3, AllowedGrows DEF CallsInv
<1>5. CASE Gate
  BY <1>5 DEF Gate, money, CallsInv
<1>6. CASE Persist \/ Succeed \/ Push \/ Raise
  <2>1. billed' = billed /\ attempt' = attempt /\ pc' \in {"succeed", "push", "sleep", "begin"}
    BY <1>0, <1>6 DEF Persist, Succeed, Push, Raise, money, CountersTyped
  <2> QED BY <2>1 DEF CallsInv
<1>7. CASE Wake
  BY <1>7 DEF Wake, CallsInv, Allowed
<1>8. CASE UNCHANGED vars
  BY <1>8 DEF vars, run, money, CallsInv
<1> QED BY <1>1, <1>2, <1>3, <1>4, <1>5, <1>6, <1>7, <1>8 DEF Next, RunStep

\* However often a run is tried and whatever answers are lost, an attempt is
\* charged at most one call for each of the top_k texts it may select, and no
\* more than the budget and what was lost (blog_generator.py:46-52,72-90).
THEOREM BudgetHolds == Spec => []BudgetHoldsPerAttempt
<1>1. PipelineInv /\ CallsInv => BudgetHoldsPerAttempt
  <2> SUFFICES ASSUME PipelineInv, CallsInv PROVE BudgetHoldsPerAttempt
    OBVIOUS
  <2>1. attempt \in 0..2 /\ ChargesAreBounded
    BY LimitsAssumption
    DEF PipelineInv, BudgetInv, CountersTyped, ChargesAddUp, ChargesAreBounded
  <2>2. Allowed(attempt) = attempt * TopK
    BY <2>1, LimitsAssumption DEF Allowed
  <2> QED BY <2>1, <2>2 DEF BudgetHoldsPerAttempt, CallsInv
<1>2. Init => CallsInv
  BY DEF Init, CallsInv, Allowed
<1>3. PipelineInv /\ CallsInv /\ [Next]_vars => CallsInv'
  BY CallsStep
<1> QED BY <1>1, <1>2, <1>3, PipelineInvariant, PTL DEF Spec
=============================================================================

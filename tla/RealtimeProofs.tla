--------------------------- MODULE RealtimeProofs ---------------------------
(***************************************************************************)
(* What TLAPS proves of Realtime and of the Deduplicator it uses, for any  *)
(* documents, keys, signatures and faults.                                 *)
(***************************************************************************)
EXTENDS Realtime, TLAPS

USE DocsAssumption, BudgetAssumption, NoTextAssumption

\* What a call that persists has still to upsert is all that is missing.
UpsertsAll == pc = "persist" => topics \subseteq table \cup todo

SeenInv ==
  /\ RealtimeTypeOK
  /\ LookalikesOnlyByReuse
  /\ SeenIsStored
  /\ UpsertsAll

-----------------------------------------------------------------------------
(* The deduplicator.                                                       *)

LEMMA AlikeIsSymmetric == \A t, u : Alike(t, u) <=> Alike(u, t)
<1>. TAKE t, u
<1>1. {i \in Positions : Sig[t][i] = Sig[u][i]} = {i \in Positions : Sig[u][i] = Sig[t][i]}
  OBVIOUS
<1>2. (Bits[t] \ Bits[u]) \cup (Bits[u] \ Bits[t])
        = (Bits[u] \ Bits[t]) \cup (Bits[t] \ Bits[u])
  OBVIOUS
<1>3. Similar(t, u) <=> Similar(u, t)
  BY <1>1 DEF Similar
<1>4. Close(t, u) <=> Close(u, t)
  BY <1>2 DEF Close
<1>5. QED
  BY <1>3, <1>4 DEF Alike

\* A text that passes the three checks is like no text that still has its
\* signature: a similar one would share a band and be a candidate.
LEMMA PassedIsUnlike ==
  ASSUME SeenType, NEW t \in Texts, ~Duplicate(t), NEW p \in filed, Alike(t, p[2])
  PROVE  latest[p[1]] # p[2] /\ p[2] # t
<1>1. p[1] \in DocKeys /\ p[2] \in exact /\ p[2] \in Texts
  BY DEF SeenType
<1>2. p[2] # t
  BY <1>1 DEF Duplicate
<1>3. CASE Similar(t, p[2])
  <2>1. p[1] \in Candidates(t)
    BY <1>1, <1>3, BandingAssumption DEF Candidates
  <2>2. QED
    BY <1>2, <1>3, <2>1 DEF Duplicate
<1>4. CASE Close(t, p[2])
  <2>1. latest[p[1]] = p[2] => p[1] \in Remembered
    BY <1>1 DEF Remembered
  <2>2. QED
    BY <1>2, <1>4, <2>1 DEF Duplicate
<1>5. QED
  BY <1>3, <1>4 DEF Alike

LEMMA RegisterKeepsType ==
  ASSUME SeenType, NEW k \in DocKeys, NEW t \in Texts, Register(k, t)
  PROVE  SeenType'
BY DEF SeenType, Register

LEMMA RegisterKeepsLookalikes ==
  ASSUME SeenType, LookalikesOnlyByReuse,
         NEW k \in DocKeys, NEW t \in Texts, ~Duplicate(t), Register(k, t)
  PROVE  LookalikesOnlyByReuse'
<1>1. t \notin exact
  BY DEF Duplicate
<1>2. ASSUME NEW p \in filed, latest[p[1]] # p[2]
      PROVE  latest'[p[1]] # p[2]
  BY <1>1, <1>2 DEF SeenType, Register
<1>3. ASSUME NEW p \in filed, Alike(t, p[2])
      PROVE  latest'[p[1]] # p[2]
  BY <1>2, <1>3, PassedIsUnlike
<1>4. SUFFICES ASSUME NEW p \in filed', NEW q \in filed', p[2] # q[2], Alike(p[2], q[2])
               PROVE  latest'[p[1]] # p[2] \/ latest'[q[1]] # q[2]
  BY DEF LookalikesOnlyByReuse
<1>5. (p \in filed \/ p = <<k, t>>) /\ (q \in filed \/ q = <<k, t>>)
  BY DEF Register
<1>6. CASE p \in filed /\ q \in filed
  BY <1>2, <1>4, <1>6 DEF LookalikesOnlyByReuse
<1>7. CASE p = <<k, t>> /\ q \in filed
  BY <1>3, <1>4, <1>7
<1>8. CASE p \in filed /\ q = <<k, t>>
  BY <1>3, <1>4, <1>8, AlikeIsSymmetric
<1>9. QED
  BY <1>4, <1>5, <1>6, <1>7, <1>8

-----------------------------------------------------------------------------
(* The calls.                                                              *)

LEMMA InitSeen == RealtimeInit => SeenInv
<1>1. ASSUME RealtimeInit PROVE RealtimeTypeOK
  BY <1>1 DEF RealtimeInit, SeenNothing, RealtimeTypeOK, SeenType
<1>2. ASSUME RealtimeInit PROVE LookalikesOnlyByReuse /\ SeenIsStored /\ UpsertsAll
  BY <1>2 DEF RealtimeInit, SeenNothing, LookalikesOnlyByReuse, SeenIsStored, UpsertsAll
<1>3. QED
  BY <1>1, <1>2 DEF SeenInv

LEMMA BatchType ==
  ASSUME NEW s \in Batches
  PROVE  s \in Seq(Docs) /\ Len(s) <= MaxBatch
<1>1. PICK n \in 0..MaxBatch : s \in [1..n -> Docs]
  BY DEF Batches
<1>2. s \in Seq(Docs) /\ Len(s) = n
  BY <1>1
<1>3. QED
  BY <1>1, <1>2

\* The document at hand, its text, its topic and its key.
LEMMA DocType ==
  ASSUME RealtimeTypeOK, at <= Len(batch)
  PROVE  Doc \in Docs /\ Key \in DocKeys /\ at + 1 \in 1..(MaxBatch + 1)
<1>1. batch \in Seq(Docs) /\ at \in 1..Len(batch) /\ Len(batch) <= MaxBatch
  BY DEF RealtimeTypeOK
<1>2. Doc \in Docs
  BY <1>1 DEF Doc
<1>3. QED
  BY <1>1, <1>2 DEF Key

LEMMA SpendType ==
  ASSUME budget \in [FaultKinds -> Nat], NEW kind \in FaultKinds, Spend(kind)
  PROVE  budget' \in [FaultKinds -> Nat]
BY DEF Spend

LEMMA NextKeepsTypes == RealtimeTypeOK /\ [RealtimeNext]_realtime => RealtimeTypeOK'
<1>. SUFFICES ASSUME RealtimeTypeOK, [RealtimeNext]_realtime PROVE RealtimeTypeOK'
  OBVIOUS
<1>. USE DEF seen, call
<1>1. ASSUME NEW b \in Batches, Begin(b) PROVE RealtimeTypeOK'
  BY <1>1, BatchType DEF Begin, RealtimeTypeOK, SeenType
<1>2. CASE Skip
  BY <1>2, DocType DEF Skip, RealtimeTypeOK, SeenType
<1>3. CASE Accept
  <2>1. Doc \in Docs /\ Key \in DocKeys /\ at + 1 \in 1..(MaxBatch + 1)
    BY <1>3, DocType DEF Accept
  <2>2. SeenType'
    BY <1>3, <2>1, RegisterKeepsType DEF Accept, RealtimeTypeOK
  <2>3. \A p \in filed' : latest'[p[1]] # NoText
    BY <1>3, <2>1 DEF Accept, Register, RealtimeTypeOK, SeenType
  <2>4. topics' \subseteq Topics /\ at' \in 1..(MaxBatch + 1) /\ at' <= Len(batch) + 1
    BY <1>3, <2>1 DEF Accept, RealtimeTypeOK
  <2>5. QED
    BY <1>3, <2>2, <2>3, <2>4 DEF Accept, RealtimeTypeOK
<1>4. CASE Persist
  BY <1>4 DEF Persist, RealtimeTypeOK, SeenType
<1>5. CASE MetricsFail
  BY <1>5, SpendType DEF MetricsFail, RealtimeTypeOK, SeenType, FaultKinds
<1>6. ASSUME NEW n \in Topics, Upsert(n) PROVE RealtimeTypeOK'
  BY <1>6 DEF Upsert, RealtimeTypeOK, SeenType
<1>7. CASE Persisted
  BY <1>7 DEF Persisted, RealtimeTypeOK, SeenType
<1>8. CASE PersistFails
  BY <1>8, SpendType DEF PersistFails, RealtimeTypeOK, SeenType, FaultKinds
<1>9. CASE Restart
  BY <1>9, SpendType DEF Restart, Forget, RealtimeTypeOK, SeenType, FaultKinds
<1>10. CASE UNCHANGED realtime
  BY <1>10 DEF realtime, RealtimeTypeOK, SeenType
<1>11. QED
  BY <1>1, <1>2, <1>3, <1>4, <1>5, <1>6, <1>7, <1>8, <1>9, <1>10 DEF RealtimeNext, CallStep

\* The deduplicator and the store grow together or are forgotten together.
LEMMA SeenChanges ==
  ASSUME RealtimeTypeOK, [RealtimeNext]_realtime
  PROVE  \/ UNCHANGED <<exact, filed, latest, topics>>
         \/ Accept
         \/ Forget
<1>. USE DEF seen, call
<1>1. ASSUME NEW b \in Batches, Begin(b) PROVE UNCHANGED <<exact, filed, latest, topics>>
  BY <1>1 DEF Begin
<1>2. ASSUME NEW n \in Topics, Upsert(n) PROVE UNCHANGED <<exact, filed, latest, topics>>
  BY <1>2 DEF Upsert
<1>3. QED
  BY <1>1, <1>2 DEF RealtimeNext, CallStep, Skip, Persist, MetricsFail, Persisted, PersistFails,
     Restart, realtime

LEMMA NextKeepsSeen == SeenInv /\ [RealtimeNext]_realtime => SeenInv'
<1>. SUFFICES ASSUME SeenInv, [RealtimeNext]_realtime PROVE SeenInv'
  OBVIOUS
<1>1. RealtimeTypeOK /\ RealtimeTypeOK'
  BY NextKeepsTypes DEF SeenInv
<1>2. LookalikesOnlyByReuse' /\ SeenIsStored'
  <2>1. CASE UNCHANGED <<exact, filed, latest, topics>>
    BY <2>1 DEF SeenInv, LookalikesOnlyByReuse, SeenIsStored
  <2>2. CASE Accept
    <3>1. Doc \in Docs /\ Key \in DocKeys /\ TextOf[Doc] \in Texts
      BY <1>1, <2>2, DocType DEF Accept
    <3>2. LookalikesOnlyByReuse'
      BY <1>1, <2>2, <3>1, RegisterKeepsLookalikes DEF Accept, SeenInv, RealtimeTypeOK
    <3>3. SeenIsStored'
      BY <2>2, <3>1 DEF Accept, Register, SeenInv, SeenIsStored
    <3>4. QED
      BY <3>2, <3>3
  <2>3. CASE Forget
    BY <2>3 DEF Forget, LookalikesOnlyByReuse, SeenIsStored
  <2>4. QED
    BY <1>1, <2>1, <2>2, <2>3, SeenChanges
<1>3. UpsertsAll'
  BY <1>1 DEF SeenInv, UpsertsAll, RealtimeNext, CallStep, Begin, Skip, Accept, Persist,
     MetricsFail, Upsert, Persisted, PersistFails, Restart, realtime, call, RealtimeTypeOK
<1>4. QED
  BY <1>1, <1>2, <1>3 DEF SeenInv

\* The inductive invariant of the calls.
THEOREM SeenInvariant == RealtimeSpec => []SeenInv
BY InitSeen, NextKeepsSeen, PTL DEF RealtimeSpec

\* Every variable keeps its type, and every key in a bucket has a signature:
\* looking one up (deduplicator.py:178) cannot fail.
THEOREM TypeCorrect == RealtimeSpec => []RealtimeTypeOK
<1>1. SeenInv => RealtimeTypeOK
  BY DEF SeenInv
<1>2. QED
  BY <1>1, SeenInvariant, PTL

\* Two accepted texts look alike only when a later document took the key of
\* one of them, for any signatures and any banding that fits the threshold.
THEOREM MissesOnlyByReuse == RealtimeSpec => []LookalikesOnlyByReuse
<1>1. SeenInv => LookalikesOnlyByReuse
  BY DEF SeenInv
<1>2. QED
  BY <1>1, SeenInvariant, PTL

\* Whatever the deduplicator will reject is in the store it belongs to.
THEOREM SeenMeansStored == RealtimeSpec => []SeenIsStored
<1>1. SeenInv => SeenIsStored
  BY DEF SeenInv
<1>2. QED
  BY <1>1, SeenInvariant, PTL

\* A call that persists makes up for the calls that were cut short before it,
\* whatever the batches and the faults.
THEOREM CutShortIsMadeUp == RealtimeSpec => []EarlierCallsAreMadeUp
<1>1. SeenInv => EarlierCallsAreMadeUp
  BY DEF SeenInv, SeenIsStored, UpsertsAll, EarlierCallsAreMadeUp
<1>2. QED
  BY <1>1, SeenInvariant, PTL

=============================================================================

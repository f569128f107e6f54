---------------------------- MODULE Deduplicator ----------------------------
(***************************************************************************)
(* Deduplicator.is_duplicate(): exact hashes, MinHash signatures behind a  *)
(* banded LSH index, and SimHashes.  A text is filed under a key its       *)
(* caller chooses, and nothing keeps a caller from using a key twice.      *)
(*                                                                         *)
(* Texts are normalized texts, told apart by content_hash().               *)
(***************************************************************************)
EXTENDS Integers, FiniteSets

CONSTANTS
  DocKeys,      \* keys documents are filed under
  Texts,        \* normalized texts
  NoText,       \* what a key without a document has
  Bands, Rows,  \* the signature is cut into Bands bands of Rows positions
  Sig,          \* [Texts -> [1..Bands*Rows -> Nat]]: MinHash.signature
  Bits,         \* [Texts -> a finite set]: the ones of simhash()
  MinEqual,     \* equal positions at which jaccard_threshold is reached
  MaxDistance   \* simhash_max_distance

VARIABLES
  exact,   \* _exact: the texts accepted so far
  filed,   \* lsh._buckets: <<key, text>> is in the buckets of the text's bands
  latest   \* lsh._sigs and _simhashes: [DocKeys -> the text last filed under it]

seen == <<exact, filed, latest>>

-----------------------------------------------------------------------------
Positions == 1..(Bands * Rows)

\* MinHash.similarity() >= jaccard_threshold
Similar(t, u) == Cardinality({i \in Positions : Sig[t][i] = Sig[u][i]}) >= MinEqual

SharesBand(t, u) ==
  \E band \in 0..(Bands - 1) :
    \A row \in 1..Rows : Sig[t][band * Rows + row] = Sig[u][band * Rows + row]

\* hamming_distance() <= simhash_max_distance
Close(t, u) == Cardinality((Bits[t] \ Bits[u]) \cup (Bits[u] \ Bits[t])) <= MaxDistance

Alike(t, u) == Similar(t, u) \/ Close(t, u)

\* Texts that are similar differ in fewer positions than there are bands, so
\* one band is equal throughout: 19 of 128 positions, and 32 bands.
ASSUME BandingAssumption == \A t, u \in Texts : Similar(t, u) => SharesBand(t, u)
ASSUME NoTextAssumption == NoText \notin Texts

SeenType ==
  /\ exact \subseteq Texts
  /\ filed \subseteq DocKeys \X exact
  /\ latest \in [DocKeys -> exact \cup {NoText}]

SeenNothing ==
  /\ exact = {}
  /\ filed = {}
  /\ latest = [k \in DocKeys |-> NoText]

-----------------------------------------------------------------------------
\* LSHIndex.candidates()
Candidates(t) == {p[1] : p \in {q \in filed : SharesBand(t, q[2])}}

Remembered == {k \in DocKeys : latest[k] # NoText}

\* Mutation: the SimHashes are not compared.
DuplicateBySignature(t) ==
  \/ t \in exact
  \/ \E k \in Candidates(t) : Similar(t, latest[k])

\* The three checks of is_duplicate(): a candidate is compared with the
\* signature its key has now, whichever text put the key into the bucket.
Duplicate(t) ==
  \/ t \in exact
  \/ \E k \in Candidates(t) : Similar(t, latest[k])
  \/ \E k \in Remembered : Close(t, latest[k])

\* Mutation: the signature is not kept.
RegisterBucketsOnly(k, t) ==
  /\ exact' = exact \cup {t}
  /\ filed' = filed \cup {<<k, t>>}
  /\ UNCHANGED latest

\* is_duplicate() returns False.  A used key keeps its old buckets.
Register(k, t) ==
  /\ exact' = exact \cup {t}
  /\ filed' = filed \cup {<<k, t>>}
  /\ latest' = [latest EXCEPT ![k] = t]

\* A new Deduplicator().
Forget ==
  /\ exact' = {}
  /\ filed' = {}
  /\ latest' = [k \in DocKeys |-> NoText]

=============================================================================

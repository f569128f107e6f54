----------------------------- MODULE StableOrder -----------------------------
(***************************************************************************)
(* Python's sorted() and list.sort() with a key: by the keys, and what has *)
(* the same key in the order it was in.  SortSeq of the module TLC is not  *)
(* defined where elements that differ have one key.                        *)
(***************************************************************************)
EXTENDS Integers, Sequences, FiniteSets

\* Does what is at j come before what is at i, or is it the same?
Precedes(keys, j, i) == keys[j] < keys[i] \/ (keys[j] = keys[i] /\ j <= i)

\* Where what is at i goes.
Place(keys, i) == Cardinality({j \in DOMAIN keys : Precedes(keys, j, i)})

SortedBy(s, keys) ==
  LET from == [n \in DOMAIN s |-> CHOOSE i \in DOMAIN s : Place(keys, i) = n]
  IN  [n \in DOMAIN s |-> s[from[n]]]
=============================================================================

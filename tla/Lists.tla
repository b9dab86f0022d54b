------------------------------- MODULE Lists -------------------------------
(***************************************************************************)
(* Python's filtered and sorted lists, by the places of their elements: a  *)
(* list comprehension with an "if" and sorted() with a key.  (SelectSeq    *)
(* and SortSeq take operators, about which no lemma can be cited.)  None   *)
(* is Python's.                                                            *)
(***************************************************************************)
EXTENDS Integers, Sequences, FiniteSets, FiniteSetsExt

CONSTANTS None

(* key[i] is a pair of integers; a smaller key comes first, and of equal   *)
(* keys the smaller place: sorted() is stable.                             *)
Precedes(key, i, j) ==
  \/ key[i][1] < key[j][1]
  \/ key[i][1] = key[j][1] /\ key[i][2] < key[j][2]
  \/ key[i] = key[j] /\ i < j

(* How many places of K come before i.                                     *)
Rank(K, key, i) == Cardinality({j \in K : Precedes(key, j, i)})

(* The places K in the order of their keys.                                *)
Places(K, key) ==
  [n \in 1 .. Cardinality(K) |-> CHOOSE i \in K : Rank(K, key, i) = n - 1]

Sorted(s, key) ==
  LET at == Places(DOMAIN s, key)
  IN  [n \in DOMAIN at |-> s[at[n]]]

(* The places K as they are.                                               *)
InOrder(K) == Places(K, [i \in K |-> <<0, 0>>])

(* [x for x in s if ...], K being the places where the condition holds.    *)
Pick(s, K) ==
  LET at == InOrder(K)
  IN  [n \in DOMAIN at |-> s[at[n]]]

(* sum(f[x] for x in S)                                                    *)
SumOver(f, S) == MapThenSumSet(LAMBDA x : f[x], S)
=============================================================================

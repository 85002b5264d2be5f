------------------------------ MODULE StableSort ------------------------------
(***************************************************************************)
(* slice::sort_by of the standard library: a stable sort, by a key.        *)
(***************************************************************************)
EXTENDS Integers, Sequences, FiniteSets, Functions

(* The positions of the sorted list: equal keys stay in order.             *)
InOrder(p, key) ==
  \A i, j \in DOMAIN key : i < j =>
    \/ key[p[i]] < key[p[j]]
    \/ key[p[i]] = key[p[j]] /\ p[i] < p[j]

Order(key) == CHOOSE p \in Bijection(DOMAIN key, DOMAIN key) : InOrder(p, key)

SortedBy(s, key) == [i \in DOMAIN s |-> s[Order(key)[i]]]

(* The same of things no two of which are equal: the members of a set, in  *)
(* the order of a strict order.                                            *)
Ranked(S, before) ==
  CHOOSE s \in [1..Cardinality(S) -> S] :
    /\ Range(s) = S
    /\ \A i, j \in DOMAIN s : i < j => <<s[i], s[j]>> \in before
=============================================================================

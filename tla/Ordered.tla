------------------------------- MODULE Ordered -------------------------------
(***************************************************************************)
(* Selections in an order.  `Vec::retain`, the grouping of a burst by      *)
(* workspace and the allocation of consecutive ids all list the members of *)
(* a finite set by an increasing key.                                      *)
(***************************************************************************)
EXTENDS Integers, Sequences, FiniteSets

\* How many members of the finite set DOMAIN key come before i (keys are distinct).
Rank(key, i) == Cardinality({j \in DOMAIN key : key[j] < key[i]})

\* The elements of s at the positions in K, in the order of s.
Keep(s, K) ==
  LET position == [i \in K |-> i]
  IN  [k \in 1 .. Cardinality(K) |->
         s[CHOOSE i \in K : Rank(position, i) = k - 1]]

==============================================================================

-------------------------------- MODULE Lists --------------------------------
(***************************************************************************)
(* What a list comprehension with a condition keeps of a list, in its      *)
(* order: by rank, without recursion.                                      *)
(***************************************************************************)
EXTENDS Naturals, Sequences, FiniteSets

\* The n-th smallest number of a finite set.
Nth(S, n) == CHOOSE k \in S : Cardinality({m \in S : m =< k}) = n

\* The entries of s at the positions in K.
Picked(s, K) == [n \in 1..Cardinality(K) |-> s[Nth(K, n)]]

\* [x for x in s if Test(x)]
Those(s, Test(_)) == Picked(s, {k \in DOMAIN s : Test(s[k])})
=============================================================================

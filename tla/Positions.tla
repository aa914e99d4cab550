----------------------------- MODULE Positions ------------------------------
(***************************************************************************)
(* Places in a text, counted from its beginning.                           *)
(***************************************************************************)
EXTENDS Integers, FiniteSets

\* How many places of S there are up to i, and the k-th of them.
Rank(S, i) == Cardinality({j \in S : j <= i})
Nth(S, k) == CHOOSE i \in S : Rank(S, i) = k
=============================================================================

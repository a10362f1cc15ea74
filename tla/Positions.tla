----------------------------- MODULE Positions -----------------------------
(***************************************************************************)
(* Counting in a set of positions: what the references of the parsers use  *)
(* in place of a scan from left to right.                                  *)
(***************************************************************************)
EXTENDS Naturals, FiniteSets

\* How many elements of S are up to p, and the k-th element of S.
Rank(S, p) == Cardinality({q \in S : q <= p})
Nth(S, k) == CHOOSE p \in S : Rank(S, p) = k
=============================================================================

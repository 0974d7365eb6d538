------------------------------- MODULE Sublists -------------------------------
(***************************************************************************)
(* What is left of a list when some of its nodes are deleted.  Sublist is  *)
(* SelectSeq by positions, and without recursion, so that it can be        *)
(* reasoned about.                                                         *)
(***************************************************************************)
EXTENDS Naturals, FiniteSets

\* The n-th smallest of the positions K, and the elements of s at these positions in order.
Place(K, n)   == CHOOSE i \in K : Cardinality({j \in K : j <= i}) = n
Sublist(s, K) == [n \in 1 .. Cardinality(K) |-> s[Place(K, n)]]
=============================================================================

------------------------------ MODULE Picking -------------------------------
(***************************************************************************)
(* The elements of a sequence at given places, in their order: what a      *)
(* filter over a list returns, defined without recursion.                  *)
(***************************************************************************)
EXTENDS Naturals, FiniteSets

\* How many of the places I come up to i.
Rank(I, i) == Cardinality({j \in I : j <= i})

\* The n-th of the places I.
Nth(I, n) == CHOOSE i \in I : Rank(I, i) = n

Picked(s, I) == [n \in 1 .. Cardinality(I) |-> s[Nth(I, n)]]
=============================================================================

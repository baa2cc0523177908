------------------------------- MODULE Places -------------------------------
(***************************************************************************)
(* What a loop keeps of a list when it walks over it and drops some of it: *)
(* the elements at the places that are kept, in their order.  It is what   *)
(* SelectSeq computes, said without recursion, so that theorems about it   *)
(* need no induction.                                                      *)
(***************************************************************************)
EXTENDS Naturals, Sequences, FiniteSets

upTo(places, i) == Cardinality({j \in places : j <= i})

\* The k-th is the one with k places up to it.
At(s, places) == [k \in 1..Cardinality(places) |-> s[CHOOSE i \in places : upTo(places, i) = k]]

=============================================================================

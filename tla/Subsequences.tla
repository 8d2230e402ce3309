----------------------------- MODULE Subsequences ----------------------------
(***************************************************************************)
(* What a list comprehension with a condition makes of a list: the         *)
(* elements at some of its places, in their order.                         *)
(***************************************************************************)
EXTENDS Integers, Sequences, FiniteSets

\* How many of the places come no later than i.
Rank(places, i) == Cardinality({j \in places : j <= i})

Subsequence(s, places) ==
    [k \in 1..Cardinality(places) |-> s[CHOOSE i \in places : Rank(places, i) = k]]
=============================================================================

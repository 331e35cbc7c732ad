---------------------------- MODULE Subsequences ----------------------------
(* What is left of a sequence when a loop appends some of its elements to a  *)
(* new one.  It is SelectSeq, told by the places of the elements and without *)
(* recursion, so that proofs can say what it contains.                       *)
EXTENDS Naturals, Sequences, FiniteSets

\* The how-manieth of the places one is.
rank(place, places) == Cardinality({other \in places : other <= place})

subsequence(s, places) ==
    [k \in 1..Cardinality(places) |-> s[CHOOSE place \in places : rank(place, places) = k]]
=============================================================================

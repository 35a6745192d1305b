----------------------------- MODULE Subsequences -----------------------------
(***************************************************************************)
(* Selecting from a sequence and sorting a set, what SelectSeq and         *)
(* SetToSortSeq do, with sets of indices and of pairs in place of          *)
(* operators, defined so that they can be reasoned about.                  *)
(***************************************************************************)
EXTENDS Integers, Sequences, FiniteSets

(* How many of the indices are no larger than i, and the n-th index.       *)
Rank(indices, i) == Cardinality({k \in indices : k <= i})

Nth(indices, n) == CHOOSE i \in indices : Rank(indices, i) = n

(* The elements of a sequence at some of its indices, in order. *)
AtIndices(s, indices) == [n \in 1..Cardinality(indices) |-> s[Nth(indices, n)]]

(* The elements of a set, `before` holding the pairs of a total order on it. *)
InOrder(S, before) ==
    [n \in 1..Cardinality(S) |->
        CHOOSE x \in S : Cardinality({y \in S : <<y, x>> \in before}) = n - 1]
=============================================================================

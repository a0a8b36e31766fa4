---------------------------- MODULE Subsequence ----------------------------
(***************************************************************************)
(* What is left of a sequence when only the members of a set are kept: the *)
(* SelectSeq of the standard library, which is defined by recursion, in a  *)
(* form that can be reasoned about for every sequence.                     *)
(***************************************************************************)
EXTENDS Integers, Sequences, FiniteSets

(* Where in s the members of A are, and the how-manieth each of them is.   *)
Positions(s, A) == {n \in 1..Len(s) : s[n] \in A}
Rank(P, n) == Cardinality({m \in P : m <= n})

Only(s, A) ==
  LET P == Positions(s, A)
  IN  [n \in 1..Cardinality(P) |-> s[CHOOSE m \in P : Rank(P, m) = n]]
=============================================================================

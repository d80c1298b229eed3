----------------------------- MODULE Selection -----------------------------
(***************************************************************************)
(* The loop that walks a sequence and keeps some of its elements.          *)
(***************************************************************************)
EXTENDS Integers, Sequences, FiniteSets

(* The elements of s at the positions in S, in their order. *)
Nth(S, n) == CHOOSE x \in S : Cardinality({y \in S : y <= x}) = n
Select(s, S) == [n \in 1 .. Cardinality(S) |-> s[Nth(S, n)]]

=============================================================================

------------------------------ MODULE Positions ------------------------------
(* A loop that skips some elements of a slice and takes the others in order. *)
EXTENDS Naturals, FiniteSets

(* The elements of s at the positions kept, in order: the n-th of them has  *)
(* n of these positions up to its own.                                     *)
Pick(s, kept) ==
    [n \in 1..Cardinality(kept) |->
        s[CHOOSE i \in kept : Cardinality({j \in kept : j <= i}) = n]]

=============================================================================

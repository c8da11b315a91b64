---------------------------- MODULE MCRetailOrder ----------------------------
(* An order with two packages and one with one package, at a point with two *)
(* slots, and two that work on them at once.                                *)
EXTENDS RetailOrder, TLC

CONSTANTS s1, s2, p1, p2, p3, a, b

TwoAndOne == (p1 :> 1) @@ (p2 :> 1) @@ (p3 :> 2)

Symmetric == Permutations({s1, s2}) \cup Permutations({p1, p2}) \cup Permutations({a, b})
=============================================================================

----------------------------- MODULE MCInventory -----------------------------
(* Inventory on small instances. *)
EXTENDS Inventory, TLC

CONSTANTS l1, l2, r0, o1

(* Both locations keep the first SKU; l2 has never received the second.     *)
SmallOpening == (<<1, l1>> :> 4) @@ (<<2, l1>> :> 2) @@ (<<1, l2>> :> 2)

SmallBooked == r0 :> [status |-> "ACTIVE", order |-> o1, bal |-> <<1, l1>>, qty |-> 1]

(* No location has received anything yet.                                   *)
Nothing == [b \in {} |-> 0]

SmallLines == {[sku |-> 1, qty |-> 2], [sku |-> 2, qty |-> 1]}
SmallPicks == {[sku |-> 1, qty |-> 1], [sku |-> 2, qty |-> 1]}
SmallDeltas == {[sku |-> 1, qty |-> -1]}
PhantomLines == {[sku |-> 1, qty |-> 1], [sku |-> 1, qty |-> 2]}

Symmetry == Permutations(Transactions) \cup Permutations(Reservations \ {r0})
==============================================================================

------------------------------ MODULE MCMultiStart ------------------------------
(* Three trucks.  p1 may drive all of them, p2 and p4 all but c, p3 none.  *)
(* With p1 and p2, OR-Tools may use a and b on each day and the hybrid     *)
(* search a and c; with p2 and p4 nobody can take c, onto which a merge    *)
(* would pay.  Orders A and D need two trucks each, so that a route may    *)
(* carry parts of both, and A can be served on the first day only.         *)
EXTENDS MultiStart

CONSTANTS a, b, c, p1, p2, p3, p4, A, B, C, D

McTrucks == <<a, b, c>>
McRosters == {{p1, p2, p3}, {p2, p3, p4}, {p1, p3}, {p3}}
McItems == (A :> {"A1", "A2"}) @@ (B :> {"B1"}) @@ (C :> {"C1"}) @@ (D :> {"D1", "D2"})

McHolds(truck, items) ==
    /\ Cardinality(items) =< 1
    /\ truck # a => "A1" \notin items
    /\ truck = a => "A2" \notin items
    /\ truck # b => "D2" \notin items
    /\ truck # a => "D1" \notin items
McLicensed(person, truck) == person = p1 \/ (person \in {p2, p4} /\ truck # c)
McInShift(order, day) == order = A => day = 0

(* A second allocation costs little on c, so that merging pays there; on   *)
(* the others a second route costs less, and another day more than that.   *)
McPrice(slot, load) ==
    (CASE slot.truck = a -> 4 [] slot.truck = b -> 5 [] slot.truck = c -> 6)
        + (Cardinality(load) - 1) * (IF slot.truck = c THEN 1 ELSE 5)
McWage(slot, load) == 2

(* The model of OR-Tools knows nothing of the layout on b.                 *)
McRoutable(slot, load) ==
    /\ Cardinality(load) =< 2
    /\ \A x \in load : McInShift(x.order, slot.day)
McRunnable(slot, load) ==
    McRoutable(slot, load) /\ (slot.truck = b => Cardinality(load) = 1)

McBacklogs == {{A}, {A, D}, {B, C}}
===============================================================================

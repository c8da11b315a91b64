--------------------------- MODULE MCHybridSearch ---------------------------
(* Two orders and two trucks that differ only in what they cost, of which  *)
(* the second may not carry the second order.  Places are numbers on a     *)
(* line, a unit of time apart; both trucks live at place 0.                *)
EXTENDS HybridSearch, TLC

CONSTANTS o1, o2, v1, v2

McWeight == [o \in Orders |-> 1]
McService == [o \in Orders |-> 0]
McWindow == [o \in Orders |-> [PICKUP |-> [from |-> 0, to |-> 20],
                               DELIVERY |-> [from |-> 0, to |-> IF o = o1 THEN 2 ELSE 20]]]
McSpot == (o1 :> [PICKUP |-> 1, DELIVERY |-> 2]) @@ (o2 :> [PICKUP |-> 1, DELIVERY |-> 3])
McPermitted == (o1 :> {}) @@ (o2 :> {v1})
McDepot == [v \in Vehicles |-> 0]
McPayload == [v \in Vehicles |-> 2]
McShift == [v \in Vehicles |-> [from |-> 0, to |-> 20]]
McFixed == (v1 :> 3) @@ (v2 :> 2)
McDuration == [a \in 0 .. 3 |-> [b \in 0 .. 3 |-> IF a > b THEN a - b ELSE b - a]]
McProfile == [v \in Vehicles |-> 0]

(* Both orders aboard: the quick check lets only the second go in first,   *)
(* the final validator only the first.                                     *)
McBoth(route, o) == Len(route) = 4 /\ route[1].order = o /\ route[2].order # o
McFastFits(v, route) == ~McBoth(route, o1)
McPlaceable(v, route) == ~McBoth(route, o2)
=============================================================================

--------------------------- MODULE MCTripPlanning ---------------------------
(* TripPlanning on small instances. *)
EXTENDS TripPlanning, TLC

CONSTANTS p1, p2, p3

(* The second order may be split.                                           *)
SmallOrderOf == p1 :> 1 @@ p2 :> 2 @@ p3 :> 2

PlanOf(v, d, a, b) == [vehicle |-> v, driver |-> d, from |-> a, to |-> b]
Morning == PlanOf(1, 1, 0, 2)
AllDay  == PlanOf(1, 2, 0, 3)
Evening == PlanOf(2, 1, 2, 3)

With(p, cargo) == [plan |-> p, cargo |-> cargo]

SmallRoutes == {With(Morning, {p1}), With(AllDay, {p2, p3}), With(Evening, {p1})}

(* An order split between two vehicles; a route that runs into the next one *)
(* of its vehicle; one for the order that a dispatcher may have planned.    *)
SmallProposals == {<<With(Morning, {p1, p2}), With(Evening, {p3})>>,
                   <<With(Morning, {p1}), With(AllDay, {p2, p3})>>,
                   <<With(Morning, {p1})>>}
Symmetry == Permutations(Requests)
=============================================================================

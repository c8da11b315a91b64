---------------------------- MODULE MCLayoutSearch ----------------------------
(* Three items on a floor of 3 by 2, in all their shapes, on routes that   *)
(* load and unload them together or apart, before, after or around each    *)
(* other, with the input in either order; and routes with something wrong. *)
EXTENDS LayoutReference

Thing(order, shape, turns) ==
  [order |-> order, l |-> shape[1], w |-> shape[2], weight |-> 1, tall |-> FALSE, turns |-> turns]

Load(ids)   == [load |-> ids, unload |-> <<>>]
Unload(ids) == [load |-> <<>>, unload |-> ids]

(* The order of each item, and the stops.                                   *)
Route(order, stops) == [order |-> order, stops |-> stops]

Routes ==
  {Route(<<1, 2, 3>>, <<Load(<<1, 2, 3>>), Unload(<<1>>), Unload(<<2>>), Unload(<<3>>)>>),
   Route(<<1, 2, 2>>, <<Load(<<1, 2, 3>>), Unload(<<1>>), Unload(<<2, 3>>)>>),
   Route(<<1, 2, 2>>, <<Load(<<3, 2, 1>>), Unload(<<1>>), Unload(<<2, 3>>)>>),
   Route(<<1, 2, 2>>, <<Load(<<2, 1>>), Load(<<3>>), Unload(<<1>>), Unload(<<3, 2>>)>>),
   Route(<<1, 2, 3>>, <<Load(<<1, 2>>), Unload(<<1>>), Load(<<3>>), Unload(<<2>>), Unload(<<3>>)>>),
   Route(<<1, 2, 3>>, <<Load(<<1, 2>>), Unload(<<1>>), Load(<<3>>), Unload(<<3>>), Unload(<<2>>)>>),
   Route(<<1, 2, 3>>, <<Load(<<1>>), Unload(<<1>>), Load(<<2, 3>>), Unload(<<3>>), Unload(<<2>>)>>),
   Route(<<1, 1, 2>>, <<Load(<<1, 2>>), Load(<<3>>), Unload(<<1, 2>>), Unload(<<3>>)>>)}

Shapes == {<<1, 1>>, <<2, 1>>, <<1, 2>>, <<2, 2>>}

Ordinary ==
  {[item |-> [i \in 1 .. 3 |-> Thing(r.order[i], s[i], FALSE)], stops |-> r.stops] :
     r \in Routes, s \in [1 .. 3 -> Shapes]}

(* The third item goes in only when it is turned, and fills half the floor. *)
Turned ==
  {[item |-> <<Thing(r.order[1], s, FALSE), Thing(r.order[2], <<1, 1>>, FALSE),
               Thing(r.order[3], <<1, 3>>, TRUE)>>, stops |-> r.stops] :
     r \in Routes, s \in Shapes}

Small == [i \in 1 .. 3 |-> Thing(i, <<1, 1>>, FALSE)]
Wrong ==
  {[item |-> Small, stops |-> <<Load(<<1>>), Unload(<<2>>)>>],
   [item |-> Small, stops |-> <<Load(<<1>>), Unload(<<1, 1>>)>>],
   [item |-> Small, stops |-> <<Load(<<1, 1>>), Unload(<<1>>)>>],
   [item |-> Small, stops |-> <<Load(<<1>>), Load(<<1, 2>>), Unload(<<2>>), Unload(<<1>>)>>],
   [item |-> Small, stops |-> <<Load(<<1, 2>>), Unload(<<1>>), Load(<<1>>), Unload(<<2>>)>>],
   [item |-> [Small EXCEPT ![2].tall = TRUE], stops |-> <<Load(<<1, 2>>), Unload(<<2>>), Unload(<<1>>)>>],
   [item |-> [Small EXCEPT ![2].weight = 10], stops |-> <<Load(<<1>>), Load(<<2>>), Unload(<<1, 2>>)>>],
   \* so many layouts at the first stop that the search stops looking
   [item |-> [Small \o <<Thing(4, <<1, 1>>, FALSE)>> EXCEPT ![4].weight = 10],
    stops |-> <<Load(<<1, 2, 3>>), Load(<<4>>), Unload(<<1>>), Unload(<<2>>), Unload(<<3>>), Unload(<<4>>)>>],
   \* the same failure after different beginnings
   [item |-> [Small EXCEPT ![3].weight = 10],
    stops |-> <<Load(<<1, 2>>), Unload(<<1>>), Load(<<3>>), Unload(<<2>>), Unload(<<3>>)>>]}

McPlans == Ordinary \cup Turned \cup Wrong
===============================================================================

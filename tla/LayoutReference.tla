--------------------------- MODULE LayoutReference ---------------------------
(***************************************************************************)
(* What the search is compared with: the quick check of                    *)
(* packing_checker.py, and whether a route can be carried out at all.      *)
(***************************************************************************)
EXTENDS LayoutSearch

-----------------------------------------------------------------------------
(* FastPackingChecker: every item at the first free corner, ways straight.  *)

(* delivery_ranks: the stop that delivers the order of the item.            *)
Rank(stops, id) ==
  LET S == {k \in 1 .. Len(stops) : \E j \in ToSet(stops[k].unload) : Item(j).order = Item(id).order}
  IN IF S = {} THEN Len(stops) + 1 ELSE Min(S)

(* Corners next to a box, or under it at the wall.                          *)
Points(boxes) ==
  {<<0, 0>>} \cup UNION {{<<b.x + b.l, b.y>>, <<b.x + b.l, 0>>, <<b.x, b.y + b.w>>, <<0, b.y + b.w>>}
                         : b \in boxes}

FastAnyWidth(b) == b.x + b.l <= Length  \* mutant: the width is forgotten
FastInside(b) == b.x + b.l <= Length /\ b.y + b.w <= Width
FastAllowed(b, boxes, stops) ==
  /\ FastInside(b) /\ Clear(b, boxes) /\ StraightClear(b, boxes)
  /\ \A c \in boxes :
       /\ Rank(stops, c.id) < Rank(stops, b.id) => StraightClear(c, (boxes \ {c}) \cup {b})
       /\ Rank(stops, c.id) > Rank(stops, b.id) => StraightClear(b, boxes)

NoBoxes == {Box(Never, 0, 0, 0, 0)}

FastPlace(id, boxes, stops) ==
  LET all == {b \in {Box(id, p[1], p[2], o[1], o[2]) : p \in Points(boxes), o \in Orientations(Shape(id))} :
                FastAllowed(b, boxes, stops)}
      score(b) == <<b.x, b.y, IF b.l = Item(id).l THEN 0 ELSE 1>>
  IN IF boxes = NoBoxes \/ Item(id).tall \/ id \in Ids(boxes) \/ all = {} THEN NoBoxes
     ELSE boxes \cup {CHOOSE b \in all : \A c \in all \ {b} : Before(score(b), score(c))}

FastLoad(items, boxes, stops) ==
  LET After[k \in 0 .. Len(items)] ==
        IF k = 0 THEN boxes ELSE FastPlace(items[k], After[k - 1], stops)
  IN After[Len(items)]

FastUnload(ids, boxes) ==
  LET targets == {b \in boxes : b.id \in ids}
      ahead(b) == {c \in targets : c.x + c.l > b.x + b.l}
  IN IF ids \subseteq Ids(boxes) /\ \A b \in targets : StraightClear(b, boxes \ ({b} \cup ahead(b)))
     THEN boxes \ targets ELSE NoBoxes

(* The stops of a route load or unload: _make_stops of solver.py.           *)
ASSUME StopsAssumption ==
  \A p \in Plans : \A k \in 1 .. Len(p.stops) : p.stops[k].load = <<>> \/ p.stops[k].unload = <<>>

FastStop(stops, boxes, stop) ==
  IF stop.unload = <<>> THEN FastLoad(stop.load, boxes, stops) ELSE FastUnload(ToSet(stop.unload), boxes)

FastAccepts(stops) ==
  LET After[k \in 0 .. Len(stops)] ==
        IF k = 0 THEN {} ELSE FastStop(stops, After[k - 1], stops[k])
  IN After[Len(stops)] = {}

-----------------------------------------------------------------------------
(* The routes that can be carried out.                                      *)

Leave(ids, boxes) == \E order \in SetToSeqs(ids) : LeaveInOrder(order, boxes)

(* Where and in what order the items of a stop are put on board: on any     *)
(* place in any order if free; else, like the search, largest first and at  *)
(* corners only.                                                            *)
PlacesFor(free, id, boxes) ==
  IF free THEN {Box(id, p[1], p[2], o[1], o[2]) : p \in Grid, o \in Orientations(Shape(id))}
  ELSE Corners(Shape(id), boxes)

(* The stop that unloads an item, in the whole route.                       *)
LeavesAt(stops, id) ==
  LET S == {k \in 1 .. Len(stops) : id \in ToSet(stops[k].unload)} IN
  IF S = {} THEN Len(stops) + 1 ELSE Min(S)
Firsts(free, stops, ids) ==
  IF free THEN ids
  ELSE {i \in ids : \A j \in ids \ {i} : Before(LoadKey(i, LeavesAt(stops, i)), LoadKey(j, LeavesAt(stops, j)))}

(* The layouts with one of these items more.                                *)
OneMore(free, stops, ids, boxes) ==
  {boxes \cup {b} : b \in {c \in UNION {PlacesFor(free, id, boxes) : id \in Firsts(free, stops, ids)} :
                             CanLeave(c, boxes)}}

(* The layouts that a stop which loads these items can lead to.             *)
Loadings(free, stops, ids, boxes) ==
  LET After[n \in 0 .. Cardinality(ids)] ==
        IF n = 0 THEN {boxes}
        ELSE UNION {OneMore(free, stops, ids \ Ids(bs), bs) : bs \in After[n - 1]}
  IN After[Cardinality(ids)]

(* The layouts that stop k can lead to.                                     *)
Served(free, stops, k, boxes) ==
  LET out == ToSet(stops[k].unload)
      in  == ToSet(stops[k].load)
      kept == {b \in boxes : b.id \notin out}
  IN IF /\ out \subseteq Ids(boxes) /\ Leave(out, boxes)
        /\ in \cap Ids(kept) = {}
        /\ \A id \in in : ~ Item(id).tall /\ (free \/ LeavesAt(stops, id) > k)
     THEN Loadings(free, stops, in, kept) ELSE {}

(* The route can be carried out.                                            *)
Executable(free, stops) ==
  LET After[k \in 0 .. Len(stops)] ==
        IF k = 0 THEN {{}} ELSE UNION {Served(free, stops, k, bs) : bs \in After[k - 1]}
  IN After[Len(stops)] # {}

(* Declared without repetitions and never too heavy.                        *)
Wellformed(stops) ==
  \A k \in 1 .. Len(stops) :
    /\ IsInjective(stops[k].unload) /\ IsInjective(stops[k].load)
    /\ Weight(OnBoard(stops)[k]) <= Payload

-----------------------------------------------------------------------------
(* Properties.                                                              *)

(* What the search rules out on the way (places that would block somebody,  *)
(* mirror images of interchangeable items, layouts it has seen, stops that  *)
(* failed before, ways that do not touch a box) loses nothing: a route it   *)
(* rejects with certainty has no layout made of corners, largest item first.*)
PruningLosesNothing ==
  at = "rejected" => ~ (Wellformed(plan.stops) /\ Executable(FALSE, plan.stops))

(* The quick check is conservative: what it lets pass can be carried out,   *)
(* although the search has not found a layout.                              *)
FastIsConservative ==
  at \in {"rejected", "limit"} /\ FastAccepts(plan.stops)
    => Executable(TRUE, plan.stops)

-----------------------------------------------------------------------------
(* What the tests promise and the code does not keep.                       *)

(* test_searches_an_alternative_layout_instead_of_rejecting_input_order:    *)
(* what fits when it is loaded in the order of the input is not rejected.   *)
InputOrderIsTried ==
  at = "rejected" /\ Wellformed(plan.stops) => ~ FastAccepts(plan.stops)
===============================================================================

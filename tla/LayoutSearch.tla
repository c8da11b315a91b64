----------------------------- MODULE LayoutSearch -----------------------------
(***************************************************************************)
(* validate_plan of spatial_validator.py: the search for a layout of the   *)
(* floor after every stop of a route, and the quick check of               *)
(* packing_checker.py.                                                     *)
(*                                                                         *)
(* The code is a depth first search by recursion and generators.  Here the *)
(* stack is a variable: a frame of a stop that is open, and for each item  *)
(* that it loads a frame with the places still to try.  The budgets of     *)
(* nodes and time may run out at any step.                                 *)
(***************************************************************************)
EXTENDS FloorGeometry, SequencesExt

CONSTANTS
  Plans,       \* routes: stops, and the items they load and unload
  Payload,
  MaxLayouts   \* layouts of a stop that are followed up: 32 in the code

(* The items of a route are numbered; CargoItem has positive sizes only.    *)
PositiveInt == Nat \ {0}
IsItem(i) ==
  /\ i.l \in PositiveInt /\ i.w \in PositiveInt /\ i.weight \in PositiveInt
  /\ i.tall \in BOOLEAN /\ i.turns \in BOOLEAN
ASSUME PlansAssumption ==
  \A p \in Plans : LET ids == DOMAIN p.item IN
    /\ IsFiniteSet(ids) /\ \A id \in ids : id \in PositiveInt /\ IsItem(p.item[id])
    /\ p.stops \in Seq([load : Seq(ids), unload : Seq(ids)])
ASSUME PayloadAssumption == Payload \in PositiveInt

VARIABLES
  plan,
  cycles,    \* load cycles still to validate, the current one first
  at,        \* what comes next
  node,      \* the stop and the item the search is at, and the boxes on board
  stack,
  failed,    \* stops with layouts from which there is no way on
  steps      \* of the cycles done: the unload order and layout of every stop

vars == <<plan, cycles, at, node, stack, failed, steps>>

-----------------------------------------------------------------------------
(* Lexicographic order of sequences of one length.                          *)
Before(s, t) ==
  \E k \in 1 .. Len(s) : s[k] < t[k] /\ \A j \in 1 .. k - 1 : s[j] = t[j]

(* The members of S in the order of their keys, which all differ.           *)
Sorted(S, key) ==
  [k \in 1 .. Cardinality(S) |->
     CHOOSE i \in S : Cardinality({j \in S : Before(key[j], key[i])}) = k - 1]

-----------------------------------------------------------------------------
(* The route.                                                               *)

Item(id) == plan.item[id]
Shape(id) == [id |-> id, l |-> Item(id).l, w |-> Item(id).w, turns |-> Item(id).turns]
Ids(boxes) == {b.id : b \in boxes}
Get(boxes, id) == CHOOSE b \in boxes : b.id = id

Weight(ids) == FoldSet(LAMBDA id, sum : sum + Item(id).weight, 0, ids)
Surface(ids) == FoldSet(LAMBDA id, sum : sum + Item(id).l * Item(id).w, 0, ids)

(* What is on board after each stop of a route that declares its loads and  *)
(* unloads properly.                                                        *)
OnBoard(stops) ==
  LET f[k \in 0 .. Len(stops)] ==
        IF k = 0 THEN {} ELSE (f[k - 1] \ ToSet(stops[k].unload)) \cup ToSet(stops[k].load)
  IN f
Proper(stops) ==
  \A k \in 1 .. Len(stops) :
    LET before == OnBoard(stops)[k - 1] IN
    /\ IsInjective(stops[k].unload) /\ ToSet(stops[k].unload) \subseteq before
    /\ IsInjective(stops[k].load)
    /\ ToSet(stops[k].load) \cap (before \ ToSet(stops[k].unload)) = {}

(* _split_independent_load_cycles: where the truck is empty.                *)
Cuts(stops) ==
  {k \in 1 .. Len(stops) - 1 : Proper(stops) /\ OnBoard(stops)[k] = {}} \cup {Len(stops)}
CyclesOf(stops) ==
  LET cuts == Sorted(Cuts(stops), [k \in Cuts(stops) |-> <<k>>]) IN
  [k \in 1 .. Len(cuts) |-> SubSeq(stops, IF k = 1 THEN 1 ELSE cuts[k - 1] + 1, cuts[k])]

Stops == Head(cycles)
Stop  == Stops[node.stop]

(* _build_unload_steps: the first stop that unloads an item, if any.        *)
Never == 0
UnloadStep(id) ==
  LET S == {k \in 1 .. Len(Stops) : id \in ToSet(Stops[k].unload)} IN
  IF S = {} THEN Never ELSE Min(S)
StepOrEnd(id) == IF UnloadStep(id) = Never THEN Len(Stops) + 1 ELSE UnloadStep(id)
LastUnload ==
  Max({1} \cup {UnloadStep(id) : id \in DOMAIN plan.item})

(* Items of one class can stand in for each other.                          *)
Class(id) == <<Item(id).order, Item(id).l, Item(id).w, Item(id).tall, Item(id).weight,
               Item(id).turns, UnloadStep(id)>>
Layout(boxes) == {<<Class(b.id), b.x, b.y, b.l, b.w>> : b \in boxes}

-----------------------------------------------------------------------------
(* _find_unload_sequence: the box nearest to the door first.                *)
NoOrder == <<Never>>

UnloadOrder(boxes, ids) ==
  LET key(id) == <<Get(boxes, id).x + Get(boxes, id).l, Get(boxes, id).y, id>>
      Others(rest, id) == {c \in boxes : c.id \notin (ids \ rest) \cup {id}}
      Order[rest \in SUBSET ids] ==
        LET good == {id \in rest : /\ PathClear(Get(boxes, id), Others(rest, id))
                                   /\ Order[rest \ {id}] # NoOrder}
        IN IF rest = {} THEN <<>>
           ELSE IF good = {} THEN NoOrder
           ELSE LET id == CHOOSE i \in good : \A j \in good \ {i} : Before(key(j), key(i))
                IN <<id>> \o Order[rest \ {id}]
  IN Order[ids]

(* The items of a stop, those that stay longest and the largest first.      *)
LoadKey(id, step) ==
  <<- step, - (Item(id).l * Item(id).w), - Max({Item(id).l, Item(id).w}), id>>
LoadOrder(load) ==
  LET places == Sorted(DOMAIN load,
                       [k \in DOMAIN load |-> Append(LoadKey(load[k], StepOrEnd(load[k])), k)])
  IN [k \in DOMAIN load |-> load[places[k]]]

(* allow_door_placement, prefer_door: 35 % of the floor, 65 % of its width. *)
Early(ids) == {id \in ids : Max({1, UnloadStep(id)}) < LastUnload}
PrefersDoor(id, ids) ==
  /\ Cardinality(Early(ids)) <= 4
  /\ Surface(Early(ids)) * 100 <= 35 * Length * Width
  /\ UnloadStep(id) # Never /\ UnloadStep(id) < LastUnload
  /\ (IF Item(id).turns THEN Min({Item(id).l, Item(id).w}) ELSE Item(id).w) * 100 <= 65 * Width

(* The places of an item in the order of preference.                        *)
Candidates(id, ids, boxes) ==
  LET places == Corners(Shape(id), boxes)
      front  == Max({0} \cup {b.x + b.l : b \in boxes})
      turn(b) == IF b.l = Item(id).l THEN 0 ELSE 1
      score(b) == IF PrefersDoor(id, ids) THEN <<Length - b.x - b.l, b.y, turn(b)>>
                  ELSE <<Max({front, b.x + b.l}), b.x, b.y, turn(b)>>
  IN Sorted(places, [b \in places |-> score(b)])

(* _is_placement_unload_safe *)
NotBefore(id, boxes) == {c \in boxes : StepOrEnd(c.id) >= StepOrEnd(id)}  \* mutant
LaterThan(id, boxes) == {c \in boxes : StepOrEnd(c.id) > StepOrEnd(id)}

BlocksNobody(b, boxes) ==
  \A c \in boxes :
    StepOrEnd(c.id) < StepOrEnd(b.id) =>
      PathClear(c, (LaterThan(c.id, boxes) \ {c}) \cup {b})

UnloadSafe(b, boxes) ==
  /\ LET later == LaterThan(b.id, boxes) IN later = {} \/ PathClear(b, later)
  /\ BlocksNobody(b, boxes)

(* Of interchangeable items the later one is not put before the earlier.    *)
Position(b) == <<b.x, b.y, b.l, b.w>>
KeepsOrder(b, items, k, boxes) ==
  \A j \in 1 .. k - 1 :
    Class(items[j]) = Class(b.id) => ~ Before(Position(b), Position(Get(boxes, items[j])))

-----------------------------------------------------------------------------
Node(stop, index, boxes) == [stop |-> stop, index |-> index, boxes |-> boxes]
Start == Node(1, 0, {})

Init ==
  /\ plan \in Plans
  /\ cycles = CyclesOf(plan.stops)
  /\ at = "stop" /\ node = Start
  /\ stack = <<>> /\ failed = {} /\ steps = <<>>

Top      == Last(stack)
Below    == Front(stack)
Key(n)   == <<n.stop, Layout(n.boxes)>>
StopFrame == CHOOSE k \in 1 .. Len(stack) :
               stack[k].kind = "stop" /\ \A j \in k + 1 .. Len(stack) : stack[j].kind = "load"

(* _search_stops *)
Declared ==
  IsInjective(Stop.unload) /\ ToSet(Stop.unload) \subseteq Ids(node.boxes)
Order == UnloadOrder(node.boxes, ToSet(Stop.unload))
Kept  == {b \in node.boxes : b.id \notin ToSet(Stop.unload)}

(* What the stop unloads is on board and can be brought out, and what it    *)
(* loads is neither too heavy nor too large in sum.                         *)
StopAccepted ==
  /\ Declared
  /\ Order # NoOrder
  /\ Weight(Ids(Kept)) + FoldSeq(LAMBDA id, sum : sum + Item(id).weight, 0, Stop.load) <= Payload
  /\ Surface(Ids(Kept)) + FoldSeq(LAMBDA id, sum : sum + Item(id).l * Item(id).w, 0, Stop.load)
       <= Length * Width

Backtrack == at' = "try" /\ UNCHANGED <<node, stack>>

EnterKnown ==
  /\ at = "stop" /\ node.stop <= Len(Stops)
  /\ Key(node) \in failed
  /\ Backtrack
  /\ UNCHANGED <<plan, cycles, failed, steps>>

EnterRefused ==
  /\ at = "stop" /\ node.stop <= Len(Stops)
  /\ Key(node) \notin failed /\ ~ StopAccepted
  /\ failed' = failed \cup {Key(node)}
  /\ Backtrack
  /\ UNCHANGED <<plan, cycles, steps>>

EnterStop ==
  /\ at = "stop" /\ node.stop <= Len(Stops)
  /\ Key(node) \notin failed /\ StopAccepted
  /\ stack' = Append(stack, [kind |-> "stop", node |-> node, order |-> Order,
                             items |-> LoadOrder(Stop.load), seen |-> {}, todo |-> <<>>])
  /\ at' = "load" /\ node' = Node(node.stop, 1, Kept)
  /\ UNCHANGED <<plan, cycles, failed, steps>>

(* _search_load_placements *)
Items == stack[StopFrame].items

(* The height, the payload, a stop that unloads the item before, and an     *)
(* item that is on board already.                                           *)
ItemRefused(id) ==
  \/ id \in Ids(node.boxes)
  \/ UnloadStep(id) # Never /\ UnloadStep(id) <= node.stop
  \/ Weight(Ids(node.boxes)) + Item(id).weight > Payload
  \/ Item(id).tall

EnterLoad ==
  /\ at = "load" /\ node.index <= Len(Items)
  /\ LET id == Items[node.index] IN
       IF ItemRefused(id) THEN UNCHANGED stack
       ELSE stack' = Append(stack, [kind |-> "load", node |-> node, order |-> <<>>, items |-> <<>>,
                                    seen |-> {}, todo |-> Candidates(id, ToSet(Items), node.boxes)])
  /\ at' = "try"
  /\ UNCHANGED <<plan, cycles, node, failed, steps>>

(* There is a way in, and nobody who leaves before is shut in.              *)
Allowed(b, boxes, k) ==
  /\ KeepsOrder(b, Items, k, boxes)
  /\ PathClear(b, boxes)
  /\ UnloadSafe(b, boxes)

Try ==
  /\ at = "try" /\ stack # <<>> /\ Top.kind = "load" /\ Top.todo # <<>>
  /\ LET b == Head(Top.todo)  n == Top.node IN
     /\ stack' = [stack EXCEPT ![Len(stack)].todo = Tail(@)]
     /\ IF Allowed(b, n.boxes, n.index)
        THEN at' = "load" /\ node' = Node(n.stop, n.index + 1, n.boxes \cup {b})
        ELSE UNCHANGED <<at, node>>
  /\ UNCHANGED <<plan, cycles, failed, steps>>

(* All the items of the stop are on board.  That a layout comes twice is    *)
(* left to KeepsOrder, which does not let it.                               *)
Loaded ==
  /\ at = "load" /\ node.index > Len(Items)
  /\ LET layout == Layout(node.boxes)  seen == stack[StopFrame].seen IN
       IF layout \in seen THEN Backtrack
       ELSE \/ /\ Cardinality(seen) < MaxLayouts
               /\ stack' = [stack EXCEPT ![StopFrame].seen = @ \cup {layout}]
               /\ at' = "stop" /\ node' = Node(node.stop + 1, 0, node.boxes)
            \/ /\ Cardinality(seen) >= MaxLayouts
               /\ at' = "limit" /\ stack' = <<>> /\ UNCHANGED node
  /\ UNCHANGED <<plan, cycles, failed, steps>>

PlacesDone ==
  /\ at = "try" /\ stack # <<>> /\ Top.kind = "load" /\ Top.todo = <<>>
  /\ stack' = Below
  /\ UNCHANGED <<plan, cycles, at, node, failed, steps>>

StopDone ==
  /\ at = "try" /\ stack # <<>> /\ Top.kind = "stop"
  /\ failed' = failed \cup {Key(Top.node)}
  /\ stack' = Below
  /\ UNCHANGED <<plan, cycles, at, node, steps>>

-----------------------------------------------------------------------------
(* validate_plan *)

(* The stops of the way that the stack holds.                               *)
Opened(s) == CHOOSE k \in 1 .. Len(stack) : stack[k].kind = "stop" /\ stack[k].node.stop = s
Way ==
  [s \in 1 .. Len(Stops) |->
     [order |-> stack[Opened(s)].order,
      boxes |-> IF s = Len(Stops) THEN node.boxes ELSE stack[Opened(s + 1)].node.boxes]]

CycleDone ==
  /\ at = "stop" /\ node.stop > Len(Stops)
  /\ steps' = steps \o Way
  /\ IF Len(cycles) > 1 THEN cycles' = Tail(cycles) /\ at' = "stop"
     ELSE at' = "valid" /\ UNCHANGED cycles
  /\ node' = Start /\ stack' = <<>> /\ failed' = {}
  /\ UNCHANGED plan

Rejected ==
  /\ at = "try" /\ stack = <<>>
  /\ at' = "rejected"
  /\ UNCHANGED <<plan, cycles, node, stack, failed, steps>>

(* A budget runs out: what follows is not known.                            *)
GiveUp ==
  /\ at \in {"stop", "load"} \/ (at = "try" /\ stack # <<>>)
  /\ at' = "limit" /\ stack' = <<>> /\ failed' = {} /\ node' = Start
  /\ UNCHANGED <<plan, cycles, steps>>

Next ==
  \/ EnterKnown \/ EnterRefused \/ EnterStop
  \/ EnterLoad \/ Try \/ Loaded \/ PlacesDone \/ StopDone
  \/ CycleDone \/ Rejected \/ GiveUp

Spec == Init /\ [][Next]_vars

-----------------------------------------------------------------------------
(* The reference: boxes that are pushed by one unit at a time.              *)

Grid == (0 .. Length - 1) \X (0 .. Width - 1)

Free(b, boxes) == {q \in Grid : Inside(At(b, q)) /\ Clear(At(b, q), boxes)}
Pushed(p, q)   == Distance(p[1], q[1]) + Distance(p[2], q[2]) = 1

(* Whatever contains the place of the box, and the free places that one     *)
(* push leads to, contains a place at the door.                             *)
CanLeave(b, boxes) ==
  /\ <<b.x, b.y>> \in Free(b, boxes)
  /\ \A S \in SUBSET Free(b, boxes) :
       <<b.x, b.y>> \in S /\ (\A p \in S, q \in Free(b, boxes) : Pushed(p, q) => q \in S)
         => \E p \in S : p[1] = Length - b.l

(* One after another, in some order: the way out is the way in.             *)
CanEnter(new, boxes) ==
  \E order \in SetToSeqs(new) : \A k \in 1 .. Len(order) :
    CanLeave(order[k], boxes \cup {order[j] : j \in 1 .. k - 1})

LeaveInOrder(order, boxes) ==
  \A k \in 1 .. Len(order) :
    CanLeave(Get(boxes, order[k]), {c \in boxes : \A j \in 1 .. k : c.id # order[j]})

-----------------------------------------------------------------------------
(* Properties.                                                              *)

(* At every moment of the search the boxes on board lie side by side on the *)
(* floor, and the layouts found are of stops of the route.                  *)
TypeOK ==
  /\ at \in {"stop", "load", "try", "valid", "rejected", "limit"}
  /\ \A b \in node.boxes : Inside(b) /\ Clear(b, node.boxes \ {b})
  /\ Len(steps) <= Len(plan.stops) /\ cycles # <<>> /\ node.stop \in 1 .. Len(Stops) + 1

(* The layouts of a route that is called valid can be carried out: every    *)
(* box comes in through the door and goes out again without moving another, *)
(* in the order given, and none stands outside, on another, or too heavy.   *)
AcceptedIsExecutable ==
  at = "valid" =>
    /\ Len(steps) = Len(plan.stops)
    /\ \A k \in 1 .. Len(steps) :
         LET before == IF k = 1 THEN {} ELSE steps[k - 1].boxes
             out  == ToSet(plan.stops[k].unload)
             kept == {b \in before : b.id \notin out}
             now  == steps[k].boxes
         IN /\ ToSet(steps[k].order) = out /\ out \subseteq Ids(before)
            /\ LeaveInOrder(steps[k].order, before)
            /\ kept \subseteq now /\ Ids(now) = Ids(kept) \cup ToSet(plan.stops[k].load)
            /\ Cardinality(now) = Cardinality(Ids(now))
            /\ CanEnter(now \ kept, kept)
            /\ Weight(Ids(now)) <= Payload
===============================================================================

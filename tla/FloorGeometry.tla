---------------------------- MODULE FloorGeometry ----------------------------
(***************************************************************************)
(* Cargo on the floor of a truck: spatial_validator.py and                 *)
(* packing_checker.py of the optimizer, as far as they are geometry.       *)
(*                                                                         *)
(* Boxes never stand on one another and are never moved once they are on   *)
(* board.  The door is at x = Length.  Coordinates are whole numbers, so   *)
(* that the tolerance of the code, 0.01 cm, has nothing to decide.         *)
(***************************************************************************)
EXTENDS Integers, Sequences, FiniteSets

CONSTANTS Length, Width  \* of the floor

ASSUME FloorAssumption == Length \in Nat \ {0} /\ Width \in Nat \ {0}

(* A box on board: its id, its corner, and its sides in x and in y.         *)
Box(id, x, y, l, w) == [id |-> id, x |-> x, y |-> y, l |-> l, w |-> w]

(* is_overlap: edges may touch.                                             *)
Overlap(b, c) ==
  /\ b.x < c.x + c.l /\ c.x < b.x + b.l
  /\ b.y < c.y + c.w /\ c.y < b.y + b.w

Clear(b, boxes) == \A c \in boxes : ~ Overlap(b, c)

Inside(b) == 0 <= b.x /\ b.x + b.l <= Length /\ 0 <= b.y /\ b.y + b.w <= Width

At(b, p) == Box(b.id, p[1], p[2], b.l, b.w)

-----------------------------------------------------------------------------
(* The way of a box to the door, past boxes that stay.                      *)

(* What the box sweeps when it moves straight from p to q.                  *)
LeftOf(i, j)   == IF i < j THEN i ELSE j
Distance(i, j) == IF i < j THEN j - i ELSE i - j
Swept(b, p, q) ==
  Box(b.id, LeftOf(p[1], q[1]), LeftOf(p[2], q[2]),
      b.l + Distance(p[1], q[1]), b.w + Distance(p[2], q[2]))

(* _blocks_straight_path: what stands between the box and the door.         *)
Corridor(b) == Box(b.id, b.x + b.l, b.y, Length - b.x - b.l, b.w)
StraightClear(b, boxes) == Length = b.x + b.l \/ Clear(Corridor(b), boxes)

(* _movement_axis_values: the walls, the start, and touching another box.   *)
XStops(b, boxes) ==
  {0, b.x, Length - b.l}
    \cup {x \in UNION {{c.x - b.l, c.x + c.l} : c \in boxes} : 0 <= x /\ x <= Length - b.l}
YStops(b, boxes) ==
  {0, b.y, Width - b.w}
    \cup {y \in UNION {{c.y - b.w, c.y + c.w} : c \in boxes} : 0 <= y /\ y <= Width - b.w}

NextTo(i, j, stops) == i # j /\ \A k \in stops : ~ (i < k /\ k < j) /\ ~ (j < k /\ k < i)

AnySegment(b, p, q, boxes)   == TRUE  \* mutant: only the ends of a move are looked at
SegmentClear(b, p, q, boxes) == Clear(Swept(b, p, q), boxes)

(* The nodes of the grid, and the moves between neighbours.                 *)
Nodes(b, boxes) ==
  {q \in XStops(b, boxes) \X YStops(b, boxes) : Clear(At(b, q), boxes)}
Moves(b, boxes, p, q) ==
  /\ \/ p[2] = q[2] /\ NextTo(p[1], q[1], XStops(b, boxes))
     \/ p[1] = q[1] /\ NextTo(p[2], q[2], YStops(b, boxes))
  /\ SegmentClear(b, p, q, boxes)

(* The search of _find_translation_path_to_door: all that is reached.       *)
Reached(b, boxes) ==
  LET After[n \in 0 .. Cardinality(Nodes(b, boxes))] ==
        IF n = 0 THEN {<<b.x, b.y>>}
        ELSE LET seen == After[n - 1] IN
             seen \cup {q \in Nodes(b, boxes) \ seen : \E p \in seen : Moves(b, boxes, p, q)}
  IN After[Cardinality(Nodes(b, boxes))]

PathClear(b, boxes) ==
  /\ Inside(b)
  /\ \/ StraightClear(b, boxes)
     \/ /\ Clear(b, boxes)
        /\ \E p \in Reached(b, boxes) : p[1] = Length - b.l

-----------------------------------------------------------------------------
(* Where a box can be put: _candidate_placements.                           *)

(* An item that is not on board: sides, and whether it may be turned.       *)
Orientations(i) ==
  {<<i.l, i.w>>} \cup (IF i.turns THEN {<<i.w, i.l>>} ELSE {})

XCorners(l, boxes) ==
  {0, Length - l} \cup UNION {{c.x, c.x + c.l, c.x - l, c.x + c.l - l} : c \in boxes}
YCorners(w, boxes) ==
  {0, Width - w} \cup UNION {{c.y, c.y + c.w, c.y - w, c.y + c.w - w} : c \in boxes}

PlacesOf(i, boxes) ==
  UNION {{Box(i.id, x, y, o[1], o[2]) : x \in XCorners(o[1], boxes), y \in YCorners(o[2], boxes)} :
         o \in Orientations(i)}

CornersOver(i, boxes) == {b \in PlacesOf(i, boxes) : Inside(b)}  \* mutant: others may be there
Corners(i, boxes) == {b \in PlacesOf(i, boxes) : Inside(b) /\ Clear(b, boxes)}
=============================================================================

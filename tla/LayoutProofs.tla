----------------------------- MODULE LayoutProofs -----------------------------
(***************************************************************************)
(* Proofs about the search for layouts (LayoutSearch), for any floor, any  *)
(* payload and any routes of items with positive sizes: a route that is    *)
(* called valid can be carried out, and so can one that the quick check    *)
(* lets pass.                                                              *)
(*                                                                         *)
(* First what the code computes is related to what the boxes can do: that  *)
(* the grid search finds a way only where there is one, unit by unit; that *)
(* the unload order brings every box out; that one more box that has a way *)
(* in can enter last; that the corners and the orders of items and places  *)
(* are what they are taken for.  The induction over sets of items and over *)
(* numbers goes through Numbers, Least and Recursion, which say what is    *)
(* needed of the theorems on well-founded relations.                       *)
(*                                                                         *)
(* Then LayoutInv relates the stack of the search to the stops of a cycle: *)
(* every frame of a stop starts from the boxes that the stop below it has  *)
(* come to by a good step, and the boxes of a frame of an item are placed  *)
(* from there.  When the last stop of a cycle is reached the stack         *)
(* therefore holds one good step after the other.                          *)
(*                                                                         *)
(* At the end the layouts of the quick check (LayoutReference) are found   *)
(* one after another among those that the stops can lead to.               *)
(***************************************************************************)
EXTENDS LayoutReference, FiniteSetTheorems, SequenceTheorems, WellFoundedInduction, TLAPS

-----------------------------------------------------------------------------
(* Induction, for a set of numbers.                                         *)
LEMMA Numbers ==
  ASSUME NEW A, 0 \in A, \A n \in Nat : n \in A => n + 1 \in A
  PROVE  Nat \subseteq A
  <1> DEFINE R == {p \in Nat \X Nat : p[1] < p[2]}
             B == Nat \ A
  <1>1. IsWellFoundedOn(R, Nat)
    BY NatLessThanWellFounded DEF OpToRel
  <1>2. SUFFICES ASSUME B # {} PROVE FALSE
    OBVIOUS
  <1>3. ASSUME NEW W, IsWellFoundedOn(W, Nat)
        PROVE  \E n \in B : \A m \in B : ~ (<<m, n>> \in W)
    BY <1>2, <1>3, WFMin
  <1>4. PICK n \in B : \A m \in B : ~ (<<m, n>> \in R)
    BY <1>1, <1>3
  <1>5. n \in Nat /\ n # 0 /\ n - 1 \in Nat /\ <<n - 1, n>> \in R
    OBVIOUS
  <1>6. n - 1 \in A
    BY <1>4, <1>5
  <1>7. (n - 1) + 1 \in A
    BY <1>5, <1>6
  <1> QED
    BY <1>5, <1>7

LEMMA Least ==
  ASSUME NEW A \in SUBSET Nat, A # {}
  PROVE  \E n \in A : \A m \in A : n <= m
  <1> DEFINE B == {n \in Nat : \A m \in A : n <= m}
             C == {n \in Nat : \A m \in A : n < m}
  <1>1. PICK a \in A : TRUE
    OBVIOUS
  <1>2. SUFFICES ASSUME \A n \in A : \E m \in A : m < n
                 PROVE  FALSE
    OBVIOUS
  <1>3. 0 \in B
    OBVIOUS
  <1>4. ASSUME NEW n \in Nat, n \in B PROVE n + 1 \in B
    <2>1. n \notin A
      BY <1>2, <1>4
    <2> QED
      BY <1>4, <2>1
  <1> HIDE DEF B
  <1>5. Nat \subseteq B
    BY <1>3, <1>4, Numbers
  <1>6. a + 1 \in B
    BY <1>5
  <1> QED
    BY <1>1, <1>6 DEF B

(* A definition by recursion on a rank has a solution, if what it gives at  *)
(* a point depends on points of lower rank only.                            *)
IsRecursion(D, V, step, rank, N) ==
  /\ [D -> V] # {} /\ step \in [[D -> V] -> [D -> V]]
  /\ N \in Nat /\ rank \in [D -> 0 .. N]
  /\ \A f, g \in [D -> V] : \A d \in D :
       (\A e \in D : rank[e] < rank[d] => f[e] = g[e]) => step[f][d] = step[g][d]

LEMMA Recursion ==
  ASSUME NEW D, NEW V, NEW step, NEW rank, NEW N, IsRecursion(D, V, step, rank, N)
  PROVE  \E f \in [D -> V] : step[f] = f
  <1> USE DEF IsRecursion
  <1> DEFINE A == {n \in Nat : \E f \in [D -> V] : \A d \in D : rank[d] < n => step[f][d] = f[d]}
  <1>1. 0 \in A
    <2>1. \A d \in D : ~ (rank[d] < 0)
      OBVIOUS
    <2> QED
      BY <2>1
  <1>2. ASSUME NEW n \in Nat, n \in A PROVE n + 1 \in A
    <2>1. PICK f \in [D -> V] : \A d \in D : rank[d] < n => step[f][d] = f[d]
      BY <1>2
    <2>2. step[f] \in [D -> V]
      OBVIOUS
    <2>3. ASSUME NEW d \in D, rank[d] < n + 1
          PROVE  step[step[f]][d] = step[f][d]
      <3>1. \A e \in D : rank[e] < rank[d] => rank[e] < n
        BY <2>3
      <3>2. \A e \in D : rank[e] < rank[d] => step[f][e] = f[e]
        BY <2>1, <3>1
      <3> QED
        BY <2>2, <3>2
    <2> QED
      BY <2>2, <2>3
  <1>3. N + 1 \in A
    <2> HIDE DEF A
    <2> QED
      BY <1>1, <1>2, Numbers
  <1>4. PICK f \in [D -> V] : \A d \in D : rank[d] < N + 1 => step[f][d] = f[d]
    BY <1>3
  <1>5. \A d \in D : step[f][d] = f[d]
    BY <1>4
  <1>6. step[f] \in [D -> V]
    OBVIOUS
  <1> QED
    BY <1>5, <1>6

-----------------------------------------------------------------------------
(* The floor: a way that the search finds is a way for a box that is pushed *)
(* by one unit at a time.                                                   *)

IsBox(b) ==
  /\ b = Box(b.id, b.x, b.y, b.l, b.w)
  /\ b.x \in Int /\ b.y \in Int /\ b.l \in Nat \ {0} /\ b.w \in Nat \ {0}

AreBoxes(boxes) == IsFiniteSet(boxes) /\ \A b \in boxes : IsBox(b)

Places == Int \X Int

(* What contains the place of a box and what it can be pushed to from any   *)
(* place in it.                                                             *)
ClosedFor(S, b, boxes) ==
  <<b.x, b.y>> \in S /\ \A p \in S, q \in Free(b, boxes) : Pushed(p, q) => q \in S

LEMMA AtIsBox ==
  ASSUME NEW b, IsBox(b), NEW p \in Places
  PROVE  /\ IsBox(At(b, p))
         /\ At(b, p).x = p[1] /\ At(b, p).y = p[2] /\ At(b, p).l = b.l /\ At(b, p).w = b.w
         /\ At(b, p).id = b.id
  <1>1. At(b, p) = Box(b.id, p[1], p[2], b.l, b.w)
    BY DEF At
  <1>2. p[1] \in Int /\ p[2] \in Int
    BY DEF Places
  <1> QED
    BY <1>1, <1>2 DEF IsBox, Box

LEMMA AtOwnPlace ==
  ASSUME NEW b, IsBox(b)
  PROVE  At(b, <<b.x, b.y>>) = b
  <1>1. b = Box(b.id, b.x, b.y, b.l, b.w)
    BY DEF IsBox
  <1>2. At(b, <<b.x, b.y>>) = Box(b.id, b.x, b.y, b.l, b.w)
    BY <1>1 DEF Box, At
  <1> QED
    BY <1>1, <1>2

LEMMA FreePlaces ==
  ASSUME NEW b, IsBox(b), NEW boxes, AreBoxes(boxes), NEW q \in Places
  PROVE  q \in Free(b, boxes) <=>
           /\ 0 <= q[1] /\ q[1] + b.l <= Length /\ 0 <= q[2] /\ q[2] + b.w <= Width
           /\ \A c \in boxes : ~ (/\ q[1] < c.x + c.l /\ c.x < q[1] + b.l
                                  /\ q[2] < c.y + c.w /\ c.y < q[2] + b.w)
  <1>1. q[1] \in Int /\ q[2] \in Int /\ q = <<q[1], q[2]>>
    BY DEF Places
  <1>2. b.l \in Nat \ {0} /\ b.w \in Nat \ {0}
    BY DEF IsBox
  <1>3. 0 <= q[1] /\ q[1] + b.l <= Length /\ 0 <= q[2] /\ q[2] + b.w <= Width => q \in Grid
    BY <1>1, <1>2, FloorAssumption DEF Grid
  <1>4. Inside(At(b, q)) <=>
          0 <= q[1] /\ q[1] + b.l <= Length /\ 0 <= q[2] /\ q[2] + b.w <= Width
    BY AtIsBox DEF Inside
  <1>5. Clear(At(b, q), boxes) <=>
          \A c \in boxes : ~ (/\ q[1] < c.x + c.l /\ c.x < q[1] + b.l
                             /\ q[2] < c.y + c.w /\ c.y < q[2] + b.w)
    BY AtIsBox DEF Clear, Overlap
  <1> QED
    BY <1>3, <1>4, <1>5 DEF Free

LEMMA FreeLine ==
  ASSUME NEW S, NEW b, NEW boxes, ClosedFor(S, b, boxes),
         NEW n \in Nat, NEW line \in [0 .. n -> Places], line[0] \in S,
         \A i \in 0 .. n - 1 : Pushed(line[i], line[i + 1]) /\ line[i + 1] \in Free(b, boxes)
  PROVE  line[n] \in S
  <1> DEFINE A == {i \in Nat : i <= n => line[i] \in S}
  <1>1. 0 \in A
    OBVIOUS
  <1>2. ASSUME NEW i \in Nat, i \in A PROVE i + 1 \in A
    <2> SUFFICES ASSUME i + 1 <= n PROVE line[i + 1] \in S
      OBVIOUS
    <2>1. i \in 0 .. n - 1 /\ line[i] \in S
      BY <1>2
    <2> QED
      BY <2>1 DEF ClosedFor
  <1>3. n \in A
    <2> HIDE DEF A
    <2> QED
      BY <1>1, <1>2, Numbers
  <1> QED
    BY <1>3

LEMMA StraightWay ==
  ASSUME NEW b, IsBox(b), NEW boxes, AreBoxes(boxes), Inside(b), Clear(b, boxes),
         StraightClear(b, boxes), NEW S, ClosedFor(S, b, boxes)
  PROVE  <<Length - b.l, b.y>> \in S
  <1> DEFINE n == Length - b.l - b.x
             line == [i \in 0 .. n |-> <<b.x + i, b.y>>]
  <1>1. /\ b.x \in Int /\ b.y \in Int /\ b.l \in Nat \ {0} /\ b.w \in Nat \ {0}
        /\ Length \in Nat /\ Width \in Nat
    BY FloorAssumption DEF IsBox
  <1>2. 0 <= b.x /\ b.x + b.l <= Length /\ 0 <= b.y /\ b.y + b.w <= Width
    BY DEF Inside
  <1>3. n \in Nat /\ b.x + n = Length - b.l
    BY <1>1, <1>2
  <1>4. ASSUME NEW i \in 0 .. n - 1
        PROVE  <<b.x + i + 1, b.y>> \in Free(b, boxes)
    <2>1. <<b.x + i + 1, b.y>> \in Places
      BY <1>1, <1>3 DEF Places
    <2>2. i \in Int /\ 0 <= i /\ b.x + i + 1 + b.l <= Length
      BY <1>1, <1>3
    <2>3. ASSUME NEW c \in boxes
          PROVE  ~ (/\ b.x + i + 1 < c.x + c.l /\ c.x < b.x + i + 1 + b.l
                    /\ b.y < c.y + c.w /\ c.y < b.y + b.w)
      <3>1. c.x \in Int /\ c.y \in Int /\ c.l \in Nat \ {0} /\ c.w \in Nat \ {0}
        BY DEF AreBoxes, IsBox
      <3>2. ~ (/\ b.x < c.x + c.l /\ c.x < b.x + b.l /\ b.y < c.y + c.w /\ c.y < b.y + b.w)
        BY DEF Clear, Overlap
      <3>3. Clear(Corridor(b), boxes)
        BY <1>1, <2>2 DEF StraightClear
      <3>4. ~ (/\ b.x + b.l < c.x + c.l /\ c.x < (b.x + b.l) + (Length - b.x - b.l)
               /\ b.y < c.y + c.w /\ c.y < b.y + b.w)
        BY <3>3 DEF Clear, Overlap, Corridor, Box
      <3> QED
        BY <1>1, <2>2, <3>1, <3>2, <3>4
    <2> QED
      BY <1>1, <1>2, <2>1, <2>2, <2>3, FreePlaces
  <1>5. ASSUME NEW i \in 0 .. n - 1
        PROVE  Pushed(line[i], line[i + 1]) /\ line[i + 1] \in Free(b, boxes)
    <2>0. i \in 0 .. n /\ i + 1 \in 0 .. n /\ i \in Int
      BY <1>3
    <2>1. line[i] = <<b.x + i, b.y>> /\ line[i + 1] = <<b.x + i + 1, b.y>>
      <3>1. b.x + (i + 1) = b.x + i + 1
        BY <1>1, <2>0
      <3> HIDE DEF n
      <3> QED
        BY <2>0, <3>1
    <2>2. Pushed(<<b.x + i, b.y>>, <<b.x + i + 1, b.y>>)
      BY <1>1, <1>3 DEF Pushed, Distance
    <2> QED
      BY <1>4, <2>1, <2>2
  <1>6. line \in [0 .. n -> Places]
    BY <1>1, <1>3 DEF Places
  <1>7. line[0] \in S
    BY <1>1, <1>3 DEF ClosedFor
  <1>8. line[n] = <<Length - b.l, b.y>>
    BY <1>1, <1>3
  <1> HIDE DEF n, line
  <1>9. line[n] \in S
    BY <1>3, <1>5, <1>6, <1>7, FreeLine
  <1> QED
    BY <1>8, <1>9

LEMMA SegmentWay ==
  ASSUME NEW b, IsBox(b), NEW boxes, AreBoxes(boxes), NEW S, ClosedFor(S, b, boxes),
         NEW p \in Places, NEW q \in Places, p \in S,
         0 <= p[1], p[1] + b.l <= Length, 0 <= p[2], p[2] + b.w <= Width,
         0 <= q[1], q[1] + b.l <= Length, 0 <= q[2], q[2] + b.w <= Width,
         p[1] = q[1] \/ p[2] = q[2], SegmentClear(b, p, q, boxes)
  PROVE  q \in S
  <1> DEFINE n == Distance(p[1], q[1]) + Distance(p[2], q[2])
             Toward(i, j, k) == IF i < j THEN i + k ELSE IF j < i THEN i - k ELSE i
             line == [k \in 0 .. n |-> <<Toward(p[1], q[1], k), Toward(p[2], q[2], k)>>]
  <1>1. /\ p[1] \in Int /\ p[2] \in Int /\ q[1] \in Int /\ q[2] \in Int
        /\ p = <<p[1], p[2]>> /\ q = <<q[1], q[2]>>
        /\ b.l \in Nat \ {0} /\ b.w \in Nat \ {0} /\ Length \in Nat /\ Width \in Nat
    BY FloorAssumption DEF IsBox, Places
  <1>2. n \in Nat
    BY <1>1 DEF Distance
  <1>3. \A i, j \in Int, k \in Nat : Toward(i, j, k) \in Int
    OBVIOUS
  <1>4. line \in [0 .. n -> Places]
    <2> HIDE DEF n, Toward
    <2>1. ASSUME NEW k \in 0 .. n
          PROVE  <<Toward(p[1], q[1], k), Toward(p[2], q[2], k)>> \in Places
      <3>1. k \in Nat
        BY <1>2
      <3>2. Toward(p[1], q[1], k) \in Int /\ Toward(p[2], q[2], k) \in Int
        BY <1>1, <1>3, <3>1
      <3> QED
        BY <3>2 DEF Places
    <2> QED
      BY <2>1
  <1>5. line[0] = p
    <2>1. line[0] = <<Toward(p[1], q[1], 0), Toward(p[2], q[2], 0)>>
      BY <1>2
    <2>2. Toward(p[1], q[1], 0) = p[1] /\ Toward(p[2], q[2], 0) = p[2]
      BY <1>1
    <2> HIDE DEF line, Toward
    <2> QED
      BY <1>1, <2>1, <2>2
  <1>6. line[n] = q
    <2>1. line[n] = <<Toward(p[1], q[1], n), Toward(p[2], q[2], n)>>
      BY <1>2
    <2>2. Toward(p[1], q[1], n) = q[1] /\ Toward(p[2], q[2], n) = q[2]
      BY <1>1 DEF Distance
    <2> HIDE DEF line, Toward
    <2> QED
      BY <1>1, <2>1, <2>2
  <1>7. ASSUME NEW k \in 0 .. n - 1
        PROVE  Pushed(line[k], line[k + 1]) /\ line[k + 1] \in Free(b, boxes)
    <2> DEFINE x == Toward(p[1], q[1], k + 1)
               y == Toward(p[2], q[2], k + 1)
    <2>1. k \in Int /\ 0 <= k /\ k < n /\ k \in 0 .. n /\ k + 1 \in 0 .. n
      BY <1>2
    <2>2. line[k + 1] = <<x, y>> /\ line[k] = <<Toward(p[1], q[1], k), Toward(p[2], q[2], k)>>
      BY <2>1
    <2>3. Pushed(<<Toward(p[1], q[1], k), Toward(p[2], q[2], k)>>, <<x, y>>)
      BY <1>1, <2>1 DEF Pushed, Distance
    <2>4. /\ x \in Int /\ y \in Int
          /\ 0 <= x /\ x + b.l <= Length /\ 0 <= y /\ y + b.w <= Width
          /\ LeftOf(p[1], q[1]) <= x /\ x + b.l <= LeftOf(p[1], q[1]) + (b.l + Distance(p[1], q[1]))
          /\ LeftOf(p[2], q[2]) <= y /\ y + b.w <= LeftOf(p[2], q[2]) + (b.w + Distance(p[2], q[2]))
      BY <1>1, <2>1 DEF Distance, LeftOf
    <2>5. ASSUME NEW c \in boxes
          PROVE  ~ (/\ x < c.x + c.l /\ c.x < x + b.l
                    /\ y < c.y + c.w /\ c.y < y + b.w)
      <3>1. c.x \in Int /\ c.y \in Int /\ c.l \in Nat \ {0} /\ c.w \in Nat \ {0}
        BY DEF AreBoxes, IsBox
      <3>2. ~ (/\ LeftOf(p[1], q[1]) < c.x + c.l
               /\ c.x < LeftOf(p[1], q[1]) + (b.l + Distance(p[1], q[1]))
               /\ LeftOf(p[2], q[2]) < c.y + c.w
               /\ c.y < LeftOf(p[2], q[2]) + (b.w + Distance(p[2], q[2])))
        BY DEF SegmentClear, Clear, Overlap, Swept, Box
      <3>3. LeftOf(p[1], q[1]) \in Int /\ LeftOf(p[2], q[2]) \in Int
            /\ Distance(p[1], q[1]) \in Int /\ Distance(p[2], q[2]) \in Int
        BY <1>1 DEF LeftOf, Distance
      <3> HIDE DEF x, y
      <3> QED
        BY <1>1, <2>4, <3>1, <3>2, <3>3
    <2>6. <<x, y>> \in Places
      BY <2>4 DEF Places
    <2> HIDE DEF x, y, line
    <2>7. <<x, y>> \in Free(b, boxes)
      BY <2>4, <2>5, <2>6, FreePlaces
    <2> QED
      BY <2>2, <2>3, <2>7
  <1> HIDE DEF n, line
  <1> QED
    BY <1>2, <1>4, <1>5, <1>6, <1>7, FreeLine

LEMMA NodesAreInside ==
  ASSUME NEW b, IsBox(b), Inside(b), NEW boxes, AreBoxes(boxes)
  PROVE  /\ IsFiniteSet(Nodes(b, boxes))
         /\ \A q \in Nodes(b, boxes) :
              /\ q \in Places
              /\ 0 <= q[1] /\ q[1] + b.l <= Length /\ 0 <= q[2] /\ q[2] + b.w <= Width
  <1>1. /\ b.x \in Int /\ b.y \in Int /\ b.l \in Nat \ {0} /\ b.w \in Nat \ {0}
        /\ Length \in Nat /\ Width \in Nat
        /\ 0 <= b.x /\ b.x + b.l <= Length /\ 0 <= b.y /\ b.y + b.w <= Width
    BY FloorAssumption DEF IsBox, Inside
  <1>2. \A c \in boxes : c.x \in Int /\ c.y \in Int /\ c.l \in Int /\ c.w \in Int
    BY DEF AreBoxes, IsBox
  <1>3. XStops(b, boxes) \subseteq 0 .. Length - b.l
    <2>1. ASSUME NEW x \in XStops(b, boxes)
          PROVE  x \in Int /\ 0 <= x /\ x <= Length - b.l
      <3>1. CASE x \in {0, b.x, Length - b.l}
        BY <1>1, <3>1
      <3>2. CASE x \notin {0, b.x, Length - b.l}
        <4>1. /\ x \in UNION {{c.x - b.l, c.x + c.l} : c \in boxes}
              /\ 0 <= x /\ x <= Length - b.l
          BY <3>2 DEF XStops
        <4>2. PICK c \in boxes : x \in {c.x - b.l, c.x + c.l}
          BY <4>1
        <4> QED
          BY <1>1, <1>2, <4>1, <4>2
      <3> QED
        BY <3>1, <3>2
    <2> QED
      BY <1>1, <2>1
  <1>4. YStops(b, boxes) \subseteq 0 .. Width - b.w
    <2>1. ASSUME NEW y \in YStops(b, boxes)
          PROVE  y \in Int /\ 0 <= y /\ y <= Width - b.w
      <3>1. CASE y \in {0, b.y, Width - b.w}
        BY <1>1, <3>1
      <3>2. CASE y \notin {0, b.y, Width - b.w}
        <4>1. /\ y \in UNION {{c.y - b.w, c.y + c.w} : c \in boxes}
              /\ 0 <= y /\ y <= Width - b.w
          BY <3>2 DEF YStops
        <4>2. PICK c \in boxes : y \in {c.y - b.w, c.y + c.w}
          BY <4>1
        <4> QED
          BY <1>1, <1>2, <4>1, <4>2
      <3> QED
        BY <3>1, <3>2
    <2> QED
      BY <1>1, <2>1
  <1> DEFINE X == 0 .. Length - b.l
             Y == 0 .. Width - b.w
  <1>5. IsFiniteSet(X \X Y)
    <2>1. 0 \in Int /\ Length - b.l \in Int /\ Width - b.w \in Int
      BY <1>1
    <2>2. IsFiniteSet(X) /\ IsFiniteSet(Y)
      BY <2>1, FS_Interval
    <2> QED
      BY <2>2, FS_Product
  <1>6. Nodes(b, boxes) \subseteq X \X Y
    BY <1>3, <1>4 DEF Nodes
  <1>7. IsFiniteSet(Nodes(b, boxes))
    BY <1>5, <1>6, FS_Subset
  <1>8. ASSUME NEW q \in X \X Y
        PROVE  /\ q \in Places
               /\ 0 <= q[1] /\ q[1] + b.l <= Length /\ 0 <= q[2] /\ q[2] + b.w <= Width
    <2>1. q[1] \in X /\ q[2] \in Y /\ q = <<q[1], q[2]>>
      OBVIOUS
    <2> QED
      BY <1>1, <2>1 DEF Places
  <1> HIDE DEF X, Y
  <1> QED
    BY <1>6, <1>7, <1>8

(* One round of the search, from what the rounds before it have reached.    *)
Wave(b, boxes, seen) ==
  seen \cup {q \in Nodes(b, boxes) \ seen : \E p \in seen : Moves(b, boxes, p, q)}

Rounds(b, boxes, f) ==
  [n \in 0 .. Cardinality(Nodes(b, boxes)) |->
     IF n = 0 THEN {<<b.x, b.y>>} ELSE Wave(b, boxes, f[n - 1])]

LEMMA ReachedInRounds ==
  ASSUME NEW b, NEW boxes
  PROVE  Reached(b, boxes) = (CHOOSE f : f = Rounds(b, boxes, f))[Cardinality(Nodes(b, boxes))]
  BY DEF Reached, Rounds, Wave

LEMMA RoundsExist ==
  ASSUME NEW b, IsBox(b), Inside(b), NEW boxes, AreBoxes(boxes)
  PROVE  \E f : f = Rounds(b, boxes, f)
  <1> DEFINE N == Cardinality(Nodes(b, boxes))
             D == 0 .. N
             V == SUBSET Places
             start == [n \in D |-> {}]
             step == [f \in [D -> V] |-> Rounds(b, boxes, f)]
             rank == [n \in D |-> n]
  <1>1. N \in Nat
    BY NodesAreInside, FS_CardinalityType
  <1>2. <<b.x, b.y>> \in Places /\ Nodes(b, boxes) \subseteq Places
    BY NodesAreInside DEF IsBox, Places
  <1>3. \A seen \in V : Wave(b, boxes, seen) \in V
    BY <1>2 DEF Wave
  <1>4. ASSUME NEW f \in [D -> V]
        PROVE  Rounds(b, boxes, f) \in [D -> V]
    <2>1. ASSUME NEW n \in D PROVE Rounds(b, boxes, f)[n] \in V
      <3>1. CASE n = 0
        BY <1>2, <3>1 DEF Rounds
      <3>2. CASE n # 0
        <4>1. n - 1 \in D
          BY <1>1, <3>2
        <4>2. Rounds(b, boxes, f)[n] = Wave(b, boxes, f[n - 1])
          BY <3>2 DEF Rounds
        <4> HIDE DEF V, D
        <4> QED
          BY <1>3, <4>1, <4>2
      <3> QED
        BY <3>1, <3>2
    <2>2. Rounds(b, boxes, f) = [n \in D |-> Rounds(b, boxes, f)[n]]
      BY DEF Rounds
    <2> QED
      BY <2>1, <2>2
  <1>5. step \in [[D -> V] -> [D -> V]]
    <2> HIDE DEF D, V
    <2> QED
      BY <1>4
  <1>6. start \in [D -> V] /\ rank \in [D -> 0 .. N]
    OBVIOUS
  <1>7. ASSUME NEW f \in [D -> V], NEW g \in [D -> V], NEW n \in D,
               \A m \in D : rank[m] < rank[n] => f[m] = g[m]
        PROVE  step[f][n] = step[g][n]
    <2>1. n # 0 => f[n - 1] = g[n - 1]
      BY <1>1, <1>7
    <2>2. step[f][n] = Rounds(b, boxes, f)[n] /\ step[g][n] = Rounds(b, boxes, g)[n]
      OBVIOUS
    <2>3. Rounds(b, boxes, f)[n] = Rounds(b, boxes, g)[n]
      BY <2>1 DEF Rounds
    <2> QED
      BY <2>2, <2>3
  <1> HIDE DEF step, rank, start, V, D, N
  <1>11. \A f, g \in [D -> V] : \A n \in D :
           (\A m \in D : rank[m] < rank[n] => f[m] = g[m]) => step[f][n] = step[g][n]
    BY <1>7
  <1>12. IsRecursion(D, V, step, rank, N)
    BY <1>1, <1>5, <1>6, <1>11 DEF IsRecursion
  <1>8. \E f \in [D -> V] : step[f] = f
    BY <1>12, Recursion
  <1>9. PICK f \in [D -> V] : step[f] = f
    BY <1>8
  <1>10. step[f] = Rounds(b, boxes, f)
    BY DEF step
  <1> QED
    BY <1>9, <1>10

(* What the search on the grid reaches, a box that is pushed reaches.       *)
LEMMA ReachedIsPushed ==
  ASSUME NEW b, IsBox(b), Inside(b), NEW boxes, AreBoxes(boxes), NEW S, ClosedFor(S, b, boxes)
  PROVE  Reached(b, boxes) \subseteq S
  <1> DEFINE N == Cardinality(Nodes(b, boxes))
             f == CHOOSE g : g = Rounds(b, boxes, g)
             Well(seen) == \A p \in seen :
                /\ p \in S /\ p \in Places
                /\ 0 <= p[1] /\ p[1] + b.l <= Length /\ 0 <= p[2] /\ p[2] + b.w <= Width
             A == {n \in Nat : n <= N => Well(f[n])}
  <1>1. N \in Nat
    BY NodesAreInside, FS_CardinalityType
  <1>2. f = Rounds(b, boxes, f)
    BY RoundsExist
  <1> HIDE DEF f
  <1>3. 0 \in A
    <2>1. f[0] = {<<b.x, b.y>>}
      BY <1>1, <1>2 DEF Rounds
    <2>2. Well({<<b.x, b.y>>})
      BY DEF ClosedFor, IsBox, Inside, Places
    <2> HIDE DEF Well
    <2> QED
      BY <2>1, <2>2
  <1>4. ASSUME NEW seen, Well(seen)
        PROVE  Well(Wave(b, boxes, seen))
    <2> SUFFICES ASSUME NEW q \in Nodes(b, boxes), NEW p \in seen, Moves(b, boxes, p, q)
                 PROVE  /\ q \in S /\ q \in Places
                        /\ 0 <= q[1] /\ q[1] + b.l <= Length /\ 0 <= q[2] /\ q[2] + b.w <= Width
      BY <1>4 DEF Wave
    <2>1. /\ q \in Places
          /\ 0 <= q[1] /\ q[1] + b.l <= Length /\ 0 <= q[2] /\ q[2] + b.w <= Width
      BY NodesAreInside
    <2>2. /\ p \in S /\ p \in Places
          /\ 0 <= p[1] /\ p[1] + b.l <= Length /\ 0 <= p[2] /\ p[2] + b.w <= Width
      BY <1>4
    <2>3. (p[1] = q[1] \/ p[2] = q[2]) /\ SegmentClear(b, p, q, boxes)
      BY DEF Moves
    <2>4. q \in S
      BY <2>1, <2>2, <2>3, SegmentWay
    <2> QED
      BY <2>1, <2>4
  <1>5. ASSUME NEW n \in Nat, n \in A PROVE n + 1 \in A
    <2> SUFFICES ASSUME n + 1 <= N PROVE Well(f[n + 1])
      OBVIOUS
    <2>1. Well(f[n])
      BY <1>1, <1>5
    <2>2. f[n + 1] = Wave(b, boxes, f[n])
      <3>1. n + 1 \in 0 .. N /\ n + 1 # 0 /\ (n + 1) - 1 = n
        BY <1>1
      <3>2. f[n + 1] = Wave(b, boxes, f[(n + 1) - 1])
        BY <1>2, <3>1 DEF Rounds
      <3> QED
        BY <3>1, <3>2
    <2> HIDE DEF Well
    <2> QED
      BY <1>4, <2>1, <2>2
  <1>6. Well(f[N])
    <2>1. N \in A
      <3> HIDE DEF A
      <3> QED
        BY <1>1, <1>3, <1>5, Numbers
    <2> QED
      BY <1>1, <2>1
  <1>7. Reached(b, boxes) = f[N]
    BY ReachedInRounds DEF f
  <1> QED
    BY <1>6, <1>7

LEMMA ClearPathLeaves ==
  ASSUME NEW b, IsBox(b), NEW boxes, AreBoxes(boxes), Clear(b, boxes), PathClear(b, boxes)
  PROVE  CanLeave(b, boxes)
  <1>1. Inside(b)
    BY DEF PathClear
  <1>2. <<b.x, b.y>> \in Free(b, boxes)
    <2>1. <<b.x, b.y>> \in Grid
      BY <1>1, FloorAssumption DEF Inside, IsBox, Grid
    <2> QED
      BY <1>1, <2>1, AtOwnPlace DEF Free
  <1>3. ASSUME NEW S, ClosedFor(S, b, boxes)
        PROVE  \E p \in S : p[1] = Length - b.l
    <2>1. CASE StraightClear(b, boxes)
      <3>1. <<Length - b.l, b.y>> \in S
        BY <1>1, <1>3, <2>1, StraightWay
      <3> QED
        BY <3>1
    <2>2. CASE ~ StraightClear(b, boxes)
      <3>1. PICK p \in Reached(b, boxes) : p[1] = Length - b.l
        BY <2>2 DEF PathClear
      <3> QED
        BY <1>1, <1>3, <3>1, ReachedIsPushed
    <2> QED
      BY <2>1, <2>2
  <1> QED
    BY <1>2, <1>3 DEF CanLeave, ClosedFor

-----------------------------------------------------------------------------
(* Keys are sequences of numbers of one length; a set whose members have    *)
(* different keys is sorted by them.                                        *)

Keys(m) == {s \in Seq(Int) : Len(s) = m}

LEMMA BeforeIsOrder ==
  ASSUME NEW m \in Nat, NEW s \in Keys(m), NEW t \in Keys(m)
  PROVE  /\ ~ (Before(s, t) /\ Before(t, s))
         /\ ~ Before(s, s)
         /\ s # t => Before(s, t) \/ Before(t, s)
         /\ \A u \in Keys(m) : Before(s, t) /\ Before(t, u) => Before(s, u)
  <1>1. /\ s \in [1 .. m -> Int] /\ t \in [1 .. m -> Int] /\ Len(s) = m /\ Len(t) = m
    BY DEF Keys
  <1>2. ~ (Before(s, t) /\ Before(t, s))
    <2> SUFFICES ASSUME Before(s, t), Before(t, s) PROVE FALSE
      OBVIOUS
    <2>1. PICK k \in 1 .. m : s[k] < t[k] /\ \A j \in 1 .. k - 1 : s[j] = t[j]
      BY <1>1 DEF Before
    <2>2. PICK l \in 1 .. m : t[l] < s[l] /\ \A j \in 1 .. l - 1 : t[j] = s[j]
      BY <1>1 DEF Before
    <2>3. s[k] \in Int /\ t[k] \in Int /\ s[l] \in Int /\ t[l] \in Int
      BY <1>1
    <2>4. k < l => k \in 1 .. l - 1
      BY <1>1
    <2>5. l < k => l \in 1 .. k - 1
      BY <1>1
    <2> QED
      BY <2>1, <2>2, <2>3, <2>4, <2>5
  <1>3. ~ Before(s, s)
    BY <1>1 DEF Before
  <1>4. ASSUME s # t PROVE Before(s, t) \/ Before(t, s)
    <2> DEFINE A == {k \in 1 .. m : s[k] # t[k]}
    <2>1. A \in SUBSET Nat /\ A # {}
      BY <1>1, <1>4
    <2>2. PICK k \in A : \A j \in A : k <= j
      <3> HIDE DEF A
      <3> QED
        BY <2>1, Least
    <2>3. \A j \in 1 .. k - 1 : s[j] = t[j]
      BY <1>1, <2>2
    <2>4. s[k] < t[k] \/ t[k] < s[k]
      BY <1>1, <2>2
    <2> QED
      BY <1>1, <2>2, <2>3, <2>4 DEF Before
  <1>5. ASSUME NEW u \in Keys(m), Before(s, t), Before(t, u)
        PROVE  Before(s, u)
    <2>1. u \in [1 .. m -> Int] /\ Len(u) = m
      BY DEF Keys
    <2>2. PICK k \in 1 .. m : s[k] < t[k] /\ \A j \in 1 .. k - 1 : s[j] = t[j]
      BY <1>1, <1>5 DEF Before
    <2>3. PICK l \in 1 .. m : t[l] < u[l] /\ \A j \in 1 .. l - 1 : t[j] = u[j]
      BY <1>1, <1>5 DEF Before
    <2>4. s[k] \in Int /\ t[k] \in Int /\ u[k] \in Int /\ s[l] \in Int /\ t[l] \in Int /\ u[l] \in Int
      BY <1>1, <2>1
    <2>5. CASE k < l
      <3>1. k \in 1 .. l - 1
        BY <1>1, <2>5
      <3>2. s[k] < u[k]
        BY <2>2, <2>3, <3>1
      <3>3. \A j \in 1 .. k - 1 : j \in 1 .. l - 1
        BY <2>5
      <3> QED
        BY <1>1, <2>2, <2>3, <3>2, <3>3 DEF Before
    <2>6. CASE l <= k
      <3>1. s[l] < u[l]
        <4>1. l < k => s[l] = t[l]
          BY <2>2
        <4> QED
          BY <2>2, <2>3, <2>4, <2>6, <4>1
      <3>2. \A j \in 1 .. l - 1 : j \in 1 .. k - 1
        BY <2>6
      <3> QED
        BY <1>1, <2>2, <2>3, <3>1, <3>2 DEF Before
    <2> QED
      BY <2>5, <2>6
  <1> QED
    BY <1>2, <1>3, <1>4, <1>5

(* Keys for the members of S, all different.                                *)
AreKeys(S, key, m) ==
  /\ IsFiniteSet(S) /\ m \in Nat /\ \A i \in S : key[i] \in Keys(m)
  /\ \A i, j \in S : i # j => key[i] # key[j]

Lower(S, key, i) == {j \in S : Before(key[j], key[i])}

LEMMA LowerCounts ==
  ASSUME NEW S, NEW key, NEW m, AreKeys(S, key, m), NEW i \in S
  PROVE  /\ IsFiniteSet(Lower(S, key, i))
         /\ Cardinality(Lower(S, key, i)) \in 0 .. Cardinality(S) - 1
         /\ \A j \in S : Before(key[i], key[j]) =>
              Cardinality(Lower(S, key, i)) < Cardinality(Lower(S, key, j))
  <1> USE DEF AreKeys
  <1>1. Cardinality(S) \in Nat
    BY FS_CardinalityType
  <1>2. ASSUME NEW j \in S
        PROVE  /\ IsFiniteSet(Lower(S, key, j)) /\ Cardinality(Lower(S, key, j)) \in Nat
               /\ Cardinality(Lower(S, key, j)) < Cardinality(S)
    <2>1. Lower(S, key, j) \subseteq S /\ j \notin Lower(S, key, j)
      BY BeforeIsOrder DEF Lower
    <2> QED
      BY <2>1, FS_Subset, FS_CardinalityType
  <1>3. ASSUME NEW j \in S, Before(key[i], key[j])
        PROVE  Cardinality(Lower(S, key, i)) < Cardinality(Lower(S, key, j))
    <2>1. Lower(S, key, i) \subseteq Lower(S, key, j)
      <3> SUFFICES ASSUME NEW k \in S, Before(key[k], key[i]) PROVE Before(key[k], key[j])
        BY DEF Lower
      <3> QED
        BY <1>3, BeforeIsOrder
    <2>2. i \in Lower(S, key, j) /\ i \notin Lower(S, key, i)
      BY <1>3, BeforeIsOrder DEF Lower
    <2> QED
      BY <1>2, <2>1, <2>2, FS_Subset, FS_CardinalityType
  <1> QED
    BY <1>1, <1>2, <1>3

LEMMA SortedIsInOrder ==
  ASSUME NEW S, NEW key, NEW m, AreKeys(S, key, m)
  PROVE  LET n == Cardinality(S)  q == Sorted(S, key) IN
         /\ n \in Nat /\ q \in [1 .. n -> S] /\ Len(q) = n
         /\ \A i \in S : \E k \in 1 .. n : q[k] = i
         /\ \A k, l \in 1 .. n : k < l => Before(key[q[k]], key[q[l]])
  <1> DEFINE n == Cardinality(S)
             q == Sorted(S, key)
             count == [i \in S |-> Cardinality(Lower(S, key, i))]
             T == 0 .. n - 1
  <1>1. n \in Nat /\ IsFiniteSet(S)
    BY FS_CardinalityType DEF AreKeys
  <1>2. count \in [S -> T]
    BY LowerCounts
  <1>3. \A i, j \in S : Before(key[i], key[j]) => count[i] < count[j]
    BY LowerCounts
  <1>4. \A i, j \in S : i # j => Before(key[i], key[j]) \/ Before(key[j], key[i])
    BY BeforeIsOrder DEF AreKeys
  <1>5. \A i, j \in S : i # j => count[i] # count[j]
    <2>1. \A i \in S : count[i] \in Int
      BY <1>1, <1>2
    <2> HIDE DEF count
    <2> QED
      BY <1>3, <1>4, <2>1
  <1>6. count \in Injection(S, T)
    BY <1>2, <1>5 DEF Injection, IsInjective
  <1>7. IsFiniteSet(T) /\ Cardinality(T) = n
    <2>1. 0 \in Int /\ n - 1 \in Int
      BY <1>1
    <2> QED
      BY <1>1, <2>1, FS_Interval
  <1>8. count \in Surjection(S, T)
    BY <1>1, <1>6, <1>7, FS_Injection
  <1>9. \A k \in T : \E i \in S : count[i] = k
    BY <1>8 DEF Surjection
  <1>10. q = [k \in 1 .. n |-> CHOOSE i \in S : Cardinality(Lower(S, key, i)) = k - 1]
    BY DEF Sorted, Lower
  <1>11. ASSUME NEW k \in 1 .. n
         PROVE  q[k] \in S /\ count[q[k]] = k - 1
    <2>1. k - 1 \in T
      BY <1>1
    <2>2. \E i \in S : Cardinality(Lower(S, key, i)) = k - 1
      BY <1>9, <2>1
    <2>3. q[k] = CHOOSE i \in S : Cardinality(Lower(S, key, i)) = k - 1
      BY <1>10
    <2> HIDE DEF q
    <2>4. q[k] \in S /\ Cardinality(Lower(S, key, q[k])) = k - 1
      BY <2>2, <2>3
    <2> QED
      BY <2>4
  <1>12. q \in [1 .. n -> S] /\ Len(q) = n
    <2>1. DOMAIN q = 1 .. n /\ q = [k \in 1 .. n |-> q[k]]
      BY <1>10
    <2>2. \A k \in 1 .. n : q[k] \in S
      BY <1>11
    <2> HIDE DEF q, n
    <2>3. q \in [1 .. n -> S]
      BY <2>1, <2>2
    <2> QED
      BY <1>1, <2>3
  <1>13. ASSUME NEW i \in S PROVE \E k \in 1 .. n : q[k] = i
    <2>1. count[i] \in T
      BY <1>2
    <2>2. count[i] + 1 \in 1 .. n /\ (count[i] + 1) - 1 = count[i]
      BY <1>1, <2>1
    <2>3. count[q[count[i] + 1]] = count[i] /\ q[count[i] + 1] \in S
      BY <1>11, <2>2
    <2>4. q[count[i] + 1] = i
      BY <1>5, <2>3
    <2> QED
      BY <2>2, <2>4
  <1>14. ASSUME NEW k \in 1 .. n, NEW l \in 1 .. n, k < l
         PROVE  Before(key[q[k]], key[q[l]])
    <2>1. q[k] \in S /\ q[l] \in S /\ count[q[k]] = k - 1 /\ count[q[l]] = l - 1
      BY <1>11
    <2>2. ~ (count[q[l]] < count[q[k]]) /\ count[q[l]] # count[q[k]]
      BY <1>14, <2>1
    <2> QED
      BY <1>3, <1>4, <2>1, <2>2
  <1> HIDE DEF n, q
  <1>15. /\ n \in Nat /\ q \in [1 .. n -> S] /\ Len(q) = n
         /\ \A i \in S : \E k \in 1 .. n : q[k] = i
         /\ \A k, l \in 1 .. n : k < l => Before(key[q[k]], key[q[l]])
    BY <1>1, <1>12, <1>13, <1>14
  <1> QED
    BY <1>15 DEF n, q

-----------------------------------------------------------------------------
(* The boxes on board lie on the floor side by side, and have an id each.   *)
Onboard(boxes) ==
  /\ AreBoxes(boxes)
  /\ \A b \in boxes : b.id \in Int /\ Inside(b) /\ Clear(b, boxes \ {b})
  /\ \A b, c \in boxes : b.id = c.id => b = c

LEMMA GetIsThere ==
  ASSUME NEW boxes, NEW id \in Ids(boxes)
  PROVE  Get(boxes, id) \in boxes /\ Get(boxes, id).id = id
  BY DEF Ids, Get

LEMMA SomeAreBoxes ==
  ASSUME NEW boxes, AreBoxes(boxes), NEW some \in SUBSET boxes
  PROVE  AreBoxes(some)
  BY FS_Subset DEF AreBoxes

LEMMA SortedIsSequence ==
  ASSUME NEW S, NEW key, NEW m, AreKeys(S, key, m)
  PROVE  Sorted(S, key) \in Seq(S)
  <1> DEFINE n == Cardinality(S)
  <1>1. n \in Nat /\ Sorted(S, key) \in [1 .. n -> S]
    BY SortedIsInOrder
  <1> HIDE DEF n
  <1> QED
    BY <1>1

LEMMA OneIsLast ==
  ASSUME NEW S, NEW key, NEW m, AreKeys(S, key, m), S # {}
  PROVE  \E i \in S : \A j \in S \ {i} : Before(key[j], key[i])
  <1> DEFINE n == Cardinality(S)
             q == Sorted(S, key)
  <1>1. /\ n \in Nat /\ q \in [1 .. n -> S]
        /\ \A i \in S : \E k \in 1 .. n : q[k] = i
        /\ \A k, l \in 1 .. n : k < l => Before(key[q[k]], key[q[l]])
    BY SortedIsInOrder
  <1> HIDE DEF n, q
  <1>2. n \in 1 .. n
    BY <1>1
  <1>3. ASSUME NEW j \in S \ {q[n]} PROVE Before(key[j], key[q[n]])
    <2>1. PICK k \in 1 .. n : q[k] = j
      BY <1>1
    <2>2. k < n
      BY <1>1, <2>1
    <2> QED
      BY <1>1, <1>2, <2>1, <2>2
  <1> QED
    BY <1>1, <1>2, <1>3

(* The recursion of _find_unload_sequence.                                  *)
NearDoor(boxes, id) == <<Get(boxes, id).x + Get(boxes, id).l, Get(boxes, id).y, id>>
Others(boxes, ids, rest, id) == {c \in boxes : c.id \notin (ids \ rest) \cup {id}}
Good(boxes, ids, rest, f) ==
  {id \in rest : PathClear(Get(boxes, id), Others(boxes, ids, rest, id)) /\ f[rest \ {id}] # NoOrder}
Nearest(boxes, good) ==
  CHOOSE i \in good : \A j \in good \ {i} : Before(NearDoor(boxes, j), NearDoor(boxes, i))
Unloads(boxes, ids, f) ==
  [rest \in SUBSET ids |->
     IF rest = {} THEN <<>>
     ELSE IF Good(boxes, ids, rest, f) = {} THEN NoOrder
     ELSE <<Nearest(boxes, Good(boxes, ids, rest, f))>>
            \o f[rest \ {Nearest(boxes, Good(boxes, ids, rest, f))}]]

LEMMA UnloadOrderIsRecursion ==
  ASSUME NEW boxes, NEW ids
  PROVE  UnloadOrder(boxes, ids) = (CHOOSE f : f = Unloads(boxes, ids, f))[ids]
  BY DEF UnloadOrder, Unloads, Good, Nearest, NearDoor, Others

LEMMA NearestIsGood ==
  ASSUME NEW boxes, Onboard(boxes), NEW good \in SUBSET Ids(boxes), good # {}
  PROVE  Nearest(boxes, good) \in good
  <1> DEFINE key == [id \in good |-> NearDoor(boxes, id)]
  <1>1. IsFiniteSet(good)
    <2>1. \A id \in good : Get(boxes, id) \in boxes /\ Get(boxes, id).id = id
      BY GetIsThere
    <2>2. IsFiniteSet(boxes)
      BY DEF Onboard, AreBoxes
    <2> DEFINE f == [id \in good |-> Get(boxes, id)]
    <2>3. f \in Injection(good, boxes)
      BY <2>1 DEF Injection, IsInjective
    <2> QED
      BY <2>2, <2>3, FS_Injection
  <1>2. ASSUME NEW id \in good PROVE key[id] \in Keys(3) /\ key[id][3] = id
    <2>1. Get(boxes, id) \in boxes /\ Get(boxes, id).id = id
      BY GetIsThere
    <2>2. PICK g \in boxes : g = Get(boxes, id) /\ g.id = id
      BY <2>1
    <2>3. g.x \in Int /\ g.y \in Int /\ g.l \in Nat /\ id \in Int
      BY <2>2 DEF Onboard, AreBoxes, IsBox
    <2>4. key[id] = <<g.x + g.l, g.y, id>>
      BY <2>2 DEF NearDoor
    <2>5. ASSUME NEW x \in Int, NEW y \in Int, NEW z \in Int
          PROVE  <<x, y, z>> \in Keys(3) /\ <<x, y, z>>[3] = z
      BY DEF Keys
    <2>6. g.x + g.l \in Int
      BY <2>3
    <2> QED
      BY <2>3, <2>4, <2>5, <2>6
  <1>3. AreKeys(good, key, 3)
    BY <1>1, <1>2 DEF AreKeys
  <1>4. \E i \in good : \A j \in good \ {i} : Before(key[j], key[i])
    BY <1>3, OneIsLast
  <1>5. \E i \in good : \A j \in good \ {i} : Before(NearDoor(boxes, j), NearDoor(boxes, i))
    BY <1>4
  <1> QED
    BY <1>5 DEF Nearest

LEMMA UnloadsExist ==
  ASSUME NEW boxes, Onboard(boxes), NEW ids \in SUBSET Ids(boxes), IsFiniteSet(ids)
  PROVE  \E f : f = Unloads(boxes, ids, f)
  <1> DEFINE N == Cardinality(ids)
             D == SUBSET ids
             V == Seq(ids) \cup {NoOrder}
             step == [f \in [D -> V] |-> Unloads(boxes, ids, f)]
             rank == [rest \in D |-> Cardinality(rest)]
  <1>1. N \in Nat
    BY FS_CardinalityType
  <1>2. ASSUME NEW f \in [D -> V]
        PROVE  Unloads(boxes, ids, f) \in [D -> V]
    <2>1. ASSUME NEW rest \in D PROVE Unloads(boxes, ids, f)[rest] \in V
      <3> DEFINE good == Good(boxes, ids, rest, f)
                 id == Nearest(boxes, good)
      <3>1. CASE rest = {}
        BY <3>1 DEF Unloads
      <3>2. CASE rest # {} /\ good = {}
        BY <3>2 DEF Unloads
      <3>3. CASE rest # {} /\ good # {}
        <4>1. good \subseteq rest
          BY DEF Good
        <4>2. id \in good
          <5> HIDE DEF good
          <5> QED
            BY <3>3, <4>1, NearestIsGood
        <4>3. f[rest \ {id}] # NoOrder /\ id \in rest
          BY <4>2 DEF Good
        <4>4. f[rest \ {id}] \in Seq(ids) /\ <<id>> \in Seq(ids)
          BY <4>3
        <4>5. Unloads(boxes, ids, f)[rest] = <<id>> \o f[rest \ {id}]
          BY <3>3 DEF Unloads
        <4> HIDE DEF id, good
        <4> QED
          BY <4>4, <4>5
      <3> QED
        BY <3>1, <3>2, <3>3
    <2>2. Unloads(boxes, ids, f) = [rest \in D |-> Unloads(boxes, ids, f)[rest]]
      BY DEF Unloads
    <2> QED
      BY <2>1, <2>2
  <1>3. step \in [[D -> V] -> [D -> V]]
    <2> HIDE DEF D, V
    <2> QED
      BY <1>2
  <1>4. rank \in [D -> 0 .. N]
    BY <1>1, FS_Subset, FS_CardinalityType
  <1>5. [D -> V] # {}
    <2>1. [rest \in D |-> NoOrder] \in [D -> V]
      OBVIOUS
    <2> QED
      BY <2>1
  <1>6. ASSUME NEW f \in [D -> V], NEW g \in [D -> V], NEW rest \in D,
               \A e \in D : rank[e] < rank[rest] => f[e] = g[e]
        PROVE  step[f][rest] = step[g][rest]
    <2>1. ASSUME NEW id \in rest PROVE f[rest \ {id}] = g[rest \ {id}]
      <3>1. rest \ {id} \in D /\ IsFiniteSet(rest) /\ rest \ {id} \in SUBSET rest
        BY FS_Subset
      <3>2. Cardinality(rest \ {id}) < Cardinality(rest)
        BY <3>1, FS_Subset, FS_CardinalityType
      <3> QED
        BY <1>6, <3>1, <3>2
    <2>2. Good(boxes, ids, rest, f) = Good(boxes, ids, rest, g)
      BY <2>1 DEF Good
    <2> DEFINE good == Good(boxes, ids, rest, f)
               id == Nearest(boxes, good)
    <2>3. good # {} => id \in rest
      <3>1. good \in SUBSET Ids(boxes) /\ good \subseteq rest
        BY DEF Good
      <3> HIDE DEF good
      <3> QED
        BY <3>1, NearestIsGood
    <2>4. good # {} => f[rest \ {id}] = g[rest \ {id}]
      BY <2>1, <2>3
    <2>5. Unloads(boxes, ids, f)[rest] = Unloads(boxes, ids, g)[rest]
      <3>1. Unloads(boxes, ids, f)[rest] =
              IF rest = {} THEN <<>> ELSE IF good = {} THEN NoOrder ELSE <<id>> \o f[rest \ {id}]
        BY DEF Unloads
      <3>2. Unloads(boxes, ids, g)[rest] =
              IF rest = {} THEN <<>> ELSE IF good = {} THEN NoOrder ELSE <<id>> \o g[rest \ {id}]
        BY <2>2 DEF Unloads
      <3> HIDE DEF good, id
      <3> QED
        BY <2>4, <3>1, <3>2
    <2> QED
      BY <2>5
  <1>7. \A f, g \in [D -> V] : \A rest \in D :
          (\A e \in D : rank[e] < rank[rest] => f[e] = g[e]) => step[f][rest] = step[g][rest]
    BY <1>6
  <1> HIDE DEF step, rank, V, D, N
  <1>8. IsRecursion(D, V, step, rank, N)
    BY <1>1, <1>3, <1>4, <1>5, <1>7 DEF IsRecursion
  <1>9. PICK f \in [D -> V] : step[f] = f
    BY <1>8, Recursion
  <1>10. step[f] = Unloads(boxes, ids, f)
    BY DEF step
  <1> QED
    BY <1>9, <1>10

(* An order in which the boxes with the ids of rest can leave, when those   *)
(* with the other ids have left.                                            *)
Leaving(boxes, ids, rest, o, k) ==
  PathClear(Get(boxes, o[k]), {c \in boxes : c.id \notin (ids \ rest) \cup {o[j] : j \in 1 .. k}})
IsOrder(boxes, ids, rest, o) ==
  /\ o \in Seq(rest) /\ \A id \in rest : \E k \in 1 .. Len(o) : o[k] = id
  /\ \A k \in 1 .. Len(o) : Leaving(boxes, ids, rest, o, k)

LEMMA OneMoreLeaves ==
  ASSUME NEW boxes, NEW ids, NEW rest \in SUBSET ids, NEW id \in rest, NEW o,
         IsOrder(boxes, ids, rest \ {id}, o),
         PathClear(Get(boxes, id), Others(boxes, ids, rest, id))
  PROVE  IsOrder(boxes, ids, rest, <<id>> \o o)
  <1> DEFINE p == <<id>> \o o
             n == Len(o)
  <1>1. o \in Seq(rest \ {id}) /\ o \in Seq(rest) /\ <<id>> \in Seq(rest) /\ n \in Nat
    BY DEF IsOrder
  <1>2. p \in Seq(rest) /\ Len(p) = n + 1
    BY <1>1
  <1>3. p[1] = id /\ \A k \in 1 .. n : p[k + 1] = o[k]
    BY <1>1
  <1> HIDE DEF p, n
  <1>4. ASSUME NEW x \in rest PROVE \E k \in 1 .. Len(p) : p[k] = x
    <2>1. CASE x = id
      BY <1>1, <1>2, <1>3, <2>1
    <2>2. CASE x # id
      <3>1. PICK k \in 1 .. n : o[k] = x
        BY <2>2 DEF IsOrder, n
      <3>2. k + 1 \in 1 .. n + 1
        BY <1>1
      <3> QED
        BY <1>2, <1>3, <3>1, <3>2
    <2> QED
      BY <2>1, <2>2
  <1>5. ASSUME NEW k \in 1 .. n + 1 PROVE Leaving(boxes, ids, rest, p, k)
    <2>1. CASE k = 1
      <3>1. {p[j] : j \in 1 .. k} = {id}
        BY <1>3, <2>1
      <3> QED
        BY <1>3, <2>1, <3>1 DEF Leaving, Others
    <2>2. CASE k # 1
      <3>1. k - 1 \in 1 .. n /\ (k - 1) + 1 = k
        BY <1>1, <2>2
      <3>2. p[k] = o[k - 1]
        BY <1>3, <3>1
      <3>3. {p[j] : j \in 1 .. k} = {id} \cup {o[j] : j \in 1 .. k - 1}
        <4>1. ASSUME NEW j \in 1 .. k PROVE p[j] \in {id} \cup {o[i] : i \in 1 .. k - 1}
          <5>1. CASE j = 1
            BY <1>3, <5>1
          <5>2. CASE j # 1
            <6>1. j - 1 \in 1 .. k - 1 /\ j - 1 \in 1 .. n /\ (j - 1) + 1 = j
              BY <1>1, <3>1, <5>2
            <6> QED
              BY <1>3, <6>1
          <5> QED
            BY <5>1, <5>2
        <4>2. ASSUME NEW i \in 1 .. k - 1 PROVE \E j \in 1 .. k : p[j] = o[i]
          <5>1. i \in 1 .. n /\ i + 1 \in 1 .. k
            BY <1>1, <3>1
          <5> QED
            BY <1>3, <5>1
        <4>3. 1 \in 1 .. k
          BY <1>1
        <4> QED
          BY <1>3, <4>1, <4>2, <4>3
      <3>4. Leaving(boxes, ids, rest \ {id}, o, k - 1)
        BY <3>1 DEF IsOrder, n
      <3>5. (ids \ (rest \ {id})) \cup {o[j] : j \in 1 .. k - 1} = (ids \ rest) \cup {p[j] : j \in 1 .. k}
        BY <3>3
      <3> QED
        BY <3>2, <3>4, <3>5 DEF Leaving
    <2> QED
      BY <2>1, <2>2
  <1>6. IsOrder(boxes, ids, rest, p)
    BY <1>2, <1>4, <1>5 DEF IsOrder
  <1> QED
    BY <1>6 DEF p

LEMMA UnloadOrderIsOrder ==
  ASSUME NEW boxes, Onboard(boxes), NEW ids \in SUBSET Ids(boxes), IsFiniteSet(ids),
         UnloadOrder(boxes, ids) # NoOrder
  PROVE  IsOrder(boxes, ids, ids, UnloadOrder(boxes, ids))
  <1> DEFINE f == CHOOSE g : g = Unloads(boxes, ids, g)
             N == Cardinality(ids)
             Sound(rest) == f[rest] # NoOrder => IsOrder(boxes, ids, rest, f[rest])
             A == {n \in Nat : \A rest \in SUBSET ids : Cardinality(rest) = n => Sound(rest)}
  <1>1. N \in Nat
    BY FS_CardinalityType
  <1>2. f = Unloads(boxes, ids, f)
    BY UnloadsExist
  <1> HIDE DEF f
  <1>3. 0 \in A
    <2> SUFFICES ASSUME NEW rest \in SUBSET ids, Cardinality(rest) = 0
                 PROVE  Sound(rest)
      OBVIOUS
    <2>1. rest = {}
      BY FS_Subset, FS_EmptySet
    <2>2. f[rest] = <<>>
      BY <1>2, <2>1 DEF Unloads
    <2>3. IsOrder(boxes, ids, rest, <<>>)
      BY <2>1 DEF IsOrder
    <2> QED
      BY <2>2, <2>3
  <1>4. ASSUME NEW n \in Nat, n \in A PROVE n + 1 \in A
    <2> SUFFICES ASSUME NEW rest \in SUBSET ids, Cardinality(rest) = n + 1, f[rest] # NoOrder
                 PROVE  IsOrder(boxes, ids, rest, f[rest])
      OBVIOUS
    <2> DEFINE good == Good(boxes, ids, rest, f)
               id == Nearest(boxes, good)
    <2>1. rest # {}
      BY FS_EmptySet
    <2>2. f[rest] = IF good = {} THEN NoOrder ELSE <<id>> \o f[rest \ {id}]
      BY <1>2, <2>1 DEF Unloads
    <2>3. id \in good /\ f[rest] = <<id>> \o f[rest \ {id}]
      <3>1. good \in SUBSET Ids(boxes)
        BY DEF Good
      <3> HIDE DEF good
      <3> QED
        BY <2>2, <3>1, NearestIsGood
    <2>4. /\ id \in rest /\ PathClear(Get(boxes, id), Others(boxes, ids, rest, id))
          /\ f[rest \ {id}] # NoOrder
      BY <2>3 DEF Good
    <2> HIDE DEF id, good
    <2>5. Cardinality(rest \ {id}) = n
      <3>1. IsFiniteSet(rest)
        BY FS_Subset
      <3>2. Cardinality(rest \ {id}) = Cardinality(rest) - 1
        BY <2>4, <3>1, FS_RemoveElement, Zenon
      <3>3. (n + 1) - 1 = n
        OBVIOUS
      <3> QED
        BY <3>2, <3>3
    <2>6. IsOrder(boxes, ids, rest \ {id}, f[rest \ {id}])
      BY <1>4, <2>4, <2>5
    <2> QED
      BY <2>3, <2>4, <2>6, OneMoreLeaves
  <1>5. N \in A
    <2> HIDE DEF A
    <2> QED
      BY <1>1, <1>3, <1>4, Numbers
  <1>6. Sound(ids)
    BY <1>1, <1>5
  <1>7. UnloadOrder(boxes, ids) = f[ids]
    BY UnloadOrderIsRecursion DEF f
  <1> QED
    BY <1>6, <1>7

(* What _find_unload_sequence returns: everything to be unloaded, in an     *)
(* order in which each box has a way out.                                   *)
LEMMA UnloadOrderLeaves ==
  ASSUME NEW boxes, Onboard(boxes), NEW ids \in SUBSET Ids(boxes), IsFiniteSet(ids),
         UnloadOrder(boxes, ids) # NoOrder
  PROVE  /\ ToSet(UnloadOrder(boxes, ids)) = ids
         /\ LeaveInOrder(UnloadOrder(boxes, ids), boxes)
  <1> DEFINE o == UnloadOrder(boxes, ids)
  <1>1. IsOrder(boxes, ids, ids, o)
    BY UnloadOrderIsOrder
  <1> HIDE DEF o
  <1>2. o \in Seq(ids) /\ DOMAIN o = 1 .. Len(o)
    BY <1>1 DEF IsOrder
  <1>3. ToSet(o) = ids
    BY <1>1, <1>2 DEF IsOrder, ToSet
  <1>4. ASSUME NEW k \in 1 .. Len(o)
        PROVE  CanLeave(Get(boxes, o[k]), {c \in boxes : \A j \in 1 .. k : c.id # o[j]})
    <2> DEFINE left == {c \in boxes : \A j \in 1 .. k : c.id # o[j]}
    <2>1. {c \in boxes : c.id \notin (ids \ ids) \cup {o[j] : j \in 1 .. k}} = left
      OBVIOUS
    <2>2. PathClear(Get(boxes, o[k]), left)
      BY <1>1, <2>1 DEF IsOrder, Leaving
    <2>3. o[k] \in Ids(boxes) /\ k \in 1 .. k
      BY <1>2
    <2>4. PICK b \in boxes : b = Get(boxes, o[k]) /\ b.id = o[k]
      BY <2>3, GetIsThere
    <2>5. left \subseteq boxes \ {b}
      BY <2>3, <2>4
    <2> HIDE DEF left
    <2>6. IsBox(b) /\ AreBoxes(left) /\ Clear(b, left)
      BY <2>5, SomeAreBoxes DEF Onboard, AreBoxes, Clear
    <2>7. CanLeave(b, left)
      BY <2>2, <2>4, <2>6, ClearPathLeaves
    <2> QED
      BY <2>4, <2>7 DEF left
  <1>5. LeaveInOrder(o, boxes)
    BY <1>4 DEF LeaveInOrder
  <1> QED
    BY <1>3, <1>5 DEF o

-----------------------------------------------------------------------------
(* The weight of a set of items is a sum: an item more adds its weight,     *)
(* whichever order the fold takes.                                          *)

Some(s) == CHOOSE x \in s : TRUE
Adds(w, S, f) ==
  [s \in SUBSET S |-> IF s = {} THEN 0 ELSE f[s \ {Some(s)}] + w[Some(s)]]

LEMMA AddsExist ==
  ASSUME NEW S, IsFiniteSet(S), NEW w \in [S -> Int]
  PROVE  \E f \in [SUBSET S -> Int] : f = Adds(w, S, f)
  <1> DEFINE N == Cardinality(S)
             D == SUBSET S
             step == [f \in [D -> Int] |-> Adds(w, S, f)]
             rank == [s \in D |-> Cardinality(s)]
  <1>1. N \in Nat
    BY FS_CardinalityType
  <1>2. ASSUME NEW f \in [D -> Int]
        PROVE  Adds(w, S, f) \in [D -> Int]
    <2>1. ASSUME NEW s \in D PROVE Adds(w, S, f)[s] \in Int
      <3>1. s # {} => Some(s) \in s
        BY DEF Some
      <3>2. s # {} => f[s \ {Some(s)}] \in Int /\ w[Some(s)] \in Int
        BY <3>1
      <3> QED
        BY <3>2 DEF Adds
    <2>2. Adds(w, S, f) = [s \in D |-> Adds(w, S, f)[s]]
      BY DEF Adds
    <2> QED
      BY <2>1, <2>2
  <1>3. step \in [[D -> Int] -> [D -> Int]]
    <2> HIDE DEF D
    <2> QED
      BY <1>2
  <1>4. rank \in [D -> 0 .. N]
    BY <1>1, FS_Subset, FS_CardinalityType
  <1>5. [D -> Int] # {}
    <2>1. [s \in D |-> 0] \in [D -> Int]
      OBVIOUS
    <2> QED
      BY <2>1
  <1>6. ASSUME NEW f \in [D -> Int], NEW g \in [D -> Int], NEW s \in D,
               \A e \in D : rank[e] < rank[s] => f[e] = g[e]
        PROVE  step[f][s] = step[g][s]
    <2>1. ASSUME s # {} PROVE f[s \ {Some(s)}] = g[s \ {Some(s)}]
      <3>1. Some(s) \in s
        BY <2>1 DEF Some
      <3>2. s \ {Some(s)} \in D /\ IsFiniteSet(s) /\ s \ {Some(s)} \in SUBSET s
        BY FS_Subset
      <3>3. Cardinality(s \ {Some(s)}) < Cardinality(s)
        BY <3>1, <3>2, FS_Subset, FS_CardinalityType
      <3> QED
        BY <1>6, <3>2, <3>3
    <2>2. Adds(w, S, f)[s] = Adds(w, S, g)[s]
      BY <2>1 DEF Adds
    <2> QED
      BY <2>2
  <1>7. \A f, g \in [D -> Int] : \A s \in D :
          (\A e \in D : rank[e] < rank[s] => f[e] = g[e]) => step[f][s] = step[g][s]
    BY <1>6
  <1> HIDE DEF step, rank, D, N
  <1>8. IsRecursion(D, Int, step, rank, N)
    BY <1>1, <1>3, <1>4, <1>5, <1>7 DEF IsRecursion
  <1>9. PICK f \in [D -> Int] : step[f] = f
    BY <1>8, Recursion
  <1>10. step[f] = Adds(w, S, f)
    BY DEF step
  <1> QED
    BY <1>9, <1>10 DEF D

LEMMA AddsAgree ==
  ASSUME NEW S, IsFiniteSet(S), NEW R, S \subseteq R, NEW w,
         NEW f, f = Adds(w, S, f), NEW g, g = Adds(w, R, g)
  PROVE  \A s \in SUBSET S : f[s] = g[s]
  <1> DEFINE A == {n \in Nat : \A s \in SUBSET S : Cardinality(s) = n => f[s] = g[s]}
  <1>1. \A s \in SUBSET S : IsFiniteSet(s) /\ Cardinality(s) \in Nat
    BY FS_Subset, FS_CardinalityType
  <1>2. \A s \in SUBSET S : /\ f[s] = IF s = {} THEN 0 ELSE f[s \ {Some(s)}] + w[Some(s)]
                            /\ g[s] = IF s = {} THEN 0 ELSE g[s \ {Some(s)}] + w[Some(s)]
    <2>1. ASSUME NEW s \in SUBSET S
          PROVE  f[s] = IF s = {} THEN 0 ELSE f[s \ {Some(s)}] + w[Some(s)]
      <3>1. f[s] = Adds(w, S, f)[s]
        OBVIOUS
      <3> QED
        BY <3>1 DEF Adds
    <2>2. ASSUME NEW s \in SUBSET S
          PROVE  g[s] = IF s = {} THEN 0 ELSE g[s \ {Some(s)}] + w[Some(s)]
      <3>1. g[s] = Adds(w, R, g)[s] /\ s \in SUBSET R
        OBVIOUS
      <3> QED
        BY <3>1 DEF Adds
    <2> QED
      BY <2>1, <2>2
  <1>3. 0 \in A
    <2> SUFFICES ASSUME NEW s \in SUBSET S, Cardinality(s) = 0 PROVE f[s] = g[s]
      OBVIOUS
    <2>1. s = {}
      BY <1>1, FS_EmptySet
    <2> QED
      BY <1>2, <2>1
  <1>4. ASSUME NEW n \in Nat, n \in A PROVE n + 1 \in A
    <2> SUFFICES ASSUME NEW s \in SUBSET S, Cardinality(s) = n + 1 PROVE f[s] = g[s]
      OBVIOUS
    <2>1. s # {}
      BY FS_EmptySet
    <2>2. Some(s) \in s /\ s \ {Some(s)} \in SUBSET S
      BY <2>1 DEF Some
    <2>3. Cardinality(s \ {Some(s)}) = n
      <3>1. IsFiniteSet(s)
        BY <1>1
      <3>2. Cardinality(s \ {Some(s)}) = Cardinality(s) - 1
        BY <2>2, <3>1, FS_RemoveElement, Zenon
      <3>3. (n + 1) - 1 = n
        OBVIOUS
      <3> QED
        BY <3>2, <3>3
    <2>4. f[s \ {Some(s)}] = g[s \ {Some(s)}]
      BY <1>4, <2>2, <2>3
    <2> QED
      BY <1>2, <2>1, <2>4
  <1>5. Nat \subseteq A
    <2> HIDE DEF A
    <2> QED
      BY <1>3, <1>4, Numbers
  <1> QED
    BY <1>1, <1>5

IsSum(w, S, f) == f \in [SUBSET S -> Int] /\ f = Adds(w, S, f)

LEMMA AddsAny ==
  ASSUME NEW S, IsFiniteSet(S), NEW w \in [S -> Int], NEW f, IsSum(w, S, f),
         NEW t \in SUBSET S, NEW z \in t
  PROVE  f[t] = f[t \ {z}] + w[z]
  <1> DEFINE A == {n \in Nat : \A s \in SUBSET S : Cardinality(s) = n =>
                                \A x \in s : f[s] = f[s \ {x}] + w[x]}
  <1>0. f \in [SUBSET S -> Int] /\ f = Adds(w, S, f)
    BY DEF IsSum
  <1>1. \A s \in SUBSET S : IsFiniteSet(s) /\ Cardinality(s) \in Nat
    BY FS_Subset, FS_CardinalityType
  <1>2. ASSUME NEW s \in SUBSET S, s # {}
        PROVE  Some(s) \in s /\ f[s] = f[s \ {Some(s)}] + w[Some(s)]
    <2>1. f[s] = Adds(w, S, f)[s]
      BY <1>0
    <2> QED
      BY <1>2, <2>1 DEF Adds, Some
  <1>3. 0 \in A
    <2> SUFFICES ASSUME NEW s \in SUBSET S, Cardinality(s) = 0 PROVE s = {}
      OBVIOUS
    <2> QED
      BY <1>1, FS_EmptySet
  <1>4. ASSUME NEW n \in Nat, n \in A PROVE n + 1 \in A
    <2> SUFFICES ASSUME NEW s \in SUBSET S, Cardinality(s) = n + 1, NEW x \in s
                 PROVE  f[s] = f[s \ {x}] + w[x]
      OBVIOUS
    <2> DEFINE y == Some(s)
    <2>1. y \in s /\ f[s] = f[s \ {y}] + w[y]
      BY <1>2
    <2>2. CASE x = y
      BY <2>1, <2>2
    <2>3. CASE x # y
      <3> HIDE DEF y
      <3>1. IsFiniteSet(s) /\ IsFiniteSet(s \ {y})
        BY <1>1
      <3>2. Cardinality(s \ {y}) = n
        <4>1. Cardinality(s \ {y}) = Cardinality(s) - 1
          BY <2>1, <3>1, FS_RemoveElement, Zenon
        <4>2. (n + 1) - 1 = n
          OBVIOUS
        <4> QED
          BY <4>1, <4>2
      <3>3. f[s \ {y}] = f[(s \ {y}) \ {x}] + w[x]
        <4>1. s \ {y} \in SUBSET S /\ x \in s \ {y}
          BY <2>3
        <4> QED
          BY <1>4, <3>2, <4>1
      <3>4. f[s \ {x}] = f[(s \ {x}) \ {y}] + w[y]
        <4>1. s \ {x} \in SUBSET S /\ y \in s \ {x}
          BY <2>1, <2>3
        <4>2. Cardinality(s \ {x}) = n
          <5>1. Cardinality(s \ {x}) = Cardinality(s) - 1
            BY <3>1, FS_RemoveElement, Zenon
          <5>2. (n + 1) - 1 = n
            OBVIOUS
          <5> QED
            BY <5>1, <5>2
        <4> QED
          BY <1>4, <4>1, <4>2
      <3>5. (s \ {x}) \ {y} = (s \ {y}) \ {x}
        OBVIOUS
      <3>6. f[(s \ {x}) \ {y}] \in Int /\ w[x] \in Int /\ w[y] \in Int
        BY <1>0, <2>1
      <3>7. ASSUME NEW a \in Int, NEW b \in Int, NEW c \in Int PROVE (a + b) + c = (a + c) + b
        OBVIOUS
      <3>8. f[s] = (f[(s \ {x}) \ {y}] + w[x]) + w[y]
        BY <2>1, <3>3, <3>5
      <3>9. f[s] = (f[(s \ {x}) \ {y}] + w[y]) + w[x]
        BY <3>6, <3>7, <3>8
      <3> QED
        BY <3>4, <3>9
    <2> QED
      BY <2>2, <2>3
  <1>5. Nat \subseteq A
    <2> HIDE DEF A
    <2> QED
      BY <1>3, <1>4, Numbers
  <1> QED
    BY <1>1, <1>5

Total(w, S) == (CHOOSE f : f = Adds(w, S, f))[S]

LEMMA TotalIsAny ==
  ASSUME NEW R, IsFiniteSet(R), NEW w \in [R -> Int],
         NEW f \in [SUBSET R -> Int], f = Adds(w, R, f), NEW T \in SUBSET R
  PROVE  Total(w, T) = f[T]
  <1> DEFINE g == CHOOSE h : h = Adds(w, T, h)
  <1>1. IsFiniteSet(T)
    BY FS_Subset
  <1>2. \E h : h = Adds(w, T, h)
    <2> DEFINE v == [y \in T |-> w[y]]
    <2>1. v \in [T -> Int]
      OBVIOUS
    <2> HIDE DEF v
    <2>2. \E h \in [SUBSET T -> Int] : h = Adds(v, T, h)
      BY <1>1, <2>1, AddsExist, Zenon
    <2>20. PICK h : h = Adds(v, T, h)
      BY <2>2, Zenon
    <2>3. Adds(v, T, h) = Adds(w, T, h)
      <3>1. \A s \in SUBSET T : s # {} => v[Some(s)] = w[Some(s)]
        BY DEF Some, v
      <3> QED
        BY <3>1 DEF Adds
    <2> QED
      BY <2>20, <2>3
  <1>3. g = Adds(w, T, g)
    BY <1>2
  <1> HIDE DEF g
  <1>4. g[T] = f[T]
    BY <1>1, <1>3, AddsAgree
  <1> QED
    BY <1>4 DEF Total, g

LEMMA OneMoreAdds ==
  ASSUME NEW R, IsFiniteSet(R), NEW w \in [R -> Int],
         NEW S \in SUBSET R, NEW x \in R \ S
  PROVE  Total(w, S \cup {x}) = Total(w, S) + w[x]
  <1>1. PICK f \in [SUBSET R -> Int] : f = Adds(w, R, f)
    BY AddsExist
  <1>0. IsSum(w, R, f)
    BY <1>1 DEF IsSum
  <1>2. ASSUME NEW T \in SUBSET R PROVE Total(w, T) = f[T]
    BY <1>1, TotalIsAny
  <1>3. f[S \cup {x}] = f[(S \cup {x}) \ {x}] + w[x]
    <2>1. S \cup {x} \in SUBSET R /\ x \in S \cup {x}
      OBVIOUS
    <2>2. ASSUME NEW s \in SUBSET R, NEW y \in s PROVE f[s] = f[s \ {y}] + w[y]
      BY <1>0, AddsAny
    <2> QED
      BY <2>1, <2>2, Zenon
  <1>4. (S \cup {x}) \ {x} = S
    OBVIOUS
  <1> QED
    BY <1>2, <1>3, <1>4

-----------------------------------------------------------------------------
(* The items of the route.                                                  *)
Goods == DOMAIN plan.item
IsStop(stop) == stop.load \in Seq(Goods) /\ stop.unload \in Seq(Goods)

LEMMA PlanIsWellFormed ==
  ASSUME plan \in Plans
  PROVE  /\ IsFiniteSet(Goods) /\ Goods \subseteq PositiveInt
         /\ \A id \in Goods : IsItem(Item(id))
         /\ Len(plan.stops) \in Nat /\ plan.stops \in Seq([load : Seq(Goods), unload : Seq(Goods)])
         /\ \A k \in 1 .. Len(plan.stops) : IsStop(plan.stops[k])
  <1> DEFINE S == [load : Seq(Goods), unload : Seq(Goods)]
  <1>1. /\ IsFiniteSet(Goods) /\ \A id \in Goods : id \in PositiveInt /\ IsItem(plan.item[id])
        /\ plan.stops \in Seq(S)
    BY PlansAssumption DEF Goods
  <1>2. Len(plan.stops) \in Nat /\ \A k \in 1 .. Len(plan.stops) : plan.stops[k] \in S
    <2>1. ASSUME NEW q \in Seq(S) PROVE Len(q) \in Nat /\ \A k \in 1 .. Len(q) : q[k] \in S
      <3> HIDE DEF S
      <3> QED
        OBVIOUS
    <2> QED
      BY <1>1, <2>1, Zenon
  <1> QED
    BY <1>1, <1>2 DEF Item, IsStop

Weights == [id \in Goods |-> Item(id).weight]

LEMMA WeightIsTotal ==
  ASSUME NEW ids \in SUBSET Goods
  PROVE  Weight(ids) = Total(Weights, ids)
  <1> DEFINE iter(f) == [s \in SUBSET ids |->
                          IF s = {} THEN 0
                          ELSE f[s \ {CHOOSE x \in s : TRUE}] + Item(CHOOSE x \in s : TRUE).weight]
  <1>1. Weight(ids) = (CHOOSE f : f = iter(f))[ids]
    BY DEF Weight, FoldSet, MapThenFoldSet
  <1>2. \A f : iter(f) = Adds(Weights, ids, f)
    <2>1. ASSUME NEW s \in SUBSET ids, s # {}
          PROVE  Item(CHOOSE x \in s : TRUE).weight = Weights[Some(s)]
      <3>1. Some(s) \in Goods
        BY <2>1 DEF Some
      <3> QED
        BY <3>1 DEF Weights, Some
    <2> QED
      BY <2>1 DEF Adds, Some
  <1> HIDE DEF iter
  <1>3. (CHOOSE f : f = iter(f)) = (CHOOSE f : f = Adds(Weights, ids, f))
    BY <1>2
  <1> QED
    BY <1>1, <1>3 DEF Total

LEMMA OneMoreWeighs ==
  ASSUME plan \in Plans, NEW ids \in SUBSET Goods, NEW id \in Goods, id \notin ids
  PROVE  Weight(ids \cup {id}) = Weight(ids) + Item(id).weight
  <1>1. IsFiniteSet(Goods) /\ Weights \in [Goods -> Int]
    BY PlanIsWellFormed DEF Weights, IsItem, PositiveInt
  <1>2. Total(Weights, ids \cup {id}) = Total(Weights, ids) + Weights[id]
    BY <1>1, OneMoreAdds
  <1>3. Weights[id] = Item(id).weight
    BY DEF Weights
  <1> QED
    BY <1>2, <1>3, WeightIsTotal

LEMMA WeightIsWhole ==
  ASSUME plan \in Plans, NEW ids \in SUBSET Goods
  PROVE  Weight(ids) \in Int
  <1>1. IsFiniteSet(Goods) /\ Weights \in [Goods -> Int]
    BY PlanIsWellFormed DEF Weights, IsItem, PositiveInt
  <1>2. Total(Weights, ids) \in Int
    <2>1. PICK f \in [SUBSET Goods -> Int] : f = Adds(Weights, Goods, f)
      BY <1>1, AddsExist
    <2>2. Total(Weights, ids) = f[ids]
      BY <1>1, <2>1, TotalIsAny
    <2> QED
      BY <2>1, <2>2
  <1> QED
    BY <1>2, WeightIsTotal

(* The weight of nothing.                                                   *)
LEMMA NothingWeighs ==
  FoldSeq(LAMBDA id, sum : sum + Item(id).weight, 0, <<>>) = 0
  <1> DEFINE iter(f) == [s \in SUBSET (DOMAIN <<>>) |->
                          IF s = {} THEN 0
                          ELSE f[s \ {CHOOSE x \in s : TRUE}] + Item(<<>>[CHOOSE x \in s : TRUE]).weight]
  <1>1. FoldSeq(LAMBDA id, sum : sum + Item(id).weight, 0, <<>>) = (CHOOSE f : f = iter(f))[DOMAIN <<>>]
    BY DEF FoldSeq, FoldFunction, FoldFunctionOnSet, MapThenFoldSet
  <1>2. DOMAIN <<>> = {}
    OBVIOUS
  <1>3. \A f : iter(f)[{}] = 0
    BY <1>2
  <1>4. \E f : f = iter(f)
    <2> DEFINE f == [s \in SUBSET (DOMAIN <<>>) |-> 0]
    <2>1. \A s \in SUBSET (DOMAIN <<>>) : s = {}
      BY <1>2
    <2>2. f = iter(f)
      BY <2>1
    <2> QED
      BY <2>2
  <1> HIDE DEF iter
  <1> DEFINE g == CHOOSE f : f = iter(f)
  <1>5. g = iter(g)
    BY <1>4
  <1>6. iter(g)[{}] = 0
    BY <1>3
  <1> HIDE DEF g
  <1>7. g[{}] = 0
    BY <1>5, <1>6
  <1> QED
    BY <1>1, <1>2, <1>7 DEF g

-----------------------------------------------------------------------------
(* Numbers have a greatest and a smallest one.                              *)
LEMMA NumberKeys ==
  ASSUME NEW A \in SUBSET Int, IsFiniteSet(A)
  PROVE  /\ AreKeys(A, [i \in A |-> <<i>>], 1)
         /\ \A i, j \in A : Before(<<i>>, <<j>>) <=> i < j
  <1>1. \A i \in A : <<i>> \in Keys(1)
    BY DEF Keys
  <1>2. \A i, j \in A : i # j => <<i>> # <<j>>
    OBVIOUS
  <1>3. ASSUME NEW i \in Int, NEW j \in Int
        PROVE  Before(<<i>>, <<j>>) <=> i < j
    <2>1. 1 .. Len(<<i>>) = {1} /\ 1 .. 1 - 1 = {}
      OBVIOUS
    <2>2. <<i>>[1] = i /\ <<j>>[1] = j
      OBVIOUS
    <2> QED
      BY <2>1, <2>2 DEF Before
  <1> QED
    BY <1>1, <1>2, <1>3 DEF AreKeys

LEMMA MaxIsWhole ==
  ASSUME NEW A \in SUBSET Int, IsFiniteSet(A), A # {}
  PROVE  Max(A) \in A /\ \A j \in A : j <= Max(A)
  <1>1. AreKeys(A, [i \in A |-> <<i>>], 1) /\ \A i, j \in A : Before(<<i>>, <<j>>) <=> i < j
    BY NumberKeys
  <1>2. PICK i \in A : \A j \in A \ {i} : Before([k \in A |-> <<k>>][j], [k \in A |-> <<k>>][i])
    BY <1>1, OneIsLast
  <1>3. \A j \in A : i >= j
    BY <1>1, <1>2
  <1> QED
    BY <1>3 DEF Max

LEMMA StepsAreWhole ==
  ASSUME Len(Stops) \in Nat, NEW id
  PROVE  UnloadStep(id) \in Nat /\ StepOrEnd(id) \in Nat
  <1> DEFINE S == {k \in 1 .. Len(Stops) : id \in ToSet(Stops[k].unload)}
  <1>1. S # {} => Min(S) \in Nat
    <2> SUFFICES ASSUME S # {} PROVE Min(S) \in Nat
      OBVIOUS
    <2>1. S \in SUBSET Nat
      OBVIOUS
    <2> HIDE DEF S
    <2>2. PICK n \in S : \A m \in S : n <= m
      BY <2>1, Least
    <2> QED
      BY <2>1, <2>2 DEF Min
  <1>2. UnloadStep(id) \in Nat
    BY <1>1 DEF UnloadStep, Never
  <1> QED
    BY <1>2 DEF StepOrEnd

-----------------------------------------------------------------------------
(* The places of an item.                                                   *)
LEMMA ImageIsFinite ==
  ASSUME NEW S, IsFiniteSet(S), NEW f, f = [x \in S |-> f[x]]
  PROVE  IsFiniteSet({f[x] : x \in S})
  <1>1. f \in Surjection(S, {f[x] : x \in S})
    BY DEF Surjection
  <1> QED
    BY <1>1, FS_Surjection

LEMMA CornersFit ==
  ASSUME plan \in Plans, NEW id \in Goods, NEW boxes, AreBoxes(boxes)
  PROVE  \A b \in Corners(Shape(id), boxes) :
           /\ IsBox(b) /\ b.id = id
           /\ \/ b.l = Item(id).l /\ b.w = Item(id).w
              \/ b.l = Item(id).w /\ b.w = Item(id).l
           /\ Inside(b) /\ Clear(b, boxes)
  <1> DEFINE i == Shape(id)
  <1>1. i.id = id /\ i.l = Item(id).l /\ i.w = Item(id).w
    BY DEF Shape
  <1> SUFFICES ASSUME NEW b \in Corners(i, boxes)
               PROVE  /\ IsBox(b) /\ b.id = id
                      /\ \/ b.l = Item(id).l /\ b.w = Item(id).w
                         \/ b.l = Item(id).w /\ b.w = Item(id).l
                      /\ Inside(b) /\ Clear(b, boxes)
    OBVIOUS
  <1> HIDE DEF i
  <1>2. b \in PlacesOf(i, boxes) /\ Inside(b) /\ Clear(b, boxes)
    BY DEF Corners
  <1>3. PICK o \in Orientations(i) :
          b \in {Box(i.id, x, y, o[1], o[2]) : x \in XCorners(o[1], boxes), y \in YCorners(o[2], boxes)}
    BY <1>2 DEF PlacesOf
  <1>4. PICK x \in XCorners(o[1], boxes), y \in YCorners(o[2], boxes) : b = Box(i.id, x, y, o[1], o[2])
    BY <1>3
  <1>5. o = <<i.l, i.w>> \/ o = <<i.w, i.l>>
    BY DEF Orientations
  <1>6. b.x = x /\ b.y = y /\ b.l = o[1] /\ b.w = o[2] /\ b.id = id
    BY <1>1, <1>4 DEF Box
  <1>7. o[1] \in Nat \ {0} /\ o[2] \in Nat \ {0}
    BY <1>1, <1>5, PlanIsWellFormed DEF IsItem, PositiveInt
  <1>8. x \in Int /\ y \in Int
    <2>1. \A c \in boxes : c.x \in Int /\ c.y \in Int /\ c.l \in Int /\ c.w \in Int
      BY DEF AreBoxes, IsBox
    <2>2. \A c \in boxes : {c.x, c.x + c.l, c.x - o[1], c.x + c.l - o[1]} \subseteq Int
      BY <1>7, <2>1
    <2>3. \A c \in boxes : {c.y, c.y + c.w, c.y - o[2], c.y + c.w - o[2]} \subseteq Int
      BY <1>7, <2>1
    <2>4. 0 \in Int /\ Length - o[1] \in Int /\ Width - o[2] \in Int
      BY <1>7, FloorAssumption
    <2>5. XCorners(o[1], boxes) \subseteq Int
      BY <2>2, <2>4 DEF XCorners
    <2>6. YCorners(o[2], boxes) \subseteq Int
      BY <2>3, <2>4 DEF YCorners
    <2> QED
      BY <2>5, <2>6
  <1>9. IsBox(b)
    BY <1>1, <1>4, <1>6, <1>7, <1>8 DEF IsBox
  <1> QED
    BY <1>1, <1>2, <1>4, <1>5, <1>6, <1>9

LEMMA CornersAreFew ==
  ASSUME plan \in Plans, NEW id \in Goods, NEW boxes, AreBoxes(boxes)
  PROVE  IsFiniteSet(Corners(Shape(id), boxes))
  <1> DEFINE l == Item(id).l
             w == Item(id).w
             X == 0 .. Length
             Y == 0 .. Width
             T == X \X Y
             f == [p \in T |-> Box(id, p[1], p[2], l, w)]
             g == [p \in T |-> Box(id, p[1], p[2], w, l)]
  <1>1. IsFiniteSet(T)
    <2>1. IsFiniteSet(X) /\ IsFiniteSet(Y)
      BY FloorAssumption, FS_Interval
    <2> HIDE DEF X, Y
    <2> QED
      BY <2>1, FS_Product
  <1>2. IsFiniteSet({f[p] : p \in T}) /\ IsFiniteSet({g[p] : p \in T})
    <2>1. f = [p \in T |-> f[p]] /\ g = [p \in T |-> g[p]]
      OBVIOUS
    <2> HIDE DEF f, g, T
    <2> QED
      BY <1>1, <2>1, ImageIsFinite
  <1>3. ASSUME NEW b \in Corners(Shape(id), boxes)
        PROVE  b \in {f[p] : p \in T} \cup {g[p] : p \in T}
    <2>1. /\ b = Box(id, b.x, b.y, b.l, b.w) /\ b.x \in Int /\ b.y \in Int
          /\ b.l \in Nat \ {0} /\ b.w \in Nat \ {0} /\ Inside(b)
          /\ \/ b.l = l /\ b.w = w
             \/ b.l = w /\ b.w = l
      BY CornersFit DEF IsBox
    <2>2. <<b.x, b.y>> \in T
      BY <2>1, FloorAssumption DEF Inside
    <2> QED
      BY <2>1, <2>2
  <1>4. IsFiniteSet({f[p] : p \in T} \cup {g[p] : p \in T})
    BY <1>2, FS_Union
  <1>5. Corners(Shape(id), boxes) \in SUBSET ({f[p] : p \in T} \cup {g[p] : p \in T})
    BY <1>3
  <1> HIDE DEF f, g, T
  <1> QED
    BY <1>4, <1>5, FS_Subset

(* The places to try are corners that the item fits in.                     *)
LEMMA CandidatesAreCorners ==
  ASSUME plan \in Plans, NEW id \in Goods, NEW boxes, AreBoxes(boxes), NEW ids
  PROVE  Candidates(id, ids, boxes) \in Seq(Corners(Shape(id), boxes))
  <1> DEFINE S == Corners(Shape(id), boxes)
             front == Max({0} \cup {b.x + b.l : b \in boxes})
             turn(b) == IF b.l = Item(id).l THEN 0 ELSE 1
             deep(b) == <<Length - b.x - b.l, b.y, turn(b)>>
             near(b) == <<Max({front, b.x + b.l}), b.x, b.y, turn(b)>>
             key1 == [b \in S |-> deep(b)]
             key2 == [b \in S |-> near(b)]
  <1>1. IsFiniteSet(S)
    BY CornersAreFew
  <1>2. \A b \in S : /\ b = Box(id, b.x, b.y, b.l, b.w) /\ b.x \in Int /\ b.y \in Int
                     /\ b.l \in Nat /\ b.w \in Nat
                     /\ \/ b.l = Item(id).l /\ b.w = Item(id).w
                        \/ b.l = Item(id).w /\ b.w = Item(id).l
    BY CornersFit DEF IsBox
  <1> HIDE DEF S
  <1>3. front \in Int
    <2> DEFINE A == {b.x + b.l : b \in boxes}
               f == [b \in boxes |-> b.x + b.l]
    <2>1. IsFiniteSet({f[b] : b \in boxes})
      <3>1. f = [b \in boxes |-> f[b]] /\ IsFiniteSet(boxes)
        BY DEF AreBoxes
      <3> HIDE DEF f
      <3> QED
        BY <3>1, ImageIsFinite
    <2>2. A = {f[b] : b \in boxes}
      OBVIOUS
    <2>3. A \subseteq Int
      BY DEF AreBoxes, IsBox
    <2> HIDE DEF A, f
    <2>4. IsFiniteSet({0} \cup A) /\ {0} \cup A \in SUBSET Int
      <3>1. IsFiniteSet({0}) /\ IsFiniteSet(A)
        BY <2>1, <2>2, FS_Singleton
      <3>2. IsFiniteSet({0} \cup A)
        BY <3>1, FS_Union
      <3> QED
        BY <2>3, <3>2
    <2>5. Max({0} \cup A) \in Int
      BY <2>4, MaxIsWhole
    <2> QED
      BY <2>5 DEF A
  <1>4. ASSUME NEW b \in S PROVE Max({front, b.x + b.l}) \in Int
    <2>1. b.x + b.l \in Int
      BY <1>2
    <2> HIDE DEF front
    <2>2. ASSUME NEW u \in Int, NEW v \in Int PROVE Max({u, v}) \in Int
      <3>1. IsFiniteSet({u} \cup {v}) /\ {u, v} = {u} \cup {v}
        BY FS_Singleton, FS_Union
      <3> QED
        BY <3>1, MaxIsWhole
    <2> QED
      BY <1>3, <2>1, <2>2
  <1> HIDE DEF front
  <1>5. \A b \in S : turn(b) \in Int
    OBVIOUS
  <1>6. \A b, c \in S : turn(b) = turn(c) => b.l = c.l /\ b.w = c.w
    BY <1>2
  <1>7. AreKeys(S, key1, 3)
    <2>1. ASSUME NEW b \in S PROVE key1[b] \in Keys(3)
      <3>1. ASSUME NEW x \in Int, NEW y \in Int, NEW z \in Int PROVE <<x, y, z>> \in Keys(3)
        BY DEF Keys
      <3>2. Length - b.x - b.l \in Int /\ b.y \in Int /\ turn(b) \in Int
        BY <1>2, <1>5, FloorAssumption
      <3> HIDE DEF turn
      <3> QED
        BY <3>1, <3>2
    <2>2. ASSUME NEW b \in S, NEW c \in S, key1[b] = key1[c] PROVE b = c
      <3>1. Length - b.x - b.l = Length - c.x - c.l /\ b.y = c.y /\ turn(b) = turn(c)
        <4> HIDE DEF turn
        <4> QED BY <2>2
      <3>2. b.l = c.l /\ b.w = c.w
        BY <1>6, <3>1
      <3>3. b.x = c.x
        BY <1>2, <3>1, <3>2, FloorAssumption
      <3> QED
        BY <1>2, <3>1, <3>2, <3>3
    <2> HIDE DEF key1
    <2> QED
      BY <1>1, <2>1, <2>2 DEF AreKeys
  <1>8. AreKeys(S, key2, 4)
    <2>1. ASSUME NEW b \in S PROVE key2[b] \in Keys(4)
      <3>1. ASSUME NEW t \in Int, NEW x \in Int, NEW y \in Int, NEW z \in Int
            PROVE <<t, x, y, z>> \in Keys(4)
        BY DEF Keys
      <3>2. b.x \in Int /\ b.y \in Int /\ turn(b) \in Int
        BY <1>2, <1>5
      <3> HIDE DEF turn
      <3> QED
        BY <1>4, <3>1, <3>2
    <2>2. ASSUME NEW b \in S, NEW c \in S, key2[b] = key2[c] PROVE b = c
      <3>1. b.x = c.x /\ b.y = c.y /\ turn(b) = turn(c)
        <4> HIDE DEF turn
        <4> QED BY <2>2
      <3>2. b.l = c.l /\ b.w = c.w
        BY <1>6, <3>1
      <3> QED
        BY <1>2, <3>1, <3>2
    <2> HIDE DEF key2
    <2> QED
      BY <1>1, <2>1, <2>2 DEF AreKeys
  <1>9. Sorted(S, key1) \in Seq(S) /\ Sorted(S, key2) \in Seq(S)
    <2> HIDE DEF key1, key2
    <2> QED
      BY <1>7, <1>8, SortedIsSequence
  <1>10. Candidates(id, ids, boxes) = Sorted(S, IF PrefersDoor(id, ids) THEN key1 ELSE key2)
    <2>1. CASE PrefersDoor(id, ids)
      BY <2>1 DEF Candidates, S, front
    <2>2. CASE ~ PrefersDoor(id, ids)
      BY <2>2 DEF Candidates, S, front
    <2> QED
      BY <2>1, <2>2
  <1> HIDE DEF key1, key2
  <1>11. Candidates(id, ids, boxes) \in Seq(S)
    BY <1>9, <1>10
  <1> QED
    BY <1>11 DEF S

-----------------------------------------------------------------------------
(* The items of a stop in the order in which they are placed.               *)
LEMMA LoadOrderIsAll ==
  ASSUME plan \in Plans, Len(Stops) \in Nat, NEW load \in Seq(Goods)
  PROVE  /\ LoadOrder(load) \in Seq(Goods) /\ Len(LoadOrder(load)) = Len(load)
         /\ ToSet(LoadOrder(load)) = ToSet(load)
  <1> DEFINE n == Len(load)
             D == 1 .. n
             key == [k \in D |-> Append(LoadKey(load[k], StepOrEnd(load[k])), k)]
             places == Sorted(D, key)
  <1>1. n \in Nat /\ DOMAIN load = D /\ D = 1 .. n /\ \A k \in D : load[k] \in Goods
    OBVIOUS
  <1> HIDE DEF n
  <1>0. IsFiniteSet(D) /\ Cardinality(D) = n
    <2>1. IsFiniteSet(1 .. n) /\ Cardinality(1 .. n) = IF 1 > n THEN 0 ELSE n - 1 + 1
      BY <1>1, FS_Interval
    <2> QED
      BY <1>1, <2>1
  <1>2. ASSUME NEW k \in D PROVE key[k] \in Keys(5) /\ key[k][5] = k
    <2> DEFINE id == load[k]
               l == Item(id).l
               w == Item(id).w
               t == StepOrEnd(id)
    <2>1. id \in Goods /\ id \in Nat /\ l \in Nat /\ w \in Nat /\ t \in Nat
      <3>1. id \in Goods
        BY <1>1
      <3>2. IsItem(Item(id)) /\ id \in PositiveInt
        BY <3>1, PlanIsWellFormed
      <3> QED
        BY <3>1, <3>2, StepsAreWhole DEF IsItem, PositiveInt
    <2>2. Max({l, w}) \in Int
      <3> HIDE DEF l, w
      <3>1. IsFiniteSet({l} \cup {w}) /\ {l, w} = {l} \cup {w}
        BY FS_Singleton, FS_Union
      <3>2. {l, w} \in SUBSET Int /\ {l, w} # {}
        BY <2>1
      <3>3. Max({l, w}) \in {l, w}
        BY <3>1, <3>2, MaxIsWhole
      <3> QED
        BY <3>2, <3>3
    <2>3. - t \in Int /\ - (l * w) \in Int /\ - Max({l, w}) \in Int /\ id \in Int
      <3> DEFINE m == Max({l, w})
      <3> HIDE DEF l, w, t, id, m
      <3> QED
        BY <2>1, <2>2 DEF m
    <2>4. ASSUME NEW a \in Int, NEW b \in Int, NEW c \in Int, NEW d \in Int
          PROVE  /\ Append(<<a, b, c, d>>, k) \in Seq(Int) /\ Len(Append(<<a, b, c, d>>, k)) = 5
                 /\ Append(<<a, b, c, d>>, k)[5] = k
      BY <1>1
    <2>5. key[k] = Append(<<- t, - (l * w), - Max({l, w}), id>>, k)
      BY DEF LoadKey
    <2> HIDE DEF id, l, w, t, key
    <2> QED
      BY <2>3, <2>4, <2>5 DEF Keys
  <1>3. AreKeys(D, key, 5)
    <2> HIDE DEF key, D
    <2> QED
      BY <1>0, <1>2 DEF AreKeys
  <1>4. places \in [D -> D] /\ \A i \in D : \E k \in D : places[k] = i
    <2>1. /\ places \in [1 .. Cardinality(D) -> D]
          /\ \A i \in D : \E k \in 1 .. Cardinality(D) : places[k] = i
      <3> HIDE DEF key, D
      <3> QED
        BY <1>3, SortedIsInOrder
    <2> QED
      BY <1>0, <1>1, <2>1
  <1>5. LoadOrder(load) = [k \in D |-> load[places[k]]]
    BY <1>1 DEF LoadOrder
  <1> HIDE DEF places, key, D
  <1>6. \A k \in D : places[k] \in D /\ load[places[k]] \in Goods
    BY <1>1, <1>4
  <1>7. LoadOrder(load) \in Seq(Goods) /\ Len(LoadOrder(load)) = n /\ DOMAIN LoadOrder(load) = D
    BY <1>1, <1>5, <1>6
  <1>8. ToSet(LoadOrder(load)) = ToSet(load)
    <2>1. \A k \in D : LoadOrder(load)[k] = load[places[k]]
      BY <1>5
    <2>2. \A k \in D : \E j \in D : LoadOrder(load)[j] = load[k]
      BY <1>4, <2>1
    <2> QED
      <3>1. ToSet(LoadOrder(load)) = {LoadOrder(load)[k] : k \in D} /\ ToSet(load) = {load[k] : k \in D}
        BY <1>1, <1>7 DEF ToSet
      <3>2. \A k \in D : LoadOrder(load)[k] \in {load[j] : j \in D}
        BY <1>6, <2>1
      <3>3. \A k \in D : load[k] \in {LoadOrder(load)[j] : j \in D}
        BY <2>2
      <3> QED
        BY <3>1, <3>2, <3>3
  <1> QED
    BY <1>7, <1>8 DEF n

-----------------------------------------------------------------------------
(* Boxes that enter one after another.                                      *)
LEMMA NobodyEnters ==
  ASSUME NEW boxes
  PROVE  CanEnter({}, boxes)
  <1>1. Cardinality({}) = 0 /\ 1 .. 0 = {}
    BY FS_EmptySet
  <1>2. <<>> \in SetToSeqs({}) /\ Len(<<>>) = 0
    BY <1>1 DEF SetToSeqs
  <1> QED
    BY <1>1, <1>2 DEF CanEnter

LEMMA OneMoreEnters ==
  ASSUME NEW new, IsFiniteSet(new), NEW boxes, CanEnter(new, boxes),
         NEW b, b \notin new, CanLeave(b, boxes \cup new)
  PROVE  CanEnter(new \cup {b}, boxes)
  <1> DEFINE n == Cardinality(new)
  <1>1. n \in Nat /\ Cardinality(new \cup {b}) = n + 1
    BY FS_CardinalityType, FS_AddElement
  <1>2. PICK order \in SetToSeqs(new) : \A k \in 1 .. Len(order) :
               CanLeave(order[k], boxes \cup {order[j] : j \in 1 .. k - 1})
    BY DEF CanEnter
  <1>3. order \in [1 .. n -> new] /\ \A i, j \in 1 .. n : i # j => order[i] # order[j]
    BY <1>2 DEF SetToSeqs
  <1> HIDE DEF n
  <1>4. order \in Seq(new) /\ Len(order) = n
    BY <1>1, <1>3
  <1>5. {order[j] : j \in 1 .. n} = new
    <2>1. order \in Injection(1 .. n, new)
      BY <1>3 DEF Injection, IsInjective
    <2>2. IsFiniteSet(1 .. n) /\ Cardinality(1 .. n) = n
      BY <1>1, FS_Interval
    <2>3. order \in Surjection(1 .. n, new)
      BY <2>1, <2>2, FS_Injection DEF n
    <2> QED
      BY <1>3, <2>3 DEF Surjection
  <1> DEFINE more == Append(order, b)
  <1>6. /\ more \in [1 .. n + 1 -> new \cup {b}] /\ Len(more) = n + 1
        /\ more[n + 1] = b /\ \A k \in 1 .. n : more[k] = order[k]
    <2>1. order \in Seq(new \cup {b})
      BY <1>4
    <2>2. more \in Seq(new \cup {b}) /\ Len(more) = n + 1
      BY <1>4, <2>1
    <2>3. more \in [1 .. n + 1 -> new \cup {b}]
      <3> HIDE DEF more
      <3> QED
        BY <2>2
    <2>4. more[n + 1] = b /\ \A k \in 1 .. n : more[k] = order[k]
      BY <1>1, <1>4, <2>1
    <2> QED
      BY <2>2, <2>3, <2>4
  <1> HIDE DEF more
  <1>7. more \in SetToSeqs(new \cup {b})
    <2>1. ASSUME NEW i \in 1 .. n + 1, NEW j \in 1 .. n + 1, i < j
          PROVE  more[i] # more[j]
      <3>1. i \in 1 .. n
        BY <1>1, <2>1
      <3>2. CASE j = n + 1
        BY <1>3, <1>6, <3>1, <3>2
      <3>3. CASE j # n + 1
        <4>1. j \in 1 .. n
          BY <1>1, <3>3
        <4> QED
          BY <1>3, <1>6, <2>1, <3>1, <4>1
      <3> QED
        BY <3>2, <3>3
    <2>2. \A i, j \in 1 .. n + 1 : i # j => more[i] # more[j]
      <3> SUFFICES ASSUME NEW i \in 1 .. n + 1, NEW j \in 1 .. n + 1, i # j
                   PROVE  more[i] # more[j]
        OBVIOUS
      <3>1. i < j \/ j < i
        BY <1>1
      <3> QED
        BY <2>1, <3>1
    <2> QED
      BY <1>1, <1>6, <2>2 DEF SetToSeqs
  <1>8. ASSUME NEW k \in 1 .. Len(more)
        PROVE  CanLeave(more[k], boxes \cup {more[j] : j \in 1 .. k - 1})
    <2>1. CASE k = n + 1
      <3>1. 1 .. k - 1 = 1 .. n
        BY <1>1, <2>1
      <3>2. {more[j] : j \in 1 .. k - 1} = {order[j] : j \in 1 .. n}
        BY <1>6, <3>1
      <3> QED
        BY <1>5, <1>6, <2>1, <3>2
    <2>2. CASE k # n + 1
      <3>1. k \in 1 .. n /\ 1 .. k - 1 \subseteq 1 .. n
        BY <1>1, <1>6, <2>2
      <3>2. {more[j] : j \in 1 .. k - 1} = {order[j] : j \in 1 .. k - 1}
        BY <1>6, <3>1
      <3> QED
        BY <1>2, <1>4, <1>6, <3>1, <3>2
    <2> QED
      BY <2>1, <2>2
  <1> QED
    BY <1>7, <1>8 DEF CanEnter

-----------------------------------------------------------------------------
(* Boxes on board, one more and some fewer.                                 *)
LEMMA FewerOnboard ==
  ASSUME NEW boxes, Onboard(boxes), NEW some \in SUBSET boxes
  PROVE  Onboard(some)
  <1>1. AreBoxes(some)
    BY SomeAreBoxes DEF Onboard
  <1> QED
    BY <1>1 DEF Onboard, Clear

LEMMA OneMoreOnboard ==
  ASSUME NEW boxes, Onboard(boxes), NEW b, IsBox(b), b.id \in Int, Inside(b), Clear(b, boxes),
         b.id \notin Ids(boxes)
  PROVE  Onboard(boxes \cup {b}) /\ Ids(boxes \cup {b}) = Ids(boxes) \cup {b.id} /\ b \notin boxes
  <1>1. b \notin boxes /\ Ids(boxes \cup {b}) = Ids(boxes) \cup {b.id}
    BY DEF Ids
  <1>2. AreBoxes(boxes \cup {b})
    BY FS_AddElement DEF Onboard, AreBoxes
  <1>3. ASSUME NEW c \in boxes PROVE ~ Overlap(c, b)
    <2>1. ~ Overlap(b, c)
      BY DEF Clear
    <2> QED
      BY <2>1 DEF Overlap
  <1>4. ASSUME NEW c \in boxes \cup {b}
        PROVE  c.id \in Int /\ Inside(c) /\ Clear(c, (boxes \cup {b}) \ {c})
    <2>1. CASE c = b
      BY <1>1, <2>1 DEF Clear
    <2>2. CASE c # b
      <3>1. c \in boxes /\ Clear(c, boxes \ {c})
        BY <2>2 DEF Onboard
      <3>2. Clear(c, (boxes \cup {b}) \ {c})
        BY <1>3, <3>1 DEF Clear
      <3> QED
        BY <3>1, <3>2 DEF Onboard
    <2> QED
      BY <2>1, <2>2
  <1>5. ASSUME NEW c \in boxes \cup {b}, NEW d \in boxes \cup {b}, c.id = d.id
        PROVE  c = d
    BY <1>5 DEF Onboard, Ids
  <1> QED
    BY <1>1, <1>2, <1>4, <1>5 DEF Onboard

LEMMA OnboardCount ==
  ASSUME NEW boxes, Onboard(boxes)
  PROVE  IsFiniteSet(boxes) /\ Cardinality(boxes) = Cardinality(Ids(boxes))
  <1> DEFINE f == [b \in boxes |-> b.id]
  <1>1. f \in Bijection(boxes, Ids(boxes))
    BY DEF Bijection, Injection, Surjection, IsInjective, Ids, Onboard
  <1>2. IsFiniteSet(boxes)
    BY DEF Onboard, AreBoxes
  <1>3. ExistsBijection(boxes, Ids(boxes))
    BY <1>1 DEF ExistsBijection
  <1> QED
    BY <1>2, <1>3, FS_Bijection

(* Who is on board after each stop.                                         *)
LEMMA OnBoardSteps ==
  ASSUME NEW G, NEW stops \in Seq([load : Seq(G), unload : Seq(G)])
  PROVE  /\ OnBoard(stops)[0] = {}
         /\ \A k \in 1 .. Len(stops) :
              OnBoard(stops)[k] =
                (OnBoard(stops)[k - 1] \ ToSet(stops[k].unload)) \cup ToSet(stops[k].load)
  <1> DEFINE N == Len(stops)
             D == 0 .. N
             V == SUBSET G
             next(f) == [k \in D |-> IF k = 0 THEN {}
                                     ELSE (f[k - 1] \ ToSet(stops[k].unload)) \cup ToSet(stops[k].load)]
             step == [f \in [D -> V] |-> next(f)]
             rank == [k \in D |-> k]
  <1>1. N \in Nat
    OBVIOUS
  <1>2. \A k \in 1 .. N : ToSet(stops[k].load) \in V /\ ToSet(stops[k].unload) \in V
    <2> SUFFICES ASSUME NEW k \in 1 .. N
                 PROVE  ToSet(stops[k].load) \in V /\ ToSet(stops[k].unload) \in V
      OBVIOUS
    <2>1. stops[k] \in [load : Seq(G), unload : Seq(G)]
      <3> DEFINE S == [load : Seq(G), unload : Seq(G)]
      <3>1. stops \in Seq(S) /\ k \in 1 .. Len(stops)
        OBVIOUS
      <3> HIDE DEF S
      <3>2. stops[k] \in S
        BY <3>1
      <3> QED
        BY <3>2 DEF S
    <2>2. stops[k].load \in Seq(G) /\ stops[k].unload \in Seq(G)
      BY <2>1
    <2>3. ASSUME NEW q \in Seq(G) PROVE ToSet(q) \subseteq G
      BY DEF ToSet
    <2> QED
      BY <2>2, <2>3
  <1> HIDE DEF N
  <1>3. ASSUME NEW f \in [D -> V] PROVE next(f) \in [D -> V]
    <2>1. ASSUME NEW k \in D PROVE next(f)[k] \in V
      <3>1. CASE k = 0
        BY <3>1
      <3>2. CASE k # 0
        <4>1. k \in 1 .. N /\ k - 1 \in D
          BY <1>1, <3>2
        <4>2. f[k - 1] \in V
          BY <4>1
        <4> QED
          BY <1>2, <3>2, <4>1, <4>2
      <3> QED
        BY <3>1, <3>2
    <2> QED
      BY <2>1
  <1>4. step \in [[D -> V] -> [D -> V]]
    <2> HIDE DEF D, V, next
    <2> QED
      BY <1>3
  <1>5. rank \in [D -> 0 .. N]
    OBVIOUS
  <1>6. [D -> V] # {}
    <2>1. [k \in D |-> {}] \in [D -> V]
      OBVIOUS
    <2> QED
      BY <2>1
  <1>7. ASSUME NEW f \in [D -> V], NEW g \in [D -> V], NEW k \in D,
               \A e \in D : rank[e] < rank[k] => f[e] = g[e]
        PROVE  step[f][k] = step[g][k]
    <2>1. k # 0 => f[k - 1] = g[k - 1]
      <3> SUFFICES ASSUME k # 0 PROVE f[k - 1] = g[k - 1]
        OBVIOUS
      <3>1. k - 1 \in D /\ k - 1 < k
        BY <1>1
      <3> QED
        BY <1>7, <3>1
    <2>2. next(f)[k] = next(g)[k]
      BY <2>1
    <2> QED
      BY <2>2
  <1>8. \A f, g \in [D -> V] : \A k \in D :
          (\A e \in D : rank[e] < rank[k] => f[e] = g[e]) => step[f][k] = step[g][k]
    BY <1>7
  <1> HIDE DEF step, rank, D, V
  <1>9. IsRecursion(D, V, step, rank, N)
    BY <1>1, <1>4, <1>5, <1>6, <1>8 DEF IsRecursion
  <1>10. PICK f \in [D -> V] : step[f] = f
    BY <1>9, Recursion
  <1>11. f = next(f)
    BY <1>10 DEF step
  <1> DEFINE h == CHOOSE g : g = next(g)
  <1>12. h = next(h)
    BY <1>11
  <1>13. OnBoard(stops) = h
    BY DEF OnBoard, D, N
  <1> HIDE DEF h
  <1>14. h[0] = {}
    <2>1. 0 \in D
      BY <1>1 DEF D
    <2>2. next(h)[0] = {}
      BY <2>1
    <2> QED
      BY <1>12, <2>2
  <1>15. ASSUME NEW k \in 1 .. N
         PROVE  h[k] = (h[k - 1] \ ToSet(stops[k].unload)) \cup ToSet(stops[k].load)
    <2>1. k \in D /\ k # 0
      BY <1>1 DEF D
    <2>2. next(h)[k] = (h[k - 1] \ ToSet(stops[k].unload)) \cup ToSet(stops[k].load)
      BY <2>1
    <2> QED
      BY <1>12, <2>2
  <1> QED
    BY <1>13, <1>14, <1>15 DEF N

-----------------------------------------------------------------------------
(* The cycles of the route: where one ends, the truck is empty.             *)
Ends(stops) == Sorted(Cuts(stops), [k \in Cuts(stops) |-> <<k>>])
EndOf(stops, c) == IF c = 0 THEN 0 ELSE Ends(stops)[c]

LEMMA EndsAreCuts ==
  ASSUME NEW stops, Len(stops) \in Nat
  PROVE  LET m == Cardinality(Cuts(stops))  e == Ends(stops) IN
         /\ m \in Nat \ {0} /\ Len(e) = m
         /\ e \in [1 .. m -> 0 .. Len(stops)] /\ e[m] = Len(stops)
         /\ \A c, d \in 1 .. m : c < d => e[c] < e[d]
         /\ \A c \in 1 .. m - 1 : e[c] \in 1 .. Len(stops) - 1 /\ OnBoard(stops)[e[c]] = {}
  <1> DEFINE n == Len(stops)
             S == Cuts(stops)
             m == Cardinality(S)
             key == [k \in S |-> <<k>>]
             e == Sorted(S, key)
  <1>1. n \in S /\ S \in SUBSET (0 .. n) /\ n \in Nat
    BY DEF Cuts
  <1>2. \A k \in S : k # n => k \in 1 .. n - 1 /\ OnBoard(stops)[k] = {}
    BY DEF Cuts
  <1> HIDE DEF S, n
  <1>3. IsFiniteSet(S) /\ S \in SUBSET Int
    <2>1. IsFiniteSet(0 .. n)
      BY <1>1, FS_Interval
    <2>2. IsFiniteSet(S)
      BY <1>1, <2>1, FS_Subset
    <2>3. S \subseteq Int
      BY <1>1
    <2> QED
      BY <2>2, <2>3
  <1>4. AreKeys(S, key, 1) /\ \A i, j \in S : Before(<<i>>, <<j>>) <=> i < j
    BY <1>3, NumberKeys
  <1>5. m \in Nat /\ m # 0
    BY <1>1, <1>3, FS_CardinalityType, FS_EmptySet
  <1>6. /\ e \in [1 .. m -> S] /\ Len(e) = m
        /\ \A i \in S : \E k \in 1 .. m : e[k] = i
        /\ \A k, l \in 1 .. m : k < l => Before(key[e[k]], key[e[l]])
    <2> HIDE DEF key
    <2> QED
      BY <1>4, SortedIsInOrder
  <1> HIDE DEF m, e
  <1>7. \A k, l \in 1 .. m : k < l => e[k] < e[l]
    <2> SUFFICES ASSUME NEW k \in 1 .. m, NEW l \in 1 .. m, k < l PROVE e[k] < e[l]
      OBVIOUS
    <2>1. e[k] \in S /\ e[l] \in S /\ Before(key[e[k]], key[e[l]])
      BY <1>6
    <2>2. Before(<<e[k]>>, <<e[l]>>)
      BY <2>1
    <2> QED
      BY <1>4, <2>1, <2>2
  <1>8. e[m] = n
    <2>1. PICK k \in 1 .. m : e[k] = n
      BY <1>1, <1>6
    <2>2. m \in 1 .. m /\ e[m] \in 0 .. n
      <3>1. m \in 1 .. m
        BY <1>5
      <3>2. e[m] \in S
        BY <1>6, <3>1
      <3> QED
        BY <1>1, <3>1, <3>2
    <2>3. CASE k < m
      BY <1>1, <1>7, <2>1, <2>2, <2>3
    <2>4. CASE ~ (k < m)
      BY <1>5, <2>1, <2>4
    <2> QED
      BY <2>3, <2>4
  <1>9. ASSUME NEW c \in 1 .. m - 1 PROVE e[c] \in 1 .. n - 1 /\ OnBoard(stops)[e[c]] = {}
    <2>1. c \in 1 .. m /\ m \in 1 .. m /\ c < m
      BY <1>5
    <2>2. e[c] < n /\ e[c] \in S
      BY <1>6, <1>7, <1>8, <2>1
    <2>3. e[c] # n
      BY <1>1, <2>2
    <2> QED
      BY <1>2, <2>2, <2>3
  <1>10. e \in [1 .. m -> 0 .. n]
    BY <1>1, <1>6
  <1> QED
    BY <1>5, <1>6, <1>7, <1>8, <1>9, <1>10 DEF Ends, e, m, S, n

LEMMA CyclesAreParts ==
  ASSUME NEW G, NEW stops \in Seq(G)
  PROVE  LET m == Cardinality(Cuts(stops)) IN
         /\ m \in Nat \ {0} /\ Len(CyclesOf(stops)) = m
         /\ CyclesOf(stops) = [c \in 1 .. m |-> CyclesOf(stops)[c]]
         /\ \A c \in 1 .. m :
              LET from == EndOf(stops, c - 1)  cycle == CyclesOf(stops)[c] IN
              /\ from \in Nat /\ EndOf(stops, c) \in from .. Len(stops)
              /\ cycle \in Seq(G) /\ Len(cycle) = EndOf(stops, c) - from
              /\ \A j \in 1 .. Len(cycle) : cycle[j] = stops[from + j]
  <1> DEFINE n == Len(stops)
             m == Cardinality(Cuts(stops))
             e == Ends(stops)
  <1>1. n \in Nat
    OBVIOUS
  <1>2. /\ m \in Nat \ {0} /\ Len(e) = m
        /\ e \in [1 .. m -> 0 .. n] /\ e[m] = n
        /\ \A c, d \in 1 .. m : c < d => e[c] < e[d]
    BY <1>1, EndsAreCuts
  <1>3. CyclesOf(stops) = [k \in 1 .. Len(e) |-> SubSeq(stops, IF k = 1 THEN 1 ELSE e[k - 1] + 1, e[k])]
    BY DEF CyclesOf, Ends
  <1> HIDE DEF m, e
  <1>5. ASSUME NEW c \in 1 .. m
        PROVE  LET from == EndOf(stops, c - 1)  cycle == CyclesOf(stops)[c] IN
               /\ from \in Nat /\ EndOf(stops, c) \in from .. n
               /\ cycle \in Seq(G) /\ Len(cycle) = EndOf(stops, c) - from
               /\ \A j \in 1 .. Len(cycle) : cycle[j] = stops[from + j]
    <2> DEFINE from == EndOf(stops, c - 1)
               to == EndOf(stops, c)
               cycle == CyclesOf(stops)[c]
    <2>1. to = e[c] /\ to \in 0 .. n
      BY <1>2 DEF EndOf, e
    <2>2. from \in Nat /\ from <= to
      <3>1. CASE c = 1
        BY <2>1, <3>1 DEF EndOf
      <3>2. CASE c # 1
        <4>1. c - 1 \in 1 .. m /\ c - 1 < c /\ c - 1 # 0
          BY <1>2, <3>2
        <4>2. from = e[c - 1] /\ e[c - 1] < e[c] /\ e[c - 1] \in 0 .. n
          BY <1>2, <4>1 DEF EndOf, e
        <4> QED
          BY <1>1, <2>1, <4>2
      <3> QED
        BY <3>1, <3>2
    <2>3. cycle = SubSeq(stops, from + 1, to)
      <3>1. cycle = SubSeq(stops, IF c = 1 THEN 1 ELSE e[c - 1] + 1, e[c])
        BY <1>2, <1>3
      <3>2. (IF c = 1 THEN 1 ELSE e[c - 1] + 1) = from + 1
        <4>1. c - 1 = 0 <=> c = 1
          BY <1>2
        <4> QED
          BY <4>1 DEF EndOf, e
      <3> QED
        BY <2>1, <3>1, <3>2
    <2> HIDE DEF from, to, cycle
    <2>4. cycle \in Seq(G) /\ Len(cycle) = to - from
      BY <1>1, <2>1, <2>2, <2>3
    <2>5. ASSUME NEW j \in 1 .. Len(cycle) PROVE cycle[j] = stops[from + j]
      BY <1>1, <2>1, <2>2, <2>3, <2>4
    <2> QED
      BY <2>1, <2>2, <2>4, <2>5 DEF from, to, cycle
  <1>6. CyclesOf(stops) = [c \in 1 .. m |-> CyclesOf(stops)[c]]
    BY <1>2, <1>3
  <1>7. Len(CyclesOf(stops)) = m
    <2>1. \A c \in 1 .. m : CyclesOf(stops)[c] \in Seq(G)
      BY <1>5
    <2>2. CyclesOf(stops) \in [1 .. m -> Seq(G)]
      BY <1>6, <2>1
    <2> QED
      BY <1>2, <2>2
  <1> QED
    BY <1>2, <1>5, <1>6, <1>7 DEF m

-----------------------------------------------------------------------------
(* The invariant.  A stop that is open (a frame of kind "stop") starts from *)
(* the boxes of its node; what is placed and what is found for it is told   *)
(* from there.  p is the plan and c the cycle that is validated.            *)
IsSeq(s) == Len(s) \in Nat /\ s = [k \in 1 .. Len(s) |-> s[k]]

Carried(p, ids) == Total([id \in DOMAIN p.item |-> p.item[id].weight], ids)
ShapeIn(p, id)  == [id |-> id, l |-> p.item[id].l, w |-> p.item[id].w, turns |-> p.item[id].turns]

OnFloor(p, boxes) == Onboard(boxes) /\ Ids(boxes) \subseteq DOMAIN p.item

Staying(boxes, stop) == {b \in boxes : b.id \notin ToSet(stop.unload)}

(* What the property asks of a stop, from the boxes before it to those after. *)
GoodStep(p, before, stop, order, now) ==
  /\ ToSet(order) = ToSet(stop.unload) /\ ToSet(stop.unload) \subseteq Ids(before)
  /\ LeaveInOrder(order, before)
  /\ Staying(before, stop) \subseteq now
  /\ Ids(now) = Ids(Staying(before, stop)) \cup ToSet(stop.load)
  /\ Cardinality(now) = Cardinality(Ids(now))
  /\ CanEnter(now \ Staying(before, stop), Staying(before, stop))
  /\ Carried(p, Ids(now)) <= Payload

(* A stop whose unloading is decided.                                       *)
OpenFrame(p, c, f) ==
  LET stop == c[f.node.stop] IN
  /\ f.node.stop \in 1 .. Len(c) /\ OnFloor(p, f.node.boxes)
  /\ ToSet(f.order) = ToSet(stop.unload) /\ ToSet(stop.unload) \subseteq Ids(f.node.boxes)
  /\ LeaveInOrder(f.order, f.node.boxes)
  /\ f.items \in Seq(DOMAIN p.item) /\ ToSet(f.items) = ToSet(stop.load)
  /\ f.items = <<>> => Carried(p, Ids(Staying(f.node.boxes, stop))) <= Payload

(* The items of the stop before n.index are placed.                         *)
LoadPoint(p, c, f, n) ==
  LET kept == Staying(f.node.boxes, c[f.node.stop]) IN
  /\ n.stop = f.node.stop /\ n.index \in 1 .. Len(f.items) + 1
  /\ OnFloor(p, n.boxes) /\ kept \subseteq n.boxes
  /\ Ids(n.boxes) = Ids(kept) \cup {f.items[j] : j \in 1 .. n.index - 1}
  /\ CanEnter(n.boxes \ kept, kept)
  /\ (n.index = 1 /\ f.items # <<>>) \/ Carried(p, Ids(n.boxes)) <= Payload

(* The places to try for the next item.                                     *)
Placing(p, f, g) ==
  LET id == f.items[g.node.index] IN
  /\ g.node.index <= Len(f.items) /\ id \notin Ids(g.node.boxes)
  /\ Carried(p, Ids(g.node.boxes)) + p.item[id].weight <= Payload
  /\ g.todo \in Seq(Corners(ShapeIn(p, id), g.node.boxes))

(* All of them are.                                                         *)
DonePoint(p, c, f, n) ==
  /\ n.stop = f.node.stop + 1 /\ OnFloor(p, n.boxes)
  /\ GoodStep(p, f.node.boxes, c[f.node.stop], f.order, n.boxes)

(* The stop that the frame at k, or the node if k is past the stack, is at. *)
Under(s, k, i) ==
  i \in 1 .. k - 1 /\ s[i].kind = "stop" /\ \A j \in i + 1 .. k - 1 : s[j].kind = "load"

Comes(p, c, s, k, n) == \E i \in 1 .. k - 1 : Under(s, k, i) /\ DonePoint(p, c, s[i], n)
Loads(p, c, s, k, n) == \E i \in 1 .. k - 1 : Under(s, k, i) /\ LoadPoint(p, c, s[i], n)

StopAt(p, c, s, k) ==
  /\ OpenFrame(p, c, s[k])
  /\ (k = 1 /\ s[k].node = Start) \/ Comes(p, c, s, k, s[k].node)
  /\ \A i \in 1 .. k - 1 : s[i].kind = "stop" => s[i].node.stop < s[k].node.stop
  /\ \A t \in 1 .. s[k].node.stop : \E i \in 1 .. k : s[i].kind = "stop" /\ s[i].node.stop = t

LoadAt(p, c, s, k) ==
  \E i \in 1 .. k - 1 :
    Under(s, k, i) /\ LoadPoint(p, c, s[i], s[k].node) /\ Placing(p, s[i], s[k])

IsFrame(f) ==
  f = [kind |-> f.kind, node |-> f.node, order |-> f.order, items |-> f.items,
       seen |-> f.seen, todo |-> f.todo]

FrameAt(p, c, s, k) ==
  /\ IsFrame(s[k])
  /\ \/ s[k].kind = "stop" /\ StopAt(p, c, s, k)
     \/ s[k].kind = "load" /\ LoadAt(p, c, s, k)

StackInv(p, c, s) == IsSeq(s) /\ \A k \in 1 .. Len(s) : FrameAt(p, c, s, k)

NodeInv(p, c, s, a, n) ==
  /\ a = "stop" => (s = <<>> /\ n = Start) \/ Comes(p, c, s, Len(s) + 1, n)
  /\ a = "load" => Loads(p, c, s, Len(s) + 1, n)

(* The cycles done, and those to come.                                      *)
BoxesAfter(q, k) == IF k = 0 THEN {} ELSE q[k].boxes
GoodSteps(p, q) ==
  /\ IsSeq(q) /\ Len(q) <= Len(p.stops)
  /\ \A k \in 1 .. Len(q) :
       /\ GoodStep(p, BoxesAfter(q, k - 1), p.stops[k], q[k].order, q[k].boxes)
       /\ OnFloor(p, q[k].boxes)

(* The cycles rest are those of the plan from the k-th on, after d stops.   *)
CyclesFrom(p, rest, d, k) ==
  LET all == CyclesOf(p.stops) IN
  /\ IsSeq(rest) /\ Len(rest) = Len(all) - k + 1
  /\ \A j \in 1 .. Len(rest) : rest[j] = all[k + j - 1]
  /\ d = EndOf(p.stops, k - 1)

CycleInv(p, rest, a, q) ==
  /\ p \in Plans /\ GoodSteps(p, q)
  /\ IF a = "valid" THEN Len(q) = Len(p.stops)
     ELSE \E k \in 1 .. Len(CyclesOf(p.stops)) : CyclesFrom(p, rest, Len(q), k)

LayoutInv ==
  /\ at \in {"stop", "load", "try", "valid", "rejected", "limit"}
  /\ CycleInv(plan, cycles, at, steps)
  /\ StackInv(plan, Stops, stack) /\ NodeInv(plan, Stops, stack, at, node)

-----------------------------------------------------------------------------
(* Sequences whose elements are of no particular set.                       *)
LEMMA SeqOfItsOwn ==
  ASSUME NEW s, IsSeq(s)
  PROVE  s \in Seq({s[k] : k \in 1 .. Len(s)})
  <1> DEFINE n == Len(s)
             F == {s[k] : k \in 1 .. n}
  <1>1. n \in Nat /\ s = [k \in 1 .. n |-> s[k]]
    BY DEF IsSeq
  <1> HIDE DEF n
  <1>2. [k \in 1 .. n |-> s[k]] \in [1 .. n -> F]
    OBVIOUS
  <1>3. s \in [1 .. n -> F]
    BY <1>1, <1>2
  <1> HIDE DEF F
  <1>4. s \in Seq(F)
    BY <1>1, <1>3
  <1> QED
    BY <1>4 DEF F, n

LEMMA MembersMakeSeq ==
  ASSUME NEW F, NEW s \in Seq(F)
  PROVE  IsSeq(s) /\ \A k \in 1 .. Len(s) : s[k] \in F
  BY DEF IsSeq

LEMMA EmptyIsSeq == IsSeq(<<>>) /\ Len(<<>>) = 0
  <1>1. Len(<<>>) = 0
    OBVIOUS
  <1>2. <<>> = [k \in 1 .. 0 |-> <<>>[k]]
    OBVIOUS
  <1> QED
    BY <1>1, <1>2 DEF IsSeq

LEMMA NoneIsEmpty ==
  ASSUME NEW s, IsSeq(s), Len(s) = 0
  PROVE  s = <<>>
  <1> DEFINE F == {s[k] : k \in 1 .. Len(s)}
  <1>1. s \in Seq(F)
    BY SeqOfItsOwn
  <1> HIDE DEF F
  <1> QED
    BY <1>1

LEMMA Appended ==
  ASSUME NEW s, IsSeq(s), NEW e
  PROVE  LET t == Append(s, e) IN
         /\ IsSeq(t) /\ Len(t) = Len(s) + 1 /\ t[Len(s) + 1] = e
         /\ \A k \in 1 .. Len(s) : t[k] = s[k]
  <1> DEFINE F == {s[k] : k \in 1 .. Len(s)} \cup {e}
  <1>1. s \in Seq(F)
    <2>1. s \in Seq({s[k] : k \in 1 .. Len(s)})
      BY SeqOfItsOwn
    <2>2. ASSUME NEW A, s \in Seq(A) PROVE s \in Seq(A \cup {e})
      BY <2>2
    <2> QED
      BY <2>1, <2>2
  <1>2. e \in F
    OBVIOUS
  <1> HIDE DEF F
  <1>3. Append(s, e) \in Seq(F) /\ Len(Append(s, e)) = Len(s) + 1
    BY <1>1, <1>2
  <1>4. Append(s, e)[Len(s) + 1] = e /\ \A k \in 1 .. Len(s) : Append(s, e)[k] = s[k]
    BY <1>1, <1>2
  <1> QED
    BY <1>3, <1>4, MembersMakeSeq

LEMMA WithoutLast ==
  ASSUME NEW s, IsSeq(s), s # <<>>
  PROVE  LET t == Front(s) IN
         /\ IsSeq(t) /\ Len(s) >= 1 /\ Len(t) = Len(s) - 1 /\ Last(s) = s[Len(s)]
         /\ \A k \in 1 .. Len(t) : t[k] = s[k]
  <1> DEFINE F == {s[k] : k \in 1 .. Len(s)}
  <1>1. s \in Seq(F)
    BY SeqOfItsOwn
  <1> HIDE DEF F
  <1>2. Len(s) \in Nat /\ Len(s) # 0
    BY <1>1
  <1>3. Front(s) = SubSeq(s, 1, Len(s) - 1)
    BY DEF Front
  <1> DEFINE n == Len(s) - 1
  <1>4. n \in Nat /\ n <= Len(s)
    BY <1>2
  <1> HIDE DEF n
  <1>5. \A k \in 1 .. n : s[k] \in F
    BY <1>1, <1>4
  <1>6. SubSeq(s, 1, n) \in Seq(F) /\ Len(SubSeq(s, 1, n)) = n
    BY <1>1, <1>4, <1>5
  <1>7. \A k \in 1 .. n : SubSeq(s, 1, n)[k] = s[k]
    BY <1>1, <1>4
  <1>8. Front(s) = SubSeq(s, 1, n) /\ IsSeq(Front(s))
    BY <1>3, <1>6, MembersMakeSeq DEF n
  <1>9. Len(s) >= 1 /\ n = Len(s) - 1
    BY <1>2 DEF n
  <1> QED
    BY <1>6, <1>7, <1>8, <1>9 DEF Last

LEMMA WithoutFirst ==
  ASSUME NEW s, IsSeq(s), s # <<>>
  PROVE  LET t == Tail(s) IN
         /\ IsSeq(t) /\ Len(t) = Len(s) - 1 /\ Len(s) >= 1 /\ Head(s) = s[1]
         /\ \A k \in 1 .. Len(t) : t[k] = s[k + 1]
  <1> DEFINE F == {s[k] : k \in 1 .. Len(s)}
  <1>1. s \in Seq(F)
    BY SeqOfItsOwn
  <1> HIDE DEF F
  <1>2. Len(s) \in Nat /\ Len(s) # 0
    BY <1>1
  <1>3. Tail(s) \in Seq(F) /\ Len(Tail(s)) = Len(s) - 1 /\ Head(s) = s[1]
    BY <1>1, <1>2
  <1>4. \A k \in 1 .. Len(s) - 1 : Tail(s)[k] = s[k + 1]
    BY <1>1, <1>2
  <1>5. IsSeq(Tail(s))
    BY <1>3, MembersMakeSeq
  <1>6. Len(s) >= 1
    BY <1>2
  <1> QED
    BY <1>3, <1>4, <1>5, <1>6

LEMMA Joined ==
  ASSUME NEW s, IsSeq(s), NEW t, IsSeq(t)
  PROVE  LET u == s \o t IN
         /\ IsSeq(u) /\ Len(u) = Len(s) + Len(t)
         /\ \A k \in 1 .. Len(s) : u[k] = s[k]
         /\ \A k \in 1 .. Len(t) : u[Len(s) + k] = t[k]
  <1> DEFINE F == {s[k] : k \in 1 .. Len(s)}
             G == {t[k] : k \in 1 .. Len(t)}
             H == F \cup G
  <1>1. s \in Seq(F) /\ t \in Seq(G)
    BY SeqOfItsOwn
  <1> HIDE DEF F, G
  <1>2. s \in Seq(H) /\ t \in Seq(H)
    BY <1>1
  <1> HIDE DEF H
  <1>3. s \o t \in Seq(H) /\ Len(s \o t) = Len(s) + Len(t)
    BY <1>2
  <1>4. \A k \in 1 .. Len(s) : (s \o t)[k] = s[k]
    BY <1>2
  <1>5. \A k \in 1 .. Len(t) : (s \o t)[Len(s) + k] = t[k]
    BY <1>2
  <1> QED
    BY <1>3, <1>4, <1>5, MembersMakeSeq

LEMMA Replaced ==
  ASSUME NEW s, IsSeq(s), NEW k \in 1 .. Len(s), NEW e
  PROVE  LET t == [s EXCEPT ![k] = e] IN
         /\ IsSeq(t) /\ Len(t) = Len(s) /\ t[k] = e
         /\ \A j \in 1 .. Len(s) : j # k => t[j] = s[j]
  <1> DEFINE n == Len(s)
             t == [s EXCEPT ![k] = e]
  <1>1. n \in Nat /\ s = [j \in 1 .. n |-> s[j]]
    BY DEF IsSeq
  <1> HIDE DEF n
  <1>2. DOMAIN s = 1 .. n
    BY <1>1
  <1>3. t = [j \in 1 .. n |-> IF j = k THEN e ELSE s[j]]
    BY <1>2
  <1>4. k \in 1 .. n
    BY DEF n
  <1> HIDE DEF t
  <1> DEFINE F == {s[j] : j \in 1 .. n} \cup {e}
  <1>5. t \in [1 .. n -> F]
    BY <1>3
  <1> HIDE DEF F
  <1>6. t \in Seq(F) /\ Len(t) = n
    BY <1>1, <1>5
  <1>7. t[k] = e /\ \A j \in 1 .. n : j # k => t[j] = s[j]
    BY <1>3, <1>4
  <1> QED
    BY <1>6, <1>7, MembersMakeSeq DEF n, t

-----------------------------------------------------------------------------
(* The stack.                                                               *)
LEMMA UnderIsOne ==
  ASSUME NEW s, NEW k \in Nat, NEW i, Under(s, k, i), NEW j, Under(s, k, j)
  PROVE  i = j
  <1>1. i \in 1 .. k - 1 /\ j \in 1 .. k - 1
    BY DEF Under
  <1>2. ASSUME i < j PROVE FALSE
    <2>1. j \in i + 1 .. k - 1
      BY <1>1, <1>2
    <2>2. s[j].kind = "load" /\ s[j].kind = "stop"
      BY <2>1 DEF Under
    <2> QED
      BY <2>2
  <1>3. ASSUME j < i PROVE FALSE
    <2>1. i \in j + 1 .. k - 1
      BY <1>1, <1>3
    <2>2. s[i].kind = "load" /\ s[i].kind = "stop"
      BY <2>1 DEF Under
    <2> QED
      BY <2>2
  <1> QED
    BY <1>1, <1>2, <1>3

LEMMA StopFrameIsUnder ==
  ASSUME Len(stack) \in Nat, NEW i, Under(stack, Len(stack) + 1, i)
  PROVE  StopFrame = i /\ i \in 1 .. Len(stack)
  <1> DEFINE n == Len(stack)
             P(k) == stack[k].kind = "stop" /\ \A j \in k + 1 .. n : stack[j].kind = "load"
  <1>1. n + 1 - 1 = n /\ n + 1 \in Nat
    OBVIOUS
  <1>2. \A k : k \in 1 .. n /\ P(k) <=> Under(stack, n + 1, k)
    BY <1>1 DEF Under
  <1>3. i \in 1 .. n /\ P(i)
    BY <1>2
  <1>4. ASSUME NEW k \in 1 .. n, P(k) PROVE k = i
    <2>1. Under(stack, n + 1, k)
      BY <1>2, <1>4
    <2> QED
      BY <1>1, <2>1, UnderIsOne
  <1>5. StopFrame = CHOOSE k \in 1 .. n : P(k)
    BY DEF StopFrame
  <1> HIDE DEF P, n
  <1> QED
    BY <1>3, <1>4, <1>5 DEF n

(* What is known of a frame is known of one with fewer places to try.       *)
SameFrame(f, g) ==
  /\ f.kind = g.kind /\ f.node = g.node /\ f.order = g.order /\ f.items = g.items
  /\ IsFrame(g) /\ \A C : f.todo \in Seq(C) => g.todo \in Seq(C)

SameUpTo(s, t, k) == \A j \in 1 .. k : SameFrame(s[j], t[j])

LEMMA UnderSame ==
  ASSUME NEW s, NEW t, NEW k \in Nat, NEW m \in Nat, k - 1 <= m, SameUpTo(s, t, m), NEW i, Under(s, k, i)
  PROVE  Under(t, k, i) /\ i \in 1 .. m
  <1>1. \A j \in 1 .. m : s[j].kind = t[j].kind
    BY DEF SameUpTo, SameFrame
  <1>2. i \in 1 .. k - 1 /\ \A j \in i + 1 .. k - 1 : s[j].kind = "load" /\ j \in 1 .. m
    BY DEF Under
  <1> QED
    BY <1>1, <1>2 DEF Under

LEMMA PointsSame ==
  ASSUME NEW p, NEW c, NEW f, NEW g, SameFrame(f, g), NEW n
  PROVE  /\ OpenFrame(p, c, f) => OpenFrame(p, c, g)
         /\ LoadPoint(p, c, f, n) => LoadPoint(p, c, g, n)
         /\ DonePoint(p, c, f, n) => DonePoint(p, c, g, n)
  <1>1. f.kind = g.kind /\ f.node = g.node /\ f.order = g.order /\ f.items = g.items
    BY DEF SameFrame
  <1>2. OpenFrame(p, c, f) => OpenFrame(p, c, g)
    BY <1>1 DEF OpenFrame
  <1>3. LoadPoint(p, c, f, n) => LoadPoint(p, c, g, n)
    BY <1>1 DEF LoadPoint
  <1>4. DonePoint(p, c, f, n) => DonePoint(p, c, g, n)
    BY <1>1 DEF DonePoint
  <1> QED
    BY <1>2, <1>3, <1>4

LEMMA ComesSame ==
  ASSUME NEW p, NEW c, NEW s, NEW t, NEW k \in Nat, NEW m \in Nat, k - 1 <= m, SameUpTo(s, t, m), NEW n
  PROVE  /\ Comes(p, c, s, k, n) => Comes(p, c, t, k, n)
         /\ Loads(p, c, s, k, n) => Loads(p, c, t, k, n)
  <1>1. ASSUME NEW i, Under(s, k, i) PROVE Under(t, k, i) /\ i \in 1 .. k - 1 /\ SameFrame(s[i], t[i])
    <2>1. Under(t, k, i) /\ i \in 1 .. m
      BY <1>1, UnderSame
    <2> QED
      BY <1>1, <2>1 DEF Under, SameUpTo
  <1>2. ASSUME Comes(p, c, s, k, n) PROVE Comes(p, c, t, k, n)
    <2>1. PICK i \in 1 .. k - 1 : Under(s, k, i) /\ DonePoint(p, c, s[i], n)
      BY <1>2 DEF Comes
    <2>2. Under(t, k, i) /\ SameFrame(s[i], t[i])
      BY <1>1, <2>1
    <2>3. DonePoint(p, c, t[i], n)
      BY <2>1, <2>2, PointsSame
    <2> QED
      BY <2>2, <2>3 DEF Comes
  <1>3. ASSUME Loads(p, c, s, k, n) PROVE Loads(p, c, t, k, n)
    <2>1. PICK i \in 1 .. k - 1 : Under(s, k, i) /\ LoadPoint(p, c, s[i], n)
      BY <1>3 DEF Loads
    <2>2. Under(t, k, i) /\ SameFrame(s[i], t[i])
      BY <1>1, <2>1
    <2>3. LoadPoint(p, c, t[i], n)
      BY <2>1, <2>2, PointsSame
    <2> QED
      BY <2>2, <2>3 DEF Loads
  <1> QED
    BY <1>2, <1>3

LEMMA FrameSame ==
  ASSUME NEW p, NEW c, NEW s, NEW t, NEW k \in Nat \ {0}, SameUpTo(s, t, k), FrameAt(p, c, s, k)
  PROVE  FrameAt(p, c, t, k)
  <1>1. \A j \in 1 .. k : /\ s[j].kind = t[j].kind /\ s[j].node = t[j].node
                          /\ s[j].items = t[j].items /\ SameFrame(s[j], t[j])
    BY DEF SameUpTo, SameFrame
  <1>2. k \in 1 .. k /\ k - 1 <= k /\ \A i \in 1 .. k - 1 : i \in 1 .. k
    OBVIOUS
  <1>3. IsFrame(t[k]) /\ \A C : s[k].todo \in Seq(C) => t[k].todo \in Seq(C)
    BY <1>1, <1>2 DEF SameFrame
  <1>4. CASE s[k].kind = "stop" /\ StopAt(p, c, s, k)
    <2>1. OpenFrame(p, c, t[k])
      BY <1>1, <1>2, <1>4, PointsSame DEF StopAt
    <2>2. (k = 1 /\ t[k].node = Start) \/ Comes(p, c, t, k, t[k].node)
      <3>1. CASE k = 1 /\ s[k].node = Start
        BY <1>1, <1>2, <3>1
      <3>2. CASE Comes(p, c, s, k, s[k].node)
        <4>1. Comes(p, c, t, k, s[k].node)
          BY <1>2, <3>2, ComesSame
        <4> QED
          BY <1>1, <1>2, <4>1
      <3> QED
        BY <1>4, <3>1, <3>2 DEF StopAt
    <2>3. \A i \in 1 .. k - 1 : t[i].kind = "stop" => t[i].node.stop < t[k].node.stop
      BY <1>1, <1>2, <1>4 DEF StopAt
    <2>4. \A u \in 1 .. t[k].node.stop : \E i \in 1 .. k : t[i].kind = "stop" /\ t[i].node.stop = u
      BY <1>1, <1>2, <1>4 DEF StopAt
    <2>5. t[k].kind = "stop"
      BY <1>1, <1>2, <1>4
    <2> QED
      BY <1>3, <2>1, <2>2, <2>3, <2>4, <2>5 DEF FrameAt, StopAt
  <1>5. CASE s[k].kind = "load" /\ LoadAt(p, c, s, k)
    <2>1. PICK i \in 1 .. k - 1 :
            Under(s, k, i) /\ LoadPoint(p, c, s[i], s[k].node) /\ Placing(p, s[i], s[k])
      BY <1>5 DEF LoadAt
    <2>2. Under(t, k, i)
      BY <1>2, <2>1, UnderSame
    <2>3. LoadPoint(p, c, t[i], t[k].node)
      BY <1>1, <1>2, <2>1, PointsSame
    <2>4. Placing(p, t[i], t[k])
      BY <1>1, <1>2, <1>3, <2>1 DEF Placing
    <2>5. t[k].kind = "load"
      BY <1>1, <1>2, <1>5
    <2> QED
      BY <1>3, <2>2, <2>3, <2>4, <2>5 DEF FrameAt, LoadAt
  <1> QED
    BY <1>4, <1>5 DEF FrameAt

LEMMA FramesAreSame ==
  ASSUME NEW p, NEW c, NEW s, StackInv(p, c, s), NEW t, NEW m \in Nat, m <= Len(s),
         \A j \in 1 .. m : SameFrame(s[j], t[j])
  PROVE  \A k \in 1 .. m : FrameAt(p, c, t, k)
  <1> SUFFICES ASSUME NEW k \in 1 .. m PROVE FrameAt(p, c, t, k)
    OBVIOUS
  <1>1. SameUpTo(s, t, k)
    BY DEF SameUpTo
  <1>2. FrameAt(p, c, s, k)
    BY DEF StackInv, IsSeq
  <1>3. k \in Nat \ {0}
    OBVIOUS
  <1> QED
    BY <1>1, <1>2, <1>3, FrameSame

LEMMA SameIsSame ==
  ASSUME NEW p, NEW c, NEW s, StackInv(p, c, s), NEW k \in 1 .. Len(s), NEW f, f = s[k]
  PROVE  SameFrame(s[k], f)
  BY DEF StackInv, FrameAt, SameFrame

LEMMA Pushing ==
  ASSUME NEW p, NEW c, NEW s, StackInv(p, c, s), NEW e, FrameAt(p, c, Append(s, e), Len(s) + 1)
  PROVE  StackInv(p, c, Append(s, e))
  <1> DEFINE t == Append(s, e)
  <1>1. IsSeq(s) /\ Len(s) \in Nat
    BY DEF StackInv, IsSeq
  <1>2. IsSeq(t) /\ Len(t) = Len(s) + 1 /\ \A k \in 1 .. Len(s) : t[k] = s[k]
    BY <1>1, Appended
  <1> HIDE DEF t
  <1>3. \A k \in 1 .. Len(s) : SameFrame(s[k], t[k])
    BY <1>2, SameIsSame
  <1>4. \A k \in 1 .. Len(s) : FrameAt(p, c, t, k)
    BY <1>1, <1>3, FramesAreSame
  <1>5. FrameAt(p, c, t, Len(s) + 1)
    BY DEF t
  <1>6. \A k \in 1 .. Len(t) : FrameAt(p, c, t, k)
    BY <1>1, <1>2, <1>4, <1>5
  <1>7. StackInv(p, c, t)
    BY <1>2, <1>6 DEF StackInv
  <1> QED
    BY <1>7 DEF t

LEMMA Popping ==
  ASSUME NEW p, NEW c, NEW s, StackInv(p, c, s), s # <<>>
  PROVE  StackInv(p, c, Front(s))
  <1> DEFINE t == Front(s)
  <1>1. IsSeq(s) /\ Len(s) \in Nat
    BY DEF StackInv, IsSeq
  <1>2. IsSeq(t) /\ Len(s) >= 1 /\ Len(t) = Len(s) - 1 /\ \A k \in 1 .. Len(t) : t[k] = s[k]
    BY <1>1, WithoutLast
  <1> HIDE DEF t
  <1>3. \A k \in 1 .. Len(t) : SameFrame(s[k], t[k])
    BY <1>1, <1>2, SameIsSame
  <1>4. Len(t) \in Nat /\ Len(t) <= Len(s)
    BY <1>1, <1>2
  <1>5. \A k \in 1 .. Len(t) : FrameAt(p, c, t, k)
    BY <1>3, <1>4, FramesAreSame
  <1>6. StackInv(p, c, t)
    BY <1>2, <1>5 DEF StackInv
  <1> QED
    BY <1>6 DEF t

LEMMA Replacing ==
  ASSUME NEW p, NEW c, NEW s, StackInv(p, c, s), NEW k \in 1 .. Len(s), NEW e, SameFrame(s[k], e)
  PROVE  LET t == [s EXCEPT ![k] = e] IN
         StackInv(p, c, t) /\ Len(t) = Len(s) /\ SameUpTo(s, t, Len(s))
  <1> DEFINE t == [s EXCEPT ![k] = e]
  <1>1. IsSeq(s) /\ Len(s) \in Nat
    BY DEF StackInv, IsSeq
  <1>2. IsSeq(t) /\ Len(t) = Len(s) /\ t[k] = e /\ \A j \in 1 .. Len(s) : j # k => t[j] = s[j]
    BY <1>1, Replaced
  <1> HIDE DEF t
  <1>3. \A j \in 1 .. Len(s) : SameFrame(s[j], t[j])
    BY <1>2, SameIsSame
  <1>4. \A j \in 1 .. Len(s) : FrameAt(p, c, t, j)
    <2>1. Len(s) \in Nat /\ Len(s) <= Len(s)
      BY <1>1
    <2> QED
      BY <1>3, <2>1, FramesAreSame
  <1>5. StackInv(p, c, t) /\ SameUpTo(s, t, Len(s))
    BY <1>2, <1>3, <1>4 DEF StackInv, SameUpTo
  <1> QED
    BY <1>2, <1>5 DEF t

-----------------------------------------------------------------------------
(* The operators of the search, said of the plan and of the cycle.          *)
LEMMA CarriedIsWeight ==
  ASSUME NEW ids \in SUBSET Goods
  PROVE  Carried(plan, ids) = Weight(ids)
  <1>1. Weight(ids) = Total(Weights, ids)
    BY WeightIsTotal
  <1>2. Weights = [id \in DOMAIN plan.item |-> plan.item[id].weight]
    BY DEF Weights, Goods, Item
  <1> QED
    BY <1>1, <1>2 DEF Carried

LEMMA CyclesOfThePlan ==
  ASSUME plan \in Plans, NEW d, NEW k \in 1 .. Len(CyclesOf(plan.stops)), NEW rest,
         CyclesFrom(plan, rest, d, k)
  PROVE  LET cycle == Head(rest) IN
         /\ Len(rest) \in Nat /\ Len(rest) >= 1 /\ IsSeq(rest)
         /\ d \in Nat /\ Len(cycle) \in Nat /\ \A j \in 1 .. Len(cycle) : IsStop(cycle[j])
         /\ d + Len(cycle) = EndOf(plan.stops, k) /\ d + Len(cycle) <= Len(plan.stops)
         /\ \A j \in 1 .. Len(cycle) : cycle[j] = plan.stops[d + j]
  <1> DEFINE stops == plan.stops
             G == [load : Seq(Goods), unload : Seq(Goods)]
             m == Cardinality(Cuts(stops))
             all == CyclesOf(stops)
             cycle == Head(rest)
             to == EndOf(stops, k)
  <1>1. stops \in Seq(G) /\ Len(stops) \in Nat
    BY PlanIsWellFormed
  <1> HIDE DEF G
  <1>2. /\ m \in Nat \ {0} /\ Len(all) = m
        /\ \A c \in 1 .. m :
              /\ EndOf(stops, c - 1) \in Nat /\ EndOf(stops, c) \in EndOf(stops, c - 1) .. Len(stops)
              /\ all[c] \in Seq(G) /\ Len(all[c]) = EndOf(stops, c) - EndOf(stops, c - 1)
              /\ \A j \in 1 .. Len(all[c]) : all[c][j] = stops[EndOf(stops, c - 1) + j]
    BY <1>1, CyclesAreParts
  <1> HIDE DEF stops, m, all, to
  <1>3. k \in 1 .. m
    BY <1>2 DEF all, stops
  <1>4. IsSeq(rest) /\ Len(rest) = m - k + 1 /\ (\A j \in 1 .. Len(rest) : rest[j] = all[k + j - 1])
        /\ d = EndOf(stops, k - 1)
    BY <1>2 DEF CyclesFrom, all, stops
  <1>5. Len(rest) \in Nat /\ Len(rest) >= 1
    <2>1. m \in Int /\ k \in Int /\ 1 <= k /\ k <= m
      BY <1>2, <1>3
    <2>2. Len(rest) = m - k + 1
      BY <1>4
    <2> QED
      BY <2>1, <2>2
  <1>6. rest # <<>>
    BY <1>5, EmptyIsSeq
  <1>7. cycle = rest[1]
    BY <1>4, <1>6, WithoutFirst
  <1>8. 1 \in 1 .. Len(rest) /\ k + 1 - 1 = k
    BY <1>3, <1>5
  <1>9. cycle = all[k]
    BY <1>4, <1>7, <1>8
  <1> HIDE DEF cycle
  <1>10. /\ d \in Nat /\ to \in d .. Len(stops)
         /\ cycle \in Seq(G) /\ Len(cycle) = to - d
         /\ \A j \in 1 .. Len(cycle) : cycle[j] = stops[d + j]
    BY <1>2, <1>3, <1>4, <1>9 DEF to
  <1>11. Len(cycle) \in Nat /\ d + Len(cycle) = to /\ to <= Len(stops)
    BY <1>1, <1>10
  <1>12. ASSUME NEW j \in 1 .. Len(cycle) PROVE IsStop(cycle[j])
    <2>1. cycle[j] \in G
      BY <1>10
    <2> QED
      BY <2>1 DEF G, IsStop
  <1> QED
    BY <1>4, <1>5, <1>10, <1>11, <1>12 DEF cycle, to, stops

LEMMA StopsAreStops ==
  ASSUME LayoutInv, at # "valid"
  PROVE  Len(Stops) \in Nat /\ \A k \in 1 .. Len(Stops) : IsStop(Stops[k])
  <1>1. plan \in Plans
    BY DEF LayoutInv, CycleInv
  <1>2. PICK k \in 1 .. Len(CyclesOf(plan.stops)) : CyclesFrom(plan, cycles, Len(steps), k)
    BY DEF LayoutInv, CycleInv
  <1> QED
    BY <1>1, <1>2, CyclesOfThePlan DEF Stops

LEMMA NobodyOnFloor == OnFloor(plan, {})
  <1>1. IsFiniteSet({})
    BY FS_EmptySet
  <1> QED
    BY <1>1 DEF OnFloor, Onboard, AreBoxes, Ids

LEMMA OpenBelow ==
  ASSUME NEW p, NEW c, NEW s, StackInv(p, c, s), NEW i, Under(s, Len(s) + 1, i)
  PROVE  /\ Len(s) \in Nat /\ i \in 1 .. Len(s) /\ s[i].kind = "stop" /\ StopAt(p, c, s, i)
         /\ OpenFrame(p, c, s[i]) /\ IsFrame(s[i])
         /\ \A j \in 1 .. Len(s) : j > i => s[j].kind = "load"
  <1>1. Len(s) \in Nat /\ Len(s) + 1 - 1 = Len(s)
    BY DEF StackInv, IsSeq
  <1>2. i \in 1 .. Len(s) /\ s[i].kind = "stop" /\ \A j \in i + 1 .. Len(s) : s[j].kind = "load"
    BY <1>1 DEF Under
  <1>3. FrameAt(p, c, s, i)
    BY <1>2 DEF StackInv
  <1>4. StopAt(p, c, s, i) /\ IsFrame(s[i])
    BY <1>2, <1>3 DEF FrameAt
  <1> QED
    BY <1>1, <1>2, <1>4 DEF StopAt

LEMMA NoFrames ==
  ASSUME NEW p, NEW c
  PROVE  StackInv(p, c, <<>>)
  BY EmptyIsSeq DEF StackInv

LEMMA CyclesAreKept ==
  ASSUME LayoutInv, at # "valid", at' \in {"stop", "load", "try", "rejected", "limit"},
         UNCHANGED <<plan, cycles, steps>>,
         StackInv(plan, Stops, stack'), NodeInv(plan, Stops, stack', at', node')
  PROVE  LayoutInv'
  <1>1. plan' = plan /\ cycles' = cycles /\ steps' = steps /\ Stops' = Stops
    BY DEF Stops
  <1>2. CycleInv(plan, cycles, at', steps)
    BY DEF LayoutInv, CycleInv
  <1> QED
    BY <1>1, <1>2 DEF LayoutInv

-----------------------------------------------------------------------------
(* The steps of the search.                                                 *)
LEMMA Backtracks ==
  ASSUME LayoutInv, EnterKnown \/ EnterRefused
  PROVE  LayoutInv'
  <1>1. /\ at = "stop" /\ at' = "try" /\ stack' = stack
        /\ UNCHANGED <<plan, cycles, steps>>
    BY DEF EnterKnown, EnterRefused, Backtrack
  <1>2. StackInv(plan, Stops, stack') /\ NodeInv(plan, Stops, stack', at', node')
    BY <1>1 DEF LayoutInv, NodeInv
  <1> QED
    BY <1>1, <1>2, CyclesAreKept

LEMMA GivesUp ==
  ASSUME LayoutInv, GiveUp \/ Rejected
  PROVE  LayoutInv'
  <1>1. /\ at # "valid" /\ at' \in {"limit", "rejected"} /\ stack' = <<>>
        /\ UNCHANGED <<plan, cycles, steps>>
    BY DEF GiveUp, Rejected
  <1>2. StackInv(plan, Stops, stack')
    BY <1>1, NoFrames
  <1>3. NodeInv(plan, Stops, stack', at', node')
    BY <1>1 DEF NodeInv
  <1> QED
    BY <1>1, <1>2, <1>3, CyclesAreKept

LEMMA Pops ==
  ASSUME LayoutInv, PlacesDone \/ StopDone
  PROVE  LayoutInv'
  <1>1. /\ at = "try" /\ at' = "try" /\ stack # <<>> /\ stack' = Front(stack)
        /\ UNCHANGED <<plan, cycles, steps>>
    BY DEF PlacesDone, StopDone, Below
  <1>2. StackInv(plan, Stops, stack')
    BY <1>1, Popping DEF LayoutInv
  <1>3. NodeInv(plan, Stops, stack', at', node')
    BY <1>1 DEF NodeInv
  <1> QED
    BY <1>1, <1>2, <1>3, CyclesAreKept

(* Where a stop starts.                                                     *)
LEMMA StopStarts ==
  ASSUME LayoutInv, at = "stop"
  PROVE  node.stop \in Nat /\ node.stop >= 1 /\ OnFloor(plan, node.boxes)
  <1>1. StackInv(plan, Stops, stack)
    BY DEF LayoutInv
  <1>2. CASE stack = <<>> /\ node = Start
    BY <1>2, NobodyOnFloor DEF Start, Node
  <1>3. CASE Comes(plan, Stops, stack, Len(stack) + 1, node)
    <2>1. PICK i : Under(stack, Len(stack) + 1, i) /\ DonePoint(plan, Stops, stack[i], node)
      BY <1>3 DEF Comes
    <2>2. OpenFrame(plan, Stops, stack[i]) /\ Len(Stops) \in Nat
      BY <1>1, <2>1, OpenBelow, StopsAreStops
    <2>3. stack[i].node.stop \in Nat
      BY <2>2 DEF OpenFrame
    <2> QED
      BY <2>1, <2>3 DEF DonePoint
  <1> QED
    BY <1>2, <1>3 DEF LayoutInv, NodeInv

LEMMA StopOpens ==
  ASSUME LayoutInv, at = "stop", node.stop <= Len(Stops), StopAccepted,
         NEW e, e = [kind |-> "stop", node |-> node, order |-> Order,
                     items |-> LoadOrder(Stop.load), seen |-> {}, todo |-> <<>>]
  PROVE  /\ OpenFrame(plan, Stops, e) /\ IsFrame(e)
         /\ Kept = Staying(node.boxes, Stops[node.stop])
         /\ OnFloor(plan, Kept)
         /\ LoadOrder(Stop.load) = <<>> => Carried(plan, Ids(Kept)) <= Payload
  <1>1. plan \in Plans /\ Len(Stops) \in Nat
    BY StopsAreStops DEF LayoutInv, CycleInv
  <1>2. node.stop \in 1 .. Len(Stops) /\ OnFloor(plan, node.boxes)
    BY <1>1, StopStarts
  <1>3. IsStop(Stop) /\ Stop = Stops[node.stop]
    BY <1>2, StopsAreStops DEF Stop
  <1>4. Kept = Staying(node.boxes, Stops[node.stop])
    BY <1>3 DEF Kept, Staying
  <1>5. Kept \in SUBSET node.boxes
    BY DEF Kept
  <1>6. Onboard(node.boxes) /\ Onboard(Kept)
    BY <1>2, <1>5, FewerOnboard DEF OnFloor
  <1>7. Ids(Kept) \subseteq Ids(node.boxes) /\ Ids(node.boxes) \subseteq Goods
    BY <1>2, <1>5 DEF Ids, OnFloor, Goods
  <1>8. OnFloor(plan, Kept)
    BY <1>6, <1>7 DEF OnFloor, Goods
  <1>9. ToSet(Stop.unload) \in SUBSET Ids(node.boxes) /\ Order # NoOrder
    BY DEF StopAccepted, Declared
  <1>10. IsFiniteSet(ToSet(Stop.unload))
    <2>1. IsFiniteSet(Goods)
      BY <1>1, PlanIsWellFormed
    <2>2. ToSet(Stop.unload) \subseteq Goods
      BY <1>7, <1>9
    <2> QED
      BY <2>1, <2>2, FS_Subset
  <1>11. ToSet(Order) = ToSet(Stop.unload) /\ LeaveInOrder(Order, node.boxes)
    BY <1>6, <1>9, <1>10, UnloadOrderLeaves DEF Order
  <1>12. Stop.load \in Seq(Goods)
    BY <1>3 DEF IsStop
  <1>13. /\ LoadOrder(Stop.load) \in Seq(Goods) /\ Len(LoadOrder(Stop.load)) = Len(Stop.load)
         /\ ToSet(LoadOrder(Stop.load)) = ToSet(Stop.load)
    BY <1>1, <1>12, LoadOrderIsAll
  <1>14. ASSUME LoadOrder(Stop.load) = <<>> PROVE Carried(plan, Ids(Kept)) <= Payload
    <2>1. Stop.load = <<>>
      <3>1. Len(Stop.load) = 0
        BY <1>13, <1>14, EmptyIsSeq
      <3> QED
        BY <1>12, <3>1
    <2>2. Weight(Ids(Kept)) + FoldSeq(LAMBDA id, sum : sum + Item(id).weight, 0, Stop.load) <= Payload
      BY DEF StopAccepted
    <2>3. Weight(Ids(Kept)) + FoldSeq(LAMBDA id, sum : sum + Item(id).weight, 0, <<>>) <= Payload
      BY <2>1, <2>2
    <2>4. Weight(Ids(Kept)) \in Int /\ Carried(plan, Ids(Kept)) = Weight(Ids(Kept))
      <3>1. Ids(Kept) \in SUBSET Goods
        BY <1>7
      <3> QED
        BY <1>1, <3>1, WeightIsWhole, CarriedIsWeight
    <2>5. Weight(Ids(Kept)) + 0 <= Payload
      BY <2>3, NothingWeighs
    <2> QED
      BY <2>4, <2>5
  <1>15. e.node = node /\ e.order = Order /\ e.items = LoadOrder(Stop.load) /\ IsFrame(e)
    BY DEF IsFrame
  <1>16. OpenFrame(plan, Stops, e)
    BY <1>2, <1>3, <1>4, <1>9, <1>11, <1>13, <1>14, <1>15 DEF OpenFrame, Goods
  <1> QED
    BY <1>4, <1>8, <1>14, <1>15, <1>16

LEMMA UnderTop ==
  ASSUME NEW t, Len(t) \in Nat, Len(t) >= 1, t[Len(t)].kind = "stop"
  PROVE  Under(t, Len(t) + 1, Len(t)) /\ Len(t) \in 1 .. Len(t) + 1 - 1
  <1>1. Len(t) + 1 - 1 = Len(t) /\ Len(t) \in 1 .. Len(t)
    OBVIOUS
  <1>2. \A j \in Len(t) + 1 .. Len(t) + 1 - 1 : FALSE
    OBVIOUS
  <1> QED
    BY <1>1, <1>2 DEF Under

(* The stop that is entered comes after those of the stack.                 *)
LEMMA StopIsNext ==
  ASSUME NEW p, NEW c, NEW s, StackInv(p, c, s), NEW n,
         (s = <<>> /\ n = Start) \/ Comes(p, c, s, Len(s) + 1, n),
         NEW e, IsFrame(e), e.kind = "stop", e.node = n, OpenFrame(p, c, e)
  PROVE  StackInv(p, c, Append(s, e))
  <1> DEFINE t == Append(s, e)
             k == Len(s) + 1
  <1>1. IsSeq(s) /\ Len(s) \in Nat
    BY DEF StackInv, IsSeq
  <1>2. IsSeq(t) /\ Len(t) = k /\ t[k] = e /\ \A j \in 1 .. Len(s) : t[j] = s[j]
    BY <1>1, Appended
  <1>3. k \in Nat /\ k - 1 = Len(s) /\ k - 1 <= Len(s) /\ k >= 1
    BY <1>1
  <1> HIDE DEF t, k
  <1>4. SameUpTo(s, t, Len(s))
    BY <1>2, SameIsSame DEF SameUpTo
  <1>5. ASSUME s = <<>>, n = Start PROVE StopAt(p, c, t, k)
    <2>1. k = 1
      BY <1>5, EmptyIsSeq DEF k
    <2>2. e.node.stop = 1
      BY <1>5 DEF Start, Node
    <2>3. 1 \in 1 .. 1 /\ \A u \in 1 .. 1 : u = 1
      OBVIOUS
    <2>4. \A u \in 1 .. t[k].node.stop : \E i \in 1 .. k : t[i].kind = "stop" /\ t[i].node.stop = u
      BY <1>2, <2>1, <2>2, <2>3
    <2>5. \A i \in 1 .. k - 1 : FALSE
      BY <2>1
    <2> QED
      BY <1>2, <1>5, <2>1, <2>4, <2>5 DEF StopAt
  <1>6. ASSUME Comes(p, c, s, Len(s) + 1, n) PROVE StopAt(p, c, t, k)
    <2>1. Comes(p, c, t, k, t[k].node)
      <3>1. Comes(p, c, t, Len(s) + 1, n)
        BY <1>1, <1>3, <1>4, <1>6, ComesSame DEF k
      <3> QED
        BY <1>2, <3>1 DEF k
    <2>2. PICK i : Under(s, Len(s) + 1, i) /\ DonePoint(p, c, s[i], n)
      BY <1>6 DEF Comes
    <2>3. /\ i \in 1 .. Len(s) /\ s[i].kind = "stop" /\ StopAt(p, c, s, i)
          /\ OpenFrame(p, c, s[i]) /\ \A j \in 1 .. Len(s) : j > i => s[j].kind = "load"
      BY <2>2, OpenBelow
    <2> DEFINE m == s[i].node.stop
    <2>4. m \in Int /\ m >= 1 /\ n.stop = m + 1
      BY <2>2, <2>3 DEF OpenFrame, DonePoint
    <2>5. /\ \A j \in 1 .. i - 1 : s[j].kind = "stop" => s[j].node.stop < m
          /\ \A u \in 1 .. m : \E j \in 1 .. i : s[j].kind = "stop" /\ s[j].node.stop = u
      BY <2>3 DEF StopAt
    <2> HIDE DEF m
    <2>6. ASSUME NEW j \in 1 .. Len(s), s[j].kind = "stop", s[j].node.stop \in Int
          PROVE  s[j].node.stop < n.stop
      <3>1. CASE j < i
        <4>1. j \in 1 .. i - 1
          BY <2>3, <3>1
        <4>2. s[j].node.stop < m
          BY <2>5, <2>6, <4>1
        <4> QED
          BY <2>4, <2>6, <4>2
      <3>2. CASE j = i
        BY <2>4, <3>2 DEF m
      <3>3. CASE j > i
        BY <2>3, <2>6, <3>3
      <3> QED
        BY <2>3, <3>1, <3>2, <3>3
    <2>7. ASSUME NEW j \in 1 .. k - 1, t[j].kind = "stop" PROVE t[j].node.stop < t[k].node.stop
      <3>1. j \in 1 .. Len(s) /\ t[j] = s[j]
        BY <1>2, <1>3
      <3>2. FrameAt(p, c, s, j)
        BY <3>1 DEF StackInv
      <3>3. OpenFrame(p, c, s[j])
        BY <2>7, <3>1, <3>2 DEF FrameAt, StopAt
      <3>4. s[j].node.stop \in Int
        BY <3>3 DEF OpenFrame
      <3> QED
        BY <1>2, <2>6, <2>7, <3>1, <3>4
    <2>8. ASSUME NEW u \in 1 .. t[k].node.stop
          PROVE  \E j \in 1 .. k : t[j].kind = "stop" /\ t[j].node.stop = u
      <3>1. u \in 1 .. m + 1
        BY <1>2, <2>4
      <3>2. CASE u = m + 1
        <4>1. k \in 1 .. k
          BY <1>3
        <4> QED
          BY <1>2, <2>4, <3>2, <4>1
      <3>3. CASE u # m + 1
        <4>1. u \in 1 .. m
          BY <2>4, <3>1, <3>3
        <4>2. PICK j \in 1 .. i : s[j].kind = "stop" /\ s[j].node.stop = u
          BY <2>5, <4>1
        <4>3. j \in 1 .. Len(s) /\ j \in 1 .. k
          BY <1>1, <1>3, <2>3
        <4> QED
          BY <1>2, <4>2, <4>3
      <3> QED
        BY <3>2, <3>3
    <2> QED
      BY <1>2, <2>1, <2>7, <2>8 DEF StopAt
  <1>7. FrameAt(p, c, t, k)
    BY <1>2, <1>5, <1>6 DEF FrameAt
  <1> QED
    BY <1>7, Pushing DEF t, k

LEMMA EntersStop ==
  ASSUME LayoutInv, EnterStop
  PROVE  LayoutInv'
  <1> DEFINE e == [kind |-> "stop", node |-> node, order |-> Order,
                   items |-> LoadOrder(Stop.load), seen |-> {}, todo |-> <<>>]
             t == Append(stack, e)
             n == Node(node.stop, 1, Kept)
  <1>1. /\ at = "stop" /\ node.stop <= Len(Stops) /\ StopAccepted
        /\ stack' = t /\ at' = "load" /\ node' = n /\ UNCHANGED <<plan, cycles, steps>>
    BY DEF EnterStop
  <1>2. StackInv(plan, Stops, stack)
        /\ ((stack = <<>> /\ node = Start) \/ Comes(plan, Stops, stack, Len(stack) + 1, node))
    BY <1>1 DEF LayoutInv, NodeInv
  <1>3. e.kind = "stop" /\ e.node = node /\ e.items = LoadOrder(Stop.load)
    OBVIOUS
  <1>4. n.stop = node.stop /\ n.index = 1 /\ n.boxes = Kept
    BY DEF Node
  <1>5. /\ OpenFrame(plan, Stops, e) /\ IsFrame(e)
        /\ Kept = Staying(node.boxes, Stops[node.stop])
        /\ OnFloor(plan, Kept)
        /\ LoadOrder(Stop.load) = <<>> => Carried(plan, Ids(Kept)) <= Payload
    BY <1>1, StopOpens
  <1> HIDE DEF e, n
  <1>6. StackInv(plan, Stops, t)
    BY <1>2, <1>3, <1>5, StopIsNext
  <1>7. LoadPoint(plan, Stops, e, n)
    <2> DEFINE kept == Staying(e.node.boxes, Stops[e.node.stop])
    <2>1. kept = Kept /\ n.boxes = kept
      BY <1>3, <1>4, <1>5
    <2>2. n.index = 1 /\ n.index - 1 = 0 /\ 1 .. n.index - 1 = {}
      BY <1>4
    <2>3. Len(e.items) \in Nat
      BY <1>5 DEF OpenFrame
    <2>4. n.index \in 1 .. Len(e.items) + 1
      BY <2>2, <2>3
    <2>5. Ids(n.boxes) = Ids(kept) \cup {e.items[j] : j \in 1 .. n.index - 1}
      BY <2>1, <2>2
    <2>6. CanEnter(n.boxes \ kept, kept)
      <3>1. n.boxes \ kept = {}
        BY <2>1
      <3> QED
        BY <3>1, NobodyEnters
    <2>7. (n.index = 1 /\ e.items # <<>>) \/ Carried(plan, Ids(n.boxes)) <= Payload
      BY <1>3, <1>5, <2>1, <2>2
    <2> QED
      BY <1>3, <1>4, <1>5, <2>1, <2>4, <2>5, <2>6, <2>7 DEF LoadPoint
  <1>8. Len(t) \in Nat /\ Len(t) >= 1 /\ t[Len(t)] = e
    <2>1. IsSeq(stack) /\ Len(stack) \in Nat
      BY <1>2 DEF StackInv, IsSeq
    <2>2. Len(t) = Len(stack) + 1 /\ t[Len(stack) + 1] = e
      BY <2>1, Appended
    <2> QED
      BY <2>1, <2>2
  <1> HIDE DEF t
  <1>9. Loads(plan, Stops, t, Len(t) + 1, n)
    <2>1. Under(t, Len(t) + 1, Len(t)) /\ Len(t) \in 1 .. Len(t) + 1 - 1
      BY <1>3, <1>8, UnderTop
    <2> QED
      BY <1>7, <1>8, <2>1 DEF Loads
  <1>10. NodeInv(plan, Stops, stack', at', node')
    BY <1>1, <1>9 DEF NodeInv
  <1> QED
    BY <1>1, <1>6, <1>10, CyclesAreKept

(* The stop that is at work, when its items are placed.                     *)
LEMMA AtWork ==
  ASSUME LayoutInv, at = "load"
  PROVE  /\ Len(stack) \in Nat /\ plan \in Plans /\ StackInv(plan, Stops, stack)
         /\ StopFrame \in 1 .. Len(stack) /\ Under(stack, Len(stack) + 1, StopFrame)
         /\ LoadPoint(plan, Stops, stack[StopFrame], node)
         /\ OpenFrame(plan, Stops, stack[StopFrame]) /\ IsFrame(stack[StopFrame])
         /\ Items = stack[StopFrame].items
  <1>1. plan \in Plans /\ StackInv(plan, Stops, stack) /\ Loads(plan, Stops, stack, Len(stack) + 1, node)
    BY DEF LayoutInv, CycleInv, NodeInv
  <1>2. PICK i : Under(stack, Len(stack) + 1, i) /\ LoadPoint(plan, Stops, stack[i], node)
    BY <1>1 DEF Loads
  <1>3. Len(stack) \in Nat /\ OpenFrame(plan, Stops, stack[i]) /\ IsFrame(stack[i])
    BY <1>1, <1>2, OpenBelow
  <1>4. StopFrame = i /\ i \in 1 .. Len(stack)
    BY <1>2, <1>3, StopFrameIsUnder
  <1> QED
    BY <1>1, <1>2, <1>3, <1>4 DEF Items

LEMMA EntersLoad ==
  ASSUME LayoutInv, EnterLoad
  PROVE  LayoutInv'
  <1> DEFINE i == StopFrame
             id == Items[node.index]
             e == [kind |-> "load", node |-> node, order |-> <<>>, items |-> <<>>,
                   seen |-> {}, todo |-> Candidates(id, ToSet(Items), node.boxes)]
             t == Append(stack, e)
             k == Len(stack) + 1
  <1>1. /\ at = "load" /\ at' = "try" /\ node.index <= Len(Items)
        /\ UNCHANGED <<plan, cycles, steps>>
        /\ IF ItemRefused(id) THEN UNCHANGED stack ELSE stack' = t
    BY DEF EnterLoad
  <1>2. /\ Len(stack) \in Nat /\ plan \in Plans /\ StackInv(plan, Stops, stack)
        /\ i \in 1 .. Len(stack) /\ Under(stack, Len(stack) + 1, i)
        /\ LoadPoint(plan, Stops, stack[i], node)
        /\ OpenFrame(plan, Stops, stack[i]) /\ Items = stack[i].items
    BY <1>1, AtWork
  <1>3. /\ e.kind = "load" /\ e.node = node /\ IsFrame(e)
        /\ e.todo = Candidates(id, ToSet(Items), node.boxes)
    BY DEF IsFrame
  <1> HIDE DEF e, i
  <1>4. node.index \in 1 .. Len(Items) /\ id \in Goods /\ OnFloor(plan, node.boxes)
    <2>1. Items \in Seq(Goods)
      BY <1>2 DEF OpenFrame, Goods
    <2>2. node.index \in 1 .. Len(Items) + 1 /\ OnFloor(plan, node.boxes)
      BY <1>2 DEF LoadPoint
    <2>3. node.index \in 1 .. Len(Items)
      BY <1>1, <2>1, <2>2
    <2>4. Items[node.index] \in Goods
      BY <2>1, <2>3
    <2> QED
      BY <2>2, <2>3, <2>4
  <1>5. ASSUME ~ ItemRefused(id) PROVE StackInv(plan, Stops, t)
    <2>1. Placing(plan, stack[i], e)
      <3>1. id = stack[i].items[e.node.index] /\ e.node.index <= Len(stack[i].items)
        BY <1>1, <1>2, <1>3
      <3>2. id \notin Ids(node.boxes) /\ ~ (Weight(Ids(node.boxes)) + Item(id).weight > Payload)
        BY <1>5 DEF ItemRefused
      <3>3. Carried(plan, Ids(node.boxes)) = Weight(Ids(node.boxes))
            /\ Weight(Ids(node.boxes)) + Item(id).weight \in Int
        <4>1. Ids(node.boxes) \in SUBSET Goods
          BY <1>4 DEF OnFloor, Goods
        <4>2. Weight(Ids(node.boxes)) \in Int
          BY <1>2, <4>1, WeightIsWhole
        <4>3. Item(id).weight \in Int
          BY <1>2, <1>4, PlanIsWellFormed DEF IsItem, PositiveInt
        <4> QED
          BY <4>1, <4>2, <4>3, CarriedIsWeight
      <3>4. Carried(plan, Ids(node.boxes)) + Item(id).weight <= Payload
        BY <3>2, <3>3, PayloadAssumption DEF PositiveInt
      <3>5. Candidates(id, ToSet(Items), node.boxes) \in Seq(Corners(Shape(id), node.boxes))
        <4>1. AreBoxes(node.boxes)
          BY <1>4 DEF OnFloor, Onboard
        <4> QED
          BY <1>2, <1>4, <4>1, CandidatesAreCorners
      <3>6. Shape(id) = ShapeIn(plan, id) /\ Item(id) = plan.item[id]
        BY DEF Shape, ShapeIn, Item
      <3> HIDE DEF id
      <3> QED
        BY <1>3, <3>1, <3>2, <3>4, <3>5, <3>6 DEF Placing
    <2>2. IsSeq(stack)
      BY <1>2 DEF StackInv
    <2>3. t[k] = e /\ \A j \in 1 .. Len(stack) : t[j] = stack[j]
      BY <2>2, Appended
    <2>4. k \in Nat /\ k - 1 = Len(stack) /\ k - 1 <= Len(stack)
      BY <1>2
    <2> HIDE DEF t, id
    <2>5. SameUpTo(stack, t, Len(stack))
      BY <1>2, <2>3, SameIsSame DEF SameUpTo
    <2>6. Under(t, k, i)
      BY <1>2, <2>4, <2>5, UnderSame
    <2>7. t[i] = stack[i] /\ i \in 1 .. k - 1
      BY <1>2, <2>3, <2>4
    <2> HIDE DEF k
    <2>8. LoadAt(plan, Stops, t, k)
      BY <1>2, <1>3, <2>1, <2>3, <2>6, <2>7 DEF LoadAt
    <2>9. FrameAt(plan, Stops, t, k)
      BY <1>3, <2>3, <2>8 DEF FrameAt
    <2> QED
      BY <1>2, <2>9, Pushing DEF t, k
  <1>6. StackInv(plan, Stops, stack')
    BY <1>1, <1>2, <1>5
  <1>7. NodeInv(plan, Stops, stack', at', node')
    BY <1>1 DEF NodeInv
  <1> QED
    BY <1>1, <1>6, <1>7, CyclesAreKept

(* What one more box makes of a point of the loading.                       *)
LEMMA OneMorePlaced ==
  ASSUME plan \in Plans, NEW f, NEW g, OpenFrame(plan, Stops, f),
         LoadPoint(plan, Stops, f, g.node), Placing(plan, f, g),
         NEW b \in Corners(Shape(f.items[g.node.index]), g.node.boxes), PathClear(b, g.node.boxes)
  PROVE  LoadPoint(plan, Stops, f,
                   Node(g.node.stop, g.node.index + 1, g.node.boxes \cup {b}))
  <1> DEFINE n == g.node
             boxes == g.node.boxes
             k == g.node.index
             id == f.items[k]
             more == boxes \cup {b}
             m == Node(n.stop, k + 1, more)
             kept == Staying(f.node.boxes, Stops[f.node.stop])
  <1>1. /\ f.items \in Seq(Goods)
        /\ k \in 1 .. Len(f.items) + 1 /\ k <= Len(f.items)
        /\ n.stop = f.node.stop /\ OnFloor(plan, boxes) /\ kept \subseteq boxes
        /\ Ids(boxes) = Ids(kept) \cup {f.items[j] : j \in 1 .. k - 1}
        /\ CanEnter(boxes \ kept, kept)
        /\ id \notin Ids(boxes) /\ Carried(plan, Ids(boxes)) + plan.item[id].weight <= Payload
    BY DEF OpenFrame, LoadPoint, Placing, Goods
  <1>2. m.stop = n.stop /\ m.index = k + 1 /\ m.boxes = more
    BY DEF Node
  <1> HIDE DEF m, id
  <1>3. k \in 1 .. Len(f.items) /\ id \in Goods
    <2>1. k \in 1 .. Len(f.items)
      BY <1>1
    <2> QED
      BY <1>1, <2>1 DEF id
  <1>4. b \in Corners(Shape(id), boxes)
    BY DEF id
  <1> HIDE DEF k, n, boxes, kept
  <1>5. Onboard(boxes) /\ AreBoxes(boxes) /\ Ids(boxes) \subseteq Goods
    BY <1>1 DEF OnFloor, Onboard, Goods
  <1>6. IsBox(b) /\ b.id = id /\ Inside(b) /\ Clear(b, boxes)
    BY <1>3, <1>4, <1>5, CornersFit
  <1>7. Onboard(more) /\ Ids(more) = Ids(boxes) \cup {id} /\ b \notin boxes
    <2>1. id \in Int
      BY <1>3, PlanIsWellFormed DEF PositiveInt
    <2> QED
      BY <1>1, <1>5, <1>6, <2>1, OneMoreOnboard
  <1>8. OnFloor(plan, more)
    BY <1>3, <1>5, <1>7 DEF OnFloor, Goods
  <1>9. Ids(more) = Ids(kept) \cup {f.items[j] : j \in 1 .. k + 1 - 1}
    <2>1. 1 .. k + 1 - 1 = (1 .. k - 1) \cup {k}
      BY <1>3
    <2>2. {f.items[j] : j \in 1 .. k + 1 - 1} = {f.items[j] : j \in 1 .. k - 1} \cup {id}
      BY <2>1 DEF id
    <2> QED
      BY <1>1, <1>7, <2>2
  <1>10. CanEnter(more \ kept, kept)
    <2>1. more \ kept = (boxes \ kept) \cup {b} /\ b \notin boxes \ kept /\ kept \cup (boxes \ kept) = boxes
      BY <1>1, <1>7
    <2>2. IsFiniteSet(boxes \ kept)
      <3>1. IsFiniteSet(boxes) /\ boxes \ kept \subseteq boxes
        BY <1>5 DEF AreBoxes
      <3> QED
        BY <3>1, FS_Subset
    <2>3. CanLeave(b, boxes)
      BY <1>5, <1>6, ClearPathLeaves DEF boxes
    <2> HIDE DEF more
    <2>4. CanLeave(b, kept \cup (boxes \ kept))
      BY <2>1, <2>3
    <2>5. CanEnter((boxes \ kept) \cup {b}, kept)
      BY <1>1, <2>1, <2>2, <2>4, OneMoreEnters
    <2> QED
      BY <2>1, <2>5
  <1>11. Carried(plan, Ids(more)) <= Payload
    <2>1. Ids(boxes) \in SUBSET Goods /\ Ids(boxes) \cup {id} \in SUBSET Goods
      BY <1>3, <1>5
    <2>2. Weight(Ids(boxes) \cup {id}) = Weight(Ids(boxes)) + Item(id).weight
      BY <1>1, <1>3, <2>1, OneMoreWeighs
    <2>3. Carried(plan, Ids(boxes)) = Weight(Ids(boxes))
          /\ Carried(plan, Ids(more)) = Weight(Ids(boxes) \cup {id})
      BY <1>7, <2>1, CarriedIsWeight
    <2> QED
      BY <1>1, <2>2, <2>3 DEF Item
  <1>12. k + 1 \in 1 .. Len(f.items) + 1
    <2>1. Len(f.items) \in Nat
      BY <1>1
    <2> QED
      BY <1>3, <2>1
  <1>13. kept \subseteq more
    BY <1>1
  <1> HIDE DEF more
  <1>14. LoadPoint(plan, Stops, f, m)
    BY <1>1, <1>2, <1>8, <1>9, <1>10, <1>11, <1>12, <1>13 DEF LoadPoint, kept
  <1> QED
    BY <1>14 DEF m, n, k, boxes, more

(* A frame with a place less to try, or a layout more that is seen.         *)
LEMMA OneLessToTry ==
  ASSUME NEW f, IsFrame(f), f.todo # <<>>
  PROVE  /\ SameFrame(f, [f EXCEPT !.todo = Tail(@)])
         /\ \A C : f.todo \in Seq(C) => Head(f.todo) \in C
  <1> DEFINE g == [f EXCEPT !.todo = Tail(@)]
             h == [kind |-> f.kind, node |-> f.node, order |-> f.order, items |-> f.items,
                   seen |-> f.seen, todo |-> Tail(f.todo)]
  <1>1. f = [kind |-> f.kind, node |-> f.node, order |-> f.order, items |-> f.items,
             seen |-> f.seen, todo |-> f.todo]
    BY DEF IsFrame
  <1>2. g = h
    BY <1>1
  <1>3. /\ h.kind = f.kind /\ h.node = f.node /\ h.order = f.order /\ h.items = f.items
        /\ h.todo = Tail(f.todo) /\ IsFrame(h)
    BY DEF IsFrame
  <1> HIDE DEF g, h
  <1>4. ASSUME NEW C, f.todo \in Seq(C) PROVE Tail(f.todo) \in Seq(C) /\ Head(f.todo) \in C
    BY <1>4
  <1>5. SameFrame(f, h)
    BY <1>3, <1>4 DEF SameFrame
  <1> QED
    BY <1>2, <1>4, <1>5 DEF g

LEMMA OneMoreSeen ==
  ASSUME NEW f, IsFrame(f), NEW layout
  PROVE  SameFrame(f, [f EXCEPT !.seen = @ \cup {layout}])
  <1> DEFINE g == [f EXCEPT !.seen = @ \cup {layout}]
             h == [kind |-> f.kind, node |-> f.node, order |-> f.order, items |-> f.items,
                   seen |-> f.seen \cup {layout}, todo |-> f.todo]
  <1>1. f = [kind |-> f.kind, node |-> f.node, order |-> f.order, items |-> f.items,
             seen |-> f.seen, todo |-> f.todo]
    BY DEF IsFrame
  <1>2. g = h
    BY <1>1
  <1>3. /\ h.kind = f.kind /\ h.node = f.node /\ h.order = f.order /\ h.items = f.items
        /\ h.todo = f.todo /\ IsFrame(h)
    BY DEF IsFrame
  <1> HIDE DEF g, h
  <1>4. SameFrame(f, h)
    BY <1>3 DEF SameFrame
  <1> QED
    BY <1>2, <1>4 DEF g

LEMMA Tries ==
  ASSUME LayoutInv, Try
  PROVE  LayoutInv'
  <1> DEFINE k == Len(stack)
             g == stack[k]
             e == [g EXCEPT !.todo = Tail(@)]
             t == [stack EXCEPT ![k] = e]
             b == Head(g.todo)
             n == g.node
             m == Node(n.stop, n.index + 1, n.boxes \cup {b})
  <1>1. plan \in Plans /\ StackInv(plan, Stops, stack) /\ IsSeq(stack) /\ k \in Nat
    BY DEF LayoutInv, CycleInv, StackInv, IsSeq
  <1>2. stack # <<>>
    BY DEF Try
  <1>3. Top = g /\ k \in 1 .. Len(stack)
    <2>1. Last(stack) = stack[Len(stack)] /\ Len(stack) >= 1
      BY <1>1, <1>2, WithoutLast
    <2> QED
      BY <1>1, <2>1 DEF Top
  <1>4. /\ at = "try" /\ g.kind = "load" /\ g.todo # <<>> /\ stack' = t
        /\ UNCHANGED <<plan, cycles, steps>>
        /\ IF Allowed(b, n.boxes, n.index) THEN at' = "load" /\ node' = m
           ELSE UNCHANGED <<at, node>>
    BY <1>3 DEF Try
  <1>5. IsFrame(g) /\ LoadAt(plan, Stops, stack, k)
    <2>1. FrameAt(plan, Stops, stack, k)
      BY <1>1, <1>3 DEF StackInv
    <2> QED
      BY <1>4, <2>1 DEF FrameAt
  <1>6. SameFrame(g, e) /\ \A C : g.todo \in Seq(C) => b \in C
    BY <1>4, <1>5, OneLessToTry
  <1> HIDE DEF e, m
  <1>7. StackInv(plan, Stops, t) /\ Len(t) = k /\ SameUpTo(stack, t, k)
    BY <1>1, <1>3, <1>6, Replacing
  <1> HIDE DEF t
  <1>8. ASSUME Allowed(b, n.boxes, n.index) PROVE Loads(plan, Stops, t, k + 1, m)
    <2>1. PICK i \in 1 .. k - 1 :
            Under(stack, k, i) /\ LoadPoint(plan, Stops, stack[i], n) /\ Placing(plan, stack[i], g)
      BY <1>5 DEF LoadAt
    <2>2. Under(stack, k + 1, i)
      <3>1. i \in 1 .. k + 1 - 1 /\ stack[i].kind = "stop" /\ \A j \in i + 1 .. k - 1 : stack[j].kind = "load"
        BY <1>1, <2>1 DEF Under
      <3>2. \A j \in i + 1 .. k + 1 - 1 : j = k \/ j \in i + 1 .. k - 1
        BY <1>1
      <3>3. \A j \in i + 1 .. k + 1 - 1 : stack[j].kind = "load"
        BY <1>4, <3>1, <3>2
      <3> QED
        BY <3>1, <3>3 DEF Under
    <2>3. /\ i \in 1 .. k /\ OpenFrame(plan, Stops, stack[i])
      BY <1>1, <2>2, OpenBelow
    <2>4. b \in Corners(Shape(stack[i].items[n.index]), n.boxes)
      <3>1. b \in Corners(ShapeIn(plan, stack[i].items[n.index]), n.boxes)
        BY <1>6, <2>1 DEF Placing
      <3> QED
        BY <3>1 DEF Shape, ShapeIn, Item
    <2>5. PathClear(b, n.boxes)
      BY <1>8 DEF Allowed
    <2>6. LoadPoint(plan, Stops, stack[i], m)
      BY <1>1, <2>1, <2>3, <2>4, <2>5, OneMorePlaced DEF m
    <2>7. k + 1 \in Nat /\ k + 1 - 1 <= k /\ i \in 1 .. k + 1 - 1
      BY <1>1, <2>3
    <2>8. Loads(plan, Stops, stack, k + 1, m)
      BY <2>2, <2>6, <2>7 DEF Loads
    <2> HIDE DEF k
    <2> QED
      BY <1>1, <1>7, <2>7, <2>8, ComesSame
  <1>9. NodeInv(plan, Stops, stack', at', node')
    BY <1>4, <1>7, <1>8 DEF NodeInv
  <1>10. at' \in {"load", "try"}
    BY <1>4
  <1> QED
    BY <1>4, <1>7, <1>9, <1>10, CyclesAreKept

(* What is on board when all the items of a stop are.                       *)
LEMMA AllPlaced ==
  ASSUME plan \in Plans, NEW f, OpenFrame(plan, Stops, f), NEW n, LoadPoint(plan, Stops, f, n),
         n.index > Len(f.items)
  PROVE  DonePoint(plan, Stops, f, Node(n.stop + 1, 0, n.boxes))
  <1> DEFINE stop == Stops[f.node.stop]
             kept == Staying(f.node.boxes, stop)
             now == n.boxes
             m == Node(n.stop + 1, 0, n.boxes)
  <1>1. /\ f.items \in Seq(Goods) /\ ToSet(f.items) = ToSet(stop.load)
        /\ n.index \in 1 .. Len(f.items) + 1
        /\ n.stop = f.node.stop /\ OnFloor(plan, now) /\ kept \subseteq now
        /\ Ids(now) = Ids(kept) \cup {f.items[j] : j \in 1 .. n.index - 1}
        /\ CanEnter(now \ kept, kept)
        /\ (n.index = 1 /\ f.items # <<>>) \/ Carried(plan, Ids(now)) <= Payload
    BY DEF OpenFrame, LoadPoint, Goods
  <1>2. Len(f.items) \in Nat /\ n.index = Len(f.items) + 1 /\ n.index - 1 = Len(f.items)
    BY <1>1
  <1>3. Ids(now) = Ids(kept) \cup ToSet(stop.load)
    <2>1. DOMAIN f.items = 1 .. Len(f.items)
      BY <1>1
    <2>2. ToSet(f.items) = {f.items[j] : j \in 1 .. Len(f.items)}
      BY <2>1 DEF ToSet
    <2>3. {f.items[j] : j \in 1 .. n.index - 1} = ToSet(stop.load)
      BY <1>1, <1>2, <2>2
    <2> QED
      BY <1>1, <2>3
  <1>4. Carried(plan, Ids(now)) <= Payload
    <2>1. n.index = 1 => Len(f.items) = 0
      BY <1>2
    <2>2. Len(f.items) = 0 => f.items = <<>>
      BY <1>1
    <2> QED
      BY <1>1, <2>1, <2>2
  <1>5. Cardinality(now) = Cardinality(Ids(now))
    BY <1>1, OnboardCount DEF OnFloor
  <1>6. /\ ToSet(f.order) = ToSet(stop.unload) /\ ToSet(stop.unload) \subseteq Ids(f.node.boxes)
        /\ LeaveInOrder(f.order, f.node.boxes)
    BY DEF OpenFrame
  <1> HIDE DEF stop
  <1>7. GoodStep(plan, f.node.boxes, stop, f.order, now)
    BY <1>1, <1>3, <1>4, <1>5, <1>6 DEF GoodStep
  <1>8. m.stop = f.node.stop + 1 /\ m.boxes = now
    BY <1>1 DEF Node
  <1> HIDE DEF m
  <1>9. DonePoint(plan, Stops, f, m)
    BY <1>1, <1>7, <1>8 DEF DonePoint, stop
  <1> QED
    BY <1>9 DEF m

LEMMA Follows ==
  ASSUME LayoutInv, Loaded
  PROVE  LayoutInv'
  <1> DEFINE i == StopFrame
             f == stack[i]
             layout == Layout(node.boxes)
             e == [f EXCEPT !.seen = @ \cup {layout}]
             t == [stack EXCEPT ![i] = e]
             m == Node(node.stop + 1, 0, node.boxes)
  <1>1. /\ at = "load" /\ node.index > Len(Items)
        /\ UNCHANGED <<plan, cycles, steps>>
        /\ \/ at' = "try" /\ stack' = stack
           \/ at' = "limit" /\ stack' = <<>>
           \/ at' = "stop" /\ stack' = t /\ node' = m
    BY DEF Loaded, Backtrack
  <1>2. /\ Len(stack) \in Nat /\ plan \in Plans /\ StackInv(plan, Stops, stack)
        /\ i \in 1 .. Len(stack) /\ Under(stack, Len(stack) + 1, i)
        /\ LoadPoint(plan, Stops, f, node)
        /\ OpenFrame(plan, Stops, f) /\ IsFrame(f) /\ Items = f.items
    BY <1>1, AtWork
  <1>3. SameFrame(f, e)
    BY <1>2, OneMoreSeen
  <1> HIDE DEF e, layout
  <1>4. StackInv(plan, Stops, t) /\ Len(t) = Len(stack) /\ SameUpTo(stack, t, Len(stack))
    BY <1>2, <1>3, Replacing
  <1>5. DonePoint(plan, Stops, f, m)
    BY <1>1, <1>2, AllPlaced
  <1> HIDE DEF t, m
  <1>6. Comes(plan, Stops, t, Len(t) + 1, m)
    <2>1. Len(stack) + 1 \in Nat /\ Len(stack) + 1 - 1 <= Len(stack) /\ i \in 1 .. Len(stack) + 1 - 1
      BY <1>2
    <2>2. Comes(plan, Stops, stack, Len(stack) + 1, m)
      BY <1>2, <1>5, <2>1 DEF Comes
    <2>3. Comes(plan, Stops, t, Len(stack) + 1, m)
      BY <1>2, <1>4, <2>1, <2>2, ComesSame
    <2> QED
      BY <1>4, <2>3
  <1>7. StackInv(plan, Stops, stack')
    BY <1>1, <1>2, <1>4, NoFrames
  <1>8. NodeInv(plan, Stops, stack', at', node')
    BY <1>1, <1>6 DEF NodeInv
  <1>9. at' \in {"try", "limit", "stop"}
    BY <1>1
  <1> QED
    BY <1>1, <1>7, <1>8, <1>9, CyclesAreKept

-----------------------------------------------------------------------------
(* The end of a cycle.                                                      *)

(* What is on board after good steps is what the route says.                *)
LEMMA StepsAreOnBoard ==
  ASSUME plan \in Plans, NEW q, GoodSteps(plan, q)
  PROVE  \A k \in 0 .. Len(q) : Ids(BoxesAfter(q, k)) = OnBoard(plan.stops)[k]
  <1> DEFINE stops == plan.stops
             on == OnBoard(stops)
             A == {k \in Nat : k <= Len(q) => Ids(BoxesAfter(q, k)) = on[k]}
  <1>1. /\ on[0] = {}
        /\ \A k \in 1 .. Len(stops) :
             on[k] = (on[k - 1] \ ToSet(stops[k].unload)) \cup ToSet(stops[k].load)
    BY PlanIsWellFormed, OnBoardSteps
  <1>2. Len(q) \in Nat /\ Len(q) <= Len(stops) /\ Len(stops) \in Nat
    BY PlanIsWellFormed DEF GoodSteps, IsSeq
  <1>3. \A k \in 1 .. Len(q) :
          GoodStep(plan, BoxesAfter(q, k - 1), stops[k], q[k].order, q[k].boxes)
    BY DEF GoodSteps
  <1> HIDE DEF on, stops
  <1>4. 0 \in A
    BY <1>1 DEF BoxesAfter, Ids
  <1>5. ASSUME NEW k \in Nat, k \in A PROVE k + 1 \in A
    <2> SUFFICES ASSUME k + 1 <= Len(q) PROVE Ids(BoxesAfter(q, k + 1)) = on[k + 1]
      OBVIOUS
    <2> DEFINE before == BoxesAfter(q, k)
               n == k + 1
    <2>1. n \in 1 .. Len(q) /\ n \in 1 .. Len(stops) /\ n - 1 = k /\ n # 0 /\ k <= Len(q)
      BY <1>2
    <2>2. Ids(before) = on[k]
      BY <1>5, <2>1
    <2> HIDE DEF n, before
    <2>3. Ids(q[n].boxes) = Ids(Staying(before, stops[n])) \cup ToSet(stops[n].load)
      BY <1>3, <2>1 DEF GoodStep, before
    <2>4. Ids(Staying(before, stops[n])) = Ids(before) \ ToSet(stops[n].unload)
      BY DEF Ids, Staying
    <2>5. on[n] = (on[k] \ ToSet(stops[n].unload)) \cup ToSet(stops[n].load)
      BY <1>1, <2>1
    <2>6. Ids(q[n].boxes) = on[n]
      BY <2>2, <2>3, <2>4, <2>5
    <2> QED
      BY <2>1, <2>6 DEF BoxesAfter, n
  <1> HIDE DEF A
  <1>6. Nat \subseteq A
    BY <1>4, <1>5, Numbers
  <1>7. ASSUME NEW k \in 0 .. Len(q) PROVE Ids(BoxesAfter(q, k)) = on[k]
    <2>1. k \in Nat /\ k <= Len(q)
      BY <1>2
    <2> QED
      BY <1>6, <2>1 DEF A
  <1> QED
    BY <1>7 DEF on, stops

LEMMA CycleStartsEmpty ==
  ASSUME plan \in Plans, GoodSteps(plan, steps), NEW k \in 1 .. Len(CyclesOf(plan.stops)),
         Len(steps) = EndOf(plan.stops, k - 1)
  PROVE  BoxesAfter(steps, Len(steps)) = {}
  <1> DEFINE stops == plan.stops
             m == Cardinality(Cuts(stops))
             d == Len(steps)
             e == Ends(stops)
  <1>1. Len(stops) \in Nat /\ d \in Nat /\ k \in 1 .. m
    <2>1. Len(CyclesOf(stops)) = m
      BY PlanIsWellFormed, CyclesAreParts
    <2> QED
      BY <2>1, PlanIsWellFormed DEF GoodSteps, IsSeq
  <1>2. CASE k = 1
    BY <1>2 DEF EndOf, BoxesAfter
  <1>3. CASE k # 1
    <2>1. m \in Nat \ {0} /\ \A c \in 1 .. m - 1 : OnBoard(stops)[e[c]] = {}
      BY <1>1, EndsAreCuts
    <2>2. k - 1 \in 1 .. m - 1 /\ k - 1 # 0
      BY <1>1, <1>3, <2>1
    <2>3. d = e[k - 1]
      BY <2>2 DEF EndOf
    <2>4. OnBoard(stops)[d] = {}
      BY <2>1, <2>2, <2>3
    <2>5. d \in 0 .. Len(steps)
      BY <1>1
    <2>6. Ids(BoxesAfter(steps, d)) = {}
      BY <2>4, <2>5, StepsAreOnBoard
    <2> QED
      BY <2>6 DEF Ids
  <1> QED
    BY <1>2, <1>3

(* The stops that are open are those of the cycle, each once.               *)
LEMMA OpenedIs ==
  ASSUME StackInv(plan, Stops, stack), NEW k \in 1 .. Len(stack), stack[k].kind = "stop"
  PROVE  Opened(stack[k].node.stop) = k
  <1> DEFINE n == Len(stack)
             u == stack[k].node.stop
             P(j) == stack[j].kind = "stop" /\ stack[j].node.stop = u
  <1>1. n \in Nat
    BY DEF StackInv, IsSeq
  <1>2. ASSUME NEW j \in 1 .. n, stack[j].kind = "stop"
        PROVE  /\ stack[j].node.stop \in Int
               /\ \A i \in 1 .. j - 1 :
                    stack[i].kind = "stop" => stack[i].node.stop < stack[j].node.stop
    <2>1. FrameAt(plan, Stops, stack, j)
      BY DEF StackInv
    <2>2. StopAt(plan, Stops, stack, j)
      BY <1>2, <2>1 DEF FrameAt
    <2> QED
      BY <2>2 DEF StopAt, OpenFrame
  <1>3. ASSUME NEW j \in 1 .. n, P(j) PROVE j = k
    <2>1. CASE j < k
      <3>1. j \in 1 .. k - 1
        BY <1>1, <2>1
      <3>2. stack[j].node.stop < u /\ u \in Int
        BY <1>2, <1>3, <3>1
      <3> QED
        BY <1>3, <3>2
    <2>2. CASE k < j
      <3>1. k \in 1 .. j - 1
        BY <1>1, <2>2
      <3>2. u < stack[j].node.stop /\ u \in Int
        BY <1>2, <1>3, <3>1
      <3> QED
        BY <1>3, <3>2
    <2> QED
      BY <1>1, <2>1, <2>2
  <1>4. P(k)
    OBVIOUS
  <1>5. Opened(u) = CHOOSE j \in 1 .. n : P(j)
    BY DEF Opened
  <1> HIDE DEF P, u, n
  <1>6. k \in 1 .. n
    BY DEF n
  <1>7. Opened(u) = k
    BY <1>3, <1>4, <1>5, <1>6
  <1> QED
    BY <1>7 DEF u

LEMMA StopsAreOpen ==
  ASSUME LayoutInv, at = "stop", node.stop > Len(Stops)
  PROVE  /\ Len(stack) \in Nat /\ StackInv(plan, Stops, stack)
         /\ Len(Stops) >= 1 =>
              \E i : Under(stack, Len(stack) + 1, i) /\ i \in 1 .. Len(stack)
                     /\ stack[i].kind = "stop"
                     /\ stack[i].node.stop = Len(Stops) /\ DonePoint(plan, Stops, stack[i], node)
         /\ \A u \in 1 .. Len(Stops) :
              \E k \in 1 .. Len(stack) : stack[k].kind = "stop" /\ stack[k].node.stop = u
  <1>1. StackInv(plan, Stops, stack) /\ Len(stack) \in Nat /\ Len(Stops) \in Nat
    BY StopsAreStops DEF LayoutInv, StackInv, IsSeq
  <1>2. CASE Len(Stops) = 0
    BY <1>1, <1>2
  <1>3. CASE Len(Stops) # 0
    <2>1. Len(Stops) >= 1
      BY <1>1, <1>3
    <2>2. Comes(plan, Stops, stack, Len(stack) + 1, node)
      <3>1. CASE stack = <<>> /\ node = Start
        <4>1. node.stop = 1
          BY <3>1 DEF Start, Node
        <4> QED
          BY <1>1, <2>1, <4>1
      <3> QED
        BY <3>1 DEF LayoutInv, NodeInv
    <2>3. PICK i : Under(stack, Len(stack) + 1, i) /\ DonePoint(plan, Stops, stack[i], node)
      BY <2>2 DEF Comes
    <2>4. /\ i \in 1 .. Len(stack) /\ stack[i].kind = "stop" /\ StopAt(plan, Stops, stack, i)
          /\ OpenFrame(plan, Stops, stack[i])
      BY <1>1, <2>3, OpenBelow
    <2>5. stack[i].node.stop \in 1 .. Len(Stops) /\ node.stop = stack[i].node.stop + 1
      BY <2>3, <2>4 DEF OpenFrame, DonePoint
    <2>6. stack[i].node.stop = Len(Stops)
      BY <1>1, <2>5
    <2>7. ASSUME NEW u \in 1 .. Len(Stops)
          PROVE  \E k \in 1 .. Len(stack) : stack[k].kind = "stop" /\ stack[k].node.stop = u
      <3>1. PICK k \in 1 .. i : stack[k].kind = "stop" /\ stack[k].node.stop = u
        BY <2>4, <2>6 DEF StopAt
      <3>2. k \in 1 .. Len(stack)
        BY <1>1, <2>4
      <3> QED
        BY <3>1, <3>2
    <2> QED
      BY <1>1, <2>3, <2>4, <2>6, <2>7
  <1> QED
    BY <1>2, <1>3

LEMMA WayIsGood ==
  ASSUME LayoutInv, at = "stop", node.stop > Len(Stops)
  PROVE  /\ IsSeq(Way) /\ Len(Way) = Len(Stops)
         /\ \A u \in 1 .. Len(Stops) :
              /\ GoodStep(plan, BoxesAfter(Way, u - 1), Stops[u], Way[u].order, Way[u].boxes)
              /\ OnFloor(plan, Way[u].boxes)
  <1> DEFINE n == Len(Stops)
             frame(u) == stack[Opened(u)]
             after(u) == IF u = n THEN node.boxes ELSE frame(u + 1).node.boxes
  <1>1. n \in Nat
    BY StopsAreStops
  <1>2. Way = [u \in 1 .. n |-> [order |-> frame(u).order, boxes |-> after(u)]]
    BY DEF Way
  <1>3. IsSeq(Way) /\ Len(Way) = n
    <2> DEFINE F == {[order |-> frame(u).order, boxes |-> after(u)] : u \in 1 .. n}
    <2>1. Way \in [1 .. n -> F]
      BY <1>2
    <2> HIDE DEF F
    <2>2. Way \in Seq(F) /\ Len(Way) = n
      BY <1>1, <2>1
    <2> QED
      BY <2>2, MembersMakeSeq
  <1>4. \A u \in 1 .. n : Way[u].order = frame(u).order /\ Way[u].boxes = after(u)
    BY <1>2
  <1>5. /\ Len(stack) \in Nat /\ StackInv(plan, Stops, stack)
        /\ n >= 1 =>
             \E i : Under(stack, Len(stack) + 1, i) /\ i \in 1 .. Len(stack)
                    /\ stack[i].kind = "stop"
                    /\ stack[i].node.stop = n /\ DonePoint(plan, Stops, stack[i], node)
        /\ \A u \in 1 .. n :
             \E k \in 1 .. Len(stack) : stack[k].kind = "stop" /\ stack[k].node.stop = u
    BY StopsAreOpen
  <1> HIDE DEF n, frame, after
  <1>6. ASSUME NEW k \in 1 .. Len(stack), stack[k].kind = "stop"
        PROVE  frame(stack[k].node.stop) = stack[k] /\ StopAt(plan, Stops, stack, k)
    <2>1. FrameAt(plan, Stops, stack, k)
      BY <1>5 DEF StackInv
    <2>2. StopAt(plan, Stops, stack, k)
      BY <1>6, <2>1 DEF FrameAt
    <2>3. Opened(stack[k].node.stop) = k
      BY <1>5, <1>6, OpenedIs
    <2> QED
      BY <2>2, <2>3 DEF frame
  <1>7. ASSUME NEW u \in 1 .. n PROVE DonePoint(plan, Stops, frame(u), [stop |-> u + 1, boxes |-> after(u)])
    <2> DEFINE to(b) == [stop |-> u + 1, boxes |-> b]
    <2>1. ASSUME NEW f, NEW m, m.stop = u + 1, DonePoint(plan, Stops, f, m)
          PROVE  DonePoint(plan, Stops, f, to(m.boxes)) /\ f.node.stop + 1 = u + 1
      BY <2>1 DEF DonePoint
    <2>2. CASE u = n
      <3>1. PICK i : /\ Under(stack, Len(stack) + 1, i) /\ i \in 1 .. Len(stack)
                     /\ stack[i].kind = "stop"
                     /\ stack[i].node.stop = n /\ DonePoint(plan, Stops, stack[i], node)
        BY <1>1, <1>5, <2>2
      <3>2. frame(u) = stack[i]
        BY <1>6, <2>2, <3>1
      <3>3. node.stop = u + 1
        BY <2>2, <3>1 DEF DonePoint
      <3>4. after(u) = node.boxes
        BY <2>2 DEF after
      <3> HIDE DEF to
      <3>5. DonePoint(plan, Stops, stack[i], to(node.boxes))
        BY <2>1, <3>1, <3>3
      <3> QED
        BY <3>2, <3>4, <3>5 DEF to
    <2>3. CASE u # n
      <3>1. u + 1 \in 1 .. n /\ u \in Int
        BY <1>1, <2>3
      <3>2. PICK k \in 1 .. Len(stack) : stack[k].kind = "stop" /\ stack[k].node.stop = u + 1
        BY <1>5, <3>1
      <3>3. frame(u + 1) = stack[k] /\ StopAt(plan, Stops, stack, k)
        BY <1>6, <3>2
      <3>4. ~ (k = 1 /\ stack[k].node = Start)
        <4>1. u + 1 # 1
          BY <1>1
        <4> QED
          BY <3>2, <4>1 DEF Start, Node
      <3>5. Comes(plan, Stops, stack, k, stack[k].node)
        BY <3>3, <3>4 DEF StopAt
      <3>6. PICK i \in 1 .. k - 1 : Under(stack, k, i) /\ DonePoint(plan, Stops, stack[i], stack[k].node)
        BY <3>5 DEF Comes
      <3>7. i \in 1 .. Len(stack) /\ stack[i].kind = "stop"
        BY <1>5, <3>6 DEF Under
      <3>8. frame(stack[i].node.stop) = stack[i] /\ stack[i].node.stop \in Int
        BY <1>6, <3>7 DEF StopAt, OpenFrame
      <3> HIDE DEF to
      <3>9. DonePoint(plan, Stops, stack[i], to(stack[k].node.boxes)) /\ stack[i].node.stop + 1 = u + 1
        BY <2>1, <3>2, <3>6
      <3>10. stack[i].node.stop = u
        BY <3>1, <3>8, <3>9
      <3>11. after(u) = stack[k].node.boxes
        BY <2>3, <3>3 DEF after
      <3> QED
        BY <3>8, <3>9, <3>10, <3>11 DEF to
    <2> QED
      BY <2>2, <2>3
  <1>8. ASSUME NEW u \in 1 .. n
        PROVE  /\ GoodStep(plan, frame(u).node.boxes, Stops[u], frame(u).order, after(u))
               /\ OnFloor(plan, after(u))
    <2> DEFINE m == [stop |-> u + 1, boxes |-> after(u)]
    <2>1. m.stop = u + 1 /\ m.boxes = after(u)
      OBVIOUS
    <2>2. frame(u).node.stop = u
      BY <1>5, <1>6
    <2>3. DonePoint(plan, Stops, frame(u), m)
      BY <1>7
    <2> HIDE DEF m
    <2> QED
      BY <2>1, <2>2, <2>3 DEF DonePoint
  <1>9. ASSUME NEW u \in 1 .. n PROVE BoxesAfter(Way, u - 1) = frame(u).node.boxes
    <2>1. CASE u = 1
      <3>1. PICK k \in 1 .. Len(stack) : stack[k].kind = "stop" /\ stack[k].node.stop = 1
        BY <1>5, <2>1
      <3>2. frame(1) = stack[k] /\ StopAt(plan, Stops, stack, k)
        BY <1>6, <3>1
      <3>3. ~ Comes(plan, Stops, stack, k, stack[k].node)
        <4> SUFFICES ASSUME Comes(plan, Stops, stack, k, stack[k].node) PROVE FALSE
          OBVIOUS
        <4>1. PICK i \in 1 .. k - 1 : Under(stack, k, i) /\ DonePoint(plan, Stops, stack[i], stack[k].node)
          BY DEF Comes
        <4>2. i \in 1 .. Len(stack) /\ stack[i].kind = "stop"
          BY <1>5, <4>1 DEF Under
        <4>3. stack[i].node.stop \in Int /\ stack[i].node.stop >= 1
          BY <1>6, <4>2 DEF StopAt, OpenFrame
        <4>4. 1 = stack[i].node.stop + 1
          BY <3>1, <4>1 DEF DonePoint
        <4> QED
          BY <4>3, <4>4
      <3>4. stack[k].node = Start
        BY <3>2, <3>3 DEF StopAt
      <3>5. frame(u).node.boxes = {}
        BY <2>1, <3>2, <3>4 DEF Start, Node
      <3> QED
        BY <2>1, <3>5 DEF BoxesAfter
    <2>2. CASE u # 1
      <3>1. u - 1 \in 1 .. n /\ u - 1 # 0 /\ u - 1 # n /\ u - 1 + 1 = u
        BY <1>1, <2>2
      <3>2. BoxesAfter(Way, u - 1) = Way[u - 1].boxes
        BY <3>1 DEF BoxesAfter
      <3>3. Way[u - 1].boxes = after(u - 1)
        BY <1>4, <3>1
      <3>4. after(u - 1) = frame(u).node.boxes
        BY <3>1 DEF after
      <3> QED
        BY <3>2, <3>3, <3>4
    <2> QED
      BY <2>1, <2>2
  <1>10. ASSUME NEW u \in 1 .. n
         PROVE  /\ GoodStep(plan, BoxesAfter(Way, u - 1), Stops[u], Way[u].order, Way[u].boxes)
                /\ OnFloor(plan, Way[u].boxes)
    BY <1>4, <1>8, <1>9
  <1> QED
    BY <1>3, <1>10 DEF n

LEMMA EndsCycle ==
  ASSUME LayoutInv, CycleDone
  PROVE  LayoutInv'
  <1> DEFINE n == Len(Stops)
             d == Len(steps)
             q == steps \o Way
             stops == plan.stops
             all == CyclesOf(stops)
  <1>1. /\ at = "stop" /\ node.stop > n /\ steps' = q
        /\ IF Len(cycles) > 1 THEN cycles' = Tail(cycles) /\ at' = "stop"
           ELSE at' = "valid" /\ UNCHANGED cycles
        /\ node' = Start /\ stack' = <<>> /\ plan' = plan
    BY DEF CycleDone
  <1>2. plan \in Plans /\ GoodSteps(plan, steps) /\ IsSeq(steps) /\ d \in Nat
    BY DEF LayoutInv, CycleInv, GoodSteps, IsSeq
  <1>3. PICK k \in 1 .. Len(all) : CyclesFrom(plan, cycles, d, k)
    BY <1>1 DEF LayoutInv, CycleInv
  <1>4. /\ Len(cycles) \in Nat /\ Len(cycles) >= 1 /\ IsSeq(cycles) /\ n \in Nat
        /\ d + n = EndOf(stops, k) /\ d + n <= Len(stops)
        /\ \A j \in 1 .. n : Stops[j] = stops[d + j]
    BY <1>2, <1>3, CyclesOfThePlan DEF Stops
  <1>5. /\ IsSeq(Way) /\ Len(Way) = n
        /\ \A u \in 1 .. n :
              /\ GoodStep(plan, BoxesAfter(Way, u - 1), Stops[u], Way[u].order, Way[u].boxes)
              /\ OnFloor(plan, Way[u].boxes)
    BY <1>1, WayIsGood
  <1>6. BoxesAfter(steps, d) = {}
    <2>1. d = EndOf(stops, k - 1)
      BY <1>3 DEF CyclesFrom
    <2> QED
      BY <1>2, <2>1, CycleStartsEmpty
  <1>7. /\ IsSeq(q) /\ Len(q) = d + n
        /\ (\A j \in 1 .. d : q[j] = steps[j]) /\ \A u \in 1 .. n : q[d + u] = Way[u]
    <2>1. /\ IsSeq(q) /\ Len(q) = Len(steps) + Len(Way)
          /\ \A j \in 1 .. Len(steps) : q[j] = steps[j]
          /\ \A u \in 1 .. Len(Way) : q[Len(steps) + u] = Way[u]
      <3>1. IsSeq(steps) /\ IsSeq(Way)
        BY <1>2, <1>5
      <3> QED
        BY <3>1, Joined
    <2> QED
      BY <1>5, <2>1
  <1> HIDE DEF n, d, q, stops
  <1>8. ASSUME NEW j \in 1 .. Len(q)
        PROVE  /\ GoodStep(plan, BoxesAfter(q, j - 1), stops[j], q[j].order, q[j].boxes)
               /\ OnFloor(plan, q[j].boxes)
    <2>1. CASE j <= d
      <3>1. j \in 1 .. d /\ (j - 1 = 0 \/ j - 1 \in 1 .. d)
        BY <1>2, <1>4, <2>1
      <3>2. BoxesAfter(q, j - 1) = BoxesAfter(steps, j - 1)
        BY <1>7, <3>1 DEF BoxesAfter
      <3>3. /\ GoodStep(plan, BoxesAfter(steps, j - 1), stops[j], steps[j].order, steps[j].boxes)
            /\ OnFloor(plan, steps[j].boxes)
        BY <1>2, <3>1 DEF GoodSteps, d, stops
      <3> QED
        BY <1>7, <3>1, <3>2, <3>3
    <2>2. CASE j > d
      <3> DEFINE u == j - d
      <3>1. u \in 1 .. n /\ d + u = j
        BY <1>2, <1>4, <1>7, <2>2
      <3> HIDE DEF u
      <3>2. q[j] = Way[u] /\ Stops[u] = stops[j]
        BY <1>4, <1>7, <3>1
      <3>3. BoxesAfter(q, j - 1) = BoxesAfter(Way, u - 1)
        <4>1. CASE u = 1
          <5>1. j - 1 = d /\ u - 1 = 0
            BY <1>2, <3>1, <4>1
          <5>2. d = 0 \/ d \in 1 .. d
            BY <1>2
          <5>3. BoxesAfter(q, d) = BoxesAfter(steps, d)
            BY <1>7, <5>2 DEF BoxesAfter
          <5>4. BoxesAfter(Way, 0) = {}
            BY DEF BoxesAfter
          <5> QED
            BY <1>6, <5>1, <5>3, <5>4
        <4>2. CASE u # 1
          <5>1. u - 1 \in 1 .. n /\ u - 1 # 0 /\ j - 1 = d + (u - 1) /\ j - 1 # 0
            BY <1>2, <1>4, <3>1, <4>2
          <5>2. q[j - 1] = Way[u - 1]
            BY <1>7, <5>1
          <5> QED
            BY <5>1, <5>2 DEF BoxesAfter
        <4> QED
          BY <4>1, <4>2
      <3> QED
        BY <1>5, <3>1, <3>2, <3>3
    <2>3. j <= d \/ j > d
      BY <1>2, <1>4, <1>7
    <2> QED
      BY <2>1, <2>2, <2>3
  <1>9. GoodSteps(plan, q)
    BY <1>4, <1>7, <1>8 DEF GoodSteps, stops
  <1>10. CASE Len(cycles) > 1
    <2> DEFINE rest == Tail(cycles)
    <2>1. cycles # <<>>
      BY <1>10, EmptyIsSeq
    <2>2. /\ IsSeq(rest) /\ Len(rest) = Len(cycles) - 1
          /\ \A j \in 1 .. Len(rest) : rest[j] = cycles[j + 1]
      BY <1>4, <2>1, WithoutFirst
    <2>3. /\ Len(cycles) = Len(all) - k + 1
          /\ \A j \in 1 .. Len(cycles) : cycles[j] = all[k + j - 1]
      BY <1>3 DEF CyclesFrom, stops
    <2> HIDE DEF rest, all
    <2>4. Len(all) \in Int
      BY <1>2, PlanIsWellFormed, CyclesAreParts DEF all, stops
    <2>5. k + 1 \in 1 .. Len(all) /\ Len(rest) = Len(all) - (k + 1) + 1 /\ k + 1 - 1 = k
      BY <1>4, <1>10, <2>2, <2>3, <2>4
    <2>6. ASSUME NEW j \in 1 .. Len(rest) PROVE rest[j] = all[k + 1 + j - 1]
      <3>1. j + 1 \in 1 .. Len(cycles) /\ k + (j + 1) - 1 = k + 1 + j - 1
        BY <1>4, <2>2
      <3>2. cycles[j + 1] = all[k + (j + 1) - 1]
        BY <2>3, <3>1
      <3> QED
        BY <2>2, <3>1, <3>2
    <2>7. CyclesFrom(plan, rest, Len(q), k + 1)
      <3> DEFINE l == k + 1
      <3>1. Len(q) = EndOf(plan.stops, l - 1)
        BY <1>4, <1>7, <2>5 DEF stops
      <3>2. /\ Len(rest) = Len(CyclesOf(plan.stops)) - l + 1
            /\ \A j \in 1 .. Len(rest) : rest[j] = CyclesOf(plan.stops)[l + j - 1]
        BY <2>5, <2>6 DEF all, stops
      <3> HIDE DEF l
      <3>3. CyclesFrom(plan, rest, Len(q), l)
        BY <2>2, <3>1, <3>2 DEF CyclesFrom
      <3> QED
        BY <3>3 DEF l
    <2>8. CycleInv(plan, rest, "stop", q)
      BY <1>2, <1>9, <2>5, <2>7 DEF CycleInv, all, stops
    <2>9. at' = "stop" /\ cycles' = rest /\ steps' = q /\ plan' = plan /\ stack' = <<>> /\ node' = Start
      BY <1>1, <1>10 DEF rest
    <2>10. StackInv(plan, Stops', <<>>) /\ NodeInv(plan, Stops', <<>>, "stop", Start)
      BY NoFrames DEF NodeInv
    <2> QED
      BY <2>8, <2>9, <2>10 DEF LayoutInv
  <1>11. CASE ~ (Len(cycles) > 1)
    <2>1. k = Len(all) /\ Len(all) \in Nat \ {0}
      <3>1. Len(all) \in Nat \ {0} /\ Len(cycles) = Len(all) - k + 1
        BY <1>2, <1>3, PlanIsWellFormed, CyclesAreParts DEF CyclesFrom, stops
      <3> HIDE DEF all
      <3> QED
        BY <1>4, <1>11, <3>1
    <2>2. EndOf(stops, k) = Len(stops)
      <3>1. /\ Len(all) = Cardinality(Cuts(stops))
            /\ Ends(stops)[Cardinality(Cuts(stops))] = Len(stops)
        <4>1. plan.stops \in Seq([load : Seq(Goods), unload : Seq(Goods)]) /\ Len(plan.stops) \in Nat
          BY <1>2, PlanIsWellFormed
        <4>2. Len(CyclesOf(plan.stops)) = Cardinality(Cuts(plan.stops))
          BY <4>1, CyclesAreParts
        <4>3. Ends(plan.stops)[Cardinality(Cuts(plan.stops))] = Len(plan.stops)
          BY <4>1, EndsAreCuts
        <4> QED
          BY <4>2, <4>3 DEF stops
      <3> HIDE DEF all
      <3> QED
        BY <2>1, <3>1 DEF EndOf
    <2>3. Len(q) = Len(stops)
      BY <1>4, <1>7, <2>2
    <2>4. CycleInv(plan, cycles, "valid", q)
      BY <1>2, <1>9, <2>3 DEF CycleInv, stops
    <2>5. at' = "valid" /\ cycles' = cycles /\ steps' = q /\ plan' = plan /\ stack' = <<>> /\ node' = Start
      BY <1>1, <1>11
    <2>6. StackInv(plan, Stops', <<>>) /\ NodeInv(plan, Stops', <<>>, "valid", Start)
      BY NoFrames DEF NodeInv
    <2> QED
      BY <2>4, <2>5, <2>6 DEF LayoutInv
  <1> QED
    BY <1>10, <1>11

LEMMA LayoutInitially ==
  ASSUME Init
  PROVE  LayoutInv
  <1> DEFINE stops == plan.stops
             all == CyclesOf(stops)
             m == Cardinality(Cuts(stops))
  <1>1. plan \in Plans /\ cycles = all /\ at = "stop" /\ node = Start /\ stack = <<>> /\ steps = <<>>
    BY DEF Init
  <1>2. /\ m \in Nat \ {0} /\ Len(all) = m /\ all = [c \in 1 .. m |-> all[c]]
        /\ Len(stops) \in Nat
    BY <1>1, PlanIsWellFormed, CyclesAreParts
  <1>3. GoodSteps(plan, steps) /\ Len(steps) = 0
    <2>1. IsSeq(steps) /\ Len(steps) = 0
      BY <1>1, EmptyIsSeq
    <2> QED
      BY <1>2, <2>1 DEF GoodSteps
  <1> HIDE DEF m, all
  <1>4. CyclesFrom(plan, cycles, Len(steps), 1)
    <2>1. IsSeq(all) /\ Len(all) = Len(all) - 1 + 1
      BY <1>2 DEF IsSeq
    <2>2. \A j \in 1 .. Len(all) : all[j] = all[1 + j - 1]
      BY <1>2
    <2>3. EndOf(stops, 1 - 1) = 0
      BY DEF EndOf
    <2> QED
      BY <1>1, <1>3, <2>1, <2>2, <2>3 DEF CyclesFrom, all
  <1>5. 1 \in 1 .. Len(all)
    BY <1>2
  <1>6. CycleInv(plan, cycles, at, steps)
    BY <1>1, <1>3, <1>4, <1>5 DEF CycleInv, all
  <1>7. StackInv(plan, Stops, stack) /\ NodeInv(plan, Stops, stack, at, node)
    BY <1>1, NoFrames DEF NodeInv
  <1> QED
    BY <1>1, <1>6, <1>7 DEF LayoutInv

LEMMA LayoutStays ==
  ASSUME LayoutInv, [Next]_vars
  PROVE  LayoutInv'
  <1>1. CASE EnterKnown \/ EnterRefused
    BY <1>1, Backtracks
  <1>2. CASE EnterStop
    BY <1>2, EntersStop
  <1>3. CASE EnterLoad
    BY <1>3, EntersLoad
  <1>4. CASE Try
    BY <1>4, Tries
  <1>5. CASE Loaded
    BY <1>5, Follows
  <1>6. CASE PlacesDone \/ StopDone
    BY <1>6, Pops
  <1>7. CASE CycleDone
    BY <1>7, EndsCycle
  <1>8. CASE Rejected \/ GiveUp
    BY <1>8, GivesUp
  <1>9. CASE UNCHANGED vars
    BY <1>9 DEF vars, LayoutInv, Stops
  <1> QED
    BY <1>1, <1>2, <1>3, <1>4, <1>5, <1>6, <1>7, <1>8, <1>9 DEF Next

LEMMA LayoutSuffices ==
  ASSUME LayoutInv
  PROVE  AcceptedIsExecutable
  <1> SUFFICES ASSUME at = "valid" PROVE AcceptedIsExecutable
    BY DEF AcceptedIsExecutable
  <1>1. GoodSteps(plan, steps) /\ Len(steps) = Len(plan.stops)
    BY DEF LayoutInv, CycleInv
  <1>2. ASSUME NEW k \in 1 .. Len(steps)
        PROVE  LET before == IF k = 1 THEN {} ELSE steps[k - 1].boxes
                   out  == ToSet(plan.stops[k].unload)
                   kept == {b \in before : b.id \notin out}
                   now  == steps[k].boxes
               IN /\ ToSet(steps[k].order) = out /\ out \subseteq Ids(before)
                  /\ LeaveInOrder(steps[k].order, before)
                  /\ kept \subseteq now /\ Ids(now) = Ids(kept) \cup ToSet(plan.stops[k].load)
                  /\ Cardinality(now) = Cardinality(Ids(now))
                  /\ CanEnter(now \ kept, kept)
                  /\ Weight(Ids(now)) <= Payload
    <2> DEFINE before == IF k = 1 THEN {} ELSE steps[k - 1].boxes
               stop == plan.stops[k]
               now == steps[k].boxes
    <2>1. GoodStep(plan, BoxesAfter(steps, k - 1), stop, steps[k].order, now) /\ OnFloor(plan, now)
      BY <1>1 DEF GoodSteps
    <2>2. BoxesAfter(steps, k - 1) = before
      <3>1. k - 1 = 0 <=> k = 1
        OBVIOUS
      <3> QED
        BY <3>1 DEF BoxesAfter
    <2>3. Carried(plan, Ids(now)) = Weight(Ids(now))
      <3>1. Ids(now) \in SUBSET Goods
        BY <2>1 DEF OnFloor, Goods
      <3> QED
        BY <3>1, CarriedIsWeight
    <2>4. Staying(before, stop) = {b \in before : b.id \notin ToSet(stop.unload)}
      BY DEF Staying
    <2> HIDE DEF before, stop, now
    <2>5. GoodStep(plan, before, stop, steps[k].order, now)
      BY <2>1, <2>2
    <2> QED
      BY <2>3, <2>4, <2>5 DEF GoodStep, before, stop, now
  <1> QED
    BY <1>1, <1>2 DEF AcceptedIsExecutable

(* A route that the search calls valid can be carried out.                  *)
THEOREM ValidIsExecutable == Spec => []AcceptedIsExecutable
  <1>1. Init => LayoutInv
    BY LayoutInitially
  <1>2. LayoutInv /\ [Next]_vars => LayoutInv'
    BY LayoutStays
  <1>3. LayoutInv => AcceptedIsExecutable
    BY LayoutSuffices
  <1> QED
    BY <1>1, <1>2, <1>3, PTL DEF Spec

-----------------------------------------------------------------------------
(* The floor, also while the search goes back, when the node is of no use.  *)
AtFloor ==
  /\ cycles # <<>> /\ Len(Stops) \in Nat
  /\ node.stop \in 1 .. Len(Stops) + 1 /\ OnFloor(plan, node.boxes)

GoesOn == at \in {"stop", "load"} => AtFloor

LEMMA OnFloorGoingOn ==
  ASSUME LayoutInv
  PROVE  GoesOn
  <1> SUFFICES ASSUME at \in {"stop", "load"} PROVE AtFloor
    BY DEF GoesOn
  <1>1. StackInv(plan, Stops, stack) /\ Len(Stops) \in Nat
    BY StopsAreStops DEF LayoutInv
  <1>2. cycles # <<>>
    <2>1. plan \in Plans
      BY DEF LayoutInv, CycleInv
    <2>2. PICK k \in 1 .. Len(CyclesOf(plan.stops)) : CyclesFrom(plan, cycles, Len(steps), k)
      BY DEF LayoutInv, CycleInv
    <2>3. Len(cycles) \in Nat /\ Len(cycles) >= 1
      BY <2>1, <2>2, CyclesOfThePlan
    <2> QED
      BY <2>3, EmptyIsSeq
  <1>3. ASSUME at = "load" PROVE node.stop \in 1 .. Len(Stops) /\ OnFloor(plan, node.boxes)
    <2>1. /\ LoadPoint(plan, Stops, stack[StopFrame], node)
          /\ OpenFrame(plan, Stops, stack[StopFrame])
      BY <1>3, AtWork
    <2> QED
      BY <2>1 DEF LoadPoint, OpenFrame
  <1>4. ASSUME at = "stop" PROVE node.stop \in 1 .. Len(Stops) + 1 /\ OnFloor(plan, node.boxes)
    <2>1. OnFloor(plan, node.boxes)
      BY <1>4, StopStarts
    <2>2. CASE stack = <<>> /\ node = Start
      <3>1. node.stop = 1
        BY <2>2 DEF Start, Node
      <3> QED
        BY <1>1, <2>1, <3>1
    <2>3. CASE Comes(plan, Stops, stack, Len(stack) + 1, node)
      <3>1. PICK i : Under(stack, Len(stack) + 1, i) /\ DonePoint(plan, Stops, stack[i], node)
        BY <2>3 DEF Comes
      <3>2. OpenFrame(plan, Stops, stack[i])
        BY <1>1, <3>1, OpenBelow
      <3>3. stack[i].node.stop \in 1 .. Len(Stops) /\ node.stop = stack[i].node.stop + 1
        BY <3>1, <3>2 DEF OpenFrame, DonePoint
      <3>4. node.stop \in 1 .. Len(Stops) + 1
        BY <1>1, <3>3
      <3> QED
        BY <2>1, <3>4
    <2> QED
      BY <1>4, <2>2, <2>3 DEF LayoutInv, NodeInv
  <1>5. node.stop \in 1 .. Len(Stops) + 1 /\ OnFloor(plan, node.boxes)
    BY <1>1, <1>3, <1>4
  <1> QED
    BY <1>1, <1>2, <1>5 DEF AtFloor

LEMMA FloorStays ==
  ASSUME AtFloor, [Next]_vars, GoesOn'
  PROVE  AtFloor'
  <1>1. CASE at' \in {"stop", "load"}
    BY <1>1 DEF GoesOn
  <1>2. ASSUME plan' = plan, cycles' = cycles, node' \in {node, Start} PROVE AtFloor'
    <2>1. Stops' = Stops /\ plan' = plan /\ cycles' = cycles
      BY <1>2 DEF Stops
    <2>2. CASE node' = node
      BY <2>1, <2>2 DEF AtFloor
    <2>3. CASE node' = Start
      <3>1. Start.stop = 1 /\ Start.boxes = {}
        BY DEF Start, Node
      <3>2. 1 \in 1 .. Len(Stops) + 1
        BY DEF AtFloor
      <3> QED
        BY <2>1, <2>3, <3>1, <3>2, NobodyOnFloor DEF AtFloor
    <2> QED
      BY <1>2, <2>2, <2>3
  <1>3. ASSUME at' \notin {"stop", "load"}
        PROVE  plan' = plan /\ cycles' = cycles /\ node' \in {node, Start}
    <2>1. CASE EnterKnown \/ EnterRefused \/ EnterStop \/ EnterLoad
      BY <1>3, <2>1 DEF EnterKnown, EnterRefused, EnterStop, EnterLoad, Backtrack
    <2>2. CASE Try
      BY <1>3, <2>2 DEF Try
    <2>3. CASE Loaded
      BY <1>3, <2>3 DEF Loaded, Backtrack
    <2>4. CASE PlacesDone \/ StopDone \/ Rejected \/ GiveUp
      BY <2>4 DEF PlacesDone, StopDone, Rejected, GiveUp
    <2>5. CASE CycleDone
      BY <1>3, <2>5 DEF CycleDone
    <2>6. CASE UNCHANGED vars
      BY <2>6 DEF vars
    <2> QED
      BY <2>1, <2>2, <2>3, <2>4, <2>5, <2>6 DEF Next
  <1> QED
    BY <1>1, <1>2, <1>3

(* The boxes on board always lie side by side on the floor, each inside, and *)
(* the layouts found are of stops of the route.                             *)
THEOREM LayoutTypeCorrect == Spec => []TypeOK
  <1>1. Init => LayoutInv
    BY LayoutInitially
  <1>2. LayoutInv /\ [Next]_vars => LayoutInv'
    BY LayoutStays
  <1>3. LayoutInv => GoesOn
    BY OnFloorGoingOn
  <1>4. Init => at = "stop"
    BY DEF Init
  <1>5. GoesOn /\ at = "stop" => AtFloor
    BY DEF GoesOn
  <1>6. AtFloor /\ [Next]_vars /\ GoesOn' => AtFloor'
    BY FloorStays
  <1>7. LayoutInv /\ AtFloor => TypeOK
    <2> SUFFICES ASSUME LayoutInv, AtFloor PROVE TypeOK
      OBVIOUS
    <2>1. at \in {"stop", "load", "try", "valid", "rejected", "limit"} /\ Len(steps) <= Len(plan.stops)
      BY DEF LayoutInv, CycleInv, GoodSteps
    <2>2. \A b \in node.boxes : Inside(b) /\ Clear(b, node.boxes \ {b})
      BY DEF AtFloor, OnFloor, Onboard
    <2> QED
      BY <2>1, <2>2 DEF AtFloor, TypeOK
  <1> QED
    BY <1>1, <1>2, <1>3, <1>4, <1>5, <1>6, <1>7, PTL DEF Spec

-----------------------------------------------------------------------------
(* The quick check.  What comes of repeating a step is a function on the    *)
(* numbers of the steps.                                                    *)
Iterates(N, v, next, f) == [k \in 0 .. N |-> IF k = 0 THEN v ELSE next[k][f[k - 1]]]

LEMMA Iteration ==
  ASSUME NEW N \in Nat, NEW V, NEW v \in V, NEW next \in [1 .. N -> [V -> V]]
  PROVE  \E f \in [0 .. N -> V] : f = Iterates(N, v, next, f)
  <1> DEFINE D == 0 .. N
             start == [k \in D |-> v]
             step == [f \in [D -> V] |-> Iterates(N, v, next, f)]
             rank == [k \in D |-> k]
  <1>1. ASSUME NEW f \in [D -> V] PROVE Iterates(N, v, next, f) \in [D -> V]
    <2>1. ASSUME NEW k \in D PROVE Iterates(N, v, next, f)[k] \in V
      <3>1. CASE k = 0
        BY <3>1 DEF Iterates
      <3>2. CASE k # 0
        <4>1. k \in 1 .. N /\ k - 1 \in D
          BY <3>2
        <4>2. f[k - 1] \in V /\ next[k] \in [V -> V]
          BY <4>1
        <4>3. Iterates(N, v, next, f)[k] = next[k][f[k - 1]]
          BY <3>2 DEF Iterates
        <4> QED
          BY <4>2, <4>3
      <3> QED
        BY <3>1, <3>2
    <2>2. Iterates(N, v, next, f) = [k \in D |-> Iterates(N, v, next, f)[k]]
      BY DEF Iterates
    <2> QED
      BY <2>1, <2>2
  <1>2. step \in [[D -> V] -> [D -> V]]
    <2> HIDE DEF D
    <2> QED
      BY <1>1
  <1>3. start \in [D -> V] /\ rank \in [D -> 0 .. N]
    OBVIOUS
  <1>4. ASSUME NEW f \in [D -> V], NEW g \in [D -> V], NEW k \in D,
               \A m \in D : rank[m] < rank[k] => f[m] = g[m]
        PROVE  step[f][k] = step[g][k]
    <2>1. k # 0 => f[k - 1] = g[k - 1]
      BY <1>4
    <2>2. step[f][k] = Iterates(N, v, next, f)[k] /\ step[g][k] = Iterates(N, v, next, g)[k]
      OBVIOUS
    <2>3. Iterates(N, v, next, f)[k] = Iterates(N, v, next, g)[k]
      BY <2>1 DEF Iterates
    <2> QED
      BY <2>2, <2>3
  <1> HIDE DEF step, rank, start, D
  <1>5. \A f, g \in [D -> V] : \A k \in D :
           (\A m \in D : rank[m] < rank[k] => f[m] = g[m]) => step[f][k] = step[g][k]
    BY <1>4
  <1>6. IsRecursion(D, V, step, rank, N)
    BY <1>2, <1>3, <1>5 DEF IsRecursion
  <1>7. PICK f \in [D -> V] : step[f] = f
    BY <1>6, Recursion
  <1>8. step[f] = Iterates(N, v, next, f)
    BY DEF step
  <1> QED
    BY <1>7, <1>8 DEF D

(* Layouts of the quick check: boxes on the floor, or none that it knows.   *)
Everything == [id : Goods, x : Int, y : Int, l : Int, w : Int]
Floors == {bs \in SUBSET Everything : OnFloor(plan, bs)}
Laid == Floors \cup {NoBoxes}

LEMMA NoBoxesOnFloor ==
  ASSUME plan \in Plans
  PROVE  NoBoxes \notin Floors /\ Ids(NoBoxes) = {Never} /\ Never \notin Goods /\ {} \in Floors
  <1>1. Ids(NoBoxes) = {Never}
    BY DEF Ids, NoBoxes, Box
  <1>2. Never \notin Goods
    BY PlanIsWellFormed DEF PositiveInt, Never
  <1>3. ASSUME NEW bs \in Floors PROVE Ids(bs) \subseteq Goods
    BY DEF Floors, OnFloor, Goods
  <1> QED
    BY <1>1, <1>2, <1>3, NobodyOnFloor DEF Floors

(* The places of an item.                                                   *)
Spots(id, boxes, stops) ==
  {b \in {Box(id, p[1], p[2], o[1], o[2]) : p \in Points(boxes), o \in Orientations(Shape(id))} :
     FastAllowed(b, boxes, stops)}

LEMMA SpotsFit ==
  ASSUME plan \in Plans, NEW id \in Goods, NEW boxes \in Floors, NEW stops
  PROVE  \A b \in Spots(id, boxes, stops) :
           /\ IsBox(b) /\ b.id = id /\ b \in Everything
           /\ \/ b.l = Item(id).l /\ b.w = Item(id).w
              \/ b.l = Item(id).w /\ b.w = Item(id).l
           /\ \E p \in Points(boxes), o \in Orientations(Shape(id)) :
                b = Box(id, p[1], p[2], o[1], o[2])
           /\ Inside(b) /\ Clear(b, boxes) /\ StraightClear(b, boxes)
  <1> SUFFICES ASSUME NEW b \in Spots(id, boxes, stops)
               PROVE  /\ IsBox(b) /\ b.id = id /\ b \in Everything
                      /\ \/ b.l = Item(id).l /\ b.w = Item(id).w
                         \/ b.l = Item(id).w /\ b.w = Item(id).l
                      /\ \E p \in Points(boxes), o \in Orientations(Shape(id)) :
                           b = Box(id, p[1], p[2], o[1], o[2])
                      /\ Inside(b) /\ Clear(b, boxes) /\ StraightClear(b, boxes)
    OBVIOUS
  <1>1. FastAllowed(b, boxes, stops)
    BY DEF Spots
  <1>2. PICK p \in Points(boxes), o \in Orientations(Shape(id)) : b = Box(id, p[1], p[2], o[1], o[2])
    BY DEF Spots
  <1>3. o = <<Item(id).l, Item(id).w>> \/ o = <<Item(id).w, Item(id).l>>
    BY DEF Orientations, Shape
  <1>4. o[1] \in Nat \ {0} /\ o[2] \in Nat \ {0}
    BY <1>3, PlanIsWellFormed DEF IsItem, PositiveInt
  <1>5. p[1] \in Nat /\ p[2] \in Nat
    <2>1. ASSUME NEW c \in boxes
          PROVE  c.x \in Nat /\ c.y \in Nat /\ c.x + c.l \in Nat /\ c.y + c.w \in Nat
      <3>1. IsBox(c) /\ Inside(c)
        BY DEF Floors, OnFloor, Onboard, AreBoxes
      <3> QED
        BY <3>1 DEF IsBox, Inside
    <2>2. CASE p = <<0, 0>>
      BY <2>2
    <2>3. CASE p # <<0, 0>>
      <3>1. PICK c \in boxes : p \in {<<c.x + c.l, c.y>>, <<c.x + c.l, 0>>, <<c.x, c.y + c.w>>, <<0, c.y + c.w>>}
        BY <2>3 DEF Points
      <3> QED
        BY <2>1, <3>1
    <2> QED
      BY <2>2, <2>3
  <1>6. b.id = id /\ b.x = p[1] /\ b.y = p[2] /\ b.l = o[1] /\ b.w = o[2]
    BY <1>2 DEF Box
  <1>7. IsBox(b) /\ b \in Everything
    BY <1>2, <1>4, <1>5, <1>6 DEF IsBox, Box, Everything
  <1>8. Inside(b) /\ Clear(b, boxes) /\ StraightClear(b, boxes)
    BY <1>1, <1>5, <1>6 DEF FastAllowed, FastInside, Inside
  <1> QED
    BY <1>2, <1>3, <1>6, <1>7, <1>8

LEMMA SpotsAreFew ==
  ASSUME plan \in Plans, NEW id \in Goods, NEW boxes \in Floors, NEW stops
  PROVE  IsFiniteSet(Spots(id, boxes, stops))
  <1> DEFINE l == Item(id).l
             w == Item(id).w
             X == 0 .. Length
             Y == 0 .. Width
             T == X \X Y
             f == [p \in T |-> Box(id, p[1], p[2], l, w)]
             g == [p \in T |-> Box(id, p[1], p[2], w, l)]
  <1>1. IsFiniteSet(T)
    <2>1. IsFiniteSet(X) /\ IsFiniteSet(Y)
      BY FloorAssumption, FS_Interval
    <2> HIDE DEF X, Y
    <2> QED
      BY <2>1, FS_Product
  <1>2. IsFiniteSet({f[p] : p \in T}) /\ IsFiniteSet({g[p] : p \in T})
    <2>1. f = [p \in T |-> f[p]] /\ g = [p \in T |-> g[p]]
      OBVIOUS
    <2> HIDE DEF f, g, T
    <2> QED
      BY <1>1, <2>1, ImageIsFinite
  <1>3. ASSUME NEW b \in Spots(id, boxes, stops)
        PROVE  b \in {f[p] : p \in T} \cup {g[p] : p \in T}
    <2>1. /\ b = Box(id, b.x, b.y, b.l, b.w) /\ b.x \in Int /\ b.y \in Int
          /\ b.l \in Nat \ {0} /\ b.w \in Nat \ {0} /\ Inside(b)
          /\ \/ b.l = l /\ b.w = w
             \/ b.l = w /\ b.w = l
      BY SpotsFit DEF IsBox
    <2>2. <<b.x, b.y>> \in T
      BY <2>1, FloorAssumption DEF Inside
    <2> QED
      BY <2>1, <2>2
  <1>4. IsFiniteSet({f[p] : p \in T} \cup {g[p] : p \in T})
    BY <1>2, FS_Union
  <1>5. Spots(id, boxes, stops) \in SUBSET ({f[p] : p \in T} \cup {g[p] : p \in T})
    BY <1>3
  <1> HIDE DEF f, g, T
  <1> QED
    BY <1>4, <1>5, FS_Subset

LEMMA OneIsFirst ==
  ASSUME NEW S, NEW key, NEW m, AreKeys(S, key, m), S # {}
  PROVE  \E i \in S : \A j \in S \ {i} : Before(key[i], key[j])
  <1> DEFINE n == Cardinality(S)
             q == Sorted(S, key)
  <1>1. /\ n \in Nat /\ q \in [1 .. n -> S]
        /\ \A i \in S : \E k \in 1 .. n : q[k] = i
        /\ \A k, l \in 1 .. n : k < l => Before(key[q[k]], key[q[l]])
    BY SortedIsInOrder
  <1> HIDE DEF n, q
  <1>2. 1 \in 1 .. n
    BY <1>1
  <1>3. ASSUME NEW j \in S \ {q[1]} PROVE Before(key[q[1]], key[j])
    <2>1. PICK k \in 1 .. n : q[k] = j
      BY <1>1
    <2>2. 1 < k
      BY <1>1, <2>1
    <2> QED
      BY <1>1, <1>2, <2>1, <2>2
  <1> QED
    BY <1>1, <1>2, <1>3

(* The item is put on one of its places, where it can go straight in.       *)
LEMMA PlacedOnSpot ==
  ASSUME plan \in Plans, NEW id \in Goods, NEW boxes \in Floors, NEW stops,
         FastPlace(id, boxes, stops) # NoBoxes
  PROVE  /\ id \notin Ids(boxes) /\ ~ Item(id).tall
         /\ \E b \in Spots(id, boxes, stops) : FastPlace(id, boxes, stops) = boxes \cup {b}
  <1> DEFINE S == Spots(id, boxes, stops)
             turn(b) == IF b.l = Item(id).l THEN 0 ELSE 1
             score(b) == <<b.x, b.y, turn(b)>>
             key == [b \in S |-> score(b)]
             first == CHOOSE b \in S : \A c \in S \ {b} : Before(score(b), score(c))
  <1>1. FastPlace(id, boxes, stops) =
          IF boxes = NoBoxes \/ Item(id).tall \/ id \in Ids(boxes) \/ S = {} THEN NoBoxes
          ELSE boxes \cup {first}
    BY DEF FastPlace, Spots
  <1>2. id \notin Ids(boxes) /\ ~ Item(id).tall /\ S # {}
        /\ FastPlace(id, boxes, stops) = boxes \cup {first}
    BY <1>1
  <1>3. IsFiniteSet(S)
    BY SpotsAreFew
  <1>4. \A b \in S : /\ b = Box(id, b.x, b.y, b.l, b.w) /\ b.x \in Int /\ b.y \in Int
                     /\ \/ b.l = Item(id).l /\ b.w = Item(id).w
                        \/ b.l = Item(id).w /\ b.w = Item(id).l
    BY SpotsFit DEF IsBox
  <1> HIDE DEF S
  <1>5. \A b \in S : turn(b) \in Int
    OBVIOUS
  <1>6. \A b, c \in S : turn(b) = turn(c) => b.l = c.l /\ b.w = c.w
    BY <1>4
  <1>7. AreKeys(S, key, 3)
    <2>1. ASSUME NEW b \in S PROVE key[b] \in Keys(3)
      <3>1. ASSUME NEW x \in Int, NEW y \in Int, NEW z \in Int PROVE <<x, y, z>> \in Keys(3)
        BY DEF Keys
      <3> HIDE DEF turn
      <3> QED
        BY <1>4, <1>5, <3>1
    <2>2. ASSUME NEW b \in S, NEW c \in S, key[b] = key[c] PROVE b = c
      <3>1. b.x = c.x /\ b.y = c.y /\ turn(b) = turn(c)
        <4> HIDE DEF turn
        <4> QED
          BY <2>2
      <3>2. b.l = c.l /\ b.w = c.w
        BY <1>6, <3>1
      <3> QED
        BY <1>4, <3>1, <3>2
    <2> HIDE DEF key
    <2> QED
      BY <1>3, <2>1, <2>2 DEF AreKeys
  <1>8. \E b \in S : \A c \in S \ {b} : Before(score(b), score(c))
    <2>1. PICK b \in S : \A c \in S \ {b} : Before(key[b], key[c])
      <3> HIDE DEF key
      <3> QED
        BY <1>2, <1>7, OneIsFirst
    <2> HIDE DEF turn
    <2> QED
      BY <2>1
  <1>9. first \in S
    <2> HIDE DEF score
    <2> QED
      BY <1>8
  <1> QED
    BY <1>2, <1>9 DEF S

-----------------------------------------------------------------------------
(* An item that the quick check puts on board comes in.                     *)
LEMMA PlacedIsLoaded ==
  ASSUME plan \in Plans, NEW id \in Goods, NEW boxes \in Floors, NEW stops,
         FastPlace(id, boxes, stops) # NoBoxes
  PROVE  LET after == FastPlace(id, boxes, stops) IN
         /\ id \notin Ids(boxes) /\ ~ Item(id).tall
         /\ after \in Floors /\ Ids(after) = Ids(boxes) \cup {id}
         /\ \A ids : id \in ids => after \in OneMore(TRUE, stops, ids, boxes)
  <1>1. /\ id \notin Ids(boxes) /\ ~ Item(id).tall
        /\ \E b \in Spots(id, boxes, stops) : FastPlace(id, boxes, stops) = boxes \cup {b}
    BY PlacedOnSpot
  <1>2. PICK b \in Spots(id, boxes, stops) : FastPlace(id, boxes, stops) = boxes \cup {b}
    BY <1>1
  <1>3. /\ IsBox(b) /\ b.id = id /\ b \in Everything
        /\ Inside(b) /\ Clear(b, boxes) /\ StraightClear(b, boxes)
    BY SpotsFit
  <1>4. PICK p \in Points(boxes), o \in Orientations(Shape(id)) : b = Box(id, p[1], p[2], o[1], o[2])
    BY SpotsFit
  <1>5. Onboard(boxes) /\ Ids(boxes) \subseteq Goods /\ boxes \subseteq Everything
    BY DEF Floors, OnFloor, Goods
  <1>6. Onboard(boxes \cup {b}) /\ Ids(boxes \cup {b}) = Ids(boxes) \cup {id}
    <2>1. id \in Int
      BY PlanIsWellFormed DEF PositiveInt
    <2> QED
      BY <1>1, <1>3, <1>5, <2>1, OneMoreOnboard
  <1>7. boxes \cup {b} \in Floors
    BY <1>3, <1>5, <1>6 DEF Floors, OnFloor, Goods
  <1>8. CanLeave(b, boxes)
    <2>1. PathClear(b, boxes)
      BY <1>3 DEF PathClear
    <2>2. AreBoxes(boxes)
      BY <1>5 DEF Onboard
    <2> QED
      BY <1>3, <2>1, <2>2, ClearPathLeaves
  <1>9. b \in PlacesFor(TRUE, id, boxes)
    <2>1. b.x = p[1] /\ b.y = p[2] /\ b.l = o[1] /\ b.w = o[2]
      BY <1>4 DEF Box
    <2>2. <<b.x, b.y>> \in Grid
      BY <1>3, FloorAssumption DEF Grid, IsBox, Inside
    <2>3. b = Box(id, <<b.x, b.y>>[1], <<b.x, b.y>>[2], o[1], o[2])
      BY <1>4, <2>1
    <2> QED
      BY <2>2, <2>3 DEF PlacesFor
  <1>10. ASSUME NEW ids, id \in ids PROVE boxes \cup {b} \in OneMore(TRUE, stops, ids, boxes)
    <2>1. id \in Firsts(TRUE, stops, ids)
      BY <1>10 DEF Firsts
    <2> QED
      BY <1>8, <1>9, <2>1 DEF OneMore
  <1> QED
    BY <1>1, <1>2, <1>6, <1>7, <1>10

LEMMA PlacedIsLaid ==
  ASSUME plan \in Plans, NEW id \in Goods, NEW boxes \in Laid, NEW stops
  PROVE  /\ FastPlace(id, boxes, stops) \in Laid
         /\ boxes = NoBoxes => FastPlace(id, boxes, stops) = NoBoxes
  <1>1. boxes = NoBoxes => FastPlace(id, boxes, stops) = NoBoxes
    BY DEF FastPlace
  <1>2. ASSUME FastPlace(id, boxes, stops) # NoBoxes PROVE FastPlace(id, boxes, stops) \in Floors
    <2>1. boxes \in Floors
      BY <1>1, <1>2 DEF Laid
    <2> QED
      BY <1>2, <2>1, PlacedIsLoaded
  <1> QED
    BY <1>1, <1>2 DEF Laid

(* The items of a stop, one after another.                                  *)
FastLoads(items, boxes, stops, f) ==
  [k \in 0 .. Len(items) |-> IF k = 0 THEN boxes ELSE FastPlace(items[k], f[k - 1], stops)]

LEMMA FastLoadIsRecursion ==
  ASSUME NEW items, NEW boxes, NEW stops
  PROVE  FastLoad(items, boxes, stops) = (CHOOSE f : f = FastLoads(items, boxes, stops, f))[Len(items)]
  BY DEF FastLoad, FastLoads

LEMMA FastLoadInSteps ==
  ASSUME plan \in Plans, NEW items \in Seq(Goods), NEW boxes \in Laid, NEW stops
  PROVE  \E f : /\ f[0] = boxes /\ f[Len(items)] = FastLoad(items, boxes, stops)
                /\ \A k \in 0 .. Len(items) : f[k] \in Laid
                /\ \A k \in 1 .. Len(items) : f[k] = FastPlace(items[k], f[k - 1], stops)
  <1> DEFINE n == Len(items)
             next == [k \in 1 .. n |-> [bs \in Laid |-> FastPlace(items[k], bs, stops)]]
  <1>1. n \in Nat /\ \A k \in 1 .. n : items[k] \in Goods
    OBVIOUS
  <1>2. next \in [1 .. n -> [Laid -> Laid]]
    BY <1>1, PlacedIsLaid
  <1> HIDE DEF n
  <1>3. PICK f \in [0 .. n -> Laid] : f = Iterates(n, boxes, next, f)
    <2> HIDE DEF next
    <2> QED
      BY <1>1, <1>2, Iteration
  <1>4. ASSUME NEW k \in 0 .. n
        PROVE  Iterates(n, boxes, next, f)[k] = FastLoads(items, boxes, stops, f)[k]
    <2>1. CASE k = 0
      BY <2>1 DEF Iterates, FastLoads, n
    <2>2. CASE k # 0
      <3>1. k \in 1 .. n /\ k - 1 \in 0 .. n
        BY <1>1, <2>2
      <3>2. f[k - 1] \in Laid
        BY <3>1
      <3>3. next[k][f[k - 1]] = FastPlace(items[k], f[k - 1], stops)
        BY <3>1, <3>2
      <3> QED
        BY <2>2, <3>3 DEF Iterates, FastLoads, n
    <2> QED
      BY <2>1, <2>2
  <1>5. f = FastLoads(items, boxes, stops, f)
    <2>1. Iterates(n, boxes, next, f) = [k \in 0 .. n |-> Iterates(n, boxes, next, f)[k]]
      BY DEF Iterates
    <2>2. FastLoads(items, boxes, stops, f) = [k \in 0 .. n |-> FastLoads(items, boxes, stops, f)[k]]
      BY DEF FastLoads, n
    <2> HIDE DEF next
    <2> QED
      BY <1>3, <1>4, <2>1, <2>2
  <1> DEFINE g == CHOOSE h : h = FastLoads(items, boxes, stops, h)
  <1>6. g = FastLoads(items, boxes, stops, g) /\ FastLoad(items, boxes, stops) = g[n]
    BY <1>5, FastLoadIsRecursion DEF n
  <1> HIDE DEF g, next
  <1>7. g[0] = boxes /\ \A k \in 1 .. n : g[k] = FastPlace(items[k], g[k - 1], stops)
    <2>1. \A k \in 0 .. n : FastLoads(items, boxes, stops, g)[k]
             = IF k = 0 THEN boxes ELSE FastPlace(items[k], g[k - 1], stops)
      BY DEF FastLoads, n
    <2>2. 0 \in 0 .. n /\ 1 .. n \subseteq 0 .. n /\ 0 \notin 1 .. n
      BY <1>1
    <2>3. \A k \in 0 .. n : g[k] = IF k = 0 THEN boxes ELSE FastPlace(items[k], g[k - 1], stops)
      BY <1>6, <2>1
    <2> QED
      BY <2>2, <2>3
  <1>8. \A k \in 0 .. n : g[k] \in Laid
    <2> DEFINE A == {k \in Nat : k <= n => g[k] \in Laid}
    <2>1. 0 \in A
      BY <1>7
    <2>2. ASSUME NEW k \in Nat, k \in A PROVE k + 1 \in A
      <3> SUFFICES ASSUME k + 1 <= n PROVE g[k + 1] \in Laid
        OBVIOUS
      <3>1. k + 1 \in 1 .. n /\ (k + 1) - 1 = k /\ g[k] \in Laid
        BY <1>1, <2>2
      <3>2. items[k + 1] \in Goods
        BY <1>1, <3>1
      <3>3. g[k + 1] = FastPlace(items[k + 1], g[k], stops)
        BY <1>7, <3>1
      <3> QED
        BY <3>1, <3>2, <3>3, PlacedIsLaid
    <2> HIDE DEF A
    <2>3. Nat \subseteq A
      BY <2>1, <2>2, Numbers
    <2> QED
      BY <1>1, <2>3 DEF A
  <1> QED
    BY <1>6, <1>7, <1>8 DEF n

-----------------------------------------------------------------------------
(* The layouts that the loads of a stop can lead to.                        *)
LoadingSteps(stops, ids, boxes, f) ==
  [n \in 0 .. Cardinality(ids) |->
     IF n = 0 THEN {boxes} ELSE UNION {OneMore(TRUE, stops, ids \ Ids(bs), bs) : bs \in f[n - 1]}]

LEMMA LoadingsIsRecursion ==
  ASSUME NEW stops, NEW ids, NEW boxes
  PROVE  Loadings(TRUE, stops, ids, boxes)
           = (CHOOSE f : f = LoadingSteps(stops, ids, boxes, f))[Cardinality(ids)]
  BY DEF Loadings, LoadingSteps

LEMMA MoreOfEverything ==
  ASSUME plan \in Plans, NEW ids \in SUBSET Goods, NEW stops, NEW boxes \in SUBSET Everything
  PROVE  OneMore(TRUE, stops, ids, boxes) \in SUBSET (SUBSET Everything)
  <1> SUFFICES ASSUME NEW c, NEW id \in Firsts(TRUE, stops, ids), c \in PlacesFor(TRUE, id, boxes)
               PROVE  c \in Everything
    BY DEF OneMore
  <1>1. id \in Goods
    BY DEF Firsts
  <1>2. PICK p \in Grid, o \in Orientations(Shape(id)) : c = Box(id, p[1], p[2], o[1], o[2])
    BY DEF PlacesFor
  <1>3. p[1] \in Int /\ p[2] \in Int
    BY FloorAssumption DEF Grid
  <1>4. o = <<Item(id).l, Item(id).w>> \/ o = <<Item(id).w, Item(id).l>>
    BY DEF Orientations, Shape
  <1>5. o[1] \in Int /\ o[2] \in Int
    BY <1>1, <1>4, PlanIsWellFormed DEF IsItem, PositiveInt
  <1> QED
    BY <1>1, <1>2, <1>3, <1>5 DEF Box, Everything

(* A history of the layouts with 0, 1, .. n items.                          *)
LoadsInSteps(stops, ids, boxes, n, f) ==
  /\ f[0] = {boxes} /\ f[n] = Loadings(TRUE, stops, ids, boxes)
  /\ \A k \in 1 .. n : f[k] = UNION {OneMore(TRUE, stops, ids \ Ids(bs), bs) : bs \in f[k - 1]}

LEMMA LoadingsInSteps ==
  ASSUME plan \in Plans, NEW ids \in SUBSET Goods, NEW stops, NEW boxes \in SUBSET Everything
  PROVE  \E f : LoadsInSteps(stops, ids, boxes, Cardinality(ids), f)
  <1> DEFINE n == Cardinality(ids)
             V == SUBSET (SUBSET Everything)
             more(L) == UNION {OneMore(TRUE, stops, ids \ Ids(bs), bs) : bs \in L}
             next == [k \in 1 .. n |-> [L \in V |-> more(L)]]
  <1>1. n \in Nat
    <2>1. IsFiniteSet(ids)
      BY PlanIsWellFormed, FS_Subset
    <2> QED
      BY <2>1, FS_CardinalityType
  <1>2. ASSUME NEW L \in V PROVE more(L) \in V
    <2>1. ASSUME NEW bs \in L PROVE OneMore(TRUE, stops, ids \ Ids(bs), bs) \in SUBSET (SUBSET Everything)
      <3>1. bs \in SUBSET Everything /\ ids \ Ids(bs) \in SUBSET Goods
        OBVIOUS
      <3> QED
        BY <3>1, MoreOfEverything
    <2>2. ASSUME NEW l \in more(L) PROVE l \in SUBSET Everything
      <3>1. PICK bs \in L : l \in OneMore(TRUE, stops, ids \ Ids(bs), bs)
        OBVIOUS
      <3> QED
        BY <2>1, <3>1
    <2> HIDE DEF more
    <2> QED
      BY <2>2
  <1> HIDE DEF V, n
  <1>3. next \in [1 .. n -> [V -> V]]
    <2> HIDE DEF more
    <2> QED
      BY <1>2
  <1>4. {boxes} \in V
    BY DEF V
  <1>5. PICK f \in [0 .. n -> V] : f = Iterates(n, {boxes}, next, f)
    <2> HIDE DEF next
    <2> QED
      BY <1>1, <1>3, <1>4, Iteration
  <1>6. ASSUME NEW k \in 0 .. n
        PROVE  Iterates(n, {boxes}, next, f)[k] = LoadingSteps(stops, ids, boxes, f)[k]
    <2>1. CASE k = 0
      BY <2>1 DEF Iterates, LoadingSteps, n
    <2>2. CASE k # 0
      <3>1. k \in 1 .. n /\ k - 1 \in 0 .. n
        BY <1>1, <2>2
      <3>2. f[k - 1] \in V
        BY <3>1
      <3>3. next[k][f[k - 1]] = more(f[k - 1])
        <4> HIDE DEF more
        <4> QED
          BY <3>1, <3>2
      <3> QED
        BY <2>2, <3>3 DEF Iterates, LoadingSteps, n
    <2> QED
      BY <2>1, <2>2
  <1>7. f = LoadingSteps(stops, ids, boxes, f)
    <2>1. Iterates(n, {boxes}, next, f) = [k \in 0 .. n |-> Iterates(n, {boxes}, next, f)[k]]
      BY DEF Iterates
    <2>2. LoadingSteps(stops, ids, boxes, f) = [k \in 0 .. n |-> LoadingSteps(stops, ids, boxes, f)[k]]
      BY DEF LoadingSteps, n
    <2> HIDE DEF next
    <2> QED
      BY <1>5, <1>6, <2>1, <2>2
  <1> DEFINE g == CHOOSE h : h = LoadingSteps(stops, ids, boxes, h)
  <1>8. g = LoadingSteps(stops, ids, boxes, g) /\ Loadings(TRUE, stops, ids, boxes) = g[n]
    BY <1>7, LoadingsIsRecursion DEF n
  <1> HIDE DEF g, next
  <1>9. g[0] = {boxes} /\ \A k \in 1 .. n : g[k] = more(g[k - 1])
    <2>1. \A k \in 0 .. n : LoadingSteps(stops, ids, boxes, g)[k]
             = IF k = 0 THEN {boxes} ELSE more(g[k - 1])
      BY DEF LoadingSteps, n
    <2>2. 0 \in 0 .. n /\ 1 .. n \subseteq 0 .. n /\ 0 \notin 1 .. n
      BY <1>1
    <2> HIDE DEF more
    <2>3. \A k \in 0 .. n : g[k] = IF k = 0 THEN {boxes} ELSE more(g[k - 1])
      BY <1>8, <2>1
    <2> QED
      BY <2>2, <2>3
  <1>10. LoadsInSteps(stops, ids, boxes, n, g)
    BY <1>8, <1>9 DEF LoadsInSteps
  <1> QED
    BY <1>10 DEF n

-----------------------------------------------------------------------------
(* A stop that the quick check lets load can be served.                     *)
LEMMA LoadedIsLoading ==
  ASSUME plan \in Plans, NEW items \in Seq(Goods), NEW boxes \in Floors, NEW stops,
         FastLoad(items, boxes, stops) # NoBoxes
  PROVE  /\ FastLoad(items, boxes, stops) \in Floors
         /\ ToSet(items) \cap Ids(boxes) = {} /\ \A id \in ToSet(items) : ~ Item(id).tall
         /\ FastLoad(items, boxes, stops) \in Loadings(TRUE, stops, ToSet(items), boxes)
  <1> DEFINE n == Len(items)
             ids == ToSet(items)
  <1>1. n \in Nat /\ (\A k \in 1 .. n : items[k] \in Goods) /\ ids = {items[k] : k \in 1 .. n}
    BY DEF ToSet
  <1>2. PICK f : /\ f[0] = boxes /\ f[n] = FastLoad(items, boxes, stops)
                 /\ \A k \in 0 .. n : f[k] \in Laid
                 /\ \A k \in 1 .. n : f[k] = FastPlace(items[k], f[k - 1], stops)
    <2>1. boxes \in Laid
      BY DEF Laid
    <2> QED
      BY <2>1, FastLoadInSteps
  <1> HIDE DEF n, ids
  <1>3. \A k \in 0 .. n : f[k] # NoBoxes
    <2> DEFINE A == {m \in Nat : m <= n => f[n - m] # NoBoxes}
    <2>1. 0 \in A
      <3>1. n - 0 = n
        BY <1>1
      <3> QED
        BY <1>2, <3>1
    <2>2. ASSUME NEW m \in Nat, m \in A PROVE m + 1 \in A
      <3> SUFFICES ASSUME m + 1 <= n PROVE f[n - (m + 1)] # NoBoxes
        OBVIOUS
      <3>1. n - m \in 1 .. n /\ (n - m) - 1 = n - (m + 1) /\ n - (m + 1) \in 0 .. n /\ f[n - m] # NoBoxes
        BY <1>1, <2>2
      <3>2. f[n - m] = FastPlace(items[n - m], f[n - (m + 1)], stops)
        BY <1>2, <3>1
      <3>3. items[n - m] \in Goods /\ f[n - (m + 1)] \in Laid
        BY <1>1, <1>2, <3>1
      <3> QED
        BY <3>1, <3>2, <3>3, PlacedIsLaid
    <2> HIDE DEF A
    <2>3. Nat \subseteq A
      BY <2>1, <2>2, Numbers
    <2>4. ASSUME NEW k \in 0 .. n PROVE f[k] # NoBoxes
      <3>1. n - k \in Nat /\ n - k <= n /\ n - (n - k) = k
        BY <1>1
      <3> QED
        BY <2>3, <3>1 DEF A
    <2> QED
      BY <2>4
  <1>4. \A k \in 0 .. n : f[k] \in Floors
    BY <1>2, <1>3 DEF Laid
  <1>5. ASSUME NEW k \in 1 .. n
        PROVE  /\ items[k] \notin Ids(f[k - 1]) /\ ~ Item(items[k]).tall
               /\ Ids(f[k]) = Ids(f[k - 1]) \cup {items[k]}
               /\ \A some : items[k] \in some => f[k] \in OneMore(TRUE, stops, some, f[k - 1])
    <2>1. k - 1 \in 0 .. n /\ k \in 0 .. n
      BY <1>1
    <2>2. f[k - 1] \in Floors /\ items[k] \in Goods /\ f[k] # NoBoxes
          /\ f[k] = FastPlace(items[k], f[k - 1], stops)
      BY <1>1, <1>2, <1>3, <1>4, <2>1
    <2> DEFINE before == f[k - 1]
    <2> HIDE DEF before
    <2>3. before \in Floors /\ FastPlace(items[k], before, stops) # NoBoxes
          /\ f[k] = FastPlace(items[k], before, stops)
      BY <2>2 DEF before
    <2>4. /\ items[k] \notin Ids(before) /\ ~ Item(items[k]).tall
          /\ Ids(FastPlace(items[k], before, stops)) = Ids(before) \cup {items[k]}
          /\ \A some : items[k] \in some => FastPlace(items[k], before, stops) \in OneMore(TRUE, stops, some, before)
      BY <2>2, <2>3, PlacedIsLoaded
    <2> QED
      BY <2>3, <2>4 DEF before
  <1>6. \A k \in 0 .. n : Ids(f[k]) = Ids(boxes) \cup {items[j] : j \in 1 .. k}
    <2> DEFINE A == {k \in Nat : k <= n => Ids(f[k]) = Ids(boxes) \cup {items[j] : j \in 1 .. k}}
    <2>1. 0 \in A
      <3>1. 1 .. 0 = {}
        OBVIOUS
      <3> QED
        BY <1>2, <3>1
    <2>2. ASSUME NEW k \in Nat, k \in A PROVE k + 1 \in A
      <3> SUFFICES ASSUME k + 1 <= n
                   PROVE  Ids(f[k + 1]) = Ids(boxes) \cup {items[j] : j \in 1 .. k + 1}
        OBVIOUS
      <3>1. k + 1 \in 1 .. n /\ (k + 1) - 1 = k /\ k <= n
        BY <1>1
      <3>2. Ids(f[k + 1]) = Ids(f[k]) \cup {items[k + 1]}
        BY <1>5, <3>1
      <3>3. Ids(f[k]) = Ids(boxes) \cup {items[j] : j \in 1 .. k}
        BY <2>2, <3>1
      <3>4. 1 .. k + 1 = 1 .. k \cup {k + 1}
        OBVIOUS
      <3> QED
        BY <3>2, <3>3, <3>4
    <2> HIDE DEF A
    <2>3. Nat \subseteq A
      BY <2>1, <2>2, Numbers
    <2>4. ASSUME NEW k \in 0 .. n PROVE Ids(f[k]) = Ids(boxes) \cup {items[j] : j \in 1 .. k}
      <3>1. k \in A /\ k <= n
        BY <1>1, <2>3
      <3> QED
        BY <3>1 DEF A
    <2> QED
      BY <2>4
  <1>7. ids \cap Ids(boxes) = {} /\ \A id \in ids : ~ Item(id).tall
    <2>1. ASSUME NEW k \in 1 .. n PROVE items[k] \notin Ids(boxes) /\ ~ Item(items[k]).tall
      <3>1. k - 1 \in 0 .. n
        BY <1>1
      <3> QED
        BY <1>5, <1>6, <3>1
    <2> QED
      BY <1>1, <2>1
  <1>8. Cardinality(ids) = n
    <2>1. ASSUME NEW j \in 1 .. n, NEW k \in 1 .. n, j < k PROVE items[j] # items[k]
      <3>1. k - 1 \in 0 .. n /\ j \in 1 .. k - 1
        BY <1>1, <2>1
      <3>2. items[j] \in Ids(f[k - 1])
        BY <1>6, <3>1
      <3> QED
        BY <1>5, <3>2
    <2>2. \A j, k \in 1 .. n : j # k => items[j] # items[k]
      <3> SUFFICES ASSUME NEW j \in 1 .. n, NEW k \in 1 .. n, j # k PROVE items[j] # items[k]
        OBVIOUS
      <3>1. j < k \/ k < j
        BY <1>1
      <3> QED
        BY <2>1, <3>1
    <2> DEFINE q == [k \in 1 .. n |-> items[k]]
    <2>3. q \in Bijection(1 .. n, ids)
      BY <1>1, <2>2 DEF Bijection, Injection, Surjection, IsInjective
    <2>4. IsFiniteSet(1 .. n) /\ Cardinality(1 .. n) = n
      BY <1>1, FS_Interval
    <2>5. ExistsBijection(1 .. n, ids)
      BY <2>3 DEF ExistsBijection
    <2> QED
      BY <2>4, <2>5, FS_Bijection
  <1>9. PICK g : /\ g[0] = {boxes} /\ g[n] = Loadings(TRUE, stops, ids, boxes)
                 /\ \A k \in 1 .. n : g[k] = UNION {OneMore(TRUE, stops, ids \ Ids(bs), bs) : bs \in g[k - 1]}
    <2>1. ids \in SUBSET Goods /\ boxes \in SUBSET Everything
      BY <1>1 DEF Floors
    <2>2. PICK g : LoadsInSteps(stops, ids, boxes, n, g)
      BY <1>8, <2>1, LoadingsInSteps
    <2> QED
      BY <2>2 DEF LoadsInSteps
  <1>10. f[n] \in g[n]
    <2> DEFINE A == {k \in Nat : k <= n => f[k] \in g[k]}
    <2>1. 0 \in A
      BY <1>2, <1>9
    <2>2. ASSUME NEW k \in Nat, k \in A PROVE k + 1 \in A
      <3> SUFFICES ASSUME k + 1 <= n PROVE f[k + 1] \in g[k + 1]
        OBVIOUS
      <3>1. k + 1 \in 1 .. n /\ (k + 1) - 1 = k /\ f[k] \in g[k]
        BY <1>1, <2>2
      <3>2. items[k + 1] \in ids \ Ids(f[k])
        BY <1>1, <1>5, <3>1
      <3>3. f[k + 1] \in OneMore(TRUE, stops, ids \ Ids(f[k]), f[k])
        BY <1>5, <3>1, <3>2
      <3>4. g[k + 1] = UNION {OneMore(TRUE, stops, ids \ Ids(bs), bs) : bs \in g[k]}
        BY <1>9, <3>1
      <3> QED
        BY <3>1, <3>3, <3>4
    <2> HIDE DEF A
    <2>3. Nat \subseteq A
      BY <2>1, <2>2, Numbers
    <2> QED
      BY <1>1, <2>3 DEF A
  <1>11. f[n] \in Floors
    BY <1>1, <1>4
  <1> QED
    BY <1>2, <1>7, <1>9, <1>10, <1>11 DEF ids

(* What the quick check lets unload comes out, the nearest to the door first. *)
LEMMA PairsInOrder ==
  ASSUME NEW i \in Int, NEW j \in Int, NEW k \in Int, NEW l \in Int, Before(<<i, k>>, <<j, l>>)
  PROVE  i <= j
  <1>1. 1 .. Len(<<i, k>>) = {1, 2} /\ 1 .. 1 - 1 = {} /\ 1 .. 2 - 1 = {1}
    OBVIOUS
  <1>2. <<i, k>>[1] = i /\ <<j, l>>[1] = j
    OBVIOUS
  <1> QED
    BY <1>1, <1>2 DEF Before

LEMMA UnloadedLeaves ==
  ASSUME plan \in Plans, NEW boxes \in Floors, NEW ids, FastUnload(ids, boxes) # NoBoxes
  PROVE  /\ ids \subseteq Ids(boxes) /\ Leave(ids, boxes)
         /\ FastUnload(ids, boxes) = {b \in boxes : b.id \notin ids}
  <1> DEFINE targets == {b \in boxes : b.id \in ids}
             ahead(b) == {c \in targets : c.x + c.l > b.x + b.l}
             far(id) == - (Get(boxes, id).x + Get(boxes, id).l)
             key == [id \in ids |-> <<far(id), id>>]
             n == Cardinality(ids)
             order == Sorted(ids, key)
  <1>1. /\ ids \subseteq Ids(boxes)
        /\ \A b \in targets : StraightClear(b, boxes \ ({b} \cup ahead(b)))
        /\ FastUnload(ids, boxes) = boxes \ targets
    BY DEF FastUnload
  <1>2. /\ Onboard(boxes) /\ IsFiniteSet(boxes) /\ Ids(boxes) \subseteq Goods
    BY DEF Floors, OnFloor, Onboard, AreBoxes, Goods
  <1>3. ASSUME NEW id \in ids
        PROVE  /\ Get(boxes, id) \in boxes /\ Get(boxes, id).id = id /\ id \in Int /\ far(id) \in Int
    <2>1. Get(boxes, id) \in boxes /\ Get(boxes, id).id = id
      BY <1>1, GetIsThere
    <2> DEFINE b == Get(boxes, id)
    <2> HIDE DEF b
    <2>3. IsBox(b) /\ b.id \in Int
      BY <1>2, <2>1 DEF Onboard, AreBoxes, b
    <2>4. b.x \in Int /\ b.l \in Int
      BY <2>3 DEF IsBox
    <2>2. id \in Int /\ b.x \in Int /\ b.l \in Int /\ - (b.x + b.l) \in Int
      BY <2>1, <2>3, <2>4 DEF b
    <2> QED
      BY <2>1, <2>2 DEF b
  <1>4. AreKeys(ids, key, 2)
    <2>1. IsFiniteSet(ids)
      <3>1. IsFiniteSet(Goods)
        BY PlanIsWellFormed
      <3> QED
        BY <1>1, <1>2, <3>1, FS_Subset
    <2>2. ASSUME NEW id \in ids PROVE key[id] \in Keys(2)
      <3>1. ASSUME NEW x \in Int, NEW y \in Int PROVE <<x, y>> \in Keys(2)
        BY DEF Keys
      <3> HIDE DEF far
      <3> QED
        BY <1>3, <3>1
    <2>3. ASSUME NEW i \in ids, NEW j \in ids, key[i] = key[j] PROVE i = j
      <3> HIDE DEF far
      <3> QED
        BY <2>3
    <2> HIDE DEF key
    <2> QED
      BY <2>1, <2>2, <2>3 DEF AreKeys
  <1> HIDE DEF key, order, n
  <1>5. /\ n \in Nat /\ order \in [1 .. n -> ids] /\ Len(order) = n
        /\ \A i \in ids : \E k \in 1 .. n : order[k] = i
        /\ \A k, l \in 1 .. n : k < l => Before(key[order[k]], key[order[l]])
    BY <1>4, SortedIsInOrder DEF n, order
  <1>6. ASSUME NEW k \in 1 .. n, NEW l \in 1 .. n, k < l
        PROVE  far(order[k]) <= far(order[l]) /\ order[k] # order[l]
    <2>1. order[k] \in ids /\ order[l] \in ids
      BY <1>5
    <2>2. Before(key[order[k]], key[order[l]])
      BY <1>5, <1>6
    <2>3. key[order[k]] = <<far(order[k]), order[k]>> /\ key[order[l]] = <<far(order[l]), order[l]>>
      BY <2>1 DEF key
    <2>4. far(order[k]) \in Int /\ far(order[l]) \in Int /\ order[k] \in Int /\ order[l] \in Int
      BY <1>3, <2>1
    <2> HIDE DEF far
    <2>5. far(order[k]) <= far(order[l])
      BY <2>2, <2>3, <2>4, PairsInOrder
    <2>6. order[k] # order[l]
      BY <1>4, <2>1, <2>2, BeforeIsOrder DEF AreKeys
    <2> QED
      BY <2>5, <2>6
  <1>7. order \in SetToSeqs(ids)
    <2>1. \A i, j \in 1 .. n : i # j => order[i] # order[j]
      <3> SUFFICES ASSUME NEW i \in 1 .. n, NEW j \in 1 .. n, i # j PROVE order[i] # order[j]
        OBVIOUS
      <3>1. i < j \/ j < i
        BY <1>5
      <3> QED
        BY <1>6, <3>1
    <2> QED
      BY <1>5, <2>1 DEF SetToSeqs, n
  <1>8. ASSUME NEW k \in 1 .. Len(order)
        PROVE  CanLeave(Get(boxes, order[k]), {c \in boxes : \A j \in 1 .. k : c.id # order[j]})
    <2> DEFINE b == Get(boxes, order[k])
               rest == {c \in boxes : \A j \in 1 .. k : c.id # order[j]}
    <2>1. k \in 1 .. n /\ order[k] \in ids /\ k \in 1 .. k
      BY <1>5, <1>8
    <2>2. b \in boxes /\ b.id = order[k] /\ b \in targets
      BY <1>3, <2>1
    <2>3. IsBox(b) /\ Inside(b) /\ Clear(b, boxes \ {b})
      BY <1>2, <2>2 DEF Onboard, AreBoxes
    <2>4. ASSUME NEW c \in rest PROVE c \in boxes \ ({b} \cup ahead(b))
      <3>1. c \in boxes /\ c # b
        BY <2>1, <2>2
      <3>2. SUFFICES ASSUME c.id \in ids, c.x + c.l > b.x + b.l PROVE FALSE
        BY <3>1
      <3>3. PICK m \in 1 .. n : order[m] = c.id
        BY <1>5, <3>2
      <3>4. ~ (m \in 1 .. k)
        BY <3>3
      <3>5. k < m
        BY <1>5, <2>1, <3>4
      <3>6. far(order[k]) <= far(order[m])
        BY <1>6, <2>1, <3>5
      <3>7. Get(boxes, order[m]) = c
        BY <1>2, <1>3, <3>1, <3>2, <3>3 DEF Onboard
      <3>8. - (b.x + b.l) <= - (c.x + c.l)
        BY <3>6, <3>7
      <3>9. b.x \in Int /\ b.l \in Int /\ c.x \in Int /\ c.l \in Int
        BY <1>2, <2>2, <3>1 DEF Onboard, AreBoxes, IsBox
      <3> HIDE DEF b
      <3> QED
        BY <3>2, <3>8, <3>9
    <2>5. StraightClear(b, boxes \ ({b} \cup ahead(b)))
      BY <1>1, <2>2
    <2>6. b \notin rest /\ rest \subseteq boxes
      BY <2>1, <2>2
    <2> HIDE DEF b, rest, ahead, targets
    <2>7. StraightClear(b, rest) /\ Clear(b, rest)
      BY <2>3, <2>4, <2>5, <2>6 DEF StraightClear, Clear
    <2>8. PathClear(b, rest)
      BY <2>3, <2>7 DEF PathClear
    <2>9. AreBoxes(rest)
      BY <1>2, <2>6, SomeAreBoxes DEF Onboard
    <2>10. CanLeave(b, rest)
      BY <2>3, <2>7, <2>8, <2>9, ClearPathLeaves
    <2> QED
      BY <2>10 DEF b, rest
  <1>9. Leave(ids, boxes)
    BY <1>7, <1>8 DEF Leave, LeaveInOrder
  <1> QED
    BY <1>1, <1>9

LEMMA NothingLeaves ==
  ASSUME NEW boxes
  PROVE  Leave({}, boxes)
  <1>1. Cardinality({}) = 0 /\ 1 .. 0 = {}
    BY FS_EmptySet
  <1>2. <<>> \in SetToSeqs({}) /\ Len(<<>>) = 0
    BY <1>1 DEF SetToSeqs
  <1> QED
    BY <1>1, <1>2 DEF Leave, LeaveInOrder

LEMMA NothingLoads ==
  ASSUME plan \in Plans, NEW stops, NEW boxes \in SUBSET Everything
  PROVE  Loadings(TRUE, stops, {}, boxes) = {boxes}
  <1>1. Cardinality({}) = 0
    BY FS_EmptySet
  <1>2. {} \in SUBSET Goods
    OBVIOUS
  <1> QED
    <2>1. PICK f : LoadsInSteps(stops, {}, boxes, 0, f)
      BY <1>1, <1>2, LoadingsInSteps
    <2> QED
      BY <2>1 DEF LoadsInSteps

LEMMA LoadingsOfEverything ==
  ASSUME plan \in Plans, NEW ids \in SUBSET Goods, NEW stops, NEW boxes \in SUBSET Everything
  PROVE  Loadings(TRUE, stops, ids, boxes) \in SUBSET (SUBSET Everything)
  <1> DEFINE n == Cardinality(ids)
  <1>1. n \in Nat
    <2>1. IsFiniteSet(ids)
      BY PlanIsWellFormed, FS_Subset
    <2> QED
      BY <2>1, FS_CardinalityType
  <1>2. PICK f : LoadsInSteps(stops, ids, boxes, n, f)
    BY LoadingsInSteps
  <1> HIDE DEF n
  <1> DEFINE A == {k \in Nat : k <= n => f[k] \in SUBSET (SUBSET Everything)}
  <1>3. 0 \in A
    BY <1>2 DEF LoadsInSteps
  <1>4. ASSUME NEW k \in Nat, k \in A PROVE k + 1 \in A
    <2> SUFFICES ASSUME k + 1 <= n, NEW l \in f[k + 1] PROVE l \in SUBSET Everything
      OBVIOUS
    <2>1. k + 1 \in 1 .. n /\ (k + 1) - 1 = k /\ f[k] \in SUBSET (SUBSET Everything)
      BY <1>1, <1>4
    <2>2. f[k + 1] = UNION {OneMore(TRUE, stops, ids \ Ids(bs), bs) : bs \in f[k]}
      BY <1>2, <2>1 DEF LoadsInSteps
    <2>3. PICK bs \in f[k] : l \in OneMore(TRUE, stops, ids \ Ids(bs), bs)
      BY <2>2
    <2>4. bs \in SUBSET Everything /\ ids \ Ids(bs) \in SUBSET Goods
      BY <2>1
    <2>5. OneMore(TRUE, stops, ids \ Ids(bs), bs) \in SUBSET (SUBSET Everything)
      BY <2>4, MoreOfEverything
    <2> QED
      BY <2>3, <2>5
  <1> HIDE DEF A
  <1>5. Nat \subseteq A
    BY <1>3, <1>4, Numbers
  <1>6. f[n] \in SUBSET (SUBSET Everything)
    <2>1. n \in A /\ n <= n
      BY <1>1, <1>5
    <2> QED
      BY <2>1 DEF A
  <1> QED
    BY <1>2, <1>6 DEF LoadsInSteps

(* What a stop does that the quick check lets pass can be done.             *)
LEMMA StopIsServed ==
  ASSUME plan \in Plans, NEW k \in 1 .. Len(plan.stops), NEW boxes \in Floors,
         FastStop(plan.stops, boxes, plan.stops[k]) # NoBoxes
  PROVE  /\ FastStop(plan.stops, boxes, plan.stops[k]) \in Floors
         /\ FastStop(plan.stops, boxes, plan.stops[k]) \in Served(TRUE, plan.stops, k, boxes)
  <1> DEFINE stops == plan.stops
             out == ToSet(stops[k].unload)
             in == ToSet(stops[k].load)
             kept == {b \in boxes : b.id \notin out}
             after == FastStop(stops, boxes, stops[k])
  <1>1. /\ stops[k].load \in Seq(Goods) /\ stops[k].unload \in Seq(Goods)
        /\ stops[k].load = <<>> \/ stops[k].unload = <<>>
    BY PlanIsWellFormed, StopsAssumption DEF IsStop
  <1>2. ToSet(<<>>) = {}
    BY DEF ToSet
  <1> HIDE DEF stops
  <1>3. CASE stops[k].unload = <<>>
    <2>1. after = FastLoad(stops[k].load, boxes, stops)
      BY <1>3 DEF FastStop
    <2>2. out = {} /\ kept = boxes /\ Leave(out, boxes)
      BY <1>2, <1>3, NothingLeaves
    <2>3. after # NoBoxes
      BY DEF stops
    <2> HIDE DEF after
    <2>4. /\ after \in Floors
          /\ in \cap Ids(boxes) = {} /\ \A id \in in : ~ Item(id).tall
          /\ after \in Loadings(TRUE, stops, in, boxes)
      BY <1>1, <2>1, <2>3, LoadedIsLoading
    <2> HIDE DEF out, in, kept
    <2>5. after \in Loadings(TRUE, stops, in, kept) /\ in \cap Ids(kept) = {} /\ out \subseteq Ids(boxes)
      BY <2>2, <2>4
    <2>6. after \in Served(TRUE, stops, k, boxes)
      BY <2>2, <2>4, <2>5 DEF Served, out, in, kept
    <2> QED
      BY <2>4, <2>6 DEF stops, after
  <1>4. CASE stops[k].unload # <<>>
    <2>1. after = FastUnload(out, boxes)
      BY <1>4 DEF FastStop
    <2>2. in = {}
      BY <1>1, <1>2, <1>4
    <2>3. after # NoBoxes
      BY DEF stops
    <2> HIDE DEF after, out, in
    <2>4. out \subseteq Ids(boxes) /\ Leave(out, boxes) /\ after = kept
      BY <2>1, <2>3, UnloadedLeaves
    <2>5. kept \in Floors /\ kept \in SUBSET Everything
      <3>1. kept \in SUBSET boxes
        OBVIOUS
      <3> HIDE DEF kept
      <3>2. Onboard(kept)
        BY <3>1, FewerOnboard DEF Floors, OnFloor
      <3>3. Ids(kept) \subseteq Ids(boxes)
        BY <3>1 DEF Ids
      <3> QED
        BY <3>1, <3>2, <3>3 DEF Floors, OnFloor
    <2> HIDE DEF kept
    <2>6. Loadings(TRUE, stops, in, kept) = {kept}
      BY <2>2, <2>5, NothingLoads
    <2>7. after \in Served(TRUE, stops, k, boxes)
      <3>1. after \in Loadings(TRUE, stops, in, kept) /\ in \cap Ids(kept) = {}
        BY <2>2, <2>4, <2>6
      <3> QED
        BY <2>2, <2>4, <3>1 DEF Served, out, in, kept
    <2> QED
      BY <2>4, <2>5, <2>7 DEF stops, after
  <1> QED
    BY <1>3, <1>4

LEMMA StopIsLaid ==
  ASSUME plan \in Plans, NEW k \in 1 .. Len(plan.stops), NEW boxes \in Laid
  PROVE  /\ FastStop(plan.stops, boxes, plan.stops[k]) \in Laid
         /\ boxes = NoBoxes => FastStop(plan.stops, boxes, plan.stops[k]) = NoBoxes
  <1> DEFINE stops == plan.stops
  <1>1. stops[k].load \in Seq(Goods) /\ stops[k].unload \in Seq(Goods)
    BY PlanIsWellFormed DEF IsStop
  <1> HIDE DEF stops
  <1>2. ASSUME boxes = NoBoxes PROVE FastStop(stops, boxes, stops[k]) = NoBoxes
    <2>1. CASE stops[k].unload = <<>>
      <3> DEFINE items == stops[k].load
                 n == Len(items)
      <3>7. items \in Seq(Goods)
        BY <1>1
      <3> HIDE DEF items
      <3>1. n \in Nat /\ \A j \in 1 .. n : items[j] \in Goods
        BY <3>7
      <3>2. PICK f : /\ f[0] = boxes /\ f[n] = FastLoad(items, boxes, stops)
                     /\ \A j \in 0 .. n : f[j] \in Laid
                     /\ \A j \in 1 .. n : f[j] = FastPlace(items[j], f[j - 1], stops)
        BY <3>7, FastLoadInSteps
      <3> HIDE DEF n
      <3> DEFINE A == {j \in Nat : j <= n => f[j] = NoBoxes}
      <3>3. 0 \in A
        BY <1>2, <3>2
      <3>4. ASSUME NEW j \in Nat, j \in A PROVE j + 1 \in A
        <4> SUFFICES ASSUME j + 1 <= n PROVE f[j + 1] = NoBoxes
          OBVIOUS
        <4>1. j + 1 \in 1 .. n /\ (j + 1) - 1 = j /\ f[j] = NoBoxes
          BY <3>1, <3>4
        <4>2. f[j + 1] = FastPlace(items[j + 1], NoBoxes, stops)
          BY <3>2, <4>1
        <4> QED
          BY <4>2 DEF FastPlace
      <3> HIDE DEF A
      <3>5. Nat \subseteq A
        BY <3>3, <3>4, Numbers
      <3>6. f[n] = NoBoxes
        <4>1. n \in A /\ n <= n
          BY <3>1, <3>5
        <4> QED
          BY <4>1 DEF A
      <3> QED
        BY <2>1, <3>2, <3>6 DEF FastStop, items
    <2>2. CASE stops[k].unload # <<>>
      <3> DEFINE u == stops[k].unload
      <3>1. u \in Seq(Goods) /\ u # <<>>
        BY <1>1, <2>2
      <3> HIDE DEF u
      <3>2. 1 \in 1 .. Len(u) /\ u[1] \in Goods
        BY <3>1
      <3>3. u[1] \in ToSet(u)
        BY <3>1, <3>2 DEF ToSet
      <3>4. ~ (ToSet(u) \subseteq Ids(boxes))
        BY <1>2, <3>2, <3>3, NoBoxesOnFloor
      <3>5. FastUnload(ToSet(u), boxes) = NoBoxes
        BY <3>4 DEF FastUnload
      <3> QED
        BY <2>2, <3>5 DEF FastStop, u
    <2> QED
      BY <2>1, <2>2
  <1>3. ASSUME FastStop(stops, boxes, stops[k]) # NoBoxes
        PROVE  FastStop(stops, boxes, stops[k]) \in Floors
    <2>1. boxes \in Floors
      BY <1>2, <1>3 DEF Laid
    <2> QED
      BY <1>3, <2>1, StopIsServed DEF stops
  <1> QED
    BY <1>2, <1>3 DEF Laid, stops

LEMMA ServedOfEverything ==
  ASSUME plan \in Plans, NEW k \in 1 .. Len(plan.stops), NEW boxes \in SUBSET Everything
  PROVE  Served(TRUE, plan.stops, k, boxes) \in SUBSET (SUBSET Everything)
  <1> DEFINE in == ToSet(plan.stops[k].load)
             kept == {b \in boxes : b.id \notin ToSet(plan.stops[k].unload)}
  <1>1. in \in SUBSET Goods
    <2>1. plan.stops[k].load \in Seq(Goods)
      BY PlanIsWellFormed DEF IsStop
    <2> QED
      BY <2>1 DEF ToSet
  <1>2. kept \in SUBSET Everything
    OBVIOUS
  <1> DEFINE stops == plan.stops
             all == Loadings(TRUE, stops, in, kept)
  <1>3. Served(TRUE, stops, k, boxes) \in {all, {}}
    BY DEF Served
  <1> HIDE DEF in, kept, stops
  <1> QED
    <2>1. all \in SUBSET (SUBSET Everything)
      BY <1>1, <1>2, LoadingsOfEverything
    <2>2. {} \in SUBSET (SUBSET Everything)
      OBVIOUS
    <2> HIDE DEF all
    <2> QED
      BY <1>3, <2>1, <2>2 DEF stops

-----------------------------------------------------------------------------
(* The whole route.                                                         *)
FastStops(stops, f) ==
  [k \in 0 .. Len(stops) |-> IF k = 0 THEN {} ELSE FastStop(stops, f[k - 1], stops[k])]
ServedStops(stops, f) ==
  [k \in 0 .. Len(stops) |-> IF k = 0 THEN {{}} ELSE UNION {Served(TRUE, stops, k, bs) : bs \in f[k - 1]}]

LEMMA FastAcceptsIsRecursion ==
  ASSUME NEW stops
  PROVE  FastAccepts(stops) <=> (CHOOSE f : f = FastStops(stops, f))[Len(stops)] = {}
  BY DEF FastAccepts, FastStops

LEMMA ExecutableIsRecursion ==
  ASSUME NEW stops
  PROVE  Executable(TRUE, stops) <=> (CHOOSE f : f = ServedStops(stops, f))[Len(stops)] # {}
  BY DEF Executable, ServedStops

LEMMA FastStopsExist ==
  ASSUME plan \in Plans
  PROVE  \E f : f = FastStops(plan.stops, f)
  <1> DEFINE stops == plan.stops
             n == Len(stops)
             next == [k \in 1 .. n |-> [bs \in Laid |-> FastStop(stops, bs, stops[k])]]
  <1>1. n \in Nat /\ {} \in Laid
    BY PlanIsWellFormed, NoBoxesOnFloor DEF Laid
  <1>2. next \in [1 .. n -> [Laid -> Laid]]
    BY StopIsLaid
  <1> HIDE DEF stops, n
  <1>3. PICK f \in [0 .. n -> Laid] : f = Iterates(n, {}, next, f)
    <2> HIDE DEF next
    <2> QED
      BY <1>1, <1>2, Iteration
  <1>4. ASSUME NEW k \in 0 .. n
        PROVE  Iterates(n, {}, next, f)[k] = FastStops(stops, f)[k]
    <2>1. CASE k = 0
      BY <2>1 DEF Iterates, FastStops, n
    <2>2. CASE k # 0
      <3>1. k \in 1 .. n /\ k - 1 \in 0 .. n
        BY <1>1, <2>2
      <3>2. f[k - 1] \in Laid
        BY <3>1
      <3>3. next[k][f[k - 1]] = FastStop(stops, f[k - 1], stops[k])
        BY <3>1, <3>2
      <3> QED
        BY <2>2, <3>3 DEF Iterates, FastStops, n
    <2> QED
      BY <2>1, <2>2
  <1>5. Iterates(n, {}, next, f) = [k \in 0 .. n |-> Iterates(n, {}, next, f)[k]]
    BY DEF Iterates
  <1>6. FastStops(stops, f) = [k \in 0 .. n |-> FastStops(stops, f)[k]]
    BY DEF FastStops, n
  <1> HIDE DEF next
  <1>7. f = FastStops(stops, f)
    BY <1>3, <1>4, <1>5, <1>6
  <1> QED
    BY <1>7 DEF stops

LEMMA ServedStopsExist ==
  ASSUME plan \in Plans
  PROVE  \E f : f = ServedStops(plan.stops, f)
  <1> DEFINE stops == plan.stops
             n == Len(stops)
             V == SUBSET (SUBSET Everything)
             served(k, L) == UNION {Served(TRUE, stops, k, bs) : bs \in L}
             next == [k \in 1 .. n |-> [L \in V |-> served(k, L)]]
  <1>1. n \in Nat /\ {{}} \in V
    BY PlanIsWellFormed
  <1>2. ASSUME NEW k \in 1 .. n, NEW L \in V PROVE served(k, L) \in V
    <2>1. ASSUME NEW l \in served(k, L) PROVE l \in SUBSET Everything
      <3>1. PICK bs \in L : l \in Served(TRUE, stops, k, bs)
        OBVIOUS
      <3>2. bs \in SUBSET Everything
        OBVIOUS
      <3>3. Served(TRUE, stops, k, bs) \in SUBSET (SUBSET Everything)
        BY <3>2, ServedOfEverything
      <3> QED
        BY <3>1, <3>3
    <2> HIDE DEF served
    <2> QED
      BY <2>1
  <1> HIDE DEF stops, n, V
  <1>3. next \in [1 .. n -> [V -> V]]
    <2> HIDE DEF served
    <2> QED
      BY <1>2
  <1>4. PICK f \in [0 .. n -> V] : f = Iterates(n, {{}}, next, f)
    <2> HIDE DEF next
    <2> QED
      BY <1>1, <1>3, Iteration
  <1>5. ASSUME NEW k \in 0 .. n
        PROVE  Iterates(n, {{}}, next, f)[k] = ServedStops(stops, f)[k]
    <2>1. CASE k = 0
      BY <2>1 DEF Iterates, ServedStops, n
    <2>2. CASE k # 0
      <3>1. k \in 1 .. n /\ k - 1 \in 0 .. n
        BY <1>1, <2>2
      <3>2. f[k - 1] \in V
        BY <3>1
      <3>3. next[k][f[k - 1]] = served(k, f[k - 1])
        <4> HIDE DEF served
        <4> QED
          BY <3>1, <3>2
      <3> QED
        BY <2>2, <3>3 DEF Iterates, ServedStops, n
    <2> QED
      BY <2>1, <2>2
  <1>6. Iterates(n, {{}}, next, f) = [k \in 0 .. n |-> Iterates(n, {{}}, next, f)[k]]
    BY DEF Iterates
  <1>7. ServedStops(stops, f) = [k \in 0 .. n |-> ServedStops(stops, f)[k]]
    BY DEF ServedStops, n
  <1> HIDE DEF next
  <1>8. f = ServedStops(stops, f)
    BY <1>4, <1>5, <1>6, <1>7
  <1> QED
    BY <1>8 DEF stops

(* A route that passes the quick check can be carried out.                  *)
LEMMA QuickIsExecutable ==
  ASSUME plan \in Plans, FastAccepts(plan.stops)
  PROVE  Executable(TRUE, plan.stops)
  <1> DEFINE stops == plan.stops
             n == Len(stops)
             f == CHOOSE h : h = FastStops(stops, h)
             g == CHOOSE h : h = ServedStops(stops, h)
  <1>1. n \in Nat
    BY PlanIsWellFormed
  <1>2. f = FastStops(stops, f) /\ g = ServedStops(stops, g)
    BY FastStopsExist, ServedStopsExist
  <1>3. f[n] = {} /\ (Executable(TRUE, stops) <=> g[n] # {})
    BY FastAcceptsIsRecursion, ExecutableIsRecursion
  <1> HIDE DEF f, g
  <1>4. /\ \A k \in 0 .. n : f[k] = IF k = 0 THEN {} ELSE FastStop(stops, f[k - 1], stops[k])
        /\ \A k \in 0 .. n : g[k] = IF k = 0 THEN {{}} ELSE UNION {Served(TRUE, stops, k, bs) : bs \in g[k - 1]}
    <2>1. \A k \in 0 .. n : FastStops(stops, f)[k]
             = IF k = 0 THEN {} ELSE FastStop(stops, f[k - 1], stops[k])
      BY DEF FastStops
    <2>2. \A k \in 0 .. n : ServedStops(stops, g)[k]
             = IF k = 0 THEN {{}} ELSE UNION {Served(TRUE, stops, k, bs) : bs \in g[k - 1]}
      BY DEF ServedStops
    <2> HIDE DEF stops, n
    <2> QED
      BY <1>2, <2>1, <2>2
  <1> DEFINE A == {k \in Nat : k <= n => f[k] = NoBoxes \/ (f[k] \in Floors /\ f[k] \in g[k])}
  <1>5. 0 \in A
    <2>1. 0 \in 0 .. n
      BY <1>1
    <2>2. f[0] = {} /\ g[0] = {{}}
      BY <1>4, <2>1
    <2> QED
      BY <2>2, NoBoxesOnFloor
  <1>6. ASSUME NEW k \in Nat, k \in A PROVE k + 1 \in A
    <2> SUFFICES ASSUME k + 1 <= n, f[k + 1] # NoBoxes PROVE f[k + 1] \in Floors /\ f[k + 1] \in g[k + 1]
      OBVIOUS
    <2>1. k + 1 \in 1 .. n /\ k + 1 \in 0 .. n /\ k + 1 # 0 /\ (k + 1) - 1 = k /\ k <= n
      BY <1>1
    <2>2. f[k + 1] = FastStop(stops, f[k], stops[k + 1])
      BY <1>4, <2>1
    <2>3. g[k + 1] = UNION {Served(TRUE, stops, k + 1, bs) : bs \in g[k]}
      BY <1>4, <2>1
    <2>4. f[k] # NoBoxes
      <3> SUFFICES ASSUME f[k] = NoBoxes PROVE FALSE
        OBVIOUS
      <3>1. NoBoxes \in Laid
        BY DEF Laid
      <3> QED
        BY <2>1, <2>2, <3>1, StopIsLaid
    <2>5. f[k] \in Floors /\ f[k] \in g[k]
      BY <1>6, <2>1, <2>4
    <2> DEFINE before == f[k]
               j == k + 1
    <2> HIDE DEF before, j
    <2>6. j \in 1 .. n /\ before \in Floors /\ FastStop(stops, before, stops[j]) # NoBoxes
      BY <2>1, <2>2, <2>5 DEF before, j
    <2>7. FastStop(stops, before, stops[j]) \in Floors
          /\ FastStop(stops, before, stops[j]) \in Served(TRUE, stops, j, before)
      BY <2>6, StopIsServed
    <2> QED
      BY <2>2, <2>3, <2>5, <2>7 DEF before, j
  <1> HIDE DEF A
  <1>7. Nat \subseteq A
    BY <1>5, <1>6, Numbers
  <1>8. f[n] = NoBoxes \/ f[n] \in g[n]
    <2>1. n \in A /\ n <= n
      BY <1>1, <1>7
    <2> QED
      BY <2>1 DEF A
  <1>9. NoBoxes # {}
    BY DEF NoBoxes
  <1> QED
    BY <1>3, <1>8, <1>9

(* What the quick check lets pass can be carried out, also where the search *)
(* finds no layout or gives up.                                             *)
THEOREM QuickCheckIsConservative == Spec => []FastIsConservative
  <1>1. Init => LayoutInv
    BY LayoutInitially
  <1>2. LayoutInv /\ [Next]_vars => LayoutInv'
    BY LayoutStays
  <1>3. LayoutInv => FastIsConservative
    <2>1. LayoutInv => plan \in Plans
      BY DEF LayoutInv, CycleInv
    <2> QED
      BY <2>1, QuickIsExecutable DEF FastIsConservative
  <1> QED
    BY <1>1, <1>2, <1>3, PTL DEF Spec
=============================================================================

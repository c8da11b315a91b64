--------------------------- MODULE InventoryProofs ---------------------------
(***************************************************************************)
(* Proofs about Inventory, for any SKUs, locations, reservations and       *)
(* numbers of transactions at once.  The inductive invariant has layers,   *)
(* each proved from the ones below: types and the shape of a transaction;  *)
(* what the row locks protect; the balances as sums of reservations.       *)
(***************************************************************************)
EXTENDS Inventory, FiniteSetTheorems, WellFoundedInduction, TLAPS

(* What a transaction has at hand at the points of its control.             *)
Formed(x) ==
  /\ x.lines # {} => x.place \in Locations
  /\ \A k, l \in x.lines : k.sku = l.sku => k = l
  /\ x.op # "adjust" => \A l \in x.lines : l.qty \in Quantities
  /\ x.pc \in {"lock", "check", "book", "receive", "read", "adjust"} => x.lines # {}
  /\ x.pc \in {"read", "adjust"} <=> x.op = "adjust"
  /\ x.pc \in {"snapshot", "lockAll"} => x.op \in {"settle", "move"}
  /\ x.pc \in {"snapshot", "lockAll"} /\ x.op = "move" => x.lines # {}
  /\ x.pc \in {"take", "free"} => x.now \in Reservations

TxOK  == tx \in [Transactions -> Tx] /\ \A t \in Transactions : Formed(tx[t])
Typed == TypeOK /\ TxOK

-----------------------------------------------------------------------------
(* The first line of a set of lines exists.                                 *)

LEMMA SmallestSku ==
  ASSUME NEW L \in SUBSET Line, L # {}
  PROVE  \E l \in L : \A m \in L : l.sku <= m.sku
  <1> DEFINE T == {l.sku : l \in L}
             R == {p \in Nat \X Nat : p[1] < p[2]}
  <1>1. T \subseteq Nat /\ T # {}
    BY SkusAssumption DEF Line
  <1>2. IsWellFoundedOn(R, Nat)
    BY NatLessThanWellFounded DEF OpToRel
  <1>3. ASSUME NEW W, IsWellFoundedOn(W, Nat)
        PROVE  \E x \in T : \A y \in T : ~ (<<y, x>> \in W)
    BY <1>1, <1>3, WFMin
  <1>4. PICK x \in T : \A y \in T : ~ (<<y, x>> \in R)
    BY <1>2, <1>3
  <1>5. ASSUME NEW i \in Nat, NEW j \in Nat, ~ (<<i, j>> \in R)
        PROVE  j <= i
    BY <1>5
  <1>6. \A y \in T : x <= y
    <2> HIDE DEF R, T
    <2> QED BY <1>1, <1>4, <1>5
  <1> QED
    BY <1>6

LEMMA FirstLineIsFirst ==
  ASSUME Typed, NEW t \in Transactions, tx[t].lines # {}
  PROVE  /\ FirstLine(t) \in tx[t].lines /\ FirstLine(t) \in Line
         /\ \A m \in tx[t].lines : FirstLine(t).sku <= m.sku
         /\ Balance(t) \in Balances
         /\ tx[t].op # "adjust" => FirstLine(t).qty \in Quantities
  <1>1. tx[t].lines \in SUBSET Line /\ tx[t].place \in Locations
    BY DEF Typed, TxOK, Formed, Tx
  <1>2. \E l \in tx[t].lines : \A m \in tx[t].lines : l.sku <= m.sku
    BY <1>1, SmallestSku
  <1>3. FirstLine(t) \in tx[t].lines /\ \A m \in tx[t].lines : FirstLine(t).sku <= m.sku
    BY <1>2 DEF FirstLine
  <1>4. FirstLine(t) \in Line
    BY <1>1, <1>3
  <1>5. Balance(t) \in Balances
    BY <1>1, <1>4 DEF Balance, Balances, Line
  <1>6. tx[t].op # "adjust" => FirstLine(t).qty \in Quantities
    BY <1>3 DEF Typed, TxOK, Formed
  <1> QED
    BY <1>3, <1>4, <1>5, <1>6

-----------------------------------------------------------------------------
(* How an action changes the record of its transaction.                     *)

LEMMA SetTx ==
  ASSUME Typed, NEW t \in Transactions, NEW x \in Tx, Formed(x), tx' = [tx EXCEPT ![t] = x]
  PROVE  TxOK'
  BY DEF Typed, TxOK

LEMMA EndTx ==
  ASSUME Typed, NEW t \in Transactions, End(t) \/ Fail(t)
  PROVE  TxOK'
  <1> DEFINE x(l) == [IdleTx EXCEPT !.pc = l]
  <1>1. \A l \in {"end", "fail"} : x(l) \in Tx /\ Formed(x(l))
    BY NoAssumption DEF IdleTx, Tx, Operation, Control, Formed
  <1>2. tx' = [tx EXCEPT ![t] = x("end")] \/ tx' = [tx EXCEPT ![t] = x("fail")]
    BY DEF End, Fail
  <1> HIDE DEF x
  <1> QED
    BY <1>1, <1>2, SetTx

LEMMA GotoTx ==
  ASSUME Typed, NEW t \in Transactions, NEW l \in {"check", "book"}, Goto(t, l),
         tx[t].pc \in {"lock", "check"}
  PROVE  TxOK'
  <1> DEFINE x == [tx[t] EXCEPT !.pc = l]
  <1>1. x \in Tx /\ Formed(x)
    BY DEF Typed, TxOK, Tx, Control, Formed
  <1>2. tx' = [tx EXCEPT ![t] = x]
    BY DEF Goto
  <1> QED
    BY <1>1, <1>2, SetTx

LEMMA NextLineTx ==
  ASSUME Typed, NEW t \in Transactions, NEW l, NextLine(t, l),
         \/ tx[t].pc = "book" /\ l = "lock"
         \/ tx[t].pc = "receive" /\ l = "receive"
         \/ tx[t].pc = "adjust" /\ l = "read"
  PROVE  TxOK'
  <1> DEFINE rest == tx[t].lines \ {FirstLine(t)}
             x == [tx[t] EXCEPT !.lines = rest, !.pc = l, !.seen = 0]
  <1>1. CASE rest = {}
    BY <1>1, EndTx DEF NextLine
  <1>2. CASE rest # {}
    <2>1. tx[t] \in Tx /\ Formed(tx[t])
      BY DEF Typed, TxOK
    <2>2. x \in Tx
      BY <2>1 DEF Tx, Control
    <2>3. Formed(x)
      BY <1>2, <2>1 DEF Formed, Tx
    <2>4. tx' = [tx EXCEPT ![t] = x]
      BY <1>2 DEF NextLine
    <2> QED BY <2>2, <2>3, <2>4, SetTx
  <1> QED
    BY <1>1, <1>2

LEMMA NextReleaseTx ==
  ASSUME Typed, NEW t \in Transactions, NEW todo \in SUBSET Reservations, NextRelease(t, todo),
         tx[t].pc \in {"hold", "free"}
  PROVE  TxOK'
  <1> DEFINE x == [tx[t] EXCEPT !.todo = todo, !.now = NoReservation,
                                !.pc = IF todo = {} THEN "lock" ELSE "hold"]
  <1>1. CASE todo = {} /\ tx[t].lines = {}
    BY <1>1, EndTx DEF NextRelease
  <1>2. CASE ~(todo = {} /\ tx[t].lines = {})
    <2>1. tx[t] \in Tx /\ Formed(tx[t])
      BY DEF Typed, TxOK
    <2>2. x \in Tx
      BY <2>1 DEF Tx, Control
    <2>3. Formed(x)
      BY <1>2, <2>1 DEF Formed, Tx
    <2>4. tx' = [tx EXCEPT ![t] = x]
      BY <1>2 DEF NextRelease
    <2> QED BY <2>2, <2>3, <2>4, SetTx
  <1> QED
    BY <1>1, <1>2

LEMMA OpenTx ==
  ASSUME Typed, NEW t \in Transactions, Request(t)
  PROVE  TxOK' /\ UNCHANGED <<stock, reservation, oldStock, oldReservation, lock, hold>>
  <1> DEFINE x(op, l, o, p, L, todo) ==
               [IdleTx EXCEPT !.op = op, !.pc = l, !.order = o, !.place = p, !.lines = L,
                              !.todo = todo]
  <1>1. ASSUME NEW op, NEW l, NEW o, NEW p, NEW L, NEW todo, Open(t, op, l, o, p, L, todo),
               x(op, l, o, p, L, todo) \in Tx, Formed(x(op, l, o, p, L, todo))
        PROVE  TxOK' /\ UNCHANGED <<stock, reservation, oldStock, oldReservation, lock, hold>>
    <2>1. tx' = [tx EXCEPT ![t] = x(op, l, o, p, L, todo)]
      BY <1>1 DEF Open
    <2>2. TxOK'
      <3> HIDE DEF x
      <3> QED BY <2>1, <1>1, SetTx
    <2> QED BY <2>2, <1>1 DEF Open, rows, old
  <1>2. CASE CreateReservation(t)
    <2>1. PICK o \in Orders, p \in Locations, L \in LineSets(Lines) :
            Open(t, "reserve", "lock", o, p, L, {})
      BY <1>2 DEF CreateReservation
    <2>2. L \in SUBSET Line /\ \A l \in L : l.qty \in Quantities
      BY LinesAssumption DEF LineSets, Line, Quantities
    <2>3. x("reserve", "lock", o, p, L, {}) \in Tx
      BY <2>2, NoAssumption DEF IdleTx, Tx, Operation, Control
    <2>4. Formed(x("reserve", "lock", o, p, L, {}))
      BY <2>2 DEF IdleTx, Formed, LineSets
    <2> QED BY <2>1, <2>3, <2>4, <1>1
  <1>3. CASE CommitReservation(t) \/ ReleaseReservation(t)
    <2>1. PICK op \in {"commit", "release"}, r \in Reservations :
            Open(t, op, "hold", NoOrder, NoPlace, {}, {r})
      BY <1>3 DEF CommitReservation, ReleaseReservation
    <2>3. x(op, "hold", NoOrder, NoPlace, {}, {r}) \in Tx
      BY NoAssumption DEF IdleTx, Tx, Operation, Control
    <2>4. Formed(x(op, "hold", NoOrder, NoPlace, {}, {r}))
      BY DEF IdleTx, Formed
    <2> QED BY <2>1, <2>3, <2>4, <1>1
  <1>4. CASE SettleOrderReservations(t)
    <2>1. PICK o \in Orders, p \in Locations, L \in LineSets(PickedLines) \cup {{}} :
            Open(t, "settle", "snapshot", o, p, L, {})
      BY <1>4 DEF SettleOrderReservations
    <2>2. /\ L \in SUBSET Line /\ \A l \in L : l.qty \in Quantities
          /\ \A k, l \in L : k.sku = l.sku => k = l
      BY LinesAssumption DEF LineSets, Line, Quantities
    <2>3. x("settle", "snapshot", o, p, L, {}) \in Tx
      BY <2>2, NoAssumption DEF IdleTx, Tx, Operation, Control
    <2>4. Formed(x("settle", "snapshot", o, p, L, {}))
      BY <2>2 DEF IdleTx, Formed
    <2> QED BY <2>1, <2>3, <2>4, <1>1
  <1>5. CASE MoveOrderReservations(t)
    <2>1. PICK o \in Orders, p \in Locations, L \in LineSets(Lines) :
            Open(t, "move", "snapshot", o, p, L, {})
      BY <1>5 DEF MoveOrderReservations
    <2>2. L \in SUBSET Line /\ \A l \in L : l.qty \in Quantities
      BY LinesAssumption DEF LineSets, Line, Quantities
    <2>3. x("move", "snapshot", o, p, L, {}) \in Tx
      BY <2>2, NoAssumption DEF IdleTx, Tx, Operation, Control
    <2>4. Formed(x("move", "snapshot", o, p, L, {}))
      BY <2>2 DEF IdleTx, Formed, LineSets
    <2> QED BY <2>1, <2>3, <2>4, <1>1
  <1>6. CASE CreateReceipt(t)
    <2>1. PICK p \in Locations, L \in LineSets(Lines) :
            Open(t, "receive", "receive", NoOrder, p, L, {})
      BY <1>6 DEF CreateReceipt
    <2>2. L \in SUBSET Line /\ \A l \in L : l.qty \in Quantities
      BY LinesAssumption DEF LineSets, Line, Quantities
    <2>3. x("receive", "receive", NoOrder, p, L, {}) \in Tx
      BY <2>2, NoAssumption DEF IdleTx, Tx, Operation, Control
    <2>4. Formed(x("receive", "receive", NoOrder, p, L, {}))
      BY <2>2 DEF IdleTx, Formed, LineSets
    <2> QED BY <2>1, <2>3, <2>4, <1>1
  <1>7. CASE CreateAdjustment(t)
    <2>1. PICK p \in Locations, L \in LineSets(DeltaLines) :
            Open(t, "adjust", "read", NoOrder, p, L, {})
      BY <1>7 DEF CreateAdjustment
    <2>2. L \in SUBSET Line
      BY LinesAssumption DEF LineSets, Line
    <2>3. x("adjust", "read", NoOrder, p, L, {}) \in Tx
      BY <2>2, NoAssumption DEF IdleTx, Tx, Operation, Control
    <2>4. Formed(x("adjust", "read", NoOrder, p, L, {}))
      BY <2>2 DEF IdleTx, Formed, LineSets
    <2> QED BY <2>1, <2>3, <2>4, <1>1
  <1> QED
    BY <1>2, <1>3, <1>4, <1>5, <1>6, <1>7 DEF Request

-----------------------------------------------------------------------------
(* Type correctness, an action at a time.                                   *)

LEMMA TypedParts ==
  ASSUME stock' \in [Balances -> Stock], oldStock' \in [Balances -> Stock],
         reservation' \in [Reservations -> Reservation],
         oldReservation' \in [Reservations -> Reservation],
         lock' \in [Balances -> Transactions \cup {NoTx}],
         hold' \in [Reservations -> Transactions \cup {NoTx}],
         TxOK'
  PROVE  Typed'
  BY DEF Typed, TypeOK, TxOK

LEMMA LockTyped ==
  ASSUME Typed, NEW t \in Transactions
  PROVE  /\ \A b \in Balances : Lock(t, b) => lock' \in [Balances -> Transactions \cup {NoTx}]
         /\ \A r \in Reservations : Hold(t, r) => hold' \in [Reservations -> Transactions \cup {NoTx}]
  BY DEF Typed, TypeOK, Lock, Hold

(* What the operations do to a balance.                                     *)
LEMMA StockFields ==
  ASSUME NEW s \in Stock
  PROVE  /\ s.known \in BOOLEAN /\ s.onHand \in Nat /\ s.reserved \in Nat /\ s.ledger \in Int
         /\ \A k \in BOOLEAN, o, r \in Nat, g \in Int :
              [known |-> k, onHand |-> o, reserved |-> r, ledger |-> g] \in Stock
  BY DEF Stock

LEMMA SetField ==
  ASSUME NEW s \in Stock
  PROVE  /\ [s EXCEPT !.known = TRUE] \in Stock
         /\ [s EXCEPT !.known = TRUE].reserved = s.reserved
         /\ [s EXCEPT !.known = TRUE].known = TRUE
         /\ \A h \in Nat : /\ [s EXCEPT !.onHand = h] \in Stock
                           /\ [s EXCEPT !.onHand = h].known = s.known
                           /\ [s EXCEPT !.onHand = h].reserved = s.reserved
                           /\ [s EXCEPT !.onHand = h].onHand = h
         /\ \A g \in Int : /\ [s EXCEPT !.ledger = g] \in Stock
                           /\ [s EXCEPT !.ledger = g].known = s.known
                           /\ [s EXCEPT !.ledger = g].onHand = s.onHand
                           /\ [s EXCEPT !.ledger = g].reserved = s.reserved
                           /\ [s EXCEPT !.ledger = g].ledger = g
  BY DEF Stock

LEMMA ShippedStock ==
  ASSUME NEW s \in Stock, NEW q \in Nat, q <= s.onHand
  PROVE  /\ Shipped(s, q) \in Stock
         /\ Shipped(s, q).onHand = s.onHand - q
         /\ Shipped(s, q).ledger = s.ledger - q
         /\ Shipped(s, q).reserved = s.reserved /\ Shipped(s, q).known = s.known
  <1>1. s.onHand - q \in Nat /\ s.ledger - q \in Int
    BY StockFields
  <1> DEFINE m == [s EXCEPT !.onHand = s.onHand - q]
  <1>2. m \in Stock /\ m.known = s.known /\ m.reserved = s.reserved /\ m.onHand = s.onHand - q
    BY <1>1, SetField
  <1>3. LET x == [m EXCEPT !.ledger = s.ledger - q]
        IN /\ x \in Stock /\ x.known = s.known /\ x.onHand = s.onHand - q
           /\ x.reserved = s.reserved /\ x.ledger = s.ledger - q
    <2> HIDE DEF m
    <2> QED BY <1>1, <1>2, SetField
  <1> QED
    BY <1>3 DEF Shipped

LEMMA UnreservedStock ==
  ASSUME NEW s \in Stock, NEW q \in Nat, q <= s.reserved
  PROVE  /\ Unreserved(s, q) \in Stock
         /\ Unreserved(s, q).reserved = s.reserved - q
         /\ Unreserved(s, q).onHand = s.onHand /\ Unreserved(s, q).known = s.known
         /\ Unreserved(s, q).ledger = s.ledger
  <1>1. Unreserved(s, q) = [known |-> s.known, onHand |-> s.onHand,
                            reserved |-> s.reserved - q, ledger |-> s.ledger]
    BY DEF Unreserved, Stock
  <1>2. s.reserved - q \in Nat
    BY StockFields
  <1> QED
    BY <1>1, <1>2, StockFields

LEMMA ReservedStock ==
  ASSUME NEW s \in Stock, NEW q \in Nat
  PROVE  /\ Reserved(s, q) \in Stock
         /\ Reserved(s, q).reserved = s.reserved + q
         /\ Reserved(s, q).onHand = s.onHand /\ Reserved(s, q).known = s.known
         /\ Reserved(s, q).ledger = s.ledger
  <1>1. Reserved(s, q) = [known |-> s.known, onHand |-> s.onHand,
                          reserved |-> s.reserved + q, ledger |-> s.ledger]
    BY DEF Reserved, Stock
  <1>2. s.reserved + q \in Nat
    BY StockFields
  <1> QED
    BY <1>1, <1>2, StockFields

LEMMA SettledStock ==
  ASSUME NEW s \in Stock, NEW q \in Nat, NEW c \in Nat, q <= s.reserved, c <= s.onHand
  PROVE  /\ Unreserved(Shipped(s, c), q) \in Stock
         /\ Unreserved(Shipped(s, c), q).reserved = s.reserved - q
         /\ Unreserved(Shipped(s, c), q).onHand = s.onHand - c
         /\ Unreserved(Shipped(s, c), q).ledger = s.ledger - c
         /\ Unreserved(Shipped(s, c), q).known = s.known
  <1>1. /\ Shipped(s, c) \in Stock
        /\ Shipped(s, c).onHand = s.onHand - c
        /\ Shipped(s, c).ledger = s.ledger - c
        /\ Shipped(s, c).reserved = s.reserved /\ Shipped(s, c).known = s.known
    BY ShippedStock
  <1> QED
    BY <1>1, UnreservedStock

LEMMA ReceivedStock ==
  ASSUME NEW s \in Stock, NEW q \in Nat
  PROVE  /\ Received(s, q) \in Stock
         /\ Received(s, q).onHand = s.onHand + q
         /\ Received(s, q).ledger = s.ledger + q
         /\ Received(s, q).reserved = s.reserved
         /\ Received(s, q).known = TRUE
  <1> DEFINE k == [s EXCEPT !.known = TRUE]
             m == [k EXCEPT !.onHand = s.onHand + q]
  <1>1. s.onHand + q \in Nat /\ s.ledger + q \in Int
    BY StockFields
  <1>2. k \in Stock /\ k.reserved = s.reserved /\ k.known = TRUE
    BY SetField
  <1>3. m \in Stock /\ m.reserved = s.reserved /\ m.onHand = s.onHand + q /\ m.known = TRUE
    <2> HIDE DEF k
    <2> QED BY <1>1, <1>2, SetField
  <1>4. LET x == [m EXCEPT !.ledger = s.ledger + q]
        IN /\ x \in Stock /\ x.onHand = s.onHand + q /\ x.reserved = s.reserved
           /\ x.ledger = s.ledger + q /\ x.known = TRUE
    <2> HIDE DEF m
    <2> QED BY <1>1, <1>3, SetField
  <1> QED
    BY <1>4 DEF Received

LEMMA AdjustedStock ==
  ASSUME NEW s \in Stock, NEW seen \in Nat, NEW d \in Int, seen + d \in Nat
  PROVE  /\ Adjusted(s, seen, d) \in Stock
         /\ Adjusted(s, seen, d).reserved = s.reserved
         /\ Adjusted(s, seen, d).onHand = seen + d
         /\ Adjusted(s, seen, d).ledger = s.ledger + d
         /\ Adjusted(s, seen, d).known = s.known
  <1> DEFINE m == [s EXCEPT !.onHand = seen + d]
  <1>1. m \in Stock /\ m.reserved = s.reserved /\ m.onHand = seen + d /\ m.known = s.known
    BY SetField
  <1>2. s.ledger + d \in Int
    BY StockFields
  <1>3. LET x == [m EXCEPT !.ledger = s.ledger + d]
        IN /\ x \in Stock /\ x.reserved = s.reserved /\ x.onHand = seen + d
           /\ x.ledger = s.ledger + d /\ x.known = s.known
    <2> HIDE DEF m
    <2> QED BY <1>1, <1>2, SetField
  <1> QED
    BY <1>3 DEF Adjusted

LEMMA AdjustedOnHand ==
  ASSUME NEW s \in Stock, NEW seen \in Nat, NEW d \in Int
  PROVE  Adjusted(s, seen, d).onHand = seen + d
  BY DEF Adjusted, Stock

LEMMA SellTyped ==
  ASSUME Typed, NEW t \in Transactions, LockBalance(t) \/ CheckSellable(t)
  PROVE  Typed'
  <1>1. tx[t].lines # {} => Balance(t) \in Balances
    BY FirstLineIsFirst
  <1>2. tx[t].lines # {}
    BY DEF Typed, TxOK, Formed, LockBalance, CheckSellable
  <1>3. lock' \in [Balances -> Transactions \cup {NoTx}]
    BY <1>1, <1>2, LockTyped DEF LockBalance, CheckSellable, rows, Typed, TypeOK
  <1>4. TxOK'
    BY GotoTx, EndTx DEF LockBalance, CheckSellable
  <1>5. UNCHANGED <<stock, reservation, hold, oldStock, oldReservation>>
    BY DEF LockBalance, CheckSellable, rows, old
  <1> QED
    BY <1>3, <1>4, <1>5, TypedParts DEF Typed, TypeOK

LEMMA BookTyped ==
  ASSUME Typed, NEW t \in Transactions, Book(t)
  PROVE  Typed'
  <1> DEFINE l == FirstLine(t)
             b == Balance(t)
             s == Reserved(stock[b], l.qty)
  <1>1. tx[t].lines # {} /\ tx[t].pc = "book" /\ tx[t].op # "adjust"
    BY DEF Typed, TxOK, Formed, Book
  <1>2. b \in Balances /\ l.qty \in Quantities
    BY <1>1, FirstLineIsFirst
  <1>3. UNCHANGED <<oldStock, oldReservation>>
    BY DEF Book, old
  <1>4. CASE Sound(s)
    <2>1. PICK r \in Reservations :
            /\ reservation' = [reservation EXCEPT ![r] =
                 [status |-> "ACTIVE", order |-> tx[t].order, bal |-> b, qty |-> l.qty]]
            /\ stock' = [stock EXCEPT ![b] = s]
            /\ Lock(t, b)
            /\ Hold(t, r)
            /\ NextLine(t, "lock")
      BY <1>4 DEF Book
    <2>2. stock[b] \in Stock /\ tx[t].order \in Orders \cup {NoOrder}
      BY <1>2 DEF Typed, TypeOK, Tx
    <2>3. s \in Stock
      <3>1. l.qty \in Nat
        BY <1>2, QuantityAssumption DEF Quantities
      <3> QED BY <2>2, <3>1, ReservedStock
    <2>4. stock' \in [Balances -> Stock]
      BY <2>1, <2>3 DEF Typed, TypeOK
    <2>5. reservation' \in [Reservations -> Reservation]
      BY <1>2, <2>1, <2>2 DEF Typed, TypeOK, Reservation, Status
    <2>6. TxOK'
      BY <1>1, <2>1, NextLineTx
    <2> QED
      BY <1>2, <1>3, <2>1, <2>4, <2>5, <2>6, LockTyped, TypedParts DEF Typed, TypeOK
  <1>5. CASE ~Sound(s)
    <2>1. Fail(t) /\ UNCHANGED <<stock, reservation, lock, hold>>
      BY <1>5 DEF Book, rows
    <2> QED
      BY <1>3, <2>1, EndTx, TypedParts DEF Typed, TypeOK
  <1> QED
    BY <1>4, <1>5

LEMMA HoldTyped ==
  ASSUME Typed, NEW t \in Transactions, HoldReservation(t)
  PROVE  Typed'
  <1>1. PICK r \in tx[t].todo :
          /\ Hold(t, r)
          /\ \/ Fail(t)
             \/ NextRelease(t, tx[t].todo \ {r})
             \/ \E l \in {"take", "free"} : tx' = [tx EXCEPT ![t].pc = l, ![t].now = r]
    BY Zenon DEF HoldReservation
  <1>2. tx[t] \in Tx /\ Formed(tx[t]) /\ r \in Reservations /\ tx[t].pc = "hold"
    BY DEF Typed, TxOK, Tx, HoldReservation
  <1>3. tx[t].todo \ {r} \in SUBSET Reservations
    BY <1>2 DEF Tx
  <1>4. ASSUME NEW l \in {"take", "free"}, tx' = [tx EXCEPT ![t].pc = l, ![t].now = r]
        PROVE  TxOK'
    <2> DEFINE x == [tx[t] EXCEPT !.pc = l, !.now = r]
    <2>1. x \in Tx /\ Formed(x)
      BY <1>2 DEF Tx, Control, Formed
    <2>2. tx' = [tx EXCEPT ![t] = x]
      BY <1>4
    <2> QED
      BY <2>1, <2>2, SetTx
  <1>5. TxOK'
    BY <1>1, <1>2, <1>3, <1>4, EndTx, NextReleaseTx
  <1>6. UNCHANGED <<stock, reservation, lock, oldStock, oldReservation>>
    BY DEF HoldReservation, old
  <1> QED
    BY <1>1, <1>2, <1>5, <1>6, LockTyped, TypedParts DEF Typed, TypeOK

LEMMA UseTyped ==
  ASSUME Typed, NEW t \in Transactions, TakeReservation(t) \/ FreeReservation(t)
  PROVE  Typed'
  <1> DEFINE r == tx[t].now
             b == reservation[r].bal
             q == reservation[r].qty
  <1>1. r \in Reservations /\ tx[t] \in Tx /\ tx[t].pc \in {"take", "free"}
    BY DEF Typed, TxOK, Formed, TakeReservation, FreeReservation
  <1>2. reservation[r] \in Reservation /\ b \in Balances /\ q \in Quantities /\ q \in Nat
    BY <1>1 DEF Typed, TypeOK, Reservation, Quantities
  <1>3. UNCHANGED <<hold, oldStock, oldReservation>>
    BY DEF TakeReservation, FreeReservation, old, rows
  <1>4. stock[b] \in Stock
    BY <1>2 DEF Typed, TypeOK
  <1>5. CASE /\ ~(stock[b].reserved < q)
             /\ TakeReservation(t) => ~(stock[b].onHand < q)
    <2>1. PICK s \in {Unreserved(Shipped(stock[b], q), q), Unreserved(stock[b], q)} :
            /\ TakeReservation(t) \/ s = Unreserved(stock[b], q)
            /\ stock' = [stock EXCEPT ![b] = s]
            /\ Lock(t, b)
      BY <1>5 DEF TakeReservation, FreeReservation
    <2>2. s \in Stock
      <3>1. q <= stock[b].reserved /\ (TakeReservation(t) => q <= stock[b].onHand)
        BY <1>2, <1>4, <1>5 DEF Stock
      <3> QED BY <1>2, <1>4, <2>1, <3>1, SettledStock, UnreservedStock
    <2>3. stock' \in [Balances -> Stock]
      BY <2>1, <2>2 DEF Typed, TypeOK
    <2>4. PICK v \in {"COMMITTED", "RELEASED"} :
            reservation' = [reservation EXCEPT ![r].status = v]
      BY <1>5 DEF TakeReservation, FreeReservation
    <2>5. reservation' \in [Reservations -> Reservation]
      BY <1>1, <1>2, <2>4 DEF Typed, TypeOK, Reservation, Status
    <2>6. tx[t].todo \ {r} \in SUBSET Reservations
      BY <1>1 DEF Tx
    <2>7. End(t) \/ (tx[t].pc = "free" /\ NextRelease(t, tx[t].todo \ {r}))
      BY <1>5 DEF TakeReservation, FreeReservation
    <2>8. TxOK'
      BY <1>1, <2>6, <2>7, EndTx, NextReleaseTx
    <2> QED
      BY <1>2, <1>3, <2>1, <2>3, <2>5, <2>8, LockTyped, TypedParts DEF Typed, TypeOK
  <1>6. CASE ~(/\ ~(stock[b].reserved < q)
               /\ TakeReservation(t) => ~(stock[b].onHand < q))
    <2>1. Fail(t) /\ UNCHANGED <<stock, reservation, lock, hold>>
      BY <1>1, <1>6 DEF TakeReservation, FreeReservation, rows
    <2> QED
      BY <1>3, <2>1, EndTx, TypedParts DEF Typed, TypeOK
  <1> QED
    BY <1>5, <1>6

LEMMA ActiveTyped ==
  ASSUME Typed, NEW t \in Transactions, Snapshot(t) \/ LockActive(t)
  PROVE  Typed'
  <1>1. /\ tx[t] \in Tx /\ Formed(tx[t])
        /\ tx[t].pc \in {"snapshot", "lockAll"}
        /\ tx[t].op \in {"settle", "move"}
        /\ tx[t].op = "move" => tx[t].lines # {}
    BY DEF Typed, TxOK, Formed, Snapshot, LockActive
  <1>2. ActiveOf(t) \in SUBSET Reservations /\ StillActive(t) \in SUBSET Reservations
    BY <1>1 DEF ActiveOf, StillActive, Tx
  <1>3. UNCHANGED <<stock, reservation, lock, oldStock, oldReservation>>
    BY DEF Snapshot, LockActive, rows, old
  <1>4. hold' \in [Reservations -> Transactions \cup {NoTx}]
    BY DEF Snapshot, LockActive, rows, Typed, TypeOK
  <1>5. \/ End(t)
        \/ \E l \in {"lockAll", "settle", "lock", "hold"}, todo \in SUBSET Reservations :
             /\ l = "lock" => tx[t].op = "move"
             /\ tx' = [tx EXCEPT ![t].todo = todo, ![t].pc = l]
    <2>1. CASE Snapshot(t)
      BY <1>2, <2>1 DEF Snapshot
    <2>2. CASE LockActive(t) /\ tx[t].op = "settle"
      BY <1>2, <2>2 DEF LockActive
    <2>3. CASE LockActive(t) /\ tx[t].op # "settle"
      <3>1. \/ End(t)
            \/ tx' = [tx EXCEPT ![t].todo = ActiveOf(t), ![t].pc = "lock"]
            \/ tx' = [tx EXCEPT ![t].todo = ActiveOf(t), ![t].pc = "hold"]
        BY <2>3, Zenon DEF LockActive
      <3> QED BY <1>1, <1>2, <2>3, <3>1
    <2> QED BY <2>1, <2>2, <2>3
  <1>6. ASSUME NEW l \in {"lockAll", "settle", "lock", "hold"}, NEW todo \in SUBSET Reservations,
               l = "lock" => tx[t].op = "move",
               tx' = [tx EXCEPT ![t].todo = todo, ![t].pc = l]
        PROVE  TxOK'
    <2> DEFINE x == [tx[t] EXCEPT !.todo = todo, !.pc = l]
    <2>1. x \in Tx
      BY <1>1 DEF Tx, Control
    <2>2. Formed(x)
      BY <1>1, <1>6 DEF Tx, Formed
    <2>3. tx' = [tx EXCEPT ![t] = x]
      BY <1>6
    <2> QED
      BY <2>1, <2>2, <2>3, SetTx
  <1>7. TxOK'
    BY <1>5, <1>6, EndTx
  <1> QED
    BY <1>3, <1>4, <1>7, TypedParts DEF Typed, TypeOK

LEMMA PickedAtMost ==
  ASSUME Typed, NEW t \in Transactions, tx[t].op # "adjust", NEW sku
  PROVE  Picked(t, sku) \in Nat /\ Picked(t, sku) <= MaxQuantity
  <1>1. \A l \in tx[t].lines : l.qty \in Quantities
    BY DEF Typed, TxOK, Formed
  <1>2. CASE \E l \in tx[t].lines : l.sku = sku
    <2>1. (CHOOSE l \in tx[t].lines : l.sku = sku) \in tx[t].lines
      BY <1>2
    <2> QED BY <1>1, <1>2, <2>1, QuantityAssumption DEF Picked, Quantities
  <1>3. CASE ~ \E l \in tx[t].lines : l.sku = sku
    BY <1>3, QuantityAssumption DEF Picked
  <1> QED
    BY <1>2, <1>3

LEMMA SettleTyped ==
  ASSUME Typed, NEW t \in Transactions, NEW r \in Reservations, SettleReservation(t, r)
  PROVE  Typed'
  <1> DEFINE b == reservation[r].bal
             q == reservation[r].qty
             n == Picked(t, b[1])
             c == AtMost(q, n)
             more == IF n > c THEN {[sku |-> b[1], qty |-> n - c]} ELSE {}
             rest == {l \in tx[t].lines : l.sku # b[1]} \cup more
             todo == tx[t].todo \ {r}
  <1>1. tx[t] \in Tx /\ Formed(tx[t]) /\ tx[t].pc = "settle" /\ tx[t].op # "adjust"
    BY DEF Typed, TxOK, Formed, SettleReservation
  <1>2. reservation[r] \in Reservation /\ b \in Balances /\ q \in Quantities /\ q \in Nat
    BY DEF Typed, TypeOK, Reservation, Quantities
  <1>3. n \in Nat /\ n <= MaxQuantity
    BY <1>1, PickedAtMost
  <1>4. c \in Nat /\ c <= q /\ c <= n
    BY <1>2, <1>3 DEF AtMost
  <1>5. UNCHANGED <<hold, oldStock, oldReservation>>
    BY DEF SettleReservation, old, rows
  <1>6. stock[b] \in Stock
    BY <1>2 DEF Typed, TypeOK
  <1>7. CASE stock[b].reserved < q \/ stock[b].onHand < c
    <2>1. Fail(t) /\ UNCHANGED <<stock, reservation, lock, hold>>
      BY <1>7 DEF SettleReservation, rows
    <2> QED
      BY <1>5, <2>1, EndTx, TypedParts DEF Typed, TypeOK
  <1>8. CASE ~(stock[b].reserved < q \/ stock[b].onHand < c)
    <2>1. /\ stock' = [stock EXCEPT ![b] = SettledBalance(stock[b], q, c)]
          /\ reservation' = [reservation EXCEPT ![r] = SettledReservation(@, c)]
          /\ Lock(t, b)
      BY <1>8 DEF SettleReservation
    <2>2. SettledBalance(stock[b], q, c) \in Stock
      <3>1. q <= stock[b].reserved /\ c <= stock[b].onHand
        BY <1>2, <1>4, <1>6, <1>8 DEF Stock
      <3> QED BY <1>2, <1>4, <1>6, <3>1, SettledStock DEF SettledBalance
    <2>3. stock' \in [Balances -> Stock]
      BY <2>1, <2>2 DEF Typed, TypeOK
    <2>4. c > 0 => c \in Quantities
      BY <1>2, <1>4, QuantityAssumption DEF Quantities
    <2>5. SettledReservation(reservation[r], c) \in Reservation
      BY <1>2, <2>4 DEF SettledReservation, Outcome, Reservation, Status
    <2>6. reservation' \in [Reservations -> Reservation]
      BY <2>1, <2>5 DEF Typed, TypeOK
    <2>7. \/ Fail(t) \/ End(t)
          \/ tx' = [tx EXCEPT ![t].todo = todo, ![t].lines = rest]
      BY <1>8, Zenon DEF SettleReservation
    <2>8. ASSUME tx' = [tx EXCEPT ![t].todo = todo, ![t].lines = rest]
          PROVE  TxOK'
      <3> DEFINE x == [tx[t] EXCEPT !.todo = todo, !.lines = rest]
      <3>1. b[1] \in Skus
        BY <1>2 DEF Balances
      <3>2. /\ more \in SUBSET Line
            /\ \A l \in more : l.sku = b[1] /\ l.qty \in Quantities
            /\ \A k, l \in more : k = l
            /\ more # {} => tx[t].lines # {}
        <4>1. n > c => n - c \in Quantities /\ n - c \in Int
          BY <1>3, <1>4, QuantityAssumption DEF Quantities
        <4>2. n > c => tx[t].lines # {}
          BY <1>3, <1>4 DEF Picked
        <4> QED BY <3>1, <4>1, <4>2 DEF Line
      <3>3. rest \in SUBSET Line
        BY <1>1, <3>2 DEF Tx
      <3>4. x \in Tx
        <4> HIDE DEF rest
        <4> QED BY <1>1, <3>3 DEF Tx
      <3>5. /\ rest # {} => tx[t].lines # {}
            /\ \A k, l \in rest : k.sku = l.sku => k = l
            /\ \A l \in rest : l.qty \in Quantities
        <4> HIDE DEF more
        <4> QED BY <1>1, <3>2 DEF Formed
      <3>6. Formed(x)
        <4> HIDE DEF rest
        <4> QED BY <1>1, <3>5 DEF Tx, Formed
      <3>7. tx' = [tx EXCEPT ![t] = x]
        BY <2>8
      <3> QED
        BY <3>4, <3>6, <3>7, SetTx
    <2>9. TxOK'
      BY <2>7, <2>8, EndTx
    <2> QED
      BY <1>2, <1>5, <2>1, <2>3, <2>6, <2>9, LockTyped, TypedParts DEF Typed, TypeOK
  <1> QED
    BY <1>7, <1>8

LEMMA ReceiveTyped ==
  ASSUME Typed, NEW t \in Transactions, Receive(t)
  PROVE  Typed'
  <1> DEFINE b == Balance(t)
             q == FirstLine(t).qty
  <1>1. tx[t].lines # {} /\ tx[t].pc = "receive" /\ tx[t].op # "adjust"
    BY DEF Typed, TxOK, Formed, Receive
  <1>2. b \in Balances /\ q \in Quantities
    BY <1>1, FirstLineIsFirst
  <1>3. q \in Nat /\ stock[b] \in Stock
    BY <1>2, QuantityAssumption DEF Typed, TypeOK, Quantities
  <1>4. Received(stock[b], q) \in Stock
    BY <1>3, ReceivedStock
  <1>5. /\ stock' = [stock EXCEPT ![b] = Received(stock[b], q)]
        /\ Lock(t, b)
        /\ NextLine(t, "receive")
        /\ UNCHANGED <<reservation, hold, oldStock, oldReservation>>
    BY DEF Receive, old
  <1>6. TxOK'
    BY <1>1, <1>5, NextLineTx
  <1> QED
    BY <1>2, <1>4, <1>5, <1>6, LockTyped, TypedParts DEF Typed, TypeOK

LEMMA AdjustTyped ==
  ASSUME Typed, NEW t \in Transactions, ReadBalance(t) \/ Adjust(t)
  PROVE  Typed'
  <1> DEFINE b == Balance(t)
             s == Adjusted(stock[b], tx[t].seen, FirstLine(t).qty)
             x == [tx[t] EXCEPT !.pc = "adjust", !.seen = StockSeen(t, b).onHand]
  <1>1. /\ tx[t] \in Tx /\ Formed(tx[t]) /\ tx[t].lines # {} /\ tx[t].op = "adjust"
        /\ ReadBalance(t) => tx[t].pc = "read"
        /\ Adjust(t) => tx[t].pc = "adjust"
    BY DEF Typed, TxOK, Formed, ReadBalance, Adjust
  <1>2. b \in Balances /\ FirstLine(t).qty \in Int
    BY <1>1, FirstLineIsFirst DEF Line
  <1>3. stock[b] \in Stock /\ StockSeen(t, b) \in Stock
    BY <1>2 DEF Typed, TypeOK, StockSeen
  <1>4. CASE ReadBalance(t)
    <2>1. x \in Tx /\ Formed(x)
      <3>1. StockSeen(t, b).onHand \in Nat
        BY <1>3 DEF Stock
      <3> QED BY <1>1, <3>1 DEF Tx, Control, Formed
    <2>2. Fail(t) \/ tx' = [tx EXCEPT ![t] = x]
      BY <1>4 DEF ReadBalance
    <2>3. TxOK'
      BY <2>1, <2>2, EndTx, SetTx
    <2> QED
      BY <1>4, <2>3, TypedParts DEF Typed, TypeOK, ReadBalance, rows, old
  <1>5. CASE Adjust(t) /\ Sound(s)
    <2>1. s \in Stock
      <3>1. tx[t].seen \in Nat
        BY <1>1 DEF Tx
      <3>2. s.onHand = tx[t].seen + FirstLine(t).qty
        BY <1>2, <1>3, <3>1, AdjustedOnHand
      <3>3. tx[t].seen + FirstLine(t).qty \in Nat
        BY <1>2, <1>5, <3>1, <3>2 DEF Sound
      <3> QED BY <1>2, <1>3, <3>1, <3>3, AdjustedStock
    <2>2. /\ stock' = [stock EXCEPT ![b] = s]
          /\ Lock(t, b)
          /\ NextLine(t, "read")
      BY <1>5 DEF Adjust
    <2>3. TxOK'
      BY <1>1, <1>5, <2>2, NextLineTx
    <2> QED
      BY <1>2, <1>5, <2>1, <2>2, <2>3, LockTyped, TypedParts DEF Typed, TypeOK, Adjust, old
  <1>6. CASE Adjust(t) /\ ~Sound(s)
    <2>1. Fail(t) /\ UNCHANGED <<stock, lock, reservation, hold, oldStock, oldReservation>>
      BY <1>6 DEF Adjust, old
    <2> QED
      BY <2>1, EndTx, TypedParts DEF Typed, TypeOK
  <1> QED
    BY <1>4, <1>5, <1>6

LEMMA UnlockTyped ==
  ASSUME Typed, NEW t \in Transactions, Commit(t) \/ Rollback(t)
  PROVE  Typed'
  <1> DEFINE x == [IdleTx EXCEPT !.pc = "done"]
  <1>1. x \in Tx /\ Formed(x)
    BY NoAssumption DEF IdleTx, Tx, Operation, Control, Formed
  <1>2. /\ lock' = [b \in Balances |-> IF lock[b] = t THEN NoTx ELSE lock[b]]
        /\ hold' = [r \in Reservations |-> IF hold[r] = t THEN NoTx ELSE hold[r]]
        /\ tx' = [tx EXCEPT ![t] = x]
    BY DEF Commit, Rollback, Unlock
  <1>3. TxOK'
    <2> HIDE DEF x
    <2> QED BY <1>1, <1>2, SetTx
  <1>4. /\ lock' \in [Balances -> Transactions \cup {NoTx}]
        /\ hold' \in [Reservations -> Transactions \cup {NoTx}]
    BY <1>2 DEF Typed, TypeOK
  <1>5. CASE Commit(t)
    <2>1. oldStock' \in [Balances -> Stock] /\ oldReservation' \in [Reservations -> Reservation]
      BY <1>5 DEF Commit, StockSeen, ReservationSeen, Typed, TypeOK
    <2> QED
      BY <1>3, <1>4, <1>5, <2>1, TypedParts DEF Commit, Typed, TypeOK
  <1>6. CASE Rollback(t)
    <2>1. stock' \in [Balances -> Stock] /\ reservation' \in [Reservations -> Reservation]
      BY <1>6 DEF Rollback, Typed, TypeOK
    <2> QED
      BY <1>3, <1>4, <1>6, <2>1, TypedParts DEF Rollback, old, Typed, TypeOK
  <1> QED
    BY <1>5, <1>6

LEMMA HeldIsFinite ==
  ASSUME NEW rs \in [Reservations -> Reservation], NEW b
  PROVE  IsFiniteSet(Held(rs, b)) /\ Cardinality(Held(rs, b)) \in Nat
  <1>1. IsFiniteSet(Quantities)
    BY QuantityAssumption, FS_Interval DEF Quantities
  <1>2. IsFiniteSet(Reservations \X Quantities)
    BY <1>1, ReservationsAssumption, FS_Product
  <1>3. Held(rs, b) \subseteq Reservations \X Quantities
    BY DEF Held
  <1> QED
    BY <1>2, <1>3, FS_Subset, FS_CardinalityType

LEMMA StartTyped ==
  Init => Typed
  <1> SUFFICES ASSUME Init PROVE Typed
    OBVIOUS
  <1>1. NoRow \in Reservation
    <2>1. (CHOOSE b \in Balances : TRUE) \in Balances
      BY SkusAssumption
    <2> QED BY <2>1, QuantityAssumption DEF NoRow, Reservation, Status, Quantities
  <1>2. \A r \in DOMAIN Booked : Booked[r] \in Reservation
    BY BookedAssumption, OpeningAssumption DEF Reservation, Status
  <1>3. AtStart \in [Reservations -> Reservation]
    BY <1>1, <1>2 DEF AtStart
  <1>4. stock \in [Balances -> Stock]
    <2>1. ASSUME NEW b \in Balances PROVE Cardinality(Held(AtStart, b)) \in Nat
      BY <1>3, HeldIsFinite
    <2> QED BY <2>1, OpeningAssumption DEF Init, Stock
  <1>5. IdleTx \in Tx /\ Formed(IdleTx)
    BY NoAssumption DEF IdleTx, Tx, Operation, Control, Formed
  <1>6. TxOK
    BY <1>5 DEF Init, TxOK
  <1> QED
    BY <1>3, <1>4, <1>6 DEF Init, Typed, TypeOK, TxOK

LEMMA StepTyped ==
  Typed /\ [Next]_vars => Typed'
  <1> SUFFICES ASSUME Typed, [Next]_vars PROVE Typed'
    OBVIOUS
  <1>1. ASSUME NEW t \in Transactions, Request(t) PROVE Typed'
    <2>1. TxOK' /\ UNCHANGED <<stock, reservation, oldStock, oldReservation, lock, hold>>
      BY <1>1, OpenTx
    <2> QED BY <2>1, TypedParts DEF Typed, TypeOK
  <1>2. ASSUME NEW t \in Transactions, Step(t) PROVE Typed'
    BY <1>2, SellTyped, BookTyped, HoldTyped, UseTyped, ActiveTyped, SettleTyped, ReceiveTyped,
       AdjustTyped DEF Step
  <1>3. ASSUME NEW t \in Transactions, Commit(t) \/ Rollback(t) PROVE Typed'
    BY <1>3, UnlockTyped
  <1>4. CASE UNCHANGED vars
    BY <1>4 DEF vars, Typed, TypeOK, TxOK
  <1> QED
    BY <1>1, <1>2, <1>3, <1>4 DEF Next

(* The type of every variable: in particular no committed or uncommitted    *)
(* balance is ever negative, whatever requests overlap and roll back.       *)
THEOREM TypeCorrect == Spec => []TypeOK
  <1>1. Typed => TypeOK
    BY DEF Typed
  <1> QED
    BY <1>1, StartTyped, StepTyped, PTL DEF Spec

-----------------------------------------------------------------------------
(* The sum of the active reservations of a balance.                         *)

Counts(v, b) == v.status = "ACTIVE" /\ v.bal = b

LEMMA HeldSame ==
  ASSUME NEW b, NEW rs, NEW other,
         \A r \in Reservations : other[r] = rs[r] \/ (~Counts(rs[r], b) /\ ~Counts(other[r], b))
  PROVE  Held(other, b) = Held(rs, b)
  BY DEF Held, Counts

LEMMA HeldAdd ==
  ASSUME NEW rs \in [Reservations -> Reservation], NEW r \in Reservations,
         NEW v \in Reservation, NEW b, Counts(v, b), ~Counts(rs[r], b)
  PROVE  Cardinality(Held([rs EXCEPT ![r] = v], b)) = Cardinality(Held(rs, b)) + v.qty
  <1> DEFINE new == {r} \X (1 .. v.qty)
             S == Held(rs, b)
  <1>1. v.qty \in Nat /\ v.qty \in Quantities /\ v.qty >= 1
    BY QuantityAssumption DEF Reservation, Quantities
  <1>2. IsFiniteSet(1 .. v.qty) /\ Cardinality(1 .. v.qty) = v.qty
    BY <1>1, FS_Interval
  <1>3. IsFiniteSet({r}) /\ Cardinality({r}) = 1
    BY FS_Singleton
  <1>4. IsFiniteSet(new) /\ Cardinality(new) = v.qty
    <2> DEFINE A == {r}
               B == 1 .. v.qty
    <2>1. IsFiniteSet(A) /\ Cardinality(A) = 1 /\ IsFiniteSet(B) /\ Cardinality(B) = v.qty
      BY <1>2, <1>3
    <2>2. IsFiniteSet(A \X B) /\ Cardinality(A \X B) = Cardinality(A) * Cardinality(B)
      <3> HIDE DEF A, B
      <3> QED BY <2>1, FS_Product
    <2>3. Cardinality(A \X B) = 1 * v.qty
      <3> HIDE DEF A, B
      <3> QED BY <2>1, <2>2
    <2> QED BY <1>1, <2>2, <2>3
  <1>5. IsFiniteSet(S) /\ Cardinality(S) \in Nat
    BY HeldIsFinite
  <1>6. 1 .. v.qty \subseteq Quantities
    BY <1>1, QuantityAssumption DEF Quantities
  <1>7. Held([rs EXCEPT ![r] = v], b) = S \cup new
    <2>1. ASSUME NEW u \in Reservations \X Quantities
          PROVE  u \in Held([rs EXCEPT ![r] = v], b) <=> u \in S \cup new
      <3>1. PICK i \in Reservations, n \in Quantities : u = <<i, n>>
        BY <2>1
      <3>2. n \in Nat /\ n >= 1
        BY QuantityAssumption DEF Quantities
      <3>3. CASE i = r
        BY <1>1, <3>1, <3>2, <3>3 DEF Held, Counts
      <3>4. CASE i # r
        BY <3>1, <3>4 DEF Held
      <3> QED BY <3>3, <3>4
    <2>2. S \cup new \subseteq Reservations \X Quantities
      BY <1>6 DEF Held
    <2>3. Held([rs EXCEPT ![r] = v], b) \subseteq Reservations \X Quantities
      BY DEF Held
    <2> HIDE DEF S, new
    <2> QED BY <2>1, <2>2, <2>3
  <1>8. S \cap new = {}
    BY DEF Held, Counts
  <1>9. Cardinality(S \cup new) = Cardinality(S) + Cardinality(new) - Cardinality(S \cap new)
    <2> HIDE DEF S, new
    <2> QED BY <1>4, <1>5, FS_Union
  <1> HIDE DEF S, new
  <1>10. Cardinality(S \cap new) = 0
    BY <1>8, FS_EmptySet
  <1>11. Cardinality(S \cup new) = Cardinality(S) + v.qty
    BY <1>1, <1>4, <1>5, <1>9, <1>10
  <1>12. Cardinality(Held([rs EXCEPT ![r] = v], b)) = Cardinality(S) + v.qty
    BY <1>7, <1>11
  <1> QED
    BY <1>12 DEF S

LEMMA HeldDrop ==
  ASSUME NEW rs \in [Reservations -> Reservation], NEW r \in Reservations,
         NEW v \in Reservation, NEW b, ~Counts(v, b), Counts(rs[r], b)
  PROVE  Cardinality(Held([rs EXCEPT ![r] = v], b)) = Cardinality(Held(rs, b)) - rs[r].qty
  <1> DEFINE rest == [rs EXCEPT ![r] = v]
  <1>1. rest \in [Reservations -> Reservation] /\ rest[r] = v /\ rs[r] \in Reservation
    OBVIOUS
  <1>2. [rest EXCEPT ![r] = rs[r]] = rs
    OBVIOUS
  <1>3. rs[r].qty \in Nat
    BY <1>1, QuantityAssumption DEF Reservation, Quantities
  <1>4. Cardinality(Held(rest, b)) \in Nat
    BY <1>1, HeldIsFinite
  <1>5. Cardinality(Held([rest EXCEPT ![r] = rs[r]], b)) = Cardinality(Held(rest, b)) + rs[r].qty
    <2> HIDE DEF rest
    <2> QED BY <1>1, HeldAdd
  <1> HIDE DEF rest
  <1>6. Cardinality(Held(rs, b)) = Cardinality(Held(rest, b)) + rs[r].qty
    BY <1>2, <1>5
  <1>7. Cardinality(Held(rest, b)) = Cardinality(Held(rs, b)) - rs[r].qty
    BY <1>3, <1>4, <1>6
  <1> QED
    BY <1>7 DEF rest

(* Each balance is the sum of its reservations, and they can be served.     *)
Summed(s, rs) == \A b \in Balances : s[b].reserved = Cardinality(Held(rs, b)) /\ Sound(s[b])

LEMMA SumAdd ==
  ASSUME Typed, Summed(stock, reservation), NEW b \in Balances, NEW r \in Reservations,
         NEW s \in Stock, NEW v \in Reservation,
         stock' = [stock EXCEPT ![b] = s], reservation' = [reservation EXCEPT ![r] = v],
         Counts(v, b), reservation[r].status # "ACTIVE",
         s.reserved = stock[b].reserved + v.qty, Sound(s)
  PROVE  Summed(stock', reservation')
  <1>1. reservation \in [Reservations -> Reservation] /\ stock \in [Balances -> Stock]
    BY DEF Typed, TypeOK
  <1>2. stock'[b].reserved = Cardinality(Held(reservation', b))
    <2>1. ~Counts(reservation[r], b)
      BY DEF Counts
    <2>2. Cardinality(Held([reservation EXCEPT ![r] = v], b))
            = Cardinality(Held(reservation, b)) + v.qty
      BY <1>1, <2>1, HeldAdd
    <2>3. stock'[b] = s /\ stock[b].reserved = Cardinality(Held(reservation, b))
      BY <1>1 DEF Summed
    <2> QED BY <2>2, <2>3
  <1>3. ASSUME NEW c \in Balances, c # b
        PROVE  stock'[c] = stock[c] /\ Held(reservation', c) = Held(reservation, c)
    <2>1. \A i \in Reservations : \/ reservation'[i] = reservation[i]
                                  \/ ~Counts(reservation[i], c) /\ ~Counts(reservation'[i], c)
      BY <1>1, <1>3 DEF Counts
    <2> QED BY <1>1, <1>3, <2>1, HeldSame
  <1> QED
    BY <1>1, <1>2, <1>3 DEF Summed

LEMMA SumDrop ==
  ASSUME Typed, Summed(stock, reservation), NEW r \in Reservations,
         NEW s \in Stock, NEW v \in Reservation,
         reservation[r].status = "ACTIVE", v.status # "ACTIVE",
         stock' = [stock EXCEPT ![reservation[r].bal] = s],
         reservation' = [reservation EXCEPT ![r] = v],
         s.reserved = stock[reservation[r].bal].reserved - reservation[r].qty, Sound(s)
  PROVE  Summed(stock', reservation')
  <1> DEFINE b == reservation[r].bal
  <1>1. reservation \in [Reservations -> Reservation] /\ stock \in [Balances -> Stock]
    BY DEF Typed, TypeOK
  <1>2. b \in Balances
    BY <1>1 DEF Reservation
  <1>3. stock'[b].reserved = Cardinality(Held(reservation', b))
    <2>1. ~Counts(v, b) /\ Counts(reservation[r], b)
      BY DEF Counts
    <2>2. Cardinality(Held([reservation EXCEPT ![r] = v], b))
            = Cardinality(Held(reservation, b)) - reservation[r].qty
      BY <1>1, <2>1, HeldDrop
    <2>3. stock'[b] = s /\ stock[b].reserved = Cardinality(Held(reservation, b))
      BY <1>1, <1>2 DEF Summed
    <2> QED BY <2>2, <2>3
  <1>4. ASSUME NEW c \in Balances, c # b
        PROVE  stock'[c] = stock[c] /\ Held(reservation', c) = Held(reservation, c)
    <2>1. \A i \in Reservations : \/ reservation'[i] = reservation[i]
                                  \/ ~Counts(reservation[i], c) /\ ~Counts(reservation'[i], c)
      BY <1>1, <1>4 DEF Counts
    <2> QED BY <1>1, <1>4, <2>1, HeldSame
  <1> QED
    BY <1>1, <1>2, <1>3, <1>4 DEF Summed

LEMMA SumKeep ==
  ASSUME Typed, Summed(stock, reservation), NEW b \in Balances, NEW s \in Stock,
         stock' = [stock EXCEPT ![b] = s], UNCHANGED reservation,
         s.reserved = stock[b].reserved, Sound(s)
  PROVE  Summed(stock', reservation')
  BY DEF Summed, Typed, TypeOK

-----------------------------------------------------------------------------
(* What the row locks protect.                                              *)

(* A reservation with an uncommitted change is locked, with its balance, by *)
(* the transaction that changed it, and it was unused before.               *)
Protected ==
  \A r \in Reservations :
    reservation[r] # oldReservation[r] =>
      /\ hold[r] # NoTx
      /\ lock[reservation[r].bal] = hold[r]
      /\ reservation[r].status # "NONE"
      /\ oldReservation[r].status \in {"NONE", "ACTIVE"}
      /\ oldReservation[r].status = "ACTIVE" => oldReservation[r].bal = reservation[r].bal

(* The reservations that a transaction is about to use are its own.         *)
AtHand(t) ==
  /\ \A r \in tx[t].todo : oldReservation[r].status # "NONE"
  /\ tx[t].pc \in {"take", "free"} =>
       hold[tx[t].now] = t /\ reservation[tx[t].now].status = "ACTIVE"
  /\ tx[t].pc = "settle" =>
       \A r \in tx[t].todo : hold[r] = t /\ reservation[r].status = "ACTIVE"
  /\ tx[t].pc \in {"idle", "snapshot", "lockAll"} => \A r \in Reservations : hold[r] # t

(* Both the committed balances and those that are being written.            *)
Balanced == Summed(stock, reservation) /\ Summed(oldStock, oldReservation)

IInv == Typed /\ Protected /\ (\A t \in Transactions : AtHand(t)) /\ Balanced

(* What any step but the last does to the locks, the reservations and the   *)
(* other transactions.                                                      *)
Grabs(t) ==
  /\ \A b \in Balances : lock'[b] # lock[b] => lock[b] = NoTx /\ lock'[b] = t
  /\ \A r \in Reservations : hold'[r] # hold[r] => hold[r] = NoTx /\ hold'[r] = t
  /\ \A u \in Transactions \ {t} : tx'[u] = tx[u]
  /\ UNCHANGED <<oldStock, oldReservation>>

Writes(t) ==
  \A r \in Reservations :
    reservation'[r] # reservation[r] =>
      /\ hold'[r] = t /\ lock'[reservation'[r].bal] = t
      /\ reservation'[r].status # "NONE"
      /\ reservation[r].status \in {"NONE", "ACTIVE"}
      /\ reservation[r].status = "ACTIVE" => reservation[r].bal = reservation'[r].bal

LEMMA LockGrabs ==
  ASSUME Typed, NEW t \in Transactions
  PROVE  /\ \A b \in Balances : Lock(t, b) =>
              /\ lock'[b] = t
              /\ \A c \in Balances : lock'[c] # lock[c] => lock[c] = NoTx /\ lock'[c] = t
         /\ \A r \in Reservations : Hold(t, r) =>
              /\ hold'[r] = t
              /\ \A c \in Reservations : hold'[c] # hold[c] => hold[c] = NoTx /\ hold'[c] = t
  BY DEF Typed, TypeOK, Lock, Hold, CanLock, CanHold

LEMMA StepGrabs ==
  ASSUME Typed, NEW t \in Transactions, Request(t) \/ Step(t)
  PROVE  Grabs(t)
  <1>1. UNCHANGED <<oldStock, oldReservation>>
    <2>1. CASE Request(t)
      BY <2>1, OpenTx
    <2>2. CASE Step(t)
      BY <2>2 DEF Step, LockBalance, CheckSellable, Book, HoldReservation, TakeReservation,
                  FreeReservation, Snapshot, LockActive, SettleReservation, Receive, ReadBalance,
                  Adjust, old
    <2> QED BY <2>1, <2>2
  <1>2. \A u \in Transactions \ {t} : tx'[u] = tx[u]
    <2>1. CASE Request(t)
      BY <2>1 DEF Request, CreateReservation, CommitReservation, ReleaseReservation,
                  SettleOrderReservations, MoveOrderReservations, CreateReceipt,
                  CreateAdjustment, Open, Typed, TypeOK
    <2>2. CASE LockBalance(t) \/ CheckSellable(t) \/ Snapshot(t) \/ ReadBalance(t)
      BY <2>2 DEF LockBalance, CheckSellable, Snapshot, ReadBalance, Goto, End, Fail, Typed, TypeOK
    <2>3. CASE Book(t) \/ Receive(t) \/ Adjust(t)
      BY <2>3 DEF Book, Receive, Adjust, NextLine, End, Fail, Typed, TypeOK
    <2>4. CASE HoldReservation(t)
      <3>1. PICK r \in tx[t].todo :
              \/ Fail(t)
              \/ NextRelease(t, tx[t].todo \ {r})
              \/ \E l \in {"take", "free"} : tx' = [tx EXCEPT ![t].pc = l, ![t].now = r]
        BY <2>4, Zenon DEF HoldReservation
      <3> QED BY <3>1 DEF NextRelease, End, Fail, Typed, TypeOK
    <2>5. CASE TakeReservation(t) \/ FreeReservation(t)
      BY <2>5 DEF TakeReservation, FreeReservation, NextRelease, End, Fail, Typed, TypeOK
    <2>6. CASE LockActive(t)
      <3>1. \/ End(t)
            \/ \E l \in Control, todo \in SUBSET Reservations :
                 tx' = [tx EXCEPT ![t].todo = todo, ![t].pc = l]
        <4>1. ActiveOf(t) \in SUBSET Reservations /\ StillActive(t) \in SUBSET Reservations
          BY DEF ActiveOf, StillActive, Typed, TxOK, Tx
        <4>2. CASE tx[t].op = "settle"
          BY <2>6, <4>1, <4>2 DEF LockActive, Control
        <4>3. CASE tx[t].op # "settle"
          <5>1. \/ End(t)
                \/ tx' = [tx EXCEPT ![t].todo = ActiveOf(t), ![t].pc = "lock"]
                \/ tx' = [tx EXCEPT ![t].todo = ActiveOf(t), ![t].pc = "hold"]
            BY <2>6, <4>3, Zenon DEF LockActive
          <5> QED BY <4>1, <5>1 DEF Control
        <4> QED BY <4>2, <4>3
      <3> QED BY <3>1 DEF End, Typed, TypeOK
    <2>7. ASSUME NEW r \in Reservations, SettleReservation(t, r)
          PROVE  \A u \in Transactions \ {t} : tx'[u] = tx[u]
      <3>1. \/ Fail(t) \/ End(t)
            \/ \E todo, rest : tx' = [tx EXCEPT ![t].todo = todo, ![t].lines = rest]
        BY <2>7, Zenon DEF SettleReservation
      <3> QED BY <3>1 DEF End, Fail, Typed, TypeOK
    <2> QED
      BY <2>1, <2>2, <2>3, <2>4, <2>5, <2>6, <2>7 DEF Step
  <1>3. \A b \in Balances : lock'[b] # lock[b] => lock[b] = NoTx /\ lock'[b] = t
    <2>1. UNCHANGED lock \/ \E b \in Balances : Lock(t, b)
      <3>1. CASE Request(t) \/ CheckSellable(t) \/ HoldReservation(t) \/ Snapshot(t)
                 \/ LockActive(t) \/ ReadBalance(t)
        BY <3>1, OpenTx DEF CheckSellable, HoldReservation, Snapshot, LockActive, ReadBalance, rows
      <3>2. CASE LockBalance(t) \/ Book(t) \/ Receive(t) \/ Adjust(t)
        <4>1. Balance(t) \in Balances
          BY <3>2, FirstLineIsFirst DEF Typed, TxOK, Formed, LockBalance, Book, Receive, Adjust
        <4> QED BY <3>2, <4>1 DEF LockBalance, Book, Receive, Adjust, rows
      <3>3. CASE TakeReservation(t) \/ FreeReservation(t)
        <4>1. reservation[tx[t].now].bal \in Balances
          BY <3>3 DEF Typed, TxOK, Formed, TypeOK, Reservation, TakeReservation, FreeReservation
        <4> QED BY <3>3, <4>1 DEF TakeReservation, FreeReservation, rows
      <3>4. ASSUME NEW r \in Reservations, SettleReservation(t, r)
            PROVE  UNCHANGED lock \/ \E b \in Balances : Lock(t, b)
        <4>1. reservation[r].bal \in Balances
          BY DEF Typed, TypeOK, Reservation
        <4> QED BY <3>4, <4>1 DEF SettleReservation, rows
      <3> QED BY <3>1, <3>2, <3>3, <3>4 DEF Step
    <2> QED BY <2>1, LockGrabs
  <1>4. \A r \in Reservations : hold'[r] # hold[r] => hold[r] = NoTx /\ hold'[r] = t
    <2>1. CASE LockActive(t)
      BY <2>1 DEF LockActive, StillActive, CanHold, Typed, TypeOK
    <2>2. CASE UNCHANGED hold \/ \E r \in Reservations : Hold(t, r)
      BY <2>2, LockGrabs
    <2>3. Request(t) \/ LockBalance(t) \/ CheckSellable(t) \/ TakeReservation(t)
            \/ FreeReservation(t) \/ Snapshot(t) \/ Receive(t) \/ ReadBalance(t) \/ Adjust(t)
            \/ (\E r \in Reservations : SettleReservation(t, r)) => UNCHANGED hold
      BY OpenTx DEF LockBalance, CheckSellable, TakeReservation, FreeReservation, Snapshot,
                    Receive, ReadBalance, Adjust, SettleReservation, rows
    <2>4. Book(t) => UNCHANGED hold \/ \E r \in Reservations : Hold(t, r)
      BY DEF Book, rows
    <2>5. HoldReservation(t) => \E r \in Reservations : Hold(t, r)
      BY DEF HoldReservation, Typed, TxOK, Tx
    <2> QED BY <2>1, <2>2, <2>3, <2>4, <2>5 DEF Step
  <1> QED
    BY <1>1, <1>2, <1>3, <1>4 DEF Grabs

LEMMA ProtectedStep ==
  ASSUME Typed, Typed', Protected, NEW t \in Transactions, Grabs(t), Writes(t)
  PROVE  Protected'
  <1> SUFFICES ASSUME NEW r \in Reservations, reservation'[r] # oldReservation[r]
               PROVE  /\ hold'[r] # NoTx
                      /\ lock'[reservation'[r].bal] = hold'[r]
                      /\ reservation'[r].status # "NONE"
                      /\ oldReservation[r].status \in {"NONE", "ACTIVE"}
                      /\ oldReservation[r].status = "ACTIVE" =>
                           oldReservation[r].bal = reservation'[r].bal
    BY DEF Protected, Grabs
  <1>1. reservation[r] \in Reservation /\ reservation[r].bal \in Balances
    BY DEF Typed, TypeOK, Reservation
  <1>2. CASE reservation'[r] # reservation[r]
    BY <1>2, NoAssumption DEF Protected, Writes
  <1>3. CASE reservation'[r] = reservation[r]
    BY <1>1, <1>3 DEF Protected, Grabs
  <1> QED
    BY <1>2, <1>3

LEMMA OthersAtHand ==
  ASSUME Typed, Protected, NEW t \in Transactions, NEW u \in Transactions, u # t, AtHand(u),
         Grabs(t), Writes(t)
  PROVE  AtHand(u)'
  <1>1. tx'[u] = tx[u] /\ tx[u] \in Tx /\ Formed(tx[u]) /\ oldReservation' = oldReservation
    BY DEF Typed, TxOK, Grabs
  <1>2. ASSUME NEW r \in Reservations, hold[r] = u
        PROVE  hold'[r] = u /\ reservation'[r] = reservation[r]
    BY <1>2, NoAssumption DEF Grabs, Writes
  <1>3. ASSUME NEW r \in Reservations, hold[r] # u PROVE hold'[r] # u
    BY <1>3 DEF Grabs
  <1>4. tx[u].pc \in {"take", "free"} => tx[u].now \in Reservations
    BY <1>1 DEF Formed
  <1>5. tx[u].todo \in SUBSET Reservations
    BY <1>1 DEF Tx
  <1> QED
    BY <1>1, <1>2, <1>3, <1>4, <1>5 DEF AtHand

(* After most steps there is nothing at hand but what is still to be done.  *)
LEMMA LessAtHand ==
  ASSUME NEW t \in Transactions, AtHand(t), UNCHANGED oldReservation,
         tx'[t].todo \subseteq tx[t].todo,
         tx'[t].pc \notin {"idle", "snapshot", "lockAll", "take", "free", "settle"}
  PROVE  AtHand(t)'
  BY DEF AtHand

LEMMA EndAtHand ==
  ASSUME Typed, NEW t \in Transactions, AtHand(t), UNCHANGED oldReservation, End(t) \/ Fail(t)
  PROVE  AtHand(t)'
  <1>1. tx'[t].todo = {} /\ tx'[t].pc \in {"end", "fail"}
    BY DEF End, Fail, IdleTx, Typed, TypeOK
  <1> QED
    BY <1>1, LessAtHand

LEMMA NextLineAtHand ==
  ASSUME Typed, NEW t \in Transactions, AtHand(t), UNCHANGED oldReservation,
         NEW l \in {"lock", "receive", "read"}, NextLine(t, l)
  PROVE  AtHand(t)'
  <1>1. CASE tx[t].lines \ {FirstLine(t)} = {}
    BY <1>1, EndAtHand DEF NextLine
  <1>2. CASE tx[t].lines \ {FirstLine(t)} # {}
    <2>1. tx'[t].todo = tx[t].todo /\ tx'[t].pc = l
      BY <1>2 DEF NextLine, Typed, TypeOK, Tx
    <2> QED BY <2>1, LessAtHand
  <1> QED
    BY <1>1, <1>2

LEMMA NextReleaseAtHand ==
  ASSUME Typed, NEW t \in Transactions, AtHand(t), UNCHANGED oldReservation,
         NEW todo \in SUBSET tx[t].todo, NextRelease(t, todo)
  PROVE  AtHand(t)'
  <1>1. CASE todo = {} /\ tx[t].lines = {}
    BY <1>1, EndAtHand DEF NextRelease
  <1>2. CASE ~(todo = {} /\ tx[t].lines = {})
    <2>1. tx'[t].todo = todo /\ tx'[t].pc \in {"lock", "hold"}
      BY <1>2 DEF NextRelease, Typed, TypeOK, Tx
    <2> QED BY <2>1, LessAtHand
  <1> QED
    BY <1>1, <1>2

-----------------------------------------------------------------------------
(* What the steps write, an action at a time.                               *)

Kept(t) == Writes(t) /\ AtHand(t)' /\ Summed(stock', reservation')

LEMMA QuietWrites ==
  ASSUME NEW t, UNCHANGED <<stock, reservation>>, Balanced
  PROVE  Writes(t) /\ Summed(stock', reservation')
  BY DEF Writes, Balanced, Summed

LEMMA RequestKept ==
  ASSUME IInv, NEW t \in Transactions, Request(t)
  PROVE  Kept(t)
  <1>1. UNCHANGED <<stock, reservation, oldReservation, hold>>
    BY OpenTx DEF IInv
  <1>2. /\ tx[t].pc = "idle"
        /\ \A r \in tx'[t].todo : oldReservation[r].status # "NONE"
        /\ tx'[t].pc \in {"lock", "hold", "snapshot", "receive", "read"}
    <2>1. ASSUME NEW op, NEW l, NEW o, NEW p, NEW L, NEW todo, Open(t, op, l, o, p, L, todo)
          PROVE  tx[t].pc = "idle" /\ tx'[t].todo = todo /\ tx'[t].pc = l
      BY <2>1 DEF Open, IdleTx, IInv, Typed, TypeOK
    <2>2. CASE CommitReservation(t) \/ ReleaseReservation(t)
      <3>1. PICK op \in {"commit", "release"}, r \in Reservations :
              oldReservation[r].status # "NONE" /\ Open(t, op, "hold", NoOrder, NoPlace, {}, {r})
        BY <2>2 DEF CommitReservation, ReleaseReservation
      <3> QED BY <2>1, <3>1
    <2>3. CASE CreateReservation(t) \/ CreateReceipt(t) \/ CreateAdjustment(t)
      <3>1. CreateReservation(t) =>
              \E o, p, L : Open(t, "reserve", "lock", o, p, L, {})
        BY DEF CreateReservation
      <3>2. CreateReceipt(t) =>
              \E p, L : Open(t, "receive", "receive", NoOrder, p, L, {})
        BY DEF CreateReceipt
      <3>3. CreateAdjustment(t) =>
              \E p, L : Open(t, "adjust", "read", NoOrder, p, L, {})
        BY DEF CreateAdjustment
      <3> QED BY <2>1, <2>3, <3>1, <3>2, <3>3
    <2>4. CASE SettleOrderReservations(t) \/ MoveOrderReservations(t)
      <3>1. PICK op, o, p, L : Open(t, op, "snapshot", o, p, L, {})
        BY <2>4 DEF SettleOrderReservations, MoveOrderReservations
      <3> QED BY <2>1, <3>1
    <2> QED
      BY <2>2, <2>3, <2>4 DEF Request
  <1>3. AtHand(t)'
    BY <1>1, <1>2 DEF AtHand, IInv
  <1> QED
    BY <1>1, <1>3, QuietWrites DEF Kept, IInv

LEMMA SellKept ==
  ASSUME IInv, NEW t \in Transactions, LockBalance(t) \/ CheckSellable(t)
  PROVE  Kept(t)
  <1>1. UNCHANGED <<stock, reservation, oldReservation>>
    BY DEF LockBalance, CheckSellable, rows, old
  <1>2. Fail(t) \/ (\E l \in {"check", "book"} : Goto(t, l))
    BY DEF LockBalance, CheckSellable
  <1>3. ASSUME NEW l \in {"check", "book"}, Goto(t, l) PROVE AtHand(t)'
    <2>1. tx'[t].todo = tx[t].todo /\ tx'[t].pc = l
      BY <1>3 DEF Goto, IInv, Typed, TypeOK, Tx
    <2> QED BY <1>1, <2>1, LessAtHand DEF IInv
  <1>4. AtHand(t)'
    BY <1>1, <1>2, <1>3, EndAtHand DEF IInv
  <1> QED
    BY <1>1, <1>4, QuietWrites DEF Kept, IInv

LEMMA BookKept ==
  ASSUME IInv, NEW t \in Transactions, Book(t)
  PROVE  Kept(t)
  <1> DEFINE l == FirstLine(t)
             b == Balance(t)
             s == Reserved(stock[b], l.qty)
  <1>1. tx[t].lines # {} /\ tx[t].op # "adjust" /\ Typed
    BY DEF IInv, Typed, TxOK, Formed, Book
  <1>2. b \in Balances /\ l.qty \in Quantities /\ l.qty \in Nat
    BY <1>1, FirstLineIsFirst, QuantityAssumption DEF Quantities
  <1>3. UNCHANGED oldReservation
    BY DEF Book, old
  <1>4. CASE Sound(s)
    <2> DEFINE v == [status |-> "ACTIVE", order |-> tx[t].order, bal |-> b, qty |-> l.qty]
    <2>1. PICK r \in Reservations :
            /\ reservation[r].status = "NONE"
            /\ reservation' = [reservation EXCEPT ![r] = v]
            /\ stock' = [stock EXCEPT ![b] = s]
            /\ Lock(t, b)
            /\ Hold(t, r)
            /\ NextLine(t, "lock")
      BY <1>4 DEF Book
    <2>2. stock[b] \in Stock /\ tx[t].order \in Orders \cup {NoOrder}
      BY <1>1, <1>2 DEF Typed, TypeOK, Tx
    <2>3. s \in Stock /\ s.reserved = stock[b].reserved + l.qty
      BY <1>2, <2>2, ReservedStock
    <2>4. v \in Reservation /\ v.qty = l.qty /\ Counts(v, b) /\ v.status # "NONE" /\ v.bal = b
      BY <1>2, <2>2 DEF Reservation, Status, Counts
    <2>5. Summed(stock', reservation')
      <3> HIDE DEF s, v, b, l
      <3>1. Summed(stock, reservation)
        BY DEF IInv, Balanced
      <3>2. s.reserved = stock[b].reserved + v.qty
        BY <2>3, <2>4
      <3>3. reservation[r].status # "ACTIVE"
        BY <2>1
      <3> QED BY <1>1, <1>2, <1>4, <2>1, <2>3, <2>4, <3>1, <3>2, <3>3, SumAdd
    <2>6. lock'[b] = t /\ hold'[r] = t
      BY <1>1, <1>2, <2>1, LockGrabs
    <2>7. Writes(t)
      <3> HIDE DEF v, s, b, l
      <3> QED BY <1>1, <2>1, <2>4, <2>6 DEF Writes, Typed, TypeOK
    <2>8. AtHand(t)'
      BY <1>1, <1>3, <2>1, NextLineAtHand DEF IInv
    <2> QED
      BY <2>5, <2>7, <2>8 DEF Kept
  <1>5. CASE ~Sound(s)
    <2>1. Fail(t) /\ UNCHANGED <<stock, reservation>>
      BY <1>5 DEF Book, rows
    <2> QED
      BY <1>3, <2>1, EndAtHand, QuietWrites DEF Kept, IInv
  <1> QED
    BY <1>4, <1>5

LEMMA HoldKept ==
  ASSUME IInv, NEW t \in Transactions, HoldReservation(t)
  PROVE  Kept(t)
  <1>1. UNCHANGED <<stock, reservation, oldReservation>> /\ Typed /\ AtHand(t)
    BY DEF HoldReservation, old, IInv
  <1>2. PICK r \in tx[t].todo :
          /\ Hold(t, r)
          /\ \/ Fail(t)
             \/ NextRelease(t, tx[t].todo \ {r})
             \/ /\ reservation[r].status \in {"ACTIVE", "NONE"}
                /\ \E l \in {"take", "free"} : tx' = [tx EXCEPT ![t].pc = l, ![t].now = r]
    <2>1. PICK r \in tx[t].todo :
            /\ Hold(t, r)
            /\ LET status == reservation[r].status
                   into(l) == tx' = [tx EXCEPT ![t].pc = l, ![t].now = r]
               IN IF tx[t].op = "commit"
                  THEN IF status = "ACTIVE" THEN into("take") ELSE Fail(t)
                  ELSE CASE status = "COMMITTED" -> Fail(t)
                         [] status = "RELEASED"  -> NextRelease(t, tx[t].todo \ {r})
                         [] OTHER                -> into("free")
      BY Zenon DEF HoldReservation
    <2>2. r \in Reservations
      BY <1>1 DEF Typed, TxOK, Tx
    <2>3. reservation[r].status \in Status
      BY <1>1, <2>2 DEF Typed, TypeOK, Reservation
    <2>4. CASE reservation[r].status \in {"ACTIVE", "NONE"}
      <3>1. \/ Fail(t)
            \/ NextRelease(t, tx[t].todo \ {r})
            \/ \E l \in {"take", "free"} : tx' = [tx EXCEPT ![t].pc = l, ![t].now = r]
        BY <2>1, Zenon
      <3> QED BY <2>1, <2>4, <3>1
    <2>5. CASE reservation[r].status \in {"COMMITTED", "RELEASED"}
      <3>1. Fail(t) \/ NextRelease(t, tx[t].todo \ {r})
        BY <2>1, <2>5
      <3> QED BY <2>1, <3>1
    <2> QED BY <2>3, <2>4, <2>5 DEF Status
  <1>3. r \in Reservations /\ tx[t] \in Tx
    BY <1>1 DEF Typed, TxOK, Tx
  <1>4. ASSUME NEW l \in {"take", "free"}, tx' = [tx EXCEPT ![t].pc = l, ![t].now = r],
               reservation[r].status \in {"ACTIVE", "NONE"}
        PROVE  AtHand(t)'
    <2>1. hold'[r] = t
      BY <1>1, <1>2, <1>3, LockGrabs
    <2>2. reservation[r].status = "ACTIVE"
      BY <1>1, <1>2, <1>3, <1>4 DEF AtHand, IInv, Protected
    <2>3. tx'[t].todo = tx[t].todo /\ tx'[t].pc = l /\ tx'[t].now = r
      BY <1>1, <1>3, <1>4 DEF Typed, TypeOK, Tx
    <2> QED BY <1>1, <2>1, <2>2, <2>3 DEF AtHand
  <1>5. AtHand(t)'
    BY <1>1, <1>2, <1>4, EndAtHand, NextReleaseAtHand
  <1> QED
    BY <1>1, <1>5, QuietWrites DEF Kept, IInv

LEMMA UseKept ==
  ASSUME IInv, NEW t \in Transactions, TakeReservation(t) \/ FreeReservation(t)
  PROVE  Kept(t)
  <1> DEFINE r == tx[t].now
             b == reservation[r].bal
             q == reservation[r].qty
  <1>1. /\ r \in Reservations /\ tx[t].pc \in {"take", "free"} /\ Typed /\ AtHand(t)
        /\ hold[r] = t /\ reservation[r].status = "ACTIVE"
    BY DEF IInv, Typed, TxOK, Formed, AtHand, TakeReservation, FreeReservation
  <1>2. reservation[r] \in Reservation /\ b \in Balances /\ q \in Nat
    BY <1>1, QuantityAssumption DEF Typed, TypeOK, Reservation, Quantities
  <1>3. UNCHANGED oldReservation
    BY DEF TakeReservation, FreeReservation, old
  <1>4. stock[b] \in Stock /\ Sound(stock[b]) /\ Summed(stock, reservation)
    BY <1>1, <1>2 DEF IInv, Typed, TypeOK, Balanced, Summed
  <1>5. CASE /\ ~(stock[b].reserved < q)
             /\ TakeReservation(t) => ~(stock[b].onHand < q)
    <2>1. PICK s \in {Unreserved(Shipped(stock[b], q), q), Unreserved(stock[b], q)} :
            /\ TakeReservation(t) \/ s = Unreserved(stock[b], q)
            /\ stock' = [stock EXCEPT ![b] = s]
            /\ Lock(t, b)
      BY <1>5 DEF TakeReservation, FreeReservation
    <2>2. q <= stock[b].reserved /\ (TakeReservation(t) => q <= stock[b].onHand)
      BY <1>2, <1>4, <1>5 DEF Stock
    <2>3. /\ s \in Stock /\ s.reserved = stock[b].reserved - q
          /\ s.onHand = stock[b].onHand \/ s.onHand = stock[b].onHand - q
      <3>1. CASE s = Unreserved(stock[b], q)
        BY <1>2, <1>4, <2>2, <3>1, UnreservedStock
      <3>2. CASE TakeReservation(t) /\ s = Unreserved(Shipped(stock[b], q), q)
        BY <1>2, <1>4, <2>2, <3>2, SettledStock
      <3> QED BY <2>1, <3>1, <3>2
    <2>5. Sound(s)
      BY <1>2, <1>4, <2>3 DEF Sound, Stock
    <2>6. PICK c \in {"COMMITTED", "RELEASED"} :
            reservation' = [reservation EXCEPT ![r] = [reservation[r] EXCEPT !.status = c]]
      BY <1>5 DEF TakeReservation, FreeReservation
    <2> DEFINE v == [reservation[r] EXCEPT !.status = c]
    <2>7. v \in Reservation /\ v.status = c /\ v.bal = b /\ v.status # "ACTIVE"
      BY <1>2 DEF Reservation, Status
    <2>8. Summed(stock', reservation')
      <3>1. reservation' = [reservation EXCEPT ![r] = v]
        BY <2>6
      <3> HIDE DEF v
      <3> QED BY <1>1, <1>4, <2>1, <2>3, <2>5, <2>7, <3>1, SumDrop
    <2>9. hold'[r] = t /\ lock'[b] = t
      BY <1>1, <1>2, <1>5, <2>1, LockGrabs DEF TakeReservation, FreeReservation
    <2>10. Writes(t)
      <3> HIDE DEF v
      <3> QED BY <1>1, <2>6, <2>7, <2>9 DEF Writes, Typed, TypeOK
    <2>11. End(t) \/ NextRelease(t, tx[t].todo \ {r})
      BY <1>5 DEF TakeReservation, FreeReservation
    <2>12. AtHand(t)'
      BY <1>1, <1>3, <2>11, EndAtHand, NextReleaseAtHand
    <2> QED
      BY <2>8, <2>10, <2>12 DEF Kept
  <1>6. CASE ~(/\ ~(stock[b].reserved < q)
               /\ TakeReservation(t) => ~(stock[b].onHand < q))
    <2>1. Fail(t) /\ UNCHANGED <<stock, reservation>>
      BY <1>1, <1>6 DEF TakeReservation, FreeReservation, rows
    <2> QED
      BY <1>1, <1>3, <2>1, EndAtHand, QuietWrites DEF Kept, IInv
  <1> QED
    BY <1>5, <1>6

LEMMA ActiveKept ==
  ASSUME IInv, NEW t \in Transactions, Snapshot(t) \/ LockActive(t)
  PROVE  Kept(t)
  <1>1. /\ UNCHANGED <<stock, reservation, oldReservation>> /\ Typed /\ AtHand(t)
        /\ tx[t] \in Tx
        /\ \A r \in Reservations : hold[r] # t
    BY DEF Snapshot, LockActive, rows, old, IInv, Typed, TxOK, AtHand
  <1>2. /\ ActiveOf(t) \in SUBSET Reservations
        /\ \A r \in ActiveOf(t) : oldReservation[r].status # "NONE"
    BY <1>1 DEF ActiveOf, ReservationSeen
  <1>3. ASSUME NEW l, NEW todo, tx' = [tx EXCEPT ![t].todo = todo, ![t].pc = l]
        PROVE  tx'[t].todo = todo /\ tx'[t].pc = l
    BY <1>1, <1>3 DEF Typed, TypeOK, Tx
  <1>4. CASE Snapshot(t)
    <2>1. tx'[t].todo = ActiveOf(t) /\ tx'[t].pc = "lockAll" /\ hold' = hold
      BY <1>3, <1>4 DEF Snapshot, rows
    <2>2. AtHand(t)'
      BY <1>1, <1>2, <2>1 DEF AtHand
    <2> QED
      BY <1>1, <2>2, QuietWrites DEF Kept, IInv
  <1>5. CASE LockActive(t) /\ tx[t].op = "settle"
    <2>1. \/ End(t)
          \/ tx' = [tx EXCEPT ![t].todo = StillActive(t), ![t].pc = "settle"]
      BY <1>5 DEF LockActive
    <2>2. \A r \in StillActive(t) : /\ hold'[r] = t /\ reservation[r].status = "ACTIVE"
                                    /\ r \in tx[t].todo
      BY <1>1, <1>5 DEF LockActive, StillActive, Tx
    <2>3. CASE tx' = [tx EXCEPT ![t].todo = StillActive(t), ![t].pc = "settle"]
      <3>1. tx'[t].todo = StillActive(t) /\ tx'[t].pc = "settle"
        BY <1>3, <2>3
      <3>2. AtHand(t)'
        BY <1>1, <2>2, <3>1 DEF AtHand
      <3> QED BY <1>1, <3>2, QuietWrites DEF Kept, IInv
    <2> QED
      BY <1>1, <2>1, <2>3, EndAtHand, QuietWrites DEF Kept, IInv
  <1>6. CASE LockActive(t) /\ tx[t].op # "settle"
    <2>1. \/ End(t)
          \/ tx' = [tx EXCEPT ![t].todo = ActiveOf(t), ![t].pc = "lock"]
          \/ tx' = [tx EXCEPT ![t].todo = ActiveOf(t), ![t].pc = "hold"]
      BY <1>6, Zenon DEF LockActive
    <2>2. ASSUME NEW l \in {"lock", "hold"}, tx' = [tx EXCEPT ![t].todo = ActiveOf(t), ![t].pc = l]
          PROVE  AtHand(t)'
      <3>1. tx'[t].todo = ActiveOf(t) /\ tx'[t].pc = l
        BY <1>3, <2>2
      <3> QED BY <1>1, <1>2, <3>1 DEF AtHand
    <2>3. AtHand(t)'
      BY <1>1, <2>1, <2>2, EndAtHand
    <2> QED
      BY <1>1, <2>3, QuietWrites DEF Kept, IInv
  <1> QED
    BY <1>4, <1>5, <1>6

LEMMA SettleKept ==
  ASSUME IInv, NEW t \in Transactions, NEW r \in Reservations, SettleReservation(t, r)
  PROVE  Kept(t)
  <1> DEFINE b == reservation[r].bal
             q == reservation[r].qty
             n == Picked(t, b[1])
             c == AtMost(q, n)
             s == SettledBalance(stock[b], q, c)
             v == SettledReservation(reservation[r], c)
             todo == tx[t].todo \ {r}
  <1>1. /\ tx[t] \in Tx /\ tx[t].pc = "settle" /\ tx[t].op # "adjust" /\ Typed /\ AtHand(t)
        /\ r \in tx[t].todo /\ hold[r] = t /\ reservation[r].status = "ACTIVE"
    BY DEF IInv, Typed, TxOK, Formed, AtHand, SettleReservation
  <1>2. reservation[r] \in Reservation /\ b \in Balances /\ q \in Nat /\ q \in Quantities
    BY <1>1, QuantityAssumption DEF Typed, TypeOK, Reservation, Quantities
  <1>3. n \in Nat
    BY <1>1, PickedAtMost
  <1>4. c \in Nat /\ c <= q
    BY <1>2, <1>3 DEF AtMost
  <1>5. UNCHANGED oldReservation
    BY DEF SettleReservation, old
  <1>6. stock[b] \in Stock /\ Sound(stock[b]) /\ Summed(stock, reservation)
    BY <1>1, <1>2 DEF IInv, Typed, TypeOK, Balanced, Summed
  <1>7. CASE stock[b].reserved < q \/ stock[b].onHand < c
    <2>1. Fail(t) /\ UNCHANGED <<stock, reservation>>
      BY <1>7 DEF SettleReservation, rows
    <2> QED
      BY <1>1, <1>5, <2>1, EndAtHand, QuietWrites DEF Kept, IInv
  <1>8. CASE ~(stock[b].reserved < q \/ stock[b].onHand < c)
    <2>1. /\ stock' = [stock EXCEPT ![b] = s]
          /\ reservation' = [reservation EXCEPT ![r] = v]
          /\ Lock(t, b)
          /\ hold' = hold
      BY <1>8 DEF SettleReservation
    <2>2. q <= stock[b].reserved /\ c <= stock[b].onHand
      BY <1>2, <1>4, <1>6, <1>8 DEF Stock
    <2>3. /\ s \in Stock
          /\ s.reserved = stock[b].reserved - q
          /\ s.onHand = stock[b].onHand - c
      BY <1>2, <1>4, <1>6, <2>2, SettledStock DEF SettledBalance
    <2>4. Sound(s)
      BY <1>2, <1>4, <1>6, <2>2, <2>3 DEF Sound, Stock
    <2>5. c > 0 => c \in Quantities
      BY <1>2, <1>4, QuantityAssumption DEF Quantities
    <2>6. v \in Reservation /\ v.status \in {"COMMITTED", "RELEASED"} /\ v.bal = b
      BY <1>2, <2>5 DEF SettledReservation, Outcome, Reservation, Status
    <2>7. Summed(stock', reservation')
      <3> HIDE DEF v, s, c
      <3> QED BY <1>1, <1>6, <2>1, <2>3, <2>4, <2>6, SumDrop
    <2>8. lock'[b] = t
      BY <1>1, <1>2, <2>1, LockGrabs
    <2>9. Writes(t)
      <3> HIDE DEF v, s, c
      <3> QED BY <1>1, <2>1, <2>6, <2>8 DEF Writes, Typed, TypeOK
    <2>10. \/ Fail(t) \/ End(t)
           \/ \E rest : tx' = [tx EXCEPT ![t].todo = todo, ![t].lines = rest]
      BY <1>8, Zenon DEF SettleReservation
    <2>11. ASSUME NEW rest, tx' = [tx EXCEPT ![t].todo = todo, ![t].lines = rest]
           PROVE  AtHand(t)'
      <3>1. tx'[t].todo = todo /\ tx'[t].pc = "settle"
        BY <1>1, <2>11 DEF Typed, TypeOK, Tx
      <3>2. todo \in SUBSET Reservations
        BY <1>1 DEF Tx
      <3>3. \A i \in todo : reservation'[i] = reservation[i]
        BY <1>1, <2>1, <3>2 DEF Typed, TypeOK
      <3> QED BY <1>1, <1>5, <2>1, <3>1, <3>3 DEF AtHand
    <2>12. AtHand(t)'
      BY <1>1, <1>5, <2>10, <2>11, EndAtHand
    <2> QED
      BY <2>7, <2>9, <2>12 DEF Kept
  <1> QED
    BY <1>7, <1>8

LEMMA ReceiveKept ==
  ASSUME IInv, NEW t \in Transactions, Receive(t)
  PROVE  Kept(t)
  <1> DEFINE b == Balance(t)
             q == FirstLine(t).qty
             s == Received(stock[b], q)
  <1>1. tx[t].lines # {} /\ tx[t].op # "adjust" /\ Typed /\ AtHand(t)
    BY DEF IInv, Typed, TxOK, Formed, Receive
  <1>2. b \in Balances /\ q \in Nat
    BY <1>1, FirstLineIsFirst, QuantityAssumption DEF Quantities
  <1>3. stock[b] \in Stock /\ Sound(stock[b]) /\ Summed(stock, reservation)
    BY <1>1, <1>2 DEF IInv, Typed, TypeOK, Balanced, Summed
  <1>4. s \in Stock /\ s.onHand = stock[b].onHand + q /\ s.reserved = stock[b].reserved
    BY <1>2, <1>3, ReceivedStock
  <1>5. /\ stock' = [stock EXCEPT ![b] = s]
        /\ NextLine(t, "receive")
        /\ UNCHANGED <<reservation, oldReservation>>
    BY DEF Receive, old
  <1>6. Sound(s)
    BY <1>2, <1>3, <1>4, StockFields DEF Sound
  <1>7. Summed(stock', reservation')
    BY <1>1, <1>2, <1>3, <1>4, <1>5, <1>6, SumKeep
  <1>8. AtHand(t)'
    BY <1>1, <1>5, NextLineAtHand
  <1> QED
    BY <1>5, <1>7, <1>8 DEF Kept, Writes

LEMMA AdjustKept ==
  ASSUME IInv, NEW t \in Transactions, ReadBalance(t) \/ Adjust(t)
  PROVE  Kept(t)
  <1> DEFINE b == Balance(t)
             s == Adjusted(stock[b], tx[t].seen, FirstLine(t).qty)
  <1>1. tx[t] \in Tx /\ tx[t].lines # {} /\ Typed /\ AtHand(t)
    BY DEF IInv, Typed, TxOK, Formed, ReadBalance, Adjust
  <1>2. b \in Balances /\ FirstLine(t).qty \in Int
    BY <1>1, FirstLineIsFirst DEF Line
  <1>3. UNCHANGED <<reservation, oldReservation>>
    BY DEF ReadBalance, Adjust, rows, old
  <1>4. stock[b] \in Stock /\ Summed(stock, reservation)
    BY <1>1, <1>2 DEF IInv, Typed, TypeOK, Balanced
  <1>5. CASE ReadBalance(t)
    <2>1. Fail(t) \/ tx' = [tx EXCEPT ![t].pc = "adjust", ![t].seen = StockSeen(t, b).onHand]
      BY <1>5 DEF ReadBalance
    <2>2. ASSUME tx' = [tx EXCEPT ![t].pc = "adjust", ![t].seen = StockSeen(t, b).onHand]
          PROVE  tx'[t].todo = tx[t].todo /\ tx'[t].pc = "adjust"
      BY <1>1, <2>2 DEF Typed, TypeOK, Tx
    <2>3. AtHand(t)'
      BY <1>1, <1>3, <2>1, <2>2, EndAtHand, LessAtHand
    <2>4. UNCHANGED stock
      BY <1>5 DEF ReadBalance, rows
    <2> QED
      BY <1>3, <2>3, <2>4, QuietWrites DEF Kept, IInv
  <1>6. CASE Adjust(t) /\ Sound(s)
    <2>1. stock' = [stock EXCEPT ![b] = s] /\ NextLine(t, "read")
      BY <1>6 DEF Adjust
    <2>2. tx[t].seen \in Nat
      BY <1>1 DEF Tx
    <2>3. s.onHand = tx[t].seen + FirstLine(t).qty
      BY <1>2, <1>4, <2>2, AdjustedOnHand
    <2>4. tx[t].seen + FirstLine(t).qty \in Nat
      BY <1>2, <1>6, <2>2, <2>3 DEF Sound
    <2>5. s \in Stock /\ s.reserved = stock[b].reserved
      BY <1>2, <1>4, <2>2, <2>4, AdjustedStock
    <2>6. Summed(stock', reservation')
      BY <1>1, <1>2, <1>3, <1>4, <1>6, <2>1, <2>5, SumKeep
    <2>7. AtHand(t)'
      BY <1>1, <1>3, <2>1, NextLineAtHand
    <2> QED
      BY <1>3, <2>6, <2>7 DEF Kept, Writes
  <1>7. CASE Adjust(t) /\ ~Sound(s)
    <2>1. Fail(t) /\ UNCHANGED stock
      BY <1>7 DEF Adjust
    <2> QED
      BY <1>1, <1>3, <2>1, EndAtHand, QuietWrites DEF Kept, IInv
  <1> QED
    BY <1>5, <1>6, <1>7

LEMMA StepKept ==
  ASSUME IInv, Typed', NEW t \in Transactions, Request(t) \/ Step(t)
  PROVE  IInv'
  <1>1. Grabs(t)
    BY StepGrabs DEF IInv
  <1>2. Kept(t)
    BY RequestKept, SellKept, BookKept, HoldKept, UseKept, ActiveKept, SettleKept, ReceiveKept,
       AdjustKept DEF Step
  <1>3. Protected'
    BY <1>1, <1>2, ProtectedStep DEF IInv, Kept
  <1>4. \A u \in Transactions : AtHand(u)'
    BY <1>1, <1>2, OthersAtHand DEF IInv, Kept
  <1>5. Balanced'
    BY <1>1, <1>2 DEF Kept, Grabs, Balanced, Summed, IInv
  <1> QED
    BY <1>3, <1>4, <1>5 DEF IInv

-----------------------------------------------------------------------------
(* The end of a transaction: its changes stay, or go, balance by balance.   *)

(* A transaction that has locked a balance has locked every reservation of  *)
(* it that has an uncommitted change, and no other transaction's.           *)
LEMMA ChangesOfBalance ==
  ASSUME Typed, Protected, NEW t \in Transactions, NEW b \in Balances, NEW r \in Reservations,
         reservation[r] # oldReservation[r]
  PROVE  /\ hold[r] = t /\ lock[b] # t =>
              ~Counts(reservation[r], b) /\ ~Counts(oldReservation[r], b)
         /\ hold[r] # t /\ lock[b] = t =>
              ~Counts(reservation[r], b) /\ ~Counts(oldReservation[r], b)
  BY DEF Protected, Counts

LEMMA CommitKept ==
  ASSUME IInv, Typed', NEW t \in Transactions, Commit(t)
  PROVE  IInv'
  <1>1. /\ Typed /\ Protected
        /\ oldReservation' = [r \in Reservations |-> ReservationSeen(t, r)]
        /\ oldStock' = [b \in Balances |-> StockSeen(t, b)]
        /\ UNCHANGED <<stock, reservation>>
        /\ lock' = [b \in Balances |-> IF lock[b] = t THEN NoTx ELSE lock[b]]
        /\ hold' = [r \in Reservations |-> IF hold[r] = t THEN NoTx ELSE hold[r]]
        /\ tx' = [tx EXCEPT ![t] = [IdleTx EXCEPT !.pc = "done"]]
    BY DEF IInv, Commit, Unlock
  <1>2. Protected'
    <2> SUFFICES ASSUME NEW r \in Reservations, reservation'[r] # oldReservation'[r]
                 PROVE  /\ hold'[r] # NoTx
                        /\ lock'[reservation'[r].bal] = hold'[r]
                        /\ reservation'[r].status # "NONE"
                        /\ oldReservation'[r].status \in {"NONE", "ACTIVE"}
                        /\ oldReservation'[r].status = "ACTIVE" =>
                             oldReservation'[r].bal = reservation'[r].bal
      BY DEF Protected
    <2>1. hold[r] # t /\ oldReservation'[r] = oldReservation[r] /\ reservation'[r] = reservation[r]
      BY <1>1 DEF ReservationSeen
    <2>2. reservation[r].bal \in Balances
      BY <1>1 DEF Typed, TypeOK, Reservation
    <2> QED BY <1>1, <2>1, <2>2 DEF Protected
  <1>3. \A u \in Transactions : AtHand(u)'
    <2>1. AtHand(t)'
      <3>1. tx'[t].todo = {} /\ tx'[t].pc = "done"
        BY <1>1 DEF IdleTx, Typed, TypeOK
      <3> QED BY <3>1 DEF AtHand
    <2>2. ASSUME NEW u \in Transactions, u # t PROVE AtHand(u)'
      <3>1. tx'[u] = tx[u] /\ tx[u] \in Tx /\ Formed(tx[u]) /\ AtHand(u)
        BY <1>1, <2>2 DEF Typed, TypeOK, TxOK, IInv
      <3>2. \A r \in Reservations : hold'[r] = u <=> hold[r] = u
        BY <1>1, <2>2, NoAssumption
      <3>3. \A r \in Reservations :
              oldReservation[r].status # "NONE" => oldReservation'[r].status # "NONE"
        BY <1>1 DEF ReservationSeen, Protected
      <3>4. tx[u].todo \in SUBSET Reservations
        BY <3>1 DEF Tx
      <3>5. tx[u].pc \in {"take", "free"} => tx[u].now \in Reservations
        BY <3>1 DEF Formed
      <3> QED BY <1>1, <3>1, <3>2, <3>3, <3>4, <3>5 DEF AtHand
    <2> QED BY <2>1, <2>2
  <1>4. ASSUME NEW b \in Balances
        PROVE  oldStock'[b].reserved = Cardinality(Held(oldReservation', b)) /\ Sound(oldStock'[b])
    <2>1. CASE lock[b] = t
      <3>1. Held(oldReservation', b) = Held(reservation, b)
        <4>1. \A r \in Reservations :
                \/ oldReservation'[r] = reservation[r]
                \/ ~Counts(reservation[r], b) /\ ~Counts(oldReservation'[r], b)
          BY <1>1, <2>1, ChangesOfBalance DEF ReservationSeen
        <4> QED BY <4>1, HeldSame
      <3>2. oldStock'[b] = stock[b]
        BY <1>1, <2>1 DEF StockSeen
      <3> QED BY <3>1, <3>2 DEF IInv, Balanced, Summed
    <2>2. CASE lock[b] # t
      <3>1. Held(oldReservation', b) = Held(oldReservation, b)
        <4>1. \A r \in Reservations :
                \/ oldReservation'[r] = oldReservation[r]
                \/ ~Counts(oldReservation[r], b) /\ ~Counts(oldReservation'[r], b)
          BY <1>1, <2>2, ChangesOfBalance DEF ReservationSeen
        <4> QED BY <4>1, HeldSame
      <3>2. oldStock'[b] = oldStock[b]
        BY <1>1, <2>2 DEF StockSeen
      <3> QED BY <3>1, <3>2 DEF IInv, Balanced, Summed
    <2> QED BY <2>1, <2>2
  <1>5. Balanced'
    BY <1>1, <1>4 DEF IInv, Balanced, Summed
  <1> QED
    BY <1>2, <1>3, <1>5 DEF IInv

LEMMA RollbackKept ==
  ASSUME IInv, Typed', NEW t \in Transactions, Rollback(t)
  PROVE  IInv'
  <1>1. /\ Typed /\ Protected
        /\ reservation' = [r \in Reservations |->
                             IF hold[r] = t THEN oldReservation[r] ELSE reservation[r]]
        /\ stock' = [b \in Balances |-> IF lock[b] = t THEN oldStock[b] ELSE stock[b]]
        /\ UNCHANGED <<oldStock, oldReservation>>
        /\ lock' = [b \in Balances |-> IF lock[b] = t THEN NoTx ELSE lock[b]]
        /\ hold' = [r \in Reservations |-> IF hold[r] = t THEN NoTx ELSE hold[r]]
        /\ tx' = [tx EXCEPT ![t] = [IdleTx EXCEPT !.pc = "done"]]
    BY DEF IInv, Rollback, Unlock, old
  <1>2. Protected'
    <2> SUFFICES ASSUME NEW r \in Reservations, reservation'[r] # oldReservation'[r]
                 PROVE  /\ hold'[r] # NoTx
                        /\ lock'[reservation'[r].bal] = hold'[r]
                        /\ reservation'[r].status # "NONE"
                        /\ oldReservation'[r].status \in {"NONE", "ACTIVE"}
                        /\ oldReservation'[r].status = "ACTIVE" =>
                             oldReservation'[r].bal = reservation'[r].bal
      BY DEF Protected
    <2>1. hold[r] # t /\ oldReservation'[r] = oldReservation[r] /\ reservation'[r] = reservation[r]
      BY <1>1
    <2>2. reservation[r].bal \in Balances
      BY <1>1 DEF Typed, TypeOK, Reservation
    <2> QED BY <1>1, <2>1, <2>2 DEF Protected
  <1>3. \A u \in Transactions : AtHand(u)'
    <2>1. AtHand(t)'
      <3>1. tx'[t].todo = {} /\ tx'[t].pc = "done"
        BY <1>1 DEF IdleTx, Typed, TypeOK
      <3> QED BY <3>1 DEF AtHand
    <2>2. ASSUME NEW u \in Transactions, u # t PROVE AtHand(u)'
      <3>1. tx'[u] = tx[u] /\ tx[u] \in Tx /\ Formed(tx[u]) /\ AtHand(u)
        BY <1>1, <2>2 DEF Typed, TypeOK, TxOK, IInv
      <3>2. \A r \in Reservations : hold'[r] = u <=> hold[r] = u
        BY <1>1, <2>2, NoAssumption
      <3>3. \A r \in Reservations : hold[r] = u => reservation'[r] = reservation[r]
        BY <1>1, <2>2
      <3>4. tx[u].todo \in SUBSET Reservations
        BY <3>1 DEF Tx
      <3>5. tx[u].pc \in {"take", "free"} => tx[u].now \in Reservations
        BY <3>1 DEF Formed
      <3> QED BY <1>1, <3>1, <3>2, <3>3, <3>4, <3>5 DEF AtHand
    <2> QED BY <2>1, <2>2
  <1>4. ASSUME NEW b \in Balances
        PROVE  stock'[b].reserved = Cardinality(Held(reservation', b)) /\ Sound(stock'[b])
    <2>1. CASE lock[b] = t
      <3>1. Held(reservation', b) = Held(oldReservation, b)
        <4>1. \A r \in Reservations :
                \/ reservation'[r] = oldReservation[r]
                \/ ~Counts(oldReservation[r], b) /\ ~Counts(reservation'[r], b)
          BY <1>1, <2>1, ChangesOfBalance
        <4> QED BY <4>1, HeldSame
      <3>2. stock'[b] = oldStock[b]
        BY <1>1, <2>1
      <3> QED BY <3>1, <3>2 DEF IInv, Balanced, Summed
    <2>2. CASE lock[b] # t
      <3>1. Held(reservation', b) = Held(reservation, b)
        <4>1. \A r \in Reservations :
                \/ reservation'[r] = reservation[r]
                \/ ~Counts(reservation[r], b) /\ ~Counts(reservation'[r], b)
          BY <1>1, <2>2, ChangesOfBalance
        <4> QED BY <4>1, HeldSame
      <3>2. stock'[b] = stock[b]
        BY <1>1, <2>2
      <3> QED BY <3>1, <3>2 DEF IInv, Balanced, Summed
    <2> QED BY <2>1, <2>2
  <1>5. Balanced'
    BY <1>1, <1>4 DEF IInv, Balanced, Summed
  <1> QED
    BY <1>2, <1>3, <1>5 DEF IInv

-----------------------------------------------------------------------------
LEMMA StartBalanced ==
  Init => IInv
  <1> SUFFICES ASSUME Init PROVE IInv
    OBVIOUS
  <1>1. Typed
    BY StartTyped
  <1>2. Protected
    BY DEF Init, Protected
  <1>3. \A t \in Transactions : AtHand(t)
    BY NoAssumption DEF Init, AtHand, IdleTx
  <1>4. ASSUME NEW b \in Balances
        PROVE  stock[b].reserved = Cardinality(Held(AtStart, b)) /\ Sound(stock[b])
    <2>1. Cardinality(Held(AtStart, b)) \in Nat
      BY <1>1, HeldIsFinite DEF Init, Typed, TypeOK
    <2>2. CASE b \in DOMAIN Opening
      BY <2>1, <2>2, BookedAssumption, OpeningAssumption DEF Init, Sound
    <2>3. CASE b \notin DOMAIN Opening
      <3>1. Held(AtStart, b) = {}
        BY <2>3, BookedAssumption DEF Held, AtStart, NoRow
      <3> QED BY <2>3, <3>1, FS_EmptySet DEF Init, Sound
    <2> QED BY <2>2, <2>3
  <1>5. Balanced
    BY <1>4 DEF Init, Balanced, Summed
  <1> QED
    BY <1>1, <1>2, <1>3, <1>5 DEF IInv

LEMMA StepBalanced ==
  IInv /\ [Next]_vars => IInv'
  <1> SUFFICES ASSUME IInv, [Next]_vars PROVE IInv'
    OBVIOUS
  <1>1. Typed'
    BY StepTyped DEF IInv
  <1>2. ASSUME NEW t \in Transactions, Request(t) \/ Step(t) PROVE IInv'
    BY <1>1, <1>2, StepKept
  <1>3. ASSUME NEW t \in Transactions, Commit(t) \/ Rollback(t) PROVE IInv'
    BY <1>1, <1>3, CommitKept, RollbackKept
  <1>4. CASE UNCHANGED vars
    BY <1>1, <1>4 DEF vars, IInv, Protected, AtHand, Balanced, Summed
  <1> QED
    BY <1>2, <1>3, <1>4 DEF Next

(* What every committed balance says is reserved is what its active         *)
(* reservations add up to, for any number of concurrent requests.           *)
THEOREM ReservedIsHeldAlways == Spec => []ReservedIsHeld
  <1>1. IInv => ReservedIsHeld
    BY DEF IInv, Balanced, Summed, ReservedIsHeld
  <1> QED
    BY <1>1, StartBalanced, StepBalanced, PTL DEF Spec

(* The goods that reservations hold are on hand, adjustments                *)
(* notwithstanding.                                                         *)
THEOREM HeldIsOnHandAlways == Spec => []HeldIsOnHand
  <1>1. IInv => HeldIsOnHand
    BY DEF IInv, Balanced, Summed, Sound, HeldIsOnHand
  <1> QED
    BY <1>1, StartBalanced, StepBalanced, PTL DEF Spec

(* A reservation that was committed or released is never used again,        *)
(* whatever requests act on it at once.                                     *)
THEOREM UsedOnceAlways == Spec => UsedOnce
  <1> DEFINE Once == \A r \in Reservations :
                       oldReservation[r].status \in {"COMMITTED", "RELEASED"} =>
                         UNCHANGED oldReservation[r]
  <1>1. IInv /\ [Next]_vars => [Once]_vars
    <2> SUFFICES ASSUME IInv, Next PROVE Once
      OBVIOUS
    <2>1. ASSUME NEW t \in Transactions, Request(t) \/ Step(t) PROVE Once
      BY <2>1, StepGrabs DEF IInv, Grabs
    <2>2. ASSUME NEW t \in Transactions, Commit(t) PROVE Once
      BY <2>2 DEF Commit, ReservationSeen, IInv, Protected
    <2>3. ASSUME NEW t \in Transactions, Rollback(t) PROVE Once
      BY <2>3 DEF Rollback, old
    <2> QED BY <2>1, <2>2, <2>3 DEF Next
  <1> QED
    BY <1>1, StartBalanced, StepBalanced, PTL DEF Spec, UsedOnce

-----------------------------------------------------------------------------
(* What a step does to the balances: it changes only one that it has        *)
(* locked, keeps its books as far from its stock as they were unless it     *)
(* writes a value that has gone stale, and reserves more of it only to book *)
(* the line that was checked.                                               *)
Change(t, b) ==
  stock'[b] # stock[b] =>
    /\ lock'[b] = t
    /\ stock[b].known => stock'[b].known
    /\ \/ Drift(stock'[b]) = Drift(stock[b])
       \/ tx[t].pc = "adjust" /\ tx'[t].pc # "adjust" /\ tx[t].seen # stock[b].onHand
    /\ \/ stock'[b].reserved <= stock[b].reserved
       \/ /\ tx[t].pc = "book" /\ b = Balance(t)
          /\ stock'[b].reserved = stock[b].reserved + FirstLine(t).qty
          /\ stock'[b].onHand = stock[b].onHand

LEMMA BookChange ==
  ASSUME Typed, NEW t \in Transactions, Book(t)
  PROVE  \A b \in Balances : Change(t, b)
  <1> DEFINE l == FirstLine(t)
             b == Balance(t)
             s == Reserved(stock[b], l.qty)
  <1>1. tx[t].lines # {} /\ tx[t].pc = "book" /\ tx[t].op # "adjust"
    BY DEF Typed, TxOK, Formed, Book
  <1>2. b \in Balances /\ l.qty \in Nat
    BY <1>1, FirstLineIsFirst, QuantityAssumption DEF Quantities
  <1>3. UNCHANGED stock \/ (stock' = [stock EXCEPT ![b] = s] /\ Lock(t, b))
    <2>1. CASE Sound(s)
      BY <2>1 DEF Book
    <2>2. CASE ~Sound(s)
      BY <2>2 DEF Book, rows
    <2> QED BY <2>1, <2>2
  <1>4. stock \in [Balances -> Stock] /\ stock[b] \in Stock
    BY <1>2 DEF Typed, TypeOK
  <1>5. /\ s.reserved = stock[b].reserved + l.qty /\ s.onHand = stock[b].onHand
        /\ s.known = stock[b].known /\ s.ledger = stock[b].ledger
    BY <1>2, <1>4, ReservedStock
  <1>6. CASE stock' = [stock EXCEPT ![b] = s] /\ Lock(t, b)
    <2>1. lock'[b] = t
      BY <1>2, <1>6, LockGrabs
    <2>2. stock'[b] = s /\ \A c \in Balances : c # b => stock'[c] = stock[c]
      BY <1>2, <1>4, <1>6
    <2>3. Change(t, b)
      <3> HIDE DEF b, l, s
      <3> QED BY <1>1, <1>5, <2>1, <2>2 DEF Change, Drift, b, l
    <2> QED BY <2>2, <2>3 DEF Change
  <1>7. CASE UNCHANGED stock
    BY <1>7 DEF Change
  <1> QED
    BY <1>3, <1>6, <1>7

(* The goods that leave a balance leave its books.                          *)
LEMMA LeaveChange ==
  ASSUME Typed, NEW t \in Transactions, NEW b \in Balances, NEW q \in Nat, NEW c \in Nat,
         q <= stock[b].reserved, c <= stock[b].onHand, Lock(t, b),
         \/ stock' = [stock EXCEPT ![b] = Unreserved(Shipped(stock[b], c), q)]
         \/ stock' = [stock EXCEPT ![b] = Unreserved(stock[b], q)]
  PROVE  \A d \in Balances : Change(t, d)
  <1>1. stock \in [Balances -> Stock] /\ stock[b] \in Stock /\ lock'[b] = t
    BY LockGrabs DEF Typed, TypeOK
  <1>2. \A d \in Balances : d # b => stock'[d] = stock[d]
    BY <1>1
  <1>3. /\ stock'[b].reserved = stock[b].reserved - q /\ stock'[b].known = stock[b].known
        /\ \/ stock'[b].onHand = stock[b].onHand - c /\ stock'[b].ledger = stock[b].ledger - c
           \/ stock'[b].onHand = stock[b].onHand /\ stock'[b].ledger = stock[b].ledger
    <2>1. CASE stock' = [stock EXCEPT ![b] = Unreserved(Shipped(stock[b], c), q)]
      BY <1>1, <2>1, SettledStock
    <2>2. CASE stock' = [stock EXCEPT ![b] = Unreserved(stock[b], q)]
      BY <1>1, <2>2, UnreservedStock
    <2> QED BY <2>1, <2>2
  <1>4. Drift(stock'[b]) = Drift(stock[b]) /\ stock'[b].reserved <= stock[b].reserved
    BY <1>1, <1>3, StockFields DEF Drift
  <1>5. Change(t, b)
    BY <1>1, <1>3, <1>4 DEF Change
  <1> QED
    BY <1>2, <1>5 DEF Change

LEMMA UseChange ==
  ASSUME Typed, NEW t \in Transactions, TakeReservation(t) \/ FreeReservation(t)
  PROVE  \A b \in Balances : Change(t, b)
  <1> DEFINE r == tx[t].now
             b == reservation[r].bal
             q == reservation[r].qty
  <1>1. b \in Balances /\ q \in Nat
    BY QuantityAssumption DEF Typed, TxOK, Formed, TypeOK, Reservation, Quantities,
                              TakeReservation, FreeReservation
  <1>2. stock[b].reserved \in Nat /\ stock[b].onHand \in Nat
    BY <1>1, StockFields DEF Typed, TypeOK
  <1>3. CASE UNCHANGED stock
    BY <1>3 DEF Change
  <1>4. CASE ~UNCHANGED stock /\ TakeReservation(t)
    <2>1. /\ ~(stock[b].reserved < q \/ stock[b].onHand < q)
          /\ stock' = [stock EXCEPT ![b] = Unreserved(Shipped(stock[b], q), q)]
          /\ Lock(t, b)
      BY <1>4 DEF TakeReservation, rows
    <2>2. q <= stock[b].reserved /\ q <= stock[b].onHand
      BY <1>1, <1>2, <2>1
    <2> HIDE DEF b, q
    <2> QED BY <1>1, <2>1, <2>2, LeaveChange
  <1>5. CASE ~UNCHANGED stock /\ FreeReservation(t)
    <2>1. /\ ~(stock[b].reserved < q)
          /\ stock' = [stock EXCEPT ![b] = Unreserved(stock[b], q)]
          /\ Lock(t, b)
      BY <1>5 DEF FreeReservation, rows
    <2>2. q <= stock[b].reserved /\ 0 <= stock[b].onHand
      BY <1>1, <1>2, <2>1
    <2> HIDE DEF b, q
    <2> QED BY <1>1, <2>1, <2>2, LeaveChange
  <1> QED
    BY <1>3, <1>4, <1>5

LEMMA SettleChange ==
  ASSUME Typed, NEW t \in Transactions, NEW r \in Reservations, SettleReservation(t, r)
  PROVE  \A b \in Balances : Change(t, b)
  <1> DEFINE b == reservation[r].bal
             q == reservation[r].qty
             c == AtMost(q, Picked(t, b[1]))
  <1>1. b \in Balances /\ q \in Nat
    BY QuantityAssumption DEF Typed, TypeOK, Reservation, Quantities
  <1>2. stock[b].reserved \in Nat /\ stock[b].onHand \in Nat
    BY <1>1, StockFields DEF Typed, TypeOK
  <1>3. CASE UNCHANGED stock
    BY <1>3 DEF Change
  <1>4. CASE ~UNCHANGED stock
    <2>1. /\ ~(stock[b].reserved < q \/ stock[b].onHand < c)
          /\ stock' = [stock EXCEPT ![b] = Unreserved(Shipped(stock[b], c), q)]
          /\ Lock(t, b)
      BY <1>4 DEF SettleReservation, SettledBalance, rows
    <2>2. c \in Nat
      <3>1. tx[t].op # "adjust"
        BY DEF Typed, TxOK, Formed, SettleReservation
      <3>2. Picked(t, b[1]) \in Nat
        BY <3>1, PickedAtMost
      <3> QED BY <1>1, <3>2 DEF AtMost
    <2>3. q <= stock[b].reserved /\ c <= stock[b].onHand
      BY <1>1, <1>2, <2>1, <2>2
    <2> HIDE DEF b, q, c
    <2> QED BY <1>1, <2>1, <2>2, <2>3, LeaveChange
  <1> QED
    BY <1>3, <1>4

LEMMA ReceiveChange ==
  ASSUME Typed, NEW t \in Transactions, Receive(t)
  PROVE  \A b \in Balances : Change(t, b)
  <1> DEFINE b == Balance(t)
             q == FirstLine(t).qty
             s == Received(stock[b], q)
  <1>1. tx[t].lines # {} /\ tx[t].op # "adjust"
    BY DEF Typed, TxOK, Formed, Receive
  <1>2. b \in Balances /\ q \in Nat
    BY <1>1, FirstLineIsFirst, QuantityAssumption DEF Quantities
  <1>3. stock \in [Balances -> Stock] /\ stock[b] \in Stock
    BY <1>2 DEF Typed, TypeOK
  <1>4. stock' = [stock EXCEPT ![b] = s] /\ lock'[b] = t
    BY <1>2, LockGrabs DEF Receive
  <1>5. /\ s.onHand = stock[b].onHand + q /\ s.ledger = stock[b].ledger + q
        /\ s.reserved = stock[b].reserved /\ s.known = TRUE
    BY <1>2, <1>3, ReceivedStock
  <1>6. stock'[b] = s /\ \A c \in Balances : c # b => stock'[c] = stock[c]
    BY <1>2, <1>3, <1>4
  <1>7. Drift(s) = Drift(stock[b]) /\ s.reserved <= stock[b].reserved
    BY <1>2, <1>3, <1>5, StockFields DEF Drift
  <1>8. Change(t, b)
    BY <1>4, <1>5, <1>6, <1>7 DEF Change
  <1> QED
    BY <1>6, <1>8 DEF Change

LEMMA AdjustChange ==
  ASSUME Typed, NEW t \in Transactions, Adjust(t)
  PROVE  \A b \in Balances : Change(t, b)
  <1> DEFINE b == Balance(t)
             d == FirstLine(t).qty
             s == Adjusted(stock[b], tx[t].seen, d)
  <1>1. tx[t] \in Tx /\ tx[t].lines # {} /\ tx[t].pc = "adjust"
    BY DEF Typed, TxOK, Formed, Adjust
  <1>2. b \in Balances /\ d \in Int /\ tx[t].seen \in Nat
    BY <1>1, FirstLineIsFirst DEF Line, Tx
  <1>3. stock \in [Balances -> Stock] /\ stock[b] \in Stock
    BY <1>2 DEF Typed, TypeOK
  <1>4. CASE Sound(s)
    <2>1. stock' = [stock EXCEPT ![b] = s] /\ Lock(t, b) /\ NextLine(t, "read")
      BY <1>4 DEF Adjust
    <2>2. lock'[b] = t
      BY <1>2, <2>1, LockGrabs
    <2>3. tx'[t].pc # "adjust"
      BY <1>1, <2>1 DEF NextLine, End, IdleTx, Typed, TypeOK, Tx
    <2>4. tx[t].seen + d \in Nat
      <3>1. s.onHand = tx[t].seen + d
        BY <1>2, <1>3, AdjustedOnHand
      <3> QED BY <1>2, <1>4, <3>1 DEF Sound
    <2>5. /\ s.onHand = tx[t].seen + d /\ s.ledger = stock[b].ledger + d
          /\ s.reserved = stock[b].reserved /\ s.known = stock[b].known
      BY <1>2, <1>3, <2>4, AdjustedStock
    <2>6. stock'[b] = s /\ \A c \in Balances : c # b => stock'[c] = stock[c]
      BY <1>2, <1>3, <2>1
    <2>7. s.reserved <= stock[b].reserved
      BY <1>3, <2>5, StockFields
    <2>8. Drift(s) = Drift(stock[b]) \/ tx[t].seen # stock[b].onHand
      BY <1>2, <1>3, <2>5, StockFields DEF Drift
    <2>9. Change(t, b)
      BY <1>1, <2>2, <2>3, <2>5, <2>6, <2>7, <2>8 DEF Change
    <2> QED
      BY <2>6, <2>9 DEF Change
  <1>5. CASE ~Sound(s)
    BY <1>5 DEF Adjust, Change
  <1> QED
    BY <1>4, <1>5

LEMMA StepChange ==
  ASSUME Typed, NEW t \in Transactions, Request(t) \/ Step(t)
  PROVE  \A b \in Balances : Change(t, b)
  <1>1. CASE UNCHANGED stock
    BY <1>1 DEF Change
  <1>2. \/ UNCHANGED stock
        \/ Book(t) \/ TakeReservation(t) \/ FreeReservation(t)
        \/ (\E r \in Reservations : SettleReservation(t, r)) \/ Receive(t) \/ Adjust(t)
    BY OpenTx DEF Step, LockBalance, CheckSellable, HoldReservation, Snapshot, LockActive,
                  ReadBalance, rows
  <1> QED
    BY <1>1, <1>2, BookChange, UseChange, SettleChange, ReceiveChange, AdjustChange

(* The books of a balance drift from its stock only by an adjustment of     *)
(* what has changed since it was read.                                      *)
THEOREM BooksDriftByAdjustmentAlways == Spec => BooksDriftByAdjustment
  <1> DEFINE Drifts == \A b \in Balances :
                         \/ Drift(stock'[b]) \in {Drift(stock[b]), Drift(oldStock[b])}
                         \/ \E t \in Transactions :
                              tx[t].pc = "adjust" /\ tx'[t].pc # "adjust"
                                /\ tx[t].seen # stock[b].onHand
  <1>1. IInv /\ [Next]_vars => [Drifts]_vars
    <2> SUFFICES ASSUME IInv, Next PROVE Drifts
      OBVIOUS
    <2>1. ASSUME NEW t \in Transactions, Request(t) \/ Step(t) PROVE Drifts
      <3>1. \A b \in Balances : Change(t, b)
        BY <2>1, StepChange DEF IInv
      <3> QED BY <3>1 DEF Change
    <2>2. ASSUME NEW t \in Transactions, Commit(t) PROVE Drifts
      BY <2>2 DEF Commit
    <2>3. ASSUME NEW t \in Transactions, Rollback(t) PROVE Drifts
      BY <2>3 DEF Rollback
    <2> QED BY <2>1, <2>2, <2>3 DEF Next
  <1> QED
    BY <1>1, StartBalanced, StepBalanced, PTL DEF Spec, BooksDriftByAdjustment

-----------------------------------------------------------------------------
(* Between the check of a line and its booking the balance is locked, and   *)
(* what was found sellable still is.                                        *)
Checked(t) ==
  tx[t].pc \in {"check", "book"} /\ Balance(t) \in DOMAIN Opening =>
    /\ lock[Balance(t)] = t
    /\ tx[t].pc = "book" => FirstLine(t).qty <= Sellable(stock[Balance(t)])

Known == \A b \in DOMAIN Opening : stock[b].known /\ oldStock[b].known

RInv == IInv /\ Known /\ \A t \in Transactions : Checked(t)

(* Only the two steps before a booking lead to it.                          *)
LEMMA Elsewhere ==
  ASSUME Typed, NEW t \in Transactions, Request(t) \/ Step(t),
         ~LockBalance(t), ~CheckSellable(t)
  PROVE  tx'[t].pc \notin {"check", "book"}
  <1> DEFINE E == tx'[t].pc \notin {"check", "book"}
  <1>1. tx \in [Transactions -> Tx]
    BY DEF Typed, TypeOK
  <1>2. End(t) \/ Fail(t) => E
    BY <1>1 DEF End, Fail, IdleTx
  <1>3. CASE Request(t)
    <2>1. \E op, o, p, L, todo : \E l \in {"lock", "hold", "snapshot", "receive", "read"} :
            Open(t, op, l, o, p, L, todo)
      BY <1>3, Zenon DEF Request, CreateReservation, CommitReservation, ReleaseReservation,
                  SettleOrderReservations, MoveOrderReservations, CreateReceipt, CreateAdjustment
    <2>2. ASSUME NEW op, NEW o, NEW p, NEW L, NEW todo, NEW l, Open(t, op, l, o, p, L, todo)
          PROVE  tx'[t].pc = l
      BY <1>1, <2>2 DEF Open, IdleTx
    <2> QED BY <2>1, <2>2
  <1>4. CASE Snapshot(t) \/ ReadBalance(t)
    BY <1>1, <1>2, <1>4 DEF Snapshot, ReadBalance, Tx
  <1>5. CASE Book(t) \/ Receive(t) \/ Adjust(t)
    <2>1. \/ End(t) \/ Fail(t)
          \/ \E l \in {"lock", "receive", "read"} : \E rest :
               tx' = [tx EXCEPT ![t].lines = rest, ![t].pc = l, ![t].seen = 0]
      BY <1>5 DEF Book, Receive, Adjust, NextLine
    <2> QED BY <1>1, <1>2, <2>1 DEF Tx
  <1>6. ASSUME NEW todo, NextRelease(t, todo) PROVE E
    BY <1>1, <1>2, <1>6 DEF NextRelease, Tx
  <1>7. CASE HoldReservation(t)
    <2>1. PICK r \in tx[t].todo :
            \/ Fail(t)
            \/ NextRelease(t, tx[t].todo \ {r})
            \/ \E l \in {"take", "free"} : tx' = [tx EXCEPT ![t].pc = l, ![t].now = r]
      BY <1>7, Zenon DEF HoldReservation
    <2> QED BY <1>1, <1>2, <1>6, <2>1 DEF Tx
  <1>8. CASE TakeReservation(t) \/ FreeReservation(t)
    BY <1>2, <1>6, <1>8 DEF TakeReservation, FreeReservation
  <1>9. CASE LockActive(t)
    <2>1. \/ End(t)
          \/ \E l \in {"settle", "lock", "hold"} : \E todo :
               tx' = [tx EXCEPT ![t].todo = todo, ![t].pc = l]
      BY <1>9, Zenon DEF LockActive
    <2>2. CASE End(t)
      BY <1>2, <2>2
    <2>3. ASSUME NEW l \in {"settle", "lock", "hold"}, NEW todo,
                 tx' = [tx EXCEPT ![t].todo = todo, ![t].pc = l]
          PROVE  tx'[t].pc = l
      BY <1>1, <2>3 DEF Tx
    <2> QED BY <2>1, <2>2, <2>3
  <1>10. ASSUME NEW r \in Reservations, SettleReservation(t, r) PROVE E
    <2>1. /\ tx[t].pc = "settle"
          /\ \/ Fail(t) \/ End(t)
             \/ \E todo, rest : tx' = [tx EXCEPT ![t].todo = todo, ![t].lines = rest]
      BY <1>10, Zenon DEF SettleReservation
    <2> QED BY <1>1, <1>2, <2>1 DEF Tx
  <1> QED
    BY <1>3, <1>4, <1>5, <1>7, <1>8, <1>9, <1>10 DEF Step

LEMMA OwnChecked ==
  ASSUME RInv, NEW t \in Transactions, Request(t) \/ Step(t)
  PROVE  Checked(t)'
  <1> USE DEF RInv
  <1>1. Typed /\ tx \in [Transactions -> Tx] /\ Formed(tx[t])
    BY DEF IInv, Typed, TypeOK, TxOK
  <1>2. ASSUME LockBalance(t) \/ CheckSellable(t), tx'[t].lines = tx[t].lines,
               tx'[t].place = tx[t].place
        PROVE  FirstLine(t)' = FirstLine(t) /\ Balance(t)' = Balance(t)
    BY <1>2 DEF FirstLine, Balance
  <1>3. CASE LockBalance(t)
    <2>1. tx'[t].pc = "check" /\ tx'[t].lines = tx[t].lines /\ tx'[t].place = tx[t].place
      BY <1>1, <1>3 DEF LockBalance, Goto, Tx
    <2>2. Balance(t) \in Balances
      BY <1>1, <1>3, FirstLineIsFirst DEF LockBalance, Formed
    <2>3. Balance(t) \in DOMAIN Opening => StockSeen(t, Balance(t)).known
      BY DEF StockSeen, Known
    <2>4. Balance(t) \in DOMAIN Opening => lock'[Balance(t)] = t
      BY <1>1, <1>3, <2>2, <2>3, LockGrabs DEF LockBalance
    <2> QED BY <1>2, <1>3, <2>1, <2>4 DEF Checked
  <1>4. CASE CheckSellable(t)
    <2>1. Fail(t) => tx'[t].pc = "fail"
      BY <1>1 DEF Fail, IdleTx
    <2>2. CASE Fail(t)
      BY <2>1, <2>2 DEF Checked
    <2>3. CASE ~Fail(t)
      <3>1. /\ Goto(t, "book") /\ tx[t].pc = "check"
            /\ FirstLine(t).qty <= Sellable(StockSeen(t, Balance(t)))
            /\ UNCHANGED <<stock, lock>>
        BY <1>4, <2>3 DEF CheckSellable, rows
      <3>2. tx'[t].pc = "book" /\ tx'[t].lines = tx[t].lines /\ tx'[t].place = tx[t].place
        BY <1>1, <3>1 DEF Goto, Tx
      <3>3. FirstLine(t)' = FirstLine(t) /\ Balance(t)' = Balance(t)
        BY <1>2, <1>4, <3>2
      <3>4. Balance(t) \in DOMAIN Opening => lock[Balance(t)] = t
        BY <3>1 DEF Checked
      <3>5. Balance(t) \in DOMAIN Opening => StockSeen(t, Balance(t)) = stock[Balance(t)]
        BY <3>4 DEF StockSeen
      <3> QED BY <3>1, <3>2, <3>3, <3>4, <3>5 DEF Checked
    <2> QED BY <2>2, <2>3
  <1>5. CASE ~LockBalance(t) /\ ~CheckSellable(t)
    BY <1>1, <1>5, Elsewhere DEF Checked
  <1> QED
    BY <1>3, <1>4, <1>5

(* Nobody else writes a balance that is locked.                             *)
LEMMA OthersChecked ==
  ASSUME RInv, NEW t \in Transactions, NEW u \in Transactions, u # t,
         tx'[u] = tx[u],
         \A b \in Balances : lock[b] = u => lock'[b] = u /\ stock'[b] = stock[b]
  PROVE  Checked(u)'
  <1>1. FirstLine(u)' = FirstLine(u) /\ Balance(u)' = Balance(u)
    BY DEF FirstLine, Balance
  <1>2. ASSUME tx[u].pc \in {"check", "book"}, Balance(u) \in DOMAIN Opening
        PROVE  lock'[Balance(u)] = u /\ stock'[Balance(u)] = stock[Balance(u)]
    BY <1>2, OpeningAssumption DEF RInv, Checked
  <1> QED
    BY <1>1, <1>2 DEF RInv, Checked

LEMMA StartChecked ==
  Init => RInv
  <1> SUFFICES ASSUME Init PROVE RInv
    OBVIOUS
  <1>1. Known
    BY OpeningAssumption DEF Init, Known
  <1>2. \A t \in Transactions : Checked(t)
    BY DEF Init, IdleTx, Checked
  <1> QED
    BY <1>1, <1>2, StartBalanced DEF RInv

LEMMA StepChecked ==
  RInv /\ [Next]_vars => RInv'
  <1> SUFFICES ASSUME RInv, [Next]_vars PROVE RInv'
    OBVIOUS
  <1>1. IInv' /\ IInv /\ Known
    BY StepBalanced DEF RInv
  <1>2. \A t \in Transactions : t # NoTx
    BY NoAssumption
  <1>3. DOMAIN Opening \subseteq Balances
    BY OpeningAssumption
  <1>4. ASSUME NEW t \in Transactions, Request(t) \/ Step(t) PROVE RInv'
    <2>1. Grabs(t) /\ \A b \in Balances : Change(t, b)
      BY <1>1, <1>4, StepGrabs, StepChange DEF IInv
    <2>2. Known'
      BY <1>1, <1>3, <2>1 DEF Known, Grabs, Change
    <2>3. Checked(t)'
      BY <1>4, OwnChecked
    <2>4. ASSUME NEW u \in Transactions, u # t PROVE Checked(u)'
      <3>1. \A b \in Balances : lock[b] = u => lock'[b] = u /\ stock'[b] = stock[b]
        BY <1>2, <2>1, <2>4 DEF Grabs, Change
      <3>2. tx'[u] = tx[u]
        BY <2>1, <2>4 DEF Grabs
      <3> QED BY <2>4, <3>1, <3>2, OthersChecked
    <2> QED BY <1>1, <2>2, <2>3, <2>4 DEF RInv
  <1>5. ASSUME NEW t \in Transactions, Commit(t) \/ Rollback(t) PROVE RInv'
    <2>1. /\ tx \in [Transactions -> Tx]
          /\ tx' = [tx EXCEPT ![t] = [IdleTx EXCEPT !.pc = "done"]]
          /\ lock' = [b \in Balances |-> IF lock[b] = t THEN NoTx ELSE lock[b]]
      BY <1>1, <1>5 DEF Commit, Rollback, Unlock, IInv, Typed, TypeOK
    <2>2. \A b \in Balances : /\ stock'[b] = stock[b] \/ stock'[b] = oldStock[b]
                              /\ oldStock'[b] = stock[b] \/ oldStock'[b] = oldStock[b]
                              /\ lock[b] # t => stock'[b] = stock[b]
      <3>1. CASE Commit(t)
        BY <3>1 DEF Commit, StockSeen
      <3>2. CASE Rollback(t)
        BY <3>2 DEF Rollback, old
      <3> QED BY <1>5, <3>1, <3>2
    <2>3. Known'
      <3> SUFFICES ASSUME NEW b \in DOMAIN Opening PROVE stock'[b].known /\ oldStock'[b].known
        BY DEF Known
      <3>1. stock[b].known /\ oldStock[b].known /\ b \in Balances
        BY <1>1, <1>3 DEF Known
      <3> QED BY <2>2, <3>1, Zenon
    <2>4. tx'[t].pc = "done"
      BY <2>1 DEF IdleTx
    <2>5. Checked(t)'
      BY <2>4 DEF Checked
    <2>6. ASSUME NEW u \in Transactions, u # t PROVE Checked(u)'
      <3>1. \A b \in Balances : lock[b] = u => lock'[b] = u /\ stock'[b] = stock[b]
        BY <2>1, <2>2, <2>6, Zenon
      <3>2. tx'[u] = tx[u]
        BY <2>1, <2>6
      <3> QED BY <2>6, <3>1, <3>2, OthersChecked
    <2> QED BY <1>1, <2>3, <2>5, <2>6 DEF RInv
  <1>6. CASE UNCHANGED vars
    <2>1. UNCHANGED <<stock, oldStock, lock, tx>>
      BY <1>6 DEF vars
    <2> QED BY <1>1, <2>1 DEF RInv, Known, Checked, FirstLine, Balance
  <1> QED
    BY <1>4, <1>5, <1>6 DEF Next

(* No two reservations share the last sellable units of a balance that has  *)
(* had a row from the start.                                                *)
THEOREM BufferIsKeptAlways == Spec => BufferIsKept
  <1> DEFINE Buffered == \A b \in DOMAIN Opening :
                        Books(b) => stock'[b].reserved + SafetyBuffer <= stock'[b].onHand
  <1>1. RInv /\ [Next]_vars => [Buffered]_vars
    <2> SUFFICES ASSUME RInv, Next, NEW b \in DOMAIN Opening, Books(b)
                 PROVE  stock'[b].reserved + SafetyBuffer <= stock'[b].onHand
      OBVIOUS
    <2>1. b \in Balances /\ stock[b] \in Stock /\ stock[b].known
      BY OpeningAssumption DEF RInv, IInv, Typed, TypeOK, Known
    <2>2. stock[b].reserved \in Nat /\ stock[b].onHand \in Nat /\ SafetyBuffer \in Nat
      BY <2>1, StockFields, QuantityAssumption
    <2>3. stock'[b].reserved > stock[b].reserved /\ stock'[b] # oldStock[b]
      BY DEF Books
    <2>4. ASSUME NEW t \in Transactions, Request(t) \/ Step(t)
          PROVE  stock'[b].reserved + SafetyBuffer <= stock'[b].onHand
      <3>1. Change(t, b)
        BY <2>1, <2>4, StepChange DEF RInv, IInv
      <3>2. ~(stock'[b].reserved <= stock[b].reserved)
        <4>1. stock' \in [Balances -> Stock]
          BY StepBalanced DEF RInv, IInv, Typed, TypeOK
        <4>2. stock'[b].reserved \in Nat
          BY <2>1, <4>1, StockFields
        <4> QED BY <2>2, <2>3, <4>2
      <3>3. /\ tx[t].pc = "book" /\ b = Balance(t)
            /\ stock'[b].reserved = stock[b].reserved + FirstLine(t).qty
            /\ stock'[b].onHand = stock[b].onHand
        BY <2>2, <3>1, <3>2 DEF Change
      <3>4. FirstLine(t).qty <= stock[b].onHand - stock[b].reserved - SafetyBuffer
        BY <2>1, <3>3 DEF RInv, Checked, Sellable
      <3>5. FirstLine(t).qty \in Int
        <4>1. tx[t].lines # {} /\ Typed
          BY <3>3 DEF RInv, IInv, Typed, TxOK, Formed
        <4> QED BY <4>1, FirstLineIsFirst DEF Line
      <3> QED BY <2>2, <3>3, <3>4, <3>5
    <2>5. ASSUME NEW t \in Transactions, Commit(t) \/ Rollback(t) PROVE FALSE
      BY <2>1, <2>2, <2>3, <2>5 DEF Commit, Rollback
    <2> QED BY <2>4, <2>5 DEF Next
  <1> QED
    BY <1>1, StartChecked, StepChecked, PTL DEF Spec, BufferIsKept
==============================================================================

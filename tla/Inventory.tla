------------------------------ MODULE Inventory ------------------------------
(***************************************************************************)
(* InventoryService: stock balances, the reservations that hold part of    *)
(* them, and the stock ledger.                                             *)
(*                                                                         *)
(* Every operation is one PostgreSQL transaction at READ COMMITTED.  It    *)
(* writes in place and takes a row lock for each row it locks or writes,   *)
(* which it keeps to its end; a row that another transaction has locked    *)
(* can be read, in its last committed version, and makes a writer wait.    *)
(* Statements on a row that a transaction has locked are merged with the   *)
(* statement that locked it, except where the property is about the lock.  *)
(* The order in which an operation goes through its lines matters only to  *)
(* deadlocks.                                                              *)
(***************************************************************************)
EXTENDS Integers, FiniteSets

CONSTANTS
  Skus,          \* ordered as localeCompare orders them
  Locations,
  Orders,
  Reservations,  \* rows of inventory_reservations ever created: a bound
  Transactions,  \* one per request
  Opening,       \* onHand at the start, of the balances that have a row
  Booked,        \* reservations active at the start
  SafetyBuffer,
  Lines,         \* lines that a request may have
  PickedLines,   \* lines that may have been picked of an order
  DeltaLines,    \* lines that an adjustment may have
  MaxQuantity,   \* bound: quantity of a line
  NoTx, NoOrder, NoPlace, NoReservation

Balances == Skus \X Locations

Quantities == 1 .. MaxQuantity

(* The units that reservations rs hold of balance b; their number is the    *)
(* sum of the quantities of its active reservations.                        *)
Held(rs, b) ==
  {u \in Reservations \X Quantities :
     rs[u[1]].status = "ACTIVE" /\ rs[u[1]].bal = b /\ u[2] <= rs[u[1]].qty}

NoRow  == [status |-> "NONE", order |-> NoOrder, bal |-> CHOOSE b \in Balances : TRUE, qty |-> 1]

AtStart == [r \in Reservations |-> IF r \in DOMAIN Booked THEN Booked[r] ELSE NoRow]

ASSUME SkusAssumption     == Skus \subseteq Nat /\ Balances # {}
ASSUME ReservationsAssumption ==
  IsFiniteSet(Reservations) /\ NoReservation \notin Reservations
ASSUME NoAssumption       ==
  NoTx \notin Transactions /\ NoOrder \notin Orders /\ NoPlace \notin Locations
ASSUME OpeningAssumption  ==
  DOMAIN Opening \subseteq Balances /\ \A b \in DOMAIN Opening : Opening[b] \in Nat
ASSUME QuantityAssumption ==
  SafetyBuffer \in Nat /\ MaxQuantity \in Nat \ {0}
ASSUME BookedAssumption ==
  /\ DOMAIN Booked \subseteq Reservations
  /\ \A r \in DOMAIN Booked :
       /\ Booked[r] \in [status: {"ACTIVE"}, order: Orders, bal: DOMAIN Opening,
                         qty: Quantities]
  /\ \A b \in DOMAIN Opening : Cardinality(Held(AtStart, b)) <= Opening[b]
ASSUME LinesAssumption ==
  /\ Lines \cup PickedLines \subseteq [sku: Skus, qty: Quantities]
  /\ DeltaLines \subseteq [sku: Skus, qty: Int]

VARIABLES
  stock,        \* stock_balances with their ledger, uncommitted writes included
  reservation,  \* inventory_reservations, uncommitted writes included
  oldStock,     \* the committed versions of both
  oldReservation,
  lock,         \* who holds the row lock of a balance
  hold,         \* who holds the row lock of a reservation
  tx            \* the transactions

vars == <<stock, reservation, oldStock, oldReservation, lock, hold, tx>>

rows == <<stock, reservation, lock, hold>>
old  == <<oldStock, oldReservation>>

-----------------------------------------------------------------------------
(* `ledger' is the sum of the quantities of a balance's ledger entries.     *)

Stock == [known: BOOLEAN, onHand: Nat, reserved: Nat, ledger: Int]

Status      == {"NONE", "ACTIVE", "COMMITTED", "RELEASED"}
Reservation == [status: Status, order: Orders \cup {NoOrder}, bal: Balances, qty: Quantities]

Line       == [sku: Skus, qty: Int]

Operation == {"none", "reserve", "commit", "release", "settle", "move", "receive", "adjust"}
Control   == {"idle", "lock", "check", "book", "hold", "take", "free", "snapshot", "lockAll",
              "settle", "receive", "read", "adjust", "end", "fail", "done"}
Tx == [op: Operation, pc: Control, order: Orders \cup {NoOrder}, place: Locations \cup {NoPlace},
       lines: SUBSET Line, todo: SUBSET Reservations,
       now: Reservations \cup {NoReservation}, seen: Nat]

TypeOK ==
  /\ stock \in [Balances -> Stock] /\ oldStock \in [Balances -> Stock]
  /\ reservation \in [Reservations -> Reservation]
  /\ oldReservation \in [Reservations -> Reservation]
  /\ lock \in [Balances -> Transactions \cup {NoTx}]
  /\ hold \in [Reservations -> Transactions \cup {NoTx}]
  /\ tx \in [Transactions -> Tx]

IdleTx == [op |-> "none", pc |-> "idle", order |-> NoOrder, place |-> NoPlace, lines |-> {},
           todo |-> {}, now |-> NoReservation, seen |-> 0]

Init ==
  /\ stock = [b \in Balances |->
                IF b \in DOMAIN Opening
                THEN [known |-> TRUE, onHand |-> Opening[b], ledger |-> Opening[b],
                      reserved |-> Cardinality(Held(AtStart, b))]
                ELSE [known |-> FALSE, onHand |-> 0, ledger |-> 0, reserved |-> 0]]
  /\ oldStock = stock
  /\ reservation = AtStart
  /\ oldReservation = reservation
  /\ lock = [b \in Balances |-> NoTx]
  /\ hold = [r \in Reservations |-> NoTx]
  /\ tx = [t \in Transactions |-> IdleTx]

-----------------------------------------------------------------------------
(* Rows and their locks.                                                    *)

CanLock(t, b) == lock[b] \in {t, NoTx}
CanHold(t, r) == hold[r] \in {t, NoTx}

(* What a read without a lock returns: one's own writes, or what committed. *)
StockSeen(t, b)       == IF lock[b] = t THEN stock[b] ELSE oldStock[b]
ReservationSeen(t, r) == IF hold[r] = t THEN reservation[r] ELSE oldReservation[r]

Lock(t, b) == CanLock(t, b) /\ lock' = [lock EXCEPT ![b] = t]
Hold(t, r) == CanHold(t, r) /\ hold' = [hold EXCEPT ![r] = t]

(* The check constraints of stock_balances.                                 *)
Sound(s) == s.onHand >= 0 /\ s.reserved >= 0 /\ s.reserved <= s.onHand

Goto(t, l) == tx' = [tx EXCEPT ![t].pc = l]

(* Nothing is left to do but to commit, or to roll back.                    *)
End(t)  == tx' = [tx EXCEPT ![t] = [IdleTx EXCEPT !.pc = "end"]]
Fail(t) == tx' = [tx EXCEPT ![t] = [IdleTx EXCEPT !.pc = "fail"]]

-----------------------------------------------------------------------------
(* Requests.  Each opens a transaction.                                     *)

LineSets(lines) == {L \in SUBSET lines : L # {} /\ \A k, l \in L : k.sku = l.sku => k = l}

Open(t, op, l, order, place, lines, todo) ==
  /\ tx[t].pc = "idle"
  /\ tx' = [tx EXCEPT ![t] = [IdleTx EXCEPT !.op = op, !.pc = l, !.order = order, !.place = place,
                                            !.lines = lines, !.todo = todo]]
  /\ UNCHANGED <<rows, old>>

CreateReservation(t) ==
  \E o \in Orders, p \in Locations, L \in LineSets(Lines) : Open(t, "reserve", "lock", o, p, L, {})

(* A client knows the reservations that committed.                          *)
CommitReservation(t) ==
  \E r \in Reservations : /\ oldReservation[r].status # "NONE"
                          /\ Open(t, "commit", "hold", NoOrder, NoPlace, {}, {r})

ReleaseReservation(t) ==
  \E r \in Reservations : /\ oldReservation[r].status # "NONE"
                          /\ Open(t, "release", "hold", NoOrder, NoPlace, {}, {r})

SettleOrderReservations(t) ==
  \E o \in Orders, p \in Locations, L \in LineSets(PickedLines) \cup {{}} :
    Open(t, "settle", "snapshot", o, p, L, {})

MoveOrderReservations(t) ==
  \E o \in Orders, p \in Locations, L \in LineSets(Lines) : Open(t, "move", "snapshot", o, p, L, {})

CreateReceipt(t) ==
  \E p \in Locations, L \in LineSets(Lines) :
    Open(t, "receive", "receive", NoOrder, p, L, {})

CreateAdjustment(t) ==
  \E p \in Locations, L \in LineSets(DeltaLines) :
    Open(t, "adjust", "read", NoOrder, p, L, {})

-----------------------------------------------------------------------------
(* reserveStockInTransaction, line by line in the order of the SKUs.        *)

FirstLine(t) == CHOOSE l \in tx[t].lines : \A m \in tx[t].lines : l.sku <= m.sku
Balance(t)   == <<FirstLine(t).sku, tx[t].place>>

(* The line is done: on to the next one, or to the end.                     *)
NextLine(t, l) ==
  LET rest == tx[t].lines \ {FirstLine(t)}
  IN IF rest = {} THEN End(t)
     ELSE tx' = [tx EXCEPT ![t].lines = rest, ![t].pc = l, ![t].seen = 0]

(* Mutant: the row is read without a lock. *)
PeekBalance(t) ==
  /\ tx[t].pc = "lock"
  /\ Goto(t, "check")
  /\ UNCHANGED <<rows, old>>

(* SELECT FOR UPDATE locks the row if there is one.                         *)
LockBalance(t) ==
  /\ tx[t].pc = "lock"
  /\ IF StockSeen(t, Balance(t)).known THEN Lock(t, Balance(t)) ELSE UNCHANGED lock
  /\ Goto(t, "check")
  /\ UNCHANGED <<stock, reservation, hold, old>>

Sellable(s) == IF s.known THEN s.onHand - s.reserved - SafetyBuffer ELSE 0

CheckSellable(t) ==
  /\ tx[t].pc = "check"
  /\ IF FirstLine(t).qty <= Sellable(StockSeen(t, Balance(t))) THEN Goto(t, "book") ELSE Fail(t)
  /\ UNCHANGED <<rows, old>>

Reserved(s, q) == [s EXCEPT !.reserved = @ + q]

Book(t) ==
  LET l == FirstLine(t)
      b == Balance(t)
      s == Reserved(stock[b], l.qty)
  IN /\ tx[t].pc = "book"
     /\ CanLock(t, b)
     /\ IF Sound(s)
        THEN \E r \in Reservations :
               /\ reservation[r].status = "NONE"
               /\ reservation' = [reservation EXCEPT ![r] =
                     [status |-> "ACTIVE", order |-> tx[t].order, bal |-> b, qty |-> l.qty]]
               /\ stock' = [stock EXCEPT ![b] = s]
               /\ Lock(t, b)
               /\ Hold(t, r)
               /\ NextLine(t, "lock")
        ELSE Fail(t) /\ UNCHANGED rows
     /\ UNCHANGED old

-----------------------------------------------------------------------------
(* commitReservation, releaseReservationInTransaction.                      *)

NextRelease(t, todo) ==
  IF todo = {} /\ tx[t].lines = {} THEN End(t)
  ELSE tx' = [tx EXCEPT ![t].todo = todo, ![t].now = NoReservation,
                        ![t].pc = IF todo = {} THEN "lock" ELSE "hold"]

(* SELECT FOR UPDATE of the reservation, and what its status says.          *)
HoldReservation(t) ==
  /\ tx[t].pc = "hold"
  /\ \E r \in tx[t].todo :
       /\ Hold(t, r)
       /\ LET status == reservation[r].status
              into(l) == tx' = [tx EXCEPT ![t].pc = l, ![t].now = r]
          IN IF tx[t].op = "commit"
             THEN IF status = "ACTIVE" THEN into("take") ELSE Fail(t)
             ELSE CASE status = "COMMITTED" -> Fail(t)
                    [] status = "RELEASED"  -> NextRelease(t, tx[t].todo \ {r})
                    [] OTHER                -> into("free")
  /\ UNCHANGED <<stock, reservation, lock, old>>

ShippedSilently(s, q) == [s EXCEPT !.onHand = @ - q]  \* mutant: no ledger entry
Shipped(s, q)    == [s EXCEPT !.onHand = @ - q, !.ledger = @ - q]
Unreserved(s, q) == [s EXCEPT !.reserved = @ - q]

TakeReservation(t) ==
  LET r == tx[t].now
      b == reservation[r].bal
      q == reservation[r].qty
  IN /\ tx[t].pc = "take"
     /\ CanLock(t, b)
     /\ IF stock[b].reserved < q \/ stock[b].onHand < q
        THEN Fail(t) /\ UNCHANGED rows
        ELSE /\ stock' = [stock EXCEPT ![b] = Unreserved(Shipped(stock[b], q), q)]
             /\ reservation' = [reservation EXCEPT ![r].status = "COMMITTED"]
             /\ Lock(t, b)
             /\ End(t)
             /\ UNCHANGED hold
     /\ UNCHANGED old

FreeReservation(t) ==
  LET r == tx[t].now
      b == reservation[r].bal
      q == reservation[r].qty
  IN /\ tx[t].pc = "free"
     /\ CanLock(t, b)
     /\ IF stock[b].reserved < q
        THEN Fail(t) /\ UNCHANGED rows
        ELSE /\ stock' = [stock EXCEPT ![b] = Unreserved(stock[b], q)]
             /\ reservation' = [reservation EXCEPT ![r].status = "RELEASED"]
             /\ Lock(t, b)
             /\ NextRelease(t, tx[t].todo \ {r})
             /\ UNCHANGED hold
     /\ UNCHANGED old

-----------------------------------------------------------------------------
(* settleOrderReservationsInTransaction, moveOrderReservationsInTransaction *)

(* What a query for the order's active reservations returns.                *)
ActiveOf(t) ==
  {r \in Reservations : LET v == ReservationSeen(t, r)
                        IN /\ v.status = "ACTIVE"
                           /\ v.order = tx[t].order
                           /\ tx[t].op = "settle" => v.bal[2] = tx[t].place}

(* SELECT FOR UPDATE finds its rows as of its start ...                     *)
Snapshot(t) ==
  /\ tx[t].pc = "snapshot"
  /\ tx' = [tx EXCEPT ![t].todo = ActiveOf(t), ![t].pc = "lockAll"]
  /\ UNCHANGED <<rows, old>>

AsFound(t)     == tx[t].todo  \* mutant: what the locked rows have become is not looked at
StillActive(t) == {r \in tx[t].todo : reservation[r].status = "ACTIVE"}

(* ... waits for them, and keeps those that still are active.  A move then  *)
(* queries again, and is over if it finds everything at its destination.    *)
LockActive(t) ==
  LET kept    == StillActive(t)
      found   == ActiveOf(t)
      todo    == IF tx[t].op = "settle" THEN kept ELSE found
      inPlace == found # {} /\ \A r \in found : ReservationSeen(t, r).bal[2] = tx[t].place
      into(l) == tx' = [tx EXCEPT ![t].todo = todo, ![t].pc = l]
  IN /\ tx[t].pc = "lockAll"
     /\ \A r \in tx[t].todo : CanHold(t, r)
     /\ hold' = [r \in Reservations |-> IF r \in kept THEN t ELSE hold[r]]
     /\ IF tx[t].op = "settle"
        THEN IF kept = {} THEN End(t) ELSE into("settle")
        ELSE CASE inPlace -> End(t) [] found = {} -> into("lock") [] OTHER -> into("hold")
     /\ UNCHANGED <<stock, reservation, lock, old>>

Picked(t, sku) ==
  IF \E l \in tx[t].lines : l.sku = sku THEN (CHOOSE l \in tx[t].lines : l.sku = sku).qty ELSE 0

AtMost(a, b) == IF a <= b THEN a ELSE b

(* Of a reservation of q units, c were picked.                              *)
BalanceByPick(s, q, c)  == Unreserved(Shipped(s, c), c)  \* mutant: the rest stays reserved
SettledBalance(s, q, c) == Unreserved(Shipped(s, c), q)

Outcome(c)             == IF c > 0 THEN "COMMITTED" ELSE "RELEASED"
ByPick(v, c)           == [v EXCEPT !.status = Outcome(c), !.qty = c]  \* mutant: zero too
SettledReservation(v, c) == [v EXCEPT !.status = Outcome(c), !.qty = IF c > 0 THEN c ELSE @]

(* Commits what was picked of one reservation and releases the rest.  The   *)
(* RELEASED row that the rest becomes holds nothing and is left out.        *)
SettleReservation(t, r) ==
  LET b == reservation[r].bal
      q == reservation[r].qty
      n == Picked(t, b[1])
      c == AtMost(q, n)
      rest == {l \in tx[t].lines : l.sku # b[1]}
                \cup (IF n > c THEN {[sku |-> b[1], qty |-> n - c]} ELSE {})
      todo == tx[t].todo \ {r}
  IN /\ tx[t].pc = "settle"
     /\ r \in tx[t].todo
     /\ CanLock(t, b)
     /\ IF stock[b].reserved < q \/ stock[b].onHand < c
        THEN Fail(t) /\ UNCHANGED rows
        ELSE /\ stock' = [stock EXCEPT ![b] = SettledBalance(stock[b], q, c)]
             /\ reservation' = [reservation EXCEPT ![r] = SettledReservation(@, c)]
             /\ Lock(t, b)
             /\ CASE todo # {} -> tx' = [tx EXCEPT ![t].todo = todo, ![t].lines = rest]
                  [] rest # {} -> Fail(t)
                  [] OTHER     -> End(t)
             /\ UNCHANGED hold
     /\ UNCHANGED old

-----------------------------------------------------------------------------
(* createReceipt, createAdjustment.                                         *)

(* One statement inserts the balance or increments it.                      *)
Received(s, q) == [s EXCEPT !.known = TRUE, !.onHand = @ + q, !.ledger = @ + q]

Receive(t) ==
  LET b == Balance(t)
  IN /\ tx[t].pc = "receive"
     /\ Lock(t, b)
     /\ stock' = [stock EXCEPT ![b] = Received(@, FirstLine(t).qty)]
     /\ NextLine(t, "receive")
     /\ UNCHANGED <<reservation, hold, old>>

(* The balance is read without a lock ...                                   *)
ReadBalance(t) ==
  LET s == StockSeen(t, Balance(t))
  IN /\ tx[t].pc = "read"
     /\ IF s.known /\ s.onHand + FirstLine(t).qty >= 0
        THEN tx' = [tx EXCEPT ![t].pc = "adjust", ![t].seen = s.onHand]
        ELSE Fail(t)
     /\ UNCHANGED <<rows, old>>

(* ... and what was read, plus the difference, is written.                  *)
Adjusted(s, seen, d) == [s EXCEPT !.onHand = seen + d, !.ledger = @ + d]

Adjust(t) ==
  LET b == Balance(t)
      s == Adjusted(stock[b], tx[t].seen, FirstLine(t).qty)
  IN /\ tx[t].pc = "adjust"
     /\ CanLock(t, b)
     /\ IF Sound(s)
        THEN stock' = [stock EXCEPT ![b] = s] /\ Lock(t, b) /\ NextLine(t, "read")
        ELSE Fail(t) /\ UNCHANGED <<stock, lock>>
     /\ UNCHANGED <<reservation, hold, old>>

-----------------------------------------------------------------------------
(* The end of a transaction.                                                *)

Unlock(t) ==
  /\ lock' = [b \in Balances |-> IF lock[b] = t THEN NoTx ELSE lock[b]]
  /\ hold' = [r \in Reservations |-> IF hold[r] = t THEN NoTx ELSE hold[r]]
  /\ tx' = [tx EXCEPT ![t] = [IdleTx EXCEPT !.pc = "done"]]

Commit(t) ==
  /\ tx[t].pc = "end"
  /\ oldStock' = [b \in Balances |-> StockSeen(t, b)]
  /\ oldReservation' = [r \in Reservations |-> ReservationSeen(t, r)]
  /\ Unlock(t)
  /\ UNCHANGED <<stock, reservation>>

(* An exception, a deadlock, Prisma's timeout or a lost connection.         *)
Rollback(t) ==
  /\ tx[t].pc \notin {"idle", "done"}
  /\ stock' = [b \in Balances |-> IF lock[b] = t THEN oldStock[b] ELSE stock[b]]
  /\ reservation' = [r \in Reservations |->
                       IF hold[r] = t THEN oldReservation[r] ELSE reservation[r]]
  /\ Unlock(t)
  /\ UNCHANGED old

-----------------------------------------------------------------------------
Request(t) ==
  \/ CreateReservation(t) \/ CommitReservation(t) \/ ReleaseReservation(t)
  \/ SettleOrderReservations(t) \/ MoveOrderReservations(t)
  \/ CreateReceipt(t) \/ CreateAdjustment(t)

Step(t) ==
  \/ LockBalance(t) \/ CheckSellable(t) \/ Book(t)
  \/ HoldReservation(t) \/ TakeReservation(t) \/ FreeReservation(t)
  \/ Snapshot(t) \/ LockActive(t) \/ \E r \in Reservations : SettleReservation(t, r)
  \/ Receive(t) \/ ReadBalance(t) \/ Adjust(t)

Next == \E t \in Transactions : Request(t) \/ Step(t) \/ Commit(t) \/ Rollback(t)

Spec == Init /\ [][Next]_vars

-----------------------------------------------------------------------------
(* Safety.                                                                  *)

(* What a balance says is reserved is what its active reservations add up   *)
(* to, however commits, releases, settlements and moves of them overlap,    *)
(* fail and roll back.                                                      *)
ReservedIsHeld ==
  \A b \in Balances : oldStock[b].reserved = Cardinality(Held(oldReservation, b))

(* A reservation is used once: committed or released, it stays so with its  *)
(* quantity, although several requests act on it at once.                   *)
UsedOnce ==
  [][\A r \in Reservations :
       oldReservation[r].status \in {"COMMITTED", "RELEASED"} => UNCHANGED oldReservation[r]]_vars

(* Whatever is adjusted away, the goods that reservations hold are there.   *)
HeldIsOnHand ==
  \A b \in Balances : Cardinality(Held(oldReservation, b)) <= oldStock[b].onHand

(* The books of a balance diverge from its stock only by an adjustment that *)
(* writes a value it has read before somebody else's change.                *)
Drift(s) == s.onHand - s.ledger
BooksDriftByAdjustment ==
  [][\A b \in Balances :
       \/ Drift(stock'[b]) \in {Drift(stock[b]), Drift(oldStock[b])}
       \/ \E t \in Transactions :
            tx[t].pc = "adjust" /\ tx'[t].pc # "adjust" /\ tx[t].seen # stock[b].onHand]_vars

(* More of a balance is reserved, and not by undoing what was not committed. *)
Books(b) == stock'[b].reserved > stock[b].reserved /\ stock'[b] # oldStock[b]

(* Two reservations never share the last sellable units of a balance that   *)
(* has had a row from the start.                                            *)
BufferIsKept ==
  [][\A b \in DOMAIN Opening :
       Books(b) => stock'[b].reserved + SafetyBuffer <= stock'[b].onHand]_vars

-----------------------------------------------------------------------------
(* The comment of reserveStockInTransaction: two checkouts at the same time *)
(* cannot both consume the last sellable units.                             *)
LastUnitsOnce ==
  [][\A b \in Balances :
       Books(b) => stock'[b].reserved + SafetyBuffer <= stock'[b].onHand]_vars
==============================================================================

----------------------------- MODULE RetailOrder -----------------------------
(***************************************************************************)
(* An order of the shop from its checkout to its collection at a pickup    *)
(* point: sales-orders, allocation and pickup services, and the update of  *)
(* orders.service.ts, which writes the same rows.                          *)
(*                                                                         *)
(* A request reads some rows, then runs a transaction at READ COMMITTED    *)
(* that checks few of them again.  A transaction that only writes what it  *)
(* has read before is one step; inboundScanAtPickupPoint, whose statements *)
(* read between its writes, is one step for each of them.                  *)
(***************************************************************************)
EXTENDS Integers, FiniteSets

CONSTANTS
  Orders, Packages,
  OrderOf,       \* the order of each package
  Places,        \* locations that can be the source of an order
  Staff,         \* those who send requests, each one at a time
  TotalSlots,    \* totalHoldingSlots of the pickup point
  MaxAttempts,   \* wrong codes that revoke a token: 5 in the code
  MaxRequests,   \* bound of this model
  NoOne, NoPlace

PackagesOf(o) == {p \in Packages : OrderOf[p] = o}

ASSUME OrderOfAssumption == OrderOf \in [Packages -> Orders] /\ IsFiniteSet(Packages)
ASSUME EveryOrderAssumption == \A o \in Orders : PackagesOf(o) # {}
ASSUME BoundsAssumption  ==
  /\ TotalSlots \in Nat /\ MaxAttempts \in Nat /\ MaxRequests \in Nat
ASSUME NoneAssumption    == NoOne \notin Staff /\ NoPlace \notin Places

VARIABLES
  order,        \* orders of type RETAIL_PICKUP
  held,         \* their active reservations: the place, and how often they moved
  package,
  token,        \* collection_tokens
  available,    \* availableHoldingSlots of the pickup point
  lock,         \* who holds the row lock of the pickup point
  task,         \* what the requests are doing
  begun,        \* how many requests there were: bounded
  rescanned,    \* how often a package was scanned that had arrived already, and
  recollected   \*   how often one was handed out again (for the properties)

point == <<package, token, available, lock>>
ghost == <<rescanned, recollected>>
vars  == <<order, held, point, task, begun, ghost>>

-----------------------------------------------------------------------------

OrderStatus == {"DRAFT", "CONFIRMED", "ASSIGNED", "IN_TRANSIT", "COMPLETED", "CANCELLED"}

(* `final': the last who wrote it is cancelOrder (for the properties).      *)
Order   == [status: OrderStatus \cup {"NONE"}, version: Nat, source: Places \cup {NoPlace},
            final: BOOLEAN]
Held    == [place: Places \cup {NoPlace}, move: Nat]
Package == [arrived: BOOLEAN, released: BOOLEAN]
Token   == [status: {"NONE", "ACTIVE", "REVOKED", "VERIFIED"}, attempts: Nat, expired: BOOLEAN]

Operation == {"none", "allocate", "cancel", "edit", "scan", "collect", "guess"}
Control   == {"idle", "read", "write", "slot", "count", "end"}

(* What a request has read: a version of its order, the move of the         *)
(* reservations, the attempts of a token, the packages it will free a slot  *)
(* for; and the place or package it was sent for.                           *)
Task == [op: Operation, pc: Control, order: Orders \cup {NoOne}, package: Packages \cup {NoOne},
         place: Places \cup {NoPlace},
         version: Nat, move: Nat, attempts: Nat, waiting: SUBSET Packages, last: BOOLEAN]

TypeOK ==
  /\ order \in [Orders -> Order]
  /\ held \in [Orders -> Held]
  /\ package \in [Packages -> Package]
  /\ token \in [Orders -> Token]
  /\ available \in 0 .. TotalSlots
  /\ lock \in Staff \cup {NoOne}
  /\ task \in [Staff -> Task]
  /\ begun \in Nat /\ rescanned \in Nat /\ recollected \in Nat

Idle == [op |-> "none", pc |-> "idle", order |-> NoOne, package |-> NoOne, place |-> NoPlace,
         version |-> 0, move |-> 0, attempts |-> 0, waiting |-> {},
         last |-> FALSE]

NoOrder == [status |-> "NONE", version |-> 0, source |-> NoPlace, final |-> FALSE]
NoToken == [status |-> "NONE", attempts |-> 0, expired |-> FALSE]

Init ==
  /\ order = [o \in Orders |-> NoOrder]
  /\ held = [o \in Orders |-> [place |-> NoPlace, move |-> 0]]
  /\ package = [p \in Packages |-> [arrived |-> FALSE, released |-> FALSE]]
  /\ token = [o \in Orders |-> NoToken]
  /\ available = TotalSlots
  /\ lock = NoOne
  /\ task = [s \in Staff |-> Idle]
  /\ begun = 0 /\ rescanned = 0 /\ recollected = 0

-----------------------------------------------------------------------------

Begin(s, t) ==
  /\ task[s].pc = "idle" /\ begun < MaxRequests /\ begun' = begun + 1
  /\ task' = [task EXCEPT ![s] = t]
Goto(s, l) == task' = [task EXCEPT ![s].pc = l] /\ UNCHANGED begun
Done(s)    == task' = [task EXCEPT ![s] = Idle] /\ UNCHANGED begun
At(s, op, l) == task[s].op = op /\ task[s].pc = l

(* checkoutOrder makes the order and its packages, and reserves nothing.    *)
Checkout(o) ==
  /\ order[o].status = "NONE"
  /\ \E place \in Places :
       order' = [order EXCEPT ![o] = [status |-> "CONFIRMED", version |-> 1, source |-> place,
                                      final |-> FALSE]]
  /\ UNCHANGED <<held, point, task, begun, ghost>>

-----------------------------------------------------------------------------
(* allocateSourceForOrder: a place with enough stock, then the move of the  *)
(* reservations and the order, if its version is the one that was read.     *)

AllocateRead(s, o) ==
  /\ order[o].status \notin {"NONE", "CANCELLED", "COMPLETED", "IN_TRANSIT"}
  /\ \E place \in Places :
       Begin(s, [Idle EXCEPT !.op = "allocate", !.pc = "write", !.order = o, !.place = place,
                             !.version = order[o].version])
  /\ UNCHANGED <<order, held, point, ghost>>

(* moveOrderReservationsInTransaction does nothing for the same place.      *)
Moved(h, place) == IF h.place = place THEN h ELSE [place |-> place, move |-> h.move + 1]

AnyVersion(s, o) == TRUE  \* mutant: the order is written unconditionally
SameVersion(s, o) == order[o].version = task[s].version

Allocated(v, place) ==
  [v EXCEPT !.status = "ASSIGNED", !.source = place, !.version = @ + 1, !.final = FALSE]

AllocateWrite(s) ==
  LET o == task[s].order  place == task[s].place IN
  /\ At(s, "allocate", "write")
  /\ SameVersion(s, o)
  /\ held' = [held EXCEPT ![o] = Moved(@, place)]
  /\ order' = [order EXCEPT ![o] = Allocated(@, place)]
  /\ Done(s)
  /\ UNCHANGED <<point, ghost>>

-----------------------------------------------------------------------------
(* cancelOrder: the status is read before the transaction; the reservations *)
(* are listed in it, and then locked and released one by one.               *)

CancelRead(s, o) ==
  /\ order[o].status \notin {"NONE", "IN_TRANSIT", "COMPLETED", "CANCELLED"}
  /\ Begin(s, [Idle EXCEPT !.op = "cancel", !.pc = "read", !.order = o])
  /\ UNCHANGED <<order, held, point, ghost>>

CancelList(s) ==
  /\ At(s, "cancel", "read")
  /\ task' = [task EXCEPT ![s].pc = "write", ![s].move = held[task[s].order].move]
  /\ UNCHANGED <<order, held, point, begun, ghost>>

(* Those that were moved since are RELEASED, which is accepted silently.    *)
Freed(h, move) == IF h.move = move THEN [h EXCEPT !.place = NoPlace] ELSE h

Cancelled(v) ==
  [v EXCEPT !.status = "CANCELLED", !.version = @ + 1, !.final = TRUE]

CancelWrite(s) ==
  LET o == task[s].order IN
  /\ At(s, "cancel", "write")
  /\ held' = [held EXCEPT ![o] = Freed(@, task[s].move)]
  /\ order' = [order EXCEPT ![o] = Cancelled(@)]
  /\ Done(s)
  /\ UNCHANGED <<point, ghost>>

-----------------------------------------------------------------------------
(* update of orders.service.ts: any status, decided on a status read        *)
(* before, and the version stays.                                           *)

EditRead(s, o) ==
  /\ order[o].status \in {"CONFIRMED", "DRAFT"}
  /\ Begin(s, [Idle EXCEPT !.op = "edit", !.pc = "write", !.order = o])
  /\ UNCHANGED <<order, held, point, ghost>>

EditWrite(s) ==
  /\ At(s, "edit", "write")
  /\ \E status \in OrderStatus :
       order' = [order EXCEPT ![task[s].order].status = status, ![task[s].order].final = FALSE]
  /\ Done(s)
  /\ UNCHANGED <<held, point, ghost>>

-----------------------------------------------------------------------------
(* inboundScanAtPickupPoint.                                                *)

(* Any package can be scanned, that of a cancelled order too; whether it    *)
(* has arrived is read before the transaction.                              *)
ScanRead(s, p) ==
  /\ order[OrderOf[p]].status # "NONE"
  /\ ~ package[p].arrived
  /\ Begin(s, [Idle EXCEPT !.op = "scan", !.pc = "slot", !.order = OrderOf[p], !.package = p])
  /\ UNCHANGED <<order, held, point, ghost>>

SlotLater(s) == UNCHANGED lock  \* mutant: the slot is taken without its row lock
TakeSlot(s)  == lock' = s

AnySlot == TRUE  \* mutant: an unconditional decrement
HasSlot == available > 0

(* The conditional decrement of the slots locks the row of the point.       *)
ScanSlot(s) ==
  /\ At(s, "scan", "slot")
  /\ lock = NoOne /\ HasSlot
  /\ TakeSlot(s)
  /\ Goto(s, "count")
  /\ UNCHANGED <<order, held, package, token, available, ghost>>

(* The packages that others have scanned count once they have committed.    *)
Outstanding(o, p) == {q \in PackagesOf(o) : q # p /\ ~ package[q].arrived}

ScanCount(s) ==
  /\ At(s, "scan", "count")
  /\ task' = [task EXCEPT ![s].pc = "end",
                          ![s].last = Outstanding(task[s].order, task[s].package) = {}]
  /\ UNCHANGED <<order, held, point, begun, ghost>>

(* A new token, with a new code, replaces the one there is.                 *)
ScanEnd(s) ==
  LET o == task[s].order  p == task[s].package IN
  /\ At(s, "scan", "end")
  /\ rescanned' = IF package[p].arrived THEN rescanned + 1 ELSE rescanned
  /\ available' = available - 1
  /\ package' = [package EXCEPT ![p].arrived = TRUE]
  /\ token' = IF task[s].last THEN [token EXCEPT ![o] = [NoToken EXCEPT !.status = "ACTIVE"]]
              ELSE token
  /\ lock' = NoOne
  /\ Done(s)
  /\ UNCHANGED <<order, held, recollected>>

-----------------------------------------------------------------------------
(* verifyAndCollect: the token and the packages are read before anything is *)
(* written, and what is written does not depend on what there is then.      *)

Waiting(o) == {p \in PackagesOf(o) : package[p].arrived /\ ~ package[p].released}

VerifyRead(s, o) ==
  /\ token[o].status = "ACTIVE" /\ ~ token[o].expired
  /\ \E op \in {"collect", "guess"} :  \* the right code or a wrong one
       Begin(s, [Idle EXCEPT !.op = op, !.pc = "write", !.order = o, !.waiting = Waiting(o),
                             !.attempts = token[o].attempts])
  /\ UNCHANGED <<order, held, point, ghost>>

Guessed(v, attempts) ==
  [v EXCEPT !.attempts = @ + 1,
            !.status = IF attempts + 1 >= MaxAttempts THEN "REVOKED" ELSE "ACTIVE"]

GuessWrite(s) ==
  LET o == task[s].order IN
  /\ At(s, "guess", "write")
  /\ token' = [token EXCEPT ![o] = Guessed(@, task[s].attempts)]
  /\ Done(s)
  /\ UNCHANGED <<order, held, package, available, lock, ghost>>

Completed(v) == [v EXCEPT !.status = "COMPLETED", !.version = @ + 1, !.final = FALSE]

OneSlot(s)    == 1  \* mutant: an order frees one slot
FreedSlots(s) == Cardinality(task[s].waiting)

(* The check constraint of locations refuses more slots than there are.     *)
CollectWrite(s) ==
  LET o == task[s].order IN
  /\ At(s, "collect", "write")
  /\ lock = NoOne
  /\ available + FreedSlots(s) <= TotalSlots
  /\ available' = available + FreedSlots(s)
  /\ recollected' = recollected + Cardinality({p \in task[s].waiting : package[p].released})
  /\ token' = [token EXCEPT ![o].status = "VERIFIED"]
  /\ package' = [p \in Packages |-> IF OrderOf[p] = o THEN [package[p] EXCEPT !.released = TRUE]
                                    ELSE package[p]]
  /\ order' = [order EXCEPT ![o] = Completed(@)]
  /\ Done(s)
  /\ UNCHANGED <<held, lock, rescanned>>

Expire(o) ==
  /\ token[o].status = "ACTIVE" /\ ~ token[o].expired
  /\ token' = [token EXCEPT ![o].expired = TRUE]
  /\ UNCHANGED <<order, held, package, available, lock, task, begun, ghost>>

(* A check or a constraint that fails, a deadlock, a crash.                 *)
Abort(s) ==
  /\ task[s].pc # "idle"
  /\ lock' = IF lock = s THEN NoOne ELSE lock
  /\ Done(s)
  /\ UNCHANGED <<order, held, package, token, available, ghost>>

Next ==
  \/ \E o \in Orders : Checkout(o) \/ Expire(o)
  \/ \E s \in Staff :
       \/ \E o \in Orders : AllocateRead(s, o) \/ CancelRead(s, o) \/ EditRead(s, o)
                              \/ VerifyRead(s, o)
       \/ \E p \in Packages : ScanRead(s, p)
       \/ AllocateWrite(s) \/ CancelList(s) \/ CancelWrite(s) \/ EditWrite(s)
       \/ ScanSlot(s) \/ ScanCount(s) \/ ScanEnd(s)
       \/ GuessWrite(s) \/ CollectWrite(s) \/ Abort(s)

Spec == Init /\ [][Next]_vars

-----------------------------------------------------------------------------
(* Properties.                                                              *)

(* An order can be collected if and only if all of its packages have        *)
(* arrived: in whichever order they are scanned, by however many at once,   *)
(* one of the scans, and none before, sees that it is the last one.         *)
TokenWhenComplete ==
  \A o \in Orders : token[o].status # "NONE" <=> \A p \in PackagesOf(o) : package[p].arrived

(* availableHoldingSlots is what the packages at the point leave of its     *)
(* slots, but for those that are scanned or handed out twice at once: no    *)
(* other order of scans, collections and failures leaks a slot, or gives    *)
(* one back twice.                                                          *)
SlotsAreAccounted ==
  available = TotalSlots - Cardinality({p \in Packages : package[p].arrived /\ ~ package[p].released})
                - rescanned + recollected

(* A cancelled order is not revived by an allocation that read it before,   *)
(* as the cancellation moves its version: only an edit, which reads the     *)
(* status before it, or a collection takes it out of CANCELLED.             *)
CancelledStays ==
  [][\A o \in Orders :
       order[o].final =>
         \/ order'[o].status \in {"CANCELLED", "COMPLETED"}
         \/ \E s \in Staff : At(s, "edit", "write") /\ task[s].order = o]_vars

(* A cancelled order holds no stock.                                        *)
CancelledHoldsNothing ==
  \A o \in Orders :
    order[o].final => held[o].place = NoPlace
=============================================================================

-------------------------- MODULE RetailOrderProofs --------------------------
(***************************************************************************)
(* Proofs about the orders of the shop, for any number of orders, packages,*)
(* places, requests and staff.                                             *)
(*                                                                         *)
(* What a request has read is old when it writes.  The invariant says what *)
(* of it still holds then: TaskInv(q), of the request of each member of    *)
(* the staff, which no step of another one disturbs (Steady).              *)
(***************************************************************************)
EXTENDS RetailOrder, FiniteSetTheorems, TLAPS

Others(s) == \A q \in Staff \ {s} : task'[q] = task[q]

(* At the point: the packages that occupy a slot.                           *)
Occupants == {p \in Packages : package[p].arrived /\ ~ package[p].released}

(* An allocation that may still write its order has read it after the last  *)
(* cancellation.                                                            *)
AllocateInv(q) ==
  LET t == task[q] IN
  t.op = "allocate" =>
    /\ t.order \in Orders /\ order[t.order].status # "NONE"
    /\ t.version <= order[t.order].version
    /\ t.version = order[t.order].version => ~ order[t.order].final

(* A scan that has taken the row lock has a slot, and has counted what no   *)
(* one else can change.                                                     *)
ScanInv(q) ==
  LET t == task[q] IN
  t.op = "scan" =>
    /\ t.package \in Packages /\ t.order = OrderOf[t.package]
    /\ t.pc \in {"count", "end"} => lock = q /\ available > 0
    /\ t.pc = "end" => (t.last <=> Outstanding(t.order, t.package) = {})

(* A collection has read every package that is not released.                *)
CollectInv(q) ==
  LET t == task[q] IN
  t.op \in {"collect", "guess"} =>
    /\ t.order \in Orders /\ token[t.order].status # "NONE"
    /\ t.waiting \subseteq PackagesOf(t.order)
    /\ \A p \in PackagesOf(t.order) : package[p].released \/ p \in t.waiting

TaskInv(q) ==
  /\ task[q].pc # "idle" => task[q].order \in Orders
  /\ AllocateInv(q) /\ ScanInv(q) /\ CollectInv(q)

FinalInv == \A o \in Orders : order[o].final => order[o].status = "CANCELLED"
ReleasedInv == \A p \in Packages : package[p].released => package[p].arrived

IInv ==
  /\ TypeOK /\ TokenWhenComplete /\ SlotsAreAccounted
  /\ FinalInv /\ ReleasedInv
  /\ \A q \in Staff : TaskInv(q)

-----------------------------------------------------------------------------
(* The requests.                                                            *)

LEMMA IdleType == Idle \in Task
BY DEF Idle, Task, Operation, Control

LEMMA BeginStep ==
  ASSUME TypeOK, NEW s \in Staff, NEW t \in Task, Begin(s, t)
  PROVE  /\ task' \in [Staff -> Task] /\ begun' \in Nat
         /\ task'[s] = t /\ Others(s) /\ task[s].pc = "idle"
BY DEF TypeOK, Begin, Others

LEMMA DoneStep ==
  ASSUME TypeOK, NEW s \in Staff, Done(s)
  PROVE  /\ task' \in [Staff -> Task] /\ begun' \in Nat
         /\ task'[s] = Idle /\ Others(s)
BY IdleType DEF TypeOK, Done, Others

LEMMA GotoStep ==
  ASSUME TypeOK, NEW s \in Staff, NEW l \in Control, Goto(s, l)
  PROVE  /\ task' \in [Staff -> Task] /\ begun' \in Nat
         /\ task'[s] = [task[s] EXCEPT !.pc = l] /\ Others(s)
<1> DEFINE T == task[s]
           N == [T EXCEPT !.pc = l]
<1>1. T \in Task /\ task \in [Staff -> Task] /\ begun \in Nat
  BY DEF TypeOK
<1>2. N \in Task
  <2> HIDE DEF T
  <2> QED BY <1>1 DEF Task
<1>3. task' = [task EXCEPT ![s] = N] /\ begun' = begun
  BY <1>1 DEF Goto
<1> QED BY <1>1, <1>2, <1>3 DEF Others

(* What it may read.                                                        *)
LEMMA Types ==
  ASSUME TypeOK
  PROVE  /\ \A o \in Orders :
              /\ order[o].status \in OrderStatus \cup {"NONE"} /\ order[o].version \in Nat
              /\ order[o].source \in Places \cup {NoPlace} /\ order[o].final \in BOOLEAN
              /\ order[o] \in Order /\ held[o] \in Held /\ held[o].move \in Nat
              /\ held[o].place \in Places \cup {NoPlace}
              /\ token[o] \in Token /\ token[o].attempts \in Nat
         /\ \A p \in Packages :
              /\ package[p] \in Package
              /\ package[p].arrived \in BOOLEAN /\ package[p].released \in BOOLEAN
         /\ \A s \in Staff :
              /\ task[s].pc \in Control /\ task[s].op \in Operation
              /\ task[s].order \in Orders \cup {NoOne}
              /\ task[s].package \in Packages \cup {NoOne}
              /\ task[s].place \in Places \cup {NoPlace} /\ task[s].version \in Nat
              /\ task[s].move \in Nat /\ task[s].attempts \in Nat
              /\ task[s].waiting \in SUBSET Packages /\ task[s].last \in BOOLEAN
<1>1. order \in [Orders -> Order] /\ held \in [Orders -> Held] /\ token \in [Orders -> Token]
  BY DEF TypeOK
<1>2. package \in [Packages -> Package] /\ task \in [Staff -> Task]
  BY DEF TypeOK
<1>3. ASSUME NEW o \in Orders
      PROVE  /\ order[o].status \in OrderStatus \cup {"NONE"} /\ order[o].version \in Nat
             /\ order[o].source \in Places \cup {NoPlace} /\ order[o].final \in BOOLEAN
             /\ order[o] \in Order /\ held[o] \in Held /\ held[o].move \in Nat
             /\ held[o].place \in Places \cup {NoPlace}
             /\ token[o] \in Token /\ token[o].attempts \in Nat
  BY <1>1 DEF Order, Held, Token
<1>4. ASSUME NEW p \in Packages
      PROVE  /\ package[p] \in Package
             /\ package[p].arrived \in BOOLEAN /\ package[p].released \in BOOLEAN
  BY <1>2 DEF Package
<1>5. ASSUME NEW s \in Staff
      PROVE  /\ task[s].pc \in Control /\ task[s].op \in Operation
             /\ task[s].order \in Orders \cup {NoOne}
             /\ task[s].package \in Packages \cup {NoOne}
             /\ task[s].place \in Places \cup {NoPlace} /\ task[s].version \in Nat
             /\ task[s].move \in Nat /\ task[s].attempts \in Nat
             /\ task[s].waiting \in SUBSET Packages /\ task[s].last \in BOOLEAN
  BY <1>2 DEF Task
<1> QED BY <1>3, <1>4, <1>5

-----------------------------------------------------------------------------
(* Two facts about the packages.                                            *)

LEMMA PackagesAre ==
  /\ \A o \in Orders : PackagesOf(o) \subseteq Packages
  /\ \A p \in Packages : OrderOf[p] \in Orders /\ p \in PackagesOf(OrderOf[p])
  /\ \A S \in SUBSET Packages : IsFiniteSet(S) /\ Cardinality(S) \in Nat
<1>1. \A S \in SUBSET Packages : IsFiniteSet(S) /\ Cardinality(S) \in Nat
  BY OrderOfAssumption, FS_Subset, FS_CardinalityType
<1> QED BY <1>1, OrderOfAssumption DEF PackagesOf

(* A finite set is one part of it and the rest.                             *)
LEMMA Split ==
  ASSUME NEW S \in SUBSET Packages, NEW T
  PROVE  Cardinality(S) = Cardinality(S \cap T) + Cardinality(S \ T)
<1> DEFINE A == S \cap T
           B == S \ T
<1>1. /\ IsFiniteSet(A) /\ Cardinality(A) \in Nat
      /\ IsFiniteSet(B) /\ Cardinality(B) \in Nat
  BY PackagesAre
<1>2. A \cup B = S /\ A \cap B = {}
  OBVIOUS
<1>3. Cardinality(A \cap B) = 0
  BY <1>2, FS_EmptySet
<1> HIDE DEF A, B
<1>4. Cardinality(A \cup B) = Cardinality(A) + Cardinality(B) - Cardinality(A \cap B)
  BY <1>1, FS_Union
<1>5. Cardinality(S) = Cardinality(A) + Cardinality(B)
  BY <1>1, <1>2, <1>3, <1>4
<1> QED BY <1>5 DEF A, B

-----------------------------------------------------------------------------
(* A step leaves what the request of q relies on as it is, if it keeps      *)
(* these four facts.                                                        *)

(* No order disappears; its version grows, or no cancellation was written.  *)
OrderSteady ==
  \A o \in Orders :
    order[o].status # "NONE" =>
      /\ order'[o].status # "NONE"
      /\ \/ order'[o].version > order[o].version
         \/ order'[o].version = order[o].version /\ (order'[o].final => order[o].final)

TokenSteady == \A o \in Orders : token[o].status # "NONE" => token'[o].status # "NONE"

PackageSteady == \A p \in Packages : package[p].released => package'[p].released

LockSteady(q) ==
  lock = q =>
    /\ lock' = q /\ available' = available
    /\ \A p \in Packages : package'[p].arrived = package[p].arrived

Steady(q) == OrderSteady /\ TokenSteady /\ PackageSteady /\ LockSteady(q)

LEMMA OthersKeep ==
  ASSUME TypeOK, TypeOK', NEW q \in Staff, TaskInv(q), task'[q] = task[q], Steady(q)
  PROVE  TaskInv(q)'
<1> DEFINE t == task[q]
<1>1. t.pc # "idle" => t.order \in Orders
  BY DEF TaskInv
<1>2. AllocateInv(q)'
  <2> SUFFICES ASSUME t.op = "allocate" 
               PROVE  /\ t.order \in Orders /\ order'[t.order].status # "NONE"
                      /\ t.version <= order'[t.order].version
                      /\ t.version = order'[t.order].version => ~ order'[t.order].final
    BY DEF AllocateInv
  <2>1. /\ t.order \in Orders /\ order[t.order].status # "NONE"
        /\ t.version <= order[t.order].version
        /\ t.version = order[t.order].version => ~ order[t.order].final
    BY DEF TaskInv, AllocateInv
  <2>2. /\ t.version \in Nat /\ order[t.order].version \in Nat
        /\ order'[t.order].version \in Nat
    BY <2>1, Types DEF TypeOK, Order
  <2>3. /\ order'[t.order].status # "NONE"
        /\ \/ order'[t.order].version > order[t.order].version
           \/ /\ order'[t.order].version = order[t.order].version
              /\ order'[t.order].final => order[t.order].final
    BY <2>1 DEF Steady, OrderSteady
  <2> QED BY <2>1, <2>2, <2>3
<1>3. ScanInv(q)'
  <2>1. CASE t.op = "scan" /\ t.pc \in {"count", "end"}
    <3>1. lock = q /\ available > 0 /\ t.package \in Packages /\ t.order = OrderOf[t.package]
      BY <2>1 DEF TaskInv, ScanInv
    <3>2. /\ lock' = q /\ available' = available
          /\ \A p \in Packages : package'[p].arrived = package[p].arrived
      BY <3>1 DEF Steady, LockSteady
    <3>3. Outstanding(t.order, t.package)' = Outstanding(t.order, t.package)
      BY <3>2 DEF Outstanding, PackagesOf
    <3> QED BY <2>1, <3>1, <3>2, <3>3 DEF TaskInv, ScanInv
  <2>2. CASE ~ (t.op = "scan" /\ t.pc \in {"count", "end"})
    BY <2>2 DEF TaskInv, ScanInv
  <2> QED BY <2>1, <2>2
<1>4. CollectInv(q)'
  <2> SUFFICES ASSUME t.op \in {"collect", "guess"}
               PROVE  /\ t.order \in Orders /\ token'[t.order].status # "NONE"
                      /\ t.waiting \subseteq PackagesOf(t.order)
                      /\ \A p \in PackagesOf(t.order) : package'[p].released \/ p \in t.waiting
    BY DEF CollectInv
  <2>1. /\ t.order \in Orders /\ token[t.order].status # "NONE"
        /\ t.waiting \subseteq PackagesOf(t.order)
        /\ \A p \in PackagesOf(t.order) : package[p].released \/ p \in t.waiting
    BY DEF TaskInv, CollectInv
  <2>2. PackagesOf(t.order) \subseteq Packages
    BY DEF PackagesOf
  <2> QED BY <2>1, <2>2 DEF Steady, TokenSteady, PackageSteady
<1> QED BY <1>1, <1>2, <1>3, <1>4 DEF TaskInv

LEMMA IdleKeeps ==
  ASSUME NEW s \in Staff, task'[s] = Idle
  PROVE  TaskInv(s)'
BY DEF TaskInv, AllocateInv, ScanInv, CollectInv, Idle

(* So a step of s shows what it does to s and to the shared state.          *)
LEMMA AllTasks ==
  ASSUME IInv, TypeOK', NEW s \in Staff, Others(s), TaskInv(s)',
         \A q \in Staff \ {s} : Steady(q)
  PROVE  \A q \in Staff : TaskInv(q)'
<1> TAKE q \in Staff
<1>1. CASE q = s
  BY <1>1
<1>2. CASE q # s
  BY <1>2, OthersKeep DEF IInv, Others
<1> QED BY <1>1, <1>2

(* A step that changes no more than the requests.                           *)
LEMMA TaskStep ==
  ASSUME IInv, NEW s \in Staff, task' \in [Staff -> Task], begun' \in Nat, Others(s),
         UNCHANGED <<order, held, point, ghost>>, TaskInv(s)'
  PROVE  IInv'
<1>1. TypeOK'
  BY DEF IInv, TypeOK, point, ghost
<1>2. \A q \in Staff \ {s} : Steady(q)
  BY DEF Steady, OrderSteady, TokenSteady, PackageSteady, LockSteady, point
<1>3. \A q \in Staff : TaskInv(q)'
  BY <1>1, <1>2, AllTasks
<1>4. TokenWhenComplete' /\ SlotsAreAccounted' /\ FinalInv' /\ ReleasedInv'
  BY DEF IInv, TokenWhenComplete, SlotsAreAccounted, FinalInv, ReleasedInv, PackagesOf, point, ghost
<1> QED BY <1>1, <1>3, <1>4 DEF IInv

(* A step that changes no more than the orders, their reservations and the  *)
(* request of s, which is over.                                             *)
LEMMA OrderStep ==
  ASSUME IInv, NEW s \in Staff, Done(s), UNCHANGED <<point, ghost>>,
         order' \in [Orders -> Order], held' \in [Orders -> Held], OrderSteady, FinalInv'
  PROVE  IInv'
<1>0. TypeOK
  BY DEF IInv
<1>1. TypeOK'
  BY <1>0, DoneStep DEF TypeOK, point, ghost
<1>2. \A q \in Staff \ {s} : Steady(q)
  BY DEF Steady, TokenSteady, PackageSteady, LockSteady, point
<1>3. \A q \in Staff : TaskInv(q)'
  BY <1>0, <1>1, <1>2, DoneStep, IdleKeeps, AllTasks
<1>4. TokenWhenComplete' /\ SlotsAreAccounted' /\ ReleasedInv'
  BY DEF IInv, TokenWhenComplete, SlotsAreAccounted, ReleasedInv, PackagesOf, point, ghost
<1> QED BY <1>1, <1>3, <1>4 DEF IInv

-----------------------------------------------------------------------------
(* The actions, one by one.                                                 *)

LEMMA InitInv == Init => IInv
<1> SUFFICES ASSUME Init PROVE IInv
  OBVIOUS
<1>1. TypeOK
  BY BoundsAssumption, IdleType
     DEF Init, TypeOK, NoOrder, NoToken, Order, Held, Package, Token
<1>2. TokenWhenComplete
  BY EveryOrderAssumption, PackagesAre DEF Init, TokenWhenComplete, NoToken
<1>3. SlotsAreAccounted
  <2>1. Occupants = {}
    BY DEF Init, Occupants
  <2>2. Cardinality(Occupants) = 0
    BY <2>1, FS_EmptySet
  <2> QED BY <2>2, BoundsAssumption DEF Init, SlotsAreAccounted, Occupants
<1>4. FinalInv /\ ReleasedInv
  BY DEF Init, FinalInv, ReleasedInv, NoOrder
<1>5. \A q \in Staff : TaskInv(q)
  BY DEF Init, TaskInv, AllocateInv, ScanInv, CollectInv, Idle
<1> QED BY <1>1, <1>2, <1>3, <1>4, <1>5 DEF IInv

LEMMA CheckoutInv == ASSUME IInv, NEW o \in Orders, Checkout(o) PROVE IInv'
<1>1. PICK place \in Places :
        order' = [order EXCEPT ![o] = [status |-> "CONFIRMED", version |-> 1, source |-> place,
                                       final |-> FALSE]]
  BY DEF Checkout
<1>2. TypeOK /\ order[o].status = "NONE" /\ UNCHANGED <<held, point, task, begun, ghost>>
  BY DEF IInv, Checkout
<1>3. order' \in [Orders -> Order]
  BY <1>1, <1>2 DEF TypeOK, Order, OrderStatus
<1>4. TypeOK'
  BY <1>2, <1>3 DEF TypeOK, point, ghost
<1>5. /\ \A x \in Orders \ {o} : order'[x] = order[x]
      /\ ~ order'[o].final
  BY <1>1, <1>2 DEF TypeOK
<1>6. OrderSteady
  BY <1>2, <1>5 DEF OrderSteady
<1>7. \A q \in Staff : Steady(q)
  BY <1>2, <1>6 DEF Steady, TokenSteady, PackageSteady, LockSteady, point
<1>8. \A q \in Staff : TaskInv(q)'
  BY <1>2, <1>4, <1>7, OthersKeep DEF IInv
<1>9. TokenWhenComplete' /\ SlotsAreAccounted' /\ ReleasedInv'
  BY <1>2
     DEF IInv, TokenWhenComplete, SlotsAreAccounted, ReleasedInv, PackagesOf, point, ghost
<1>10. FinalInv'
  BY <1>5 DEF IInv, FinalInv
<1> QED BY <1>4, <1>8, <1>9, <1>10 DEF IInv

LEMMA ExpireInv == ASSUME IInv, NEW o \in Orders, Expire(o) PROVE IInv'
<1> DEFINE T == token[o]
           N == [T EXCEPT !.expired = TRUE]
<1>1. /\ TypeOK /\ T.status = "ACTIVE" /\ T \in Token
      /\ UNCHANGED <<order, held, package, available, lock, task, begun, ghost>>
  BY Types DEF IInv, Expire
<1>2. token' = [token EXCEPT ![o] = N]
  BY <1>1 DEF Expire, TypeOK
<1>3. N \in Token /\ N.status = "ACTIVE"
  <2> HIDE DEF T
  <2> QED BY <1>1 DEF Token
<1> HIDE DEF N
<1>4. /\ token' \in [Orders -> Token]
      /\ \A x \in Orders : token'[x].status = token[x].status
  BY <1>1, <1>2, <1>3 DEF TypeOK
<1>5. TypeOK'
  BY <1>1, <1>4 DEF TypeOK, ghost
<1>6. \A q \in Staff : Steady(q)
  BY <1>1, <1>4 DEF Steady, OrderSteady, TokenSteady, PackageSteady, LockSteady
<1>7. \A q \in Staff : TaskInv(q)'
  BY <1>1, <1>5, <1>6, OthersKeep DEF IInv
<1>8. TokenWhenComplete' /\ SlotsAreAccounted' /\ ReleasedInv' /\ FinalInv'
  BY <1>1, <1>4
     DEF IInv, TokenWhenComplete, SlotsAreAccounted, ReleasedInv, FinalInv, PackagesOf, ghost
<1> QED BY <1>5, <1>7, <1>8 DEF IInv

LEMMA AllocateReadInv ==
  ASSUME IInv, NEW s \in Staff, NEW o \in Orders, AllocateRead(s, o) PROVE IInv'
<1>1. PICK place \in Places :
        Begin(s, [Idle EXCEPT !.op = "allocate", !.pc = "write", !.order = o, !.place = place,
                              !.version = order[o].version])
  BY DEF AllocateRead
<1> DEFINE t == [Idle EXCEPT !.op = "allocate", !.pc = "write", !.order = o, !.place = place,
                             !.version = order[o].version]
<1>2. /\ TypeOK /\ order[o].status \notin {"NONE", "CANCELLED"} /\ order[o].version \in Nat
      /\ UNCHANGED <<order, held, point, ghost>>
  BY Types DEF IInv, AllocateRead
<1>3. /\ t \in Task /\ t.op = "allocate" /\ t.pc = "write" /\ t.order = o
      /\ t.version = order[o].version
  BY <1>2 DEF Idle, Task, Operation, Control
<1>4. Begin(s, t)
  BY <1>1
<1> HIDE DEF t
<1>5. task' \in [Staff -> Task] /\ begun' \in Nat /\ task'[s] = t /\ Others(s)
  BY <1>2, <1>3, <1>4, BeginStep
<1>6. ~ order[o].final
  BY <1>2 DEF IInv, FinalInv
<1>7. TaskInv(s)'
  BY <1>2, <1>3, <1>5, <1>6 DEF TaskInv, AllocateInv, ScanInv, CollectInv
<1> QED BY <1>2, <1>5, <1>7, TaskStep

LEMMA PlainReadInv ==
  ASSUME IInv, NEW s \in Staff, NEW o \in Orders, CancelRead(s, o) \/ EditRead(s, o) PROVE IInv'
<1>1. PICK op \in {"cancel", "edit"}, l \in {"read", "write"} :
        Begin(s, [Idle EXCEPT !.op = op, !.pc = l, !.order = o])
  BY DEF CancelRead, EditRead
<1> DEFINE t == [Idle EXCEPT !.op = op, !.pc = l, !.order = o]
<1>2. TypeOK /\ UNCHANGED <<order, held, point, ghost>>
  BY DEF IInv, CancelRead, EditRead
<1>3. t \in Task /\ t.op = op /\ t.pc = l /\ t.order = o
  BY DEF Idle, Task, Operation, Control
<1>4. Begin(s, t)
  BY <1>1
<1> HIDE DEF t
<1>5. task' \in [Staff -> Task] /\ begun' \in Nat /\ task'[s] = t /\ Others(s)
  BY <1>2, <1>3, <1>4, BeginStep
<1>6. TaskInv(s)'
  BY <1>3, <1>5 DEF TaskInv, AllocateInv, ScanInv, CollectInv
<1> QED BY <1>2, <1>5, <1>6, TaskStep

LEMMA ScanReadInv ==
  ASSUME IInv, NEW s \in Staff, NEW p \in Packages, ScanRead(s, p) PROVE IInv'
<1> DEFINE t == [Idle EXCEPT !.op = "scan", !.pc = "slot", !.order = OrderOf[p], !.package = p]
<1>1. TypeOK /\ UNCHANGED <<order, held, point, ghost>> /\ OrderOf[p] \in Orders
  BY PackagesAre DEF IInv, ScanRead
<1>2. t \in Task /\ t.op = "scan" /\ t.pc = "slot" /\ t.order = OrderOf[p] /\ t.package = p
  BY <1>1 DEF Idle, Task, Operation, Control
<1>3. Begin(s, t)
  BY DEF ScanRead
<1> HIDE DEF t
<1>4. task' \in [Staff -> Task] /\ begun' \in Nat /\ task'[s] = t /\ Others(s)
  BY <1>1, <1>2, <1>3, BeginStep
<1>5. TaskInv(s)'
  BY <1>1, <1>2, <1>4 DEF TaskInv, AllocateInv, ScanInv, CollectInv
<1> QED BY <1>1, <1>4, <1>5, TaskStep

(* A collection begins when all the packages have arrived: those that wait  *)
(* are those that are not released.                                         *)
LEMMA VerifyReadInv ==
  ASSUME IInv, NEW s \in Staff, NEW o \in Orders, VerifyRead(s, o) PROVE IInv'
<1>1. PICK op \in {"collect", "guess"} :
        Begin(s, [Idle EXCEPT !.op = op, !.pc = "write", !.order = o, !.waiting = Waiting(o),
                              !.attempts = token[o].attempts])
  BY DEF VerifyRead
<1> DEFINE t == [Idle EXCEPT !.op = op, !.pc = "write", !.order = o, !.waiting = Waiting(o),
                             !.attempts = token[o].attempts]
<1>2. /\ TypeOK /\ UNCHANGED <<order, held, point, ghost>>
      /\ token[o].status = "ACTIVE" /\ token[o].attempts \in Nat
  BY Types DEF IInv, VerifyRead
<1>3. /\ Waiting(o) \in SUBSET Packages /\ Waiting(o) \subseteq PackagesOf(o)
      /\ \A p \in PackagesOf(o) : package[p].released \/ p \in Waiting(o)
  BY <1>2 DEF IInv, TokenWhenComplete, Waiting, PackagesOf
<1>4. t \in Task /\ t.op = op /\ t.pc = "write" /\ t.order = o /\ t.waiting = Waiting(o)
  BY <1>2, <1>3 DEF Idle, Task, Operation, Control
<1>5. Begin(s, t)
  BY <1>1
<1> HIDE DEF t
<1>6. task' \in [Staff -> Task] /\ begun' \in Nat /\ task'[s] = t /\ Others(s)
  BY <1>2, <1>4, <1>5, BeginStep
<1>7. AllocateInv(s)' /\ ScanInv(s)'
  BY <1>4, <1>6 DEF AllocateInv, ScanInv
<1>8. CollectInv(s)'
  BY <1>2, <1>3, <1>4, <1>6 DEF CollectInv, point, PackagesOf
<1> QED BY <1>2, <1>4, <1>6, <1>7, <1>8, TaskStep DEF TaskInv

LEMMA CancelListInv == ASSUME IInv, NEW s \in Staff, CancelList(s) PROVE IInv'
<1> DEFINE T == task[s]
           m == held[T.order].move
           N == [T EXCEPT !.pc = "write", !.move = m]
<1>1. /\ TypeOK /\ UNCHANGED <<order, held, point, begun, ghost>>
      /\ T \in Task /\ T.op = "cancel" /\ T.pc = "read" /\ T.order \in Orders
  BY DEF IInv, TypeOK, CancelList, At, TaskInv
<1>2. m \in Nat
  BY <1>1, Types
<1>3. task' = [task EXCEPT ![s] = N]
  BY <1>1 DEF CancelList, TypeOK
<1>4. N \in Task /\ N.op = "cancel" /\ N.order = T.order
  <2> HIDE DEF T, m
  <2> QED BY <1>1, <1>2 DEF Task, Control
<1> HIDE DEF N, T
<1>5. task' \in [Staff -> Task] /\ begun' \in Nat /\ task'[s] = N /\ Others(s)
  BY <1>1, <1>3, <1>4 DEF TypeOK, Others
<1>6. TaskInv(s)'
  BY <1>1, <1>4, <1>5 DEF TaskInv, AllocateInv, ScanInv, CollectInv
<1> QED BY <1>1, <1>5, <1>6, TaskStep

(* The count that a scan writes down is the one that holds.                 *)
LEMMA ScanCountInv == ASSUME IInv, NEW s \in Staff, ScanCount(s) PROVE IInv'
<1> DEFINE T == task[s]
           b == Outstanding(T.order, T.package) = {}
           N == [T EXCEPT !.pc = "end", !.last = b]
<1>1. /\ TypeOK /\ UNCHANGED <<order, held, point, begun, ghost>>
      /\ T \in Task /\ T.op = "scan" /\ T.pc = "count" /\ T.order \in Orders
      /\ T.package \in Packages /\ T.order = OrderOf[T.package] /\ lock = s /\ available > 0
  BY DEF IInv, TypeOK, ScanCount, At, TaskInv, ScanInv
<1>2. task' = [task EXCEPT ![s] = N]
  BY <1>1 DEF ScanCount, TypeOK
<1>3. /\ N \in Task /\ N.op = "scan" /\ N.order = T.order /\ N.package = T.package
      /\ N.last = b
  <2> HIDE DEF T, b
  <2>1. b \in BOOLEAN
    BY DEF b
  <2> QED BY <1>1, <2>1 DEF Task, Control
<1>5. Outstanding(N.order, N.package) = {q \in Packages : /\ OrderOf[q] = N.order /\ q # N.package
                                                        /\ ~ package[q].arrived}
  BY DEF Outstanding, PackagesOf
<1>6. N.last <=> Outstanding(N.order, N.package) = {}
  BY <1>3
<1> HIDE DEF N, T, b
<1>7. task' \in [Staff -> Task] /\ begun' \in Nat /\ task'[s] = N /\ Others(s)
  BY <1>1, <1>2, <1>3 DEF TypeOK, Others
<1>8. AllocateInv(s)' /\ CollectInv(s)' /\ task'[s].order \in Orders
  BY <1>1, <1>3, <1>7 DEF AllocateInv, CollectInv
<1>9. Outstanding(task[s].order, task[s].package)' = Outstanding(N.order, N.package)
  BY <1>1, <1>5, <1>7 DEF Outstanding, PackagesOf, point
<1>10. ScanInv(s)'
  BY <1>1, <1>3, <1>6, <1>7, <1>9 DEF ScanInv, point
<1> QED BY <1>1, <1>7, <1>8, <1>10, TaskStep DEF TaskInv

(* An allocation writes an order no cancellation has written since.         *)
LEMMA AllocateWriteInv == ASSUME IInv, NEW s \in Staff, AllocateWrite(s) PROVE IInv'
<1> DEFINE o == task[s].order
           place == task[s].place
           v == order[o]
           w == Allocated(v, place)
           h == Moved(held[o], place)
<1>1. /\ TypeOK /\ Done(s) /\ UNCHANGED <<point, ghost>> /\ o \in Orders
      /\ v \in Order /\ v.status # "NONE" /\ place \in Places \cup {NoPlace}
      /\ held[o] \in Held
  BY Types DEF IInv, AllocateWrite, At, TaskInv, AllocateInv
<1>2. order' = [order EXCEPT ![o] = w] /\ held' = [held EXCEPT ![o] = h]
  BY <1>1 DEF AllocateWrite, TypeOK
<1>3. w \in Order /\ w.status # "NONE" /\ w.version = v.version + 1 /\ ~ w.final
  <2> DEFINE n == v.version + 1
  <2>1. n \in Nat
    BY <1>1, Types
  <2>2. w = [v EXCEPT !.status = "ASSIGNED", !.source = place, !.version = n, !.final = FALSE]
    BY DEF Allocated
  <2> HIDE DEF v, place, w, n
  <2>3. w \in Order /\ w.status = "ASSIGNED" /\ w.version = n /\ ~ w.final
    BY <1>1, <2>1, <2>2 DEF Order, OrderStatus
  <2> QED BY <2>3 DEF n
<1>4. h \in Held
  <2> DEFINE k == held[o]
  <2>1. Moved(k, place) \in Held
    <3> HIDE DEF k, place
    <3> QED BY <1>1 DEF Moved, Held, k
  <2> QED BY <2>1
<1> HIDE DEF w, h
<1>5. /\ order' \in [Orders -> Order] /\ held' \in [Orders -> Held]
      /\ order'[o] = w /\ \A x \in Orders \ {o} : order'[x] = order[x]
  BY <1>1, <1>2, <1>3, <1>4 DEF TypeOK
<1>6. v.version \in Nat
  BY <1>1, Types
<1>7. OrderSteady
  BY <1>1, <1>3, <1>5, <1>6, Types DEF OrderSteady
<1>8. FinalInv'
  BY <1>3, <1>5 DEF IInv, FinalInv
<1> QED BY <1>1, <1>5, <1>7, <1>8, OrderStep

LEMMA CancelWriteInv == ASSUME IInv, NEW s \in Staff, CancelWrite(s) PROVE IInv'
<1> DEFINE o == task[s].order
           m == task[s].move
           v == order[o]
           w == Cancelled(v)
           k == held[o]
           h == Freed(k, m)
<1>1. /\ TypeOK /\ Done(s) /\ UNCHANGED <<point, ghost>> /\ o \in Orders
      /\ v \in Order /\ k \in Held
  BY Types DEF IInv, CancelWrite, At, TaskInv
<1>2. order' = [order EXCEPT ![o] = w] /\ held' = [held EXCEPT ![o] = h]
  BY <1>1 DEF CancelWrite, TypeOK
<1>3. w \in Order /\ w.status = "CANCELLED" /\ w.version = v.version + 1
  <2> DEFINE n == v.version + 1
  <2>1. n \in Nat
    BY <1>1, Types
  <2>2. w = [v EXCEPT !.status = "CANCELLED", !.version = n, !.final = TRUE]
    BY DEF Cancelled
  <2> HIDE DEF v, w, n
  <2>3. w \in Order /\ w.status = "CANCELLED" /\ w.version = n
    BY <1>1, <2>1, <2>2 DEF Order, OrderStatus
  <2> QED BY <2>3 DEF n
<1>4. h \in Held
  <2> HIDE DEF k, m
  <2> QED BY <1>1 DEF Freed, Held
<1> HIDE DEF w, h
<1>5. /\ order' \in [Orders -> Order] /\ held' \in [Orders -> Held]
      /\ order'[o] = w /\ \A x \in Orders \ {o} : order'[x] = order[x]
  BY <1>1, <1>2, <1>3, <1>4 DEF TypeOK
<1>6. v.version \in Nat
  BY <1>1, Types
<1>7. OrderSteady
  BY <1>1, <1>3, <1>5, <1>6, Types DEF OrderSteady
<1>8. FinalInv'
  BY <1>3, <1>5 DEF IInv, FinalInv
<1> QED BY <1>1, <1>5, <1>7, <1>8, OrderStep

LEMMA EditWriteInv == ASSUME IInv, NEW s \in Staff, EditWrite(s) PROVE IInv'
<1>0. PICK status \in OrderStatus :
        order' = [order EXCEPT ![task[s].order].status = status, ![task[s].order].final = FALSE]
  BY DEF EditWrite
<1> DEFINE o == task[s].order
           v == order[o]
           w == [v EXCEPT !.status = status, !.final = FALSE]
<1>1. /\ TypeOK /\ Done(s) /\ UNCHANGED <<held, point, ghost>> /\ o \in Orders /\ v \in Order
  BY Types DEF IInv, EditWrite, At, TaskInv
<1>2. order' = [order EXCEPT ![o] = w]
  BY <1>0, <1>1 DEF TypeOK
<1>3. w \in Order /\ w.status # "NONE" /\ w.version = v.version /\ ~ w.final
  <2> HIDE DEF v
  <2> QED BY <1>1 DEF Order, OrderStatus
<1> HIDE DEF w
<1>5. /\ order' \in [Orders -> Order] /\ held' \in [Orders -> Held]
      /\ order'[o] = w /\ \A x \in Orders \ {o} : order'[x] = order[x]
  BY <1>1, <1>2, <1>3 DEF TypeOK
<1>7. OrderSteady
  BY <1>1, <1>3, <1>5 DEF OrderSteady
<1>8. FinalInv'
  BY <1>3, <1>5 DEF IInv, FinalInv
<1> QED BY <1>1, <1>5, <1>7, <1>8, OrderStep

LEMMA ScanSlotInv == ASSUME IInv, NEW s \in Staff, ScanSlot(s) PROVE IInv'
<1>1. /\ TypeOK /\ lock = NoOne /\ available > 0 /\ lock' = s /\ Goto(s, "count")
      /\ UNCHANGED <<order, held, package, token, available, ghost>>
      /\ task[s] \in Task /\ task[s].op = "scan" /\ task[s].order \in Orders
      /\ task[s].package \in Packages /\ task[s].order = OrderOf[task[s].package]
  BY DEF IInv, TypeOK, ScanSlot, At, HasSlot, TakeSlot, TaskInv, ScanInv
<1> DEFINE T == task[s]
           N == [T EXCEPT !.pc = "count"]
<1>2. task' \in [Staff -> Task] /\ begun' \in Nat /\ task'[s] = N /\ Others(s)
  BY <1>1, GotoStep DEF Control
<1>3. /\ N.op = "scan" /\ N.pc = "count" /\ N.order = T.order /\ N.package = T.package
  <2> HIDE DEF T
  <2> QED BY <1>1 DEF Task, T
<1> HIDE DEF N
<1>4. TypeOK'
  BY <1>1, <1>2 DEF TypeOK, ghost
<1>5. TaskInv(s)'
  BY <1>1, <1>2, <1>3 DEF TaskInv, AllocateInv, ScanInv, CollectInv
<1>6. \A q \in Staff \ {s} : Steady(q)
  BY <1>1, NoneAssumption DEF Steady, OrderSteady, TokenSteady, PackageSteady, LockSteady
<1>7. \A q \in Staff : TaskInv(q)'
  BY <1>2, <1>4, <1>5, <1>6, AllTasks
<1>8. TokenWhenComplete' /\ SlotsAreAccounted' /\ ReleasedInv' /\ FinalInv'
  BY <1>1
     DEF IInv, TokenWhenComplete, SlotsAreAccounted, ReleasedInv, FinalInv, PackagesOf, ghost
<1> QED BY <1>4, <1>7, <1>8 DEF IInv

LEMMA AbortInv == ASSUME IInv, NEW s \in Staff, Abort(s) PROVE IInv'
<1>1. /\ TypeOK /\ lock' = (IF lock = s THEN NoOne ELSE lock) /\ Done(s)
      /\ UNCHANGED <<order, held, package, token, available, ghost>>
  BY DEF IInv, Abort
<1>2. task' \in [Staff -> Task] /\ begun' \in Nat /\ task'[s] = Idle /\ Others(s)
  BY <1>1, DoneStep
<1>3. TypeOK'
  BY <1>1, <1>2 DEF TypeOK, ghost
<1>4. \A q \in Staff \ {s} : Steady(q)
  BY <1>1 DEF Steady, OrderSteady, TokenSteady, PackageSteady, LockSteady
<1>5. \A q \in Staff : TaskInv(q)'
  BY <1>2, <1>3, <1>4, IdleKeeps, AllTasks
<1>6. TokenWhenComplete' /\ SlotsAreAccounted' /\ ReleasedInv' /\ FinalInv'
  BY <1>1
     DEF IInv, TokenWhenComplete, SlotsAreAccounted, ReleasedInv, FinalInv, PackagesOf, ghost
<1> QED BY <1>3, <1>5, <1>6 DEF IInv

LEMMA GuessWriteInv == ASSUME IInv, NEW s \in Staff, GuessWrite(s) PROVE IInv'
<1> DEFINE o == task[s].order
           n == task[s].attempts
           v == token[o]
           w == Guessed(v, n)
<1>1. /\ TypeOK /\ Done(s) /\ UNCHANGED <<order, held, package, available, lock, ghost>>
      /\ o \in Orders /\ v \in Token /\ v.status # "NONE"
  BY Types DEF IInv, GuessWrite, At, TaskInv, CollectInv
<1>2. token' = [token EXCEPT ![o] = w]
  BY <1>1 DEF GuessWrite, TypeOK
<1>3. w \in Token /\ w.status # "NONE"
  <2> DEFINE a == v.attempts + 1
             st == IF n + 1 >= MaxAttempts THEN "REVOKED" ELSE "ACTIVE"
  <2>1. a \in Nat /\ st \in {"REVOKED", "ACTIVE"}
    BY <1>1, Types
  <2>2. w = [v EXCEPT !.attempts = a, !.status = st]
    BY DEF Guessed
  <2> HIDE DEF v, w, a, st
  <2> QED BY <1>1, <2>1, <2>2 DEF Token
<1> HIDE DEF w
<1>4. /\ token' \in [Orders -> Token]
      /\ \A x \in Orders : token'[x].status # "NONE" <=> token[x].status # "NONE"
  BY <1>1, <1>2, <1>3 DEF TypeOK
<1>5. task' \in [Staff -> Task] /\ begun' \in Nat /\ task'[s] = Idle /\ Others(s)
  BY <1>1, DoneStep
<1>6. TypeOK'
  BY <1>1, <1>4, <1>5 DEF TypeOK, ghost
<1>7. \A q \in Staff \ {s} : Steady(q)
  BY <1>1, <1>4 DEF Steady, OrderSteady, TokenSteady, PackageSteady, LockSteady
<1>8. \A q \in Staff : TaskInv(q)'
  BY <1>5, <1>6, <1>7, IdleKeeps, AllTasks
<1>9. TokenWhenComplete' /\ SlotsAreAccounted' /\ ReleasedInv' /\ FinalInv'
  BY <1>1, <1>4
     DEF IInv, TokenWhenComplete, SlotsAreAccounted, ReleasedInv, FinalInv, PackagesOf, ghost
<1> QED BY <1>6, <1>8, <1>9 DEF IInv

(* The end of a scan: the package occupies one more slot, unless it arrived *)
(* before, and the order gets its token if it was the last.                 *)
LEMMA ScanEndInv == ASSUME IInv, NEW s \in Staff, ScanEnd(s) PROVE IInv'
<1> DEFINE o == task[s].order
           p == task[s].package
           T == [NoToken EXCEPT !.status = "ACTIVE"]
           P == [package[p] EXCEPT !.arrived = TRUE]
<1>1. /\ TypeOK /\ Done(s) /\ lock' = NoOne /\ available' = available - 1
      /\ rescanned' = (IF package[p].arrived THEN rescanned + 1 ELSE rescanned)
      /\ UNCHANGED <<order, held, recollected>>
      /\ o \in Orders /\ p \in Packages /\ o = OrderOf[p] /\ lock = s /\ available > 0
      /\ task[s].last <=> Outstanding(o, p) = {}
      /\ token' = (IF task[s].last THEN [token EXCEPT ![o] = T] ELSE token)
  BY PackagesAre DEF IInv, ScanEnd, At, TaskInv, ScanInv
<1>2. package' = [package EXCEPT ![p] = P]
  BY <1>1 DEF ScanEnd, TypeOK
<1>3. package[p] \in Package
  BY <1>1, Types
<1>4. P \in Package /\ P.arrived /\ P.released = package[p].released
  BY <1>3 DEF Package
<1>5. T \in Token /\ T.status = "ACTIVE"
  BY DEF NoToken, Token
<1> HIDE DEF P, T
<1>6. /\ package' \in [Packages -> Package]
      /\ package'[p].arrived
      /\ \A q \in Packages : q # p => package'[q].arrived = package[q].arrived
      /\ \A q \in Packages : package'[q].released = package[q].released
  BY <1>1, <1>2, <1>4 DEF TypeOK
<1>7. /\ token' \in [Orders -> Token]
      /\ \A x \in Orders :
            token'[x].status # "NONE" <=>
              token[x].status # "NONE" \/ (x = o /\ Outstanding(o, p) = {})
  BY <1>1, <1>5 DEF TypeOK
<1>8. task' \in [Staff -> Task] /\ begun' \in Nat /\ task'[s] = Idle /\ Others(s)
  BY <1>1, DoneStep
<1>9. TypeOK'
  <2>1. available' \in 0 .. TotalSlots /\ rescanned' \in Nat
    BY <1>1, BoundsAssumption DEF TypeOK
  <2> QED BY <1>1, <1>6, <1>7, <1>8, <2>1 DEF TypeOK
<1>10. \A q \in Staff : TaskInv(q)'
  <2>1. \A q \in Staff \ {s} : Steady(q)
    BY <1>1, <1>6, <1>7 DEF Steady, OrderSteady, TokenSteady, PackageSteady, LockSteady
  <2> QED BY <1>8, <1>9, <2>1, IdleKeeps, AllTasks
<1>11. TokenWhenComplete'
  <2> SUFFICES ASSUME NEW x \in Orders
               PROVE  token'[x].status # "NONE" <=> \A q \in PackagesOf(x) : package'[q].arrived
    BY DEF TokenWhenComplete, PackagesOf
  <2>1. token[x].status # "NONE" <=> \A q \in PackagesOf(x) : package[q].arrived
    BY DEF IInv, TokenWhenComplete
  <2>2. CASE x = o
    <3>1. Outstanding(o, p) = {} <=> \A q \in PackagesOf(o) : q # p => package[q].arrived
      BY DEF Outstanding
    <3> QED BY <1>1, <1>6, <1>7, <2>1, <2>2, <3>1 DEF PackagesOf
  <2>3. CASE x # o
    BY <1>1, <1>6, <1>7, <2>1, <2>3 DEF PackagesOf
  <2> QED BY <2>2, <2>3
<1>12. SlotsAreAccounted'
  <2> DEFINE B == Occupants
             n == Cardinality(B)
  <2>1. B \in SUBSET Packages /\ IsFiniteSet(B) /\ n \in Nat
    BY PackagesAre DEF Occupants
  <2>2. available = TotalSlots - n - rescanned + recollected
    BY DEF IInv, SlotsAreAccounted, Occupants
  <2>3. available \in Nat /\ rescanned \in Nat /\ recollected \in Nat /\ TotalSlots \in Nat
    BY <1>1, BoundsAssumption DEF TypeOK
  <2>4. CASE package[p].arrived
    <3>1. Occupants' = B
      BY <1>1, <1>6, <2>4 DEF Occupants
    <3>2. Cardinality(Occupants') = n
      BY <3>1
    <3> HIDE DEF B, n
    <3>3. available' = TotalSlots - Cardinality(Occupants') - rescanned' + recollected'
      BY <1>1, <2>1, <2>2, <2>3, <2>4, <3>2
    <3> QED BY <3>3 DEF SlotsAreAccounted, Occupants
  <2>5. CASE ~ package[p].arrived
    <3>1. ~ package[p].released
      BY <1>1, <2>5 DEF IInv, ReleasedInv
    <3>2. Occupants' = B \cup {p} /\ p \notin B
      BY <1>1, <1>6, <2>5, <3>1 DEF Occupants
    <3> HIDE DEF B
    <3>3. Cardinality(Occupants') = n + 1
      BY <2>1, <3>2, FS_AddElement
    <3> HIDE DEF n
    <3>4. available' = TotalSlots - Cardinality(Occupants') - rescanned' + recollected'
      BY <1>1, <2>1, <2>2, <2>3, <2>5, <3>3
    <3> QED BY <3>4 DEF SlotsAreAccounted, Occupants
  <2> QED BY <2>4, <2>5
<1>13. ReleasedInv' /\ FinalInv'
  BY <1>1, <1>6 DEF IInv, ReleasedInv, FinalInv
<1> QED BY <1>9, <1>10, <1>11, <1>12, <1>13 DEF IInv

(* A collection: of the packages it has waited for, those that were not     *)
(* released are those of the order that occupy a slot.                      *)
LEMMA CollectWriteInv == ASSUME IInv, NEW s \in Staff, CollectWrite(s) PROVE IInv'
<1> DEFINE o == task[s].order
           W == task[s].waiting
           R == {p \in W : package[p].released}
           B == Occupants
           v == order[o]
           w == Completed(v)
           k == token[o]
           x == [k EXCEPT !.status = "VERIFIED"]
<1>1. /\ TypeOK /\ Done(s) /\ lock = NoOne /\ UNCHANGED <<held, lock, rescanned>>
      /\ o \in Orders /\ v \in Order /\ k \in Token /\ k.status # "NONE"
      /\ W \subseteq PackagesOf(o) /\ W \in SUBSET Packages
      /\ \A p \in PackagesOf(o) : package[p].released \/ p \in W
  BY Types, PackagesAre DEF IInv, CollectWrite, At, TaskInv, CollectInv
<1>2. /\ available' = available + Cardinality(W) /\ available + Cardinality(W) <= TotalSlots
      /\ recollected' = recollected + Cardinality(R)
  BY DEF CollectWrite, FreedSlots
<1>3. /\ order' = [order EXCEPT ![o] = w]
      /\ token' = [token EXCEPT ![o] = x]
      /\ package' = [p \in Packages |->
                       IF OrderOf[p] = o THEN [package[p] EXCEPT !.released = TRUE] ELSE package[p]]
  BY <1>1 DEF CollectWrite, TypeOK
<1>4. w \in Order /\ w.status = "COMPLETED" /\ w.version = v.version + 1 /\ ~ w.final
  <2> DEFINE n == v.version + 1
  <2>1. n \in Nat
    BY <1>1, Types
  <2>2. w = [v EXCEPT !.status = "COMPLETED", !.version = n, !.final = FALSE]
    BY DEF Completed
  <2> HIDE DEF v, w, n
  <2>3. w \in Order /\ w.status = "COMPLETED" /\ w.version = n /\ ~ w.final
    BY <1>1, <2>1, <2>2 DEF Order, OrderStatus
  <2> QED BY <2>3 DEF n
<1>5. x \in Token /\ x.status = "VERIFIED"
  <2> HIDE DEF k
  <2> QED BY <1>1 DEF Token
<1>6. /\ package' \in [Packages -> Package]
      /\ \A p \in Packages : package'[p].arrived = package[p].arrived
      /\ \A p \in Packages : package'[p].released <=> package[p].released \/ OrderOf[p] = o
  <2>1. ASSUME NEW p \in Packages
        PROVE  /\ [package[p] EXCEPT !.released = TRUE] \in Package
               /\ [package[p] EXCEPT !.released = TRUE].released
               /\ [package[p] EXCEPT !.released = TRUE].arrived = package[p].arrived
               /\ package[p] \in Package
    <3>1. package[p] \in Package
      BY <1>1, Types
    <3> QED BY <3>1 DEF Package
  <2> QED BY <1>3, <2>1
<1> HIDE DEF w, x
<1>7. /\ order' \in [Orders -> Order] /\ token' \in [Orders -> Token]
      /\ order'[o] = w /\ \A y \in Orders \ {o} : order'[y] = order[y]
      /\ token'[o] = x /\ \A y \in Orders \ {o} : token'[y] = token[y]
  BY <1>1, <1>3, <1>4, <1>5 DEF TypeOK
<1>8. task' \in [Staff -> Task] /\ begun' \in Nat /\ task'[s] = Idle /\ Others(s)
  BY <1>1, DoneStep
<1>9. Cardinality(W) \in Nat /\ Cardinality(R) \in Nat /\ R \in SUBSET Packages
  BY <1>1, PackagesAre
<1>10. TypeOK'
  <2> HIDE DEF W, R, o
  <2>1. available' \in 0 .. TotalSlots /\ recollected' \in Nat
    BY <1>1, <1>2, <1>9, BoundsAssumption DEF TypeOK
  <2> QED BY <1>1, <1>6, <1>7, <1>8, <2>1 DEF TypeOK
<1>11. \A q \in Staff : TaskInv(q)'
  <2>1. OrderSteady
    <3>1. v.version \in Nat
      BY <1>1, Types
    <3> QED BY <1>1, <1>4, <1>7, <3>1, Types DEF OrderSteady
  <2>2. TokenSteady /\ PackageSteady
    BY <1>5, <1>6, <1>7 DEF TokenSteady, PackageSteady
  <2>3. \A q \in Staff \ {s} : Steady(q)
    BY <1>1, <2>1, <2>2, NoneAssumption DEF Steady, LockSteady
  <2> QED BY <1>8, <1>10, <2>3, IdleKeeps, AllTasks
<1>12. \A p \in PackagesOf(o) : package[p].arrived
  BY <1>1 DEF IInv, TokenWhenComplete
<1>13. TokenWhenComplete'
  BY <1>1, <1>5, <1>6, <1>7 DEF IInv, TokenWhenComplete, PackagesOf
<1>14. SlotsAreAccounted'
  <2>1. B \in SUBSET Packages /\ Occupants' = B \ PackagesOf(o)
    BY <1>6 DEF Occupants, PackagesOf
  <2>2. B \cap PackagesOf(o) = W \ R /\ R = W \cap R
    BY <1>1, <1>12 DEF Occupants, PackagesOf
  <2>3. Cardinality(B) = Cardinality(B \cap PackagesOf(o)) + Cardinality(B \ PackagesOf(o))
    BY <2>1, Split
  <2>4. Cardinality(W) = Cardinality(W \cap R) + Cardinality(W \ R)
    BY <1>1, Split
  <2>5. /\ Cardinality(B) \in Nat /\ Cardinality(B \ PackagesOf(o)) \in Nat
        /\ Cardinality(W \ R) \in Nat
    BY <1>1, <2>1, PackagesAre
  <2>6. available = TotalSlots - Cardinality(B) - rescanned + recollected
    BY DEF IInv, SlotsAreAccounted, Occupants
  <2>7. available \in Nat /\ rescanned \in Nat /\ recollected \in Nat /\ TotalSlots \in Nat
    BY <1>1, BoundsAssumption DEF TypeOK
  <2>8. /\ Cardinality(Occupants') = Cardinality(B \ PackagesOf(o))
        /\ Cardinality(B \cap PackagesOf(o)) = Cardinality(W \ R)
        /\ Cardinality(W \cap R) = Cardinality(R)
    BY <2>1, <2>2
  <2> HIDE DEF B, W, R, o
  <2>9. Cardinality(B) = Cardinality(W \ R) + Cardinality(Occupants')
    BY <2>3, <2>8
  <2>10. Cardinality(W) = Cardinality(R) + Cardinality(W \ R)
    BY <2>4, <2>8
  <2>11. available' = TotalSlots - Cardinality(Occupants') - rescanned' + recollected'
    BY <1>1, <1>2, <1>9, <2>5, <2>6, <2>7, <2>8, <2>9, <2>10
  <2> QED BY <2>11 DEF SlotsAreAccounted, Occupants
<1>15. ReleasedInv'
  BY <1>6, <1>12 DEF IInv, ReleasedInv, PackagesOf
<1>16. FinalInv'
  BY <1>4, <1>7 DEF IInv, FinalInv
<1> QED BY <1>10, <1>11, <1>13, <1>14, <1>15, <1>16 DEF IInv

-----------------------------------------------------------------------------
LEMMA StutterInv == ASSUME IInv, UNCHANGED vars PROVE IInv'
<1>1. TypeOK'
  BY DEF IInv, TypeOK, vars, point, ghost
<1>2. \A q \in Staff : Steady(q) /\ task'[q] = task[q]
  BY DEF Steady, OrderSteady, TokenSteady, PackageSteady, LockSteady, vars, point
<1>3. \A q \in Staff : TaskInv(q)'
  BY <1>1, <1>2, OthersKeep DEF IInv
<1>4. TokenWhenComplete' /\ SlotsAreAccounted' /\ FinalInv' /\ ReleasedInv'
  BY DEF IInv, TokenWhenComplete, SlotsAreAccounted, FinalInv, ReleasedInv, PackagesOf,
         vars, point, ghost
<1> QED BY <1>1, <1>3, <1>4 DEF IInv

(* Every step keeps the invariant.                                          *)
LEMMA NextInv == IInv /\ [Next]_vars => IInv'
<1> SUFFICES ASSUME IInv, [Next]_vars PROVE IInv'
  OBVIOUS
<1>1. CASE \E o \in Orders : Checkout(o) \/ Expire(o)
  BY <1>1, CheckoutInv, ExpireInv
<1>2. ASSUME NEW s \in Staff, NEW o \in Orders,
             AllocateRead(s, o) \/ CancelRead(s, o) \/ EditRead(s, o) \/ VerifyRead(s, o)
      PROVE  IInv'
  BY <1>2, AllocateReadInv, PlainReadInv, VerifyReadInv
<1>3. ASSUME NEW s \in Staff, NEW p \in Packages, ScanRead(s, p) PROVE IInv'
  BY <1>3, ScanReadInv
<1>4. ASSUME NEW s \in Staff,
             AllocateWrite(s) \/ CancelList(s) \/ CancelWrite(s) \/ EditWrite(s)
      PROVE  IInv'
  BY <1>4, AllocateWriteInv, CancelListInv, CancelWriteInv, EditWriteInv
<1>5. ASSUME NEW s \in Staff, ScanSlot(s) \/ ScanCount(s) \/ ScanEnd(s) PROVE IInv'
  BY <1>5, ScanSlotInv, ScanCountInv, ScanEndInv
<1>6. ASSUME NEW s \in Staff, GuessWrite(s) \/ CollectWrite(s) \/ Abort(s) PROVE IInv'
  BY <1>6, GuessWriteInv, CollectWriteInv, AbortInv
<1>7. CASE UNCHANGED vars
  BY <1>7, StutterInv
<1> QED BY <1>1, <1>2, <1>3, <1>4, <1>5, <1>6, <1>7 DEF Next

(* The orders, packages, tokens, slots and requests have their types: no    *)
(* collection or scan drives the free slots below zero or above the total.  *)
THEOREM TypeCorrect == Spec => []TypeOK
<1>1. IInv => TypeOK
  BY DEF IInv
<1> QED BY <1>1, InitInv, NextInv, PTL DEF Spec

(* An order has a token if and only if all of its packages have arrived.    *)
THEOREM TokenTheorem == Spec => []TokenWhenComplete
<1>1. IInv => TokenWhenComplete
  BY DEF IInv
<1> QED BY <1>1, InitInv, NextInv, PTL DEF Spec

(* No slot of the pickup point is lost or given back twice, but by packages *)
(* scanned or handed out twice.                                             *)
THEOREM SlotsTheorem == Spec => []SlotsAreAccounted
<1>1. IInv => SlotsAreAccounted
  BY DEF IInv
<1> QED BY <1>1, InitInv, NextInv, PTL DEF Spec

-----------------------------------------------------------------------------
(* Of all the actions four write the status of an order that there is.      *)
LEMMA CancelledStep ==
  ASSUME IInv, [Next]_vars, NEW o \in Orders, order[o].final
  PROVE  \/ order'[o].status \in {"CANCELLED", "COMPLETED"}
         \/ \E s \in Staff : At(s, "edit", "write") /\ task[s].order = o
<1>1. /\ TypeOK /\ order[o].status = "CANCELLED" /\ order \in [Orders -> Order]
  BY DEF IInv, FinalInv, TypeOK
<1>2. CASE order' = order
  BY <1>1, <1>2
<1>3. ASSUME NEW x \in Orders, Checkout(x)
      PROVE  order'[o].status = "CANCELLED"
  <2>1. x # o
    BY <1>1, <1>3 DEF Checkout
  <2> QED BY <1>1, <1>3, <2>1 DEF Checkout
<1>4. ASSUME NEW s \in Staff, AllocateWrite(s)
      PROVE  order'[o].status = "CANCELLED"
  <2>1. task[s].order # o
    BY <1>4 DEF IInv, TaskInv, AllocateInv, AllocateWrite, At, SameVersion
  <2> QED BY <1>1, <1>4, <2>1 DEF AllocateWrite
<1>5. ASSUME NEW s \in Staff, CancelWrite(s)
      PROVE  order'[o].status = "CANCELLED"
  <2> DEFINE x == task[s].order
             v == order[x]
  <2>1. x \in Orders /\ v \in Order
    BY <1>1, <1>5 DEF IInv, TaskInv, CancelWrite, At
  <2>2. Cancelled(v).status = "CANCELLED"
    <3> HIDE DEF v
    <3> QED BY <2>1 DEF Cancelled, Order
  <2>3. order' = [order EXCEPT ![x] = Cancelled(v)]
    BY <1>1, <1>5 DEF CancelWrite
  <2> HIDE DEF x
  <2> QED BY <1>1, <2>1, <2>2, <2>3
<1>6. ASSUME NEW s \in Staff, EditWrite(s), task[s].order # o
      PROVE  order'[o].status = "CANCELLED"
  BY <1>1, <1>6 DEF EditWrite
<1>7. ASSUME NEW s \in Staff, CollectWrite(s)
      PROVE  order'[o].status \in {"CANCELLED", "COMPLETED"}
  <2> DEFINE x == task[s].order
             v == order[x]
  <2>1. x \in Orders /\ v \in Order
    BY <1>1, <1>7 DEF IInv, TaskInv, CollectWrite, At
  <2>2. Completed(v).status = "COMPLETED"
    <3> HIDE DEF v
    <3> QED BY <2>1 DEF Completed, Order
  <2>3. order' = [order EXCEPT ![x] = Completed(v)]
    BY <1>1, <1>7 DEF CollectWrite
  <2> HIDE DEF x
  <2> QED BY <1>1, <2>1, <2>2, <2>3
<1>8. \/ order' = order
      \/ \E x \in Orders : Checkout(x)
      \/ \E s \in Staff : AllocateWrite(s) \/ CancelWrite(s) \/ EditWrite(s) \/ CollectWrite(s)
  BY DEF Next, vars, Expire, AllocateRead, CancelRead, EditRead, VerifyRead, ScanRead, CancelList,
         ScanSlot, ScanCount, ScanEnd, GuessWrite, Abort
<1>9. ASSUME NEW s \in Staff, EditWrite(s), task[s].order = o
      PROVE  At(s, "edit", "write")
  BY <1>9 DEF EditWrite
<1> QED BY <1>2, <1>3, <1>4, <1>5, <1>6, <1>7, <1>8, <1>9

(* A cancelled order is revived by no allocation that read it before.       *)
THEOREM CancelledTheorem == Spec => CancelledStays
<1>1. IInv /\ [Next]_vars =>
        [\A o \in Orders :
           order[o].final =>
             \/ order'[o].status \in {"CANCELLED", "COMPLETED"}
             \/ \E s \in Staff : At(s, "edit", "write") /\ task[s].order = o]_vars
  BY CancelledStep
<1> QED BY <1>1, InitInv, NextInv, PTL DEF Spec, CancelledStays
=============================================================================

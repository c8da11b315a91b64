---------------------------- MODULE TripPlanning ----------------------------
(***************************************************************************)
(* Planning trips: create, updatePlan, publish and                         *)
(* applyAutomaticOptimization of trips.service.ts, each a transaction that *)
(* takes advisory locks on the vehicles, drivers and orders it uses, reads *)
(* them again and commits, next to the requests that write orders,         *)
(* vehicles and drivers and take no such lock.                             *)
(*                                                                         *)
(* A transaction is READ COMMITTED: what it has read may change before it  *)
(* commits.  Its writes are one step, with the conditions under which the  *)
(* database accepts them, as nobody sees a part of them.                   *)
(***************************************************************************)
EXTENDS Integers, FiniteSets, Sequences

CONSTANTS
  Vehicles, Drivers, Orders,   \* numbers: their locks are taken in order
  Packages, OrderOf,           \* the order of each package
  ShopOrders,
  Times,
  Routes,                      \* trips that a dispatcher may ask for
  Proposals,                   \* routes that the optimizer may propose together
  Requests, Clerks,            \* those who plan trips, and who write orders
  MaxTrips, MaxRequests, MaxChanges,  \* bounds of this model
  NoPlan, NoOne

Trips == 1 .. MaxTrips

Plan  == [vehicle: Vehicles, driver: Drivers, from: Times, to: Times]
Route == [plan: Plan, cargo: SUBSET Packages]

OrdersOf(cargo)    == {OrderOf[p] : p \in cargo}
PackagesOf(orders) == {p \in Packages : OrderOf[p] \in orders}

ASSUME NumbersAssumption ==
  /\ Vehicles \subseteq Nat /\ Drivers \subseteq Nat /\ Orders \subseteq Nat
  /\ Times \subseteq Nat /\ MaxTrips \in Nat
  /\ MaxRequests \in Nat /\ MaxChanges \in Nat
ASSUME PackagesAssumption == OrderOf \in [Packages -> Orders]
ASSUME NoneAssumption == NoOne \notin Requests /\ NoPlan \notin Plan
ASSUME RoutesAssumption ==
  \A r \in Routes : r \in Route /\ r.cargo # {} /\ r.cargo = PackagesOf(OrdersOf(r.cargo))
ASSUME ProposalsAssumption ==
  \A R \in Proposals : R \in Seq(Route) \ {<<>>} /\ \A i \in DOMAIN R : R[i].cargo # {}

VARIABLES
  trip,         \* trips, with their stop tasks and planningSnapshot
  assignment,   \* the PRIMARY driver_assignment of a trip
  reservation,  \* the two resource_reservations of a trip
  order, package, vehicle, driver,
  lock,         \* who holds an advisory lock
  request,      \* the requests on trips
  clerk,        \* the order that an edit or an allocation has read
  begun,        \* how many requests on trips there were, and how many
  changes,      \*   changes by others: both are bounded
  reopened      \* the orders whose status a stale edit overwrote (for the properties)

rows      == <<trip, assignment, reservation, package>>
resources == <<vehicle, driver>>
vars == <<rows, order, resources, lock, request, clerk, begun, changes, reopened>>

-----------------------------------------------------------------------------

Unseen == -1

(* `content' is the identity of the order's stops, which an edit replaces.  *)
Order    == [status: {"CONFIRMED", "ASSIGNED", "CANCELLED"}, version: Nat,
             content: Nat]
Resource == [available: BOOLEAN, version: Nat]

(* The versions a plan was made with.                                       *)
Snapshot == [orders: [Orders -> Int], vehicle: Int, driver: Int]

(* `plan.driver' is the driver of the snapshot, `stops' the order stops that *)
(* the stop tasks refer to.                                                  *)
Trip == [status: {"NONE", "PLANNED", "DISPATCHED"}, version: Nat, auto: BOOLEAN,
         plan: Plan \cup {NoPlan}, cargo: SUBSET Packages, snapshot: Snapshot,
         stops: [Orders -> Int]]

Assignment  == [driver: Drivers, from: Times, to: Times]
Reservation == [plan: Plan, status: {"HELD", "ACTIVE"}]

ASSUME NoRowAssumption == NoPlan \notin Assignment /\ NoPlan \notin Reservation

NothingSeen == [orders |-> [o \in Orders |-> Unseen], vehicle |-> Unseen, driver |-> Unseen]
NoTrip == [status |-> "NONE", version |-> 0, auto |-> FALSE, plan |-> NoPlan, cargo |-> {},
           snapshot |-> NothingSeen, stops |-> NothingSeen.orders]

(* Locks, in the order in which a request takes them: its command's, then   *)
(* those of vehicles, drivers and orders sorted, then that of the numbers.  *)
UpdateLock(t)  == <<0, 2 * t>>
PublishLock(t) == <<0, 2 * t + 1>>
NumberLock     == <<4, 0>>
Locks == {UpdateLock(t) : t \in Trips} \cup {PublishLock(t) : t \in Trips} \cup {NumberLock}
           \cup {<<1, v>> : v \in Vehicles} \cup {<<2, d>> : d \in Drivers}
           \cup {<<3, o>> : o \in Orders}

ByNumber(k, l) == k[2] < l[2]  \* mutant: the namespace does not count
Before(k, l)   == k[1] < l[1] \/ (k[1] = l[1] /\ k[2] < l[2])

LocksOf(p, orders) == {<<1, p.vehicle>>, <<2, p.driver>>} \cup {<<3, o>> : o \in orders}

(* An edit of an order, or the choice of its source, and what it has read.  *)
Errand == [op: {"edit", "allocate"}, order: Orders, version: Nat]
AtRest == [op |-> "none", order |-> Unseen, version |-> Unseen]

(* `copy' is the trip that updatePlan or publish has read, `seen' the       *)
(* orders, vehicles and drivers.                                            *)
Request == [op: {"none", "create", "apply", "update", "publish"},
            pc: {"idle", "lock", "check", "number", "write"},
            trip: Nat, routes: Seq(Route), copy: Trip, todo: SUBSET Locks,
            seen: [orders: [Orders -> Int], stops: [Orders -> Int],
                   vehicles: [Vehicles -> Int], drivers: [Drivers -> Int]]]

TypeOK ==
  /\ trip \in [Trips -> Trip]
  /\ assignment \in [Trips -> Assignment \cup {NoPlan}]
  /\ reservation \in [Trips -> Reservation \cup {NoPlan}]
  /\ \A t \in Trips :
       IF trip[t].status = "NONE" THEN trip[t] = NoTrip
       ELSE trip[t].plan \in Plan /\ assignment[t] # NoPlan /\ reservation[t] # NoPlan
  /\ order \in [Orders -> Order]
  /\ package \in [Packages -> {"NONE", "READY", "ALLOCATED"}]
  /\ vehicle \in [Vehicles -> Resource] /\ driver \in [Drivers -> Resource]
  /\ lock \in [Locks -> Requests \cup {NoOne}]
  /\ request \in [Requests -> Request]
  /\ clerk \in [Clerks -> Errand \cup {AtRest}]
  /\ begun \in Nat /\ changes \in Nat
  /\ reopened \subseteq Orders

Idle == [op |-> "none", pc |-> "idle", trip |-> 0, routes |-> <<>>, copy |-> NoTrip, todo |-> {},
         seen |-> [orders |-> NothingSeen.orders, stops |-> NothingSeen.orders,
                   vehicles |-> [v \in Vehicles |-> Unseen],
                   drivers |-> [d \in Drivers |-> Unseen]]]

(* An order of the shop has its packages from the start, another one gets   *)
(* them with its first plan.                                                *)
Init ==
  /\ trip = [t \in Trips |-> NoTrip]
  /\ assignment = [t \in Trips |-> NoPlan]
  /\ reservation = [t \in Trips |-> NoPlan]
  /\ order = [o \in Orders |-> [status |-> "CONFIRMED", version |-> 0, content |-> 0]]
  /\ package = [p \in Packages |-> IF OrderOf[p] \in ShopOrders THEN "READY" ELSE "NONE"]
  /\ vehicle = [v \in Vehicles |-> [available |-> TRUE, version |-> 0]]
  /\ driver = [d \in Drivers |-> [available |-> TRUE, version |-> 0]]
  /\ lock = [k \in Locks |-> NoOne]
  /\ request = [r \in Requests |-> Idle]
  /\ clerk = [c \in Clerks |-> AtRest]
  /\ begun = 0 /\ changes = 0
  /\ reopened = {}

-----------------------------------------------------------------------------
(* What a request reads.                                                    *)

(* Half-open intervals: a trip may start when another one ends.             *)
Overlap(p, q) == p.from < q.to /\ q.from < p.to

Active(t) == trip[t].status \in {"PLANNED", "DISPATCHED"}

(* Vehicles are looked up in trips, drivers in driver_assignments.          *)
NoOverlap(p, except) ==
  \A t \in Trips \ except : Active(t) =>
    /\ trip[t].plan.vehicle = p.vehicle => ~ Overlap(trip[t].plan, p)
    /\ assignment[t].driver = p.driver  => ~ Overlap(assignment[t], p)

Available(p) == vehicle[p.vehicle].available /\ driver[p.driver].available

AllAre(status, orders) == \A o \in orders : order[o].status = status

See(plans, orders) ==
  [orders   |-> [o \in Orders |-> IF o \in orders THEN order[o].version ELSE Unseen],
   stops    |-> [o \in Orders |-> IF o \in orders THEN order[o].content ELSE Unseen],
   vehicles |-> [v \in Vehicles |-> IF \E p \in plans : p.vehicle = v
                                    THEN vehicle[v].version ELSE Unseen],
   drivers  |-> [d \in Drivers |-> IF \E p \in plans : p.driver = d
                                   THEN driver[d].version ELSE Unseen]]

(* A load plan places pieces of cargo and names each by a key that must be  *)
(* that of a package.  The optimizer places the packages of an order that   *)
(* has some, or the pieces of its items, which get packages then: either    *)
(* way it uses the keys that apply expects, if every package is READY.      *)
CanPack(orders) ==
  \A o \in orders : \/ \A p \in PackagesOf({o}) : package[p] = "READY"
                    \/ \A p \in PackagesOf({o}) : package[p] = "NONE"

(* create and updatePlan always place the pieces of the items, and find no  *)
(* package for them if the order already had packages.                      *)
ItemsAreUnpacked(orders) == \A p \in PackagesOf(orders) : package[p] = "NONE"

PlansIn(routes)  == {routes[i].plan : i \in DOMAIN routes}
CargoIn(routes)  == UNION {routes[i].cargo : i \in DOMAIN routes}
OrdersIn(routes) == OrdersOf(CargoIn(routes))

(* What updatePlan may be asked for.                                        *)
Plans == {r.plan : r \in Routes} \cup UNION {PlansIn(R) : R \in Proposals}

Become(r, q) == request' = [request EXCEPT ![r] = q]

Start(r, op, routes, t, seen, todo) ==
  /\ request[r].pc = "idle" /\ begun < MaxRequests /\ begun' = begun + 1
  /\ Become(r, [Idle EXCEPT !.op = op, !.pc = "lock", !.routes = routes, !.trip = t,
                            !.copy = IF t = 0 THEN NoTrip ELSE trip[t],
                            !.seen = seen, !.todo = todo])

(* create, before its transaction.                                          *)
CreateRead(r) ==
  /\ \E route \in Routes :
       LET p == route.plan  orders == OrdersOf(route.cargo) IN
       /\ p.from < p.to
       /\ Available(p) /\ NoOverlap(p, {}) /\ AllAre("CONFIRMED", orders)
       /\ Start(r, "create", <<route>>, 0, See({}, orders), LocksOf(p, orders))
  /\ UNCHANGED <<rows, order, resources, lock, clerk, changes, reopened>>

(* executeAutomaticOptimization makes a proposal from what it reads; it is  *)
(* applied some time later, perhaps more than once.                         *)
Solve(r) ==
  /\ \E routes \in Proposals :
       /\ \A p \in PlansIn(routes) : Available(p)
       /\ AllAre("CONFIRMED", OrdersIn(routes)) /\ CanPack(OrdersIn(routes))
       /\ Start(r, "apply", routes, 0, See(PlansIn(routes), OrdersIn(routes)),
                UNION {LocksOf(p, OrdersIn(routes)) : p \in PlansIn(routes)})
  /\ UNCHANGED <<rows, order, resources, lock, clerk, changes, reopened>>

(* updatePlan, before its transaction: another plan for the same orders.    *)
UpdateRead(r) ==
  /\ \E t \in Trips, p \in Plans :
       LET orders == OrdersOf(trip[t].cargo) IN
       /\ trip[t].status = "PLANNED" /\ p.from < p.to
       /\ Available(p) /\ AllAre("ASSIGNED", orders)
       /\ Start(r, "update", <<[plan |-> p, cargo |-> trip[t].cargo]>>, t, See({}, orders),
                {UpdateLock(t)} \cup LocksOf(p, orders))
  /\ UNCHANGED <<rows, order, resources, lock, clerk, changes, reopened>>

(* publish reads the trip in its transaction, but before it locks what the  *)
(* trip uses.                                                               *)
PublishRead(r) ==
  /\ \E t \in Trips :
       LET p == trip[t].plan IN
       /\ lock[PublishLock(t)] = NoOne
       /\ trip[t].status = "PLANNED"
       /\ assignment[t].driver = p.driver /\ Available(p)
       /\ Start(r, "publish", <<[plan |-> p, cargo |-> trip[t].cargo]>>, t, Idle.seen,
                LocksOf(p, OrdersOf(trip[t].cargo)))
       /\ lock' = [lock EXCEPT ![PublishLock(t)] = r]
  /\ UNCHANGED <<rows, order, resources, clerk, changes, reopened>>

-----------------------------------------------------------------------------
(* The transactions.                                                        *)

Least(K) == {k \in K : \A l \in K : l = k \/ Before(k, l)}

(* acquireApplicationLocks.                                                 *)
Acquire(r) ==
  /\ request[r].pc = "lock"
  /\ \E k \in Least(request[r].todo) :
       /\ lock[k] = NoOne
       /\ lock' = [lock EXCEPT ![k] = r]
       /\ Become(r, [request[r] EXCEPT !.todo = @ \ {k},
                                       !.pc = IF request[r].todo = {k} THEN "check" ELSE "lock"])
  /\ UNCHANGED <<rows, order, resources, clerk, begun, changes, reopened>>

HaveStatus(r, status, version) ==  \* mutant: without the version
  AllAre(status, OrdersIn(request[r].routes))
SameOrders(r, status, version) ==
  \A o \in OrdersIn(request[r].routes) : order[o].status = status /\ order[o].version = version[o]

(* The optimizer's routes carry every package of their orders, once.        *)
CoversOrders(routes) ==
  /\ CargoIn(routes) = PackagesOf(OrdersIn(routes))
  /\ \A i, j \in DOMAIN routes : i # j => routes[i].cargo \cap routes[j].cargo = {}

(* Only the stop tasks of the optimizer's trips name a package.             *)
OnNoActiveTrip(cargo) == \A t \in Trips : Active(t) /\ trip[t].auto => trip[t].cargo \cap cargo = {}

(* A load plan refers to one task of each stop: it covers those of a        *)
(* dispatcher's trip, which has one for each stop, but not those of the     *)
(* optimizer's, which has one for each package of a stop.                   *)
LoadPlanCovers(t) ==
  trip[t].auto => \A p, q \in trip[t].cargo : OrderOf[p] = OrderOf[q] => p = q

Pass(r, l) == Become(r, [request[r] EXCEPT !.pc = l])

(* The vehicle and the driver as this transaction has read them.            *)
PassWith(r, l) ==
  LET now == See(PlansIn(request[r].routes), {}) IN
  Become(r, [request[r] EXCEPT !.pc = l, !.seen.vehicles = now.vehicles,
                               !.seen.drivers = now.drivers])

CheckCreate(r) ==
  LET q == request[r]  p == q.routes[1].plan IN
  /\ q.pc = "check" /\ q.op = "create"
  /\ Available(p) /\ SameOrders(r, "CONFIRMED", q.seen.orders) /\ NoOverlap(p, {})
  /\ PassWith(r, "number")
  /\ UNCHANGED <<rows, order, resources, lock, clerk, begun, changes, reopened>>

CheckApply(r) ==
  LET q == request[r]  now == See(PlansIn(q.routes), OrdersIn(q.routes)) IN
  /\ q.pc = "check" /\ q.op = "apply"
  /\ SameOrders(r, "CONFIRMED", q.seen.orders)
  /\ now.vehicles = q.seen.vehicles /\ now.drivers = q.seen.drivers /\ now.stops = q.seen.stops
  /\ CoversOrders(q.routes) /\ CanPack(OrdersIn(q.routes)) /\ OnNoActiveTrip(CargoIn(q.routes))
  /\ \A p \in PlansIn(q.routes) : Available(p) /\ NoOverlap(p, {})
  /\ Pass(r, "number")
  /\ UNCHANGED <<rows, order, resources, lock, clerk, begun, changes, reopened>>

CheckUpdate(r) ==
  LET q == request[r]  p == q.routes[1].plan IN
  /\ q.pc = "check" /\ q.op = "update"
  /\ trip[q.trip].version = q.copy.version /\ trip[q.trip].status = "PLANNED"
  /\ Available(p) /\ SameOrders(r, "ASSIGNED", q.seen.orders) /\ NoOverlap(p, {q.trip})
  /\ PassWith(r, "write")
  /\ UNCHANGED <<rows, order, resources, lock, clerk, begun, changes, reopened>>

CheckPublish(r) ==
  LET q == request[r]  p == q.copy.plan IN
  /\ q.pc = "check" /\ q.op = "publish"
  /\ SameOrders(r, "ASSIGNED", q.copy.snapshot.orders)
  /\ Available(p)
  /\ vehicle[p.vehicle].version = q.copy.snapshot.vehicle
  /\ driver[p.driver].version = q.copy.snapshot.driver
  /\ NoOverlap(p, {q.trip})
  /\ reservation[q.trip].plan = p
  /\ LoadPlanCovers(q.trip)
  /\ Become(r, [q EXCEPT !.pc = "write", !.seen = See({p}, OrdersOf(q.copy.cargo))])
  /\ UNCHANGED <<rows, order, resources, lock, clerk, begun, changes, reopened>>

(* allocateTripNumbers: the count of trips is read under this lock.         *)
Number(r) ==
  /\ request[r].pc = "number"
  /\ lock[NumberLock] = NoOne
  /\ lock' = [lock EXCEPT ![NumberLock] = r]
  /\ Pass(r, "write")
  /\ UNCHANGED <<rows, order, resources, clerk, begun, changes, reopened>>

-----------------------------------------------------------------------------
(* What the database refuses: the EXCLUDE constraints of                    *)
(* resource_reservations and driver_assignments.                            *)

ReservedActive(res, t) == res[t] # NoPlan /\ res[t].status = "ACTIVE"  \* mutant: HELD is left out
Reserved(res, t)       == res[t] # NoPlan

NothingExcluded(res, assigned) ==
  /\ \A t, s \in Trips : t # s /\ Reserved(res, t) /\ Reserved(res, s) =>
       LET p == res[t].plan  q == res[s].plan IN
       p.vehicle = q.vehicle \/ p.driver = q.driver => ~ Overlap(p, q)
  /\ \A t, s \in Trips : t # s /\ assigned[t] # NoPlan /\ assigned[s] # NoPlan
       /\ assigned[t].driver = assigned[s].driver => ~ Overlap(assigned[t], assigned[s])

(* The foreign keys between stop tasks and order stops.                     *)
StopsExist(r) ==
  \A o \in OrdersIn(request[r].routes) : request[r].seen.stops[o] = order[o].content

Finish(r) ==
  /\ lock' = [k \in Locks |-> IF lock[k] = r THEN NoOne ELSE lock[k]]
  /\ Become(r, Idle)

NoAssignment(p) == NoPlan  \* mutant
AssignmentOf(p) == [driver |-> p.driver, from |-> p.from, to |-> p.to]
ActiveFor(p)    == [plan |-> p, status |-> "ACTIVE"]  \* mutant
HeldFor(p)      == [plan |-> p, status |-> "HELD"]

Increased(n) == n + 1

Counted(o)     == [order[o] EXCEPT !.version = @ + 1]
Unversioned(o) == [order[o] EXCEPT !.status = "ASSIGNED"]  \* mutant
Assigned(o)    == [order[o] EXCEPT !.status = "ASSIGNED", !.version = @ + 1]

NewTrip(q, i) ==
  LET route == q.routes[i]  orders == OrdersOf(route.cargo) IN
  [status |-> "PLANNED", version |-> 1, auto |-> q.op = "apply",
   plan |-> route.plan, cargo |-> route.cargo,
   snapshot |-> [orders |-> [o \in Orders |-> IF o \in orders THEN Increased(q.seen.orders[o])
                                              ELSE Unseen],
                 vehicle |-> q.seen.vehicles[route.plan.vehicle],
                 driver |-> q.seen.drivers[route.plan.driver]],
   stops |-> [o \in Orders |-> IF o \in orders THEN q.seen.stops[o] ELSE Unseen]]

(* Trips get the numbers that follow those of the trips there are.          *)
Count == Cardinality({t \in Trips : trip[t].status # "NONE"})
Numbered(q) == {t \in Trips : t > Count /\ t <= Count + Len(q.routes)}

Insert(r) ==
  LET q == request[r]  new == Numbered(q)  orders == OrdersIn(q.routes) IN
  /\ Count + Len(q.routes) <= MaxTrips
  /\ StopsExist(r) /\ AllAre("CONFIRMED", orders)
  /\ trip' = [t \in Trips |-> IF t \in new THEN NewTrip(q, t - Count) ELSE trip[t]]
  /\ assignment' = [t \in Trips |-> IF t \in new THEN AssignmentOf(q.routes[t - Count].plan)
                                    ELSE assignment[t]]
  /\ reservation' = [t \in Trips |-> IF t \in new THEN HeldFor(q.routes[t - Count].plan)
                                     ELSE reservation[t]]
  /\ NothingExcluded(reservation', assignment')
  /\ order' = [o \in Orders |-> IF o \in orders THEN Assigned(o) ELSE order[o]]
  /\ Finish(r)
  /\ UNCHANGED <<resources, clerk, begun, changes, reopened>>

CreateWrite(r) ==
  LET orders == OrdersIn(request[r].routes) IN
  /\ request[r].pc = "write" /\ request[r].op = "create"
  /\ ItemsAreUnpacked(orders)
  /\ package' = [p \in Packages |-> IF p \in PackagesOf(orders) THEN "READY" ELSE package[p]]
  /\ Insert(r)

ApplyWrite(r) ==
  /\ request[r].pc = "write" /\ request[r].op = "apply"
  /\ CanPack(OrdersIn(request[r].routes))
  /\ package' = [p \in Packages |-> IF p \in CargoIn(request[r].routes) THEN "ALLOCATED"
                                    ELSE package[p]]
  /\ Insert(r)

IsCurrent(r) ==
  LET q == request[r] IN trip[q.trip].version = q.copy.version /\ trip[q.trip].status = "PLANNED"

(* The trip that updatePlan replans has given its orders packages: what it  *)
(* has written so far is rolled back.  No update that comes this far finds  *)
(* another case (UpdatesAreRefused in TripPlanningProofs).                  *)
UpdateRefused(r) ==
  /\ request[r].pc = "write" /\ request[r].op = "update"
  /\ ~ ItemsAreUnpacked(OrdersIn(request[r].routes))
  /\ Finish(r)
  /\ UNCHANGED <<rows, order, resources, clerk, begun, changes, reopened>>

PublishWrite(r) ==
  LET q == request[r]  t == q.trip IN
  /\ q.pc = "write" /\ q.op = "publish"
  /\ IsCurrent(r)
  /\ trip' = [trip EXCEPT ![t].status = "DISPATCHED", ![t].version = @ + 1]
  /\ reservation' = [reservation EXCEPT ![t].status = "ACTIVE"]
  /\ Finish(r)
  /\ UNCHANGED <<assignment, package, order, resources, clerk, begun, changes, reopened>>

(* A check or a constraint that fails, a timeout, a crash: nothing is kept. *)
Abort(r) ==
  /\ request[r].pc # "idle"
  /\ Finish(r)
  /\ UNCHANGED <<rows, order, resources, clerk, begun, changes, reopened>>

-----------------------------------------------------------------------------
(* Those who take no advisory lock: cancelOrder of the shop, a payment or a *)
(* refund, update of orders and the allocation of a source, which decide on *)
(* an order they have read before, update of vehicles and of drivers.       *)

Change == changes < MaxChanges /\ changes' = changes + 1

Cancel(o) ==
  /\ Change
  /\ order[o].status # "CANCELLED"
  /\ order' = [order EXCEPT ![o].status = "CANCELLED", ![o].version = @ + 1]
  /\ UNCHANGED <<rows, resources, lock, request, clerk, begun, reopened>>

(* writePayment, for any order.                                             *)
Pay(o) ==
  /\ Change
  /\ order' = [order EXCEPT ![o] = Counted(o)]
  /\ UNCHANGED <<rows, resources, lock, request, clerk, begun, reopened>>

EditRead(c) ==
  /\ clerk[c] = AtRest
  /\ \E o \in Orders :
       /\ order[o].status = "CONFIRMED"
       /\ clerk' = [clerk EXCEPT ![c] = [op |-> "edit", order |-> o, version |-> order[o].version]]
  /\ UNCHANGED <<rows, order, resources, lock, request, begun, changes, reopened>>

(* Other stops are refused by the stop tasks that refer to the old ones.    *)
NotOnTrip(o) == \A t \in Trips : trip[t].status # "NONE" => o \notin OrdersOf(trip[t].cargo)

(* An edit does not change the version.                                     *)
EditWrite(c) ==
  LET o == clerk[c].order IN
  /\ Change
  /\ clerk[c].op = "edit"
  /\ \E status \in {order[o].status, "CONFIRMED", "CANCELLED"}, stops \in {0, 1} :
       /\ stops = 1 => NotOnTrip(o)
       /\ order' = [order EXCEPT ![o].status = status, ![o].content = @ + stops]
       /\ reopened' = IF order[o].status = "CONFIRMED" \/ status = order[o].status
                      THEN reopened ELSE reopened \cup {o}
  /\ clerk' = [clerk EXCEPT ![c] = AtRest]
  /\ UNCHANGED <<rows, resources, lock, request, begun>>

(* allocateSourceForOrder, before its transaction.  Only the orders of the  *)
(* shop have items that are in stock.                                       *)
AllocateRead(c) ==
  /\ clerk[c] = AtRest
  /\ \E o \in Orders \cap ShopOrders :
       /\ order[o].status # "CANCELLED"
       /\ clerk' = [clerk EXCEPT ![c] = [op |-> "allocate", order |-> o,
                                         version |-> order[o].version]]
  /\ UNCHANGED <<rows, order, resources, lock, request, begun, changes, reopened>>

(* The write asks for the version it has read, whatever the status is now:  *)
(* an order may be on a trip, or have been cancelled by an edit.            *)
AllocateWrite(c) ==
  LET o == clerk[c].order IN
  /\ Change
  /\ clerk[c].op = "allocate"
  /\ order[o].version = clerk[c].version
  /\ order' = [order EXCEPT ![o] = Assigned(o)]
  /\ clerk' = [clerk EXCEPT ![c] = AtRest]
  /\ UNCHANGED <<rows, resources, lock, request, begun, reopened>>

(* No location has the stock, the order has changed, an error.              *)
GiveUp(c) ==
  /\ clerk[c] # AtRest
  /\ clerk' = [clerk EXCEPT ![c] = AtRest]
  /\ UNCHANGED <<rows, order, resources, lock, request, begun, changes, reopened>>

Changed(resource, x) ==
  \E a \in BOOLEAN : resource' = [resource EXCEPT ![x] = [available |-> a, version |-> @.version + 1]]

ChangeVehicle(v) ==
  /\ Change
  /\ Changed(vehicle, v)
  /\ UNCHANGED <<rows, order, driver, lock, request, clerk, begun, reopened>>

ChangeDriver(d) ==
  /\ Change
  /\ Changed(driver, d)
  /\ UNCHANGED <<rows, order, vehicle, lock, request, clerk, begun, reopened>>

Next ==
  \/ \E r \in Requests :
       \/ CreateRead(r) \/ Solve(r) \/ UpdateRead(r) \/ PublishRead(r) \/ Acquire(r)
       \/ CheckCreate(r) \/ CheckApply(r) \/ CheckUpdate(r) \/ CheckPublish(r) \/ Number(r)
       \/ CreateWrite(r) \/ ApplyWrite(r) \/ UpdateRefused(r) \/ PublishWrite(r) \/ Abort(r)
  \/ \E o \in Orders : Cancel(o) \/ Pay(o)
  \/ \E c \in Clerks : EditRead(c) \/ EditWrite(c) \/ AllocateRead(c) \/ AllocateWrite(c)
                       \/ GiveUp(c)
  \/ \E v \in Vehicles : ChangeVehicle(v)
  \/ \E d \in Drivers : ChangeDriver(d)

Spec == Init /\ [][Next]_vars

-----------------------------------------------------------------------------
(* Properties.                                                              *)

(* The trip, the assignment of its driver and its two reservations say the  *)
(* same, and the reservations of a trip are ACTIVE once it is dispatched:   *)
(* they are written by four functions and read by three others (overlaps in *)
(* trips and driver_assignments, publish in resource_reservations).         *)
RowsAgree ==
  \A t \in Trips : trip[t].status # "NONE" =>
    /\ assignment[t] = AssignmentOf(trip[t].plan)
    /\ reservation[t].plan = trip[t].plan
    /\ reservation[t].status = "ACTIVE" <=> trip[t].status = "DISPATCHED"

(* A vehicle or a driver never has two trips at once, and what has been     *)
(* dispatched does not change, whichever requests race.                     *)
Schedule == INSTANCE FleetSchedule
              WITH plan <- [t \in Trips |-> trip[t].plan],
                   dispatched <- {t \in Trips : trip[t].status = "DISPATCHED"}
KeepsSchedule == Schedule!Spec

(* No package is on two trips, though nothing but the status of its order   *)
(* keeps it from the second one.  A stale edit may give the order back.     *)
PackageOnOneTrip ==
  \A t, s \in Trips : t # s =>
    \A p \in trip[t].cargo \cap trip[s].cargo : OrderOf[p] \in reopened

(* The same whatever an edit does: create and apply promise not to plan an  *)
(* order that is on an active trip.                                         *)
OrderIsPlannedOnce ==
  \A t, s \in Trips : t # s => trip[t].cargo \cap trip[s].cargo = {}

(* The stops of a trip are those its orders have, whoever edits them; and   *)
(* when a stale edit gave an order back so that it was planned again, the   *)
(* two trips have different versions of it: at no time can publish, which   *)
(* compares them with that of the order, take both plans for current.       *)
PlanIsCurrent ==
  /\ \A t \in Trips : \A o \in OrdersOf(trip[t].cargo) : trip[t].stops[o] = order[o].content
  /\ \A t, s \in Trips : t # s =>
       \A p \in trip[t].cargo \cap trip[s].cargo :
         trip[t].snapshot.orders[OrderOf[p]] # trip[s].snapshot.orders[OrderOf[p]]

(* What publish dispatches is the trip that its caller has seen, on orders, *)
(* a vehicle and a driver whose versions under the locks were those that    *)
(* the trip was planned with, whatever was paid, allocated or edited since. *)
DispatchesWhatItChecked ==
  [][\A t \in Trips : trip[t].status = "PLANNED" /\ trip'[t].status = "DISPATCHED" =>
       \E r \in Requests :
         /\ request[r].pc = "write" /\ request[r].copy = trip[t]
         /\ \A o \in OrdersOf(trip[t].cargo) :
              request[r].seen.orders[o] = trip[t].snapshot.orders[o]
         /\ request[r].seen.vehicles[trip[t].plan.vehicle] = trip[t].snapshot.vehicle
         /\ request[r].seen.drivers[trip[t].plan.driver] = trip[t].snapshot.driver]_vars

(* The locks of trips, vehicles, drivers, orders and numbers are taken in   *)
(* such an order that no requests wait for each other in a circle.          *)
WaitsIn(r, S) ==
  \/ request[r].pc = "lock" /\ \A k \in Least(request[r].todo) : lock[k] \in S
  \/ request[r].pc = "number" /\ lock[NumberLock] \in S
SomeoneProceeds ==
  \A S \in SUBSET Requests : S # {} => \E r \in S : ~ WaitsIn(r, S)
=============================================================================

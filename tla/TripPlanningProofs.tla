-------------------------- MODULE TripPlanningProofs --------------------------
(***************************************************************************)
(* Proofs about trip planning, for any number of trips, vehicles, drivers, *)
(* orders, requests and changes by others.                                 *)
(*                                                                         *)
(* What a request has read stays true under its locks for what only locked *)
(* requests write; what others write is caught by the versions.  The       *)
(* schedule needs neither: the constraints of the database keep it.  That  *)
(* locks are taken in one order keeps requests from waiting in a circle.   *)
(***************************************************************************)
EXTENDS TripPlanning, FiniteSetTheorems, WellFoundedInduction, TLAPS

-----------------------------------------------------------------------------
(* Types of what the actions are made of.                                   *)

Seen == [orders: [Orders -> Int], stops: [Orders -> Int],
         vehicles: [Vehicles -> Int], drivers: [Drivers -> Int]]

LEMMA NothingSeenType == NothingSeen \in Snapshot /\ NothingSeen.orders \in [Orders -> Int]
BY DEF NothingSeen, Snapshot, Unseen

LEMMA NoTripType == NoTrip \in Trip
<1>1. NothingSeen \in Snapshot /\ NothingSeen.orders \in [Orders -> Int]
  BY NothingSeenType
<1> QED BY <1>1 DEF NoTrip, Trip

LEMMA IdleSeenType == Idle.seen \in Seen
<1>1. NothingSeen.orders \in [Orders -> Int]
  BY NothingSeenType
<1> QED BY <1>1 DEF Idle, Seen, Unseen

LEMMA IdleType == Idle \in Request
<1>1. NoTrip \in Trip /\ Idle.seen \in Seen
  BY NoTripType, IdleSeenType
<1>2. /\ Idle.op = "none" /\ Idle.pc = "idle" /\ Idle.trip = 0 /\ Idle.routes = <<>>
      /\ Idle.copy = NoTrip /\ Idle.todo = {}
      /\ Idle = [op |-> Idle.op, pc |-> Idle.pc, trip |-> Idle.trip, routes |-> Idle.routes,
                 copy |-> Idle.copy, todo |-> Idle.todo, seen |-> Idle.seen]
  BY DEF Idle
<1>3. <<>> \in Seq(Route) /\ 0 \in Nat /\ {} \in SUBSET Locks
  OBVIOUS
<1> QED BY <1>1, <1>2, <1>3 DEF Request, Seen

LEMMA SeeType ==
  ASSUME TypeOK, NEW plans, NEW orders
  PROVE  See(plans, orders) \in Seen
BY DEF TypeOK, See, Seen, Order, Resource, Unseen

LEMMA CargoType ==
  ASSUME NEW cargo \in SUBSET Packages
  PROVE  OrdersOf(cargo) \subseteq Orders
BY PackagesAssumption DEF OrdersOf

LEMMA RoutesType ==
  ASSUME NEW R \in Seq(Route)
  PROVE  /\ PlansIn(R) \subseteq Plan
         /\ CargoIn(R) \subseteq Packages
         /\ OrdersIn(R) \subseteq Orders
<1>1. \A i \in DOMAIN R : R[i] \in Route
  OBVIOUS
<1>2. PlansIn(R) \subseteq Plan /\ CargoIn(R) \subseteq Packages
  BY <1>1 DEF PlansIn, CargoIn, Route
<1> QED BY <1>2, CargoType DEF OrdersIn

LEMMA LocksOfType ==
  ASSUME NEW p \in Plan, NEW orders \in SUBSET Orders
  PROVE  LocksOf(p, orders) \subseteq Locks
BY DEF LocksOf, Locks, Plan

(* The locks of vehicles, drivers and orders come after those of commands   *)
(* and before that of the numbers.                                          *)
LEMMA LocksOfOrder ==
  ASSUME NEW p, NEW orders
  PROVE  LocksOf(p, orders) # {} /\ \A l \in LocksOf(p, orders) : l[1] \in 1 .. 3
<1>1. \A x : <<1, x>>[1] \in 1 .. 3 /\ <<2, x>>[1] \in 1 .. 3 /\ <<3, x>>[1] \in 1 .. 3
  OBVIOUS
<1>2. <<1, p.vehicle>> \in LocksOf(p, orders)
  BY DEF LocksOf
<1>3. ASSUME NEW l \in LocksOf(p, orders)
      PROVE  l[1] \in 1 .. 3
  BY <1>1 DEF LocksOf
<1> QED BY <1>2, <1>3

LEMMA OneRoute ==
  ASSUME NEW p \in Plan, NEW cargo \in SUBSET Packages
  PROVE  LET R == <<[plan |-> p, cargo |-> cargo]>> IN
         /\ R \in Seq(Route) /\ Len(R) = 1 /\ R[1] = [plan |-> p, cargo |-> cargo]
         /\ PlansIn(R) = {p} /\ CargoIn(R) = cargo /\ OrdersIn(R) = OrdersOf(cargo)
<1> DEFINE x == [plan |-> p, cargo |-> cargo]
<1>1. x \in Route /\ x.plan = p /\ x.cargo = cargo
  BY DEF Route
<1> HIDE DEF x
<1>2. <<x>> \in Seq(Route) /\ Len(<<x>>) = 1 /\ <<x>>[1] = x /\ DOMAIN <<x>> = {1}
  BY <1>1
<1>3. PlansIn(<<x>>) = {p} /\ CargoIn(<<x>>) = cargo
  BY <1>1, <1>2 DEF PlansIn, CargoIn
<1>4. OrdersIn(<<x>>) = OrdersOf(cargo)
  BY <1>3 DEF OrdersIn
<1> QED BY <1>1, <1>2, <1>3, <1>4 DEF x

(* A request, and what it needs to have for its next steps.                 *)
Sound(q) ==
  q.pc # "idle" =>
    /\ q.op # "none" /\ Len(q.routes) >= 1
    /\ q.op # "apply" => Len(q.routes) = 1
    /\ q.op \in {"update", "publish"} => q.trip \in Trips
    /\ q.op \in {"create", "apply"} => \A i \in DOMAIN q.routes : q.routes[i].cargo # {}

LEMMA BecomeType ==
  ASSUME TypeOK, NEW r \in Requests, NEW q \in Request, Become(r, q)
  PROVE  /\ request' \in [Requests -> Request]
         /\ request'[r] = q
         /\ \A s \in Requests \ {r} : request'[s] = request[s]
BY DEF TypeOK, Become

Sent(op, routes, t, copy, seen, todo) ==
  [Idle EXCEPT !.op = op, !.pc = "lock", !.routes = routes, !.trip = t,
               !.copy = copy, !.seen = seen, !.todo = todo]

LEMMA SentType ==
  ASSUME NEW op \in {"create", "apply", "update", "publish"}, NEW routes \in Seq(Route),
         NEW t \in Nat, NEW copy \in Trip, NEW seen \in Seen, NEW todo \in SUBSET Locks
  PROVE  LET q == Sent(op, routes, t, copy, seen, todo) IN
         /\ q \in Request
         /\ q.op = op /\ q.pc = "lock" /\ q.routes = routes /\ q.trip = t /\ q.copy = copy
         /\ q.seen = seen /\ q.todo = todo
<1>1. Idle \in Request
  BY IdleType
<1> QED BY <1>1 DEF Sent, Request, Seen

LEMMA StartSends ==
  ASSUME NEW r, NEW op, NEW routes, NEW t, NEW seen, NEW todo,
         Start(r, op, routes, t, seen, todo)
  PROVE  Become(r, Sent(op, routes, t, IF t = 0 THEN NoTrip ELSE trip[t], seen, todo))
BY DEF Start, Sent

(* A new request waits for the locks of all its orders, and its copy is the *)
(* trip as it is.                                                           *)
Begins(q) ==
  /\ q \in Request /\ q.pc = "lock" /\ Sound(q)
  /\ q.todo # {} /\ NumberLock \notin q.todo
  /\ q.op = "publish" => \A l \in q.todo : l[1] \in 1 .. 3
  /\ \A o \in OrdersIn(q.routes) : <<3, o>> \in q.todo
  /\ q.op \in {"update", "publish"} =>
       /\ q.copy = trip[q.trip] /\ trip[q.trip].status = "PLANNED"
       /\ trip[q.trip].plan \in Plan
       /\ OrdersIn(q.routes) = OrdersOf(trip[q.trip].cargo)

LEMMA CreateBegins ==
  ASSUME TypeOK, NEW r \in Requests, CreateRead(r)
  PROVE  \E q : Begins(q) /\ Become(r, q)
<1>1. PICK route \in Routes :
        Start(r, "create", <<route>>, 0, See({}, OrdersOf(route.cargo)),
              LocksOf(route.plan, OrdersOf(route.cargo)))
  BY DEF CreateRead
<1>2. route \in Route /\ route = [plan |-> route.plan, cargo |-> route.cargo]
      /\ route.plan \in Plan /\ route.cargo \in SUBSET Packages
  BY RoutesAssumption DEF Route
<1> DEFINE orders == OrdersOf(route.cargo)
           seen == See({}, orders)
           todo == LocksOf(route.plan, orders)
           R == <<route>>
           q == Sent("create", R, 0, NoTrip, seen, todo)
<1>3. Become(r, q)
  BY <1>1, StartSends
<1>4. R \in Seq(Route) /\ Len(R) = 1 /\ OrdersIn(R) = orders
  BY <1>2, OneRoute
<1>5. seen \in Seen /\ NoTrip \in Trip
  BY SeeType, NoTripType
<1>6. todo \in SUBSET Locks
  BY <1>2, CargoType, LocksOfType
<1>7. /\ \A o \in orders : <<3, o>> \in todo
      /\ todo # {} /\ NumberLock \notin todo
  BY LocksOfOrder DEF LocksOf, NumberLock
<1>8. /\ q \in Request
      /\ q.pc = "lock" /\ q.op = "create" /\ q.routes = R /\ q.todo = todo
  <2> HIDE DEF seen, todo, R
  <2> QED BY <1>4, <1>5, <1>6, SentType, SMTT(30)
<1>9. Begins(q)
  <2> HIDE DEF q, todo, orders, R
  <2>1. Sound(q)
    <3>1. Len(q.routes) = 1
      BY <1>4, <1>8
    <3>2. \A i \in DOMAIN q.routes : q.routes[i].cargo # {}
      BY <1>8, RoutesAssumption DEF R
    <3> QED BY <3>1, <3>2, <1>8 DEF Sound
  <2>2. \A o \in OrdersIn(q.routes) : <<3, o>> \in q.todo
    BY <1>4, <1>7, <1>8
  <2> QED BY <2>1, <2>2, <1>7, <1>8 DEF Begins
<1> QED BY <1>3, <1>9

LEMMA SolveBegins ==
  ASSUME TypeOK, NEW r \in Requests, Solve(r)
  PROVE  \E q : Begins(q) /\ Become(r, q)
<1>1. PICK R \in Proposals :
        Start(r, "apply", R, 0, See(PlansIn(R), OrdersIn(R)),
              UNION {LocksOf(p, OrdersIn(R)) : p \in PlansIn(R)})
  BY DEF Solve
<1> DEFINE seen == See(PlansIn(R), OrdersIn(R))
           todo == UNION {LocksOf(p, OrdersIn(R)) : p \in PlansIn(R)}
           q == Sent("apply", R, 0, NoTrip, seen, todo)
<1>2. R \in Seq(Route) /\ R # <<>>
  BY ProposalsAssumption
<1>3. Len(R) >= 1 /\ 1 \in DOMAIN R
  BY <1>2
<1>4. Become(r, q)
  BY <1>1, StartSends
<1>5. seen \in Seen /\ NoTrip \in Trip
  BY SeeType, NoTripType
<1>6. PlansIn(R) \subseteq Plan /\ OrdersIn(R) \subseteq Orders
  BY <1>2, RoutesType
<1>7. todo \in SUBSET Locks
  BY <1>6, LocksOfType
<1>8. R[1].plan \in PlansIn(R)
  BY <1>3 DEF PlansIn
<1>9. /\ \A o \in OrdersIn(R) : <<3, o>> \in todo
      /\ todo # {} /\ NumberLock \notin todo
  <2>1. \A p \in PlansIn(R) : NumberLock \notin LocksOf(p, OrdersIn(R))
    BY LocksOfOrder DEF NumberLock
  <2>2. NumberLock \notin todo
    BY <2>1
  <2>3. LocksOf(R[1].plan, OrdersIn(R)) \subseteq todo
    BY <1>8
  <2>4. \A o \in OrdersIn(R) : <<3, o>> \in LocksOf(R[1].plan, OrdersIn(R))
    BY DEF LocksOf
  <2> HIDE DEF todo
  <2> QED BY <2>2, <2>3, <2>4, LocksOfOrder
<1>10. /\ q \in Request
       /\ q.pc = "lock" /\ q.op = "apply" /\ q.routes = R /\ q.todo = todo
  <2> HIDE DEF seen, todo
  <2> QED BY <1>2, <1>5, <1>7, SentType, SMTT(30)
<1>11. Begins(q)
  <2> HIDE DEF q, todo
  <2>1. \A i \in DOMAIN q.routes : q.routes[i].cargo # {}
    BY <1>10, ProposalsAssumption
  <2>2. Sound(q)
    BY <2>1, <1>3, <1>10 DEF Sound
  <2> QED BY <2>2, <1>9, <1>10 DEF Begins
<1> QED BY <1>4, <1>11

LEMMA UpdateBegins ==
  ASSUME TypeOK, NEW r \in Requests, UpdateRead(r)
  PROVE  \E q : Begins(q) /\ Become(r, q)
<1>1. PICK t \in Trips, p \in Plans :
        /\ trip[t].status = "PLANNED"
        /\ Start(r, "update", <<[plan |-> p, cargo |-> trip[t].cargo]>>, t,
                 See({}, OrdersOf(trip[t].cargo)),
                 {UpdateLock(t)} \cup LocksOf(p, OrdersOf(trip[t].cargo)))
  BY DEF UpdateRead
<1>2. p \in Plan
  <2>1. \A x \in Routes : x.plan \in Plan
    BY RoutesAssumption DEF Route
  <2>2. \A R \in Proposals : PlansIn(R) \subseteq Plan
    BY ProposalsAssumption, RoutesType
  <2> QED BY <2>1, <2>2 DEF Plans
<1>3. trip[t] \in Trip /\ trip[t].cargo \in SUBSET Packages /\ t \in Nat /\ t # 0
  BY DEF TypeOK, Trip, Trips
<1> DEFINE R == <<[plan |-> p, cargo |-> trip[t].cargo]>>
           orders == OrdersOf(trip[t].cargo)
           seen == See({}, orders)
           todo == {UpdateLock(t)} \cup LocksOf(p, orders)
           q == Sent("update", R, t, trip[t], seen, todo)
<1>4. Become(r, q)
  BY <1>1, <1>3, StartSends
<1>5. R \in Seq(Route) /\ Len(R) = 1 /\ OrdersIn(R) = orders
  BY <1>2, <1>3, OneRoute
<1>6. seen \in Seen
  BY SeeType
<1>7. todo \in SUBSET Locks
  <2>1. UpdateLock(t) \in Locks
    BY DEF Locks
  <2> QED BY <1>2, <1>3, <2>1, CargoType, LocksOfType
<1>8. /\ \A o \in orders : <<3, o>> \in todo
      /\ todo # {} /\ NumberLock \notin todo
  <2>1. NumberLock \notin LocksOf(p, orders) /\ NumberLock # UpdateLock(t)
    BY LocksOfOrder DEF NumberLock, UpdateLock
  <2> QED BY <2>1 DEF LocksOf
<1>9. /\ q \in Request
      /\ q.pc = "lock" /\ q.op = "update" /\ q.routes = R /\ q.todo = todo
      /\ q.trip = t /\ q.copy = trip[t]
  <2> HIDE DEF seen, todo, R
  <2>1. \A c \in Trip : LET s == Sent("update", R, t, c, seen, todo) IN
          /\ s \in Request
          /\ s.pc = "lock" /\ s.op = "update" /\ s.routes = R /\ s.todo = todo
          /\ s.trip = t /\ s.copy = c
    BY <1>3, <1>5, <1>6, <1>7, SentType, SMTT(30)
  <2> QED BY <2>1, <1>3
<1>10. Begins(q)
  <2>1. trip[t].status = "PLANNED" /\ t \in Trips
    BY <1>1
  <2> HIDE DEF q, todo, R
  <2>2. Sound(q)
    <3>1. Len(q.routes) = 1
      BY <1>5, <1>9
    <3>2. q.trip \in Trips /\ q.op \in {"update", "publish"}
      BY <2>1, <1>9
    <3> QED BY <3>1, <3>2 DEF Sound
  <2>3. OrdersIn(q.routes) = OrdersOf(trip[q.trip].cargo)
    BY <1>5, <1>9
  <2>4. \A o \in OrdersIn(q.routes) : <<3, o>> \in q.todo
    BY <1>5, <1>8, <1>9
  <2>5. trip[q.trip].plan \in Plan
    BY <2>1, <1>9 DEF TypeOK
  <2> QED BY <2>1, <2>2, <2>3, <2>4, <2>5, <1>8, <1>9 DEF Begins
<1> QED BY <1>4, <1>10

LEMMA PublishBegins ==
  ASSUME TypeOK, NEW r \in Requests, PublishRead(r)
  PROVE  /\ \E q : Begins(q) /\ Become(r, q)
         /\ \E t \in Trips : lock[PublishLock(t)] = NoOne
                             /\ lock' = [lock EXCEPT ![PublishLock(t)] = r]
         /\ request'[r].op = "publish"
<1>1. PICK t \in Trips :
        /\ trip[t].status = "PLANNED"
        /\ lock[PublishLock(t)] = NoOne
        /\ lock' = [lock EXCEPT ![PublishLock(t)] = r]
        /\ Start(r, "publish", <<[plan |-> trip[t].plan, cargo |-> trip[t].cargo]>>, t, Idle.seen,
                 LocksOf(trip[t].plan, OrdersOf(trip[t].cargo)))
  BY DEF PublishRead
<1> DEFINE p == trip[t].plan
           R == <<[plan |-> p, cargo |-> trip[t].cargo]>>
           orders == OrdersOf(trip[t].cargo)
           todo == LocksOf(p, orders)
           q == Sent("publish", R, t, trip[t], Idle.seen, todo)
<1>2. trip[t] \in Trip /\ trip[t].cargo \in SUBSET Packages /\ t \in Nat /\ t # 0 /\ p \in Plan
  BY <1>1 DEF TypeOK, Trip, Trips
<1>4. Become(r, q)
  BY <1>1, <1>2, StartSends
<1>5. R \in Seq(Route) /\ Len(R) = 1 /\ OrdersIn(R) = orders
  BY <1>2, OneRoute
<1>6. Idle.seen \in Seen
  BY IdleSeenType
<1>7. todo \in SUBSET Locks
  BY <1>2, CargoType, LocksOfType
<1>8. /\ \A o \in orders : <<3, o>> \in todo
      /\ todo # {} /\ NumberLock \notin todo /\ \A l \in todo : l[1] \in 1 .. 3
  BY LocksOfOrder DEF LocksOf, NumberLock
<1>9. /\ q \in Request
      /\ q.pc = "lock" /\ q.op = "publish" /\ q.routes = R /\ q.todo = todo
      /\ q.trip = t /\ q.copy = trip[t]
  <2> HIDE DEF todo, R
  <2> QED BY <1>2, <1>5, <1>6, <1>7, SentType, SMTT(30)
<1>10. Begins(q)
  <2>1. trip[t].status = "PLANNED" /\ t \in Trips
    BY <1>1
  <2> HIDE DEF q, todo, R
  <2>2. Sound(q)
    <3>1. Len(q.routes) = 1
      BY <1>5, <1>9
    <3>2. q.trip \in Trips /\ q.op \in {"update", "publish"}
      BY <2>1, <1>9
    <3> QED BY <3>1, <3>2 DEF Sound
  <2>3. OrdersIn(q.routes) = OrdersOf(trip[q.trip].cargo)
    BY <1>5, <1>9
  <2>4. \A o \in OrdersIn(q.routes) : <<3, o>> \in q.todo
    BY <1>5, <1>8, <1>9
  <2>5. trip[q.trip].plan \in Plan
    BY <2>1, <1>9 DEF TypeOK
  <2> QED BY <2>1, <2>2, <2>3, <2>4, <2>5, <1>8, <1>9 DEF Begins
<1>11. request'[r].op = "publish"
  <2> HIDE DEF q
  <2> QED BY <1>4, <1>9, BecomeType
<1> QED BY <1>1, <1>4, <1>10, <1>11

(* A request goes on: what it was sent for and what it has read of trips    *)
(* and orders stays, but that publish reads the orders under the locks.     *)
GoesOn(r, q) ==
  LET p == request[r] IN
  /\ q \in Request /\ p.pc # "idle" /\ q.pc # "idle"
  /\ q.op = p.op /\ q.routes = p.routes /\ q.trip = p.trip /\ q.copy = p.copy
  /\ p.op # "publish" => q.seen.orders = p.seen.orders /\ q.seen.stops = p.seen.stops

LEMMA AcquireGoesOn ==
  ASSUME TypeOK, NEW r \in Requests, Acquire(r)
  PROVE  \E k \in Locks : \E q :
           /\ GoesOn(r, q) /\ Become(r, q)
           /\ k \in Least(request[r].todo) /\ q.todo = request[r].todo \ {k}
           /\ q.pc \in {"lock", "check"}
           /\ q.pc = "check" <=> q.todo = {}
           /\ lock[k] = NoOne /\ lock' = [lock EXCEPT ![k] = r]
<1>1. PICK k \in Least(request[r].todo) :
        /\ lock[k] = NoOne
        /\ lock' = [lock EXCEPT ![k] = r]
        /\ Become(r, [request[r] EXCEPT !.todo = @ \ {k},
                                        !.pc = IF request[r].todo = {k} THEN "check" ELSE "lock"])
  BY DEF Acquire
<1>2. request[r] \in Request /\ request[r].pc = "lock"
  BY DEF TypeOK, Acquire
<1>3. k \in request[r].todo /\ request[r].todo \subseteq Locks
  BY <1>2 DEF Least, Request
<1> DEFINE p == request[r]
           l == IF p.todo = {k} THEN "check" ELSE "lock"
           q == [p EXCEPT !.todo = @ \ {k}, !.pc = l]
<1>4. l \in {"lock", "check"} /\ (l = "check" => p.todo = {k})
  OBVIOUS
<1>5. /\ q \in Request /\ q.pc = l /\ q.todo = p.todo \ {k}
      /\ q.op = p.op /\ q.routes = p.routes /\ q.trip = p.trip /\ q.copy = p.copy
      /\ q.seen = p.seen
  <2> HIDE DEF p, l
  <2>1. p \in Request
    BY <1>2 DEF p
  <2> QED BY <2>1, <1>4 DEF Request
<1>6. GoesOn(r, q)
  <2> HIDE DEF q, l
  <2> QED BY <1>2, <1>4, <1>5 DEF GoesOn
<1>7. q.pc = "check" <=> q.todo = {}
  <2>1. l = "check" <=> p.todo \ {k} = {}
    BY <1>3
  <2> HIDE DEF q, l
  <2> QED BY <2>1, <1>5
<1> QED BY <1>1, <1>3, <1>4, <1>5, <1>6, <1>7

LEMMA PassGoesOn ==
  ASSUME TypeOK, NEW r \in Requests, NEW l \in {"number", "write"},
         request[r].pc # "idle", Pass(r, l)
  PROVE  \E q : GoesOn(r, q) /\ Become(r, q) /\ q.pc = l /\ q.todo = request[r].todo
<1> DEFINE p == request[r]
           q == [p EXCEPT !.pc = l]
<1>1. p \in Request
  BY DEF TypeOK
<1>2. /\ q \in Request /\ q.pc = l /\ q.todo = p.todo
      /\ q.op = p.op /\ q.routes = p.routes /\ q.trip = p.trip /\ q.copy = p.copy
      /\ q.seen = p.seen
  <2> HIDE DEF p
  <2> QED BY <1>1 DEF Request
<1>3. Become(r, q)
  BY DEF Pass
<1>4. GoesOn(r, q)
  <2> HIDE DEF q
  <2> QED BY <1>2 DEF GoesOn
<1> QED BY <1>2, <1>3, <1>4

LEMMA PassWithGoesOn ==
  ASSUME TypeOK, NEW r \in Requests, NEW l \in {"number", "write"},
         request[r].pc # "idle", PassWith(r, l)
  PROVE  \E q : GoesOn(r, q) /\ Become(r, q) /\ q.pc = l /\ q.todo = request[r].todo
<1> DEFINE p == request[r]
           now == See(PlansIn(p.routes), {})
           s == p.seen
           q == [p EXCEPT !.pc = l, !.seen.vehicles = now.vehicles, !.seen.drivers = now.drivers]
<1>1. p \in Request /\ p.seen \in Seen
  BY DEF TypeOK, Request, Seen
<1>2. now.vehicles \in [Vehicles -> Int] /\ now.drivers \in [Drivers -> Int]
  BY SeeType DEF Seen
<1>3. /\ q \in Request /\ q.pc = l /\ q.todo = p.todo
      /\ q.op = p.op /\ q.routes = p.routes /\ q.trip = p.trip /\ q.copy = p.copy
      /\ q.seen.orders = p.seen.orders /\ q.seen.stops = p.seen.stops
  <2> HIDE DEF p, now
  <2> QED BY <1>1, <1>2 DEF Request, Seen
<1>4. Become(r, q)
  BY DEF PassWith
<1>5. GoesOn(r, q)
  <2> HIDE DEF q
  <2> QED BY <1>3 DEF GoesOn
<1> QED BY <1>3, <1>4, <1>5

LEMMA CheckPublishGoesOn ==
  ASSUME TypeOK, NEW r \in Requests, CheckPublish(r)
  PROVE  \E q : /\ GoesOn(r, q) /\ Become(r, q) /\ q.pc = "write" /\ q.todo = request[r].todo
               /\ q.seen = See({request[r].copy.plan}, OrdersOf(request[r].copy.cargo))
<1> DEFINE p == request[r]
           now == See({p.copy.plan}, OrdersOf(p.copy.cargo))
           q == [p EXCEPT !.pc = "write", !.seen = now]
<1>1. p \in Request /\ p.pc = "check" /\ p.op = "publish" /\ Become(r, q)
  BY DEF TypeOK, CheckPublish
<1>2. now \in Seen
  BY SeeType
<1>3. /\ q \in Request /\ q.pc = "write" /\ q.todo = p.todo /\ q.seen = now
      /\ q.op = p.op /\ q.routes = p.routes /\ q.trip = p.trip /\ q.copy = p.copy
  <2> HIDE DEF p, now
  <2> QED BY <1>1, <1>2 DEF Request, Seen
<1>4. GoesOn(r, q)
  <2> HIDE DEF q
  <2> QED BY <1>1, <1>3 DEF GoesOn
<1> HIDE DEF q
<1> QED BY <1>1, <1>3, <1>4

-----------------------------------------------------------------------------
(* TypeOK and soundness of the requests are inductive together.             *)

AllSound == \A r \in Requests : Sound(request[r])

LEMMA CountType == Count \in Nat
<1>1. IsFiniteSet(Trips)
  BY NumbersAssumption, FS_Interval DEF Trips
<1> QED BY <1>1, FS_Subset, FS_CardinalityType DEF Count

LEMMA NumberedRoute ==
  ASSUME NEW q \in Request, NEW t \in Numbered(q)
  PROVE  t \in Trips /\ t - Count \in DOMAIN q.routes /\ q.routes[t - Count] \in Route
<1>1. Count \in Nat /\ q.routes \in Seq(Route)
  BY CountType DEF Request
<1>2. t \in Trips /\ t > Count /\ t <= Count + Len(q.routes)
  BY DEF Numbered
<1>3. t \in Nat
  BY <1>2 DEF Trips
<1>4. t - Count \in 1 .. Len(q.routes)
  BY <1>1, <1>2, <1>3
<1> QED BY <1>1, <1>2, <1>4

LEMMA NewTripType ==
  ASSUME NEW q \in Request, NEW i \in DOMAIN q.routes
  PROVE  /\ NewTrip(q, i) \in Trip
         /\ NewTrip(q, i).status = "PLANNED" /\ NewTrip(q, i).plan \in Plan
<1> DEFINE route == q.routes[i]
           orders == OrdersOf(route.cargo)
           seen == q.seen
           snapshot == [orders |-> [o \in Orders |-> IF o \in orders THEN Increased(seen.orders[o])
                                                     ELSE Unseen],
                        vehicle |-> seen.vehicles[route.plan.vehicle],
                        driver |-> seen.drivers[route.plan.driver]]
           stops == [o \in Orders |-> IF o \in orders THEN seen.stops[o] ELSE Unseen]
           auto == q.op = "apply"
<1>1. route \in Route /\ seen \in Seen
  BY DEF Request, Seen
<1>2. /\ route.plan \in Plan /\ route.cargo \in SUBSET Packages
      /\ route.plan.vehicle \in Vehicles /\ route.plan.driver \in Drivers
  BY <1>1 DEF Route, Plan
<1>3. snapshot \in Snapshot
  <2> HIDE DEF route, orders, seen
  <2> QED BY <1>1, <1>2 DEF Snapshot, Seen, Increased, Unseen
<1>4. stops \in [Orders -> Int]
  <2> HIDE DEF route, orders, seen
  <2> QED BY <1>1 DEF Seen, Unseen
<1>5. auto \in BOOLEAN
  OBVIOUS
<1>6. NewTrip(q, i) = [status |-> "PLANNED", version |-> 1, auto |-> auto, plan |-> route.plan,
                       cargo |-> route.cargo, snapshot |-> snapshot, stops |-> stops]
  BY DEF NewTrip
<1> HIDE DEF route, snapshot, stops, auto
<1> QED BY <1>2, <1>3, <1>4, <1>5, <1>6 DEF Trip

(* What an insertion writes for a trip: the old row, or a new one.          *)
LEMMA InsertRows ==
  ASSUME TypeOK, NEW r \in Requests, Insert(r), NEW t \in Trips
  PROVE  /\ t \notin Numbered(request[r]) =>
              trip'[t] = trip[t] /\ assignment'[t] = assignment[t]
              /\ reservation'[t] = reservation[t]
         /\ t \in Numbered(request[r]) =>
              LET x == request[r].routes[t - Count] IN
              /\ trip'[t] = NewTrip(request[r], t - Count)
              /\ assignment'[t] = AssignmentOf(x.plan) /\ reservation'[t] = HeldFor(x.plan)
              /\ x \in Route /\ x.plan \in Plan /\ x.cargo \in SUBSET Packages
<1>1. t \in Numbered(request[r]) =>
        request[r].routes[t - Count] \in Route /\ t - Count \in DOMAIN request[r].routes
  BY NumberedRoute DEF TypeOK
<1> QED BY <1>1 DEF Insert, Route

LEMMA PlanRowsType ==
  ASSUME NEW p \in Plan
  PROVE  /\ AssignmentOf(p) \in Assignment /\ AssignmentOf(p) # NoPlan
         /\ HeldFor(p) \in Reservation /\ HeldFor(p) # NoPlan
BY NoRowAssumption DEF AssignmentOf, HeldFor, Assignment, Reservation, Plan

TripTypes ==
  /\ trip \in [Trips -> Trip]
  /\ assignment \in [Trips -> Assignment \cup {NoPlan}]
  /\ reservation \in [Trips -> Reservation \cup {NoPlan}]
  /\ \A t \in Trips :
       IF trip[t].status = "NONE" THEN trip[t] = NoTrip
       ELSE trip[t].plan \in Plan /\ assignment[t] # NoPlan /\ reservation[t] # NoPlan

LEMMA InsertType ==
  ASSUME TypeOK, NEW r \in Requests, Insert(r)
  PROVE  TripTypes' /\ order' \in [Orders -> Order]
<1> DEFINE q == request[r]
           new == Numbered(q)
<1>1. q \in Request
  BY DEF TypeOK
<1>2. ASSUME NEW t \in Trips
      PROVE  /\ trip'[t] \in Trip /\ assignment'[t] \in Assignment \cup {NoPlan}
             /\ reservation'[t] \in Reservation \cup {NoPlan}
             /\ IF trip'[t].status = "NONE" THEN trip'[t] = NoTrip
                ELSE trip'[t].plan \in Plan /\ assignment'[t] # NoPlan /\ reservation'[t] # NoPlan
  <2>1. CASE t \notin new
    BY <2>1, InsertRows DEF TypeOK
  <2>2. CASE t \in new
    <3> DEFINE x == q.routes[t - Count]
    <3>1. /\ trip'[t] = NewTrip(q, t - Count)
          /\ assignment'[t] = AssignmentOf(x.plan) /\ reservation'[t] = HeldFor(x.plan)
          /\ x.plan \in Plan
      BY <2>2, InsertRows
    <3>2. t - Count \in DOMAIN q.routes
      BY <2>2, <1>1, NumberedRoute
    <3>3. NewTrip(q, t - Count) \in Trip /\ NewTrip(q, t - Count).status = "PLANNED"
          /\ NewTrip(q, t - Count).plan \in Plan
      BY <1>1, <3>2, NewTripType
    <3> HIDE DEF x, q
    <3> QED BY <3>1, <3>3, PlanRowsType
  <2> QED BY <2>1, <2>2
<1>3. /\ DOMAIN trip' = Trips /\ trip' = [t \in Trips |-> trip'[t]]
      /\ assignment' = [t \in Trips |-> assignment'[t]]
      /\ reservation' = [t \in Trips |-> reservation'[t]]
  BY DEF Insert
<1>4. TripTypes'
  BY <1>2, <1>3 DEF TripTypes
<1>5. order' \in [Orders -> Order]
  <2>1. order' = [o \in Orders |-> IF o \in OrdersIn(q.routes) THEN Assigned(o) ELSE order[o]]
    BY DEF Insert
  <2>2. \A o \in Orders : order[o] \in Order /\ Assigned(o) \in Order
    <3> TAKE o \in Orders
    <3> DEFINE x == order[o]
               n == x.version + 1
    <3>1. x \in Order
      BY DEF TypeOK
    <3>2. n \in Nat
      BY <3>1 DEF Order
    <3>3. [x EXCEPT !.status = "ASSIGNED", !.version = n] \in Order
      <4> HIDE DEF x, n
      <4> QED BY <3>1, <3>2 DEF Order
    <3>4. Assigned(o) = [x EXCEPT !.status = "ASSIGNED", !.version = n]
      BY <3>1 DEF Assigned, Order
    <3> QED BY <3>1, <3>3, <3>4
  <2> QED BY <2>1, <2>2
<1> QED BY <1>4, <1>5

LEMMA TypeInit ==
  ASSUME Init
  PROVE  TypeOK /\ AllSound
<1>1. NoTrip \in Trip /\ Idle \in Request /\ Idle.pc = "idle" /\ NoTrip.status = "NONE"
  BY NoTripType, IdleType DEF Idle, NoTrip
<1>2. trip \in [Trips -> Trip] /\ request \in [Requests -> Request] /\ AllSound
  <2>1. \A r \in Requests : request[r] = Idle
    BY DEF Init
  <2> QED BY <1>1, <2>1 DEF Init, AllSound, Sound
<1>3. \A t \in Trips : trip[t] = NoTrip
  BY DEF Init
<1>4. order \in [Orders -> Order] /\ vehicle \in [Vehicles -> Resource]
      /\ driver \in [Drivers -> Resource]
  BY DEF Init, Order, Resource
<1>5. /\ lock \in [Locks -> Requests \cup {NoOne}]
      /\ assignment \in [Trips -> Assignment \cup {NoPlan}]
      /\ reservation \in [Trips -> Reservation \cup {NoPlan}]
      /\ clerk \in [Clerks -> Errand \cup {AtRest}]
      /\ package \in [Packages -> {"NONE", "READY", "ALLOCATED"}]
      /\ begun \in Nat /\ changes \in Nat /\ reopened \subseteq Orders
  BY DEF Init
<1> QED BY <1>1, <1>2, <1>3, <1>4, <1>5 DEF TypeOK

(* What the steps of a request change of lock and request, and nothing else *)
(* but, when it writes, rows.                                               *)
LEMMA FinishType ==
  ASSUME TypeOK, AllSound, NEW r \in Requests, Finish(r)
  PROVE  /\ lock' \in [Locks -> Requests \cup {NoOne}]
         /\ request' \in [Requests -> Request] /\ AllSound'
         /\ request'[r] = Idle /\ \A s \in Requests \ {r} : request'[s] = request[s]
<1>1. Idle \in Request /\ Idle.pc = "idle"
  BY IdleType DEF Idle
<1>2. /\ request' \in [Requests -> Request] /\ request'[r] = Idle
      /\ \A s \in Requests \ {r} : request'[s] = request[s]
  BY <1>1, BecomeType DEF Finish
<1>3. lock' \in [Locks -> Requests \cup {NoOne}]
  BY DEF Finish, TypeOK
<1>4. \A s \in Requests : Sound(request[s])' 
  BY <1>1, <1>2 DEF AllSound, Sound
<1> QED BY <1>2, <1>3, <1>4 DEF AllSound

LEMMA BeginsType ==
  ASSUME TypeOK, AllSound, NEW r \in Requests, NEW q, Begins(q) \/ GoesOn(r, q), Become(r, q)
  PROVE  request' \in [Requests -> Request] /\ AllSound'
<1>1. q \in Request /\ Sound(q)
  BY DEF Begins, GoesOn, AllSound, Sound
<1>2. /\ request' \in [Requests -> Request] /\ request'[r] = q
      /\ \A s \in Requests \ {r} : request'[s] = request[s]
  BY <1>1, BecomeType
<1>3. \A s \in Requests : Sound(request[s])'
  BY <1>1, <1>2 DEF AllSound, Sound
<1> QED BY <1>2, <1>3 DEF AllSound

LEMMA PublishRows ==
  ASSUME TypeOK, AllSound, NEW r \in Requests, PublishWrite(r)
  PROVE  LET q == request[r]  t == q.trip IN
         /\ t \in Trips /\ q.op = "publish" /\ q.pc = "write"
         /\ trip[t].status = "PLANNED" /\ trip[t].version = q.copy.version
         /\ trip' \in [Trips -> Trip]
         /\ trip'[t].status = "DISPATCHED" /\ trip'[t].version = trip[t].version + 1
         /\ trip'[t].cargo = trip[t].cargo /\ trip'[t].plan = trip[t].plan
         /\ trip'[t].snapshot = trip[t].snapshot /\ trip'[t].stops = trip[t].stops
         /\ reservation' \in [Trips -> Reservation \cup {NoPlan}]
         /\ reservation'[t].plan = reservation[t].plan /\ reservation'[t].status = "ACTIVE"
         /\ reservation'[t] # NoPlan
         /\ \A s \in Trips \ {t} : trip'[s] = trip[s] /\ reservation'[s] = reservation[s]
<1> DEFINE q == request[r]
           t == q.trip
           x == trip[t]
           n == x.version + 1
           y == [x EXCEPT !.status = "DISPATCHED", !.version = n]
           u == reservation[t]
           w == [u EXCEPT !.status = "ACTIVE"]
<1>1. q \in Request /\ q.op = "publish" /\ q.pc = "write" /\ Sound(q)
  BY DEF TypeOK, AllSound, PublishWrite
<1>2. t \in Trips
  BY <1>1 DEF Sound
<1>3. x \in Trip /\ x.status = "PLANNED" /\ x.version = q.copy.version
  BY <1>2 DEF TypeOK, PublishWrite, IsCurrent
<1>4. n \in Nat
  BY <1>3 DEF Trip
<1>5. u \in Reservation
  BY <1>2, <1>3 DEF TypeOK
<1>6. /\ y \in Trip /\ y.status = "DISPATCHED" /\ y.version = n
      /\ y.cargo = x.cargo /\ y.plan = x.plan
      /\ y.snapshot = x.snapshot /\ y.stops = x.stops
  <2> HIDE DEF x, n
  <2> QED BY <1>3, <1>4 DEF Trip
<1>7. w \in Reservation /\ w.plan = u.plan /\ w.status = "ACTIVE" /\ w # NoPlan
  <2>1. w \in Reservation /\ w.plan = u.plan /\ w.status = "ACTIVE"
    <3> HIDE DEF u
    <3> QED BY <1>5 DEF Reservation
  <2> QED BY <2>1, NoRowAssumption
<1>8. trip \in [Trips -> Trip] /\ reservation \in [Trips -> Reservation \cup {NoPlan}]
  BY DEF TypeOK
<1>9. trip' = [trip EXCEPT ![t] = y] /\ reservation' = [reservation EXCEPT ![t] = w]
  <2>1. /\ trip' = [trip EXCEPT ![t].status = "DISPATCHED", ![t].version = @ + 1]
        /\ reservation' = [reservation EXCEPT ![t].status = "ACTIVE"]
    BY DEF PublishWrite
  <2>2. [trip EXCEPT ![t].status = "DISPATCHED", ![t].version = @ + 1] = [trip EXCEPT ![t] = y]
    <3> HIDE DEF t
    <3> QED BY <1>2, <1>3, <1>8 DEF Trip
  <2> QED BY <2>1, <2>2
<1>10. /\ trip' \in [Trips -> Trip] /\ trip'[t] = y
       /\ reservation' \in [Trips -> Reservation \cup {NoPlan}] /\ reservation'[t] = w
       /\ \A s \in Trips \ {t} : trip'[s] = trip[s] /\ reservation'[s] = reservation[s]
  <2> HIDE DEF y, t, w
  <2> QED BY <1>2, <1>6, <1>7, <1>8, <1>9
<1> HIDE DEF y, w
<1> QED BY <1>1, <1>2, <1>3, <1>6, <1>7, <1>10

(* A step of a request that writes no row.                                  *)
Reads(r) ==
  \/ CreateRead(r) \/ Solve(r) \/ UpdateRead(r) \/ PublishRead(r)
Passes(r) ==
  \/ CheckCreate(r) \/ CheckApply(r) \/ CheckUpdate(r) \/ CheckPublish(r)

LEMMA ReadsBegin ==
  ASSUME TypeOK, NEW r \in Requests, Reads(r)
  PROVE  /\ \E q : Begins(q) /\ Become(r, q)
         /\ \/ lock' = lock
            \/ \E k \in Locks : /\ lock[k] = NoOne /\ lock' = [lock EXCEPT ![k] = r]
                              /\ k[1] = 0 /\ request'[r].op = "publish"
         /\ request[r].pc = "idle"
         /\ begun' = begun + 1
         /\ UNCHANGED <<rows, order, resources, clerk, changes, reopened>>
<1>1. CASE CreateRead(r)
  BY <1>1, CreateBegins DEF CreateRead, Start
<1>2. CASE Solve(r)
  BY <1>2, SolveBegins DEF Solve, Start
<1>3. CASE UpdateRead(r)
  BY <1>3, UpdateBegins DEF UpdateRead, Start
<1>4. CASE PublishRead(r)
  <2>1. \A t \in Trips : PublishLock(t) \in Locks /\ PublishLock(t)[1] = 0
    BY DEF Locks, PublishLock
  <2>2. /\ request[r].pc = "idle" /\ begun' = begun + 1
        /\ UNCHANGED <<rows, order, resources, clerk, changes, reopened>>
    BY <1>4 DEF PublishRead, Start
  <2> QED BY <1>4, <2>1, <2>2, PublishBegins
<1> QED BY <1>1, <1>2, <1>3, <1>4 DEF Reads

LEMMA PassesGoOn ==
  ASSUME TypeOK, NEW r \in Requests, Passes(r)
  PROVE  /\ \E q : GoesOn(r, q) /\ Become(r, q) /\ q.todo = request[r].todo
                   /\ q.pc \in {"number", "write"}
         /\ request[r].pc = "check"
         /\ UNCHANGED <<rows, order, resources, lock, clerk, begun, changes, reopened>>
<1>1. CASE CheckCreate(r)
  <2>1. request[r].pc = "check" /\ PassWith(r, "number")
    BY <1>1 DEF CheckCreate
  <2>2. \E q : GoesOn(r, q) /\ Become(r, q) /\ q.pc = "number" /\ q.todo = request[r].todo
    BY <2>1, PassWithGoesOn
  <2> QED BY <1>1, <2>1, <2>2 DEF CheckCreate
<1>2. CASE CheckApply(r)
  <2>1. request[r].pc = "check" /\ Pass(r, "number")
    BY <1>2 DEF CheckApply
  <2>2. \E q : GoesOn(r, q) /\ Become(r, q) /\ q.pc = "number" /\ q.todo = request[r].todo
    BY <2>1, PassGoesOn
  <2> QED BY <1>2, <2>1, <2>2 DEF CheckApply
<1>3. CASE CheckUpdate(r)
  <2>1. request[r].pc = "check" /\ PassWith(r, "write")
    BY <1>3 DEF CheckUpdate
  <2>2. \E q : GoesOn(r, q) /\ Become(r, q) /\ q.pc = "write" /\ q.todo = request[r].todo
    BY <2>1, PassWithGoesOn
  <2> QED BY <1>3, <2>1, <2>2 DEF CheckUpdate
<1>4. CASE CheckPublish(r)
  <2>1. \E q : GoesOn(r, q) /\ Become(r, q) /\ q.pc = "write" /\ q.todo = request[r].todo
    BY <1>4, CheckPublishGoesOn
  <2> QED BY <1>4, <2>1 DEF CheckPublish
<1> QED BY <1>1, <1>2, <1>3, <1>4 DEF Passes

LEMMA NumberGoesOn ==
  ASSUME TypeOK, NEW r \in Requests, Number(r)
  PROVE  /\ \E q : GoesOn(r, q) /\ Become(r, q) /\ q.todo = request[r].todo /\ q.pc = "write"
         /\ request[r].pc = "number"
         /\ \E k \in Locks : /\ k = NumberLock
                           /\ lock[k] = NoOne /\ lock' = [lock EXCEPT ![k] = r]
         /\ UNCHANGED <<rows, order, resources, clerk, begun, changes, reopened>>
<1>1. request[r].pc = "number" /\ Pass(r, "write")
  BY DEF Number
<1>2. \E q : GoesOn(r, q) /\ Become(r, q) /\ q.pc = "write" /\ q.todo = request[r].todo
  BY <1>1, PassGoesOn
<1>3. NumberLock \in Locks
  BY DEF Locks
<1> QED BY <1>1, <1>2, <1>3 DEF Number

LEMMA QuietType ==
  ASSUME TypeOK, AllSound, NEW r \in Requests,
         \/ Reads(r) \/ Acquire(r) \/ Passes(r) \/ Number(r) \/ Abort(r)
  PROVE  TypeOK' /\ AllSound'
<1>1. request' \in [Requests -> Request] /\ AllSound'
  <2>1. CASE Reads(r)
    BY <2>1, ReadsBegin, BeginsType
  <2>2. CASE Acquire(r)
    BY <2>2, AcquireGoesOn, BeginsType
  <2>3. CASE Passes(r)
    BY <2>3, PassesGoOn, BeginsType
  <2>4. CASE Number(r)
    BY <2>4, NumberGoesOn, BeginsType
  <2>5. CASE Abort(r)
    BY <2>5, FinishType DEF Abort
  <2> QED BY <2>1, <2>2, <2>3, <2>4, <2>5
<1>2. lock' \in [Locks -> Requests \cup {NoOne}]
  <2>0. lock \in [Locks -> Requests \cup {NoOne}]
    BY DEF TypeOK
  <2>1. CASE Reads(r)
    BY <2>0, <2>1, ReadsBegin
  <2>2. CASE Acquire(r)
    BY <2>0, <2>2, AcquireGoesOn
  <2>3. CASE Passes(r)
    BY <2>0, <2>3, PassesGoOn
  <2>4. CASE Number(r)
    BY <2>0, <2>4, NumberGoesOn
  <2>5. CASE Abort(r)
    BY <2>5, FinishType DEF Abort
  <2> QED BY <2>1, <2>2, <2>3, <2>4, <2>5
<1>3. UNCHANGED <<rows, order, resources, clerk, changes, reopened>> /\ begun' \in Nat
  <2>0. begun \in Nat
    BY DEF TypeOK
  <2>1. CASE Reads(r)
    BY <2>0, <2>1, ReadsBegin
  <2>2. CASE Acquire(r)
    BY <2>0, <2>2 DEF Acquire
  <2>3. CASE Passes(r)
    BY <2>0, <2>3, PassesGoOn
  <2>4. CASE Number(r)
    BY <2>0, <2>4 DEF Number
  <2>5. CASE Abort(r)
    BY <2>0, <2>5 DEF Abort
  <2> QED BY <2>1, <2>2, <2>3, <2>4, <2>5
<1> QED BY <1>1, <1>2, <1>3 DEF TypeOK, rows, resources

LEMMA InsertsType ==
  ASSUME TypeOK, AllSound, NEW r \in Requests, CreateWrite(r) \/ ApplyWrite(r)
  PROVE  TypeOK' /\ AllSound'
<1>1. Insert(r)
  BY DEF CreateWrite, ApplyWrite
<1>2. TripTypes' /\ order' \in [Orders -> Order]
  BY <1>1, InsertType
<1>3. /\ lock' \in [Locks -> Requests \cup {NoOne}] /\ request' \in [Requests -> Request]
      /\ AllSound'
  BY <1>1, FinishType DEF Insert
<1>4. package' \in [Packages -> {"NONE", "READY", "ALLOCATED"}]
  BY DEF CreateWrite, ApplyWrite, TypeOK
<1>5. UNCHANGED <<resources, clerk, begun, changes, reopened>>
  BY <1>1 DEF Insert
<1> QED BY <1>2, <1>3, <1>4, <1>5 DEF TypeOK, TripTypes, resources

LEMMA PublishType ==
  ASSUME TypeOK, AllSound, NEW r \in Requests, PublishWrite(r)
  PROVE  TypeOK' /\ AllSound'
<1> DEFINE t == request[r].trip
<1>1. /\ t \in Trips /\ trip[t].status = "PLANNED"
      /\ trip' \in [Trips -> Trip] /\ trip'[t].status = "DISPATCHED"
      /\ trip'[t].plan = trip[t].plan
      /\ reservation' \in [Trips -> Reservation \cup {NoPlan}] /\ reservation'[t] # NoPlan
      /\ \A s \in Trips \ {t} : trip'[s] = trip[s] /\ reservation'[s] = reservation[s]
  BY PublishRows
<1>2. /\ lock' \in [Locks -> Requests \cup {NoOne}] /\ request' \in [Requests -> Request]
      /\ AllSound'
  BY FinishType DEF PublishWrite
<1>3. UNCHANGED <<assignment, package, order, resources, clerk, begun, changes, reopened>>
  BY DEF PublishWrite
<1>4. TripTypes'
  <2> HIDE DEF t
  <2> QED BY <1>1, <1>3 DEF TypeOK, TripTypes
<1> QED BY <1>2, <1>3, <1>4 DEF TypeOK, TripTypes, resources

(* What others write of an order.                                           *)
Rewritten(o, status) ==
  /\ order' \in [Orders -> Order]
  /\ order'[o].version = order[o].version + 1 /\ order'[o].status = status
  /\ order'[o].content = order[o].content
  /\ \A x \in Orders \ {o} : order'[x] = order[x]

LEMMA RewriteRow ==
  ASSUME TypeOK, NEW o \in Orders, NEW status \in {"CONFIRMED", "ASSIGNED", "CANCELLED"},
         order' = [order EXCEPT ![o] = [order[o] EXCEPT !.status = status, !.version = @ + 1]]
  PROVE  Rewritten(o, status)
<1> DEFINE x == order[o]
           n == x.version + 1
           y == [x EXCEPT !.status = status, !.version = n]
<1>1. order \in [Orders -> Order] /\ x \in Order
  BY DEF TypeOK
<1>2. n \in Nat
  BY <1>1 DEF Order
<1>3. y \in Order /\ y.status = status /\ y.content = x.content /\ y.version = n
  <2> HIDE DEF x, n
  <2> QED BY <1>1, <1>2 DEF Order
<1>4. order' = [order EXCEPT ![o] = y]
  BY <1>1 DEF Order
<1> HIDE DEF y
<1> QED BY <1>1, <1>3, <1>4 DEF Rewritten

LEMMA CancelRow ==
  ASSUME TypeOK, NEW o \in Orders, Cancel(o)
  PROVE  Rewritten(o, "CANCELLED")
<1>1. order \in [Orders -> Order]
  BY DEF TypeOK
<1>2. order' = [order EXCEPT ![o] = [order[o] EXCEPT !.status = "CANCELLED", !.version = @ + 1]]
  BY <1>1 DEF Cancel, Order
<1> QED BY <1>2, RewriteRow

LEMMA PayRow ==
  ASSUME TypeOK, NEW o \in Orders, Pay(o)
  PROVE  Rewritten(o, order[o].status)
<1>1. order \in [Orders -> Order] /\ order[o].status \in {"CONFIRMED", "ASSIGNED", "CANCELLED"}
  BY DEF TypeOK, Order
<1>2. Counted(o) = [order[o] EXCEPT !.status = order[o].status, !.version = @ + 1]
  BY <1>1 DEF Counted, Order
<1>3. order' = [order EXCEPT ![o] = [order[o] EXCEPT !.status = order[o].status, !.version = @ + 1]]
  BY <1>2 DEF Pay
<1> QED BY <1>1, <1>3, RewriteRow

LEMMA AllocateRow ==
  ASSUME TypeOK, NEW c \in Clerks, AllocateWrite(c)
  PROVE  clerk[c].order \in Orders /\ Rewritten(clerk[c].order, "ASSIGNED")
<1>1. clerk[c] \in Errand \cup {AtRest} /\ clerk[c].op = "allocate"
  BY DEF AllocateWrite, TypeOK
<1>2. clerk[c].order \in Orders
  BY <1>1 DEF Errand, AtRest
<1> QED BY <1>2, RewriteRow DEF AllocateWrite, Assigned

LEMMA EditRow ==
  ASSUME TypeOK, NEW c \in Clerks, EditWrite(c)
  PROVE  LET o == clerk[c].order IN
         /\ o \in Orders
         /\ order' \in [Orders -> Order]
         /\ order'[o].version = order[o].version
         /\ order'[o].content = order[o].content \/ NotOnTrip(o)
         /\ \A x \in Orders \ {o} : order'[x] = order[x]
         /\ reopened \subseteq reopened' /\ reopened' \subseteq Orders
         /\ \/ order'[o].status = order[o].status
            \/ order[o].status = "CONFIRMED" \/ o \in reopened'
<1> DEFINE o == clerk[c].order
<1>0. clerk[c] \in Errand \cup {AtRest} /\ clerk[c].op = "edit"
  BY DEF EditWrite, TypeOK
<1>1. o \in Orders
  BY <1>0 DEF Errand, AtRest
<1>2. PICK status \in {order[o].status, "CONFIRMED", "CANCELLED"}, stops \in {0, 1} :
        /\ stops = 1 => NotOnTrip(o)
        /\ order' = [order EXCEPT ![o].status = status, ![o].content = @ + stops]
        /\ reopened' = IF order[o].status = "CONFIRMED" \/ status = order[o].status
                       THEN reopened ELSE reopened \cup {o}
  BY DEF EditWrite
<1> DEFINE x == order[o]
           n == x.content + stops
           y == [x EXCEPT !.status = status, !.content = n]
<1>3. order \in [Orders -> Order] /\ x \in Order /\ reopened \subseteq Orders
  BY <1>1 DEF TypeOK
<1>4. n \in Nat /\ status \in {"CONFIRMED", "ASSIGNED", "CANCELLED"} /\ (stops = 0 => n = x.content)
  BY <1>3 DEF Order
<1>5. y \in Order /\ y.status = status /\ y.version = x.version /\ y.content = n
  <2> HIDE DEF x, n
  <2> QED BY <1>3, <1>4 DEF Order
<1>6. order' = [order EXCEPT ![o] = y]
  <2> HIDE DEF o
  <2> QED BY <1>1, <1>2, <1>3 DEF Order
<1>7. /\ order' \in [Orders -> Order] /\ order'[o] = y
      /\ \A z \in Orders \ {o} : order'[z] = order[z]
  <2> HIDE DEF y, o
  <2> QED BY <1>1, <1>3, <1>5, <1>6
<1> HIDE DEF y
<1> QED BY <1>1, <1>2, <1>3, <1>4, <1>5, <1>7

LEMMA ChangedType ==
  ASSUME NEW X, NEW f \in [X -> Resource], NEW x \in X, NEW a \in BOOLEAN
  PROVE  [f EXCEPT ![x] = [available |-> a, version |-> @.version + 1]] \in [X -> Resource]
BY DEF Resource

LEMMA OthersType ==
  ASSUME TypeOK, AllSound,
         \/ \E o \in Orders : Cancel(o) \/ Pay(o)
         \/ \E c \in Clerks : EditRead(c) \/ EditWrite(c) \/ AllocateRead(c)
                              \/ AllocateWrite(c) \/ GiveUp(c)
         \/ \E v \in Vehicles : ChangeVehicle(v)
         \/ \E d \in Drivers : ChangeDriver(d)
  PROVE  TypeOK' /\ AllSound' /\ UNCHANGED <<rows, lock, request>>
<1>0. changes \in Nat
  BY DEF TypeOK
<1>1. ASSUME NEW o \in Orders, Cancel(o)
      PROVE  TypeOK' /\ AllSound' /\ UNCHANGED <<rows, lock, request>>
  <2>1. order' \in [Orders -> Order]
    BY <1>1, CancelRow DEF Rewritten
  <2>2. changes' \in Nat /\ UNCHANGED <<rows, resources, lock, request, clerk, begun, reopened>>
    BY <1>0, <1>1 DEF Cancel, Change
  <2> QED BY <2>1, <2>2 DEF TypeOK, AllSound, Sound, rows, resources
<1>2. ASSUME NEW c \in Clerks, EditRead(c)
      PROVE  TypeOK' /\ AllSound' /\ UNCHANGED <<rows, lock, request>>
  <2>1. clerk' \in [Clerks -> Errand \cup {AtRest}]
    BY <1>2 DEF EditRead, TypeOK, Errand, Order
  <2>2. UNCHANGED <<rows, order, resources, lock, request, begun, changes, reopened>>
    BY <1>2 DEF EditRead
  <2> QED BY <2>1, <2>2 DEF TypeOK, AllSound, Sound, rows, resources
<1>3. ASSUME NEW c \in Clerks, EditWrite(c)
      PROVE  TypeOK' /\ AllSound' /\ UNCHANGED <<rows, lock, request>>
  <2>1. order' \in [Orders -> Order] /\ reopened' \subseteq Orders
    BY <1>3, EditRow
  <2>2. clerk' \in [Clerks -> Errand \cup {AtRest}]
    BY <1>3 DEF EditWrite, TypeOK
  <2>3. Change /\ UNCHANGED <<rows, resources, lock, request, begun>>
    BY <1>3 DEF EditWrite
  <2>4. changes' \in Nat
    BY <1>0, <2>3 DEF Change
  <2> QED BY <2>1, <2>2, <2>3, <2>4 DEF TypeOK, AllSound, Sound, rows, resources
<1>4. ASSUME NEW v \in Vehicles, ChangeVehicle(v)
      PROVE  TypeOK' /\ AllSound' /\ UNCHANGED <<rows, lock, request>>
  <2>1. vehicle' \in [Vehicles -> Resource]
    BY <1>4, ChangedType DEF ChangeVehicle, Changed, TypeOK
  <2>2. changes' \in Nat /\ UNCHANGED <<rows, order, driver, lock, request, clerk, begun, reopened>>
    BY <1>0, <1>4 DEF ChangeVehicle, Change
  <2> QED BY <2>1, <2>2 DEF TypeOK, AllSound, Sound, rows, resources
<1>5. ASSUME NEW d \in Drivers, ChangeDriver(d)
      PROVE  TypeOK' /\ AllSound' /\ UNCHANGED <<rows, lock, request>>
  <2>1. driver' \in [Drivers -> Resource]
    BY <1>5, ChangedType DEF ChangeDriver, Changed, TypeOK
  <2>2. changes' \in Nat /\ UNCHANGED <<rows, order, vehicle, lock, request, clerk, begun, reopened>>
    BY <1>0, <1>5 DEF ChangeDriver, Change
  <2> QED BY <2>1, <2>2 DEF TypeOK, AllSound, Sound, rows, resources
<1>6. ASSUME NEW o \in Orders, Pay(o)
      PROVE  TypeOK' /\ AllSound' /\ UNCHANGED <<rows, lock, request>>
  <2>1. order' \in [Orders -> Order]
    BY <1>6, PayRow DEF Rewritten
  <2>2. changes' \in Nat /\ UNCHANGED <<rows, resources, lock, request, clerk, begun, reopened>>
    BY <1>0, <1>6 DEF Pay, Change
  <2> QED BY <2>1, <2>2 DEF TypeOK, AllSound, Sound, rows, resources
<1>7. ASSUME NEW c \in Clerks, AllocateRead(c)
      PROVE  TypeOK' /\ AllSound' /\ UNCHANGED <<rows, lock, request>>
  <2>1. clerk' \in [Clerks -> Errand \cup {AtRest}]
    BY <1>7 DEF AllocateRead, TypeOK, Errand, Order
  <2>2. UNCHANGED <<rows, order, resources, lock, request, begun, changes, reopened>>
    BY <1>7 DEF AllocateRead
  <2> QED BY <2>1, <2>2 DEF TypeOK, AllSound, Sound, rows, resources
<1>8. ASSUME NEW c \in Clerks, AllocateWrite(c)
      PROVE  TypeOK' /\ AllSound' /\ UNCHANGED <<rows, lock, request>>
  <2>1. order' \in [Orders -> Order]
    BY <1>8, AllocateRow DEF Rewritten
  <2>2. clerk' \in [Clerks -> Errand \cup {AtRest}]
    BY <1>8 DEF AllocateWrite, TypeOK
  <2>3. Change /\ UNCHANGED <<rows, resources, lock, request, begun, reopened>>
    BY <1>8 DEF AllocateWrite
  <2>4. changes' \in Nat
    BY <1>0, <2>3 DEF Change
  <2> QED BY <2>1, <2>2, <2>3, <2>4 DEF TypeOK, AllSound, Sound, rows, resources
<1>9. ASSUME NEW c \in Clerks, GiveUp(c)
      PROVE  TypeOK' /\ AllSound' /\ UNCHANGED <<rows, lock, request>>
  <2>1. clerk' \in [Clerks -> Errand \cup {AtRest}]
    BY <1>9 DEF GiveUp, TypeOK
  <2>2. UNCHANGED <<rows, order, resources, lock, request, begun, changes, reopened>>
    BY <1>9 DEF GiveUp
  <2> QED BY <2>1, <2>2 DEF TypeOK, AllSound, Sound, rows, resources
<1> QED BY <1>1, <1>2, <1>3, <1>4, <1>5, <1>6, <1>7, <1>8, <1>9

(* The steps, grouped by what they write.                                   *)
Quiet(r) == Reads(r) \/ Acquire(r) \/ Passes(r) \/ Number(r) \/ Abort(r)
Inserts(r) == CreateWrite(r) \/ ApplyWrite(r)
ByOthers ==
  \/ \E o \in Orders : Cancel(o) \/ Pay(o)
  \/ \E c \in Clerks : EditRead(c) \/ EditWrite(c) \/ AllocateRead(c) \/ AllocateWrite(c)
                       \/ GiveUp(c)
  \/ \E v \in Vehicles : ChangeVehicle(v)
  \/ \E d \in Drivers : ChangeDriver(d)

LEMMA Steps ==
  ASSUME Next
  PROVE  \/ \E r \in Requests : Quiet(r) \/ Inserts(r) \/ PublishWrite(r)
         \/ ByOthers
<1>1. \A r \in Requests : UpdateRefused(r) => Abort(r)
  BY DEF UpdateRefused, Abort
<1>2. CASE \E r \in Requests : Quiet(r) \/ Inserts(r) \/ UpdateRefused(r) \/ PublishWrite(r)
  BY <1>1, <1>2 DEF Quiet
<1>3. CASE ByOthers
  BY <1>3
<1> QED BY <1>2, <1>3 DEF Next, Quiet, Reads, Passes, Inserts, ByOthers

LEMMA TypeStep ==
  ASSUME TypeOK, AllSound, [Next]_vars
  PROVE  TypeOK' /\ AllSound'
<1>1. ASSUME NEW r \in Requests, Quiet(r)
      PROVE  TypeOK' /\ AllSound'
  BY <1>1, QuietType DEF Quiet
<1>2. ASSUME NEW r \in Requests, Inserts(r)
      PROVE  TypeOK' /\ AllSound'
  BY <1>2, InsertsType DEF Inserts
<1>4. ASSUME NEW r \in Requests, PublishWrite(r)
      PROVE  TypeOK' /\ AllSound'
  BY <1>4, PublishType
<1>5. CASE ByOthers
  BY <1>5, OthersType DEF ByOthers
<1>6. CASE UNCHANGED vars
  BY <1>6 DEF TypeOK, AllSound, Sound, vars, rows, resources
<1> QED BY <1>1, <1>2, <1>4, <1>5, <1>6, Steps

(* The rows, the locks and what the requests hold have their types in every *)
(* reachable state.                                                         *)
THEOREM TypeCorrect == Spec => []TypeOK
<1>1. Init => TypeOK /\ AllSound
  BY TypeInit
<1>2. (TypeOK /\ AllSound) /\ [Next]_vars => (TypeOK /\ AllSound)'
  BY TypeStep
<1> QED BY <1>1, <1>2, PTL DEF Spec

-----------------------------------------------------------------------------
(* The rows of a trip agree.  An insertion must not meet the row of another *)
(* trip: the numbers of the trips there are have no gaps.                   *)

Upto(n) ==
  n \in 0 .. MaxTrips /\ \A t \in Trips : trip[t].status # "NONE" <=> t <= n

Consecutive == \E n \in Nat : Upto(n)

LEMMA CountIs ==
  ASSUME NEW n \in Nat, Upto(n)
  PROVE  Count = n
<1>1. {t \in Trips : trip[t].status # "NONE"} = 1 .. n
  BY NumbersAssumption DEF Upto, Trips
<1>2. Cardinality(1 .. n) = n
  BY FS_Interval
<1> QED BY <1>1, <1>2 DEF Count

LEMMA FreshTrips ==
  ASSUME Consecutive, NEW q, NEW t \in Numbered(q)
  PROVE  t \in Trips /\ trip[t].status = "NONE"
<1>1. PICK n \in Nat : Upto(n)
  BY DEF Consecutive
<1>2. Count = n
  BY <1>1, CountIs
<1>3. t \in Trips /\ t > n
  BY <1>2 DEF Numbered
<1>4. ~ (t <= n)
  BY <1>3 DEF Trips
<1> QED BY <1>1, <1>3, <1>4 DEF Upto

RowsInv == TypeOK /\ AllSound /\ Consecutive /\ RowsAgree

LEMMA RowsInit == ASSUME Init PROVE RowsInv
<1>1. \A t \in Trips : trip[t].status = "NONE"
  BY DEF Init, NoTrip
<1>2. Upto(0)
  BY <1>1, NumbersAssumption DEF Upto, Trips
<1> QED BY <1>1, <1>2, TypeInit DEF RowsInv, Consecutive, RowsAgree

LEMMA RowsKept ==
  ASSUME RowsInv, UNCHANGED rows
  PROVE  Consecutive' /\ RowsAgree'
BY DEF RowsInv, Consecutive, RowsAgree, rows, Upto

LEMMA RowsInsert ==
  ASSUME RowsInv, NEW r \in Requests, Inserts(r)
  PROVE  Consecutive' /\ RowsAgree'
<1> DEFINE q == request[r]
           new == Numbered(q)
<1>1. Insert(r) /\ q \in Request /\ TypeOK
  BY DEF Inserts, CreateWrite, ApplyWrite, RowsInv, TypeOK
<1>2. PICK n \in Nat : Upto(n)
  BY DEF RowsInv, Consecutive
<1>3. Count = n
  BY <1>2, CountIs
<1>4. PICK k \in Nat : k = Len(q.routes) /\ n + k <= MaxTrips
  <2>1. q.routes \in Seq(Route)
    BY <1>1 DEF Request
  <2>2. Count + Len(q.routes) <= MaxTrips
    BY <1>1 DEF Insert
  <2> QED BY <2>1, <2>2, <1>3
<1>5. \A t \in Trips : t \in new <=> t > n /\ t <= n + k
  BY <1>3, <1>4 DEF Numbered
<1>6. \A t \in Trips : t \in new =>
        LET p == q.routes[t - Count].plan IN
        /\ trip'[t].status = "PLANNED" /\ trip'[t].plan = p
        /\ assignment'[t] = AssignmentOf(p) /\ reservation'[t] = HeldFor(p)
  <2> SUFFICES ASSUME NEW t \in Trips, t \in new
               PROVE  LET p == q.routes[t - Count].plan IN
                      /\ trip'[t].status = "PLANNED" /\ trip'[t].plan = p
                      /\ assignment'[t] = AssignmentOf(p) /\ reservation'[t] = HeldFor(p)
    OBVIOUS
  <2>1. /\ trip'[t] = NewTrip(q, t - Count)
        /\ assignment'[t] = AssignmentOf(q.routes[t - Count].plan)
        /\ reservation'[t] = HeldFor(q.routes[t - Count].plan)
    BY <1>1, InsertRows
  <2>2. NewTrip(q, t - Count).status = "PLANNED"
        /\ NewTrip(q, t - Count).plan = q.routes[t - Count].plan
    BY DEF NewTrip
  <2> QED BY <2>1, <2>2
<1>7. \A t \in Trips : t \notin new =>
        /\ trip'[t] = trip[t] /\ assignment'[t] = assignment[t]
        /\ reservation'[t] = reservation[t]
  BY <1>1, InsertRows
<1>8. Upto(n + k)'
  <2> HIDE DEF new, q
  <2>0. n + k \in 0 .. MaxTrips
    BY <1>4, NumbersAssumption
  <2> SUFFICES \A t \in Trips : trip'[t].status # "NONE" <=> t <= n + k
    BY <2>0 DEF Upto
  <2> TAKE t \in Trips
  <2>1. t \in Nat
    BY DEF Trips
  <2>2. CASE t \in new
    BY <2>1, <2>2, <1>4, <1>5, <1>6
  <2>3. CASE t \notin new
    BY <2>1, <2>3, <1>2, <1>4, <1>5, <1>7 DEF Upto
  <2> QED BY <2>2, <2>3
<1>9. RowsAgree'
  <2> SUFFICES ASSUME NEW t \in Trips, trip'[t].status # "NONE"
               PROVE  /\ assignment'[t] = AssignmentOf(trip'[t].plan)
                      /\ reservation'[t].plan = trip'[t].plan
                      /\ reservation'[t].status = "ACTIVE" <=> trip'[t].status = "DISPATCHED"
    BY DEF RowsAgree, AssignmentOf
  <2> HIDE DEF new, q
  <2>1. CASE t \in new
    <3>1. /\ trip'[t].status = "PLANNED" /\ assignment'[t] = AssignmentOf(trip'[t].plan)
          /\ reservation'[t] = HeldFor(trip'[t].plan)
      BY <2>1, <1>6
    <3> QED BY <3>1 DEF HeldFor
  <2>2. CASE t \notin new
    BY <2>2, <1>7 DEF RowsInv, RowsAgree
  <2> QED BY <2>1, <2>2
<1>10. n + k \in Nat
  BY <1>4
<1> QED BY <1>8, <1>9, <1>10 DEF Consecutive

LEMMA RowsPublish ==
  ASSUME RowsInv, NEW r \in Requests, PublishWrite(r)
  PROVE  Consecutive' /\ RowsAgree'
<1> DEFINE t == request[r].trip
<1>1. TypeOK /\ AllSound
  BY DEF RowsInv
<1>2. /\ t \in Trips /\ trip[t].status = "PLANNED"
      /\ trip'[t].status = "DISPATCHED" /\ trip'[t].plan = trip[t].plan
      /\ reservation'[t].plan = reservation[t].plan /\ reservation'[t].status = "ACTIVE"
      /\ \A s \in Trips \ {t} : trip'[s] = trip[s] /\ reservation'[s] = reservation[s]
  BY <1>1, PublishRows
<1>3. assignment' = assignment
  BY DEF PublishWrite
<1> HIDE DEF t
<1>4. Consecutive'
  BY <1>2 DEF RowsInv, Consecutive, Upto
<1>5. RowsAgree'
  BY <1>2, <1>3 DEF RowsInv, RowsAgree, AssignmentOf
<1> QED BY <1>4, <1>5

LEMMA QuietRows ==
  ASSUME TypeOK, NEW r \in Requests, Quiet(r)
  PROVE  UNCHANGED <<rows, order, resources, clerk, changes, reopened>>
<1>1. CASE Reads(r)
  BY <1>1, ReadsBegin
<1>2. CASE Acquire(r)
  BY <1>2 DEF Acquire
<1>3. CASE Passes(r)
  BY <1>3, PassesGoOn
<1>4. CASE Number(r)
  BY <1>4 DEF Number
<1>5. CASE Abort(r)
  BY <1>5 DEF Abort
<1> QED BY <1>1, <1>2, <1>3, <1>4, <1>5 DEF Quiet

LEMMA RowsStep ==
  ASSUME RowsInv, [Next]_vars
  PROVE  RowsInv'
<1>0. TypeOK /\ AllSound /\ TypeOK' /\ AllSound'
  BY TypeStep DEF RowsInv
<1>1. ASSUME NEW r \in Requests, Quiet(r)
      PROVE  Consecutive' /\ RowsAgree'
  BY <1>0, <1>1, QuietRows, RowsKept
<1>2. ASSUME NEW r \in Requests, Inserts(r)
      PROVE  Consecutive' /\ RowsAgree'
  BY <1>2, RowsInsert
<1>4. ASSUME NEW r \in Requests, PublishWrite(r)
      PROVE  Consecutive' /\ RowsAgree'
  BY <1>4, RowsPublish
<1>5. CASE ByOthers
  BY <1>0, <1>5, OthersType, RowsKept DEF ByOthers, RowsInv
<1>6. CASE UNCHANGED vars
  BY <1>0, <1>6, RowsKept DEF vars, RowsInv
<1> QED BY <1>0, <1>1, <1>2, <1>4, <1>5, <1>6, Steps DEF RowsInv

(* What four functions write about a trip in three tables says the same.    *)
THEOREM RowsAlwaysAgree == Spec => []RowsAgree
<1>1. Init => RowsInv
  BY RowsInit
<1>2. RowsInv /\ [Next]_vars => RowsInv'
  BY RowsStep
<1>3. RowsInv => RowsAgree
  BY DEF RowsInv
<1> QED BY <1>1, <1>2, <1>3, PTL DEF Spec

-----------------------------------------------------------------------------
(* The schedule: the reservations that the database accepts do not clash,   *)
(* and they are those of the trips.                                         *)

PlansOf(T) == [t \in Trips |-> T[t].plan]
Dispatched(T) == {t \in Trips : T[t].status = "DISPATCHED"}

LEMMA Accepted ==
  ASSUME NEW T, NEW res, NEW assigned, NothingExcluded(res, assigned),
         \A t \in Trips : T[t].plan # NoPlan => res[t] # NoPlan /\ res[t].plan = T[t].plan
  PROVE  Schedule!NoClash(PlansOf(T))
<1> SUFFICES ASSUME NEW t \in Trips, NEW s \in Trips, t # s,
                    T[t].plan # NoPlan, T[s].plan # NoPlan
             PROVE  ~ Schedule!Clash(T[t].plan, T[s].plan)
  BY DEF Schedule!NoClash, PlansOf
<1>1. /\ res[t] # NoPlan /\ res[t].plan = T[t].plan
      /\ res[s] # NoPlan /\ res[s].plan = T[s].plan
  OBVIOUS
<1>2. LET p == T[t].plan  q == T[s].plan IN
      p.vehicle = q.vehicle \/ p.driver = q.driver => ~ Overlap(p, q)
  BY <1>1 DEF NothingExcluded, Reserved
<1> QED BY <1>2 DEF Schedule!Clash, Schedule!Overlap, Overlap

LEMMA RowsPlans ==
  ASSUME TripTypes, RowsAgree
  PROVE  \A t \in Trips :
           /\ trip[t].plan # NoPlan <=> trip[t].status # "NONE"
           /\ trip[t].plan \in Plan \cup {NoPlan}
           /\ trip[t].plan # NoPlan => reservation[t] # NoPlan
                                       /\ reservation[t].plan = trip[t].plan
<1> TAKE t \in Trips
<1>1. CASE trip[t].status = "NONE"
  BY <1>1 DEF TripTypes, NoTrip
<1>2. CASE trip[t].status # "NONE"
  BY <1>2, NoneAssumption DEF TripTypes, RowsAgree
<1> QED BY <1>1, <1>2

LEMMA ScheduleStutters ==
  ASSUME UNCHANGED trip
  PROVE  UNCHANGED Schedule!vars
BY DEF Schedule!vars

LEMMA ScheduleBooks ==
  ASSUME RowsInv, RowsInv', NEW r \in Requests, Inserts(r)
  PROVE  Schedule!Book
<1> DEFINE q == request[r]
           new == Numbered(q)
<1>1. Insert(r) /\ q \in Request /\ TypeOK /\ Consecutive
  BY DEF Inserts, CreateWrite, ApplyWrite, RowsInv, TypeOK
<1>2. \A t \in new : trip[t].status = "NONE"
  BY <1>1, FreshTrips
<1>3. \A t \in Trips : t \notin new => trip'[t] = trip[t]
  BY <1>1, InsertRows
<1>4. \A t \in Trips : t \in new => trip'[t].status = "PLANNED"
  <2>1. \A i : NewTrip(q, i).status = "PLANNED"
    BY DEF NewTrip
  <2>2. \A t \in Trips : t \in new => trip'[t] = NewTrip(q, t - Count)
    BY <1>1, InsertRows
  <2> HIDE DEF new, q
  <2> QED BY <2>1, <2>2
<1>5. \A t \in Trips : /\ trip[t].plan # NoPlan <=> trip[t].status # "NONE"
  BY RowsPlans DEF RowsInv, TypeOK, TripTypes
<1>6. TripTypes' /\ RowsAgree'
  BY DEF RowsInv, TypeOK, TripTypes
<1>7. \A t \in Trips :
           /\ trip'[t].plan \in Plan \cup {NoPlan}
           /\ trip'[t].plan # NoPlan => reservation'[t] # NoPlan
                                       /\ reservation'[t].plan = trip'[t].plan
  <2> TAKE t \in Trips
  <2>1. CASE trip'[t].status = "NONE"
    BY <2>1, <1>6 DEF TripTypes, NoTrip
  <2>2. CASE trip'[t].status # "NONE"
    BY <2>2, <1>6, NoneAssumption DEF TripTypes, RowsAgree
  <2> QED BY <2>1, <2>2
<1>8. NothingExcluded(reservation', assignment')
  BY <1>1 DEF Insert
<1>9. Schedule!NoClash(PlansOf(trip'))
  BY <1>7, <1>8, Accepted
<1>10. PlansOf(trip') \in [Trips -> Schedule!Plan \cup {NoPlan}]
  BY <1>7 DEF PlansOf, Plan, Schedule!Plan
<1>11. \A t \in Trips : PlansOf(trip)[t] # NoPlan => PlansOf(trip')[t] = PlansOf(trip)[t]
  BY <1>2, <1>3, <1>5 DEF PlansOf
<1>12. Dispatched(trip') = Dispatched(trip)
  BY <1>2, <1>3, <1>4 DEF Dispatched
<1> HIDE DEF new, q
<1> QED BY <1>9, <1>10, <1>11, <1>12 DEF Schedule!Book, PlansOf, Dispatched

LEMMA ScheduleDispatches ==
  ASSUME RowsInv, NEW r \in Requests, PublishWrite(r)
  PROVE  \E t \in Trips : Schedule!Dispatch(t)
<1> DEFINE t == request[r].trip
<1>1. TypeOK /\ AllSound
  BY DEF RowsInv
<1>2. /\ t \in Trips /\ trip[t].status = "PLANNED"
      /\ trip'[t].status = "DISPATCHED" /\ trip'[t].plan = trip[t].plan
      /\ \A s \in Trips \ {t} : trip'[s] = trip[s]
  BY <1>1, PublishRows
<1>3. trip[t].plan # NoPlan
  BY <1>1, <1>2, RowsPlans DEF RowsInv, TypeOK, TripTypes
<1> HIDE DEF t
<1>4. PlansOf(trip') = PlansOf(trip)
  BY <1>2 DEF PlansOf
<1>5. Dispatched(trip') = Dispatched(trip) \cup {t} /\ t \notin Dispatched(trip)
  BY <1>2 DEF Dispatched
<1>6. PlansOf(trip)[t] # NoPlan
  BY <1>2, <1>3 DEF PlansOf
<1> QED BY <1>2, <1>4, <1>5, <1>6 DEF Schedule!Dispatch, PlansOf, Dispatched

LEMMA ScheduleStep ==
  ASSUME RowsInv, RowsInv', [Next]_vars
  PROVE  [Schedule!Next]_(Schedule!vars)
<1>1. ASSUME NEW r \in Requests, Quiet(r)
      PROVE  UNCHANGED Schedule!vars
  BY <1>1, QuietRows, ScheduleStutters DEF RowsInv, rows
<1>2. ASSUME NEW r \in Requests, Inserts(r)
      PROVE  Schedule!Next
  BY <1>2, ScheduleBooks DEF Schedule!Next
<1>4. ASSUME NEW r \in Requests, PublishWrite(r)
      PROVE  Schedule!Next
  BY <1>4, ScheduleDispatches DEF Schedule!Next
<1>5. CASE ByOthers
  BY <1>5, OthersType, ScheduleStutters DEF ByOthers, RowsInv, rows
<1>6. CASE UNCHANGED vars
  BY <1>6, ScheduleStutters DEF vars, rows
<1> QED BY <1>1, <1>2, <1>4, <1>5, <1>6, Steps

(* No interleaving of requests promises a vehicle or a driver twice, and    *)
(* what has been dispatched keeps its plan: planning implements the         *)
(* schedule of the fleet.                                                   *)
THEOREM ScheduleIsKept == Spec => KeepsSchedule
<1>1. Init => RowsInv
  BY RowsInit
<1>2. RowsInv /\ [Next]_vars => RowsInv'
  BY RowsStep
<1>3. Init => Schedule!Init
  <2> SUFFICES ASSUME Init PROVE Schedule!Init
    OBVIOUS
  <2>1. \A t \in Trips : trip[t].plan = NoPlan /\ trip[t].status # "DISPATCHED"
    BY DEF Init, NoTrip
  <2> QED BY <2>1 DEF Schedule!Init
<1>4. RowsInv /\ RowsInv' /\ [Next]_vars => [Schedule!Next]_(Schedule!vars)
  BY ScheduleStep
<1> QED BY <1>1, <1>2, <1>3, <1>4, PTL DEF Spec, KeepsSchedule, Schedule!Spec

-----------------------------------------------------------------------------
(* What a request has read of a trip is the trip, or an older version.      *)

CopyOK(q) ==
  q.pc # "idle" /\ q.op \in {"update", "publish"} =>
    /\ trip[q.trip].status # "NONE"
    /\ q.copy.version <= trip[q.trip].version
    /\ q.copy.version = trip[q.trip].version => q.copy = trip[q.trip]
    /\ OrdersIn(q.routes) = OrdersOf(trip[q.trip].cargo)
    /\ OrdersIn(q.routes) = OrdersOf(q.copy.cargo) /\ q.copy.plan \in Plan

Copies == \A r \in Requests : CopyOK(request[r])

CopyInv == RowsInv /\ Copies

(* A trip there is only changes with its version, and keeps its cargo.      *)
TripMoves ==
  \A t \in Trips : trip[t].status # "NONE" =>
    \/ trip'[t] = trip[t]
    \/ /\ trip'[t].status # "NONE" /\ trip'[t].version = trip[t].version + 1
       /\ trip'[t].cargo = trip[t].cargo

LEMMA TripsMove ==
  ASSUME RowsInv, [Next]_vars
  PROVE  TripMoves
<1>0. TypeOK /\ AllSound /\ Consecutive
  BY DEF RowsInv
<1>1. ASSUME NEW r \in Requests, Quiet(r)
      PROVE  TripMoves
  BY <1>0, <1>1, QuietRows DEF TripMoves, rows
<1>2. ASSUME NEW r \in Requests, Inserts(r)
      PROVE  TripMoves
  <2>1. Insert(r)
    BY <1>2 DEF Inserts, CreateWrite, ApplyWrite
  <2>2. \A t \in Numbered(request[r]) : trip[t].status = "NONE"
    BY <1>0, FreshTrips
  <2>3. \A t \in Trips : t \notin Numbered(request[r]) => trip'[t] = trip[t]
    BY <1>0, <2>1, InsertRows
  <2> QED BY <2>2, <2>3 DEF TripMoves
<1>4. ASSUME NEW r \in Requests, PublishWrite(r)
      PROVE  TripMoves
  <2> DEFINE t == request[r].trip
  <2>1. /\ t \in Trips /\ trip'[t].status = "DISPATCHED"
        /\ trip'[t].version = trip[t].version + 1 /\ trip'[t].cargo = trip[t].cargo
        /\ \A s \in Trips \ {t} : trip'[s] = trip[s]
    BY <1>0, <1>4, PublishRows
  <2> HIDE DEF t
  <2> QED BY <2>1 DEF TripMoves
<1>5. CASE ByOthers
  BY <1>0, <1>5, OthersType DEF ByOthers, TripMoves, rows
<1>6. CASE UNCHANGED vars
  BY <1>6 DEF vars, rows, TripMoves
<1> QED BY <1>1, <1>2, <1>4, <1>5, <1>6, Steps

LEMMA CopyKept ==
  ASSUME TypeOK, TripMoves, NEW q \in Request, Sound(q), CopyOK(q)
  PROVE  CopyOK(q)'
<1> SUFFICES ASSUME q.pc # "idle", q.op \in {"update", "publish"}
             PROVE  /\ trip'[q.trip].status # "NONE"
                    /\ q.copy.version <= trip'[q.trip].version
                    /\ q.copy.version = trip'[q.trip].version => q.copy = trip'[q.trip]
                    /\ OrdersIn(q.routes) = OrdersOf(trip'[q.trip].cargo)
                    /\ OrdersIn(q.routes) = OrdersOf(q.copy.cargo) /\ q.copy.plan \in Plan
  BY DEF CopyOK
<1> DEFINE t == q.trip
           x == trip[t]
           y == trip'[t]
<1>1. t \in Trips
  BY DEF Sound
<1>2. /\ x.status # "NONE" /\ q.copy.version <= x.version
      /\ q.copy.version = x.version => q.copy = x
      /\ OrdersIn(q.routes) = OrdersOf(x.cargo)
  BY DEF CopyOK
<1>3. y = x \/ (y.status # "NONE" /\ y.version = x.version + 1 /\ y.cargo = x.cargo)
  BY <1>1, <1>2 DEF TripMoves
<1>4. x.version \in Nat /\ q.copy.version \in Nat
  BY <1>1 DEF TypeOK, Trip, Request
<1>5. OrdersIn(q.routes) = OrdersOf(q.copy.cargo) /\ q.copy.plan \in Plan
  BY DEF CopyOK
<1> HIDE DEF x, y
<1>6. /\ y.status # "NONE" /\ q.copy.version <= y.version
      /\ q.copy.version = y.version => q.copy = y
      /\ OrdersIn(q.routes) = OrdersOf(y.cargo)
  BY <1>2, <1>3, <1>4 DEF x, y
<1> QED BY <1>5, <1>6 DEF y

LEMMA CopyStep ==
  ASSUME CopyInv, [Next]_vars
  PROVE  CopyInv'
<1>0. /\ RowsInv /\ RowsInv' /\ TypeOK /\ AllSound /\ TripMoves
      /\ \A r \in Requests : request[r] \in Request
  BY RowsStep, TripsMove DEF CopyInv, RowsInv, TypeOK
<1>1. \A r \in Requests : CopyOK(request[r]) /\ Sound(request[r])
  BY <1>0 DEF CopyInv, Copies, AllSound
<1>2. ASSUME NEW r \in Requests, request'[r] = request[r]
      PROVE  CopyOK(request[r])'
  <2>1. PICK q \in Request : q = request[r]
    BY <1>0
  <2>2. Sound(q) /\ CopyOK(q)
    BY <2>1, <1>1
  <2>3. CopyOK(q)'
    BY <2>2, <1>0, CopyKept
  <2> QED BY <2>1, <2>3, <1>2
<1>3. ASSUME NEW r \in Requests, request'[r] = Idle
      PROVE  CopyOK(request[r])'
  BY <1>3 DEF CopyOK, Idle
<1>4. ASSUME NEW r \in Requests, NEW q, q = request'[r], GoesOn(r, q)
      PROVE  CopyOK(request[r])'
  <2>1. q \in Request /\ Sound(q) /\ CopyOK(q)
    BY <1>1, <1>4 DEF GoesOn, Sound, CopyOK
  <2>2. CopyOK(q)'
    BY <2>1, <1>0, CopyKept
  <2> QED BY <2>2, <1>4
<1>5. ASSUME NEW r \in Requests, NEW q, q = request'[r], Begins(q), trip' = trip
      PROVE  CopyOK(request[r])'
  <2>1. q.op \in {"update", "publish"} => q.trip \in Trips
    BY <1>5 DEF Begins, Sound
  <2>2. q.op \in {"update", "publish"} => trip[q.trip].version \in Nat
    BY <1>0, <2>1 DEF TypeOK, Trip
  <2>3. CopyOK(q)
    BY <1>5, <2>2 DEF Begins, CopyOK
  <2> QED BY <1>5, <2>3 DEF CopyOK
<1>6. ASSUME NEW r \in Requests, Quiet(r), NEW s \in Requests
      PROVE  CopyOK(request[s])'
  <2>1. CASE Reads(r)
    <3>1. PICK q : Begins(q) /\ Become(r, q) /\ trip' = trip
      BY <2>1, <1>0, ReadsBegin DEF rows
    <3>2. request'[r] = q /\ \A x \in Requests \ {r} : request'[x] = request[x]
      BY <3>1, <1>0, BecomeType DEF Begins
    <3> QED BY <3>1, <3>2, <1>2, <1>5
  <2>2. CASE Acquire(r)
    <3>1. PICK q : GoesOn(r, q) /\ Become(r, q)
      BY <2>2, <1>0, AcquireGoesOn
    <3>2. request'[r] = q /\ \A x \in Requests \ {r} : request'[x] = request[x]
      BY <3>1, <1>0, BecomeType DEF GoesOn
    <3> QED BY <3>1, <3>2, <1>2, <1>4
  <2>3. CASE Passes(r)
    <3>1. PICK q : GoesOn(r, q) /\ Become(r, q)
      BY <2>3, <1>0, PassesGoOn
    <3>2. request'[r] = q /\ \A x \in Requests \ {r} : request'[x] = request[x]
      BY <3>1, <1>0, BecomeType DEF GoesOn
    <3> QED BY <3>1, <3>2, <1>2, <1>4
  <2>4. CASE Number(r)
    <3>1. PICK q : GoesOn(r, q) /\ Become(r, q)
      BY <2>4, <1>0, NumberGoesOn
    <3>2. request'[r] = q /\ \A x \in Requests \ {r} : request'[x] = request[x]
      BY <3>1, <1>0, BecomeType DEF GoesOn
    <3> QED BY <3>1, <3>2, <1>2, <1>4
  <2>5. CASE Abort(r)
    BY <2>5, <1>0, <1>2, <1>3, FinishType DEF Abort
  <2> QED BY <1>6, <2>1, <2>2, <2>3, <2>4, <2>5 DEF Quiet
<1>7. ASSUME NEW r \in Requests, Finish(r), NEW s \in Requests
      PROVE  CopyOK(request[s])'
  BY <1>7, <1>0, <1>2, <1>3, FinishType
<1>8. ASSUME NEW r \in Requests, Inserts(r) \/ PublishWrite(r)
      PROVE  Finish(r)
  BY <1>8 DEF Inserts, CreateWrite, ApplyWrite, Insert, PublishWrite
<1>9. ASSUME ByOthers \/ UNCHANGED vars, NEW s \in Requests
      PROVE  CopyOK(request[s])'
  <2>1. request' = request
    BY <1>9, <1>0, OthersType DEF ByOthers, vars
  <2> QED BY <2>1, <1>2
<1>10. Copies'
  BY <1>6, <1>7, <1>8, <1>9, Steps DEF Copies
<1> QED BY <1>0, <1>10 DEF CopyInv

LEMMA CopyInit == ASSUME Init PROVE CopyInv
<1>1. \A r \in Requests : request[r].pc = "idle"
  BY DEF Init, Idle
<1> QED BY <1>1, RowsInit DEF CopyInv, Copies, CopyOK

(* publish reads under its locks the versions that the trip was planned     *)
(* with.                                                                    *)
ReadOK(q) ==
  /\ \A o \in OrdersOf(q.copy.cargo) : q.seen.orders[o] = q.copy.snapshot.orders[o]
  /\ q.seen.vehicles[q.copy.plan.vehicle] = q.copy.snapshot.vehicle
  /\ q.seen.drivers[q.copy.plan.driver] = q.copy.snapshot.driver

SeenOK(q) == q.op = "publish" => q.pc # "number" /\ (q.pc = "write" => ReadOK(q))

ReadInv == CopyInv /\ \A r \in Requests : SeenOK(request[r])

LEMMA ReadChecked ==
  ASSUME CopyInv, NEW r \in Requests, CheckPublish(r)
  PROVE  \E q : Become(r, q) /\ q \in Request /\ SeenOK(q)
<1> DEFINE p == request[r]
           plan == p.copy.plan
           orders == OrdersOf(p.copy.cargo)
           now == See({plan}, orders)
<1>0. TypeOK /\ p \in Request /\ CopyOK(p)
  BY DEF CopyInv, RowsInv, TypeOK, Copies
<1>1. PICK q : GoesOn(r, q) /\ Become(r, q) /\ q.pc = "write" /\ q.seen = now
  BY <1>0, CheckPublishGoesOn
<1>2. /\ p.pc = "check" /\ p.op = "publish"
      /\ \A o \in OrdersIn(p.routes) : order[o].version = p.copy.snapshot.orders[o]
      /\ vehicle[plan.vehicle].version = p.copy.snapshot.vehicle
      /\ driver[plan.driver].version = p.copy.snapshot.driver
  BY DEF CheckPublish, SameOrders
<1>3. plan \in Plan /\ OrdersIn(p.routes) = orders
  BY <1>0, <1>2 DEF CopyOK
<1>4. orders \subseteq Orders /\ plan.vehicle \in Vehicles /\ plan.driver \in Drivers
  <2>1. p.copy.cargo \in SUBSET Packages
    BY <1>0 DEF Request, Trip
  <2> QED BY <2>1, <1>3, CargoType DEF Plan
<1>5. /\ \A o \in orders : now.orders[o] = order[o].version
      /\ now.vehicles[plan.vehicle] = vehicle[plan.vehicle].version
      /\ now.drivers[plan.driver] = driver[plan.driver].version
  <2> HIDE DEF plan, orders
  <2> QED BY <1>4 DEF See
<1>6. q.copy = p.copy /\ q.op = "publish" /\ q \in Request
  BY <1>1, <1>2 DEF GoesOn
<1> HIDE DEF now, p
<1>7. ReadOK(q)
  BY <1>1, <1>2, <1>3, <1>5, <1>6 DEF ReadOK
<1> QED BY <1>1, <1>6, <1>7 DEF SeenOK

LEMMA ReadStep ==
  ASSUME ReadInv, [Next]_vars
  PROVE  ReadInv'
<1>0. /\ CopyInv /\ TypeOK /\ AllSound /\ CopyInv'
      /\ \A r \in Requests : SeenOK(request[r])
  BY CopyStep DEF ReadInv, CopyInv, RowsInv
<1>1. ASSUME NEW r \in Requests, NEW q \in Request, Become(r, q), SeenOK(q), NEW s \in Requests
      PROVE  SeenOK(request[s])'
  <2>1. request'[s] = q \/ request'[s] = request[s]
    BY <1>0, <1>1, BecomeType
  <2>2. CASE request'[s] = q
    <3>1. SeenOK(q)
      BY <1>1
    <3> QED BY ONLY <3>1, <2>2 DEF SeenOK, ReadOK, OrdersOf
  <2>3. CASE request'[s] = request[s]
    <3>1. SeenOK(request[s])
      BY <1>0
    <3> QED BY ONLY <3>1, <2>3 DEF SeenOK, ReadOK, OrdersOf
  <2> QED BY <2>1, <2>2, <2>3
<1>2. ASSUME NEW r \in Requests, NEW q, GoesOn(r, q), q.pc \in {"lock", "check"} \/ q.op # "publish"
      PROVE  SeenOK(q) /\ q \in Request
  BY <1>2 DEF SeenOK, GoesOn
<1>3. SeenOK(Idle) /\ Idle \in Request
  BY IdleType DEF SeenOK, Idle
<1>4. ASSUME NEW r \in Requests, Quiet(r), NEW s \in Requests
      PROVE  SeenOK(request[s])'
  <2>1. CASE Reads(r)
    <3>1. PICK q : Begins(q) /\ Become(r, q)
      BY <2>1, <1>0, ReadsBegin
    <3>2. SeenOK(q) /\ q \in Request
      BY <3>1 DEF Begins, SeenOK
    <3> QED BY <3>1, <3>2, <1>1
  <2>2. CASE Acquire(r)
    <3>1. PICK q : GoesOn(r, q) /\ Become(r, q) /\ q.pc \in {"lock", "check"}
      BY <2>2, <1>0, AcquireGoesOn
    <3> QED BY <3>1, <1>1, <1>2
  <2>3. CASE CheckPublish(r)
    BY <2>3, <1>0, <1>1, ReadChecked
  <2>4. CASE CheckCreate(r) \/ CheckApply(r) \/ CheckUpdate(r)
    <3>1. PICK q : GoesOn(r, q) /\ Become(r, q)
      BY <2>4, <1>0, PassesGoOn DEF Passes
    <3>2. q.op # "publish"
      BY <2>4, <3>1 DEF GoesOn, CheckCreate, CheckApply, CheckUpdate
    <3> QED BY <3>1, <3>2, <1>1, <1>2
  <2>5. CASE Number(r)
    <3>1. PICK q : GoesOn(r, q) /\ Become(r, q)
      BY <2>5, <1>0, NumberGoesOn
    <3>2. request[r].pc = "number" /\ SeenOK(request[r])
      BY <2>5, <1>0 DEF Number
    <3>3. q.op # "publish"
      BY <3>1, <3>2 DEF GoesOn, SeenOK
    <3> QED BY <3>1, <3>3, <1>1, <1>2
  <2>6. CASE Abort(r)
    BY <2>6, <1>1, <1>3 DEF Abort, Finish
  <2> QED BY <1>4, <2>1, <2>2, <2>3, <2>4, <2>5, <2>6 DEF Quiet, Passes
<1>5. ASSUME NEW r \in Requests, Inserts(r) \/ PublishWrite(r), NEW s \in Requests
      PROVE  SeenOK(request[s])'
  <2>1. Become(r, Idle)
    BY <1>5 DEF Inserts, CreateWrite, ApplyWrite, Insert, PublishWrite, Finish
  <2> QED BY <2>1, <1>1, <1>3
<1>6. ASSUME ByOthers \/ UNCHANGED vars, NEW s \in Requests
      PROVE  SeenOK(request[s])'
  <2>1. request' = request
    BY <1>0, <1>6, OthersType DEF ByOthers, vars
  <2>2. SeenOK(request[s])
    BY <1>0
  <2> QED BY ONLY <2>1, <2>2 DEF SeenOK, ReadOK, OrdersOf
<1> QED BY <1>0, <1>4, <1>5, <1>6, Steps DEF ReadInv

LEMMA ReadInit == ASSUME Init PROVE ReadInv
<1>1. \A r \in Requests : request[r].op = "none"
  BY DEF Init, Idle
<1> QED BY <1>1, CopyInit DEF ReadInv, SeenOK

(* The witness of DispatchesWhatItChecked.                                  *)
Dispatcher(r, x) ==
  /\ request[r].pc = "write" /\ request[r].copy = x
  /\ \A o \in OrdersOf(x.cargo) : request[r].seen.orders[o] = x.snapshot.orders[o]
  /\ request[r].seen.vehicles[x.plan.vehicle] = x.snapshot.vehicle
  /\ request[r].seen.drivers[x.plan.driver] = x.snapshot.driver

LEMMA DispatchStep ==
  ASSUME ReadInv, [Next]_vars, NEW t \in Trips,
         trip[t].status = "PLANNED", trip'[t].status = "DISPATCHED"
  PROVE  \E r \in Requests : Dispatcher(r, trip[t])
<1>0. TypeOK /\ AllSound /\ Consecutive /\ RowsInv /\ Copies
  BY DEF ReadInv, CopyInv, RowsInv
<1>1. ASSUME NEW r \in Requests, Quiet(r)
      PROVE  FALSE
  BY <1>0, <1>1, QuietRows DEF rows
<1>2. ASSUME NEW r \in Requests, Inserts(r)
      PROVE  FALSE
  <2>1. Insert(r)
    BY <1>2 DEF Inserts, CreateWrite, ApplyWrite
  <2>2. t \notin Numbered(request[r])
    BY <1>0, FreshTrips
  <2> QED BY <1>0, <2>1, <2>2, InsertRows
<1>3. ASSUME NEW r \in Requests, PublishWrite(r)
      PROVE  Dispatcher(r, trip[t])
  <2>1. /\ request[r].op = "publish" /\ request[r].pc = "write"
        /\ trip[request[r].trip].version = request[r].copy.version
        /\ \A s \in Trips \ {request[r].trip} : trip'[s] = trip[s]
    BY <1>0, <1>3, PublishRows
  <2>2. t = request[r].trip
    BY <2>1
  <2>3. request[r].copy = trip[t]
    BY <2>1, <2>2, <1>0 DEF Copies, CopyOK
  <2>4. ReadOK(request[r])
    BY <2>1 DEF ReadInv, SeenOK
  <2> QED BY <2>1, <2>3, <2>4 DEF Dispatcher, ReadOK
<1>4. CASE ByOthers
  BY <1>0, <1>4, OthersType DEF ByOthers, rows
<1>5. CASE UNCHANGED vars
  BY <1>5 DEF vars, rows
<1> QED BY <1>1, <1>2, <1>3, <1>4, <1>5, Steps

(* Publish reads the trip before it waits for its locks, and others write   *)
(* orders, vehicles and drivers without them: what it dispatches is what it *)
(* has read, with the versions that it was planned with.                    *)
THEOREM DispatchIsChecked == Spec => DispatchesWhatItChecked
<1>1. Init => ReadInv
  BY ReadInit
<1>2. ReadInv /\ [Next]_vars => ReadInv'
  BY ReadStep
<1>3. ReadInv /\ [Next]_vars =>
        [\A t \in Trips : trip[t].status = "PLANNED" /\ trip'[t].status = "DISPATCHED" =>
           \E r \in Requests :
             /\ request[r].pc = "write" /\ request[r].copy = trip[t]
             /\ \A o \in OrdersOf(trip[t].cargo) :
                  request[r].seen.orders[o] = trip[t].snapshot.orders[o]
             /\ request[r].seen.vehicles[trip[t].plan.vehicle] = trip[t].snapshot.vehicle
             /\ request[r].seen.drivers[trip[t].plan.driver] = trip[t].snapshot.driver]_vars
  BY DispatchStep DEF Dispatcher
<1> QED BY <1>1, <1>2, <1>3, PTL DEF Spec, DispatchesWhatItChecked

-----------------------------------------------------------------------------
(* The orders of a trip have packages: updatePlan always finds them.        *)

UpdatesAreRefused ==
  \A r \in Requests : request[r].pc = "write" /\ request[r].op = "update" =>
    ~ ItemsAreUnpacked(OrdersIn(request[r].routes))

Packed ==
  \A t \in Trips : trip[t].status # "NONE" =>
    trip[t].cargo # {} /\ \A p \in trip[t].cargo : package[p] # "NONE"

PackInv == CopyInv /\ Packed

LEMMA PackStep ==
  ASSUME PackInv, [Next]_vars
  PROVE  PackInv'
<1>0. CopyInv /\ Packed /\ TypeOK /\ AllSound /\ CopyInv' /\ Consecutive
  BY CopyStep DEF PackInv, CopyInv, RowsInv
<1>1. ASSUME trip' = trip, package' = package
      PROVE  Packed'
  BY <1>0, <1>1 DEF Packed
<1>2. ASSUME NEW r \in Requests, Quiet(r)
      PROVE  Packed'
  BY <1>0, <1>1, <1>2, QuietRows DEF rows
<1>3. ASSUME NEW r \in Requests, Inserts(r)
      PROVE  Packed'
  <2> DEFINE q == request[r]
             new == Numbered(q)
  <2>1. Insert(r) /\ q \in Request /\ Sound(q) /\ q.op \in {"create", "apply"} /\ q.pc = "write"
    BY <1>0, <1>3 DEF Inserts, CreateWrite, ApplyWrite, TypeOK, AllSound
  <2>2. \A p \in Packages : /\ p \in CargoIn(q.routes) => package'[p] # "NONE"
                            /\ package[p] # "NONE" => package'[p] # "NONE"
    <3>1. CASE CreateWrite(r)
      BY <3>1 DEF CreateWrite, PackagesOf, OrdersIn, OrdersOf
    <3>2. CASE ApplyWrite(r)
      BY <3>2 DEF ApplyWrite
    <3> QED BY <3>1, <3>2, <1>3 DEF Inserts
  <2>3. ASSUME NEW t \in Trips, trip'[t].status # "NONE"
        PROVE  trip'[t].cargo # {} /\ \A p \in trip'[t].cargo : package'[p] # "NONE"
    <3>1. CASE t \in new
      <4>1. t - Count \in DOMAIN q.routes
        BY <2>1, <3>1, NumberedRoute
      <4>2. /\ trip'[t] = NewTrip(q, t - Count)
            /\ q.routes[t - Count].cargo \in SUBSET Packages
        BY <1>0, <2>1, <3>1, InsertRows
      <4>3. trip'[t].cargo = q.routes[t - Count].cargo
        <5>1. NewTrip(q, t - Count).cargo = q.routes[t - Count].cargo
          BY DEF NewTrip
        <5> QED BY <4>2, <5>1
      <4>4. q.routes[t - Count].cargo # {} /\ q.routes[t - Count].cargo \subseteq CargoIn(q.routes)
        BY <2>1, <4>1 DEF Sound, CargoIn
      <4> DEFINE cargo == q.routes[t - Count].cargo
      <4>5. cargo # {} /\ \A p \in cargo : package'[p] # "NONE"
        <5> SUFFICES ASSUME NEW p \in cargo PROVE package'[p] # "NONE"
          BY <4>4
        <5>1. p \in Packages /\ p \in CargoIn(q.routes)
          BY <4>2, <4>4
        <5> QED BY <5>1, <2>2
      <4> HIDE DEF cargo
      <4> QED BY <4>3, <4>5 DEF cargo
    <3>2. CASE t \notin new
      <4>1. trip'[t] = trip[t] /\ trip[t].cargo \in SUBSET Packages
        BY <1>0, <2>1, <3>2, InsertRows DEF TypeOK, Trip
      <4>2. trip[t].cargo # {} /\ \A p \in trip[t].cargo : package[p] # "NONE"
        BY <2>3, <4>1, <1>0 DEF Packed
      <4>3. \A p \in trip[t].cargo : package'[p] # "NONE"
        <5> TAKE p \in trip[t].cargo
        <5>1. p \in Packages /\ package[p] # "NONE"
          BY <4>1, <4>2
        <5> QED BY <5>1, <2>2
      <4> QED BY <4>1, <4>2, <4>3
    <3> QED BY <3>1, <3>2
  <2> QED BY <2>3 DEF Packed
<1>4. ASSUME NEW r \in Requests, PublishWrite(r)
      PROVE  Packed'
  <2> DEFINE t == request[r].trip
  <2>1. /\ t \in Trips /\ trip[t].status = "PLANNED" /\ trip'[t].cargo = trip[t].cargo
        /\ \A s \in Trips \ {t} : trip'[s] = trip[s]
    BY <1>0, <1>4, PublishRows
  <2>2. package' = package
    BY <1>4 DEF PublishWrite
  <2> HIDE DEF t
  <2> QED BY <1>0, <2>1, <2>2 DEF Packed
<1>5. CASE ByOthers
  <2>1. trip' = trip /\ package' = package
    BY <1>0, <1>5, OthersType DEF ByOthers, rows
  <2> QED BY <2>1, <1>0, <1>1 DEF PackInv
<1>6. CASE UNCHANGED vars
  <2>1. trip' = trip /\ package' = package
    BY <1>6 DEF vars, rows
  <2> QED BY <2>1, <1>0, <1>1 DEF PackInv
<1> QED BY <1>0, <1>2, <1>3, <1>4, <1>5, <1>6, Steps DEF PackInv

(* An update that has passed its checks always meets packages that it does  *)
(* not expect: no plan of a trip can be changed.                            *)
THEOREM NoUpdateIsSaved == Spec => []UpdatesAreRefused
<1>1. Init => PackInv
  <2> SUFFICES ASSUME Init PROVE PackInv
    OBVIOUS
  <2>1. \A t \in Trips : trip[t].status = "NONE"
    BY DEF Init, NoTrip
  <2> QED BY <2>1, CopyInit DEF PackInv, Packed
<1>2. PackInv /\ [Next]_vars => PackInv'
  BY PackStep
<1>3. PackInv => UpdatesAreRefused
  <2> SUFFICES ASSUME PackInv, NEW r \in Requests,
                      request[r].pc = "write", request[r].op = "update"
               PROVE  ~ ItemsAreUnpacked(OrdersIn(request[r].routes))
    BY DEF UpdatesAreRefused
  <2> DEFINE t == request[r].trip
  <2>1. /\ trip[t].status # "NONE" /\ t \in Trips
        /\ OrdersIn(request[r].routes) = OrdersOf(trip[t].cargo)
    BY DEF PackInv, CopyInv, Copies, CopyOK, RowsInv, AllSound, Sound
  <2> HIDE DEF t
  <2>2. PICK p \in trip[t].cargo : package[p] # "NONE"
    BY <2>1 DEF PackInv, Packed
  <2>3. p \in Packages
    BY <2>1, <2>2 DEF PackInv, CopyInv, RowsInv, TypeOK, Trip
  <2> QED BY <2>1, <2>2, <2>3 DEF ItemsAreUnpacked, PackagesOf, OrdersOf
<1> QED BY <1>1, <1>2, <1>3, PTL DEF Spec

-----------------------------------------------------------------------------
(* A request that checks and writes holds the locks of its orders.          *)

LockOK(r) ==
  LET q == request[r] IN
  /\ q.pc # "idle" => \A o \in OrdersIn(q.routes) : <<3, o>> \in q.todo \/ lock[<<3, o>>] = r
  /\ q.pc \in {"check", "number", "write"} => q.todo = {}

Locked == \A r \in Requests : LockOK(r)

LEMMA OrderLocks ==
  ASSUME TypeOK, NEW r \in Requests, NEW o \in OrdersIn(request[r].routes)
  PROVE  o \in Orders /\ <<3, o>> \in Locks
<1>1. request[r].routes \in Seq(Route)
  BY DEF TypeOK, Request
<1>2. o \in Orders
  BY <1>1, RoutesType
<1> QED BY <1>2 DEF Locks

LEMMA LockedStep ==
  ASSUME TypeOK, AllSound, Locked, [Next]_vars
  PROVE  Locked'
<1>0. lock \in [Locks -> Requests \cup {NoOne}]
  BY DEF TypeOK
<1>1. ASSUME NEW r \in Requests, NEW s \in Requests \ {r}, NEW k \in Locks,
             request'[s] = request[s], lock[k] = NoOne, lock' = [lock EXCEPT ![k] = r]
      PROVE  LockOK(s)'
  <2>1. LockOK(s)
    BY DEF Locked
  <2>2. \A o \in OrdersIn(request[s].routes) : <<3, o>> \in Locks
    BY OrderLocks
  <2>3. \A o \in OrdersIn(request[s].routes) :
          lock[<<3, o>>] = s => lock'[<<3, o>>] = s
    BY <2>2, <1>0, <1>1, NoneAssumption
  <2> QED BY <2>1, <2>3, <1>1 DEF LockOK
<1>2. ASSUME NEW s \in Requests, request'[s] = request[s], lock' = lock
      PROVE  LockOK(s)'
  BY <1>2 DEF Locked, LockOK
<1>3. ASSUME NEW r \in Requests, Finish(r), NEW s \in Requests
      PROVE  LockOK(s)'
  <2>1. request'[r] = Idle /\ \A x \in Requests \ {r} : request'[x] = request[x]
    BY <1>3, FinishType
  <2>2. CASE s = r
    BY <2>1, <2>2 DEF LockOK, Idle
  <2>3. CASE s # r
    <3>1. LockOK(s)
      BY DEF Locked
    <3>2. \A o \in OrdersIn(request[s].routes) : <<3, o>> \in Locks
      BY OrderLocks
    <3>3. \A o \in OrdersIn(request[s].routes) :
            lock[<<3, o>>] = s => lock'[<<3, o>>] = s
      BY <2>3, <3>2, <1>3 DEF Finish
    <3> QED BY <2>1, <2>3, <3>1, <3>3 DEF LockOK
  <2> QED BY <2>2, <2>3
<1>4. ASSUME NEW r \in Requests, Reads(r), NEW s \in Requests
      PROVE  LockOK(s)'
  <2>1. PICK q : Begins(q) /\ Become(r, q)
    BY <1>4, ReadsBegin
  <2>2. request'[r] = q /\ \A x \in Requests \ {r} : request'[x] = request[x]
    BY <2>1, BecomeType DEF Begins
  <2>3. \/ lock' = lock
        \/ \E k \in Locks : lock[k] = NoOne /\ lock' = [lock EXCEPT ![k] = r]
    BY <1>4, ReadsBegin
  <2>4. CASE s = r
    BY <2>1, <2>2, <2>4 DEF Begins, LockOK
  <2> QED BY <2>2, <2>3, <2>4, <1>1, <1>2
<1>5. ASSUME NEW r \in Requests, Acquire(r), NEW s \in Requests
      PROVE  LockOK(s)'
  <2>0. PICK k \in Locks : \E q :
           /\ GoesOn(r, q) /\ Become(r, q)
           /\ q.todo = request[r].todo \ {k}
           /\ q.pc \in {"lock", "check"}
           /\ q.pc = "check" => q.todo = {}
           /\ lock[k] = NoOne /\ lock' = [lock EXCEPT ![k] = r]
    BY <1>5, AcquireGoesOn
  <2>1. PICK q :
           /\ GoesOn(r, q) /\ Become(r, q)
           /\ q.todo = request[r].todo \ {k}
           /\ q.pc \in {"lock", "check"}
           /\ q.pc = "check" => q.todo = {}
           /\ lock[k] = NoOne /\ lock' = [lock EXCEPT ![k] = r]
    BY <2>0
  <2>2. request'[r] = q /\ \A x \in Requests \ {r} : request'[x] = request[x]
    BY <2>1, BecomeType DEF GoesOn
  <2>3. CASE s = r
    <3>1. \A o \in OrdersIn(q.routes) :
             <<3, o>> \in request[r].todo \/ lock[<<3, o>>] = r
      BY <2>1 DEF GoesOn, Locked, LockOK
    <3>2. \A o \in OrdersIn(q.routes) : <<3, o>> \in q.todo \/ lock'[<<3, o>>] = r
      <4> TAKE o \in OrdersIn(q.routes)
      <4>1. <<3, o>> \in Locks
        BY <2>1, OrderLocks DEF GoesOn
      <4> QED BY <2>1, <3>1, <4>1, <1>0
    <3> QED BY <2>1, <2>2, <2>3, <3>2 DEF LockOK
  <2> QED BY <2>1, <2>2, <2>3, <1>1
<1>6. ASSUME NEW r \in Requests, Passes(r), NEW s \in Requests
      PROVE  LockOK(s)'
  <2>1. PICK q : GoesOn(r, q) /\ Become(r, q) /\ q.todo = request[r].todo
    BY <1>6, PassesGoOn
  <2>2. request'[r] = q /\ \A x \in Requests \ {r} : request'[x] = request[x]
    BY <2>1, BecomeType DEF GoesOn
  <2>3. lock' = lock /\ request[r].pc = "check"
    BY <1>6, PassesGoOn
  <2>4. CASE s = r
    BY <2>1, <2>2, <2>3, <2>4 DEF GoesOn, Locked, LockOK
  <2> QED BY <2>2, <2>3, <2>4, <1>2
<1>7. ASSUME NEW r \in Requests, Number(r), NEW s \in Requests
      PROVE  LockOK(s)'
  <2>1. PICK q : GoesOn(r, q) /\ Become(r, q) /\ q.todo = request[r].todo
    BY <1>7, NumberGoesOn
  <2>2. request'[r] = q /\ \A x \in Requests \ {r} : request'[x] = request[x]
    BY <2>1, BecomeType DEF GoesOn
  <2>3. PICK k \in Locks : lock[k] = NoOne /\ lock' = [lock EXCEPT ![k] = r]
    BY <1>7, NumberGoesOn
  <2>4. request[r].pc = "number"
    BY <1>7, NumberGoesOn
  <2>5. CASE s = r
    <3>1. request[r].todo = {}
      BY <2>4 DEF Locked, LockOK
    <3>2. \A o \in OrdersIn(q.routes) : lock[<<3, o>>] = r
      BY <2>1, <2>4, <3>1 DEF GoesOn, Locked, LockOK
    <3>3. \A o \in OrdersIn(q.routes) : lock'[<<3, o>>] = r
      <4> TAKE o \in OrdersIn(q.routes)
      <4>1. <<3, o>> \in Locks
        BY <2>1, OrderLocks DEF GoesOn
      <4> QED BY <2>3, <3>2, <4>1, <1>0
    <3> QED BY <2>1, <2>2, <2>5, <3>1, <3>3 DEF LockOK
  <2> QED BY <2>2, <2>3, <2>5, <1>1
<1>8. ASSUME NEW r \in Requests,
             Abort(r) \/ Inserts(r) \/ PublishWrite(r)
      PROVE  Finish(r)
  BY <1>8 DEF Abort, Inserts, CreateWrite, ApplyWrite, Insert, PublishWrite
<1>9. ASSUME ByOthers \/ UNCHANGED vars, NEW s \in Requests
      PROVE  LockOK(s)'
  <2>1. request' = request /\ lock' = lock
    BY <1>9, OthersType DEF ByOthers, vars
  <2> QED BY <2>1, <1>2
<1> QED BY <1>3, <1>4, <1>5, <1>6, <1>7, <1>8, <1>9, Steps DEF Locked, Quiet

(* Two requests that are past their checks share no order.                  *)
Past == {"check", "number", "write"}

LEMMA OrdersApart ==
  ASSUME Locked, NEW r \in Requests, NEW s \in Requests, r # s,
         request[r].pc \in Past, request[s].pc \in Past
  PROVE  OrdersIn(request[r].routes) \cap OrdersIn(request[s].routes) = {}
<1>1. \A o \in OrdersIn(request[r].routes) : lock[<<3, o>>] = r
  BY DEF Locked, LockOK, Past
<1>2. \A o \in OrdersIn(request[s].routes) : lock[<<3, o>>] = s
  BY DEF Locked, LockOK, Past
<1> QED BY <1>1, <1>2

-----------------------------------------------------------------------------
(* What a request has checked of its orders stays true until it writes, but *)
(* that those without a lock may move their versions on.                    *)

(* The trips of an order were planned with this version or an older one.    *)
Behind(o, version) ==
  /\ version <= order[o].version
  /\ \A t \in Trips : o \in OrdersOf(trip[t].cargo) => trip[t].snapshot.orders[o] <= version

Apart(routes) == \A i, j \in DOMAIN routes : i # j => routes[i].cargo \cap routes[j].cargo = {}

Checked(q) ==
  q.pc \in {"number", "write"} =>
    /\ q.op \in {"create", "apply"} => \A o \in OrdersIn(q.routes) : Behind(o, q.seen.orders[o])
    /\ q.op = "apply" => Apart(q.routes)

AllChecked == \A r \in Requests : Checked(request[r])

(* An order on a trip is CONFIRMED only if it was reopened.                 *)
Taken ==
  \A t \in Trips : \A o \in OrdersOf(trip[t].cargo) :
    o \in reopened \/ order[o].status # "CONFIRMED"

Older ==
  \A t \in Trips : \A o \in OrdersOf(trip[t].cargo) :
    trip[t].snapshot.orders[o] <= order[o].version

Booked == Taken /\ Older /\ PackageOnOneTrip /\ PlanIsCurrent

BookInv == CopyInv /\ Locked /\ AllChecked /\ Booked

LEMMA CheckedOnPass ==
  ASSUME TypeOK, Older, NEW r \in Requests, Passes(r)
  PROVE  LET p == request[r] IN
         /\ p.op \in {"create", "apply"} =>
              \A o \in OrdersIn(p.routes) : Behind(o, p.seen.orders[o])
         /\ p.op = "apply" => Apart(p.routes)
<1> DEFINE p == request[r]
<1>0. \A o \in Orders : order[o].version \in Nat
  BY DEF TypeOK, Order
<1>1. ASSUME SameOrders(r, "CONFIRMED", p.seen.orders), NEW o \in OrdersIn(p.routes)
      PROVE  Behind(o, p.seen.orders[o])
  <2>1. o \in Orders
    BY <1>1, OrderLocks
  <2>2. p.seen.orders[o] = order[o].version
    BY <1>1 DEF SameOrders
  <2> HIDE DEF p
  <2> QED BY <2>1, <2>2, <1>0 DEF Behind, Older
<1>2. CASE CheckCreate(r)
  <2>1. p.op = "create" /\ SameOrders(r, "CONFIRMED", p.seen.orders)
    BY <1>2 DEF CheckCreate
  <2> QED BY <2>1, <1>1
<1>3. CASE CheckApply(r)
  <2>1. /\ p.op = "apply" /\ SameOrders(r, "CONFIRMED", p.seen.orders)
        /\ CoversOrders(p.routes)
    BY <1>3 DEF CheckApply
  <2> QED BY <2>1, <1>1 DEF CoversOrders, Apart
<1>4. CASE CheckUpdate(r) \/ CheckPublish(r)
  <2>1. p.op \in {"update", "publish"}
    BY <1>4 DEF CheckUpdate, CheckPublish
  <2> QED BY <2>1
<1> QED BY <1>2, <1>3, <1>4 DEF Passes

(* A step that writes neither trips nor orders keeps what is said of them.  *)
LEMMA BookKept ==
  ASSUME Booked, UNCHANGED <<rows, order, reopened>>
  PROVE  Booked'
<1>1. trip' = trip /\ order' = order /\ reopened' = reopened
  BY DEF rows
<1>2. Taken' /\ Older' /\ PackageOnOneTrip' /\ PlanIsCurrent'
  BY <1>1 DEF Booked, Taken, Older, PackageOnOneTrip, PlanIsCurrent, OrdersOf
<1> QED BY <1>2 DEF Booked

(* The version of an order only grows, and no trip of it is new.            *)
Grows(o) ==
  /\ order'[o].version >= order[o].version
  /\ \A t \in Trips : o \in OrdersOf(trip'[t].cargo) =>
       o \in OrdersOf(trip[t].cargo) /\ trip'[t].snapshot = trip[t].snapshot

LEMMA CheckedKept ==
  ASSUME TypeOK, TypeOK', NEW q \in Request, Checked(q),
         q.pc \in {"number", "write"} => \A o \in OrdersIn(q.routes) : Grows(o)
  PROVE  Checked(q)'
<1>1. ASSUME q.pc \in {"number", "write"}, NEW o \in OrdersIn(q.routes),
             Behind(o, q.seen.orders[o])
      PROVE  Behind(o, q.seen.orders[o])'
  <2>1. q.routes \in Seq(Route) /\ q.seen.orders \in [Orders -> Int]
    BY DEF Request
  <2>2. o \in Orders
    BY <2>1, <1>1, RoutesType
  <2>3. q.seen.orders[o] \in Int /\ order[o].version \in Nat /\ order'[o].version \in Nat
    BY <2>1, <2>2 DEF TypeOK, Order
  <2>4. Grows(o)
    BY <1>1
  <2>5. q.seen.orders[o] <= order'[o].version
    BY <1>1, <2>3, <2>4 DEF Grows, Behind
  <2>6. ASSUME NEW t \in Trips, o \in OrdersOf(trip'[t].cargo)
        PROVE  trip'[t].snapshot.orders[o] <= q.seen.orders[o]
    BY <1>1, <2>4, <2>6 DEF Grows, Behind
  <2> QED BY <2>5, <2>6 DEF Behind, OrdersOf
<1> QED BY <1>1 DEF Checked, OrdersIn, CargoIn, OrdersOf, Apart

LEMMA QuietChecked ==
  ASSUME BookInv, TypeOK', NEW r \in Requests, Quiet(r)
  PROVE  AllChecked'
<1> SUFFICES ASSUME NEW s \in Requests PROVE Checked(request[s])'
  BY DEF AllChecked
<1>0. TypeOK /\ AllSound /\ AllChecked /\ Older
  BY DEF BookInv, CopyInv, RowsInv, Booked
<1>1. order' = order /\ trip' = trip
  BY <1>0, QuietRows DEF rows
<1>2. ASSUME NEW q, Become(r, q), q \in Request, Checked(q)
      PROVE  Checked(request[s])'
  <2>1. request'[s] = IF s = r THEN q ELSE request[s]
    BY <1>0, <1>2, BecomeType
  <2>2. PICK x : x = request'[s]
    OBVIOUS
  <2>3. Checked(x) /\ x \in Request
    BY <1>0, <1>2, <2>1, <2>2 DEF AllChecked, TypeOK
  <2>4. ASSUME NEW o \in OrdersIn(x.routes)
        PROVE  Grows(o)
    <3>1. x.routes \in Seq(Route)
      BY <2>3 DEF Request
    <3>2. order[o].version \in Nat
      BY <3>1, <1>0, RoutesType DEF TypeOK, Order
    <3> QED BY <3>2, <1>1 DEF Grows
  <2>5. Checked(x)'
    BY <2>3, <2>4, <1>0, CheckedKept
  <2> QED BY <2>2, <2>5
<1>3. CASE Reads(r)
  <2>1. PICK q : Begins(q) /\ Become(r, q)
    BY <1>0, <1>3, ReadsBegin
  <2> QED BY <2>1, <1>2 DEF Begins, Checked
<1>4. CASE Acquire(r)
  <2>1. PICK q : GoesOn(r, q) /\ Become(r, q) /\ q.pc \in {"lock", "check"}
    BY <1>0, <1>4, AcquireGoesOn
  <2> QED BY <2>1, <1>2 DEF GoesOn, Checked
<1>5. CASE Passes(r)
  <2>1. PICK q : GoesOn(r, q) /\ Become(r, q)
    BY <1>0, <1>5, PassesGoOn
  <2>2. Checked(q)
    BY <2>1, <1>0, <1>5, CheckedOnPass DEF GoesOn, Checked
  <2> QED BY <2>1, <2>2, <1>2 DEF GoesOn
<1>6. CASE Number(r)
  <2>1. PICK q : GoesOn(r, q) /\ Become(r, q)
    BY <1>0, <1>6, NumberGoesOn
  <2>2. request[r].pc = "number" /\ Checked(request[r])
    BY <1>0, <1>6, NumberGoesOn DEF AllChecked
  <2>3. Checked(q)
    BY <2>1, <2>2 DEF GoesOn, Checked
  <2> QED BY <2>1, <2>3, <1>2 DEF GoesOn
<1>7. CASE Abort(r)
  <2>1. Become(r, Idle)
    BY <1>7 DEF Abort, Finish
  <2>2. Checked(Idle)
    BY DEF Checked, Idle
  <2> QED BY <2>1, <2>2, <1>2, IdleType
<1> QED BY <1>3, <1>4, <1>5, <1>6, <1>7 DEF Quiet

(* A write keeps what the others have checked.                              *)
LEMMA WriteChecked ==
  ASSUME BookInv, TypeOK', NEW r \in Requests, request[r].pc = "write", Finish(r),
         \A o \in Orders : o \notin OrdersIn(request[r].routes) => Grows(o)
  PROVE  AllChecked'
<1>0. TypeOK /\ AllSound /\ AllChecked /\ Locked
  BY DEF BookInv, CopyInv, RowsInv
<1>1. request'[r] = Idle /\ \A x \in Requests \ {r} : request'[x] = request[x]
  BY <1>0, FinishType
<1> SUFFICES ASSUME NEW s \in Requests
             PROVE  Checked(request[s])'
  BY DEF AllChecked
<1>2. CASE s = r
  BY <1>1, <1>2 DEF Checked, Idle
<1>3. CASE s # r
  <2>1. PICK q : q = request[s]
    OBVIOUS
  <2>2. Checked(q) /\ q \in Request
    BY <2>1, <1>0 DEF AllChecked, TypeOK
  <2>3. ASSUME q.pc \in {"number", "write"}, NEW o \in OrdersIn(q.routes)
        PROVE  Grows(o)
    <3>1. o \notin OrdersIn(request[r].routes)
      BY <2>1, <2>3, <1>0, <1>3, OrdersApart DEF Past
    <3>2. o \in Orders
      BY <2>1, <1>0, OrderLocks
    <3> QED BY <3>1, <3>2
  <2>4. Checked(q)'
    BY <2>2, <2>3, <1>0, CheckedKept
  <2> QED BY <2>1, <2>4, <1>1, <1>3
<1> QED BY <1>2, <1>3

LEMMA AssignedRow ==
  ASSUME NEW o, order[o] \in Order
  PROVE  /\ Assigned(o).status = "ASSIGNED" /\ Assigned(o).content = order[o].content
         /\ Assigned(o).version = order[o].version + 1
BY DEF Assigned, Order

LEMMA RouteOrders ==
  ASSUME NEW R, NEW i \in DOMAIN R
  PROVE  OrdersOf(R[i].cargo) \subseteq OrdersIn(R)
BY DEF OrdersIn, CargoIn, OrdersOf

LEMMA BookInsert ==
  ASSUME BookInv, TypeOK', NEW r \in Requests, Inserts(r)
  PROVE  AllChecked' /\ Booked'
<1> DEFINE q == request[r]
           new == Numbered(q)
           orders == OrdersIn(q.routes)
<1>0. TypeOK /\ AllSound /\ AllChecked /\ Locked /\ Taken /\ Older /\ PackageOnOneTrip
      /\ PlanIsCurrent /\ Consecutive
  BY DEF BookInv, CopyInv, RowsInv, Booked
<1>1. /\ Insert(r) /\ q.pc = "write" /\ q.op \in {"create", "apply"} /\ q \in Request
      /\ Checked(q) /\ Sound(q)
  BY <1>0 DEF Inserts, CreateWrite, ApplyWrite, TypeOK, AllChecked, AllSound
<1>2. /\ \A o \in orders : order[o].status = "CONFIRMED"
      /\ \A o \in orders : q.seen.stops[o] = order[o].content
      /\ order' = [o \in Orders |-> IF o \in orders THEN Assigned(o) ELSE order[o]]
      /\ Finish(r) /\ reopened' = reopened
  BY <1>1 DEF Insert, StopsExist, AllAre
<1>3. orders \subseteq Orders /\ q.seen.orders \in [Orders -> Int]
  <2>1. q.routes \in Seq(Route) /\ q.seen.orders \in [Orders -> Int]
    BY <1>1 DEF Request
  <2> QED BY <2>1, RoutesType
<1>4. \A o \in Orders : order[o] \in Order /\ order[o].version \in Nat
  BY <1>0 DEF TypeOK, Order
<1>5. /\ \A o \in Orders : o \notin orders => order'[o] = order[o]
      /\ \A o \in orders : /\ order'[o].status = "ASSIGNED"
                           /\ order'[o].content = order[o].content
                           /\ order'[o].version = order[o].version + 1
  <2> HIDE DEF orders
  <2> QED BY <1>2, <1>3, <1>4, AssignedRow
<1>6. \A t \in Trips : t \notin new => trip'[t] = trip[t]
  BY <1>0, <1>1, InsertRows
<1>7. \A t \in Trips : t \in new =>
        /\ t - Count \in DOMAIN q.routes
        /\ trip'[t] = NewTrip(q, t - Count)
        /\ trip'[t].cargo = q.routes[t - Count].cargo
        /\ OrdersOf(trip'[t].cargo) \subseteq orders
  <2> TAKE t \in Trips
  <2> SUFFICES ASSUME t \in new
               PROVE  /\ t - Count \in DOMAIN q.routes
                      /\ trip'[t] = NewTrip(q, t - Count)
                      /\ trip'[t].cargo = q.routes[t - Count].cargo
                      /\ OrdersOf(trip'[t].cargo) \subseteq orders
    OBVIOUS
  <2>1. t - Count \in DOMAIN q.routes
    BY <1>1, NumberedRoute
  <2>2. trip'[t] = NewTrip(q, t - Count)
    BY <1>0, <1>1, InsertRows
  <2>3. NewTrip(q, t - Count).cargo = q.routes[t - Count].cargo
    BY DEF NewTrip
  <2> QED BY <2>1, <2>2, <2>3, RouteOrders
<1>8. \A t \in Trips : OrdersOf(trip'[t].cargo) \subseteq Orders
  <2>1. \A t \in Trips : trip'[t].cargo \in SUBSET Packages
    BY DEF TypeOK, Trip
  <2> QED BY <2>1, CargoType
<1>9. AllChecked'
  <2>1. ASSUME NEW o \in Orders, o \notin orders
        PROVE  Grows(o)
    <3>1. order'[o] = order[o] /\ order[o].version \in Nat
      BY <2>1, <1>4, <1>5
    <3>2. \A t \in Trips : o \in OrdersOf(trip'[t].cargo) => trip'[t] = trip[t]
      BY <2>1, <1>6, <1>7
    <3> HIDE DEF orders, new, q
    <3> QED BY <3>1, <3>2 DEF Grows
  <2> QED BY <2>1, <1>1, <1>2, WriteChecked
(* A new trip has its orders' versions plus one, an old trip older ones.    *)
<1>10. ASSUME NEW t \in Trips, t \in new, NEW o \in OrdersOf(trip'[t].cargo)
       PROVE  /\ o \in orders
              /\ trip'[t].stops[o] = q.seen.stops[o]
              /\ trip'[t].snapshot.orders[o] = q.seen.orders[o] + 1
              /\ q.seen.orders[o] \in Int /\ Behind(o, q.seen.orders[o])
  <2>1. o \in orders /\ o \in Orders /\ o \in OrdersOf(q.routes[t - Count].cargo)
    BY <1>10, <1>7, <1>8
  <2>2. /\ NewTrip(q, t - Count).stops[o] = q.seen.stops[o]
        /\ NewTrip(q, t - Count).snapshot.orders[o] = q.seen.orders[o] + 1
    BY <2>1 DEF NewTrip, Increased
  <2>3. trip'[t] = NewTrip(q, t - Count)
    BY <1>10, <1>7
  <2>4. Behind(o, q.seen.orders[o])
    BY <2>1, <1>1 DEF Checked
  <2>5. q.seen.orders[o] \in Int
    BY <2>1, <1>3
  <2> HIDE DEF orders, new, q
  <2> QED BY <2>1, <2>2, <2>3, <2>4, <2>5
<1>11. ASSUME NEW t \in Trips, NEW s \in Trips, t # s, t \in new, s \in new,
              NEW p \in trip'[t].cargo \cap trip'[s].cargo
       PROVE  FALSE
  <2> DEFINE i == t - Count
             j == s - Count
  <2>1. /\ i \in DOMAIN q.routes /\ j \in DOMAIN q.routes
        /\ p \in q.routes[i].cargo /\ p \in q.routes[j].cargo
    BY <1>11, <1>7
  <2>2. i # j
    BY <1>11, CountType DEF Trips
  <2>3. CASE q.op = "create"
    <3>1. Len(q.routes) = 1 /\ q.routes \in Seq(Route)
      BY <2>3, <1>1 DEF Sound, Request
    <3>2. i = 1 /\ j = 1
      BY <2>1, <3>1
    <3> QED BY <2>2, <3>2
  <2>4. CASE q.op = "apply"
    <3>1. Apart(q.routes)
      BY <2>4, <1>1 DEF Checked
    <3> QED BY <2>1, <2>2, <3>1 DEF Apart
  <2> QED BY <2>3, <2>4, <1>1
<1>12. ASSUME NEW x \in Trips, NEW y \in Trips, x \in new, y \notin new,
              NEW p \in trip'[x].cargo \cap trip'[y].cargo
       PROVE  /\ OrderOf[p] \in reopened
              /\ trip'[x].snapshot.orders[OrderOf[p]] # trip'[y].snapshot.orders[OrderOf[p]]
  <2> DEFINE o == OrderOf[p]
  <2>1. o \in OrdersOf(trip'[x].cargo) /\ o \in OrdersOf(trip[y].cargo) /\ trip'[y] = trip[y]
    BY <1>12, <1>6 DEF OrdersOf
  <2>2. trip'[x].cargo \in SUBSET Packages /\ trip[y] \in Trip
    BY <1>0 DEF TypeOK, Trip
  <2>3. o \in Orders
    BY <1>8, <2>1
  <2>4. /\ o \in orders
        /\ trip'[x].snapshot.orders[o] = q.seen.orders[o] + 1
        /\ q.seen.orders[o] \in Int /\ Behind(o, q.seen.orders[o])
    BY <1>10, <1>12, <2>1
  <2>5. trip[y].snapshot.orders[o] \in Int
    BY <2>2, <2>3 DEF Trip, Snapshot
  <2> HIDE DEF o, q, orders, new
  <2>6. trip[y].snapshot.orders[o] <= q.seen.orders[o]
    BY <2>1, <2>4 DEF Behind
  <2>7. o \in reopened
    BY <2>1, <2>4, <1>0, <1>2 DEF Taken
  <2>8. trip'[x].snapshot.orders[o] # trip'[y].snapshot.orders[o]
    BY <2>1, <2>4, <2>5, <2>6
  <2> QED BY <2>7, <2>8 DEF o
<1> HIDE DEF orders, new, q
<1>13. Taken'
  <2> SUFFICES ASSUME NEW t \in Trips, NEW o \in OrdersOf(trip'[t].cargo)
               PROVE  o \in reopened \/ order'[o].status # "CONFIRMED"
    BY <1>2 DEF Taken, OrdersOf
  <2>1. CASE o \in orders
    BY <2>1, <1>5
  <2>2. CASE o \notin orders
    <3>1. trip'[t] = trip[t]
      BY <2>2, <1>6, <1>7
    <3> QED BY <2>2, <3>1, <1>0, <1>5, <1>8 DEF Taken
  <2> QED BY <2>1, <2>2
<1>14. Older'
  <2> SUFFICES ASSUME NEW t \in Trips, NEW o \in OrdersOf(trip'[t].cargo)
               PROVE  trip'[t].snapshot.orders[o] <= order'[o].version
    BY DEF Older, OrdersOf
  <2>1. o \in Orders /\ order[o].version \in Nat
    BY <1>4, <1>8
  <2>2. CASE t \in new
    <3>1. /\ trip'[t].snapshot.orders[o] = q.seen.orders[o] + 1 /\ q.seen.orders[o] \in Int
          /\ q.seen.orders[o] <= order[o].version /\ order'[o].version = order[o].version + 1
      BY <2>2, <1>5, <1>10 DEF Behind
    <3> QED BY <2>1, <3>1
  <2>3. CASE t \notin new
    <3>1. trip'[t] = trip[t]
      BY <2>3, <1>6
    <3>2. trip[t].snapshot.orders[o] <= order[o].version
      BY <3>1, <1>0 DEF Older
    <3>3. trip[t].snapshot.orders[o] \in Int
      BY <2>1, <1>0 DEF TypeOK, Trip, Snapshot
    <3>4. order'[o].version = order[o].version \/ order'[o].version = order[o].version + 1
      BY <2>1, <1>5
    <3> QED BY <2>1, <3>1, <3>2, <3>3, <3>4
  <2> QED BY <2>2, <2>3
<1>15. PackageOnOneTrip'
  <2> SUFFICES ASSUME NEW t \in Trips, NEW s \in Trips, t # s,
                      NEW p \in trip'[t].cargo \cap trip'[s].cargo
               PROVE  OrderOf[p] \in reopened
    BY <1>2 DEF PackageOnOneTrip
  <2>1. CASE t \notin new /\ s \notin new
    BY <2>1, <1>0, <1>6 DEF PackageOnOneTrip
  <2> QED BY <2>1, <1>11, <1>12
<1>16. PlanIsCurrent'
  <2>1. ASSUME NEW t \in Trips, NEW o \in OrdersOf(trip'[t].cargo)
        PROVE  trip'[t].stops[o] = order'[o].content
    <3>1. order'[o].content = order[o].content
      BY <1>5, <1>8
    <3>2. CASE t \in new
      BY <3>1, <3>2, <1>2, <1>10
    <3>3. CASE t \notin new
      BY <3>1, <3>3, <1>0, <1>6 DEF PlanIsCurrent
    <3> QED BY <3>2, <3>3
  <2>2. ASSUME NEW t \in Trips, NEW s \in Trips, t # s,
               NEW p \in trip'[t].cargo \cap trip'[s].cargo
        PROVE  trip'[t].snapshot.orders[OrderOf[p]] # trip'[s].snapshot.orders[OrderOf[p]]
    <3>1. CASE t \notin new /\ s \notin new
      BY <2>2, <3>1, <1>0, <1>6 DEF PlanIsCurrent
    <3>2. CASE t \in new /\ s \notin new
      BY <2>2, <3>2, <1>12
    <3>3. CASE t \notin new /\ s \in new
      BY <2>2, <3>3, <1>12
    <3> QED BY <2>2, <3>1, <3>2, <3>3, <1>11
  <2> QED BY <2>1, <2>2 DEF PlanIsCurrent, OrdersOf
<1> QED BY <1>9, <1>13, <1>14, <1>15, <1>16 DEF Booked

LEMMA BookPublish ==
  ASSUME BookInv, TypeOK', NEW r \in Requests, PublishWrite(r)
  PROVE  AllChecked' /\ Booked'
<1> DEFINE t == request[r].trip
<1>0. TypeOK /\ AllSound /\ AllChecked /\ Booked
  BY DEF BookInv, CopyInv, RowsInv
<1>1. /\ t \in Trips /\ request[r].pc = "write"
      /\ trip'[t].cargo = trip[t].cargo /\ trip'[t].snapshot = trip[t].snapshot
      /\ trip'[t].stops = trip[t].stops /\ \A s \in Trips \ {t} : trip'[s] = trip[s]
  BY <1>0, PublishRows
<1>2. order' = order /\ reopened' = reopened /\ Finish(r)
  BY DEF PublishWrite
<1> HIDE DEF t
<1>3. \A s \in Trips : /\ trip'[s].cargo = trip[s].cargo /\ trip'[s].stops = trip[s].stops
                       /\ trip'[s].snapshot = trip[s].snapshot
  BY <1>1
<1>4. AllChecked'
  <2>1. \A o \in Orders : order[o].version \in Nat
    BY <1>0 DEF TypeOK, Order
  <2>2. \A o \in Orders : Grows(o)
    BY <2>1, <1>2, <1>3 DEF Grows
  <2> QED BY <2>2, <1>1, <1>2, WriteChecked
<1>5. Taken' /\ Older' /\ PackageOnOneTrip' /\ PlanIsCurrent'
  BY <1>0, <1>2, <1>3 DEF Booked, Taken, Older, PackageOnOneTrip, PlanIsCurrent, OrdersOf
<1> QED BY <1>4, <1>5 DEF Booked

(* What others may do to an order: its version only grows, its stops change *)
(* only if it is on no trip, and it becomes CONFIRMED again only if it is   *)
(* reopened.                                                                *)
OrderMoves ==
  /\ reopened \subseteq reopened'
  /\ \A o \in Orders :
       /\ order'[o].version >= order[o].version
       /\ order'[o].content = order[o].content \/ NotOnTrip(o)
       /\ \/ order'[o].status = order[o].status \/ order'[o].status # "CONFIRMED"
          \/ order[o].status = "CONFIRMED" \/ o \in reopened'

LEMMA OthersMove ==
  ASSUME TypeOK, ByOthers
  PROVE  OrderMoves
<1>0. \A o \in Orders : order[o].version \in Nat
  BY DEF TypeOK, Order
<1>1. ASSUME NEW o \in Orders, NEW status, Rewritten(o, status), reopened' = reopened,
             status # "CONFIRMED" \/ status = order[o].status
      PROVE  OrderMoves
  BY <1>0, <1>1 DEF OrderMoves, Rewritten
<1>2. ASSUME order' = order, reopened' = reopened
      PROVE  OrderMoves
  BY <1>0, <1>2 DEF OrderMoves
<1>3. ASSUME NEW o \in Orders, Cancel(o)
      PROVE  OrderMoves
  BY <1>1, <1>3, CancelRow DEF Cancel
<1>4. ASSUME NEW o \in Orders, Pay(o)
      PROVE  OrderMoves
  BY <1>1, <1>4, PayRow DEF Pay
<1>5. ASSUME NEW c \in Clerks, EditWrite(c)
      PROVE  OrderMoves
  BY <1>0, <1>5, EditRow DEF OrderMoves
<1>6. ASSUME NEW c \in Clerks, AllocateWrite(c)
      PROVE  OrderMoves
  BY <1>1, <1>6, AllocateRow DEF AllocateWrite
<1> QED BY <1>2, <1>3, <1>4, <1>5, <1>6 DEF ByOthers, EditRead, AllocateRead, GiveUp,
                                            ChangeVehicle, ChangeDriver

LEMMA BookOthers ==
  ASSUME BookInv, TypeOK', ByOthers
  PROVE  AllChecked' /\ Booked'
<1>0. TypeOK /\ AllSound /\ AllChecked /\ Taken /\ Older /\ PackageOnOneTrip /\ PlanIsCurrent
  BY DEF BookInv, CopyInv, RowsInv, Booked
<1>1. OrderMoves /\ trip' = trip /\ request' = request
  BY <1>0, OthersMove, OthersType DEF ByOthers, rows
<1>2. \A t \in Trips : OrdersOf(trip[t].cargo) \subseteq Orders
  <2>1. \A t \in Trips : trip[t].cargo \in SUBSET Packages
    BY <1>0 DEF TypeOK, Trip
  <2> QED BY <2>1, CargoType
<1>3. AllChecked'
  <2> SUFFICES ASSUME NEW s \in Requests
               PROVE  Checked(request[s])'
    BY DEF AllChecked
  <2>1. PICK q : q = request[s]
    OBVIOUS
  <2>2. Checked(q) /\ q \in Request
    BY <2>1, <1>0 DEF AllChecked, TypeOK
  <2>3. ASSUME NEW o \in OrdersIn(q.routes)
        PROVE  Grows(o)
    <3>1. o \in Orders
      BY <2>1, <1>0, OrderLocks
    <3> QED BY <3>1, <1>1 DEF Grows, OrderMoves
  <2>4. Checked(q)'
    BY <2>2, <2>3, <1>0, CheckedKept
  <2> QED BY <2>1, <2>4, <1>1
<1>4. Taken'
  <2> SUFFICES ASSUME NEW t \in Trips, NEW o \in OrdersOf(trip[t].cargo)
               PROVE  o \in reopened' \/ order'[o].status # "CONFIRMED"
    BY <1>1 DEF Taken, OrdersOf
  <2>1. o \in Orders /\ (o \in reopened \/ order[o].status # "CONFIRMED")
    BY <1>0, <1>2 DEF Taken
  <2> QED BY <2>1, <1>1 DEF OrderMoves
<1>5. Older'
  <2> SUFFICES ASSUME NEW t \in Trips, NEW o \in OrdersOf(trip[t].cargo)
               PROVE  trip[t].snapshot.orders[o] <= order'[o].version
    BY <1>1 DEF Older, OrdersOf
  <2>1. o \in Orders
    BY <1>2
  <2>2. /\ trip[t].snapshot.orders[o] \in Int
        /\ order[o].version \in Nat /\ order'[o].version \in Nat
    BY <2>1, <1>0 DEF TypeOK, Trip, Snapshot, Order
  <2>3. trip[t].snapshot.orders[o] <= order[o].version /\ order'[o].version >= order[o].version
    BY <2>1, <1>0, <1>1 DEF Older, OrderMoves
  <2> QED BY <2>2, <2>3
<1>6. PackageOnOneTrip'
  BY <1>0, <1>1 DEF PackageOnOneTrip, OrderMoves
<1>7. PlanIsCurrent'
  <2>1. ASSUME NEW t \in Trips, NEW o \in OrdersOf(trip[t].cargo)
        PROVE  trip[t].stops[o] = order'[o].content
    <3>1. o \in Orders /\ trip[t].status # "NONE"
      <4>1. trip[t].cargo # {}
        BY DEF OrdersOf
      <4>2. trip[t].status = "NONE" => trip[t].cargo = {}
        BY <1>0 DEF TypeOK, NoTrip
      <4> QED BY <4>1, <4>2, <1>2
    <3>2. order'[o].content = order[o].content
      BY <3>1, <1>1 DEF OrderMoves, NotOnTrip
    <3> QED BY <3>2, <1>0 DEF PlanIsCurrent
  <2> QED BY <2>1, <1>0, <1>1 DEF PlanIsCurrent, OrdersOf
<1> QED BY <1>3, <1>4, <1>5, <1>6, <1>7 DEF Booked

LEMMA BookInit == ASSUME Init PROVE BookInv
<1>1. CopyInv
  BY CopyInit
<1>2. \A r \in Requests : request[r].pc = "idle"
  BY DEF Init, Idle
<1>3. \A t \in Trips : trip[t].cargo = {}
  BY DEF Init, NoTrip
<1>4. Locked /\ AllChecked
  BY <1>2 DEF Locked, LockOK, AllChecked, Checked
<1>5. Taken /\ Older /\ PackageOnOneTrip /\ PlanIsCurrent
  BY <1>3 DEF Taken, Older, PackageOnOneTrip, PlanIsCurrent, OrdersOf
<1> QED BY <1>1, <1>4, <1>5 DEF BookInv, Booked

LEMMA BookStep ==
  ASSUME BookInv, [Next]_vars
  PROVE  BookInv'
<1>0. CopyInv /\ TypeOK /\ AllSound /\ Locked /\ AllChecked /\ Booked
  BY DEF BookInv, CopyInv, RowsInv
<1>1. CopyInv' /\ Locked' /\ TypeOK'
  <2>1. CopyInv' /\ Locked'
    BY <1>0, CopyStep, LockedStep
  <2> QED BY <2>1 DEF CopyInv, RowsInv
<1>2. ASSUME NEW r \in Requests, Quiet(r)
      PROVE  AllChecked' /\ Booked'
  BY <1>0, <1>1, <1>2, QuietRows, QuietChecked, BookKept
<1>3. ASSUME NEW r \in Requests, Inserts(r) \/ PublishWrite(r)
      PROVE  AllChecked' /\ Booked'
  BY <1>1, <1>3, BookInsert, BookPublish
<1>4. CASE ByOthers
  BY <1>1, <1>4, BookOthers DEF BookInv
<1>5. CASE UNCHANGED vars
  <2>1. UNCHANGED <<rows, order, reopened>> /\ request' = request /\ trip' = trip
    BY <1>5 DEF vars, rows
  <2>2. AllChecked'
    BY <1>0, <2>1 DEF AllChecked, Checked, Behind, OrdersIn, CargoIn, OrdersOf, Apart
  <2> QED BY <1>0, <1>1, <2>1, <2>2, BookKept DEF BookInv
<1> QED BY <1>1, <1>2, <1>3, <1>4, <1>5, Steps DEF BookInv

(* Whichever requests race, no package is on two trips unless somebody gave *)
(* its order back while it was on one.                                      *)
THEOREM PackageIsOnOneTrip == Spec => []PackageOnOneTrip
<1>1. Init => BookInv
  BY BookInit
<1>2. BookInv /\ [Next]_vars => BookInv'
  BY BookStep
<1>3. BookInv => PackageOnOneTrip
  BY DEF BookInv, Booked
<1> QED BY <1>1, <1>2, <1>3, PTL DEF Spec

(* The stops of a trip stay those of its orders, and no two trips with the  *)
(* same package were planned with the same version of its order.            *)
THEOREM PlanStaysCurrent == Spec => []PlanIsCurrent
<1>1. Init => BookInv
  BY BookInit
<1>2. BookInv /\ [Next]_vars => BookInv'
  BY BookStep
<1>3. BookInv => PlanIsCurrent
  BY DEF BookInv, Booked
<1> QED BY <1>1, <1>2, <1>3, PTL DEF Spec

-----------------------------------------------------------------------------
(* A request has every lock it holds from before the ones it still waits    *)
(* for: nobody waits in a circle.                                           *)

LEMMA LockNumbers ==
  ASSUME NEW k \in Locks
  PROVE  k[1] \in Nat /\ k[2] \in Nat /\ k = <<k[1], k[2]>> /\ (k # NumberLock => k[1] < 4)
<1>1. \A t \in Trips : 2 * t \in Nat /\ 2 * t + 1 \in Nat
  BY DEF Trips
<1>2. CASE \E t \in Trips : k = UpdateLock(t) \/ k = PublishLock(t)
  BY <1>1, <1>2 DEF UpdateLock, PublishLock
<1>3. CASE k = NumberLock
  BY <1>3 DEF NumberLock
<1>4. CASE \E n \in Nat : k = <<1, n>> \/ k = <<2, n>> \/ k = <<3, n>>
  BY <1>4
<1> QED BY <1>2, <1>3, <1>4, NumbersAssumption DEF Locks

LEMMA BeforeTransitive ==
  ASSUME NEW j \in Locks, NEW k \in Locks, NEW l \in Locks, Before(j, k), Before(k, l)
  PROVE  Before(j, l) /\ ~ Before(j, j)
<1>1. /\ j[1] \in Nat /\ j[2] \in Nat /\ k[1] \in Nat /\ k[2] \in Nat
      /\ l[1] \in Nat /\ l[2] \in Nat
  BY LockNumbers
<1> QED BY <1>1 DEF Before

Ordered(r) ==
  LET q == request[r] IN
  /\ q.pc = "lock" => q.todo # {}
  /\ NumberLock \notin q.todo
  /\ \A k \in Locks : lock[k] = r =>
       /\ q.pc # "idle"
       /\ k = NumberLock => q.pc = "write"
       /\ \A l \in q.todo : Before(k, l)

AtWork == {r \in Requests : request[r].pc # "idle"}

OrderInv ==
  /\ TypeOK /\ AllSound /\ Locked
  /\ \A r \in Requests : Ordered(r)
  /\ IsFiniteSet(AtWork)

LEMMA OrderedInit == ASSUME Init PROVE OrderInv
<1>1. TypeOK /\ AllSound
  BY TypeInit
<1>2. ASSUME NEW r \in Requests
      PROVE  LockOK(r) /\ Ordered(r) /\ request[r].pc = "idle"
  <2>1. request[r] = Idle /\ Idle.pc = "idle" /\ Idle.todo = {}
    BY DEF Init, Idle
  <2>2. \A k \in Locks : lock[k] # r
    BY NoneAssumption DEF Init
  <2> QED BY <2>1, <2>2 DEF LockOK, Ordered
<1>3. AtWork = {}
  BY <1>2 DEF AtWork
<1> QED BY <1>1, <1>2, <1>3, FS_EmptySet DEF OrderInv, Locked

LEMMA OrderedStep ==
  ASSUME OrderInv, [Next]_vars
  PROVE  \A s \in Requests : Ordered(s)'
<1>0. /\ TypeOK /\ AllSound /\ Locked /\ \A r \in Requests : Ordered(r)
      /\ lock \in [Locks -> Requests \cup {NoOne}]
  BY DEF OrderInv, TypeOK
<1>1. ASSUME NEW s \in Requests, request'[s] = request[s],
             \A k \in Locks : lock'[k] = s => lock[k] = s
      PROVE  Ordered(s)'
  BY <1>0, <1>1 DEF Ordered
<1>2. ASSUME NEW r \in Requests, NEW s \in Requests \ {r}, NEW j \in Locks,
             lock' = [lock EXCEPT ![j] = r]
      PROVE  \A k \in Locks : lock'[k] = s => lock[k] = s
  BY <1>0, <1>2
<1>3. ASSUME NEW r \in Requests, Finish(r), NEW s \in Requests
      PROVE  Ordered(s)'
  <2>1. request'[r] = Idle /\ \A x \in Requests \ {r} : request'[x] = request[x]
    BY <1>0, <1>3, FinishType
  <2>2. \A k \in Locks : /\ lock'[k] = s => lock[k] = s
                          /\ lock'[k] # r
    BY <1>0, <1>3, NoneAssumption DEF Finish
  <2>3. CASE s = r
    <3>1. Idle.pc = "idle" /\ Idle.todo = {}
      BY DEF Idle
    <3> QED BY <2>1, <2>2, <2>3, <3>1 DEF Ordered
  <2> QED BY <2>1, <2>2, <2>3, <1>1
<1>4. ASSUME NEW r \in Requests, Reads(r), NEW s \in Requests
      PROVE  Ordered(s)'
  <2>1. PICK q : Begins(q) /\ Become(r, q)
    BY <1>0, <1>4, ReadsBegin
  <2>2. request'[r] = q /\ \A x \in Requests \ {r} : request'[x] = request[x]
    BY <2>1, <1>0, BecomeType DEF Begins
  <2>3. /\ \/ lock' = lock
           \/ \E k \in Locks : /\ lock[k] = NoOne /\ lock' = [lock EXCEPT ![k] = r]
                             /\ k[1] = 0 /\ request'[r].op = "publish"
        /\ request[r].pc = "idle"
    BY <1>0, <1>4, ReadsBegin
  <2>4. q.pc = "lock" /\ q.todo # {} /\ q.todo \subseteq Locks /\ NumberLock \notin q.todo
    BY <2>1 DEF Begins, Request
  <2>5. CASE s = r
    <3>1. \A k \in Locks : lock[k] # r
      BY <2>3, <1>0 DEF Ordered
    <3>2. ASSUME NEW k \in Locks, lock'[k] = r
          PROVE  k # NumberLock /\ \A l \in q.todo : Before(k, l)
      <4>1. k[1] = 0 /\ q.op = "publish"
        BY <3>1, <3>2, <2>2, <2>3, <1>0
      <4>2. \A l \in q.todo : l[1] \in 1 .. 3
        BY <4>1, <2>1 DEF Begins
      <4> QED BY <4>1, <4>2 DEF Before, NumberLock
    <3> QED BY <2>2, <2>4, <2>5, <3>2 DEF Ordered
  <2> QED BY <2>2, <2>3, <2>5, <1>1, <1>2
<1>5. ASSUME NEW r \in Requests, Acquire(r), NEW s \in Requests
      PROVE  Ordered(s)'
  <2>0. PICK k \in Locks : \E q :
           /\ GoesOn(r, q) /\ Become(r, q)
           /\ k \in Least(request[r].todo) /\ q.todo = request[r].todo \ {k}
           /\ q.pc \in {"lock", "check"}
           /\ q.pc = "check" <=> q.todo = {}
           /\ lock[k] = NoOne /\ lock' = [lock EXCEPT ![k] = r]
    BY <1>0, <1>5, AcquireGoesOn
  <2>1. PICK q :
           /\ GoesOn(r, q) /\ Become(r, q)
           /\ k \in Least(request[r].todo) /\ q.todo = request[r].todo \ {k}
           /\ q.pc \in {"lock", "check"}
           /\ q.pc = "check" <=> q.todo = {}
           /\ lock[k] = NoOne /\ lock' = [lock EXCEPT ![k] = r]
    BY <2>0
  <2>2. request'[r] = q /\ \A x \in Requests \ {r} : request'[x] = request[x]
    BY <2>1, <1>0, BecomeType DEF GoesOn
  <2>3. CASE s = r
    <3>1. /\ k # NumberLock /\ NumberLock \notin q.todo
          /\ \A l \in q.todo : Before(k, l)
      BY <2>1, <1>0 DEF Least, Ordered
    <3>2. ASSUME NEW j \in Locks, lock'[j] = r
          PROVE  j # NumberLock /\ \A l \in q.todo : Before(j, l)
      <4>1. CASE j = k
        BY <3>1, <4>1
      <4>2. CASE j # k
        <5>1. lock[j] = r /\ request[r].pc = "lock"
          BY <3>2, <4>2, <2>1, <1>0, <1>5 DEF Acquire
        <5> QED BY <5>1, <2>1, <1>0 DEF Ordered
      <4> QED BY <4>1, <4>2
    <3> QED BY <2>1, <2>2, <2>3, <3>1, <3>2 DEF Ordered
  <2> QED BY <2>1, <2>2, <2>3, <1>1, <1>2
<1>6. ASSUME NEW r \in Requests, Passes(r), NEW s \in Requests
      PROVE  Ordered(s)'
  <2>1. PICK q : /\ GoesOn(r, q) /\ Become(r, q) /\ q.todo = request[r].todo
                 /\ q.pc \in {"number", "write"}
    BY <1>0, <1>6, PassesGoOn
  <2>2. request'[r] = q /\ \A x \in Requests \ {r} : request'[x] = request[x]
    BY <2>1, <1>0, BecomeType DEF GoesOn
  <2>3. lock' = lock /\ request[r].pc = "check"
    BY <1>0, <1>6, PassesGoOn
  <2>4. CASE s = r
    <3>1. q.todo = {}
      BY <2>1, <2>3, <1>0 DEF Locked, LockOK
    <3>2. \A k \in Locks : lock'[k] = r => k # NumberLock
      BY <2>3, <1>0 DEF Ordered
    <3> QED BY <2>1, <2>2, <2>4, <3>1, <3>2 DEF Ordered
  <2> QED BY <2>2, <2>3, <2>4, <1>1
<1>7. ASSUME NEW r \in Requests, Number(r), NEW s \in Requests
      PROVE  Ordered(s)'
  <2>1. PICK q : GoesOn(r, q) /\ Become(r, q) /\ q.todo = request[r].todo /\ q.pc = "write"
    BY <1>0, <1>7, NumberGoesOn
  <2>2. request'[r] = q /\ \A x \in Requests \ {r} : request'[x] = request[x]
    BY <2>1, <1>0, BecomeType DEF GoesOn
  <2>3. /\ request[r].pc = "number"
        /\ \E k \in Locks : lock' = [lock EXCEPT ![k] = r]
    BY <1>0, <1>7, NumberGoesOn
  <2>4. CASE s = r
    <3>1. q.todo = {}
      BY <2>1, <2>3, <1>0 DEF Locked, LockOK
    <3> QED BY <2>1, <2>2, <2>4, <3>1 DEF Ordered
  <2> QED BY <2>2, <2>3, <2>4, <1>1, <1>2
<1>8. ASSUME NEW r \in Requests,
             Abort(r) \/ Inserts(r) \/ PublishWrite(r)
      PROVE  Finish(r)
  BY <1>8 DEF Abort, Inserts, CreateWrite, ApplyWrite, Insert, PublishWrite
<1>9. ASSUME ByOthers \/ UNCHANGED vars, NEW s \in Requests
      PROVE  Ordered(s)'
  <2>1. request' = request /\ lock' = lock
    BY <1>0, <1>9, OthersType DEF ByOthers, vars
  <2> QED BY <2>1, <1>1
<1> QED BY <1>3, <1>4, <1>5, <1>6, <1>7, <1>8, <1>9, Steps DEF Quiet

(* A step puts at most one more request to work.                            *)
LEMMA AtWorkStep ==
  ASSUME OrderInv, [Next]_vars
  PROVE  IsFiniteSet(AtWork)'
<1>0. TypeOK /\ AllSound /\ IsFiniteSet(AtWork)
  BY DEF OrderInv
<1>1. ASSUME NEW r \in Requests, NEW q, Become(r, q)
      PROVE  AtWork' \subseteq AtWork \cup {r}
  <2>1. \A x \in Requests \ {r} : request'[x] = request[x]
    BY <1>0, <1>1 DEF TypeOK, Become
  <2> QED BY <2>1 DEF AtWork
<1>2. ASSUME NEW r \in Requests,
             Quiet(r) \/ Inserts(r) \/ PublishWrite(r)
      PROVE  \E q : Become(r, q)
  <2>1. Reads(r) \/ Acquire(r) \/ Passes(r) \/ Number(r) => \E q : Become(r, q)
    BY <1>0, ReadsBegin, AcquireGoesOn, PassesGoOn, NumberGoesOn
  <2>2. Finish(r) => \E q : Become(r, q)
    BY DEF Finish
  <2>3. Abort(r) \/ Inserts(r) \/ PublishWrite(r) => Finish(r)
    BY DEF Abort, Inserts, CreateWrite, ApplyWrite, Insert, PublishWrite
  <2> QED BY <2>1, <2>2, <2>3, <1>2 DEF Quiet
<1>3. ASSUME ByOthers \/ UNCHANGED vars
      PROVE  AtWork' = AtWork
  <2>1. request' = request
    BY <1>0, <1>3, OthersType DEF ByOthers, vars
  <2> QED BY <2>1 DEF AtWork
<1>4. \E r : AtWork' \subseteq AtWork \cup {r}
  BY <1>1, <1>2, <1>3, Steps
<1> QED BY <1>0, <1>4, FS_AddElement, FS_Subset

LEMMA LeastNumber ==
  ASSUME NEW A \in SUBSET Nat, A # {}
  PROVE  \E a \in A : \A b \in A : a <= b
<1> DEFINE R == {ss \in Nat \X Nat : ss[1] < ss[2]}
<1>1. IsWellFoundedOn(R, Nat)
  BY NatLessThanWellFounded DEF OpToRel
<1>2. ASSUME NEW W, IsWellFoundedOn(W, Nat)
      PROVE  \E a \in A : \A b \in A : ~ (<<b, a>> \in W)
  BY <1>2, WFMin
<1>3. PICK a \in A : \A b \in A : ~ (<<b, a>> \in R)
  BY <1>1, <1>2
<1>4. ASSUME NEW i \in Nat, NEW j \in Nat, ~ (<<i, j>> \in R)
      PROVE  j <= i
  BY <1>4
<1> HIDE DEF R
<1> QED BY <1>3, <1>4

(* Every set of locks has a first one.                                      *)
LEMMA LeastExists ==
  ASSUME NEW K \in SUBSET Locks, K # {}
  PROVE  Least(K) # {}
<1>1. \A k \in K : k[1] \in Nat /\ k[2] \in Nat /\ k = <<k[1], k[2]>>
  BY LockNumbers
<1> DEFINE A == {k[1] : k \in K}
<1>2. PICK a \in A : \A b \in A : a <= b
  <2>1. A \subseteq Nat /\ A # {}
    BY <1>1
  <2> QED BY <2>1, LeastNumber
<1> DEFINE B == {k[2] : k \in {l \in K : l[1] = a}}
<1>3. PICK c \in B : \A b \in B : c <= b
  <2>1. B \subseteq Nat /\ B # {}
    BY <1>1, <1>2
  <2> QED BY <2>1, LeastNumber
<1>4. PICK k \in K : k[1] = a /\ k[2] = c
  BY <1>3
<1>5. ASSUME NEW l \in K, l # k
      PROVE  Before(k, l)
  <2>1. l[1] \in A /\ (l[1] = a => l[2] \in B)
    OBVIOUS
  <2>2. a <= l[1] /\ (l[1] = a => c <= l[2])
    BY <2>1, <1>2, <1>3
  <2>3. l[1] # a \/ l[2] # c
    BY <1>1, <1>4, <1>5
  <2> HIDE DEF A, B
  <2>4. l[1] \in Nat /\ l[2] \in Nat /\ a \in Nat /\ c \in Nat
    BY <1>1, <1>4
  <2> QED BY <1>4, <2>2, <2>3, <2>4 DEF Before
<1> QED BY <1>4, <1>5 DEF Least

(* Those who wait in a circle would have a last one: the one whose lock     *)
(* comes last waits for a request that waits for a later one.               *)
LEMMA NoCircle ==
  ASSUME OrderInv, NEW S \in SUBSET Requests, S # {}
  PROVE  \E r \in S : ~ WaitsIn(r, S)
<1>0. /\ TypeOK /\ Locked /\ \A r \in Requests : Ordered(r)
      /\ IsFiniteSet(AtWork)
  BY DEF OrderInv
<1> SUFFICES ASSUME \A r \in S : WaitsIn(r, S)
             PROVE  FALSE
  OBVIOUS
<1>1. NumberLock \in Locks
  BY DEF Locks
<1>2. \A r \in S : request[r].pc = "lock"
  <2>1. ASSUME NEW r \in S, request[r].pc = "number"
        PROVE  FALSE
    <3>1. PICK s \in S : lock[NumberLock] = s
      BY <2>1 DEF WaitsIn
    <3>2. request[s].pc = "write"
      BY <3>1, <1>0, <1>1 DEF Ordered
    <3> QED BY <3>1, <3>2 DEF WaitsIn
  <2> QED BY <2>1 DEF WaitsIn
<1>3. \A r \in S : \E k \in Locks : k \in request[r].todo /\ lock[k] \in S
  <2> TAKE r \in S
  <2>1. request[r].todo \in SUBSET Locks /\ request[r].todo # {}
    BY <1>0, <1>2 DEF TypeOK, Request, Ordered
  <2>2. PICK k : k \in Least(request[r].todo)
    BY <2>1, LeastExists
  <2>3. k \in request[r].todo
    BY <2>2 DEF Least
  <2>4. lock[k] \in S
    BY <2>2, <1>2 DEF WaitsIn
  <2> QED BY <2>1, <2>3, <2>4
<1> DEFINE w == [r \in S |-> CHOOSE k \in Locks : k \in request[r].todo /\ lock[k] \in S]
<1>4. \A r \in S : w[r] \in Locks /\ w[r] \in request[r].todo /\ lock[w[r]] \in S
  BY <1>3
<1> HIDE DEF w
<1>5. \A r \in S : Before(w[r], w[lock[w[r]]])
  <2> TAKE r \in S
  <2> DEFINE s == lock[w[r]]
  <2>1. s \in S /\ w[r] \in Locks /\ w[s] \in request[s].todo
    BY <1>4
  <2> QED BY <2>1, <1>0 DEF Ordered
<1>6. IsFiniteSet(S)
  <2>1. S \subseteq AtWork
    BY <1>2 DEF AtWork
  <2> QED BY <2>1, <1>0, FS_Subset
<1> DEFINE After(r) == {x \in S : Before(w[r], w[x])}
           N == {Cardinality(After(r)) : r \in S}
<1>7. \A r \in S : IsFiniteSet(After(r)) /\ Cardinality(After(r)) \in Nat
  <2> TAKE r \in S
  <2>1. After(r) \subseteq S
    OBVIOUS
  <2> QED BY <2>1, <1>6, FS_Subset, FS_CardinalityType
<1>8. PICK r \in S : \A s \in S : Cardinality(After(r)) <= Cardinality(After(s))
  <2>1. N \in SUBSET Nat /\ N # {}
    BY <1>7
  <2>2. PICK n \in N : \A m \in N : n <= m
    BY <2>1, LeastNumber
  <2> QED BY <2>2
<1>9. PICK s \in S : s = lock[w[r]]
  BY <1>4
<1>10. After(s) \subseteq After(r) /\ s \in After(r) \ After(s)
  <2>1. w[r] \in Locks /\ w[s] \in Locks /\ Before(w[r], w[s])
    BY <1>4, <1>5, <1>9
  <2>2. \A x \in S : Before(w[s], w[x]) => Before(w[r], w[x])
    BY <2>1, <1>4, BeforeTransitive
  <2>3. ~ Before(w[s], w[s])
    <3>1. Before(w[s], w[lock[w[s]]]) /\ w[lock[w[s]]] \in Locks
      BY <1>4, <1>5
    <3> QED BY <3>1, <2>1, BeforeTransitive
  <2> QED BY <2>1, <2>2, <2>3
<1>11. Cardinality(After(s)) < Cardinality(After(r))
  <2> HIDE DEF After
  <2>1. After(s) \subseteq After(r) /\ After(s) # After(r)
    BY <1>10
  <2> QED BY <2>1, <1>7, FS_Subset
<1> HIDE DEF After
<1> QED BY <1>7, <1>8, <1>9, <1>11

(* Whatever set of requests is looked at, one of them does not wait for a   *)
(* lock that another of them has: the advisory locks cannot deadlock.       *)
THEOREM NoCircularWait == Spec => []SomeoneProceeds
<1>1. Init => OrderInv
  BY OrderedInit
<1>2. OrderInv /\ [Next]_vars => OrderInv'
  <2> SUFFICES ASSUME OrderInv, [Next]_vars
               PROVE  OrderInv'
    OBVIOUS
  <2>1. TypeOK' /\ AllSound'
    BY TypeStep DEF OrderInv
  <2>2. Locked'
    BY LockedStep DEF OrderInv
  <2> QED BY <2>1, <2>2, OrderedStep, AtWorkStep DEF OrderInv
<1>3. OrderInv => SomeoneProceeds
  BY NoCircle DEF SomeoneProceeds
<1> QED BY <1>1, <1>2, <1>3, PTL DEF Spec
=============================================================================

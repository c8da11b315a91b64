-------------------------- MODULE RouteEvaluation --------------------------
(***************************************************************************)
(* The verdict on one route of one vehicle, and the audit of a whole plan: *)
(* route_evaluator.py, cost_evaluator.py and solution_validator.py of the  *)
(* optimizer's hybrid search.  A route is a sequence of stops; serving it  *)
(* is a fold over the stops that carries the clock, the place, and what is *)
(* on board.  Where a box stands on the floor is not modelled: whether the *)
(* floor can be packed along a route is the constant FastFits for the      *)
(* quick check of the search and Placeable for the final validator.        *)
(***************************************************************************)
EXTENDS Integers, FiniteSets, Sequences, SequencesExt, FiniteSetsExt

CONSTANTS
    Orders, Vehicles,
    Weight, Service,        \* per order: load and time spent at a stop
    Window,                 \* per order and kind of stop: [from, to]
    Spot,                   \* per order and kind of stop: its place
    Permitted,              \* per order: vehicles it may ride, {} = any
    Depot, Payload, Shift,  \* per vehicle: home, load limit, [from, to]
    Fixed,                  \* per vehicle: cost of using it at all
    SameDay,                \* vehicles whose driver works on their day
    Duration,               \* between two places; also the distance priced
    FastFits(_, _),         \* FastPackingChecker on a vehicle and a route
    Placeable(_, _),        \* SpatialValidator on a vehicle and a route
    Penalty                 \* unassigned_order_penalty_vnd

ASSUME FiniteAssumption == IsFiniteSet(Orders) /\ IsFiniteSet(Vehicles)

Stop == [kind : {"PICKUP", "DELIVERY"}, order : Orders]

OrdersOn(route) == {route[i].order : i \in DOMAIN route}

Later(a, b) == IF a > b THEN a ELSE b

Load(aboard) == MapThenSumSet(LAMBDA o : Weight[o], aboard)

(* The clock when the vehicle leaves its depot: just in time for the first *)
(* window, never before the shift.                                         *)
Departure(v, stop) ==
    [ok     |-> TRUE,
     time   |-> Later(Shift[v].from, Window[stop.order][stop.kind].from
                          - Duration[Depot[v]][Spot[stop.order][stop.kind]]),
     at     |-> Depot[v],
     aboard |-> {},
     picked |-> {}]

(* One stop of schedule_and_evaluate_route: every early return of the loop *)
(* makes the route not ok.                                                 *)
Serve(v, s, stop) ==
    LET o      == stop.order
        here   == Spot[o][stop.kind]
        window == Window[o][stop.kind]
        arrive == Later(s.time + Duration[s.at][here], window.from)
        aboard == IF stop.kind = "PICKUP" THEN s.aboard \union {o} ELSE s.aboard \ {o}
    IN  [ok     |-> /\ s.ok
                    /\ Permitted[o] = {} \/ v \in Permitted[o]
                    /\ (stop.kind = "PICKUP") = (o \notin s.picked)
                    /\ stop.kind = "DELIVERY" => o \in s.aboard
                    /\ arrive =< window.to
                    /\ Load(aboard) =< Payload[v]
                    /\ arrive + Service[o] =< Shift[v].to,
         time   |-> arrive + Service[o],
         at     |-> here,
         aboard |-> aboard,
         picked |-> s.picked \union {o}]

Schedule(v, route) ==
    LET After[i \in 0 .. Len(route)] ==
            IF i = 0 THEN Departure(v, Head(route)) ELSE Serve(v, After[i - 1], route[i])
    IN  After[Len(route)]

(* schedule_and_evaluate_route with use_fast_packing=False.                *)
OnTime(v, route) ==
    \/ route = << >>
    \/ /\ v \in SameDay
       /\ LET end == Schedule(v, route)
          IN  /\ end.ok
              /\ end.aboard = {}
              /\ end.time + Duration[end.at][Depot[v]] =< Shift[v].to

(* No route has more than two stops per order.                             *)
Routes == UNION {[1 .. n -> Stop] : n \in 0 .. 2 * Cardinality(Orders)}

(* The routes that are on time, for each vehicle ...                       *)
TimelyRoutes == [v \in Vehicles |-> {route \in Routes : OnTime(v, route)}]

(* ... and those the quick packing check lets pass, as the search asks.    *)
FeasibleRoutes ==
    [v \in Vehicles |-> {route \in TimelyRoutes[v] : route = << >> \/ FastFits(v, route)}]

(* calculate_route_cost, reduced to the vehicle's fixed cost and the way.  *)
RoutePrice(v, route) ==
    LET Place(i) == IF i \in DOMAIN route THEN Spot[route[i].order][route[i].kind] ELSE Depot[v]
        Way[i \in 0 .. Len(route) + 1] ==
            IF i = 0 THEN 0 ELSE Way[i - 1] + Duration[Place(i - 1)][Place(i)]
    IN  IF route = << >> THEN 0 ELSE Fixed[v] + Way[Len(route) + 1]

Active(routes) == {v \in Vehicles : routes[v] # << >>}

(* real_economic_cost_vnd of the routes of a plan.                         *)
EconomicCost(routes) == MapThenSumSet(LAMBDA v : RoutePrice(v, routes[v]), Active(routes))

StopsOf(routes, o, kind) ==
    UNION {{v} \X {i \in DOMAIN routes[v] : routes[v][i] = [kind |-> kind, order |-> o]} :
              v \in Active(routes)}

(* The orders audit_solution counts as served.                             *)
Served(routes) ==
    {o \in Orders : \A kind \in {"PICKUP", "DELIVERY"} :
                        Cardinality(StopsOf(routes, o, kind)) = 1}

(* is_contract_valid: every order has both its stops on one vehicle or has *)
(* none, and the orders declared unassigned are those not served.          *)
ContractValid(routes, unassigned) ==
    /\ \A o \in Orders :
        LET picked    == StopsOf(routes, o, "PICKUP")
            delivered == StopsOf(routes, o, "DELIVERY")
        IN  /\ Cardinality(picked) =< 1 /\ Cardinality(delivered) =< 1
            /\ (picked = {}) = (delivered = {})
            /\ \A p \in picked, d \in delivered : p[1] = d[1]
    /\ unassigned = Orders \ Served(routes)

Solution(routes, unassigned) == [routes |-> routes, unassigned |-> unassigned]

(* A plan as returned: its validity flags taken together, and whether an   *)
(* audit set them (solution_audited).                                      *)
Verdict(p, valid, audited) ==
    [routes |-> p.routes, unassigned |-> p.unassigned, valid |-> valid, audited |-> audited]

(* A route that carries its orders one at a time, as _repair_spatial_routes*)
(* rebuilds a route whose floor could not be packed.                       *)
OneAfterAnother(seq) ==
    [k \in 1 .. 2 * Len(seq) |-> [kind  |-> IF k % 2 = 1 THEN "PICKUP" ELSE "DELIVERY",
                                  order |-> seq[(k + 1) \div 2]]]

OneByOne(orders) == {OneAfterAnother(seq) : seq \in SetToSeqs(orders)}

(* is_temporally_valid: every route, evaluated anew for its own vehicle.   *)
SomeOnTime(routes) == \A v \in Vehicles : \E w \in Vehicles : OnTime(w, routes[v])

TemporallyValid(routes) == \A v \in Vehicles : OnTime(v, routes[v])

(* repair_and_audit_solution: what the audit can return for a plan.  When  *)
(* only the floor is at fault, the routes for which no layout was found in *)
(* time are rebuilt one order at a time where that succeeds in time, and   *)
(* all are checked once more.  Time may run out on any route, good or not: *)
(* each may be kept or rebuilt, and a plan that could pass may fail.       *)
Audits(routes, unassigned) ==
    LET sound   == ContractValid(routes, unassigned) /\ TemporallyValid(routes)
        Rebuilt == [v \in Active(routes) |-> {r \in OneByOne(OrdersOn(routes[v])) :
                                                 OnTime(v, r) /\ Placeable(v, r)}]
        Repairs == {f \in [Vehicles -> UNION Range(Rebuilt) \union Range(routes)] :
                        \A v \in Vehicles :
                            \/ f[v] = routes[v]
                            \/ v \in Active(routes) /\ f[v] \in Rebuilt[v]}
        Passes(f) == \A v \in Active(f) : Placeable(v, f[v])
    IN  IF ~sound THEN {Verdict(Solution(routes, unassigned), FALSE, TRUE)}
        ELSE {Verdict(Solution(f, unassigned), FALSE, TRUE) : f \in Repairs}
                 \union {Verdict(Solution(f, unassigned), TRUE, TRUE) :
                             f \in {g \in Repairs : Passes(g)}}
=============================================================================

----------------------------- MODULE RouteSearch -----------------------------
(***************************************************************************)
(* FleetRoutingSolver.solve_with_objective, one search for routes by       *)
(* OR-Tools.  OR-Tools knows weight, floor area and time but not how boxes *)
(* go into a truck, so that its routes are drafts: each is validated and   *)
(* may lose an allocation or be refused; what is left over is put on other *)
(* trucks; orders of which only some parts found a place are taken out     *)
(* again; and a complete plan is merged into fewer, cheaper routes.        *)
(*                                                                         *)
(* OR-Tools returns any solution of its model.  Every later part has a     *)
(* deadline, and the search for a layout a budget of its own: where a      *)
(* route can be served, the code may still fail to see it in time.         *)
(***************************************************************************)
EXTENDS FleetRequest

CONSTANTS
    Routable(_, _),  \* may a slot take a load, by the model given to OR-Tools?
    Runnable(_, _)   \* is there an order of stops that is in time and can be laid out?

VARIABLES
    allocations,  \* request.orders
    slots,        \* request.vehicles
    safe,         \* driver_safe_vehicle_indices
    phase,        \* what runs next
    drafts,       \* the drafts not validated yet
    routes,
    assigned,     \* assigned_order_ids
    queue,        \* what _recover_unassigned_orders has still to look at
    limited,      \* recovery_limit_reached
    rolledBack,   \* has a route been lost when a split order was taken out?
    runs          \* evaluated_runs, the plans in the order in which they came

requestVars == <<people, allocations, slots, safe>>
searchVars == <<drafts, routes, assigned, queue, limited, rolledBack>>

Route(s, load) == [slot |-> s, load |-> load]

Loaded(rs) == UNION {r.load : r \in rs}

(* May a truck carry these allocations, one by one?                        *)
Admits(s, load) == \A a \in load : Allows(a, s) /\ Holds(s.truck, a.items)

(* The validator checks weight, floor and height of all that is on board.  *)
Servable(s, load) == Runnable(s, load) /\ \A a \in load : Holds(s.truck, a.items)

Group(a) == {b \in allocations : b.order = a.order}

(* A plan as the service returns it.  "reported" are the orders among its  *)
(* unassigned ones and "count" how many entries that list has; "compared"  *)
(* says whether the plan has benchmarks.                                   *)
Plan(by, status, rs, reported, count, lost, compared, drivers) ==
    [by |-> by, status |-> status, routes |-> rs, reported |-> reported, count |-> count,
     lost |-> lost, compared |-> compared, drivers |-> drivers]

NoDrivers == [r \in {} |-> {}]

Idle ==
    /\ drafts = {} /\ routes = {} /\ assigned = {} /\ queue = {}
    /\ limited = FALSE /\ rolledBack = FALSE

(* The search ends, and what it knew is gone.                              *)
Finish(plans) ==
    /\ phase' = "next"
    /\ runs' = runs \o plans
    /\ drafts' = {} /\ routes' = {} /\ assigned' = {} /\ queue' = {}
    /\ limited' = FALSE /\ rolledBack' = FALSE

-----------------------------------------------------------------------------
NoDriver ==
    /\ phase = "start" /\ safe = {}
    /\ LET orders == OrdersOf(allocations)
       IN  Finish(<<Plan("OR-Tools", "INFEASIBLE", {}, orders, Cardinality(orders), FALSE,
                         FALSE, NoDrivers)>>)
    /\ UNCHANGED requestVars

(* OR-Tools finds no solution, in time or at all.                          *)
SearchFails ==
    /\ phase = "start" /\ safe # {}
    /\ \E status \in {"INFEASIBLE", "TIMEOUT"} :
          Finish(<<Plan("OR-Tools", status, {}, {}, 0, FALSE, FALSE, NoDrivers)>>)
    /\ UNCHANGED requestVars

(* The solutions of the model: an allocation goes to one safe slot that    *)
(* it allows or is left out, and the parts of an order go together.        *)
Solutions ==
    {at \in [allocations -> {{}} \union {{s} : s \in safe}] :
        /\ \A a \in allocations : \A s \in at[a] : Allows(a, s)
        /\ \A a \in allocations : \A b \in Group(a) : at[a] = {} <=> at[b] = {}}

DraftsOf(at) ==
    {Route(s, {a \in allocations : at[a] = {s}}) : s \in UNION Range(at)}

Search ==
    /\ phase = "start"
    /\ \E at \in Solutions :
          /\ \A d \in DraftsOf(at) : Routable(d.slot, d.load)
          /\ drafts' = DraftsOf(at)
    /\ phase' = "validate"
    /\ UNCHANGED <<requestVars, routes, assigned, queue, limited, rolledBack, runs>>

(* A draft becomes a route with the given part of its load.                *)
Accept(d, load) ==
    /\ phase = "validate" /\ d \in drafts
    /\ Servable(d.slot, load)
    /\ drafts' = drafts \ {d}
    /\ routes' = routes \union {Route(d.slot, load)}
    /\ assigned' = assigned \union load
    /\ UNCHANGED <<requestVars, phase, queue, limited, rolledBack, runs>>

(* The draft stands, with another order of its stops if need be.           *)
Keep(d) == Accept(d, d.load)

(* Without one of its allocations the draft can be loaded.                 *)
Shorten(d) ==
    /\ Cardinality(d.load) > 1
    /\ \E a \in d.load : Accept(d, d.load \ {a})

Reject(d) ==
    /\ phase = "validate" /\ d \in drafts
    /\ drafts' = drafts \ {d}
    /\ UNCHANGED <<requestVars, phase, routes, assigned, queue, limited, rolledBack, runs>>

(* All drafts have been looked at, or the time is up: then nothing is      *)
(* recovered either.                                                       *)
EndValidation ==
    /\ phase = "validate"
    /\ phase' = "recover"
    /\ drafts' = {}
    /\ queue' = IF drafts = {} THEN allocations \ assigned ELSE {}
    /\ limited' = (drafts # {})
    /\ UNCHANGED <<requestVars, routes, assigned, rolledBack, runs>>

(* An allocation left over goes to a safe slot, one with a route or one    *)
(* without: to the cheapest of those looked at in time, so here to any.    *)
Place(a, s) ==
    LET here == {r \in routes : r.slot = s}
        load == Loaded(here) \union {a}
    IN  /\ Admits(s, {a})
        /\ Servable(s, load)
        /\ routes' = (routes \ here) \union {Route(s, load)}
        /\ assigned' = assigned \union {a}

Recover(a) ==
    /\ phase = "recover" /\ a \in queue
    /\ \/ \E s \in safe : Place(a, s)
       \/ UNCHANGED <<routes, assigned>>
    /\ \/ queue' = queue \ {a} /\ UNCHANGED limited
       \/ queue' = {} /\ limited' = TRUE
    /\ UNCHANGED <<requestVars, phase, drafts, rolledBack, runs>>

(* _drop_incomplete_split_groups: if an order has a part assigned and one  *)
(* left out, all its parts are taken out of the routes and every route is  *)
(* evaluated again; one that fails is lost with the rest of its load.      *)
Incomplete ==
    {a \in allocations : Group(a) \intersect assigned # {} /\ ~(Group(a) \subseteq assigned)}

Remaining(r) == Route(r.slot, r.load \ Incomplete)

LostAssigned(lost) == assigned \ Incomplete  \* mutant: loads of lost routes stay assigned
StillAssigned(lost) == (assigned \ Loaded(lost)) \ Incomplete

DropIncompleteSplits ==
    /\ phase = "recover" /\ queue = {}
    /\ IF Incomplete = {} THEN UNCHANGED <<routes, assigned, rolledBack>>
       ELSE LET left == {Remaining(r) : r \in {q \in routes : Remaining(q).load # {}}}
            IN  \E lost \in SUBSET left :
                   /\ \A r \in left \ lost : Servable(r.slot, r.load)
                   /\ routes' = left \ lost
                   /\ assigned' = StillAssigned(lost)
                   /\ rolledBack' = (lost # {})
    /\ phase' = IF routes' # {} /\ assigned' = allocations THEN "consolidate" ELSE "report"
    /\ UNCHANGED <<requestVars, drafts, queue, limited, runs>>

(* The slots a merged route may have: those of the two routes, or one of   *)
(* that day whose truck no other route uses.                               *)
Targets(r, q) ==
    {r.slot, q.slot} \union
        {s \in Range(slots) :
            s.day = r.slot.day /\ \A other \in routes \ {r, q} : other.slot # s}

(* A plan without a driver for each route costs more than any other.       *)
CheaperRoutes(after) == OperatingCost(after) < OperatingCost(routes)  \* mutant: no drivers
Cheaper(after) == Staffable(after) /\ OperatingCost(after) < OperatingCost(routes)

(* Two routes of a day become one, if all is then cheaper: the pair that   *)
(* saves most of those looked at in time, so here any.                     *)
Consolidate(r, q) ==
    /\ phase = "consolidate" /\ r \in routes /\ q \in routes
    /\ r # q /\ r.slot.day = q.slot.day
    /\ \E s \in Targets(r, q) :
          LET merged == Route(s, r.load \union q.load)
              after == (routes \ {r, q}) \union {merged}
          IN  /\ Admits(s, merged.load) /\ Servable(s, merged.load)
              /\ Cheaper(after)
              /\ routes' = after
    /\ UNCHANGED <<requestVars, phase, drafts, assigned, queue, limited, rolledBack, runs>>

EndConsolidation ==
    /\ phase = "consolidate" /\ phase' = "report"
    /\ UNCHANGED <<requestVars, searchVars, runs>>

Status(reported) ==
    IF routes = {} THEN IF limited THEN "TIMEOUT" ELSE "INFEASIBLE"
    ELSE IF reported = {} THEN "SUCCESS" ELSE "PARTIAL"

(* _assign_drivers_and_costs gives every route a driver, or raises.  An    *)
(* order is reported once, however many of its parts are left out.  If the *)
(* comparison raises, the plan goes without benchmarks.                    *)
Report ==
    /\ phase = "report" /\ Staffable(routes)
    /\ \E compared \in BOOLEAN :
          LET reported == OrdersOf(allocations \ assigned)
          IN  Finish(<<Plan("OR-Tools", Status(reported), routes, reported, Cardinality(reported),
                            rolledBack, compared, Staffing(routes))>>)
    /\ UNCHANGED requestVars

(* An exception anywhere, or a worker process that dies.                   *)
WorkerFails ==
    /\ phase \in {"start", "validate", "recover", "consolidate", "report"}
    /\ Finish(<< >>)
    /\ UNCHANGED requestVars

SearchStep ==
    \/ NoDriver \/ SearchFails \/ Search
    \/ \E d \in drafts : Keep(d) \/ Shorten(d) \/ Reject(d)
    \/ EndValidation
    \/ \E a \in queue : Recover(a)
    \/ DropIncompleteSplits
    \/ \E r, q \in routes : Consolidate(r, q)
    \/ EndConsolidation \/ Report \/ WorkerFails
=============================================================================

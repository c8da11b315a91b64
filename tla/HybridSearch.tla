---------------------------- MODULE HybridSearch ----------------------------
(***************************************************************************)
(* HybridALNSSolver.solve: the search that turns an initial plan into the  *)
(* plan the optimizer proposes.  A plan gives every vehicle a route and    *)
(* lists the orders left unassigned.  The search warms up, consolidates    *)
(* routes, runs the ruin-and-recreate loop, refines, and audits the plans  *)
(* it has kept (the elite) before it returns one.                          *)
(*                                                                         *)
(* The random choices, the choice of the cheapest move among those looked  *)
(* at, and the clock (a deadline may cut every loop short) make the choice *)
(* of a move nondeterministic: any feasible move may be the one taken.     *)
(* What the code decides by comparing costs is a guard here.               *)
(***************************************************************************)
EXTENDS RouteEvaluation

CONSTANTS
    Profile,         \* per vehicle: what _resource_profile keys the cache by
    Guidance,        \* _vehicle_guidance_vnd at the start
    MaxRemove,       \* orders a destroy operator removes at most
    Patience,        \* iterations without a better plan, 20 in the code
    MaxIterations,   \* bound on the loop, the caller's max_iterations
    AuditSlots,      \* plans audited at most, 6 in the code
    MaxPerCount      \* of them with the same number of routes, 4 in the code

VARIABLES
    pc,          \* the part of solve that runs next
    judge,       \* per vehicle: the vehicle whose verdicts the cache holds
    start,       \* the initial plan, with the verdict it came with
    current,     \* current_routes, current_unassigned, current_cost
    best,        \* best_routes and best_unassigned; best_cost is their cost
    fallback,    \* fallback_compact_routes and _unassigned
    elite,       \* elite_candidates
    guided,      \* is _vehicle_guidance_vnd still in force?
    work,        \* the candidate _repair is building
    iteration, stale, result

hybridVars == <<pc, judge, start, current, best, fallback, elite, guided, work,
                iteration, stale, result>>

AsPlan(p) == Solution(p.routes, p.unassigned)

NoRoutes == [v \in Vehicles |-> << >>]

NoPlan == Solution(NoRoutes, Orders)

NoWork == [routes |-> NoRoutes, pending |-> {}, unassigned |-> {}]

(* _evaluate_route: a verdict is cached under the profile of the vehicle,  *)
(* so the vehicle of that profile that was judged first speaks for all.    *)
Accepts(v, route) == route \in FeasibleRoutes[judge[v]]

RouteCost(v, route) ==
    IF route = << >> THEN 0
    ELSE IF Accepts(v, route) THEN RoutePrice(v, route)
    ELSE Penalty * Cardinality(Orders)

(* _plan_cost, the surrogate the search minimises.                         *)
PlanCost(p, guide) ==
    LET active == Active(p.routes)
    IN  MapThenSumSet(LAMBDA v : RouteCost(v, p.routes[v]), active)
            + 3 * Penalty * Cardinality(p.unassigned)
            + (IF guide THEN Guidance * Cardinality(active) ELSE 0)

SearchCost(p) == PlanCost(p, guided)

Costed(p, cost) == [routes |-> p.routes, unassigned |-> p.unassigned, cost |-> cost]

Complete(p) == p.unassigned = {}

Assigned(routes) == UNION {OrdersOn(routes[v]) : v \in Vehicles}

Without(routes, orders) ==
    [v \in Vehicles |-> SelectSeq(routes[v], LAMBDA s : s.order \notin orders)]

(* A pickup put at position i and its delivery at position j of a route.   *)
InsertPair(route, o, i, j) ==
    SubSeq(route, 1, i) \o << [kind |-> "PICKUP", order |-> o] >>
        \o SubSeq(route, i + 1, j - 1) \o << [kind |-> "DELIVERY", order |-> o] >>
        \o SubSeq(route, j, Len(route))

(* _insertions_on_vehicles: every insertion the evaluator accepts.         *)
Insertions(routes, o, vehicles) ==
    LET Tried(v)    == UNION {{InsertPair(routes[v], o, i, j) : j \in i + 1 .. Len(routes[v]) + 1} :
                                 i \in 0 .. Len(routes[v])}
        Accepted(v) == {r \in Tried(v) : Accepts(v, r)}
    IN  UNION {{[routes EXCEPT ![v] = r] : r \in Accepted(v)} : v \in vehicles}

(* All of a set of orders put, one after another, on the given vehicles.   *)
Absorbed(routes, orders, vehicles) ==
    LET From[os \in SUBSET orders] ==
            IF os = {} THEN {routes}
            ELSE UNION {UNION {Insertions(r, o, vehicles) : r \in From[os \ {o}]} : o \in os}
    IN  From[orders]

(* _try_eliminate_route for every victim: its orders move to other routes  *)
(* in use, or nothing changes.                                             *)
Eliminations(routes) ==
    UNION {Absorbed([routes EXCEPT ![v] = << >>], OrdersOn(routes[v]), Active(routes) \ {v}) :
              v \in Active(routes)}

(* _eliminate_routes: any number of eliminations, as the deadline allows.  *)
Eliminated(routes) ==
    LET After[n \in 0 .. Cardinality(Vehicles)] ==
            IF n = 0 THEN {routes}
            ELSE After[n - 1] \union UNION {Eliminations(r) : r \in After[n - 1]}
    IN  After[Cardinality(Vehicles)]

(* _best_relocation: one order elsewhere, for a lower cost.                *)
Relocations(p) ==
    {q \in {Solution(r, p.unassigned) :
               r \in UNION {Insertions(Without(p.routes, {o}), o, Vehicles) :
                               o \in Assigned(p.routes)}} :
        SearchCost(q) < SearchCost(p)}

(* _best_route_split: one order of a route of several on an unused vehicle.*)
Splits(p) ==
    LET routes  == p.routes
        Shared  == {o \in Assigned(routes) :
                       \E v \in Vehicles : o \in OrdersOn(routes[v])
                                           /\ Cardinality(OrdersOn(routes[v])) > 1}
        Idle(o) == Vehicles \ Active(Without(routes, {o}))
    IN  {Solution(r, p.unassigned) :
            r \in UNION {Insertions(Without(routes, {o}), o, Idle(o)) : o \in Shared}}

(* _best_order_exchange: two orders of two routes change vehicles; each is *)
(* inserted in the plan without both, and the two routes are put together. *)
Exchanges(p) ==
    LET routes == p.routes
        Swap(v, w, x, y) ==
            LET reduced == Without(routes, {x, y})
            IN  {[reduced EXCEPT ![w] = a[w], ![v] = b[v]] :
                    a \in Insertions(reduced, x, {w}), b \in Insertions(reduced, y, {v})}
    IN  {Solution(r, p.unassigned) :
            r \in UNION {UNION {Swap(c[1], c[2], x, y) :
                                   x \in OrdersOn(routes[c[1]]), y \in OrdersOn(routes[c[2]])} :
                            c \in {d \in Active(routes) \X Active(routes) : d[1] # d[2]}}}

(* A plan constructed from nothing by insertions, with no order left.      *)
Constructions == {Solution(r, {}) : r \in Absorbed(NoRoutes, Orders, Vehicles)}

(* What the destroy operators can take out of a plan: some orders wherever *)
(* they are, or one or two whole routes.                                   *)
Ruins(routes) ==
    LET Some    == {os \in SUBSET Assigned(routes) : Cardinality(os) \in 1 .. MaxRemove}
        Smallest(v) == \A w \in Active(routes) :
                           Cardinality(OrdersOn(routes[v])) =< Cardinality(OrdersOn(routes[w]))
        Small   == {v \in Active(routes) : Cardinality(OrdersOn(routes[v])) =< 2}
        Emptied == {{v} : v \in {w \in Active(routes) : Smallest(w)}}
                       \union {vs \in SUBSET Small : Cardinality(vs) = 2}
    IN  {[routes |-> Without(routes, os), removed |-> os] : os \in Some}
          \union {[routes  |-> [v \in Vehicles |-> IF v \in vs THEN << >> ELSE routes[v]],
                   removed |-> UNION {OrdersOn(routes[v]) : v \in vs}] : vs \in Emptied}
-----------------------------------------------------------------------------
(* Plans of routes on time that share no order, the orders on none of them *)
(* unassigned.                                                             *)
Starts ==
    LET Disjoint(r) == \A v, w \in Vehicles : v # w => OrdersOn(r[v]) \cap OrdersOn(r[w]) = {}
    IN  {Solution(r, Orders \ Assigned(r)) :
            r \in {f \in [Vehicles -> UNION Range(TimelyRoutes)] :
                      Disjoint(f) /\ \A v \in Vehicles : f[v] \in TimelyRoutes[v]}}

(* The initial plan is the warm start of the caller, whose routes the      *)
(* production validator accepted, or the greedy one, which only the quick  *)
(* check has seen; both carry the flags of a valid plan.  The cache is     *)
(* keyed by the profile.                                                   *)
HybridInit ==
    /\ pc = "warm"
    /\ judge \in {f \in [Vehicles -> Vehicles] :
                     /\ \A v \in Vehicles : Profile[f[v]] = Profile[v]
                     /\ \A v, w \in Vehicles : Profile[v] = Profile[w] => f[v] = f[w]}
    /\ \E p \in Starts, audited \in BOOLEAN :
          /\ \A v \in Active(p.routes) :
                IF audited THEN Placeable(v, p.routes[v]) ELSE FastFits(v, p.routes[v])
          /\ start = Verdict(p, TRUE, audited)
          /\ current = Costed(p, PlanCost(p, TRUE))
          /\ elite = IF Complete(p) THEN {p} ELSE {}
    /\ best = NoPlan /\ fallback = NoPlan
    /\ guided = TRUE
    /\ work = NoWork
    /\ iteration = 0 /\ stale = 0
    /\ result = Verdict(NoPlan, FALSE, FALSE)

(* elite_candidates; a plan that leaves orders is only skipped later on.   *)
Kept(p) == IF Complete(p) THEN elite \union {p} ELSE elite

(* One warm start chosen by the fleet's depots and profiles, then perhaps a*)
(* diversified one: a complete plan built anew joins the elite, and is the *)
(* current one if it is cheaper.  Either may be skipped or find no plan.   *)
AfterWarmStart == IF pc = "warm" THEN "diversify" ELSE "consolidate"

WarmStart ==
    /\ pc \in {"warm", "diversify"}
    /\ Complete(current)
    /\ \E p \in Constructions :
          /\ elite' = Kept(p)
          /\ current' = IF SearchCost(p) < current.cost THEN Costed(p, SearchCost(p)) ELSE current
    /\ pc' = AfterWarmStart
    /\ UNCHANGED <<judge, start, best, fallback, guided, work, iteration, stale, result>>

NoWarmStart ==
    /\ pc \in {"warm", "diversify"}
    /\ pc' = IF Complete(current) THEN AfterWarmStart ELSE "structure"
    /\ UNCHANGED <<judge, start, current, best, fallback, elite, guided, work,
                   iteration, stale, result>>

(* _construct_structured_solutions, for an incomplete plan only.           *)
Structure ==
    /\ pc = "structure"
    /\ \/ \E p \in Constructions :
             /\ SearchCost(p) < current.cost
             /\ current' = Costed(p, SearchCost(p))
             /\ elite' = Kept(p)
       \/ UNCHANGED <<current, elite>>
    /\ pc' = "consolidate"
    /\ UNCHANGED <<judge, start, best, fallback, guided, work, iteration, stale, result>>

(* Routes merged into others, kept when that is cheaper.                   *)
MergeRoutes ==
    /\ pc = "consolidate"
    /\ \E r \in Eliminated(current.routes) :
          LET p == Solution(r, current.unassigned)
          IN  IF SearchCost(p) < current.cost
              THEN current' = Costed(p, SearchCost(p)) /\ elite' = Kept(p)
              ELSE UNCHANGED <<current, elite>>
    /\ pc' = "relocate"
    /\ UNCHANGED <<judge, start, best, fallback, guided, work, iteration, stale, result>>

(* The relocation loops before ALNS, and the move from the guided cost to  *)
(* the economic one, which the code makes unless a diversified start won.  *)
Relocate ==
    /\ pc = "relocate"
    /\ Complete(current)
    /\ \E p \in Relocations(current) :
          /\ current' = Costed(p, SearchCost(p))
          /\ elite' = Kept(p)
    /\ UNCHANGED <<pc, judge, start, best, fallback, guided, work, iteration, stale, result>>

DropGuidance ==
    /\ pc = "relocate"
    /\ guided
    /\ guided' = FALSE
    /\ current' = Costed(current, PlanCost(current, FALSE))
    /\ UNCHANGED <<pc, judge, start, best, fallback, elite, work, iteration, stale, result>>

(* The cheapest splits, at most eight, join the elite whatever they cost;  *)
(* the cheapest of all is the current plan if it is cheaper.               *)
Split ==
    /\ pc = "relocate"
    /\ ~guided
    /\ \E found \in SUBSET Splits(current) \ {{}} :
          /\ Cardinality(found) =< 8
          /\ elite' = elite \union {p \in found : Complete(p)}
          /\ \E p \in found :
                /\ \A q \in found : SearchCost(p) =< SearchCost(q)
                /\ current' = IF SearchCost(p) < current.cost THEN Costed(p, SearchCost(p)) ELSE current
    /\ pc' = "settle"
    /\ UNCHANGED <<judge, start, best, fallback, guided, work, iteration, stale, result>>

(* The plan reached so far is the best one and the compact fallback.       *)
Settle ==
    /\ pc \in {"relocate", "settle"}
    /\ best' = AsPlan(current)
    /\ fallback' = AsPlan(current)
    /\ pc' = "alns"
    /\ UNCHANGED <<judge, start, current, elite, guided, work, iteration, stale, result>>
-----------------------------------------------------------------------------
Iterating ==
    /\ pc = "alns"
    /\ iteration < MaxIterations
    /\ Assigned(current.routes) # {}

(* How long the search has been without a better plan after a ruin.        *)
WaitedOn == stale + 1

Waited == IF stale + 1 >= Patience THEN 0 ELSE stale + 1

(* After Patience iterations without a better plan: relocate an order of   *)
(* the best plan ...                                                       *)
Intensify ==
    /\ Iterating
    /\ stale + 1 >= Patience
    /\ \E p \in Relocations(best) :
          /\ best' = p
          /\ current' = Costed(p, SearchCost(p))
          /\ elite' = Kept(p)
    /\ iteration' = iteration + 1
    /\ stale' = 0
    /\ UNCHANGED <<pc, judge, start, fallback, guided, work, result>>

(* ... or merge routes of it.  The search goes on from the merged routes   *)
(* and its cost, with the unassigned orders of the plan it was at.         *)
Merge ==
    /\ Iterating
    /\ stale + 1 >= Patience
    /\ \E r \in Eliminated(best.routes) :
          LET p == Solution(r, best.unassigned)
          IN  /\ SearchCost(p) < SearchCost(best)
              /\ best' = p
              /\ current' = Costed(Solution(r, current.unassigned), SearchCost(p))
              /\ elite' = Kept(p)
    /\ iteration' = iteration + 1
    /\ stale' = 0
    /\ UNCHANGED <<pc, judge, start, fallback, guided, work, result>>

(* Ruin: a destroy operator on the current plan; what it removed and what  *)
(* was unassigned are to be inserted again.                                *)
Ruin ==
    /\ Iterating
    /\ \E x \in Ruins(current.routes) :
          work' = [routes     |-> x.routes,
                   pending    |-> current.unassigned \union x.removed,
                   unassigned |-> {}]
    /\ pc' = "repair"
    /\ iteration' = iteration + 1
    /\ stale' = Waited
    /\ UNCHANGED <<judge, start, current, best, fallback, elite, guided, result>>

(* _repair: the pending orders without an insertion are given up, then one *)
(* of the others is inserted.                                              *)
Repair ==
    /\ pc = "repair"
    /\ \E o \in work.pending :
          \E r \in Insertions(work.routes, o, Vehicles) :
              LET stuck == {x \in work.pending : Insertions(work.routes, x, Vehicles) = {}}
              IN  work' = [routes     |-> r,
                           pending    |-> work.pending \ ({o} \union stuck),
                           unassigned |-> work.unassigned \union stuck]
    /\ UNCHANGED <<pc, judge, start, current, best, fallback, elite, guided,
                   iteration, stale, result>>

(* The candidate is complete, or nothing fits, or time ran out: what is    *)
(* pending is unassigned.  It is accepted if it is no worse, or by chance; *)
(* it is the best plan if it is cheaper and leaves no more orders.         *)
Improves(p) ==
    /\ SearchCost(p) < SearchCost(best)
    /\ Cardinality(p.unassigned) =< Cardinality(best.unassigned)

Judge ==
    /\ pc = "repair"
    /\ LET p        == Solution(work.routes, work.unassigned \union work.pending)
           accepted == current' = Costed(p, SearchCost(p))
       IN  \/ /\ accepted
              /\ IF Improves(p)
                 THEN best' = p /\ elite' = Kept(p) /\ stale' = 0
                 ELSE UNCHANGED <<best, elite, stale>>
           \/ /\ SearchCost(p) > current.cost
              /\ UNCHANGED <<current, best, elite, stale>>
    /\ work' = NoWork
    /\ pc' = "alns"
    /\ UNCHANGED <<judge, start, fallback, guided, iteration, result>>

(* The rest of solve reads the best plan and the elite: the locals of the  *)
(* loop are dead and forgotten, as the elite is once it is audited.        *)
EndAlns ==
    /\ pc = "alns"
    /\ pc' = "refine"
    /\ current' = Costed(best, SearchCost(best))
    /\ iteration' = 0 /\ stale' = 0
    /\ UNCHANGED <<judge, start, best, fallback, elite, guided, work, result>>

(* The local refinement after the loop: relocations of the best plan, then *)
(* one exchange of two orders, itself relocated within its routes.         *)
Refine ==
    /\ pc = "refine"
    /\ \E p \in Relocations(best) \union Exchanges(best)
                   \union UNION {Relocations(x) : x \in Exchanges(best)} :
          /\ SearchCost(p) < SearchCost(best)
          /\ best' = p
          /\ elite' = Kept(p)
    /\ UNCHANGED <<pc, judge, start, current, fallback, guided, work, iteration, stale, result>>
-----------------------------------------------------------------------------
(* _build_solution: a route the search evaluates as infeasible is left out *)
(* and its orders are reported unassigned.                                 *)
Built(p) ==
    LET refused == {v \in Active(p.routes) : ~Accepts(v, p.routes[v])}
    IN  Solution([v \in Vehicles |-> IF v \in refused THEN << >> ELSE p.routes[v]],
                 p.unassigned \union UNION {OrdersOn(p.routes[v]) : v \in refused})

Audited(p) == Audits(Built(p).routes, Built(p).unassigned)

RouteCount(p) == Cardinality(Active(p.routes))

Fewer(m, n) == IF m < n THEN m ELSE n

(* _select_audit_candidates over the elite, cheapest first: the cheapest   *)
(* of each number of routes, then more of them while slots are left.       *)
Slates ==
    LET Like(p)      == {q \in elite : RouteCount(q) = RouteCount(p)}
        Before(q, p) == PlanCost(q, FALSE) < PlanCost(p, FALSE)
    IN  {s \in SUBSET elite :
            /\ Cardinality(s) =< AuditSlots
            /\ \A p \in s : {q \in Like(p) : Before(q, p)} \subseteq s
            /\ \A p \in s : Cardinality(s \cap Like(p)) =< MaxPerCount
            /\ Cardinality(s) < AuditSlots =>
                   \A p \in elite :
                      Cardinality(s \cap Like(p)) = Fewer(Cardinality(Like(p)), MaxPerCount)
            /\ (\E p \in s : Cardinality(s \cap Like(p)) > 1) =>
                   \A p \in elite : s \cap Like(p) # {}}

Cheapest(results) ==
    {x \in results : \A y \in results : EconomicCost(x.routes) =< EconomicCost(y.routes)}

(* Every plan of the slate is audited; the cheapest of those that pass and *)
(* serve every order is the result.                                        *)
AuditElite ==
    /\ pc = "refine"
    /\ \E slate \in Slates :
       \E verdict \in [slate -> UNION {Audited(p) : p \in slate}] :
          /\ \A p \in slate : verdict[p] \in Audited(p)
          /\ LET passed == {x \in Range(verdict) : x.valid /\ Complete(x)}
             IN  IF passed = {} THEN pc' = "fallback" /\ UNCHANGED result
                 ELSE pc' = "pairwise" /\ result' \in Cheapest(passed)
    /\ elite' = {}
    /\ UNCHANGED <<judge, start, current, best, fallback, guided, work, iteration, stale>>

(* _refine_pairwise_empty_cycles on a result whose routes all carry one    *)
(* order at a time: another such plan on the same vehicles, taken if it is *)
(* cheaper and passes the audit.                                           *)
Pairwise ==
    /\ pc = "pairwise"
    /\ \/ UNCHANGED result
       \/ LET used == Active(result.routes)
              Cycles == {r \in [Vehicles -> UNION {OneByOne(os) : os \in SUBSET Orders}] :
                            /\ \A v \in Vehicles \ used : r[v] = << >>
                            /\ \A v \in used : Accepts(v, r[v])
                            /\ \A v, w \in used : v # w => OrdersOn(r[v]) \cap OrdersOn(r[w]) = {}
                            /\ Assigned(r) = Assigned(result.routes)}
          IN  /\ \A v \in used : result.routes[v] \in OneByOne(OrdersOn(result.routes[v]))
              /\ \E r \in Cycles : \E x \in Audits(r, {}) :
                    /\ x.valid
                    /\ EconomicCost(x.routes) < EconomicCost(result.routes)
                    /\ result' = x
    /\ pc' = "done"
    /\ UNCHANGED <<judge, start, current, best, fallback, elite, guided, work, iteration, stale>>

(* As FallBack, without the initial plan.                                  *)
FallBackOnBest ==
    /\ pc = "fallback"
    /\ \E x \in Audited(fallback) :
          IF x.valid /\ Complete(x) THEN result' = x ELSE result' \in Audited(best)
    /\ pc' = "done"
    /\ UNCHANGED <<judge, start, current, best, fallback, elite, guided, work, iteration, stale>>

(* No elite plan passed: the compact plan if it passes, else the initial   *)
(* one if it was valid and complete, else the best plan, audited.          *)
FallBack ==
    /\ pc = "fallback"
    /\ \E x \in Audited(fallback) :
          IF x.valid /\ Complete(x) THEN result' = x
          ELSE IF start.valid /\ Complete(start) THEN result' = start
          ELSE result' \in Audited(best)
    /\ pc' = "done"
    /\ UNCHANGED <<judge, start, current, best, fallback, elite, guided, work, iteration, stale>>

HybridNext ==
    \/ WarmStart \/ NoWarmStart \/ Structure \/ MergeRoutes
    \/ Relocate \/ DropGuidance \/ Split \/ Settle
    \/ Intensify \/ Merge \/ Ruin \/ Repair \/ Judge \/ EndAlns
    \/ Refine \/ AuditElite \/ Pairwise \/ FallBack

HybridSpec == HybridInit /\ [][HybridNext]_hybridVars
-----------------------------------------------------------------------------
IsPlan(p) == p.routes \in [Vehicles -> Seq(Stop)] /\ p.unassigned \subseteq Orders

HybridTypeOK ==
    /\ pc \in {"warm", "diversify", "structure", "consolidate", "relocate", "settle", "alns", "repair",
               "refine", "pairwise", "fallback", "done"}
    /\ judge \in [Vehicles -> Vehicles]
    /\ IsPlan(start) /\ IsPlan(current) /\ IsPlan(best) /\ IsPlan(fallback) /\ IsPlan(work)
    /\ \A p \in elite : IsPlan(p)
    /\ work.pending \subseteq Orders
    /\ guided \in BOOLEAN
    /\ iteration \in 0 .. MaxIterations
    /\ stale \in 0 .. Patience - 1
    /\ IsPlan(result) /\ result.valid \in BOOLEAN /\ result.audited \in BOOLEAN

(* Whatever the search did to it and whatever the cache said: a complete   *)
(* plan returned as valid serves every order once, and each route keeps    *)
(* the windows, load and shift on its own vehicle; if it was audited too,  *)
(* its floor can be packed.                                                *)
ValidMeansServed ==
    pc = "done" /\ result.valid /\ Complete(result) =>
        /\ \A v \in Vehicles : OnTime(v, result.routes[v])
        /\ \A o \in Orders :
              Cardinality({v \in Vehicles : o \in OrdersOn(result.routes[v])}) = 1
        /\ result.audited => \A v \in Active(result.routes) : Placeable(v, result.routes[v])

(* A complete initial plan is never lost, neither to the random moves, to  *)
(* the audit slots nor to the deadline: the search then returns a complete *)
(* plan flagged valid.                                                     *)
CompleteStartIsKept == pc = "done" /\ Complete(start) => result.valid /\ Complete(result)

(* The plan the search works on and the best one it has found serve every  *)
(* order once or list it as unassigned.                                    *)
PlansArePartitions ==
    pc = "alns" =>
        /\ ContractValid(current.routes, current.unassigned)
        /\ ContractValid(best.routes, best.unassigned)
=============================================================================

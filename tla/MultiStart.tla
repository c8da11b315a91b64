------------------------------ MODULE MultiStart ------------------------------
(***************************************************************************)
(* One automatic planning request, from the confirmed orders to trips.     *)
(* The backend builds the request; MultiStartFleetOptimizer tries every    *)
(* plan if the request is tiny, and otherwise runs OR-Tools several times  *)
(* (RouteSearch) and the hybrid search after them; it returns the plans    *)
(* that serve all, ranked, or else the one that leaves out least.  The     *)
(* backend checks what came back against its contract, offers the plans    *)
(* that have routes, and applies the one the dispatcher takes.             *)
(*                                                                         *)
(* The OR-Tools searches run in worker processes that share nothing, so    *)
(* that one after the other in the order in which they end is as good.     *)
(* The order of a route's stops is left out: plans with the same routes    *)
(* are one plan.  Orders, trucks and drivers do not change meanwhile;      *)
(* TripPlanning is about what happens when they do.                        *)
(***************************************************************************)
EXTENDS RouteSearch

CONSTANTS
    Rosters,        \* the sets of drivers that may be available
    Backlogs,       \* the sets of orders that may be confirmed
    TinyOrders,     \* a tiny request has so many allocations at most: 3 in the code
    TinyTrucks,     \* and so many trucks: 2
    MaxCandidates,  \* how many plans a request may get: 3
    MaxRuns         \* a bound of the model on the searches of a request

ASSUME RostersAssumption == \A roster \in Rosters : IsFiniteSet(roster)
ASSUME CandidatesAssumption == MaxCandidates \in Nat
ASSUME DriverNamesAssumption ==  \* the id a driver has for a day is no driver's id
    \A p, q \in UNION Rosters, day \in 0 .. DayCount - 1 : p # <<q, day>>

VARIABLES
    todo,        \* the OR-Tools searches still to run
    hybrids,     \* the hybrid searches still to run
    candidates,  \* the plans returned, best first
    fully,       \* fully_served_candidate_count
    answer,      \* what the backend has made of it
    trips        \* the routes turned into trips, with their drivers

batchVars == <<todo, hybrids, candidates, fully, answer, trips>>

vars == <<requestVars, searchVars, phase, runs, batchVars>>

Init ==
    /\ people \in Rosters
    /\ allocations = {} /\ slots = << >> /\ safe = {}
    /\ phase = "idle" /\ Idle
    /\ runs = << >> /\ todo = 0 /\ hybrids = 0
    /\ candidates = << >> /\ fully = 0 /\ answer = "none" /\ trips = NoDrivers

-----------------------------------------------------------------------------
Tiny ==
    /\ Cardinality(allocations') =< TinyOrders
    /\ Cardinality({s.truck : s \in Range(slots')}) =< TinyTrucks

Prepare(orders) ==
    /\ phase = "idle"
    /\ allocations' \in Requests(orders)
    /\ slots' = SlotsFor(orders)
    /\ safe' = DriverSafe(slots')
    /\ LET budget == TimeBudget(allocations', slots')
       IN  /\ todo' = Min({SearchCount(budget), MaxRuns}) - 1
           /\ hybrids' = HybridCount(allocations', budget)
    /\ phase' = IF Tiny THEN "tiny" ELSE "start"
    /\ UNCHANGED <<people, searchVars, runs, candidates, fully, answer, trips>>

(* The request fails, and its job with it.                                 *)
Fail ==
    /\ phase' = "done" /\ answer' = "failed"
    /\ UNCHANGED <<requestVars, searchVars, runs, todo, hybrids, candidates, fully, trips>>

(* An order has to be split and no way is found in so many states.         *)
SplitLimit(orders) ==
    /\ phase = "idle"
    /\ \E o \in orders :
          Cardinality(Items[o]) > 1 /\ \A t \in Range(Fleet) : ~Holds(t, Items[o])
    /\ Fail

-----------------------------------------------------------------------------
(* Ranking.                                                                *)

(* Lexicographic order of two tuples of the same length.                   *)
Precedes(k, l) ==
    \E i \in DOMAIN k : k[i] < l[i] /\ \A j \in 1 .. i - 1 : k[j] = l[j]

(* The ways to put what is in the domain of key in the order of its keys.  *)
Rankings(key) ==
    {order \in Bijection(1 .. Cardinality(DOMAIN key), DOMAIN key) :
        \A i, j \in DOMAIN order : i < j => ~Precedes(key[order[j]], key[order[i]])}

Score(plan) == SelectionScore(plan.routes)

Cost(plan) == OperatingCost(plan.routes)

(* is_fully_served                                                         *)
ServesAll(plan) ==
    /\ plan.status = "SUCCESS" /\ plan.count = 0
    /\ Loaded(plan.routes) = allocations
    /\ \A r, q \in plan.routes :
          r # q /\ r.slot.day = q.slot.day
             => r.slot.truck # q.slot.truck /\ plan.drivers[r] # plan.drivers[q]

Full == {i \in DOMAIN runs : ServesAll(runs[i])}

(* Of full plans with the same routes the first stays.                     *)
Distinct == {i \in Full : \A j \in Full : j < i => runs[j].routes # runs[i].routes}

(* By score, then by cost, then as they came.                              *)
RankedByCost == Rankings([i \in Distinct |-> <<Cost(runs[i]), i>>])  \* mutant
Ranked == Rankings([i \in Distinct |-> <<Score(runs[i]), Cost(runs[i]), i>>])

(* The plan with the shortest list of orders left out.                     *)
Fallback(i) ==
    LET key == [j \in DOMAIN runs |-> <<runs[j].count, Score(runs[j]), Cost(runs[j]), j>>]
    IN  \A j \in DOMAIN runs : ~Precedes(key[j], key[i])

-----------------------------------------------------------------------------
(* A tiny request: every way to serve all of it.                           *)

(* The routes that slots may run on their own.                             *)
RouteOptions(from) ==
    {r \in {Route(s, load) : s \in from, load \in SUBSET allocations \ {{}}} :
        Admits(r.slot, r.load) /\ Servable(r.slot, r.load)}

Disjoint(rs) ==
    \A r, q \in rs : r # q => r.slot # q.slot /\ r.load \intersect q.load = {}

(* Sets of routes, each of another slot and with a load of its own, that   *)
(* have their drivers.                                                     *)
RouteSets(from) ==
    {rs \in UNION {kSubset(k, RouteOptions(from)) : k \in 1 .. Cardinality(allocations)} :
        Disjoint(rs) /\ Staffable(rs)}

ExactCovers == {rs \in RouteSets(safe) : Loaded(rs) = allocations}

ExhaustivePlan(rs, compared) ==
    Plan("exhaustive", "SUCCESS", rs, {}, 0, FALSE, compared, Staffing(rs))

(* The time may be up at any point; the cheapest covers found are kept and *)
(* then ranked like all other plans.  Any comparison may fail.             *)
Exhaustive ==
    /\ phase = "tiny"
    /\ \E found \in UNION {kSubset(k, ExactCovers) : k \in 1 .. MaxCandidates} :
          \E order \in Rankings([rs \in found |-> <<SelectionScore(rs), OperatingCost(rs)>>]) :
             \E compared \in SUBSET found :
                candidates' = [i \in DOMAIN order |->
                                  ExhaustivePlan(order[i], order[i] \in compared)]
    /\ fully' = Len(candidates')
    /\ phase' = "return"
    /\ UNCHANGED <<requestVars, searchVars, runs, todo, hybrids, answer, trips>>

(* None found: one OR-Tools search in the time that is left.               *)
ExhaustiveFindsNothing ==
    /\ phase = "tiny"
    /\ phase' = "start" /\ todo' = 0
    /\ UNCHANGED <<requestVars, searchVars, runs, hybrids, candidates, fully, answer, trips>>

-----------------------------------------------------------------------------
(* The searches, one after the other.                                      *)

NextRun ==
    /\ phase = "next" /\ todo > 0
    /\ phase' = "start" /\ todo' = todo - 1
    /\ UNCHANGED <<requestVars, searchVars, runs, hybrids, candidates, fully, answer, trips>>

AllFail ==
    /\ phase = "next" /\ todo = 0 /\ runs = << >>
    /\ Fail

(* The hybrid search returns any routes it can serve (HybridSearch is      *)
(* about how it gets there).  It counts allocations, not orders, among     *)
(* what it leaves out, knows nothing of split orders, and names a driver   *)
(* by the driver's id of that day.                                         *)
HybridPlan(rs, compared) ==
    LET left == allocations \ Loaded(rs)
        driver == Staffing(rs)
    IN  Plan("hybrid", IF left = {} THEN "SUCCESS" ELSE "PARTIAL", rs, OrdersOf(left),
             Cardinality(left), FALSE, compared, [r \in rs |-> <<driver[r], r.slot.day>>])

HybridEnds ==
    /\ phase = "next" /\ todo = 0 /\ runs # << >> /\ hybrids > 0
    /\ \E rs \in RouteSets(HybridSlots(slots)), compared \in BOOLEAN :
          runs' = Append(runs, HybridPlan(rs, compared))
    /\ hybrids' = hybrids - 1
    /\ UNCHANGED <<requestVars, searchVars, phase, todo, candidates, fully, answer, trips>>

(* It finds no routes, or raises, which ends the others too.               *)
HybridGivesNothing ==
    /\ phase = "next" /\ todo = 0 /\ runs # << >> /\ hybrids > 0
    /\ hybrids' \in {hybrids - 1, 0}
    /\ UNCHANGED <<requestVars, searchVars, phase, runs, todo, candidates, fully, answer, trips>>

(* select_ranked_candidates                                                *)
Choose ==
    /\ phase = "next" /\ todo = 0 /\ runs # << >> /\ hybrids = 0
    /\ IF Full = {} THEN \E i \in DOMAIN runs : Fallback(i) /\ candidates' = <<runs[i]>>
       ELSE \E order \in Ranked :
               candidates' = [i \in 1 .. Min({Cardinality(Distinct), MaxCandidates}) |->
                                 runs[order[i]]]
    /\ fully' = Cardinality(Full)
    /\ phase' = "return" /\ runs' = << >>
    /\ UNCHANGED <<requestVars, searchVars, todo, hybrids, answer, trips>>

-----------------------------------------------------------------------------
(* The backend.                                                            *)

(* A plan without benchmarks has null for them, which is not an object.    *)
Uncompared(plans) == \E i \in DOMAIN plans : ~plans[i].compared

(* assertFleetOptimizationBatchResult                                      *)
Refused(plans) ==
    \/ Uncompared(plans)
    \/ Len(plans) > 1 /\ \E i \in DOMAIN plans : plans[i].status # "SUCCESS" \/ plans[i].count > 0
    \/ \E i \in DOMAIN plans \ {1} : Score(plans[i]) < Score(plans[i - 1])

Answer(kind, plans) ==
    /\ phase' = "done" /\ answer' = kind /\ candidates' = plans
    /\ UNCHANGED <<requestVars, searchVars, runs, todo, hybrids, fully, trips>>

Refuse ==
    /\ phase = "return" /\ Refused(candidates)
    /\ Answer("refused", candidates)

(* Only plans with routes are offered; if there is none the first is shown *)
(* with its diagnostics.                                                   *)
Offer ==
    /\ phase = "return" /\ ~Refused(candidates)
    /\ LET feasible == {i \in DOMAIN candidates : candidates[i].status \in {"SUCCESS", "PARTIAL"}}
       IN  IF feasible = {} THEN Answer("empty", candidates)
           ELSE \E order \in Rankings([i \in feasible |-> <<i>>]) :
                   Answer("offered", [i \in DOMAIN order |-> candidates[order[i]]])

(* Mutant: nobody asks for whole orders. *)
ApplicableInPart(plan) ==
    /\ \A r \in plan.routes : plan.drivers[r] \in people
    /\ \A r, q \in plan.routes : r # q => r.load \intersect q.load = {}

(* What applyAutomaticOptimization asks of a plan: its drivers exist, no   *)
(* allocation is on two routes, and an order is there with all its         *)
(* packages or not at all.                                                 *)
Applicable(plan) ==
    /\ \A r \in plan.routes : plan.drivers[r] \in people
    /\ \A r, q \in plan.routes : r # q => r.load \intersect q.load = {}
    /\ \A o \in OrdersOf(Loaded(plan.routes)) :
          UNION {a.items : a \in {b \in Loaded(plan.routes) : b.order = o}} = Items[o]

(* A refusal rolls all back, and another plan may be tried.                *)
Apply(i) ==
    /\ answer \in {"offered", "conflict"}
    /\ IF Applicable(candidates[i])
       THEN answer' = "applied" /\ trips' = candidates[i].drivers
       ELSE answer' = "conflict" /\ UNCHANGED trips
    /\ UNCHANGED <<requestVars, searchVars, phase, runs, todo, hybrids, candidates, fully>>

-----------------------------------------------------------------------------
Next ==
    \/ \E orders \in Backlogs : Prepare(orders) \/ SplitLimit(orders)
    \/ Exhaustive \/ ExhaustiveFindsNothing
    \/ SearchStep /\ UNCHANGED batchVars
    \/ NextRun \/ AllFail
    \/ HybridEnds \/ HybridGivesNothing \/ Choose
    \/ Refuse \/ Offer
    \/ \E i \in DOMAIN candidates : Apply(i)

Spec == Init /\ [][Next]_vars

-----------------------------------------------------------------------------
TypeOK ==
    /\ people \in Rosters
    /\ allocations \subseteq [order : DOMAIN Items, items : SUBSET UNION Range(Items),
                              only : SUBSET Range(Trucks)]
    /\ safe \subseteq Range(slots) /\ Range(slots) \subseteq Range(AllSlots)
    /\ phase \in {"idle", "tiny", "start", "validate", "recover", "consolidate", "report",
                  "next", "return", "done"}
    /\ Loaded(drafts) \union Loaded(routes) \union assigned \union queue \subseteq allocations
    /\ {limited, rolledBack} \subseteq BOOLEAN
    /\ todo \in 0 .. MaxRuns /\ hybrids \in 0 .. 2 /\ fully \in Nat
    /\ answer \in {"none", "failed", "refused", "empty", "offered", "applied", "conflict"}

Accounted(plan) ==
    LET loaded == Loaded(plan.routes)
    IN  /\ Disjoint(plan.routes) /\ loaded \subseteq allocations
        /\ \/ OrdersOf(allocations \ loaded) \subseteq plan.reported
           \/ plan.status \in {"INFEASIBLE", "TIMEOUT"} /\ plan.reported = {}
        /\ plan.by = "OR-Tools" /\ ~plan.lost =>
              \A a \in loaded : Group(a) \subseteq loaded

(* In every plan a search returns, an allocation is on one route at most,  *)
(* and one that is on none has its order among those reported, unless the  *)
(* search failed and reports none: any other plan which reports none       *)
(* carries all.  No OR-Tools plan has some parts of an order and not the   *)
(* others, unless a route was lost when parts were taken out.              *)
AllocationsAreAccounted == \A plan \in Range(runs) : Accounted(plan)

(* When drivers are given out there is one for every route, also after a   *)
(* merge onto a truck the search itself may not use: no search that found  *)
(* routes is thrown away for the want of a driver.                         *)
RoutesCanBeStaffed == phase = "report" => Staffable(routes)

(* What is applied can be driven: on a day a truck and a driver have one   *)
(* trip, the driver may drive the truck, every load fits, and an order is  *)
(* carried whole.                                                          *)
AppliedIsSound ==
    LET rs == DOMAIN trips
        carried == Loaded(rs)
    IN  /\ \A r, q \in rs : r # q /\ r.slot.day = q.slot.day
                              => r.slot.truck # q.slot.truck /\ trips[r] # trips[q]
        /\ \A r \in rs : /\ Licensed(trips[r], r.slot.truck)
                         /\ Admits(r.slot, r.load) /\ Servable(r.slot, r.load)
        /\ \A o \in OrdersOf(carried) :
              \A i \in Items[o] : \E a \in carried : a.order = o /\ i \in a.items

(* The two programs agree on the order of plans and on what a plan that    *)
(* serves all is: a batch of such plans is refused only for the benchmarks *)
(* of a plan, which it lacks when its comparison failed.                   *)
FullServiceLacksOnlyBenchmarks ==
    answer = "refused" /\ fully > 0 => Uncompared(candidates)

-----------------------------------------------------------------------------
(* Questions whose answer is no.                                           *)

(* "Add the benchmark-winning Hybrid ALNS as an independently validated    *)
(* candidate": a plan that is offered can be applied.                      *)
OfferedCanBeApplied == answer # "conflict"

(* The one plan shown when none serves all is the one that serves most.    *)
FallbackServesMost ==
    phase = "next" /\ todo = 0 /\ runs # << >> /\ Full = {} =>
        \A i, j \in DOMAIN runs : Fallback(j) =>
            Cardinality(Loaded(runs[i].routes)) =< Cardinality(Loaded(runs[j].routes))

(* If the request does not fail, the dispatcher is told why nothing could  *)
(* be planned.                                                             *)
DiagnosticsArrive == answer # "refused"
=============================================================================

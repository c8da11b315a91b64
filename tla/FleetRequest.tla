---------------------------- MODULE FleetRequest ----------------------------
(***************************************************************************)
(* What executeAutomaticOptimization asks the optimizer to plan, and what  *)
(* every search of the optimizer asks of it.  A truck or a driver becomes  *)
(* one slot per service day; an order too large for any truck becomes      *)
(* several allocations, each for one truck; days on which no order can be  *)
(* served are taken out.  A route gives a slot a load of allocations, and  *)
(* needs a driver of the slot's day who may drive its truck.               *)
(*                                                                         *)
(* Sizes, weights, distances and times are left out: what they decide is   *)
(* a predicate (Holds, InShift) or a price.                                *)
(***************************************************************************)
EXTENDS Integers, FiniteSets, SequencesExt

CONSTANTS
    Trucks,          \* the branch's available trucks, by plate
    DayCount,        \* AUTOMATIC_PLANNING_DAY_COUNT
    Items,           \* per order: its packages
    Holds(_, _),     \* may a truck hold these packages? (weight, floor, height)
    Licensed(_, _),  \* may a person drive a truck? (can_driver_drive_vehicle)
    InShift(_, _),   \* could an order be served on a day if travel took no time?
    Price(_, _),     \* what a slot with a load costs, its driver's wage included
    Wage(_, _),      \* the part of it that is fixed salary
    Salary           \* the fixed salary of a driver for one day

VARIABLE people      \* the drivers available when the request is made

ASSUME DayCountAssumption == DayCount \in Nat
ASSUME TrucksAssumption == Trucks \in Seq(Range(Trucks))

(* Only as many trucks as there are drivers take part.                     *)
Fleet == SubSeq(Trucks, 1, Min({Len(Trucks), Cardinality(people)}))

(* One slot per truck and service day, day by day.                         *)
SlotsOn(days) ==
    LET Day(n) == CHOOSE d \in days : Cardinality({e \in days : e < d}) = n
    IN  [i \in 1 .. Cardinality(days) * Len(Fleet) |->
            [day |-> Day((i - 1) \div Len(Fleet)), truck |-> Fleet[((i - 1) % Len(Fleet)) + 1]]]

AllSlots == SlotsOn(0 .. DayCount - 1)

(* An allocation is what one truck takes of an order; "only" is empty or   *)
(* the truck it is meant for.                                              *)
Allocation(o, items, only) == [order |-> o, items |-> items, only |-> only]

Whole(o) == Allocation(o, Items[o], {})

Allows(a, s) == a.only = {} \/ s.truck \in a.only

(* The packages of an order, dealt out to trucks that hold them.           *)
Deals(o) ==
    {deal \in [Items[o] -> Range(Fleet)] :
        \A t \in Range(Fleet) : Holds(t, {i \in Items[o] : deal[i] = t})}

(* Those that use the fewest trucks.                                       *)
SmallestDeals(o) ==
    {deal \in Deals(o) :
        \A other \in Deals(o) : Cardinality(Range(deal)) =< Cardinality(Range(other))}

Parts(o, deal) ==
    {Allocation(o, {i \in Items[o] : deal[i] = t}, {t}) : t \in Range(deal)}

(* An order that one truck can hold is not split, nor is one that cannot   *)
(* be dealt out at all.                                                    *)
Splittings(o) ==
    IF Cardinality(Items[o]) =< 1
       \/ (\E t \in Range(Fleet) : Holds(t, Items[o]))
       \/ Deals(o) = {}
    THEN {{Whole(o)}}
    ELSE {Parts(o, deal) : deal \in SmallestDeals(o)}

(* The allocations that may stand for a set of orders.                     *)
Requests(orders) ==
    {UNION Range(split) :
        split \in {f \in [orders -> UNION {Splittings(o) : o \in orders}] :
                      \A o \in orders : f[o] \in Splittings(o)}}

OrdersOf(allocations) == {a.order : a \in allocations}

(* Days on which no order can be served are taken out, unless all are. As  *)
(* there are no more trucks than drivers, the third test of the code, that *)
(* the drivers left are enough for the slots left, never fails.            *)
SlotsFor(orders) ==
    LET kept == {d \in 0 .. DayCount - 1 : \E o \in orders : InShift(o, d)}
    IN  IF kept = {} THEN AllSlots ELSE SlotsOn(kept)

-----------------------------------------------------------------------------
(* Drivers.                                                                *)

(* Every way to give each route a driver of its own for its day.           *)
Staffings(routes) ==
    {driver \in [routes -> people] :
        /\ \A r \in routes : Licensed(driver[r], r.slot.truck)
        /\ \A r, q \in routes :
              r # q /\ r.slot.day = q.slot.day => driver[r] # driver[q]}

Staffable(routes) == Staffings(routes) # {}

(* Drivers are paid alike here, so that any of them is the cheapest.       *)
Staffing(routes) == CHOOSE driver \in Staffings(routes) : TRUE

(* A matching of slots and drivers that grows by augmenting paths, slot by *)
(* slot: a slot stays in once it is in.                                    *)
Matched(slots) ==
    FoldLeft(LAMBDA kept, s :
                 IF Staffable({[slot |-> k] : k \in kept \union {s}})
                 THEN kept \union {s} ELSE kept,
             {}, slots)

(* The slots OR-Tools may use.                                             *)
DriverSafe(slots) == Matched(slots)

(* The slots the hybrid search may use: those with the fewest drivers      *)
(* choose first.                                                           *)
HybridSlots(slots) ==
    LET Choice(i) == Cardinality({p \in people : Licensed(p, slots[i].truck)})
        Sooner(i, j) == Choice(i) < Choice(j) \/ (Choice(i) = Choice(j) /\ i < j)
        Turn(n) == CHOOSE i \in DOMAIN slots :
                       Cardinality({j \in DOMAIN slots : Sooner(j, i)}) = n - 1
    IN  Matched([n \in DOMAIN slots |-> slots[Turn(n)]])

-----------------------------------------------------------------------------
(* Cost and search policy.                                                 *)

OperatingCost(routes) == MapThenSumSet(LAMBDA r : Price(r.slot, r.load), routes)

(* Fixed salaries of every driver, for each day until the plan is done.    *)
CalendarSalary(routes) ==
    IF routes = {} THEN 0
    ELSE Cardinality(people) * Salary * (Max({r.slot.day : r \in routes}) + 1)

(* The objective by which plans are ranked: the salaries of the calendar   *)
(* take the place of those of the hours driven.  The weight of late        *)
(* deliveries, one more amount per route, is left out.                     *)
SelectionScore(routes) ==
    LET active == MapThenSumSet(LAMBDA r : Wage(r.slot, r.load), routes)
    IN  OperatingCost(routes) - active + Max({active, CalendarSalary(routes)})

Packages(allocations) == MapThenSumSet(LAMBDA a : Cardinality(a.items), allocations)

(* The time of the search in seconds, for a request without a time limit   *)
(* of its own; a hundredth is the unit of the score.                       *)
TimeBudget(allocations, slots) ==
    LET trucks == Cardinality({slots[i].truck : i \in DOMAIN slots})
        score == 110 * Cardinality(allocations) + 15 * Packages(allocations)
                     + 75 * trucks + 10 * Len(slots)
        tiny == Cardinality(allocations) =< 2 /\ Packages(allocations) =< 4 /\ trucks =< 2
    IN  IF tiny THEN 3 ELSE Min({120, 5 + (130 * score + 9999) \div 10000})

(* How many OR-Tools searches that time is for.                            *)
SearchCount(budget) ==
    IF budget =< 3 THEN 2 ELSE IF budget =< 20 THEN 3 ELSE IF budget =< 60 THEN 4 ELSE 6

(* How many hybrid searches: two if each has six seconds and there are     *)
(* eight allocations, else one.                                            *)
HybridCount(allocations, budget) ==
    IF Min({budget, Max({6, budget \div 4}), 20}) >= 12 /\ Cardinality(allocations) >= 8
    THEN 2 ELSE 1
=============================================================================

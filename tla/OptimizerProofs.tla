--------------------------- MODULE OptimizerProofs ---------------------------
(***************************************************************************)
(* Proofs about the optimizer, for any orders, vehicles and drivers: the   *)
(* plans of one request, then the hybrid search inside.                    *)
(*                                                                         *)
(* An allocation travels from the drafts to a route, or is left over and   *)
(* put on one later, or is taken out again with the rest of its order;     *)
(* the solver keeps the routes and the set of what they carry apart from   *)
(* each other, and reports from the second.  The invariant is that the two *)
(* agree at every step.  On top of it, the slots of the routes can have    *)
(* drivers, their trucks carry their loads, and the plans returned pass    *)
(* the contract of the backend.                                            *)
(*                                                                         *)
(* The hybrid search is judged by what it returns: the lemmas say what the *)
(* audit of a plan lets pass, the invariant that nothing but the audit and *)
(* the initial plan become its result.                                     *)
(***************************************************************************)
EXTENDS MultiStart, HybridSearch, FiniteSetTheorems, WellFoundedInduction, TLAPS

(* The routes carry what is assigned, each allocation once.                *)
LoadsAreAssigned ==
    /\ Disjoint(routes) /\ Loaded(routes) = assigned /\ assigned \subseteq allocations

(* What is not validated yet is on no route, nor is its slot.              *)
DraftsAreApart ==
    /\ Disjoint(drafts) /\ Loaded(drafts) \subseteq allocations \ assigned
    /\ \A d \in drafts, r \in routes : d.slot # r.slot

(* What is still to be recovered is on no route.                           *)
QueueIsLeft == queue \subseteq allocations \ assigned

(* Once split orders have been looked at, none is there in part.           *)
PartsStayTogether ==
    phase \in {"consolidate", "report"} /\ ~rolledBack =>
        \A a \in assigned : Group(a) \subseteq assigned

(* Between searches nothing is left of the last.                           *)
NothingStays ==
    /\ phase # "validate" => drafts = {}
    /\ phase # "recover" => queue = {}
    /\ phase \notin {"validate", "recover", "consolidate", "report"} =>
          routes = {} /\ assigned = {}
    /\ phase = "idle" => runs = << >>

IInv ==
    /\ runs \in Seq(Range(runs)) /\ rolledBack \in BOOLEAN
    /\ AllocationsAreAccounted
    /\ LoadsAreAssigned /\ DraftsAreApart /\ QueueIsLeft
    /\ PartsStayTogether /\ NothingStays

-----------------------------------------------------------------------------
(* Sequences and routes.                                                   *)

LEMMA OneMore ==
    ASSUME NEW s, s \in Seq(Range(s)), NEW p
    PROVE  /\ s \o <<p>> \in Seq(Range(s \o <<p>>)) /\ Range(s \o <<p>>) = Range(s) \union {p}
           /\ Append(s, p) \in Seq(Range(Append(s, p)))
           /\ Range(Append(s, p)) = Range(s) \union {p}
<1> DEFINE T == Range(s) \union {p}
           t == Append(s, p)
<1>1. s \in Seq(T) /\ p \in T
  OBVIOUS
<1>2. t \in Seq(T) /\ Len(t) = Len(s) + 1 /\ Len(s) \in Nat
  BY <1>1
<1>3. \A i \in 1 .. Len(s) : t[i] = s[i]
  BY <1>1, <1>2
<1>4. t[Len(s) + 1] = p
  BY <1>1, <1>2
<1>5. DOMAIN s = 1 .. Len(s) /\ DOMAIN t = 1 .. Len(s) + 1
  BY <1>1, <1>2
<1>6. Range(t) = T
  <2>1. Range(t) \subseteq T
    BY <1>2, <1>5 DEF Range
  <2>2. p \in Range(t)
    BY <1>2, <1>4, <1>5 DEF Range
  <2>3. ASSUME NEW x \in Range(s) PROVE x \in Range(t)
    <3>1. PICK i \in 1 .. Len(s) : x = s[i]
      BY <1>5 DEF Range
    <3>2. i \in 1 .. Len(s) + 1 /\ t[i] = x
      BY <3>1, <1>2, <1>3
    <3> QED BY <3>2, <1>5 DEF Range
  <2> QED BY <2>1, <2>2, <2>3
<1>7. s \o <<p>> = t
  BY <1>1
<1> QED BY <1>2, <1>6, <1>7

LEMMA NoneMore == ASSUME NEW s, s \in Seq(Range(s)) PROVE s \o << >> = s
OBVIOUS

LEMMA EmptyRuns == << >> \in Seq(Range(<< >>)) /\ Range(<< >>) = {}
BY DEF Range

LEMMA Fields ==
    ASSUME NEW s, NEW load
    PROVE  Route(s, load).slot = s /\ Route(s, load).load = load
BY DEF Route

(* Membership in what a set of routes carries.                             *)
LEMMA InLoaded ==
    ASSUME NEW rs, NEW a
    PROVE  a \in Loaded(rs) <=> \E r \in rs : a \in r.load
BY DEF Loaded

(* Routes of their own among those of a set.                               *)
LEMMA DisjointSubset ==
    ASSUME NEW rs, NEW some \in SUBSET rs, Disjoint(rs)
    PROVE  Disjoint(some)
BY DEF Disjoint

(* One route more, with a slot and a load nobody has.                      *)
LEMMA DisjointOneMore ==
    ASSUME NEW rs, Disjoint(rs), NEW r,
           \A q \in rs : q.slot # r.slot, Loaded(rs) \intersect r.load = {}
    PROVE  Disjoint(rs \union {r}) /\ Loaded(rs \union {r}) = Loaded(rs) \union r.load
<1>1. ASSUME NEW q \in rs PROVE q.load \intersect r.load = {}
  BY InLoaded
<1>2. Disjoint(rs \union {r})
  BY <1>1 DEF Disjoint
<1>3. ASSUME NEW a PROVE a \in Loaded(rs \union {r}) <=> a \in Loaded(rs) \union r.load
  BY InLoaded
<1> QED BY <1>2, <1>3

(* Taking routes out takes out what they carry and no more.                *)
LEMMA LoadedWithout ==
    ASSUME NEW rs, Disjoint(rs), NEW some \in SUBSET rs
    PROVE  Loaded(rs \ some) = Loaded(rs) \ Loaded(some)
<1>1. ASSUME NEW a, a \in Loaded(rs \ some) PROVE a \in Loaded(rs) \ Loaded(some)
  BY <1>1, InLoaded DEF Disjoint
<1>2. ASSUME NEW a, a \in Loaded(rs) \ Loaded(some) PROVE a \in Loaded(rs \ some)
  BY <1>2, InLoaded
<1> QED BY <1>1, <1>2

LEMMA EmptyRoutes == Disjoint({}) /\ Loaded({}) = {}
BY DEF Disjoint, Loaded

-----------------------------------------------------------------------------
(* A search ends: what it returns is accounted for, and nothing stays.     *)
LEMMA FinishKeeps ==
    ASSUME IInv, NEW plans, Finish(plans), UNCHANGED requestVars, phase # "idle",
           \/ plans = << >>
           \/ \E p : plans = <<p>> /\ Accounted(p)
    PROVE  IInv'
<1>1. /\ phase' = "next" /\ runs' = runs \o plans
      /\ drafts' = {} /\ routes' = {} /\ assigned' = {} /\ queue' = {}
      /\ rolledBack' = FALSE /\ allocations' = allocations
  BY DEF Finish, requestVars
<1>2. runs' \in Seq(Range(runs')) /\ \A p \in Range(runs') : Accounted(p)
  <2>1. CASE plans = << >>
    BY <2>1, <1>1, NoneMore DEF IInv, AllocationsAreAccounted
  <2>2. CASE \E p : plans = <<p>> /\ Accounted(p)
    <3>1. PICK p : plans = <<p>> /\ Accounted(p)
      BY <2>2
    <3>2. runs' \in Seq(Range(runs')) /\ Range(runs') = Range(runs) \union {p}
      BY <3>1, <1>1, OneMore DEF IInv
    <3> QED BY <3>1, <3>2 DEF IInv, AllocationsAreAccounted
  <2> QED BY <2>1, <2>2
<1>3. AllocationsAreAccounted'
  BY <1>1, <1>2 DEF AllocationsAreAccounted, Accounted, Disjoint, Loaded, OrdersOf, Group
<1>4. LoadsAreAssigned' /\ DraftsAreApart' /\ QueueIsLeft' /\ PartsStayTogether' /\ NothingStays'
  BY <1>1, EmptyRoutes
  DEF LoadsAreAssigned, DraftsAreApart, QueueIsLeft, PartsStayTogether, NothingStays, Disjoint,
      Loaded
<1> QED BY <1>1, <1>2, <1>3, <1>4 DEF IInv

(* A step of a search that ends none: the plans stay.                      *)
LEMMA PlansStay ==
    ASSUME IInv, UNCHANGED <<allocations, runs>>
    PROVE  runs' \in Seq(Range(runs')) /\ AllocationsAreAccounted'
BY DEF IInv, AllocationsAreAccounted, Accounted, Disjoint, Loaded, OrdersOf, Group

LEMMA NoDriverKeeps == ASSUME IInv, NoDriver PROVE IInv'
<1> DEFINE orders == OrdersOf(allocations)
           p == Plan("OR-Tools", "INFEASIBLE", {}, orders, Cardinality(orders), FALSE, FALSE,
                     NoDrivers)
<1>1. Accounted(p)
  BY EmptyRoutes DEF Accounted, Plan
<1>2. Finish(<<p>>) /\ UNCHANGED requestVars /\ phase # "idle"
  BY DEF NoDriver
<1> QED BY <1>1, <1>2, FinishKeeps

LEMMA SearchFailsKeeps == ASSUME IInv, SearchFails PROVE IInv'
<1>1. PICK status \in {"INFEASIBLE", "TIMEOUT"} :
         Finish(<<Plan("OR-Tools", status, {}, {}, 0, FALSE, FALSE, NoDrivers)>>)
  BY DEF SearchFails
<1> DEFINE p == Plan("OR-Tools", status, {}, {}, 0, FALSE, FALSE, NoDrivers)
<1>2. Accounted(p)
  BY EmptyRoutes DEF Accounted, Plan
<1>3. UNCHANGED requestVars /\ phase # "idle"
  BY DEF SearchFails
<1> QED BY <1>1, <1>2, <1>3, FinishKeeps

LEMMA WorkerFailsKeeps == ASSUME IInv, WorkerFails PROVE IInv'
<1>1. Finish(<< >>) /\ UNCHANGED requestVars /\ phase # "idle"
  BY DEF WorkerFails
<1> QED BY <1>1, FinishKeeps

(* The list of those left out is made from what is assigned, the routes    *)
(* are what they are: the plan is accounted for as the two agree.          *)
LEMMA ReportKeeps == ASSUME IInv, Report PROVE IInv'
<1> DEFINE left == OrdersOf(allocations \ assigned)
           Plans(c) == Plan("OR-Tools", Status(left), routes, left, Cardinality(left),
                            rolledBack, c, Staffing(routes))
<1>0. PICK compared \in BOOLEAN : Finish(<<Plans(compared)>>)
  BY DEF Report
<1> DEFINE p == Plans(compared)
<1>1. p.routes = routes /\ p.reported = left /\ p.lost = rolledBack
  BY DEF Plan
<1>2. UNCHANGED requestVars /\ phase = "report"
  BY DEF Report
<1>3. Disjoint(routes) /\ Loaded(routes) = assigned /\ assigned \subseteq allocations
  BY DEF IInv, LoadsAreAssigned
<1>4. ~rolledBack => \A a \in assigned : Group(a) \subseteq assigned
  BY <1>2 DEF IInv, PartsStayTogether
<1> HIDE DEF p
<1>5. Accounted(p)
  BY <1>1, <1>3, <1>4 DEF Accounted
<1> QED BY <1>0, <1>2, <1>5, FinishKeeps DEF p

-----------------------------------------------------------------------------
(* The steps of a search.                                                  *)

(* An allocation has one slot in a solution, a slot one draft.             *)
LEMMA SearchKeeps == ASSUME IInv, Search PROVE IInv'
<1>1. PICK at \in Solutions : drafts' = DraftsOf(at)
  BY DEF Search
<1>2. /\ phase = "start" /\ phase' = "validate"
      /\ UNCHANGED <<allocations, routes, assigned, queue, rolledBack, runs>>
  BY DEF Search, requestVars
<1>3. at \in [allocations -> {{}} \union {{s} : s \in safe}]
  BY DEF Solutions
<1>4. routes = {} /\ assigned = {} /\ queue = {}
  BY <1>2 DEF IInv, NothingStays
<1>5. ASSUME NEW d \in drafts'
      PROVE  d.load \subseteq allocations
  <2>1. PICK s \in UNION Range(at) : d = Route(s, {a \in allocations : at[a] = {s}})
    BY <1>1 DEF DraftsOf
  <2> QED BY <2>1, Fields
<1>6. Disjoint(drafts')
  <2> SUFFICES ASSUME NEW r \in drafts', NEW q \in drafts', r # q
               PROVE  r.slot # q.slot /\ r.load \intersect q.load = {}
    BY DEF Disjoint
  <2>1. PICK s \in UNION Range(at) : r = Route(s, {a \in allocations : at[a] = {s}})
    BY <1>1 DEF DraftsOf
  <2>2. PICK t \in UNION Range(at) : q = Route(t, {a \in allocations : at[a] = {t}})
    BY <1>1 DEF DraftsOf
  <2>3. s # t
    BY <2>1, <2>2
  <2>4. r.slot = s /\ q.slot = t
    BY <2>1, <2>2, Fields
  <2>5. r.load = {a \in allocations : at[a] = {s}} /\ q.load = {a \in allocations : at[a] = {t}}
    BY <2>1, <2>2, Fields
  <2> QED BY <2>3, <2>4, <2>5
<1>7. Loaded(drafts') \subseteq allocations
  BY <1>5 DEF Loaded
<1>8. DraftsAreApart'
  BY <1>2, <1>4, <1>6, <1>7 DEF DraftsAreApart, Disjoint, Loaded
<1>9. LoadsAreAssigned' /\ QueueIsLeft' /\ PartsStayTogether' /\ NothingStays'
  BY <1>2, <1>4 DEF IInv, LoadsAreAssigned, QueueIsLeft, PartsStayTogether, NothingStays,
                    Disjoint, Loaded
<1> QED BY <1>2, <1>8, <1>9, PlansStay DEF IInv

LEMMA AcceptKeeps ==
    ASSUME IInv, NEW d, NEW load, load \subseteq d.load, Accept(d, load)
    PROVE  IInv'
<1> DEFINE r == Route(d.slot, load)
<1>1. /\ phase = "validate" /\ d \in drafts /\ drafts' = drafts \ {d}
      /\ routes' = routes \union {r} /\ assigned' = assigned \union load
      /\ UNCHANGED <<allocations, phase, queue, rolledBack, runs>>
  BY DEF Accept, requestVars
<1>2. r.slot = d.slot /\ r.load = load
  BY Fields
<1>3. /\ Disjoint(routes) /\ Loaded(routes) = assigned /\ assigned \subseteq allocations
      /\ Disjoint(drafts) /\ Loaded(drafts) \subseteq allocations \ assigned
      /\ \A e \in drafts, q \in routes : e.slot # q.slot
  BY DEF IInv, LoadsAreAssigned, DraftsAreApart
<1>4. load \subseteq allocations \ assigned
  BY <1>1, <1>3, InLoaded
<1>5. Disjoint(routes') /\ Loaded(routes') = assigned'
  <2>1. \A q \in routes : q.slot # r.slot
    BY <1>1, <1>2, <1>3
  <2>2. Loaded(routes) \intersect r.load = {}
    BY <1>2, <1>3, <1>4
  <2> QED BY <1>1, <1>2, <1>3, <2>1, <2>2, DisjointOneMore
<1>6. LoadsAreAssigned'
  BY <1>1, <1>3, <1>4, <1>5 DEF LoadsAreAssigned, Disjoint, Loaded
<1>7. DraftsAreApart'
  <2>1. Disjoint(drafts') /\ Loaded(drafts') = Loaded(drafts) \ Loaded({d})
    BY <1>1, <1>3, LoadedWithout, DisjointSubset
  <2>2. Loaded({d}) = d.load
    BY DEF Loaded
  <2>3. Loaded(drafts') \subseteq allocations' \ assigned'
    BY <1>1, <1>3, <2>1, <2>2
  <2>4. \A e \in drafts', q \in routes' : e.slot # q.slot
    BY <1>1, <1>2, <1>3 DEF Disjoint
  <2> QED BY <2>1, <2>3, <2>4 DEF DraftsAreApart, Disjoint, Loaded
<1>8. queue = {}
  BY <1>1 DEF IInv, NothingStays
<1>9. QueueIsLeft' /\ PartsStayTogether' /\ NothingStays'
  BY <1>1, <1>8 DEF IInv, QueueIsLeft, PartsStayTogether, NothingStays
<1> QED BY <1>1, <1>6, <1>7, <1>9, PlansStay DEF IInv

LEMMA RejectKeeps == ASSUME IInv, NEW d, Reject(d) PROVE IInv'
<1>1. /\ phase = "validate" /\ drafts' = drafts \ {d}
      /\ UNCHANGED <<allocations, phase, routes, assigned, queue, rolledBack, runs>>
  BY DEF Reject, requestVars
<1>2. DraftsAreApart'
  BY <1>1, InLoaded DEF IInv, DraftsAreApart, Disjoint, Loaded
<1>3. LoadsAreAssigned' /\ QueueIsLeft' /\ PartsStayTogether' /\ NothingStays'
  BY <1>1 DEF IInv, LoadsAreAssigned, QueueIsLeft, PartsStayTogether, NothingStays, Disjoint,
              Loaded
<1> QED BY <1>1, <1>2, <1>3, PlansStay DEF IInv

LEMMA EndValidationKeeps == ASSUME IInv, EndValidation PROVE IInv'
<1>1. /\ phase = "validate" /\ phase' = "recover" /\ drafts' = {}
      /\ queue' \subseteq allocations \ assigned
      /\ UNCHANGED <<allocations, routes, assigned, rolledBack, runs>>
  BY DEF EndValidation, requestVars
<1>2. DraftsAreApart'
  BY <1>1, EmptyRoutes DEF DraftsAreApart, Disjoint, Loaded
<1>3. LoadsAreAssigned' /\ QueueIsLeft' /\ PartsStayTogether' /\ NothingStays'
  BY <1>1 DEF IInv, LoadsAreAssigned, QueueIsLeft, PartsStayTogether, NothingStays, Disjoint,
              Loaded
<1> QED BY <1>1, <1>2, <1>3, PlansStay DEF IInv

(* An allocation that is on no route is added to the route of a slot, or   *)
(* becomes one.                                                            *)
LEMMA PlaceKeeps ==
    ASSUME LoadsAreAssigned, NEW a \in allocations \ assigned, NEW s, Place(a, s),
           UNCHANGED allocations
    PROVE  LoadsAreAssigned' /\ assigned' = assigned \union {a}
<1> DEFINE here == {r \in routes : r.slot = s}
           r0 == Route(s, Loaded(here) \union {a})
<1>1. routes' = (routes \ here) \union {r0} /\ assigned' = assigned \union {a}
  BY DEF Place
<1>2. Disjoint(routes) /\ Loaded(routes) = assigned /\ assigned \subseteq allocations
  BY DEF LoadsAreAssigned
<1>3. Disjoint(routes \ here) /\ Loaded(routes \ here) = assigned \ Loaded(here)
  BY <1>2, LoadedWithout, DisjointSubset
<1>4. Loaded(here) \subseteq assigned
  BY <1>2, InLoaded
<1>5. r0.slot = s /\ r0.load = Loaded(here) \union {a}
  BY Fields
<1>6. Disjoint(routes') /\ Loaded(routes') = assigned'
  <2>1. \A q \in routes \ here : q.slot # r0.slot
    BY <1>5
  <2>2. Loaded(routes \ here) \intersect r0.load = {}
    BY <1>3, <1>5
  <2>3. /\ Disjoint((routes \ here) \union {r0})
        /\ Loaded((routes \ here) \union {r0}) = Loaded(routes \ here) \union r0.load
    BY <1>3, <2>1, <2>2, DisjointOneMore
  <2> QED BY <1>1, <1>3, <1>4, <1>5, <2>3
<1> QED BY <1>1, <1>2, <1>6 DEF LoadsAreAssigned, Disjoint, Loaded

LEMMA RecoverKeeps == ASSUME IInv, NEW a, Recover(a) PROVE IInv'
<1>1. /\ phase = "recover" /\ a \in queue /\ queue' \in {queue \ {a}, {}}
      /\ UNCHANGED <<allocations, phase, drafts, rolledBack, runs>>
  BY DEF Recover, requestVars
<1>2. a \in allocations \ assigned /\ drafts = {}
  BY <1>1 DEF IInv, QueueIsLeft, NothingStays
<1>3. LoadsAreAssigned' /\ assigned' \subseteq assigned \union {a}
  <2>1. ASSUME NEW s \in safe, Place(a, s)
        PROVE  LoadsAreAssigned' /\ assigned' \subseteq assigned \union {a}
    BY <1>1, <1>2, <2>1, PlaceKeeps DEF IInv
  <2>2. CASE UNCHANGED <<routes, assigned>>
    BY <1>1, <2>2 DEF IInv, LoadsAreAssigned, Disjoint, Loaded
  <2> QED BY <2>1, <2>2 DEF Recover
<1>4. QueueIsLeft'
  BY <1>1, <1>3 DEF IInv, QueueIsLeft
<1>5. DraftsAreApart'
  BY <1>1, <1>2, EmptyRoutes DEF DraftsAreApart, Disjoint, Loaded
<1>6. PartsStayTogether' /\ NothingStays'
  BY <1>1 DEF IInv, PartsStayTogether, NothingStays
<1> QED BY <1>1, <1>3, <1>4, <1>5, <1>6, PlansStay DEF IInv

(* What is taken out of the routes is taken out of what is assigned.       *)
LEMMA DropKeeps == ASSUME IInv, DropIncompleteSplits PROVE IInv'
<1>1. /\ phase = "recover" /\ queue = {} /\ phase' \in {"consolidate", "report"}
      /\ UNCHANGED <<allocations, drafts, queue, runs>>
  BY DEF DropIncompleteSplits, StillAssigned, requestVars
<1>2. Disjoint(routes) /\ Loaded(routes) = assigned /\ assigned \subseteq allocations
  BY DEF IInv, LoadsAreAssigned
<1>3. drafts = {} /\ rolledBack \in BOOLEAN
  BY <1>1 DEF IInv, NothingStays
<1>4. /\ Disjoint(routes') /\ Loaded(routes') = assigned' /\ assigned' \subseteq allocations
      /\ rolledBack' \in BOOLEAN
      /\ ~rolledBack' => \A a \in assigned' : Group(a) \subseteq assigned'
  <2>1. CASE Incomplete = {}
    <3>1. UNCHANGED <<routes, assigned, rolledBack>>
      BY <2>1 DEF DropIncompleteSplits, StillAssigned
    <3>2. ASSUME NEW a \in assigned PROVE Group(a) \subseteq assigned
      <4>1. a \in allocations /\ a \in Group(a)
        BY <1>2 DEF Group
      <4> QED BY <4>1, <2>1 DEF Incomplete
    <3> QED BY <1>2, <1>3, <3>1, <3>2 DEF Disjoint, Loaded
  <2>2. CASE Incomplete # {}
    <3> DEFINE left == {Remaining(r) : r \in {q \in routes : Remaining(q).load # {}}}
    <3>1. PICK lost \in SUBSET left :
             /\ routes' = left \ lost
             /\ assigned' = (assigned \ Loaded(lost)) \ Incomplete
             /\ rolledBack' = (lost # {})
      BY <2>2 DEF DropIncompleteSplits, StillAssigned
    <3>2. ASSUME NEW r
          PROVE  Remaining(r).slot = r.slot /\ Remaining(r).load = r.load \ Incomplete
      BY Fields DEF Remaining
    <3>3. Disjoint(left)
      <4> SUFFICES ASSUME NEW r \in routes, NEW q \in routes, Remaining(r) # Remaining(q)
                   PROVE  /\ Remaining(r).slot # Remaining(q).slot
                          /\ Remaining(r).load \intersect Remaining(q).load = {}
        BY DEF Disjoint
      <4>1. r # q
        OBVIOUS
      <4>2. r.slot # q.slot /\ r.load \intersect q.load = {}
        BY <1>2, <4>1 DEF Disjoint
      <4> QED BY <3>2, <4>2
    <3>4. Loaded(left) = assigned \ Incomplete
      <4>1. ASSUME NEW a, a \in Loaded(left) PROVE a \in assigned \ Incomplete
        <5>1. PICK r \in routes : a \in Remaining(r).load
          BY <4>1, InLoaded
        <5> QED BY <5>1, <3>2, <1>2, InLoaded
      <4>2. ASSUME NEW a, a \in assigned \ Incomplete PROVE a \in Loaded(left)
        <5>1. PICK r \in routes : a \in r.load
          BY <4>2, <1>2, InLoaded
        <5>2. a \in Remaining(r).load
          BY <5>1, <4>2, <3>2
        <5>3. Remaining(r) \in left
          BY <5>2
        <5> QED BY <5>2, <5>3, InLoaded
      <4> QED BY <4>1, <4>2
    <3>5. Disjoint(routes') /\ Loaded(routes') = assigned'
      <4> HIDE DEF left
      <4>1. Loaded(left \ lost) = Loaded(left) \ Loaded(lost) /\ Disjoint(left \ lost)
        BY <3>3, LoadedWithout, DisjointSubset
      <4>2. Disjoint(routes') <=> Disjoint(left \ lost)
        BY <3>1
      <4>3. Loaded(routes') = Loaded(left \ lost)
        BY <3>1
      <4> QED BY <3>1, <3>4, <4>1, <4>2, <4>3
    <3>6. assigned' \subseteq allocations /\ rolledBack' \in BOOLEAN
      BY <1>2, <3>1
    <3>7. ASSUME ~rolledBack', NEW a \in assigned' PROVE Group(a) \subseteq assigned'
      <4>1. assigned' = assigned \ Incomplete
        BY <3>1, <3>7 DEF Loaded
      <4>2. a \in allocations /\ a \in assigned /\ a \in Group(a) /\ a \notin Incomplete
        BY <1>2, <4>1 DEF Group
      <4>3. Group(a) \subseteq assigned
        BY <4>2 DEF Incomplete
      <4>4. ASSUME NEW b \in Group(a) PROVE b \notin Incomplete
        <5>1. Group(b) = Group(a)
          BY DEF Group
        <5> QED BY <5>1, <4>3 DEF Incomplete
      <4> QED BY <4>1, <4>3, <4>4
    <3> QED BY <3>5, <3>6, <3>7
  <2> QED BY <2>1, <2>2
<1>5. LoadsAreAssigned'
  BY <1>1, <1>4 DEF LoadsAreAssigned, Disjoint, Loaded
<1>6. DraftsAreApart' /\ QueueIsLeft' /\ PartsStayTogether' /\ NothingStays'
  BY <1>1, <1>3, <1>4
  DEF DraftsAreApart, QueueIsLeft, PartsStayTogether, NothingStays, Disjoint, Loaded, Group
<1> QED BY <1>1, <1>4, <1>5, <1>6, PlansStay DEF IInv

(* Two routes become one that carries what they carried, on a slot of      *)
(* theirs or one that has no route.                                        *)
LEMMA ConsolidateKeeps == ASSUME IInv, NEW r, NEW q, Consolidate(r, q) PROVE IInv'
<1>1. /\ phase = "consolidate" /\ r \in routes /\ q \in routes /\ r # q
      /\ r.slot.day = q.slot.day
      /\ UNCHANGED <<allocations, phase, drafts, assigned, queue, rolledBack, runs>>
  BY DEF Consolidate, requestVars
<1>2. PICK s \in Targets(r, q) :
         routes' = (routes \ {r, q}) \union {Route(s, r.load \union q.load)}
  BY DEF Consolidate
<1> DEFINE merged == Route(s, r.load \union q.load)
<1>3. merged.slot = s /\ merged.load = r.load \union q.load
  BY Fields
<1>4. Disjoint(routes) /\ Loaded(routes) = assigned /\ assigned \subseteq allocations
  BY DEF IInv, LoadsAreAssigned
<1>5. \A other \in routes \ {r, q} : other.slot # s
  BY <1>1, <1>4 DEF Targets, Disjoint
<1>6. /\ Disjoint(routes \ {r, q})
      /\ Loaded(routes \ {r, q}) = assigned \ (r.load \union q.load)
  <2>1. {r, q} \in SUBSET routes /\ Loaded({r, q}) = r.load \union q.load
    BY <1>1 DEF Loaded
  <2> QED BY <2>1, <1>4, LoadedWithout, DisjointSubset
<1>7. r.load \union q.load \subseteq assigned
  BY <1>1, <1>4, InLoaded
<1>8. Disjoint(routes') /\ Loaded(routes') = assigned'
  <2>1. /\ Disjoint((routes \ {r, q}) \union {merged})
        /\ Loaded((routes \ {r, q}) \union {merged}) = Loaded(routes \ {r, q}) \union merged.load
    BY <1>3, <1>5, <1>6, DisjointOneMore
  <2> QED BY <1>1, <1>2, <1>3, <1>6, <1>7, <2>1
<1>9. LoadsAreAssigned'
  BY <1>1, <1>4, <1>8 DEF LoadsAreAssigned, Disjoint, Loaded
<1>10. drafts = {} /\ DraftsAreApart'
  BY <1>1, EmptyRoutes DEF IInv, NothingStays, DraftsAreApart, Disjoint, Loaded
<1>11. QueueIsLeft' /\ PartsStayTogether' /\ NothingStays'
  BY <1>1 DEF IInv, QueueIsLeft, PartsStayTogether, NothingStays, Group
<1> QED BY <1>1, <1>9, <1>10, <1>11, PlansStay DEF IInv

-----------------------------------------------------------------------------
(* Steps outside a search.                                                 *)

(* Nothing of a search changes, the plans stay or are gone.                *)
LEMMA OutsideKeeps ==
    ASSUME IInv, UNCHANGED <<allocations, drafts, routes, assigned, queue, rolledBack>>,
           runs' \in {runs, << >>},
           phase \notin {"validate", "recover", "consolidate", "report"},
           phase' \notin {"validate", "recover", "consolidate", "report", "idle"}
    PROVE  IInv'
<1>1. runs' \in Seq(Range(runs')) /\ AllocationsAreAccounted'
  <2>1. CASE runs' = runs
    BY <2>1, PlansStay
  <2>2. CASE runs' = << >>
    BY <2>2, EmptyRuns DEF AllocationsAreAccounted
  <2> QED BY <2>1, <2>2
<1>2. LoadsAreAssigned' /\ DraftsAreApart' /\ QueueIsLeft' /\ PartsStayTogether' /\ NothingStays'
  BY DEF IInv, LoadsAreAssigned, DraftsAreApart, QueueIsLeft, PartsStayTogether, NothingStays,
         Disjoint, Loaded
<1> QED BY <1>1, <1>2 DEF IInv

LEMMA PrepareKeeps == ASSUME IInv, NEW orders, Prepare(orders) PROVE IInv'
<1>1. /\ phase = "idle" /\ phase' \in {"tiny", "start"}
      /\ UNCHANGED <<drafts, routes, assigned, queue, rolledBack, runs>>
  BY DEF Prepare, searchVars
<1>2. runs = << >> /\ drafts = {} /\ routes = {} /\ assigned = {} /\ queue = {}
  BY <1>1 DEF IInv, NothingStays
<1>3. runs' \in Seq(Range(runs')) /\ AllocationsAreAccounted'
  BY <1>1, <1>2, EmptyRuns DEF AllocationsAreAccounted
<1>4. LoadsAreAssigned' /\ DraftsAreApart' /\ QueueIsLeft' /\ PartsStayTogether' /\ NothingStays'
  BY <1>1, <1>2, EmptyRoutes
  DEF LoadsAreAssigned, DraftsAreApart, QueueIsLeft, PartsStayTogether, NothingStays, Disjoint,
      Loaded
<1> QED BY <1>1, <1>3, <1>4 DEF IInv

(* The routes of the hybrid search are chosen apart from each other.       *)
LEMMA HybridKeeps == ASSUME IInv, HybridEnds PROVE IInv'
<1>1. PICK rs \in RouteSets(HybridSlots(slots)), compared \in BOOLEAN :
         runs' = Append(runs, HybridPlan(rs, compared))
  BY DEF HybridEnds
<1>2. /\ phase = "next" /\ phase' = phase
      /\ UNCHANGED <<allocations, drafts, routes, assigned, queue, rolledBack>>
  BY DEF HybridEnds, requestVars, searchVars
<1>3. Disjoint(rs) /\ rs \subseteq RouteOptions(HybridSlots(slots))
  BY DEF RouteSets, kSubset
<1>4. Loaded(rs) \subseteq allocations
  <2>1. ASSUME NEW r \in rs PROVE r.load \subseteq allocations
    BY <1>3, Fields DEF RouteOptions
  <2> QED BY <2>1 DEF Loaded
<1> DEFINE p == HybridPlan(rs, compared)
<1>5. p.by = "hybrid" /\ p.routes = rs /\ p.reported = OrdersOf(allocations \ Loaded(rs))
  BY DEF HybridPlan, Plan
<1> HIDE DEF p
<1>6. Accounted(p)
  BY <1>3, <1>4, <1>5 DEF Accounted
<1> USE DEF p
<1>7. runs' \in Seq(Range(runs')) /\ Range(runs') = Range(runs) \union {p}
  BY <1>1, OneMore DEF IInv
<1>8. AllocationsAreAccounted'
  <2> HIDE DEF p
  <2>1. \A q \in Range(runs') : Accounted(q)
    BY <1>6, <1>7 DEF IInv, AllocationsAreAccounted
  <2> QED BY <2>1, <1>2 DEF AllocationsAreAccounted, Accounted, Disjoint, Loaded, OrdersOf, Group
<1>9. LoadsAreAssigned' /\ DraftsAreApart' /\ QueueIsLeft' /\ PartsStayTogether' /\ NothingStays'
  BY <1>2 DEF IInv, LoadsAreAssigned, DraftsAreApart, QueueIsLeft, PartsStayTogether,
              NothingStays, Disjoint, Loaded
<1> QED BY <1>2, <1>7, <1>8, <1>9 DEF IInv

LEMMA InitIInv == Init => IInv
BY EmptyRuns, EmptyRoutes
DEF Init, Idle, IInv, AllocationsAreAccounted, LoadsAreAssigned, DraftsAreApart, QueueIsLeft,
    PartsStayTogether, NothingStays

LEMMA SearchStepKeeps == ASSUME IInv, SearchStep PROVE IInv'
<1>1. CASE NoDriver BY <1>1, NoDriverKeeps
<1>2. CASE SearchFails BY <1>2, SearchFailsKeeps
<1>3. CASE Search BY <1>3, SearchKeeps
<1>4. ASSUME NEW d \in drafts, Keep(d) PROVE IInv'
  BY <1>4, AcceptKeeps DEF Keep
<1>5. ASSUME NEW d \in drafts, Shorten(d) PROVE IInv'
  <2>1. PICK a \in d.load : Accept(d, d.load \ {a})
    BY <1>5 DEF Shorten
  <2>2. d.load \ {a} \subseteq d.load
    OBVIOUS
  <2> QED BY <2>1, <2>2, AcceptKeeps
<1>6. ASSUME NEW d \in drafts, Reject(d) PROVE IInv'
  BY <1>6, RejectKeeps
<1>7. CASE EndValidation BY <1>7, EndValidationKeeps
<1>8. ASSUME NEW a \in queue, Recover(a) PROVE IInv'
  BY <1>8, RecoverKeeps
<1>9. CASE DropIncompleteSplits BY <1>9, DropKeeps
<1>10. ASSUME NEW r \in routes, NEW q \in routes, Consolidate(r, q) PROVE IInv'
  BY <1>10, ConsolidateKeeps
<1>11. CASE EndConsolidation
  <2>1. /\ phase = "consolidate" /\ phase' = "report"
        /\ UNCHANGED <<allocations, drafts, routes, assigned, queue, rolledBack, runs>>
    BY <1>11 DEF EndConsolidation, requestVars, searchVars
  <2> QED BY <2>1, PlansStay
      DEF IInv, LoadsAreAssigned, DraftsAreApart, QueueIsLeft, PartsStayTogether, NothingStays,
          Disjoint, Loaded, Group
<1>12. CASE Report BY <1>12, ReportKeeps
<1>13. CASE WorkerFails BY <1>13, WorkerFailsKeeps
<1> QED BY <1>1, <1>2, <1>3, <1>4, <1>5, <1>6, <1>7, <1>8, <1>9, <1>10, <1>11, <1>12, <1>13
    DEF SearchStep

LEMMA StepKeeps == IInv /\ [Next]_vars => IInv'
<1> SUFFICES ASSUME IInv, [Next]_vars PROVE IInv'
  OBVIOUS
<1>1. ASSUME NEW orders \in Backlogs, Prepare(orders) PROVE IInv'
  BY <1>1, PrepareKeeps
<1>2. ASSUME NEW orders \in Backlogs, SplitLimit(orders) PROVE IInv'
  BY <1>2, OutsideKeeps DEF SplitLimit, Fail, requestVars, searchVars
<1>3. CASE Exhaustive
  BY <1>3, OutsideKeeps DEF Exhaustive, requestVars, searchVars
<1>4. CASE ExhaustiveFindsNothing
  BY <1>4, OutsideKeeps DEF ExhaustiveFindsNothing, requestVars, searchVars
<1>5. CASE SearchStep
  BY <1>5, SearchStepKeeps
<1>6. CASE NextRun
  BY <1>6, OutsideKeeps DEF NextRun, requestVars, searchVars
<1>7. CASE AllFail
  BY <1>7, OutsideKeeps DEF AllFail, Fail, requestVars, searchVars
<1>8. CASE HybridEnds
  BY <1>8, HybridKeeps
<1>9. CASE HybridGivesNothing
  BY <1>9, OutsideKeeps DEF HybridGivesNothing, requestVars, searchVars
<1>10. CASE Choose
  BY <1>10, OutsideKeeps DEF Choose, requestVars, searchVars
<1>11. CASE Refuse
  BY <1>11, OutsideKeeps DEF Refuse, Answer, requestVars, searchVars
<1>12. CASE Offer
  BY <1>12, OutsideKeeps DEF Offer, Answer, requestVars, searchVars
<1>13. CASE \E i \in DOMAIN candidates : Apply(i)
  <2>1. /\ phase' = phase /\ runs' = runs
        /\ UNCHANGED <<allocations, drafts, routes, assigned, queue, rolledBack>>
    BY <1>13 DEF Apply, requestVars, searchVars
  <2> QED BY <2>1, PlansStay
      DEF IInv, LoadsAreAssigned, DraftsAreApart, QueueIsLeft, PartsStayTogether, NothingStays,
          Disjoint, Loaded, Group
<1>14. CASE UNCHANGED vars
  <2>1. /\ phase' = phase /\ runs' = runs
        /\ UNCHANGED <<allocations, drafts, routes, assigned, queue, rolledBack>>
    BY <1>14 DEF vars, requestVars, searchVars
  <2> QED BY <2>1, PlansStay
      DEF IInv, LoadsAreAssigned, DraftsAreApart, QueueIsLeft, PartsStayTogether, NothingStays,
          Disjoint, Loaded, Group
<1> QED BY <1>1, <1>2, <1>3, <1>4, <1>5, <1>6, <1>7, <1>8, <1>9, <1>10, <1>11, <1>12, <1>13,
           <1>14 DEF Next

LEMMA AlwaysIInv == Spec => []IInv
BY InitIInv, StepKeeps, PTL DEF Spec

-----------------------------------------------------------------------------
(* At every step of solve_with_objective the routes carry just the         *)
(* allocations in assigned_order_ids, each of them once: validation,       *)
(* recovery, taking split orders out and merging keep the two together.    *)
THEOREM RoutesCarryWhatIsAssigned == Spec => []LoadsAreAssigned
<1>1. IInv => LoadsAreAssigned
  BY DEF IInv
<1> QED BY <1>1, AlwaysIInv, PTL

(* Every plan of every search accounts for every allocation, and no        *)
(* OR-Tools plan that lost no route has part of an order.                  *)
THEOREM PlansAreAccounted == Spec => []AllocationsAreAccounted
<1>1. IInv => AllocationsAreAccounted
  BY DEF IInv
<1> QED BY <1>1, AlwaysIInv, PTL

-----------------------------------------------------------------------------
(* The slots that are kept have a driver each, whichever slots are asked   *)
(* for: the matching is a fold over the slots, and the fold exists.        *)

(* Induction, for a set of numbers.                                        *)
LEMMA Numbers ==
    ASSUME NEW A, 0 \in A, \A n \in Nat : n \in A => n + 1 \in A
    PROVE  Nat \subseteq A
<1> DEFINE R == {p \in Nat \X Nat : p[1] < p[2]}
           B == Nat \ A
<1>1. IsWellFoundedOn(R, Nat)
  BY NatLessThanWellFounded DEF OpToRel
<1>2. SUFFICES ASSUME B # {} PROVE FALSE
  OBVIOUS
<1>3. ASSUME NEW W, IsWellFoundedOn(W, Nat)
      PROVE  \E n \in B : \A m \in B : ~ (<<m, n>> \in W)
  BY <1>2, <1>3, WFMin
<1>4. PICK n \in B : \A m \in B : ~ (<<m, n>> \in R)
  BY <1>1, <1>3
<1>5. n \in Nat /\ n # 0 /\ n - 1 \in Nat /\ <<n - 1, n>> \in R
  OBVIOUS
<1>6. n - 1 \in A
  BY <1>4, <1>5
<1>7. (n - 1) + 1 \in A
  BY <1>5, <1>6
<1> QED BY <1>5, <1>7

Bare(kept) == {[slot |-> k] : k \in kept}

Grown(kept, s) == IF Staffable(Bare(kept \union {s})) THEN kept \union {s} ELSE kept

(* The fold up to some places of a sequence, as far as g knows it.         *)
Folded(sq, n, g) ==
    [d \in SUBSET (1 .. n) |->
        IF d = {} THEN {} ELSE Grown(g[d \ {Max(d)}], sq[Max(d)])]

LEMMA MatchedIsFold ==
    ASSUME NEW sq, NEW N, DOMAIN sq = 1 .. N
    PROVE  Matched(sq) = (CHOOSE g : g = Folded(sq, N, g))[1 .. N]
BY DEF Matched, FoldLeft, MapThenFoldSet, Folded, Grown, Bare

LEMMA MaxIsLast ==
    ASSUME NEW n \in Nat, NEW d \in SUBSET (1 .. n + 1), n + 1 \in d
    PROVE  Max(d) = n + 1
<1>1. \A x \in d : x \in Int /\ n + 1 >= x
  OBVIOUS
<1>2. \E x \in d : \A y \in d : x >= y
  BY <1>1
<1>3. PICK m : m = Max(d)
  OBVIOUS
<1>4. m \in d /\ \A y \in d : m >= y
  BY <1>2, <1>3 DEF Max
<1>5. m \in Int /\ n + 1 >= m /\ m >= n + 1
  BY <1>1, <1>4
<1>6. m = n + 1
  BY <1>5
<1> QED BY <1>3, <1>6

LEMMA FoldExists ==
    ASSUME NEW sq, NEW N \in Nat
    PROVE  \E g : g = Folded(sq, N, g)
<1> DEFINE A == {n \in Nat : \E g : g = Folded(sq, n, g)}
<1>1. 0 \in A
  <2> DEFINE g == [d \in SUBSET (1 .. 0) |-> {}]
  <2>1. SUBSET (1 .. 0) = {{}}
    OBVIOUS
  <2>2. g = Folded(sq, 0, g)
    BY <2>1 DEF Folded
  <2> QED BY <2>2
<1>2. ASSUME NEW n \in Nat, n \in A
      PROVE  n + 1 \in A
  <2>1. PICK g : g = Folded(sq, n, g)
    BY <1>2
  <2> DEFINE h == [d \in SUBSET (1 .. n + 1) |->
                     IF n + 1 \in d THEN Grown(g[d \ {n + 1}], sq[n + 1]) ELSE g[d]]
  <2>2. ASSUME NEW d \in SUBSET (1 .. n + 1)
        PROVE  h[d] = Folded(sq, n + 1, h)[d]
    <3>1. h[d] = IF n + 1 \in d THEN Grown(g[d \ {n + 1}], sq[n + 1]) ELSE g[d]
      OBVIOUS
    <3>2. Folded(sq, n + 1, h)[d]
            = IF d = {} THEN {} ELSE Grown(h[d \ {Max(d)}], sq[Max(d)])
      BY DEF Folded
    <3>3. \A e \in SUBSET (1 .. n) : e \in SUBSET (1 .. n + 1) /\ n + 1 \notin e
      OBVIOUS
    <3>4. \A e \in SUBSET (1 .. n) : h[e] = g[e]
      BY <3>3
    <3>5. CASE n + 1 \in d
      <4>1. Max(d) = n + 1 /\ d # {}
        BY <3>5, MaxIsLast
      <4>2. d \ {n + 1} \in SUBSET (1 .. n)
        OBVIOUS
      <4>3. h[d \ {n + 1}] = g[d \ {n + 1}]
        BY <3>4, <4>2
      <4> HIDE DEF h
      <4> QED BY <3>1, <3>2, <3>5, <4>1, <4>3
    <3>6. CASE n + 1 \notin d
      <4>1. d \in SUBSET (1 .. n) /\ d \ {Max(d)} \in SUBSET (1 .. n)
        <5>1. ASSUME NEW x \in d PROVE x \in 1 .. n
          <6>1. x \in 1 .. n + 1 /\ x # n + 1
            BY <3>6
          <6> QED BY <6>1
        <5> QED BY <5>1
      <4>2. g[d] = IF d = {} THEN {} ELSE Grown(g[d \ {Max(d)}], sq[Max(d)])
        BY <2>1, <4>1 DEF Folded
      <4>3. h[d \ {Max(d)}] = g[d \ {Max(d)}]
        BY <3>4, <4>1
      <4> HIDE DEF h
      <4> QED BY <3>1, <3>2, <3>6, <4>2, <4>3
    <3> QED BY <3>5, <3>6
  <2>3. h = Folded(sq, n + 1, h)
    <3>1. h = [d \in SUBSET (1 .. n + 1) |-> h[d]]
      OBVIOUS
    <3>2. Folded(sq, n + 1, h) = [d \in SUBSET (1 .. n + 1) |-> Folded(sq, n + 1, h)[d]]
      BY DEF Folded
    <3> HIDE DEF h
    <3> QED BY <2>2, <3>1, <3>2
  <2> HIDE DEF h
  <2> QED BY <2>3
<1>3. N \in A
  <2> HIDE DEF A
  <2> QED BY <1>1, <1>2, Numbers
<1> QED BY <1>3

LEMMA NoRoutesStaffable == Staffable({})
<1> DEFINE none == [r \in {} |-> {}]
<1>1. none \in Staffings({})
  BY DEF Staffings
<1> QED BY <1>1 DEF Staffable

(* What any search may use: slots that were asked for, each with a driver  *)
(* of its own on its day.                                                  *)
LEMMA MatchedIsStaffable ==
    ASSUME NEW sq, NEW N \in Nat, DOMAIN sq = 1 .. N
    PROVE  Staffable(Bare(Matched(sq))) /\ Matched(sq) \subseteq Range(sq)
<1> DEFINE g == CHOOSE f : f = Folded(sq, N, f)
           Good(kept) == Staffable(Bare(kept)) /\ kept \subseteq Range(sq)
           A == {n \in Nat : n <= N => Good(g[1 .. n])}
<1>1. g = Folded(sq, N, g)
  BY FoldExists
<1>2. Good({})
  BY NoRoutesStaffable DEF Bare
<1>3. ASSUME NEW kept, NEW s \in Range(sq), Good(kept)
      PROVE  Good(Grown(kept, s))
  BY <1>3 DEF Grown
<1> HIDE DEF g, Good
<1>4. 0 \in A
  <2>1. 1 .. 0 = {} /\ {} \in SUBSET (1 .. N)
    OBVIOUS
  <2>2. g[{}] = {}
    BY <1>1, <2>1 DEF Folded
  <2> QED BY <1>2, <2>1, <2>2
<1>5. ASSUME NEW n \in Nat, n \in A
      PROVE  n + 1 \in A
  <2>1. SUFFICES ASSUME n + 1 <= N PROVE Good(g[1 .. n + 1])
    OBVIOUS
  <2>2. n + 1 \in 1 .. n + 1 /\ 1 .. n + 1 \in SUBSET (1 .. N)
    BY <2>1
  <2>3. Max(1 .. n + 1) = n + 1
    BY MaxIsLast
  <2>4. (1 .. n + 1) \ {n + 1} = 1 .. n
    OBVIOUS
  <2>5. g[1 .. n + 1] = Grown(g[1 .. n], sq[n + 1])
    <3>1. g[1 .. n + 1] = Grown(g[(1 .. n + 1) \ {Max(1 .. n + 1)}], sq[Max(1 .. n + 1)])
      BY <1>1, <2>2 DEF Folded
    <3> QED BY <3>1, <2>3, <2>4
  <2>6. sq[n + 1] \in Range(sq)
    BY <2>1 DEF Range
  <2>7. Good(g[1 .. n])
    BY <1>5, <2>1
  <2> QED BY <1>3, <2>5, <2>6, <2>7
<1>6. Good(g[1 .. N])
  <2>1. N \in A
    <3> HIDE DEF A
    <3> QED BY <1>4, <1>5, Numbers
  <2> QED BY <2>1
<1>7. Matched(sq) = g[1 .. N]
  BY MatchedIsFold DEF g
<1> QED BY <1>6, <1>7 DEF Good

-----------------------------------------------------------------------------
(* The slots of a request.                                                 *)

LEMMA MinOfTwo ==
    ASSUME NEW m \in Int, NEW n \in Int
    PROVE  Min({m, n}) \in {m, n} /\ Min({m, n}) =< m /\ Min({m, n}) =< n
<1>1. \E x \in {m, n} : \A y \in {m, n} : x =< y
  <2>1. CASE m =< n BY <2>1
  <2>2. CASE n =< m BY <2>2
  <2> QED BY <2>1, <2>2
<1>2. PICK x : x = Min({m, n})
  OBVIOUS
<1>3. x \in {m, n} /\ \A y \in {m, n} : x =< y
  BY <1>1, <1>2 DEF Min
<1> QED BY <1>2, <1>3

IsSlot(s) == s = [day |-> s.day, truck |-> s.truck] /\ s.day \in 0 .. DayCount - 1

IsSlots(sq) == (\E n \in Nat : DOMAIN sq = 1 .. n) /\ \A s \in Range(sq) : IsSlot(s)

LEMMA FleetLength ==
    ASSUME IsFiniteSet(people)
    PROVE  Len(Fleet) \in Nat
<1> DEFINE m == Min({Len(Trucks), Cardinality(people)})
<1>1. Len(Trucks) \in Nat /\ Cardinality(people) \in Nat
  BY TrucksAssumption, FS_CardinalityType
<1>2. m \in Nat /\ m =< Len(Trucks)
  <2>1. Len(Trucks) \in Int /\ Cardinality(people) \in Int
    BY <1>1
  <2>2. m \in {Len(Trucks), Cardinality(people)} /\ m =< Len(Trucks)
    BY <2>1, MinOfTwo
  <2> HIDE DEF m
  <2> QED BY <1>1, <2>2
<1> HIDE DEF m
<1>3. Len(SubSeq(Trucks, 1, m)) \in Nat
  BY <1>1, <1>2, TrucksAssumption
<1> QED BY <1>3 DEF Fleet, m

(* Numbers and ranks.                                                      *)
LEMMA NoMore ==
    ASSUME NEW c \in Nat, NEW n \in Nat, NEW q \in Nat, q >= c
    PROVE  n * q >= n * c
<1>1. PICK m \in Nat : q = c + m
  <2>1. q - c \in Nat /\ q = c + (q - c)
    OBVIOUS
  <2> QED BY <2>1
<1>2. n * (c + m) = n * c + n * m
  OBVIOUS
<1>3. n * m \in Nat /\ n * c \in Nat
  OBVIOUS
<1> QED BY <1>1, <1>2, <1>3

LEMMA Quotient ==
    ASSUME NEW c \in Nat, NEW n \in Nat, NEW i \in 1 .. c * n
    PROVE  (i - 1) \div n \in 0 .. c - 1
<1>1. n # 0
  <2>1. c * 0 = 0
    OBVIOUS
  <2> QED BY <2>1
<1>2. PICK q : q = (i - 1) \div n
  OBVIOUS
<1>3. i - 1 \in Nat /\ n > 0 /\ c * n = n * c
  BY <1>1
<1>4. q \in Nat /\ n * q =< i - 1
  BY <1>2, <1>3
<1>5. n * c \in Nat /\ n * q \in Nat /\ i - 1 < n * c
  BY <1>3, <1>4
<1>6. ~(q >= c)
  BY <1>4, <1>5, NoMore
<1>7. q \in 0 .. c - 1
  BY <1>4, <1>6
<1> QED BY <1>2, <1>7

(* In a finite set in order, every number is how many come before one.     *)
InOrder(S, R) ==
    /\ \A x \in S : <<x, x>> \notin R
    /\ \A x, y \in S : x # y => <<x, y>> \in R \/ <<y, x>> \in R
    /\ \A x, y, z \in S : <<x, y>> \in R /\ <<y, z>> \in R => <<x, z>> \in R

Before(S, R, x) == {y \in S : <<y, x>> \in R}

LEMMA Ranks ==
    ASSUME NEW S, IsFiniteSet(S), NEW R, InOrder(S, R), NEW k \in 0 .. Cardinality(S) - 1
    PROVE  \E x \in S : Cardinality(Before(S, R, x)) = k
<1> DEFINE n == Cardinality(S)
           Below(x) == Before(S, R, x)
           f == [x \in S |-> Cardinality(Below(x))]
<1>1. n \in Nat /\ n > 0
  <2>1. n \in Nat
    BY FS_CardinalityType
  <2> QED BY <2>1
<1>2. ASSUME NEW x \in S
      PROVE  IsFiniteSet(Below(x)) /\ Cardinality(Below(x)) \in 0 .. n - 1
  <2>1. Below(x) \in SUBSET (S \ {x})
    BY DEF InOrder, Before
  <2>2. IsFiniteSet(S \ {x}) /\ Cardinality(S \ {x}) = n - 1
    BY FS_RemoveElement
  <2> HIDE DEF Below, n
  <2>3. IsFiniteSet(Below(x)) /\ Cardinality(Below(x)) =< n - 1
    BY <2>1, <2>2, FS_Subset
  <2>4. Cardinality(Below(x)) \in Nat
    BY <2>3, FS_CardinalityType
  <2> QED BY <1>1, <2>3, <2>4
<1>3. ASSUME NEW x \in S, NEW y \in S, <<x, y>> \in R
      PROVE  Cardinality(Below(x)) # Cardinality(Below(y))
  <2>1. Below(x) \in SUBSET Below(y) /\ x \in Below(y) /\ x \notin Below(x)
    BY <1>3 DEF InOrder, Before
  <2> HIDE DEF Below
  <2> QED BY <1>2, <2>1, FS_Subset
<1>4. f \in Injection(S, 0 .. n - 1)
  <2>1. f \in [S -> 0 .. n - 1]
    BY <1>2
  <2>2. ASSUME NEW x \in S, NEW y \in S, f[x] = f[y] PROVE x = y
    BY <1>3, <2>2 DEF InOrder
  <2> QED BY <2>1, <2>2 DEF Injection, IsInjective
<1>5. IsFiniteSet(0 .. n - 1) /\ Cardinality(0 .. n - 1) = n
  <2>1. 0 \in Int /\ n - 1 \in Int
    BY <1>1
  <2> HIDE DEF n
  <2> QED BY <1>1, <2>1, FS_Interval
<1>6. f \in Surjection(S, 0 .. n - 1)
  <2> HIDE DEF f
  <2> QED BY <1>4, <1>5, FS_Injection
<1>7. PICK x \in S : f[x] = k
  BY <1>6 DEF Surjection
<1> QED BY <1>7

LEMMA Product == ASSUME NEW m \in Nat, NEW n \in Nat PROVE m * n \in Nat
OBVIOUS

(* The days in order.                                                      *)
LEMMA DayExists ==
    ASSUME NEW days \in SUBSET (0 .. DayCount - 1), IsFiniteSet(days),
           NEW k \in 0 .. Cardinality(days) - 1
    PROVE  (CHOOSE d \in days : Cardinality({e \in days : e < d}) = k) \in days
<1> DEFINE R == {p \in days \X days : p[1] < p[2]}
<1>1. \A x, y \in days : x \in Int /\ (<<x, y>> \in R <=> x < y)
  OBVIOUS
<1>2. InOrder(days, R)
  <2> HIDE DEF R
  <2> QED BY <1>1 DEF InOrder
<1>3. \A d \in days : Before(days, R, d) = {e \in days : e < d}
  BY <1>1 DEF Before
<1> HIDE DEF R
<1>4. PICK d \in days : Cardinality(Before(days, R, d)) = k
  BY <1>2, Ranks
<1>5. Cardinality({e \in days : e < d}) = k
  BY <1>3, <1>4
<1> QED BY <1>5

LEMMA SlotsOnSome ==
    ASSUME IsFiniteSet(people), NEW days \in SUBSET (0 .. DayCount - 1)
    PROVE  IsSlots(SlotsOn(days))
<1> DEFINE n == Cardinality(days) * Len(Fleet)
           Day(k) == CHOOSE d \in days : Cardinality({e \in days : e < d}) = k
           At(i) == [day |-> Day((i - 1) \div Len(Fleet)),
                     truck |-> Fleet[((i - 1) % Len(Fleet)) + 1]]
<1>0. IsFiniteSet(days) /\ Cardinality(days) \in Nat
  <2>1. IsFiniteSet(0 .. DayCount - 1)
    <3>1. 0 \in Int /\ DayCount - 1 \in Int
      BY DayCountAssumption
    <3> QED BY <3>1, FS_Interval
  <2>2. IsFiniteSet(days)
    BY <2>1, FS_Subset
  <2> QED BY <2>2, FS_CardinalityType
<1>1. n \in Nat
  BY <1>0, FleetLength, Product
<1>2. SlotsOn(days) = [i \in 1 .. n |-> At(i)]
  BY DEF SlotsOn
<1>3. ASSUME NEW i \in 1 .. n PROVE IsSlot(At(i))
  <2>1. (i - 1) \div Len(Fleet) \in 0 .. Cardinality(days) - 1
    BY <1>0, FleetLength, Quotient
  <2>2. Day((i - 1) \div Len(Fleet)) \in days
    BY <1>0, <2>1, DayExists
  <2> HIDE DEF Day
  <2> QED BY <2>2 DEF IsSlot
<1> HIDE DEF n, At
<1>4. DOMAIN SlotsOn(days) = 1 .. n
  BY <1>2
<1>5. \A s \in Range(SlotsOn(days)) : IsSlot(s)
  BY <1>2, <1>3 DEF Range
<1> QED BY <1>1, <1>4, <1>5 DEF IsSlots

LEMMA SlotsForOrders ==
    ASSUME IsFiniteSet(people), NEW orders
    PROVE  IsSlots(SlotsFor(orders))
<1> DEFINE kept == {d \in 0 .. DayCount - 1 : \E o \in orders : InShift(o, d)}
<1>1. kept \in SUBSET (0 .. DayCount - 1) /\ 0 .. DayCount - 1 \in SUBSET (0 .. DayCount - 1)
  OBVIOUS
<1>2. SlotsFor(orders) = SlotsOn(0 .. DayCount - 1) \/ SlotsFor(orders) = SlotsOn(kept)
  BY DEF SlotsFor, AllSlots
<1> QED BY <1>1, <1>2, SlotsOnSome

(* The drivers are those of the request, the slots are days of trucks, and *)
(* the safe ones have a driver each.                                       *)
RequestInv ==
    /\ people \in Rosters
    /\ IsSlots(slots)
    /\ Staffable(Bare(safe)) /\ safe \subseteq Range(slots)

LEMMA RequestStays ==
    ASSUME RequestInv, UNCHANGED requestVars
    PROVE  RequestInv'
<1>1. people' = people /\ slots' = slots /\ safe' = safe
  BY DEF requestVars
<1>2. IsSlots(slots') /\ people' \in Rosters
  BY <1>1 DEF RequestInv
<1>3. Staffable(Bare(safe')) /\ safe' \subseteq Range(slots')
  BY <1>1 DEF RequestInv
<1> QED BY <1>1, <1>2, <1>3 DEF RequestInv, Staffable, Staffings, IsSlots, IsSlot, Bare

LEMMA InitRequestInv == Init => RequestInv
<1> SUFFICES ASSUME Init PROVE RequestInv
  OBVIOUS
<1>1. people \in Rosters /\ slots = << >> /\ safe = {}
  BY DEF Init
<1>2. DOMAIN slots = 1 .. 0 /\ Range(slots) = {}
  BY <1>1 DEF Range
<1>3. IsSlots(slots)
  BY <1>2 DEF IsSlots
<1>4. Staffable(Bare(safe))
  BY <1>1, NoRoutesStaffable DEF Bare
<1> QED BY <1>1, <1>3, <1>4 DEF RequestInv

LEMMA StepRequestInv == RequestInv /\ [Next]_vars => RequestInv'
<1> SUFFICES ASSUME RequestInv, [Next]_vars PROVE RequestInv'
  OBVIOUS
<1>1. ASSUME NEW orders \in Backlogs, Prepare(orders) PROVE RequestInv'
  <2>1. people' = people /\ slots' = SlotsFor(orders) /\ safe' = Matched(slots')
    BY <1>1 DEF Prepare, DriverSafe
  <2>2. IsFiniteSet(people)
    BY RostersAssumption DEF RequestInv
  <2>3. IsSlots(slots')
    BY <2>1, <2>2, SlotsForOrders
  <2>4. Staffable(Bare(safe')) /\ safe' \subseteq Range(slots')
    BY <2>1, <2>3, MatchedIsStaffable DEF IsSlots
  <2> QED BY <2>1, <2>3, <2>4
      DEF RequestInv, Staffable, Staffings, IsSlots, IsSlot, Bare
<1>2. CASE UNCHANGED requestVars
  BY <1>2, RequestStays
<1>3. CASE SearchStep
  <2>1. UNCHANGED requestVars
    BY <1>3 DEF SearchStep, NoDriver, SearchFails, Search, Keep, Shorten, Accept, Reject,
                EndValidation, Recover, DropIncompleteSplits, Consolidate, EndConsolidation,
                Report, WorkerFails
  <2> QED BY <2>1, RequestStays
<1>4. ASSUME NEW orders \in Backlogs, SplitLimit(orders) PROVE UNCHANGED requestVars
  BY <1>4 DEF SplitLimit, Fail
<1>5. CASE \E i \in DOMAIN candidates : Apply(i)
  <2>1. UNCHANGED requestVars
    BY <1>5 DEF Apply
  <2> QED BY <2>1, RequestStays
<1>6. CASE UNCHANGED vars
  <2>1. UNCHANGED requestVars
    BY <1>6 DEF vars
  <2> QED BY <2>1, RequestStays
<1>7. CASE Exhaustive \/ ExhaustiveFindsNothing \/ NextRun \/ AllFail \/ HybridEnds
           \/ HybridGivesNothing \/ Choose \/ Refuse \/ Offer
  <2>1. UNCHANGED requestVars
    BY <1>7 DEF Exhaustive, ExhaustiveFindsNothing, NextRun, AllFail, Fail, HybridEnds,
                HybridGivesNothing, Choose, Refuse, Offer, Answer
  <2> QED BY <2>1, RequestStays
<1> QED BY <1>1, <1>2, <1>3, <1>4, <1>5, <1>6, <1>7 DEF Next

LEMMA AlwaysRequestInv == Spec => []RequestInv
BY InitRequestInv, StepRequestInv, PTL DEF Spec

-----------------------------------------------------------------------------
(* There is a driver for every route.                                      *)

(* Until merging begins a search uses safe slots only, each for one route; *)
(* a merge onto another slot is made only if it leaves drivers for all.    *)
StaffInv ==
    /\ \A d \in drafts : d.slot \in safe
    /\ phase \in {"validate", "recover"} => \A r \in routes : r.slot \in safe
    /\ phase \in {"consolidate", "report"} => Staffable(routes)

LEMMA SafeRoutesStaffable ==
    ASSUME NEW kept, Staffable(Bare(kept)), NEW rs, Disjoint(rs), \A r \in rs : r.slot \in kept
    PROVE  Staffable(rs)
<1>1. PICK f : f \in Staffings(Bare(kept))
  BY DEF Staffable
<1> DEFINE bare(r) == [slot |-> r.slot]
           g == [r \in rs |-> f[bare(r)]]
<1>2. ASSUME NEW r \in rs
      PROVE  bare(r) \in Bare(kept) /\ bare(r).slot = r.slot
  BY DEF Bare
<1>3. ASSUME NEW r \in rs, NEW q \in rs, r # q
      PROVE  bare(r) # bare(q)
  <2>1. r.slot # q.slot
    BY <1>3 DEF Disjoint
  <2> QED BY <2>1, <1>2
<1> HIDE DEF bare
<1>4. /\ f \in [Bare(kept) -> people]
      /\ \A b \in Bare(kept) : Licensed(f[b], b.slot.truck)
      /\ \A b, c \in Bare(kept) : b # c /\ b.slot.day = c.slot.day => f[b] # f[c]
  BY <1>1 DEF Staffings
<1>5. g \in [rs -> people]
  BY <1>2, <1>4
<1>6. \A r \in rs : Licensed(g[r], r.slot.truck)
  BY <1>2, <1>4
<1>7. \A r, q \in rs : r # q /\ r.slot.day = q.slot.day => g[r] # g[q]
  BY <1>2, <1>3, <1>4
<1>8. g \in Staffings(rs)
  <2> HIDE DEF g
  <2> QED BY <1>5, <1>6, <1>7 DEF Staffings
<1> QED BY <1>8 DEF Staffable

LEMMA StaffSearch ==
    ASSUME IInv, Search
    PROVE  StaffInv'
<1>1. PICK at \in Solutions : drafts' = DraftsOf(at)
  BY DEF Search
<1>2. phase = "start" /\ phase' = "validate" /\ safe' = safe /\ routes' = routes
  BY DEF Search, requestVars
<1>3. at \in [allocations -> {{}} \union {{s} : s \in safe}]
  BY DEF Solutions
<1>4. routes = {}
  BY <1>2 DEF IInv, NothingStays
<1>5. ASSUME NEW d \in drafts' PROVE d.slot \in safe
  <2>1. PICK s \in UNION Range(at) : d = Route(s, {a \in allocations : at[a] = {s}})
    BY <1>1 DEF DraftsOf
  <2>2. UNION Range(at) \subseteq safe
    BY <1>3 DEF Range
  <2> QED BY <2>1, <2>2, Fields
<1> QED BY <1>2, <1>4, <1>5 DEF StaffInv

LEMMA StaffDrop ==
    ASSUME IInv', RequestInv, StaffInv, DropIncompleteSplits
    PROVE  StaffInv'
<1>1. /\ phase = "recover" /\ phase' \in {"consolidate", "report"}
      /\ drafts' = drafts /\ safe' = safe /\ people' = people
  BY DEF DropIncompleteSplits, StillAssigned, requestVars
<1>2. \A r \in routes : r.slot \in safe
  BY <1>1 DEF StaffInv
<1>3. \A r \in routes' : r.slot \in safe
  <2>1. CASE Incomplete = {}
    <3>1. routes' = routes
      BY <2>1 DEF DropIncompleteSplits, StillAssigned
    <3> QED BY <1>2, <3>1
  <2>2. CASE Incomplete # {}
    <3>1. routes' \subseteq {Remaining(r) : r \in {q \in routes : Remaining(q).load # {}}}
      BY <2>2 DEF DropIncompleteSplits, StillAssigned
    <3>2. \A r \in routes : Remaining(r).slot = r.slot
      BY Fields DEF Remaining
    <3> QED BY <1>2, <3>1, <3>2
  <2> QED BY <2>1, <2>2
<1>4. Disjoint(routes')
  BY DEF IInv, LoadsAreAssigned, Disjoint
<1>5. Staffable(routes')
  BY <1>3, <1>4, SafeRoutesStaffable DEF RequestInv
<1> QED BY <1>1, <1>5 DEF StaffInv, Staffable, Staffings

LEMMA StaffConsolidate ==
    ASSUME StaffInv, NEW r, NEW q, Consolidate(r, q)
    PROVE  StaffInv'
<1>1. /\ phase = "consolidate" /\ phase' = phase
      /\ drafts' = drafts /\ safe' = safe /\ people' = people
  BY DEF Consolidate, requestVars
<1>2. Staffable(routes')
  BY DEF Consolidate, Cheaper
<1> QED BY <1>1, <1>2 DEF StaffInv, Staffable, Staffings

LEMMA StaffSame ==
    ASSUME StaffInv, UNCHANGED <<phase, drafts, routes, safe, people>>
    PROVE  StaffInv'
BY DEF StaffInv, Staffable, Staffings

LEMMA StaffBetween ==
    ASSUME IInv', phase' \notin {"validate", "recover", "consolidate", "report"}
    PROVE  StaffInv'
BY DEF IInv, NothingStays, StaffInv

LEMMA StaffSearchStep ==
    ASSUME IInv, IInv', RequestInv, StaffInv, SearchStep
    PROVE  StaffInv'
<1>1. CASE NoDriver \/ SearchFails \/ Report \/ WorkerFails
  <2>1. phase' = "next"
    BY <1>1 DEF NoDriver, SearchFails, Report, WorkerFails, Finish
  <2> QED BY <2>1, StaffBetween
<1>2. CASE Search
  BY <1>2, StaffSearch
<1>3. ASSUME NEW d \in drafts, NEW load, Accept(d, load) PROVE StaffInv'
  <2>1. /\ phase = "validate" /\ phase' = phase /\ drafts' \subseteq drafts /\ safe' = safe
        /\ routes' = routes \union {Route(d.slot, load)}
    BY <1>3 DEF Accept, requestVars
  <2>2. Route(d.slot, load).slot = d.slot /\ d.slot \in safe
    BY Fields DEF StaffInv
  <2> QED BY <2>1, <2>2 DEF StaffInv
<1>4. ASSUME NEW d \in drafts, Reject(d) PROVE StaffInv'
  BY <1>4 DEF Reject, requestVars, StaffInv
<1>5. CASE EndValidation
  BY <1>5 DEF EndValidation, requestVars, StaffInv
<1>6. ASSUME NEW a \in queue, Recover(a) PROVE StaffInv'
  <2>1. phase = "recover" /\ phase' = phase /\ drafts' = drafts /\ safe' = safe
    BY <1>6 DEF Recover, requestVars
  <2>2. ASSUME NEW s \in safe, Place(a, s) PROVE \A r \in routes' : r.slot \in safe
    <3>1. \A r \in routes' : r \in routes \/ \E load : r = Route(s, load)
      BY <2>2 DEF Place
    <3> QED BY <2>1, <3>1, Fields DEF StaffInv
  <2>3. \A r \in routes' : r.slot \in safe
    BY <1>6, <2>1, <2>2 DEF Recover, StaffInv
  <2> QED BY <2>1, <2>3 DEF StaffInv
<1>7. CASE DropIncompleteSplits
  BY <1>7, StaffDrop
<1>8. ASSUME NEW r \in routes, NEW q \in routes, Consolidate(r, q) PROVE StaffInv'
  BY <1>8, StaffConsolidate
<1>9. CASE EndConsolidation
  BY <1>9 DEF EndConsolidation, requestVars, searchVars, StaffInv, Staffable, Staffings
<1> QED BY <1>1, <1>2, <1>3, <1>4, <1>5, <1>6, <1>7, <1>8, <1>9 DEF SearchStep, Keep, Shorten

LEMMA StepStaffInv == IInv /\ IInv' /\ RequestInv /\ StaffInv /\ [Next]_vars => StaffInv'
<1> SUFFICES ASSUME IInv, IInv', RequestInv, StaffInv, [Next]_vars PROVE StaffInv'
  OBVIOUS
<1>1. CASE SearchStep
  BY <1>1, StaffSearchStep
<1>2. ASSUME NEW orders \in Backlogs, Prepare(orders) \/ SplitLimit(orders) PROVE StaffInv'
  <2>1. phase' \in {"tiny", "start", "done"}
    BY <1>2 DEF Prepare, SplitLimit, Fail
  <2> QED BY <2>1, StaffBetween
<1>3. CASE Exhaustive \/ ExhaustiveFindsNothing \/ NextRun \/ AllFail \/ HybridEnds
           \/ HybridGivesNothing \/ Choose \/ Refuse \/ Offer
  <2>1. phase' \in {"return", "start", "done", "next"}
    BY <1>3 DEF Exhaustive, ExhaustiveFindsNothing, NextRun, AllFail, Fail, HybridEnds,
                HybridGivesNothing, Choose, Refuse, Offer, Answer
  <2> QED BY <2>1, StaffBetween
<1>4. CASE \E i \in DOMAIN candidates : Apply(i)
  BY <1>4, StaffSame DEF Apply, requestVars, searchVars
<1>5. CASE UNCHANGED vars
  BY <1>5, StaffSame DEF vars, requestVars, searchVars
<1> QED BY <1>1, <1>2, <1>3, <1>4, <1>5 DEF Next

LEMMA AlwaysStaffInv == Spec => []StaffInv
<1>1. Init => StaffInv
  BY DEF Init, Idle, StaffInv
<1> QED BY <1>1, AlwaysIInv, AlwaysRequestInv, StepStaffInv, PTL DEF Spec

(* _assign_drivers_and_costs finds a driver for every route, whatever the  *)
(* search has done: the routes begin on driver_safe_vehicle_indices, and   *)
(* merging, which may leave them, asks for the drivers again.              *)
THEOREM DriversForAllRoutes == Spec => []RoutesCanBeStaffed
<1>1. StaffInv => RoutesCanBeStaffed
  BY DEF StaffInv, RoutesCanBeStaffed
<1> QED BY <1>1, AlwaysStaffInv, PTL

-----------------------------------------------------------------------------
(* A batch that serves all passes the contract.                            *)

(* The first key decides: what is earlier has no greater one.              *)
LEMMA FirstKeyInOrder ==
    ASSUME NEW key, NEW n \in Nat, Cardinality(DOMAIN key) = n, NEW order \in Rankings(key),
           \A x \in DOMAIN key : 1 \in DOMAIN key[x],
           NEW i \in 1 .. n, i > 1
    PROVE  /\ order[i] \in DOMAIN key /\ order[i - 1] \in DOMAIN key
           /\ ~(key[order[i]][1] < key[order[i - 1]][1])
<1>1. order \in [1 .. n -> DOMAIN key]
  BY DEF Rankings, Bijection, Injection
<1>2. i - 1 \in 1 .. n /\ i - 1 < i
  OBVIOUS
<1>3. order[i] \in DOMAIN key /\ order[i - 1] \in DOMAIN key
  BY <1>1, <1>2
<1>4. ~Precedes(key[order[i]], key[order[i - 1]])
  BY <1>1, <1>2 DEF Rankings
<1>5. 1 \in DOMAIN key[order[i]] /\ 1 .. 1 - 1 = {}
  BY <1>3
<1> QED BY <1>3, <1>4, <1>5 DEF Precedes

LEMMA CalendarSalaryStays ==
    ASSUME UNCHANGED people
    PROVE  \A rs : CalendarSalary(rs)' = CalendarSalary(rs)
BY DEF CalendarSalary

LEMMA ScoreStays ==
    ASSUME UNCHANGED people
    PROVE  \A p : Score(p)' = Score(p)
BY CalendarSalaryStays
DEF Score, SelectionScore, OperatingCost, MapThenSumSet, MapThenFoldSet

(* What the contract asks for, plan by plan, but for the benchmarks.       *)
Fine(plans) ==
    /\ \E n \in Nat : DOMAIN plans = 1 .. n
    /\ \A i \in DOMAIN plans : plans[i].status = "SUCCESS" /\ plans[i].count = 0
    /\ \A i \in DOMAIN plans : i > 1 => ~(Score(plans[i]) < Score(plans[i - 1]))

LEMMA FineLacksOnlyBenchmarks ==
    ASSUME NEW plans, Fine(plans), UNCHANGED people, candidates' = plans
    PROVE  Refused(candidates)' => Uncompared(candidates)'
<1>1. PICK n \in Nat : DOMAIN plans = 1 .. n
  BY DEF Fine
<1>2. \A i \in DOMAIN plans : plans[i].status = "SUCCESS" /\ ~(plans[i].count > 0)
  BY DEF Fine
<1>3. \A i \in DOMAIN plans \ {1} : ~(Score(plans[i]) < Score(plans[i - 1]))
  BY <1>1 DEF Fine
<1>4. \A p : Score(p)' = Score(p)
  BY ScoreStays
<1> QED BY <1>2, <1>3, <1>4 DEF Refused

(* What the backend thinks of a batch, and what it gets.                   *)
BatchInv ==
    /\ answer = "refused" /\ fully # 0 => Uncompared(candidates)
    /\ phase # "done" => answer = "none"
    /\ phase = "return" /\ fully # 0 /\ Refused(candidates) => Uncompared(candidates)

LEMMA ExhaustiveIsFine ==
    ASSUME Exhaustive
    PROVE  Fine(candidates')
<1>0. PICK found \in UNION {kSubset(k, ExactCovers) : k \in 1 .. MaxCandidates} :
         \E order \in Rankings([rs \in found |-> <<SelectionScore(rs), OperatingCost(rs)>>]) :
            \E compared \in SUBSET found :
               candidates' = [i \in DOMAIN order |->
                                 ExhaustivePlan(order[i], order[i] \in compared)]
  BY DEF Exhaustive
<1>1. PICK order \in Rankings([rs \in found |-> <<SelectionScore(rs), OperatingCost(rs)>>]) :
         \E compared \in SUBSET found :
            candidates' = [i \in DOMAIN order |-> ExhaustivePlan(order[i], order[i] \in compared)]
  BY <1>0
<1> DEFINE key == [rs \in found |-> <<SelectionScore(rs), OperatingCost(rs)>>]
<1>2. PICK k \in Nat : Cardinality(found) = k /\ DOMAIN key = found
  BY CandidatesAssumption DEF kSubset
<1>3. \A x \in DOMAIN key : 1 \in DOMAIN key[x] /\ key[x][1] = SelectionScore(x)
  OBVIOUS
<1>4. order \in Rankings(key)
  BY <1>1
<1> HIDE DEF key
<1>5. DOMAIN order = 1 .. k
  BY <1>2, <1>4 DEF Rankings, Bijection, Injection
<1>6. ASSUME NEW i \in 1 .. k
      PROVE  /\ candidates'[i].status = "SUCCESS" /\ candidates'[i].count = 0
             /\ Score(candidates'[i]) = SelectionScore(order[i])
  BY <1>1, <1>5 DEF ExhaustivePlan, Plan, Score
<1>7. ASSUME NEW i \in 1 .. k, i > 1
      PROVE  ~(Score(candidates'[i]) < Score(candidates'[i - 1]))
  <2>1. i - 1 \in 1 .. k
    BY <1>2, <1>7
  <2>2. /\ order[i] \in DOMAIN key /\ order[i - 1] \in DOMAIN key
        /\ ~(key[order[i]][1] < key[order[i - 1]][1])
    BY <1>2, <1>3, <1>4, <1>7, FirstKeyInOrder
  <2> QED BY <1>3, <1>6, <2>1, <2>2
<1>8. DOMAIN candidates' = 1 .. k
  BY <1>1, <1>5
<1> QED BY <1>2, <1>6, <1>7, <1>8 DEF Fine

(* The places among the plans of those that are ranked.                    *)
LEMMA DistinctPlaces ==
    ASSUME IInv
    PROVE  /\ DOMAIN runs = 1 .. Len(runs) /\ Distinct \subseteq DOMAIN runs
           /\ Cardinality(Distinct) \in Nat
           /\ \A i \in Distinct : runs[i] \in Range(runs) /\ ServesAll(runs[i])
<1>1. DOMAIN runs = 1 .. Len(runs) /\ Len(runs) \in Nat
  BY DEF IInv
<1>2. Distinct \subseteq Full /\ Full \subseteq DOMAIN runs
  BY DEF Distinct, Full
<1>3. IsFiniteSet(1 .. Len(runs))
  BY <1>1, FS_Interval
<1>4. Distinct \subseteq 1 .. Len(runs)
  BY <1>1, <1>2
<1>5. IsFiniteSet(Distinct)
  BY <1>3, <1>4, FS_Subset
<1>6. Cardinality(Distinct) \in Nat
  BY <1>5, FS_CardinalityType
<1> QED BY <1>1, <1>2, <1>6 DEF Full, Range

LEMMA ChosenIsFine ==
    ASSUME IInv, Choose, Full # {}
    PROVE  Fine(candidates')
<1> DEFINE n == Cardinality(Distinct)
           m == Min({n, MaxCandidates})
           key == [i \in Distinct |-> <<Score(runs[i]), Cost(runs[i]), i>>]
<1>1. PICK order \in Rankings(key) : candidates' = [i \in 1 .. m |-> runs[order[i]]]
  BY DEF Choose, Ranked
<1>2. DOMAIN key = Distinct /\ n \in Nat
  BY DistinctPlaces
<1>3. m \in Nat /\ m =< n
  <2>1. n \in Int /\ MaxCandidates \in Int
    BY <1>2, CandidatesAssumption
  <2>2. m \in {n, MaxCandidates} /\ m =< n
    BY <2>1, MinOfTwo
  <2> HIDE DEF m, n
  <2> QED BY <1>2, <2>2, CandidatesAssumption
<1>4. \A x \in DOMAIN key : 1 \in DOMAIN key[x] /\ key[x][1] = Score(runs[x])
  OBVIOUS
<1>5. n = Cardinality(DOMAIN key)
  BY <1>2
<1> HIDE DEF key, n, m
<1>6. order \in [1 .. n -> Distinct]
  BY <1>2, <1>5 DEF Rankings, Bijection, Injection
<1>7. ASSUME NEW i \in 1 .. m
      PROVE  i \in 1 .. n /\ order[i] \in Distinct /\ candidates'[i] = runs[order[i]]
  BY <1>1, <1>2, <1>3, <1>6
<1>8. ASSUME NEW i \in 1 .. m
      PROVE  candidates'[i].status = "SUCCESS" /\ candidates'[i].count = 0
  BY <1>7, DistinctPlaces DEF ServesAll
<1>9. ASSUME NEW i \in 1 .. m, i > 1
      PROVE  ~(Score(candidates'[i]) < Score(candidates'[i - 1]))
  <2>1. i - 1 \in 1 .. m /\ i \in 1 .. n
    BY <1>3, <1>7, <1>9
  <2>2. ~(key[order[i]][1] < key[order[i - 1]][1])
    BY <1>2, <1>4, <1>5, <1>9, <2>1, FirstKeyInOrder
  <2>3. order[i] \in DOMAIN key /\ order[i - 1] \in DOMAIN key
    BY <1>2, <1>7, <2>1
  <2> QED BY <1>4, <1>7, <2>1, <2>2, <2>3
<1>10. DOMAIN candidates' = 1 .. m
  BY <1>1
<1> QED BY <1>3, <1>8, <1>9, <1>10 DEF Fine

(* Most steps leave the batch.                                             *)
LEMMA BatchStays ==
    ASSUME BatchInv, UNCHANGED <<answer, fully>>, phase # "done",
           phase' \notin {"return", "done"}
    PROVE  BatchInv'
BY DEF BatchInv

LEMMA BatchSearchStep ==
    ASSUME BatchInv, SearchStep, UNCHANGED batchVars
    PROVE  BatchInv'
<1>1. answer' = answer /\ fully' = fully
  BY DEF batchVars
<1>2. CASE NoDriver \/ SearchFails \/ Report \/ WorkerFails
  <2>1. phase # "done" /\ phase' = "next"
    BY <1>2 DEF NoDriver, SearchFails, Report, WorkerFails, Finish
  <2> QED BY <1>1, <2>1, BatchStays
<1>3. CASE \/ Search \/ EndValidation \/ DropIncompleteSplits \/ EndConsolidation
           \/ \E d \in drafts : Keep(d) \/ Shorten(d) \/ Reject(d)
           \/ \E a \in queue : Recover(a)
           \/ \E r, q \in routes : Consolidate(r, q)
  <2>1. phase # "done" /\ phase' \notin {"return", "done"}
    BY <1>3 DEF Search, EndValidation, DropIncompleteSplits, EndConsolidation, Keep, Shorten,
                Accept, Reject, Recover, Consolidate
  <2> QED BY <1>1, <2>1, BatchStays
<1> QED BY <1>2, <1>3 DEF SearchStep

LEMMA BatchChoose == ASSUME IInv, BatchInv, Choose PROVE BatchInv'
<1>1. /\ phase = "next" /\ phase' = "return" /\ people' = people
      /\ fully' = Cardinality(Full) /\ answer' = answer
  BY DEF Choose, requestVars
<1>2. answer' = "none"
  BY <1>1 DEF BatchInv
<1>3. CASE Full = {}
  <2>1. fully' = 0
    BY <1>1, <1>3, FS_EmptySet
  <2> QED BY <1>1, <1>2, <2>1 DEF BatchInv
<1>4. CASE Full # {}
  <2>1. Refused(candidates)' => Uncompared(candidates)'
    BY <1>1, <1>4, ChosenIsFine, FineLacksOnlyBenchmarks
  <2> QED BY <1>1, <1>2, <2>1 DEF BatchInv
<1> QED BY <1>3, <1>4

LEMMA BatchExhaustive == ASSUME BatchInv, Exhaustive PROVE BatchInv'
<1>1. phase = "tiny" /\ phase' = "return" /\ people' = people /\ answer' = answer
  BY DEF Exhaustive, requestVars
<1>2. Refused(candidates)' => Uncompared(candidates)'
  BY <1>1, ExhaustiveIsFine, FineLacksOnlyBenchmarks
<1>3. answer' = "none"
  BY <1>1 DEF BatchInv
<1> QED BY <1>1, <1>2, <1>3 DEF BatchInv

LEMMA StepBatchInv == IInv /\ BatchInv /\ [Next]_vars => BatchInv'
<1> SUFFICES ASSUME IInv, BatchInv, [Next]_vars PROVE BatchInv'
  OBVIOUS
<1>1. ASSUME NEW orders \in Backlogs, Prepare(orders) PROVE BatchInv'
  <2>1. phase # "done" /\ phase' \notin {"return", "done"} /\ UNCHANGED <<answer, fully>>
    BY <1>1 DEF Prepare
  <2> QED BY <2>1, BatchStays
<1>2. ASSUME NEW orders \in Backlogs, SplitLimit(orders) PROVE BatchInv'
  BY <1>2 DEF SplitLimit, Fail, BatchInv
<1>3. CASE Exhaustive
  BY <1>3, BatchExhaustive
<1>4. CASE ExhaustiveFindsNothing \/ NextRun \/ HybridEnds \/ HybridGivesNothing
  <2>1. phase # "done" /\ phase' \notin {"return", "done"} /\ UNCHANGED <<answer, fully>>
    BY <1>4 DEF ExhaustiveFindsNothing, NextRun, HybridEnds, HybridGivesNothing
  <2> QED BY <2>1, BatchStays
<1>5. CASE SearchStep /\ UNCHANGED batchVars
  BY <1>5, BatchSearchStep
<1>6. CASE AllFail
  BY <1>6 DEF AllFail, Fail, BatchInv
<1>7. CASE Choose
  BY <1>7, BatchChoose
<1>8. CASE Refuse
  <2>1. /\ phase = "return" /\ phase' = "done" /\ Refused(candidates)
        /\ UNCHANGED <<fully, candidates>>
    BY <1>8 DEF Refuse, Answer
  <2>2. fully # 0 => Uncompared(candidates)
    BY <2>1 DEF BatchInv
  <2> QED BY <2>1, <2>2 DEF BatchInv, Uncompared
<1>9. CASE Offer
  <2>1. answer' \in {"empty", "offered"} /\ phase' = "done"
    BY <1>9 DEF Offer, Answer
  <2> QED BY <2>1 DEF BatchInv
<1>10. ASSUME NEW i \in DOMAIN candidates, Apply(i) PROVE BatchInv'
  <2>1. /\ answer \in {"offered", "conflict"} /\ answer' \in {"applied", "conflict"}
        /\ phase' = phase
    BY <1>10 DEF Apply
  <2> QED BY <2>1 DEF BatchInv
<1>11. CASE UNCHANGED vars
  <2>1. UNCHANGED <<people, phase, answer, fully, candidates>>
    BY <1>11 DEF vars, requestVars, batchVars
  <2>2. Refused(candidates)' <=> Refused(candidates)
    BY <2>1, ScoreStays DEF Refused, Uncompared
  <2> QED BY <2>1, <2>2 DEF BatchInv, Uncompared
<1> QED BY <1>1, <1>2, <1>3, <1>4, <1>5, <1>6, <1>7, <1>8, <1>9, <1>10, <1>11 DEF Next

LEMMA AlwaysBatchInv == Spec => []BatchInv
<1>1. Init => BatchInv
  BY DEF Init, BatchInv
<1> QED BY <1>1, AlwaysIInv, StepBatchInv, PTL DEF Spec

(* select_ranked_candidates and assertFleetOptimizationBatchResult agree   *)
(* on the order of plans and on what serving all means: a batch of plans   *)
(* that serve all is refused for nothing but the benchmarks some plan      *)
(* lacks, as the backend scores plans as the optimizer ranked them.        *)
THEOREM FullServiceNeedsOnlyBenchmarks == Spec => []FullServiceLacksOnlyBenchmarks
<1>1. BatchInv => FullServiceLacksOnlyBenchmarks
  BY DEF BatchInv, FullServiceLacksOnlyBenchmarks
<1> QED BY <1>1, AlwaysBatchInv, PTL

-----------------------------------------------------------------------------
(* The hybrid search uses slots of the request.                            *)
LEMMA HybridSlotsAreSlots ==
    ASSUME RequestInv
    PROVE  HybridSlots(slots) \subseteq Range(slots)
<1>1. PICK n \in Nat : DOMAIN slots = 1 .. n
  BY DEF RequestInv, IsSlots
<1> DEFINE D == DOMAIN slots
           Choice(i) == Cardinality({p \in people : Licensed(p, slots[i].truck)})
           Sooner(i, j) == Choice(i) < Choice(j) \/ (Choice(i) = Choice(j) /\ i < j)
           Turn(k) == CHOOSE i \in D : Cardinality({j \in D : Sooner(j, i)}) = k - 1
           sq == [k \in D |-> slots[Turn(k)]]
           R == {p \in D \X D : Sooner(p[1], p[2])}
<1>2. HybridSlots(slots) = Matched(sq)
  BY DEF HybridSlots
<1>3. \A i \in D : i \in Nat /\ Choice(i) \in Nat
  <2>1. IsFiniteSet(people)
    BY RostersAssumption DEF RequestInv
  <2>2. ASSUME NEW i \in D PROVE Choice(i) \in Nat
    <3>1. {p \in people : Licensed(p, slots[i].truck)} \in SUBSET people
      OBVIOUS
    <3>2. IsFiniteSet({p \in people : Licensed(p, slots[i].truck)})
      BY <2>1, <3>1, FS_Subset
    <3> QED BY <3>2, FS_CardinalityType
  <2> HIDE DEF Choice
  <2> QED BY <1>1, <2>2
<1>4. /\ \A x \in D : ~Sooner(x, x)
      /\ \A x, y \in D : x # y => Sooner(x, y) \/ Sooner(y, x)
      /\ \A x, y, z \in D : Sooner(x, y) /\ Sooner(y, z) => Sooner(x, z)
  <2> HIDE DEF Choice
  <2> QED BY <1>3
<1> HIDE DEF Sooner
<1>5. \A x, y \in D : <<x, y>> \in R <=> Sooner(x, y)
  OBVIOUS
<1>6. \A x \in D : Before(D, R, x) = {y \in D : Sooner(y, x)}
  BY <1>5 DEF Before
<1> HIDE DEF R
<1>7. IsFiniteSet(D) /\ Cardinality(D) = n
  <2>1. 1 \in Int /\ n \in Int
    BY <1>1
  <2>2. IsFiniteSet(1 .. n) /\ Cardinality(1 .. n) = IF 1 > n THEN 0 ELSE n - 1 + 1
    BY <2>1, FS_Interval
  <2> QED BY <1>1, <2>2
<1>8. ASSUME NEW k \in D PROVE Turn(k) \in D
  <2>1. k - 1 \in 0 .. Cardinality(D) - 1
    BY <1>1, <1>7
  <2>2. InOrder(D, R)
    BY <1>4, <1>5 DEF InOrder
  <2> HIDE DEF D
  <2>3. PICK i \in D : Cardinality(Before(D, R, i)) = k - 1
    BY <1>7, <2>1, <2>2, Ranks
  <2>4. Cardinality({j \in D : Sooner(j, i)}) = k - 1
    BY <1>6, <2>3
  <2> QED BY <2>4
<1> HIDE DEF Turn
<1>9. Range(sq) \subseteq Range(slots)
  BY <1>8 DEF Range
<1>10. DOMAIN sq = 1 .. n
  BY <1>1
<1> HIDE DEF sq
<1>11. Matched(sq) \subseteq Range(sq)
  BY <1>1, <1>10, MatchedIsStaffable
<1> QED BY <1>2, <1>9, <1>11

-----------------------------------------------------------------------------
(* What is applied can be driven.                                          *)

(* A route on a slot of its own that can take its load.                    *)
Rides(r) == IsSlot(r.slot) /\ Admits(r.slot, r.load) /\ Servable(r.slot, r.load)

(* Drafts know which trucks a part is for, the validator knows the rest.   *)
LoadInv ==
    /\ \A d \in drafts : IsSlot(d.slot) /\ \A a \in d.load : Allows(a, d.slot)
    /\ \A r \in routes : Rides(r)

LEMMA LoadSearch == ASSUME IInv, RequestInv, Search PROVE LoadInv'
<1>1. PICK at \in Solutions : drafts' = DraftsOf(at)
  BY DEF Search
<1>2. routes' = routes /\ routes = {}
  BY DEF Search, IInv, NothingStays
<1>3. /\ at \in [allocations -> {{}} \union {{s} : s \in safe}]
      /\ \A a \in allocations : \A s \in at[a] : Allows(a, s)
  BY DEF Solutions
<1>4. ASSUME NEW d \in drafts' PROVE IsSlot(d.slot) /\ \A a \in d.load : Allows(a, d.slot)
  <2>1. PICK s \in UNION Range(at) : d = Route(s, {a \in allocations : at[a] = {s}})
    BY <1>1 DEF DraftsOf
  <2>2. d.slot = s /\ d.load = {a \in allocations : at[a] = {s}}
    BY <2>1, Fields
  <2>3. UNION Range(at) \subseteq safe
    BY <1>3 DEF Range
  <2>4. IsSlot(s)
    BY <2>3 DEF RequestInv, IsSlots
  <2> QED BY <1>3, <2>2, <2>4
<1> QED BY <1>2, <1>4 DEF LoadInv

LEMMA LoadAccept ==
    ASSUME LoadInv, NEW d, NEW load, load \subseteq d.load, Accept(d, load)
    PROVE  LoadInv'
<1>1. /\ d \in drafts /\ drafts' \subseteq drafts /\ Servable(d.slot, load)
      /\ routes' = routes \union {Route(d.slot, load)}
  BY DEF Accept
<1>2. IsSlot(d.slot) /\ \A a \in load : Allows(a, d.slot)
  BY <1>1 DEF LoadInv
<1>3. Admits(d.slot, load)
  BY <1>1, <1>2 DEF Servable, Admits
<1>4. Rides(Route(d.slot, load))
  BY <1>1, <1>2, <1>3, Fields DEF Rides
<1> QED BY <1>1, <1>4 DEF LoadInv

LEMMA LoadPlace ==
    ASSUME RequestInv, LoadInv, NEW a, NEW s \in safe, Place(a, s)
    PROVE  \A r \in routes' : Rides(r)
<1> DEFINE here == {r \in routes : r.slot = s}
           load == Loaded(here) \union {a}
<1>1. /\ Admits(s, {a}) /\ Servable(s, load)
      /\ routes' = (routes \ here) \union {Route(s, load)}
  BY DEF Place
<1>2. IsSlot(s)
  BY DEF RequestInv, IsSlots
<1>3. ASSUME NEW b \in load PROVE Allows(b, s) /\ Holds(s.truck, b.items)
  <2>1. CASE b = a
    BY <1>1, <2>1 DEF Admits
  <2>2. CASE b \in Loaded(here)
    <3>1. PICK r \in here : b \in r.load
      BY <2>2, InLoaded
    <3>2. Admits(r.slot, r.load) /\ r.slot = s
      BY <3>1 DEF LoadInv, Rides
    <3> QED BY <3>1, <3>2 DEF Admits
  <2> QED BY <2>1, <2>2
<1> HIDE DEF load
<1>4. Admits(s, load)
  BY <1>3 DEF Admits
<1>5. Rides(Route(s, load))
  BY <1>1, <1>2, <1>4, Fields DEF Rides
<1> QED BY <1>1, <1>5 DEF LoadInv

LEMMA LoadDrop == ASSUME LoadInv, DropIncompleteSplits PROVE LoadInv'
<1>1. drafts' = drafts
  BY DEF DropIncompleteSplits, StillAssigned
<1>2. \A r \in routes' : Rides(r)
  <2>1. CASE Incomplete = {}
    <3>1. routes' = routes
      BY <2>1 DEF DropIncompleteSplits, StillAssigned
    <3> QED BY <3>1 DEF LoadInv
  <2>2. CASE Incomplete # {}
    <3>1. /\ routes' \subseteq {Remaining(r) : r \in {q \in routes : Remaining(q).load # {}}}
          /\ \A r \in routes' : Servable(r.slot, r.load)
      BY <2>2 DEF DropIncompleteSplits, StillAssigned
    <3>2. ASSUME NEW r \in routes'
          PROVE  Rides(r)
      <4>1. PICK q \in routes : r = Remaining(q)
        BY <3>1
      <4>2. r.slot = q.slot /\ r.load \subseteq q.load
        BY <4>1, Fields DEF Remaining
      <4>3. IsSlot(q.slot) /\ Admits(q.slot, q.load)
        BY DEF LoadInv, Rides
      <4>4. Admits(r.slot, r.load)
        BY <4>2, <4>3 DEF Admits
      <4> QED BY <3>1, <4>2, <4>3, <4>4 DEF Rides
    <3> QED BY <3>2
  <2> QED BY <2>1, <2>2
<1> QED BY <1>1, <1>2 DEF LoadInv

LEMMA LoadConsolidate ==
    ASSUME RequestInv, LoadInv, NEW r, NEW q, Consolidate(r, q)
    PROVE  LoadInv'
<1>1. r \in routes /\ q \in routes /\ drafts' = drafts
  BY DEF Consolidate
<1>2. PICK s \in Targets(r, q) :
         /\ Admits(s, Route(s, r.load \union q.load).load)
         /\ Servable(s, Route(s, r.load \union q.load).load)
         /\ routes' = (routes \ {r, q}) \union {Route(s, r.load \union q.load)}
  BY DEF Consolidate
<1>3. IsSlot(s)
  BY <1>1 DEF Targets, LoadInv, Rides, RequestInv, IsSlots
<1>4. Rides(Route(s, r.load \union q.load))
  BY <1>2, <1>3, Fields DEF Rides
<1> QED BY <1>1, <1>2, <1>4 DEF LoadInv

LEMMA LoadSearchStep == ASSUME IInv, RequestInv, LoadInv, SearchStep PROVE LoadInv'
<1>1. CASE NoDriver \/ SearchFails \/ Report \/ WorkerFails
  <2>1. drafts' = {} /\ routes' = {}
    BY <1>1 DEF NoDriver, SearchFails, Report, WorkerFails, Finish
  <2> QED BY <2>1 DEF LoadInv
<1>2. CASE Search
  BY <1>2, LoadSearch
<1>3. ASSUME NEW d \in drafts, Keep(d) \/ Shorten(d) PROVE LoadInv'
  <2>1. PICK load : load \subseteq d.load /\ Accept(d, load)
    BY <1>3 DEF Keep, Shorten
  <2> QED BY <2>1, LoadAccept
<1>4. CASE EndValidation \/ EndConsolidation \/ \E d \in drafts : Reject(d)
  <2>1. drafts' \subseteq drafts /\ routes' = routes
    BY <1>4 DEF EndValidation, EndConsolidation, Reject, searchVars
  <2> QED BY <2>1 DEF LoadInv
<1>5. ASSUME NEW a \in queue, Recover(a) PROVE LoadInv'
  <2>1. drafts' = drafts
    BY <1>5 DEF Recover
  <2>2. \A r \in routes' : Rides(r)
    BY <1>5, LoadPlace DEF Recover, LoadInv
  <2> QED BY <2>1, <2>2 DEF LoadInv
<1>6. CASE DropIncompleteSplits
  BY <1>6, LoadDrop
<1>7. ASSUME NEW r \in routes, NEW q \in routes, Consolidate(r, q) PROVE LoadInv'
  BY <1>7, LoadConsolidate
<1> QED BY <1>1, <1>2, <1>3, <1>4, <1>5, <1>6, <1>7 DEF SearchStep

LEMMA StepLoadInv == IInv /\ RequestInv /\ LoadInv /\ [Next]_vars => LoadInv'
<1> SUFFICES ASSUME IInv, RequestInv, LoadInv, [Next]_vars PROVE LoadInv'
  OBVIOUS
<1>1. CASE SearchStep
  BY <1>1, LoadSearchStep
<1>2. CASE UNCHANGED searchVars
  BY <1>2 DEF searchVars, LoadInv
<1>3. ASSUME NEW orders \in Backlogs, Prepare(orders) \/ SplitLimit(orders)
      PROVE  UNCHANGED searchVars
  BY <1>3 DEF Prepare, SplitLimit, Fail
<1>4. CASE Exhaustive \/ ExhaustiveFindsNothing \/ NextRun \/ AllFail \/ HybridEnds
           \/ HybridGivesNothing \/ Choose \/ Refuse \/ Offer
           \/ \E i \in DOMAIN candidates : Apply(i)
  <2>1. UNCHANGED searchVars
    BY <1>4 DEF Exhaustive, ExhaustiveFindsNothing, NextRun, AllFail, Fail, HybridEnds,
                HybridGivesNothing, Choose, Refuse, Offer, Answer, Apply
  <2> QED BY <2>1, <1>2
<1>5. CASE UNCHANGED vars
  <2>1. UNCHANGED searchVars
    BY <1>5 DEF vars
  <2> QED BY <2>1, <1>2
<1> QED BY <1>1, <1>2, <1>3, <1>4, <1>5 DEF Next

LEMMA AlwaysLoadInv == Spec => []LoadInv
<1>1. Init => LoadInv
  BY DEF Init, Idle, LoadInv
<1> QED BY <1>1, AlwaysIInv, AlwaysRequestInv, StepLoadInv, PTL DEF Spec

(* A plan gives each of its routes a driver of its own, or, if it is the   *)
(* hybrid search's, names none of the drivers.                             *)
Sound(p) ==
    /\ DOMAIN p.drivers = p.routes
    /\ \/ /\ p.drivers \in Staffings(p.routes)
          /\ Disjoint(p.routes) /\ \A r \in p.routes : Rides(r)
       \/ \A r \in p.routes : p.drivers[r] \notin people

PlansInv ==
    /\ \A p \in Range(runs) : Sound(p)
    /\ \A i \in DOMAIN candidates : Sound(candidates[i])
    /\ AppliedIsSound

LEMMA SoundStays ==
    ASSUME UNCHANGED people
    PROVE  \A p : Sound(p)' <=> Sound(p)
BY DEF Sound, Staffings

LEMMA NoRoutesSound == ASSUME NEW p, p.routes = {}, p.drivers = NoDrivers PROVE Sound(p)
BY DEF Sound, NoDrivers

LEMMA RouteSetRides ==
    ASSUME RequestInv, NEW from, from \subseteq Range(slots), NEW rs \in RouteSets(from)
    PROVE  /\ Disjoint(rs) /\ \A r \in rs : Rides(r)
           /\ Staffing(rs) \in Staffings(rs)
<1>1. rs \subseteq RouteOptions(from) /\ Disjoint(rs) /\ Staffable(rs)
  BY DEF RouteSets, kSubset
<1>2. ASSUME NEW r \in rs PROVE Rides(r)
  <2>1. /\ r.slot \in from /\ Admits(r.slot, r.load) /\ Servable(r.slot, r.load)
    BY <1>1, Fields DEF RouteOptions
  <2> QED BY <2>1 DEF RequestInv, IsSlots, Rides
<1>3. Staffing(rs) \in Staffings(rs)
  BY <1>1 DEF Staffable, Staffing
<1> QED BY <1>1, <1>2, <1>3

LEMMA ExhaustiveSound ==
    ASSUME RequestInv, Exhaustive
    PROVE  \A i \in DOMAIN candidates' : Sound(candidates'[i])
<1>1. PICK found \in UNION {kSubset(k, ExactCovers) : k \in 1 .. MaxCandidates} :
         \E order \in Rankings([rs \in found |-> <<SelectionScore(rs), OperatingCost(rs)>>]) :
            \E compared \in SUBSET found :
               candidates' = [i \in DOMAIN order |->
                                 ExhaustivePlan(order[i], order[i] \in compared)]
  BY DEF Exhaustive
<1>2. PICK order \in Rankings([rs \in found |-> <<SelectionScore(rs), OperatingCost(rs)>>]) :
         \E compared \in SUBSET found :
            candidates' = [i \in DOMAIN order |-> ExhaustivePlan(order[i], order[i] \in compared)]
  BY <1>1
<1>3. found \subseteq RouteSets(safe) /\ safe \subseteq Range(slots)
  BY DEF kSubset, ExactCovers, RequestInv
<1>4. \A i \in DOMAIN order : order[i] \in found
  BY DEF Rankings, Bijection, Injection
<1>5. ASSUME NEW i \in DOMAIN order, NEW compared PROVE Sound(ExhaustivePlan(order[i], compared))
  <2> DEFINE rs == order[i]
             p == ExhaustivePlan(rs, compared)
  <2>1. rs \in RouteSets(safe)
    BY <1>3, <1>4
  <2>2. p.routes = rs /\ p.drivers = Staffing(rs)
    BY DEF ExhaustivePlan, Plan
  <2> HIDE DEF rs
  <2>3. Disjoint(rs) /\ (\A r \in rs : Rides(r)) /\ Staffing(rs) \in Staffings(rs)
    BY <1>3, <2>1, RouteSetRides
  <2>4. DOMAIN Staffing(rs) = rs
    BY <2>3 DEF Staffings
  <2> HIDE DEF p
  <2>5. Sound(p)
    BY <2>2, <2>3, <2>4 DEF Sound
  <2> QED BY <2>5 DEF p, rs
<1> QED BY <1>2, <1>5

(* The names the hybrid search gives are of drivers on a day.              *)
LEMMA HybridSound ==
    ASSUME RequestInv, NEW rs \in RouteSets(HybridSlots(slots)), NEW compared
    PROVE  Sound(HybridPlan(rs, compared))
<1> DEFINE p == HybridPlan(rs, compared)
           driver == Staffing(rs)
<1>1. p.routes = rs /\ p.drivers = [r \in rs |-> <<driver[r], r.slot.day>>]
  BY DEF HybridPlan, Plan
<1>2. (\A r \in rs : Rides(r)) /\ driver \in Staffings(rs)
  BY HybridSlotsAreSlots, RouteSetRides
<1> HIDE DEF p, driver
<1>3. ASSUME NEW r \in rs PROVE p.drivers[r] \notin people
  <2>1. driver[r] \in people /\ people \in Rosters
    BY <1>2 DEF Staffings, RequestInv
  <2>2. r.slot.day \in 0 .. DayCount - 1
    BY <1>2 DEF Rides, IsSlot
  <2>3. \A q \in people : q # <<driver[r], r.slot.day>>
    BY <2>1, <2>2, DriverNamesAssumption
  <2> QED BY <1>1, <2>3
<1>4. Sound(p)
  BY <1>1, <1>3 DEF Sound
<1> QED BY <1>4 DEF p

LEMMA ReportSound ==
    ASSUME IInv, LoadInv, Report
    PROVE  \E p : Finish(<<p>>) /\ Sound(p)
<1>1. PICK p : Finish(<<p>>) /\ p.routes = routes /\ p.drivers = Staffing(routes)
  BY DEF Report, Plan
<1>2. Staffing(routes) \in Staffings(routes)
  BY DEF Report, Staffable, Staffing
<1>3. Disjoint(routes) /\ \A r \in routes : Rides(r)
  BY DEF IInv, LoadsAreAssigned, LoadInv
<1>4. DOMAIN Staffing(routes) = routes
  BY <1>2 DEF Staffings
<1> QED BY <1>1, <1>2, <1>3, <1>4 DEF Sound

-----------------------------------------------------------------------------
LEMMA PlansKept ==
    ASSUME PlansInv, UNCHANGED <<people, trips>>,
           \A p \in Range(runs') : Sound(p),
           \A i \in DOMAIN candidates' : Sound(candidates'[i])
    PROVE  PlansInv'
<1>1. \A p : Sound(p)' <=> Sound(p)
  BY SoundStays
<1>2. AppliedIsSound'
  BY DEF PlansInv, AppliedIsSound
<1>3. (\A p \in Range(runs) : Sound(p))'
  BY <1>1
<1>4. (\A i \in DOMAIN candidates : Sound(candidates[i]))'
  BY <1>1
<1> QED BY <1>2, <1>3, <1>4 DEF PlansInv

LEMMA PlansSearchStep ==
    ASSUME IInv, LoadInv, PlansInv, SearchStep, UNCHANGED batchVars
    PROVE  PlansInv'
<1>1. people' = people /\ trips' = trips /\ candidates' = candidates
  BY DEF batchVars, requestVars, SearchStep, NoDriver, SearchFails, Search, Keep, Shorten,
         Accept, Reject, EndValidation, Recover, DropIncompleteSplits, Consolidate,
         EndConsolidation, Report, WorkerFails
<1>2. \A i \in DOMAIN candidates' : Sound(candidates'[i])
  BY <1>1 DEF PlansInv
<1>3. ASSUME NEW p, Sound(p), Finish(<<p>>) PROVE PlansInv'
  <2>1. Range(runs') = Range(runs) \union {p}
    BY <1>3, OneMore DEF Finish, IInv
  <2>2. \A q \in Range(runs') : Sound(q)
    BY <1>3, <2>1 DEF PlansInv
  <2> QED BY <1>1, <1>2, <2>2, PlansKept
<1>4. ASSUME runs' = runs PROVE PlansInv'
  <2>1. \A q \in Range(runs') : Sound(q)
    BY <1>4 DEF PlansInv
  <2> QED BY <1>1, <1>2, <2>1, PlansKept
<1>5. CASE NoDriver
  <2>1. PICK p : Finish(<<p>>) /\ p.routes = {} /\ p.drivers = NoDrivers
    BY <1>5 DEF NoDriver, Plan
  <2> QED BY <1>3, <2>1, NoRoutesSound
<1>6. CASE SearchFails
  <2>1. PICK p : Finish(<<p>>) /\ p.routes = {} /\ p.drivers = NoDrivers
    BY <1>6 DEF SearchFails, Plan
  <2> QED BY <1>3, <2>1, NoRoutesSound
<1>7. CASE Report
  BY <1>3, <1>7, ReportSound
<1>8. CASE WorkerFails
  <2>1. runs' = runs \o << >>
    BY <1>8 DEF WorkerFails, Finish
  <2>2. runs' = runs
    BY <2>1, NoneMore DEF IInv
  <2> QED BY <1>4, <2>2
<1>9. CASE \/ Search \/ EndValidation \/ DropIncompleteSplits \/ EndConsolidation
           \/ \E d \in drafts : Keep(d) \/ Shorten(d) \/ Reject(d)
           \/ \E a \in queue : Recover(a)
           \/ \E r, q \in routes : Consolidate(r, q)
  <2>1. runs' = runs
    BY <1>9 DEF Search, EndValidation, DropIncompleteSplits, EndConsolidation, Keep, Shorten,
                Accept, Reject, Recover, Consolidate
  <2> QED BY <1>4, <2>1
<1> QED BY <1>5, <1>6, <1>7, <1>8, <1>9 DEF SearchStep

(* What is chosen is among what the searches have found.                   *)
LEMMA ChosenAreRuns ==
    ASSUME IInv, Choose
    PROVE  \A i \in DOMAIN candidates' : candidates'[i] \in Range(runs)
<1>1. CASE Full = {}
  <2>1. PICK i \in DOMAIN runs : candidates' = <<runs[i]>>
    BY <1>1 DEF Choose
  <2>2. runs[i] \in Range(runs)
    BY DEF Range
  <2> QED BY <2>1, <2>2
<1>2. CASE Full # {}
  <2> DEFINE n == Cardinality(Distinct)
             m == Min({n, MaxCandidates})
             key == [i \in Distinct |-> <<Score(runs[i]), Cost(runs[i]), i>>]
  <2>1. PICK order \in Rankings(key) : candidates' = [i \in 1 .. m |-> runs[order[i]]]
    BY <1>2 DEF Choose, Ranked
  <2>2. DOMAIN key = Distinct /\ n \in Nat /\ n = Cardinality(DOMAIN key)
    BY DistinctPlaces
  <2>3. m \in Nat /\ m =< n
    <3>1. n \in Int /\ MaxCandidates \in Int
      BY <2>2, CandidatesAssumption
    <3>2. m \in {n, MaxCandidates} /\ m =< n
      BY <3>1, MinOfTwo
    <3> HIDE DEF m, n
    <3> QED BY <2>2, <3>2, CandidatesAssumption
  <2> HIDE DEF key, n, m
  <2>4. order \in [1 .. n -> Distinct]
    BY <2>1, <2>2 DEF Rankings, Bijection, Injection
  <2>5. ASSUME NEW i \in 1 .. m PROVE runs[order[i]] \in Range(runs)
    <3>1. i \in 1 .. n
      BY <2>2, <2>3
    <3> QED BY <2>4, <3>1, DistinctPlaces
  <2> QED BY <2>1, <2>5
<1> QED BY <1>1, <1>2

LEMMA PlansOffer == ASSUME PlansInv, Offer PROVE PlansInv'
<1>1. people' = people /\ trips' = trips /\ runs' = runs
  BY DEF Offer, Answer, requestVars
<1>2. ASSUME NEW i \in DOMAIN candidates' PROVE Sound(candidates'[i])
  <2> DEFINE feasible == {j \in DOMAIN candidates :
                             candidates[j].status \in {"SUCCESS", "PARTIAL"}}
  <2>1. CASE candidates' = candidates
    BY <2>1 DEF PlansInv
  <2>2. ASSUME NEW order \in Rankings([j \in feasible |-> <<j>>]),
               candidates' = [j \in DOMAIN order |-> candidates[order[j]]]
        PROVE  Sound(candidates'[i])
    <3>1. i \in DOMAIN order /\ order[i] \in feasible
      BY <2>2 DEF Rankings, Bijection, Injection
    <3> QED BY <2>2, <3>1 DEF PlansInv
  <2> QED BY <2>1, <2>2 DEF Offer, Answer
<1>3. \A p \in Range(runs') : Sound(p)
  BY <1>1 DEF PlansInv
<1> QED BY <1>1, <1>2, <1>3, PlansKept

(* A plan that is applied has drivers of the request, so it is one that    *)
(* gives each route a driver of its own.                                   *)
LEMMA AppliedSound ==
    ASSUME NEW p, Sound(p), Applicable(p), trips' = p.drivers
    PROVE  AppliedIsSound'
<1> DEFINE rs == p.routes
<1>1. DOMAIN trips' = rs
  BY DEF Sound
<1>2. CASE rs = {}
  <2>1. Loaded(DOMAIN trips') = {} /\ OrdersOf({}) = {}
    BY <1>1, <1>2, EmptyRoutes DEF OrdersOf
  <2> QED BY <1>1, <1>2, <2>1 DEF AppliedIsSound
<1>3. CASE rs # {}
  <2>1. trips' \in Staffings(rs) /\ Disjoint(rs) /\ \A r \in rs : Rides(r)
    BY <1>3 DEF Sound, Applicable
  <2>2. ASSUME NEW r \in rs, NEW q \in rs, r # q, r.slot.day = q.slot.day
        PROVE  r.slot.truck # q.slot.truck /\ trips'[r] # trips'[q]
    <3>1. r.slot # q.slot
      BY <2>1, <2>2 DEF Disjoint
    <3>2. /\ r.slot = [day |-> r.slot.day, truck |-> r.slot.truck]
          /\ q.slot = [day |-> q.slot.day, truck |-> q.slot.truck]
      BY <2>1 DEF Rides, IsSlot
    <3>3. trips'[r] # trips'[q]
      BY <2>1, <2>2 DEF Staffings
    <3> QED BY <2>2, <3>1, <3>2, <3>3
  <2>3. \A r \in rs : /\ Licensed(trips'[r], r.slot.truck)
                      /\ Admits(r.slot, r.load) /\ Servable(r.slot, r.load)
    BY <2>1 DEF Staffings, Rides
  <2>4. ASSUME NEW o \in OrdersOf(Loaded(rs)), NEW i \in Items[o]
        PROVE  \E a \in Loaded(rs) : a.order = o /\ i \in a.items
    <3>1. i \in UNION {a.items : a \in {b \in Loaded(rs) : b.order = o}}
      BY DEF Applicable
    <3> QED BY <3>1
  <2> HIDE DEF rs
  <2> QED BY <1>1, <2>2, <2>3, <2>4 DEF AppliedIsSound
<1> QED BY <1>2, <1>3

LEMMA PlansApply == ASSUME PlansInv, NEW i \in DOMAIN candidates, Apply(i) PROVE PlansInv'
<1>1. people' = people /\ runs' = runs /\ candidates' = candidates
  BY DEF Apply, requestVars
<1>2. AppliedIsSound'
  <2>1. CASE Applicable(candidates[i])
    <3>1. trips' = candidates[i].drivers /\ Sound(candidates[i])
      BY <2>1 DEF Apply, PlansInv
    <3> QED BY <2>1, <3>1, AppliedSound
  <2>2. CASE ~Applicable(candidates[i])
    <3>1. trips' = trips
      BY <2>2 DEF Apply
    <3> QED BY <3>1 DEF PlansInv, AppliedIsSound
  <2> QED BY <2>1, <2>2
<1>3. \A p : Sound(p)' <=> Sound(p)
  BY <1>1, SoundStays
<1>4. (\A p \in Range(runs) : Sound(p))'
  BY <1>1, <1>3 DEF PlansInv
<1>5. (\A j \in DOMAIN candidates : Sound(candidates[j]))'
  BY <1>1, <1>3 DEF PlansInv
<1> QED BY <1>2, <1>4, <1>5 DEF PlansInv

LEMMA StepPlansInv == IInv /\ RequestInv /\ LoadInv /\ PlansInv /\ [Next]_vars => PlansInv'
<1> SUFFICES ASSUME IInv, RequestInv, LoadInv, PlansInv, [Next]_vars PROVE PlansInv'
  OBVIOUS
<1>1. ASSUME UNCHANGED <<people, trips, runs, candidates>> PROVE PlansInv'
  <2>1. \A p \in Range(runs') : Sound(p)
    BY <1>1 DEF PlansInv
  <2>2. \A i \in DOMAIN candidates' : Sound(candidates'[i])
    BY <1>1 DEF PlansInv
  <2> QED BY <1>1, <2>1, <2>2, PlansKept
<1>2. ASSUME NEW orders \in Backlogs, Prepare(orders) PROVE PlansInv'
  BY <1>1, <1>2 DEF Prepare
<1>3. ASSUME NEW orders \in Backlogs, SplitLimit(orders) PROVE PlansInv'
  BY <1>1, <1>3 DEF SplitLimit, Fail, requestVars
<1>4. CASE Exhaustive
  <2>1. people' = people /\ trips' = trips /\ runs' = runs
    BY <1>4 DEF Exhaustive, requestVars
  <2>2. \A p \in Range(runs') : Sound(p)
    BY <2>1 DEF PlansInv
  <2> QED BY <1>4, <2>1, <2>2, ExhaustiveSound, PlansKept
<1>5. CASE ExhaustiveFindsNothing \/ NextRun \/ AllFail \/ HybridGivesNothing \/ Refuse
  <2>1. UNCHANGED <<people, trips, runs, candidates>>
    BY <1>5 DEF ExhaustiveFindsNothing, NextRun, AllFail, Fail, HybridGivesNothing, Refuse,
                Answer, requestVars
  <2> QED BY <1>1, <2>1
<1>6. CASE SearchStep /\ UNCHANGED batchVars
  BY <1>6, PlansSearchStep
<1>7. CASE HybridEnds
  <2>1. PICK rs \in RouteSets(HybridSlots(slots)), compared \in BOOLEAN :
            runs' = Append(runs, HybridPlan(rs, compared))
    BY <1>7 DEF HybridEnds
  <2>2. people' = people /\ trips' = trips /\ candidates' = candidates
    BY <1>7 DEF HybridEnds, requestVars
  <2>3. Range(runs') = Range(runs) \union {HybridPlan(rs, compared)}
    BY <2>1, OneMore DEF IInv
  <2>4. \A p \in Range(runs') : Sound(p)
    BY <2>3, HybridSound DEF PlansInv
  <2>5. \A i \in DOMAIN candidates' : Sound(candidates'[i])
    BY <2>2 DEF PlansInv
  <2> QED BY <2>2, <2>4, <2>5, PlansKept
<1>8. CASE Choose
  <2>1. people' = people /\ trips' = trips /\ runs' = << >>
    BY <1>8 DEF Choose, requestVars
  <2>2. \A p \in Range(runs') : Sound(p)
    BY <2>1, EmptyRuns
  <2>3. \A i \in DOMAIN candidates' : Sound(candidates'[i])
    BY <1>8, ChosenAreRuns DEF PlansInv
  <2> QED BY <2>1, <2>2, <2>3, PlansKept
<1>9. CASE Offer
  BY <1>9, PlansOffer
<1>10. ASSUME NEW i \in DOMAIN candidates, Apply(i) PROVE PlansInv'
  BY <1>10, PlansApply
<1>11. CASE UNCHANGED vars
  BY <1>1, <1>11 DEF vars, requestVars, batchVars
<1> QED BY <1>2, <1>3, <1>4, <1>5, <1>6, <1>7, <1>8, <1>9, <1>10, <1>11 DEF Next

LEMMA AlwaysPlansInv == Spec => []PlansInv
<1>1. Init => PlansInv
  <2> SUFFICES ASSUME Init PROVE PlansInv
    OBVIOUS
  <2>1. runs = << >> /\ candidates = << >> /\ trips = NoDrivers
    BY DEF Init
  <2>2. DOMAIN trips = {} /\ DOMAIN candidates = {} /\ Range(runs) = {}
    BY <2>1, EmptyRuns DEF NoDrivers
  <2>3. Loaded(DOMAIN trips) = {} /\ OrdersOf({}) = {}
    BY <2>2, EmptyRoutes DEF OrdersOf
  <2> QED BY <2>2, <2>3 DEF PlansInv, AppliedIsSound
<1> QED BY <1>1, AlwaysIInv, AlwaysRequestInv, AlwaysLoadInv, StepPlansInv, PTL DEF Spec

(* What applyAutomaticOptimization turns into trips can be driven,         *)
(* whichever search it comes from: its checks are few, and what it does    *)
(* not check the searches see to.                                          *)
THEOREM AppliedPlansAreSound == Spec => []AppliedIsSound
<1>1. PlansInv => AppliedIsSound
  BY DEF PlansInv
<1> QED BY <1>1, AlwaysPlansInv, PTL
-----------------------------------------------------------------------------
LEMMA RouteShape ==
    ASSUME NEW route \in Routes
    PROVE  /\ \E n \in 0 .. 2 * Cardinality(Orders) : route \in [1 .. n -> Stop]
           /\ DOMAIN route \subseteq 1 .. 2 * Cardinality(Orders)
           /\ \A i \in DOMAIN route : route[i] \in Stop
<1>1. Cardinality(Orders) \in Nat
  BY FiniteAssumption, FS_CardinalityType
<1>2. PICK n \in 0 .. 2 * Cardinality(Orders) : route \in [1 .. n -> Stop]
  BY DEF Routes
<1> QED BY <1>1, <1>2

LEMMA NoStops == << >> \in Routes
<1>1. Cardinality(Orders) \in Nat
  BY FiniteAssumption, FS_CardinalityType
<1>2. << >> \in [1 .. 0 -> Stop]
  OBVIOUS
<1>3. 0 \in 0 .. 2 * Cardinality(Orders)
  BY <1>1
<1> QED BY <1>2, <1>3, Zenon DEF Routes

(* A plan built from whatever the search has kept has only routes that a   *)
(* vehicle of the profile was found to serve.                              *)
LEMMA BuiltRoutes ==
    ASSUME judge \in [Vehicles -> Vehicles], NEW p
    PROVE  Built(p).routes \in [Vehicles -> Routes]
<1> DEFINE refused == {v \in Active(p.routes) : ~Accepts(v, p.routes[v])}
           R == [v \in Vehicles |-> IF v \in refused THEN << >> ELSE p.routes[v]]
<1>1. Built(p).routes = R
  BY DEF Built, Solution
<1>2. ASSUME NEW v \in Vehicles PROVE R[v] \in Routes
  <2>1. CASE v \in refused \/ p.routes[v] = << >>
    BY <2>1, NoStops
  <2>2. CASE v \notin refused /\ p.routes[v] # << >>
    <3>1. Accepts(v, p.routes[v])
      BY <2>2 DEF Active
    <3>2. p.routes[v] \in TimelyRoutes[judge[v]]
      BY <3>1 DEF Accepts, FeasibleRoutes
    <3> QED BY <2>2, <3>2 DEF TimelyRoutes
  <2> QED BY <2>1, <2>2
<1> QED BY <1>1, <1>2

(* A sequence of all members of a set, each once, leaves none out.         *)
LEMMA SequencesOfAll ==
    ASSUME NEW S, IsFiniteSet(S), NEW seq \in SetToSeqs(S)
    PROVE  /\ seq \in [1 .. Cardinality(S) -> S] /\ Len(seq) = Cardinality(S)
           /\ \A x \in S : \E k \in 1 .. Cardinality(S) : seq[k] = x
<1> DEFINE D == 1 .. Cardinality(S)
<1>1. Cardinality(S) \in Nat
  BY FS_CardinalityType
<1>2. seq \in [D -> S] /\ \A i, j \in D : i # j => seq[i] # seq[j]
  BY DEF SetToSeqs
<1>3. seq \in Injection(D, S)
  BY <1>2 DEF Injection, IsInjective
<1>4. Cardinality(D) = Cardinality(S)
  BY <1>1, FS_Interval
<1>5. seq \in Surjection(D, S)
  BY <1>3, <1>4, FS_Injection
<1> QED BY <1>1, <1>2, <1>5 DEF Surjection

LEMMA OneByOneShape ==
    ASSUME NEW orders \in SUBSET Orders, NEW route \in OneByOne(orders)
    PROVE  route \in Routes /\ OrdersOn(route) = orders
<1> DEFINE n == Cardinality(orders)
<1>1. /\ IsFiniteSet(orders) /\ n \in Nat /\ Cardinality(Orders) \in Nat
      /\ n <= Cardinality(Orders)
  BY FiniteAssumption, FS_Subset, FS_CardinalityType
<1>2. PICK seq \in SetToSeqs(orders) : route = OneAfterAnother(seq)
  BY DEF OneByOne
<1>3. /\ seq \in [1 .. n -> orders] /\ Len(seq) = n
      /\ \A x \in orders : \E k \in 1 .. n : seq[k] = x
  BY <1>1, <1>2, SequencesOfAll
<1> HIDE DEF n
<1>4. \A k \in 1 .. 2 * n : (k + 1) \div 2 \in 1 .. n
  BY <1>1
<1>5. /\ DOMAIN route = 1 .. 2 * n
      /\ \A k \in 1 .. 2 * n :
            /\ route[k] \in Stop /\ route[k].order = seq[(k + 1) \div 2]
  BY <1>2, <1>3, <1>4 DEF OneAfterAnother, Stop
<1>6. route \in [1 .. 2 * n -> Stop]
  BY <1>2, <1>3, <1>5 DEF OneAfterAnother
<1>7. route \in Routes
  BY <1>1, <1>6 DEF Routes
<1>8. OrdersOn(route) \subseteq orders
  BY <1>3, <1>4, <1>5 DEF OrdersOn
<1>9. ASSUME NEW x \in orders PROVE x \in OrdersOn(route)
  <2>1. PICK k \in 1 .. n : seq[k] = x
    BY <1>3
  <2>2. 2 * k \in 1 .. 2 * n /\ (2 * k + 1) \div 2 = k
    BY <1>1
  <2> QED BY <1>5, <2>1, <2>2 DEF OrdersOn
<1> QED BY <1>7, <1>8, <1>9

LEMMA FewStops ==
    ASSUME NEW rs \in [Vehicles -> Routes], NEW o, NEW kind
    PROVE  IsFiniteSet(StopsOf(rs, o, kind))
<1> DEFINE D == 1 .. 2 * Cardinality(Orders)
<1>1. IsFiniteSet(D)
  BY FiniteAssumption, FS_CardinalityType, FS_Interval
<1>2. IsFiniteSet(Vehicles \X D)
  BY <1>1, FiniteAssumption, FS_Product
<1>3. ASSUME NEW v \in Vehicles PROVE DOMAIN rs[v] \subseteq D
  BY RouteShape
<1>4. StopsOf(rs, o, kind) \subseteq Vehicles \X D
  BY <1>3 DEF StopsOf, Active
<1> QED BY <1>2, <1>4, FS_Subset

(* A plan that passes the contract and leaves nothing out has each order   *)
(* on one vehicle.                                                         *)
Once(rs) == \A o \in Orders : Cardinality({v \in Vehicles : o \in OrdersOn(rs[v])}) = 1

(* The routes of a sound plan are on time and can be packed, each on its   *)
(* own vehicle, and serve every order once if none is left unassigned.     *)
SoundRoutes(rs, un) ==
    /\ \A v \in Vehicles : OnTime(v, rs[v])
    /\ \A v \in Active(rs) : Placeable(v, rs[v])
    /\ un = {} => Once(rs)

LEMMA RouteOrders ==
    ASSUME NEW route \in Routes
    PROVE  OrdersOn(route) \subseteq Orders
BY RouteShape DEF OrdersOn, Stop

LEMMA ContractServesOnce ==
    ASSUME NEW rs \in [Vehicles -> Routes], ContractValid(rs, {})
    PROVE  Once(rs)
<1>1. SUFFICES ASSUME NEW o \in Orders
               PROVE  \E v : {u \in Vehicles : o \in OrdersOn(rs[u])} = {v}
  BY FS_Singleton DEF Once
<1> DEFINE picked == StopsOf(rs, o, "PICKUP")
           delivered == StopsOf(rs, o, "DELIVERY")
<1>2. o \in Served(rs)
  BY DEF ContractValid
<1>3. Cardinality(picked) = 1 /\ Cardinality(delivered) = 1
  BY <1>2 DEF Served
<1>9. IsFiniteSet(picked) /\ IsFiniteSet(delivered)
  BY FewStops
<1> HIDE DEF picked, delivered
<1>10. PICK p : picked = {p}
  BY <1>3, <1>9, FS_Singleton, Zenon
<1>11. PICK d : delivered = {d}
  BY <1>3, <1>9, FS_Singleton, Zenon
<1> USE DEF picked, delivered
<1>4. picked = {p} /\ delivered = {d}
  BY <1>10, <1>11
<1>5. p[1] = d[1]
  BY <1>4 DEF ContractValid
<1>6. ASSUME NEW u \in Vehicles, o \in OrdersOn(rs[u])
      PROVE  u = p[1]
  <2>1. PICK i \in DOMAIN rs[u] : rs[u][i].order = o
    BY <1>6 DEF OrdersOn
  <2>2. rs[u][i] \in Stop
    BY RouteShape
  <2>3. PICK kind \in {"PICKUP", "DELIVERY"} : rs[u][i] = [kind |-> kind, order |-> o]
    BY <2>1, <2>2 DEF Stop
  <2>4. u \in Active(rs)
    BY <2>1 DEF Active
  <2>5. <<u, i>> \in StopsOf(rs, o, kind)
    BY <2>1, <2>3, <2>4 DEF StopsOf
  <2> QED BY <1>4, <1>5, <2>3, <2>5
<1>7. PICK u \in Active(rs) : \E i \in DOMAIN rs[u] : rs[u][i].order = o /\ p = <<u, i>>
  BY <1>4 DEF StopsOf
<1>8. p[1] \in Vehicles /\ o \in OrdersOn(rs[p[1]])
  BY <1>7 DEF OrdersOn, Active
<1> QED BY <1>6, <1>8

(* What the audit lets pass is on time, can be packed, and serves what the *)
(* plan it looked at serves: rebuilding a route keeps its orders.          *)
LEMMA AuditedIsServed ==
    ASSUME NEW rs \in [Vehicles -> Routes], NEW un, NEW x \in Audits(rs, un)
    PROVE  /\ x.unassigned = un
           /\ x.valid => SoundRoutes(x.routes, un)
<1> DEFINE Rebuilt == [v \in Active(rs) |-> {r \in OneByOne(OrdersOn(rs[v])) :
                                               OnTime(v, r) /\ Placeable(v, r)}]
           Repairs == {f \in [Vehicles -> UNION Range(Rebuilt) \union Range(rs)] :
                        \A v \in Vehicles :
                            \/ f[v] = rs[v]
                            \/ v \in Active(rs) /\ f[v] \in Rebuilt[v]}
           Passes(f) == \A v \in Active(f) : Placeable(v, f[v])
           sound == ContractValid(rs, un) /\ TemporallyValid(rs)
<1>1. \/ \E f : x = Verdict(Solution(f, un), FALSE, TRUE)
      \/ sound /\ \E f \in Repairs : Passes(f) /\ x = Verdict(Solution(f, un), TRUE, TRUE)
  BY Zenon DEF Audits
<1>2. CASE \E f : x = Verdict(Solution(f, un), FALSE, TRUE)
  BY <1>2 DEF Verdict, Solution
<1>3. CASE sound /\ \E f \in Repairs :
                      Passes(f) /\ x = Verdict(Solution(f, un), TRUE, TRUE)
  <2>1. PICK f \in Repairs : Passes(f) /\ x = Verdict(Solution(f, un), TRUE, TRUE)
    BY <1>3
  <2>2. x.routes = f /\ x.unassigned = un
    BY <2>1 DEF Verdict, Solution
  <2>3. ASSUME NEW v \in Vehicles
        PROVE  OnTime(v, f[v]) /\ OrdersOn(f[v]) = OrdersOn(rs[v])
    <3>1. CASE v \in Active(rs) /\ f[v] \in Rebuilt[v]
      <4>1. f[v] \in OneByOne(OrdersOn(rs[v])) /\ OnTime(v, f[v])
        BY <3>1
      <4>2. OrdersOn(rs[v]) \subseteq Orders
        BY RouteOrders
      <4> QED BY <4>1, <4>2, OneByOneShape
    <3>2. CASE f[v] = rs[v]
      BY <1>3, <3>2 DEF TemporallyValid
    <3> QED BY <3>1, <3>2
  <2>4. un = {} => Once(f)
    <3>1. ASSUME NEW o \in Orders
          PROVE  {v \in Vehicles : o \in OrdersOn(f[v])} = {v \in Vehicles : o \in OrdersOn(rs[v])}
      BY <2>3
    <3>2. un = {} => Once(rs)
      BY <1>3, ContractServesOnce
    <3> QED BY <3>1, <3>2 DEF Once
  <2>5. \A v \in Active(f) : Placeable(v, f[v])
    BY <2>1
  <2> QED BY <2>2, <2>3, <2>4, <2>5 DEF SoundRoutes
<1> QED BY <1>1, <1>2, <1>3

-----------------------------------------------------------------------------
(* What a complete plan given back as valid has to serve; a plan nothing   *)
(* has audited makes no promise about its floor.                           *)
Serves(x) ==
    /\ \A v \in Vehicles : OnTime(v, x.routes[v])
    /\ Once(x.routes)
    /\ x.audited => \A v \in Active(x.routes) : Placeable(v, x.routes[v])

GoodResult(x) == x.valid /\ Complete(x) /\ Serves(x)

(* Inductive.  The verdicts cached for a vehicle are those of a vehicle,   *)
(* so what the cache lets pass is at least a route; the initial plan is    *)
(* one that serves, if it is complete; nothing but the audit and the       *)
(* initial plan become the result.                                         *)
ResultInv ==
    /\ judge \in [Vehicles -> Vehicles]
    /\ start.valid /\ (Complete(start) => Serves(start))
    /\ pc = "pairwise" => GoodResult(result)
    /\ pc = "done" => (result.valid /\ Complete(result) => Serves(result))
    /\ pc = "done" /\ Complete(start) => result.valid /\ Complete(result)

LEMMA SoundServes ==
    ASSUME NEW x, SoundRoutes(x.routes, x.unassigned), Complete(x)
    PROVE  Serves(x)
BY DEF SoundRoutes, Complete, Serves

LEMMA AuditedPlan ==
    ASSUME ResultInv, NEW p, NEW x \in Audited(p), x.valid, Complete(x)
    PROVE  GoodResult(x)
<1>1. Built(p).routes \in [Vehicles -> Routes]
  BY BuiltRoutes DEF ResultInv
<1>2. x \in Audits(Built(p).routes, Built(p).unassigned)
  BY DEF Audited
<1>3. x.unassigned = Built(p).unassigned /\ SoundRoutes(x.routes, x.unassigned)
  BY <1>1, <1>2, AuditedIsServed
<1> QED BY <1>3, SoundServes DEF GoodResult

LEMMA StartServes ==
    ASSUME NEW p \in Starts, Complete(p)
    PROVE  /\ \A v \in Vehicles : OnTime(v, p.routes[v])
           /\ Once(p.routes)
<1>1. PICK r \in [Vehicles -> UNION Range(TimelyRoutes)] :
         /\ p = Solution(r, Orders \ Assigned(r))
         /\ \A v, w \in Vehicles : v # w => OrdersOn(r[v]) \cap OrdersOn(r[w]) = {}
         /\ \A v \in Vehicles : r[v] \in TimelyRoutes[v]
  BY Zenon DEF Starts
<1>2. p.routes = r /\ Orders \subseteq Assigned(r)
  BY <1>1 DEF Solution, Complete
<1>3. \A v \in Vehicles : OnTime(v, r[v])
  BY <1>1 DEF TimelyRoutes
<1>4. ASSUME NEW o \in Orders PROVE Cardinality({v \in Vehicles : o \in OrdersOn(r[v])}) = 1
  <2>1. PICK v \in Vehicles : o \in OrdersOn(r[v])
    BY <1>2 DEF Assigned
  <2>2. \A w \in Vehicles : o \in OrdersOn(r[w]) => w = v
    BY <1>1, <2>1
  <2>3. {w \in Vehicles : o \in OrdersOn(r[w])} = {v}
    BY <2>1, <2>2
  <2> QED BY <2>3, FS_Singleton
<1> QED BY <1>2, <1>3, <1>4 DEF Once

LEMMA ResultInit == HybridInit => ResultInv
<1> SUFFICES ASSUME HybridInit PROVE ResultInv
  OBVIOUS
<1>1. pc = "warm" /\ judge \in [Vehicles -> Vehicles]
  BY DEF HybridInit
<1>2. PICK p \in Starts, audited \in BOOLEAN :
         /\ \A v \in Active(p.routes) :
               IF audited THEN Placeable(v, p.routes[v]) ELSE FastFits(v, p.routes[v])
         /\ start = Verdict(p, TRUE, audited)
  BY Zenon DEF HybridInit
<1>3. /\ start.routes = p.routes /\ start.unassigned = p.unassigned
      /\ start.valid = TRUE /\ start.audited = audited
  BY <1>2 DEF Verdict
<1>4. ASSUME Complete(start) PROVE Serves(start)
  <2>1. Complete(p)
    BY <1>3, <1>4 DEF Complete
  <2>2. audited => \A v \in Active(p.routes) : Placeable(v, p.routes[v])
    BY <1>2
  <2> QED BY <1>3, <2>1, <2>2, StartServes DEF Serves
<1> QED BY <1>1, <1>3, <1>4 DEF ResultInv

(* The steps before the end leave the initial plan and the cache alone.    *)
LEMMA EarlierStep ==
    ASSUME ResultInv, UNCHANGED <<judge, start>>, pc' \notin {"pairwise", "done"}
    PROVE  ResultInv'
BY DEF ResultInv, Complete, Serves

LEMMA AuditEliteStep ==
    ASSUME ResultInv, AuditElite
    PROVE  ResultInv'
<1>1. PICK slate \in Slates :
      \E verdict \in [slate -> UNION {Audited(p) : p \in slate}] :
          /\ \A p \in slate : verdict[p] \in Audited(p)
          /\ LET passed == {x \in Range(verdict) : x.valid /\ Complete(x)}
             IN  IF passed = {} THEN pc' = "fallback" /\ UNCHANGED result
                 ELSE pc' = "pairwise" /\ result' \in Cheapest(passed)
  BY Zenon DEF AuditElite
<1>2. PICK verdict \in [slate -> UNION {Audited(p) : p \in slate}] :
          /\ \A p \in slate : verdict[p] \in Audited(p)
          /\ LET passed == {x \in Range(verdict) : x.valid /\ Complete(x)}
             IN  IF passed = {} THEN pc' = "fallback" /\ UNCHANGED result
                 ELSE pc' = "pairwise" /\ result' \in Cheapest(passed)
  BY <1>1
<1> DEFINE passed == {x \in Range(verdict) : x.valid /\ Complete(x)}
<1>3. UNCHANGED <<judge, start>>
  BY DEF AuditElite
<1>4. CASE passed = {}
  BY <1>2, <1>3, <1>4, EarlierStep
<1>5. CASE passed # {}
  <2>1. pc' = "pairwise" /\ result' \in Cheapest(passed)
    BY <1>2, <1>5
  <2>2. result' \in passed
    BY <2>1 DEF Cheapest
  <2>3. PICK p \in slate : result' = verdict[p]
    BY <2>2 DEF Range
  <2>4. result' \in Audited(p) /\ result'.valid /\ Complete(result')
    BY <1>2, <2>2, <2>3
  <2>5. GoodResult(result')
    BY <2>4, AuditedPlan
  <2> QED BY <1>3, <2>1, <2>5 DEF ResultInv, GoodResult, Complete, Serves
<1> QED BY <1>4, <1>5

LEMMA PairwiseStep ==
    ASSUME ResultInv, Pairwise
    PROVE  ResultInv'
<1>1. UNCHANGED <<judge, start>> /\ pc' = "done" /\ pc = "pairwise"
  BY DEF Pairwise
<1>2. GoodResult(result)
  BY <1>1 DEF ResultInv
<1>3. GoodResult(result')
  <2>1. CASE UNCHANGED result
    BY <1>2, <2>1
  <2>2. CASE ~UNCHANGED result
    <3>1. PICK r \in [Vehicles -> UNION {OneByOne(os) : os \in SUBSET Orders}] :
             /\ \A v \in Vehicles \ Active(result.routes) : r[v] = << >>
             /\ \E x \in Audits(r, {}) : x.valid /\ result' = x
      BY <2>2, Zenon DEF Pairwise
    <3>2. r \in [Vehicles -> Routes]
      <4>1. ASSUME NEW v \in Vehicles PROVE r[v] \in Routes
        <5>1. PICK os \in SUBSET Orders : r[v] \in OneByOne(os)
          OBVIOUS
        <5> QED BY <5>1, OneByOneShape
      <4> QED BY <4>1
    <3>3. PICK x \in Audits(r, {}) : x.valid /\ result' = x
      BY <3>1
    <3>4. x.unassigned = {} /\ SoundRoutes(x.routes, x.unassigned)
      BY <3>2, <3>3, AuditedIsServed
    <3>5. Complete(x)
      BY <3>4 DEF Complete
    <3> QED BY <3>3, <3>4, <3>5, SoundServes DEF GoodResult
  <2> QED BY <2>1, <2>2
<1> QED BY <1>1, <1>3 DEF ResultInv, GoodResult, Complete, Serves

LEMMA FallBackStep ==
    ASSUME ResultInv, FallBack
    PROVE  ResultInv'
<1>1. UNCHANGED <<judge, start>> /\ pc' = "done"
  BY DEF FallBack
<1>2. PICK x \in Audited(fallback) :
          IF x.valid /\ Complete(x) THEN result' = x
          ELSE IF start.valid /\ Complete(start) THEN result' = start
          ELSE result' \in Audited(best)
  BY DEF FallBack
<1>3. start.valid /\ (Complete(start) => Serves(start))
  BY DEF ResultInv
<1>4. result'.valid /\ Complete(result') => Serves(result')
  <2>1. CASE x.valid /\ Complete(x)
    BY <1>2, <2>1, AuditedPlan DEF GoodResult
  <2>2. CASE ~(x.valid /\ Complete(x)) /\ Complete(start)
    BY <1>2, <1>3, <2>2
  <2>3. CASE ~(x.valid /\ Complete(x)) /\ ~Complete(start)
    <3>1. result' \in Audited(best)
      BY <1>2, <2>3
    <3> QED BY <3>1, AuditedPlan DEF GoodResult
  <2> QED BY <2>1, <2>2, <2>3
<1>5. Complete(start) => result'.valid /\ Complete(result')
  BY <1>2, <1>3
<1> QED BY <1>1, <1>3, <1>4, <1>5 DEF ResultInv, Complete, Serves

LEMMA ResultStep == ResultInv /\ [HybridNext]_hybridVars => ResultInv'
<1> SUFFICES ASSUME ResultInv, [HybridNext]_hybridVars PROVE ResultInv'
  OBVIOUS
<1>1. CASE WarmStart
  BY <1>1, EarlierStep DEF WarmStart, AfterWarmStart
<1>2. CASE NoWarmStart
  BY <1>2, EarlierStep DEF NoWarmStart, AfterWarmStart
<1>3. CASE Structure
  BY <1>3, EarlierStep DEF Structure
<1>4. CASE MergeRoutes
  BY <1>4, EarlierStep DEF MergeRoutes
<1>5. CASE Relocate
  BY <1>5, EarlierStep DEF Relocate
<1>6. CASE DropGuidance
  BY <1>6, EarlierStep DEF DropGuidance
<1>7. CASE Split
  BY <1>7, EarlierStep DEF Split
<1>8. CASE Settle
  BY <1>8, EarlierStep DEF Settle
<1>9. CASE Intensify
  BY <1>9, EarlierStep DEF Intensify, Iterating
<1>10. CASE Merge
  BY <1>10, EarlierStep DEF Merge, Iterating
<1>11. CASE Ruin
  BY <1>11, EarlierStep DEF Ruin
<1>12. CASE Repair
  BY <1>12, EarlierStep DEF Repair
<1>13. CASE Judge
  BY <1>13, EarlierStep DEF Judge
<1>14. CASE EndAlns
  BY <1>14, EarlierStep DEF EndAlns
<1>15. CASE Refine
  BY <1>15, EarlierStep DEF Refine
<1>16. CASE AuditElite
  BY <1>16, AuditEliteStep
<1>17. CASE Pairwise
  BY <1>17, PairwiseStep
<1>18. CASE FallBack
  BY <1>18, FallBackStep
<1>19. CASE UNCHANGED hybridVars
  BY <1>19 DEF hybridVars, ResultInv, GoodResult, Complete, Serves
<1> QED
  BY <1>1, <1>2, <1>3, <1>4, <1>5, <1>6, <1>7, <1>8, <1>9, <1>10, <1>11, <1>12, <1>13,
     <1>14, <1>15, <1>16, <1>17, <1>18, <1>19 DEF HybridNext

LEMMA ResultHolds == HybridSpec => []ResultInv
BY ResultInit, ResultStep, PTL DEF HybridSpec

(* Whatever the search did to it and whatever the cache said, a complete   *)
(* plan returned as valid serves every order once, on time, and where it   *)
(* was audited the floor of each vehicle can be packed (solve).            *)
THEOREM ValidIsServed == HybridSpec => []ValidMeansServed
<1>1. ResultInv => ValidMeansServed
  BY DEF ResultInv, ValidMeansServed, Serves, Once
<1> QED BY <1>1, ResultHolds, PTL

(* A complete initial plan is never lost: whatever the random moves, the   *)
(* audit and the deadline did, a complete plan flagged valid is returned.  *)
THEOREM StartIsKept == HybridSpec => []CompleteStartIsKept
<1>1. ResultInv => CompleteStartIsKept
  BY DEF ResultInv, CompleteStartIsKept
<1> QED BY <1>1, ResultHolds, PTL
=============================================================================

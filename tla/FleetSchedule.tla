---------------------------- MODULE FleetSchedule ----------------------------
(***************************************************************************)
(* What trip planning promises to the fleet: a vehicle or a driver is      *)
(* never promised to two trips at once, and the plan of a trip that has    *)
(* been dispatched does not change any more.  `TripPlanning' implements it.*)
(***************************************************************************)
EXTENDS Integers

CONSTANTS Trips, Vehicles, Drivers, Times, NoPlan

VARIABLES plan,       \* the current plan of a trip, or NoPlan
          dispatched  \* the trips that have been published

vars == <<plan, dispatched>>

Plan == [vehicle: Vehicles, driver: Drivers, from: Times, to: Times]

(* Half-open intervals: a trip may start when another one ends.            *)
Overlap(p, q) == p.from < q.to /\ q.from < p.to

Clash(p, q) == Overlap(p, q) /\ (p.vehicle = q.vehicle \/ p.driver = q.driver)

NoClash(P) ==
  \A t, s \in Trips : t # s /\ P[t] # NoPlan /\ P[s] # NoPlan => ~ Clash(P[t], P[s])

Init ==
  /\ plan = [t \in Trips |-> NoPlan]
  /\ dispatched = {}

(* Trips that did not exist get a plan, several at once or one.            *)
Book ==
  /\ plan' \in [Trips -> Plan \cup {NoPlan}]
  /\ \A t \in Trips : plan[t] # NoPlan => plan'[t] = plan[t]
  /\ NoClash(plan')
  /\ UNCHANGED dispatched

Replan(t) ==
  /\ plan[t] # NoPlan /\ t \notin dispatched
  /\ \E p \in Plan : plan' = [plan EXCEPT ![t] = p]
  /\ NoClash(plan')
  /\ UNCHANGED dispatched

Dispatch(t) ==
  /\ plan[t] # NoPlan /\ t \notin dispatched
  /\ dispatched' = dispatched \cup {t}
  /\ UNCHANGED plan

Next == Book \/ \E t \in Trips : Replan(t) \/ Dispatch(t)

Spec == Init /\ [][Next]_vars
=============================================================================

CONSTANTS
  p1 = p1
  p2 = p2
  p3 = p3
  NoPlan = NoPlan
  NoOne = NoOne
  Vehicles = {1, 2}
  Drivers = {1, 2}
  Orders = {1, 2}
  Packages = {p1, p2, p3}
  OrderOf <- SmallOrderOf
  ShopOrders = {2}
  Times = {0, 1, 2, 3}
  Routes <- SmallRoutes
  Proposals <- SmallProposals
  Requests = {r1, r2}
  Clerks = {c1}
  MaxTrips = 3
  MaxChanges = 1
  MaxRequests = 3
SPECIFICATION Spec
INVARIANTS OrderIsPlannedOnce
CHECK_DEADLOCK FALSE
SYMMETRY Symmetry

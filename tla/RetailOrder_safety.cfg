SPECIFICATION Spec
CONSTANTS
  s1 = s1
  s2 = s2
  p1 = p1
  p2 = p2
  p3 = p3
  a = a
  b = b
  Orders = {1, 2}
  Packages = {p1, p2, p3}
  OrderOf <- TwoAndOne
  Places = {a, b}
  Staff = {s1, s2}
  TotalSlots = 2
  MaxAttempts = 2
  MaxRequests = 6
  NoOne = NoOne
  NoPlace = NoPlace
SYMMETRY Symmetric
INVARIANTS
  TypeOK
  TokenWhenComplete
  SlotsAreAccounted
PROPERTIES
  CancelledStays
CHECK_DEADLOCK FALSE

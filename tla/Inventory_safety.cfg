SPECIFICATION Spec
CONSTANTS
  Skus = {1, 2}
  l1 = l1
  r0 = r0
  o1 = o1
  l2 = l2
  Locations = {l1, l2}
  Orders = {o1}
  Reservations = {r0, r1, r2}
  Transactions = {t1, t2, t3}
  Opening <- SmallOpening
  Booked <- SmallBooked
  SafetyBuffer = 1
  Lines <- SmallLines
  PickedLines <- SmallPicks
  DeltaLines <- SmallDeltas
  MaxQuantity = 2
  NoTx = NoTx
  NoOrder = NoOrder
  NoPlace = NoPlace
  NoReservation = NoReservation
SYMMETRY Symmetry
INVARIANTS
  TypeOK
  ReservedIsHeld
PROPERTIES
  UsedOnce
  BooksDriftByAdjustment
  BufferIsKept
CHECK_DEADLOCK FALSE

SPECIFICATION Spec
CONSTANTS
  Skus = {1}
  l1 = l1
  r0 = r0
  o1 = o1
  l2 = l2
  Locations = {l2}
  Orders = {o1}
  Reservations = {r1, r2}
  Transactions = {t1, t2, t3}
  Opening <- Nothing
  Booked <- Nothing
  SafetyBuffer = 1
  Lines <- PhantomLines
  PickedLines = {}
  DeltaLines = {}
  MaxQuantity = 2
  NoTx = NoTx
  NoOrder = NoOrder
  NoPlace = NoPlace
  NoReservation = NoReservation
SYMMETRY Symmetry
PROPERTY
  LastUnitsOnce
CHECK_DEADLOCK FALSE

SPECIFICATION Spec
CONSTANTS
  Requests = {q1, q2, q3, q4}
  Payloads = {p1, p2}
  NoPayload = NoPayload
  MaxFaults = 1
SYMMETRY Symmetry
INVARIANTS
  OneExecutor
CHECK_DEADLOCK FALSE

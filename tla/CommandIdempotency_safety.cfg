SPECIFICATION Spec
CONSTANTS
  Requests = {q1, q2, q3, q4}
  Payloads = {p1, p2}
  NoPayload = NoPayload
  MaxFaults = 2
SYMMETRY Symmetry
INVARIANTS
  TypeOK
  OncePerFault
  OnePayload
  AnswersAreTrue
CHECK_DEADLOCK FALSE

SPECIFICATION Spec
CONSTANTS
  Jobs = {j1}
  Workers = {w1, w2}
  Cancels = {c1}
  Applies = {a1, a2}
  SolverStatus = {"SUCCESS", "INFEASIBLE"}
  NoWorker = NoWorker
  NoJob = NoJob
  MaxAttempts = 2
  MaxStalls = 1
  MaxFaults = 2
SYMMETRY Symmetry
INVARIANTS
  TypeOK
  StoredByLatestClaim
  AppliedOnce
PROPERTIES
  LeaseIsAttended
  NoResurrection
  CancelIsHonoured
CHECK_DEADLOCK FALSE

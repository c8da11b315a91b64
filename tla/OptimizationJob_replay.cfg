SPECIFICATION Spec
CONSTANTS
  Jobs = {j1}
  Workers = {w1, w2}
  Cancels = {}
  Applies = {}
  SolverStatus = {"SUCCESS"}
  NoWorker = NoWorker
  NoJob = NoJob
  MaxAttempts = 3
  MaxStalls = 1
  MaxFaults = 0
INVARIANT
  ReplayReturnsJob
CHECK_DEADLOCK FALSE

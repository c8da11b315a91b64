SPECIFICATION Spec
CONSTANTS
  Jobs = {j1}
  Workers = {w1, w2}
  Cancels = {c1}
  Applies = {}
  SolverStatus = {"SUCCESS"}
  NoWorker = NoWorker
  NoJob = NoJob
  MaxAttempts = 3
  MaxStalls = 1
  MaxFaults = 0
PROPERTY
  FinishedIsFinal
CHECK_DEADLOCK FALSE

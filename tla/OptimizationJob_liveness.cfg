SPECIFICATION FairSpec
CONSTANTS
  Jobs = {j1}
  Workers = {w1, w2}
  Cancels = {c1}
  Applies = {a1}
  SolverStatus = {"SUCCESS"}
  NoWorker = NoWorker
  NoJob = NoJob
  MaxAttempts = 2
  MaxStalls = 1
  MaxFaults = 1
PROPERTIES
  EveryJobSettles
CHECK_DEADLOCK FALSE

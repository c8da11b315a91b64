SPECIFICATION PageSpec
CONSTANTS
  north = north
  south = south
  j1 = j1
  j2 = j2
  j3 = j3
  Branches = {north, south}
  Jobs = {j1, j2, j3}
  BranchOf <- TwoAndOne
  NoJob = NoJob
  MaxActions = 4
  MaxReloads = 1
  MaxFailures = 1
PROPERTIES
  ReadsShowOwnBranch
  ShowsTheEnd
CHECK_DEADLOCK FALSE

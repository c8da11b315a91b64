SPECIFICATION FairSpec
CONSTANTS
  Events = {1, 2, 3}
  Undeliverable = {2}
  Workers = {w1, w2}
  Nobody = Nobody
  BatchSize = 2
  MaxAttempts = 2
  MaxRetries = 1
  MaxFaults = 1
INVARIANTS
  DuplicatesAreFaults
PROPERTIES
  Delivers
CHECK_DEADLOCK FALSE

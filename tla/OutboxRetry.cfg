SPECIFICATION FairSpec
CONSTANTS
  Events = {1}
  Workers = {w1, w2}
  Requests = {r1, r2}
  BatchSize = 2
  MaxAttempts = 2
  MaxReplays = 0
  MaxAborts = 0
  w1 = w1
  w2 = w2
  r1 = r1
  r2 = r2
PROPERTIES
  FailuresAreRetried
CHECK_DEADLOCK FALSE

SPECIFICATION FairSpec
CONSTANTS
  Events = {1, 2}
  Workers = {w1, w2}
  Requests = {r1, r2}
  BatchSize = 2
  MaxAttempts = 2
  MaxReplays = 1
  MaxAborts = 1
  w1 = w1
  w2 = w2
  r1 = r1
  r2 = r2
INVARIANTS
  ExclusiveClaim
  DeliveriesBounded
  FailureTraceable
PROPERTIES
  PublishedIsFinal
  EventuallySettled
CHECK_DEADLOCK FALSE

SPECIFICATION ScheduleSpec
CONSTANTS
  LastScheduled = 2
  Workers = {w1, w2}
  ScheduleBatch = 2
  MaxSends = 2
  MaxAborts = 1
  w1 = w1
  w2 = w2
CHECK_DEADLOCK FALSE
INVARIANTS DeliveredOnce
PROPERTY AllSettle

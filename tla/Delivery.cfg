SPECIFICATION Spec
CONSTANTS
  Last = 2
  Handlers = {h1, h2}
  BatchSize = 1
  MaxAttempts = 2
  h1 = h1
  h2 = h2
CHECK_DEADLOCK FALSE
INVARIANTS StatusIsWhatWasTold
PROPERTIES NoRegression RetriedUnlessCrowded

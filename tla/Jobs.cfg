SPECIFICATION Spec
CONSTANTS
  Replicas = {a, b}
  Runs = {i1, i2, i3}
  Jobs = {j1}
  Conns = {1, 2, 3, 4}
  PoolSize = 1
  MaxJobs = 2
  MaxStops = 1
  a = a
  b = b
  i1 = i1
  i2 = i2
  i3 = i3
  j1 = j1
  j2 = j2
SYMMETRY Symmetry
INVARIANTS OneReplicaPerJob NoLockLeft RowsTellTheRun

SPECIFICATION Spec
CONSTANTS
  Sessions = {s1, s2}
  Store = "store"
  Kitchen = "kitchen"
  AllowsNegative = {}
  Batches = {b}
  NoBatch = NoBatch
  Receipts = {r}
  Transfers = {t}
  Counts = {k}
  CodeOf <- MCCodeOf
  Quantity = 2
  Opening = 2
  Deltas <- MCDeltas
  MaxSteps = 3
  s1 = s1
  s2 = s2
  b = b
  r = r
  t = t
  k = k
SYMMETRY Symmetry
CHECK_DEADLOCK FALSE
INVARIANTS BalanceIsLedger BatchIsLedger EffectMatchesStatus RollupIsTotal
PROPERTY CountCorrectsBooks

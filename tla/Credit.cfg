SPECIFICATION CreditSpec
CONSTANTS
  Sessions = {s1, s2}
  Calls = {"earn", "earn_order", "service_recovery_credit", "redeem", "reverse", "expire"}
  Keys = {k1, k2, k3}
  Amounts = {1, 2}
  MaxEntries = 3
  RecoverySessions = {s1, s2}
  Actions = {a1, a2, r1, r2}
  Kind <- MCKind
  Payments = {1, 2}
  Amount <- MCAmount
  Total = 2
  Points = 1
  StaffStatuses = {"paid", "failed"}
  MaxRequests = 6
  s1 = s1
  s2 = s2
  k1 = k1
  k2 = k2
  k3 = k3
  a1 = a1
  a2 = a2
  r1 = r1
  r2 = r2
SYMMETRY Symmetry
CHECK_DEADLOCK FALSE
INVARIANTS
  TypeOK LotExpiresOnce
  StatusTellsValue RefundsAreDistinct PaymentStatusFollows
PROPERTIES
  Serializes

SPECIFICATION OrderSpec
CONSTANTS
  Orders = {u1, u2}
  Sessions = {s1, s2}
  Needs = {0, 1, 2}
  MaxStock = 2
  OfferSessions = {s1, s2}
  Keys = {k1, k2, k3, k4}
  Customers = {u1, u2}
  Offer = Offer
  Coupons = {c1}
  Limit <- MCLimit
  CustomerLimit = 2
  Budget = 5
  Discounts = {2}
  s1 = s1
  s2 = s2
  k1 = k1
  k2 = k2
  k3 = k3
  k4 = k4
  u1 = u1
  u2 = u2
  c1 = c1
SYMMETRY Symmetry
CHECK_DEADLOCK FALSE
INVARIANTS
  TypeOK ReservedIsOwed ReservedIsNotStranded ServedIfTaken CountedOnce
  WithinLimit NoCapacityLost SharesHold
PROPERTY
  KeepsPromises

------------------------------- MODULE MCOrders -------------------------------
(* OrderFulfilment and OfferRedemption with interchangeable sessions,      *)
(* orders, customers and pairs of keys.  The two share no state, so each   *)
(* is explored while the other is at rest, in one of its initial states.   *)
EXTENDS OrderFulfilment, OfferRedemption, TLC

CONSTANTS s1, s2, u1, u2, k1, k2, k3, k4, c1

(* The offer may be used three times, its coupon twice.                    *)
MCLimit == [x \in Counted |-> IF x = Offer THEN 3 ELSE 2]

NoOrder == Init /\ \A o \in Orders : need[o] = 0

OrderInit == Init /\ OfferInit

OrderNext ==
  \/ OfferInit /\ Next /\ UNCHANGED offerVars
  \/ NoOrder /\ OfferNext /\ UNCHANGED vars

OrderSpec == OrderInit /\ [][OrderNext]_<<vars, offerVars>>

Symmetry ==
  UNION {Permutations(S) : S \in {Sessions, Orders, {k1, k2}, {k3, k4}}}
=============================================================================

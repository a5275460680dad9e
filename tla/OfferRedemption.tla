--------------------------- MODULE OfferRedemption ---------------------------
(***************************************************************************)
(* One offer that takes a code, its coupons, and the redemptions of both   *)
(* (app/offers/redemptions.py).  A reservation locks the offer row and     *)
(* reads everything else after it, so it is one step.  Confirming,         *)
(* rejecting and reversing (an endpoint, or the order the redemption is    *)
(* for) load the redemption without a lock, check its status, and write    *)
(* the new one whatever the row holds by then; giving capacity back locks  *)
(* the offer, which does not refresh the redemption.  An offer that takes  *)
(* no code is one whose only coupon has no limit.                          *)
(***************************************************************************)
EXTENDS Integers, FiniteSets, Functions

CONSTANTS
  OfferSessions,  \* concurrent requests
  Keys,           \* idempotency keys, one per reservation
  Customers,
  Offer,          \* the offer, as something with a redemption_count
  Coupons,        \* its coupons
  Limit,          \* global_usage_limit; a coupon's redemption_limit
  CustomerLimit,  \* per_customer_usage_limit
  Budget,         \* budget_cap_minor
  Discounts       \* what compute_discount may return

Counted == {Offer} \union Coupons

ASSUME LimitAssumption ==
  /\ Limit \in [Counted -> Nat \ {0}] /\ CustomerLimit \in Nat \ {0}
  /\ Budget \in Nat /\ Discounts \subseteq Nat
ASSUME SetAssumption == IsFiniteSet(Keys) /\ Offer \notin Coupons

VARIABLES
  redemption,   \* offer_redemptions, by idempotency key
  count,        \* redemption_count of the offer and of each coupon
  request,      \* what each session is doing, with the status it has read
  again,        \* history: capacity given back or taken without being counted
  revived       \* history: redemptions confirmed after their capacity was free

offerVars == <<redemption, count, request, again, revived>>

Absent == [status |-> "absent"]
Idle   == [kind |-> "idle"]

(* What counts as a use: "applied" is listed too, but nothing sets it.     *)
LiveStatuses == {"reserved", "confirmed"}
Dead         == {"rejected", "reversed"}

Live == {k \in Keys : redemption[k].status \in LiveStatuses}

(* The uses of the offer, or of one of its coupons.                        *)
UsesOf(x) == {k \in Live : x \in {Offer, redemption[k].coupon}}

OfferInit ==
  /\ redemption = [k \in Keys |-> Absent]
  /\ count = [x \in Counted |-> 0]
  /\ request = [s \in OfferSessions |-> Idle]
  /\ again = [x \in Counted |-> 0]
  /\ revived = {}

-----------------------------------------------------------------------------
(* Mutant: a limit allows one use too many.                                *)
UsableOffByOne(coupon) == \A x \in {Offer, coupon} : count[x] <= Limit[x]

(* The usage limit of the offer, is_coupon_usable for the coupon.          *)
Usable(coupon) == \A x \in {Offer, coupon} : count[x] < Limit[x]

(* Mutant: a reservation that is not confirmed yet is no use.              *)
UsesByConfirmed(customer) ==
  {k \in Live : redemption[k].customer = customer
                /\ redemption[k].status = "confirmed"}

UsesBy(customer) == {k \in Live : redemption[k].customer = customer}

Spent(keys) == SumFunctionOnSet([k \in keys |-> redemption[k].discount], keys)

(* evaluate_offer: the discount within what is left of the budget.         *)
Discount(discount) ==
  IF discount > Budget - Spent(Live) THEN Budget - Spent(Live) ELSE discount

(* reserve: from the lock on the offer row to the commit.                  *)
Reserve(k, customer, coupon, discount) ==
  /\ redemption[k] = Absent
  /\ Usable(coupon)
  /\ Cardinality(UsesBy(customer)) < CustomerLimit
  /\ Spent(Live) < Budget
  /\ redemption' = [redemption EXCEPT ![k] =
                      [status |-> "reserved", customer |-> customer,
                       coupon |-> coupon, discount |-> Discount(discount)]]
  /\ count' = [x \in Counted |->
                 IF x \in {Offer, coupon} THEN count[x] + 1 ELSE count[x]]
  /\ UNCHANGED <<request, again, revived>>

(* confirm, reject or reverse: the redemption is loaded and checked.       *)
Load(s, k, kind) ==
  /\ request[s] = Idle
  /\ redemption[k].status = IF kind = "reverse" THEN "confirmed" ELSE "reserved"
  /\ request' = [request EXCEPT ![s] = [kind |-> kind, key |-> k]]
  /\ UNCHANGED <<redemption, count, again, revived>>

(* The session writes the status; the row may have changed since.          *)
Write(s, status) ==
  /\ redemption' = [redemption EXCEPT ![request[s].key].status = status]
  /\ request' = [request EXCEPT ![s] = Idle]

(* A use that the count does not see: given back twice, or taken back.     *)
CountAgain(k) ==
  again' = [x \in Counted |->
              IF redemption[k].status \in Dead /\ x \in {Offer, redemption[k].coupon}
              THEN again[x] + 1 ELSE again[x]]

(* Mutant: the count of the coupon is left as it is.                       *)
LessOfferOnly(k) == [count EXCEPT ![Offer] = IF @ = 0 THEN 0 ELSE @ - 1]

(* _release_capacity, under the locks on the offer and the coupon.         *)
Less(k) ==
  [x \in Counted |-> IF x \in {Offer, redemption[k].coupon} /\ count[x] > 0
                     THEN count[x] - 1 ELSE count[x]]

ConfirmRedemption(s) ==
  LET k == request[s].key IN
  /\ request[s].kind = "confirm"
  /\ Write(s, "confirmed")
  /\ CountAgain(k)
  /\ revived' = IF redemption[k].status \in Dead THEN revived \union {k}
                                                 ELSE revived
  /\ UNCHANGED count

Release(s) ==
  LET k == request[s].key IN
  /\ request[s].kind \in {"reject", "reverse"}
  /\ Write(s, IF request[s].kind = "reject" THEN "rejected" ELSE "reversed")
  /\ count' = Less(k)
  /\ CountAgain(k)
  /\ UNCHANGED revived

(* The request fails: nothing was committed.                               *)
RollBackRequest(s) ==
  /\ request[s] # Idle
  /\ request' = [request EXCEPT ![s] = Idle]
  /\ UNCHANGED <<redemption, count, again, revived>>

-----------------------------------------------------------------------------
OfferNext ==
  \/ \E k \in Keys, u \in Customers, c \in Coupons, d \in Discounts :
       Reserve(k, u, c, d)
  \/ \E s \in OfferSessions :
       \/ \E k \in Keys, kind \in {"confirm", "reject", "reverse"} :
            Load(s, k, kind)
       \/ ConfirmRedemption(s) \/ Release(s) \/ RollBackRequest(s)

OfferSpec == OfferInit /\ [][OfferNext]_offerVars

-----------------------------------------------------------------------------
(* Properties                                                              *)

(* GROWTH_AND_INTELLIGENCE.md 6.11, "limits are concurrency-safe": the     *)
(* uses of an offer or of a coupon never exceed its limit by more than     *)
(* the number of times overlapping requests, deciding on an outdated       *)
(* status, gave the same use back twice or took a released one back.       *)
WithinLimit == \A x \in Counted : Cardinality(UsesOf(x)) <= Limit[x] + again[x]

(* Nor does the count of an offer or of a coupon ever stand above its      *)
(* uses, however releases overlap: capacity given back is never lost.      *)
NoCapacityLost == \A x \in Counted : count[x] <= Cardinality(UsesOf(x))

(* Save for those revived on an outdated status, a customer never has      *)
(* more uses than the offer allows each, and the discounts in use stay     *)
(* within the budget.                                                      *)
SharesHold ==
  /\ \A u \in Customers :
       Cardinality({k \in Live \ revived : redemption[k].customer = u}) <= CustomerLimit
  /\ Spent(Live \ revived) <= Budget
=============================================================================

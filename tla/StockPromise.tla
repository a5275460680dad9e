----------------------------- MODULE StockPromise -----------------------------
(***************************************************************************)
(* What inventory does for orders, however their requests overlap: stock   *)
(* that is promised to one order is not promised to another, and is either *)
(* used for that order once or given back once (the "reservation ...       *)
(* consumption ... release" rules of app/inventory/order_integration.py).  *)
(***************************************************************************)
EXTENDS Naturals

CONSTANT Orders

VARIABLES
  free,   \* stock that is promised to nobody
  claim,  \* per order: "none", "promised", "used" or "returned"
  units   \* per order: how much it asks for

Init == free = 0 /\ claim = [o \in Orders |-> "none"]
                 /\ units \in [Orders -> Nat]

Settle(o, from, to) == claim[o] = from /\ claim' = [claim EXCEPT ![o] = to]

Promise(o) ==
  /\ Settle(o, "none", "promised")
  /\ free >= units[o] /\ free' = free - units[o]

Use(o) == Settle(o, "promised", "used") /\ UNCHANGED free

Return(o) == Settle(o, "promised", "returned") /\ free' = free + units[o]

(* Receipts, adjustments, wastage, counts.                                 *)
Restock == free' \in Nat /\ UNCHANGED claim

Next ==
  /\ Restock \/ \E o \in Orders : Promise(o) \/ Use(o) \/ Return(o)
  /\ UNCHANGED units

Spec == Init /\ [][Next]_<<free, claim, units>>
=============================================================================

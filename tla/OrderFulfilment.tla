--------------------------- MODULE OrderFulfilment ---------------------------
(***************************************************************************)
(* Orders of one customer that need stock of one item at one location:     *)
(* the transitions of app/orders/service.py with the reservation,          *)
(* consumption and release of app/inventory/order_integration.py around    *)
(* them, and the customer rollup that follows completion.                  *)
(*                                                                         *)
(* A request loads the order without a lock and decides on that copy.      *)
(* transition_order writes the order's row, and so takes its row lock,     *)
(* before the stock state is read for consumption or release: all that     *)
(* follows is one step.  A confirmation reads the stock state before it    *)
(* holds any lock, so that read is a step of its own; so is the customer's *)
(* row, which a completion loads and writes back as a whole.  Movements    *)
(* lock the balance row and read it afresh.                                *)
(***************************************************************************)
EXTENDS Integers, FiniteSets, Functions

CONSTANTS
  Orders,
  Sessions,   \* concurrent requests
  Needs,      \* units an order's recipes may call for; 0 when none is tracked
  MaxStock    \* bound: units on hand

ASSUME NeedsAssumption == Needs \subseteq Nat
ASSUME BoundAssumption == MaxStock \in Nat

VARIABLES
  status,      \* orders.status
  stock,       \* order_inventory_states.state, "none" without a row
  need,        \* units the order's recipes call for, which do not change
  onHand,      \* stock_balances.on_hand_quantity
  reserved,    \* stock_balances.reserved_quantity
  keys,        \* idempotency keys of the orders' movements
  orderCount,  \* customers.completed_order_count
  counted,     \* orders with the audit marker of the rollup
  call,        \* what each request has read
  raced        \* history: orders moved on an outdated status

inventory == <<stock, onHand, reserved, keys>>
customer == <<orderCount, counted>>
vars == <<need, status, inventory, customer, call, raced>>

NoCall == [to |-> "none"]
Unread == -1

Statuses == {"draft", "pending_confirmation", "confirmed", "preparing",
             "ready", "completed", "cancelled"}

(* Mutant: the kitchen may hand over an order it never started.            *)
AllowedUnprepared(from) ==
  CASE from = "draft"                -> {"pending_confirmation"}
    [] from = "pending_confirmation" -> {"confirmed", "cancelled"}
    [] from = "confirmed"            -> {"preparing", "ready"}
    [] from = "preparing"            -> {"ready", "cancelled"}
    [] from = "ready"                -> {"completed", "cancelled"}
    [] OTHER                         -> {}

Allowed(from) ==
  CASE from = "draft"                -> {"pending_confirmation"}
    [] from = "pending_confirmation" -> {"confirmed", "cancelled"}
    [] from = "confirmed"            -> {"preparing"}
    [] from = "preparing"            -> {"ready", "cancelled"}
    [] from = "ready"                -> {"completed", "cancelled"}
    [] OTHER                         -> {}

-----------------------------------------------------------------------------
Init ==
  /\ need \in [Orders -> Needs]
  /\ status = [o \in Orders |-> "draft"]
  /\ stock = [o \in Orders |-> "none"]
  /\ onHand = 0 /\ reserved = 0 /\ keys = {}
  /\ orderCount = 0 /\ counted = {}
  /\ call = [s \in Sessions |-> NoCall]
  /\ raced = {}

(* The order is loaded, and the transition checked against the copy.       *)
Begin(s, o, to) ==
  /\ call[s] = NoCall /\ to \in Allowed(status[o])
  /\ call' = [call EXCEPT ![s] =
                [to |-> to, order |-> o, from |-> status[o],
                 state |-> "unread", count |-> Unread]]
  /\ UNCHANGED <<status, inventory, customer, raced>>

-----------------------------------------------------------------------------
(* transition_order: the status is written whatever it has become.         *)
Move(s, to) ==
  LET c == call[s] IN
  /\ c.to = to
  /\ status' = [status EXCEPT ![c.order] = to]
  /\ raced' = IF status[c.order] = c.from THEN raced ELSE raced \union {c.order}
  /\ call' = [call EXCEPT ![s] = NoCall]

SetStock(o, state) == stock' = [stock EXCEPT ![o] = state]

(* Mutant: a repeated movement is posted again.                            *)
FreshUnchecked(k) == TRUE

(* The unique idempotency key of a movement.                               *)
Fresh(k) == k \notin keys

(* Mutant: a reservation looks at the stock on hand only.                  *)
AvailableOnHand == onHand

Available == onHand - reserved

(* draft -> pending_confirmation, preparing -> ready.                      *)
Advance(s) ==
  /\ Move(s, "pending_confirmation") \/ Move(s, "ready")
  /\ UNCHANGED <<inventory, customer>>

(* reserve_stock_for_order: the stock state is read; a missing row is      *)
(* inserted, and a row another request inserts meanwhile is a duplicate.   *)
ReadStock(s) ==
  LET c == call[s] IN
  /\ c.to = "confirmed" /\ c.state = "unread"
  /\ call' = [call EXCEPT ![s].state = stock[c.order]]
  /\ UNCHANGED <<status, inventory, customer, raced>>

Confirm(s) ==
  LET o == call[s].order
      read == call[s].state
  IN
  /\ Move(s, "confirmed") /\ read # "unread"
  /\ read = "none" => stock[o] = "none"
  /\ \/ /\ read \in {"none", "pending"} /\ need[o] > 0
        /\ Fresh(<<"order-reserve", o>>) /\ need[o] <= Available
        /\ reserved' = reserved + need[o]
        /\ keys' = keys \union {<<"order-reserve", o>>}
        /\ SetStock(o, "reserved")
        /\ UNCHANGED onHand
     \/ /\ read \in {"none", "pending"} /\ need[o] = 0
        /\ SetStock(o, "skipped")
        /\ UNCHANGED <<onHand, reserved, keys>>
     \/ /\ read \notin {"none", "pending"}
        /\ UNCHANGED inventory
  /\ UNCHANGED customer

(* consume_stock_for_order: the reservation is released and the stock      *)
(* taken, in one transaction.                                              *)
Prepare(s) ==
  LET o == call[s].order
      units == need[o]
  IN
  /\ Move(s, "preparing")
  /\ \/ /\ stock[o] = "reserved"
        /\ Fresh(<<"order-release", o>>) /\ Fresh(<<"order-consume", o>>)
        /\ units <= reserved /\ units <= onHand
        /\ reserved' = reserved - units /\ onHand' = onHand - units
        /\ keys' = keys \union {<<"order-release", o>>, <<"order-consume", o>>}
        /\ SetStock(o, "consumed")
     \/ /\ stock[o] # "reserved"
        /\ SetStock(o, IF stock[o] \in {"none", "pending"} THEN "skipped"
                       ELSE stock[o])
        /\ UNCHANGED <<onHand, reserved, keys>>
  /\ UNCHANGED customer

(* Mutant: an order that was not confirmed when it was loaded is taken to  *)
(* hold no stock.                                                          *)
HoldsStockIfConfirmed(c) ==
  stock[c.order] = "reserved" /\ c.from # "pending_confirmation"

HoldsStock(c) == stock[c.order] = "reserved"

(* release_stock_for_order: stock that was consumed stays consumed.        *)
Cancel(s) ==
  LET o == call[s].order
      units == need[o]
  IN
  /\ Move(s, "cancelled")
  /\ \/ /\ HoldsStock(call[s])
        /\ Fresh(<<"order-cancel-release", o>>) /\ units <= reserved
        /\ reserved' = reserved - units
        /\ keys' = keys \union {<<"order-cancel-release", o>>}
        /\ SetStock(o, "released")
        /\ UNCHANGED onHand
     \/ /\ ~HoldsStock(call[s])
        /\ SetStock(o, IF stock[o] = "none" THEN "pending" ELSE stock[o])
        /\ UNCHANGED <<onHand, reserved, keys>>
  /\ UNCHANGED customer

(* apply_commercial_growth_effects: the customer's row is loaded.          *)
LoadCustomer(s) ==
  LET c == call[s] IN
  /\ c.to = "completed" /\ c.count = Unread
  /\ call' = [call EXCEPT ![s].count = orderCount]
  /\ UNCHANGED <<status, inventory, customer, raced>>

(* Mutant: the audit marker of the rollup is not looked for.               *)
AlreadyAppliedNever(o) == FALSE

AlreadyApplied(o) == o \in counted

(* _update_customer_rollup writes the count it has loaded, plus one.       *)
Complete(s) ==
  LET o == call[s].order
      read == call[s].count
  IN
  /\ Move(s, "completed") /\ read # Unread
  /\ IF AlreadyApplied(o) THEN UNCHANGED customer
     ELSE orderCount' = read + 1 /\ counted' = counted \union {o}
  /\ UNCHANGED inventory

(* InsufficientStockError, a duplicate key, a deadlock victim, a crash.    *)
RollBack(s) ==
  /\ call[s] # NoCall
  /\ call' = [call EXCEPT ![s] = NoCall]
  /\ UNCHANGED <<status, inventory, customer, raced>>

-----------------------------------------------------------------------------
(* Mutant: stock may leave that is reserved.                               *)
RemovableOnHand(units) == units <= onHand

(* post_movement refuses to strand reservations above the stock on hand.   *)
Removable(units) == units <= onHand - reserved

(* Receipts, adjustments, wastage and counts.                              *)
Adjust ==
  /\ \/ \E units \in 1 .. MaxStock - onHand : onHand' = onHand + units
     \/ \E units \in 1 .. onHand : Removable(units) /\ onHand' = onHand - units
  /\ UNCHANGED <<status, stock, reserved, keys, customer, call, raced>>

-----------------------------------------------------------------------------
Next ==
  /\ UNCHANGED need
  /\ \/ \E s \in Sessions :
          \/ \E o \in Orders, to \in Statuses : Begin(s, o, to)
          \/ ReadStock(s) \/ LoadCustomer(s)
          \/ Advance(s) \/ Confirm(s) \/ Prepare(s) \/ Cancel(s) \/ Complete(s)
          \/ RollBack(s)
     \/ Adjust

Spec == Init /\ [][Next]_vars

-----------------------------------------------------------------------------
(* Properties                                                              *)

StockStates == {"none", "pending", "reserved", "consumed", "released", "skipped"}

CallOK(c) ==
  \/ c = NoCall
  \/ /\ c \in [to : Statuses, order : Orders, from : Statuses,
               state : StockStates \union {"unread"},
               count : Nat \union {Unread}]
     /\ c.to \in Allowed(c.from)

(* Rows and copies stay in range, and the CHECK constraints of the balance *)
(* row hold: stock is not negative and covers what is reserved.            *)
TypeOK ==
  /\ status \in [Orders -> Statuses]
  /\ stock \in [Orders -> StockStates]
  /\ need \in [Orders -> Needs]
  /\ onHand \in 0 .. MaxStock /\ reserved \in 0 .. onHand
  /\ orderCount \in Nat /\ counted \subseteq Orders /\ raced \subseteq Orders
  /\ DOMAIN call = Sessions /\ \A s \in Sessions : CallOK(call[s])

OrdersIn(state) == {o \in Orders : stock[o] = state}

(* The reserved quantity is what the orders that hold a reservation need,  *)
(* so a consumption or a release never fails ("neither can fail",          *)
(* order_integration.py), whatever requests raced on the same order.       *)
ReservedIsOwed ==
  reserved = SumFunctionOnSet(need, OrdersIn("reserved"))

(* A reservation belongs to an order that can still use it or give it back:*)
(* none is left on an order that was cancelled or prepared.                *)
ReservedIsNotStranded ==
  \A o \in OrdersIn("reserved") :
    status[o] \in {"pending_confirmation", "confirmed"}

(* The kitchen only works on orders whose stock was taken, apart from      *)
(* orders that were moved on an outdated copy.                             *)
ServedIfTaken ==
  \A o \in Orders \ raced :
    status[o] \in {"preparing", "ready", "completed"} =>
      stock[o] \in {"consumed", "skipped"}

(* However often its completion is retried, an order counts once ("never   *)
(* double-counts", _update_customer_rollup).                               *)
CountedOnce == orderCount <= Cardinality(counted)

Claim ==
  [o \in Orders |-> CASE stock[o] = "reserved" -> "promised"
                      [] stock[o] = "consumed" -> "used"
                      [] stock[o] = "released" -> "returned"
                      [] OTHER                 -> "none"]

Promises == INSTANCE StockPromise
              WITH free <- onHand - reserved, claim <- Claim, units <- need

(* Stock is promised to one order at a time, used once or given back once. *)
KeepsPromises == Promises!Spec
=============================================================================

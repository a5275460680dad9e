----------------------- MODULE OrderFulfilment_proofs -----------------------
(***************************************************************************)
(* For any number of orders, requests and units: OrderFulfilment           *)
(* implements StockPromise, strands no reservation and counts no order     *)
(* twice.  The argument is that the stock state of an order only moves     *)
(* forward, so what a request has learnt of it from an old status or an    *)
(* old read still holds when it commits.  What is reserved is the sum of   *)
(* what the orders in that state need, which each move keeps.  Of the      *)
(* offers an order redeems (OfferRedemption): limits, counts, shares and   *)
(* budget hold, as far as no redemption was released twice or revived on   *)
(* an outdated status.                                                     *)
(***************************************************************************)
EXTENDS OrderFulfilment, OfferRedemption, SumTheorems, TLAPS

Unset == {"none", "pending"}

(* A reservation was posted under its key, and for an order that has one.  *)
KeysOK ==
  \A o \in Orders :
    /\ stock[o] \in {"reserved", "consumed", "released"} =>
         need[o] > 0 /\ <<"order-reserve", o>> \in keys
    /\ stock[o] = "skipped" => need[o] = 0

(* What a status, current or once read, says of the stock state.           *)
Tells(o, st) ==
  /\ st \in {"confirmed", "preparing", "ready", "completed"} =>
       stock[o] \notin Unset
  /\ st \in {"preparing", "ready", "completed"} => stock[o] # "reserved"

StatusOK ==
  \A o \in Orders :
    /\ Tells(o, status[o])
    /\ status[o] = "draft" => stock[o] = "none"
    /\ stock[o] = "reserved" =>
         status[o] \in {"pending_confirmation", "confirmed"}

CopiesOK ==
  \A s \in Sessions : call[s] # NoCall =>
    /\ Tells(call[s].order, call[s].from)
    /\ call[s].state \notin Unset \union {"unread"} =>
         stock[call[s].order] \notin Unset
    /\ status[call[s].order] = "draft" => call[s].from = "draft"

CountOK ==
  /\ IsFiniteSet(counted) /\ orderCount <= Cardinality(counted)
  /\ \A s \in Sessions : call[s] # NoCall => call[s].count <= Cardinality(counted)

Inv == TypeOK /\ KeysOK /\ StatusOK /\ CopiesOK /\ CountOK

-----------------------------------------------------------------------------
(* The status a transition comes from.                                     *)
LEMMA AllowedFrom ==
  ASSUME NEW from \in Statuses, NEW to \in Allowed(from)
  PROVE  /\ to = "pending_confirmation" => from = "draft"
         /\ to = "confirmed" => from = "pending_confirmation"
         /\ to = "preparing" => from = "confirmed"
         /\ to = "ready" => from = "preparing"
         /\ to = "completed" => from = "ready"
         /\ to = "cancelled" => from # "draft"
         /\ to # "draft" /\ to \in Statuses
BY DEF Allowed, Statuses

LEMMA StockBounds ==
  ASSUME NEW h \in 0 .. MaxStock, NEW r \in 0 .. h
  PROVE  h \in Nat /\ r \in Nat /\ h - r \in Nat
BY BoundAssumption

LEMMA CallIs ==
  ASSUME TypeOK, NEW s \in Sessions, call[s] # NoCall
  PROVE  /\ call[s] \in [to : Statuses, order : Orders, from : Statuses,
                         state : StockStates \union {"unread"},
                         count : Nat \union {Unread}]
         /\ call[s].to \in Allowed(call[s].from)
BY DEF TypeOK, CallOK

-----------------------------------------------------------------------------
LEMMA InitInv == Init => Inv
<1> SUFFICES ASSUME Init PROVE Inv
  OBVIOUS
<1>1. TypeOK
  BY BoundAssumption, NeedsAssumption
  DEF Init, TypeOK, Statuses, StockStates, CallOK
<1>2. KeysOK /\ StatusOK /\ CopiesOK
  BY DEF Init, KeysOK, StatusOK, CopiesOK, Tells
<1>3. CountOK
  BY FS_EmptySet DEF Init, CountOK
<1>4. QED  BY <1>1, <1>2, <1>3 DEF Inv

-----------------------------------------------------------------------------
(* A transition to a status leaves the order with the stock state st.      *)
Forward(o, st, to) ==
  /\ st \in StockStates
  /\ \/ st = stock[o]
     \/ stock[o] \in Unset /\ st \in {"pending", "skipped"}
     \/ stock[o] = "reserved" /\ st \in {"consumed", "released"}
     \/ stock[o] \in Unset /\ st = "reserved" /\ to = "confirmed"
  /\ to \in {"confirmed", "preparing", "ready", "completed"} => st \notin Unset
  /\ to \in {"preparing", "ready", "completed", "cancelled"} => st # "reserved"

(* What a request knows of an order is not undone by another's transition. *)
LEMMA ForwardKeeps ==
  ASSUME Inv, NEW s \in Sessions, call[s] # NoCall, NEW st,
         Move(s, call[s].to), Forward(call[s].order, st, call[s].to),
         stock' = [stock EXCEPT ![call[s].order] = st]
  PROVE  /\ StatusOK' /\ CopiesOK'
         /\ status' \in [Orders -> Statuses]
         /\ stock' \in [Orders -> StockStates]
         /\ raced' \subseteq Orders
         /\ DOMAIN call' = Sessions /\ \A t \in Sessions : CallOK(call'[t])
<1> DEFINE c == call[s]
           o == call[s].order
<1>1. /\ o \in Orders /\ c.to \in Statuses /\ c.to # "draft"
      /\ c.to \in Allowed(c.from) /\ c.from \in Statuses
  BY CallIs, AllowedFrom DEF Inv
<1>2. /\ status' = [status EXCEPT ![o] = c.to]
      /\ call' = [call EXCEPT ![s] = NoCall]
      /\ raced' \subseteq Orders
  BY <1>1 DEF Move, Inv, TypeOK
<1>3. /\ status' \in [Orders -> Statuses] /\ stock' \in [Orders -> StockStates]
      /\ DOMAIN call' = Sessions /\ \A t \in Sessions : CallOK(call'[t])
  BY <1>1, <1>2 DEF Inv, TypeOK, Forward, CallOK
<1>4. \A p \in Orders \ {o} : stock'[p] = stock[p] /\ status'[p] = status[p]
  BY <1>1, <1>2 DEF Inv, TypeOK
<1>5. stock'[o] = st /\ status'[o] = c.to
  BY <1>1, <1>2 DEF Inv, TypeOK
<1>6. StatusOK'
  <2>1. ASSUME NEW p \in Orders
        PROVE  /\ Tells(p, status[p])'
               /\ status'[p] = "draft" => stock'[p] = "none"
               /\ stock'[p] = "reserved" =>
                    status'[p] \in {"pending_confirmation", "confirmed"}
    <3>1. CASE p = o
      BY <1>1, <1>5, <3>1 DEF Forward, Tells, Statuses, Unset
    <3>2. CASE p # o
      BY <1>4, <3>2 DEF Inv, StatusOK, Tells
    <3>3. QED  BY <3>1, <3>2
  <2>2. QED  BY <2>1 DEF StatusOK
<1>7. CopiesOK'
  <2>1. ASSUME NEW t \in Sessions, call'[t] # NoCall
        PROVE  /\ Tells(call[t].order, call[t].from)'
               /\ call'[t].state \notin Unset \union {"unread"} =>
                    stock'[call'[t].order] \notin Unset
               /\ status'[call'[t].order] = "draft" => call'[t].from = "draft"
    <3>1. t # s /\ call'[t] = call[t] /\ call[t] # NoCall
      BY <1>2, <2>1 DEF Inv, TypeOK
    <3>2. call[t].order \in Orders
      BY <3>1, CallIs DEF Inv
    <3>3. CASE call[t].order = o
      BY <1>1, <1>5, <3>1, <3>3
      DEF Inv, CopiesOK, Tells, Forward, Unset
    <3>4. CASE call[t].order # o
      BY <1>4, <3>1, <3>2, <3>4 DEF Inv, CopiesOK, Tells
    <3>5. QED  BY <3>3, <3>4
  <2>2. QED  BY <2>1 DEF CopiesOK
<1>8. QED  BY <1>2, <1>3, <1>6, <1>7

(* The rollup is not touched, and requests only end.                       *)
LEMMA CountKept ==
  ASSUME Inv, NEW s \in Sessions, UNCHANGED customer,
         call' = [call EXCEPT ![s] = NoCall]
  PROVE  CountOK'
BY DEF Inv, TypeOK, CountOK, customer

-----------------------------------------------------------------------------
(* Steps that touch neither orders nor stock.                              *)
LEMMA BeginKeeps ==
  ASSUME Inv, NEW s \in Sessions, NEW o \in Orders, NEW to \in Statuses,
         Begin(s, o, to), UNCHANGED need
  PROVE  Inv'
<1> DEFINE c == [to |-> to, order |-> o, from |-> status[o],
                 state |-> "unread", count |-> Unread]
<1>1. /\ call' = [call EXCEPT ![s] = c] /\ to \in Allowed(status[o])
      /\ UNCHANGED <<need, status, stock, onHand, reserved, keys, orderCount,
                     counted, raced>>
  BY DEF Begin, inventory, customer
<1>2. status[o] \in Statuses
  BY DEF Inv, TypeOK
<1>3. CallOK(c)
  BY <1>1, <1>2 DEF CallOK
<1>4. /\ c.order = o /\ c.from = status[o] /\ c.state = "unread"
      /\ c.count = Unread
  OBVIOUS
<1> HIDE DEF c
<1>5. TypeOK'
  BY <1>1, <1>3 DEF Inv, TypeOK, CallOK
<1>6. CopiesOK'
  <2>1. ASSUME NEW t \in Sessions, call'[t] # NoCall
        PROVE  /\ Tells(call[t].order, call[t].from)'
               /\ call'[t].state \notin Unset \union {"unread"} =>
                    stock'[call'[t].order] \notin Unset
               /\ status'[call'[t].order] = "draft" => call'[t].from = "draft"
    <3>1. CASE t = s
      BY <1>1, <1>4, <3>1 DEF Inv, TypeOK, StatusOK, Tells
    <3>2. CASE t # s
      BY <1>1, <2>1, <3>2 DEF Inv, TypeOK, CopiesOK, Tells
    <3>3. QED  BY <3>1, <3>2
  <2>2. QED  BY <2>1 DEF CopiesOK
<1>7. KeysOK' /\ StatusOK'
  BY <1>1 DEF Inv, KeysOK, StatusOK, Tells
<1>8. CountOK'
  <2>1. Cardinality(counted) \in Nat
    BY FS_CardinalityType DEF Inv, CountOK
  <2>2. QED
    BY <1>1, <1>4, <2>1 DEF Inv, TypeOK, CountOK, Unread
<1>9. QED  BY <1>5, <1>6, <1>7, <1>8 DEF Inv
(* The two reads: the stock state and the customer's row.                  *)
LEMMA ReadKeeps ==
  ASSUME Inv, NEW s \in Sessions, ReadStock(s) \/ LoadCustomer(s),
         UNCHANGED need
  PROVE  Inv'
<1> DEFINE c == call[s]
           d == call'[s]
<1>1. call[s] # NoCall
  BY DEF ReadStock, LoadCustomer, NoCall
<1>2. c \in [to : Statuses, order : Orders, from : Statuses,
             state : StockStates \union {"unread"}, count : Nat \union {Unread}]
      /\ c.to \in Allowed(c.from)
  BY <1>1, CallIs DEF Inv
<1>3. UNCHANGED <<need, status, stock, onHand, reserved, keys, orderCount,
                  counted, raced>>
  BY DEF ReadStock, LoadCustomer, inventory, customer
<1>4. /\ d \in [to : Statuses, order : Orders, from : Statuses,
                state : StockStates \union {"unread"}, count : Nat \union {Unread}]
      /\ d.to = c.to /\ d.order = c.order /\ d.from = c.from
      /\ d.state \in {c.state, stock[c.order]} /\ d.count \in {c.count, orderCount}
      /\ DOMAIN call' = Sessions
      /\ \A t \in Sessions \ {s} : call'[t] = call[t]
  BY <1>2 DEF Inv, TypeOK, ReadStock, LoadCustomer
<1> HIDE DEF c, d
<1>5. TypeOK'
  <2>1. CallOK(d)
    BY <1>2, <1>4 DEF CallOK
  <2>2. \A t \in Sessions : CallOK(call'[t])
    BY <1>4, <2>1 DEF Inv, TypeOK, d
  <2>3. QED  BY <1>3, <1>4, <2>2 DEF Inv, TypeOK, CallOK
<1>6. CopiesOK'
  <2>1. ASSUME NEW t \in Sessions, call'[t] # NoCall
        PROVE  /\ Tells(call[t].order, call[t].from)'
               /\ call'[t].state \notin Unset \union {"unread"} =>
                    stock'[call'[t].order] \notin Unset
               /\ status'[call'[t].order] = "draft" => call'[t].from = "draft"
    <3>1. CASE t = s
      BY <1>1, <1>3, <1>4, <3>1 DEF Inv, CopiesOK, Tells, c, d
    <3>2. CASE t # s
      BY <1>3, <1>4, <2>1, <3>2 DEF Inv, CopiesOK, Tells
    <3>3. QED  BY <3>1, <3>2
  <2>2. QED  BY <2>1 DEF CopiesOK
<1>7. KeysOK' /\ StatusOK'
  BY <1>3 DEF Inv, KeysOK, StatusOK, Tells
<1>8. CountOK'
  BY <1>1, <1>3, <1>4 DEF Inv, CountOK, c, d
<1>9. QED  BY <1>5, <1>6, <1>7, <1>8 DEF Inv

LEMMA RollBackKeeps ==
  ASSUME Inv, NEW s \in Sessions, RollBack(s), UNCHANGED need
  PROVE  Inv'
<1>1. /\ call' = [call EXCEPT ![s] = NoCall]
      /\ UNCHANGED <<need, status, stock, onHand, reserved, keys, orderCount,
                     counted, raced>>
  BY DEF RollBack, inventory, customer
<1>2. TypeOK'
  BY <1>1 DEF Inv, TypeOK, CallOK
<1>3. KeysOK' /\ StatusOK' /\ CopiesOK'
  BY <1>1 DEF Inv, TypeOK, KeysOK, StatusOK, CopiesOK, Tells
<1>4. CountOK'
  BY <1>1, CountKept DEF customer
<1>5. QED  BY <1>2, <1>3, <1>4 DEF Inv

LEMMA AdjustKeeps ==
  ASSUME Inv, Adjust, UNCHANGED need
  PROVE  Inv' /\ onHand' - reserved' \in Nat
<1>1. UNCHANGED <<need, status, stock, reserved, keys, orderCount, counted,
                  call, raced>>
  BY DEF Adjust, customer
<1>2. onHand' \in 0 .. MaxStock /\ reserved \in 0 .. onHand'
  BY BoundAssumption DEF Adjust, Removable, Inv, TypeOK
<1>3. TypeOK'
  BY <1>1, <1>2 DEF Inv, TypeOK, CallOK
<1>4. KeysOK' /\ StatusOK' /\ CopiesOK' /\ CountOK'
  BY <1>1 DEF Inv, KeysOK, StatusOK, CopiesOK, CountOK, Tells
<1>5. onHand' - reserved' \in Nat
  BY <1>1, <1>2, StockBounds
<1>6. QED  BY <1>3, <1>4, <1>5 DEF Inv

-----------------------------------------------------------------------------
(* Transitions without a stock effect.                                     *)
LEMMA AdvanceKeeps ==
  ASSUME Inv, NEW s \in Sessions, Advance(s), UNCHANGED need
  PROVE  Inv' /\ UNCHANGED <<stock, onHand, reserved>>
<1> DEFINE o == call[s].order
<1>1. /\ Move(s, call[s].to) /\ call[s].to \in {"pending_confirmation", "ready"}
      /\ UNCHANGED <<need, stock, onHand, reserved, keys, orderCount, counted>>
  BY DEF Advance, Move, inventory, customer
<1>2. call[s] # NoCall
  BY <1>1 DEF NoCall
<1>3. o \in Orders /\ (call[s].to = "ready" => call[s].from = "preparing")
      /\ stock[o] \in StockStates
  BY <1>2, CallIs, AllowedFrom DEF Inv, TypeOK
<1>4. Forward(o, stock[o], call[s].to)
  BY <1>1, <1>2, <1>3 DEF Forward, Inv, CopiesOK, Tells
<1>5. stock' = [stock EXCEPT ![o] = stock[o]]
  BY <1>1, <1>3 DEF Inv, TypeOK
<1>6. /\ StatusOK' /\ CopiesOK' /\ status' \in [Orders -> Statuses]
      /\ raced' \subseteq Orders
      /\ DOMAIN call' = Sessions /\ \A t \in Sessions : CallOK(call'[t])
  BY <1>1, <1>2, <1>4, <1>5, ForwardKeeps
<1>7. TypeOK' /\ KeysOK'
  BY <1>1, <1>6 DEF Inv, TypeOK, KeysOK, CallOK
<1>8. CountOK'
  BY <1>1, CountKept DEF Move, customer
<1>9. QED  BY <1>1, <1>6, <1>7, <1>8 DEF Inv

LEMMA CompleteKeeps ==
  ASSUME Inv, NEW s \in Sessions, Complete(s), UNCHANGED need
  PROVE  Inv' /\ UNCHANGED <<stock, onHand, reserved>>
<1> DEFINE o == call[s].order
<1>1. /\ Move(s, "completed") /\ call[s].to = "completed"
      /\ UNCHANGED <<need, stock, onHand, reserved, keys>>
  BY DEF Complete, Move, inventory
<1>2. call[s] # NoCall
  BY <1>1 DEF NoCall
<1>3. o \in Orders /\ call[s].from = "ready" /\ stock[o] \in StockStates
      /\ call[s].count \in Nat \union {Unread}
  BY <1>1, <1>2, CallIs, AllowedFrom DEF Inv, TypeOK
<1>4. Forward(o, stock[o], call[s].to)
  BY <1>1, <1>2, <1>3 DEF Forward, Inv, CopiesOK, Tells
<1>5. stock' = [stock EXCEPT ![o] = stock[o]]
  BY <1>1, <1>3 DEF Inv, TypeOK
<1>6. /\ StatusOK' /\ CopiesOK' /\ status' \in [Orders -> Statuses]
      /\ raced' \subseteq Orders
      /\ DOMAIN call' = Sessions /\ \A t \in Sessions : CallOK(call'[t])
  BY <1>1, <1>2, <1>4, <1>5, ForwardKeeps
<1>7. CountOK' /\ counted' \subseteq Orders /\ orderCount' \in Nat
  <2>1. call' = [call EXCEPT ![s] = NoCall]
    BY <1>1 DEF Move
  <2>2. CASE o \in counted
    <3>1. UNCHANGED customer
      BY <2>2 DEF Complete, AlreadyApplied
    <3>2. QED  BY <2>1, <3>1, CountKept DEF customer, Inv, TypeOK
  <2>3. CASE o \notin counted
    <3>1. /\ orderCount' = call[s].count + 1 /\ counted' = counted \union {o}
          /\ call[s].count # Unread
      BY <2>3 DEF Complete, AlreadyApplied
    <3>2. /\ IsFiniteSet(counted') /\ Cardinality(counted) \in Nat
          /\ Cardinality(counted') = Cardinality(counted) + 1
      BY <2>3, <3>1, FS_AddElement, FS_CardinalityType DEF Inv, CountOK
    <3>3. /\ call[s].count \in Nat /\ call[s].count <= Cardinality(counted)
      BY <1>2, <1>3, <3>1 DEF Inv, CountOK
    <3>4. ASSUME NEW t \in Sessions, call'[t] # NoCall
          PROVE  call'[t].count <= Cardinality(counted')
      <4>1. call'[t] = call[t] /\ call[t] # NoCall
        BY <2>1, <3>4 DEF Inv, TypeOK
      <4>2. call[t].count \in Nat \union {Unread}
        BY <4>1, CallIs DEF Inv
      <4>3. call[t].count <= Cardinality(counted)
        BY <4>1 DEF Inv, CountOK
      <4>4. QED  BY <3>2, <4>1, <4>2, <4>3 DEF Unread
    <3>5. orderCount' \in Nat /\ orderCount' <= Cardinality(counted')
      BY <3>1, <3>2, <3>3
    <3>6. counted' \subseteq Orders
      BY <1>3, <3>1 DEF Inv, TypeOK
    <3>7. QED  BY <3>2, <3>4, <3>5, <3>6 DEF CountOK
  <2>4. QED  BY <2>2, <2>3
<1>8. TypeOK' /\ KeysOK'
  BY <1>1, <1>6, <1>7 DEF Inv, TypeOK, KeysOK, CallOK
<1>9. QED  BY <1>1, <1>6, <1>7, <1>8 DEF Inv
-----------------------------------------------------------------------------
(* Transitions with a stock effect.                                        *)
LEMMA ConfirmKeeps ==
  ASSUME Inv, NEW s \in Sessions, Confirm(s), UNCHANGED need
  PROVE  Inv' /\ [Promises!Next]_<<onHand - reserved, Claim, need>>
<1> DEFINE o == call[s].order
           st == stock'[call[s].order]
<1>1. /\ Move(s, "confirmed") /\ call[s].to = "confirmed"
      /\ UNCHANGED <<need, onHand, orderCount, counted>>
  BY DEF Confirm, Move, inventory, customer
<1>2. call[s] # NoCall
  BY <1>1 DEF NoCall
<1>3. /\ o \in Orders /\ call[s].from = "pending_confirmation"
      /\ stock[o] \in StockStates /\ need[o] \in Nat
      /\ call[s].state \in StockStates \union {"unread"}
      /\ onHand \in Nat /\ reserved \in Nat /\ onHand - reserved \in Nat
  <2>1. o \in Orders /\ call[s].from = "pending_confirmation"
        /\ call[s].state \in StockStates \union {"unread"}
    BY <1>1, <1>2, CallIs, AllowedFrom DEF Inv
  <2>2. stock[o] \in StockStates /\ need[o] \in Nat
    BY <2>1, NeedsAssumption DEF Inv, TypeOK
  <2>3. onHand \in Nat /\ reserved \in Nat /\ onHand - reserved \in Nat
    BY StockBounds DEF Inv, TypeOK
  <2>4. QED  BY <2>1, <2>2, <2>3
<1>4. CASE call[s].state \in Unset /\ need[o] > 0
  <2>1. /\ <<"order-reserve", o>> \notin keys /\ need[o] <= onHand - reserved
        /\ reserved' = reserved + need[o]
        /\ keys' = keys \union {<<"order-reserve", o>>}
        /\ stock' = [stock EXCEPT ![o] = "reserved"]
    BY <1>3, <1>4 DEF Confirm, Fresh, Available, SetStock, Unset
  <2>2. stock[o] \in Unset
    BY <1>3, <1>4, <2>1 DEF Inv, KeysOK, StockStates, Unset
  <2>3. Forward(o, "reserved", "confirmed")
    BY <2>2 DEF Forward, StockStates, Unset
  <2>4. /\ StatusOK' /\ CopiesOK' /\ status' \in [Orders -> Statuses]
        /\ stock' \in [Orders -> StockStates] /\ raced' \subseteq Orders
        /\ DOMAIN call' = Sessions /\ \A t \in Sessions : CallOK(call'[t])
    BY <1>1, <1>2, <2>1, <2>3, ForwardKeeps
  <2>5. KeysOK'
    BY <1>1, <1>3, <1>4, <2>1 DEF Inv, TypeOK, KeysOK
  <2>6. TypeOK'
    BY <1>1, <1>3, <2>1, <2>4 DEF Inv, TypeOK, CallOK
  <2>7. CountOK'
    BY <1>1, CountKept DEF Move, customer
  <2>8. Promises!Promise(o)
    <3>1. Claim[o] = "none" /\ Claim' = [Claim EXCEPT ![o] = "promised"]
      BY <1>3, <2>1, <2>2 DEF Claim, Unset, Inv, TypeOK
    <3>2. /\ onHand - reserved >= need[o]
          /\ onHand' - reserved' = (onHand - reserved) - need[o]
      BY <1>1, <1>3, <2>1
    <3>3. QED  BY <3>1, <3>2 DEF Promises!Promise, Promises!Settle
  <2>9. QED
    BY <1>1, <1>3, <2>4, <2>5, <2>6, <2>7, <2>8 DEF Inv, Promises!Next
<1>5. CASE call[s].state \in Unset /\ need[o] = 0
  <2>1. /\ stock' = [stock EXCEPT ![o] = "skipped"]
        /\ UNCHANGED <<reserved, keys>>
    BY <1>5 DEF Confirm, SetStock, Unset
  <2>2. stock[o] \in Unset \union {"skipped"}
    <3>1. ~(need[o] > 0)
      BY <1>5
    <3>2. QED  BY <1>3, <3>1 DEF Inv, KeysOK, StockStates, Unset
  <2>3. Forward(o, "skipped", "confirmed")
    BY <2>2 DEF Forward, StockStates, Unset
  <2>4. /\ StatusOK' /\ CopiesOK' /\ status' \in [Orders -> Statuses]
        /\ stock' \in [Orders -> StockStates] /\ raced' \subseteq Orders
        /\ DOMAIN call' = Sessions /\ \A t \in Sessions : CallOK(call'[t])
    BY <1>1, <1>2, <2>1, <2>3, ForwardKeeps
  <2>5. KeysOK'
    BY <1>1, <1>3, <1>5, <2>1 DEF Inv, TypeOK, KeysOK
  <2>6. TypeOK'
    BY <1>1, <2>1, <2>4 DEF Inv, TypeOK, CallOK
  <2>7. CountOK'
    BY <1>1, CountKept DEF Move, customer
  <2>8. Claim' = Claim
    BY <1>3, <2>1, <2>2 DEF Claim, Unset, Inv, TypeOK
  <2>9. QED  BY <1>1, <2>1, <2>4, <2>5, <2>6, <2>7, <2>8 DEF Inv
<1>6. CASE call[s].state \notin Unset
  <2>1. call[s].state # "unread" /\ UNCHANGED <<stock, reserved, keys>>
    BY <1>6 DEF Confirm, inventory, Unset
  <2>2. stock[o] \notin Unset
    BY <1>2, <1>6, <2>1 DEF Inv, CopiesOK
  <2>3. Forward(o, stock[o], "confirmed")
    BY <1>3, <2>2 DEF Forward
  <2>4. stock' = [stock EXCEPT ![o] = stock[o]]
    BY <2>1 DEF Inv, TypeOK
  <2>5. /\ StatusOK' /\ CopiesOK' /\ status' \in [Orders -> Statuses]
        /\ raced' \subseteq Orders
        /\ DOMAIN call' = Sessions /\ \A t \in Sessions : CallOK(call'[t])
    BY <1>1, <1>2, <2>3, <2>4, ForwardKeeps
  <2>6. TypeOK' /\ KeysOK'
    BY <1>1, <2>1, <2>5 DEF Inv, TypeOK, KeysOK, CallOK
  <2>7. CountOK'
    BY <1>1, CountKept DEF Move, customer
  <2>8. Claim' = Claim
    BY <2>1 DEF Claim
  <2>9. QED  BY <1>1, <2>1, <2>5, <2>6, <2>7, <2>8 DEF Inv
<1>7. QED  BY <1>3, <1>4, <1>5, <1>6
LEMMA PrepareKeeps ==
  ASSUME Inv, NEW s \in Sessions, Prepare(s), UNCHANGED need
  PROVE  Inv' /\ [Promises!Next]_<<onHand - reserved, Claim, need>>
<1> DEFINE o == call[s].order
<1>1. /\ Move(s, "preparing") /\ call[s].to = "preparing"
      /\ UNCHANGED <<need, orderCount, counted>>
  BY DEF Prepare, Move, customer
<1>2. call[s] # NoCall
  BY <1>1 DEF NoCall
<1>3. /\ o \in Orders /\ call[s].from = "confirmed"
      /\ stock[o] \in StockStates /\ stock[o] \notin Unset /\ need[o] \in Nat
      /\ onHand \in 0 .. MaxStock /\ reserved \in 0 .. onHand
      /\ onHand \in Nat /\ reserved \in Nat
  <2>1. o \in Orders /\ call[s].from = "confirmed"
    BY <1>1, <1>2, CallIs, AllowedFrom DEF Inv
  <2>2. stock[o] \in StockStates /\ need[o] \in Nat
    BY <2>1, NeedsAssumption DEF Inv, TypeOK
  <2>3. onHand \in 0 .. MaxStock /\ reserved \in 0 .. onHand
    BY DEF Inv, TypeOK
  <2>4. stock[o] \notin Unset
    BY <1>2, <2>1 DEF Inv, CopiesOK, Tells
  <2>5. QED  BY <2>1, <2>2, <2>3, <2>4, StockBounds
<1>4. CASE stock[o] = "reserved"
  <2>1. /\ need[o] <= reserved
        /\ reserved' = reserved - need[o] /\ onHand' = onHand - need[o]
        /\ keys' = keys \union {<<"order-release", o>>, <<"order-consume", o>>}
        /\ stock' = [stock EXCEPT ![o] = "consumed"]
    BY <1>4 DEF Prepare, SetStock
  <2>2. Forward(o, "consumed", "preparing")
    BY <1>4 DEF Forward, StockStates, Unset
  <2>3. /\ StatusOK' /\ CopiesOK' /\ status' \in [Orders -> Statuses]
        /\ stock' \in [Orders -> StockStates] /\ raced' \subseteq Orders
        /\ DOMAIN call' = Sessions /\ \A t \in Sessions : CallOK(call'[t])
    BY <1>1, <1>2, <2>1, <2>2, ForwardKeeps
  <2>4. /\ onHand' \in 0 .. MaxStock /\ reserved' \in 0 .. onHand'
        /\ onHand' - reserved' = onHand - reserved
    BY <1>3, <2>1, BoundAssumption
  <2>5. KeysOK'
    BY <1>1, <1>3, <1>4, <2>1 DEF Inv, TypeOK, KeysOK
  <2>6. TypeOK'
    BY <1>1, <2>3, <2>4 DEF Inv, TypeOK, CallOK
  <2>7. CountOK'
    BY <1>1, CountKept DEF Move, customer
  <2>8. Promises!Use(o)
    <3>1. Claim[o] = "promised" /\ Claim' = [Claim EXCEPT ![o] = "used"]
      BY <1>3, <1>4, <2>1 DEF Claim, Inv, TypeOK
    <3>2. QED  BY <2>4, <3>1 DEF Promises!Use, Promises!Settle
  <2>9. QED
    BY <1>1, <1>3, <2>3, <2>5, <2>6, <2>7, <2>8 DEF Inv, Promises!Next
<1>5. CASE stock[o] # "reserved"
  <2>1. UNCHANGED <<onHand, reserved, keys>>
        /\ stock' = [stock EXCEPT ![o] = stock[o]]
    BY <1>3, <1>5 DEF Prepare, SetStock, Unset
  <2>2. Forward(o, stock[o], "preparing")
    BY <1>3, <1>5 DEF Forward
  <2>3. /\ StatusOK' /\ CopiesOK' /\ status' \in [Orders -> Statuses]
        /\ raced' \subseteq Orders
        /\ DOMAIN call' = Sessions /\ \A t \in Sessions : CallOK(call'[t])
    BY <1>1, <1>2, <2>1, <2>2, ForwardKeeps
  <2>4. stock' = stock
    BY <2>1 DEF Inv, TypeOK
  <2>5. TypeOK' /\ KeysOK'
    BY <1>1, <2>1, <2>3, <2>4 DEF Inv, TypeOK, KeysOK, CallOK
  <2>6. CountOK'
    BY <1>1, CountKept DEF Move, customer
  <2>7. Claim' = Claim
    BY <2>4 DEF Claim
  <2>8. QED  BY <1>1, <2>1, <2>3, <2>5, <2>6, <2>7 DEF Inv
<1>6. QED  BY <1>4, <1>5

LEMMA CancelKeeps ==
  ASSUME Inv, NEW s \in Sessions, Cancel(s), UNCHANGED need
  PROVE  Inv' /\ [Promises!Next]_<<onHand - reserved, Claim, need>>
<1> DEFINE o == call[s].order
<1>1. /\ Move(s, "cancelled") /\ call[s].to = "cancelled"
      /\ UNCHANGED <<need, onHand, orderCount, counted>>
  BY DEF Cancel, Move, customer
<1>2. call[s] # NoCall
  BY <1>1 DEF NoCall
<1>3. /\ o \in Orders /\ stock[o] \in StockStates /\ need[o] \in Nat
      /\ onHand \in 0 .. MaxStock /\ reserved \in 0 .. onHand
      /\ onHand \in Nat /\ reserved \in Nat
  <2>1. o \in Orders
    BY <1>2, CallIs DEF Inv
  <2>2. stock[o] \in StockStates /\ need[o] \in Nat
    BY <2>1, NeedsAssumption DEF Inv, TypeOK
  <2>3. onHand \in 0 .. MaxStock /\ reserved \in 0 .. onHand
    BY DEF Inv, TypeOK
  <2>4. QED  BY <2>1, <2>2, <2>3, StockBounds
<1>4. CASE stock[o] = "reserved"
  <2>1. /\ need[o] <= reserved /\ reserved' = reserved - need[o]
        /\ keys' = keys \union {<<"order-cancel-release", o>>}
        /\ stock' = [stock EXCEPT ![o] = "released"]
    BY <1>4 DEF Cancel, HoldsStock, SetStock
  <2>2. Forward(o, "released", "cancelled")
    BY <1>4 DEF Forward, StockStates, Unset
  <2>3. /\ StatusOK' /\ CopiesOK' /\ status' \in [Orders -> Statuses]
        /\ stock' \in [Orders -> StockStates] /\ raced' \subseteq Orders
        /\ DOMAIN call' = Sessions /\ \A t \in Sessions : CallOK(call'[t])
    BY <1>1, <1>2, <2>1, <2>2, ForwardKeeps
  <2>4. /\ onHand' \in 0 .. MaxStock /\ reserved' \in 0 .. onHand'
        /\ onHand' - reserved' = (onHand - reserved) + need[o]
    BY <1>1, <1>3, <2>1
  <2>5. KeysOK'
    BY <1>1, <1>3, <1>4, <2>1 DEF Inv, TypeOK, KeysOK
  <2>6. TypeOK'
    BY <1>1, <2>3, <2>4 DEF Inv, TypeOK, CallOK
  <2>7. CountOK'
    BY <1>1, CountKept DEF Move, customer
  <2>8. Promises!Return(o)
    <3>1. Claim[o] = "promised" /\ Claim' = [Claim EXCEPT ![o] = "returned"]
      BY <1>3, <1>4, <2>1 DEF Claim, Inv, TypeOK
    <3>2. QED  BY <2>4, <3>1 DEF Promises!Return, Promises!Settle
  <2>9. QED
    BY <1>1, <1>3, <2>3, <2>5, <2>6, <2>7, <2>8 DEF Inv, Promises!Next
<1>5. CASE stock[o] # "reserved"
  <2> DEFINE st == IF stock[o] = "none" THEN "pending" ELSE stock[o]
  <2>1. UNCHANGED <<reserved, keys>> /\ stock' = [stock EXCEPT ![o] = st]
    BY <1>5 DEF Cancel, HoldsStock, SetStock
  <2>2. Forward(o, st, "cancelled")
    BY <1>3, <1>5 DEF Forward, StockStates, Unset
  <2> HIDE DEF st
  <2>3. /\ StatusOK' /\ CopiesOK' /\ status' \in [Orders -> Statuses]
        /\ stock' \in [Orders -> StockStates] /\ raced' \subseteq Orders
        /\ DOMAIN call' = Sessions /\ \A t \in Sessions : CallOK(call'[t])
    BY <1>1, <1>2, <2>1, <2>2, ForwardKeeps
  <2>4. TypeOK'
    BY <1>1, <2>1, <2>3 DEF Inv, TypeOK, CallOK
  <2>5. KeysOK'
    BY <1>1, <1>3, <2>1 DEF Inv, TypeOK, KeysOK, st
  <2>6. CountOK'
    BY <1>1, CountKept DEF Move, customer
  <2>7. Claim' = Claim
    BY <1>3, <1>5, <2>1 DEF Claim, Inv, TypeOK, st
  <2>8. QED  BY <1>1, <2>1, <2>3, <2>4, <2>5, <2>6, <2>7 DEF Inv
<1>6. QED  BY <1>4, <1>5

-----------------------------------------------------------------------------
LEMMA NextKeeps ==
  ASSUME Inv, [Next]_vars
  PROVE  Inv' /\ [Promises!Next]_<<onHand - reserved, Claim, need>>
<1>1. CASE Next
  <2>1. UNCHANGED need
    BY <1>1 DEF Next
  <2>2. ASSUME NEW s \in Sessions, NEW o \in Orders, NEW to \in Statuses,
               Begin(s, o, to)
        PROVE  Inv' /\ UNCHANGED <<onHand, reserved, stock, need>>
    BY <2>1, <2>2, BeginKeeps DEF Begin, inventory
  <2>3. ASSUME NEW s \in Sessions,
               \/ ReadStock(s) \/ LoadCustomer(s) \/ RollBack(s)
        PROVE  Inv' /\ UNCHANGED <<onHand, reserved, stock, need>>
    BY <2>1, <2>3, ReadKeeps, RollBackKeeps
    DEF ReadStock, LoadCustomer, RollBack, inventory
  <2>4. ASSUME NEW s \in Sessions, Advance(s) \/ Complete(s)
        PROVE  Inv' /\ UNCHANGED <<onHand, reserved, stock, need>>
    BY <2>1, <2>4, AdvanceKeeps, CompleteKeeps
  <2>5. ASSUME NEW s \in Sessions, Confirm(s) \/ Prepare(s) \/ Cancel(s)
        PROVE  Inv' /\ [Promises!Next]_<<onHand - reserved, Claim, need>>
    BY <2>1, <2>5, ConfirmKeeps, PrepareKeeps, CancelKeeps
  <2>6. ASSUME Adjust
        PROVE  Inv' /\ Promises!Next
    <3>1. Claim' = Claim
      BY <2>6 DEF Adjust, Claim
    <3>2. QED  BY <2>1, <2>6, <3>1, AdjustKeeps DEF Promises!Next, Promises!Restock
  <2>7. ASSUME UNCHANGED <<onHand, reserved, stock, need>>
        PROVE  UNCHANGED <<onHand - reserved, Claim, need>>
    BY <2>7 DEF Claim
  <2>8. QED
    BY <1>1, <2>2, <2>3, <2>4, <2>5, <2>6, <2>7 DEF Next
<1>2. CASE UNCHANGED vars
  <2>1. UNCHANGED <<need, status, stock, onHand, reserved, keys, orderCount,
                    counted, call, raced>>
    BY <1>2 DEF vars, inventory, customer
  <2>2. TypeOK'
    BY <2>1 DEF Inv, TypeOK, CallOK
  <2>3. KeysOK' /\ StatusOK' /\ CopiesOK' /\ CountOK'
    BY <2>1 DEF Inv, KeysOK, StatusOK, CopiesOK, CountOK, Tells
  <2>4. UNCHANGED <<onHand - reserved, Claim, need>>
    BY <2>1 DEF Claim
  <2>5. QED  BY <2>2, <2>3, <2>4 DEF Inv
<1>3. QED  BY <1>1, <1>2

(* Rows and copies stay in range, and stock covers what is reserved.       *)
THEOREM TypeCorrect == Spec => []TypeOK
<1>1. Init => Inv
  BY InitInv
<1>2. Inv /\ [Next]_vars => Inv'
  BY NextKeeps
<1>3. Inv => TypeOK
  BY DEF Inv
<1>4. QED
  BY <1>1, <1>2, <1>3, PTL DEF Spec

(* No reservation is left on an order that was cancelled or prepared,      *)
(* whatever requests raced on it (app/inventory/order_integration.py).     *)
THEOREM NothingIsStranded == Spec => []ReservedIsNotStranded
<1>1. Init => Inv
  BY InitInv
<1>2. Inv /\ [Next]_vars => Inv'
  BY NextKeeps
<1>3. Inv => ReservedIsNotStranded
  BY DEF Inv, StatusOK, ReservedIsNotStranded, OrdersIn
<1>4. QED
  BY <1>1, <1>2, <1>3, PTL DEF Spec

(* A retried completion never double-counts (_update_customer_rollup).     *)
THEOREM OrdersCountOnce == Spec => []CountedOnce
<1>1. Init => Inv
  BY InitInv
<1>2. Inv /\ [Next]_vars => Inv'
  BY NextKeeps
<1>3. Inv => CountedOnce
  BY DEF Inv, CountOK, CountedOnce
<1>4. QED
  BY <1>1, <1>2, <1>3, PTL DEF Spec

(* Stock is promised to one order at a time, and used or given back once.  *)
THEOREM PromisesAreKept == Spec => KeepsPromises
<1>1. Init => Inv
  BY InitInv
<1>2. Inv /\ [Next]_vars =>
        Inv' /\ [Promises!Next]_<<onHand - reserved, Claim, need>>
  BY NextKeeps
<1>3. Init => Promises!Init
  BY NeedsAssumption DEF Init, Promises!Init, Claim
<1>4. QED
  BY <1>1, <1>2, <1>3, PTL DEF Spec, KeepsPromises, Promises!Spec

-----------------------------------------------------------------------------
LEMMA NeedsAreNat == ASSUME Inv, NEW o \in Orders  PROVE need[o] \in Nat
  BY NeedsAssumption DEF Inv, TypeOK

(* What is reserved is owed to the orders that hold a reservation.         *)
OwedOK == IsFiniteSet(OrdersIn("reserved")) /\ ReservedIsOwed

LEMMA OwedUnchanged ==
  ASSUME OwedOK, UNCHANGED <<need, stock, reserved>>  PROVE OwedOK'
  BY DEF OwedOK, ReservedIsOwed, OrdersIn

(* An order that is given a reservation, or gives it up.                   *)
LEMMA OwedOneMore ==
  ASSUME Inv, OwedOK, NEW o \in Orders, stock[o] # "reserved",
         stock' = [stock EXCEPT ![o] = "reserved"],
         reserved' = reserved + need[o], need' = need
  PROVE  OwedOK'
<1> DEFINE held == OrdersIn("reserved")
<1>1. held' = held \union {o} /\ o \notin held
  BY DEF OrdersIn, Inv, TypeOK
<1>2. IsFiniteSet(held) /\ \A p \in held \union {o} : need[p] \in Int
  BY NeedsAreNat DEF OwedOK, OrdersIn
<1>3. SumFunctionOnSet(need, held) \in Int
  BY <1>2, SumType
<1>4. SumFunctionOnSet(need, held \union {o}) = need[o] + SumFunctionOnSet(need, held)
  BY <1>1, <1>2, SumAdd
<1>5. IsFiniteSet(held \union {o})
  BY <1>2, FS_AddElement
<1> HIDE DEF held
<1>6. reserved' = SumFunctionOnSet(need, held \union {o})
  BY <1>2, <1>3, <1>4 DEF OwedOK, ReservedIsOwed, held
<1>7. QED  BY <1>1, <1>5, <1>6 DEF OwedOK, ReservedIsOwed, held

LEMMA OwedOneLess ==
  ASSUME Inv, OwedOK, NEW o \in Orders, NEW st, stock[o] = "reserved",
         st # "reserved", stock' = [stock EXCEPT ![o] = st],
         reserved' = reserved - need[o], need' = need
  PROVE  OwedOK'
<1> DEFINE held == OrdersIn("reserved")
<1>1. held' = held \ {o} /\ o \in held
  BY DEF OrdersIn, Inv, TypeOK
<1>2. IsFiniteSet(held) /\ \A p \in held : need[p] \in Int
  BY NeedsAreNat DEF OwedOK, OrdersIn
<1>3. SumFunctionOnSet(need, held \ {o}) = SumFunctionOnSet(need, held) - need[o]
  BY <1>1, <1>2, SumRemove
<1>4. IsFiniteSet(held \ {o})
  BY <1>2, FS_Subset
<1> HIDE DEF held
<1>5. reserved' = SumFunctionOnSet(need, held \ {o})
  BY <1>3 DEF OwedOK, ReservedIsOwed, held
<1>6. QED  BY <1>1, <1>4, <1>5 DEF OwedOK, ReservedIsOwed, held

(* An order that holds no reservation comes to hold none.                  *)
LEMMA OwedElsewhere ==
  ASSUME Inv, OwedOK, NEW o \in Orders, NEW st, stock[o] # "reserved",
         st # "reserved", stock' = [stock EXCEPT ![o] = st],
         UNCHANGED <<reserved, need>>
  PROVE  OwedOK'
<1>1. OrdersIn("reserved")' = OrdersIn("reserved")
  BY DEF OrdersIn, Inv, TypeOK
<1>2. QED  BY <1>1 DEF OwedOK, ReservedIsOwed

LEMMA OwedByStock ==
  ASSUME Inv, OwedOK, NEW s \in Sessions, Confirm(s) \/ Prepare(s) \/ Cancel(s),
         UNCHANGED need
  PROVE  OwedOK'
<1> DEFINE o == call[s].order
<1>1. call[s] # NoCall
  BY DEF Confirm, Prepare, Cancel, Move, NoCall
<1>2. o \in Orders
  BY <1>1, CallIs DEF Inv
<1>3. CASE Confirm(s)
  <2>1. CASE call[s].state \in Unset /\ need[o] > 0
    <3>1. /\ reserved' = reserved + need[o] /\ <<"order-reserve", o>> \notin keys
          /\ stock' = [stock EXCEPT ![o] = "reserved"]
      BY <1>3, <2>1 DEF Confirm, Unset, SetStock, Fresh
    <3>2. stock[o] # "reserved"
      BY <1>2, <3>1 DEF Inv, KeysOK
    <3>3. QED  BY <1>2, <3>1, <3>2, OwedOneMore
  <2>2. CASE call[s].state \in Unset /\ need[o] = 0
    <3>1. UNCHANGED reserved /\ stock' = [stock EXCEPT ![o] = "skipped"]
      BY <1>3, <2>2 DEF Confirm, Unset, SetStock
    <3>2. stock[o] # "reserved"
      <4>1. stock[o] = "reserved" => need[o] > 0
        BY <1>2 DEF Inv, KeysOK
      <4>2. QED  BY <2>2, <4>1
    <3>3. QED  BY <1>2, <3>1, <3>2, OwedElsewhere
  <2>3. CASE call[s].state \notin Unset
    BY <1>3, <2>3, OwedUnchanged DEF Confirm, Unset, inventory
  <2>4. need[o] \in Nat
    BY <1>2, NeedsAreNat
  <2>5. QED  BY <2>1, <2>2, <2>3, <2>4
<1>4. CASE Prepare(s)
  <2>1. CASE stock[o] = "reserved"
    BY <1>2, <1>4, <2>1, OwedOneLess DEF Prepare, SetStock
  <2>2. CASE stock[o] # "reserved"
    <3> DEFINE st == IF stock[o] \in {"none", "pending"} THEN "skipped" ELSE stock[o]
    <3>1. UNCHANGED reserved /\ stock' = [stock EXCEPT ![o] = st] /\ st # "reserved"
      BY <1>4, <2>2 DEF Prepare, SetStock
    <3>2. QED  BY <1>2, <2>2, <3>1, OwedElsewhere
  <2>3. QED  BY <2>1, <2>2
<1>5. CASE Cancel(s)
  <2>1. CASE stock[o] = "reserved"
    BY <1>2, <1>5, <2>1, OwedOneLess DEF Cancel, HoldsStock, SetStock
  <2>2. CASE stock[o] # "reserved"
    <3> DEFINE st == IF stock[o] = "none" THEN "pending" ELSE stock[o]
    <3>1. UNCHANGED reserved /\ stock' = [stock EXCEPT ![o] = st] /\ st # "reserved"
      BY <1>5, <2>2 DEF Cancel, HoldsStock, SetStock
    <3>2. QED  BY <1>2, <2>2, <3>1, OwedElsewhere
  <2>3. QED  BY <2>1, <2>2
<1>6. QED  BY <1>3, <1>4, <1>5

LEMMA NextOwes == Inv /\ OwedOK /\ [Next]_vars => OwedOK'
<1> SUFFICES ASSUME Inv, OwedOK, [Next]_vars  PROVE OwedOK'
  OBVIOUS
<1>1. CASE Next
  <2>1. UNCHANGED need
    BY <1>1 DEF Next
  <2>2. ASSUME NEW s \in Sessions,
               \/ \E o \in Orders, to \in Statuses : Begin(s, o, to)
               \/ ReadStock(s) \/ LoadCustomer(s) \/ RollBack(s)
               \/ Advance(s) \/ Complete(s)
        PROVE  OwedOK'
    BY <2>1, <2>2, OwedUnchanged
    DEF Begin, ReadStock, LoadCustomer, RollBack, Advance, Complete, inventory
  <2>3. ASSUME NEW s \in Sessions, Confirm(s) \/ Prepare(s) \/ Cancel(s)
        PROVE  OwedOK'
    BY <2>1, <2>3, OwedByStock
  <2>4. CASE Adjust
    BY <2>1, <2>4, OwedUnchanged DEF Adjust
  <2>5. QED  BY <1>1, <2>2, <2>3, <2>4 DEF Next
<1>2. CASE UNCHANGED vars
  BY <1>2, OwedUnchanged DEF vars, inventory
<1>3. QED  BY <1>1, <1>2

(* What is reserved is the sum of what the orders that hold a reservation  *)
(* need, so that there is always enough for one of them to be consumed or  *)
(* released ("neither can fail", app/inventory/order_integration.py).      *)
THEOREM ReservationsAddUp ==
  Spec => [](/\ ReservedIsOwed
             /\ \A o \in OrdersIn("reserved") : need[o] <= reserved /\ need[o] <= onHand)
<1>1. Init => Inv /\ OwedOK
  <2>1. Init => OrdersIn("reserved") = {}
    BY DEF Init, OrdersIn
  <2>2. Init => OwedOK
    BY <2>1, SumEmpty, FS_EmptySet DEF Init, OwedOK, ReservedIsOwed
  <2>3. QED  BY <2>2, InitInv
<1>2. Inv /\ OwedOK /\ [Next]_vars => (Inv /\ OwedOK)'
  BY NextKeeps, NextOwes
<1> DEFINE Enough == \A o \in OrdersIn("reserved") : need[o] <= reserved /\ need[o] <= onHand
<1>3. Inv /\ OwedOK => ReservedIsOwed /\ Enough
  <2> SUFFICES ASSUME Inv, OwedOK, NEW o \in OrdersIn("reserved")
               PROVE  need[o] <= reserved /\ need[o] <= onHand
    BY DEF OwedOK
  <2> DEFINE held == OrdersIn("reserved")
  <2>1. IsFiniteSet(held) /\ \A p \in held : need[p] \in Nat
    BY NeedsAreNat DEF OwedOK, OrdersIn
  <2>2. /\ SumFunctionOnSet(need, held) = reserved
        /\ SumFunctionOnSet(need, held \ {o}) = SumFunctionOnSet(need, held) - need[o]
    BY <2>1, SumRemove DEF OwedOK, ReservedIsOwed
  <2>3. SumFunctionOnSet(need, held \ {o}) \in Nat
    BY <2>1, SumNat, FS_Subset
  <2>4. reserved \in Nat /\ onHand \in Nat /\ need[o] \in Nat /\ reserved <= onHand
    BY <2>1 DEF Inv, TypeOK
  <2>5. QED  BY <2>2, <2>3, <2>4
<1>4. QED
  BY <1>1, <1>2, <1>3, PTL DEF Spec

-----------------------------------------------------------------------------
(* Of an order that was never moved on an outdated status: what the        *)
(* kitchen works on was taken, and only a cancellation gives back.         *)
ServedOK ==
  \A o \in Orders \ raced :
    /\ stock[o] = "released" => status[o] = "cancelled"
    /\ status[o] \in {"preparing", "ready", "completed"} =>
         stock[o] \in {"consumed", "skipped"}

(* A transition leaves the other orders alone, and its own as ServedOK     *)
(* has it if its status was the one it still has.                          *)
LEMMA MoveServes ==
  ASSUME Inv, ServedOK, NEW s \in Sessions, call[s] # NoCall, NEW st,
         Move(s, call[s].to), stock' = [stock EXCEPT ![call[s].order] = st],
         call[s].order \notin raced /\ status[call[s].order] = call[s].from =>
           /\ st = "released" => call[s].to = "cancelled"
           /\ call[s].to \in {"preparing", "ready", "completed"} =>
                st \in {"consumed", "skipped"}
  PROVE  ServedOK'
<1> DEFINE o == call[s].order
<1>1. o \in Orders
  BY CallIs DEF Inv
<1>2. /\ raced' = IF status[o] = call[s].from THEN raced ELSE raced \union {o}
      /\ status' = [status EXCEPT ![o] = call[s].to]
  BY DEF Move
<1>3. \A p \in Orders \ {o} : stock'[p] = stock[p] /\ status'[p] = status[p]
  BY <1>2 DEF Inv, TypeOK
<1>4. stock'[o] = st /\ status'[o] = call[s].to
  BY <1>1, <1>2 DEF Inv, TypeOK
<1>5. QED  BY <1>2, <1>3, <1>4 DEF ServedOK

LEMMA TransitionServes ==
  ASSUME Inv, ServedOK, NEW s \in Sessions,
         Advance(s) \/ Confirm(s) \/ Prepare(s) \/ Cancel(s) \/ Complete(s)
  PROVE  ServedOK'
<1> DEFINE o == call[s].order
           fresh == o \notin raced /\ status[o] = call[s].from
<1>1. /\ Move(s, call[s].to) /\ call[s] # NoCall
  BY DEF Advance, Confirm, Prepare, Cancel, Complete, Move, NoCall
<1>2. /\ o \in Orders /\ call[s].from \in Statuses
      /\ call[s].to \in Allowed(call[s].from)
  BY <1>1, CallIs DEF Inv
<1>3. stock = [stock EXCEPT ![o] = stock[o]]
  BY <1>2 DEF Inv, TypeOK
<1>4. fresh => stock[o] # "released"
  BY <1>2 DEF ServedOK, Allowed
<1>5. CASE Advance(s) \/ Complete(s)
  <2>1. UNCHANGED stock /\ call[s].to \in {"pending_confirmation", "ready", "completed"}
    BY <1>5 DEF Advance, Complete, Move, inventory
  <2>2. call[s].to \in {"ready", "completed"} => call[s].from \in {"preparing", "ready"}
    BY <1>2, AllowedFrom
  <2>3. fresh /\ call[s].to \in {"ready", "completed"} => stock[o] \in {"consumed", "skipped"}
    BY <1>2, <2>2 DEF ServedOK
  <2>4. QED  BY <1>1, <1>3, <1>4, <2>1, <2>3, MoveServes
<1>6. CASE Confirm(s)
  <2>1. call[s].to = "confirmed"
    BY <1>6 DEF Confirm, Move
  <2>2. stock' \in {[stock EXCEPT ![o] = "reserved"], [stock EXCEPT ![o] = "skipped"],
                    [stock EXCEPT ![o] = stock[o]]}
    BY <1>3, <1>6 DEF Confirm, SetStock, inventory
  <2>3. QED  BY <1>1, <1>4, <2>1, <2>2, MoveServes
<1>7. CASE Prepare(s)
  <2> DEFINE st == IF stock[o] = "reserved" THEN "consumed"
                   ELSE IF stock[o] \in {"none", "pending"} THEN "skipped" ELSE stock[o]
  <2>1. call[s].to = "preparing" /\ stock' = [stock EXCEPT ![o] = st]
    BY <1>7 DEF Prepare, Move, SetStock
  <2>2. stock[o] \in StockStates
    BY <1>2 DEF Inv, TypeOK
  <2>3. fresh => st \in {"consumed", "skipped"}
    BY <1>4, <2>2 DEF StockStates
  <2> HIDE DEF st
  <2>4. QED  BY <1>1, <2>1, <2>3, MoveServes
<1>8. CASE Cancel(s)
  <2> DEFINE st == IF stock[o] = "reserved" THEN "released"
                   ELSE IF stock[o] = "none" THEN "pending" ELSE stock[o]
  <2>1. call[s].to = "cancelled" /\ stock' = [stock EXCEPT ![o] = st]
    BY <1>8 DEF Cancel, HoldsStock, Move, SetStock
  <2> HIDE DEF st
  <2>2. QED  BY <1>1, <2>1, MoveServes
<1>9. QED  BY <1>5, <1>6, <1>7, <1>8

LEMMA NextServes == Inv /\ ServedOK /\ [Next]_vars => ServedOK'
<1> SUFFICES ASSUME Inv, ServedOK, [Next]_vars  PROVE ServedOK'
  OBVIOUS
<1>1. ASSUME UNCHANGED <<status, stock, raced>>  PROVE ServedOK'
  BY <1>1 DEF ServedOK
<1>2. CASE Next
  <2>1. ASSUME NEW s \in Sessions,
               \/ \E o \in Orders, to \in Statuses : Begin(s, o, to)
               \/ ReadStock(s) \/ LoadCustomer(s) \/ RollBack(s)
        PROVE  ServedOK'
    BY <1>1, <2>1 DEF Begin, ReadStock, LoadCustomer, RollBack, inventory
  <2>2. CASE Adjust
    BY <1>1, <2>2 DEF Adjust
  <2>3. QED  BY <1>2, <2>1, <2>2, TransitionServes DEF Next
<1>3. CASE UNCHANGED vars
  BY <1>1, <1>3 DEF vars, inventory
<1>4. QED  BY <1>2, <1>3

(* What the kitchen works on was taken from the stock, or needed none,     *)
(* unless the order was moved on an outdated status.                       *)
THEOREM KitchenIsSupplied == Spec => []ServedIfTaken
<1>1. Init => Inv /\ ServedOK
  BY InitInv DEF Init, ServedOK
<1>2. Inv /\ ServedOK /\ [Next]_vars => (Inv /\ ServedOK)'
  BY NextKeeps, NextServes
<1>3. ServedOK => ServedIfTaken
  BY DEF ServedOK, ServedIfTaken
<1>4. QED
  BY <1>1, <1>2, <1>3, PTL DEF Spec

-----------------------------------------------------------------------------
(***************************************************************************)
(* OfferRedemption, the discounts of the orders: what it keeps for any     *)
(* number of sessions, redemptions, customers and coupons.                 *)
(***************************************************************************)
(* The uses of x in any table of redemptions.                              *)
Uses(table, x) ==
  {k \in Keys : table[k].status \in LiveStatuses
                /\ x \in {Offer, table[k].coupon}}

(* A row is absent, or a whole record with a status a redemption may have. *)
RowOK(row) ==
  \/ row = Absent
  \/ /\ row = [status |-> row.status, customer |-> row.customer,
               coupon |-> row.coupon, discount |-> row.discount]
     /\ row.status \in LiveStatuses \union Dead

RowsOK ==
  /\ redemption = [k \in Keys |-> redemption[k]]
  /\ \A k \in Keys : RowOK(redemption[k])

Request == {Idle} \union [kind : {"confirm", "reject", "reverse"}, key : Keys]

(* A request has loaded a row that exists.                                 *)
RequestsOK ==
  /\ request \in [OfferSessions -> Request]
  /\ \A s \in OfferSessions : request[s] # Idle => redemption[request[s].key] # Absent

(* The count is the number of uses, less those it does not see.            *)
CountOf(x) ==
  /\ count[x] <= Limit[x]
  /\ count[x] <= Cardinality(Uses(redemption, x))
  /\ Cardinality(Uses(redemption, x)) <= count[x] + again[x]

CountsOK ==
  /\ count \in [Counted -> Nat] /\ again \in [Counted -> Nat]
  /\ \A x \in Counted : CountOf(x)

OffersInv == RowsOK /\ RequestsOK /\ CountsOK

-----------------------------------------------------------------------------
(* UsesOf is Uses of the table as it stands.                               *)
LEMMA UsesOfTable == \A x \in Counted : UsesOf(x) = Uses(redemption, x)
BY DEF UsesOf, Live, Uses

(* The uses are finite, and their number is a natural number.              *)
LEMMA UsesFinite ==
  ASSUME NEW table, NEW x
  PROVE  IsFiniteSet(Uses(table, x)) /\ Cardinality(Uses(table, x)) \in Nat
<1>1. Uses(table, x) \subseteq Keys
  BY DEF Uses
<1> QED BY <1>1, SetAssumption, FS_Subset, FS_CardinalityType

(* Replacing one row adds that key to the uses or takes it away.           *)
LEMMA OneRow ==
  ASSUME NEW table, NEW k \in Keys, NEW row, NEW x,
         table = [j \in Keys |-> table[j]]
  PROVE  LET after == Uses([table EXCEPT ![k] = row], x) IN
         IF row.status \in LiveStatuses /\ x \in {Offer, row.coupon}
         THEN after = Uses(table, x) \union {k}
         ELSE after = Uses(table, x) \ {k}
BY DEF Uses

(* The same, counted.                                                      *)
LEMMA OneRowCounted ==
  ASSUME NEW table, NEW k \in Keys, NEW row, NEW x,
         table = [j \in Keys |-> table[j]]
  PROVE  LET before == Cardinality(Uses(table, x))
             after  == Cardinality(Uses([table EXCEPT ![k] = row], x))
         IN
         IF row.status \in LiveStatuses /\ x \in {Offer, row.coupon}
         THEN after = IF k \in Uses(table, x) THEN before ELSE before + 1
         ELSE after = IF k \in Uses(table, x) THEN before - 1 ELSE before
<1> DEFINE S == Uses(table, x)
           T == Uses([table EXCEPT ![k] = row], x)
<1>1. IsFiniteSet(S) /\ Cardinality(S) \in Nat
  BY UsesFinite
<1>2. Cardinality(S \union {k}) = IF k \in S THEN Cardinality(S)
                                             ELSE Cardinality(S) + 1
  BY <1>1, FS_AddElement
<1>3. Cardinality(S \ {k}) = IF k \in S THEN Cardinality(S) - 1
                                        ELSE Cardinality(S)
  BY <1>1, FS_RemoveElement
<1>4. CASE row.status \in LiveStatuses /\ x \in {Offer, row.coupon}
  <2>1. T = S \union {k}
    BY <1>4, OneRow
  <2> QED BY <1>2, <1>4, <2>1
<1>5. CASE ~(row.status \in LiveStatuses /\ x \in {Offer, row.coupon})
  <2>1. T = S \ {k}
    BY <1>5, OneRow
  <2> QED BY <1>3, <1>5, <2>1
<1> QED BY <1>4, <1>5

-----------------------------------------------------------------------------
LEMMA OffersInit == OfferInit => OffersInv
<1> SUFFICES ASSUME OfferInit PROVE OffersInv
  OBVIOUS
<1> USE DEF OfferInit, Absent, LiveStatuses, Dead
<1>1. RowsOK
  BY DEF RowsOK, RowOK
<1>2. RequestsOK
  BY DEF RequestsOK, Request
<1>3. \A x \in Counted : Uses(redemption, x) = {}
  BY DEF Uses
<1>4. CountsOK
  <2>1. \A x \in Counted : Cardinality(Uses(redemption, x)) = 0
    BY <1>3, FS_EmptySet
  <2>2. \A x \in Counted : Limit[x] \in Nat
    BY LimitAssumption
  <2> QED BY <2>1, <2>2 DEF CountsOK, CountOf
<1> QED BY <1>1, <1>2, <1>4 DEF OffersInv

(* A new reservation: a use where there was none, counted by both rows.    *)
LEMMA ReserveInv ==
  ASSUME OffersInv, NEW k \in Keys, NEW u \in Customers, NEW c \in Coupons,
         NEW d \in Discounts, Reserve(k, u, c, d)
  PROVE  OffersInv'
<1> DEFINE row == [status |-> "reserved", customer |-> u, coupon |-> c,
                   discount |-> Discount(d)]
<1>1. redemption' = [redemption EXCEPT ![k] = row] /\ redemption[k] = Absent
  BY DEF Reserve
<1>2. RowsOK'
  BY <1>1 DEF OffersInv, RowsOK, RowOK, Absent, LiveStatuses
<1>3. RequestsOK'
  <2>1. row # Absent
    BY DEF Absent
  <2> QED BY <1>1, <2>1 DEF OffersInv, RequestsOK, RowsOK, Reserve,
             Request, Idle
<1>4. \A x \in Counted : k \notin Uses(redemption, x)
  BY <1>1 DEF Uses, Absent, LiveStatuses
<1>5. ASSUME NEW x \in Counted PROVE CountOf(x)'
  <2>1. Cardinality(Uses(redemption', x)) =
          IF x \in {Offer, c} THEN Cardinality(Uses(redemption, x)) + 1
                              ELSE Cardinality(Uses(redemption, x))
    BY <1>1, <1>4, OneRowCounted DEF OffersInv, RowsOK, LiveStatuses
  <2>2. count'[x] = IF x \in {Offer, c} THEN count[x] + 1 ELSE count[x]
    BY DEF Reserve
  <2>3. x \in {Offer, c} => count[x] < Limit[x]
    BY DEF Reserve, Usable
  <2>4. count[x] \in Nat /\ again[x] \in Nat /\ Limit[x] \in Nat
    BY LimitAssumption DEF OffersInv, CountsOK
  <2>5. again' = again /\ CountOf(x)
    BY DEF Reserve, OffersInv, CountsOK
  <2> QED BY <2>1, <2>2, <2>3, <2>4, <2>5, UsesFinite DEF CountOf
<1>6. CountsOK'
  BY <1>5 DEF CountsOK, OffersInv, Reserve
<1> QED BY <1>2, <1>3, <1>6 DEF OffersInv

(* What confirming and releasing share: the row they write has the coupon  *)
(* of the row that is there, which was loaded and so exists.               *)
LEMMA WriteShape ==
  ASSUME OffersInv, NEW s \in OfferSessions, request[s] # Idle,
         NEW to \in LiveStatuses \union Dead, Write(s, to)
  PROVE  LET k == request[s].key IN
         /\ k \in Keys /\ redemption[k] # Absent
         /\ redemption[k].status \in LiveStatuses \union Dead
         /\ RowsOK' /\ RequestsOK'
         /\ \E row : /\ redemption' = [redemption EXCEPT ![k] = row]
                     /\ row.status = to
                     /\ row.coupon = redemption[k].coupon
<1> DEFINE k   == request[s].key
           old == redemption[k]
           row == [old EXCEPT !.status = to]
<1>1. k \in Keys /\ old # Absent
  BY DEF OffersInv, RequestsOK, Request
<1>2. /\ old = [status |-> old.status, customer |-> old.customer,
                coupon |-> old.coupon, discount |-> old.discount]
      /\ old.status \in LiveStatuses \union Dead
  BY <1>1 DEF OffersInv, RowsOK, RowOK
<1>3. row = [status |-> to, customer |-> old.customer,
             coupon |-> old.coupon, discount |-> old.discount]
  BY <1>2
<1>4. redemption' = [redemption EXCEPT ![k] = row]
  BY DEF Write
<1>5. RowsOK'
  BY <1>1, <1>3, <1>4 DEF OffersInv, RowsOK, RowOK
<1>6. row # Absent
  BY <1>3 DEF Absent
<1>7. RequestsOK'
  BY <1>1, <1>4, <1>6 DEF OffersInv, RequestsOK, RowsOK, Write, Request, Idle
<1>8. row.status = to /\ row.coupon = old.coupon
  BY <1>3
<1> QED BY <1>1, <1>2, <1>4, <1>5, <1>7, <1>8

(* A confirmation: no count moves; where the use was released meanwhile it *)
(* is a use again, which the history of both rows records.                 *)
LEMMA ConfirmInv ==
  ASSUME OffersInv, NEW s \in OfferSessions, ConfirmRedemption(s)
  PROVE  OffersInv'
<1> DEFINE k == request[s].key
<1>1. Write(s, "confirmed") /\ request[s] # Idle
  BY DEF ConfirmRedemption, Idle
<1>2. /\ k \in Keys /\ redemption[k] # Absent
      /\ redemption[k].status \in LiveStatuses \union Dead
      /\ RowsOK' /\ RequestsOK'
  BY <1>1, WriteShape DEF LiveStatuses
<1>3. PICK row : /\ redemption' = [redemption EXCEPT ![k] = row]
                 /\ row.status = "confirmed"
                 /\ row.coupon = redemption[k].coupon
  BY <1>1, WriteShape DEF LiveStatuses
<1>4. ASSUME NEW x \in Counted PROVE CountOf(x)'
  <2>1. k \in Uses(redemption, x) <=>
          redemption[k].status \notin Dead /\ x \in {Offer, redemption[k].coupon}
    BY <1>2 DEF Uses, LiveStatuses, Dead
  <2>2. Cardinality(Uses(redemption', x)) =
          IF redemption[k].status \in Dead /\ x \in {Offer, redemption[k].coupon}
          THEN Cardinality(Uses(redemption, x)) + 1
          ELSE Cardinality(Uses(redemption, x))
    BY <1>2, <1>3, <2>1, OneRowCounted DEF OffersInv, RowsOK, LiveStatuses
  <2>3. again'[x] =
          IF redemption[k].status \in Dead /\ x \in {Offer, redemption[k].coupon}
          THEN again[x] + 1 ELSE again[x]
    BY DEF ConfirmRedemption, CountAgain
  <2>4. count' = count /\ count[x] \in Nat /\ again[x] \in Nat /\ CountOf(x)
    BY DEF ConfirmRedemption, OffersInv, CountsOK
  <2> QED BY <2>2, <2>3, <2>4, UsesFinite DEF CountOf
<1>5. CountsOK'
  BY <1>4 DEF CountsOK, OffersInv, ConfirmRedemption, CountAgain
<1> QED BY <1>2, <1>5 DEF OffersInv

(* A release: one use fewer and one count fewer, or, for a use that was    *)
(* released before, one count fewer and one entry in the history.          *)
LEMMA ReleaseInv ==
  ASSUME OffersInv, NEW s \in OfferSessions, Release(s)
  PROVE  OffersInv'
<1> DEFINE k  == request[s].key
           st == IF request[s].kind = "reject" THEN "rejected" ELSE "reversed"
<1>1. Write(s, st) /\ request[s] # Idle /\ st \in Dead
  BY DEF Release, Idle, Dead
<1>2. /\ k \in Keys /\ redemption[k] # Absent
      /\ redemption[k].status \in LiveStatuses \union Dead
      /\ RowsOK' /\ RequestsOK'
  BY <1>1, WriteShape
<1>3. PICK row : /\ redemption' = [redemption EXCEPT ![k] = row]
                 /\ row.status = st
                 /\ row.coupon = redemption[k].coupon
  BY <1>1, WriteShape
<1>4. ASSUME NEW x \in Counted PROVE CountOf(x)'
  <2>1. k \in Uses(redemption, x) <=>
          redemption[k].status \notin Dead /\ x \in {Offer, redemption[k].coupon}
    BY <1>2 DEF Uses, LiveStatuses, Dead
  <2>2. Cardinality(Uses(redemption', x)) =
          IF redemption[k].status \notin Dead /\ x \in {Offer, redemption[k].coupon}
          THEN Cardinality(Uses(redemption, x)) - 1
          ELSE Cardinality(Uses(redemption, x))
    <3>1. row.status \notin LiveStatuses
      BY <1>1, <1>3 DEF LiveStatuses, Dead
    <3> QED BY <1>2, <1>3, <2>1, <3>1, OneRowCounted DEF OffersInv, RowsOK
  <2>3. count'[x] = IF x \in {Offer, redemption[k].coupon} /\ count[x] > 0
                    THEN count[x] - 1 ELSE count[x]
    BY DEF Release, Less
  <2>4. again'[x] =
          IF redemption[k].status \in Dead /\ x \in {Offer, redemption[k].coupon}
          THEN again[x] + 1 ELSE again[x]
    BY DEF Release, CountAgain
  <2>5. /\ count[x] \in Nat /\ again[x] \in Nat /\ Limit[x] \in Nat
        /\ CountOf(x)
    BY LimitAssumption DEF OffersInv, CountsOK
  <2>6. /\ Cardinality(Uses(redemption, x)) \in Nat
        /\ Cardinality(Uses(redemption', x)) \in Nat
    BY UsesFinite
  <2> QED BY <2>2, <2>3, <2>4, <2>5, <2>6 DEF CountOf
<1>5. CountsOK'
  <2>1. count' \in [Counted -> Nat]
    BY DEF Release, Less, OffersInv, CountsOK
  <2> QED BY <1>4, <2>1 DEF CountsOK, OffersInv, Release, CountAgain
<1> QED BY <1>2, <1>5 DEF OffersInv

LEMMA NextInv == OffersInv /\ [OfferNext]_offerVars => OffersInv'
<1> SUFFICES ASSUME OffersInv, [OfferNext]_offerVars PROVE OffersInv'
  OBVIOUS
<1>1. ASSUME NEW k \in Keys, NEW u \in Customers, NEW c \in Coupons,
             NEW d \in Discounts, Reserve(k, u, c, d)
      PROVE  OffersInv'
  BY <1>1, ReserveInv
<1>2. ASSUME NEW s \in OfferSessions, NEW k \in Keys,
             NEW kind \in {"confirm", "reject", "reverse"}, Load(s, k, kind)
      PROVE  OffersInv'
  <2>1. redemption[k] # Absent
    BY <1>2 DEF Load, Absent
  <2>2. RequestsOK'
    BY <1>2, <2>1 DEF OffersInv, RequestsOK, Load, Request, Idle
  <2>3. RowsOK' /\ CountsOK'
    BY <1>2 DEF Load, OffersInv, RowsOK, CountsOK, CountOf, Uses
  <2> QED BY <2>2, <2>3 DEF OffersInv
<1>3. ASSUME NEW s \in OfferSessions, RollBackRequest(s)
      PROVE  OffersInv'
  BY <1>3 DEF RollBackRequest, OffersInv, RowsOK, RequestsOK, CountsOK, CountOf, Uses,
              Request
<1>4. ASSUME UNCHANGED offerVars
      PROVE  OffersInv'
  BY <1>4 DEF offerVars, OffersInv, RowsOK, RequestsOK, CountsOK, CountOf, Uses
<1> QED BY <1>1, <1>2, <1>3, <1>4, ConfirmInv, ReleaseInv DEF OfferNext

(* Whatever reserve, confirm, reject and reverse do, and on however old a  *)
(* status, the uses of the offer and of each coupon exceed its limit by no *)
(* more than the uses that were given back twice or taken back uncounted.  *)
THEOREM LimitsHold == OfferSpec => []WithinLimit
<1>1. OffersInv => WithinLimit
  <2> SUFFICES ASSUME OffersInv, NEW x \in Counted
               PROVE  Cardinality(UsesOf(x)) <= Limit[x] + again[x]
    BY DEF WithinLimit
  <2>1. count[x] \in Nat /\ again[x] \in Nat /\ Limit[x] \in Nat /\ CountOf(x)
    BY LimitAssumption DEF OffersInv, CountsOK
  <2> QED BY <2>1, UsesOfTable, UsesFinite DEF CountOf
<1> QED BY <1>1, OffersInit, NextInv, PTL DEF OfferSpec

(* However _release_capacity is repeated, no redemption_count ever stands  *)
(* above the uses it counts: a limit never refuses what it should allow.   *)
THEOREM CapacityIsKept == OfferSpec => []NoCapacityLost
<1>1. OffersInv => NoCapacityLost
  BY UsesOfTable DEF OffersInv, CountsOK, CountOf, NoCapacityLost
<1> QED BY <1>1, OffersInit, NextInv, PTL DEF OfferSpec

-----------------------------------------------------------------------------
(* The uses a customer has, and those the budget pays for.                 *)
Honoured == Live \ revived
HonouredOf(u) == {k \in Honoured : redemption[k].customer = u}

SharesOK ==
  /\ SharesHold
  /\ \A k \in Keys : redemption[k] # Absent => redemption[k].discount \in Nat

LEMMA HonouredFinite ==
  /\ IsFiniteSet(Live) /\ Cardinality(Live) \in Nat
  /\ \A u : IsFiniteSet(HonouredOf(u)) /\ Cardinality(HonouredOf(u)) \in Nat
<1>1. Live \subseteq Keys /\ \A u : HonouredOf(u) \subseteq Live
  BY DEF Live, HonouredOf, Honoured
<1>2. QED  BY <1>1, SetAssumption, FS_Subset, FS_CardinalityType

(* What is in use has a discount.                                          *)
LEMMA LiveDiscount ==
  ASSUME SharesOK, NEW k \in Live  PROVE redemption[k].discount \in Nat
  BY DEF SharesOK, Live, LiveStatuses, Absent

(* No redemption is new and none gets another customer or discount.        *)
LEMMA FewerHonoured ==
  ASSUME SharesOK, Honoured' \subseteq Honoured,
         \A k \in Keys : /\ redemption'[k] # Absent => redemption[k] # Absent
                         /\ redemption'[k].customer = redemption[k].customer
                         /\ redemption'[k].discount = redemption[k].discount
  PROVE  SharesOK'
<1> DEFINE f == [k \in Honoured |-> redemption[k].discount]
           g == [k \in Honoured' |-> redemption'[k].discount]
<1>1. Honoured \subseteq Keys /\ Honoured \subseteq Live
  BY DEF Honoured, Live
<1>2. IsFiniteSet(Honoured) /\ IsFiniteSet(Honoured')
  BY <1>1, HonouredFinite, FS_Subset
<1>3. \A k \in Honoured : f[k] \in Nat
  BY <1>1, LiveDiscount
<1>4. SumFunctionOnSet(f, Honoured') <= SumFunctionOnSet(f, Honoured)
  BY <1>2, <1>3, SumSubset
<1>5. SumFunctionOnSet(g, Honoured') = SumFunctionOnSet(f, Honoured')
  BY <1>1, <1>2, SumSame
<1>6. SumFunctionOnSet(f, Honoured) <= Budget
  BY DEF SharesOK, SharesHold, Spent, Honoured
<1>7. /\ SumFunctionOnSet(f, Honoured) \in Nat /\ SumFunctionOnSet(f, Honoured') \in Nat
      /\ Budget \in Nat
  BY <1>2, <1>3, SumNat, LimitAssumption
<1>8. SumFunctionOnSet(g, Honoured') <= Budget
  BY <1>4, <1>5, <1>6, <1>7
<1>9. ASSUME NEW u \in Customers
      PROVE  Cardinality(HonouredOf(u)') <= CustomerLimit
  <2>1. HonouredOf(u)' \subseteq HonouredOf(u)
    BY <1>1 DEF HonouredOf
  <2>2. /\ Cardinality(HonouredOf(u)') <= Cardinality(HonouredOf(u))
        /\ Cardinality(HonouredOf(u)') \in Nat /\ Cardinality(HonouredOf(u)) \in Nat
    BY <2>1, HonouredFinite, FS_Subset, FS_CardinalityType
  <2>3. Cardinality(HonouredOf(u)) <= CustomerLimit /\ CustomerLimit \in Nat
    BY LimitAssumption DEF SharesOK, SharesHold, HonouredOf, Honoured
  <2>4. QED  BY <2>2, <2>3
<1>10. SharesHold'
  BY <1>8, <1>9 DEF SharesHold, Spent, HonouredOf, Honoured
<1>11. QED  BY <1>10 DEF SharesOK

(* A reservation: a customer with a use to spare, and a discount within    *)
(* what is left of the budget.                                             *)
LEMMA ReserveShares ==
  ASSUME OffersInv, SharesOK, NEW k \in Keys, NEW u \in Customers, NEW c \in Coupons,
         NEW d \in Discounts, Reserve(k, u, c, d)
  PROVE  SharesOK'
<1> DEFINE row == [status |-> "reserved", customer |-> u, coupon |-> c,
                   discount |-> Discount(d)]
           f == [j \in Live |-> redemption[j].discount]
           g == [j \in Honoured' |-> redemption'[j].discount]
<1>1. /\ redemption' = [redemption EXCEPT ![k] = row] /\ redemption[k] = Absent
      /\ revived' = revived /\ Spent(Live) < Budget
      /\ Cardinality(UsesBy(u)) < CustomerLimit
  BY DEF Reserve
<1>2. redemption'[k] = row /\ \A j \in Keys \ {k} : redemption'[j] = redemption[j]
  BY <1>1 DEF OffersInv, RowsOK
<1>3. Live' = Live \union {k} /\ k \notin Live
  BY <1>1, <1>2 DEF Live, LiveStatuses, Absent
<1>4. IsFiniteSet(Live) /\ \A j \in Live : f[j] \in Nat
  BY HonouredFinite, LiveDiscount
<1>5. SumFunctionOnSet(f, Live) \in Nat /\ SumFunctionOnSet(f, Live) < Budget
  BY <1>1, <1>4, SumNat DEF Spent
<1>6. Discount(d) \in Nat /\ Discount(d) <= Budget - SumFunctionOnSet(f, Live)
  BY <1>5, LimitAssumption DEF Discount, Spent
<1>7. \A j \in Keys : redemption'[j] # Absent => redemption'[j].discount \in Nat
  BY <1>2, <1>6 DEF SharesOK
<1>8. SumFunctionOnSet(g, Honoured') <= Budget
  <2> DEFINE h == [j \in Live \union {k} |-> redemption'[j].discount]
  <2>1. Honoured' \subseteq Live \union {k} /\ Live \subseteq Keys
    BY <1>3 DEF Honoured, Live
  <2>2. IsFiniteSet(Live \union {k}) /\ IsFiniteSet(Honoured')
    BY <1>4, <2>1, FS_AddElement, FS_Subset
  <2>3. \A j \in Live : h[j] = f[j]
    BY <1>2, <1>3, <2>1
  <2>4. h[k] = Discount(d)
    BY <1>2
  <2>5. \A j \in Live \union {k} : h[j] \in Nat
    BY <1>4, <1>6, <2>3, <2>4
  <2>6. SumFunctionOnSet(h, Live \union {k})
          = Discount(d) + SumFunctionOnSet(f, Live)
    <3> HIDE DEF f, h
    <3>1. \A j \in Live \union {k} : h[j] \in Int
      BY <2>5
    <3>2. SumFunctionOnSet(h, Live \union {k}) = h[k] + SumFunctionOnSet(h, Live)
      BY <1>3, <1>4, <3>1, SumAdd
    <3>3. SumFunctionOnSet(h, Live) = SumFunctionOnSet(f, Live)
      BY <1>4, <2>3, SumSame
    <3>4. QED  BY <2>4, <3>2, <3>3
  <2>7. SumFunctionOnSet(h, Honoured') <= SumFunctionOnSet(h, Live \union {k})
    BY <2>1, <2>2, <2>5, SumSubset
  <2>8. SumFunctionOnSet(g, Honoured') = SumFunctionOnSet(h, Honoured')
    BY <2>1, <2>2, SumSame
  <2>9. SumFunctionOnSet(h, Honoured') \in Nat /\ Budget \in Nat
    BY <2>1, <2>2, <2>5, SumNat, LimitAssumption
  <2>10. QED  BY <1>5, <1>6, <2>6, <2>7, <2>8, <2>9
<1>9. ASSUME NEW v \in Customers
      PROVE  Cardinality(HonouredOf(v)') <= CustomerLimit
  <2>1. CASE v # u
    <3>1. HonouredOf(v)' = HonouredOf(v)
      BY <1>1, <1>2, <1>3, <2>1 DEF HonouredOf, Honoured, Live
    <3>2. QED  BY <3>1 DEF SharesOK, SharesHold, HonouredOf, Honoured
  <2>2. CASE v = u
    <3>1. /\ HonouredOf(v)' \subseteq UsesBy(u) \union {k}
          /\ UsesBy(u) \subseteq Live
      BY <1>2, <1>3, <2>2 DEF HonouredOf, Honoured, UsesBy, Live
    <3>2. IsFiniteSet(UsesBy(u)) /\ Cardinality(UsesBy(u)) \in Nat
      BY <1>4, <3>1, FS_Subset, FS_CardinalityType
    <3>3. /\ IsFiniteSet(UsesBy(u) \union {k})
          /\ Cardinality(UsesBy(u) \union {k}) <= Cardinality(UsesBy(u)) + 1
          /\ Cardinality(UsesBy(u) \union {k}) \in Nat
      <4>1. IsFiniteSet(UsesBy(u) \union {k})
        BY <3>2, FS_AddElement
      <4>2. Cardinality(UsesBy(u) \union {k})
              \in {Cardinality(UsesBy(u)), Cardinality(UsesBy(u)) + 1}
        BY <3>2, FS_AddElement
      <4>3. QED  BY <3>2, <4>1, <4>2
    <3>4. /\ Cardinality(HonouredOf(v)') <= Cardinality(UsesBy(u) \union {k})
          /\ Cardinality(HonouredOf(v)') \in Nat
      BY <3>1, <3>3, FS_Subset, FS_CardinalityType
    <3>5. QED  BY <1>1, <3>2, <3>3, <3>4, LimitAssumption
  <2>3. QED  BY <2>1, <2>2
<1>10. SharesHold'
  BY <1>8, <1>9 DEF SharesHold, Spent, HonouredOf, Honoured
<1>11. QED  BY <1>7, <1>10 DEF SharesOK

(* A confirmation or a release changes a status; a dead use that comes     *)
(* back is revived.                                                        *)
LEMMA WriteShares ==
  ASSUME OffersInv, SharesOK, NEW s \in OfferSessions, ConfirmRedemption(s) \/ Release(s)
  PROVE  SharesOK'
<1> DEFINE k == request[s].key
<1>1. request[s] # Idle
  BY DEF ConfirmRedemption, Release, Idle
<1>2. k \in Keys /\ redemption[k] # Absent
  BY <1>1 DEF OffersInv, RequestsOK, Request
<1>3. PICK st \in {"confirmed", "rejected", "reversed"} :
        redemption' = [redemption EXCEPT ![k].status = st]
  BY DEF ConfirmRedemption, Release, Write
<1>4. /\ redemption'[k].customer = redemption[k].customer
      /\ redemption'[k].discount = redemption[k].discount
      /\ redemption'[k].status = st
      /\ \A j \in Keys \ {k} : redemption'[j] = redemption[j]
  BY <1>2, <1>3 DEF OffersInv, RowsOK, RowOK
<1>5. redemption[k].status \in LiveStatuses \union Dead
  BY <1>2 DEF OffersInv, RowsOK, RowOK
<1>6. Honoured' \subseteq Honoured
  <2>1. CASE ConfirmRedemption(s)
    BY <1>4, <1>5, <2>1 DEF ConfirmRedemption, Honoured, Live
  <2>2. CASE Release(s)
    <3>1. PICK to \in {"rejected", "reversed"} :
            redemption' = [redemption EXCEPT ![k].status = to]
      BY <2>2 DEF Release, Write
    <3>2. redemption'[k].status = to
      BY <1>2, <3>1 DEF OffersInv, RowsOK, RowOK
    <3>3. revived' = revived /\ st \notin LiveStatuses
      BY <1>4, <2>2, <3>2 DEF Release, LiveStatuses
    <3>4. QED  BY <1>4, <3>3 DEF Honoured, Live
  <2>3. QED  BY <2>1, <2>2
<1>7. QED  BY <1>2, <1>4, <1>6, FewerHonoured

LEMMA NextShares == OffersInv /\ SharesOK /\ [OfferNext]_offerVars => SharesOK'
<1> SUFFICES ASSUME OffersInv, SharesOK, [OfferNext]_offerVars  PROVE SharesOK'
  OBVIOUS
<1>1. ASSUME UNCHANGED <<redemption, revived>>  PROVE SharesOK'
  BY <1>1, FewerHonoured DEF Honoured, Live
<1>2. CASE OfferNext
  <2>1. ASSUME NEW s \in OfferSessions,
               \/ \E k \in Keys, kind \in {"confirm", "reject", "reverse"} : Load(s, k, kind)
               \/ RollBackRequest(s)
        PROVE  SharesOK'
    BY <1>1, <2>1 DEF Load, RollBackRequest
  <2>2. QED  BY <1>2, <2>1, ReserveShares, WriteShares DEF OfferNext
<1>3. CASE UNCHANGED offerVars
  BY <1>1, <1>3 DEF offerVars
<1>4. QED  BY <1>2, <1>3

(* Save for redemptions revived on an outdated status, no customer uses an *)
(* offer more often than it allows, and the discounts in use stay within   *)
(* its budget (app/offers/redemptions.py, reserve).                        *)
THEOREM SharesAreKept == OfferSpec => []SharesHold
<1>1. OfferInit => OffersInv /\ SharesOK
  <2> SUFFICES ASSUME OfferInit  PROVE OffersInv /\ SharesOK
    OBVIOUS
  <2>1. Live = {}
    BY DEF OfferInit, Live, Absent, LiveStatuses
  <2>2. Cardinality({}) = 0 /\ Spent({}) = 0
    BY FS_EmptySet, SumEmpty DEF Spent
  <2>3. SharesHold
    BY <2>1, <2>2, LimitAssumption DEF SharesHold
  <2>4. QED  BY <2>3, OffersInit DEF OfferInit, SharesOK
<1>2. OffersInv /\ SharesOK /\ [OfferNext]_offerVars => (OffersInv /\ SharesOK)'
  BY NextInv, NextShares
<1>3. SharesOK => SharesHold
  BY DEF SharesOK
<1>4. QED
  BY <1>1, <1>2, <1>3, PTL DEF OfferSpec
=============================================================================

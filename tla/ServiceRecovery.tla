--------------------------- MODULE ServiceRecovery ---------------------------
(***************************************************************************)
(* Service recovery: what is given to a guest who complained               *)
(* (app/service_recovery), the points ledger it credits and the payments   *)
(* of the complaint's order that it refunds (app/orders).  A request reads *)
(* its action without a lock and decides on what it read; its first write  *)
(* to a row then waits for whoever has written that row, and holds it      *)
(* until the transaction ends.                                             *)
(***************************************************************************)
EXTENDS Integers, FiniteSets, FiniteSetsExt

CONSTANTS
  RecoverySessions, \* requests in flight
  Actions,          \* recovery actions, all of complaints about one order
  Kind,             \* "credit", "refund" or "manual": what each one gives
  Payments,         \* the payments of the order, numbered as they are recorded
  Amount, Total,    \* amount_minor of each, grand_total_minor of the order
  Points,           \* points of a credit
  StaffStatuses,    \* statuses staff give to a payment
  MaxRequests       \* bound: requests

ASSUME RecoveryAssumption ==
  /\ Payments \subseteq Nat /\ IsFiniteSet(Payments)
  /\ Kind \in [Actions -> {"credit", "refund", "manual"}]
  /\ Amount \in [Payments -> Nat] /\ Total \in Nat
  /\ Points \in Nat \ {0}

VARIABLES
  status,      \* service_recovery_actions.status, "none" before it is proposed
  ruled,       \* actions with an approval rule
  approved,    \* actions with an approved_by_staff_id
  reference,   \* execution_reference_type: "none", "entry", "payment" or "manual"
  posted,      \* idempotency keys of the ledger entries: <<action, entry>>
  points,      \* points_balance of the guest
  payment,     \* order_payments.status
  payStatus,   \* orders.payment_status
  work,        \* what each request has read and decided
  requests,    \* bound: requests so far
  raced,       \* history: actions whose status was written on an outdated reading
  refunds,     \* history: which action refunded which payment
  contested,   \* history: payments written over by another request
  mixed        \* history: the last request about a payment had been overtaken

actionVars   == <<status, ruled, approved, reference, posted, points, raced>>
paymentVars  == <<payment, payStatus, refunds, contested, mixed>>
recoveryVars == <<actionVars, paymentVars, work, requests>>

NoWork == [op |-> "none", stage |-> "idle"]

(* _recompute_payment_status                                               *)
Recomputed(paid) ==
  LET recorded == {p \in Payments : paid[p] # "none"}
      sum == SumFunctionOnSet(Amount, {p \in recorded : paid[p] = "paid"}) IN
  CASE \E p \in recorded : paid[p] = "refunded" -> "refunded"
    [] OTHER ->
         IF sum = 0
         THEN IF \E p \in recorded : paid[p] = "failed" THEN "failed" ELSE "pending"
         ELSE IF sum < Total THEN "partial" ELSE "paid"

RecoveryInit ==
  /\ status = [a \in Actions |-> "none"]
  /\ ruled = {} /\ approved = {}
  /\ reference = [a \in Actions |-> "none"]
  /\ posted = {} /\ points = 0
  /\ payment \in [Payments -> {"none", "paid"}]
  /\ \A p, q \in Payments : p < q /\ payment[q] # "none" => payment[p] # "none"
  /\ payStatus = Recomputed(payment)
  /\ work = [s \in RecoverySessions |-> NoWork]
  /\ requests = 0
  /\ raced = {} /\ refunds = {} /\ contested = {} /\ mixed = FALSE

-----------------------------------------------------------------------------
(* Mutant: nobody asks for approval.                                       *)
FirstStatusUnruled(rule) == "proposed"

(* propose_action: a rule that matches asks for approval.                  *)
FirstStatus(rule) == IF rule THEN "approval_required" ELSE "proposed"

Propose(a, rule) ==
  /\ status[a] = "none" /\ requests < MaxRequests
  /\ status' = [status EXCEPT ![a] = FirstStatus(rule)]
  /\ ruled' = IF rule THEN ruled \union {a} ELSE ruled
  /\ requests' = requests + 1
  /\ UNCHANGED <<approved, reference, posted, points, raced, paymentVars, work>>

(* Mutant: an executed action may be executed again.                       *)
AcceptsAgain(op) ==
  IF op = "execute" THEN {"proposed", "approved", "completed"}
  ELSE IF op = "reverse" THEN {"completed"} ELSE {"approval_required"}

(* The statuses each request accepts.                                      *)
Accepts(op) ==
  [ approve |-> {"approval_required"},
    reject  |-> {"approval_required"},
    execute |-> {"proposed", "approved"},
    reverse |-> {"completed"} ][op]

(* The router loads the action; the service checks the status it has.      *)
Begin(s, op, a) ==
  /\ work[s] = NoWork /\ requests < MaxRequests
  /\ status[a] \in Accepts(op)
  /\ work' = [work EXCEPT ![s] =
       [op |-> op, stage |-> "read", a |-> a, seen |-> status[a], ref |-> reference[a]]]
  /\ requests' = requests + 1
  /\ UNCHANGED <<actionVars, paymentVars>>

Reads(s, op) == work[s].stage = "read" /\ work[s].op = op

(* No other request has written the row of this action.                    *)
Unlocked(a) ==
  \A t \in RecoverySessions :
    work[t].op = "execute" /\ work[t].stage \in {"picked", "computed"} => work[t].a # a

(* _record_transition, and the commit.                                     *)
Record(s, to) ==
  /\ status' = [status EXCEPT ![work[s].a] = to]
  /\ raced' = IF work[s].seen = status[work[s].a] THEN raced ELSE raced \union {work[s].a}

(* approve_action, by staff who may.  A refusal, of whoever proposed the   *)
(* action too unless its rule lets them, is a roll back; who asks is not   *)
(* modelled, so any approval may be one the rules allow.                   *)
Approve(s) ==
  /\ Reads(s, "approve") /\ Unlocked(work[s].a)
  /\ Record(s, "approved")
  /\ approved' = approved \union {work[s].a}
  /\ work' = [work EXCEPT ![s] = NoWork]
  /\ UNCHANGED <<ruled, reference, posted, points, paymentVars, requests>>

Reject(s) ==
  /\ Reads(s, "reject") /\ Unlocked(work[s].a)
  /\ Record(s, "rejected")
  /\ work' = [work EXCEPT ![s] = NoWork]
  /\ UNCHANGED <<ruled, approved, reference, posted, points, paymentVars, requests>>

-----------------------------------------------------------------------------
(* execute_action, with nothing to post: the reference is manual.          *)
Complete(s) ==
  /\ Record(s, "completed")
  /\ reference' = [reference EXCEPT ![work[s].a] = "manual"]
  /\ work' = [work EXCEPT ![s] = NoWork]
  /\ UNCHANGED <<ruled, approved, posted, points, paymentVars, requests>>

Hand(s) ==
  /\ Reads(s, "execute") /\ Unlocked(work[s].a)
  /\ Kind[work[s].a] = "manual"
  /\ Complete(s)

(* execute_action of a credit: a key that is there already fails it, as    *)
(* does a loyalty program that is not active.                              *)
Credit(s) ==
  LET a == work[s].a IN
  /\ Reads(s, "execute") /\ Unlocked(a)
  /\ Kind[a] = "credit"
  /\ \/ /\ <<a, "credit">> \notin posted
        /\ posted' = posted \union {<<a, "credit">>}
        /\ points' = points + Points
        /\ reference' = [reference EXCEPT ![a] = "entry"]
        /\ Record(s, "completed")
     \/ /\ Record(s, "failed")
        /\ UNCHANGED <<posted, points, reference>>
  /\ work' = [work EXCEPT ![s] = NoWork]
  /\ UNCHANGED <<ruled, approved, paymentVars, requests>>

(* _execute_order_adjustment: the last payment that is paid.               *)
Pick(s) ==
  LET a    == work[s].a
      paid == {p \in Payments : payment[p] = "paid"}
      last == CHOOSE p \in paid : \A q \in paid : q <= p IN
  /\ Reads(s, "execute") /\ Unlocked(a)
  /\ Kind[a] = "refund"
  /\ IF paid = {} THEN Complete(s)
     ELSE /\ work' = [work EXCEPT ![s] =
               [op |-> "execute", stage |-> "picked", a |-> a, seen |-> work[s].seen,
                p |-> last, was |-> "paid", to |-> "refunded", order |-> payStatus]]
          /\ UNCHANGED <<actionVars, paymentVars, requests>>

(* reverse_action: only an entry of the ledger is taken back, and only     *)
(* once, from points that are still there.                                 *)
ReverseAction(s) ==
  LET a == work[s].a IN
  /\ Reads(s, "reverse") /\ Unlocked(a)
  /\ IF work[s].ref = "entry"
     THEN /\ <<a, "reverse">> \notin posted /\ points >= Points
          /\ posted' = posted \union {<<a, "reverse">>}
          /\ points' = points - Points
     ELSE UNCHANGED <<posted, points>>
  /\ Record(s, "reversed")
  /\ work' = [work EXCEPT ![s] = NoWork]
  /\ UNCHANGED <<ruled, approved, reference, paymentVars, requests>>

(* The guest redeems points.                                               *)
Spend ==
  /\ points >= Points
  /\ points' = points - Points
  /\ UNCHANGED <<status, ruled, approved, reference, posted, raced, paymentVars,
                 work, requests>>

-----------------------------------------------------------------------------
(* add_payment, and update_payment_status by staff, with what they loaded. *)
BeginPayment(s, p, to) ==
  /\ work[s] = NoWork /\ requests < MaxRequests
  /\ payment[p] = "none" =>
       /\ \A q \in Payments : q > p => payment[q] = "none"
       /\ \A t \in RecoverySessions : work[t].op = "staff" => work[t].p < p
  /\ work' = [work EXCEPT ![s] =
       [op |-> "staff", stage |-> "picked", p |-> p, was |-> payment[p], to |-> to,
        order |-> payStatus]]
  /\ requests' = requests + 1
  /\ UNCHANGED <<actionVars, paymentVars>>

(* Mutant: the order is left as it is.                                     *)
NewStatusForgotten(s) == work[s].order

(* The status of the order is computed with the payment's row written and  *)
(* the other payments as they are committed now.                           *)
NewStatus(s) == Recomputed([payment EXCEPT ![work[s].p] = work[s].to])

Compute(s) ==
  /\ work[s].stage = "picked"
  /\ \A t \in RecoverySessions : work[t].stage = "computed" => work[t].p # work[s].p
  /\ work' = [work EXCEPT ![s] =
       [x \in DOMAIN work[s] \union {"new", "others"} |->
          CASE x = "stage"  -> "computed"
            [] x = "new"    -> NewStatus(s)
            [] x = "others" -> payment
            [] OTHER        -> work[s][x]]]
  /\ UNCHANGED <<actionVars, paymentVars, requests>>

(* The commit writes the columns that differ from what was loaded.         *)
Commit(s) ==
  LET w == work[s] IN
  /\ w.stage = "computed"
  /\ payment' = IF w.to = w.was THEN payment ELSE [payment EXCEPT ![w.p] = w.to]
  /\ payStatus' = IF w.new = w.order THEN payStatus ELSE w.new
  /\ contested' = IF payment[w.p] # w.was \/ (w.op = "staff" /\ w.was = "refunded")
                  THEN contested \union {w.p} ELSE contested
  /\ mixed' = (payment # w.others \/ payment[w.p] # w.was \/ payStatus # w.order)
  /\ IF w.op = "execute"
     THEN /\ Record(s, "completed")
          /\ reference' = [reference EXCEPT ![w.a] = "payment"]
          /\ refunds' = refunds \union {<<w.a, w.p>>}
          /\ UNCHANGED <<ruled, approved, posted, points>>
     ELSE UNCHANGED <<actionVars, refunds>>
  /\ work' = [work EXCEPT ![s] = NoWork]
  /\ UNCHANGED requests

(* An error, a refused reversal, a lost connection.                        *)
RollBackWork(s) ==
  /\ work[s] # NoWork
  /\ work' = [work EXCEPT ![s] = NoWork]
  /\ UNCHANGED <<actionVars, paymentVars, requests>>

RecoveryNext ==
  \/ \E a \in Actions, rule \in BOOLEAN : Propose(a, rule)
  \/ \E s \in RecoverySessions :
       \/ \E a \in Actions, op \in {"approve", "reject", "execute", "reverse"} :
            Begin(s, op, a)
       \/ \E p \in Payments, to \in StaffStatuses : BeginPayment(s, p, to)
       \/ Approve(s) \/ Reject(s)
       \/ Hand(s) \/ Credit(s) \/ Pick(s) \/ ReverseAction(s)
       \/ Compute(s) \/ Commit(s) \/ RollBackWork(s)
  \/ Spend

RecoverySpec == RecoveryInit /\ [][RecoveryNext]_recoveryVars

-----------------------------------------------------------------------------
Credited(a) == <<a, "credit">> \in posted

RefundedBy(a) == {p \in Payments : <<a, p>> \in refunds}

(* service_recovery/service.py: a status tells what the guest has got: a   *)
(* credit that counts exactly when the action is completed, a refund only  *)
(* when it was.  Only a status written on an outdated reading may lie, and *)
(* an action a rule applies to gives nothing before someone approved it,   *)
(* however requests overlap.                                               *)
StatusTellsValue ==
  /\ \A a \in Actions \ raced :
       /\ Kind[a] = "credit" =>
            (status[a] = "completed" <=> Credited(a) /\ <<a, "reverse">> \notin posted)
       /\ RefundedBy(a) # {} => status[a] \in {"completed", "reversed"}
  /\ \A a \in ruled \ approved :
       ~Credited(a) /\ RefundedBy(a) = {} /\ status[a] # "completed"

(* An action refunds one payment and a payment is refunded for one action, *)
(* unless two executions, or staff and an execution, overlapped.           *)
RefundsAreDistinct ==
  /\ \A a \in Actions \ raced : Cardinality(RefundedBy(a)) <= 1
  /\ \A p \in Payments \ contested : Cardinality({a \in Actions : <<a, p>> \in refunds}) <= 1

(* orders/service.py: the payment status of the order is the one its       *)
(* payments add up to, unless the last request about one was overtaken.    *)
PaymentStatusFollows == ~mixed => payStatus = Recomputed(payment)
=============================================================================

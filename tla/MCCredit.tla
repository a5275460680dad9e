------------------------------- MODULE MCCredit -------------------------------
(* PointsLedger, and ServiceRecovery with a credit, an apology and two     *)
(* refunds over two payments that make up the total.  Each is explored     *)
(* while the other is at rest: the points a recovery credits are its own   *)
(* view of the account, so the two share no state.                         *)
EXTENDS PointsLedger, ServiceRecovery, TLC

CONSTANTS s1, s2, k1, k2, k3, a1, a2, r1, r2

MCKind == (a1 :> "credit") @@ (a2 :> "manual") @@ [a \in {r1, r2} |-> "refund"]

MCAmount == [p \in Payments |-> 1]

CreditInit == Init /\ RecoveryInit

Unpaid == RecoveryInit /\ \A p \in Payments : payment[p] = "none"

CreditNext ==
  \/ Unpaid /\ Next /\ UNCHANGED recoveryVars
  \/ Init /\ RecoveryNext /\ UNCHANGED vars

CreditSpec == CreditInit /\ [][CreditNext]_<<vars, recoveryVars>>

Symmetry == UNION {Permutations(S) : S \in {Sessions, Keys, {r1, r2}}}
=============================================================================

------------------------------ MODULE GiftCards ------------------------------
(***************************************************************************)
(* One gift card: its row, its ledger (app/gift_cards/ledger.py) and the   *)
(* requests that activate, suspend, redeem, adjust, reverse, cancel and    *)
(* expire it (app/gift_cards/service.py, redemption.py).  Every request    *)
(* but a reversal loads the card first and decides on that copy; the       *)
(* SELECT ... FOR UPDATE of the ledger waits for the row but does not      *)
(* refresh the copy.  The commit writes the columns that differ from the   *)
(* copy.  From the row lock to the commit is one step.                     *)
(***************************************************************************)
EXTENDS Integers, Sequences, Functions

CONSTANTS
  CardSessions,   \* concurrent requests
  Initial,        \* initial_amount_minor
  CardAmounts,    \* amounts of a redemption or an adjustment
  MaxCardEntries  \* bound: ledger entries

ASSUME AmountAssumption ==
  Initial \in Nat \ {0} /\ CardAmounts \subseteq Nat \ {0}

VARIABLES
  cardStatus,   \* gift_cards.status
  cardBalance,  \* gift_cards.current_balance_minor
  cardEntries,  \* gift_card_ledger_entries, in commit order
  cardRequest,  \* what each session is doing, with the card it has loaded
  stale         \* history: some commit was computed on an outdated copy

cardVars == <<cardStatus, cardBalance, cardEntries, cardRequest, stale>>

Statuses == {"draft", "active", "partially_redeemed", "fully_redeemed",
             "expired", "cancelled", "suspended"}
Redeemable  == {"active", "partially_redeemed"}
Frozen      == {"draft", "expired", "cancelled", "suspended"}

Idle == [kind |-> "idle"]

CardEntry(kind, delta, of) == [kind |-> kind, delta |-> delta, of |-> of]

(* issue_card: a draft, with its initial amount as the first entry.        *)
CardInit ==
  /\ cardStatus = "draft"
  /\ cardBalance = Initial
  /\ cardEntries = <<CardEntry("issue", Initial, 0)>>
  /\ cardRequest = [s \in CardSessions |-> Idle]
  /\ stale = FALSE

(* status_for_balance                                                      *)
StatusFor(amount) ==
  IF amount <= 0 THEN "fully_redeemed"
  ELSE IF amount < Initial THEN "partially_redeemed" ELSE "active"

-----------------------------------------------------------------------------
(* A request loads the card and checks its status.                         *)
May(kind) ==
  CASE kind = "activate"  -> cardStatus = "draft"
    [] kind = "suspend"   -> cardStatus \in Redeemable
    [] kind = "reinstate" -> cardStatus = "suspended"
    [] kind = "redeem"    -> cardStatus \in Redeemable
    [] kind = "expire"    -> cardStatus \in Redeemable
    [] kind = "cancel"    -> cardStatus \in Redeemable \union {"draft", "suspended"}
    [] OTHER              -> TRUE

Load(s, kind, amount) ==
  /\ cardRequest[s] = Idle /\ May(kind)
  /\ cardRequest' = [cardRequest EXCEPT ![s] =
                   [kind |-> kind, amount |-> amount,
                    status |-> cardStatus, balance |-> cardBalance]]
  /\ UNCHANGED <<cardStatus, cardBalance, cardEntries, stale>>

(* reverse_entry: any entry that is no reversal and has none yet.          *)
LoadReversal(s, n) ==
  /\ cardRequest[s] = Idle
  /\ n \in DOMAIN cardEntries /\ cardEntries[n].of = 0
  /\ \A m \in DOMAIN cardEntries : cardEntries[m].of # n
  /\ cardRequest' = [cardRequest EXCEPT ![s] = [kind |-> "reverse", of |-> n]]
  /\ UNCHANGED <<cardStatus, cardBalance, cardEntries, stale>>

-----------------------------------------------------------------------------
(* The columns the session's UPDATE names: those it has changed.           *)
Write(s, seen, newStatus, newBalance) ==
  /\ cardStatus'  = IF newStatus # seen.status THEN newStatus ELSE cardStatus
  /\ cardBalance' = IF newBalance # seen.balance THEN newBalance ELSE cardBalance
  /\ cardRequest' = [cardRequest EXCEPT ![s] = Idle]
  /\ stale' = (stale \/ seen.status # cardStatus \/ seen.balance # cardBalance)

Capped(amount) == IF amount > Initial THEN Initial ELSE amount

(* Mutant: a posting writes the new status whatever the card's status is.  *)
StatusAfterThawing(seen, amount) == StatusFor(amount)

(* Mutant: the status is computed before the balance is changed.           *)
StatusAfterTooEarly(seen, amount) ==
  IF seen.status \in Frozen THEN seen.status ELSE StatusFor(seen.balance)

StatusAfter(seen, amount) ==
  IF seen.status \in Frozen THEN seen.status ELSE StatusFor(amount)

(* Mutant: the balance is checked only if something is left.               *)
CoversUnlessEmpty(seen, delta) == seen.balance = 0 \/ seen.balance + delta >= 0

Covers(seen, delta) == seen.balance + delta >= 0

(* post_entry and reverse_entry, on the card as the session sees it.       *)
PostEntry(s, seen, entry) ==
  LET after == Capped(seen.balance + entry.delta) IN
  /\ Covers(seen, entry.delta)
  /\ Len(cardEntries) < MaxCardEntries
  /\ cardEntries' = Append(cardEntries, entry)
  /\ Write(s, seen, StatusAfter(seen, after), after)

(* activate_card, suspend_card, reinstate_card: no lock, no entry.         *)
ChangeStatus(s) ==
  LET c == cardRequest[s] IN
  /\ c.kind \in {"activate", "suspend", "reinstate"}
  /\ Write(s, c, CASE c.kind = "activate"  -> "active"
                   [] c.kind = "suspend"   -> "suspended"
                   [] c.kind = "reinstate" -> StatusFor(c.balance),
           c.balance)
  /\ UNCHANGED cardEntries

Redeem(s) ==
  /\ cardRequest[s].kind = "redeem"
  /\ PostEntry(s, cardRequest[s], CardEntry("redeem", -cardRequest[s].amount, 0))

Adjust(s) ==
  /\ cardRequest[s].kind \in {"credit", "debit"}
  /\ PostEntry(s, cardRequest[s],
       CardEntry("adjust", IF cardRequest[s].kind = "credit"
                           THEN cardRequest[s].amount ELSE -cardRequest[s].amount, 0))

ReverseCardEntry(s) ==
  LET c == cardRequest[s] IN
  /\ c.kind = "reverse"
  /\ PostEntry(s, [status |-> cardStatus, balance |-> cardBalance],
               CardEntry("reverse", -cardEntries[c.of].delta, c.of))

(* Mutant: the key of the closing entry is new every time.                 *)
ClosedBeforeNever(kind) == FALSE

(* The entry's key, gift-card-cancel:{id}, is taken.                       *)
ClosedBefore(kind) == \E n \in DOMAIN cardEntries : cardEntries[n].kind = kind

(* cancel_card, expire_card: what is left is posted away.                  *)
Close(s) ==
  LET c      == cardRequest[s]
      closed == IF c.kind = "cancel" THEN "cancelled" ELSE "expired"
  IN
  /\ c.kind \in {"cancel", "expire"}
  /\ IF c.balance > 0
     THEN /\ ~ClosedBefore(c.kind) /\ Len(cardEntries) < MaxCardEntries
          /\ cardEntries' = Append(cardEntries, CardEntry(c.kind, -c.balance, 0))
     ELSE UNCHANGED cardEntries
  /\ Write(s, c, closed, 0)

(* The ledger refuses, or the request dies: nothing was committed.         *)
RollBackRequest(s) ==
  /\ cardRequest[s] # Idle
  /\ cardRequest' = [cardRequest EXCEPT ![s] = Idle]
  /\ UNCHANGED <<cardStatus, cardBalance, cardEntries, stale>>

-----------------------------------------------------------------------------
CardNext ==
  \E s \in CardSessions :
    \/ \E kind \in {"activate", "suspend", "reinstate", "cancel", "expire"} :
         Load(s, kind, 0)
    \/ \E kind \in {"redeem", "credit", "debit"}, amount \in CardAmounts :
         Load(s, kind, amount)
    \/ \E n \in DOMAIN cardEntries : LoadReversal(s, n)
    \/ ChangeStatus(s) \/ Redeem(s) \/ Adjust(s) \/ ReverseCardEntry(s) \/ Close(s)
    \/ RollBackRequest(s)

CardSpec == CardInit /\ [][CardNext]_cardVars

-----------------------------------------------------------------------------
(* Properties                                                              *)

(* The row keeps to its CHECK constraints: a status the schema lists and a *)
(* balance between nothing and the initial amount.                         *)
CardTypeOK ==
  /\ cardStatus \in Statuses
  /\ cardBalance \in 0 .. Initial
  /\ \A n \in DOMAIN cardEntries : cardEntries[n].of \in 0 .. n - 1

Net == SumFunction([n \in DOMAIN cardEntries |-> cardEntries[n].delta])

(* GROWTH_AND_INTELLIGENCE.md 9.5: no more value leaves a card than was    *)
(* put on it; "two concurrent redemption attempts cannot both succeed      *)
(* against the same remaining balance".  They can, but an outdated copy is *)
(* the only way to it: as long as every commit was computed on the row as  *)
(* it stood, no mix of redemptions, corrections, reversals and closings,   *)
(* overlapping or not, pays out too much.                                  *)
OverspendOnlyIfStale == stale \/ Net >= 0

(* Likewise the status tells what is left, after any sequence of postings, *)
(* suspensions and reinstatements.                                         *)
StatusTellsBalance ==
  ~stale => /\ cardStatus = "fully_redeemed" => cardBalance = 0
            /\ cardStatus = "partially_redeemed" => cardBalance \in 1 .. Initial - 1

(* Likewise no sequence of requests brings a closed card back.             *)
ClosedIsFinal ==
  [][cardStatus' # cardStatus /\ ~stale' =>
       cardStatus \notin {"cancelled", "expired"}]_cardVars

(* However cancellations and expiries overlap, and whatever they read,     *)
(* what is left on the card is posted away at most once by each.           *)
ClosedOnce ==
  \A m, n \in DOMAIN cardEntries :
    cardEntries[m].kind \in {"cancel", "expire"}
      /\ cardEntries[m].kind = cardEntries[n].kind => m = n
=============================================================================

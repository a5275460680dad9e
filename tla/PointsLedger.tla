---------------------------- MODULE PointsLedger ----------------------------
(***************************************************************************)
(* One loyalty account: its points_balance row, its append-only ledger     *)
(* entries (app/loyalty/ledger.py) and the requests and sweeps that post   *)
(* to it.  A caller reads first, in its own transaction: whether its key   *)
(* is taken, the entry it reverses, the lots that are due and, for some    *)
(* callers, the account itself.  Then it takes the account's row lock,     *)
(* which it holds until it commits, so lock, write and commit are one      *)
(* step.  The SELECT ... FOR UPDATE does not refresh an account the        *)
(* session has loaded before: such a caller computes on its old copy.      *)
(***************************************************************************)
EXTENDS Integers, FiniteSets, Sequences, SequencesExt

CONSTANTS
  Sessions,    \* concurrent database sessions
  Calls,       \* the kinds of callers that take part
  Keys,        \* idempotency keys of requests
  Amounts,     \* magnitudes of points
  MaxEntries   \* bound: ledger entries

ASSUME CallsAssumption ==
  Calls \subseteq {"earn", "earn_order", "achievement_reward", "referral_reward",
                   "service_recovery_credit", "redeem", "correct", "reverse", "expire"}
ASSUME AmountsAssumption == Amounts \subseteq Nat \ {0}
ASSUME BoundAssumption == MaxEntries \in Nat

VARIABLES
  balance,   \* loyalty_accounts.points_balance
  entries,   \* loyalty_ledger_entries, in commit order
  due,       \* entries whose expiry_at has passed
  call       \* what each session has read so far

vars == <<balance, entries, due, call>>

None == -1
NoCall == [kind |-> "none"]

(* The callers that find the account with enroll(), which loads it: an     *)
(* order's completion, the two rewards and service recovery's credit.      *)
Enrolling == {"earn_order", "achievement_reward", "referral_reward",
              "service_recovery_credit"}

(* Mutant: redeem looks at the account before it posts, say for its status. *)
PreloadingRedeemer == Enrolling \union {"expire", "redeem"}

(* Whose session holds the account before post_entry locks it: theirs, and *)
(* the expiry sweep's, which gets the account to see what is left on it.   *)
Preloading == Enrolling \union {"expire"}

(* The entry types with a negative sign.                                   *)
Debits == {"redeem", "correct"}

(* Earned points may expire where the programme lets them.                 *)
Expiries == IF "expire" \in Calls THEN BOOLEAN ELSE {FALSE}

-----------------------------------------------------------------------------
Init ==
  /\ balance = 0
  /\ entries = <<>>
  /\ due = {}
  /\ call = [s \in Sessions |-> NoCall]

(* find_by_idempotency_key, and the unique index on the column.            *)
KeyUsed(k) == \E n \in DOMAIN entries : entries[n].key = k

ExpiryKey(n) == <<"loyalty-expire", n>>

LotsDue == {n \in due : entries[n].lot > 0}

-----------------------------------------------------------------------------
(* The reads a caller makes before it takes the lock.                      *)
Copy(kind) == IF kind \in Preloading THEN balance ELSE None

BeginPost(s, kind, points, k) ==
  /\ call[s] = NoCall /\ kind \in Calls \ {"reverse", "expire"}
  /\ ~KeyUsed(k)
  /\ call' = [call EXCEPT ![s] =
                [kind |-> kind, points |-> points, key |-> k,
                 copy |-> Copy(kind)]]
  /\ UNCHANGED <<balance, entries, due>>

(* reverse: the original entry is read with its reversed_by_id.            *)
BeginReverse(s, n, k) ==
  /\ call[s] = NoCall /\ "reverse" \in Calls
  /\ n \in DOMAIN entries /\ ~entries[n].reversed
  /\ ~KeyUsed(k)
  /\ call' = [call EXCEPT ![s] =
                [kind |-> "reverse", original |-> n, key |-> k]]
  /\ UNCHANGED <<balance, entries, due>>

(* expire_due_points: the lots past their expiry and the account.          *)
BeginExpire(s) ==
  /\ call[s] = NoCall /\ "expire" \in Calls
  /\ LotsDue # {}
  /\ call' = [call EXCEPT ![s] =
                [kind |-> "expire",
                 lots |-> [n \in LotsDue |-> entries[n].lot],
                 copy |-> Copy("expire")]]
  /\ UNCHANGED <<balance, entries, due>>

(* expiry_at passes.                                                       *)
FallDue(n) ==
  /\ n \in DOMAIN entries /\ entries[n].lot > 0 /\ n \notin due
  /\ due' = due \union {n}
  /\ UNCHANGED <<balance, entries, call>>

-----------------------------------------------------------------------------
Entry(type, k, delta, after, lot, of) ==
  [type |-> type, key |-> k, delta |-> delta, after |-> after,
   lot |-> lot, of |-> of, reversed |-> FALSE]

End(s) == call' = [call EXCEPT ![s] = NoCall]

(* The account as the session sees it once it has the lock.                *)
Seen(s) == IF call[s].kind \in Preloading THEN call[s].copy ELSE balance

(* Mutant: the unique index is trusted to the read before the lock.        *)
FreshUnchecked(k) == TRUE

(* The unique index refuses an entry whose key was committed meanwhile.    *)
Fresh(k) == ~KeyUsed(k)

(* post_entry: what POST .../earn posts may carry an expiry_at, which      *)
(* makes it a lot; no other caller passes one.                             *)
Post(s, expires) ==
  LET c     == call[s]
      delta == IF c.kind \in Debits THEN -c.points ELSE c.points
      lot   == IF expires THEN c.points ELSE 0
      after == Seen(s) + delta
  IN
  /\ c # NoCall /\ c.kind \notin {"reverse", "expire"}
  /\ expires => c.kind = "earn"
  /\ after >= 0 /\ Fresh(c.key) /\ Len(entries) < MaxEntries
  /\ balance' = after
  /\ entries' = Append(entries, Entry(c.kind, c.key, delta, after, lot, 0))
  /\ End(s)
  /\ UNCHANGED due

(* reverse_entry: the compensating entry, and the pointer on the original. *)
ReverseEntry(s) ==
  LET c     == call[s]
      delta == -entries[c.original].delta
      after == Seen(s) + delta
  IN
  /\ c # NoCall /\ c.kind = "reverse"
  /\ after >= 0 /\ Fresh(c.key) /\ Len(entries) < MaxEntries
  /\ balance' = after
  /\ entries' = Append([entries EXCEPT ![c.original].reversed = TRUE],
                       Entry(c.kind, c.key, delta, after, 0, c.original))
  /\ End(s)
  /\ UNCHANGED due

(* Mutant: a sweep that takes the whole lot, whatever is left of it.       *)
DueOfWholeLot(lot, left) == lot

(* expire_due_points: never more than the account is thought to hold.      *)
DueOf(lot, left) == IF lot <= left THEN lot ELSE left

(* post_entry for one lot, on the balance the lots before it left.         *)
SweepLot(acc, n, lot) ==
  LET points == DueOf(lot, acc.left) IN
  IF points = 0 THEN acc
  ELSE [left   |-> acc.left - points,
        posted |-> Append(acc.posted,
                     Entry("expire", ExpiryKey(n), -points, acc.left - points, 0, 0))]

Swept(s, order) ==
  LET swept[n \in 0 .. Len(order)] ==
        IF n = 0 THEN [left |-> Seen(s), posted |-> <<>>]
        ELSE SweepLot(swept[n - 1], order[n], call[s].lots[order[n]])
  IN swept[Len(order)]

(* The sweep's postings in one transaction, lot by lot in the order, which *)
(* the query does not fix, that the lots came in.                          *)
Sweep(s) ==
  LET c == call[s]
      emptied == [n \in DOMAIN entries |->
                    IF n \in DOMAIN c.lots
                    THEN [entries[n] EXCEPT !.lot = 0] ELSE entries[n]]
  IN
  /\ c # NoCall /\ c.kind = "expire"
  /\ \E order \in SetToSeqs(DOMAIN c.lots) :
       LET swept == Swept(s, order) IN
       /\ Len(entries) + Len(swept.posted) <= MaxEntries
       /\ \A n \in DOMAIN swept.posted : Fresh(swept.posted[n].key)
       /\ balance' = IF swept.posted = <<>> THEN balance ELSE swept.left
       /\ entries' = emptied \o swept.posted
  /\ End(s)
  /\ UNCHANGED due

(* InsufficientPointsError, a duplicate key, a crash, a lost connection:   *)
(* the transaction rolls back.                                             *)
RollBack(s) ==
  /\ call[s] # NoCall
  /\ End(s)
  /\ UNCHANGED <<balance, entries, due>>

-----------------------------------------------------------------------------
Next ==
  \/ \E s \in Sessions :
       \/ \E kind \in Calls, points \in Amounts, k \in Keys :
            BeginPost(s, kind, points, k)
       \/ \E n \in DOMAIN entries, k \in Keys : BeginReverse(s, n, k)
       \/ BeginExpire(s)
       \/ \E expires \in Expiries : Post(s, expires)
       \/ ReverseEntry(s) \/ Sweep(s) \/ RollBack(s)
  \/ \E n \in DOMAIN entries : FallDue(n)

Spec == Init /\ [][Next]_vars

-----------------------------------------------------------------------------
(* Properties                                                              *)

EntryType == [type : Calls, key : Keys \union ({"loyalty-expire"} \X Nat), delta : Int,
              after : Nat, lot : Nat, of : Nat, reversed : BOOLEAN]
CallOK(c) ==
  \/ c = NoCall
  \/ c \in [kind : Calls \ {"reverse", "expire"}, points : Amounts,
            key : Keys, copy : Nat \union {None}]
  \/ /\ "reverse" \in Calls
     /\ c \in [kind : {"reverse"}, original : DOMAIN entries, key : Keys]
  \/ /\ "expire" \in Calls
     /\ c = [kind |-> "expire", lots |-> c.lots, copy |-> c.copy]
     /\ DOMAIN c.lots \subseteq due /\ c.copy \in Nat
     /\ \A n \in DOMAIN c.lots : c.lots[n] \in Nat

(* Amounts, pointers and copies stay in range, and the balance is never    *)
(* negative (the CHECK constraint of the table).                           *)
TypeOK ==
  /\ balance \in Nat
  /\ entries \in Seq(EntryType)
  /\ due \subseteq DOMAIN entries
  /\ DOMAIN call = Sessions /\ \A s \in Sessions : CallOK(call[s])

(* The entries of callers known to hold the account before they lock it.   *)
Blind == Enrolling \union {"expire"}

Postings ==
  [n \in DOMAIN entries |-> [key |-> entries[n].key,
                             delta |-> entries[n].delta,
                             after |-> entries[n].after,
                             blind |-> entries[n].type \in Blind]]

Ledger == INSTANCE Account WITH funds <- balance, postings <- Postings

(* "Two concurrent transactions touching the same account serialize rather *)
(* than losing one of the two deltas" (the docstring of loyalty/ledger.py). *)
(* They do where both callers come to the lock without the account: staff's *)
(* own postings and reversals act as if they came one at a time.  What an  *)
(* order, a reward, a recovery or a sweep posts builds on the balance that *)
(* some earlier transaction left, and may lose the delta of a later one;   *)
(* in any order and overlap no key is posted twice and none goes below     *)
(* zero.                                                                   *)
Serializes == Ledger!Spec

(* No lot expires twice and never for more points than it was earned with, *)
(* however many sweeps overlap and whatever they read.                     *)
LotExpiresOnce ==
  \A m, n \in DOMAIN entries :
    entries[n].type = "expire" /\ entries[n].key = ExpiryKey(m) =>
      /\ -entries[n].delta <= entries[m].delta
      /\ \A k \in DOMAIN entries : entries[k].key = ExpiryKey(m) => k = n
=============================================================================

------------------------------- MODULE Account -------------------------------
(***************************************************************************)
(* What a balance ledger of the CRM does for its callers, however they     *)
(* overlap: postings take effect one transaction at a time, each on the    *)
(* balance the one before it left, under a key that is used once, and      *)
(* never below zero (the module docstrings of app/loyalty/ledger.py,       *)
(* app/gift_cards/ledger.py and app/customer_credit/ledger.py).  A blind   *)
(* posting, by a caller that reads the balance before the row is locked,   *)
(* is weaker: it builds on the balance some earlier posting left.          *)
(***************************************************************************)
EXTENDS Integers, Sequences

VARIABLES
  funds,     \* the balance
  postings   \* the ledger: records of a key, a signed delta, the balance
             \* after it, and whether the posting was blind

After(p, n) == IF n = 0 THEN 0 ELSE p[n].after

KeysAreFresh(p) == \A m, n \in DOMAIN p : p[m].key = p[n].key => m = n

BuildsOn(p, n, m) == p[n].after = After(p, m) + p[n].delta

Reconciles(p) ==
  \A n \in DOMAIN p :
    /\ p[n].after >= 0
    /\ IF p[n].blind THEN \E m \in 0 .. n - 1 : BuildsOn(p, n, m)
                     ELSE BuildsOn(p, n, n - 1)

Init == funds = 0 /\ postings = <<>>

(* A transaction appends one posting, or a sweep several, and changes none. *)
Post ==
  /\ Len(postings') > Len(postings)
  /\ \A n \in DOMAIN postings : postings'[n] = postings[n]
  /\ KeysAreFresh(postings') /\ Reconciles(postings')
  /\ funds' = After(postings', Len(postings'))

Spec == Init /\ [][Post]_<<funds, postings>>
=============================================================================

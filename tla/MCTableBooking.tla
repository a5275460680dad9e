--------------------------- MODULE MCTableBooking ---------------------------
(* TableBooking with two tables and an evening that runs past midnight.    *)
EXTENDS TableBooking, TLC

CONSTANTS s1, a, b, t1, t2

(* Two windows that overlap, and one that begins the next date within the  *)
(* second.                                                                 *)
MCWindows == {[from |-> 18, to |-> 21], [from |-> 20, to |-> 26],
              [from |-> 25, to |-> 27]}

MCOpen == {w \in MCWindows : w.from < 24}

MCSeats == [r \in Reservations |-> IF r = a THEN Tables ELSE {t1}]

(* One reservation is confirmed; the other is too, or has yet to be, or    *)
(* has yet to be made.                                                     *)
MCExisting == {(a :> x) @@ (b :> "confirmed") : x \in {"none", "pending_review", "confirmed"}}

MCHeld == {<<b, t1>>}
=============================================================================

---------------------------- MODULE MCStockLedger ----------------------------
(* StockLedger with one receipt, one transfer and one count of the item.   *)
EXTENDS StockLedger, TLC

CONSTANTS s1, s2, b, r, t, k

MCCodeOf == [x \in Receipts |-> b]

(* A unit is wasted or written off, or found and added.                    *)
MCDeltas == {-1, 1}

Symmetry == Permutations(Sessions)
=============================================================================

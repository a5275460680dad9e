----------------------------- MODULE MCGiftCards -----------------------------
(* GiftCards with interchangeable sessions.                                *)
EXTENDS GiftCards, TLC

CONSTANTS s1, s2

Symmetry == Permutations(CardSessions)
=============================================================================

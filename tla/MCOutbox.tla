------------------------------ MODULE MCOutbox ------------------------------
(* OutboxDispatcher with interchangeable workers and requests.             *)
EXTENDS OutboxDispatcher, TLC

CONSTANTS w1, w2, r1, r2

Symmetry == Permutations(Workers) \union Permutations(Requests)
=============================================================================

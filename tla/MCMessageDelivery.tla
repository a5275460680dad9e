-------------------------- MODULE MCMessageDelivery --------------------------
(* MessageDelivery with two webhook requests served at once.               *)
EXTENDS MessageDelivery

CONSTANTS h1, h2
=============================================================================

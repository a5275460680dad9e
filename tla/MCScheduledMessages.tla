------------------------- MODULE MCScheduledMessages -------------------------
(* ScheduledMessages with two invocations of the job.                      *)
EXTENDS ScheduledMessages

CONSTANTS w1, w2
=============================================================================

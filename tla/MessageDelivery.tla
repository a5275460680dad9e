--------------------------- MODULE MessageDelivery ---------------------------
(***************************************************************************)
(* What becomes of an outbound message after send_message has handed it    *)
(* to the provider: the status webhooks (app/communications/webhooks.py)   *)
(* and the job that puts failed messages back to queued                    *)
(* (scheduling.py).  The provider reports on a message in order, but its   *)
(* webhooks arrive in any order, more than once, and possibly before the   *)
(* request that sends the message has committed it.  A webhook is          *)
(* consumed by its unique event id, whether it changes the message or not. *)
(* The message is read without a lock; the retry job only touches messages *)
(* that have no provider id, which no webhook finds, so it is one step.    *)
(***************************************************************************)
EXTENDS Integers, Sequences, FiniteSets

CONSTANTS
  Last,         \* the messages, in the order of created_at: 1 .. Last
  Handlers,     \* webhook requests that may be served at once
  BatchSize,    \* batch_size of retry_all_failed_messages
  MaxAttempts   \* _MAX_ATTEMPTS

Messages == 1 .. Last

ASSUME DeliveryAssumption ==
  Last \in Nat /\ {BatchSize, MaxAttempts} \subseteq Nat \ {0}

VARIABLES
  stage,      \* new, handed over but not committed, recorded, lost, closed
  status,     \* messages.delivery_status; "none" while there is no such row
  retryable,  \* messages whose last delivery attempt is marked retryable
  retries,    \* messages.retry_count
  reports,    \* what the provider has reported of each message, in order
  consumed,   \* provider_status_events: <<message, position in reports>>
  handler,    \* the event each request serves and the status it has read
  late        \* history: messages of which a webhook came out of order

vars == <<stage, status, retryable, retries, reports, consumed, handler, late>>

sending == <<stage, retryable, retries>>

Idle == [event |-> <<0, 0>>, copy |-> "none"]

Init ==
  /\ stage = [m \in Messages |-> "new"]
  /\ status = [m \in Messages |-> "none"]
  /\ retryable = {} /\ retries = [m \in Messages |-> 0]
  /\ reports = [m \in Messages |-> <<>>] /\ consumed = {}
  /\ handler = [h \in Handlers |-> Idle]
  /\ late = {}

-----------------------------------------------------------------------------
(* send_message                                                            *)

(* The customer must not be written to, or the provider refuses: the row   *)
(* goes from draft to its last status in one transaction.                  *)
Close(m, final) ==
  /\ stage[m] = "new"
  /\ stage' = [stage EXCEPT ![m] = "closed"]
  /\ status' = [status EXCEPT ![m] = final]
  /\ UNCHANGED <<retries, reports, consumed, handler, late>>

Suppress(m) == Close(m, "suppressed") /\ UNCHANGED retryable
Refuse(m)   == Close(m, "failed") /\ UNCHANGED retryable
TimeOut(m)  == Close(m, "failed") /\ retryable' = retryable \union {m}

(* The provider has the message; its id is in a row not yet committed.     *)
HandOver(m) ==
  /\ stage[m] = "new"
  /\ stage' = [stage EXCEPT ![m] = "handed"]
  /\ UNCHANGED <<status, retryable, retries, reports, consumed, handler, late>>

Record(m) ==
  /\ stage[m] = "handed"
  /\ stage' = [stage EXCEPT ![m] = "recorded"]
  /\ status' = [status EXCEPT ![m] = "sent"]
  /\ UNCHANGED <<retryable, retries, reports, consumed, handler, late>>

(* The request dies: no row will ever carry the provider's id.             *)
Lose(m) ==
  /\ stage[m] = "handed"
  /\ stage' = [stage EXCEPT ![m] = "lost"]
  /\ UNCHANGED <<status, retryable, retries, reports, consumed, handler, late>>

-----------------------------------------------------------------------------
(* The provider                                                            *)

Following(life) ==
  IF life = <<>> THEN {"accepted"}
  ELSE CASE life[Len(life)] = "accepted"  -> {"sent", "failed"}
         [] life[Len(life)] = "sent"      -> {"delivered", "failed"}
         [] life[Len(life)] = "delivered" -> {"read"}
         [] OTHER                         -> {}

Report(m) ==
  /\ stage[m] \in {"handed", "recorded", "lost"}
  /\ \E s \in Following(reports[m]) :
       reports' = [reports EXCEPT ![m] = Append(@, s)]
  /\ UNCHANGED <<sending, status, consumed, handler, late>>

Events == UNION {{m} \X DOMAIN reports[m] : m \in Messages}

-----------------------------------------------------------------------------
(* process_status_webhook                                                  *)

(* Mutant: the event id is not unique.                                     *)
UnseenAlways(e) == TRUE

(* The insert finds no event of this id.                                   *)
Unseen(e) == e \notin consumed

OutOfOrder(m, i) ==
  status[m] = "none" \/ \E j \in 1 .. i - 1 : <<m, j>> \notin consumed

(* The event is inserted, which a second request with it waits for, and    *)
(* the message looked up by the provider's id.                             *)
Receive(h, e) ==
  /\ handler[h] = Idle /\ Unseen(e)
  /\ \A g \in Handlers : handler[g].event # e
  /\ handler' = [handler EXCEPT ![h] = [event |-> e, copy |-> status[e[1]]]]
  /\ late' = IF OutOfOrder(e[1], e[2]) THEN late \union {e[1]} ELSE late
  /\ UNCHANGED <<sending, status, reports, consumed>>

(* _PROVIDER_STATUS_TO_MESSAGE_STATUS; "rejected" and "undeliverable" are  *)
(* "failed" already here.                                                  *)
Normalized(report) == IF report = "accepted" THEN "queued" ELSE report

(* Mutant: every other status is accepted.                                 *)
AllowedAny(current, target) == current # "none" /\ current # target

(* OUTBOUND_MESSAGE_TRANSITIONS, and a message that is not found.          *)
Allowed(current, target) ==
  <<current, target>> \in
    {"draft"} \X {"queued", "cancelled"}
    \union {"queued"} \X {"processing", "cancelled", "suppressed"}
    \union {"processing"} \X {"sent", "failed"}
    \union {"sent"} \X {"delivered", "failed"}
    \union {<<"delivered", "read">>, <<"failed", "queued">>}

Apply(h) ==
  LET e == handler[h].event
      target == Normalized(reports[e[1]][e[2]]) IN
  /\ handler[h] # Idle
  /\ status' = IF Allowed(handler[h].copy, target)
               THEN [status EXCEPT ![e[1]] = target] ELSE status
  /\ consumed' = consumed \union {e}
  /\ handler' = [handler EXCEPT ![h] = Idle]
  /\ UNCHANGED <<sending, reports, late>>

(* The request dies, and the provider sends its event again.               *)
Drop(h) ==
  /\ handler[h] # Idle
  /\ handler' = [handler EXCEPT ![h] = Idle]
  /\ UNCHANGED <<sending, status, reports, consumed, late>>

-----------------------------------------------------------------------------
(* retry_all_failed_messages                                               *)

Candidates == {m \in Messages : status[m] = "failed" /\ retries[m] < MaxAttempts}

(* Mutant: the newest candidates come first.                               *)
BatchNewest == {m \in Candidates :
                  Cardinality({n \in Candidates : n > m}) < BatchSize}

Batch == {m \in Candidates :
            Cardinality({n \in Candidates : n < m}) < BatchSize}

RetryFailed ==
  LET retried == Batch \intersect retryable IN
  /\ retried # {}
  /\ status' = [m \in Messages |-> IF m \in retried THEN "queued" ELSE status[m]]
  /\ retries' = [m \in Messages |->
                   IF m \in retried THEN retries[m] + 1 ELSE retries[m]]
  /\ UNCHANGED <<stage, retryable, reports, consumed, handler, late>>

-----------------------------------------------------------------------------
Next ==
  \/ \E m \in Messages : \/ Suppress(m) \/ Refuse(m) \/ TimeOut(m)
                         \/ HandOver(m) \/ Record(m) \/ Lose(m) \/ Report(m)
  \/ \E h \in Handlers : (\E e \in Events : Receive(h, e)) \/ Apply(h) \/ Drop(h)
  \/ RetryFailed

(* The retry job runs every ten minutes.                                   *)
Spec == Init /\ [][Next]_vars /\ WF_vars(RetryFailed)

-----------------------------------------------------------------------------
(* Properties                                                              *)

Statuses == {"none", "queued", "sent", "delivered", "read", "failed", "suppressed"}

(* Rows, reports and requests keep their shape, and what is consumed has   *)
(* been reported.                                                          *)
TypeOK ==
  /\ stage \in [Messages -> {"new", "handed", "recorded", "lost", "closed"}]
  /\ status \in [Messages -> Statuses]
  /\ retryable \subseteq Messages /\ late \subseteq Messages
  /\ retries \in [Messages -> 0 .. MaxAttempts]
  /\ reports \in [Messages -> Seq(Statuses \union {"accepted"})]
  /\ consumed \subseteq Events
  /\ handler \in [Handlers -> [event : Nat \X Nat, copy : Statuses]]

(* The reports on m that have been consumed, when none came out of order.  *)
Known(m) == Cardinality({e \in consumed : e[1] = m})

(* webhooks.py, process_status_webhook: an event is consumed once and for  *)
(* all.  Whatever is sent again, dropped or served at the same time, a     *)
(* message has the status the provider last told of, unless a webhook on   *)
(* it overtook an earlier one or the commit of the message itself.         *)
StatusIsWhatWasTold ==
  \A m \in Messages : stage[m] = "recorded" /\ m \notin late =>
    LET told == SubSeq(reports[m], 1, Known(m)) IN
    status[m] = IF Known(m) = 0 \/ told[Known(m)] \in {"accepted", "sent"}
                THEN "sent" ELSE told[Known(m)]

(* states.py: the transitions are "the 'no regression' guarantee".  A      *)
(* receipt is never taken back, in whatever order webhooks come, and a     *)
(* permanent failure is put back to queued only by a late acceptance.      *)
NoRegression ==
  [][\A m \in Messages :
       /\ status[m] = "delivered" => status'[m] \in {"delivered", "read"}
       /\ status[m] = "read" => status'[m] = "read"
       /\ status[m] = "failed" /\ m \notin retryable \union late
            => status'[m] = "failed"]_vars

(* A batch full of older messages that have failed for good.               *)
Crowded(m) ==
  Cardinality({n \in 1 .. m - 1 : status[n] = "failed" /\ n \notin retryable})
    >= BatchSize

(* scheduling.py, retry_all_failed_messages: a message that failed for a   *)
(* passing reason is put back to queued, unless permanent failures, which  *)
(* stay candidates for ever, fill the batch before it.                     *)
RetriedUnlessCrowded ==
  \A m \in Messages :
    (status[m] = "failed" /\ m \in retryable) ~> (status[m] = "queued" \/ Crowded(m))
=============================================================================

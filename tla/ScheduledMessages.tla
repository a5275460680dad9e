-------------------------- MODULE ScheduledMessages --------------------------
(***************************************************************************)
(* The scheduled messages and the batches that send them                   *)
(* (app/communications/scheduling.py).  A batch reads the due rows without *)
(* a lock, then takes them one after the other: the first write to a row   *)
(* locks it until the batch, a single transaction, commits.  A message is  *)
(* inserted under a unique key before it is handed to the provider, so the *)
(* key is free to be used again when the transaction is rolled back, and   *)
(* the provider has the message all the same.  Nothing can happen to a row *)
(* between its lock and its outcome, so that is one step.                  *)
(***************************************************************************)
EXTENDS Integers, FiniteSetsExt

CONSTANTS
  LastScheduled, \* the messages, in the order of scheduled_for: 1 .. LastScheduled
  Workers,       \* invocations of the job, which may overlap
  ScheduleBatch, \* batch_size
  MaxSends,      \* _MAX_ATTEMPTS
  MaxAborts      \* bound: batches that crash, time out or lose the database

Scheduled == 1 .. LastScheduled

ASSUME ScheduleAssumption ==
  /\ LastScheduled \in Nat /\ MaxAborts \in Nat
  /\ ScheduleBatch \in Nat \ {0} /\ MaxSends \in Nat \ {0}

VARIABLES
  now,        \* the messages up to this one are due
  row,        \* scheduled_messages: status and attempt_count
  keys,       \* idempotency keys of the committed messages
  batch,      \* what each invocation has read and done
  aborts,
  delivered,  \* history: messages the provider has accepted
  twice,      \* history: those it has accepted more than once
  undone,     \* history: those it accepted from a batch that did not commit
  raised,     \* history: those of which an attempt has raised
  overlapped  \* history: two batches were under way at once

scheduleVars == <<now, row, keys, batch, aborts,
                  delivered, twice, undone, raised, overlapped>>

history == <<delivered, twice, undone, raised, overlapped>>

Nothing == [m \in {} |-> 0]
NoBatch == [seen |-> Nothing, done |-> Nothing]

ScheduleInit ==
  /\ now = 0
  /\ row = [m \in Scheduled |-> [status |-> "scheduled", attempts |-> 0]]
  /\ keys = {} /\ aborts = 0
  /\ batch = [w \in Workers |-> NoBatch]
  /\ delivered = {} /\ twice = {} /\ undone = {} /\ raised = {}
  /\ overlapped = FALSE

-----------------------------------------------------------------------------
BecomeDue ==
  /\ now < LastScheduled
  /\ now' = now + 1
  /\ UNCHANGED <<row, keys, batch, aborts, history>>

(* The due rows; processing_locked_at is NULL in every committed row.      *)
Due == {m \in 1 .. now : row[m].status = "scheduled"}

(* The first of them, up to a batch, with the attempts each has had.       *)
Select(w) ==
  LET chosen == {m \in Due : Cardinality({n \in Due : n < m}) < ScheduleBatch} IN
  /\ batch[w] = NoBatch /\ chosen # {}
  /\ batch' = [batch EXCEPT ![w].seen = [m \in chosen |-> row[m].attempts]]
  /\ overlapped' = (overlapped \/ \E v \in Workers : batch[v] # NoBatch)
  /\ UNCHANGED <<now, row, keys, aborts, delivered, twice, undone, raised>>

(* The rows a batch has written, and so locked.                            *)
Held(w) == DOMAIN batch[w].done
Todo(w) == DOMAIN batch[w].seen \ Held(w)

(* The row a batch is to take next, once no other batch has it.            *)
Turn(w) == Min(Todo(w))
MayTake(w) ==
  /\ Todo(w) # {}
  /\ \A v \in Workers \ {w} : Turn(w) \notin Held(v)

(* scheduled:{id}:{attempt_count}, on the attempts the batch has read.     *)
Attempt(w) == batch[w].seen[Turn(w)] + 1

(* Mutant: the key of a message is not unique.                             *)
TakenNever(m, n) == FALSE

Taken(m, n) == <<m, n>> \in keys

Finish(w, status, sends) ==
  LET outcome == [status |-> status, attempts |-> Attempt(w), sends |-> sends] IN
  batch' = [batch EXCEPT ![w].done =
              [m \in Held(w) \union {Turn(w)} |-> IF m = Turn(w) THEN outcome ELSE @[m]]]

(* The provider accepts the message, or fails after accepting it.          *)
Deliver(w) ==
  /\ MayTake(w) /\ ~Taken(Turn(w), Attempt(w))
  /\ Finish(w, "sent", TRUE)
  /\ delivered' = delivered \union {Turn(w)}
  /\ twice' = IF Turn(w) \in delivered THEN twice \union {Turn(w)} ELSE twice
  /\ UNCHANGED <<now, row, keys, aborts, undone, raised, overlapped>>

(* The scheduled message is done with; its message says that it failed.    *)
AfterRefusal == "sent"

(* The customer is not to be written to, or the provider refuses.          *)
RefuseSend(w) ==
  /\ MayTake(w) /\ ~Taken(Turn(w), Attempt(w))
  /\ Finish(w, AfterRefusal, TRUE)
  /\ UNCHANGED <<now, row, keys, aborts, history>>

(* Mutant: the status is not put back.                                     *)
AfterErrorStuck(attempts) ==
  IF attempts >= MaxSends THEN "failed" ELSE "processing"

AfterError(attempts) ==
  IF attempts >= MaxSends THEN "failed" ELSE "scheduled"

(* The template does not render: no message is inserted.                   *)
Raise(w) ==
  /\ MayTake(w)
  /\ Finish(w, AfterError(Attempt(w)), FALSE)
  /\ raised' = raised \union {Turn(w)}
  /\ UNCHANGED <<now, row, keys, aborts, delivered, twice, undone, overlapped>>

Commit(w) ==
  LET done == batch[w].done IN
  /\ batch[w] # NoBatch /\ Todo(w) = {}
  /\ row' = [m \in Scheduled |->
               IF m \in Held(w)
               THEN [status |-> done[m].status, attempts |-> done[m].attempts]
               ELSE row[m]]
  /\ keys' = keys \union {<<m, done[m].attempts>> : m \in {n \in Held(w) : done[n].sends}}
  /\ batch' = [batch EXCEPT ![w] = NoBatch]
  /\ UNCHANGED <<now, aborts, history>>

(* Everything the batch has written is undone; what it has sent is not.    *)
RollBack(w) ==
  /\ batch' = [batch EXCEPT ![w] = NoBatch]
  /\ undone' = undone \union (Held(w) \intersect delivered)
  /\ UNCHANGED <<now, row, keys, delivered, twice, raised, overlapped>>

(* The key is taken: the failed INSERT leaves nothing to commit.           *)
Conflict(w) ==
  /\ MayTake(w) /\ Taken(Turn(w), Attempt(w))
  /\ RollBack(w)
  /\ UNCHANGED aborts

Abort(w) ==
  /\ batch[w] # NoBatch /\ aborts < MaxAborts
  /\ aborts' = aborts + 1
  /\ RollBack(w)

(* cancel_scheduled_message: whatever the status, once the row is free.    *)
Cancel(m) ==
  /\ row[m].status # "cancelled"
  /\ \A w \in Workers : m \notin Held(w)
  /\ row' = [row EXCEPT ![m].status = "cancelled"]
  /\ UNCHANGED <<now, keys, batch, aborts, history>>

-----------------------------------------------------------------------------
Work(w) == Deliver(w) \/ RefuseSend(w) \/ Raise(w) \/ Conflict(w) \/ Commit(w)

ScheduleNext ==
  \/ BecomeDue
  \/ \E w \in Workers : Select(w) \/ Work(w) \/ Abort(w)
  \/ \E m \in Scheduled : Cancel(m)

(* Time passes, the cron job runs again, and a batch that is under way     *)
(* goes on until it commits or is rolled back.                             *)
Fairness ==
  /\ WF_scheduleVars(BecomeDue)
  /\ \A w \in Workers : WF_scheduleVars(Select(w)) /\ WF_scheduleVars(Work(w))

ScheduleSpec == ScheduleInit /\ [][ScheduleNext]_scheduleVars /\ Fairness

-----------------------------------------------------------------------------
(* Properties                                                              *)

(* scheduling.py, process_due_scheduled_messages: "two concurrent          *)
(* invocations ... cannot double-send the same scheduled message".  The    *)
(* customer gets a message twice only if a batch died after handing it     *)
(* over, or if batches overlapped on a message one attempt of which had    *)
(* raised, so that they tried it under two keys.  Without overlapping      *)
(* batches a message that was recorded is never due again.                 *)
DeliveredOnce ==
  /\ twice \subseteq undone \union (IF overlapped THEN raised ELSE {})
  /\ ~overlapped => \A k \in keys : row[k[1]].status \in {"sent", "cancelled"}

Settled(m) == row[m].status \in {"sent", "failed", "cancelled"}

(* Without overlapping batches, every message is in the end sent, given up *)
(* or cancelled, and stays so.                                             *)
AllSettle == []~overlapped => \A m \in Scheduled : <>[]Settled(m)
=============================================================================

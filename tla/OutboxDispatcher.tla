-------------------------- MODULE OutboxDispatcher --------------------------
(***************************************************************************)
(* The transactional outbox of the CRM: `outbox_events` rows, the workers  *)
(* that claim them with SELECT ... FOR UPDATE SKIP LOCKED and run their    *)
(* consumers (app/event_bus/dispatcher.py), the dead-letter entries the    *)
(* workers leave (app/dead_letter/service.py) and the staff requests that  *)
(* triage and replay them.  One step is one database transaction or one    *)
(* statement whose row locks outlive it; between two steps of a worker     *)
(* every other worker, request and the clock may move.                     *)
(***************************************************************************)
EXTENDS Naturals, FiniteSets, Sequences

CONSTANTS
  Events,        \* outbox rows, numbered in created_at order
  Workers,       \* concurrent dispatch_pending_events calls
  Requests,      \* concurrent POST /dead-letter/{id}/replay requests
  BatchSize,     \* the batch_size argument of dispatch_pending_events
  MaxAttempts,   \* the max_attempts argument of dispatch_pending_events
  MaxReplays,    \* bound: replay requests admitted per event
  MaxAborts      \* bound: batches cut short by a crash, a timeout, an error

ASSUME EventsAssumption   == Events \subseteq Nat
ASSUME WorkersAssumption  == IsFiniteSet(Workers)
ASSUME BatchAssumption    == BatchSize \in Nat \ {0}
ASSUME AttemptsAssumption == MaxAttempts \in Nat \ {0}
ASSUME BoundsAssumption   == MaxReplays \in Nat /\ MaxAborts \in Nat

VARIABLES
  status,      \* outbox_events.status ("absent": no row yet)
  due,         \* available_at <= now()
  attempts,    \* outbox_events.attempts
  rowLock,     \* rows each worker's open claim transaction has locked
  pc,          \* where each worker is
  batch,       \* claimed events a worker has still to settle
  current,     \* the event a worker is processing
  copy,        \* attempts as the worker's session remembers it
  entries,     \* dead_letter_entries, in creation order
  request,     \* what each replay request has read so far
  delivered,   \* history: consumer calls that completed, per event
  replays,     \* history: times a replay put the event back to "pending"
  lost,        \* history: events whose worker stopped before create_entry
  stranded,    \* history: claimed events whose batch was cut short
  aborts       \* batches cut short so far

eventVars  == <<status, due, attempts>>
workerVars == <<rowLock, pc, batch, current, copy>>
history    == <<delivered, replays, lost, stranded, aborts>>
vars == <<eventVars, workerVars, entries, request, history>>

EventStatuses == {"absent", "pending", "processing", "published",
                  "failed_retryable", "failed_permanent", "purged"}
Resolutions   == {"new", "investigating", "replay_ready", "replayed",
                  "ignored_with_reason"}
Stages        == {"idle", "claiming", "next", "consuming", "publishing",
                  "dead_letter"}
None == 0      \* no entry index, no current event

Entry == [event : Events, resolution : Resolutions, eligible : BOOLEAN]
Replay == [entry : Nat, seen : EventStatuses]
NoReplay == [entry |-> None, seen |-> "absent"]

-----------------------------------------------------------------------------
Init ==
  /\ status    = [e \in Events |-> "absent"]
  /\ due       = [e \in Events |-> FALSE]
  /\ attempts  = [e \in Events |-> 0]
  /\ rowLock   = [w \in Workers |-> {}]
  /\ pc        = [w \in Workers |-> "idle"]
  /\ batch     = [w \in Workers |-> {}]
  /\ current   = [w \in Workers |-> None]
  /\ copy      = [w \in Workers |-> [e \in Events |-> 0]]
  /\ entries   = <<>>
  /\ request   = [r \in Requests |-> NoReplay]
  /\ delivered = [e \in Events |-> 0]
  /\ replays   = [e \in Events |-> 0]
  /\ lost      = {}
  /\ stranded  = {}
  /\ aborts    = 0

Unlocked(e) == \A w \in Workers : e \notin rowLock[w]

-----------------------------------------------------------------------------
(* The domain service: a row is inserted with its business change.         *)
RecordDomainEvent(e) ==
  /\ status[e] = "absent"
  /\ status' = [status EXCEPT ![e] = "pending"]
  /\ due' = [due EXCEPT ![e] = TRUE]
  /\ UNCHANGED <<attempts, workerVars, entries, request, history>>

(* Backoff is over: available_at is in the past.                           *)
BecomeDue(e) ==
  /\ status[e] = "failed_retryable" /\ ~due[e]
  /\ due' = [due EXCEPT ![e] = TRUE]
  /\ UNCHANGED <<status, attempts, workerVars, entries, request, history>>

(* purge_stale_operational_records deletes rows published more than 90     *)
(* days ago; no batch (300 s at most) and no request lives that long.      *)
Purge(e) ==
  /\ status[e] = "published"
  /\ \A w \in Workers : e \notin batch[w]
  /\ \A r \in Requests : request[r] # NoReplay =>
                           entries[request[r].entry].event # e
  /\ status' = [status EXCEPT ![e] = "purged"]
  /\ UNCHANGED <<due, attempts, workerVars, entries, request, history>>

-----------------------------------------------------------------------------
(* dispatch_pending_events                                                 *)
(* Mutant: without SKIP LOCKED's view of the row locks.                    *)
ClaimableIgnoringLocks == {e \in Events : status[e] = "pending" /\ due[e]}

(* Mutant: a stale-claim sweep that does not wait for the claim to expire. *)
ClaimableReclaiming ==
  {e \in Events : /\ status[e] \in {"pending", "processing"}
                  /\ due[e] /\ Unlocked(e)}

Claimable == {e \in Events : status[e] = "pending" /\ due[e] /\ Unlocked(e)}

(* ORDER BY created_at LIMIT batch_size: the oldest BatchSize rows.        *)
Oldest(S) ==
  {e \in S : Cardinality({f \in S : f < e}) < BatchSize}

SelectForUpdate(w) ==
  /\ pc[w] = "idle" /\ Claimable # {}
  /\ rowLock' = [rowLock EXCEPT ![w] = Oldest(Claimable)]
  /\ batch' = [batch EXCEPT ![w] = Oldest(Claimable)]
  /\ copy' = [copy EXCEPT ![w] =
                [e \in Events |-> IF e \in Oldest(Claimable) THEN attempts[e]
                                                             ELSE 0]]
  /\ pc' = [pc EXCEPT ![w] = "claiming"]
  /\ UNCHANGED <<eventVars, current, entries, request, history>>

CommitClaim(w) ==
  /\ pc[w] = "claiming"
  /\ status' = [e \in Events |-> IF e \in batch[w] THEN "processing"
                                                   ELSE status[e]]
  /\ rowLock' = [rowLock EXCEPT ![w] = {}]
  /\ pc' = [pc EXCEPT ![w] = "next"]
  /\ UNCHANGED <<due, attempts, batch, current, copy, entries, request,
                 history>>

(* _process_one: the attempt is counted and committed before the consumer. *)
BeginAttempt(w) ==
  /\ pc[w] = "next"
  /\ \E e \in batch[w] :
       /\ \A f \in batch[w] : e <= f
       /\ Unlocked(e)
       /\ copy' = [copy EXCEPT ![w][e] = @ + 1]
       /\ attempts' = [attempts EXCEPT ![e] = copy[w][e] + 1]
       /\ current' = [current EXCEPT ![w] = e]
  /\ pc' = [pc EXCEPT ![w] = "consuming"]
  /\ UNCHANGED <<status, due, rowLock, batch, entries, request, history>>

FinishBatch(w) ==
  /\ pc[w] = "next" /\ batch[w] = {}
  /\ pc' = [pc EXCEPT ![w] = "idle"]
  /\ current' = [current EXCEPT ![w] = None]
  /\ UNCHANGED <<eventVars, rowLock, batch, copy, entries, request, history>>

ConsumerReturns(w) ==
  /\ pc[w] = "consuming"
  /\ delivered' = [delivered EXCEPT ![current[w]] = @ + 1]
  /\ pc' = [pc EXCEPT ![w] = "publishing"]
  /\ UNCHANGED <<eventVars, rowLock, batch, current, copy, entries, request,
                 replays, lost, stranded, aborts>>

(* Mutant: a permanent failure goes on without create_entry.               *)
SettleWithoutEntry(w, stage) ==
  /\ batch' = [batch EXCEPT ![w] = @ \ {current[w]}]
  /\ copy' = [copy EXCEPT ![w][current[w]] = 0]
  /\ pc' = [pc EXCEPT ![w] = "next"]

(* Mutant: the event stays in the list and is processed again.             *)
SettleKeepingEvent(w, stage) ==
  /\ pc' = [pc EXCEPT ![w] = stage]
  /\ UNCHANGED <<batch, copy>>

(* Mutant: the loop returns after its first event.                         *)
SettleDroppingRest(w, stage) ==
  /\ batch' = [batch EXCEPT ![w] = {}]
  /\ copy' = [copy EXCEPT ![w] = [e \in Events |-> 0]]
  /\ pc' = [pc EXCEPT ![w] = stage]

Settle(w, stage) ==
  /\ batch' = [batch EXCEPT ![w] = @ \ {current[w]}]
  /\ copy' = [copy EXCEPT ![w][current[w]] = 0]
  /\ pc' = [pc EXCEPT ![w] = stage]

MarkPublished(w) ==
  /\ pc[w] = "publishing" /\ Unlocked(current[w])
  /\ status' = [status EXCEPT ![current[w]] = "published"]
  /\ Settle(w, "next")
  /\ UNCHANGED <<due, attempts, rowLock, current, entries, request, history>>

(* The consumer raised before using the session.                           *)
ConsumerRaises(w, category) ==
  LET e == current[w]
      permanent == category = "permanent" \/ copy[w][e] >= MaxAttempts
  IN
  /\ pc[w] = "consuming" /\ Unlocked(e)
  /\ \/ /\ permanent
        /\ status' = [status EXCEPT ![e] = "failed_permanent"]
        /\ Settle(w, "dead_letter")
        /\ UNCHANGED due
     \/ /\ ~permanent
        /\ status' = [status EXCEPT ![e] = "failed_retryable"]
        /\ due' = [due EXCEPT ![e] = FALSE]
        /\ Settle(w, "next")
  /\ UNCHANGED <<attempts, rowLock, current, entries, request, history>>

CreateEntry(w) ==
  /\ pc[w] = "dead_letter"
  /\ entries' = Append(entries, [event |-> current[w], resolution |-> "new",
                                 eligible |-> FALSE])
  /\ pc' = [pc EXCEPT ![w] = "next"]
  /\ UNCHANGED <<eventVars, rowLock, batch, current, copy, request, history>>

(* The batch ends early: the process crashed, the job timed out (its       *)
(* CancelledError is no Exception), or a consumer failed after it had used *)
(* the session, whose rollback expires `event` so that the handler's own   *)
(* read of event.attempts raises.  Open transactions roll back.            *)
Abort(w) ==
  /\ pc[w] # "idle" /\ aborts < MaxAborts
  /\ lost' = IF pc[w] = "dead_letter" THEN lost \union {current[w]} ELSE lost
  /\ stranded' = IF pc[w] = "claiming" THEN stranded ELSE stranded \union batch[w]
  /\ aborts' = aborts + 1
  /\ rowLock' = [rowLock EXCEPT ![w] = {}]
  /\ batch' = [batch EXCEPT ![w] = {}]
  /\ copy' = [copy EXCEPT ![w] = [e \in Events |-> 0]]
  /\ current' = [current EXCEPT ![w] = None]
  /\ pc' = [pc EXCEPT ![w] = "idle"]
  /\ UNCHANGED <<eventVars, entries, request, delivered, replays>>

-----------------------------------------------------------------------------
(* Triage of dead-letter entries: none of the three looks at the status.   *)
SetEntry(d, resolution, eligible) ==
  /\ entries' = [entries EXCEPT ![d].resolution = resolution,
                                ![d].eligible = eligible]
  /\ UNCHANGED <<eventVars, workerVars, request, history>>

MarkInvestigating(d) == SetEntry(d, "investigating", entries[d].eligible)
MarkReplayReady(d)   == SetEntry(d, "replay_ready", TRUE)
IgnoreEntry(d)       == SetEntry(d, "ignored_with_reason", FALSE)

(* replay_entry reads the entry and its event in one request ...           *)
ReplayRead(r, d) ==
  LET e == entries[d].event IN
  /\ request[r] = NoReplay
  /\ entries[d].eligible /\ entries[d].resolution = "replay_ready"
  /\ status[e] # "purged"
  /\ replays[e] + Cardinality({q \in Requests : request[q] # NoReplay})
       < MaxReplays
  /\ request' = [request EXCEPT ![r] = [entry |-> d, seen |-> status[e]]]
  /\ UNCHANGED <<eventVars, workerVars, entries, history>>

(* ... and its UPDATEs take effect at commit; the ORM writes the status    *)
(* only if it differs from the one the request has read.                   *)
ReplayCommit(r) ==
  LET d == request[r].entry
      e == entries[d].event
      requeue == request[r].seen # "pending"
  IN
  /\ request[r] # NoReplay /\ Unlocked(e)
  /\ status' = [status EXCEPT ![e] = IF requeue THEN "pending" ELSE @]
  /\ replays' = [replays EXCEPT ![e] = IF requeue THEN @ + 1 ELSE @]
  /\ stranded' = IF requeue THEN stranded \ {e} ELSE stranded
  /\ due' = [due EXCEPT ![e] = TRUE]
  /\ entries' = [entries EXCEPT ![d].resolution = "replayed"]
  /\ request' = [request EXCEPT ![r] = NoReplay]
  /\ UNCHANGED <<attempts, workerVars, delivered, lost, aborts>>

-----------------------------------------------------------------------------
WorkerStep(w) ==
  \/ SelectForUpdate(w) \/ CommitClaim(w) \/ BeginAttempt(w)
  \/ FinishBatch(w) \/ ConsumerReturns(w) \/ MarkPublished(w)
  \/ \E category \in {"retryable", "permanent"} : ConsumerRaises(w, category)
  \/ CreateEntry(w)

StaffStep ==
  \/ \E d \in DOMAIN entries :
       \/ MarkInvestigating(d) \/ MarkReplayReady(d) \/ IgnoreEntry(d)
       \/ \E r \in Requests : ReplayRead(r, d)
  \/ \E r \in Requests : ReplayCommit(r)

Next ==
  \/ \E e \in Events : RecordDomainEvent(e) \/ BecomeDue(e) \/ Purge(e)
  \/ \E w \in Workers : WorkerStep(w) \/ Abort(w)
  \/ StaffStep

Spec == Init /\ [][Next]_vars

(* Cron fires dispatch every two minutes, a running batch runs on, time    *)
(* passes and a request in flight ends.  Nobody is obliged to triage.      *)
Fairness ==
  /\ \A w \in Workers : WF_vars(WorkerStep(w))
  /\ \A e \in Events : WF_vars(BecomeDue(e))
  /\ \A r \in Requests : WF_vars(ReplayCommit(r))

FairSpec == Spec /\ Fairness

-----------------------------------------------------------------------------
(* Properties                                                              *)

(* Every variable ranges over what the schema and the sessions allow.      *)
TypeOK ==
  /\ status \in [Events -> EventStatuses]
  /\ due \in [Events -> BOOLEAN]
  /\ attempts \in [Events -> Nat]
  /\ rowLock \in [Workers -> SUBSET Events]
  /\ pc \in [Workers -> Stages]
  /\ batch \in [Workers -> SUBSET Events]
  /\ current \in [Workers -> Events \union {None}]
  /\ copy \in [Workers -> [Events -> Nat]]
  /\ entries \in Seq(Entry)
  /\ request \in [Requests -> Replay]
  /\ delivered \in [Events -> Nat]
  /\ replays \in [Events -> Nat]
  /\ lost \subseteq Events /\ stranded \subseteq Events
  /\ aborts \in Nat

(* A worker has claimed e and has not recorded its outcome.                *)
Holds(w, e) == pc[w] \notin {"idle", "claiming"} /\ e \in batch[w]

(* SKIP LOCKED and the "processing" status keep an event nobody replayed   *)
(* with one worker: two dispatchers never run its consumer concurrently.   *)
ExclusiveClaim ==
  \A e \in Events : replays[e] = 0 =>
    \A v, w \in Workers : Holds(v, e) /\ Holds(w, e) => v = w

(* The consumer of an event completes at most once, and once more for      *)
(* every replay that put it back: claims, crashes and failures never add   *)
(* a delivery of their own.                                                *)
DeliveriesBounded == \A e \in Events : delivered[e] <= 1 + replays[e]

(* A permanently failed event is on the dead-letter list, not yet          *)
(* replayed, unless its worker is about to put it there or was stopped     *)
(* between the commit of the failure and the commit of the entry.          *)
FailureTraceable ==
  \A e \in Events : status[e] = "failed_permanent" =>
    \/ \E d \in DOMAIN entries : /\ entries[d].event = e
                                 /\ entries[d].resolution # "replayed"
    \/ \E w \in Workers : pc[w] = "dead_letter" /\ current[w] = e
    \/ e \in lost

(* Without a replay, a published event is never taken back: no slow worker *)
(* overwrites the outcome another one recorded.                            *)
PublishedIsFinal ==
  [][\A e \in Events : status[e] = "published" /\ replays'[e] = 0 =>
       status'[e] \in {"published", "purged"}]_vars

Settled(e) == status[e] \in {"published", "failed_retryable", "failed_permanent"}

(* Every recorded event is settled: published, failed for good or failed   *)
(* and waiting for a retry, whatever happens to the batches it is not in.  *)
(* The one way to be left behind is to have been claimed by a batch that   *)
(* was cut short: that event, and no other, stays "processing".            *)
EventuallySettled ==
  \A e \in Events : status[e] \in {"pending", "processing"} ~>
    Settled(e) \/ (status[e] = "processing" /\ e \in stranded)

(* docs/INTEGRATIONS_AUTOMATIONS_REALTIME.md 9.5: "Stale locks are         *)
(* recoverable".  The claim of a batch cut short (locked_by, locked_at,    *)
(* "processing") does not last.                                            *)
StaleLocksAreRecovered ==
  \A e \in Events : status[e] = "processing" /\ e \in stranded ~>
    status[e] # "processing"

(* docs/INTEGRATIONS_AUTOMATIONS_REALTIME.md 9.2: "Failures are retried    *)
(* with bounded backoff", what dispatch_pending_events is to do with them. *)
FailuresAreRetried ==
  \A e \in Events : status[e] = "failed_retryable" ~>
    status[e] # "failed_retryable"
=============================================================================

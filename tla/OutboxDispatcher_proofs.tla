----------------------- MODULE OutboxDispatcher_proofs -----------------------
(***************************************************************************)
(* Proofs about OutboxDispatcher for any number of events, workers and     *)
(* replay requests: typing, exclusive claims, bounded deliveries, and      *)
(* failures that stay on the dead-letter list until they are resolved.     *)
(***************************************************************************)
EXTENDS OutboxDispatcher, FiniteSetTheorems, TLAPS

(* A worker past the claim knows which event it is processing.             *)
CurrentOK ==
  \A w \in Workers :
    /\ pc[w] \in {"consuming", "publishing"} => current[w] \in batch[w]
    /\ pc[w] = "dead_letter" => current[w] \in Events

TypeInv == TypeOK /\ CurrentOK

LEMMA InitTypeInv == Init => TypeInv
  BY EventsAssumption
  DEF Init, TypeInv, TypeOK, CurrentOK, EventStatuses, Stages, None, Entry,
      Replay, NoReplay

LEMMA WorkerTypeInv ==
  ASSUME TypeInv, NEW w \in Workers, WorkerStep(w) \/ Abort(w)
  PROVE  TypeInv'
<1> USE DEF TypeInv, TypeOK, CurrentOK, eventVars, workerVars, history
<1>1. CASE SelectForUpdate(w)
  <2>1. Oldest(Claimable) \subseteq Events
    BY DEF Oldest, Claimable
  <2>2. QED  BY <1>1, <2>1 DEF SelectForUpdate, Stages
<1>2. CASE CommitClaim(w)
  BY <1>2 DEF CommitClaim, Stages, EventStatuses
<1>3. CASE BeginAttempt(w)
  BY <1>3 DEF BeginAttempt, Stages
<1>4. CASE FinishBatch(w)
  BY <1>4 DEF FinishBatch, Stages
<1>5. CASE ConsumerReturns(w)
  BY <1>5 DEF ConsumerReturns, Stages
<1>6. CASE MarkPublished(w)
  BY <1>6 DEF MarkPublished, Settle, Stages, EventStatuses
<1>7. ASSUME NEW category \in {"retryable", "permanent"},
             ConsumerRaises(w, category)
      PROVE  TypeInv'
  <2>1. /\ current[w] \in Events
        /\ batch' = [batch EXCEPT ![w] = @ \ {current[w]}]
        /\ copy' = [copy EXCEPT ![w][current[w]] = 0]
        /\ \/ pc' = [pc EXCEPT ![w] = "dead_letter"]
           \/ pc' = [pc EXCEPT ![w] = "next"]
        /\ UNCHANGED <<attempts, rowLock, current, entries, request, history>>
    BY <1>7 DEF ConsumerRaises, Settle
  <2>2. /\ status' \in [Events -> EventStatuses]
        /\ due' \in [Events -> BOOLEAN]
    BY <1>7 DEF ConsumerRaises, EventStatuses
  <2>3. copy' \in [Workers -> [Events -> Nat]]
    BY <2>1
  <2>4. pc' \in [Workers -> Stages] /\ batch' \in [Workers -> SUBSET Events]
    BY <2>1 DEF Stages
  <2>5. TypeOK'
    BY <2>1, <2>2, <2>3, <2>4
  <2>6. CurrentOK'
    BY <2>1
  <2>7. QED  BY <2>5, <2>6
<1>8. CASE CreateEntry(w)
  <2> DEFINE new == [event |-> current[w], resolution |-> "new",
                     eligible |-> FALSE]
  <2>1. new \in Entry
    BY <1>8 DEF CreateEntry, Entry, Resolutions
  <2>2. entries' \in Seq(Entry)
    BY <1>8, <2>1 DEF CreateEntry
  <2>3. QED  BY <1>8, <2>2 DEF CreateEntry, Stages
<1>9. CASE Abort(w)
  BY <1>9 DEF Abort, Stages
<1>10. QED
  BY <1>1, <1>2, <1>3, <1>4, <1>5, <1>6, <1>7, <1>8, <1>9 DEF WorkerStep

(* What the dead-letter list holds at its indices.                         *)
LEMMA EntryAt ==
  ASSUME entries \in Seq(Entry), NEW d \in DOMAIN entries
  PROVE  /\ entries[d] \in Entry
         /\ d \in Nat
  OBVIOUS

(* Triage rewrites one entry in place.                                     *)
LEMMA SetEntryType ==
  ASSUME entries \in Seq(Entry), NEW d \in DOMAIN entries,
         NEW res \in Resolutions, NEW el \in BOOLEAN
  PROVE  [entries EXCEPT ![d].resolution = res, ![d].eligible = el]
           \in Seq(Entry)
<1> DEFINE new == [entries[d] EXCEPT !.resolution = res, !.eligible = el]
<1>1. entries[d] \in Entry
  OBVIOUS
<1>2. new \in Entry
  BY <1>1 DEF Entry
<1>3. [entries EXCEPT ![d] = new] \in Seq(Entry)
  BY <1>2
<1>4. [entries EXCEPT ![d].resolution = res, ![d].eligible = el]
        = [entries EXCEPT ![d] = new]
  BY <1>1
<1>5. QED  BY <1>3, <1>4

(* Counting one event up keeps a counter a counter.                        *)
LEMMA CounterType ==
  ASSUME NEW f \in [Events -> Nat], NEW e
  PROVE  [f EXCEPT ![e] = @ + 1] \in [Events -> Nat]
<1>1. \A x \in Events : [f EXCEPT ![e] = @ + 1][x] \in Nat
  OBVIOUS
<1>2. QED  BY <1>1

LEMMA StaffTypeInv ==
  ASSUME TypeInv, StaffStep
  PROVE  TypeInv'
<1> USE DEF TypeInv, TypeOK, CurrentOK, eventVars, workerVars, history
<1>1. ASSUME NEW d \in DOMAIN entries, NEW res \in Resolutions,
             NEW el \in BOOLEAN, SetEntry(d, res, el)
      PROVE  TypeInv'
  <2>1. entries' \in Seq(Entry)
    BY <1>1, SetEntryType DEF SetEntry
  <2>2. QED  BY <1>1, <2>1 DEF SetEntry
<1>2. ASSUME NEW d \in DOMAIN entries,
             MarkInvestigating(d) \/ MarkReplayReady(d) \/ IgnoreEntry(d)
      PROVE  TypeInv'
  <2>1. entries[d].eligible \in BOOLEAN
    <3>1. entries[d] \in Entry
      BY EntryAt
    <3>2. QED  BY <3>1 DEF Entry
  <2>2. QED
    BY <1>1, <1>2, <2>1 DEF MarkInvestigating, MarkReplayReady, IgnoreEntry,
                            Resolutions
<1>3. ASSUME NEW d \in DOMAIN entries, NEW r \in Requests, ReplayRead(r, d)
      PROVE  TypeInv'
  <2>1. d \in Nat /\ entries[d].event \in Events
    <3>1. entries[d] \in Entry /\ d \in Nat
      BY EntryAt
    <3>2. QED  BY <3>1 DEF Entry
  <2>2. [entry |-> d, seen |-> status[entries[d].event]] \in Replay
    BY <2>1 DEF Replay
  <2>3. request' \in [Requests -> Replay]
    BY <1>3, <2>2 DEF ReplayRead
  <2>4. QED  BY <1>3, <2>3 DEF ReplayRead
<1>4. ASSUME NEW r \in Requests, ReplayCommit(r)
      PROVE  TypeInv'
  <2> DEFINE d == request[r].entry
             new == [entries[d] EXCEPT !.resolution = "replayed"]
  <2>1. entries' \in Seq(Entry)
    <3>1. CASE d \in DOMAIN entries
      <4>1. new \in Entry
        <5>1. entries[d] \in Entry
          BY <3>1, EntryAt
        <5>2. QED  BY <5>1 DEF Entry, Resolutions
      <4>2. [entries EXCEPT ![d] = new] \in Seq(Entry)
        BY <3>1, <4>1
      <4>3. entries' = [entries EXCEPT ![d] = new]
        BY <1>4, <3>1 DEF ReplayCommit
      <4>4. QED  BY <4>2, <4>3
    <3>2. CASE d \notin DOMAIN entries
      <4>1. entries' = entries
        BY <1>4, <3>2 DEF ReplayCommit
      <4>2. QED  BY <4>1
    <3>3. QED  BY <3>1, <3>2
  <2>2. request' \in [Requests -> Replay]
    BY <1>4 DEF ReplayCommit, NoReplay, Replay, None, EventStatuses
  <2>3. /\ status' \in [Events -> EventStatuses]
        /\ due' \in [Events -> BOOLEAN]
        /\ replays' \in [Events -> Nat]
    <3> DEFINE e == entries[d].event
               requeue == request[r].seen # "pending"
    <3>1. /\ status' = [status EXCEPT ![e] = IF requeue THEN "pending" ELSE @]
          /\ replays' = [replays EXCEPT ![e] = IF requeue THEN @ + 1 ELSE @]
          /\ due' = [due EXCEPT ![e] = TRUE]
      BY <1>4 DEF ReplayCommit
    <3>2. status' \in [Events -> EventStatuses]
      BY <3>1 DEF EventStatuses
    <3>3. replays' \in [Events -> Nat]
      <4>1. CASE requeue
        <5>1. replays' = [replays EXCEPT ![e] = @ + 1]
          BY <3>1, <4>1
        <5>2. QED  BY <5>1, CounterType
      <4>2. CASE ~requeue
        <5>1. replays' = [replays EXCEPT ![e] = @]
          BY <3>1, <4>2
        <5>2. QED  BY <5>1
      <4>3. QED  BY <4>1, <4>2
    <3>4. QED  BY <3>1, <3>2, <3>3
  <2>4. QED  BY <1>4, <2>1, <2>2, <2>3 DEF ReplayCommit
<1>5. QED
  BY <1>2, <1>3, <1>4 DEF StaffStep

LEMMA EventTypeInv ==
  ASSUME TypeInv, NEW e \in Events,
         RecordDomainEvent(e) \/ BecomeDue(e) \/ Purge(e)
  PROVE  TypeInv'
  BY DEF TypeInv, TypeOK, CurrentOK, RecordDomainEvent, BecomeDue, Purge,
         EventStatuses, eventVars, workerVars, history

LEMMA NextTypeInv == TypeInv /\ [Next]_vars => TypeInv'
<1> SUFFICES ASSUME TypeInv, [Next]_vars  PROVE TypeInv'
  OBVIOUS
<1>1. CASE UNCHANGED vars
  BY <1>1 DEF TypeInv, TypeOK, CurrentOK, vars, eventVars, workerVars, history
<1>2. CASE Next
  BY <1>2, WorkerTypeInv, StaffTypeInv, EventTypeInv DEF Next
<1>3. QED  BY <1>1, <1>2

(* The type invariant holds whatever the numbers of events, workers and    *)
(* requests, and a worker past its claim works on an event it claimed.     *)
THEOREM TypeCorrect == Spec => []TypeInv
  BY InitTypeInv, NextTypeInv, PTL DEF Spec

-----------------------------------------------------------------------------
(* The rows a claim transaction has locked are the batch it is about to    *)
(* mark; they are pending, and no other claim has locked them.             *)
LockInv ==
  /\ \A w \in Workers : pc[w] = "claiming" => batch[w] = rowLock[w]
  /\ \A w \in Workers : pc[w] # "claiming" => rowLock[w] = {}
  /\ \A w \in Workers : \A e \in rowLock[w] : status[e] = "pending"
  /\ \A v, w \in Workers : v # w => rowLock[v] \cap rowLock[w] = {}

(* An event nobody replayed has at most one holder, and none unless its    *)
(* row says "processing".                                                  *)
HolderInv ==
  \A e \in Events : replays[e] = 0 =>
    /\ \A v, w \in Workers : Holds(v, e) /\ Holds(w, e) => v = w
    /\ status[e] # "processing" => \A w \in Workers : ~Holds(w, e)

ClaimInv == TypeInv /\ LockInv /\ HolderInv

LEMMA InitClaimInv == Init => ClaimInv
  BY InitTypeInv DEF Init, ClaimInv, LockInv, HolderInv, Holds

(* A step of worker w that writes the row of an event it holds needs that  *)
(* row unlocked, so the locked rows stay pending.                          *)
LEMMA WorkerLockInv ==
  ASSUME TypeInv, LockInv, NEW w \in Workers, WorkerStep(w) \/ Abort(w)
  PROVE  LockInv'
<1> USE DEF TypeInv, TypeOK, CurrentOK, LockInv, eventVars, workerVars, history
<1>1. CASE SelectForUpdate(w)
  <2>1. \A e \in Oldest(Claimable) :
          e \in Events /\ status[e] = "pending" /\ Unlocked(e)
    BY DEF Oldest, Claimable
  <2>2. \A v \in Workers : v # w => rowLock[v] \cap Oldest(Claimable) = {}
    BY <2>1 DEF Unlocked
  <2>3. QED  BY <1>1, <2>1, <2>2 DEF SelectForUpdate
<1>2. CASE CommitClaim(w)
  BY <1>2 DEF CommitClaim
<1>3. CASE BeginAttempt(w)
  BY <1>3 DEF BeginAttempt
<1>4. CASE FinishBatch(w)
  BY <1>4 DEF FinishBatch
<1>5. CASE ConsumerReturns(w)
  BY <1>5 DEF ConsumerReturns
<1>6. CASE MarkPublished(w)
  BY <1>6 DEF MarkPublished, Settle, Unlocked
<1>7. ASSUME NEW category \in {"retryable", "permanent"},
             ConsumerRaises(w, category)
      PROVE  LockInv'
  <2>1. /\ Unlocked(current[w])
        /\ \A e \in Events : e # current[w] => status'[e] = status[e]
        /\ pc[w] = "consuming" /\ UNCHANGED rowLock
        /\ \A v \in Workers : v # w => pc'[v] = pc[v] /\ batch'[v] = batch[v]
        /\ pc'[w] \in {"dead_letter", "next"}
    BY <1>7 DEF ConsumerRaises, Settle
  <2>2. rowLock[w] = {} /\ pc'[w] # "claiming" /\ rowLock' = rowLock
    BY <2>1
  <2>3. (\A v \in Workers : pc[v] = "claiming" => batch[v] = rowLock[v])'
    BY <2>1, <2>2
  <2>4. (\A v \in Workers : pc[v] # "claiming" => rowLock[v] = {})'
    BY <2>1, <2>2
  <2>5. (\A v \in Workers : \A e \in rowLock[v] : status[e] = "pending")'
    BY <2>1 DEF Unlocked
  <2>6. (\A u, v \in Workers : u # v => rowLock[u] \cap rowLock[v] = {})'
    BY <2>2
  <2>7. QED  BY <2>3, <2>4, <2>5, <2>6, Zenon
<1>8. CASE CreateEntry(w)
  BY <1>8 DEF CreateEntry
<1>9. CASE Abort(w)
  BY <1>9 DEF Abort
<1>10. QED
  BY <1>1, <1>2, <1>3, <1>4, <1>5, <1>6, <1>7, <1>8, <1>9 DEF WorkerStep

LEMMA WorkerHolderInv ==
  ASSUME TypeInv, LockInv, HolderInv, NEW w \in Workers,
         WorkerStep(w) \/ Abort(w)
  PROVE  HolderInv'
<1> USE DEF TypeInv, TypeOK, CurrentOK, LockInv, HolderInv, Holds, eventVars,
            workerVars, history
<1>1. CASE SelectForUpdate(w)
  BY <1>1 DEF SelectForUpdate
<1>2. CASE CommitClaim(w)
  <2>1. \A e \in batch[w] : \A v \in Workers : replays[e] = 0 => ~Holds(v, e)
    BY <1>2 DEF CommitClaim
  <2>2. \A v \in Workers, e \in Events :
          Holds(v, e)' <=> Holds(v, e) \/ (v = w /\ e \in batch[w])
    BY <1>2 DEF CommitClaim
  <2>3. \A e \in Events : status'[e] # "processing" =>
          status[e] # "processing" /\ e \notin batch[w]
    BY <1>2 DEF CommitClaim
  <2>4. replays' = replays
    BY <1>2 DEF CommitClaim
  <2>5. ASSUME NEW e \in Events, replays'[e] = 0
        PROVE  /\ \A u, v \in Workers : Holds(u, e)' /\ Holds(v, e)' => u = v
               /\ status'[e] # "processing" =>
                    \A v \in Workers : ~Holds(v, e)'
    <3>1. replays[e] = 0
      BY <2>4, <2>5
    <3>2. \A v \in Workers : Holds(v, e)' <=>
                             Holds(v, e) \/ (v = w /\ e \in batch[w])
      BY <2>2
    <3> HIDE DEF Holds
    <3>3. CASE e \in batch[w]
      BY <2>1, <2>3, <3>1, <3>2, <3>3
    <3>4. CASE e \notin batch[w]
      BY <2>3, <3>1, <3>2, <3>4
    <3>5. QED  BY <3>3, <3>4
  <2>6. QED  BY <2>5
<1>3. CASE BeginAttempt(w)
  BY <1>3 DEF BeginAttempt
<1>4. CASE FinishBatch(w)
  BY <1>4 DEF FinishBatch
<1>5. CASE ConsumerReturns(w)
  BY <1>5 DEF ConsumerReturns
<1>6. CASE MarkPublished(w)
  BY <1>6 DEF MarkPublished, Settle
<1>7. ASSUME NEW category \in {"retryable", "permanent"},
             ConsumerRaises(w, category)
      PROVE  HolderInv'
  <2>1. \A v \in Workers, e \in Events : Holds(v, e)' => Holds(v, e)
    <3>1. /\ pc[w] = "consuming"
          /\ batch' = [batch EXCEPT ![w] = @ \ {current[w]}]
          /\ \A v \in Workers : v # w => pc'[v] = pc[v]
      BY <1>7 DEF ConsumerRaises, Settle
    <3>2. QED  BY <3>1
  <2>2. \A e \in Events : e # current[w] => status[e] = status'[e]
    BY <1>7 DEF ConsumerRaises
  <2>3. replays' = replays
    BY <1>7 DEF ConsumerRaises
  <2>4. PICK c \in Events : c = current[w]
    BY <1>7 DEF ConsumerRaises
  <2>5. Holds(w, c) /\ ~Holds(w, c)'
    BY <1>7, <2>4 DEF ConsumerRaises, Settle
  <2>6. ASSUME NEW e \in Events, replays'[e] = 0
        PROVE  /\ \A u, v \in Workers : Holds(u, e)' /\ Holds(v, e)' => u = v
               /\ status'[e] # "processing" =>
                    \A v \in Workers : ~Holds(v, e)'
    <3>1. replays[e] = 0
      BY <2>3, <2>6
    <3>2. /\ \A u, v \in Workers : Holds(u, e) /\ Holds(v, e) => u = v
          /\ status[e] # "processing" => \A v \in Workers : ~Holds(v, e)
      BY <3>1
    <3>3. \A v \in Workers : Holds(v, e)' => Holds(v, e)
      BY <2>1
    <3> HIDE DEF Holds
    <3>4. CASE e = c
      BY <2>5, <3>2, <3>3, <3>4
    <3>5. CASE e # c
      BY <2>2, <2>4, <3>2, <3>3, <3>5
    <3>6. QED  BY <3>4, <3>5
  <2>7. QED  BY <2>6
<1>8. CASE CreateEntry(w)
  <2>1. /\ status' = status /\ replays' = replays
        /\ \A v \in Workers, e \in Events : Holds(v, e)' => Holds(v, e)
    BY <1>8 DEF CreateEntry
  <2> HIDE DEF Holds
  <2>2. QED  BY <2>1
<1>9. CASE Abort(w)
  BY <1>9 DEF Abort
<1>10. QED
  BY <1>1, <1>2, <1>3, <1>4, <1>5, <1>6, <1>7, <1>8, <1>9 DEF WorkerStep

(* Staff requests never touch a locked row, and count what they requeue.   *)
LEMMA StaffClaimInv ==
  ASSUME ClaimInv, StaffStep
  PROVE  LockInv' /\ HolderInv'
<1> USE DEF ClaimInv, TypeInv, TypeOK, LockInv, HolderInv, Holds, eventVars,
            workerVars, history
<1>1. ASSUME NEW d \in DOMAIN entries,
             MarkInvestigating(d) \/ MarkReplayReady(d) \/ IgnoreEntry(d)
      PROVE  LockInv' /\ HolderInv'
  BY <1>1 DEF MarkInvestigating, MarkReplayReady, IgnoreEntry, SetEntry
<1>2. ASSUME NEW d \in DOMAIN entries, NEW r \in Requests, ReplayRead(r, d)
      PROVE  LockInv' /\ HolderInv'
  BY <1>2 DEF ReplayRead
<1>3. ASSUME NEW r \in Requests, ReplayCommit(r)
      PROVE  LockInv' /\ HolderInv'
  <2>1. \A e \in Events :
          \/ status'[e] = status[e] /\ replays'[e] = replays[e]
          \/ Unlocked(e) /\ replays'[e] # 0
    BY <1>3 DEF ReplayCommit
  <2>2. UNCHANGED <<rowLock, pc, batch>>
    BY <1>3 DEF ReplayCommit
  <2>3. LockInv'
    BY <2>1, <2>2 DEF Unlocked
  <2>4. HolderInv'
    BY <2>1, <2>2
  <2>5. QED  BY <2>3, <2>4
<1>4. QED
  BY <1>1, <1>2, <1>3 DEF StaffStep

LEMMA EventClaimInv ==
  ASSUME ClaimInv, NEW e \in Events,
         RecordDomainEvent(e) \/ BecomeDue(e) \/ Purge(e)
  PROVE  LockInv' /\ HolderInv'
<1> USE DEF ClaimInv, TypeInv, TypeOK, LockInv, HolderInv, Holds, eventVars,
            workerVars, history
<1>1. CASE RecordDomainEvent(e)  BY <1>1 DEF RecordDomainEvent
<1>2. CASE BecomeDue(e)  BY <1>2 DEF BecomeDue
<1>3. CASE Purge(e)  BY <1>3 DEF Purge
<1>4. QED  BY <1>1, <1>2, <1>3

LEMMA NextClaimInv == ClaimInv /\ [Next]_vars => ClaimInv'
<1> SUFFICES ASSUME ClaimInv, [Next]_vars  PROVE ClaimInv'
  OBVIOUS
<1>1. TypeInv'
  BY NextTypeInv DEF ClaimInv
<1>2. LockInv' /\ HolderInv'
  <2>1. CASE UNCHANGED vars
    BY <2>1 DEF ClaimInv, LockInv, HolderInv, Holds, vars, eventVars,
                workerVars, history
  <2>2. CASE Next
    BY <2>2, WorkerLockInv, WorkerHolderInv, StaffClaimInv, EventClaimInv
    DEF Next, ClaimInv
  <2>3. QED  BY <2>1, <2>2
<1>3. QED  BY <1>1, <1>2 DEF ClaimInv

(* An event nobody replayed is processed by one worker at a time, for any  *)
(* number of workers, events and batches cut short.                        *)
THEOREM ClaimsAreExclusive == Spec => []ExclusiveClaim
<1>1. Spec => []ClaimInv
  BY InitClaimInv, NextClaimInv, PTL DEF Spec
<1>2. ClaimInv => ExclusiveClaim
  BY DEF ClaimInv, HolderInv, ExclusiveClaim
<1>3. QED  BY <1>1, <1>2, PTL

-----------------------------------------------------------------------------
(* The workers that may still deliver e, and the claim still to come of a  *)
(* row that is or will become pending.                                     *)
Undelivered(w, e) ==
  /\ Holds(w, e)
  /\ ~(pc[w] = "publishing" /\ e = current[w])

Carriers(e) == {w \in Workers : Undelivered(w, e)}
Unclaimed(e) == IF status[e] \in {"absent", "pending"} THEN 1 ELSE 0

(* Deliveries made, deliveries under way and the claim to come never       *)
(* exceed the one the record and the ones the replays paid for.            *)
BoundInv ==
  \A e \in Events :
    delivered[e] + Cardinality(Carriers(e)) + Unclaimed(e) <= 1 + replays[e]

LEMMA CarriersFinite ==
  \A e \in Events : /\ IsFiniteSet(Carriers(e))
                    /\ Cardinality(Carriers(e)) \in Nat
  BY WorkersAssumption, FS_Subset, FS_CardinalityType DEF Carriers

LEMMA InitBoundInv == Init => BoundInv
<1> SUFFICES ASSUME Init, NEW e \in Events
             PROVE  delivered[e] + Cardinality(Carriers(e)) + Unclaimed(e)
                      <= 1 + replays[e]
  BY DEF BoundInv
<1>1. Carriers(e) = {}
  BY DEF Init, Carriers, Undelivered, Holds
<1>2. Cardinality(Carriers(e)) = 0
  BY <1>1, FS_EmptySet
<1>3. QED  BY <1>2 DEF Init, Unclaimed

(* A step that neither delivers nor claims nor requeues anything.          *)
LEMMA BoundShrinks ==
  ASSUME TypeInv, TypeInv', BoundInv,
         delivered' = delivered, replays' = replays,
         \A e \in Events : Carriers(e)' \subseteq Carriers(e),
         \A e \in Events : Unclaimed(e)' <= Unclaimed(e)
  PROVE  BoundInv'
<1> SUFFICES ASSUME NEW e \in Events
             PROVE  delivered'[e] + Cardinality(Carriers(e)') + Unclaimed(e)'
                      <= 1 + replays'[e]
  BY DEF BoundInv
<1>1. /\ Cardinality(Carriers(e)') <= Cardinality(Carriers(e))
      /\ Cardinality(Carriers(e)') \in Nat
  BY CarriersFinite, FS_Subset, FS_CardinalityType
<1>2. Cardinality(Carriers(e)) \in Nat
  BY CarriersFinite
<1>3. /\ delivered[e] \in Nat /\ replays[e] \in Nat
      /\ Unclaimed(e) \in Nat /\ Unclaimed(e)' \in Nat
  BY DEF TypeInv, TypeOK, Unclaimed
<1>4. delivered[e] + Cardinality(Carriers(e)) + Unclaimed(e) <= 1 + replays[e]
  BY DEF BoundInv
<1>5. Unclaimed(e)' <= Unclaimed(e)
  OBVIOUS
<1> HIDE DEF Carriers, Unclaimed
<1>6. QED  BY <1>1, <1>2, <1>3, <1>4, <1>5

LEMMA ClaimBoundInv ==
  ASSUME ClaimInv, TypeInv', BoundInv, NEW w \in Workers, CommitClaim(w)
  PROVE  BoundInv'
<1> SUFFICES ASSUME NEW e \in Events
             PROVE  delivered'[e] + Cardinality(Carriers(e)') + Unclaimed(e)'
                      <= 1 + replays'[e]
  BY DEF BoundInv
<1> USE DEF CommitClaim, history
<1>1. /\ Cardinality(Carriers(e)) \in Nat /\ IsFiniteSet(Carriers(e))
      /\ delivered[e] \in Nat /\ replays[e] \in Nat
  BY CarriersFinite DEF ClaimInv, TypeInv, TypeOK
<1>2. delivered[e] + Cardinality(Carriers(e)) + Unclaimed(e) <= 1 + replays[e]
  BY DEF BoundInv
<1>3. CASE e \in batch[w]
  <2>1. status[e] = "pending" /\ status'[e] = "processing"
    BY <1>3 DEF ClaimInv, LockInv, TypeInv, TypeOK
  <2>2. w \notin Carriers(e)
    BY DEF Carriers, Undelivered, Holds
  <2>3. Carriers(e)' = Carriers(e) \union {w}
    BY <1>3 DEF Carriers, Undelivered, Holds, ClaimInv, TypeInv, TypeOK
  <2>4. Cardinality(Carriers(e)') = Cardinality(Carriers(e)) + 1
    BY <2>2, <2>3, <1>1, FS_AddElement
  <2>5. Unclaimed(e) = 1 /\ Unclaimed(e)' = 0
    BY <2>1 DEF Unclaimed
  <2>6. QED  BY <1>1, <1>2, <2>4, <2>5
<1>4. CASE e \notin batch[w]
  <2>1. Carriers(e)' = Carriers(e)
    BY <1>4 DEF Carriers, Undelivered, Holds, ClaimInv, TypeInv, TypeOK
  <2>2. Unclaimed(e)' = Unclaimed(e)
    BY <1>4 DEF Unclaimed
  <2>3. QED  BY <1>2, <2>1, <2>2
<1>5. QED  BY <1>3, <1>4

LEMMA DeliveryBoundInv ==
  ASSUME ClaimInv, TypeInv', BoundInv, NEW w \in Workers, ConsumerReturns(w)
  PROVE  BoundInv'
<1> SUFFICES ASSUME NEW e \in Events
             PROVE  delivered'[e] + Cardinality(Carriers(e)') + Unclaimed(e)'
                      <= 1 + replays'[e]
  BY DEF BoundInv
<1> USE DEF ConsumerReturns, eventVars
<1>1. /\ Cardinality(Carriers(e)) \in Nat /\ IsFiniteSet(Carriers(e))
      /\ delivered[e] \in Nat /\ replays[e] \in Nat /\ Unclaimed(e) \in Nat
  BY CarriersFinite DEF ClaimInv, TypeInv, TypeOK, Unclaimed
<1>2. delivered[e] + Cardinality(Carriers(e)) + Unclaimed(e) <= 1 + replays[e]
  BY DEF BoundInv
<1>3. Unclaimed(e)' = Unclaimed(e)
  BY DEF Unclaimed
<1>4. CASE e = current[w]
  <2>1. w \in Carriers(e)
    BY <1>4 DEF Carriers, Undelivered, Holds, ClaimInv, TypeInv, TypeOK,
                CurrentOK
  <2>2. Carriers(e)' = Carriers(e) \ {w}
    BY <1>4 DEF Carriers, Undelivered, Holds, ClaimInv, TypeInv, TypeOK
  <2>3. Cardinality(Carriers(e)') = Cardinality(Carriers(e)) - 1
    BY <2>1, <2>2, <1>1, FS_RemoveElement
  <2>4. delivered'[e] = delivered[e] + 1
    BY <1>4 DEF ClaimInv, TypeInv, TypeOK
  <2>5. QED  BY <1>1, <1>2, <1>3, <2>3, <2>4
<1>5. CASE e # current[w]
  <2>1. Carriers(e)' = Carriers(e)
    BY <1>5 DEF Carriers, Undelivered, Holds, ClaimInv, TypeInv, TypeOK
  <2>2. delivered'[e] = delivered[e]
    BY <1>5 DEF ClaimInv, TypeInv, TypeOK
  <2>3. QED  BY <1>2, <1>3, <2>1, <2>2
<1>6. QED  BY <1>4, <1>5

LEMMA ReplayBoundInv ==
  ASSUME ClaimInv, TypeInv', BoundInv, NEW r \in Requests, ReplayCommit(r)
  PROVE  BoundInv'
<1> SUFFICES ASSUME NEW e \in Events
             PROVE  delivered'[e] + Cardinality(Carriers(e)') + Unclaimed(e)'
                      <= 1 + replays'[e]
  BY DEF BoundInv
<1>1. /\ Cardinality(Carriers(e)) \in Nat /\ delivered[e] \in Nat
      /\ replays[e] \in Nat /\ Unclaimed(e) \in {0, 1}
      /\ Unclaimed(e)' \in {0, 1}
  BY CarriersFinite DEF ClaimInv, TypeInv, TypeOK, Unclaimed
<1>2. delivered[e] + Cardinality(Carriers(e)) + Unclaimed(e) <= 1 + replays[e]
  BY DEF BoundInv
<1>3. Carriers(e)' = Carriers(e) /\ delivered' = delivered
  BY DEF ReplayCommit, workerVars, Carriers, Undelivered, Holds
<1>4. \/ status'[e] = status[e] /\ replays'[e] = replays[e]
      \/ replays'[e] = replays[e] + 1
  BY DEF ReplayCommit, ClaimInv, TypeInv, TypeOK
<1>5. CASE status'[e] = status[e] /\ replays'[e] = replays[e]
  BY <1>2, <1>3, <1>5 DEF Unclaimed
<1>6. CASE replays'[e] = replays[e] + 1
  BY <1>1, <1>2, <1>3, <1>6
<1>7. QED  BY <1>4, <1>5, <1>6

LEMMA WorkerBoundInv ==
  ASSUME ClaimInv, TypeInv', BoundInv, NEW w \in Workers,
         WorkerStep(w) \/ Abort(w)
  PROVE  BoundInv'
<1> USE DEF ClaimInv, TypeInv, TypeOK, CurrentOK, Carriers, Undelivered, Holds,
            Unclaimed, eventVars, workerVars, history
<1>1. CASE SelectForUpdate(w)
  BY <1>1, BoundShrinks DEF SelectForUpdate
<1>2. CASE CommitClaim(w)
  BY <1>2, ClaimBoundInv
<1>3. CASE BeginAttempt(w)
  <2>1. /\ delivered' = delivered /\ replays' = replays /\ status' = status
        /\ \A e \in Events : Carriers(e)' \subseteq Carriers(e)
    BY <1>3 DEF BeginAttempt
  <2>2. \A e \in Events : Unclaimed(e)' <= Unclaimed(e)
    BY <2>1
  <2>3. QED  BY <2>1, <2>2, BoundShrinks
<1>4. CASE FinishBatch(w)
  <2>1. /\ delivered' = delivered /\ replays' = replays /\ status' = status
        /\ \A e \in Events : Carriers(e)' \subseteq Carriers(e)
    BY <1>4 DEF FinishBatch
  <2>2. \A e \in Events : Unclaimed(e)' <= Unclaimed(e)
    BY <2>1
  <2>3. QED  BY <2>1, <2>2, BoundShrinks
<1>5. CASE ConsumerReturns(w)
  BY <1>5, DeliveryBoundInv
<1>6. CASE MarkPublished(w)
  <2>1. \A e \in Events : Carriers(e)' \subseteq Carriers(e)
    BY <1>6 DEF MarkPublished, Settle
  <2>2. \A e \in Events : Unclaimed(e)' <= Unclaimed(e)
    <3>1. \A e \in Events : \/ status'[e] = status[e]
                            \/ status'[e] \notin {"absent", "pending"}
      BY <1>6 DEF MarkPublished
    <3>2. QED  BY <3>1
  <2>3. delivered' = delivered /\ replays' = replays
    BY <1>6 DEF MarkPublished
  <2>4. QED  BY <2>1, <2>2, <2>3, BoundShrinks
<1>7. ASSUME NEW category \in {"retryable", "permanent"},
             ConsumerRaises(w, category)
      PROVE  BoundInv'
  <2>1. \A e \in Events : Carriers(e)' \subseteq Carriers(e)
    <3>1. /\ pc[w] = "consuming" /\ current' = current
          /\ batch' = [batch EXCEPT ![w] = @ \ {current[w]}]
          /\ \A v \in Workers : v # w => pc'[v] = pc[v]
      BY <1>7 DEF ConsumerRaises, Settle
    <3>2. QED  BY <3>1
  <2>2. \A e \in Events : Unclaimed(e)' <= Unclaimed(e)
    <3>1. \A e \in Events : \/ status'[e] = status[e]
                            \/ status'[e] \notin {"absent", "pending"}
      BY <1>7 DEF ConsumerRaises
    <3>2. QED  BY <3>1
  <2>3. delivered' = delivered /\ replays' = replays
    BY <1>7 DEF ConsumerRaises
  <2>4. QED  BY <2>1, <2>2, <2>3, BoundShrinks
<1>8. CASE CreateEntry(w)
  <2>1. /\ delivered' = delivered /\ replays' = replays
        /\ \A e \in Events : Carriers(e)' \subseteq Carriers(e)
    BY <1>8 DEF CreateEntry
  <2>2. \A e \in Events : Unclaimed(e)' <= Unclaimed(e)
    BY <1>8 DEF CreateEntry
  <2>3. QED  BY <2>1, <2>2, BoundShrinks
<1>9. CASE Abort(w)
  BY <1>9, BoundShrinks DEF Abort
<1>10. QED
  BY <1>1, <1>2, <1>3, <1>4, <1>5, <1>6, <1>7, <1>8, <1>9 DEF WorkerStep

LEMMA NextBoundInv ==
  ClaimInv /\ BoundInv /\ [Next]_vars => BoundInv'
<1> SUFFICES ASSUME ClaimInv, BoundInv, [Next]_vars  PROVE BoundInv'
  OBVIOUS
<1> USE DEF Carriers, Undelivered, Holds, Unclaimed, eventVars, workerVars,
            history
<1>1. TypeInv /\ TypeInv'
  BY NextTypeInv DEF ClaimInv
<1>2. CASE UNCHANGED vars
  BY <1>1, <1>2, BoundShrinks DEF vars
<1>3. ASSUME NEW e \in Events, RecordDomainEvent(e) \/ BecomeDue(e) \/ Purge(e)
      PROVE  BoundInv'
  <2>1. \A f \in Events : \/ status'[f] = status[f]
                          \/ status'[f] = "purged"
                          \/ status[f] = "absent"
    BY <1>1, <1>3 DEF RecordDomainEvent, BecomeDue, Purge, TypeInv, TypeOK
  <2>2. UNCHANGED <<pc, batch, current, delivered, replays>>
    BY <1>3 DEF RecordDomainEvent, BecomeDue, Purge
  <2>3. QED  BY <1>1, <2>1, <2>2, BoundShrinks
<1>4. ASSUME NEW w \in Workers, WorkerStep(w) \/ Abort(w)
      PROVE  BoundInv'
  BY <1>1, <1>4, WorkerBoundInv
<1>5. CASE StaffStep
  <2>1. ASSUME NEW d \in DOMAIN entries,
               \/ MarkInvestigating(d) \/ MarkReplayReady(d) \/ IgnoreEntry(d)
               \/ \E r \in Requests : ReplayRead(r, d)
        PROVE  BoundInv'
    <3>1. UNCHANGED <<status, pc, batch, current, delivered, replays>>
      BY <2>1 DEF MarkInvestigating, MarkReplayReady, IgnoreEntry, SetEntry,
                  ReplayRead
    <3>2. QED  BY <1>1, <3>1, BoundShrinks
  <2>2. ASSUME NEW r \in Requests, ReplayCommit(r)
        PROVE  BoundInv'
    BY <1>1, <2>2, ReplayBoundInv
  <2>3. QED  BY <1>5, <2>1, <2>2 DEF StaffStep
<1>6. QED  BY <1>2, <1>3, <1>4, <1>5 DEF Next

(* However workers crash, overlap and fail, the consumer of an event       *)
(* completes at most once plus once for each replay that requeued it.      *)
THEOREM DeliveriesAreBounded == Spec => []DeliveriesBounded
<1>1. Init => ClaimInv /\ BoundInv
  BY InitClaimInv, InitBoundInv
<1>2. ClaimInv /\ BoundInv /\ [Next]_vars => (ClaimInv /\ BoundInv)'
  BY NextClaimInv, NextBoundInv
<1>3. ClaimInv /\ BoundInv => DeliveriesBounded
  <2> SUFFICES ASSUME ClaimInv, BoundInv, NEW e \in Events
               PROVE  delivered[e] <= 1 + replays[e]
    BY DEF DeliveriesBounded
  <2>1. /\ delivered[e] \in Nat /\ replays[e] \in Nat
        /\ Cardinality(Carriers(e)) \in Nat /\ Unclaimed(e) \in {0, 1}
    BY CarriersFinite DEF ClaimInv, TypeInv, TypeOK, Unclaimed
  <2>2. delivered[e] + Cardinality(Carriers(e)) + Unclaimed(e)
          <= 1 + replays[e]
    BY DEF BoundInv
  <2>3. QED  BY <2>1, <2>2
<1>4. QED  BY <1>1, <1>2, <1>3, PTL DEF Spec

(* Without a replay a published event stays published until it is purged:  *)
(* only a holder could rewrite its row, and it has none.                   *)
THEOREM PublishedStays == Spec => PublishedIsFinal
<1>1. ASSUME ClaimInv, [Next]_vars, NEW e \in Events,
             status[e] = "published", replays'[e] = 0
      PROVE  status'[e] \in {"published", "purged"}
  <2> USE DEF ClaimInv, TypeInv, TypeOK, CurrentOK, eventVars, workerVars,
              history
  <2>1. CASE UNCHANGED vars
    BY <1>1, <2>1 DEF vars
  <2>2. ASSUME NEW f \in Events,
               RecordDomainEvent(f) \/ BecomeDue(f) \/ Purge(f)
        PROVE  status'[e] \in {"published", "purged"}
    BY <1>1, <2>2 DEF RecordDomainEvent, BecomeDue, Purge
  <2>3. ASSUME NEW w \in Workers, WorkerStep(w) \/ Abort(w)
        PROVE  status'[e] \in {"published", "purged"}
    <3>1. replays[e] = 0
      BY <1>1, <2>3 DEF WorkerStep, SelectForUpdate, CommitClaim, BeginAttempt,
           FinishBatch, ConsumerReturns, MarkPublished, ConsumerRaises,
           CreateEntry, Abort
    <3>2. ~Holds(w, e)
      BY <1>1, <3>1 DEF HolderInv
    <3>3. CASE CommitClaim(w)
      BY <1>1, <3>3 DEF CommitClaim, LockInv
    <3>4. CASE MarkPublished(w)
      BY <1>1, <3>4 DEF MarkPublished
    <3>5. ASSUME NEW category \in {"retryable", "permanent"},
                 ConsumerRaises(w, category)
          PROVE  status'[e] \in {"published", "purged"}
      <4>1. e # current[w]
        <5>1. pc[w] = "consuming"
          BY <3>5 DEF ConsumerRaises
        <5>2. current[w] \in batch[w]
          BY <1>1, <5>1
        <5>3. QED  BY <3>2, <5>1, <5>2 DEF Holds
      <4>2. QED  BY <1>1, <3>5, <4>1 DEF ConsumerRaises
    <3>6. CASE \/ SelectForUpdate(w) \/ BeginAttempt(w) \/ FinishBatch(w)
               \/ ConsumerReturns(w) \/ CreateEntry(w) \/ Abort(w)
      BY <1>1, <3>6 DEF SelectForUpdate, BeginAttempt, FinishBatch,
           ConsumerReturns, CreateEntry, Abort
    <3>7. QED  BY <2>3, <3>3, <3>4, <3>5, <3>6 DEF WorkerStep
  <2>4. CASE StaffStep
    <3>1. ASSUME NEW r \in Requests, ReplayCommit(r)
          PROVE  status'[e] \in {"published", "purged"}
      BY <1>1, <3>1 DEF ReplayCommit
    <3>2. ASSUME NEW d \in DOMAIN entries,
                 \/ MarkInvestigating(d) \/ MarkReplayReady(d)
                 \/ IgnoreEntry(d) \/ \E r \in Requests : ReplayRead(r, d)
          PROVE  status'[e] \in {"published", "purged"}
      BY <1>1, <3>2 DEF MarkInvestigating, MarkReplayReady, IgnoreEntry,
           SetEntry, ReplayRead
    <3>3. QED  BY <2>4, <3>1, <3>2 DEF StaffStep
  <2>5. QED  BY <1>1, <2>1, <2>2, <2>3, <2>4 DEF Next
<1>2. ClaimInv /\ [Next]_vars =>
        \A e \in Events : status[e] = "published" /\ replays'[e] = 0 =>
          status'[e] \in {"published", "purged"}
  BY <1>1
<1>3. Spec => []ClaimInv
  BY InitClaimInv, NextClaimInv, PTL DEF Spec
<1>4. QED
  BY <1>2, <1>3, PTL DEF Spec, PublishedIsFinal
-----------------------------------------------------------------------------
(* FailureTraceable.  A request that has read its event as pending marks   *)
(* its entry replayed without requeueing the event; meanwhile the event    *)
(* may have been claimed and have failed for good.  So the entry that      *)
(* traces a failure has to be one that no such request is about to close:  *)
(* the one its last failure appended, or a later one.                      *)
Awaited(d) ==
  \E r \in Requests : request[r].entry = d /\ request[r].seen = "pending"

Traced(e) ==
  \/ \E d \in DOMAIN entries : /\ entries[d].event = e
                               /\ entries[d].resolution # "replayed"
                               /\ ~Awaited(d)
  \/ \E w \in Workers : pc[w] = "dead_letter" /\ current[w] = e
  \/ e \in lost

TraceInv ==
  /\ \A r \in Requests : request[r].entry <= Len(entries)
  /\ \A e \in Events : status[e] = "failed_permanent" => Traced(e)

(* A step that leaves the list, the requests and the failures alone keeps  *)
(* every trace, if the workers that owe an entry still owe it.             *)
LEMMA TraceKept ==
  ASSUME TraceInv, UNCHANGED <<entries, request>>, lost \subseteq lost',
         \A w \in Workers : pc[w] = "dead_letter" =>
           \/ pc'[w] = "dead_letter" /\ current'[w] = current[w]
           \/ current[w] \in lost',
         \A e \in Events : status'[e] = "failed_permanent" =>
           \/ status[e] = "failed_permanent"
           \/ \E w \in Workers : pc'[w] = "dead_letter" /\ current'[w] = e
  PROVE  TraceInv'
<1>1. \A r \in Requests : request'[r].entry <= Len(entries')
  BY DEF TraceInv
<1>2. \A d : Awaited(d)' <=> Awaited(d)
  BY DEF Awaited
<1>3. ASSUME NEW e \in Events, Traced(e)
      PROVE  Traced(e)'
  BY <1>2, <1>3 DEF Traced
<1>4. ASSUME NEW e \in Events, status'[e] = "failed_permanent"
      PROVE  Traced(e)'
  <2>1. CASE status[e] = "failed_permanent"
    BY <1>3, <2>1 DEF TraceInv
  <2>2. CASE \E w \in Workers : pc'[w] = "dead_letter" /\ current'[w] = e
    BY <2>2 DEF Traced
  <2>3. QED  BY <1>4, <2>1, <2>2
<1>5. QED  BY <1>1, <1>4 DEF TraceInv

(* create_entry: the new entry is the last of the list, so that no request *)
(* has read it.                                                            *)
LEMMA CreateEntryTraces ==
  ASSUME TypeInv, TraceInv, NEW w \in Workers, CreateEntry(w)
  PROVE  TraceInv'
<1> DEFINE n   == Len(entries)
           new == [event |-> current[w], resolution |-> "new",
                   eligible |-> FALSE]
<1>1. /\ entries \in Seq(Entry) /\ entries' = Append(entries, new)
      /\ pc[w] = "dead_letter" /\ pc' = [pc EXCEPT ![w] = "next"]
      /\ UNCHANGED <<status, current, request, lost>>
      /\ pc \in [Workers -> Stages]
  BY DEF CreateEntry, TypeInv, TypeOK, eventVars, history
<1>2. /\ n \in Nat /\ Len(entries') = n + 1
      /\ DOMAIN entries' = 1 .. n + 1 /\ DOMAIN entries = 1 .. n
      /\ entries'[n + 1] = new
      /\ \A d \in DOMAIN entries : entries'[d] = entries[d]
  <2>1. n \in Nat /\ DOMAIN entries = 1 .. n
    BY <1>1
  <2>2. QED  BY <1>1, <2>1
<1>3. \A r \in Requests : request[r].entry \in Nat /\ request[r].entry <= n
  BY DEF TypeInv, TypeOK, TraceInv, Replay
<1>4. \A r \in Requests : request'[r].entry <= Len(entries')
  BY <1>1, <1>2, <1>3
<1>5. \A d : Awaited(d)' <=> Awaited(d)
  BY <1>1 DEF Awaited
<1>6. ~Awaited(n + 1)
  BY <1>2, <1>3 DEF Awaited
<1>7. ASSUME NEW e \in Events, status'[e] = "failed_permanent"
      PROVE  Traced(e)'
  <2>1. Traced(e)
    BY <1>1, <1>7 DEF TraceInv
  <2>2. CASE current[w] = e
    <3>1. n + 1 \in DOMAIN entries' /\ entries'[n + 1].event = e
          /\ entries'[n + 1].resolution # "replayed"
      BY <1>2, <2>2
    <3>2. QED  BY <1>5, <1>6, <3>1 DEF Traced
  <2>3. ASSUME NEW d \in DOMAIN entries, entries[d].event = e,
               entries[d].resolution # "replayed", ~Awaited(d)
        PROVE  Traced(e)'
    <3>1. d \in DOMAIN entries' /\ entries'[d] = entries[d]
      BY <1>2
    <3>2. QED  BY <1>5, <2>3, <3>1 DEF Traced
  <2>4. ASSUME NEW v \in Workers, pc[v] = "dead_letter", current[v] = e,
               current[w] # e
        PROVE  Traced(e)'
    <3>1. pc'[v] = "dead_letter" /\ current'[v] = e
      BY <1>1, <2>4
    <3>2. QED  BY <3>1 DEF Traced
  <2>5. CASE e \in lost
    BY <1>1, <2>5 DEF Traced
  <2>6. QED  BY <2>1, <2>2, <2>3, <2>4, <2>5 DEF Traced
<1>8. QED  BY <1>4, <1>7 DEF TraceInv

LEMMA WorkerTraces ==
  ASSUME TypeInv, TraceInv, NEW w \in Workers, WorkerStep(w) \/ Abort(w)
  PROVE  TraceInv'
<1> USE DEF TypeInv, TypeOK, eventVars, workerVars, history
<1>1. CASE SelectForUpdate(w)
  BY <1>1, TraceKept DEF SelectForUpdate
<1>2. CASE CommitClaim(w)
  BY <1>2, TraceKept DEF CommitClaim
<1>3. CASE BeginAttempt(w)
  BY <1>3, TraceKept DEF BeginAttempt
<1>4. CASE FinishBatch(w)
  BY <1>4, TraceKept DEF FinishBatch
<1>5. CASE ConsumerReturns(w)
  BY <1>5, TraceKept DEF ConsumerReturns
<1>6. CASE MarkPublished(w)
  BY <1>6, TraceKept DEF MarkPublished, Settle
<1>7. ASSUME NEW category \in {"retryable", "permanent"},
             ConsumerRaises(w, category)
      PROVE  TraceInv'
  <2>1. /\ pc[w] = "consuming"
        /\ \A v \in Workers : v # w => pc'[v] = pc[v]
        /\ UNCHANGED <<current, entries, request, lost>>
    BY <1>7 DEF ConsumerRaises, Settle
  <2>2. \/ /\ status' = [status EXCEPT ![current[w]] = "failed_permanent"]
           /\ pc' = [pc EXCEPT ![w] = "dead_letter"]
        \/ status' = [status EXCEPT ![current[w]] = "failed_retryable"]
    BY <1>7 DEF ConsumerRaises, Settle
  <2>3. \A e \in Events : status'[e] = "failed_permanent" =>
          \/ status[e] = "failed_permanent"
          \/ \E v \in Workers : pc'[v] = "dead_letter" /\ current'[v] = e
    BY <2>1, <2>2
  <2>4. \A v \in Workers : pc[v] = "dead_letter" =>
          pc'[v] = "dead_letter" /\ current'[v] = current[v]
    BY <2>1
  <2>5. QED  BY <2>1, <2>3, <2>4, TraceKept
<1>8. CASE CreateEntry(w)
  BY <1>8, CreateEntryTraces
<1>9. CASE Abort(w)
  <2>1. \A v \in Workers : pc[v] = "dead_letter" =>
          \/ pc'[v] = "dead_letter" /\ current'[v] = current[v]
          \/ current[v] \in lost'
    BY <1>9 DEF Abort
  <2>2. QED  BY <1>9, <2>1, TraceKept DEF Abort
<1>10. QED
  BY <1>1, <1>2, <1>3, <1>4, <1>5, <1>6, <1>7, <1>8, <1>9 DEF WorkerStep

(* A request that reads an entry of a failed event reads "failed_permanent"*)
(* with it, so it does not wait to close the entry behind a requeue.       *)
LEMMA ReadTraces ==
  ASSUME TypeInv, TraceInv, NEW d \in DOMAIN entries, NEW r \in Requests,
         ReplayRead(r, d)
  PROVE  TraceInv'
<1> DEFINE new == [entry |-> d, seen |-> status[entries[d].event]]
<1>1. /\ request' = [request EXCEPT ![r] = new]
      /\ UNCHANGED <<status, pc, current, entries, lost>>
      /\ request \in [Requests -> Replay] /\ entries \in Seq(Entry)
  BY DEF ReplayRead, TypeInv, TypeOK, eventVars, workerVars, history
<1>2. \A q \in Requests : request'[q].entry <= Len(entries')
  <2>1. d <= Len(entries)
    BY <1>1
  <2>2. QED  BY <1>1, <2>1 DEF TraceInv
<1>3. ASSUME NEW e \in Events, status'[e] = "failed_permanent"
      PROVE  Traced(e)'
  <2>1. Traced(e) /\ status[e] = "failed_permanent"
    BY <1>1, <1>3 DEF TraceInv
  <2>2. ASSUME NEW c \in DOMAIN entries, entries[c].event = e, ~Awaited(c)
        PROVE  ~Awaited(c)'
    <3>1. c # d \/ new.seen = "failed_permanent"
      BY <2>1, <2>2
    <3>2. QED  BY <1>1, <2>2, <3>1 DEF Awaited
  <2>3. QED  BY <1>1, <2>1, <2>2 DEF Traced
<1>4. QED  BY <1>2, <1>3 DEF TraceInv

(* The commit either requeues the event, which has then not failed, or     *)
(* closes an entry that was awaited and traced nothing.                    *)
LEMMA CommitTraces ==
  ASSUME TypeInv, TraceInv, NEW r \in Requests, ReplayCommit(r)
  PROVE  TraceInv'
<1> DEFINE d == request[r].entry
           f == entries[d].event
<1>1. /\ status' = [status EXCEPT ![f] = IF request[r].seen # "pending"
                                         THEN "pending" ELSE @]
      /\ entries' = [entries EXCEPT ![d].resolution = "replayed"]
      /\ request' = [request EXCEPT ![r] = NoReplay]
      /\ UNCHANGED <<pc, current, lost>>
      /\ request \in [Requests -> Replay] /\ entries \in Seq(Entry)
      /\ status \in [Events -> EventStatuses]
  BY DEF ReplayCommit, TypeInv, TypeOK, workerVars
<1>2. /\ DOMAIN entries' = DOMAIN entries /\ Len(entries') = Len(entries)
      /\ \A c \in DOMAIN entries : c # d => entries'[c] = entries[c]
  BY <1>1
<1>3. \A q \in Requests : request'[q].entry <= Len(entries')
  <2>1. NoReplay.entry <= Len(entries)
    BY <1>1 DEF NoReplay, None
  <2>2. QED  BY <1>1, <1>2, <2>1 DEF TraceInv
<1>4. \A c : Awaited(c)' => Awaited(c)
  BY <1>1 DEF Awaited, NoReplay
<1>5. ASSUME NEW e \in Events, status'[e] = "failed_permanent"
      PROVE  Traced(e)'
  <2>1. /\ status[e] = "failed_permanent"
        /\ f = e => request[r].seen = "pending"
    BY <1>1, <1>5
  <2>2. Traced(e)
    BY <2>1 DEF TraceInv
  <2>3. ASSUME NEW c \in DOMAIN entries, entries[c].event = e,
               entries[c].resolution # "replayed", ~Awaited(c)
        PROVE  Traced(e)'
    <3>1. c # d
      BY <2>1, <2>3 DEF Awaited
    <3>2. c \in DOMAIN entries' /\ entries'[c] = entries[c] /\ ~Awaited(c)'
      BY <1>2, <1>4, <2>3, <3>1
    <3>3. QED  BY <2>3, <3>2 DEF Traced
  <2>4. QED  BY <1>1, <2>2, <2>3 DEF Traced
<1>6. QED  BY <1>3, <1>5 DEF TraceInv

(* Triage never closes an entry.                                           *)
LEMMA TriageTraces ==
  ASSUME TypeInv, TraceInv, NEW d \in DOMAIN entries,
         NEW res \in Resolutions \ {"replayed"}, NEW el, SetEntry(d, res, el)
  PROVE  TraceInv'
<1>1. /\ entries' = [entries EXCEPT ![d].resolution = res, ![d].eligible = el]
      /\ UNCHANGED <<status, pc, current, request, lost>>
      /\ entries \in Seq(Entry)
  BY DEF SetEntry, TypeInv, TypeOK, eventVars, workerVars, history
<1>2. entries[d] \in Entry
  BY <1>1, EntryAt
<1>3. /\ DOMAIN entries' = DOMAIN entries /\ Len(entries') = Len(entries)
      /\ entries'[d].event = entries[d].event /\ entries'[d].resolution = res
      /\ \A c \in DOMAIN entries : c # d => entries'[c] = entries[c]
  BY <1>1, <1>2 DEF Entry
<1>4. \A q \in Requests : request'[q].entry <= Len(entries')
  BY <1>1, <1>3 DEF TraceInv
<1>5. \A c : Awaited(c)' <=> Awaited(c)
  BY <1>1 DEF Awaited
<1>6. ASSUME NEW e \in Events, status'[e] = "failed_permanent"
      PROVE  Traced(e)'
  <2>1. Traced(e)
    BY <1>1, <1>6 DEF TraceInv
  <2>2. ASSUME NEW c \in DOMAIN entries, entries[c].event = e,
               entries[c].resolution # "replayed", ~Awaited(c)
        PROVE  Traced(e)'
    <3>1. /\ c \in DOMAIN entries' /\ entries'[c].event = e
          /\ entries'[c].resolution # "replayed" /\ ~Awaited(c)'
      BY <1>3, <1>5, <2>2
    <3>2. QED  BY <3>1 DEF Traced
  <2>3. QED  BY <1>1, <2>1, <2>2 DEF Traced
<1>7. QED  BY <1>4, <1>6 DEF TraceInv

LEMMA NextTraces == TypeInv /\ TraceInv /\ [Next]_vars => TraceInv'
<1> SUFFICES ASSUME TypeInv, TraceInv, [Next]_vars  PROVE TraceInv'
  OBVIOUS
<1>1. CASE UNCHANGED vars
  BY <1>1, TraceKept DEF vars, eventVars, workerVars, history
<1>2. ASSUME NEW e \in Events, RecordDomainEvent(e) \/ BecomeDue(e) \/ Purge(e)
      PROVE  TraceInv'
  BY <1>2, TraceKept
     DEF RecordDomainEvent, BecomeDue, Purge, TypeInv, TypeOK, workerVars,
         history
<1>3. ASSUME NEW w \in Workers, WorkerStep(w) \/ Abort(w)
      PROVE  TraceInv'
  BY <1>3, WorkerTraces
<1>4. CASE StaffStep
  <2>1. ASSUME NEW d \in DOMAIN entries,
               MarkInvestigating(d) \/ MarkReplayReady(d) \/ IgnoreEntry(d)
        PROVE  TraceInv'
    BY <2>1, TriageTraces
       DEF MarkInvestigating, MarkReplayReady, IgnoreEntry, Resolutions
  <2>2. QED  BY <1>4, <2>1, ReadTraces, CommitTraces DEF StaffStep
<1>5. QED  BY <1>1, <1>2, <1>3, <1>4 DEF Next

(* However workers, triage and replays overlap, an event that failed for   *)
(* good has an open entry on the dead-letter list, unless its worker still *)
(* owes it or was stopped between the two commits.                         *)
THEOREM FailuresAreTraceable == Spec => []FailureTraceable
<1>1. Init => TypeInv /\ TraceInv
  <2>1. Init => TraceInv
    BY DEF Init, TraceInv, NoReplay, None
  <2>2. QED  BY <2>1, InitTypeInv
<1>2. TypeInv /\ TraceInv /\ [Next]_vars => (TypeInv /\ TraceInv)'
  BY NextTypeInv, NextTraces
<1>3. TraceInv => FailureTraceable
  BY DEF TraceInv, Traced, FailureTraceable
<1>4. QED  BY <1>1, <1>2, <1>3, PTL DEF Spec
=============================================================================

---------------------------- MODULE ScheduledJobs ----------------------------
(***************************************************************************)
(* The cron jobs of the worker: run_scheduled_job (worker/scheduling.py)   *)
(* takes a session-level advisory lock (app/jobs/locks.py), tracks the run *)
(* in a job_records row (app/jobs/runner.py) and gives the lock back.      *)
(* The session does all this over the connections of its replica's pool:   *)
(* every commit or rollback returns the connection, the next statement     *)
(* takes the one that has been idle longest.  An advisory lock belongs to  *)
(* the connection, not to the session.                                     *)
(***************************************************************************)
EXTENDS Naturals, FiniteSets, Sequences

CONSTANTS
  Replicas,     \* worker processes
  Jobs,         \* job types, each with its own lock key
  Runs,         \* bound: invocations that cron (or staff) starts
  Conns,        \* numbers of the database connections
  PoolSize,     \* connections a replica's pool keeps idle
  MaxJobs,      \* the max_jobs setting: invocations at once per replica
  MaxStops      \* bound: invocations cancelled and replicas crashed

NoReplica == "no replica"

ASSUME PoolAssumption  == PoolSize \in Nat \ {0}
ASSUME ConnsAssumption == Conns \subseteq Nat \ {0}
ASSUME BoundAssumption == MaxJobs \in Nat \ {0} /\ MaxStops \in Nat

ASSUME RunsAssumption  == IsFiniteSet(Runs) /\ NoReplica \notin Replicas

VARIABLES
  idle,       \* the idle connections of each replica's pool, oldest first
  owner,      \* the replica a connection was opened by, if it is open
  held,       \* how often a connection holds each job's advisory lock
  pc,         \* where each invocation is
  home,       \* the replica an invocation runs on
  job,        \* its job type
  conn,       \* the connection its session has checked out, if any
  record,     \* job_records.status of the row it inserted
  entry,      \* the dead-letter entry of that row
  cutOff,     \* history: runs that were cancelled or died with a replica
  raised,     \* history: runs whose func() raised in a transaction
  dropped,    \* history: jobs whose lock was closed with its connection
  crowded,    \* history: replicas that ran two invocations at once
  stops       \* cancellations and crashes so far

pool  == <<idle, owner, held, dropped>>
place == <<pc, home, job, conn, crowded>>
rows  == <<record, entry, cutOff, raised>>
vars  == <<pool, place, rows, stops>>

NoJob  == "no job"
NoConn == 0

Stages  == {"ready", "skipping", "locked", "between", "working", "recording",
            "dead_letter", "leaving", "closing", "over"}
Records == {"none", "running", "succeeded", "retry_wait", "failed_permanent",
            "pending", "cancelled"}
Entries == {"none", "new", "replay_ready", "replayed"}

(* Between taking the lock and giving it back.                             *)
Guarded == {"locked", "between", "working", "recording", "dead_letter",
            "leaving"}

-----------------------------------------------------------------------------
Init ==
  /\ idle = [r \in Replicas |-> <<>>]
  /\ owner = [c \in Conns |-> NoReplica]
  /\ held = [c \in Conns |-> [j \in Jobs |-> 0]]
  /\ dropped = {}
  /\ pc = [i \in Runs |-> "ready"]
  /\ home = [i \in Runs |-> NoReplica]
  /\ job = [i \in Runs |-> NoJob]
  /\ conn = [i \in Runs |-> NoConn]
  /\ crowded = {}
  /\ record = [i \in Runs |-> "none"]
  /\ entry = [i \in Runs |-> "none"]
  /\ cutOff = {} /\ raised = {}
  /\ stops = 0

-----------------------------------------------------------------------------
(* The connection pool                                                     *)
Closed == {c \in Conns : owner[c] = NoReplica}

(* What a checkout may return: the connection idle longest, or a new one.  *)
Available(r) ==
  IF idle[r] # <<>> THEN {Head(idle[r])}
                    ELSE {c \in Closed : \A d \in Closed : c <= d}

CheckOut(r, c) ==
  /\ c \in Available(r)
  /\ idle' = [idle EXCEPT ![r] = IF @ = <<>> THEN @ ELSE Tail(@)]
  /\ owner' = [owner EXCEPT ![c] = r]

(* A full pool closes the connection that comes back, and the server drops *)
(* the locks of a closed connection.                                       *)
CheckIn(r, c) ==
  IF Len(idle[r]) < PoolSize
  THEN /\ idle' = [idle EXCEPT ![r] = Append(@, c)]
       /\ UNCHANGED <<owner, held, dropped>>
  ELSE /\ owner' = [owner EXCEPT ![c] = NoReplica]
       /\ held' = [held EXCEPT ![c] = [j \in Jobs |-> 0]]
       /\ dropped' = dropped \union {j \in Jobs : held[c][j] > 0}
       /\ UNCHANGED idle

(* A transaction nothing interleaves with: out and straight back in.       *)
Borrow(r, c) ==
  /\ c \in Available(r)
  /\ idle' = [idle EXCEPT ![r] = Append(IF @ = <<>> THEN @ ELSE Tail(@), c)]
  /\ owner' = [owner EXCEPT ![c] = r]
  /\ UNCHANGED <<held, dropped>>

-----------------------------------------------------------------------------
(* run_scheduled_job and advisory_lock                                     *)
(* Mutant: pg_try_advisory_lock over a key every session may share.        *)
LockGrantedShared(c, j) == TRUE

(* pg_try_advisory_lock: granted unless another connection holds the key.  *)
LockGranted(c, j) == \A d \in Conns \ {c} : held[d][j] = 0

Active(r) == {i \in Runs : home[i] = r /\ pc[i] \notin {"ready", "over"}}

TryLock(i, r, j) ==
  /\ pc[i] = "ready" /\ Cardinality(Active(r)) < MaxJobs
  /\ \E c \in Conns :
       /\ CheckOut(r, c)
       /\ conn' = [conn EXCEPT ![i] = c]
       /\ IF LockGranted(c, j)
          THEN /\ held' = [held EXCEPT ![c][j] = @ + 1]
               /\ pc' = [pc EXCEPT ![i] = "locked"]
          ELSE /\ pc' = [pc EXCEPT ![i] = "skipping"]
               /\ UNCHANGED held
  /\ home' = [home EXCEPT ![i] = r]
  /\ job' = [job EXCEPT ![i] = j]
  /\ crowded' = IF Active(r) = {} THEN crowded ELSE crowded \union {r}
  /\ UNCHANGED <<dropped, rows, stops>>

Released(n) == IF n = 0 THEN 0 ELSE n - 1

(* Mutant: the lock is only given back when the session is in a transaction. *)
UnlockIfInTransaction(i) ==
  LET r == home[i]
      j == job[i]
  IN
  /\ pc[i] = "leaving"
  /\ \/ /\ conn[i] # NoConn
        /\ held' = [held EXCEPT ![conn[i]][j] = Released(@)]
        /\ UNCHANGED <<idle, owner, conn>>
     \/ /\ conn[i] = NoConn
        /\ \E c \in Conns : CheckOut(r, c) /\ conn' = [conn EXCEPT ![i] = c]
        /\ UNCHANGED held
  /\ pc' = [pc EXCEPT ![i] = "closing"]
  /\ UNCHANGED <<dropped, home, job, crowded, rows, stops>>

(* pg_advisory_unlock, on whichever connection the session has by now; it  *)
(* only warns if that connection does not hold the lock.                   *)
Unlock(i) ==
  LET r == home[i]
      j == job[i]
  IN
  /\ pc[i] = "leaving"
  /\ \E c \in Conns :
       /\ \/ conn[i] = c /\ UNCHANGED <<idle, owner, conn>>
          \/ conn[i] = NoConn /\ CheckOut(r, c)
                              /\ conn' = [conn EXCEPT ![i] = c]
       /\ held' = [held EXCEPT ![c][j] = Released(@)]
  /\ pc' = [pc EXCEPT ![i] = "closing"]
  /\ UNCHANGED <<dropped, home, job, crowded, rows, stops>>

(* session_scope commits, or closes, and the connection goes back.         *)
LeaveScope(i) ==
  /\ pc[i] \in {"skipping", "closing"}
  /\ CheckIn(home[i], conn[i])
  /\ conn' = [conn EXCEPT ![i] = NoConn]
  /\ pc' = [pc EXCEPT ![i] = "over"]
  /\ UNCHANGED <<home, job, crowded, rows, stops>>

-----------------------------------------------------------------------------
(* run_job                                                                 *)
Proceed(i, stage) ==
  /\ pc' = [pc EXCEPT ![i] = stage]
  /\ UNCHANGED <<home, job, crowded, stops>>

StartRecord(i) ==
  /\ pc[i] = "locked"
  /\ record' = [record EXCEPT ![i] = "running"]
  /\ CheckIn(home[i], conn[i])
  /\ conn' = [conn EXCEPT ![i] = NoConn]
  /\ Proceed(i, "between")
  /\ UNCHANGED <<entry, cutOff, raised>>

(* func() opens a transaction ...                                          *)
FuncQueries(i) ==
  /\ pc[i] = "between"
  /\ \E c \in Conns : CheckOut(home[i], c) /\ conn' = [conn EXCEPT ![i] = c]
  /\ Proceed(i, "working")
  /\ UNCHANGED <<held, dropped, rows>>

(* ... and some, like dispatch_pending_events, commit before they return.  *)
FuncCommits(i) ==
  /\ pc[i] = "working"
  /\ CheckIn(home[i], conn[i])
  /\ conn' = [conn EXCEPT ![i] = NoConn]
  /\ Proceed(i, "between")
  /\ UNCHANGED rows

(* func() has returned; its open transaction commits with the outcome.     *)
FuncReturns(i) ==
  /\ pc[i] = "working"
  /\ record' = [record EXCEPT ![i] = "succeeded"]
  /\ CheckIn(home[i], conn[i])
  /\ conn' = [conn EXCEPT ![i] = NoConn]
  /\ Proceed(i, "leaving")
  /\ UNCHANGED <<entry, cutOff, raised>>

(* func() raised, or timed out, in a transaction: the rollback expires     *)
(* `job`, reading job.attempts raises in turn and no outcome is recorded.  *)
FuncRaisesInTransaction(i) ==
  /\ pc[i] = "working"
  /\ CheckIn(home[i], conn[i])
  /\ conn' = [conn EXCEPT ![i] = NoConn]
  /\ raised' = raised \union {i}
  /\ Proceed(i, "leaving")
  /\ UNCHANGED <<record, entry, cutOff>>

(* func() raised outside a transaction: the rollback finds nothing to do.  *)
FuncRaises(i) ==
  /\ pc[i] = "between"
  /\ Proceed(i, "recording")
  /\ UNCHANGED <<pool, conn, rows>>

(* Mutant: a permanent failure goes on without create_entry.               *)
RecordFailureWithoutEntry(i, category) ==
  /\ pc[i] = "recording"
  /\ \E c \in Conns : Borrow(home[i], c)
  /\ record' = [record EXCEPT ![i] =
                  IF category = "permanent" THEN "failed_permanent"
                                            ELSE "retry_wait"]
  /\ Proceed(i, "leaving")
  /\ UNCHANGED <<conn, entry, cutOff, raised>>

(* attempts is 1 here, max_attempts 2 or 3: the category alone decides.    *)
RecordFailure(i, category) ==
  /\ pc[i] = "recording"
  /\ \E c \in Conns : Borrow(home[i], c)
  /\ \/ /\ category = "permanent"
        /\ record' = [record EXCEPT ![i] = "failed_permanent"]
        /\ Proceed(i, "dead_letter")
     \/ /\ category = "retryable"
        /\ record' = [record EXCEPT ![i] = "retry_wait"]
        /\ Proceed(i, "leaving")
  /\ UNCHANGED <<conn, entry, cutOff, raised>>

CreateEntry(i) ==
  /\ pc[i] = "dead_letter"
  /\ \E c \in Conns : Borrow(home[i], c)
  /\ entry' = [entry EXCEPT ![i] = "new"]
  /\ Proceed(i, "leaving")
  /\ UNCHANGED <<conn, record, cutOff, raised>>

-----------------------------------------------------------------------------
(* ARQ's own job_timeout or a shutdown cancels the invocation: no handler  *)
(* sees a CancelledError, only the lock's `finally` does.                  *)
CancelInvocation(i) ==
  /\ pc[i] \in Guarded \ {"leaving"} /\ stops < MaxStops
  /\ stops' = stops + 1
  /\ cutOff' = cutOff \union {i}
  /\ pc' = [pc EXCEPT ![i] = "leaving"]
  /\ UNCHANGED <<pool, home, job, conn, crowded, record, entry, raised>>

(* The process dies, its connections close and its invocations are gone.   *)
CrashReplica(r) ==
  LET mine == {c \in Conns : owner[c] = r} IN
  /\ stops < MaxStops /\ Active(r) # {}
  /\ stops' = stops + 1
  /\ idle' = [idle EXCEPT ![r] = <<>>]
  /\ owner' = [c \in Conns |-> IF c \in mine THEN NoReplica ELSE owner[c]]
  /\ held' = [c \in Conns |-> IF c \in mine THEN [j \in Jobs |-> 0]
                                            ELSE held[c]]
  /\ pc' = [i \in Runs |-> IF i \in Active(r) THEN "over" ELSE pc[i]]
  /\ conn' = [i \in Runs |-> IF i \in Active(r) THEN NoConn ELSE conn[i]]
  /\ cutOff' = cutOff \union Active(r)
  /\ UNCHANGED <<dropped, home, job, crowded, record, entry, raised>>

-----------------------------------------------------------------------------
(* Staff requests on the rows                                              *)
CancelJob(i) ==
  /\ record[i] \in {"pending", "retry_wait"}
  /\ record' = [record EXCEPT ![i] = "cancelled"]
  /\ UNCHANGED <<pool, place, entry, cutOff, raised, stops>>

MarkReplayReady(i) ==
  /\ entry[i] \notin {"none", "replay_ready"}
  /\ entry' = [entry EXCEPT ![i] = "replay_ready"]
  /\ UNCHANGED <<pool, place, record, cutOff, raised, stops>>

ReplayJob(i) ==
  /\ entry[i] = "replay_ready"
  /\ record' = [record EXCEPT ![i] = "pending"]
  /\ entry' = [entry EXCEPT ![i] = "replayed"]
  /\ UNCHANGED <<pool, place, cutOff, raised, stops>>

-----------------------------------------------------------------------------
RunStep(i) ==
  \/ Unlock(i) \/ LeaveScope(i) \/ StartRecord(i) \/ FuncQueries(i)
  \/ FuncCommits(i) \/ FuncReturns(i) \/ FuncRaisesInTransaction(i)
  \/ FuncRaises(i) \/ CreateEntry(i)
  \/ \E category \in {"permanent", "retryable"} : RecordFailure(i, category)

Tick(i) == \E r \in Replicas, j \in Jobs : TryLock(i, r, j)

StaffStep(i) == CancelJob(i) \/ MarkReplayReady(i) \/ ReplayJob(i)

(* Nothing left to do in the bounded number of invocations.                *)
AllOver == (\A i \in Runs : pc[i] = "over") /\ UNCHANGED vars

Next ==
  \/ \E i \in Runs : Tick(i) \/ RunStep(i) \/ CancelInvocation(i)
                             \/ StaffStep(i)
  \/ \E r \in Replicas : CrashReplica(r)
  \/ AllOver

Spec == Init /\ [][Next]_vars

-----------------------------------------------------------------------------
(* Properties                                                              *)

(* Every variable ranges over what pool, server and schema allow.          *)
TypeOK ==
  /\ idle \in [Replicas -> Seq(Conns)]
  /\ owner \in [Conns -> Replicas \union {NoReplica}]
  /\ held \in [Conns -> [Jobs -> Nat]]
  /\ pc \in [Runs -> Stages]
  /\ home \in [Runs -> Replicas \union {NoReplica}]
  /\ job \in [Runs -> Jobs \union {NoJob}]
  /\ conn \in [Runs -> Conns \union {NoConn}]
  /\ crowded \subseteq Replicas
  /\ record \in [Runs -> Records]
  /\ entry \in [Runs -> Entries]
  /\ cutOff \subseteq Runs /\ raised \subseteq Runs
  /\ dropped \subseteq Jobs
  /\ stops \in Nat

(* Although the lock is given back on whichever connection is at hand, two *)
(* replicas never run the same job at once, unless a pool closed the       *)
(* connection that held its lock.                                          *)
OneReplicaPerJob ==
  \A i, k \in Runs :
    pc[i] \in Guarded /\ pc[k] \in Guarded /\ job[i] = job[k] =>
      home[i] = home[k] \/ job[i] \in dropped

(* A lock outlives its job, so that later ticks are skipped, only on a     *)
(* replica whose invocations overlapped: the session of one that runs      *)
(* alone gets the same connection back each time, to the unlock included.  *)
NoLockLeft ==
  \A c \in Conns, j \in Jobs : held[c][j] > 0 =>
    owner[c] \in crowded \/ \E i \in Runs : job[i] = j /\ pc[i] \in Guarded

(* A row that says "running" has a run on its way to an outcome, unless    *)
(* func() raised in a transaction, and one that says "failed_permanent" is *)
(* on the dead-letter list or its run is about to put it there.  Only a    *)
(* run that was cancelled, or died with its replica, is not accounted for. *)
RowsTellTheRun ==
  \A i \in Runs \ cutOff :
    /\ record[i] = "running" =>
         pc[i] \in {"between", "working", "recording"} \/ i \in raised
    /\ record[i] = "failed_permanent" =>
         entry[i] \in {"new", "replay_ready"} \/ pc[i] = "dead_letter"

(* The docstring of run_job: "On failure: partial writes `func` may have   *)
(* flushed to `session` are rolled back before recording the failure".     *)
(* Whatever func() did, a run that was neither cancelled nor killed has    *)
(* recorded its outcome by the time it is over.                            *)
FailureIsRecorded ==
  \A i \in Runs \ cutOff : pc[i] = "over" => record[i] # "running"
=============================================================================

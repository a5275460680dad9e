---------------------------- MODULE TableBooking ----------------------------
(***************************************************************************)
(* Reservations, the tables they hold and the waitlist (app/reservations). *)
(* Nothing here takes a row lock: a request reads the rows it needs,       *)
(* decides, and writes what it decided when its transaction commits, so    *)
(* another request may have committed in between.  A reservation's window  *)
(* is a period of time; a table is free for it if no other reservation on  *)
(* that date and no block is in the way.                                   *)
(***************************************************************************)
EXTENDS Integers

CONSTANTS
  Sessions,       \* requests and jobs that others may overtake before they commit
  Reservations,
  Tables, NoTable,
  Entries,        \* waitlist entries
  Windows,        \* [from, to] a reservation or a block may ask for
  OpenWindows,    \* the windows within operating hours
  DayLength,      \* units of time in a date
  Before, After,  \* buffer_before_minutes, buffer_after_minutes
  SeatsParty,     \* the tables whose capacity suits each reservation
  Existing, Held, \* the statuses of the reservations at the start, and the
                  \* assignments of those that may have one
  Targets,        \* statuses staff ask for, of reservations and tables
  BlockTypes,     \* statuses a block puts its table in
  MaxSteps        \* bound: commits

ASSUME BookingAssumption ==
  /\ NoTable \notin Tables
  /\ \A w \in Windows : w.from \in Nat /\ w.to \in Nat /\ w.from < w.to
  /\ OpenWindows \subseteq Windows
  /\ DayLength \in Nat \ {0} /\ Before \in Nat /\ After \in Nat
  /\ SeatsParty \in [Reservations -> SUBSET Tables]
  /\ Reservations \intersect Tables = {}
  /\ Entries \intersect (Reservations \union Tables) = {}

VARIABLES
  status,     \* reservations.status, "none" before it is created
  window,     \* reservation_date, start_time and end_time
  holds,      \* active reservation_table_assignments: <<reservation, table>>
  floor,      \* restaurant_tables.status
  group,      \* restaurant_tables.merged_with_table_id
  blocks,     \* active table_blocks: <<table, window>>
  reminded,   \* reservations whose reminder has been scheduled
  entry,      \* status of each waitlist entry
  work,       \* what each session has decided and not committed
  steps,      \* bound: commits so far
  raced,      \* history: rows written on an outdated reading
  edited      \* history: reservations whose window changed under a table

vars == <<status, window, holds, floor, group, blocks, reminded, entry, work,
          steps, raced, edited>>

Idle == [idle |-> TRUE]

Terminal == {"completed", "no_show", "cancelled_by_customer",
             "cancelled_by_restaurant", "rejected", "expired"}

(* ALLOWED_TRANSITIONS, without the terminal statuses, which allow none.   *)
Transitions ==
  LET cancelled == {"cancelled_by_customer", "cancelled_by_restaurant"}
      reviewed  == {"approved", "rejected", "expired"} \union cancelled
  IN
  [ requested            |-> {"pending_review", "cancelled_by_customer", "expired"},
    pending_review       |-> {"needs_clarification"} \union reviewed,
    needs_clarification  |-> {"pending_review"} \union reviewed,
    approved             |-> {"confirmation_sending"} \union cancelled,
    confirmation_sending |-> {"confirmed"} \union cancelled,
    confirmed            |-> {"reminder_scheduled", "arrived", "no_show"} \union cancelled,
    reminder_scheduled   |-> {"arrived", "no_show"} \union cancelled,
    arrived              |-> {"seated", "cancelled_by_restaurant"},
    seated               |-> {"completed"} ]

(* Mutant: a cancelled reservation may be taken up again.                  *)
AllowedAfterCancel(from) ==
  IF from = "cancelled_by_customer" THEN {"arrived"}
  ELSE IF from \in DOMAIN Transitions THEN Transitions[from] ELSE {}

Allowed(from) == IF from \in DOMAIN Transitions THEN Transitions[from] ELSE {}

TableTransitions ==
  [ available   |-> {"reserved", "occupied", "cleaning", "blocked", "maintenance"},
    reserved    |-> {"occupied", "available", "blocked"},
    occupied    |-> {"cleaning", "available", "blocked"},
    cleaning    |-> {"available", "blocked", "maintenance"},
    blocked     |-> {"available", "maintenance"},
    maintenance |-> {"available"},
    merged      |-> {} ]

(* What the restaurant starts with.                                        *)
Statuses == DOMAIN Transitions \union Terminal \union {"none"}

ASSUME StartAssumption ==
  /\ Existing \subseteq [Reservations -> Statuses]
  /\ Held \subseteq Reservations \X Tables
  /\ \A h \in Held : /\ h[2] \in SeatsParty[h[1]]
                     /\ \A g \in Held : g[2] = h[2] => g = h
                     /\ \A old \in Existing : old[h[1]] # "none"

Init ==
  /\ status \in Existing
  /\ window \in [Reservations -> Windows]
  /\ \A r \in Reservations :
       status[r] = "none" => window[r] = CHOOSE w \in Windows : TRUE
  /\ holds \in {{}, Held} /\ blocks = {} /\ reminded = {}
  /\ floor = [t \in Tables |->
                IF \E h \in holds : h[2] = t THEN "reserved" ELSE "available"]
  /\ group = [t \in Tables |-> NoTable]
  /\ entry = [e \in Entries |-> "waiting"]
  /\ work = [s \in Sessions |-> Idle]
  /\ steps = 0
  /\ raced = {} /\ edited = {}

-----------------------------------------------------------------------------
Date(w) == w.from \div DayLength

Overlap(v, w) == v.from < w.to /\ w.from < v.to

Buffered(w) == [from |-> w.from - Before, to |-> w.to + After]

(* Mutant: a guest who is being served no longer counts.                   *)
ClaimsBeforeArrival ==
  DOMAIN Transitions \ {"arrived", "seated"}

(* _ACTIVE_RESERVATION_STATUSES: those with a claim on their table's time. *)
Claims == DOMAIN Transitions

(* get_table_conflicts: only reservations of the same date are compared.   *)
Conflicts(t, r) ==
  {q \in Reservations \ {r} :
     /\ <<q, t>> \in holds /\ status[q] \in Claims
     /\ Date(window[q]) = Date(window[r])
     /\ Overlap(Buffered(window[r]), window[q])}

(* is_table_available *)
Free(t, r) ==
  /\ floor[t] \notin {"blocked", "maintenance", "merged"}
  /\ t \in SeatsParty[r]
  /\ Conflicts(t, r) = {}
  /\ \A b \in blocks : b[1] = t => ~Overlap(window[r], b[2])

-----------------------------------------------------------------------------
(* What a request is going to write: rows of each table with their new     *)
(* values.  "seen" has the statuses it decided on.                         *)
None == [x \in {} |-> x]

Only(x, v) == [y \in {x} |-> v]

Updated(rows, new) ==
  [x \in DOMAIN rows |-> IF x \in DOMAIN new THEN new[x] ELSE rows[x]]

Nothing == [status |-> None, window |-> None, drop |-> {}, add |-> {},
            floor |-> None, group |-> None, block |-> {}, unblock |-> {},
            remind |-> {}, entry |-> None, seen |-> None]

HeldBy(r) == {h \in holds : h[1] = r}

Outdated(seen) ==
  \E x \in DOMAIN seen :
    seen[x] # (IF x \in Reservations THEN status[x]
               ELSE IF x \in Tables THEN floor[x] ELSE entry[x])

(* The commit.  An active assignment is unique by reservation and table, a *)
(* reminder by its reservation, a reservation by its idempotency key.      *)
Write(c) ==
  /\ steps < MaxSteps
  /\ c.add \intersect (holds \ c.drop) = {}
  /\ c.remind \intersect reminded = {}
  /\ \A r \in DOMAIN c.status \intersect DOMAIN c.window : status[r] = "none"
  /\ status' = Updated(status, c.status)
  /\ window' = Updated(window, c.window)
  /\ holds' = (holds \ c.drop) \union c.add
  /\ floor' = Updated(floor, c.floor)
  /\ group' = Updated(group, c.group)
  /\ blocks' = (blocks \ c.unblock) \union c.block
  /\ reminded' = reminded \union c.remind
  /\ entry' = Updated(entry, c.entry)
  /\ raced' = raced
       \union (IF Outdated(c.seen)
               THEN DOMAIN c.status \union DOMAIN c.floor \union DOMAIN c.entry ELSE {})
       \union {h[1] : h \in {x \in c.add : ~Free(x[2], x[1])}}
  /\ edited' = edited \union
       {r \in DOMAIN c.window : r \notin DOMAIN c.status /\ HeldBy(r) # {}}
  /\ steps' = steps + 1

(* A request or a job that has decided commits at once, or is overtaken by *)
(* others if the bound leaves room for them.                               *)
Serve(c) ==
  /\ steps < MaxSteps
  /\ \/ Write(c) /\ UNCHANGED work
     \/ /\ steps + 1 < MaxSteps
        /\ \E s \in Sessions :
             work[s] = Idle /\ work' = [work EXCEPT ![s] = c]
        /\ UNCHANGED <<status, window, holds, floor, group, blocks, reminded,
                       entry, steps, raced, edited>>

(* A new status for one reservation.                                       *)
Move(r, to) == [Nothing EXCEPT !.status = Only(r, to), !.seen = Only(r, status[r])]

(* New statuses for tables, decided on those of the tables in "read".      *)
MoveTables(new, read) ==
  [Nothing EXCEPT !.floor = new, !.seen = [t \in read |-> floor[t]]]

(* create_reservation, and a walk-in, which has arrived when it is created.*)
Create(r, w, walkIn) ==
  /\ status[r] = "none"
  /\ Serve([Move(r, IF walkIn THEN "arrived" ELSE "requested")
                 EXCEPT !.window = Only(r, w)])

(* The transition endpoint, open to every target the table allows.         *)
Transition(r, to) ==
  /\ to \in Allowed(status[r])
  /\ Serve(Move(r, to))

(* approve_reservation                                                     *)
Approve(r) ==
  /\ status[r] \in {"pending_review", "needs_clarification"}
  /\ window[r] \in OpenWindows
  /\ \E t \in Tables : Free(t, r)
  /\ Serve(Move(r, "approved"))

(* dispatch_reservation_reminders, for one of its reservations.            *)
Remind(r) ==
  /\ status[r] = "confirmed"
  /\ Serve([Move(r, "reminder_scheduled") EXCEPT !.remind = {r}])

(* update_reservation does not look at the tables the reservation holds.   *)
Edit(r, w) ==
  /\ status[r] \notin Terminal \union {"none"} /\ w # window[r]
  /\ Serve([Nothing EXCEPT !.window = Only(r, w)])

Assignable == {"approved", "confirmation_sending", "confirmed",
               "reminder_scheduled", "arrived", "seated"}

(* assign_tables: the tables replace those the reservation holds.          *)
Assign(r, new) ==
  LET to == IF status[r] \in {"arrived", "seated"} THEN "occupied" ELSE "reserved"
      moved == {t \in new : to \in TableTransitions[floor[t]]} IN
  /\ status[r] \in Assignable
  /\ \A t \in new : Free(t, r)
  /\ Serve([MoveTables([t \in moved |-> to], moved)
                 EXCEPT !.drop = HeldBy(r), !.add = {r} \X new])

(* unassign_tables *)
Unassign(r, release) ==
  LET freed == IF release
               THEN {t \in Tables : /\ <<r, t>> \in holds
                                    /\ "available" \in TableTransitions[floor[t]]}
               ELSE {} IN
  /\ HeldBy(r) # {}
  /\ Serve([MoveTables([t \in freed |-> "available"], freed)
                 EXCEPT !.drop = HeldBy(r)])

-----------------------------------------------------------------------------
(* transition_table_status *)
SetTable(t, to) ==
  /\ to \in TableTransitions[floor[t]]
  /\ Serve(MoveTables(Only(t, to), {t}))

(* Mutant: the primary table is not looked at.                             *)
MergeableSecondaries(primary, others) ==
  /\ others # {} /\ primary \notin others
  /\ \A t \in others : floor[t] # "merged"

Mergeable(primary, others) ==
  /\ others # {} /\ primary \notin others
  /\ \A t \in others \union {primary} : floor[t] # "merged"

(* merge_tables *)
Merge(primary, others) ==
  /\ Mergeable(primary, others)
  /\ Serve([MoveTables([t \in others |-> "merged"], others \union {primary})
                 EXCEPT !.group = [t \in others |-> primary]])

(* split_tables *)
Split(primary) ==
  LET merged == {t \in Tables : group[t] = primary} IN
  /\ merged # {}
  /\ Serve([MoveTables([t \in merged |-> "available"], merged)
                 EXCEPT !.group = [t \in merged |-> NoTable]])

(* create_table_block: reservations that hold the table are not looked at. *)
Block(t, w, to) ==
  /\ to \in TableTransitions[floor[t]] /\ <<t, w>> \notin blocks
  /\ Serve([MoveTables(Only(t, to), {t}) EXCEPT !.block = {<<t, w>>}])

(* release_table_block *)
Release(b) ==
  /\ b \in blocks
  /\ Serve([(IF "available" \in TableTransitions[floor[b[1]]]
                THEN MoveTables(Only(b[1], "available"), {b[1]}) ELSE Nothing)
                 EXCEPT !.unblock = {b}])

-----------------------------------------------------------------------------
Waiting == {"waiting", "notified"}

MoveEntry(e, to) == [Nothing EXCEPT !.entry = Only(e, to), !.seen = Only(e, entry[e])]

Notify(e) == entry[e] = "waiting" /\ Serve(MoveEntry(e, "notified"))

(* promote_waitlist_entry, for a reservation made before.                  *)
Promote(e) ==
  /\ entry[e] \in Waiting
  /\ \E r \in Reservations : status[r] # "none"
  /\ Serve(MoveEntry(e, "promoted"))

(* cancel_waitlist_entry, and expire_waitlist_entry by staff or by the job.*)
Dismiss(e, to) == entry[e] \in Waiting /\ Serve(MoveEntry(e, to))

-----------------------------------------------------------------------------
(* The commit of a request that waited.                                    *)
Commit(s) ==
  /\ work[s] # Idle
  /\ Write(work[s])
  /\ work' = [work EXCEPT ![s] = Idle]

(* An error, a lost connection.                                            *)
RollBack(s) ==
  /\ work[s] # Idle
  /\ work' = [work EXCEPT ![s] = Idle]
  /\ UNCHANGED <<status, window, holds, floor, group, blocks, reminded, entry,
                 steps, raced, edited>>

Next ==
  \/ \E r \in Reservations :
       \/ \E w \in Windows : Edit(r, w)
       \/ \E w \in Windows, walkIn \in BOOLEAN : Create(r, w, walkIn)
       \/ \E to \in Targets : Transition(r, to)
       \/ Approve(r) \/ Remind(r)
       \/ \E new \in (SUBSET Tables) \ {{}} : Assign(r, new)
       \/ \E release \in BOOLEAN : Unassign(r, release)
  \/ \E t \in Tables :
       \/ \E to \in Targets : SetTable(t, to)
       \/ \E others \in SUBSET Tables : Merge(t, others)
       \/ Split(t)
       \/ \E w \in Windows, to \in BlockTypes : Block(t, w, to)
  \/ \E b \in blocks : Release(b)
  \/ \E e \in Entries :
       \/ Notify(e) \/ Promote(e)
       \/ \E to \in {"cancelled", "expired"} : Dismiss(e, to)
  \/ \E s \in Sessions : Commit(s) \/ RollBack(s)

Spec == Init /\ [][Next]_vars

-----------------------------------------------------------------------------
UnderWay(r) == status[r] \notin Terminal \union {"none"}

(* assignment.py: never overbook.  Two reservations of a date that are     *)
(* under way have the same table at the same time only if one was written  *)
(* on an outdated reading, or was moved in time while it held its table.   *)
NeverOverbooked ==
  \A p, q \in Reservations \ (raced \union edited), t \in Tables :
    (/\ p # q /\ {<<p, t>>, <<q, t>>} \subseteq holds
     /\ UnderWay(p) /\ UnderWay(q)
     /\ Date(window[p]) = Date(window[q])) => ~Overlap(window[p], window[q])

(* A table is merged when it has a primary table, and going from primary   *)
(* to primary ends at a table that can be split off, unless a table was    *)
(* written on an outdated reading.                                         *)
GroupsCanBeSplit ==
  /\ \A t \in Tables \ raced : floor[t] = "merged" <=> group[t] # NoTable
  /\ \A S \in (SUBSET (Tables \ raced)) \ {{}} : \E t \in S : group[t] \notin S

(* A reservation or a waitlist entry that is over is taken up again only   *)
(* by a request that read it before it was.                                *)
OverStaysOver ==
  [][/\ \A r \in Reservations \ raced' : status[r] \in Terminal => status'[r] = status[r]
     /\ \A e \in Entries \ raced' : entry[e] \notin Waiting => entry'[e] = entry[e]]_vars
=============================================================================

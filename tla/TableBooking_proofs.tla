------------------------- MODULE TableBooking_proofs --------------------------
(***************************************************************************)
(* What TableBooking keeps for any number of reservations, tables, windows *)
(* and requests that overtake each other: a restaurant that is not         *)
(* overbooked, tables that can be split again and reservations that stay   *)
(* over, as far as nobody wrote a row on an outdated reading.  Each step   *)
(* writes a change that was decided earlier, so the invariant says what is *)
(* true of a change from the moment it is decided: which statuses it was   *)
(* decided on, and that these are the ones that allow it.                  *)
(***************************************************************************)
EXTENDS TableBooking, TLAPS

FloorStatuses == {"available", "reserved", "occupied", "cleaning", "blocked",
                  "maintenance", "merged"}

EntryStatuses == Waiting \union {"promoted", "cancelled", "expired"}

(* The rows stay within their types.                                       *)
TypeOK ==
  /\ status \in [Reservations -> Statuses]
  /\ window \in [Reservations -> Windows]
  /\ holds \subseteq Reservations \X Tables
  /\ floor \in [Tables -> FloorStatuses]
  /\ group \in [Tables -> Tables \union {NoTable}]
  /\ blocks \subseteq Tables \X Windows
  /\ reminded \subseteq Reservations
  /\ entry \in [Entries -> EntryStatuses]
  /\ steps \in Nat
  /\ edited \subseteq Reservations

(* A change of reservations: a status is decided on one that is not over,  *)
(* and only a new reservation gets a status with its window.               *)
ReservationsOK(c) ==
  /\ DOMAIN c.status \subseteq Reservations
  /\ DOMAIN c.window \subseteq Reservations
  /\ \A r \in DOMAIN c.status :
       /\ c.status[r] \in Statuses \ {"none"}
       /\ r \in DOMAIN c.seen /\ c.seen[r] \notin Terminal
       /\ c.seen[r] = "none" => r \in DOMAIN c.window
  /\ \A r \in DOMAIN c.window : c.window[r] \in Windows

(* New assignments: those of one reservation that exists.                  *)
AssignmentsOK(c) ==
  /\ c.add \subseteq Reservations \X Tables
  /\ c.add # {} => DOMAIN c.status = {} /\ DOMAIN c.window = {}
  /\ \A g, h \in c.add : g[1] = h[1]

(* A change of tables: one is merged exactly if it gets a primary table,   *)
(* which was seen unmerged, as were those whose group does not change.     *)
TablesOK(c) ==
  /\ DOMAIN c.floor \subseteq Tables
  /\ DOMAIN c.group \subseteq DOMAIN c.floor
  /\ \A t \in DOMAIN c.floor : c.floor[t] \in FloorStatuses
  /\ \A t \in DOMAIN c.floor \ DOMAIN c.group :
       c.floor[t] # "merged" /\ t \in DOMAIN c.seen /\ c.seen[t] # "merged"
  /\ \A t \in DOMAIN c.group :
       /\ c.group[t] \in Tables \union {NoTable}
       /\ c.floor[t] = "merged" <=> c.group[t] # NoTable
       /\ c.group[t] # NoTable =>
            /\ c.group[t] \in DOMAIN c.seen \ DOMAIN c.group
            /\ c.seen[c.group[t]] # "merged"

OthersOK(c) ==
  /\ DOMAIN c.entry \subseteq Entries
  /\ \A e \in DOMAIN c.entry :
       /\ c.entry[e] \in EntryStatuses
       /\ e \in DOMAIN c.seen /\ c.seen[e] \in Waiting
  /\ c.block \subseteq Tables \X Windows
  /\ c.remind \subseteq Reservations

ChangeOK(c) ==
  ReservationsOK(c) /\ AssignmentsOK(c) /\ TablesOK(c) /\ OthersOK(c)

(* Only reservations that exist hold tables, or are about to.              *)
HoldersExist(pairs) == \A h \in pairs : status[h[1]] # "none"

WorkOK == \A s \in Sessions : work[s] = Idle \/ (ChangeOK(work[s]) /\ HoldersExist(work[s].add))

IInv ==
  /\ TypeOK /\ WorkOK /\ HoldersExist(holds)
  /\ NeverOverbooked /\ GroupsCanBeSplit

-----------------------------------------------------------------------------
LEMMA StatusesAre ==
  /\ Claims = {"requested", "pending_review", "needs_clarification", "approved",
               "confirmation_sending", "confirmed", "reminder_scheduled",
               "arrived", "seated"}
  /\ Statuses = Claims \union Terminal \union {"none"}
  /\ Claims \intersect Terminal = {}
  /\ "none" \notin Claims \union Terminal
BY DEF Claims, Transitions, Statuses, Terminal

LEMMA AllowedIs ==
  ASSUME NEW from, NEW to \in Allowed(from)
  PROVE  from \in Claims /\ to \in Statuses \ {"none"}
<1>1. from \in DOMAIN Transitions /\ to \in Transitions[from]
  BY DEF Allowed
<1>2. to \in Claims \union Terminal
  BY <1>1, StatusesAre DEF Transitions, Terminal, Claims
<1> QED BY <1>1, <1>2, StatusesAre DEF Claims

LEMMA TableTransitionsAre ==
  ASSUME NEW from \in FloorStatuses, NEW to \in TableTransitions[from]
  PROVE  from # "merged" /\ to \in FloorStatuses \ {"merged"}
BY DEF TableTransitions, FloorStatuses

LEMMA OnlyIs ==
  ASSUME NEW x, NEW v
  PROVE  DOMAIN Only(x, v) = {x} /\ Only(x, v)[x] = v
BY DEF Only

LEMMA NoneIs == DOMAIN None = {}
BY DEF None

LEMMA UpdatedIs ==
  ASSUME NEW S, NEW T, NEW rows \in [S -> T], NEW new,
         \A x \in DOMAIN new : new[x] \in T
  PROVE  /\ Updated(rows, new) \in [S -> T]
         /\ \A x \in S : Updated(rows, new)[x] =
              IF x \in DOMAIN new THEN new[x] ELSE rows[x]
BY DEF Updated

-----------------------------------------------------------------------------
(* What is written                                                         *)
LEMMA NotOutdated ==
  ASSUME NEW seen, ~Outdated(seen), NEW x \in DOMAIN seen
  PROVE  /\ x \in Reservations => seen[x] = status[x]
         /\ x \in Tables => seen[x] = floor[x]
         /\ x \in Entries => seen[x] = entry[x]
BY BookingAssumption DEF Outdated

LEMMA WriteTypes ==
  ASSUME TypeOK, NEW c, ChangeOK(c), Write(c)
  PROVE  /\ TypeOK'
         /\ \A r \in Reservations :
              /\ status'[r] = IF r \in DOMAIN c.status THEN c.status[r] ELSE status[r]
              /\ window'[r] = IF r \in DOMAIN c.window THEN c.window[r] ELSE window[r]
         /\ \A t \in Tables :
              /\ floor'[t] = IF t \in DOMAIN c.floor THEN c.floor[t] ELSE floor[t]
              /\ group'[t] = IF t \in DOMAIN c.group THEN c.group[t] ELSE group[t]
         /\ \A e \in Entries :
              entry'[e] = IF e \in DOMAIN c.entry THEN c.entry[e] ELSE entry[e]
<1> USE DEF Write, TypeOK, ChangeOK
<1>1. /\ status' \in [Reservations -> Statuses]
      /\ \A r \in Reservations :
           status'[r] = IF r \in DOMAIN c.status THEN c.status[r] ELSE status[r]
  <2>1. status \in [Reservations -> Statuses] /\ status' = Updated(status, c.status)
    OBVIOUS
  <2>2. \A x \in DOMAIN c.status : c.status[x] \in Statuses
    BY DEF ReservationsOK
  <2> HIDE DEF TypeOK, Write, ChangeOK
  <2> QED BY <2>1, <2>2, UpdatedIs
<1>2. /\ window' \in [Reservations -> Windows]
      /\ \A r \in Reservations :
           window'[r] = IF r \in DOMAIN c.window THEN c.window[r] ELSE window[r]
  <2>1. window \in [Reservations -> Windows] /\ window' = Updated(window, c.window)
    OBVIOUS
  <2>2. \A x \in DOMAIN c.window : c.window[x] \in Windows
    BY DEF ReservationsOK
  <2> HIDE DEF TypeOK, Write, ChangeOK
  <2> QED BY <2>1, <2>2, UpdatedIs
<1>3. /\ floor' \in [Tables -> FloorStatuses]
      /\ \A t \in Tables :
           floor'[t] = IF t \in DOMAIN c.floor THEN c.floor[t] ELSE floor[t]
  <2>1. floor \in [Tables -> FloorStatuses] /\ floor' = Updated(floor, c.floor)
    OBVIOUS
  <2>2. \A x \in DOMAIN c.floor : c.floor[x] \in FloorStatuses
    BY DEF TablesOK
  <2> HIDE DEF TypeOK, Write, ChangeOK
  <2> QED BY <2>1, <2>2, UpdatedIs
<1>4. /\ group' \in [Tables -> Tables \union {NoTable}]
      /\ \A t \in Tables :
           group'[t] = IF t \in DOMAIN c.group THEN c.group[t] ELSE group[t]
  <2> DEFINE T == Tables \union {NoTable}
  <2>1. group \in [Tables -> T] /\ group' = Updated(group, c.group)
    OBVIOUS
  <2>2. \A x \in DOMAIN c.group : c.group[x] \in T
    BY DEF TablesOK
  <2>3. ASSUME NEW f, \A x \in DOMAIN f : f[x] \in T
        PROVE  /\ Updated(group, f) \in [Tables -> T]
               /\ \A t \in Tables :
                    Updated(group, f)[t] = IF t \in DOMAIN f THEN f[t] ELSE group[t]
    <3> HIDE DEF T, TypeOK, Write, ChangeOK
    <3> QED BY <2>1, <2>3, UpdatedIs
  <2> HIDE DEF TypeOK, Write, ChangeOK
  <2> QED BY <2>1, <2>2, <2>3
<1>5. /\ entry' \in [Entries -> EntryStatuses]
      /\ \A e \in Entries :
           entry'[e] = IF e \in DOMAIN c.entry THEN c.entry[e] ELSE entry[e]
  <2> DEFINE new == c.entry
  <2>1. entry \in [Entries -> EntryStatuses] /\ entry' = Updated(entry, new)
    OBVIOUS
  <2>2. \A x \in DOMAIN new : new[x] \in EntryStatuses
    BY DEF OthersOK
  <2>3. /\ entry' \in [Entries -> EntryStatuses]
        /\ \A e \in Entries : entry'[e] = IF e \in DOMAIN new THEN new[e] ELSE entry[e]
    <3> HIDE DEF new, TypeOK, Write, ChangeOK
    <3> QED BY <2>1, <2>2, UpdatedIs
  <2> QED BY <2>3
<1>6. holds' \subseteq Reservations \X Tables /\ blocks' \subseteq Tables \X Windows
  BY DEF AssignmentsOK, OthersOK
<1>7. reminded' \subseteq Reservations /\ edited' \subseteq Reservations /\ steps' \in Nat
  BY DEF ReservationsOK, OthersOK
<1> QED BY <1>1, <1>2, <1>3, <1>4, <1>5, <1>6, <1>7

(* A reservation keeps existing; one that is over stays over, if its       *)
(* status was not written on an outdated reading.                          *)
LEMMA WriteStatus ==
  ASSUME TypeOK, NEW c, ChangeOK(c), Write(c), NEW r \in Reservations
  PROVE  /\ status[r] # "none" => status'[r] # "none"
         /\ status[r] \in Terminal /\ r \notin raced' => status'[r] = status[r]
         /\ status[r] # "none" /\ UnderWay(r)' /\ r \notin raced' => UnderWay(r)
<1>1. status'[r] = IF r \in DOMAIN c.status THEN c.status[r] ELSE status[r]
  BY WriteTypes
<1>2. CASE r \notin DOMAIN c.status
  BY <1>1, <1>2 DEF UnderWay
<1>3. CASE r \in DOMAIN c.status
  <2>1. status'[r] # "none"
    BY <1>1, <1>3 DEF ChangeOK, ReservationsOK
  <2>2. ASSUME r \notin raced' PROVE status[r] \notin Terminal
    <3>1. ~Outdated(c.seen)
      BY <1>3, <2>2 DEF Write
    <3> QED BY <1>3, <3>1, NotOutdated DEF ChangeOK, ReservationsOK
  <2> QED BY <2>1, <2>2 DEF UnderWay
<1> QED BY <1>2, <1>3

LEMMA WriteEntry ==
  ASSUME TypeOK, NEW c, ChangeOK(c), Write(c), NEW e \in Entries,
         entry[e] \notin Waiting, e \notin raced'
  PROVE  entry'[e] = entry[e]
<1>1. CASE e \notin DOMAIN c.entry
  BY <1>1, WriteTypes
<1>2. CASE e \in DOMAIN c.entry
  <2>1. ~Outdated(c.seen)
    BY <1>2 DEF Write
  <2> QED BY <1>2, <2>1, NotOutdated DEF ChangeOK, OthersOK
<1> QED BY <1>1, <1>2

(* A reservation that holds a table keeps its window, or is edited.        *)
LEMMA WriteWindow ==
  ASSUME TypeOK, HoldersExist(holds), NEW c, ChangeOK(c), Write(c),
         NEW h \in holds, h[1] \notin edited'
  PROVE  window'[h[1]] = window[h[1]]
<1> DEFINE r == h[1]
<1>1. r \in Reservations /\ h \in HeldBy(r) /\ status[r] # "none"
  BY DEF TypeOK, HeldBy, HoldersExist
<1>2. CASE r \notin DOMAIN c.window
  BY <1>1, <1>2, WriteTypes
<1>3. CASE r \in DOMAIN c.window
  <2>1. r \notin DOMAIN c.status
    BY <1>1, <1>3 DEF Write
  <2>2. r \in edited'
    BY <1>1, <1>3, <2>1 DEF Write
  <2> QED BY <2>2
<1> QED BY <1>2, <1>3

LEMMA BufferedOverlap ==
  ASSUME NEW v \in Windows, NEW w \in Windows
  PROVE  /\ Overlap(v, w) => Overlap(Buffered(v), w)
         /\ Overlap(v, w) <=> Overlap(w, v)
<1>1. /\ v.from \in Nat /\ v.to \in Nat /\ w.from \in Nat /\ w.to \in Nat
      /\ Before \in Nat /\ After \in Nat
  BY BookingAssumption
<1>2. Buffered(v).from = v.from - Before /\ Buffered(v).to = v.to + After
  BY DEF Buffered
<1> QED BY <1>1, <1>2 DEF Overlap

(* A table is given to a reservation only when no other one has it then.   *)
LEMMA NewAssignment ==
  ASSUME TypeOK, NEW p \in Reservations, NEW q \in Reservations, NEW t \in Tables,
         p # q, Free(t, p), <<q, t>> \in holds, UnderWay(q),
         Date(window[p]) = Date(window[q])
  PROVE  ~Overlap(window[p], window[q])
<1>1. status[q] \in Claims
  BY StatusesAre DEF TypeOK, UnderWay
<1>2. q \notin Conflicts(t, p)
  BY DEF Free
<1>3. ~Overlap(Buffered(window[p]), window[q])
  BY <1>1, <1>2 DEF Conflicts
<1>4. window[p] \in Windows /\ window[q] \in Windows
  BY DEF TypeOK
<1> QED BY <1>3, <1>4, BufferedOverlap

LEMMA WriteNeverOverbooks ==
  ASSUME IInv, NEW c, ChangeOK(c), HoldersExist(c.add), Write(c)
  PROVE  NeverOverbooked'
<1> SUFFICES ASSUME NEW p \in Reservations \ (raced' \union edited'),
                    NEW q \in Reservations \ (raced' \union edited'), NEW t \in Tables,
                    p # q, <<p, t>> \in holds', <<q, t>> \in holds',
                    UnderWay(p)', UnderWay(q)',
                    Date(window'[p]) = Date(window'[q])
             PROVE  ~Overlap(window'[p], window'[q])
  BY DEF NeverOverbooked, Date, Overlap
<1>1. TypeOK /\ HoldersExist(holds)
  BY DEF IInv
<1>2. p \notin raced \union edited /\ q \notin raced \union edited
  BY DEF Write
<1>3. /\ <<p, t>> \in holds \/ <<p, t>> \in c.add
      /\ <<q, t>> \in holds \/ <<q, t>> \in c.add
  BY DEF Write
<1>4. status[p] # "none" /\ status[q] # "none"
  BY <1>1, <1>3 DEF HoldersExist
<1>5. UnderWay(p) /\ UnderWay(q)
  BY <1>1, <1>4, WriteStatus
<1>6. CASE <<p, t>> \in holds /\ <<q, t>> \in holds
  <2>1. window'[p] = window[p] /\ window'[q] = window[q]
    BY <1>1, <1>6, WriteWindow
  <2> QED BY <1>2, <1>5, <1>6, <2>1 DEF IInv, NeverOverbooked
<1>7. CASE c.add # {}
  <2>1. DOMAIN c.window = {}
    BY <1>7 DEF ChangeOK, AssignmentsOK
  <2>2. window'[p] = window[p] /\ window'[q] = window[q]
    BY <1>1, <2>1, WriteTypes
  <2>3. ~(<<p, t>> \in c.add /\ <<q, t>> \in c.add)
    BY DEF ChangeOK, AssignmentsOK
  <2>4. \A r \in {p, q} : <<r, t>> \in c.add => Free(t, r)
    BY DEF Write
  <2>5. window[p] \in Windows /\ window[q] \in Windows
    BY <1>1 DEF TypeOK
  <2>6. CASE <<p, t>> \in c.add /\ <<q, t>> \in holds
    BY <1>1, <1>5, <2>2, <2>4, <2>6, NewAssignment
  <2>7. CASE <<q, t>> \in c.add /\ <<p, t>> \in holds
    <3>1. ~Overlap(window[q], window[p])
      BY <1>1, <1>5, <2>2, <2>4, <2>7, NewAssignment
    <3> QED BY <2>2, <2>5, <3>1, BufferedOverlap
  <2> QED BY <1>3, <1>6, <2>3, <2>6, <2>7
<1> QED BY <1>3, <1>6, <1>7

(* A primary table was seen unmerged, so it begins no cycle.               *)
LEMMA WriteKeepsGroups ==
  ASSUME TypeOK, GroupsCanBeSplit, NEW c, ChangeOK(c), Write(c)
  PROVE  GroupsCanBeSplit'
<1>1. raced \subseteq raced'
  BY DEF Write
<1>2. \A t \in Tables :
        /\ floor'[t] = IF t \in DOMAIN c.floor THEN c.floor[t] ELSE floor[t]
        /\ group'[t] = IF t \in DOMAIN c.group THEN c.group[t] ELSE group[t]
  BY WriteTypes
<1>3. \A t \in DOMAIN c.floor : t \notin raced' => ~Outdated(c.seen)
  BY DEF Write
<1>4. /\ DOMAIN c.group \subseteq DOMAIN c.floor /\ DOMAIN c.floor \subseteq Tables
      /\ NoTable \notin Tables
  BY BookingAssumption DEF ChangeOK, TablesOK
<1>5. ASSUME NEW t \in Tables \ raced'
      PROVE  floor'[t] = "merged" <=> group'[t] # NoTable
  <2>1. floor[t] = "merged" <=> group[t] # NoTable
    BY <1>1 DEF GroupsCanBeSplit
  <2>2. CASE t \notin DOMAIN c.floor
    BY <1>2, <1>4, <2>1, <2>2
  <2>3. CASE t \in DOMAIN c.group
    BY <1>2, <1>4, <2>3 DEF ChangeOK, TablesOK
  <2>4. CASE t \in DOMAIN c.floor \ DOMAIN c.group
    <3>1. ~Outdated(c.seen)
      BY <1>3, <2>4
    <3>2. c.floor[t] # "merged" /\ t \in DOMAIN c.seen /\ c.seen[t] # "merged"
      BY <2>4 DEF ChangeOK, TablesOK
    <3>3. floor[t] # "merged"
      BY <3>1, <3>2, NotOutdated
    <3> QED BY <1>2, <2>1, <2>4, <3>2, <3>3
  <2> QED BY <2>2, <2>3, <2>4
<1>6. ASSUME NEW S \in (SUBSET (Tables \ raced')) \ {{}}
      PROVE  \E t \in S : group'[t] \notin S
  <2>1. CASE S \intersect DOMAIN c.group = {}
    <3>1. PICK t \in S : group[t] \notin S
      BY <1>1, <1>6 DEF GroupsCanBeSplit
    <3> QED BY <1>2, <2>1, <3>1
  <2>2. ASSUME NEW u \in S \intersect DOMAIN c.group
        PROVE  \E t \in S : group'[t] \notin S
    <3> DEFINE p == c.group[u]
    <3>1. group'[u] = p /\ p \in Tables \union {NoTable}
      BY <1>2, <2>2 DEF ChangeOK, TablesOK
    <3>2. CASE p \notin S
      BY <3>1, <3>2
    <3>3. CASE p \in S
      <4>1. p \in Tables \ raced' /\ p # NoTable
        BY <1>4, <3>3
      <4>2. p \in DOMAIN c.seen \ DOMAIN c.group /\ c.seen[p] # "merged"
        BY <4>1 DEF ChangeOK, TablesOK
      <4>3. ~Outdated(c.seen)
        BY <1>3, <1>4, <2>2
      <4>4. floor[p] # "merged"
        BY <4>1, <4>2, <4>3, NotOutdated
      <4>5. group[p] = NoTable
        BY <1>1, <4>1, <4>4 DEF GroupsCanBeSplit
      <4>6. group'[p] = NoTable
        BY <1>2, <4>1, <4>2, <4>5
      <4> QED BY <1>4, <3>3, <4>6
    <3> QED BY <3>2, <3>3
  <2> QED BY <2>1, <2>2
<1> QED BY <1>5, <1>6 DEF GroupsCanBeSplit

(* The whole of a write.                                                   *)
OverStep ==
  /\ \A r \in Reservations \ raced' : status[r] \in Terminal => status'[r] = status[r]
  /\ \A e \in Entries \ raced' : entry[e] \notin Waiting => entry'[e] = entry[e]

LEMMA WriteOK ==
  ASSUME IInv, NEW c, ChangeOK(c), HoldersExist(c.add), Write(c),
         \A s \in Sessions : work'[s] = Idle \/ work'[s] = work[s]
  PROVE  IInv' /\ OverStep
<1>1. TypeOK' /\ OverStep
  BY WriteTypes, WriteStatus, WriteEntry DEF IInv, OverStep
<1>2. \A r \in Reservations : status[r] # "none" => status'[r] # "none"
  BY WriteStatus DEF IInv
<1>3. HoldersExist(holds)'
  <2>1. \A h \in holds' : h \in holds \union c.add
    BY DEF Write
  <2>2. \A h \in holds \union c.add : h[1] \in Reservations /\ status[h[1]] # "none"
    BY DEF IInv, TypeOK, ChangeOK, AssignmentsOK, HoldersExist
  <2> QED BY <1>2, <2>1, <2>2 DEF HoldersExist
<1>4. WorkOK'
  <2> SUFFICES ASSUME NEW s \in Sessions, work'[s] # Idle
               PROVE  ChangeOK(work'[s]) /\ HoldersExist(work[s].add)' /\ work'[s] = work[s]
    BY DEF WorkOK, HoldersExist, ChangeOK, ReservationsOK, AssignmentsOK, TablesOK, OthersOK
  <2>1. work'[s] = work[s] /\ ChangeOK(work[s]) /\ HoldersExist(work[s].add)
    BY DEF IInv, WorkOK
  <2>2. \A h \in work[s].add : h[1] \in Reservations
    BY <2>1 DEF ChangeOK, AssignmentsOK
  <2> QED BY <1>2, <2>1, <2>2 DEF HoldersExist
<1>5. NeverOverbooked' /\ GroupsCanBeSplit'
  BY WriteNeverOverbooks, WriteKeepsGroups DEF IInv
<1> QED BY <1>1, <1>3, <1>4, <1>5 DEF IInv

LEMMA StillOK ==
  ASSUME IInv, UNCHANGED <<status, window, holds, floor, group, blocks, reminded,
                           entry, steps, raced, edited>>, WorkOK'
  PROVE  IInv' /\ OverStep
<1>1. TypeOK' /\ HoldersExist(holds)' /\ OverStep
  BY DEF IInv, TypeOK, HoldersExist, OverStep
<1>2. NeverOverbooked'
  BY DEF IInv, NeverOverbooked, UnderWay, Date, Overlap
<1>3. GroupsCanBeSplit'
  BY DEF IInv, GroupsCanBeSplit
<1> QED BY <1>1, <1>2, <1>3 DEF IInv

(* A change that is fit to be written may as well be written later.        *)
LEMMA ServeOK ==
  ASSUME IInv, NEW c, ChangeOK(c), HoldersExist(c.add), Serve(c)
  PROVE  IInv' /\ OverStep
<1>1. CASE Write(c) /\ UNCHANGED work
  BY <1>1, WriteOK
<1>2. CASE /\ \E s \in Sessions : work[s] = Idle /\ work' = [work EXCEPT ![s] = c]
           /\ UNCHANGED <<status, window, holds, floor, group, blocks, reminded,
                          entry, steps, raced, edited>>
  <2>1. PICK s \in Sessions : work' = [work EXCEPT ![s] = c]
    BY <1>2
  <2>2. \A u \in Sessions : work'[u] \in {c, work[u]}
    BY <2>1 DEF IInv
  <2>3. UNCHANGED status
    BY <1>2
  <2>4. ASSUME NEW u \in Sessions, work'[u] # Idle
        PROVE  ChangeOK(work'[u]) /\ \A h \in work'[u].add : status'[h[1]] # "none"
    <3>1. CASE work'[u] = c
      BY <2>3, <3>1 DEF HoldersExist
    <3>2. CASE work'[u] = work[u]
      BY <2>3, <2>4, <3>2 DEF IInv, WorkOK, HoldersExist
    <3> QED BY <2>2, <3>1, <3>2
  <2>5. WorkOK'
    BY <2>4 DEF WorkOK, HoldersExist, ChangeOK, ReservationsOK, AssignmentsOK, TablesOK, OthersOK
  <2> QED BY <1>2, <2>5, StillOK
<1> QED BY <1>1, <1>2 DEF Serve

-----------------------------------------------------------------------------
(* What each request decides                                               *)
LEMMA PlainChange ==
  ASSUME NEW c, c.add = {}, c.block = {}, c.remind \subseteq Reservations,
         DOMAIN c.floor = {}, DOMAIN c.group = {}, DOMAIN c.entry = {},
         ReservationsOK(c)
  PROVE  ChangeOK(c) /\ HoldersExist(c.add)
BY DEF ChangeOK, AssignmentsOK, TablesOK, OthersOK, HoldersExist

LEMMA MoveIs ==
  ASSUME TypeOK, NEW r \in Reservations, NEW to \in Statuses \ {"none"},
         status[r] \notin Terminal \union {"none"}, NEW remind \in SUBSET Reservations
  PROVE  /\ ChangeOK(Move(r, to)) /\ HoldersExist(Move(r, to).add)
         /\ LET c == [Move(r, to) EXCEPT !.remind = remind]
            IN  ChangeOK(c) /\ HoldersExist(c.add)
<1> DEFINE m == Move(r, to)
           c == [m EXCEPT !.remind = remind]
<1>1. /\ m.status = Only(r, to) /\ m.seen = Only(r, status[r])
      /\ m.window = None /\ m.add = {} /\ m.block = {} /\ m.remind = {}
      /\ m.floor = None /\ m.group = None /\ m.entry = None
  BY DEF Move, Nothing
<1>2. /\ c.status = Only(r, to) /\ c.seen = Only(r, status[r])
      /\ c.window = None /\ c.add = {} /\ c.block = {} /\ c.remind = remind
      /\ c.floor = None /\ c.group = None /\ c.entry = None
  BY DEF Move, Nothing
<1> HIDE DEF m, c
<1>3. ReservationsOK(m) /\ ReservationsOK(c)
  <2>1. /\ DOMAIN Only(r, to) = {r} /\ Only(r, to)[r] = to
        /\ DOMAIN Only(r, status[r]) = {r} /\ Only(r, status[r])[r] = status[r]
    BY OnlyIs
  <2> QED BY <1>1, <1>2, <2>1, NoneIs DEF ReservationsOK
<1>4. ChangeOK(m) /\ HoldersExist(m.add)
  BY <1>1, <1>3, NoneIs, PlainChange
<1>5. ChangeOK(c) /\ HoldersExist(c.add)
  BY <1>2, <1>3, NoneIs, PlainChange
<1> QED BY <1>4, <1>5 DEF m, c

LEMMA CreateOK ==
  ASSUME IInv, NEW r \in Reservations, NEW w \in Windows, NEW walkIn \in BOOLEAN,
         Create(r, w, walkIn)
  PROVE  IInv' /\ OverStep
<1> DEFINE to == IF walkIn THEN "arrived" ELSE "requested"
           c == [Move(r, to) EXCEPT !.window = Only(r, w)]
<1>1. /\ c.status = Only(r, to) /\ c.seen = Only(r, "none")
      /\ c.window = Only(r, w) /\ c.add = {} /\ c.block = {} /\ c.remind = {}
      /\ c.floor = None /\ c.group = None /\ c.entry = None
  BY DEF Move, Nothing, Create
<1>2. to \in Statuses \ {"none"} /\ "none" \notin Terminal
  BY StatusesAre
<1>3. Serve(c)
  BY DEF Create
<1> HIDE DEF c, to
<1>4. ReservationsOK(c)
  <2>1. /\ DOMAIN Only(r, to) = {r} /\ Only(r, to)[r] = to
        /\ DOMAIN Only(r, "none") = {r} /\ Only(r, "none")[r] = "none"
        /\ DOMAIN Only(r, w) = {r} /\ Only(r, w)[r] = w
    BY OnlyIs
  <2> QED BY <1>1, <1>2, <2>1 DEF ReservationsOK
<1>5. ChangeOK(c) /\ HoldersExist(c.add)
  BY <1>1, <1>4, NoneIs, PlainChange
<1> QED BY <1>3, <1>5, ServeOK

LEMMA TransitionOK ==
  ASSUME IInv, NEW r \in Reservations, NEW to, Transition(r, to)
  PROVE  IInv' /\ OverStep
<1>1. to \in Statuses \ {"none"} /\ status[r] \in Claims
  BY AllowedIs DEF Transition
<1>2. status[r] \notin Terminal \union {"none"}
  BY <1>1, StatusesAre
<1>3. ChangeOK(Move(r, to)) /\ HoldersExist(Move(r, to).add)
  BY <1>1, <1>2, MoveIs DEF IInv
<1> QED BY <1>3, ServeOK DEF Transition

LEMMA ApproveOK ==
  ASSUME IInv, NEW r \in Reservations, Approve(r)
  PROVE  IInv' /\ OverStep
<1>1. status[r] \notin Terminal \union {"none"} /\ "approved" \in Statuses \ {"none"}
  BY StatusesAre DEF Approve, Terminal
<1>2. ChangeOK(Move(r, "approved")) /\ HoldersExist(Move(r, "approved").add)
  BY <1>1, MoveIs DEF IInv
<1> QED BY <1>2, ServeOK DEF Approve

LEMMA RemindOK ==
  ASSUME IInv, NEW r \in Reservations, Remind(r)
  PROVE  IInv' /\ OverStep
<1> DEFINE c == [Move(r, "reminder_scheduled") EXCEPT !.remind = {r}]
<1>1. /\ status[r] \notin Terminal \union {"none"}
      /\ "reminder_scheduled" \in Statuses \ {"none"}
  BY StatusesAre DEF Remind, Terminal
<1>2. ChangeOK(c) /\ HoldersExist(c.add)
  BY <1>1, MoveIs DEF IInv
<1>3. Serve(c)
  BY DEF Remind
<1> HIDE DEF c
<1> QED BY <1>2, <1>3, ServeOK

LEMMA EditOK ==
  ASSUME IInv, NEW r \in Reservations, NEW w \in Windows, Edit(r, w)
  PROVE  IInv' /\ OverStep
<1> DEFINE c == [Nothing EXCEPT !.window = Only(r, w)]
<1>1. /\ c.status = None /\ c.window = Only(r, w) /\ c.seen = None
      /\ c.add = {} /\ c.block = {} /\ c.remind = {}
      /\ c.floor = None /\ c.group = None /\ c.entry = None
  BY DEF Nothing
<1>2. Serve(c)
  BY DEF Edit
<1> HIDE DEF c
<1>3. ReservationsOK(c)
  <2>1. DOMAIN Only(r, w) = {r} /\ Only(r, w)[r] = w
    BY OnlyIs
  <2> QED BY <1>1, <2>1, NoneIs DEF ReservationsOK
<1>4. ChangeOK(c) /\ HoldersExist(c.add)
  BY <1>1, <1>3, NoneIs, PlainChange
<1> QED BY <1>2, <1>4, ServeOK

(* Tables that move to a status their own allows.                          *)
LEMMA TablesMove ==
  ASSUME TypeOK, NEW c, NEW new, NEW to, DOMAIN new \subseteq Tables,
         \A t \in DOMAIN new : new[t] = to /\ to \in TableTransitions[floor[t]],
         c.floor = new, c.group = None, c.seen = [t \in DOMAIN new |-> floor[t]]
  PROVE  TablesOK(c)
<1>1. \A t \in DOMAIN new : floor[t] # "merged" /\ new[t] \in FloorStatuses \ {"merged"}
  BY TableTransitionsAre DEF TypeOK
<1> QED BY <1>1, NoneIs DEF TablesOK

LEMMA AssignOK ==
  ASSUME IInv, NEW r \in Reservations, NEW new \in SUBSET Tables, Assign(r, new)
  PROVE  IInv' /\ OverStep
<1> DEFINE to == IF status[r] \in {"arrived", "seated"} THEN "occupied" ELSE "reserved"
           moved == {t \in new : to \in TableTransitions[floor[t]]}
           rows == [t \in moved |-> to]
           c == [MoveTables(rows, moved) EXCEPT !.drop = HeldBy(r), !.add = {r} \X new]
<1>1. /\ c.status = None /\ c.window = None /\ c.add = {r} \X new
      /\ c.floor = rows /\ c.group = None /\ c.seen = [t \in moved |-> floor[t]]
      /\ c.block = {} /\ c.remind = {} /\ c.entry = None
  BY DEF MoveTables, Nothing
<1>2. Serve(c) /\ status[r] \in Assignable
  BY DEF Assign
<1>3. /\ DOMAIN rows = moved /\ moved \subseteq Tables
      /\ \A t \in moved : rows[t] = to /\ to \in TableTransitions[floor[t]]
  OBVIOUS
<1>4. status[r] # "none"
  BY <1>2 DEF Assignable
<1> HIDE DEF c, rows, moved, to
<1>5. TablesOK(c)
  BY <1>1, <1>3, TablesMove DEF IInv
<1>6. ReservationsOK(c) /\ AssignmentsOK(c) /\ OthersOK(c) /\ HoldersExist(c.add)
  BY <1>1, <1>4, NoneIs DEF ReservationsOK, AssignmentsOK, OthersOK, HoldersExist
<1> QED BY <1>2, <1>5, <1>6, ServeOK DEF ChangeOK

(* A change of tables only.                                                *)
LEMMA TableChange ==
  ASSUME IInv, NEW c, Serve(c), c.status = None, c.window = None, c.add = {},
         c.block \subseteq Tables \X Windows, c.remind = {}, c.entry = None, TablesOK(c)
  PROVE  IInv' /\ OverStep
<1>1. ReservationsOK(c) /\ AssignmentsOK(c) /\ OthersOK(c) /\ HoldersExist(c.add)
  BY NoneIs DEF ReservationsOK, AssignmentsOK, OthersOK, HoldersExist
<1> QED BY <1>1, ServeOK DEF ChangeOK

LEMMA UnassignOK ==
  ASSUME IInv, NEW r \in Reservations, NEW release \in BOOLEAN, Unassign(r, release)
  PROVE  IInv' /\ OverStep
<1> DEFINE freed == IF release
                    THEN {t \in Tables : /\ <<r, t>> \in holds
                                         /\ "available" \in TableTransitions[floor[t]]}
                    ELSE {}
           rows == [t \in freed |-> "available"]
           c == [MoveTables(rows, freed) EXCEPT !.drop = HeldBy(r)]
<1>1. /\ c.status = None /\ c.window = None /\ c.add = {}
      /\ c.floor = rows /\ c.group = None /\ c.seen = [t \in freed |-> floor[t]]
      /\ c.block = {} /\ c.remind = {} /\ c.entry = None
  BY DEF MoveTables, Nothing
<1>2. Serve(c)
  BY DEF Unassign
<1>3. /\ DOMAIN rows = freed /\ freed \subseteq Tables
      /\ \A t \in freed : rows[t] = "available" /\ "available" \in TableTransitions[floor[t]]
  OBVIOUS
<1> HIDE DEF c, rows, freed
<1>4. TablesOK(c)
  BY <1>1, <1>3, TablesMove DEF IInv
<1> QED BY <1>1, <1>2, <1>4, TableChange

LEMMA SetTableOK ==
  ASSUME IInv, NEW t \in Tables, NEW to, SetTable(t, to)
  PROVE  IInv' /\ OverStep
<1> DEFINE rows == Only(t, to)
           c == MoveTables(rows, {t})
<1>1. /\ c.status = None /\ c.window = None /\ c.add = {}
      /\ c.floor = rows /\ c.group = None /\ c.seen = [u \in {t} |-> floor[u]]
      /\ c.block = {} /\ c.remind = {} /\ c.entry = None
  BY DEF MoveTables, Nothing
<1>2. Serve(c) /\ to \in TableTransitions[floor[t]]
  BY DEF SetTable
<1>3. DOMAIN rows = {t} /\ rows[t] = to
  BY OnlyIs
<1> HIDE DEF c, rows
<1>4. TablesOK(c)
  BY <1>1, <1>2, <1>3, TablesMove DEF IInv
<1> QED BY <1>1, <1>2, <1>4, TableChange

LEMMA BlockOK ==
  ASSUME IInv, NEW t \in Tables, NEW w \in Windows, NEW to, Block(t, w, to)
  PROVE  IInv' /\ OverStep
<1> DEFINE rows == Only(t, to)
           c == [MoveTables(rows, {t}) EXCEPT !.block = {<<t, w>>}]
<1>1. /\ c.status = None /\ c.window = None /\ c.add = {}
      /\ c.floor = rows /\ c.group = None /\ c.seen = [u \in {t} |-> floor[u]]
      /\ c.block = {<<t, w>>} /\ c.remind = {} /\ c.entry = None
  BY DEF MoveTables, Nothing
<1>2. Serve(c) /\ to \in TableTransitions[floor[t]]
  BY DEF Block
<1>3. DOMAIN rows = {t} /\ rows[t] = to
  BY OnlyIs
<1> HIDE DEF c, rows
<1>4. TablesOK(c)
  BY <1>1, <1>2, <1>3, TablesMove DEF IInv
<1> QED BY <1>1, <1>2, <1>4, TableChange

LEMMA ReleaseOK ==
  ASSUME IInv, NEW b \in blocks, Release(b)
  PROVE  IInv' /\ OverStep
<1> DEFINE t == b[1]
           rows == Only(t, "available")
           m == MoveTables(rows, {t})
           c == [m EXCEPT !.unblock = {b}]
           d == [Nothing EXCEPT !.unblock = {b}]
<1>1. t \in Tables
  BY DEF IInv, TypeOK
<1>2. DOMAIN rows = {t} /\ rows[t] = "available"
  BY OnlyIs
<1>3. CASE "available" \in TableTransitions[floor[t]]
  <2>1. /\ c.status = None /\ c.window = None /\ c.add = {}
        /\ c.floor = rows /\ c.group = None /\ c.seen = [u \in {t} |-> floor[u]]
        /\ c.block = {} /\ c.remind = {} /\ c.entry = None
    BY DEF MoveTables, Nothing
  <2>2. Serve(c)
    BY <1>3 DEF Release
  <2> HIDE DEF c, rows, t
  <2>3. TablesOK(c)
    BY <1>1, <1>2, <1>3, <2>1, TablesMove DEF IInv
  <2> QED BY <2>1, <2>2, <2>3, TableChange
<1>4. CASE "available" \notin TableTransitions[floor[t]]
  <2>1. /\ d.status = None /\ d.window = None /\ d.add = {}
        /\ d.floor = None /\ d.group = None /\ d.block = {} /\ d.remind = {} /\ d.entry = None
    BY DEF Nothing
  <2>2. Serve(d)
    BY <1>4 DEF Release
  <2> HIDE DEF d
  <2>3. TablesOK(d)
    BY <2>1, NoneIs DEF TablesOK
  <2> QED BY <2>1, <2>2, <2>3, TableChange
<1> QED BY <1>3, <1>4

LEMMA MergeOK ==
  ASSUME IInv, NEW primary \in Tables, NEW others \in SUBSET Tables, Merge(primary, others)
  PROVE  IInv' /\ OverStep
<1> DEFINE rows == [t \in others |-> "merged"]
           read == others \union {primary}
           to == [t \in others |-> primary]
           c == [MoveTables(rows, read) EXCEPT !.group = to]
<1>1. /\ c.status = None /\ c.window = None /\ c.add = {}
      /\ c.floor = rows /\ c.group = to /\ c.seen = [t \in read |-> floor[t]]
      /\ c.block = {} /\ c.remind = {} /\ c.entry = None
  BY DEF MoveTables, Nothing
<1>2. /\ Serve(c) /\ primary \notin others /\ floor[primary] # "merged"
  BY DEF Merge, Mergeable
<1>3. /\ DOMAIN rows = others /\ \A t \in others : rows[t] = "merged"
      /\ DOMAIN to = others /\ \A t \in others : to[t] = primary
  OBVIOUS
<1>4. /\ DOMAIN [t \in read |-> floor[t]] = read /\ primary \in read
      /\ [t \in read |-> floor[t]][primary] = floor[primary]
  OBVIOUS
<1>5. primary # NoTable
  BY BookingAssumption
<1> HIDE DEF c, rows, to, read
<1>6. TablesOK(c)
  BY <1>1, <1>2, <1>3, <1>4, <1>5 DEF TablesOK, FloorStatuses
<1> QED BY <1>1, <1>2, <1>6, TableChange

LEMMA SplitOK ==
  ASSUME IInv, NEW primary \in Tables, Split(primary)
  PROVE  IInv' /\ OverStep
<1> DEFINE merged == {t \in Tables : group[t] = primary}
           rows == [t \in merged |-> "available"]
           to == [t \in merged |-> NoTable]
           c == [MoveTables(rows, merged) EXCEPT !.group = to]
<1>1. /\ c.status = None /\ c.window = None /\ c.add = {}
      /\ c.floor = rows /\ c.group = to
      /\ c.block = {} /\ c.remind = {} /\ c.entry = None
  BY DEF MoveTables, Nothing
<1>2. Serve(c)
  BY DEF Split
<1>3. /\ DOMAIN rows = merged /\ \A t \in merged : rows[t] = "available"
      /\ DOMAIN to = merged /\ \A t \in merged : to[t] = NoTable
      /\ merged \subseteq Tables
  OBVIOUS
<1> HIDE DEF c, rows, to, merged
<1>4. TablesOK(c)
  BY <1>1, <1>3 DEF TablesOK, FloorStatuses
<1> QED BY <1>1, <1>2, <1>4, TableChange

LEMMA EntryOK ==
  ASSUME IInv, NEW e \in Entries, NEW to \in EntryStatuses, entry[e] \in Waiting,
         Serve(MoveEntry(e, to))
  PROVE  IInv' /\ OverStep
<1> DEFINE c == MoveEntry(e, to)
<1>1. /\ c.status = None /\ c.window = None /\ c.add = {}
      /\ c.floor = None /\ c.group = None /\ c.seen = Only(e, entry[e])
      /\ c.block = {} /\ c.remind = {} /\ c.entry = Only(e, to)
  BY DEF MoveEntry, Nothing
<1> HIDE DEF c
<1>2. ReservationsOK(c) /\ AssignmentsOK(c) /\ TablesOK(c) /\ HoldersExist(c.add)
  BY <1>1, NoneIs DEF ReservationsOK, AssignmentsOK, TablesOK, HoldersExist
<1>3. OthersOK(c)
  <2>1. /\ DOMAIN Only(e, to) = {e} /\ Only(e, to)[e] = to
        /\ DOMAIN Only(e, entry[e]) = {e} /\ Only(e, entry[e])[e] = entry[e]
    BY OnlyIs
  <2> QED BY <1>1, <2>1 DEF OthersOK
<1> QED BY <1>2, <1>3, ServeOK DEF ChangeOK, c

LEMMA CommitOK ==
  ASSUME IInv, NEW s \in Sessions, Commit(s)
  PROVE  IInv' /\ OverStep
<1>1. Write(work[s]) /\ ChangeOK(work[s]) /\ HoldersExist(work[s].add)
  BY DEF Commit, IInv, WorkOK
<1>2. work' = [work EXCEPT ![s] = Idle]
  BY DEF Commit
<1>3. \A u \in Sessions : work'[u] = Idle \/ work'[u] = work[u]
  BY <1>2
<1> QED BY <1>1, <1>3, WriteOK

LEMMA RollBackOK ==
  ASSUME IInv, NEW s \in Sessions, RollBack(s)
  PROVE  IInv' /\ OverStep
<1>1. /\ UNCHANGED <<status, window, holds, floor, group, blocks, reminded, entry,
                     steps, raced, edited>>
      /\ work' = [work EXCEPT ![s] = Idle]
  BY DEF RollBack
<1>2. \A u \in Sessions : work'[u] = Idle \/ work'[u] = work[u]
  BY <1>1
<1>3. WorkOK'
  BY <1>1, <1>2 DEF IInv, WorkOK, HoldersExist, ChangeOK, ReservationsOK, AssignmentsOK,
                    TablesOK, OthersOK
<1> QED BY <1>1, <1>3, StillOK

-----------------------------------------------------------------------------
LEMMA InitOK == Init => IInv
<1> SUFFICES ASSUME Init PROVE IInv
  OBVIOUS
<1>1. /\ status \in Existing /\ window \in [Reservations -> Windows]
      /\ holds \in {{}, Held} /\ blocks = {} /\ reminded = {} /\ edited = {} /\ steps = 0
      /\ floor = [t \in Tables |->
                    IF \E h \in holds : h[2] = t THEN "reserved" ELSE "available"]
      /\ group = [t \in Tables |-> NoTable] /\ entry = [e \in Entries |-> "waiting"]
      /\ work = [s \in Sessions |-> Idle]
  BY DEF Init
<1>2. TypeOK
  <2>1. floor \in [Tables -> FloorStatuses]
    BY <1>1 DEF FloorStatuses
  <2>2. entry \in [Entries -> EntryStatuses]
    BY <1>1 DEF EntryStatuses, Waiting
  <2>3. status \in [Reservations -> Statuses] /\ holds \subseteq Reservations \X Tables
    BY <1>1, StartAssumption
  <2> QED BY <1>1, <2>1, <2>2, <2>3 DEF TypeOK
<1>3. HoldersExist(holds)
  BY <1>1, StartAssumption DEF HoldersExist
<1>4. NeverOverbooked
  <2>1. \A p, q \in Reservations, t \in Tables :
          <<p, t>> \in holds /\ <<q, t>> \in holds => p = q
    BY <1>1, StartAssumption
  <2> QED BY <2>1 DEF NeverOverbooked
<1>5. GroupsCanBeSplit
  <2>1. \A t \in Tables : floor[t] # "merged" /\ group[t] = NoTable
    BY <1>1
  <2>2. ASSUME NEW S \in (SUBSET (Tables \ raced)) \ {{}}
        PROVE  \E t \in S : group[t] \notin S
    <3>1. PICK t \in S : TRUE
      OBVIOUS
    <3>2. group[t] \notin S
      BY <2>1, BookingAssumption
    <3> QED BY <3>2
  <2> QED BY <2>1, <2>2 DEF GroupsCanBeSplit
<1>6. WorkOK
  BY <1>1 DEF WorkOK
<1> QED BY <1>2, <1>3, <1>4, <1>5, <1>6 DEF IInv

LEMMA NextOK == IInv /\ [Next]_vars => IInv' /\ OverStep
<1> SUFFICES ASSUME IInv, [Next]_vars PROVE IInv' /\ OverStep
  OBVIOUS
<1>1. ASSUME UNCHANGED vars PROVE IInv' /\ OverStep
  <2>1. UNCHANGED <<status, window, holds, floor, group, blocks, reminded, entry,
                    steps, raced, edited>> /\ UNCHANGED work
    BY <1>1 DEF vars
  <2>2. WorkOK'
    BY <2>1 DEF IInv, WorkOK, HoldersExist, ChangeOK, ReservationsOK, AssignmentsOK,
                TablesOK, OthersOK
  <2> QED BY <2>1, <2>2, StillOK
<1>2. ASSUME NEW r \in Reservations, NEW w \in Windows,
             Edit(r, w) \/ \E walkIn \in BOOLEAN : Create(r, w, walkIn)
      PROVE  IInv' /\ OverStep
  BY <1>2, EditOK, CreateOK
<1>3. ASSUME NEW r \in Reservations,
             (\E to \in Targets : Transition(r, to)) \/ Approve(r) \/ Remind(r)
      PROVE  IInv' /\ OverStep
  BY <1>3, TransitionOK, ApproveOK, RemindOK
<1>4. ASSUME NEW r \in Reservations,
             \/ \E new \in (SUBSET Tables) \ {{}} : Assign(r, new)
             \/ \E release \in BOOLEAN : Unassign(r, release)
      PROVE  IInv' /\ OverStep
  BY <1>4, AssignOK, UnassignOK
<1>5. ASSUME NEW t \in Tables,
             \/ \E to \in Targets : SetTable(t, to)
             \/ \E others \in SUBSET Tables : Merge(t, others)
             \/ Split(t)
             \/ \E w \in Windows, to \in BlockTypes : Block(t, w, to)
      PROVE  IInv' /\ OverStep
  BY <1>5, SetTableOK, MergeOK, SplitOK, BlockOK
<1>6. ASSUME NEW b \in blocks, Release(b) PROVE IInv' /\ OverStep
  BY <1>6, ReleaseOK
<1>7. ASSUME NEW e \in Entries,
             Notify(e) \/ Promote(e) \/ \E to \in {"cancelled", "expired"} : Dismiss(e, to)
      PROVE  IInv' /\ OverStep
  BY <1>7, EntryOK DEF Notify, Promote, Dismiss, Waiting, EntryStatuses
<1>8. ASSUME NEW s \in Sessions, Commit(s) \/ RollBack(s) PROVE IInv' /\ OverStep
  BY <1>8, CommitOK, RollBackOK
<1> QED BY <1>1, <1>2, <1>3, <1>4, <1>5, <1>6, <1>7, <1>8 DEF Next

(* reservations/assignment.py: two reservations of a date have the same    *)
(* table at the same time only if one was written on an outdated reading   *)
(* or was moved in time while it held the table.                           *)
THEOREM NoTableTwice == Spec => []NeverOverbooked
<1>1. IInv => NeverOverbooked
  BY DEF IInv
<1> QED BY <1>1, InitOK, NextOK, PTL DEF Spec

(* reservations/tables.py: however tables are merged, blocked, released    *)
(* and split, every group has a primary table it can be split off from.    *)
THEOREM GroupsSplit == Spec => []GroupsCanBeSplit
<1>1. IInv => GroupsCanBeSplit
  BY DEF IInv
<1> QED BY <1>1, InitOK, NextOK, PTL DEF Spec

(* reservations/states.py, waitlist.py: what is over stays over, unless it *)
(* is written on an outdated reading.                                      *)
THEOREM OverStays == Spec => OverStaysOver
<1>1. IInv /\ [Next]_vars => [OverStep]_vars
  BY NextOK
<1> QED BY <1>1, InitOK, NextOK, PTL DEF Spec, OverStaysOver, OverStep
=============================================================================

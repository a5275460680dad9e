------------------------- MODULE ScheduledJobs_proofs -------------------------
(***************************************************************************)
(* What ScheduledJobs keeps for any number of replicas, jobs, invocations  *)
(* and connections, and any size of pool: the type invariant, and that the *)
(* advisory lock, although no invocation keeps the connection that holds   *)
(* it, lets one replica at a time run a job.  The argument counts: as long *)
(* as no connection that held a job's lock was closed, one connection has  *)
(* taken that lock at least as often as there are invocations inside it.   *)
(***************************************************************************)
EXTENDS ScheduledJobs, FiniteSetTheorems, TLAPS

(* The connections of a pool, none of them idle twice.                     *)
In(s) == {s[n] : n \in 1 .. Len(s)}

Distinct(s) == \A m, n \in 1 .. Len(s) : s[m] = s[n] => m = n

PoolsOK ==
  /\ \A r \in Replicas : Distinct(idle[r])
  /\ \A r \in Replicas : \A c \in In(idle[r]) : owner[c] = r
  /\ \A c \in Conns, j \in Jobs : owner[c] = NoReplica => held[c][j] = 0

(* Who has checked out a connection: an open one of its own replica, which *)
(* is neither idle nor anybody else's.                                     *)
InTransaction == {"skipping", "locked", "working", "closing"}

SessionsOK ==
  /\ \A i \in Runs : pc[i] # "ready" => home[i] \in Replicas /\ job[i] \in Jobs
  /\ \A i \in Runs : pc[i] \in InTransaction => conn[i] # NoConn
  /\ \A i \in Runs : conn[i] # NoConn =>
       /\ pc[i] \in InTransaction \union {"leaving"}
       /\ owner[conn[i]] = home[i]
       /\ \A r \in Replicas : conn[i] \notin In(idle[r])
  /\ \A i, k \in Runs : conn[i] = conn[k] /\ conn[i] # NoConn => i = k

(* The invocations inside the lock of a job.                               *)
Inside(j) == {i \in Runs : pc[i] \in Guarded /\ job[i] = j}

Covers(c, j) ==
  /\ Cardinality(Inside(j)) <= held[c][j]
  /\ \A i \in Inside(j) : home[i] = owner[c]

LocksOK ==
  /\ \A j \in Jobs : \A c, d \in Conns : held[c][j] > 0 /\ held[d][j] > 0 => c = d
  /\ \A j \in Jobs \ dropped : Inside(j) # {} => \E c \in Conns : Covers(c, j)

IInv == TypeOK /\ PoolsOK /\ SessionsOK /\ LocksOK

(* TypeOK in two halves: what a connection passes through, and the rest.   *)
PoolTypes ==
  /\ idle \in [Replicas -> Seq(Conns)]
  /\ owner \in [Conns -> Replicas \union {NoReplica}]
  /\ held \in [Conns -> [Jobs -> Nat]]
  /\ dropped \subseteq Jobs
  /\ conn \in [Runs -> Conns \union {NoConn}]

RestTypes ==
  /\ pc \in [Runs -> Stages]
  /\ home \in [Runs -> Replicas \union {NoReplica}]
  /\ job \in [Runs -> Jobs \union {NoJob}]
  /\ crowded \subseteq Replicas
  /\ record \in [Runs -> Records]
  /\ entry \in [Runs -> Entries]
  /\ cutOff \subseteq Runs /\ raised \subseteq Runs
  /\ stops \in Nat

-----------------------------------------------------------------------------
(* Sequences without duplicates                                            *)
LEMMA TailDistinct ==
  ASSUME NEW S, NEW s \in Seq(S), s # <<>>, Distinct(s)
  PROVE  /\ Head(s) \in In(s)
         /\ Tail(s) \in Seq(S) /\ Distinct(Tail(s))
         /\ In(Tail(s)) = In(s) \ {Head(s)}
<1>1. /\ Len(s) \in Nat \ {0} /\ Head(s) = s[1]
      /\ Tail(s) \in Seq(S) /\ Len(Tail(s)) = Len(s) - 1
      /\ \A n \in 1 .. Len(s) - 1 : Tail(s)[n] = s[n + 1]
  OBVIOUS
<1>2. Head(s) \in In(s)
  BY <1>1 DEF In
<1>3. Distinct(Tail(s))
  BY <1>1 DEF Distinct
<1>4. In(Tail(s)) \subseteq In(s) \ {Head(s)}
  BY <1>1 DEF In, Distinct
<1>5. ASSUME NEW x \in In(s) \ {Head(s)}
      PROVE  x \in In(Tail(s))
  <2>1. PICK n \in 1 .. Len(s) : x = s[n]
    BY DEF In
  <2>2. n - 1 \in 1 .. Len(Tail(s)) /\ Tail(s)[n - 1] = x
    BY <1>1, <2>1
  <2> QED BY <2>2 DEF In
<1> QED BY <1>1, <1>2, <1>3, <1>4, <1>5

LEMMA AppendDistinct ==
  ASSUME NEW S, NEW s \in Seq(S), NEW e \in S, Distinct(s), e \notin In(s)
  PROVE  /\ Append(s, e) \in Seq(S) /\ Distinct(Append(s, e))
         /\ In(Append(s, e)) = In(s) \union {e}
<1>1. /\ Append(s, e) \in Seq(S) /\ Len(s) \in Nat
      /\ Len(Append(s, e)) = Len(s) + 1
      /\ \A n \in 1 .. Len(s) : Append(s, e)[n] = s[n]
      /\ Append(s, e)[Len(s) + 1] = e
  OBVIOUS
<1>2. \A n \in 1 .. Len(s) : s[n] # e
  BY DEF In
<1>3. Distinct(Append(s, e))
  BY <1>1, <1>2 DEF Distinct
<1>4. In(Append(s, e)) \subseteq In(s) \union {e}
  BY <1>1 DEF In
<1>5. In(s) \subseteq In(Append(s, e))
  BY <1>1 DEF In
<1>6. e \in In(Append(s, e))
  BY <1>1 DEF In
<1> QED BY <1>1, <1>3, <1>4, <1>5, <1>6

-----------------------------------------------------------------------------
(* What the operations of the pool do, with sets for its sequences         *)
Free(r, c) == c \in In(idle[r]) \/ owner[c] = NoReplica

LEMMA AvailableIsFree ==
  ASSUME TypeOK, NEW r \in Replicas, NEW c \in Available(r)
  PROVE  c \in Conns /\ Free(r, c) /\ (idle[r] # <<>> => c = Head(idle[r]))
<1>1. idle[r] \in Seq(Conns)
  BY DEF TypeOK
<1>2. CASE idle[r] # <<>>
  <2>1. c = Head(idle[r]) /\ Len(idle[r]) \in Nat \ {0} /\ Head(idle[r]) = idle[r][1]
    BY <1>1, <1>2 DEF Available
  <2>2. c \in In(idle[r])
    BY <2>1 DEF In
  <2>3. c \in Conns
    BY <1>1, <2>1
  <2> QED BY <2>1, <2>2, <2>3 DEF Free
<1>3. CASE idle[r] = <<>>
  BY <1>3 DEF Available, Closed, Free
<1> QED BY <1>2, <1>3

(* After c was taken: nobody has it idle and the replica owns it.          *)
LEMMA CheckOutEffect ==
  ASSUME TypeOK, PoolsOK, NEW r \in Replicas, NEW c \in Conns, CheckOut(r, c)
  PROVE  /\ Free(r, c)
         /\ idle' \in [Replicas -> Seq(Conns)]
         /\ owner' = [owner EXCEPT ![c] = r]
         /\ \A q \in Replicas : Distinct(idle'[q]) /\ In(idle'[q]) = In(idle[q]) \ {c}
<1>1. c \in Available(r) /\ owner' = [owner EXCEPT ![c] = r]
  BY DEF CheckOut
<1>2. Free(r, c) /\ (idle[r] # <<>> => c = Head(idle[r]))
  BY <1>1, AvailableIsFree
<1>3. idle \in [Replicas -> Seq(Conns)] /\ idle[r] \in Seq(Conns)
  BY DEF TypeOK
<1>4. \A q \in Replicas \ {r} : c \notin In(idle[q])
  BY <1>2, RunsAssumption DEF PoolsOK, Free
<1>5. CASE idle[r] # <<>>
  <2>1. idle' = [idle EXCEPT ![r] = Tail(@)]
    BY <1>5 DEF CheckOut
  <2>2. /\ Tail(idle[r]) \in Seq(Conns) /\ Distinct(Tail(idle[r]))
        /\ In(Tail(idle[r])) = In(idle[r]) \ {c}
    BY <1>2, <1>3, <1>5, TailDistinct DEF PoolsOK
  <2>3. idle' \in [Replicas -> Seq(Conns)]
    BY <1>3, <2>1, <2>2
  <2>4. ASSUME NEW q \in Replicas
        PROVE  Distinct(idle'[q]) /\ In(idle'[q]) = In(idle[q]) \ {c}
    <3>1. CASE q = r
      BY <1>3, <2>1, <2>2, <3>1
    <3>2. CASE q # r
      BY <1>3, <1>4, <2>1, <3>2 DEF PoolsOK
    <3> QED BY <3>1, <3>2
  <2> QED BY <1>1, <1>2, <2>3, <2>4
<1>6. CASE idle[r] = <<>>
  <2>1. idle' = idle
    BY <1>3, <1>6 DEF CheckOut
  <2>2. c \notin In(idle[r])
    BY <1>6 DEF In
  <2> QED BY <1>1, <1>2, <1>3, <1>4, <2>1, <2>2 DEF PoolsOK
<1> QED BY <1>5, <1>6

(* After c came back it is idle, or closed and without locks.              *)
Kept(r, c) ==
  /\ \A q \in Replicas : In(idle'[q]) = IF q = r THEN In(idle[r]) \union {c} ELSE In(idle[q])
  /\ UNCHANGED <<owner, held, dropped>>

Dropped(c) ==
  /\ \A q \in Replicas : In(idle'[q]) = In(idle[q])
  /\ owner' = [owner EXCEPT ![c] = NoReplica]
  /\ held' = [held EXCEPT ![c] = [j \in Jobs |-> 0]]
  /\ dropped' = dropped \union {j \in Jobs : held[c][j] > 0}

LEMMA CheckInEffect ==
  ASSUME TypeOK, PoolsOK, NEW r \in Replicas, NEW c \in Conns, CheckIn(r, c),
         c \notin In(idle[r])
  PROVE  /\ idle' \in [Replicas -> Seq(Conns)]
         /\ \A q \in Replicas : Distinct(idle'[q])
         /\ Kept(r, c) \/ Dropped(c)
<1>1. idle \in [Replicas -> Seq(Conns)] /\ idle[r] \in Seq(Conns) /\ Distinct(idle[r])
  BY DEF TypeOK, PoolsOK
<1>2. CASE Len(idle[r]) < PoolSize
  <2>1. /\ idle' = [idle EXCEPT ![r] = Append(@, c)]
        /\ UNCHANGED <<owner, held, dropped>>
    BY <1>2 DEF CheckIn
  <2>2. /\ Append(idle[r], c) \in Seq(Conns) /\ Distinct(Append(idle[r], c))
        /\ In(Append(idle[r], c)) = In(idle[r]) \union {c}
    BY <1>1, AppendDistinct
  <2>3. idle' \in [Replicas -> Seq(Conns)]
    BY <1>1, <2>1, <2>2
  <2>4. \A q \in Replicas : idle'[q] = IF q = r THEN Append(idle[r], c) ELSE idle[q]
    BY <1>1, <2>1
  <2>5. \A q \in Replicas : Distinct(idle'[q])
    BY <2>2, <2>4 DEF PoolsOK
  <2>6. ASSUME NEW q \in Replicas
        PROVE  In(idle'[q]) = IF q = r THEN In(idle[r]) \union {c} ELSE In(idle[q])
    <3>1. CASE q = r
      BY <2>2, <2>4, <3>1
    <3>2. CASE q # r
      BY <2>4, <3>2
    <3> QED BY <3>1, <3>2
  <2>7. Kept(r, c)
    BY <2>1, <2>6 DEF Kept
  <2> QED BY <2>3, <2>5, <2>7
<1>3. CASE ~(Len(idle[r]) < PoolSize)
  BY <1>1, <1>3 DEF CheckIn, Dropped, PoolsOK
<1> QED BY <1>2, <1>3

(* Out and back in: the replica owns c and it is idle.                     *)
LEMMA BorrowEffect ==
  ASSUME TypeOK, PoolsOK, NEW r \in Replicas, NEW c \in Conns, Borrow(r, c)
  PROVE  /\ Free(r, c)
         /\ idle' \in [Replicas -> Seq(Conns)]
         /\ owner' = [owner EXCEPT ![c] = r]
         /\ \A q \in Replicas : Distinct(idle'[q])
         /\ \A q \in Replicas : In(idle'[q]) = IF q = r THEN In(idle[r]) \union {c} ELSE In(idle[q])
<1>1. c \in Available(r) /\ owner' = [owner EXCEPT ![c] = r]
  BY DEF Borrow
<1>2. Free(r, c) /\ (idle[r] # <<>> => c = Head(idle[r]))
  BY <1>1, AvailableIsFree
<1>3. idle \in [Replicas -> Seq(Conns)] /\ idle[r] \in Seq(Conns) /\ Distinct(idle[r])
  BY DEF TypeOK, PoolsOK
<1> DEFINE rest == IF idle[r] = <<>> THEN idle[r] ELSE Tail(idle[r])
<1>4. rest \in Seq(Conns) /\ Distinct(rest) /\ In(rest) = In(idle[r]) \ {c}
  <2>1. CASE idle[r] # <<>>
    BY <1>2, <1>3, <2>1, TailDistinct
  <2>2. CASE idle[r] = <<>>
    BY <1>3, <2>2 DEF In
  <2> QED BY <2>1, <2>2
<1>5. idle' = [idle EXCEPT ![r] = Append(rest, c)]
  BY <1>3 DEF Borrow
<1> HIDE DEF rest
<1>6. /\ Append(rest, c) \in Seq(Conns) /\ Distinct(Append(rest, c))
      /\ In(Append(rest, c)) = In(idle[r]) \union {c}
  BY <1>4, AppendDistinct
<1>7. \A q \in Replicas : idle'[q] = IF q = r THEN Append(rest, c) ELSE idle[q]
  BY <1>3, <1>5
<1>8. idle' \in [Replicas -> Seq(Conns)]
  BY <1>3, <1>5, <1>6
<1> QED BY <1>1, <1>2, <1>6, <1>7, <1>8 DEF PoolsOK
-----------------------------------------------------------------------------
(* How a step keeps the three invariants                                   *)
LEMMA InsideFinite ==
  ASSUME NEW j \in Jobs
  PROVE  /\ IsFiniteSet(Inside(j)) /\ Cardinality(Inside(j)) \in Nat
         /\ Inside(j) # {} => Cardinality(Inside(j)) > 0
<1>1. IsFiniteSet(Inside(j))
  BY RunsAssumption, FS_Subset DEF Inside
<1> QED BY <1>1, FS_CardinalityType, FS_EmptySet

(* A step that lets nobody into a lock keeps the count, if the connection  *)
(* that covers a job keeps its owner and its locks.                        *)
LEMMA NobodyEnters ==
  ASSUME IInv, PoolTypes', dropped \subseteq dropped',
         \A i \in Runs : pc'[i] \in Guarded =>
           pc[i] \in Guarded /\ job'[i] = job[i] /\ home'[i] = home[i],
         \A c \in Conns, j \in Jobs : held'[c][j] <= held[c][j],
         \A c \in Conns : \A j \in Jobs \ dropped' :
           Covers(c, j) /\ held[c][j] > 0 /\ Inside(j)' # {} =>
             held'[c][j] = held[c][j] /\ owner'[c] = owner[c]
  PROVE  LocksOK'
<1>1. \A j \in Jobs : \A c, d \in Conns : held'[c][j] > 0 /\ held'[d][j] > 0 => c = d
  <2> SUFFICES ASSUME NEW j \in Jobs, NEW c \in Conns, NEW d \in Conns,
                      held'[c][j] > 0, held'[d][j] > 0
               PROVE  c = d
    OBVIOUS
  <2>1. /\ held[c][j] \in Nat /\ held[d][j] \in Nat
        /\ held'[c][j] \in Nat /\ held'[d][j] \in Nat
    BY DEF IInv, TypeOK, PoolTypes
  <2>2. held[c][j] > 0 /\ held[d][j] > 0
    BY <2>1
  <2> QED BY <2>2 DEF IInv, LocksOK
<1>2. ASSUME NEW j \in Jobs \ dropped', Inside(j)' # {}
      PROVE  \E c \in Conns : Covers(c, j)'
  <2>1. Inside(j)' \subseteq Inside(j)
    BY DEF Inside
  <2>2. PICK c \in Conns : Covers(c, j)
    BY <1>2, <2>1 DEF IInv, LocksOK
  <2>3. /\ Cardinality(Inside(j)') \in Nat /\ Cardinality(Inside(j)) \in Nat
        /\ Cardinality(Inside(j)') <= Cardinality(Inside(j))
        /\ Cardinality(Inside(j)) > 0
    BY <1>2, <2>1, InsideFinite, FS_Subset, FS_CardinalityType
  <2>4. held[c][j] \in Nat
    BY DEF IInv, TypeOK
  <2>5. held'[c][j] = held[c][j] /\ owner'[c] = owner[c]
    BY <1>2, <2>2, <2>3, <2>4 DEF Covers
  <2>6. Covers(c, j)'
    BY <2>1, <2>2, <2>3, <2>4, <2>5 DEF Covers, Inside
  <2> QED BY <2>6
<1> QED BY <1>1, <1>2 DEF LocksOK

Others(i) ==
  \A k \in Runs \ {i} :
    /\ pc'[k] = pc[k] /\ home'[k] = home[k] /\ job'[k] = job[k]
    /\ conn'[k] = conn[k]

(* The session of i takes a connection; only that connection's locks may   *)
(* change.                                                                 *)
LEMMA TakeKeepsSessions ==
  ASSUME IInv, NEW i \in Runs, NEW r \in Replicas, NEW c \in Conns,
         CheckOut(r, c), RestTypes', Others(i), conn' = [conn EXCEPT ![i] = c],
         home'[i] = r, job'[i] \in Jobs, pc'[i] \in InTransaction,
         held' \in [Conns -> [Jobs -> Nat]], dropped' = dropped,
         \A d \in Conns \ {c} : held'[d] = held[d]
  PROVE  PoolTypes' /\ PoolsOK' /\ SessionsOK'
<1>1. /\ Free(r, c)
      /\ idle' \in [Replicas -> Seq(Conns)]
      /\ owner' = [owner EXCEPT ![c] = r]
      /\ \A q \in Replicas : Distinct(idle'[q]) /\ In(idle'[q]) = In(idle[q]) \ {c}
  BY CheckOutEffect DEF IInv
<1>2. PoolTypes'
  BY <1>1 DEF PoolTypes, IInv, TypeOK
<1>3. PoolsOK'
  BY <1>1, RunsAssumption DEF PoolsOK, IInv, TypeOK
<1>4. conn \in [Runs -> Conns \union {NoConn}] /\ owner \in [Conns -> Replicas \union {NoReplica}]
  BY DEF IInv, TypeOK
<1>5. c # NoConn
  BY ConnsAssumption DEF NoConn
<1>6. \A k \in Runs : conn[k] # NoConn => home[k] \in Replicas /\ conn[k] \in Conns
  BY <1>4 DEF IInv, SessionsOK, InTransaction
<1>7. ASSUME NEW k \in Runs, conn[k] = c
      PROVE  FALSE
  <2>1. /\ owner[c] = home[k] /\ home[k] \in Replicas
        /\ \A q \in Replicas : c \notin In(idle[q])
    BY <1>5, <1>6, <1>7 DEF IInv, SessionsOK
  <2> QED BY <1>1, <2>1, RunsAssumption DEF Free
<1>8. conn'[i] = c /\ owner'[c] = r
  BY <1>1, <1>4
<1>9. \A k \in Runs : pc'[k] # "ready" => home'[k] \in Replicas /\ job'[k] \in Jobs
  BY DEF IInv, SessionsOK, Others
<1>10. \A k \in Runs : pc'[k] \in InTransaction => conn'[k] # NoConn
  BY <1>5, <1>8 DEF IInv, SessionsOK, Others
<1>11. ASSUME NEW k \in Runs, conn'[k] # NoConn
       PROVE  /\ pc'[k] \in InTransaction \union {"leaving"}
              /\ owner'[conn'[k]] = home'[k]
              /\ \A q \in Replicas : conn'[k] \notin In(idle'[q])
  <2>1. CASE k = i
    BY <1>1, <1>8, <2>1
  <2>2. CASE k # i
    <3>1. /\ pc'[k] = pc[k] /\ home'[k] = home[k] /\ conn'[k] = conn[k]
          /\ conn[k] # NoConn /\ conn[k] \in Conns /\ conn[k] # c
      BY <1>4, <1>6, <1>7, <1>11, <2>2 DEF Others
    <3>2. /\ pc[k] \in InTransaction \union {"leaving"}
          /\ owner[conn[k]] = home[k]
          /\ \A q \in Replicas : conn[k] \notin In(idle[q])
      BY <3>1 DEF IInv, SessionsOK
    <3>3. owner'[conn[k]] = owner[conn[k]]
      BY <1>1, <1>4, <3>1
    <3>4. \A q \in Replicas : In(idle'[q]) \subseteq In(idle[q])
      BY <1>1
    <3>5. QED  BY <3>1, <3>2, <3>3, <3>4
  <2> QED BY <2>1, <2>2
<1>12. \A k, l \in Runs : conn'[k] = conn'[l] /\ conn'[k] # NoConn => k = l
  BY <1>7, <1>8 DEF IInv, SessionsOK, Others
<1>13. SessionsOK'
  BY <1>9, <1>10, <1>11, <1>12 DEF SessionsOK
<1> QED BY <1>2, <1>3, <1>13

(* A connection that is taken without a lock.                              *)
LEMMA TakeKeepsAll ==
  ASSUME IInv, NEW i \in Runs, NEW r \in Replicas, NEW c \in Conns,
         CheckOut(r, c), RestTypes', Others(i), conn' = [conn EXCEPT ![i] = c],
         home'[i] = r, job'[i] \in Jobs, pc'[i] \in InTransaction,
         UNCHANGED <<held, dropped>>,
         pc'[i] \in Guarded => pc[i] \in Guarded /\ job'[i] = job[i] /\ home[i] = r
  PROVE  IInv'
<1>1. PoolTypes' /\ PoolsOK' /\ SessionsOK'
  BY TakeKeepsSessions DEF IInv, TypeOK
<1>2. Free(r, c) /\ owner' = [owner EXCEPT ![c] = r]
  BY CheckOutEffect DEF IInv
<1>3. \A d \in Conns, j \in Jobs : held[d][j] > 0 => owner'[d] = owner[d]
  BY <1>2 DEF IInv, PoolsOK, TypeOK, Free
<1>4. \A k \in Runs : pc'[k] \in Guarded =>
         pc[k] \in Guarded /\ job'[k] = job[k] /\ home'[k] = home[k]
  BY DEF Others
<1>5. \A d \in Conns, j \in Jobs : held'[d][j] <= held[d][j]
  BY DEF IInv, TypeOK
<1>6. LocksOK'
  BY <1>1, <1>3, <1>4, <1>5, NobodyEnters
<1> QED BY <1>1, <1>6 DEF IInv, TypeOK, PoolTypes, RestTypes

(* The session of i gives its connection back.                             *)
LEMMA GiveKeepsAll ==
  ASSUME IInv, NEW i \in Runs, conn[i] # NoConn, CheckIn(home[i], conn[i]),
         RestTypes', Others(i), conn' = [conn EXCEPT ![i] = NoConn],
         UNCHANGED <<home, job>>, pc'[i] \notin InTransaction,
         pc'[i] \in Guarded => pc[i] \in Guarded
  PROVE  IInv'
<1> DEFINE c == conn[i]
           r == home[i]
<1>1. /\ conn \in [Runs -> Conns \union {NoConn}]
      /\ owner \in [Conns -> Replicas \union {NoReplica}]
      /\ held \in [Conns -> [Jobs -> Nat]]
  BY DEF IInv, TypeOK
<1>2. /\ c \in Conns /\ r \in Replicas /\ pc[i] # "ready" /\ owner[c] = r
      /\ \A q \in Replicas : c \notin In(idle[q])
  BY <1>1 DEF IInv, SessionsOK, InTransaction
<1>3. /\ idle' \in [Replicas -> Seq(Conns)]
      /\ \A q \in Replicas : Distinct(idle'[q])
      /\ Kept(r, c) \/ Dropped(c)
  BY <1>2, CheckInEffect DEF IInv
<1>4. PoolTypes'
  <2>1. conn' \in [Runs -> Conns \union {NoConn}]
    BY <1>1
  <2>2. CASE Kept(r, c)
    BY <1>3, <2>1, <2>2 DEF PoolTypes, IInv, TypeOK, Kept
  <2>3. CASE Dropped(c)
    <3>1. held' \in [Conns -> [Jobs -> Nat]]
      BY <1>1, <2>3 DEF Dropped
    <3>2. owner' \in [Conns -> Replicas \union {NoReplica}]
      BY <1>1, <2>3 DEF Dropped
    <3>3. dropped' \subseteq Jobs
      BY <2>3 DEF Dropped, IInv, TypeOK
    <3> QED BY <1>3, <2>1, <3>1, <3>2, <3>3 DEF PoolTypes
  <2> QED BY <1>3, <2>2, <2>3
<1>5. PoolsOK'
  <2>1. CASE Kept(r, c)
    BY <1>2, <1>3, <2>1 DEF PoolsOK, Kept, IInv
  <2>2. CASE Dropped(c)
    BY <1>1, <1>2, <1>3, <2>2 DEF PoolsOK, Dropped, IInv
  <2> QED BY <1>3, <2>1, <2>2
<1>6. conn'[i] = NoConn
  BY <1>1
<1>7. \A k \in Runs \ {i} : conn[k] # NoConn => conn[k] # c /\ conn[k] \in Conns
  BY <1>1 DEF IInv, SessionsOK
<1>8. SessionsOK'
  <2>1. \A k \in Runs : pc'[k] # "ready" => home'[k] \in Replicas /\ job'[k] \in Jobs
    BY <1>2 DEF IInv, SessionsOK, Others
  <2>2. \A k \in Runs : pc'[k] \in InTransaction => conn'[k] # NoConn
    BY DEF IInv, SessionsOK, Others
  <2>3. ASSUME NEW k \in Runs, conn'[k] # NoConn
        PROVE  /\ pc'[k] \in InTransaction \union {"leaving"}
               /\ owner'[conn'[k]] = home'[k]
               /\ \A q \in Replicas : conn'[k] \notin In(idle'[q])
    <3>1. k # i /\ conn'[k] = conn[k] /\ conn[k] # c /\ conn[k] \in Conns
      BY <1>6, <1>7, <2>3 DEF Others
    <3>2. /\ pc[k] \in InTransaction \union {"leaving"}
          /\ owner[conn[k]] = home[k]
          /\ \A q \in Replicas : conn[k] \notin In(idle[q])
      BY <2>3, <3>1 DEF IInv, SessionsOK
    <3>3. owner'[conn[k]] = owner[conn[k]]
      BY <1>1, <1>3, <3>1 DEF Kept, Dropped
    <3>4. \A q \in Replicas : conn[k] \notin In(idle'[q])
      BY <1>3, <3>1, <3>2 DEF Kept, Dropped
    <3> QED BY <3>1, <3>2, <3>3, <3>4 DEF Others
  <2>4. \A k, l \in Runs : conn'[k] = conn'[l] /\ conn'[k] # NoConn => k = l
    BY <1>6 DEF IInv, SessionsOK, Others
  <2> QED BY <2>1, <2>2, <2>3, <2>4 DEF SessionsOK
<1>9. LocksOK'
  <2>1. dropped \subseteq dropped' /\ \A d \in Conns, j \in Jobs : held'[d][j] <= held[d][j]
    <3>1. CASE Kept(r, c)
      BY <1>1, <3>1 DEF Kept
    <3>2. CASE Dropped(c)
      <4>1. \A d \in Conns, j \in Jobs : held[d][j] \in Nat
        BY <1>1
      <4>2. \A d \in Conns, j \in Jobs : held'[d][j] = IF d = c THEN 0 ELSE held[d][j]
        BY <1>1, <3>2 DEF Dropped
      <4> QED BY <3>2, <4>1, <4>2 DEF Dropped
    <3> QED BY <1>3, <3>1, <3>2
  <2>2. \A k \in Runs : pc'[k] \in Guarded =>
           pc[k] \in Guarded /\ job'[k] = job[k] /\ home'[k] = home[k]
    BY DEF Others
  <2>3. \A d \in Conns : \A j \in Jobs \ dropped' :
           held[d][j] > 0 => held'[d][j] = held[d][j] /\ owner'[d] = owner[d]
    BY <1>1, <1>2, <1>3 DEF Kept, Dropped
  <2> QED BY <1>4, <2>1, <2>2, <2>3, NobodyEnters
<1> QED BY <1>4, <1>5, <1>8, <1>9 DEF IInv, TypeOK, PoolTypes, RestTypes

(* Nobody takes or gives a connection for longer than a transaction.       *)
LEMMA BorrowKeepsAll ==
  ASSUME IInv, NEW i \in Runs, NEW c \in Conns, Borrow(home[i], c),
         pc[i] \in {"recording", "dead_letter"}, pc'[i] \in {"dead_letter", "leaving"},
         RestTypes', Others(i), UNCHANGED <<conn, home, job>>
  PROVE  IInv'
<1> DEFINE r == home[i]
<1>1. /\ conn \in [Runs -> Conns \union {NoConn}]
      /\ owner \in [Conns -> Replicas \union {NoReplica}]
      /\ held \in [Conns -> [Jobs -> Nat]]
  BY DEF IInv, TypeOK
<1>2. r \in Replicas
  BY DEF IInv, SessionsOK, Guarded
<1>3. /\ Free(r, c)
      /\ idle' \in [Replicas -> Seq(Conns)]
      /\ owner' = [owner EXCEPT ![c] = r]
      /\ \A q \in Replicas : Distinct(idle'[q])
      /\ \A q \in Replicas : In(idle'[q]) = IF q = r THEN In(idle[r]) \union {c} ELSE In(idle[q])
      /\ UNCHANGED <<held, dropped>>
  BY <1>2, BorrowEffect DEF IInv, Borrow
<1>4. PoolTypes'
  BY <1>1, <1>2, <1>3 DEF PoolTypes, IInv, TypeOK
<1>5. \A q \in Replicas \ {r} : c \notin In(idle[q])
  BY <1>2, <1>3, RunsAssumption DEF Free, IInv, PoolsOK
<1>6. PoolsOK'
  <2>1. ASSUME NEW q \in Replicas, NEW d \in In(idle'[q])
        PROVE  owner'[d] = q
    <3>1. CASE q = r
      <4>3. In(idle'[q]) = In(idle[r]) \union {c}
        BY <1>3, <3>1
      <4>1. d = c \/ owner[d] = r
        BY <1>2, <4>3 DEF PoolsOK, IInv
      <4>2. d \in Conns
        BY <1>3, <2>1 DEF In
      <4> QED BY <1>1, <1>3, <3>1, <4>1, <4>2
    <3>2. CASE q # r
      BY <1>1, <1>3, <1>5, <2>1, <3>2 DEF PoolsOK, IInv
    <3> QED BY <3>1, <3>2
  <2>2. \A d \in Conns, j \in Jobs : owner'[d] = NoReplica => held'[d][j] = 0
    BY <1>1, <1>2, <1>3, RunsAssumption DEF PoolsOK, IInv
  <2> QED BY <1>3, <2>1, <2>2 DEF PoolsOK
<1>7. \A k \in Runs : conn[k] # NoConn => home[k] \in Replicas /\ conn[k] \in Conns
  BY <1>1 DEF IInv, SessionsOK, InTransaction
<1>8. \A k \in Runs : conn[k] # NoConn => conn[k] # c
  BY <1>2, <1>3, <1>7, RunsAssumption DEF Free, IInv, SessionsOK
<1>9. SessionsOK'
  <2>1. conn[i] = NoConn
    BY DEF IInv, SessionsOK, InTransaction
  <2>2. \A k \in Runs : pc'[k] # "ready" => home'[k] \in Replicas /\ job'[k] \in Jobs
    BY DEF IInv, SessionsOK, Others
  <2>3. \A k \in Runs : pc'[k] \in InTransaction => conn'[k] # NoConn
    BY DEF IInv, SessionsOK, Others, InTransaction
  <2>4. ASSUME NEW k \in Runs, conn'[k] # NoConn
        PROVE  /\ pc'[k] \in InTransaction \union {"leaving"}
               /\ owner'[conn'[k]] = home'[k]
               /\ \A q \in Replicas : conn'[k] \notin In(idle'[q])
    <3>1. k # i /\ conn[k] # NoConn /\ conn[k] # c /\ conn[k] \in Conns
      BY <1>7, <1>8, <2>1, <2>4
    <3>2. owner'[conn[k]] = owner[conn[k]]
      BY <1>1, <1>3, <3>1
    <3>3. \A q \in Replicas : conn[k] \notin In(idle'[q])
      BY <1>2, <1>3, <3>1 DEF IInv, SessionsOK
    <3> QED BY <3>1, <3>2, <3>3 DEF IInv, SessionsOK, Others
  <2>5. \A k, l \in Runs : conn'[k] = conn'[l] /\ conn'[k] # NoConn => k = l
    BY DEF IInv, SessionsOK
  <2> QED BY <2>2, <2>3, <2>4, <2>5 DEF SessionsOK
<1>10. LocksOK'
  <2>1. \A d \in Conns, j \in Jobs : held[d][j] > 0 => owner'[d] = owner[d]
    <3> SUFFICES ASSUME NEW d \in Conns, NEW j \in Jobs, held[d][j] > 0, owner'[d] # owner[d]
                 PROVE  FALSE
      OBVIOUS
    <3>1. d = c /\ owner[c] # r
      BY <1>1, <1>3
    <3>2. owner[c] = NoReplica
      BY <1>2, <1>3, <3>1 DEF Free, IInv, PoolsOK
    <3> QED BY <3>1, <3>2 DEF IInv, PoolsOK
  <2>2. \A k \in Runs : pc'[k] \in Guarded =>
           pc[k] \in Guarded /\ job'[k] = job[k] /\ home'[k] = home[k]
    BY DEF Others, Guarded
  <2>3. \A d \in Conns, j \in Jobs : held'[d][j] <= held[d][j]
    BY <1>1, <1>3
  <2> QED BY <1>3, <1>4, <2>1, <2>2, <2>3, NobodyEnters
<1> QED BY <1>4, <1>6, <1>9, <1>10 DEF IInv, TypeOK, PoolTypes, RestTypes

(* A step of the rows, or from one point inside the lock to another.       *)
LEMMA StayKeepsAll ==
  ASSUME IInv, RestTypes', UNCHANGED <<idle, owner, held, dropped, conn, home, job>>,
         \A k \in Runs :
           \/ pc'[k] = pc[k]
           \/ /\ pc[k] \in Guarded /\ pc'[k] \in Guarded \ InTransaction
              /\ conn[k] # NoConn => pc'[k] = "leaving"
  PROVE  IInv'
<1>1. PoolTypes'
  BY DEF PoolTypes, IInv, TypeOK
<1>2. PoolsOK'
  BY DEF PoolsOK, IInv
<1>3. SessionsOK'
  BY DEF IInv, SessionsOK, Guarded, InTransaction
<1>4. LocksOK'
  <2>1. \A k \in Runs : pc'[k] \in Guarded =>
           pc[k] \in Guarded /\ job'[k] = job[k] /\ home'[k] = home[k]
    OBVIOUS
  <2>2. \A d \in Conns, j \in Jobs : held'[d][j] <= held[d][j]
    BY DEF IInv, TypeOK
  <2> QED BY <1>1, <2>1, <2>2, NobodyEnters
<1> QED BY <1>1, <1>2, <1>3, <1>4 DEF IInv, TypeOK, PoolTypes, RestTypes

-----------------------------------------------------------------------------
(* The steps that change a lock                                            *)
LEMMA TryLockOK ==
  ASSUME IInv, NEW i \in Runs, NEW r \in Replicas, NEW j \in Jobs, TryLock(i, r, j)
  PROVE  IInv'
<1>1. PICK c \in Conns :
        /\ CheckOut(r, c)
        /\ conn' = [conn EXCEPT ![i] = c]
        /\ IF LockGranted(c, j)
           THEN /\ held' = [held EXCEPT ![c][j] = @ + 1]
                /\ pc' = [pc EXCEPT ![i] = "locked"]
           ELSE /\ pc' = [pc EXCEPT ![i] = "skipping"]
                /\ UNCHANGED held
  BY DEF TryLock
<1>2. /\ pc[i] = "ready" /\ UNCHANGED <<dropped, record, entry, cutOff, raised, stops>>
      /\ home' = [home EXCEPT ![i] = r] /\ job' = [job EXCEPT ![i] = j]
      /\ crowded' \in {crowded, crowded \union {r}}
  BY DEF TryLock, rows
<1>3. /\ pc \in [Runs -> Stages] /\ home \in [Runs -> Replicas \union {NoReplica}]
      /\ job \in [Runs -> Jobs \union {NoJob}] /\ held \in [Conns -> [Jobs -> Nat]]
      /\ conn \in [Runs -> Conns \union {NoConn}]
      /\ owner \in [Conns -> Replicas \union {NoReplica}]
      /\ crowded \subseteq Replicas
  BY DEF IInv, TypeOK
<1>4. pc' \in [Runs -> Stages] /\ pc'[i] \in {"locked", "skipping"}
  BY <1>1, <1>3 DEF Stages
<1>5. RestTypes'
  BY <1>2, <1>3, <1>4 DEF RestTypes, IInv, TypeOK
<1>6. Others(i) /\ home'[i] = r /\ job'[i] = j
  BY <1>1, <1>2, <1>3 DEF Others
<1>7. CASE ~LockGranted(c, j)
  <2>1. pc'[i] = "skipping" /\ UNCHANGED held
    BY <1>1, <1>3, <1>7
  <2> QED BY <1>1, <1>2, <1>5, <1>6, <2>1, TakeKeepsAll DEF InTransaction, Guarded
<1>8. CASE LockGranted(c, j)
  <2>1. pc'[i] = "locked" /\ held' = [held EXCEPT ![c][j] = @ + 1]
    BY <1>1, <1>3, <1>8
  <2>2. /\ held' \in [Conns -> [Jobs -> Nat]] /\ held[c][j] \in Nat
        /\ \A d \in Conns \ {c} : held'[d] = held[d]
        /\ held'[c][j] = held[c][j] + 1
        /\ \A k \in Jobs \ {j} : held'[c][k] = held[c][k]
    BY <1>3, <2>1
  <2>3. PoolTypes' /\ PoolsOK' /\ SessionsOK'
    BY <1>1, <1>2, <1>5, <1>6, <2>1, <2>2, TakeKeepsSessions DEF InTransaction
  <2>4. Free(r, c) /\ owner' = [owner EXCEPT ![c] = r]
    BY <1>1, CheckOutEffect DEF IInv
  <2>5. \A d \in Conns, k \in Jobs : held[d][k] > 0 => owner'[d] = owner[d]
    BY <1>3, <2>4 DEF IInv, PoolsOK, Free
  <2>6. \A d \in Conns \ {c} : held[d][j] = 0
    BY <1>8 DEF LockGranted
  <2>7. \A k \in Jobs : \A d, e \in Conns : held'[d][k] > 0 /\ held'[e][k] > 0 => d = e
    <3> SUFFICES ASSUME NEW k \in Jobs, NEW d \in Conns, NEW e \in Conns,
                        held'[d][k] > 0, held'[e][k] > 0
                 PROVE  d = e
      OBVIOUS
    <3>1. CASE k = j
      BY <2>2, <2>6, <3>1
    <3>2. CASE k # j
      BY <2>2, <3>2 DEF IInv, LocksOK
    <3> QED BY <3>1, <3>2
  <2>8. /\ i \notin Inside(j) /\ Inside(j)' = Inside(j) \union {i}
        /\ \A k \in Jobs \ {j} : Inside(k)' = Inside(k)
    <3>1. i \notin Inside(j) /\ \A k \in Jobs : i \notin Inside(k)
      BY <1>2 DEF Inside, Guarded
    <3>2. i \in Inside(j)' /\ \A k \in Jobs \ {j} : i \notin Inside(k)'
      BY <1>6, <2>1 DEF Inside, Guarded
    <3>3. \A k \in Jobs, n \in Runs \ {i} : n \in Inside(k)' <=> n \in Inside(k)
      BY <1>6 DEF Inside, Others
    <3>4. \A k \in Jobs : Inside(k) \subseteq Runs /\ Inside(k)' \subseteq Runs
      BY DEF Inside
    <3> QED BY <3>1, <3>2, <3>3, <3>4
  <2>9. ASSUME NEW k \in Jobs \ dropped', Inside(k)' # {}
        PROVE  \E d \in Conns : Covers(d, k)'
    <3>1. CASE k = j
      <4>1. Cardinality(Inside(j)) <= held[c][j] /\ \A n \in Inside(j) : home[n] = r
        <5>1. CASE Inside(j) = {}
          BY <2>2, <5>1, FS_EmptySet
        <5>2. CASE Inside(j) # {}
          <6>1. PICK d \in Conns : Covers(d, j)
            BY <1>2, <2>9, <3>1, <5>2 DEF IInv, LocksOK
          <6>2. held[d][j] > 0
            BY <1>3, <5>2, <6>1, InsideFinite DEF Covers
          <6>3. d = c
            BY <2>6, <6>2
          <6>4. owner[c] = r
            BY <1>3, <2>4, <2>5, <6>2, <6>3
          <6> QED BY <6>1, <6>3, <6>4 DEF Covers
        <5> QED BY <5>1, <5>2
      <4>2. Cardinality(Inside(j)') = Cardinality(Inside(j)) + 1
        BY <2>8, InsideFinite, FS_AddElement
      <4>3. \A n \in Inside(j)' : home'[n] = r
        BY <1>6, <2>8, <4>1 DEF Others, Inside
      <4>4. owner'[c] = r
        BY <1>3, <2>4
      <4>5. Cardinality(Inside(j)') <= held'[c][j]
        BY <2>2, <4>1, <4>2, InsideFinite
      <4>6. Covers(c, k)'
        BY <3>1, <4>3, <4>4, <4>5 DEF Covers
      <4> QED BY <4>6
    <3>2. CASE k # j
      <4>1. PICK d \in Conns : Covers(d, k)
        BY <1>2, <2>8, <2>9, <3>2 DEF IInv, LocksOK
      <4>2. held[d][k] > 0
        BY <1>3, <2>8, <2>9, <3>2, <4>1, InsideFinite DEF Covers
      <4>3. owner'[d] = owner[d] /\ held'[d][k] = held[d][k]
        BY <2>2, <2>5, <3>2, <4>2
      <4>4. \A n \in Inside(k) : home'[n] = home[n]
        BY <1>2, <1>6 DEF Others, Inside, Guarded
      <4>5. Covers(d, k)'
        BY <2>8, <3>2, <4>1, <4>3, <4>4 DEF Covers
      <4> QED BY <4>5
    <3> QED BY <3>1, <3>2
  <2>10. LocksOK'
    BY <2>7, <2>9 DEF LocksOK
  <2> QED BY <1>5, <2>3, <2>10 DEF IInv, TypeOK, PoolTypes, RestTypes
<1> QED BY <1>7, <1>8

LEMMA UnlockOK ==
  ASSUME IInv, NEW i \in Runs, Unlock(i)
  PROVE  IInv'
<1> DEFINE r == home[i]
           j == job[i]
<1>1. PICK c \in Conns :
        /\ \/ conn[i] = c /\ UNCHANGED <<idle, owner, conn>>
           \/ conn[i] = NoConn /\ CheckOut(r, c) /\ conn' = [conn EXCEPT ![i] = c]
        /\ held' = [held EXCEPT ![c][j] = Released(@)]
  BY DEF Unlock
<1>2. /\ pc[i] = "leaving" /\ pc' = [pc EXCEPT ![i] = "closing"]
      /\ UNCHANGED <<dropped, home, job, crowded, record, entry, cutOff, raised, stops>>
  BY DEF Unlock, rows
<1>3. /\ pc \in [Runs -> Stages]
      /\ held \in [Conns -> [Jobs -> Nat]]
      /\ conn \in [Runs -> Conns \union {NoConn}]
      /\ owner \in [Conns -> Replicas \union {NoReplica}]
  BY DEF IInv, TypeOK
<1>4. r \in Replicas /\ j \in Jobs
  BY <1>2 DEF IInv, SessionsOK
<1>5. RestTypes' /\ Others(i) /\ pc'[i] = "closing"
  <2>1. pc' \in [Runs -> Stages]
    BY <1>2, <1>3 DEF Stages
  <2>2. RestTypes'
    BY <1>2, <2>1 DEF RestTypes, IInv, TypeOK
  <2> QED BY <1>1, <1>2, <1>3, <2>2 DEF Others
<1>6. /\ held' \in [Conns -> [Jobs -> Nat]] /\ held[c][j] \in Nat
      /\ \A d \in Conns \ {c} : held'[d] = held[d]
      /\ held'[c][j] = Released(held[c][j])
      /\ \A k \in Jobs \ {j} : held'[c][k] = held[c][k]
  <2>1. held[c][j] \in Nat /\ Released(held[c][j]) \in Nat
    BY <1>3, <1>4 DEF Released
  <2> QED BY <1>1, <1>3, <1>4, <2>1
<1>7. /\ PoolTypes' /\ PoolsOK' /\ SessionsOK'
      /\ \A d \in Conns, k \in Jobs : held[d][k] > 0 => owner'[d] = owner[d]
  <2>1. CASE conn[i] = c /\ UNCHANGED <<idle, owner, conn>>
    <3>1. PoolTypes'
      BY <1>2, <1>6, <2>1 DEF PoolTypes, IInv, TypeOK
    <3>2. PoolsOK'
      BY <1>3, <1>4, <1>6, <2>1 DEF PoolsOK, IInv, Released
    <3>3. SessionsOK'
      BY <1>2, <1>3, <2>1, ConnsAssumption DEF SessionsOK, IInv, InTransaction, NoConn
    <3> QED BY <2>1, <3>1, <3>2, <3>3
  <2>2. CASE CheckOut(r, c) /\ conn' = [conn EXCEPT ![i] = c]
    <3>1. PoolTypes' /\ PoolsOK' /\ SessionsOK'
      BY <1>2, <1>4, <1>5, <1>6, <2>2, TakeKeepsSessions DEF InTransaction
    <3>2. Free(r, c) /\ owner' = [owner EXCEPT ![c] = r]
      BY <1>4, <2>2, CheckOutEffect DEF IInv
    <3>3. \A d \in Conns, k \in Jobs : held[d][k] > 0 => owner'[d] = owner[d]
      BY <1>3, <1>4, <3>2 DEF IInv, PoolsOK, Free
    <3> QED BY <3>1, <3>3
  <2> QED BY <1>1, <2>1, <2>2
<1>8. \A k \in Jobs : \A d, e \in Conns : held'[d][k] > 0 /\ held'[e][k] > 0 => d = e
  <2>1. \A k \in Jobs, d \in Conns : held'[d][k] > 0 => held[d][k] > 0
    BY <1>3, <1>4, <1>6 DEF Released
  <2> QED BY <2>1 DEF IInv, LocksOK
<1>9. ASSUME NEW k \in Jobs \ dropped', Inside(k)' # {}
      PROVE  \E d \in Conns : Covers(d, k)'
  <2>1. \A n \in Runs : n \in Inside(k)' <=> n \in Inside(k) /\ n # i
    BY <1>2, <1>5 DEF Inside, Others, Guarded
  <2>2. Inside(k)' = Inside(k) \ {i}
    BY <2>1 DEF Inside
  <2>3. PICK d \in Conns : Covers(d, k)
    BY <1>2, <1>9, <2>2 DEF IInv, LocksOK
  <2>4. held[d][k] \in Nat /\ held[d][k] > 0
    BY <1>3, <1>9, <2>2, <2>3, InsideFinite DEF Covers
  <2>5. owner'[d] = owner[d] /\ UNCHANGED home
    BY <1>2, <1>7, <2>4
  <2>6. Cardinality(Inside(k)') <= held'[d][k]
    <3>1. CASE k = j
      <4>1. i \in Inside(k)
        BY <1>2, <3>1 DEF Inside, Guarded
      <4>2. Cardinality(Inside(k)') = Cardinality(Inside(k)) - 1
        BY <2>2, <4>1, InsideFinite, FS_RemoveElement
      <4>3. held'[d][k] >= held[d][k] - 1
        BY <1>6, <2>4, <3>1 DEF Released
      <4> QED BY <1>6, <2>3, <2>4, <4>2, <4>3, InsideFinite DEF Covers
    <3>2. CASE k # j
      <4>1. held'[d][k] = held[d][k]
        BY <1>6, <3>2
      <4>2. i \notin Inside(k)
        BY <3>2 DEF Inside
      <4> QED BY <2>2, <2>3, <4>1, <4>2 DEF Covers
    <3> QED BY <3>1, <3>2
  <2>7. Covers(d, k)'
    BY <2>2, <2>3, <2>5, <2>6 DEF Covers
  <2> QED BY <2>7
<1> QED BY <1>5, <1>7, <1>8, <1>9 DEF IInv, TypeOK, PoolTypes, RestTypes, LocksOK

(* The connections of a crashed replica close; whoever was inside a lock   *)
(* one of them holds was on that replica too.                              *)
LEMMA CrashOK ==
  ASSUME IInv, NEW r \in Replicas, CrashReplica(r)
  PROVE  IInv'
<1> DEFINE mine == {c \in Conns : owner[c] = r}
<1>1. /\ idle \in [Replicas -> Seq(Conns)] /\ pc \in [Runs -> Stages]
      /\ held \in [Conns -> [Jobs -> Nat]] /\ stops \in Nat
      /\ conn \in [Runs -> Conns \union {NoConn}]
      /\ owner \in [Conns -> Replicas \union {NoReplica}]
  BY DEF IInv, TypeOK
<1>2. /\ idle' = [idle EXCEPT ![r] = <<>>]
      /\ owner' = [c \in Conns |-> IF c \in mine THEN NoReplica ELSE owner[c]]
      /\ held' = [c \in Conns |-> IF c \in mine THEN [j \in Jobs |-> 0] ELSE held[c]]
      /\ pc' = [i \in Runs |-> IF i \in Active(r) THEN "over" ELSE pc[i]]
      /\ conn' = [i \in Runs |-> IF i \in Active(r) THEN NoConn ELSE conn[i]]
      /\ cutOff' = cutOff \union Active(r) /\ stops' = stops + 1
      /\ UNCHANGED <<dropped, home, job, crowded, record, entry, raised>>
  BY DEF CrashReplica
<1>3. RestTypes'
  <2>1. /\ pc' \in [Runs -> Stages] /\ stops' \in Nat
        /\ cutOff' \subseteq Runs /\ raised' \subseteq Runs
    BY <1>1, <1>2 DEF Stages, Active, IInv, TypeOK
  <2> QED BY <1>2, <2>1 DEF RestTypes, IInv, TypeOK
<1>4. PoolTypes'
  <2>1. idle' \in [Replicas -> Seq(Conns)]
    BY <1>1, <1>2
  <2>2. held' \in [Conns -> [Jobs -> Nat]]
    BY <1>1, <1>2
  <2>3. /\ owner' \in [Conns -> Replicas \union {NoReplica}]
        /\ conn' \in [Runs -> Conns \union {NoConn}]
    BY <1>1, <1>2
  <2> QED BY <1>2, <2>1, <2>2, <2>3 DEF PoolTypes, IInv, TypeOK
<1>5. \A q \in Replicas : idle'[q] = IF q = r THEN <<>> ELSE idle[q]
  BY <1>1, <1>2
<1>6. \A q \in Replicas : In(idle'[q]) = IF q = r THEN {} ELSE In(idle[q])
  BY <1>5 DEF In
<1>7. PoolsOK'
  <2>1. \A q \in Replicas : Distinct(idle'[q])
    BY <1>5 DEF Distinct, IInv, PoolsOK
  <2>2. ASSUME NEW q \in Replicas, NEW c \in In(idle'[q])
        PROVE  owner'[c] = q
    <3>1. q # r /\ c \in In(idle[q])
      BY <1>6, <2>2
    <3>2. owner[c] = q /\ c \in Conns
      BY <1>1, <3>1 DEF In, IInv, PoolsOK
    <3> QED BY <1>2, <3>1, <3>2
  <2>3. \A c \in Conns, j \in Jobs : owner'[c] = NoReplica => held'[c][j] = 0
    BY <1>2 DEF IInv, PoolsOK
  <2> QED BY <2>1, <2>2, <2>3 DEF PoolsOK
<1>8. ASSUME NEW k \in Runs, conn'[k] # NoConn
      PROVE  /\ k \notin Active(r) /\ conn[k] # NoConn /\ conn'[k] = conn[k]
             /\ pc'[k] = pc[k] /\ pc[k] \in InTransaction \union {"leaving"}
             /\ home[k] # r /\ home[k] \in Replicas /\ owner[conn[k]] = home[k]
  <2>1. k \notin Active(r) /\ conn'[k] = conn[k] /\ pc'[k] = pc[k]
    BY <1>2, <1>8
  <2>2. pc[k] \in InTransaction \union {"leaving"} /\ owner[conn[k]] = home[k]
    BY <1>8, <2>1 DEF IInv, SessionsOK
  <2>3. home[k] # r /\ home[k] \in Replicas
    BY <2>1, <2>2 DEF Active, InTransaction, IInv, SessionsOK
  <2> QED BY <1>8, <2>1, <2>2, <2>3
<1>9. SessionsOK'
  <2>1. \A k \in Runs : pc'[k] # "ready" => home'[k] \in Replicas /\ job'[k] \in Jobs
    BY <1>2 DEF Active, IInv, SessionsOK
  <2>2. \A k \in Runs : pc'[k] \in InTransaction => conn'[k] # NoConn
    BY <1>2 DEF InTransaction, IInv, SessionsOK
  <2>3. ASSUME NEW k \in Runs, conn'[k] # NoConn
        PROVE  /\ pc'[k] \in InTransaction \union {"leaving"}
               /\ owner'[conn'[k]] = home'[k]
               /\ \A q \in Replicas : conn'[k] \notin In(idle'[q])
    <3>1. conn[k] \in Conns \ mine
      BY <1>1, <1>8, <2>3
    <3>2. owner'[conn[k]] = home[k]
      BY <1>2, <1>8, <2>3, <3>1
    <3>3. \A q \in Replicas : conn[k] \notin In(idle'[q])
      BY <1>6, <1>8, <2>3 DEF IInv, SessionsOK
    <3> QED BY <1>2, <1>8, <2>3, <3>2, <3>3
  <2>4. \A k, l \in Runs : conn'[k] = conn'[l] /\ conn'[k] # NoConn => k = l
    BY <1>8 DEF IInv, SessionsOK
  <2> QED BY <2>1, <2>2, <2>3, <2>4 DEF SessionsOK
<1>10. LocksOK'
  <2>1. ASSUME NEW k \in Runs, pc'[k] \in Guarded
        PROVE  /\ pc[k] \in Guarded /\ job'[k] = job[k] /\ home'[k] = home[k]
               /\ home[k] # r
    <3>1. k \notin Active(r) /\ pc'[k] = pc[k]
      BY <1>2, <2>1 DEF Guarded
    <3> QED BY <1>2, <2>1, <3>1 DEF Active, Guarded
  <2>2. \A c \in Conns, j \in Jobs : held'[c][j] <= held[c][j]
    BY <1>1, <1>2
  <2>3. ASSUME NEW c \in Conns, NEW j \in Jobs \ dropped', Covers(c, j), Inside(j)' # {}
        PROVE  held'[c][j] = held[c][j] /\ owner'[c] = owner[c]
    <3>1. PICK k \in Inside(j)' : TRUE
      BY <2>3
    <3>2. k \in Runs /\ k \in Inside(j) /\ home[k] # r
      BY <2>1, <3>1 DEF Inside
    <3>3. c \notin mine
      BY <2>3, <3>2 DEF Covers
    <3> QED BY <1>2, <3>3
  <2>4. dropped \subseteq dropped'
    BY <1>2
  <2> QED BY <1>4, <2>1, <2>2, <2>3, <2>4, NobodyEnters
<1> QED BY <1>3, <1>4, <1>7, <1>9, <1>10 DEF IInv, TypeOK, PoolTypes, RestTypes

-----------------------------------------------------------------------------
(* The other steps of an invocation                                        *)
LEMMA LeaveScopeOK ==
  ASSUME IInv, NEW i \in Runs, LeaveScope(i)
  PROVE  IInv'
<1> USE DEF LeaveScope, rows
<1>1. conn[i] # NoConn
  BY DEF IInv, SessionsOK, InTransaction
<1>2. /\ pc' \in [Runs -> Stages] /\ pc'[i] = "over" /\ Others(i)
  BY DEF IInv, TypeOK, Stages, Others
<1>3. RestTypes'
  BY <1>2 DEF RestTypes, IInv, TypeOK
<1> QED BY <1>1, <1>2, <1>3, GiveKeepsAll DEF InTransaction, Guarded

LEMMA StartRecordOK ==
  ASSUME IInv, NEW i \in Runs, StartRecord(i)
  PROVE  IInv'
<1> USE DEF StartRecord, Proceed
<1>1. conn[i] # NoConn /\ pc[i] \in Guarded
  BY DEF IInv, SessionsOK, InTransaction, Guarded
<1>2. /\ pc' \in [Runs -> Stages] /\ pc'[i] = "between" /\ Others(i)
      /\ record' \in [Runs -> Records]
  BY DEF IInv, TypeOK, Stages, Records, Others
<1>3. RestTypes'
  BY <1>2 DEF RestTypes, IInv, TypeOK
<1> QED BY <1>1, <1>2, <1>3, GiveKeepsAll DEF InTransaction

LEMMA FuncQueriesOK ==
  ASSUME IInv, NEW i \in Runs, FuncQueries(i)
  PROVE  IInv'
<1> USE DEF FuncQueries, Proceed, rows
<1>1. home[i] \in Replicas /\ job[i] \in Jobs
  BY DEF IInv, SessionsOK
<1>2. PICK c \in Conns : CheckOut(home[i], c) /\ conn' = [conn EXCEPT ![i] = c]
  OBVIOUS
<1>3. /\ pc' \in [Runs -> Stages] /\ pc'[i] = "working" /\ Others(i)
      /\ pc[i] \in Guarded
  BY <1>2 DEF IInv, TypeOK, Stages, Others, Guarded
<1>4. RestTypes'
  BY <1>3 DEF RestTypes, IInv, TypeOK
<1> QED BY <1>1, <1>2, <1>3, <1>4, TakeKeepsAll DEF InTransaction

(* FuncCommits, FuncReturns and FuncRaisesInTransaction.                   *)
LEMMA FuncLeavesOK ==
  ASSUME IInv, NEW i \in Runs, NEW stage \in {"between", "leaving"},
         pc[i] = "working", CheckIn(home[i], conn[i]),
         conn' = [conn EXCEPT ![i] = NoConn], Proceed(i, stage),
         record' \in [Runs -> Records], UNCHANGED entry,
         cutOff' \subseteq Runs, raised' \subseteq Runs
  PROVE  IInv'
<1> USE DEF Proceed
<1>1. conn[i] # NoConn /\ pc[i] \in Guarded
  BY DEF IInv, SessionsOK, InTransaction, Guarded
<1>2. /\ pc' \in [Runs -> Stages] /\ pc'[i] = stage /\ Others(i)
  BY DEF IInv, TypeOK, Stages, Others
<1>3. RestTypes'
  BY <1>2 DEF RestTypes, IInv, TypeOK
<1> QED BY <1>1, <1>2, <1>3, GiveKeepsAll DEF InTransaction

LEMMA FuncRaisesOK ==
  ASSUME IInv, NEW i \in Runs, FuncRaises(i)
  PROVE  IInv'
<1> USE DEF FuncRaises, Proceed, pool, rows
<1>1. conn[i] = NoConn /\ pc[i] \in Guarded
  BY DEF IInv, SessionsOK, InTransaction, Guarded
<1>2. /\ pc' \in [Runs -> Stages] /\ pc'[i] = "recording"
      /\ \A k \in Runs \ {i} : pc'[k] = pc[k]
  BY DEF IInv, TypeOK, Stages
<1>3. RestTypes'
  BY <1>2 DEF RestTypes, IInv, TypeOK
<1> QED BY <1>1, <1>2, <1>3, StayKeepsAll DEF Guarded, InTransaction

(* RecordFailure and CreateEntry.                                          *)
LEMMA FailureOK ==
  ASSUME IInv, NEW i \in Runs, NEW stage \in {"dead_letter", "leaving"},
         NEW c \in Conns, Borrow(home[i], c),
         pc[i] \in {"recording", "dead_letter"}, Proceed(i, stage),
         record' \in [Runs -> Records], entry' \in [Runs -> Entries],
         UNCHANGED <<conn, cutOff, raised>>
  PROVE  IInv'
<1> USE DEF Proceed
<1>1. /\ pc' \in [Runs -> Stages] /\ pc'[i] = stage /\ Others(i)
  BY DEF IInv, TypeOK, Stages, Others
<1>2. RestTypes'
  BY <1>1 DEF RestTypes, IInv, TypeOK
<1> QED BY <1>1, <1>2, BorrowKeepsAll

LEMMA CancelInvocationOK ==
  ASSUME IInv, NEW i \in Runs, CancelInvocation(i)
  PROVE  IInv'
<1> USE DEF CancelInvocation, pool
<1>1. /\ pc' \in [Runs -> Stages] /\ pc'[i] = "leaving"
      /\ \A k \in Runs \ {i} : pc'[k] = pc[k]
  BY DEF IInv, TypeOK, Stages
<1>2. RestTypes'
  BY <1>1 DEF RestTypes, IInv, TypeOK
<1> QED BY <1>1, <1>2, StayKeepsAll DEF Guarded, InTransaction

LEMMA StaffStepOK ==
  ASSUME IInv, NEW i \in Runs, StaffStep(i)
  PROVE  IInv'
<1>1. /\ record' \in [Runs -> Records] /\ entry' \in [Runs -> Entries]
      /\ UNCHANGED <<pool, place, cutOff, raised, stops>>
  BY DEF StaffStep, CancelJob, MarkReplayReady, ReplayJob, IInv, TypeOK, Records, Entries
<1>2. RestTypes'
  BY <1>1 DEF RestTypes, IInv, TypeOK, place
<1> QED BY <1>1, <1>2, StayKeepsAll DEF pool, place

LEMMA RunStepOK ==
  ASSUME IInv, NEW i \in Runs, RunStep(i)
  PROVE  IInv'
<1> USE DEF IInv, TypeOK, Records, Entries
<1>1. CASE Unlock(i)
  BY <1>1, UnlockOK
<1>2. CASE LeaveScope(i)
  BY <1>2, LeaveScopeOK
<1>3. CASE StartRecord(i)
  BY <1>3, StartRecordOK
<1>4. CASE FuncQueries(i)
  BY <1>4, FuncQueriesOK
<1>5. CASE FuncCommits(i)
  BY <1>5, FuncLeavesOK DEF FuncCommits, rows
<1>6. CASE FuncReturns(i)
  BY <1>6, FuncLeavesOK DEF FuncReturns
<1>7. CASE FuncRaisesInTransaction(i)
  BY <1>7, FuncLeavesOK DEF FuncRaisesInTransaction
<1>8. CASE FuncRaises(i)
  BY <1>8, FuncRaisesOK
<1>9. CASE CreateEntry(i)
  BY <1>9, FailureOK DEF CreateEntry
<1>10. ASSUME NEW category \in {"permanent", "retryable"}, RecordFailure(i, category)
       PROVE  IInv'
  BY <1>10, FailureOK DEF RecordFailure
<1> HIDE DEF IInv, TypeOK, Records, Entries
<1> QED BY <1>1, <1>2, <1>3, <1>4, <1>5, <1>6, <1>7, <1>8, <1>9, <1>10 DEF RunStep

LEMMA InitOK == Init => IInv
<1> SUFFICES ASSUME Init PROVE IInv
  OBVIOUS
<1> USE DEF Init
<1>1. TypeOK
  BY DEF TypeOK, Stages, Records, Entries
<1>2. PoolsOK
  BY DEF PoolsOK, Distinct, In
<1>3. SessionsOK
  BY DEF SessionsOK, InTransaction
<1>4. LocksOK
  BY DEF LocksOK, Inside, Guarded
<1> QED BY <1>1, <1>2, <1>3, <1>4 DEF IInv

LEMMA NextOK == IInv /\ [Next]_vars => IInv'
<1> SUFFICES ASSUME IInv, [Next]_vars PROVE IInv'
  OBVIOUS
<1>1. CASE UNCHANGED vars
  <2>1. UNCHANGED <<idle, owner, held, dropped, pc, home, job, conn, crowded,
                    record, entry, cutOff, raised, stops>>
    BY <1>1 DEF vars, pool, place, rows
  <2>2. RestTypes'
    BY <2>1 DEF RestTypes, IInv, TypeOK
  <2> QED BY <2>1, <2>2, StayKeepsAll
<1>2. ASSUME NEW i \in Runs, Tick(i) PROVE IInv'
  BY <1>2, TryLockOK DEF Tick
<1>3. ASSUME NEW i \in Runs, RunStep(i) PROVE IInv'
  BY <1>3, RunStepOK
<1>4. ASSUME NEW i \in Runs, CancelInvocation(i) PROVE IInv'
  BY <1>4, CancelInvocationOK
<1>5. ASSUME NEW i \in Runs, StaffStep(i) PROVE IInv'
  BY <1>5, StaffStepOK
<1>6. ASSUME NEW r \in Replicas, CrashReplica(r) PROVE IInv'
  BY <1>6, CrashOK
<1> QED BY <1>1, <1>2, <1>3, <1>4, <1>5, <1>6 DEF Next, AllOver

(* worker/scheduling.py: pools, sessions, locks and rows stay within what  *)
(* pool, server and schema allow.                                          *)
THEOREM TypeCorrect == Spec => []TypeOK
<1>1. IInv => TypeOK
  BY DEF IInv
<1> QED BY <1>1, InitOK, NextOK, PTL DEF Spec

(* app/jobs/locks.py: two replicas run the same job at once only if a pool *)
(* closed the connection that held its lock.                               *)
THEOREM JobsAreExclusive == Spec => []OneReplicaPerJob
<1>1. IInv => OneReplicaPerJob
  <2> SUFFICES ASSUME IInv, NEW i \in Runs, NEW k \in Runs,
                      pc[i] \in Guarded, pc[k] \in Guarded, job[i] = job[k],
                      job[i] \notin dropped
               PROVE  home[i] = home[k]
    BY DEF OneReplicaPerJob
  <2>1. job[i] \in Jobs /\ i \in Inside(job[i]) /\ k \in Inside(job[i])
    BY DEF Inside, IInv, SessionsOK, Guarded
  <2> QED BY <2>1 DEF IInv, LocksOK, Covers
<1> QED BY <1>1, InitOK, NextOK, PTL DEF Spec

-----------------------------------------------------------------------------
(* A replica whose invocations never overlapped has opened one connection, *)
(* and what that connection holds is held by the invocation it runs.       *)
Used ==
  \A c \in Conns : owner[c] \in Replicas =>
    c \in In(idle[owner[c]]) \/ \E i \in Runs : conn[i] = c

Alone(r) ==
  /\ \A i, k \in Active(r) : i = k
  /\ \A c, d \in Conns : owner[c] = r /\ owner[d] = r => c = d
  /\ \A c \in Conns, j \in Jobs : owner[c] = r /\ held[c][j] > 0 =>
       held[c][j] = 1 /\ \E i \in Inside(j) : home[i] = r

AloneOK == \A r \in Replicas \ crowded : Alone(r)

AInv == IInv /\ Used /\ AloneOK

LEMMA Connected ==
  ASSUME IInv, NEW i \in Runs, conn[i] # NoConn
  PROVE  /\ conn[i] \in Conns /\ home[i] \in Replicas /\ owner[conn[i]] = home[i]
         /\ i \in Active(home[i])
         /\ \A r \in Replicas : conn[i] \notin In(idle[r])
         /\ \A k \in Runs \ {i} : conn[k] # conn[i]
BY DEF IInv, TypeOK, SessionsOK, InTransaction, Active

LEMMA InsideIsActive ==
  ASSUME NEW i \in Runs, pc[i] \in Guarded
  PROVE  i \in Active(home[i])
BY DEF Active, Guarded

(* Whoever finds nobody at work on such a replica gets that connection.    *)
LEMMA SoleConnection ==
  ASSUME IInv, Used, NEW r \in Replicas, NEW c \in Available(r), NEW d \in Conns,
         owner[d] = r, \A e, f \in Conns : owner[e] = r /\ owner[f] = r => e = f,
         \A i \in Runs : conn[i] # NoConn => home[i] # r
  PROVE  d = c
<1>1. \A i \in Runs : conn[i] # d
  BY Connected, ConnsAssumption DEF NoConn
<1>2. d \in In(idle[r])
  BY <1>1 DEF Used
<1>3. idle[r] # <<>> /\ idle[r] \in Seq(Conns)
  BY <1>2 DEF In, IInv, TypeOK
<1>4. c \in Conns /\ c = Head(idle[r]) /\ Free(r, c)
  BY <1>3, AvailableIsFree DEF IInv
<1>5. c \in In(idle[r])
  BY <1>3, <1>4, TailDistinct DEF IInv, PoolsOK
<1>6. owner[c] = r
  BY <1>5 DEF IInv, PoolsOK
<1> QED BY <1>4, <1>6

LEMMA AloneIsKept ==
  ASSUME NEW q \in Replicas, Alone(q), Active(q)' \subseteq Active(q),
         \A d \in Conns : owner'[d] = q => owner[d] = q /\ held'[d] = held[d],
         \A k \in Runs : home[k] = q /\ pc[k] \in Guarded =>
           home'[k] = q /\ pc'[k] \in Guarded /\ job'[k] = job[k]
  PROVE  Alone(q)'
<1>1. \A i, k \in Active(q)' : i = k
  BY DEF Alone
<1>2. \A c, d \in Conns : owner'[c] = q /\ owner'[d] = q => c = d
  BY DEF Alone
<1>3. ASSUME NEW c \in Conns, NEW j \in Jobs, owner'[c] = q, held'[c][j] > 0
      PROVE  held'[c][j] = 1 /\ \E i \in Inside(j)' : home'[i] = q
  <2>1. held[c][j] = 1 /\ \E i \in Inside(j) : home[i] = q
    BY <1>3 DEF Alone
  <2> QED BY <1>3, <2>1 DEF Inside
<1> QED BY <1>1, <1>2, <1>3 DEF Alone

LEMMA TakeKeepsUsed ==
  ASSUME AInv, NEW i \in Runs, NEW r \in Replicas, NEW c \in Conns,
         CheckOut(r, c), conn[i] = NoConn, conn' = [conn EXCEPT ![i] = c]
  PROVE  Used'
<1>1. /\ owner' = [owner EXCEPT ![c] = r]
      /\ \A q \in Replicas : In(idle'[q]) = In(idle[q]) \ {c}
  BY CheckOutEffect DEF AInv, IInv
<1>2. /\ conn \in [Runs -> Conns \union {NoConn}]
      /\ owner \in [Conns -> Replicas \union {NoReplica}]
  BY DEF AInv, IInv, TypeOK
<1>3. \A d \in Conns : d # NoConn
  BY ConnsAssumption DEF NoConn
<1>4. ASSUME NEW d \in Conns, owner'[d] \in Replicas
      PROVE  d \in In(idle'[owner'[d]]) \/ \E k \in Runs : conn'[k] = d
  <2>1. CASE d = c
    BY <1>2, <2>1
  <2>2. CASE d # c
    <3>1. owner'[d] = owner[d]
      BY <1>1, <1>2, <2>2
    <3>2. d \in In(idle[owner[d]]) \/ \E k \in Runs : conn[k] = d
      BY <1>4, <3>1 DEF AInv, Used
    <3>3. \A k \in Runs : conn[k] = d => conn'[k] = d
      BY <1>2, <1>3
    <3> QED BY <1>1, <1>4, <2>2, <3>1, <3>2, <3>3
  <2> QED BY <2>1, <2>2
<1> QED BY <1>4 DEF Used

LEMMA GiveKeepsAlone ==
  ASSUME AInv, NEW i \in Runs, conn[i] # NoConn, CheckIn(home[i], conn[i]),
         Others(i), conn' = [conn EXCEPT ![i] = NoConn],
         UNCHANGED <<home, job, crowded>>, pc[i] \in Guarded => pc'[i] \in Guarded
  PROVE  Used' /\ AloneOK'
<1> DEFINE c == conn[i]
           r == home[i]
<1>1. /\ conn \in [Runs -> Conns \union {NoConn}]
      /\ owner \in [Conns -> Replicas \union {NoReplica}]
      /\ held \in [Conns -> [Jobs -> Nat]]
  BY DEF AInv, IInv, TypeOK
<1>2. /\ c \in Conns /\ r \in Replicas /\ owner[c] = r /\ i \in Active(r)
      /\ \A q \in Replicas : c \notin In(idle[q])
  BY Connected DEF AInv
<1>3. Kept(r, c) \/ Dropped(c)
  BY <1>2, CheckInEffect DEF AInv, IInv
<1>4. \A d \in Conns \ {c} : owner'[d] = owner[d] /\ held'[d] = held[d]
  BY <1>1, <1>2, <1>3 DEF Kept, Dropped
<1>5. \/ owner'[c] = r /\ held'[c] = held[c] /\ c \in In(idle'[r])
      \/ owner'[c] = NoReplica
  BY <1>1, <1>2, <1>3 DEF Kept, Dropped
<1>6. \A q \in Replicas : In(idle[q]) \subseteq In(idle'[q])
  BY <1>3 DEF Kept, Dropped
<1>7. ASSUME NEW d \in Conns, owner'[d] \in Replicas
      PROVE  d \in In(idle'[owner'[d]]) \/ \E k \in Runs : conn'[k] = d
  <2>1. CASE d = c
    BY <1>5, <1>7, <2>1, RunsAssumption
  <2>2. CASE d # c
    <3>1. d \in In(idle[owner[d]]) \/ \E k \in Runs : conn[k] = d
      BY <1>4, <1>7, <2>2 DEF AInv, Used
    <3>2. \A k \in Runs : conn[k] = d => conn'[k] = d
      BY <2>2 DEF Others
    <3> QED BY <1>4, <1>6, <1>7, <2>2, <3>1, <3>2
  <2> QED BY <2>1, <2>2
<1>8. ASSUME NEW q \in Replicas \ crowded'
      PROVE  Alone(q)'
  <2>1. Alone(q)
    BY DEF AInv, AloneOK
  <2>2. Active(q)' \subseteq Active(q)
    BY <1>2 DEF Active, Others
  <2>3. \A d \in Conns : owner'[d] = q => owner[d] = q /\ held'[d] = held[d]
    BY <1>2, <1>4, <1>5, RunsAssumption
  <2>4. \A k \in Runs : home[k] = q /\ pc[k] \in Guarded =>
           home'[k] = q /\ pc'[k] \in Guarded /\ job'[k] = job[k]
    BY DEF Others
  <2> QED BY <2>1, <2>2, <2>3, <2>4, AloneIsKept
<1> QED BY <1>7, <1>8 DEF Used, AloneOK

LEMMA FuncQueriesAlone ==
  ASSUME AInv, NEW i \in Runs, FuncQueries(i)
  PROVE  Used' /\ AloneOK'
<1> DEFINE r == home[i]
<1>1. PICK c \in Conns : CheckOut(r, c) /\ conn' = [conn EXCEPT ![i] = c]
  BY DEF FuncQueries
<1>2. /\ pc[i] = "between" /\ pc' = [pc EXCEPT ![i] = "working"]
      /\ UNCHANGED <<held, dropped, home, job, crowded>>
  BY DEF FuncQueries, Proceed
<1>3. /\ pc \in [Runs -> Stages] /\ owner \in [Conns -> Replicas \union {NoReplica}]
      /\ held \in [Conns -> [Jobs -> Nat]]
  BY DEF AInv, IInv, TypeOK
<1>4. r \in Replicas /\ conn[i] = NoConn /\ i \in Active(r)
  BY <1>2 DEF AInv, IInv, SessionsOK, InTransaction, Active
<1>5. Used'
  BY <1>1, <1>4, TakeKeepsUsed
<1>6. Free(r, c) /\ owner' = [owner EXCEPT ![c] = r] /\ c \in Available(r)
  BY <1>1, <1>4, CheckOutEffect DEF AInv, IInv, CheckOut
<1>7. /\ \A k \in Runs : pc[k] \in Guarded => pc'[k] \in Guarded
      /\ \A q \in Replicas : Active(q)' = Active(q)
  BY <1>2, <1>3 DEF Active, Guarded
<1>8. ASSUME NEW q \in Replicas \ crowded'
      PROVE  Alone(q)'
  <2>1. Alone(q)
    BY <1>2 DEF AInv, AloneOK
  <2>2. CASE q # r
    <3>1. \A d \in Conns : owner'[d] = q => owner[d] = q /\ held'[d] = held[d]
      BY <1>2, <1>3, <1>6, <2>2
    <3> QED BY <1>2, <1>7, <2>1, <3>1, AloneIsKept
  <2>3. CASE q = r
    <3>1. \A k \in Runs : conn[k] # NoConn => home[k] # r
      BY <1>4, <2>1, <2>3, Connected DEF Alone, AInv
    <3>2. \A d \in Conns : owner[d] = r => d = c
      BY <1>6, <2>1, <2>3, <3>1, SoleConnection DEF Alone, AInv
    <3>3. \A d \in Conns : owner'[d] = r => d = c
      BY <1>3, <1>6, <3>2
    <3>4. \A j \in Jobs : held[c][j] > 0 => owner[c] = r
      BY <1>4, <1>6 DEF Free, AInv, IInv, PoolsOK
    <3>5. \A d \in Conns, j \in Jobs : owner'[d] = q /\ held'[d][j] > 0 =>
             held'[d][j] = 1 /\ \E k \in Inside(j)' : home'[k] = q
      BY <1>2, <1>7, <2>1, <2>3, <3>3, <3>4 DEF Alone, Inside
    <3> QED BY <1>7, <2>1, <2>3, <3>3, <3>5 DEF Alone
  <2> QED BY <2>2, <2>3
<1> QED BY <1>5, <1>8 DEF AloneOK

LEMMA FailureAlone ==
  ASSUME AInv, NEW i \in Runs, NEW stage \in {"dead_letter", "leaving"},
         NEW c \in Conns, Borrow(home[i], c),
         pc[i] \in {"recording", "dead_letter"}, Proceed(i, stage), UNCHANGED conn
  PROVE  Used' /\ AloneOK'
<1> DEFINE r == home[i]
<1>1. pc' = [pc EXCEPT ![i] = stage] /\ UNCHANGED <<held, home, job, crowded>>
  BY DEF Proceed, Borrow
<1>2. /\ pc \in [Runs -> Stages] /\ owner \in [Conns -> Replicas \union {NoReplica}]
      /\ held \in [Conns -> [Jobs -> Nat]]
  BY DEF AInv, IInv, TypeOK
<1>3. r \in Replicas /\ conn[i] = NoConn /\ i \in Active(r)
  BY DEF AInv, IInv, SessionsOK, InTransaction, Active
<1>4. /\ Free(r, c) /\ owner' = [owner EXCEPT ![c] = r] /\ c \in Available(r)
      /\ \A q \in Replicas : In(idle'[q]) = IF q = r THEN In(idle[r]) \union {c} ELSE In(idle[q])
  BY <1>3, BorrowEffect DEF AInv, IInv, Borrow
<1>5. Used'
  <2>1. ASSUME NEW d \in Conns, owner'[d] \in Replicas
        PROVE  d \in In(idle'[owner'[d]]) \/ \E k \in Runs : conn'[k] = d
    <3>1. CASE d = c
      BY <1>2, <1>3, <1>4, <3>1
    <3>2. CASE d # c
      <4>1. owner'[d] = owner[d]
        BY <1>2, <1>4, <3>2
      <4>2. d \in In(idle[owner[d]]) \/ \E k \in Runs : conn[k] = d
        BY <2>1, <4>1 DEF AInv, Used
      <4>3. In(idle[owner[d]]) \subseteq In(idle'[owner[d]])
        BY <1>4, <2>1, <4>1
      <4> QED BY <4>1, <4>2, <4>3
    <3> QED BY <3>1, <3>2
  <2> QED BY <2>1 DEF Used
<1>6. /\ \A k \in Runs : pc[k] \in Guarded => pc'[k] \in Guarded
      /\ \A q \in Replicas : Active(q)' = Active(q)
  BY <1>1, <1>2 DEF Active, Guarded
<1>7. ASSUME NEW q \in Replicas \ crowded'
      PROVE  Alone(q)'
  <2>1. Alone(q)
    BY <1>1 DEF AInv, AloneOK
  <2>2. CASE q # r
    <3>1. \A d \in Conns : owner'[d] = q => owner[d] = q /\ held'[d] = held[d]
      BY <1>1, <1>2, <1>4, <2>2
    <3> QED BY <1>1, <1>6, <2>1, <3>1, AloneIsKept
  <2>3. CASE q = r
    <3>1. \A k \in Runs : conn[k] # NoConn => home[k] # r
      BY <1>3, <2>1, <2>3, Connected DEF Alone, AInv
    <3>2. \A d \in Conns : owner[d] = r => d = c
      BY <1>4, <2>1, <2>3, <3>1, SoleConnection DEF Alone, AInv
    <3>3. \A d \in Conns : owner'[d] = r => d = c
      BY <1>2, <1>4, <3>2
    <3>4. \A j \in Jobs : held[c][j] > 0 => owner[c] = r
      BY <1>3, <1>4 DEF Free, AInv, IInv, PoolsOK
    <3>5. \A d \in Conns, j \in Jobs : owner'[d] = q /\ held'[d][j] > 0 =>
             held'[d][j] = 1 /\ \E k \in Inside(j)' : home'[k] = q
      BY <1>1, <1>6, <2>1, <2>3, <3>3, <3>4 DEF Alone, Inside
    <3> QED BY <1>6, <2>1, <2>3, <3>3, <3>5 DEF Alone
  <2> QED BY <2>2, <2>3
<1> QED BY <1>5, <1>7 DEF AloneOK

LEMMA StayAlone ==
  ASSUME AInv, UNCHANGED <<idle, owner, held, conn, home, job, crowded>>,
         \A k \in Runs : pc'[k] = pc[k] \/ (pc[k] \in Guarded /\ pc'[k] \in Guarded)
  PROVE  Used' /\ AloneOK'
<1>1. Used'
  BY DEF AInv, Used
<1>2. ASSUME NEW q \in Replicas \ crowded'
      PROVE  Alone(q)'
  <2>1. Alone(q)
    BY DEF AInv, AloneOK
  <2>2. Active(q)' \subseteq Active(q)
    BY DEF Active, Guarded
  <2> QED BY <2>1, <2>2, AloneIsKept
<1> QED BY <1>1, <1>2 DEF AloneOK

LEMMA TryLockAlone ==
  ASSUME AInv, NEW i \in Runs, NEW r \in Replicas, NEW j \in Jobs, TryLock(i, r, j)
  PROVE  Used' /\ AloneOK'
<1>1. PICK c \in Conns :
        /\ CheckOut(r, c)
        /\ conn' = [conn EXCEPT ![i] = c]
        /\ IF LockGranted(c, j)
           THEN /\ held' = [held EXCEPT ![c][j] = @ + 1]
                /\ pc' = [pc EXCEPT ![i] = "locked"]
           ELSE /\ pc' = [pc EXCEPT ![i] = "skipping"]
                /\ UNCHANGED held
  BY DEF TryLock
<1>2. /\ pc[i] = "ready"
      /\ home' = [home EXCEPT ![i] = r] /\ job' = [job EXCEPT ![i] = j]
      /\ crowded' = IF Active(r) = {} THEN crowded ELSE crowded \union {r}
  BY DEF TryLock
<1>3. /\ pc \in [Runs -> Stages] /\ owner \in [Conns -> Replicas \union {NoReplica}]
      /\ home \in [Runs -> Replicas \union {NoReplica}]
      /\ job \in [Runs -> Jobs \union {NoJob}] /\ held \in [Conns -> [Jobs -> Nat]]
  BY DEF AInv, IInv, TypeOK
<1>4. conn[i] = NoConn
  BY <1>2 DEF AInv, IInv, SessionsOK, InTransaction
<1>5. Used'
  BY <1>1, <1>4, TakeKeepsUsed
<1>6. Free(r, c) /\ owner' = [owner EXCEPT ![c] = r] /\ c \in Available(r)
  BY <1>1, CheckOutEffect DEF AInv, IInv, CheckOut
<1>7. /\ \A k \in Runs \ {i} : pc'[k] = pc[k] /\ home'[k] = home[k] /\ job'[k] = job[k]
      /\ home'[i] = r /\ job'[i] = j
  BY <1>1, <1>2, <1>3
<1>8. \A d \in Conns \ {c} : owner'[d] = owner[d] /\ held'[d] = held[d]
  BY <1>1, <1>3, <1>6
<1>9. \A k \in Runs : pc[k] \in Guarded =>
         k # i /\ home'[k] = home[k] /\ pc'[k] \in Guarded /\ job'[k] = job[k]
  BY <1>2, <1>7 DEF Guarded
<1>10. ASSUME NEW q \in Replicas \ crowded'
       PROVE  Alone(q)'
  <2>1. Alone(q)
    BY <1>2 DEF AInv, AloneOK
  <2>2. CASE q # r
    <3>1. Active(q)' \subseteq Active(q)
      BY <1>7, <2>2 DEF Active
    <3>2. \A d \in Conns : owner'[d] = q => owner[d] = q /\ held'[d] = held[d]
      BY <1>3, <1>6, <1>8, <2>2
    <3> QED BY <1>9, <2>1, <3>1, <3>2, AloneIsKept
  <2>3. CASE q = r
    <3>1. Active(r) = {}
      BY <1>2, <2>3
    <3>2. Active(q)' \subseteq {i}
      BY <1>7, <2>3, <3>1 DEF Active
    <3>3. \A k \in Runs : conn[k] # NoConn => home[k] # r
      BY <3>1, Connected DEF AInv
    <3>4. \A d \in Conns : owner[d] = r => d = c
      BY <1>6, <2>1, <2>3, <3>3, SoleConnection DEF Alone, AInv
    <3>5. \A d \in Conns : owner'[d] = r => d = c
      BY <1>8, <3>4
    <3>6. \A k \in Jobs : held[c][k] = 0
      <4> SUFFICES ASSUME NEW k \in Jobs, held[c][k] # 0
                   PROVE  FALSE
        OBVIOUS
      <4>1. held[c][k] > 0
        BY <1>3
      <4>2. owner[c] = r
        BY <1>6, <4>1 DEF Free, AInv, IInv, PoolsOK
      <4>3. PICK n \in Inside(k) : home[n] = r
        BY <2>1, <2>3, <4>1, <4>2 DEF Alone
      <4> QED BY <3>1, <4>3, InsideIsActive DEF Inside
    <3>7. ASSUME NEW k \in Jobs, held'[c][k] > 0
          PROVE  held'[c][k] = 1 /\ \E n \in Inside(k)' : home'[n] = r
      <4>1. CASE ~LockGranted(c, j)
        BY <1>1, <3>6, <3>7, <4>1
      <4>2. CASE LockGranted(c, j)
        <5>1. held'[c][k] = IF k = j THEN 1 ELSE 0
          BY <1>1, <1>3, <3>6, <4>2
        <5>2. pc'[i] \in Guarded
          BY <1>1, <1>3, <4>2 DEF Guarded
        <5>3. i \in Inside(j)'
          BY <1>7, <5>2 DEF Inside
        <5> QED BY <1>7, <3>7, <5>1, <5>3
      <4> QED BY <4>1, <4>2
    <3> QED BY <2>3, <3>2, <3>5, <3>7 DEF Alone
  <2> QED BY <2>2, <2>3
<1> QED BY <1>5, <1>10 DEF AloneOK

LEMMA UnlockAlone ==
  ASSUME AInv, NEW i \in Runs, Unlock(i)
  PROVE  Used' /\ AloneOK'
<1> DEFINE r == home[i]
           j == job[i]
<1>1. PICK c \in Conns :
        /\ \/ conn[i] = c /\ UNCHANGED <<idle, owner, conn>>
           \/ conn[i] = NoConn /\ CheckOut(r, c) /\ conn' = [conn EXCEPT ![i] = c]
        /\ held' = [held EXCEPT ![c][j] = Released(@)]
  BY DEF Unlock
<1>2. /\ pc[i] = "leaving" /\ pc' = [pc EXCEPT ![i] = "closing"]
      /\ UNCHANGED <<home, job, crowded>>
  BY DEF Unlock
<1>3. /\ pc \in [Runs -> Stages] /\ owner \in [Conns -> Replicas \union {NoReplica}]
      /\ held \in [Conns -> [Jobs -> Nat]]
  BY DEF AInv, IInv, TypeOK
<1>4. r \in Replicas /\ j \in Jobs /\ i \in Active(r)
  BY <1>2 DEF AInv, IInv, SessionsOK, Active
<1>5. Used'
  <2>1. CASE UNCHANGED <<idle, owner, conn>>
    BY <2>1 DEF AInv, Used
  <2>2. CASE conn[i] = NoConn /\ CheckOut(r, c) /\ conn' = [conn EXCEPT ![i] = c]
    BY <1>4, <2>2, TakeKeepsUsed
  <2> QED BY <1>1, <2>1, <2>2
<1>6. /\ \A d \in Conns \ {c} : owner'[d] = owner[d] /\ held'[d] = held[d]
      /\ owner'[c] = r /\ (owner[c] = r \/ owner[c] = NoReplica)
  <2>1. CASE conn[i] = c /\ UNCHANGED <<idle, owner, conn>>
    BY <1>1, <1>3, <2>1, Connected, ConnsAssumption DEF AInv, NoConn
  <2>2. CASE CheckOut(r, c)
    <3>1. Free(r, c) /\ owner' = [owner EXCEPT ![c] = r]
      BY <1>4, <2>2, CheckOutEffect DEF AInv, IInv
    <3>2. owner[c] = r \/ owner[c] = NoReplica
      BY <1>4, <3>1 DEF Free, AInv, IInv, PoolsOK
    <3> QED BY <1>1, <1>3, <3>1, <3>2
  <2> QED BY <1>1, <2>1, <2>2
<1>7. /\ \A k \in Jobs \ {j} : held'[c][k] = held[c][k]
      /\ held'[c][j] = Released(held[c][j]) /\ held[c][j] \in Nat
  BY <1>1, <1>3, <1>4
<1>8. \A q \in Replicas : Active(q)' = Active(q)
  BY <1>2, <1>3 DEF Active
<1>9. \A k \in Runs \ {i} : pc'[k] = pc[k]
  BY <1>2, <1>3
<1>10. ASSUME NEW q \in Replicas \ crowded'
       PROVE  Alone(q)'
  <2>1. Alone(q)
    BY <1>2 DEF AInv, AloneOK
  <2>2. CASE q # r
    <3>1. \A d \in Conns : owner'[d] = q => owner[d] = q /\ held'[d] = held[d]
      BY <1>6, <2>2
    <3>2. \A k \in Runs : home[k] = q /\ pc[k] \in Guarded =>
             home'[k] = q /\ pc'[k] \in Guarded /\ job'[k] = job[k]
      BY <1>2, <1>9, <2>2
    <3> QED BY <1>8, <2>1, <3>1, <3>2, AloneIsKept
  <2>3. CASE q = r
    <3>1. \A k \in Active(r) : k = i
      BY <1>4, <2>1, <2>3 DEF Alone
    <3>2. \A d \in Conns : owner[d] = r => d = c
      <4>1. CASE conn[i] = c /\ UNCHANGED <<idle, owner, conn>>
        <5>1. owner[c] = r
          BY <1>6, <4>1
        <5> QED BY <2>1, <2>3, <5>1 DEF Alone
      <4>2. CASE conn[i] = NoConn /\ CheckOut(r, c)
        <5>1. \A k \in Runs : conn[k] # NoConn => home[k] # r
          BY <3>1, <4>2, Connected DEF AInv
        <5>2. c \in Available(r)
          BY <4>2 DEF CheckOut
        <5> QED BY <1>4, <2>1, <2>3, <5>1, <5>2, SoleConnection DEF Alone, AInv
      <4> QED BY <1>1, <4>1, <4>2
    <3>3. \A d \in Conns : owner'[d] = r => d = c
      BY <1>6, <3>2
    <3>4. ASSUME NEW k \in Jobs, held'[c][k] > 0
          PROVE  FALSE
      <4>1. held[c][k] > 0
        BY <1>3, <1>4, <1>7, <3>4 DEF Released
      <4>2. owner[c] = r
        BY <1>6, <4>1 DEF AInv, IInv, PoolsOK
      <4>3. held[c][k] = 1 /\ \E n \in Inside(k) : home[n] = r
        BY <2>1, <2>3, <4>1, <4>2 DEF Alone
      <4>4. PICK n \in Inside(k) : home[n] = r
        BY <4>3
      <4>5. n = i
        BY <3>1, <4>4, InsideIsActive DEF Inside
      <4>6. k = j
        BY <4>4, <4>5 DEF Inside
      <4> QED BY <1>7, <3>4, <4>3, <4>6 DEF Released
    <3> QED BY <1>8, <2>1, <2>3, <3>3, <3>4 DEF Alone
  <2> QED BY <2>2, <2>3
<1> QED BY <1>5, <1>10 DEF AloneOK

LEMMA CrashAlone ==
  ASSUME AInv, NEW r \in Replicas, CrashReplica(r)
  PROVE  Used' /\ AloneOK'
<1> DEFINE mine == {c \in Conns : owner[c] = r}
<1>1. /\ idle \in [Replicas -> Seq(Conns)]
      /\ owner \in [Conns -> Replicas \union {NoReplica}]
  BY DEF AInv, IInv, TypeOK
<1>2. /\ idle' = [idle EXCEPT ![r] = <<>>]
      /\ owner' = [c \in Conns |-> IF c \in mine THEN NoReplica ELSE owner[c]]
      /\ held' = [c \in Conns |-> IF c \in mine THEN [j \in Jobs |-> 0] ELSE held[c]]
      /\ pc' = [i \in Runs |-> IF i \in Active(r) THEN "over" ELSE pc[i]]
      /\ conn' = [i \in Runs |-> IF i \in Active(r) THEN NoConn ELSE conn[i]]
      /\ UNCHANGED <<home, job, crowded>>
  BY DEF CrashReplica
<1>3. \A c \in Conns : owner'[c] \in Replicas =>
         c \notin mine /\ owner'[c] = owner[c] /\ held'[c] = held[c] /\ owner[c] # r
  BY <1>2, RunsAssumption
<1>4. ASSUME NEW c \in Conns, owner'[c] \in Replicas
      PROVE  c \in In(idle'[owner'[c]]) \/ \E k \in Runs : conn'[k] = c
  <2>1. CASE c \in In(idle[owner[c]])
    BY <1>1, <1>2, <1>3, <1>4, <2>1
  <2>2. CASE \E k \in Runs : conn[k] = c
    <3>1. PICK k \in Runs : conn[k] = c
      BY <2>2
    <3>2. home[k] # r
      BY <1>3, <1>4, <3>1, Connected, ConnsAssumption DEF AInv, NoConn
    <3>3. conn'[k] = c
      BY <1>2, <3>1, <3>2 DEF Active
    <3> QED BY <3>3
  <2> QED BY <1>3, <1>4, <2>1, <2>2 DEF AInv, Used
<1>5. ASSUME NEW q \in Replicas \ crowded'
      PROVE  Alone(q)'
  <2>1. Alone(q) /\ Active(q)' \subseteq Active(q)
    BY <1>2 DEF AInv, AloneOK, Active
  <2>2. CASE q # r
    <3>1. \A k \in Runs : home[k] = q => pc'[k] = pc[k]
      BY <1>2, <2>2 DEF Active
    <3> QED BY <1>2, <1>3, <2>1, <3>1, AloneIsKept
  <2>3. CASE q = r
    BY <1>2, <1>3, <2>1, <2>3 DEF Alone
  <2> QED BY <2>2, <2>3
<1> QED BY <1>4, <1>5 DEF Used, AloneOK

LEMMA RunStepAlone ==
  ASSUME AInv, NEW i \in Runs, RunStep(i)
  PROVE  Used' /\ AloneOK'
<1>1. pc[i] \in InTransaction => conn[i] # NoConn
  BY DEF AInv, IInv, SessionsOK
<1>2. pc \in [Runs -> Stages] /\ conn \in [Runs -> Conns \union {NoConn}]
  BY DEF AInv, IInv, TypeOK
<1>3. CASE Unlock(i)
  BY <1>3, UnlockAlone
<1>4. CASE LeaveScope(i) \/ StartRecord(i) \/ FuncCommits(i) \/ FuncReturns(i)
             \/ FuncRaisesInTransaction(i)
  <2>1. /\ conn[i] # NoConn /\ CheckIn(home[i], conn[i])
        /\ conn' = [conn EXCEPT ![i] = NoConn] /\ UNCHANGED <<home, job, crowded>>
    BY <1>1, <1>4 DEF LeaveScope, StartRecord, FuncCommits, FuncReturns,
          FuncRaisesInTransaction, Proceed, InTransaction
  <2>2. PICK stage \in {"over", "between", "leaving"} :
          /\ pc' = [pc EXCEPT ![i] = stage]
          /\ pc[i] \in Guarded => stage \in Guarded
    BY <1>4 DEF LeaveScope, StartRecord, FuncCommits, FuncReturns,
          FuncRaisesInTransaction, Proceed, Guarded
  <2>3. Others(i) /\ (pc[i] \in Guarded => pc'[i] \in Guarded)
    BY <1>2, <2>1, <2>2 DEF Others
  <2> QED BY <2>1, <2>3, GiveKeepsAlone
<1>5. CASE FuncQueries(i)
  BY <1>5, FuncQueriesAlone
<1>6. CASE FuncRaises(i)
  <2>1. UNCHANGED <<idle, owner, held, conn, home, job, crowded>>
    BY <1>6 DEF FuncRaises, Proceed, pool
  <2>2. \A k \in Runs : pc'[k] = pc[k] \/ (pc[k] \in Guarded /\ pc'[k] \in Guarded)
    BY <1>2, <1>6 DEF FuncRaises, Proceed, Guarded
  <2> QED BY <2>1, <2>2, StayAlone
<1>7. CASE CreateEntry(i)
  BY <1>7, FailureAlone DEF CreateEntry
<1>8. ASSUME NEW category \in {"permanent", "retryable"}, RecordFailure(i, category)
      PROVE  Used' /\ AloneOK'
  BY <1>8, FailureAlone DEF RecordFailure
<1> QED BY <1>3, <1>4, <1>5, <1>6, <1>7, <1>8 DEF RunStep

LEMMA InitAlone == Init => AInv
<1> SUFFICES ASSUME Init PROVE AInv
  OBVIOUS
<1>1. Used
  BY RunsAssumption DEF Init, Used
<1>2. AloneOK
  BY RunsAssumption DEF Init, AloneOK, Alone, Active
<1> QED BY <1>1, <1>2, InitOK DEF AInv

LEMMA NextAlone == AInv /\ [Next]_vars => AInv'
<1> SUFFICES ASSUME AInv, [Next]_vars PROVE AInv'
  OBVIOUS
<1>1. IInv'
  BY NextOK DEF AInv
<1>2. ASSUME UNCHANGED vars PROVE Used' /\ AloneOK'
  <2>1. UNCHANGED <<idle, owner, held, conn, home, job, crowded>> /\ UNCHANGED pc
    BY <1>2 DEF vars, pool, place
  <2> QED BY <2>1, StayAlone
<1>3. ASSUME NEW i \in Runs, Tick(i) PROVE Used' /\ AloneOK'
  BY <1>3, TryLockAlone DEF Tick
<1>4. ASSUME NEW i \in Runs, RunStep(i) PROVE Used' /\ AloneOK'
  BY <1>4, RunStepAlone
<1>5. ASSUME NEW i \in Runs, CancelInvocation(i) PROVE Used' /\ AloneOK'
  <2>1. pc \in [Runs -> Stages]
    BY DEF AInv, IInv, TypeOK
  <2>2. UNCHANGED <<idle, owner, held, conn, home, job, crowded>>
    BY <1>5 DEF CancelInvocation, pool
  <2>3. \A k \in Runs : pc'[k] = pc[k] \/ (pc[k] \in Guarded /\ pc'[k] \in Guarded)
    BY <1>5, <2>1 DEF CancelInvocation, Guarded
  <2> QED BY <2>2, <2>3, StayAlone
<1>6. ASSUME NEW i \in Runs, StaffStep(i) PROVE Used' /\ AloneOK'
  <2>1. UNCHANGED <<idle, owner, held, conn, home, job, crowded>> /\ UNCHANGED pc
    BY <1>6 DEF StaffStep, CancelJob, MarkReplayReady, ReplayJob, pool, place
  <2> QED BY <2>1, StayAlone
<1>7. ASSUME NEW r \in Replicas, CrashReplica(r) PROVE Used' /\ AloneOK'
  BY <1>7, CrashAlone
<1> QED BY <1>1, <1>2, <1>3, <1>4, <1>5, <1>6, <1>7 DEF Next, AllOver, AInv

(* app/jobs/locks.py: a lock outlives its job only on a replica whose      *)
(* invocations overlapped.                                                 *)
THEOREM LocksAreGivenBack == Spec => []NoLockLeft
<1>1. AInv => NoLockLeft
  <2> SUFFICES ASSUME AInv, NEW c \in Conns, NEW j \in Jobs, held[c][j] > 0,
                      owner[c] \notin crowded
               PROVE  \E i \in Runs : job[i] = j /\ pc[i] \in Guarded
    BY DEF NoLockLeft
  <2>1. owner[c] \in Replicas
    BY DEF AInv, IInv, TypeOK, PoolsOK
  <2>2. \E i \in Inside(j) : home[i] = owner[c]
    BY <2>1 DEF AInv, AloneOK, Alone
  <2> QED BY <2>2 DEF Inside
<1> QED BY <1>1, InitAlone, NextAlone, PTL DEF Spec

-----------------------------------------------------------------------------
(* app/jobs/runner.py: a row that says "running" or "failed_permanent"     *)
(* tells what its run is doing, unless the run was cut off.                *)
THEOREM RowsAreTrue == Spec => []RowsTellTheRun
<1> DEFINE RInv == TypeOK /\ RowsTellTheRun
<1>1. Init => RInv
  BY InitOK DEF IInv, Init, RowsTellTheRun
<1>2. RInv /\ TypeOK' /\ [Next]_vars => RInv'
  <2> SUFFICES ASSUME RInv, TypeOK', [Next]_vars
               PROVE  RowsTellTheRun'
    OBVIOUS
  <2>1. /\ pc \in [Runs -> Stages] /\ record \in [Runs -> Records]
        /\ entry \in [Runs -> Entries]
    BY DEF TypeOK
  <2>2. CASE UNCHANGED vars
    BY <2>2 DEF vars, place, rows, RowsTellTheRun
  <2>3. ASSUME NEW i \in Runs, Tick(i) PROVE RowsTellTheRun'
    <3>1. /\ pc[i] = "ready" /\ UNCHANGED rows
          /\ \A k \in Runs \ {i} : pc'[k] = pc[k]
      BY <2>1, <2>3 DEF Tick, TryLock
    <3> QED BY <3>1 DEF rows, RowsTellTheRun
  <2>4. ASSUME NEW i \in Runs, RunStep(i) PROVE RowsTellTheRun'
    <3>1. CASE Unlock(i) \/ LeaveScope(i)
      BY <2>1, <3>1 DEF Unlock, LeaveScope, rows, RowsTellTheRun
    <3>2. CASE StartRecord(i)
      BY <2>1, <3>2 DEF StartRecord, Proceed, RowsTellTheRun
    <3>3. CASE FuncQueries(i) \/ FuncCommits(i) \/ FuncRaises(i)
      BY <2>1, <3>3 DEF FuncQueries, FuncCommits, FuncRaises, Proceed, rows, RowsTellTheRun
    <3>4. CASE FuncReturns(i)
      BY <2>1, <3>4 DEF FuncReturns, Proceed, RowsTellTheRun
    <3>5. CASE FuncRaisesInTransaction(i)
      BY <2>1, <3>5 DEF FuncRaisesInTransaction, Proceed, RowsTellTheRun
    <3>6. CASE CreateEntry(i)
      BY <2>1, <3>6 DEF CreateEntry, Proceed, RowsTellTheRun
    <3>7. ASSUME NEW category \in {"permanent", "retryable"}, RecordFailure(i, category)
          PROVE  RowsTellTheRun'
      BY <2>1, <3>7 DEF RecordFailure, Proceed, RowsTellTheRun
    <3> QED BY <2>4, <3>1, <3>2, <3>3, <3>4, <3>5, <3>6, <3>7 DEF RunStep
  <2>5. ASSUME NEW i \in Runs, CancelInvocation(i) PROVE RowsTellTheRun'
    BY <2>1, <2>5 DEF CancelInvocation, RowsTellTheRun
  <2>6. ASSUME NEW i \in Runs, StaffStep(i) PROVE RowsTellTheRun'
    <3>1. CASE CancelJob(i)
      BY <2>1, <3>1 DEF CancelJob, place, RowsTellTheRun
    <3>2. CASE MarkReplayReady(i)
      BY <2>1, <3>2 DEF MarkReplayReady, place, RowsTellTheRun
    <3>3. CASE ReplayJob(i)
      BY <2>1, <3>3 DEF ReplayJob, place, RowsTellTheRun
    <3> QED BY <2>6, <3>1, <3>2, <3>3 DEF StaffStep
  <2>7. ASSUME NEW r \in Replicas, CrashReplica(r) PROVE RowsTellTheRun'
    BY <2>1, <2>7 DEF CrashReplica, Active, RowsTellTheRun
  <2> QED BY <2>2, <2>3, <2>4, <2>5, <2>6, <2>7 DEF Next, AllOver
<1>3. RInv => RowsTellTheRun
  OBVIOUS
<1> HIDE DEF RInv
<1> QED BY <1>1, <1>2, <1>3, TypeCorrect, PTL DEF Spec
=============================================================================

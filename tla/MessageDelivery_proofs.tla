----------------------- MODULE MessageDelivery_proofs -----------------------
(***************************************************************************)
(* For any number of messages and webhook requests: a message has the      *)
(* status the provider last told of unless a webhook came out of order,    *)
(* and no receipt is taken back.  And of the batches that send messages at *)
(* their time (ScheduledMessages): whatever crashes and overlaps, a        *)
(* message reaches the customer twice only for one of two reasons.         *)
(***************************************************************************)
EXTENDS MessageDelivery, ScheduledMessages, SumTheorems, TLAPS

Busy(h) == handler[h] # Idle
Event(h) == handler[h].event

(* What the provider can have reported of one message.                     *)
LifeOK(life) ==
  /\ Len(life) <= 4
  /\ Len(life) >= 1 => life[1] = "accepted"
  /\ Len(life) >= 2 => life[2] \in {"sent", "failed"}
  /\ Len(life) >= 3 => life[2] = "sent" /\ life[3] \in {"delivered", "failed"}
  /\ Len(life) >= 4 => life[3] = "delivered" /\ life[4] = "read"

StageOK(m) ==
  /\ LifeOK(reports[m])
  /\ stage[m] \in {"new", "closed"} => reports[m] = <<>>
  /\ stage[m] \in {"new", "handed", "lost"} => status[m] = "none"
  /\ stage[m] = "closed" => status[m] \in {"queued", "failed", "suppressed"}
  /\ stage[m] = "recorded" =>
       status[m] \in {"queued", "sent", "delivered", "read", "failed"}
  /\ m \in retryable => stage[m] = "closed"

StagesOK == \A m \in Messages : StageOK(m)

(* A request serves an event that is reported, not consumed and not served *)
(* by another.                                                             *)
HandlersOK ==
  /\ \A h \in Handlers : Busy(h) => Event(h) \in Events \ consumed
  /\ \A g, h \in Handlers : g # h /\ Busy(g) /\ Busy(h) => Event(g) # Event(h)

Seen(e) == e \in consumed \/ \E h \in Handlers : Busy(h) /\ Event(h) = e

(* What is seen of a message that is not late is seen in order.            *)
OrderOK ==
  \A m \in Messages \ late, i \in Nat :
    Seen(<<m, i>>) => \A j \in 1 .. i - 1 : <<m, j>> \in consumed

(* The report behind a status has been consumed.                           *)
Told(m, s) ==
  /\ s \in {"delivered", "read"} =>
       /\ <<m, 3>> \in consumed /\ Len(reports[m]) >= 3
       /\ reports[m][3] = "delivered"
  /\ s \in {"failed", "queued"} =>
       \E i \in {2, 3} : /\ <<m, i>> \in consumed /\ Len(reports[m]) >= i
                         /\ reports[m][i] = "failed"

ToldOK ==
  /\ \A m \in Messages : stage[m] = "recorded" => Told(m, status[m])
  /\ \A h \in Handlers : Busy(h) => Told(Event(h)[1], handler[h].copy)

(* A request has found no row unless there is one, and on a message that   *)
(* is not late it has read the status there still is.                      *)
CopiesOK ==
  \A h \in Handlers : Busy(h) =>
    /\ stage[Event(h)[1]] # "recorded" => handler[h].copy = "none"
    /\ Event(h)[1] \notin late =>
         stage[Event(h)[1]] = "recorded" /\ handler[h].copy = status[Event(h)[1]]

IInv == TypeOK /\ StagesOK /\ HandlersOK /\ OrderOK /\ ToldOK /\ CopiesOK

-----------------------------------------------------------------------------
(* An event is a message and a position in what was reported of it.        *)
LEMMA EventForm ==
  ASSUME TypeOK, NEW e
  PROVE  e \in Events <=>
           \E m \in Messages, i \in Nat :
             e = <<m, i>> /\ 1 <= i /\ i <= Len(reports[m])
<1>1. \A m \in Messages : reports[m] \in Seq(Statuses \union {"accepted"})
  BY DEF TypeOK
<1>2. \A m \in Messages : Len(reports[m]) \in Nat /\ DOMAIN reports[m] = 1 .. Len(reports[m])
  BY <1>1
<1> QED BY <1>2 DEF Events

LEMMA InitOK == Init => IInv
<1> SUFFICES ASSUME Init PROVE IInv OBVIOUS
<1>1. TypeOK
  BY DeliveryAssumption DEF Init, TypeOK, Idle, Statuses, Events
<1>2. Events = {}
  BY DEF Init, Events
<1>3. StagesOK
  BY DEF Init, StagesOK, StageOK, LifeOK
<1>4. HandlersOK /\ OrderOK /\ ToldOK /\ CopiesOK
  BY DEF Init, HandlersOK, OrderOK, ToldOK, CopiesOK, Busy, Event, Seen
<1> QED BY <1>1, <1>3, <1>4 DEF IInv

-----------------------------------------------------------------------------
LEMMA TypeStep == TypeOK /\ HandlersOK /\ [Next]_vars => TypeOK'
<1> SUFFICES ASSUME TypeOK, HandlersOK, [Next]_vars PROVE TypeOK'
  OBVIOUS
<1> USE DEF TypeOK
<1>1. ASSUME NEW m \in Messages, NEW final \in {"suppressed", "failed"},
             Close(m, final), retryable' \subseteq Messages
      PROVE  TypeOK'
  <2>1. Events' = Events BY <1>1 DEF Close, Events
  <2> QED BY <1>1, <2>1 DEF Close, Statuses
<1>2. ASSUME NEW m \in Messages, HandOver(m) \/ Lose(m) PROVE TypeOK'
  <2>1. Events' = Events BY <1>2 DEF HandOver, Lose, Events
  <2> QED BY <1>2, <2>1 DEF HandOver, Lose
<1>3. ASSUME NEW m \in Messages, Record(m) PROVE TypeOK'
  <2>1. Events' = Events BY <1>3 DEF Record, Events
  <2> QED BY <1>3, <2>1 DEF Record, Statuses
<1>4. ASSUME NEW m \in Messages, Report(m) PROVE TypeOK'
  <2>1. PICK s \in Following(reports[m]) :
          reports' = [reports EXCEPT ![m] = Append(@, s)]
    BY <1>4 DEF Report
  <2>2. s \in Statuses \union {"accepted"}
    BY <2>1 DEF Following, Statuses
  <2>3. reports' \in [Messages -> Seq(Statuses \union {"accepted"})]
    BY <2>1, <2>2
  <2>4. \A n \in Messages : DOMAIN reports[n] \subseteq DOMAIN reports'[n]
    BY <2>1, <2>2
  <2>5. consumed' \subseteq Events'
    BY <2>4, <1>4 DEF Report, Events
  <2> QED BY <1>4, <2>3, <2>5 DEF Report, sending
<1>5. ASSUME NEW h \in Handlers, NEW e \in Events, Receive(h, e) PROVE TypeOK'
  <2>1. Events' = Events BY <1>5 DEF Receive, Events
  <2>2. e \in Messages \X Nat /\ e[1] \in Messages
    BY EventForm
  <2>3. late' \subseteq Messages
    BY <1>5, <2>2 DEF Receive
  <2>4. [event |-> e, copy |-> status[e[1]]] \in [event : Nat \X Nat, copy : Statuses]
    BY <2>2 DEF Messages
  <2>5. handler' \in [Handlers -> [event : Nat \X Nat, copy : Statuses]]
    BY <1>5, <2>4 DEF Receive
  <2> QED BY <1>5, <2>1, <2>3, <2>5 DEF Receive, sending
<1>6. ASSUME NEW h \in Handlers, Drop(h) PROVE TypeOK'
  <2>1. Events' = Events BY <1>6 DEF Drop, Events
  <2> QED BY <1>6, <2>1 DEF Drop, sending, Idle, Statuses
<1>7. ASSUME NEW h \in Handlers, Apply(h) PROVE TypeOK'
  <2>1. Events' = Events BY <1>7 DEF Apply, Events
  <2>2. status' \in [Messages -> Statuses]
    <3> DEFINE target == Normalized(reports[Event(h)[1]][Event(h)[2]])
    <3>1. PICK m \in Messages, i \in Nat :
            Event(h) = <<m, i>> /\ 1 <= i /\ i <= Len(reports[m])
      BY <1>7, EventForm DEF Apply, HandlersOK, Busy
    <3>2. reports[m][i] \in Statuses \union {"accepted"}
      BY <3>1
    <3>3. target \in Statuses
      BY <3>1, <3>2 DEF Normalized, Statuses
    <3> QED BY <1>7, <3>3 DEF Apply, Event
  <2>3. consumed' \subseteq Events'
    BY <1>7, <2>1 DEF Apply, HandlersOK, Busy, Event
  <2> QED BY <1>7, <2>1, <2>2, <2>3 DEF Apply, sending, Idle, Statuses
<1>8. CASE RetryFailed
  <2>1. Events' = Events BY <1>8 DEF RetryFailed, Events
  <2>2. \A m \in Messages : retries'[m] \in 0 .. MaxAttempts
    BY <1>8, DeliveryAssumption DEF RetryFailed, Batch, Candidates
  <2>3. retries' \in [Messages -> 0 .. MaxAttempts]
    BY <1>8, <2>2 DEF RetryFailed
  <2> QED BY <1>8, <2>1, <2>3 DEF RetryFailed, Statuses
<1>9. CASE UNCHANGED vars
  BY <1>9 DEF vars, Events
<1> QED BY <1>1, <1>2, <1>3, <1>4, <1>5, <1>6, <1>7, <1>8, <1>9
        DEF Next, Suppress, Refuse, TimeOut

-----------------------------------------------------------------------------
LEMMA LifeGrows ==
  ASSUME NEW life \in Seq(Statuses \union {"accepted"}), LifeOK(life),
         NEW s \in Following(life)
  PROVE  LifeOK(Append(life, s))
<1> DEFINE new == Append(life, s)
<1>1. s \in Statuses \union {"accepted"}
  BY DEF Following, Statuses
<1>2. Len(new) = Len(life) + 1 /\ new[Len(life) + 1] = s
      /\ \A i \in 1 .. Len(life) : new[i] = life[i]
  BY <1>1
<1>3. Len(life) \in Nat /\ Len(life) <= 4
  BY DEF LifeOK
<1>4. CASE Len(life) = 0
  BY <1>2, <1>4 DEF LifeOK, Following
<1>5. CASE Len(life) = 1
  BY <1>2, <1>5 DEF LifeOK, Following
<1>6. CASE Len(life) = 2
  BY <1>2, <1>6 DEF LifeOK, Following
<1>7. CASE Len(life) = 3
  BY <1>2, <1>7 DEF LifeOK, Following
<1>8. Len(life) # 4
  <2> SUFFICES ASSUME Len(life) = 4 PROVE FALSE
    OBVIOUS
  <2>1. life # <<>> /\ life[Len(life)] = "read"
    BY DEF LifeOK
  <2>2. Following(life) = {}
    BY <2>1 DEF Following
  <2> QED BY <2>2
<1>9. \A k \in Nat : k <= 4 => k \in {0, 1, 2, 3, 4}
  OBVIOUS
<1>10. Len(life) \in {0, 1, 2, 3}
  BY <1>3, <1>8, <1>9
<1> HIDE DEF new
<1> QED BY <1>4, <1>5, <1>6, <1>7, <1>10

(* A request serves an event of a message that was handed over.            *)
LEMMA BusyForm ==
  ASSUME TypeOK, HandlersOK, StagesOK, NEW h \in Handlers, Busy(h)
  PROVE  \E m \in Messages, i \in Nat :
           /\ Event(h) = <<m, i>> /\ 1 <= i /\ i <= Len(reports[m])
           /\ stage[m] \in {"handed", "recorded", "lost"}
<1>1. PICK m \in Messages, i \in Nat :
        Event(h) = <<m, i>> /\ 1 <= i /\ i <= Len(reports[m])
  BY EventForm DEF HandlersOK
<1>2. stage[m] \notin {"new", "closed"}
  BY <1>1 DEF StagesOK, StageOK
<1> QED BY <1>1, <1>2 DEF TypeOK

LEMMA StagesStep ==
  TypeOK /\ HandlersOK /\ StagesOK /\ CopiesOK /\ [Next]_vars => StagesOK'
<1> SUFFICES ASSUME TypeOK, HandlersOK, StagesOK, CopiesOK, [Next]_vars,
                    NEW n \in Messages
             PROVE  StageOK(n)'
  BY DEF StagesOK
<1>0. StageOK(n)
  BY DEF StagesOK
<1> USE DEF StageOK
<1>1. ASSUME NEW m \in Messages,
             Suppress(m) \/ Refuse(m) \/ TimeOut(m) \/ HandOver(m) \/ Record(m) \/ Lose(m)
      PROVE  StageOK(n)'
  BY <1>0, <1>1 DEF LifeOK, TypeOK, Suppress, Refuse, TimeOut, Close, HandOver, Record, Lose
<1>2. ASSUME NEW m \in Messages, Report(m) PROVE StageOK(n)'
  <2>1. PICK s \in Following(reports[m]) :
          reports' = [reports EXCEPT ![m] = Append(@, s)]
    BY <1>2 DEF Report
  <2>2. LifeOK(reports[m]) /\ reports[m] \in Seq(Statuses \union {"accepted"})
    BY DEF StagesOK, TypeOK
  <2>3. LifeOK(Append(reports[m], s))
    BY <2>1, <2>2, LifeGrows
  <2>4. n # m => reports'[n] = reports[n]
    BY <2>1 DEF TypeOK
  <2>5. n = m => LifeOK(reports'[n])
    BY <2>1, <2>3 DEF TypeOK
  <2>6. LifeOK(reports'[n])
    BY <1>0, <2>4, <2>5
  <2> QED BY <1>0, <1>2, <2>4, <2>6 DEF Report, sending, LifeOK
<1>3. ASSUME NEW h \in Handlers, Apply(h) PROVE StageOK(n)'
  <2>1. PICK m \in Messages, i \in Nat :
          /\ Event(h) = <<m, i>> /\ 1 <= i /\ i <= Len(reports[m])
          /\ stage[m] \in {"handed", "recorded", "lost"}
    BY <1>3, BusyForm DEF Apply, Busy
  <2>2. stage[m] # "recorded" => status' = status
    BY <1>3, <2>1 DEF Apply, Allowed, CopiesOK, Busy, Event
  <2>3. DEFINE target == Normalized(reports[m][i])
  <2>4. Len(reports[m]) \in Nat /\ Len(reports[m]) <= 4 /\ LifeOK(reports[m])
    BY DEF StagesOK, LifeOK, TypeOK
  <2>5. target \in {"queued", "sent", "delivered", "read", "failed"}
    BY <2>1, <2>4 DEF LifeOK, Normalized
  <2>6. status' = status \/ /\ target \in {"queued", "sent", "delivered", "read", "failed"}
                            /\ status' = [status EXCEPT ![m] = target]
    BY <1>3, <2>1, <2>5 DEF Apply, Event
  <2> HIDE DEF target
  <2> QED BY <1>0, <1>3, <2>1, <2>2, <2>6 DEF Apply, sending, LifeOK, TypeOK
<1>4. CASE RetryFailed
  BY <1>0, <1>4 DEF RetryFailed, Batch, Candidates, LifeOK, TypeOK
<1>5. ASSUME NEW h \in Handlers, (\E e \in Events : Receive(h, e)) \/ Drop(h)
      PROVE  StageOK(n)'
  BY <1>0, <1>5 DEF Receive, Drop, sending, LifeOK
<1>6. CASE UNCHANGED vars
  BY <1>0, <1>6 DEF vars, LifeOK
<1> QED BY <1>1, <1>2, <1>3, <1>4, <1>5, <1>6 DEF Next

-----------------------------------------------------------------------------
(* What was reported stays so.                                             *)
LEMMA ReportsGrow ==
  ASSUME TypeOK, [Next]_vars, NEW m \in Messages
  PROVE  /\ Len(reports[m]) \in Nat /\ Len(reports'[m]) \in Nat
         /\ Len(reports[m]) <= Len(reports'[m])
         /\ \A i \in 1 .. Len(reports[m]) : reports'[m][i] = reports[m][i]
         /\ consumed \subseteq consumed'
<1>1. Len(reports[m]) \in Nat
  BY DEF TypeOK
<1>2. CASE reports' = reports /\ consumed \subseteq consumed'
  BY <1>1, <1>2
<1>3. ASSUME NEW n \in Messages, Report(n)
      PROVE  /\ Len(reports'[m]) \in Nat
             /\ Len(reports[m]) <= Len(reports'[m])
             /\ \A i \in 1 .. Len(reports[m]) : reports'[m][i] = reports[m][i]
             /\ consumed \subseteq consumed'
  <2>1. PICK s \in Following(reports[n]) :
          reports' = [reports EXCEPT ![n] = Append(@, s)]
    BY <1>3 DEF Report
  <2>2. reports[m] \in Seq(Statuses \union {"accepted"}) /\ s \in Statuses \union {"accepted"}
    BY <2>1 DEF TypeOK, Following, Statuses
  <2>3. reports'[m] = reports[m] \/ reports'[m] = Append(reports[m], s)
    BY <2>1 DEF TypeOK
  <2> QED BY <1>1, <1>3, <2>2, <2>3 DEF Report
<1>4. \/ reports' = reports /\ consumed \subseteq consumed'
      \/ \E n \in Messages : Report(n)
  BY DEF Next, Suppress, Refuse, TimeOut, Close, HandOver, Record, Lose, Receive,
         Apply, Drop, RetryFailed, vars
<1> QED BY <1>1, <1>2, <1>3, <1>4

(* What a request may do to the requests under way.                        *)
LEMMA HandlersChange ==
  ASSUME TypeOK, [Next]_vars
  PROVE  \/ handler' = handler /\ consumed' = consumed
         \/ \E h \in Handlers, e \in Events : Receive(h, e)
         \/ \E h \in Handlers : Apply(h) \/ Drop(h)
BY DEF Next, Suppress, Refuse, TimeOut, Close, HandOver, Record, Lose, Report,
       RetryFailed, vars

LEMMA HandlersStep == TypeOK /\ HandlersOK /\ [Next]_vars => HandlersOK'
<1> SUFFICES ASSUME TypeOK, HandlersOK, [Next]_vars PROVE HandlersOK'
  OBVIOUS
<1>1. TypeOK'
  BY TypeStep
<1>2. Events \subseteq Events'
  <2> SUFFICES ASSUME NEW e \in Events PROVE e \in Events'
    OBVIOUS
  <2>1. PICK m \in Messages, i \in Nat : e = <<m, i>> /\ 1 <= i /\ i <= Len(reports[m])
    BY EventForm
  <2>2. Len(reports[m]) \in Nat /\ Len(reports'[m]) \in Nat
        /\ Len(reports[m]) <= Len(reports'[m])
    BY ReportsGrow
  <2>3. 1 <= i /\ i <= Len(reports'[m])
    BY <2>1, <2>2
  <2>4. DOMAIN reports'[m] = 1 .. Len(reports'[m])
    BY <1>1 DEF TypeOK
  <2> QED BY <2>1, <2>2, <2>3, <2>4 DEF Events
<1>3. CASE handler' = handler /\ consumed' = consumed
  BY <1>2, <1>3 DEF HandlersOK, Busy, Event
<1>4. ASSUME NEW h \in Handlers, NEW e \in Events, Receive(h, e) PROVE HandlersOK'
  <2>1. /\ handler' = [handler EXCEPT ![h] = [event |-> e, copy |-> status[e[1]]]]
        /\ \A g \in Handlers : handler[g].event # e
        /\ e \notin consumed /\ consumed' = consumed
    BY <1>4 DEF Receive, Unseen
  <2>2. \A g \in Handlers : handler'[g] = IF g = h THEN [event |-> e, copy |-> status[e[1]]]
                                                   ELSE handler[g]
    BY <2>1 DEF TypeOK
  <2> QED BY <1>2, <2>1, <2>2 DEF HandlersOK, Busy, Event
<1>5. ASSUME NEW h \in Handlers, Apply(h) \/ Drop(h) PROVE HandlersOK'
  <2>1. \A g \in Handlers : handler'[g] = IF g = h THEN Idle ELSE handler[g]
    BY <1>5 DEF Apply, Drop, TypeOK
  <2>2. consumed' \subseteq consumed \union {Event(h)} /\ (Busy(h) \/ consumed' = consumed)
    BY <1>5 DEF Apply, Drop, Event, Busy
  <2> QED BY <1>2, <2>1, <2>2 DEF HandlersOK, Busy, Event
<1> QED BY <1>3, <1>4, <1>5, HandlersChange

LEMMA OrderStep == TypeOK /\ HandlersOK /\ OrderOK /\ [Next]_vars => OrderOK'
<1> SUFFICES ASSUME TypeOK, HandlersOK, OrderOK, [Next]_vars,
                    NEW m \in Messages, m \notin late', NEW i \in Nat,
                    Seen(<<m, i>>)', NEW j \in 1 .. i - 1
             PROVE  <<m, j>> \in consumed'
  BY DEF OrderOK
<1>1. late \subseteq late' /\ consumed \subseteq consumed'
  BY DEF Next, Suppress, Refuse, TimeOut, Close, HandOver, Record, Lose, Report,
         Receive, Apply, Drop, RetryFailed, vars
<1>2. CASE Seen(<<m, i>>)
  BY <1>1, <1>2 DEF OrderOK
<1>3. ASSUME ~Seen(<<m, i>>) PROVE <<m, j>> \in consumed'
  <2>1. PICK h \in Handlers : Receive(h, <<m, i>>)
    <3>1. CASE handler' = handler /\ consumed' = consumed
      BY <1>3, <3>1 DEF Seen, Busy, Event
    <3>2. ASSUME NEW h \in Handlers, Apply(h) \/ Drop(h) PROVE FALSE
      <4>1. \A g \in Handlers : handler'[g] = IF g = h THEN Idle ELSE handler[g]
        BY <3>2 DEF Apply, Drop, TypeOK
      <4>2. consumed' \subseteq consumed \union {Event(h)} /\ (Busy(h) \/ consumed' = consumed)
        BY <3>2 DEF Apply, Drop, Event, Busy
      <4> QED BY <1>3, <4>1, <4>2 DEF Seen, Busy, Event
    <3>3. ASSUME NEW h \in Handlers, NEW e \in Events, Receive(h, e)
          PROVE  e = <<m, i>>
      <4>1. /\ handler' = [handler EXCEPT ![h] = [event |-> e, copy |-> status[e[1]]]]
            /\ consumed' = consumed
        BY <3>3 DEF Receive
      <4>2. \A g \in Handlers : handler'[g] = IF g = h THEN [event |-> e, copy |-> status[e[1]]]
                                                       ELSE handler[g]
        BY <4>1 DEF TypeOK
      <4> QED BY <1>3, <4>1, <4>2 DEF Seen, Busy, Event
    <3> QED BY <3>1, <3>2, <3>3, HandlersChange
  <2>2. ~OutOfOrder(m, i)
    BY <2>1 DEF Receive
  <2> QED BY <1>1, <2>2 DEF OutOfOrder
<1> QED BY <1>2, <1>3

-----------------------------------------------------------------------------
LEMMA ToldStays ==
  ASSUME TypeOK, [Next]_vars, NEW m \in Messages, NEW s, Told(m, s)
  PROVE  Told(m, s)'
BY ReportsGrow DEF Told

(* What a request makes of a status, by what the event it serves reports.  *)
LEMMA Applied ==
  ASSUME TypeOK, StagesOK, HandlersOK, ToldOK, CopiesOK,
         NEW h \in Handlers, Apply(h), NEW m \in Messages, Event(h)[1] = m
  PROVE  \/ status' = status
         \/ /\ stage[m] = "recorded"
            /\ \E i \in 1 .. 4, s \in Statuses :
                 /\ Event(h) = <<m, i>> /\ i <= Len(reports[m])
                 /\ status' = [status EXCEPT ![m] = s]
                 /\ s = Normalized(reports[m][i]) /\ Allowed(handler[h].copy, s)
                 /\ s = "delivered" => i = 3
                 /\ s = "read" => handler[h].copy = "delivered"
                 /\ s = "failed" => i \in {2, 3} /\ handler[h].copy = "sent"
                 /\ s = "queued" => i = 1 /\ handler[h].copy = "failed"
                 /\ s \in {"delivered", "read", "failed", "queued"}
<1>1. Busy(h)
  BY DEF Apply, Busy
<1>2. PICK i \in Nat : Event(h) = <<m, i>> /\ 1 <= i /\ i <= Len(reports[m])
  BY <1>1, BusyForm
<1>3. Len(reports[m]) \in Nat /\ LifeOK(reports[m]) /\ Len(reports[m]) <= 4
  BY DEF TypeOK, StagesOK, StageOK, LifeOK
<1>4. i \in 1 .. 4
  BY <1>2, <1>3
<1> DEFINE s == Normalized(reports[m][i])
<1>5. /\ reports[m][i] = "accepted" => i = 1
      /\ reports[m][i] = "delivered" => i = 3
      /\ reports[m][i] = "failed" => i \in {2, 3}
      /\ reports[m][i] \in {"accepted", "sent", "delivered", "read", "failed"}
  BY <1>2, <1>3, <1>4 DEF LifeOK
<1>6. /\ s \in {"queued", "sent", "delivered", "read", "failed"}
      /\ s = "delivered" => i = 3
      /\ s = "failed" => i \in {2, 3}
      /\ s = "queued" => i = 1
  BY <1>5 DEF Normalized
<1>7. status' = IF Allowed(handler[h].copy, s) THEN [status EXCEPT ![m] = s] ELSE status
  BY <1>2 DEF Apply, Event
<1>8. CASE ~Allowed(handler[h].copy, s)
  BY <1>7, <1>8
<1>9. CASE Allowed(handler[h].copy, s)
  <2>1. handler[h].copy \in Statuses
    BY DEF TypeOK
  <2>2. /\ s = "read" => handler[h].copy = "delivered"
        /\ s = "queued" => handler[h].copy = "failed"
        /\ s = "failed" => handler[h].copy = "sent"
        /\ s # "sent" /\ handler[h].copy # "none"
    BY <1>6, <1>9, <2>1 DEF Allowed, Statuses
  <2>3. stage[m] = "recorded"
    BY <1>1, <1>2, <2>2 DEF CopiesOK
  <2>4. s \in Statuses
    BY <1>6 DEF Statuses
  <2> HIDE DEF s
  <2>5. status' = [status EXCEPT ![m] = s]
    BY <1>7, <1>9
  <2>6. s = Normalized(reports[m][i])
    BY DEF s
  <2>7. s \in {"delivered", "read", "failed", "queued"}
    BY <1>6, <2>2
  <2>8. /\ Event(h) = <<m, i>> /\ i <= Len(reports[m])
        /\ status' = [status EXCEPT ![m] = s]
        /\ s = Normalized(reports[m][i]) /\ Allowed(handler[h].copy, s)
        /\ s = "delivered" => i = 3
        /\ s = "read" => handler[h].copy = "delivered"
        /\ s = "failed" => i \in {2, 3} /\ handler[h].copy = "sent"
        /\ s = "queued" => i = 1 /\ handler[h].copy = "failed"
        /\ s \in {"delivered", "read", "failed", "queued"}
    BY <1>2, <1>6, <1>9, <2>2, <2>5, <2>6, <2>7
  <2> QED BY <1>4, <2>3, <2>4, <2>8
<1> QED BY <1>8, <1>9

(* The retry job leaves alone what the provider has.                       *)
LEMMA RetrySpares ==
  ASSUME TypeOK, StagesOK, RetryFailed, NEW m \in Messages, status'[m] # status[m]
  PROVE  m \in retryable /\ stage[m] = "closed" /\ status[m] = "failed"
         /\ status'[m] = "queued"
<1>1. m \in Batch \intersect retryable /\ status'[m] = "queued"
  BY DEF RetryFailed, TypeOK
<1> QED BY <1>1 DEF Batch, Candidates, StagesOK, StageOK

LEMMA ToldStep ==
  TypeOK /\ StagesOK /\ HandlersOK /\ ToldOK /\ CopiesOK /\ [Next]_vars => ToldOK'
<1> SUFFICES ASSUME TypeOK, StagesOK, HandlersOK, ToldOK, CopiesOK, [Next]_vars
             PROVE  ToldOK'
  OBVIOUS
<1>1. ASSUME NEW m \in Messages, stage'[m] = "recorded" PROVE Told(m, status[m])' 
  <2>1. CASE stage[m] = "recorded" /\ status'[m] = status[m]
    BY <2>1, ToldStays DEF ToldOK, Told
  <2>2. ASSUME NEW n \in Messages, Record(n), n = m PROVE Told(m, status[m])'
    BY <2>2 DEF Record, Told, TypeOK
  <2>3. ASSUME NEW h \in Handlers, Apply(h), Event(h)[1] = m, status' # status
        PROVE  Told(m, status[m])'
    <3>1. PICK i \in 1 .. 4, s \in Statuses :
                 /\ Event(h) = <<m, i>> /\ i <= Len(reports[m])
                 /\ status' = [status EXCEPT ![m] = s]
                 /\ s = Normalized(reports[m][i])
                 /\ s = "delivered" => i = 3
                 /\ s = "read" => handler[h].copy = "delivered"
                 /\ s = "failed" => i \in {2, 3}
                 /\ s = "queued" => handler[h].copy = "failed"
      BY <2>3, Applied
    <3>2. status'[m] = s
      BY <3>1 DEF TypeOK
    <3>3. Busy(h) /\ consumed' = consumed \union {<<m, i>>} /\ reports' = reports
      BY <2>3, <3>1 DEF Apply, Busy, Event
    <3>4. Told(m, handler[h].copy)
      BY <3>1, <3>3 DEF ToldOK
    <3>5. s \in {"delivered", "failed"} => reports[m][i] = s
      BY <3>1 DEF Normalized
    <3>6. Told(m, s)'
      BY <3>1, <3>3, <3>4, <3>5 DEF Told
    <3> QED BY <3>2, <3>6 DEF Told
  <2>4. \/ stage[m] = "recorded" /\ status'[m] = status[m]
        \/ \E n \in Messages : Record(n) /\ n = m
        \/ \E h \in Handlers : Apply(h) /\ Event(h)[1] = m /\ status' # status
    <3>1. CASE RetryFailed
      BY <1>1, <3>1, RetrySpares DEF RetryFailed
    <3>2. ASSUME NEW h \in Handlers, Apply(h)
          PROVE  /\ stage[m] = "recorded"
                 /\ status'[m] # status[m] => Event(h)[1] = m
      <4>1. stage' = stage
        BY <3>2 DEF Apply, sending
      <4>2. DOMAIN status = Messages
        BY DEF TypeOK
      <4>3. status' = status \/ \E s : status' = [status EXCEPT ![Event(h)[1]] = s]
        BY <3>2 DEF Apply, Event
      <4> QED BY <1>1, <4>1, <4>2, <4>3
    <3>3. ASSUME NEW n \in Messages, Record(n)
          PROVE  n # m => stage[m] = "recorded" /\ status'[m] = status[m]
      <4>1. DOMAIN stage = Messages /\ DOMAIN status = Messages
        BY DEF TypeOK
      <4>2. /\ stage' = [stage EXCEPT ![n] = "recorded"]
            /\ status' = [status EXCEPT ![n] = "sent"]
        BY <3>3 DEF Record
      <4> QED BY <1>1, <4>1, <4>2
    <3> QED BY <1>1, <3>1, <3>2, <3>3
            DEF Next, Suppress, Refuse, TimeOut, Close, HandOver, Lose, Report, Receive,
                Drop, sending, vars, TypeOK
  <2> QED BY <2>1, <2>2, <2>3, <2>4
<1>2. ASSUME NEW h \in Handlers, Busy(h)' PROVE Told(Event(h)[1], handler[h].copy)'
  <2>1. CASE Busy(h) /\ handler'[h] = handler[h]
    <3>1. PICK m \in Messages : Event(h)[1] = m
      BY <2>1, BusyForm
    <3>2. Told(m, handler[h].copy)
      BY <2>1, <3>1 DEF ToldOK
    <3>3. Told(m, handler[h].copy)'
      BY <2>1, <3>2, ToldStays DEF Told
    <3> QED BY <2>1, <3>1, <3>3 DEF Event
  <2>2. ASSUME NEW e \in Events, Receive(h, e)
        PROVE  Told(Event(h)[1], handler[h].copy)'
    <3>1. PICK m \in Messages, i \in Nat : e = <<m, i>> /\ 1 <= i /\ i <= Len(reports[m])
      BY EventForm
    <3>2. stage[m] \notin {"new", "closed"}
      BY <3>1 DEF StagesOK, StageOK
    <3>3. stage[m] = "recorded" \/ status[m] = "none"
      BY <3>2 DEF StagesOK, StageOK, TypeOK
    <3>4. Told(m, status[m])
      BY <3>3 DEF ToldOK, Told
    <3>5. handler'[h] = [event |-> e, copy |-> status[m]]
      BY <2>2, <3>1 DEF Receive, TypeOK
    <3>6. Told(m, status[m]) => Told(Event(h)[1], handler[h].copy)'
      BY <2>2, <3>1, <3>5 DEF Told, Receive, Event
    <3> QED BY <3>4, <3>6
  <2>3. ASSUME NEW g \in Handlers, NEW e \in Events, Receive(g, e), g # h
        PROVE  handler'[h] = handler[h]
    BY <2>3 DEF Receive, TypeOK
  <2>4. ASSUME NEW g \in Handlers, Apply(g) \/ Drop(g)
        PROVE  g # h /\ handler'[h] = handler[h]
    BY <1>2, <2>4 DEF Apply, Drop, TypeOK, Busy
  <2> QED BY <1>2, <2>1, <2>2, <2>3, <2>4, HandlersChange DEF Busy
<1> QED BY <1>1, <1>2 DEF ToldOK

-----------------------------------------------------------------------------
LEMMA StageStays ==
  ASSUME TypeOK, [Next]_vars, NEW m \in Messages
  PROVE  /\ stage[m] = "recorded" => stage'[m] = "recorded"
         /\ late \subseteq late'
BY DEF Next, Suppress, Refuse, TimeOut, Close, HandOver, Record, Lose, Report,
       Receive, Apply, Drop, RetryFailed, sending, vars, TypeOK

(* Who may change a status.                                                *)
LEMMA StatusChange ==
  ASSUME TypeOK, StagesOK, HandlersOK, [Next]_vars, NEW m \in Messages,
         status'[m] # status[m], stage[m] = "recorded"
  PROVE  \E h \in Handlers : Apply(h) /\ Event(h)[1] = m
<1>1. ~RetryFailed
  BY RetrySpares
<1>2. ASSUME NEW n \in Messages, Record(n) \/ Suppress(n) \/ Refuse(n) \/ TimeOut(n)
      PROVE  FALSE
  <2>1. stage[n] \in {"new", "handed"}
        /\ \E s : status' = [status EXCEPT ![n] = s]
    BY <1>2 DEF Record, Suppress, Refuse, TimeOut, Close
  <2> QED BY <2>1 DEF TypeOK
<1>3. ASSUME NEW h \in Handlers, Apply(h) PROVE Event(h)[1] = m
  <2>1. status' = status \/ \E s : status' = [status EXCEPT ![Event(h)[1]] = s]
    BY <1>3 DEF Apply, Event
  <2> QED BY <2>1 DEF TypeOK
<1> QED BY <1>1, <1>2, <1>3
        DEF Next, HandOver, Lose, Report, Receive, Drop, sending, vars

(* Two requests at a time make a message late.                             *)
LEMMA Alone ==
  ASSUME TypeOK, StagesOK, HandlersOK, OrderOK,
         NEW g \in Handlers, NEW h \in Handlers, g # h, Busy(g), Busy(h),
         Event(g)[1] = Event(h)[1]
  PROVE  Event(h)[1] \in late
<1>1. PICK m \in Messages, i \in Nat : Event(g) = <<m, i>> /\ 1 <= i
  BY BusyForm
<1>2. PICK n \in Messages, j \in Nat : Event(h) = <<n, j>> /\ 1 <= j
  BY BusyForm
<1>3. n = m /\ i # j
  BY <1>1, <1>2 DEF HandlersOK
<1>4. Seen(<<m, i>>) /\ Seen(<<m, j>>)
  BY <1>1, <1>2, <1>3 DEF Seen
<1>5. <<m, i>> \notin consumed /\ <<m, j>> \notin consumed
  BY <1>1, <1>2, <1>3 DEF HandlersOK
<1>6. i \in 1 .. j - 1 \/ j \in 1 .. i - 1
  BY <1>1, <1>2, <1>3
<1> QED BY <1>2, <1>3, <1>4, <1>5, <1>6 DEF OrderOK

LEMMA CopiesStep ==
  TypeOK /\ StagesOK /\ HandlersOK /\ OrderOK /\ CopiesOK /\ [Next]_vars => CopiesOK'
<1> SUFFICES ASSUME TypeOK, StagesOK, HandlersOK, OrderOK, CopiesOK, [Next]_vars,
                    NEW h \in Handlers, Busy(h)'
             PROVE  /\ stage'[Event(h)'[1]] # "recorded" => handler'[h].copy = "none"
                    /\ Event(h)'[1] \notin late' =>
                         /\ stage'[Event(h)'[1]] = "recorded"
                         /\ handler'[h].copy = status'[Event(h)'[1]]
  BY DEF CopiesOK
<1>1. CASE Busy(h) /\ handler'[h] = handler[h]
  <2>1. PICK m \in Messages : Event(h)[1] = m
    BY <1>1, BusyForm
  <2>2. stage[m] = "recorded" => stage'[m] = "recorded"
    BY StageStays
  <2>3. late \subseteq late'
    BY <2>1, StageStays
  <2>4. ASSUME m \notin late' PROVE status'[m] = status[m]
    <3> SUFFICES ASSUME status'[m] # status[m] PROVE FALSE
      OBVIOUS
    <3>1. stage[m] = "recorded"
      BY <1>1, <2>1, <2>3, <2>4 DEF CopiesOK
    <3>2. PICK g \in Handlers : Apply(g) /\ Event(g)[1] = m
      BY <3>1, StatusChange
    <3>3. g # h
      <4>1. handler'[g] = Idle
        BY <3>2 DEF Apply, TypeOK
      <4> QED BY <4>1, <1>1 DEF Busy
    <3>4. Busy(g)
      BY <3>2 DEF Apply, Busy
    <3> QED BY <1>1, <2>1, <2>3, <2>4, <3>2, <3>3, <3>4, Alone
  <2>5. Event(h)' = Event(h)
    BY <1>1 DEF Event
  <2> QED BY <1>1, <2>1, <2>2, <2>3, <2>4, <2>5 DEF CopiesOK
<1>2. ASSUME NEW e \in Events, Receive(h, e)
      PROVE  /\ stage'[Event(h)'[1]] # "recorded" => handler'[h].copy = "none"
             /\ Event(h)'[1] \notin late' =>
                  /\ stage'[Event(h)'[1]] = "recorded"
                  /\ handler'[h].copy = status'[Event(h)'[1]]
  <2>1. PICK m \in Messages, i \in Nat : e = <<m, i>> /\ 1 <= i /\ i <= Len(reports[m])
    BY EventForm
  <2>2. stage[m] \notin {"new", "closed"}
    BY <2>1 DEF StagesOK, StageOK
  <2>3. stage[m] # "recorded" => status[m] = "none"
    BY <2>2 DEF StagesOK, StageOK, TypeOK
  <2>4. handler'[h] = [event |-> e, copy |-> status[m]]
    BY <1>2, <2>1 DEF Receive, TypeOK
  <2>5. Event(h)'[1] = m /\ handler'[h].copy = status[m]
    BY <2>1, <2>4 DEF Event
  <2>6. stage' = stage /\ status' = status
    BY <1>2 DEF Receive, sending
  <2>7. m \notin late' => status[m] # "none"
    BY <1>2, <2>1 DEF Receive, OutOfOrder
  <2> QED BY <2>3, <2>5, <2>6, <2>7
<1>3. ASSUME NEW g \in Handlers, NEW e \in Events, Receive(g, e), g # h
      PROVE  handler'[h] = handler[h]
  BY <1>3 DEF Receive, TypeOK
<1>4. ASSUME NEW g \in Handlers, Apply(g) \/ Drop(g) PROVE handler'[h] = handler[h]
  <2>1. \A k \in Handlers : handler'[k] = IF k = g THEN Idle ELSE handler[k]
    BY <1>4 DEF Apply, Drop, TypeOK
  <2> QED BY <2>1 DEF Busy
<1> QED BY <1>1, <1>2, <1>3, <1>4, HandlersChange DEF Busy

-----------------------------------------------------------------------------
(* The status that the first n reports on m give it.                       *)
Expected(m, n) ==
  IF n = 0 \/ reports[m][n] \in {"accepted", "sent"} THEN "sent" ELSE reports[m][n]

(* What is consumed of a message that is not late is a first part of what  *)
(* was reported of it, and its status is what that part gives.             *)
PrefixOf(m, n) ==
  /\ n <= Len(reports[m])
  /\ \A i \in Nat : <<m, i>> \in consumed <=> i \in 1 .. n
  /\ stage[m] # "recorded" => n = 0
  /\ stage[m] = "recorded" => status[m] = Expected(m, n)

PrefixOK == \A m \in Messages \ late : \E n \in Nat : PrefixOf(m, n)

FullInv == IInv /\ PrefixOK

LEMMA PrefixStep == IInv /\ PrefixOK /\ [Next]_vars => PrefixOK'
<1> SUFFICES ASSUME IInv, PrefixOK, [Next]_vars,
                    NEW m \in Messages, m \notin late'
             PROVE  \E n \in Nat : PrefixOf(m, n)'
  BY DEF PrefixOK
<1> USE DEF IInv
<1>1. m \notin late
  BY StageStays
<1>2. PICK n \in Nat : PrefixOf(m, n)
  BY <1>1 DEF PrefixOK
<1>3. /\ Len(reports[m]) \in Nat /\ Len(reports'[m]) \in Nat
      /\ Len(reports[m]) <= Len(reports'[m])
      /\ \A i \in 1 .. Len(reports[m]) : reports'[m][i] = reports[m][i]
  BY ReportsGrow
<1>4. n <= Len(reports'[m]) /\ Expected(m, n)' = Expected(m, n)
  <2>1. n <= Len(reports[m])
    BY <1>2 DEF PrefixOf
  <2>2. n = 0 \/ n \in 1 .. Len(reports[m])
    BY <1>2, <1>3, <2>1
  <2> QED BY <1>3, <2>1, <2>2 DEF Expected
<1>5. ASSUME NEW h \in Handlers, Apply(h), Event(h)[1] = m
      PROVE  \E k \in Nat : PrefixOf(m, k)'
  <2>1. Busy(h)
    BY <1>5 DEF Apply, Busy
  <2>2. PICK i \in Nat : Event(h) = <<m, i>> /\ 1 <= i /\ i <= Len(reports[m])
    BY <1>5, <2>1, BusyForm
  <2>3. <<m, i>> \notin consumed /\ \A j \in 1 .. i - 1 : <<m, j>> \in consumed
    BY <1>1, <2>1, <2>2 DEF HandlersOK, OrderOK, Seen
  <2>4. i = n + 1
    <3>1. i > n
      BY <1>2, <2>2, <2>3 DEF PrefixOf
    <3>2. ~(i > n + 1)
      <4> SUFFICES ASSUME i > n + 1 PROVE FALSE
        OBVIOUS
      <4>1. n + 1 \in 1 .. i - 1 /\ n + 1 \in Nat /\ n + 1 \notin 1 .. n
        OBVIOUS
      <4> QED BY <1>2, <2>3, <4>1 DEF PrefixOf
    <3> QED BY <3>1, <3>2
  <2>5. stage[m] = "recorded" /\ handler[h].copy = status[m]
        /\ status[m] = Expected(m, n)
    BY <1>1, <1>2, <1>5, <2>1 DEF CopiesOK, PrefixOf
  <2>6. /\ consumed' = consumed \union {<<m, i>>} /\ reports' = reports /\ stage' = stage
        /\ status' = IF Allowed(Expected(m, n), Normalized(reports[m][i]))
                     THEN [status EXCEPT ![m] = Normalized(reports[m][i])] ELSE status
    BY <1>5, <2>2, <2>5 DEF Apply, Event, sending
  <2>7. status'[m] = IF Allowed(Expected(m, n), Normalized(reports[m][i]))
                     THEN Normalized(reports[m][i]) ELSE Expected(m, n)
    BY <2>5, <2>6 DEF TypeOK
  <2>8. LifeOK(reports[m]) /\ Len(reports[m]) <= 4
    BY DEF StagesOK, StageOK, LifeOK
  <2>9. i \in 1 .. 4
    BY <2>2, <2>8, <1>3
  <2>10. status'[m] = Expected(m, i)
    <3>1. CASE i = 1
      BY <2>2, <2>4, <2>7, <2>8, <3>1 DEF LifeOK, Expected, Normalized, Allowed
    <3>2. CASE i = 2
      BY <2>2, <2>4, <2>7, <2>8, <3>2 DEF LifeOK, Expected, Normalized, Allowed
    <3>3. CASE i = 3
      BY <2>2, <2>4, <2>7, <2>8, <3>3 DEF LifeOK, Expected, Normalized, Allowed
    <3>4. CASE i = 4
      BY <2>2, <2>4, <2>7, <2>8, <3>4 DEF LifeOK, Expected, Normalized, Allowed
    <3> QED BY <2>9, <3>1, <3>2, <3>3, <3>4
  <2>11. \A j \in Nat : <<m, j>> \in consumed' <=> j \in 1 .. i
    BY <1>2, <2>4, <2>6 DEF PrefixOf
  <2>12. Expected(m, i)' = Expected(m, i)
    BY <2>6 DEF Expected
  <2>13. stage'[m] = "recorded" /\ status'[m] = Expected(m, i)'
    BY <2>5, <2>6, <2>10, <2>12
  <2>14. i <= Len(reports'[m])
    BY <2>2, <2>6
  <2>15. PrefixOf(m, i)'
    BY <2>11, <2>13, <2>14 DEF PrefixOf
  <2> QED BY <2>2, <2>15
<1>6. ASSUME ~\E h \in Handlers : Apply(h) /\ Event(h)[1] = m
      PROVE  PrefixOf(m, n)'
  <2>1. \A i \in Nat : <<m, i>> \in consumed' <=> <<m, i>> \in consumed
    <3>1. consumed' = consumed \/ \E h \in Handlers : Apply(h)
      BY HandlersChange DEF Receive, Drop
    <3>2. ASSUME NEW h \in Handlers, Apply(h)
          PROVE  \A i \in Nat : <<m, i>> \in consumed' <=> <<m, i>> \in consumed
      <4>1. consumed' = consumed \union {Event(h)} /\ Event(h)[1] # m
        BY <1>6, <3>2 DEF Apply, Event
      <4>2. \A i \in Nat : <<m, i>> # Event(h)
        <5> SUFFICES ASSUME NEW i \in Nat, <<m, i>> = Event(h) PROVE FALSE
          OBVIOUS
        <5>1. <<m, i>>[1] = m
          OBVIOUS
        <5> QED BY <4>1, <5>1
      <4> QED BY <4>1, <4>2
    <3> QED BY <3>1, <3>2
  <2>2. CASE stage[m] = "recorded"
    <3>1. stage'[m] = "recorded" /\ status'[m] = status[m]
      BY <1>6, <2>2, StageStays, StatusChange
    <3> QED BY <1>2, <1>4, <2>1, <2>2, <3>1 DEF PrefixOf
  <2>3. CASE stage[m] # "recorded"
    <3>1. n = 0
      BY <1>2, <2>3 DEF PrefixOf
    <3>2. ASSUME stage'[m] = "recorded" PROVE status'[m] = "sent"
      <4>1. PICK k \in Messages : Record(k)
        BY <2>3, <3>2
           DEF Next, Suppress, Refuse, TimeOut, Close, HandOver, Lose, Report, Receive,
               Apply, Drop, RetryFailed, sending, vars, TypeOK
      <4> QED BY <2>3, <3>2, <4>1 DEF Record, TypeOK
    <3> QED BY <1>2, <1>4, <2>1, <3>1, <3>2 DEF PrefixOf, Expected
  <2> QED BY <2>2, <2>3
<1> QED BY <1>5, <1>6

LEMMA Inductive == Spec => []FullInv
<1>1. Init => FullInv
  <2> SUFFICES ASSUME Init PROVE FullInv
    OBVIOUS
  <2>1. ASSUME NEW m \in Messages PROVE PrefixOf(m, 0)
    BY DEF Init, PrefixOf
  <2> QED BY <2>1, InitOK DEF FullInv, PrefixOK
<1>2. FullInv /\ [Next]_vars => FullInv'
  BY TypeStep, StagesStep, HandlersStep, OrderStep, ToldStep, CopiesStep, PrefixStep
     DEF FullInv, IInv
<1> QED BY <1>1, <1>2, PTL DEF Spec

-----------------------------------------------------------------------------
(* process_status_webhook: what it consumes was reported, and the rows it  *)
(* writes keep their shape.                                                *)
THEOREM TypeCorrect == Spec => []TypeOK
BY Inductive, PTL DEF FullInv, IInv

(* process_status_webhook: without a lost order a message has the status   *)
(* the provider last told of.                                              *)
THEOREM ToldInOrder == Spec => []StatusIsWhatWasTold
<1>1. FullInv => StatusIsWhatWasTold
  <2> SUFFICES ASSUME FullInv, NEW m \in Messages, stage[m] = "recorded", m \notin late
               PROVE  status[m] = IF \/ Known(m) = 0
                                     \/ SubSeq(reports[m], 1, Known(m))[Known(m)]
                                          \in {"accepted", "sent"}
                                  THEN "sent"
                                  ELSE SubSeq(reports[m], 1, Known(m))[Known(m)]
    BY DEF StatusIsWhatWasTold
  <2>1. PICK n \in Nat : PrefixOf(m, n)
    BY DEF FullInv, PrefixOK
  <2>2. {e \in consumed : e[1] = m} = {<<m, i>> : i \in 1 .. n}
    <3>1. ASSUME NEW e \in consumed, e[1] = m PROVE \E i \in 1 .. n : e = <<m, i>>
      <4>1. PICK k \in Messages, i \in Nat : e = <<k, i>>
        BY EventForm DEF FullInv, IInv, TypeOK
      <4> QED BY <2>1, <3>1, <4>1 DEF PrefixOf
    <3>2. ASSUME NEW i \in 1 .. n PROVE <<m, i>> \in consumed
      BY <2>1 DEF PrefixOf
    <3> QED BY <3>1, <3>2
  <2>3. Known(m) = n
    <3> DEFINE S == {<<m, i>> : i \in 1 .. n}
               f == [i \in 1 .. n |-> <<m, i>>]
    <3>1. f \in Bijection(1 .. n, S)
      BY DEF Bijection, Injection, Surjection, IsInjective
    <3>2. ExistsBijection(1 .. n, S)
      BY <3>1 DEF ExistsBijection
    <3>3. Cardinality(S) = n
      <4> HIDE DEF S
      <4> QED BY <3>2, FS_CountingElements
    <3> QED BY <2>2, <3>3 DEF Known
  <2>4. n > 0 => SubSeq(reports[m], 1, n)[n] = reports[m][n]
    BY <2>1 DEF PrefixOf, FullInv, IInv, TypeOK
  <2> QED BY <2>1, <2>3, <2>4 DEF PrefixOf, Expected
<1> QED BY <1>1, Inductive, PTL

LEMMA NoRegressionStep ==
  IInv /\ [Next]_vars =>
    \A m \in Messages :
      /\ status[m] = "delivered" => status'[m] \in {"delivered", "read"}
      /\ status[m] = "read" => status'[m] = "read"
      /\ status[m] = "failed" /\ m \notin retryable \union late => status'[m] = "failed"
<1> SUFFICES ASSUME IInv, [Next]_vars, NEW m \in Messages, status'[m] # status[m],
                    \/ status[m] \in {"delivered", "read"}
                    \/ status[m] = "failed" /\ m \notin retryable \union late
             PROVE  status[m] = "delivered" /\ status'[m] = "read"
  OBVIOUS
<1> USE DEF IInv
<1>1. stage[m] \in {"recorded", "closed"}
  BY DEF StagesOK, StageOK, TypeOK
<1>2. stage[m] = "recorded"
  <2> SUFFICES ASSUME stage[m] = "closed" PROVE FALSE
    BY <1>1
  <2>1. status[m] = "failed" /\ m \notin retryable
    BY DEF StagesOK, StageOK
  <2>2. ~RetryFailed
    BY <2>1, RetrySpares
  <2>3. ASSUME NEW h \in Handlers, Apply(h) PROVE FALSE
    <3>1. status' # status /\ Busy(h)
      BY <2>3 DEF Apply, Busy
    <3>2. PICK n \in Messages : Event(h)[1] = n
      BY <3>1, BusyForm
    <3>3. stage[n] = "recorded" /\ \E s : status' = [status EXCEPT ![n] = s]
      BY <2>3, <3>1, <3>2, Applied
    <3> QED BY <3>3 DEF TypeOK
  <2>4. ASSUME NEW n \in Messages, Record(n) \/ Suppress(n) \/ Refuse(n) \/ TimeOut(n)
        PROVE  FALSE
    <3>1. stage[n] \in {"new", "handed"}
          /\ \E s : status' = [status EXCEPT ![n] = s]
      BY <2>4 DEF Record, Suppress, Refuse, TimeOut, Close
    <3> QED BY <3>1 DEF TypeOK
  <2> QED BY <2>2, <2>3, <2>4
          DEF Next, HandOver, Lose, Report, Receive, Drop, sending, vars
<1>3. PICK h \in Handlers : Apply(h) /\ Event(h)[1] = m
  BY <1>2, StatusChange
<1>4. Busy(h) /\ Told(m, status[m]) /\ Told(m, handler[h].copy)
  BY <1>2, <1>3 DEF ToldOK, Apply, Busy
<1>5. PICK i \in 1 .. 4, s \in Statuses :
        /\ Event(h) = <<m, i>> /\ i <= Len(reports[m])
        /\ status' = [status EXCEPT ![m] = s]
        /\ s = Normalized(reports[m][i])
        /\ s = "delivered" => i = 3
        /\ s = "read" => handler[h].copy = "delivered"
        /\ s = "failed" => i \in {2, 3}
        /\ s = "queued" => i = 1 /\ handler[h].copy = "failed"
        /\ s \in {"delivered", "read", "failed", "queued"}
  BY <1>3, Applied
<1>6. status'[m] = s
  BY <1>5 DEF TypeOK
<1>7. <<m, i>> \notin consumed
  BY <1>4, <1>5 DEF HandlersOK
<1>8. LifeOK(reports[m])
  BY DEF StagesOK, StageOK
<1>9. s \in {"delivered", "failed"} => reports[m][i] = s
  BY <1>5 DEF Normalized
<1>10. CASE status[m] \in {"delivered", "read"}
  <2>1. /\ <<m, 3>> \in consumed /\ Len(reports[m]) >= 3
        /\ reports[m][3] = "delivered" /\ reports[m][2] = "sent"
    BY <1>4, <1>8, <1>10 DEF Told, LifeOK
  <2>2. s # "delivered" /\ s # "failed"
    BY <1>5, <1>7, <1>9, <2>1
  <2>3. s # "queued"
    BY <1>4, <1>5, <2>1 DEF Told
  <2> QED BY <1>5, <1>6, <1>10, <2>2, <2>3
<1>11. CASE status[m] = "failed" /\ m \notin late
  <2>1. PICK j \in {2, 3} : /\ <<m, j>> \in consumed /\ Len(reports[m]) >= j
                            /\ reports[m][j] = "failed"
    BY <1>4, <1>11 DEF Told
  <2>2. ~(Len(reports[m]) >= 3 /\ reports[m][3] = "delivered")
    BY <1>8, <2>1 DEF LifeOK
  <2>3. s # "delivered" /\ s # "read"
    BY <1>4, <1>5, <1>9, <2>2 DEF Told
  <2>4. s # "queued"
    <3>1. <<m, 1>> \in consumed
      BY <1>11, <2>1 DEF OrderOK, Seen
    <3> QED BY <1>5, <1>7, <3>1
  <2> QED BY <1>5, <1>6, <1>11, <2>3, <2>4
<1> QED BY <1>10, <1>11

(* states.py, the "no regression" guarantee: no webhook takes a receipt    *)
(* back, in whatever order they come.                                      *)
THEOREM ReceiptsStand == Spec => NoRegression
BY Inductive, NoRegressionStep, PTL DEF Spec, NoRegression, FullInv

-----------------------------------------------------------------------------
(***************************************************************************)
(* ScheduledMessages, which are sent to start with: what it keeps for any  *)
(* number of workers and messages.                                         *)
(***************************************************************************)
RowStatuses == {"scheduled", "sent", "failed", "cancelled"}

Read(w) == DOMAIN batch[w].seen

(* A row a batch has taken: sent, or put back because its attempt raised.  *)
TakenRow(w, m) ==
  /\ batch[w].done[m].attempts = batch[w].seen[m] + 1
  /\ batch[w].done[m].sends \in BOOLEAN
  /\ batch[w].done[m].status \in {"scheduled", "sent", "failed"}
  /\ batch[w].done[m].sends => batch[w].done[m].status = "sent"
  /\ ~batch[w].done[m].sends => m \in raised

BatchOK(w) ==
  /\ batch[w] = [seen |-> batch[w].seen, done |-> batch[w].done]
  /\ Held(w) \subseteq Read(w) /\ Read(w) \subseteq Scheduled
  /\ \A m \in Read(w) : batch[w].seen[m] \in Nat
  /\ \A m \in Held(w) : TakenRow(w, m)

RowsOK ==
  /\ row \in [Scheduled -> [status : RowStatuses, attempts : Nat]]
  /\ keys \subseteq Scheduled \X Nat
  /\ batch = [w \in Workers |-> batch[w]]
  /\ \A w \in Workers : BatchOK(w)
  /\ overlapped \in BOOLEAN /\ now \in 0 .. LastScheduled

(* A row is locked by one batch.                                           *)
LocksOK == \A v, w \in Workers : v # w => Held(v) \intersect Held(w) = {}

(* A message of which no attempt has raised has one key only.              *)
OneKey ==
  \A m \in Scheduled \ raised :
    /\ row[m].status = "scheduled" => row[m].attempts = 0
    /\ \A w \in Workers : m \in Read(w) => batch[w].seen[m] = 0
    /\ \A n \in Nat : <<m, n>> \in keys => n = 1

(* What was sent and not undone is recorded, or still locked.              *)
Sent(m) ==
  \/ m \in undone
  \/ \E n \in Nat : <<m, n>> \in keys
  \/ \E w \in Workers : m \in Held(w) /\ batch[w].done[m].sends

SentOK == delivered \subseteq {m \in Scheduled : Sent(m)}

(* While batches do not overlap, the one there is works on messages that   *)
(* were never recorded.                                                    *)
AloneOK ==
  ~overlapped =>
    /\ \A v, w \in Workers : v # w => batch[v] = NoBatch \/ batch[w] = NoBatch
    /\ \A w \in Workers, m \in Scheduled, n \in Nat : m \in Read(w) => <<m, n>> \notin keys
    /\ \A m \in Scheduled, n \in Nat :
         <<m, n>> \in keys => row[m].status \in {"sent", "cancelled"}

TwiceOK == twice \subseteq undone \union (IF overlapped THEN raised ELSE {})

ScheduleInv == RowsOK /\ LocksOK /\ OneKey /\ SentOK /\ AloneOK /\ TwiceOK

LEMMA InitDelivers == ScheduleInit => ScheduleInv
<1> SUFFICES ASSUME ScheduleInit  PROVE ScheduleInv
  OBVIOUS
<1>1. \A w \in Workers : batch[w] = NoBatch /\ Held(w) = {} /\ Read(w) = {}
  BY DEF ScheduleInit, NoBatch, Nothing, Held, Read
<1>2. \A m \in Scheduled : row[m].status = "scheduled" /\ row[m].attempts = 0
  BY DEF ScheduleInit
<1>3. RowsOK
  <2>1. row \in [Scheduled -> [status : RowStatuses, attempts : Nat]]
    BY DEF ScheduleInit, RowStatuses
  <2>2. \A w \in Workers : BatchOK(w)
    BY <1>1 DEF BatchOK, NoBatch
  <2>3. now \in 0 .. LastScheduled
    BY ScheduleAssumption DEF ScheduleInit
  <2>4. QED  BY <2>1, <2>2, <2>3 DEF ScheduleInit, RowsOK
<1>4. QED
  BY <1>1, <1>2, <1>3 DEF ScheduleInit, ScheduleInv, LocksOK, OneKey, SentOK, AloneOK, TwiceOK

(* The row a batch takes next.                                             *)
LEMMA TurnIs ==
  ASSUME ScheduleInv, NEW w \in Workers, MayTake(w)
  PROVE  /\ Turn(w) \in Read(w) \ Held(w)
         /\ Turn(w) \in Scheduled
         /\ \A v \in Workers : Turn(w) \notin Held(v)
         /\ Attempt(w) = batch[w].seen[Turn(w)] + 1
         /\ Attempt(w) \in Nat
<1>1. Todo(w) \subseteq Nat /\ Todo(w) # {} /\ Todo(w) \subseteq Read(w)
  BY DEF MayTake, Todo, Read, ScheduleInv, RowsOK, BatchOK, Scheduled
<1>2. PICK m \in Todo(w) : \A n \in Todo(w) : m <= n
  BY <1>1, LeastElement
<1>3. Turn(w) \in Todo(w)
  BY <1>2 DEF Turn, Min
<1>4. QED
  BY <1>1, <1>3 DEF MayTake, Todo, Attempt, Read, ScheduleInv,
     RowsOK, BatchOK
(* A batch goes on to its next row.                                        *)
LEMMA TakeKeeps ==
  ASSUME ScheduleInv, NEW w \in Workers, MayTake(w),
         NEW st \in {"scheduled", "sent", "failed"},
         NEW sends \in BOOLEAN, Finish(w, st, sends), sends => st = "sent",
         NEW t, t = Turn(w), raised \subseteq raised', ~sends => t \in raised',
         UNCHANGED <<now, row, keys, undone, overlapped>>
  PROVE  /\ RowsOK' /\ LocksOK' /\ OneKey' /\ AloneOK'
         /\ \A m \in Scheduled : Sent(m) => Sent(m)'
         /\ sends => Sent(t)'
<1>1. /\ t \in Read(w) \ Held(w) /\ t \in Scheduled
      /\ \A v \in Workers : t \notin Held(v)
      /\ Attempt(w) = batch[w].seen[t] + 1
  BY TurnIs
<1>2. batch[w] = [seen |-> batch[w].seen, done |-> batch[w].done]
  BY DEF ScheduleInv, RowsOK, BatchOK
<1>3. /\ batch'[w].seen = batch[w].seen
      /\ batch'[w].done = [m \in Held(w) \union {t} |->
                             IF m = t
                             THEN [status |-> st, attempts |-> Attempt(w),
                                   sends |-> sends]
                             ELSE batch[w].done[m]]
      /\ batch'[w] = [seen |-> batch'[w].seen, done |-> batch'[w].done]
      /\ \A v \in Workers \ {w} : batch'[v] = batch[v]
      /\ batch' = [v \in Workers |-> batch'[v]]
  BY <1>2 DEF Finish, ScheduleInv, RowsOK
<1>4. /\ Held(w)' = Held(w) \union {t} /\ Read(w)' = Read(w)
      /\ \A v \in Workers \ {w} : Held(v)' = Held(v) /\ Read(v)' = Read(v)
  BY <1>3 DEF Held, Read
<1>5. RowsOK'
  <2>1. ASSUME NEW m \in Held(w)'  PROVE TakenRow(w, m)'
    <3>1. CASE m = t
      BY <1>1, <1>3, <3>1 DEF TakenRow
    <3>2. CASE m # t
      <4>1. m \in Held(w) /\ TakenRow(w, m)
        BY <1>4, <2>1, <3>2 DEF ScheduleInv, RowsOK, BatchOK
      <4>2. QED  BY <1>3, <3>2, <4>1 DEF TakenRow
    <3>3. QED  BY <3>1, <3>2
  <2>2. BatchOK(w)'
    BY <1>1, <1>3, <1>4, <2>1 DEF ScheduleInv, RowsOK, BatchOK
  <2>3. ASSUME NEW v \in Workers \ {w}  PROVE BatchOK(v)'
    BY <1>3, <1>4 DEF ScheduleInv, RowsOK, BatchOK, TakenRow
  <2>4. QED  BY <1>3, <2>2, <2>3 DEF ScheduleInv, RowsOK
<1>6. LocksOK'
  BY <1>1, <1>4 DEF ScheduleInv, LocksOK
<1>7. OneKey'
  BY <1>3, <1>4 DEF ScheduleInv, OneKey
<1>8. AloneOK'
  <2> SUFFICES ASSUME ~overlapped  PROVE AloneOK'
    BY DEF AloneOK
  <2>1. batch[w] # NoBatch
    BY <1>1 DEF Read, NoBatch, Nothing
  <2>2. \A v \in Workers : v # w => batch[v] = NoBatch
    BY <2>1 DEF ScheduleInv, AloneOK
  <2>3. QED  BY <1>3, <1>4, <2>2 DEF ScheduleInv, AloneOK
<1>9. ASSUME NEW m \in Scheduled, Sent(m)  PROVE Sent(m)'
  <2>1. CASE \E v \in Workers : m \in Held(v) /\ batch[v].done[m].sends
    <3>1. PICK v \in Workers : m \in Held(v) /\ batch[v].done[m].sends
      BY <2>1
    <3>2. m \in Held(v)' /\ batch'[v].done[m].sends
      BY <1>1, <1>3, <1>4, <3>1
    <3>3. QED  BY <3>2 DEF Sent
  <2>2. QED  BY <1>9, <2>1 DEF Sent
<1>10. ASSUME sends  PROVE Sent(t)'
  <2>1. t \in Held(w)' /\ batch'[w].done[t].sends
    BY <1>3, <1>4, <1>10
  <2>2. QED  BY <2>1 DEF Sent
<1>11. QED  BY <1>5, <1>6, <1>7, <1>8, <1>9, <1>10

LEMMA DeliverKeeps ==
  ASSUME ScheduleInv, NEW w \in Workers, Deliver(w)
  PROVE  ScheduleInv'
<1>1. /\ MayTake(w)
      /\ ~Taken(Turn(w), Attempt(w))
      /\ Finish(w, "sent", TRUE)
      /\ UNCHANGED <<now, row, keys, undone, overlapped, raised>>
  BY DEF Deliver
<1>2. PICK t \in Scheduled : t = Turn(w)
  BY <1>1, TurnIs
<1>3. /\ t \in Read(w) /\ \A v \in Workers : t \notin Held(v)
      /\ <<t, batch[w].seen[t] + 1>> \notin keys
  BY <1>1, <1>2, TurnIs DEF Taken
<1>4. /\ RowsOK' /\ LocksOK' /\ OneKey' /\ AloneOK'
      /\ \A m \in Scheduled : Sent(m) => Sent(m)'
      /\ Sent(t)'
  BY <1>1, <1>2, TakeKeeps
<1>5. delivered' = delivered \union {t}
      /\ twice' = IF t \in delivered THEN twice \union {t} ELSE twice
  BY <1>2 DEF Deliver
<1>6. SentOK'
  BY <1>4, <1>5 DEF ScheduleInv, SentOK
<1>7. TwiceOK'
  <2>1. ASSUME t \in delivered, t \notin undone  PROVE overlapped /\ t \in raised
    <3>1. PICK n \in Nat : <<t, n>> \in keys
      BY <1>3, <2>1 DEF ScheduleInv, SentOK, Sent
    <3>2. overlapped
      BY <1>3, <3>1 DEF ScheduleInv, AloneOK
    <3>3. ASSUME t \notin raised  PROVE FALSE
      BY <1>3, <3>1, <3>3 DEF ScheduleInv, OneKey
    <3>4. QED  BY <3>2, <3>3
  <2>2. QED  BY <1>1, <1>5, <2>1 DEF ScheduleInv, TwiceOK
<1>8. QED  BY <1>4, <1>6, <1>7 DEF ScheduleInv

LEMMA RefuseKeeps ==
  ASSUME ScheduleInv, NEW w \in Workers, RefuseSend(w)
  PROVE  ScheduleInv'
<1>1. /\ MayTake(w) /\ Finish(w, "sent", TRUE)
      /\ UNCHANGED <<now, row, keys, delivered, twice, undone, overlapped, raised>>
  BY DEF RefuseSend, AfterRefusal, history
<1>2. PICK t \in Scheduled : t = Turn(w)
  BY <1>1, TurnIs
<1>3. /\ RowsOK' /\ LocksOK' /\ OneKey' /\ AloneOK'
      /\ \A m \in Scheduled : Sent(m) => Sent(m)'
  BY <1>1, <1>2, TakeKeeps
<1>4. QED  BY <1>1, <1>3 DEF ScheduleInv, SentOK, TwiceOK

LEMMA RaiseKeeps ==
  ASSUME ScheduleInv, NEW w \in Workers, Raise(w)
  PROVE  ScheduleInv'
<1>1. PICK t \in Scheduled : t = Turn(w)
  BY TurnIs DEF Raise
<1>2. PICK st \in {"scheduled", "failed"} : st = AfterError(Attempt(w))
  BY DEF AfterError
<1>3. /\ MayTake(w) /\ Finish(w, st, FALSE) /\ raised' = raised \union {t}
      /\ UNCHANGED <<now, row, keys, delivered, twice, undone, overlapped>>
  BY <1>1, <1>2 DEF Raise
<1>4. /\ RowsOK' /\ LocksOK' /\ OneKey' /\ AloneOK'
      /\ \A m \in Scheduled : Sent(m) => Sent(m)'
  BY <1>1, <1>3, TakeKeeps
<1>5. QED  BY <1>3, <1>4 DEF ScheduleInv, SentOK, TwiceOK

-----------------------------------------------------------------------------
LEMMA SelectKeeps ==
  ASSUME ScheduleInv, NEW w \in Workers, Select(w)
  PROVE  ScheduleInv'
<1> DEFINE chosen == {m \in Due :
                        Cardinality({n \in Due : n < m}) < ScheduleBatch}
<1>1. /\ batch[w] = NoBatch
      /\ batch' = [batch EXCEPT ![w].seen = [m \in chosen |-> row[m].attempts]]
      /\ overlapped' = (overlapped \/ \E v \in Workers : batch[v] # NoBatch)
      /\ UNCHANGED <<now, row, keys, aborts, delivered, twice, undone, raised>>
  BY DEF Select
<1>2. chosen \subseteq {m \in Scheduled : row[m].status = "scheduled"}
  <2>1. Due \subseteq {m \in Scheduled : row[m].status = "scheduled"}
    <3>1. now \in 0 .. LastScheduled /\ LastScheduled \in Nat
      BY ScheduleAssumption DEF ScheduleInv, RowsOK
    <3>2. QED  BY <3>1 DEF Due, Scheduled
  <2>2. QED  BY <2>1
<1> HIDE DEF chosen
<1>3. /\ batch'[w] = [seen |-> [m \in chosen |-> row[m].attempts], done |-> Nothing]
      /\ \A v \in Workers \ {w} : batch'[v] = batch[v]
      /\ batch' = [v \in Workers |-> batch'[v]]
  BY <1>1 DEF NoBatch, ScheduleInv, RowsOK
<1>4. /\ Held(w) = {} /\ Held(w)' = {} /\ Read(w)' = chosen
      /\ \A v \in Workers \ {w} : Held(v)' = Held(v) /\ Read(v)' = Read(v)
  BY <1>1, <1>3 DEF Held, Read, NoBatch, Nothing
<1>5. RowsOK'
  <2>1. \A m \in chosen : row[m].attempts \in Nat
    BY <1>2 DEF ScheduleInv, RowsOK
  <2>2. BatchOK(w)'
    BY <1>2, <1>3, <1>4, <2>1 DEF BatchOK
  <2>3. ASSUME NEW v \in Workers \ {w}  PROVE BatchOK(v)'
    BY <1>1, <1>3, <1>4 DEF ScheduleInv, RowsOK, BatchOK, TakenRow
  <2>4. QED  BY <1>1, <1>3, <2>2, <2>3 DEF ScheduleInv, RowsOK
<1>6. LocksOK'
  BY <1>4 DEF ScheduleInv, LocksOK
<1>7. OneKey'
  BY <1>1, <1>2, <1>3, <1>4 DEF ScheduleInv, OneKey
<1>8. SentOK'
  <2>1. ASSUME NEW m \in Scheduled, Sent(m)  PROVE Sent(m)'
    BY <1>1, <1>3, <1>4, <2>1 DEF Sent
  <2>2. QED  BY <1>1, <2>1 DEF ScheduleInv, SentOK
<1>9. AloneOK'
  <2> SUFFICES ASSUME ~overlapped'  PROVE AloneOK'
    BY DEF AloneOK
  <2>1. ~overlapped /\ \A v \in Workers : batch[v] = NoBatch
    BY <1>1
  <2>2. \A v \in Workers \ {w} : batch'[v] = NoBatch /\ Read(v)' = {}
    BY <1>3, <1>4, <2>1 DEF Read, NoBatch, Nothing
  <2>3. \A m \in chosen, n \in Nat : <<m, n>> \notin keys
    BY <1>2, <2>1 DEF ScheduleInv, AloneOK
  <2>4. QED  BY <1>1, <1>3, <1>4, <2>1, <2>2, <2>3 DEF ScheduleInv, AloneOK, NoBatch
<1>10. TwiceOK'
  BY <1>1 DEF ScheduleInv, TwiceOK
<1>11. QED  BY <1>5, <1>6, <1>7, <1>8, <1>9, <1>10 DEF ScheduleInv

(* A batch ends, and its locks with it.                                    *)
LEMMA Ended ==
  ASSUME ScheduleInv, NEW w \in Workers, batch' = [batch EXCEPT ![w] = NoBatch]
  PROVE  /\ batch'[w] = NoBatch /\ \A v \in Workers \ {w} : batch'[v] = batch[v]
         /\ batch' = [v \in Workers |-> batch'[v]]
         /\ Held(w)' = {} /\ Read(w)' = {}
         /\ \A v \in Workers \ {w} : Held(v)' = Held(v) /\ Read(v)' = Read(v)
<1>1. /\ batch'[w] = NoBatch /\ \A v \in Workers \ {w} : batch'[v] = batch[v]
      /\ batch' = [v \in Workers |-> batch'[v]]
  BY DEF ScheduleInv, RowsOK
<1>2. QED  BY <1>1 DEF Held, Read, NoBatch, Nothing

LEMMA BatchesKept ==
  ASSUME ScheduleInv, NEW w \in Workers,
         batch' = [batch EXCEPT ![w] = NoBatch], raised' = raised
  PROVE  (\A v \in Workers : BatchOK(v)') /\ LocksOK'
<1>1. BatchOK(w)'
  BY Ended DEF BatchOK, NoBatch
<1>2. ASSUME NEW v \in Workers \ {w}  PROVE BatchOK(v)'
  BY Ended DEF ScheduleInv, RowsOK, BatchOK, TakenRow
<1>3. LocksOK'
  BY Ended DEF ScheduleInv, LocksOK
<1>4. QED  BY <1>1, <1>2, <1>3

LEMMA RollBackKeeps ==
  ASSUME ScheduleInv, NEW w \in Workers, RollBack(w)
  PROVE  ScheduleInv'
<1>1. /\ batch' = [batch EXCEPT ![w] = NoBatch]
      /\ undone' = undone \union (Held(w) \intersect delivered)
      /\ UNCHANGED <<now, row, keys, delivered, twice, raised, overlapped>>
  BY DEF RollBack
<1>2. RowsOK' /\ LocksOK'
  BY <1>1, Ended, BatchesKept DEF ScheduleInv, RowsOK
<1>3. OneKey'
  <2> SUFFICES ASSUME NEW m \in Scheduled \ raised
               PROVE  /\ row'[m].status = "scheduled" => row'[m].attempts = 0
                      /\ \A v \in Workers : m \in Read(v)' => batch'[v].seen[m] = 0
                      /\ \A n \in Nat : <<m, n>> \in keys' => n = 1
    BY <1>1 DEF OneKey
  <2>1. \A v \in Workers : m \in Read(v)' => batch'[v].seen[m] = 0
    BY <1>1, Ended DEF ScheduleInv, OneKey
  <2>2. QED  BY <1>1, <2>1 DEF ScheduleInv, OneKey
<1>4. SentOK'
  <2>1. ASSUME NEW m \in delivered  PROVE m \in Scheduled /\ Sent(m)'
    <3>1. m \in Scheduled /\ Sent(m)
      BY DEF ScheduleInv, SentOK
    <3>2. CASE m \in Held(w)
      BY <1>1, <3>1, <3>2 DEF Sent
    <3>3. CASE m \notin Held(w)
      BY <1>1, <3>1, <3>3, Ended DEF Sent
    <3>4. QED  BY <3>2, <3>3
  <2>2. QED  BY <1>1, <2>1 DEF SentOK
<1>5. AloneOK'
  BY <1>1, Ended DEF ScheduleInv, AloneOK
<1>6. TwiceOK'
  BY <1>1 DEF ScheduleInv, TwiceOK
<1>7. QED  BY <1>2, <1>3, <1>4, <1>5, <1>6 DEF ScheduleInv

LEMMA CommitKeeps ==
  ASSUME ScheduleInv, NEW w \in Workers, Commit(w)
  PROVE  ScheduleInv'
<1> DEFINE done == batch[w].done
<1>1. /\ batch[w] # NoBatch /\ batch' = [batch EXCEPT ![w] = NoBatch]
      /\ row' = [m \in Scheduled |->
                   IF m \in Held(w)
                   THEN [status |-> done[m].status, attempts |-> done[m].attempts]
                   ELSE row[m]]
      /\ keys' = keys \union 
                 {<<m, done[m].attempts>> :
                    m \in {n \in Held(w) : done[n].sends}}
      /\ UNCHANGED <<now, delivered, twice, undone, raised, overlapped>>
  BY DEF Commit, history
<1>2. \A m \in Held(w) :
        /\ m \in Scheduled /\ m \in Read(w) /\ TakenRow(w, m)
        /\ batch[w].seen[m] \in Nat /\ done[m].attempts \in Nat
  BY DEF ScheduleInv, RowsOK, BatchOK, TakenRow
<1>3. \A m, n : <<m, n>> \in keys' =>
        <<m, n>> \in keys \/ (m \in Held(w) /\ done[m].sends /\ n = done[m].attempts)
  BY <1>1
<1>4. RowsOK' /\ LocksOK'
  <2>1. row' \in [Scheduled -> [status : RowStatuses, attempts : Nat]]
    BY <1>1, <1>2 DEF ScheduleInv, RowsOK, RowStatuses, TakenRow
  <2>2. keys' \subseteq Scheduled \X Nat
    BY <1>1, <1>2 DEF ScheduleInv, RowsOK
  <2>3. QED  BY <1>1, <2>1, <2>2, Ended, BatchesKept DEF ScheduleInv, RowsOK
<1>5. OneKey'
  <2> SUFFICES ASSUME NEW m \in Scheduled \ raised
               PROVE  /\ row'[m].status = "scheduled" => row'[m].attempts = 0
                      /\ \A v \in Workers : m \in Read(v)' => batch'[v].seen[m] = 0
                      /\ \A n \in Nat : <<m, n>> \in keys' => n = 1
    BY <1>1 DEF OneKey
  <2>1. m \in Held(w) => done[m].sends /\ done[m].status = "sent" /\ done[m].attempts = 1
    BY <1>2 DEF ScheduleInv, OneKey, TakenRow
  <2>2. row'[m].status = "scheduled" => row'[m].attempts = 0
    BY <1>1, <2>1 DEF ScheduleInv, OneKey
  <2>3. \A v \in Workers : m \in Read(v)' => batch'[v].seen[m] = 0
    <3>1. ASSUME NEW v \in Workers, m \in Read(v)'  PROVE batch'[v].seen[m] = 0
      <4>1. v # w /\ batch'[v] = batch[v] /\ m \in Read(v)
        BY <1>1, <3>1, Ended
      <4>2. QED  BY <1>1, <4>1 DEF ScheduleInv, OneKey
    <3>2. QED  BY <3>1
  <2>4. \A n \in Nat : <<m, n>> \in keys' => n = 1
    BY <1>3, <2>1 DEF ScheduleInv, OneKey
  <2>5. QED  BY <2>2, <2>3, <2>4
<1>6. SentOK'
  <2>1. ASSUME NEW m \in Scheduled, Sent(m)  PROVE Sent(m)'
    <3>1. CASE m \in Held(w) /\ done[m].sends
      <4>1. <<m, done[m].attempts>> \in keys' /\ done[m].attempts \in Nat
        BY <1>1, <1>2, <3>1
      <4>2. QED  BY <4>1 DEF Sent
    <3>2. CASE ~(m \in Held(w) /\ done[m].sends)
      <4>1. keys \subseteq keys' /\ undone' = undone
        BY <1>1
      <4>2. ASSUME NEW v \in Workers, m \in Held(v), batch[v].done[m].sends
            PROVE  m \in Held(v)' /\ batch'[v].done[m].sends
        <5>1. v # w
          BY <3>2, <4>2
        <5>2. QED  BY <1>1, <4>2, <5>1, Ended
      <4>3. QED  BY <2>1, <4>1, <4>2 DEF Sent
    <3>3. QED  BY <3>1, <3>2
  <2>2. QED  BY <1>1, <2>1 DEF ScheduleInv, SentOK
<1>7. AloneOK'
  <2> SUFFICES ASSUME ~overlapped  PROVE AloneOK'
    BY <1>1 DEF AloneOK
  <2>1. \A v \in Workers : batch'[v] = NoBatch /\ Read(v)' = {}
    <3>1. ASSUME NEW v \in Workers  PROVE batch'[v] = NoBatch
      BY <1>1, Ended DEF ScheduleInv, AloneOK
    <3>2. QED  BY <3>1 DEF Read, NoBatch, Nothing
  <2>2. ASSUME NEW m \in Scheduled, NEW n \in Nat, <<m, n>> \in keys'
        PROVE  row'[m].status \in {"sent", "cancelled"}
    <3>1. CASE m \in Held(w)
      <4>1. \A k \in Nat : <<m, k>> \notin keys
        BY <1>2, <3>1 DEF ScheduleInv, AloneOK
      <4>2. done[m].sends
        BY <1>3, <2>2, <4>1
      <4>3. QED  BY <1>1, <1>2, <3>1, <4>2 DEF TakenRow
    <3>2. CASE m \notin Held(w)
      BY <1>1, <1>3, <2>2, <3>2 DEF ScheduleInv, AloneOK
    <3>3. QED  BY <3>1, <3>2
  <2>3. QED  BY <2>1, <2>2 DEF AloneOK
<1>8. TwiceOK'
  BY <1>1 DEF ScheduleInv, TwiceOK
<1>9. QED  BY <1>4, <1>5, <1>6, <1>7, <1>8 DEF ScheduleInv

LEMMA CancelKeeps ==
  ASSUME ScheduleInv, NEW m \in Scheduled, Cancel(m)
  PROVE  ScheduleInv'
<1>1. /\ row' = [row EXCEPT ![m].status = "cancelled"]
      /\ UNCHANGED <<now, keys, batch, delivered, twice, undone, raised, overlapped>>
  BY DEF Cancel, history
<1>2. /\ row' \in [Scheduled -> [status : RowStatuses, attempts : Nat]]
      /\ row'[m].status = "cancelled" /\ \A k \in Scheduled \ {m} : row'[k] = row[k]
  BY <1>1 DEF ScheduleInv, RowsOK, RowStatuses
<1>3. RowsOK'
  BY <1>1, <1>2 DEF ScheduleInv, RowsOK, BatchOK, TakenRow, Held, Read
<1>4. LocksOK' /\ SentOK'
  BY <1>1 DEF ScheduleInv, LocksOK, SentOK, Sent, Held
<1>5. OneKey'
  BY <1>1, <1>2 DEF ScheduleInv, OneKey, Read
<1>6. AloneOK'
  BY <1>1, <1>2 DEF ScheduleInv, AloneOK, Read
<1>7. QED  BY <1>1, <1>3, <1>4, <1>5, <1>6 DEF ScheduleInv, TwiceOK

(* Neither the calendar nor the bound matters once a message is due.       *)
LEMMA UntouchedKeeps ==
  ASSUME ScheduleInv, now' \in 0 .. LastScheduled, UNCHANGED <<row, keys, batch, history>>
  PROVE  ScheduleInv'
<1>1. UNCHANGED <<row, keys, batch, delivered, twice, undone, raised, overlapped>>
  BY DEF history
<1>2. RowsOK'
  BY <1>1 DEF ScheduleInv, RowsOK, BatchOK, TakenRow, Held, Read
<1>3. LocksOK' /\ SentOK' /\ OneKey' /\ AloneOK' /\ TwiceOK'
  BY <1>1 DEF ScheduleInv, LocksOK, SentOK, Sent, Held, Read, OneKey, AloneOK, TwiceOK
<1>4. QED  BY <1>2, <1>3 DEF ScheduleInv

LEMMA NextKeeps ==
  ASSUME ScheduleInv, [ScheduleNext]_scheduleVars
  PROVE  ScheduleInv'
<1>1. CASE BecomeDue
  <2>1. now' \in 0 .. LastScheduled
    BY <1>1, ScheduleAssumption DEF BecomeDue, ScheduleInv, RowsOK
  <2>2. QED  BY <1>1, <2>1, UntouchedKeeps DEF BecomeDue
<1>2. ASSUME NEW w \in Workers, Select(w) \/ Work(w) \/ Abort(w)
      PROVE  ScheduleInv'
  BY <1>2, SelectKeeps, DeliverKeeps, RefuseKeeps, RaiseKeeps, RollBackKeeps, CommitKeeps
  DEF Work, Conflict, Abort
<1>3. CASE \E m \in Scheduled : Cancel(m)
  BY <1>3, CancelKeeps
<1>4. CASE UNCHANGED scheduleVars
  BY <1>4, UntouchedKeeps DEF scheduleVars, history, ScheduleInv, RowsOK
<1>5. QED  BY <1>1, <1>2, <1>3, <1>4 DEF ScheduleNext

(* scheduling.py, process_due_scheduled_messages: whatever batches crash   *)
(* or overlap, the customer gets a message twice only if a batch died      *)
(* after handing it over, or if batches overlapped on a message one        *)
(* attempt of which had raised.                                            *)
THEOREM SentOnce == ScheduleSpec => []DeliveredOnce
<1>1. ScheduleInit => ScheduleInv
  BY InitDelivers
<1>2. ScheduleInv /\ [ScheduleNext]_scheduleVars => ScheduleInv'
  BY NextKeeps
<1>3. ScheduleInv => DeliveredOnce
  <2> SUFFICES ASSUME ScheduleInv  PROVE DeliveredOnce
    OBVIOUS
  <2>1. ASSUME ~overlapped, NEW k \in keys  PROVE row[k[1]].status \in {"sent", "cancelled"}
    <3>1. k = <<k[1], k[2]>> /\ k[1] \in Scheduled /\ k[2] \in Nat
      BY DEF ScheduleInv, RowsOK
    <3>2. QED  BY <2>1, <3>1 DEF ScheduleInv, AloneOK
  <2>2. QED  BY <2>1 DEF ScheduleInv, TwiceOK, DeliveredOnce
<1>4. QED  BY <1>1, <1>2, <1>3, PTL DEF ScheduleSpec
=============================================================================

------------------------- MODULE PointsLedger_proofs -------------------------
(***************************************************************************)
(* The ledgers of a guest's credit.  PointsLedger implements Account for   *)
(* any number of sessions, keys, postings and lots: what a caller that     *)
(* locks first sees is the committed balance, what one that has loaded the *)
(* account sees is some balance the ledger went through, and a transaction *)
(* extends the chain of balances by its postings.  Of the two components   *)
(* next to it, ServiceRecovery gives each action one credit or refund, and *)
(* GiftCards closes a card once and pays out what was put on it, unless    *)
(* two requests overlapped.                                                *)
(***************************************************************************)
EXTENDS PointsLedger, ServiceRecovery, GiftCards, SumTheorems, SequenceTheorems, TLAPS

(* The ledger as Account sees it: a chain that ends in the balance.        *)
ChainOK ==
  /\ Ledger!KeysAreFresh(Postings) /\ Ledger!Reconciles(Postings)
  /\ balance = Ledger!After(Postings, Len(entries))

(* A copy taken before the lock is a balance the ledger has been at.       *)
CopiesOK ==
  \A s \in Sessions : call[s] # NoCall /\ call[s].kind \in Blind =>
    \E m \in 0 .. Len(entries) : call[s].copy = Ledger!After(Postings, m)

(* A lot is all its entry earned, also the one a sweep has read, and what  *)
(* expired is no more than an earlier entry earned.                        *)
LotsOK ==
  /\ \A n \in DOMAIN entries : entries[n].lot \in {0, entries[n].delta}
  /\ \A s \in Sessions : call[s] # NoCall /\ call[s].kind = "expire" =>
       \A n \in DOMAIN call[s].lots : call[s].lots[n] = entries[n].delta
  /\ \A n \in DOMAIN entries : entries[n].type = "expire" =>
       \E m \in 1 .. n - 1 :
         entries[n].key = ExpiryKey(m) /\ -entries[n].delta <= entries[m].delta

Inv == TypeOK /\ ChainOK /\ CopiesOK /\ LotsOK

-----------------------------------------------------------------------------
LEMMA FunctionIsSeq ==
  ASSUME NEW S, NEW n \in Nat, NEW f \in [1 .. n -> S]
  PROVE  f \in Seq(S) /\ Len(f) = n
<1>1. f \in Seq(S)
  BY SeqDef
<1>2. DOMAIN f = 1 .. n /\ DOMAIN f = 1 .. Len(f) /\ Len(f) \in Nat
  BY <1>1, LenProperties
<1>3. QED  BY <1>1, <1>2

LEMMA EntriesAre ==
  ASSUME TypeOK
  PROVE  /\ Len(entries) \in Nat /\ DOMAIN entries = 1 .. Len(entries)
         /\ \A n \in 1 .. Len(entries) : entries[n] \in EntryType
BY LenProperties, ElementOfSeq DEF TypeOK

LEMMA PostingsAre ==
  ASSUME TypeOK
  PROVE  /\ Postings \in Seq([key : Keys \union ({"loyalty-expire"} \X Nat),
                              delta : Int, after : Nat, blind : BOOLEAN])
         /\ Len(Postings) = Len(entries)
         /\ DOMAIN Postings = 1 .. Len(entries)
         /\ \A n \in 1 .. Len(entries) :
              Postings[n] = [key |-> entries[n].key,
                             delta |-> entries[n].delta,
                             after |-> entries[n].after,
                             blind |-> entries[n].type \in Blind]
<1> DEFINE P == [key : Keys \union ({"loyalty-expire"} \X Nat),
                 delta : Int, after : Nat, blind : BOOLEAN]
<1>1. Postings \in [1 .. Len(entries) -> P]
  BY EntriesAre DEF Postings, EntryType
<1> HIDE DEF P
<1>2. Postings \in Seq(P) /\ Len(Postings) = Len(entries)
  BY <1>1, EntriesAre, FunctionIsSeq
<1>3. QED
  BY <1>1, <1>2, EntriesAre DEF Postings, P

LEMMA KeyUsedIs ==
  ASSUME TypeOK, NEW k, Fresh(k)
  PROVE  \A n \in 1 .. Len(entries) : entries[n].key # k
BY EntriesAre DEF Fresh, KeyUsed

-----------------------------------------------------------------------------
(* What a transaction appends: postings that each build on the one before  *)
(* them, and the first on the balance after the m-th in the ledger.        *)
Chained(p, m) ==
  /\ p \in Seq(EntryType) /\ p # <<>>
  /\ \A i \in 1 .. Len(p) :
       /\ Fresh(p[i].key)
       /\ p[i].after = (IF i = 1 THEN Ledger!After(Postings, m) ELSE p[i - 1].after)
                         + p[i].delta
  /\ \A i, j \in 1 .. Len(p) : p[i].key = p[j].key => i = j
  /\ m \in 0 .. Len(entries) /\ (p[1].type \notin Blind => m = Len(entries))

Same(e, old) ==
  /\ e.type = old.type /\ e.key = old.key
  /\ e.delta = old.delta /\ e.after = old.after

Extends(s, p, m) ==
  /\ DOMAIN entries' = 1 .. Len(entries) + Len(p)
  /\ \A n \in 1 .. Len(entries) : Same(entries'[n], entries[n])
  /\ \A i \in 1 .. Len(p) : entries'[Len(entries) + i] = p[i]
  /\ Chained(p, m)
  /\ balance' = p[Len(p)].after
  /\ call' = [call EXCEPT ![s] = NoCall]

LEMMA PostingsAreP ==
  ASSUME Inv, TypeOK', NEW s \in Sessions, NEW p, NEW m, Extends(s, p, m)
  PROVE  /\ Len(p) \in Nat \ {0} /\ Len(entries) \in Nat
         /\ Len(Postings) = Len(entries)
         /\ Len(entries') = Len(entries) + Len(p)
         /\ Len(Postings') = Len(entries) + Len(p)
         /\ DOMAIN Postings = 1 .. Len(entries)
         /\ DOMAIN Postings' = 1 .. Len(entries) + Len(p)
         /\ \A n \in 1 .. Len(entries) : Postings'[n] = Postings[n]
         /\ \A i \in 1 .. Len(p) :
              /\ Postings'[Len(entries) + i].key = p[i].key
              /\ Postings'[Len(entries) + i].delta = p[i].delta
              /\ Postings'[Len(entries) + i].after = p[i].after
              /\ Postings'[Len(entries) + i].blind <=> p[i].type \in Blind
<1> DEFINE L == Len(entries)
           K == Len(p)
<1>1. /\ L \in Nat /\ Len(Postings) = L /\ DOMAIN Postings = 1 .. L
      /\ \A n \in 1 .. L : Postings[n] = [key |-> entries[n].key,
                                          delta |-> entries[n].delta,
                                          after |-> entries[n].after,
                                          blind |-> entries[n].type \in Blind]
  BY PostingsAre, EntriesAre DEF Inv
<1>2. K \in Nat \ {0}
  BY LenProperties, EmptySeq DEF Extends, Chained
<1>3. /\ Len(entries') \in Nat /\ DOMAIN entries' = 1 .. Len(entries')
      /\ DOMAIN Postings' = 1 .. Len(entries')
  BY LenProperties DEF TypeOK, Postings
<1>4. Len(entries') = L + K
  BY <1>1, <1>2, <1>3 DEF Extends
<1>5. Len(Postings') = L + K
  <2> DEFINE S == {Postings'[n] : n \in 1 .. L + K}
  <2>1. Postings' \in [1 .. L + K -> S]
    BY <1>3, <1>4 DEF Postings
  <2> HIDE DEF S
  <2>2. QED  BY <1>1, <1>2, <2>1, FunctionIsSeq
<1>6. \A n \in 1 .. L + K :
         Postings'[n] = [key |-> entries'[n].key, delta |-> entries'[n].delta,
                         after |-> entries'[n].after,
                         blind |-> entries'[n].type \in Blind]
  BY <1>3, <1>4 DEF Postings
<1>7. ASSUME NEW n \in 1 .. L  PROVE Postings'[n] = Postings[n]
  <2>1. Same(entries'[n], entries[n]) /\ n \in 1 .. L + K
    BY <1>1, <1>2 DEF Extends
  <2>2. QED  BY <1>1, <1>6, <2>1 DEF Same
<1>8. ASSUME NEW i \in 1 .. K
      PROVE  /\ Postings'[L + i].key = p[i].key
             /\ Postings'[L + i].delta = p[i].delta
             /\ Postings'[L + i].after = p[i].after
             /\ Postings'[L + i].blind <=> p[i].type \in Blind
  <2> DEFINE b == p[i].type \in Blind
  <2>1. entries'[L + i] = p[i] /\ L + i \in 1 .. L + K
    <3>1. entries'[L + i] = p[i]
      BY DEF Extends
    <3>2. L \in Nat /\ K \in Nat
      BY <1>1, <1>2
    <3> HIDE DEF L, K
    <3>3. L + i \in 1 .. L + K
      BY <3>2
    <3>4. QED  BY <3>1, <3>3
  <2>2. Postings'[L + i] = [key |-> p[i].key, delta |-> p[i].delta,
                            after |-> p[i].after, blind |-> b]
    BY <1>6, <2>1
  <2> HIDE DEF b
  <2>3. /\ Postings'[L + i].key = p[i].key /\ Postings'[L + i].delta = p[i].delta
        /\ Postings'[L + i].after = p[i].after /\ Postings'[L + i].blind = b
    BY <2>2
  <2>4. QED  BY <2>3 DEF b
<1>9. QED  BY <1>1, <1>2, <1>3, <1>4, <1>5, <1>7, <1>8

LEMMA Beyond ==
  ASSUME NEW L \in Nat, NEW K \in Nat, NEW n \in 1 .. L + K
  PROVE  n \in 1 .. L \/ \E i \in 1 .. K : n = L + i
<1>1. CASE n > L
  <2>1. n - L \in 1 .. K /\ n = L + (n - L)
    BY <1>1
  <2>2. QED  BY <2>1
<1>2. QED  BY <1>1

(* Appending to the chain is what Account's Post does, and keeps the chain.*)
LEMMA ExtendsPosts ==
  ASSUME Inv, TypeOK', NEW s \in Sessions, NEW p, NEW m, Extends(s, p, m)
  PROVE  Ledger!Post /\ ChainOK' /\ CopiesOK'
<1> DEFINE L == Len(entries)
           K == Len(p)
<1>1. /\ K \in Nat \ {0} /\ L \in Nat /\ Len(Postings) = L
      /\ Len(entries') = L + K /\ Len(Postings') = L + K
      /\ DOMAIN Postings = 1 .. L /\ DOMAIN Postings' = 1 .. L + K
      /\ \A n \in 1 .. L : Postings'[n] = Postings[n]
      /\ \A i \in 1 .. K :
           /\ Postings'[L + i].key = p[i].key /\ Postings'[L + i].delta = p[i].delta
           /\ Postings'[L + i].after = p[i].after
  BY PostingsAreP
<1>2. Chained(p, m) /\ \A i \in 1 .. K : p[i] \in EntryType
  BY ElementOfSeq DEF Extends, Chained
<1>3. \A n \in 0 .. L : Ledger!After(Postings', n) = Ledger!After(Postings, n)
  BY <1>1 DEF Ledger!After
<1>4. \A i \in 1 .. K : Ledger!After(Postings', L + i) = p[i].after
  BY <1>1 DEF Ledger!After
<1>5. \A n \in 1 .. L + K : n \in 1 .. L \/ \E i \in 1 .. K : n = L + i
  <2>1. K \in Nat /\ L \in Nat
    BY <1>1
  <2>2. QED  BY <2>1, Beyond
<1>6. Ledger!KeysAreFresh(Postings')
  <2>1. \A n \in 1 .. L, i \in 1 .. K : Postings[n].key # p[i].key
    <3>1. ASSUME NEW n \in 1 .. L, NEW i \in 1 .. K  PROVE Postings[n].key # p[i].key
      <4>1. entries[n].key # p[i].key
        BY <1>2, KeyUsedIs DEF Inv, Chained
      <4>2. Postings[n].key = entries[n].key
        BY PostingsAre DEF Inv
      <4>3. QED  BY <4>1, <4>2
    <3>2. QED  BY <3>1
  <2>2. \A n, k \in 1 .. L : Postings[n].key = Postings[k].key => n = k
    BY <1>1 DEF Inv, ChainOK, Ledger!KeysAreFresh
  <2>3. \A i, j \in 1 .. K : p[i].key = p[j].key => i = j
    BY <1>2 DEF Chained
  <2>4. ASSUME NEW n \in 1 .. L + K, NEW k \in 1 .. L + K,
               Postings'[n].key = Postings'[k].key
        PROVE  n = k
    <3>1. CASE n \in 1 .. L
      <4>1. CASE k \in 1 .. L
        BY <1>1, <2>2, <2>4, <3>1, <4>1
      <4>2. CASE k \notin 1 .. L
        <5>1. PICK j \in 1 .. K : k = L + j
          BY <1>5, <4>2
        <5>2. QED  BY <1>1, <2>1, <2>4, <3>1, <5>1
      <4>3. QED  BY <4>1, <4>2
    <3>2. CASE n \notin 1 .. L
      <4>1. PICK i \in 1 .. K : n = L + i
        BY <1>5, <3>2
      <4>2. CASE k \in 1 .. L
        BY <1>1, <2>1, <2>4, <4>1, <4>2
      <4>3. CASE k \notin 1 .. L
        <5>1. PICK j \in 1 .. K : k = L + j
          BY <1>5, <4>3
        <5>2. QED  BY <1>1, <2>3, <2>4, <4>1, <5>1
      <4>4. QED  BY <4>2, <4>3
    <3>3. QED  BY <3>1, <3>2
  <2>5. QED
    BY <1>1, <2>4 DEF Ledger!KeysAreFresh
<1>7. Ledger!Reconciles(Postings')
  <2>1. ASSUME NEW n \in 1 .. L
        PROVE  /\ Postings'[n].after >= 0
               /\ IF Postings'[n].blind
                  THEN \E i \in 0 .. n - 1 : Ledger!BuildsOn(Postings', n, i)
                  ELSE Ledger!BuildsOn(Postings', n, n - 1)
    <3>1. \A i \in 0 .. n - 1 :
            Ledger!BuildsOn(Postings', n, i) <=> Ledger!BuildsOn(Postings, n, i)
      <4>1. ASSUME NEW i \in 0 .. n - 1
            PROVE  Ledger!After(Postings', i) = Ledger!After(Postings, i)
        <5>1. i = 0 \/ i \in 1 .. L
          BY <1>1
        <5>2. QED  BY <1>3, <5>1 DEF Ledger!After
      <4>2. QED  BY <1>1, <4>1 DEF Ledger!BuildsOn
    <3>2. QED  BY <1>1, <3>1 DEF Inv, ChainOK, Ledger!Reconciles
  <2>2. ASSUME NEW i \in 1 .. K
        PROVE  /\ Postings'[L + i].after >= 0
               /\ IF Postings'[L + i].blind
                  THEN \E n \in 0 .. L + i - 1 : Ledger!BuildsOn(Postings', L + i, n)
                  ELSE Ledger!BuildsOn(Postings', L + i, L + i - 1)
    <3>1. Postings'[L + i].after >= 0
      <4>1. p[i].after \in Nat
        BY <1>2 DEF EntryType
      <4>2. QED  BY <1>1, <4>1
    <3>2. CASE i = 1
      <4>1. Ledger!BuildsOn(Postings', L + i, m) /\ m \in 0 .. L + i - 1
        <5>1. m \in 0 .. L /\ L + i - 1 = L
          <6>1. m \in 0 .. L
            BY <1>2 DEF Chained
          <6>2. L \in Nat
            BY <1>1
          <6> HIDE DEF L
          <6>3. QED  BY <3>2, <6>1, <6>2
        <5>2. p[i].after = Ledger!After(Postings, m) + p[i].delta
          <6>1. p[i].after = (IF i = 1 THEN Ledger!After(Postings, m) ELSE p[i - 1].after)
                               + p[i].delta
            BY <1>2 DEF Chained
          <6>2. QED  BY <3>2, <6>1
        <5>3. Ledger!After(Postings', m) = Ledger!After(Postings, m)
          BY <1>3, <5>1
        <5>4. /\ Postings'[L + i].after = p[i].after
              /\ Postings'[L + i].delta = p[i].delta
          BY <1>1
        <5>5. QED  BY <5>1, <5>2, <5>3, <5>4 DEF Ledger!BuildsOn
      <4>2. ~Postings'[L + i].blind => m = L
        <5>1. Postings'[L + i].blind <=> p[i].type \in Blind
          BY PostingsAreP
        <5>2. QED  BY <1>2, <3>2, <5>1 DEF Chained
      <4>3. L + i - 1 = L
        BY <1>1, <3>2
      <4>4. QED  BY <3>1, <4>1, <4>2, <4>3
    <3>3. CASE i # 1
      <4>1. i - 1 \in 1 .. K /\ L + i - 1 = L + (i - 1) /\ L + i - 1 \in 0 .. L + i - 1
        BY <1>1, <3>3
      <4>2. Ledger!After(Postings', L + i - 1) = p[i - 1].after
        BY <1>4, <4>1
      <4>3. p[i].after = p[i - 1].after + p[i].delta
        BY <1>2, <3>3 DEF Chained
      <4>4. Ledger!BuildsOn(Postings', L + i, L + i - 1)
        BY <1>1, <4>2, <4>3 DEF Ledger!BuildsOn
      <4>5. QED  BY <3>1, <4>1, <4>4
    <3>4. QED  BY <3>2, <3>3
  <2>3. ASSUME NEW n \in 1 .. L + K
        PROVE  /\ Postings'[n].after >= 0
               /\ IF Postings'[n].blind
                  THEN \E i \in 0 .. n - 1 : Ledger!BuildsOn(Postings', n, i)
                  ELSE Ledger!BuildsOn(Postings', n, n - 1)
    <3>1. CASE n \in 1 .. L
      BY <2>1, <3>1
    <3>2. CASE n \notin 1 .. L
      <4>1. PICK i \in 1 .. K : n = L + i
        BY <1>5, <3>2
      <4>2. QED  BY <2>2, <4>1
    <3>3. QED  BY <3>1, <3>2
  <2>4. QED  BY <1>1, <2>3 DEF Ledger!Reconciles
<1>8. balance' = Ledger!After(Postings', L + K)
  BY <1>1, <1>4 DEF Extends
<1>9. CopiesOK'
  <2>1. ASSUME NEW t \in Sessions, call'[t] # NoCall, call'[t].kind \in Blind
        PROVE  \E i \in 0 .. L + K : call'[t].copy = Ledger!After(Postings', i)
    <3>1. call'[t] = call[t]
      BY <2>1 DEF Extends, Inv, TypeOK
    <3>2. PICK i \in 0 .. L : call[t].copy = Ledger!After(Postings, i)
      BY <2>1, <3>1 DEF Inv, CopiesOK
    <3>3. QED  BY <1>1, <1>3, <3>1, <3>2
  <2>2. QED  BY <1>1, <2>1 DEF CopiesOK
<1>10. QED
  BY <1>1, <1>6, <1>7, <1>8, <1>9 DEF Ledger!Post, ChainOK

-----------------------------------------------------------------------------
(* What a sweep has posted, and what it has left of the account, after the *)
(* first lots of the order.                                                *)
IsSweep(f, s, order, k) ==
  f = [n \in 0 .. k |->
         IF n = 0 THEN [left |-> Seen(s), posted |-> <<>>]
         ELSE SweepLot(f[n - 1], order[n], call[s].lots[order[n]])]

LEMMA SweepDefined ==
  ASSUME NEW s, NEW order, Len(order) \in Nat
  PROVE  \E f : IsSweep(f, s, order, Len(order)) /\ Swept(s, order) = f[Len(order)]
<1>1. ASSUME NEW k \in Nat  PROVE \E f : IsSweep(f, s, order, k)
  <2> DEFINE T == {n \in Nat : ~\E f : IsSweep(f, s, order, n)}
  <2>1. SUFFICES ASSUME T # {}  PROVE FALSE
    OBVIOUS
  <2>2. PICK n \in T : \A m \in T : n <= m
    <3>1. T \subseteq Nat
      OBVIOUS
    <3> HIDE DEF T
    <3>2. QED  BY <2>1, <3>1, LeastElement
  <2>3. CASE n = 0
    <3> DEFINE f == [i \in 0 .. 0 |-> [left |-> Seen(s), posted |-> <<>>]]
    <3>1. IsSweep(f, s, order, 0)
      BY DEF IsSweep
    <3>2. QED  BY <2>3, <3>1
  <2>4. CASE n # 0
    <3>1. n - 1 \in Nat /\ n - 1 \notin T
      BY <2>2, <2>4
    <3>2. PICK g : IsSweep(g, s, order, n - 1)
      BY <3>1
    <3> DEFINE f == [i \in 0 .. n |->
                       IF i = n
                       THEN SweepLot(g[n - 1], order[n], call[s].lots[order[n]])
                       ELSE g[i]]
    <3>3. ASSUME NEW i \in 0 .. n
          PROVE  f[i] = IF i = 0 THEN [left |-> Seen(s), posted |-> <<>>]
                        ELSE SweepLot(f[i - 1], order[i], call[s].lots[order[i]])
      <4>1. CASE i = n
        <5>1. f[i] = SweepLot(g[n - 1], order[n], call[s].lots[order[n]])
          BY <4>1
        <5>2. f[i - 1] = g[n - 1]
          BY <2>4, <4>1
        <5>3. QED  BY <2>4, <4>1, <5>1, <5>2
      <4>2. CASE i # n
        <5>1. i \in 0 .. n - 1
          BY <4>2
        <5>2. g[i] = IF i = 0 THEN [left |-> Seen(s), posted |-> <<>>]
                     ELSE SweepLot(g[i - 1], order[i], call[s].lots[order[i]])
          BY <3>2, <5>1 DEF IsSweep
        <5>3. f[i] = g[i] /\ (i # 0 => f[i - 1] = g[i - 1])
          BY <4>2
        <5>4. QED  BY <5>2, <5>3
      <4>3. QED  BY <4>1, <4>2
    <3>4. f = [i \in 0 .. n |-> f[i]]
      OBVIOUS
    <3> HIDE DEF f
    <3>5. IsSweep(f, s, order, n)
      BY <3>3, <3>4 DEF IsSweep
    <3>6. QED  BY <3>5
  <2>5. QED  BY <2>3, <2>4
<1>2. Swept(s, order) = (CHOOSE f : IsSweep(f, s, order, Len(order)))[Len(order)]
  BY DEF Swept, IsSweep
<1>3. QED  BY <1>1, <1>2

SweptOK(a, s, order, n) ==
  /\ a = [left |-> a.left, posted |-> a.posted]
  /\ a.left \in Nat /\ a.posted \in Seq(EntryType)
  /\ a.left = IF a.posted = <<>> THEN Seen(s) ELSE a.posted[Len(a.posted)].after
  /\ \A i \in 1 .. Len(a.posted) :
       /\ a.posted[i].type = "expire" /\ a.posted[i].lot = 0
       /\ a.posted[i].after = (IF i = 1 THEN Seen(s) ELSE a.posted[i - 1].after)
                                + a.posted[i].delta
       /\ \E j \in 1 .. n :
            /\ a.posted[i].key = ExpiryKey(order[j])
            /\ -a.posted[i].delta <= call[s].lots[order[j]]
  /\ \A i, j \in 1 .. Len(a.posted) : a.posted[i].key = a.posted[j].key => i = j

(* An order of lots that a sweep has read.                                 *)
OrderOK(s, order) ==
  /\ "expire" \in Calls /\ Len(order) \in Nat
  /\ \A j \in 1 .. Len(order) : order[j] \in Nat /\ call[s].lots[order[j]] \in Nat
  /\ \A i, j \in 1 .. Len(order) : order[i] = order[j] => i = j

LEMMA LastOrBefore ==
  ASSUME NEW L \in Nat, NEW n \in 1 .. L + 1
  PROVE  n \in 1 .. L \/ n = L + 1
OBVIOUS

LEMMA LotKeeps ==
  ASSUME NEW s, NEW order, OrderOK(s, order), Seen(s) \in Nat,
         NEW n \in 1 .. Len(order), NEW a, SweptOK(a, s, order, n - 1)
  PROVE  SweptOK(SweepLot(a, order[n], call[s].lots[order[n]]), s, order, n)
<1> DEFINE lot    == call[s].lots[order[n]]
           taken  == DueOf(lot, a.left)
           e      == Entry("expire", ExpiryKey(order[n]), -taken, a.left - taken, 0, 0)
           b      == SweepLot(a, order[n], lot)
           p      == a.posted
<1>1. /\ lot \in Nat /\ order[n] \in Nat /\ n \in Nat /\ Len(order) \in Nat
      /\ a.left \in Nat /\ p \in Seq(EntryType) /\ Len(p) \in Nat
  BY LenProperties DEF OrderOK, SweptOK
<1>2. taken \in Nat /\ taken <= a.left /\ taken <= lot
  BY <1>1 DEF DueOf
<1>3. CASE taken = 0
  <2>1. b = a
    BY <1>3 DEF SweepLot
  <2>2. SweptOK(a, s, order, n)
    <3>1. 1 .. n - 1 \subseteq 1 .. n
      BY <1>1
    <3>2. QED  BY <3>1 DEF SweptOK
  <2>3. QED  BY <2>1, <2>2
<1>4. CASE taken # 0
  <2>1. b = [left |-> a.left - taken, posted |-> Append(p, e)]
    BY <1>4 DEF SweepLot
  <2>2. /\ e.type = "expire" /\ e.key = ExpiryKey(order[n]) /\ e.delta = -taken
        /\ e.after = a.left - taken /\ e.lot = 0 /\ e \in EntryType
    <3>1. ExpiryKey(order[n]) \in {"loyalty-expire"} \X Nat
      BY <1>1 DEF ExpiryKey
    <3>2. "expire" \in Calls /\ -taken \in Int /\ a.left - taken \in Nat
      BY <1>1, <1>2 DEF OrderOK
    <3> HIDE DEF taken
    <3>3. QED  BY <3>1, <3>2 DEF EntryType, Entry
  <2> HIDE DEF e, taken, b, lot
  <2>3. /\ b.posted \in Seq(EntryType) /\ Len(b.posted) = Len(p) + 1
        /\ \A i \in 1 .. Len(p) : b.posted[i] = p[i]
        /\ b.posted[Len(p) + 1] = e /\ b.posted # <<>>
    <3>1. b.posted = Append(p, e)
      BY <2>1
    <3>2. QED  BY <1>1, <2>2, <3>1, AppendProperties, EmptySeq
  <2>4. ASSUME NEW i \in 1 .. Len(p) + 1
        PROVE  /\ b.posted[i].type = "expire" /\ b.posted[i].lot = 0
               /\ b.posted[i].after = (IF i = 1 THEN Seen(s) ELSE b.posted[i - 1].after)
                                        + b.posted[i].delta
               /\ \E j \in 1 .. n :
                    /\ b.posted[i].key = ExpiryKey(order[j])
                    /\ -b.posted[i].delta <= call[s].lots[order[j]]
    <3>1. CASE i \in 1 .. Len(p)
      <4>1. b.posted[i] = p[i] /\ (i # 1 => b.posted[i - 1] = p[i - 1])
        <5>1. i # 1 => i - 1 \in 1 .. Len(p)
          BY <1>1, <3>1
        <5>2. QED  BY <2>3, <3>1, <5>1
      <4>2. 1 .. n - 1 \subseteq 1 .. n
        BY <1>1
      <4>3. /\ p[i].type = "expire" /\ p[i].lot = 0
            /\ p[i].after = (IF i = 1 THEN Seen(s) ELSE p[i - 1].after) + p[i].delta
            /\ \E j \in 1 .. n - 1 : /\ p[i].key = ExpiryKey(order[j])
                                    /\ -p[i].delta <= call[s].lots[order[j]]
        BY <3>1 DEF SweptOK
      <4>4. QED  BY <4>1, <4>2, <4>3
    <3>2. CASE i = Len(p) + 1
      <4>1. a.left = IF i = 1 THEN Seen(s) ELSE b.posted[i - 1].after
        <5>1. CASE Len(p) = 0
          BY <1>1, <3>2, <5>1, EmptySeq DEF SweptOK
        <5>2. CASE Len(p) # 0
          <6>1. i - 1 = Len(p) /\ Len(p) \in 1 .. Len(p) /\ p # <<>> /\ i # 1
            BY <1>1, <3>2, <5>2, EmptySeq
          <6>2. QED  BY <2>3, <6>1 DEF SweptOK
        <5>3. QED  BY <5>1, <5>2
      <4>2. b.posted[i] = e
        BY <2>3, <3>2
      <4>3. b.posted[i].after = a.left + b.posted[i].delta
        BY <1>1, <1>2, <2>2, <4>2
      <4>4. n \in 1 .. n /\ -e.delta <= call[s].lots[order[n]]
        BY <1>1, <1>2, <2>2 DEF lot
      <4>5. QED  BY <2>2, <4>1, <4>2, <4>3, <4>4
    <3>3. QED  BY <1>1, <3>1, <3>2
  <2>5. \A i \in 1 .. Len(p) : p[i].key # e.key
    <3>1. ASSUME NEW i \in 1 .. Len(p), p[i].key = e.key  PROVE FALSE
      <4>1. PICK j \in 1 .. n - 1 : p[i].key = ExpiryKey(order[j])
        BY DEF SweptOK
      <4>2. order[j] = order[n]
        BY <2>2, <3>1, <4>1 DEF ExpiryKey
      <4>3. j \in 1 .. Len(order) /\ j # n
        BY <1>1
      <4>4. QED  BY <4>2, <4>3 DEF OrderOK
    <3>2. QED  BY <3>1
  <2>6. ASSUME NEW i \in 1 .. Len(p) + 1, NEW j \in 1 .. Len(p) + 1,
               b.posted[i].key = b.posted[j].key
        PROVE  i = j
    <3>1. (i \in 1 .. Len(p) \/ i = Len(p) + 1) /\ (j \in 1 .. Len(p) \/ j = Len(p) + 1)
      BY <1>1, LastOrBefore
    <3>2. i \in 1 .. Len(p) /\ j \in 1 .. Len(p) => i = j
      BY <2>3, <2>6 DEF SweptOK
    <3>3. QED  BY <2>3, <2>5, <2>6, <3>1, <3>2
  <2>7. /\ b = [left |-> b.left, posted |-> b.posted] /\ b.left \in Nat
        /\ b.left = b.posted[Len(b.posted)].after
    <3>1. b.left = a.left - taken /\ b = [left |-> b.left, posted |-> b.posted]
      BY <2>1
    <3>2. a.left - taken \in Nat
      BY <1>1, <1>2
    <3>3. b.posted[Len(b.posted)] = e
      BY <2>3
    <3>4. QED  BY <2>2, <3>1, <3>2, <3>3
  <2>8. SweptOK(b, s, order, n)
    BY <2>3, <2>4, <2>6, <2>7 DEF SweptOK
  <2>9. QED  BY <2>8 DEF b, lot
<1>5. QED  BY <1>3, <1>4

LEMMA SweepIs ==
  ASSUME NEW s, NEW order, OrderOK(s, order), Seen(s) \in Nat
  PROVE  SweptOK(Swept(s, order), s, order, Len(order))
<1>1. Len(order) \in Nat
  BY DEF OrderOK
<1>2. PICK f : IsSweep(f, s, order, Len(order)) /\ Swept(s, order) = f[Len(order)]
  BY <1>1, SweepDefined
<1> DEFINE T == {n \in 0 .. Len(order) : ~SweptOK(f[n], s, order, n)}
<1>3. T = {}
  <2>1. SUFFICES ASSUME T # {}  PROVE FALSE
    OBVIOUS
  <2>2. PICK n \in T : \A m \in T : n <= m
    <3>1. T \subseteq Nat
      OBVIOUS
    <3> HIDE DEF T
    <3>2. QED  BY <2>1, <3>1, LeastElement
  <2>3. n \in 0 .. Len(order)
    OBVIOUS
  <2>4. CASE n = 0
    <3>1. f[n] = [left |-> Seen(s), posted |-> <<>>]
      BY <1>2, <2>3, <2>4 DEF IsSweep
    <3>2. SweptOK(f[n], s, order, n)
      BY <3>1, EmptySeq DEF SweptOK
    <3>3. QED  BY <2>2, <3>2
  <2>5. CASE n # 0
    <3>1. n \in 1 .. Len(order) /\ n - 1 \in 0 .. Len(order) /\ n - 1 \notin T
      BY <1>1, <2>2, <2>3, <2>5
    <3>2. SweptOK(f[n - 1], s, order, n - 1)
      BY <3>1
    <3>3. f[n] = SweepLot(f[n - 1], order[n], call[s].lots[order[n]])
      BY <1>2, <2>3, <2>5 DEF IsSweep
    <3>4. SweptOK(f[n], s, order, n)
      BY <3>1, <3>2, <3>3, LotKeeps
    <3>5. QED  BY <2>2, <3>4
  <2>6. QED  BY <2>4, <2>5
<1>4. QED  BY <1>1, <1>2, <1>3

-----------------------------------------------------------------------------
LEMMA InitInv == Init => Inv
<1> SUFFICES ASSUME Init PROVE Inv
  OBVIOUS
<1>1. TypeOK
  BY EmptySeq DEF Init, TypeOK, CallOK, NoCall
<1>2. Postings = <<>>
  BY DEF Init, Postings
<1>3. ChainOK
  BY <1>2 DEF Init, ChainOK, Ledger!KeysAreFresh, Ledger!Reconciles,
              Ledger!After
<1>4. CopiesOK /\ LotsOK
  BY DEF Init, CopiesOK, LotsOK
<1>5. QED  BY <1>1, <1>3, <1>4 DEF Inv

LEMMA CallIs ==
  ASSUME Inv, NEW s \in Sessions, call[s] # NoCall
  PROVE  /\ CallOK(call[s])
         /\ call[s].kind \notin {"reverse", "expire"} =>
              call[s] \in [kind : Calls \ {"reverse", "expire"}, points : Amounts,
                           key : Keys, copy : Nat \union {None}]
         /\ call[s].kind = "reverse" =>
              /\ "reverse" \in Calls
              /\ call[s] \in [kind : {"reverse"}, original : DOMAIN entries, key : Keys]
         /\ call[s].kind = "expire" =>
              /\ "expire" \in Calls
              /\ call[s] = [kind |-> "expire", lots |-> call[s].lots, copy |-> call[s].copy]
              /\ DOMAIN call[s].lots \subseteq DOMAIN entries /\ call[s].copy \in Nat
              /\ \A n \in DOMAIN call[s].lots : call[s].lots[n] \in Nat
<1>1. CallOK(call[s])
  BY DEF Inv, TypeOK
<1>2. QED  BY <1>1 DEF CallOK, Inv, TypeOK

LEMMA BalancesAre ==
  ASSUME Inv
  PROVE  \A m \in 0 .. Len(entries) : Ledger!After(Postings, m) \in Nat
<1>1. \A m \in 1 .. Len(entries) : Postings[m].after \in Nat
  BY PostingsAre, EntriesAre DEF EntryType, Inv
<1>2. Len(entries) \in Nat
  BY EntriesAre DEF Inv
<1>3. ASSUME NEW m \in 0 .. Len(entries)
      PROVE  Ledger!After(Postings, m) \in Nat
  <2>1. m = 0 \/ m \in 1 .. Len(entries)
    BY <1>2
  <2>2. QED  BY <1>1, <2>1 DEF Ledger!After
<1>4. QED  BY <1>3

(* A caller that locks first sees the committed balance, an order or a     *)
(* sweep one the ledger was at.                                            *)
LEMMA SeesABalance ==
  ASSUME Inv, NEW s \in Sessions, call[s] # NoCall
  PROVE  /\ \E m \in 0 .. Len(entries) :
              /\ Seen(s) = Ledger!After(Postings, m)
              /\ call[s].kind \notin Blind => m = Len(entries)
         /\ Seen(s) \in Nat
<1>1. Len(entries) \in 0 .. Len(entries)
  BY EntriesAre DEF Inv
<1>2. CASE call[s].kind \in Blind
  <2>1. PICK m \in 0 .. Len(entries) : call[s].copy = Ledger!After(Postings, m)
    BY <1>2 DEF Inv, CopiesOK
  <2>2. Seen(s) = Ledger!After(Postings, m)
    BY <1>2, <2>1 DEF Seen, Preloading, Blind
  <2>3. QED  BY <1>2, <2>2, BalancesAre
<1>3. CASE call[s].kind \notin Blind
  <2>1. Seen(s) = Ledger!After(Postings, Len(entries))
    BY <1>3 DEF Inv, ChainOK, Seen, Preloading, Blind
  <2>2. QED  BY <1>1, <2>1, BalancesAre
<1>4. QED  BY <1>2, <1>3

-----------------------------------------------------------------------------
LEMMA ChainStays ==
  ASSUME ChainOK, UNCHANGED <<balance, entries>>
  PROVE  ChainOK' /\ UNCHANGED <<balance, Postings>>
<1>1. Postings' = Postings
  BY DEF Postings
<1>2. QED
  BY <1>1 DEF ChainOK, Ledger!KeysAreFresh, Ledger!Reconciles,
              Ledger!After, Ledger!BuildsOn

LEMMA CopiesStay ==
  ASSUME Inv, UNCHANGED <<balance, entries>>, NEW s \in Sessions, NEW c,
         call' = [call EXCEPT ![s] = c],
         c = NoCall \/ c.kind \notin Blind \/ c.copy = balance,
         c # NoCall /\ c.kind = "expire" =>
           \A n \in DOMAIN c.lots : c.lots[n] = entries[n].delta
  PROVE  CopiesOK' /\ LotsOK'
<1>1. Postings' = Postings
  BY DEF Postings
<1>2. \A m : Ledger!After(Postings', m) = Ledger!After(Postings, m)
  BY <1>1 DEF Ledger!After
<1>3. Len(entries) \in 0 .. Len(entries)
  BY EntriesAre DEF Inv
<1>4. ASSUME NEW t \in Sessions, call'[t] # NoCall, call'[t].kind \in Blind
      PROVE  \E m \in 0 .. Len(entries) :
               call'[t].copy = Ledger!After(Postings, m)
  <2>1. CASE t = s
    BY <1>3, <1>4, <2>1 DEF Inv, TypeOK, ChainOK
  <2>2. CASE t # s
    BY <1>4, <2>2 DEF Inv, TypeOK, CopiesOK
  <2>3. QED  BY <2>1, <2>2
<1>5. ASSUME NEW t \in Sessions, call'[t] # NoCall, call'[t].kind = "expire"
      PROVE  \A n \in DOMAIN call'[t].lots : call'[t].lots[n] = entries[n].delta
  <2>1. CASE t = s
    BY <1>5, <2>1 DEF Inv, TypeOK
  <2>2. CASE t # s
    BY <1>5, <2>2 DEF Inv, TypeOK, LotsOK
  <2>3. QED  BY <2>1, <2>2
<1>6. QED  BY <1>2, <1>4, <1>5 DEF CopiesOK, LotsOK, Inv

(* The steps that only read or roll back leave the ledger alone.           *)
LEMMA ReadsKeepInv ==
  ASSUME Inv, NEW s \in Sessions,
         \/ \E kind \in Calls, amount \in Amounts, k \in Keys :
              BeginPost(s, kind, amount, k)
         \/ \E n \in DOMAIN entries, k \in Keys : BeginReverse(s, n, k)
         \/ BeginExpire(s) \/ RollBack(s)
  PROVE  Inv' /\ UNCHANGED <<balance, Postings>>
<1>1. UNCHANGED <<balance, entries>>
  BY DEF BeginPost, BeginReverse, BeginExpire, RollBack
<1>2. ChainOK' /\ UNCHANGED <<balance, Postings>>
  BY <1>1, ChainStays DEF Inv
<1>3. TypeOK' /\ CopiesOK' /\ LotsOK'
  <2>1. CASE \E kind \in Calls, amount \in Amounts, k \in Keys :
              BeginPost(s, kind, amount, k)
    <3>1. PICK kind \in Calls, amount \in Amounts, k \in Keys :
            BeginPost(s, kind, amount, k)
      BY <2>1
    <3>2. TypeOK'
      BY <3>1, AmountsAssumption
      DEF BeginPost, Inv, TypeOK, CallOK, Copy, None
    <3>3. CopiesOK' /\ LotsOK'
      <4> DEFINE c == [kind |-> kind, points |-> amount, key |-> k,
                       copy |-> Copy(kind)]
      <4>1. c.kind # "expire" /\ (c.kind \notin Blind \/ c.copy = balance)
        BY <3>1 DEF BeginPost, Copy, Preloading, Blind
      <4>2. call' = [call EXCEPT ![s] = c]
        BY <3>1 DEF BeginPost
      <4> HIDE DEF c
      <4>3. QED  BY <1>1, <4>1, <4>2, CopiesStay
    <3>4. QED  BY <3>2, <3>3
  <2>2. CASE \E n \in DOMAIN entries, k \in Keys : BeginReverse(s, n, k)
    <3>1. PICK n \in DOMAIN entries, k \in Keys : BeginReverse(s, n, k)
      BY <2>2
    <3>2. TypeOK'
      BY <3>1 DEF BeginReverse, Inv, TypeOK, CallOK
    <3>3. CopiesOK' /\ LotsOK'
      <4> DEFINE c == [kind |-> "reverse", original |-> n, key |-> k]
      <4>1. c.kind = "reverse" /\ call' = [call EXCEPT ![s] = c]
        BY <3>1 DEF BeginReverse
      <4> HIDE DEF c
      <4>2. QED  BY <1>1, <4>1, CopiesStay DEF Blind, Enrolling
    <3>4. QED  BY <3>2, <3>3
  <2>3. CASE RollBack(s)
    <3>1. TypeOK'
      BY <2>3 DEF RollBack, End, Inv, TypeOK, CallOK
    <3>2. CopiesOK' /\ LotsOK'
      BY <1>1, <2>3, CopiesStay DEF RollBack, End
    <3>3. QED  BY <3>1, <3>2
  <2>4. CASE BeginExpire(s)
    <3> DEFINE lots == [n \in LotsDue |-> entries[n].lot]
               c    == [kind |-> "expire", lots |-> lots, copy |-> Copy("expire")]
    <3>1. call' = [call EXCEPT ![s] = c] /\ due' = due /\ "expire" \in Calls
      BY <2>4 DEF BeginExpire
    <3>2. /\ DOMAIN lots \subseteq due /\ DOMAIN lots \subseteq DOMAIN entries
          /\ \A n \in DOMAIN lots : lots[n] \in Nat /\ lots[n] = entries[n].delta
      <4>1. \A n \in LotsDue : /\ n \in due /\ n \in DOMAIN entries
                               /\ entries[n].lot > 0 /\ entries[n] \in EntryType
        BY EntriesAre DEF LotsDue, Inv, TypeOK
      <4>2. QED  BY <4>1 DEF EntryType, Inv, LotsOK
    <3>3. Copy("expire") = balance
      BY DEF Copy, Preloading
    <3> HIDE DEF lots
    <3>4. /\ c.kind = "expire" /\ c.lots = lots /\ c.copy = balance
          /\ c = [kind |-> "expire", lots |-> c.lots, copy |-> c.copy]
      BY <3>3
    <3> HIDE DEF c
    <3>5. TypeOK'
      <4>1. CallOK(call[s])'
        <5>1. call'[s] = c
          BY <3>1 DEF Inv, TypeOK
        <5>2. c.copy \in Nat
          BY <3>4 DEF Inv, TypeOK
        <5>3. QED  BY <1>1, <3>1, <3>2, <3>4, <5>1, <5>2 DEF CallOK
      <4>2. ASSUME NEW t \in Sessions PROVE CallOK(call[t])'
        <5>1. CASE t = s
          BY <4>1, <5>1
        <5>2. CASE t # s
          <6>1. call'[t] = call[t] /\ CallOK(call[t])
            BY <3>1, <5>2 DEF Inv, TypeOK
          <6>2. QED  BY <1>1, <3>1, <6>1 DEF CallOK
        <5>3. QED  BY <5>1, <5>2
      <4>3. QED  BY <1>1, <3>1, <4>2 DEF Inv, TypeOK
    <3>6. CopiesOK' /\ LotsOK'
      BY <1>1, <3>1, <3>2, <3>4, CopiesStay
    <3>7. QED  BY <3>5, <3>6
  <2>5. QED  BY <2>1, <2>2, <2>3, <2>4
<1>4. QED  BY <1>2, <1>3 DEF Inv

LEMMA FallDueKeepsInv ==
  ASSUME Inv, NEW n \in DOMAIN entries, FallDue(n)
  PROVE  Inv' /\ UNCHANGED <<balance, Postings>>
<1>1. UNCHANGED <<balance, entries, call>> /\ due' = due \union {n}
  BY DEF FallDue
<1>2. ChainOK' /\ UNCHANGED <<balance, Postings>>
  BY <1>1, ChainStays DEF Inv
<1>3. TypeOK'
  BY <1>1 DEF Inv, TypeOK, CallOK
<1>4. CopiesOK' /\ LotsOK'
  BY <1>1, <1>2 DEF Inv, CopiesOK, LotsOK, Ledger!After
<1>5. QED  BY <1>2, <1>3, <1>4 DEF Inv

-----------------------------------------------------------------------------
(* What the lots of the entries and of the sweeps keep when entries are    *)
(* added: none of them earned less than it did.                            *)
LEMMA LotsStay ==
  ASSUME Inv, NEW s \in Sessions, NEW p, NEW m, Extends(s, p, m),
         \A n \in 1 .. Len(entries) : entries'[n].lot \in {0, entries[n].lot},
         \A i \in 1 .. Len(p) :
           /\ p[i].lot \in {0, p[i].delta}
           /\ p[i].type = "expire" =>
                \E k \in 1 .. Len(entries) :
                  p[i].key = ExpiryKey(k) /\ -p[i].delta <= entries[k].delta
  PROVE  LotsOK'
<1> DEFINE L == Len(entries)
           K == Len(p)
<1>1. L \in Nat /\ DOMAIN entries = 1 .. L /\ DOMAIN entries' = 1 .. L + K
  BY EntriesAre DEF Inv, Extends
<1>2. K \in Nat
  BY LenProperties DEF Extends, Chained
<1>3. \A n \in 1 .. L : /\ entries'[n].type = entries[n].type
                        /\ entries'[n].key = entries[n].key
                        /\ entries'[n].delta = entries[n].delta
  BY DEF Extends, Same
<1>4. \A i \in 1 .. K : entries'[L + i] = p[i]
  BY DEF Extends
<1>5. \A n \in 1 .. L + K : n \in 1 .. L \/ \E i \in 1 .. K : n = L + i
  BY <1>1, <1>2, Beyond
<1>6. ASSUME NEW n \in 1 .. L + K  PROVE entries'[n].lot \in {0, entries'[n].delta}
  <2>1. CASE n \in 1 .. L
    BY <1>1, <1>3, <2>1 DEF Inv, LotsOK
  <2>2. CASE n \notin 1 .. L
    BY <1>4, <1>5, <2>2
  <2>3. QED  BY <2>1, <2>2
<1>7. ASSUME NEW t \in Sessions, call'[t] # NoCall, call'[t].kind = "expire",
             NEW n \in DOMAIN call'[t].lots
      PROVE  call'[t].lots[n] = entries'[n].delta
  <2>1. call'[t] = call[t] /\ t # s
    BY <1>7 DEF Extends, Inv, TypeOK
  <2>2. n \in 1 .. L
    BY <1>1, <1>7, <2>1, CallIs
  <2>3. QED  BY <1>3, <1>7, <2>1, <2>2 DEF Inv, LotsOK
<1>8. ASSUME NEW n \in 1 .. L + K, entries'[n].type = "expire"
      PROVE  \E k \in 1 .. n - 1 :
               entries'[n].key = ExpiryKey(k) /\ -entries'[n].delta <= entries'[k].delta
  <2>1. CASE n \in 1 .. L
    <3>1. PICK k \in 1 .. n - 1 :
             entries[n].key = ExpiryKey(k) /\ -entries[n].delta <= entries[k].delta
      BY <1>1, <1>3, <1>8, <2>1 DEF Inv, LotsOK
    <3>2. k \in 1 .. L
      BY <1>1, <2>1
    <3>3. QED  BY <1>3, <2>1, <3>1, <3>2
  <2>2. CASE n \notin 1 .. L
    <3>1. PICK i \in 1 .. K : n = L + i
      BY <1>5, <2>2
    <3>2. PICK k \in 1 .. L : p[i].key = ExpiryKey(k) /\ -p[i].delta <= entries[k].delta
      BY <1>4, <1>8, <3>1
    <3>3. k \in 1 .. n - 1
      BY <1>1, <1>2, <3>1
    <3>4. QED  BY <1>3, <1>4, <3>1, <3>2, <3>3
  <2>3. QED  BY <2>1, <2>2
<1>9. QED  BY <1>1, <1>6, <1>7, <1>8 DEF LotsOK

LEMMA OneIsChained ==
  ASSUME Inv, NEW e \in EntryType, NEW m \in 0 .. Len(entries), Fresh(e.key),
         e.after = Ledger!After(Postings, m) + e.delta,
         e.type \notin Blind => m = Len(entries)
  PROVE  Chained(<<e>>, m) /\ Len(<<e>>) = 1 /\ <<e>>[1] = e
<1>1. <<e>> \in Seq(EntryType) /\ Len(<<e>>) = 1 /\ <<e>>[1] = e /\ <<e>> # <<>>
  OBVIOUS
<1>2. \A i \in 1 .. 1 : i = 1
  OBVIOUS
<1>3. QED  BY <1>1, <1>2 DEF Chained

(* The calls that are left are those of before, and what they point to is  *)
(* still there.                                                            *)
LEMMA CallsStay ==
  ASSUME Inv, NEW s \in Sessions, NEW p, NEW m, Extends(s, p, m), due' = due
  PROVE  /\ DOMAIN call' = Sessions /\ \A t \in Sessions : CallOK(call[t])'
         /\ due' \subseteq DOMAIN entries'
<1>1. DOMAIN entries \subseteq DOMAIN entries'
  <2>1. Len(entries) \in Nat /\ DOMAIN entries = 1 .. Len(entries)
    BY EntriesAre DEF Inv
  <2>2. Len(p) \in Nat
    BY LenProperties DEF Extends, Chained
  <2>3. QED  BY <2>1, <2>2 DEF Extends
<1>2. ASSUME NEW t \in Sessions PROVE CallOK(call[t])'
  <2>1. call'[t] = NoCall \/ call'[t] = call[t]
    BY DEF Extends, Inv, TypeOK
  <2>2. CallOK(call[t])
    BY DEF Inv, TypeOK
  <2>3. QED  BY <1>1, <2>1, <2>2 DEF CallOK
<1>3. QED  BY <1>1, <1>2 DEF Extends, Inv, TypeOK

LEMMA PostExtends ==
  ASSUME Inv, NEW s \in Sessions, NEW expires \in Expiries, Post(s, expires)
  PROVE  TypeOK' /\ LotsOK' /\ \E p, m : Extends(s, p, m)
<1> DEFINE c     == call[s]
           delta == IF c.kind \in Debits THEN -c.points ELSE c.points
           lot   == IF expires THEN c.points ELSE 0
           e     == Entry(c.kind, c.key, delta, Seen(s) + delta, lot, 0)
<1>1. /\ c.kind \notin {"reverse", "expire"} /\ c # NoCall
      /\ c.kind \in Debits => ~expires
  BY DEF Post, Debits
<1>2. c.points \in Nat /\ c.key \in Keys /\ c.kind \in Calls
  BY <1>1, CallIs, AmountsAssumption
<1>3. delta \in Int /\ lot \in Nat /\ lot \in {0, delta} /\ Seen(s) \in Nat
  BY <1>1, <1>2, SeesABalance
<1>4. /\ Seen(s) + delta >= 0 /\ balance' = Seen(s) + delta
      /\ Fresh(c.key) /\ entries' = Append(entries, e)
      /\ call' = [call EXCEPT ![s] = NoCall] /\ due' = due
  BY DEF Post, End
<1>5. /\ e \in EntryType /\ e.type = c.kind /\ e.key = c.key
      /\ e.delta = delta /\ e.after = Seen(s) + delta /\ e.lot = lot
  <2>1. Seen(s) + delta \in Nat
    BY <1>3, <1>4
  <2> HIDE DEF delta, lot
  <2>2. QED  BY <1>1, <1>2, <1>3, <2>1 DEF EntryType, Entry
<1>6. PICK m \in 0 .. Len(entries) :
             /\ Seen(s) = Ledger!After(Postings, m)
             /\ c.kind \notin Blind => m = Len(entries)
  BY <1>1, SeesABalance
<1> HIDE DEF c, delta, lot, e
<1>7. /\ entries' \in Seq(EntryType) /\ Len(entries') = Len(entries) + 1
      /\ \A n \in 1 .. Len(entries) : entries'[n] = entries[n]
      /\ entries'[Len(entries) + 1] = e
      /\ DOMAIN entries' = 1 .. Len(entries) + 1
      /\ DOMAIN entries = 1 .. Len(entries) /\ Len(entries) \in Nat
  BY <1>4, <1>5, AppendProperties, LenProperties DEF Inv, TypeOK
<1>8. Chained(<<e>>, m) /\ Len(<<e>>) = 1 /\ <<e>>[1] = e
  BY <1>3, <1>4, <1>5, <1>6, OneIsChained
<1>9. Extends(s, <<e>>, m)
  BY <1>4, <1>5, <1>7, <1>8 DEF Extends, Same
<1>10. LotsOK'
  <2>1. \A n \in 1 .. Len(entries) : entries'[n].lot \in {0, entries[n].lot}
    BY <1>7
  <2>2. e.lot \in {0, e.delta} /\ e.type # "expire"
    BY <1>1, <1>3, <1>5 DEF c
  <2>3. QED  BY <1>8, <1>9, <2>1, <2>2, LotsStay
<1>11. TypeOK'
  <2>1. balance' \in Nat
    BY <1>3, <1>4
  <2>2. QED  BY <1>4, <1>7, <1>9, <2>1, CallsStay DEF TypeOK
<1>12. QED  BY <1>9, <1>10, <1>11

LEMMA MarkedEntry ==
  ASSUME NEW old \in EntryType, NEW e, e = [old EXCEPT !.reversed = TRUE]
  PROVE  e \in EntryType /\ Same(e, old) /\ e.lot = old.lot
BY DEF EntryType, Same

LEMMA ReverseExtends ==
  ASSUME Inv, NEW s \in Sessions, ReverseEntry(s)
  PROVE  TypeOK' /\ LotsOK' /\ \E p, m : Extends(s, p, m)
<1> DEFINE c     == call[s]
           delta == -entries[c.original].delta
           e     == Entry(c.kind, c.key, delta, Seen(s) + delta, 0, c.original)
           marked == [entries EXCEPT ![c.original].reversed = TRUE]
<1>1. c.kind = "reverse" /\ c # NoCall
  BY DEF ReverseEntry
<1>2. /\ DOMAIN entries = 1 .. Len(entries) /\ Len(entries) \in Nat
      /\ entries \in Seq(EntryType)
      /\ \A n \in 1 .. Len(entries) : entries[n] \in EntryType
  BY EntriesAre DEF Inv, TypeOK
<1>3. c.original \in 1 .. Len(entries) /\ c.key \in Keys /\ "reverse" \in Calls
  BY <1>1, <1>2, CallIs
<1>4. delta \in Int /\ Seen(s) \in Nat
  <2>1. entries[c.original].delta \in Int
    BY <1>2, <1>3 DEF EntryType
  <2>2. Seen(s) \in Nat
    BY <1>1, SeesABalance
  <2>3. QED  BY <2>1, <2>2
<1>5. /\ Seen(s) + delta >= 0 /\ balance' = Seen(s) + delta
      /\ Fresh(c.key) /\ entries' = Append(marked, e)
      /\ call' = [call EXCEPT ![s] = NoCall] /\ due' = due
  BY DEF ReverseEntry, End
<1>6. e \in EntryType /\ e.type = "reverse" /\ e.key = c.key
      /\ e.delta = delta /\ e.after = Seen(s) + delta /\ e.lot = 0
  <2>1. e = [type |-> "reverse", key |-> c.key, delta |-> delta,
             after |-> Seen(s) + delta, lot |-> 0, of |-> c.original,
             reversed |-> FALSE]
    BY <1>1 DEF Entry
  <2>2. Seen(s) + delta \in Nat /\ c.original \in Nat
    BY <1>2, <1>3, <1>4, <1>5
  <2> HIDE DEF delta, e
  <2>3. QED  BY <1>3, <1>4, <2>1, <2>2 DEF EntryType
<1>7. /\ marked \in Seq(EntryType) /\ Len(marked) = Len(entries)
      /\ \A n \in 1 .. Len(entries) :
           Same(marked[n], entries[n]) /\ marked[n].lot = entries[n].lot
  <2>1. ASSUME NEW n \in 1 .. Len(entries)
        PROVE  /\ marked[n] \in EntryType
               /\ Same(marked[n], entries[n]) /\ marked[n].lot = entries[n].lot
    <3>1. CASE n = c.original
      <4>1. marked[n] = [entries[n] EXCEPT !.reversed = TRUE]
        BY <1>2, <1>3, <3>1
      <4>2. QED  BY <1>2, <4>1, MarkedEntry
    <3>2. CASE n # c.original
      <4>1. marked[n] = entries[n]
        BY <1>2, <3>2
      <4>2. QED  BY <1>2, <4>1 DEF Same
    <3>3. QED  BY <3>1, <3>2
  <2>2. marked = [n \in 1 .. Len(entries) |-> marked[n]]
    BY <1>2
  <2>3. QED
    <3> HIDE DEF marked
    <3>1. marked \in [1 .. Len(entries) -> EntryType]
      BY <2>1, <2>2
    <3>2. QED  BY <1>2, <2>1, <3>1, FunctionIsSeq
<1>8. PICK m \in 0 .. Len(entries) :
             /\ Seen(s) = Ledger!After(Postings, m)
             /\ c.kind \notin Blind => m = Len(entries)
  BY <1>1, SeesABalance
<1>9. m = Len(entries)
  BY <1>1, <1>8 DEF Blind, Enrolling
<1> HIDE DEF marked, e, delta, c
<1>10. /\ entries' \in Seq(EntryType) /\ Len(entries') = Len(entries) + 1
      /\ \A n \in 1 .. Len(entries) : entries'[n] = marked[n]
      /\ entries'[Len(entries) + 1] = e
      /\ DOMAIN entries' = 1 .. Len(entries) + 1
  BY <1>5, <1>6, <1>7, AppendProperties, LenProperties
<1>11. Chained(<<e>>, m) /\ Len(<<e>>) = 1 /\ <<e>>[1] = e
  BY <1>4, <1>5, <1>6, <1>8, <1>9, OneIsChained
<1>12. Extends(s, <<e>>, m)
  BY <1>5, <1>6, <1>7, <1>10, <1>11 DEF Extends
<1>13. LotsOK'
  <2>1. \A n \in 1 .. Len(entries) : entries'[n].lot \in {0, entries[n].lot}
    BY <1>7, <1>10
  <2>2. QED  BY <1>6, <1>11, <1>12, <2>1, LotsStay
<1>14. TypeOK'
  <2>1. balance' \in Nat
    BY <1>4, <1>5
  <2>2. QED  BY <1>5, <1>10, <1>12, <2>1, CallsStay DEF TypeOK
<1>15. QED  BY <1>12, <1>13, <1>14

(* A sweep appends what it posted of its lots, if any.                     *)
LEMMA SweepExtends ==
  ASSUME Inv, NEW s \in Sessions, Sweep(s)
  PROVE  /\ TypeOK' /\ LotsOK'
         /\ \/ \E p, m : Extends(s, p, m)
            \/ /\ UNCHANGED <<balance, Postings>> /\ Len(entries') = Len(entries)
               /\ call' = [call EXCEPT ![s] = NoCall]
<1> DEFINE c == call[s]
           L == Len(entries)
           emptied == [n \in DOMAIN entries |->
                         IF n \in DOMAIN c.lots
                         THEN [entries[n] EXCEPT !.lot = 0] ELSE entries[n]]
<1>1. /\ c # NoCall /\ c.kind = "expire"
      /\ call' = [call EXCEPT ![s] = NoCall] /\ due' = due
  BY DEF Sweep, End
<1>2. PICK order \in SetToSeqs(DOMAIN c.lots) :
        /\ \A n \in DOMAIN Swept(s, order).posted : Fresh(Swept(s, order).posted[n].key)
        /\ balance' = IF Swept(s, order).posted = <<>> THEN balance
                      ELSE Swept(s, order).left
        /\ entries' = emptied \o Swept(s, order).posted
  BY DEF Sweep
<1>3. /\ DOMAIN entries = 1 .. L /\ L \in Nat /\ entries \in Seq(EntryType)
      /\ \A n \in 1 .. L : entries[n] \in EntryType
  BY EntriesAre DEF Inv, TypeOK
<1>4. /\ "expire" \in Calls /\ DOMAIN c.lots \subseteq 1 .. L
      /\ \A n \in DOMAIN c.lots : c.lots[n] \in Nat /\ c.lots[n] = entries[n].delta
  BY <1>1, <1>3, CallIs DEF Inv, LotsOK
<1>5. OrderOK(s, order) /\ \A j \in 1 .. Len(order) : order[j] \in DOMAIN c.lots
  <2> DEFINE D == DOMAIN c.lots
             N == Cardinality(D)
  <2>1. N \in Nat
    <3>1. IsFiniteSet(1 .. L)
      BY <1>3, FS_Interval
    <3>2. QED  BY <1>4, <3>1, FS_Subset, FS_CardinalityType
  <2>2. order \in [1 .. N -> D] /\ \A i, j \in 1 .. N : i # j => order[i] # order[j]
    BY DEF SetToSeqs
  <2> HIDE DEF D, N
  <2>3. Len(order) = N
    BY <2>1, <2>2, FunctionIsSeq
  <2>4. \A j \in 1 .. Len(order) : order[j] \in D
    BY <2>2, <2>3
  <2>5. \A j \in 1 .. Len(order) : order[j] \in Nat /\ c.lots[order[j]] \in Nat
    BY <1>3, <1>4, <2>4 DEF D
  <2>6. \A i, j \in 1 .. Len(order) : order[i] = order[j] => i = j
    BY <2>2, <2>3
  <2>7. OrderOK(s, order)
    BY <1>4, <2>1, <2>3, <2>5, <2>6 DEF OrderOK
  <2>8. QED  BY <2>4, <2>7 DEF D
<1> DEFINE w == Swept(s, order)
           p == w.posted
<1>6. SweptOK(w, s, order, Len(order)) /\ Seen(s) \in Nat
  BY <1>1, <1>5, SweepIs, SeesABalance
<1> HIDE DEF w
<1>7. p \in Seq(EntryType) /\ Len(p) \in Nat /\ DOMAIN p = 1 .. Len(p)
  BY <1>6, LenProperties DEF SweptOK
<1>8. /\ emptied \in Seq(EntryType) /\ Len(emptied) = L
      /\ \A n \in 1 .. L : Same(emptied[n], entries[n])
                           /\ emptied[n].lot \in {0, entries[n].lot}
  <2>1. emptied \in [1 .. L -> EntryType]
    BY <1>3 DEF EntryType
  <2>2. \A n \in 1 .. L : Same(emptied[n], entries[n])
                          /\ emptied[n].lot \in {0, entries[n].lot}
    BY <1>3 DEF EntryType, Same
  <2>3. QED
    <3> HIDE DEF emptied
    <3>1. QED  BY <1>3, <2>1, <2>2, FunctionIsSeq
<1>9. entries' = emptied \o p
  BY <1>2 DEF w
<1>10. /\ \A n \in 1 .. Len(p) : Fresh(p[n].key)
       /\ balance' = IF p = <<>> THEN balance ELSE w.left
  BY <1>2, <1>7 DEF w
<1> HIDE DEF emptied, p, c
<1>11. /\ entries' \in Seq(EntryType) /\ Len(entries') = L + Len(p)
       /\ DOMAIN entries' = 1 .. L + Len(p)
       /\ \A n \in 1 .. L : entries'[n] = emptied[n]
       /\ \A i \in 1 .. Len(p) : entries'[L + i] = p[i]
  <2>1. /\ entries' \in Seq(EntryType) /\ Len(entries') = L + Len(p)
        /\ \A n \in 1 .. L + Len(p) :
             entries'[n] = IF n <= L THEN emptied[n] ELSE p[n - L]
    <3>1. emptied \in Seq(EntryType) /\ p \in Seq(EntryType) /\ Len(emptied) = L
      BY <1>7, <1>8
    <3>2. /\ emptied \o p \in Seq(EntryType)
          /\ Len(emptied \o p) = Len(emptied) + Len(p)
          /\ \A n \in 1 .. Len(emptied) + Len(p) :
               (emptied \o p)[n] = IF n <= Len(emptied) THEN emptied[n]
                                   ELSE p[n - Len(emptied)]
      BY <3>1, ConcatProperties
    <3>3. QED  BY <1>9, <3>1, <3>2
  <2>2. DOMAIN entries' = 1 .. L + Len(p)
    BY <2>1, LenProperties
  <2>3. ASSUME NEW i \in 1 .. Len(p)  PROVE entries'[L + i] = p[i]
    <3>1. L + i \in 1 .. L + Len(p) /\ ~(L + i <= L) /\ (L + i) - L = i
      BY <1>3, <1>7
    <3>2. QED  BY <2>1, <3>1
  <2>4. ASSUME NEW n \in 1 .. L  PROVE entries'[n] = emptied[n]
    <3>1. n \in 1 .. L + Len(p) /\ n <= L
      BY <1>3, <1>7
    <3>2. QED  BY <2>1, <3>1
  <2>5. QED  BY <2>1, <2>2, <2>3, <2>4
<1>12. balance' \in Nat
  BY <1>6, <1>10 DEF SweptOK, Inv, TypeOK
<1>13. CASE p = <<>>
  <2>1. /\ Len(p) = 0 /\ DOMAIN entries' = DOMAIN entries /\ Len(entries') = L
    BY <1>3, <1>11, <1>13, EmptySeq
  <2>2. \A n \in 1 .. L : Same(entries'[n], entries[n]) /\ entries'[n].lot \in {0, entries[n].lot}
    BY <1>8, <1>11
  <2>3. Postings' = Postings
    <3>1. \A n \in 1 .. L :
             [key |-> entries'[n].key, delta |-> entries'[n].delta,
              after |-> entries'[n].after, blind |-> entries'[n].type \in Blind]
             = [key |-> entries[n].key, delta |-> entries[n].delta,
                after |-> entries[n].after, blind |-> entries[n].type \in Blind]
      BY <2>2 DEF Same
    <3>2. QED  BY <1>3, <2>1, <3>1 DEF Postings
  <2>4. TypeOK'
    <3>1. ASSUME NEW t \in Sessions PROVE CallOK(call[t])'
      <4>1. call'[t] = NoCall \/ call'[t] = call[t]
        BY <1>1 DEF Inv, TypeOK
      <4>2. CallOK(call[t])
        BY DEF Inv, TypeOK
      <4>3. QED  BY <1>1, <2>1, <4>1, <4>2 DEF CallOK
    <3>2. DOMAIN call' = Sessions /\ due' \subseteq DOMAIN entries'
      BY <1>1, <2>1 DEF Inv, TypeOK
    <3>3. QED  BY <1>11, <1>12, <3>1, <3>2 DEF TypeOK
  <2>5. LotsOK'
    <3>1. ASSUME NEW t \in Sessions, call'[t] # NoCall, call'[t].kind = "expire",
                 NEW n \in DOMAIN call'[t].lots
          PROVE  call'[t].lots[n] = entries'[n].delta
      <4>1. call'[t] = call[t]
        BY <1>1, <3>1 DEF Inv, TypeOK
      <4>2. n \in 1 .. L
        BY <1>3, <3>1, <4>1, CallIs
      <4>3. QED  BY <2>2, <3>1, <4>1, <4>2 DEF Inv, LotsOK, Same
    <3>2. ASSUME NEW n \in 1 .. L, entries'[n].type = "expire"
          PROVE  \E m \in 1 .. n - 1 : entries'[n].key = ExpiryKey(m)
                                       /\ -entries'[n].delta <= entries'[m].delta
      <4>1. PICK m \in 1 .. n - 1 : entries[n].key = ExpiryKey(m)
                                    /\ -entries[n].delta <= entries[m].delta
        BY <1>3, <2>2, <3>2 DEF Inv, LotsOK, Same
      <4>2. m \in 1 .. L
        BY <1>3
      <4>3. QED  BY <2>2, <4>1, <4>2 DEF Same
    <3>3. \A n \in 1 .. L : entries'[n].lot \in {0, entries'[n].delta}
      BY <1>3, <2>2 DEF Inv, LotsOK, Same
    <3>4. QED  BY <1>3, <2>1, <3>1, <3>2, <3>3 DEF LotsOK
  <2>6. balance' = balance
    BY <1>10, <1>13
  <2>7. QED  BY <1>1, <2>1, <2>3, <2>4, <2>5, <2>6
<1>14. CASE p # <<>>
  <2>1. PICK m \in 0 .. L : Seen(s) = Ledger!After(Postings, m)
    BY <1>1, SeesABalance DEF c
  <2>2. Chained(p, m)
    <3>1. 1 \in 1 .. Len(p)
      BY <1>7, <1>14, EmptySeq
    <3>2. p[1].type \in Blind
      BY <1>6, <3>1 DEF SweptOK, Blind, p
    <3>3. QED  BY <1>6, <1>7, <1>10, <1>14, <2>1, <3>2 DEF SweptOK, Chained, p
  <2>3. balance' = p[Len(p)].after
    BY <1>6, <1>10, <1>14 DEF SweptOK, p
  <2>4. Extends(s, p, m)
    BY <1>1, <1>8, <1>11, <2>2, <2>3 DEF Extends
  <2>5. LotsOK'
    <3>1. ASSUME NEW i \in 1 .. Len(p)
          PROVE  /\ p[i].lot = 0
                 /\ \E k \in 1 .. L :
                      p[i].key = ExpiryKey(k) /\ -p[i].delta <= entries[k].delta
      <4>1. PICK j \in 1 .. Len(order) : p[i].key = ExpiryKey(order[j])
                                         /\ -p[i].delta <= c.lots[order[j]]
        BY <1>6 DEF SweptOK, p, c
      <4>2. order[j] \in DOMAIN c.lots
        BY <1>5 DEF c
      <4>3. order[j] \in 1 .. L /\ c.lots[order[j]] = entries[order[j]].delta
        BY <1>4, <4>2 DEF c
      <4>4. QED  BY <1>6, <4>1, <4>3 DEF SweptOK, p
    <3>2. \A n \in 1 .. L : entries'[n].lot \in {0, entries[n].lot}
      BY <1>8, <1>11
    <3>3. QED  BY <2>4, <3>1, <3>2, LotsStay
  <2>6. TypeOK'
    BY <1>1, <1>11, <1>12, <2>4, CallsStay DEF TypeOK
  <2>7. QED  BY <2>4, <2>5, <2>6
<1>15. QED  BY <1>13, <1>14

(* Every step is a posting of Account, or leaves the ledger alone.         *)
LEMMA NextPosts ==
  ASSUME Inv, [Next]_vars
  PROVE  Inv' /\ (Ledger!Post \/ UNCHANGED <<balance, Postings>>)
<1>1. ASSUME NEW s \in Sessions,
             \/ \E kind \in Calls, amount \in Amounts, k \in Keys :
                  BeginPost(s, kind, amount, k)
             \/ \E n \in DOMAIN entries, k \in Keys : BeginReverse(s, n, k)
             \/ BeginExpire(s) \/ RollBack(s)
      PROVE  Inv' /\ UNCHANGED <<balance, Postings>>
  BY <1>1, ReadsKeepInv
<1>2. ASSUME NEW n \in DOMAIN entries, FallDue(n)
      PROVE  Inv' /\ UNCHANGED <<balance, Postings>>
  BY <1>2, FallDueKeepsInv
<1>3. ASSUME NEW s \in Sessions,
             (\E expires \in Expiries : Post(s, expires)) \/ ReverseEntry(s)
      PROVE  Inv' /\ Ledger!Post
  BY <1>3, PostExtends, ReverseExtends, ExtendsPosts DEF Inv
<1>4. ASSUME NEW s \in Sessions, Sweep(s)
      PROVE  Inv' /\ (Ledger!Post \/ UNCHANGED <<balance, Postings>>)
  <2>1. CASE \E p, m : Extends(s, p, m)
    BY <1>4, <2>1, SweepExtends, ExtendsPosts DEF Inv
  <2>2. CASE /\ UNCHANGED <<balance, Postings>> /\ Len(entries') = Len(entries)
             /\ call' = [call EXCEPT ![s] = NoCall]
    <3>1. \A n : Ledger!After(Postings', n) = Ledger!After(Postings, n)
      BY <2>2 DEF Ledger!After
    <3>2. ChainOK'
      BY <2>2, <3>1 DEF Inv, ChainOK, Ledger!KeysAreFresh, Ledger!Reconciles,
                        Ledger!BuildsOn
    <3>3. CopiesOK'
      <4>1. ASSUME NEW t \in Sessions, call'[t] # NoCall, call'[t].kind \in Blind
            PROVE  call'[t] = call[t]
        BY <2>2, <4>1 DEF Inv, TypeOK
      <4>2. QED  BY <2>2, <3>1, <4>1 DEF Inv, CopiesOK
    <3>4. QED  BY <1>4, <2>2, <3>2, <3>3, SweepExtends DEF Inv
  <2>3. QED  BY <1>4, <2>1, <2>2, SweepExtends
<1>5. CASE UNCHANGED vars
  <2>1. ChainOK' /\ UNCHANGED <<balance, Postings>>
    BY <1>5, ChainStays DEF Inv, vars
  <2>2. TypeOK'
    BY <1>5 DEF Inv, TypeOK, CallOK, vars
  <2>3. CopiesOK' /\ LotsOK'
    BY <1>5, <2>1 DEF Inv, CopiesOK, LotsOK, Ledger!After, vars
  <2>4. QED  BY <2>1, <2>2, <2>3 DEF Inv
<1>6. QED  BY <1>1, <1>2, <1>3, <1>4, <1>5 DEF Next

LEMMA LedgerKeepsInv == Spec => []Inv
  BY InitInv, NextPosts, PTL DEF Spec

(* However requests, reversals and expiry sweeps overlap, the balance is   *)
(* never negative and all copies stay in range (app/loyalty/ledger.py).    *)
THEOREM TypeCorrect == Spec => []TypeOK
<1>1. Inv => TypeOK
  BY DEF Inv
<1>2. QED  BY <1>1, LedgerKeepsInv, PTL

(* Ledger and balance reconcile (app/loyalty/ledger.py): requests and      *)
(* reversals act one at a time, and what an order or a sweep posts builds  *)
(* on a balance the account was at.                                        *)
THEOREM PostingsSerialize == Spec => Serializes
<1>1. Inv /\ [Next]_vars =>
        Inv' /\ [Ledger!Post]_<<balance, Postings>>
  BY NextPosts
<1>2. Init => Ledger!Init
  BY DEF Init, Ledger!Init, Postings
<1>3. QED
  BY <1>1, <1>2, InitInv, PTL DEF Spec, Serializes, Ledger!Spec

(* However many sweeps overlap (app/loyalty/expiry.py), a lot expires once *)
(* and for no more than its entry earned.                                  *)
THEOREM LotsExpireOnce == Spec => []LotExpiresOnce
<1>1. ASSUME Inv  PROVE LotExpiresOnce
  <2> SUFFICES ASSUME NEW m \in DOMAIN entries, NEW n \in DOMAIN entries,
                      entries[n].type = "expire", entries[n].key = ExpiryKey(m)
               PROVE  /\ -entries[n].delta <= entries[m].delta
                      /\ \A k \in DOMAIN entries : entries[k].key = ExpiryKey(m) => k = n
    BY DEF LotExpiresOnce
  <2>1. PICK i \in 1 .. n - 1 :
          entries[n].key = ExpiryKey(i) /\ -entries[n].delta <= entries[i].delta
    BY <1>1 DEF Inv, LotsOK
  <2>2. i = m
    BY <2>1 DEF ExpiryKey
  <2>3. \A k \in DOMAIN entries : Postings[k].key = entries[k].key /\ k \in DOMAIN Postings
    BY DEF Postings
  <2>4. QED  BY <1>1, <2>1, <2>2, <2>3 DEF Inv, ChainOK, Ledger!KeysAreFresh
<1>2. QED  BY <1>1, LedgerKeepsInv, PTL

-----------------------------------------------------------------------------
(***************************************************************************)
(* ServiceRecovery, whose credits are entries of a points ledger.          *)
(***************************************************************************)
Reviews == {"approve", "reject", "execute", "reverse"}

(* What a request knows: of an action, of a payment it writes for one, of  *)
(* a payment staff write.                                                  *)
ReadWork(w) ==
  w \in [op : Reviews, stage : {"read"}, a : Actions, seen : Accepts(w.op),
         ref : {"none", "entry", "payment", "manual"}]

PickedRefund(w) ==
  /\ {"op", "stage", "a", "seen", "p", "was", "to", "order"} \subseteq DOMAIN w
  /\ w.op = "execute" /\ w.a \in Actions /\ Kind[w.a] = "refund"
  /\ w.seen \in Accepts("execute")
  /\ w.p \in Payments /\ w.was = "paid" /\ w.to = "refunded"

PickedByStaff(w) ==
  /\ {"op", "stage", "p", "was", "to", "order"} \subseteq DOMAIN w
  /\ w.op = "staff" /\ w.p \in Payments

ComputedWork(w) == w.new = Recomputed([w.others EXCEPT ![w.p] = w.to])

WorkIs(w) ==
  \/ w = NoWork
  \/ ReadWork(w)
  \/ w.stage = "picked" /\ (PickedRefund(w) \/ PickedByStaff(w))
  \/ w.stage = "computed" /\ ComputedWork(w) /\ (PickedRefund(w) \/ PickedByStaff(w))

RowsOK ==
  /\ status = [a \in Actions |-> status[a]]
  /\ reference = [a \in Actions |-> reference[a]]
  /\ \A a \in Actions : reference[a] \in {"none", "entry", "payment", "manual"}
  /\ payment = [p \in Payments |-> payment[p]]
  /\ work = [s \in RecoverySessions |-> work[s]]
  /\ \A s \in RecoverySessions : WorkIs(work[s])

(* The action a request may write.                                         *)
About(w, a) == w.op \in Reviews /\ w.a = a

(* Nothing was given for an action.                                        *)
Ungiven(a) ==
  ~Credited(a) /\ <<a, "reverse">> \notin posted /\ RefundedBy(a) = {}

(* An action that waits for its approval has given nothing, and nobody is  *)
(* about to make it give.                                                  *)
ApprovalOK ==
  /\ ruled \subseteq Actions
  /\ \A a \in Actions :
       /\ \A s \in RecoverySessions : About(work[s], a) => status[a] # "none"
       /\ status[a] = "none" => Ungiven(a)
  /\ \A a \in ruled \ approved :
       /\ status[a] \in {"approval_required", "rejected"} /\ Ungiven(a)
       /\ \A s \in RecoverySessions :
            About(work[s], a) => work[s].op \in {"approve", "reject"}

(* What an action has given goes with its status, if no status of it was   *)
(* written on an outdated reading.                                         *)
Gives(a) ==
  /\ Kind[a] = "credit" =>
       /\ status[a] = "completed" =>
            Credited(a) /\ <<a, "reverse">> \notin posted /\ reference[a] = "entry"
       /\ status[a] = "reversed" => Credited(a) /\ <<a, "reverse">> \in posted
       /\ status[a] \notin {"completed", "reversed"} =>
            ~Credited(a) /\ <<a, "reverse">> \notin posted
  /\ RefundedBy(a) # {} => status[a] \in {"completed", "reversed"}
  /\ \A p, q \in RefundedBy(a) : p = q

(* A reversal has then seen the entry it is to take back.                  *)
SeesEntry(a) ==
  Kind[a] = "credit" =>
    \A s \in RecoverySessions : work[s].op = "reverse" /\ work[s].a = a => work[s].ref = "entry"

GivenOK == \A a \in Actions \ raced : Gives(a) /\ SeesEntry(a)

(* A payment that was refunded stays refunded, unless it was contested.    *)
RefundedOK ==
  \A p \in Payments \ contested :
    \A a, b \in Actions :
      <<a, p>> \in refunds => payment[p] = "refunded" /\ (<<b, p>> \in refunds => a = b)

RecoveryInv == RowsOK /\ ApprovalOK /\ GivenOK /\ RefundedOK /\ PaymentStatusFollows

LEMMA InitRecovers == RecoveryInit => RecoveryInv
<1> SUFFICES ASSUME RecoveryInit  PROVE RecoveryInv
  OBVIOUS
<1>1. RowsOK
  BY RecoveryAssumption DEF RecoveryInit, RowsOK, WorkIs
<1>2. ApprovalOK
  BY DEF RecoveryInit, ApprovalOK, About, Reviews, NoWork, Ungiven,
     Credited, RefundedBy
<1>3. GivenOK /\ RefundedOK
  BY DEF RecoveryInit, GivenOK, Gives, SeesEntry, RefundedOK, RefundedBy,
     Credited, NoWork
<1>4. PaymentStatusFollows
  BY DEF RecoveryInit, PaymentStatusFollows
<1>5. QED  BY <1>1, <1>2, <1>3, <1>4 DEF RecoveryInv

-----------------------------------------------------------------------------
(* A request that begins, goes on or ends, and writes no action.           *)
LEMMA OnlyWork ==
  ASSUME RecoveryInv, NEW s \in RecoverySessions, NEW w, WorkIs(w), work' = [work EXCEPT ![s] = w],
         UNCHANGED <<actionVars, refunds>>, payment' = [p \in Payments |-> payment'[p]],
         \A a \in Actions : About(w, a) =>
           /\ status[a] # "none"
           /\ a \in ruled \ approved => w.op \in {"approve", "reject"}
           /\ w.op = "reverse" /\ a \notin raced /\ Kind[a] = "credit" => w.ref = "entry"
  PROVE  RowsOK' /\ ApprovalOK' /\ GivenOK'
<1> USE DEF RecoveryInv, actionVars
<1>1. /\ work'[s] = w /\ \A t \in RecoverySessions \ {s} : work'[t] = work[t]
      /\ work' = [t \in RecoverySessions |-> work'[t]]
  BY DEF RowsOK
<1>2. RowsOK'
  <2>1. \A t \in RecoverySessions : WorkIs(work'[t])
    BY <1>1 DEF RowsOK
  <2>2. QED  BY <1>1, <2>1 DEF RowsOK, WorkIs, ReadWork, PickedRefund, PickedByStaff,
                ComputedWork
<1>3. ApprovalOK'
  <2>1. ASSUME NEW a \in Actions, NEW t \in RecoverySessions, About(work'[t], a)
        PROVE  /\ status[a] # "none"
               /\ a \in ruled \ approved => work'[t].op \in {"approve", "reject"}
    BY <1>1, <2>1 DEF ApprovalOK
  <2>2. \A a \in Actions, t \in RecoverySessions : About(work[t], a)' => status'[a] # "none"
    BY <2>1 DEF About
  <2>3. ASSUME NEW a \in ruled \ approved, NEW t \in RecoverySessions, About(work[t], a)'
        PROVE  work'[t].op \in {"approve", "reject"}
    <3>1. a \in Actions
      BY DEF ApprovalOK
    <3>2. QED  BY <2>1, <2>3, <3>1 DEF About
  <2>4. QED  BY <2>2, <2>3 DEF ApprovalOK, Ungiven, Credited, RefundedBy
<1>4. GivenOK'
  <2>1. ASSUME NEW a \in Actions \ raced, NEW t \in RecoverySessions,
               Kind[a] = "credit", work'[t].op = "reverse", work'[t].a = a
        PROVE  work'[t].ref = "entry"
    BY <1>1, <2>1 DEF GivenOK, SeesEntry, About, Reviews
  <2>2. ASSUME NEW a \in Actions \ raced  PROVE Gives(a)' /\ SeesEntry(a)'
    <3>1. Gives(a)
      BY DEF GivenOK
    <3>2. QED  BY <2>1, <3>1 DEF Gives, SeesEntry, Credited, RefundedBy
  <2>3. QED  BY <2>2 DEF GivenOK
<1>5. QED  BY <1>2, <1>3, <1>4

LEMMA PaymentsKept ==
  ASSUME RecoveryInv, UNCHANGED paymentVars
  PROVE  RefundedOK' /\ PaymentStatusFollows'
  BY DEF RecoveryInv, paymentVars, RefundedOK, PaymentStatusFollows,
     Recomputed

(* A request that writes a status and ends.                                *)
LEMMA StatusWritten ==
  ASSUME RecoveryInv, NEW s \in RecoverySessions, NEW to, NEW r, NEW a \in Actions,
         About(work[s], a), Record(s, to), to # "none",
         work' = [work EXCEPT ![s] = NoWork],
         ruled' = ruled, approved \subseteq approved',
         reference' = [reference EXCEPT ![a] = r],
         r \in {"none", "entry", "payment", "manual"},
         payment' = [p \in Payments |-> payment'[p]],
         \A b \in Actions \ {a} :
           /\ Credited(b)' = Credited(b)
           /\ RefundedBy(b)' = RefundedBy(b)
           /\ <<b, "reverse">> \in posted' <=> <<b, "reverse">> \in posted,
         a \in ruled \ approved' => to = "rejected" /\ UNCHANGED <<posted, refunds>>,
         a \notin raced /\ work[s].seen = status[a] => Gives(a)'
  PROVE  RowsOK' /\ ApprovalOK' /\ GivenOK'
<1> USE DEF RecoveryInv
<1>1. work[s].a = a
  BY DEF About
<1>2. /\ work'[s] = NoWork /\ \A t \in RecoverySessions \ {s} : work'[t] = work[t]
      /\ work' = [t \in RecoverySessions |-> work'[t]]
      /\ \A b : ~About(NoWork, b)
  BY DEF RowsOK, About, Reviews, NoWork
<1>3. /\ status'[a] = to /\ \A b \in Actions \ {a} : status'[b] = status[b]
      /\ status' = [b \in Actions |-> status'[b]]
      /\ raced' = IF work[s].seen = status[a] THEN raced ELSE raced \union {a}
      /\ reference'[a] = r /\ \A b \in Actions \ {a} : reference'[b] = reference[b]
      /\ reference' = [b \in Actions |-> reference'[b]]
  BY <1>1 DEF RowsOK, Record
<1>4. RowsOK'
  <2>1. \A t \in RecoverySessions : WorkIs(work'[t])
    BY <1>2 DEF RowsOK, WorkIs
  <2>2. \A b \in Actions : reference'[b] \in {"none", "entry", "payment", "manual"}
    BY <1>3 DEF RowsOK
  <2>3. QED
    BY <1>2, <1>3, <2>1, <2>2
    DEF RowsOK, WorkIs, ReadWork, PickedRefund, PickedByStaff, ComputedWork
<1>5. ASSUME NEW b \in Actions \ {a}  PROVE Ungiven(b)' = Ungiven(b)
  BY DEF Ungiven
<1>6. ApprovalOK'
  <2>1. ASSUME NEW b \in Actions, NEW t \in RecoverySessions, About(work[t], b)'
        PROVE  status'[b] # "none" /\ About(work[t], b) /\ work'[t] = work[t]
    <3>1. About(work'[t], b)
      BY <2>1 DEF About
    <3>2. t # s
      BY <1>2, <3>1
    <3>3. QED  BY <1>2, <1>3, <3>1, <3>2 DEF ApprovalOK
  <2>2. ASSUME NEW b \in Actions, status'[b] = "none"  PROVE Ungiven(b)'
    BY <1>3, <1>5, <2>2 DEF ApprovalOK
  <2>3. ASSUME NEW b \in ruled' \ approved'
        PROVE  status'[b] \in {"approval_required", "rejected"} /\ Ungiven(b)'
    <3>1. b \in Actions /\ b \in ruled \ approved /\ Ungiven(b)
      BY DEF ApprovalOK
    <3>2. CASE b = a
      BY <1>3, <3>1, <3>2 DEF Ungiven, Credited, RefundedBy
    <3>3. CASE b # a
      BY <1>3, <1>5, <3>1, <3>3 DEF ApprovalOK
    <3>4. QED  BY <3>2, <3>3
  <2>4. ASSUME NEW b \in ruled' \ approved', NEW t \in RecoverySessions, About(work[t], b)'
        PROVE  work'[t].op \in {"approve", "reject"}
    <3>1. b \in Actions /\ b \in ruled \ approved
      BY DEF ApprovalOK
    <3>2. QED  BY <2>1, <2>4, <3>1 DEF ApprovalOK
  <2>5. ruled' \subseteq Actions
    BY DEF ApprovalOK
  <2>6. QED  BY <2>1, <2>2, <2>3, <2>4, <2>5 DEF ApprovalOK
<1>7. GivenOK'
  <2>1. ASSUME NEW b \in Actions \ raced'  PROVE Gives(b)'
    <3>1. b \notin raced /\ Gives(b)
      BY <1>3 DEF GivenOK
    <3>2. CASE b = a
      BY <1>3, <3>1, <3>2
    <3>3. CASE b # a
      BY <1>3, <3>1, <3>3 DEF Gives
    <3>4. QED  BY <3>2, <3>3
  <2>2. ASSUME NEW b \in Actions \ raced'  PROVE SeesEntry(b)'
    <3>1. b \notin raced /\ SeesEntry(b)
      BY <1>3 DEF GivenOK
    <3>2. QED  BY <1>2, <3>1 DEF SeesEntry, NoWork
  <2>3. QED  BY <2>1, <2>2 DEF GivenOK
<1>8. QED  BY <1>4, <1>6, <1>7

-----------------------------------------------------------------------------
(* What a request about an action can rely on.                             *)
LEMMA Request ==
  ASSUME RecoveryInv, NEW s \in RecoverySessions, work[s].op \in Reviews
  PROVE  /\ WorkIs(work[s]) /\ work[s].a \in Actions /\ About(work[s], work[s].a)
         /\ work[s].seen \in Accepts(work[s].op)
         /\ work[s].op \in {"execute", "reverse"} => work[s].a \notin ruled \ approved
<1>1. WorkIs(work[s])
  BY DEF RecoveryInv, RowsOK
<1>2. work[s].a \in Actions /\ work[s].seen \in Accepts(work[s].op)
  BY <1>1 DEF WorkIs, ReadWork, PickedRefund, PickedByStaff, Reviews, NoWork
<1>3. QED  BY <1>1, <1>2 DEF RecoveryInv, ApprovalOK, About

(* Until it is completed, an action gives nothing.                         *)
LEMMA NotCompleted ==
  ASSUME RecoveryInv, NEW a \in Actions \ raced,
         status[a] \in {"none", "proposed", "approval_required", "approved"}
  PROVE  /\ Kind[a] = "credit" => ~Credited(a) /\ <<a, "reverse">> \notin posted
         /\ RefundedBy(a) = {}
  BY DEF RecoveryInv, GivenOK, Gives

(* A status that is read again is one that accepts the request.            *)
LEMMA AcceptsIs ==
  /\ Accepts("approve") = {"approval_required"}
  /\ Accepts("reject") = {"approval_required"}
  /\ Accepts("execute") = {"proposed", "approved"}
  /\ Accepts("reverse") = {"completed"}
  BY DEF Accepts

LEMMA ReviewKeeps ==
  ASSUME RecoveryInv, NEW s \in RecoverySessions, Approve(s) \/ Reject(s)
  PROVE  RecoveryInv'
<1>0. PICK a \in Actions : a = work[s].a
  BY Request DEF Reviews, Approve, Reject, Reads
<1> DEFINE to == IF work[s].op = "approve" THEN "approved" ELSE "rejected"
<1>1. /\ work[s].op \in {"approve", "reject"} /\ Record(s, to)
      /\ work' = [work EXCEPT ![s] = NoWork]
      /\ approved' = IF work[s].op = "approve" THEN approved \union {a} ELSE approved
      /\ UNCHANGED <<ruled, reference, posted, points, paymentVars>>
  BY <1>0 DEF Approve, Reject, Reads
<1>2. a \in Actions /\ About(work[s], a) /\ work[s].seen = "approval_required"
  BY <1>0, <1>1, Request, AcceptsIs DEF Reviews
<1>3. UNCHANGED <<payment, refunds>>
  BY <1>0, <1>1 DEF paymentVars
<1>4. /\ to # "none" /\ approved \subseteq approved'
      /\ reference' = [reference EXCEPT ![a] = reference[a]]
      /\ reference[a] \in {"none", "entry", "payment", "manual"}
      /\ payment' = [p \in Payments |-> payment'[p]]
  BY <1>0, <1>1, <1>2, <1>3 DEF RecoveryInv, RowsOK
<1>5. \A b \in Actions \ {a} :
        /\ Credited(b)' = Credited(b)
        /\ RefundedBy(b)' = RefundedBy(b)
        /\ <<b, "reverse">> \in posted' <=> <<b, "reverse">> \in posted
  BY <1>0, <1>1, <1>3 DEF Credited, RefundedBy
<1>6. a \in ruled \ approved' => to = "rejected" /\ UNCHANGED <<posted, refunds>>
  BY <1>0, <1>1, <1>3
<1>7. ASSUME a \notin raced, work[s].seen = status[a]  PROVE Gives(a)'
  <2>1. /\ Kind[a] = "credit" => ~Credited(a) /\ <<a, "reverse">> \notin posted
        /\ RefundedBy(a) = {}
    BY <1>0, <1>2, <1>7, NotCompleted
  <2>2. status'[a] \in {"approved", "rejected"}
    BY <1>0, <1>1, <1>2 DEF Record, RecoveryInv, RowsOK
  <2>3. QED  BY <1>0, <1>1, <1>3, <2>1, <2>2 DEF Gives, Credited, RefundedBy
<1>8. RowsOK' /\ ApprovalOK' /\ GivenOK'
  BY <1>0, <1>1, <1>2, <1>4, <1>5, <1>6, <1>7, StatusWritten
<1>9. QED  BY <1>0, <1>1, <1>8, PaymentsKept DEF RecoveryInv

(* What an execution or a reversal has to show of its own action.          *)
LEMMA Executed ==
  ASSUME RecoveryInv, NEW s \in RecoverySessions,
         NEW to \in {"completed", "failed", "reversed"}, NEW r,
         NEW a \in Actions, a = work[s].a,
         work[s].op \in {"execute", "reverse"}, Record(s, to),
         work' = [work EXCEPT ![s] = NoWork], UNCHANGED <<ruled, approved>>,
         reference' = [reference EXCEPT ![a] = r],
         r \in {"none", "entry", "payment", "manual"},
         payment' = [p \in Payments |-> payment'[p]],
         \A b \in Actions \ {a} :
           /\ Credited(b)' = Credited(b)
           /\ RefundedBy(b)' = RefundedBy(b)
           /\ <<b, "reverse">> \in posted' <=> <<b, "reverse">> \in posted,
         a \notin raced /\ work[s].seen = status[a] => Gives(a)'
  PROVE  RowsOK' /\ ApprovalOK' /\ GivenOK'
<1>1. About(work[s], a) /\ a \notin ruled \ approved
  BY Request DEF Reviews
<1>2. QED  BY <1>1, StatusWritten

LEMMA CompleteKeeps ==
  ASSUME RecoveryInv, NEW s \in RecoverySessions, work[s].op = "execute",
         Kind[work[s].a] # "credit",
         Complete(s)
  PROVE  RecoveryInv'
<1>0. PICK a \in Actions : a = work[s].a
  BY Request DEF Reviews
<1>1. /\ Record(s, "completed") /\ work' = [work EXCEPT ![s] = NoWork]
      /\ reference' = [reference EXCEPT ![a] = "manual"]
      /\ UNCHANGED <<ruled, approved, posted, paymentVars, payment, refunds>>
  BY <1>0 DEF Complete, paymentVars
<1>2. a \in Actions /\ work[s].seen \in {"proposed", "approved"}
  BY <1>0, Request, AcceptsIs DEF Reviews
<1>3. payment' = [p \in Payments |-> payment'[p]]
  BY <1>0, <1>1 DEF RecoveryInv, RowsOK
<1>4. \A b \in Actions \ {a} :
        /\ Credited(b)' = Credited(b)
        /\ RefundedBy(b)' = RefundedBy(b)
        /\ <<b, "reverse">> \in posted' <=> <<b, "reverse">> \in posted
  BY <1>0, <1>1 DEF Credited, RefundedBy
<1>5. ASSUME a \notin raced, work[s].seen = status[a]  PROVE Gives(a)'
  <2>1. RefundedBy(a) = {}
    BY <1>0, <1>2, <1>5, NotCompleted
  <2>2. QED  BY <1>0, <1>1, <2>1 DEF Gives, RefundedBy
<1>6. RowsOK' /\ ApprovalOK' /\ GivenOK'
  BY <1>0, <1>1, <1>3, <1>4, <1>5, Executed
<1>7. QED  BY <1>0, <1>1, <1>6, PaymentsKept DEF RecoveryInv

LEMMA CreditKeeps ==
  ASSUME RecoveryInv, NEW s \in RecoverySessions, Credit(s)
  PROVE  RecoveryInv'
<1>0. PICK a \in Actions : a = work[s].a
  BY Request DEF Reviews, Credit, Reads
<1>1. /\ work[s].op = "execute"
      /\ Kind[a] = "credit"
      /\ work' = [work EXCEPT ![s] = NoWork]
      /\ UNCHANGED <<ruled, approved, paymentVars, payment, refunds>>
  BY <1>0 DEF Credit, Reads, paymentVars
<1>2. a \in Actions /\ work[s].seen \in {"proposed", "approved"}
  BY <1>0, <1>1, Request, AcceptsIs DEF Reviews
<1>3. payment' = [p \in Payments |-> payment'[p]]
  BY <1>0, <1>1 DEF RecoveryInv, RowsOK
<1>4. \A b \in Actions \ {a} :
        /\ Credited(b)' = Credited(b)
        /\ RefundedBy(b)' = RefundedBy(b)
        /\ <<b, "reverse">> \in posted' <=> <<b, "reverse">> \in posted
  BY <1>0, <1>1 DEF Credit, Credited, RefundedBy
<1>5. ASSUME a \notin raced, work[s].seen = status[a]
      PROVE  ~Credited(a) /\ <<a, "reverse">> \notin posted /\ RefundedBy(a) = {}
  BY <1>0, <1>1, <1>2, <1>5, NotCompleted
<1>6. CASE posted' = posted \union {<<a, "credit">>} /\ Record(s, "completed")
           /\ reference' = [reference EXCEPT ![a] = "entry"]
  <2>1. ASSUME a \notin raced, work[s].seen = status[a]  PROVE Gives(a)'
    <3>1. status'[a] = "completed" /\ reference'[a] = "entry"
      BY <1>0, <1>2, <1>6 DEF Record, RecoveryInv, RowsOK
    <3>2. QED  BY <1>0, <1>1, <1>5, <1>6, <2>1, <3>1 DEF Gives, Credited,
                  RefundedBy
  <2>2. RowsOK' /\ ApprovalOK' /\ GivenOK'
    BY <1>0, <1>1, <1>3, <1>4, <1>6, <2>1, Executed
  <2>3. QED  BY <1>0, <1>1, <2>2, PaymentsKept DEF RecoveryInv
<1>7. CASE UNCHANGED <<posted, reference>> /\ Record(s, "failed")
  <2>1. ASSUME a \notin raced, work[s].seen = status[a]  PROVE Gives(a)'
    <3>1. status'[a] = "failed"
      BY <1>0, <1>2, <1>7 DEF Record, RecoveryInv, RowsOK
    <3>2. QED  BY <1>0, <1>1, <1>5, <1>7, <2>1, <3>1 DEF Gives, Credited,
                  RefundedBy
  <2>2. /\ reference' = [reference EXCEPT ![a] = reference[a]]
        /\ reference[a] \in {"none", "entry", "payment", "manual"}
    BY <1>0, <1>2, <1>7 DEF RecoveryInv, RowsOK
  <2>3. RowsOK' /\ ApprovalOK' /\ GivenOK'
    <3> DEFINE r == reference[a]
    <3> HIDE DEF r
    <3>1. reference' = [reference EXCEPT ![a] = r] /\ r \in {"none", "entry", "payment", "manual"}
      BY <2>2 DEF r
    <3>2. QED  BY <1>0, <1>1, <1>3, <1>4, <1>7, <2>1, <3>1, Executed
  <2>4. QED  BY <1>0, <1>1, <2>3, PaymentsKept DEF RecoveryInv
<1>8. QED  BY <1>0, <1>6, <1>7 DEF Credit

LEMMA ReverseKeeps ==
  ASSUME RecoveryInv, NEW s \in RecoverySessions, ReverseAction(s)
  PROVE  RecoveryInv'
<1>0. PICK a \in Actions : a = work[s].a
  BY Request DEF Reviews, ReverseAction, Reads
<1>1. /\ work[s].op = "reverse"
      /\ Record(s, "reversed")
      /\ work' = [work EXCEPT ![s] = NoWork]
      /\ UNCHANGED <<ruled, approved, reference, paymentVars, payment, refunds>>
      /\ posted' = IF work[s].ref = "entry" THEN posted \union {<<a, "reverse">>} ELSE posted
  BY <1>0 DEF ReverseAction, Reads, paymentVars
<1>2. a \in Actions /\ work[s].seen = "completed"
  BY <1>0, <1>1, Request, AcceptsIs DEF Reviews
<1>3. /\ payment' = [p \in Payments |-> payment'[p]]
      /\ reference' = [reference EXCEPT ![a] = reference[a]]
      /\ reference[a] \in {"none", "entry", "payment", "manual"}
  BY <1>0, <1>1, <1>2 DEF RecoveryInv, RowsOK
<1>4. \A b \in Actions \ {a} :
        /\ Credited(b)' = Credited(b)
        /\ RefundedBy(b)' = RefundedBy(b)
        /\ <<b, "reverse">> \in posted' <=> <<b, "reverse">> \in posted
  BY <1>0, <1>1 DEF Credited, RefundedBy
<1>5. ASSUME a \notin raced, work[s].seen = status[a]  PROVE Gives(a)'
  <2>1. Gives(a) /\ SeesEntry(a) /\ status[a] = "completed"
    BY <1>0, <1>2, <1>5 DEF RecoveryInv, GivenOK
  <2>2. status'[a] = "reversed"
    BY <1>0, <1>1, <1>2 DEF Record, RecoveryInv, RowsOK
  <2>3. Kind[a] = "credit" => Credited(a)' /\ <<a, "reverse">> \in posted'
    BY <1>0, <1>1, <2>1 DEF Gives, SeesEntry, Credited
  <2>4. RefundedBy(a)' = RefundedBy(a)
    BY <1>0, <1>1 DEF RefundedBy
  <2>5. QED  BY <1>0, <2>1, <2>2, <2>3, <2>4 DEF Gives
<1>6. RowsOK' /\ ApprovalOK' /\ GivenOK'
  BY <1>0, <1>1, <1>3, <1>4, <1>5, Executed
<1>7. QED  BY <1>0, <1>1, <1>6, PaymentsKept DEF RecoveryInv
LEMMA HandKeeps ==
  ASSUME RecoveryInv, NEW s \in RecoverySessions, Hand(s)
  PROVE  RecoveryInv'
  BY CompleteKeeps DEF Hand, Reads

(* A request that goes on, or ends, with nothing written.                  *)
LEMMA WorkKeeps ==
  ASSUME RecoveryInv, NEW s \in RecoverySessions, NEW w, WorkIs(w), work' = [work EXCEPT ![s] = w],
         UNCHANGED <<actionVars, paymentVars>>,
         \A a \in Actions : About(w, a) =>
           /\ status[a] # "none"
           /\ a \in ruled \ approved => w.op \in {"approve", "reject"}
           /\ w.op = "reverse" /\ a \notin raced /\ Kind[a] = "credit" => w.ref = "entry"
  PROVE  RecoveryInv'
<1>1. payment' = [p \in Payments |-> payment'[p]] /\ UNCHANGED refunds
  BY DEF RecoveryInv, RowsOK, paymentVars
<1>2. RowsOK' /\ ApprovalOK' /\ GivenOK'
  BY <1>1, OnlyWork
<1>3. QED  BY <1>2, PaymentsKept DEF RecoveryInv

LEMMA PickKeeps ==
  ASSUME RecoveryInv, NEW s \in RecoverySessions, Pick(s)
  PROVE  RecoveryInv'
<1> DEFINE paid == {p \in Payments : payment[p] = "paid"}
           last == CHOOSE p \in paid : \A q \in paid : q <= p
<1>1. work[s].op = "execute" /\ Kind[work[s].a] = "refund"
  BY DEF Pick, Reads
<1>2. CASE paid = {}
  <2>1. Complete(s)
    BY <1>2 DEF Pick
  <2>2. QED  BY <1>1, <2>1, CompleteKeeps
<1>3. CASE paid # {}
  <2> DEFINE w == [op |-> "execute", stage |-> "picked", a |-> work[s].a, seen |-> work[s].seen,
                   p |-> last, was |-> "paid", to |-> "refunded", order |-> payStatus]
  <2>1. work' = [work EXCEPT ![s] = w] /\ UNCHANGED <<actionVars, paymentVars>>
    BY <1>3 DEF Pick
  <2>2. last \in Payments
    <3>1. paid \subseteq Nat /\ IsFiniteSet(paid)
      BY RecoveryAssumption, FS_Subset
    <3>2. PICK p \in paid : \A q \in paid : q <= p
      BY <1>3, <3>1, LargestElement
    <3>3. last \in paid
      BY <3>2
    <3>4. QED  BY <3>3
  <2>3. /\ work[s].a \in Actions /\ About(work[s], work[s].a)
        /\ work[s].seen \in Accepts("execute") /\ work[s].a \notin ruled \ approved
    BY <1>1, Request DEF Reviews
  <2> HIDE DEF last
  <2>4. WorkIs(w)
    BY <1>1, <2>2, <2>3 DEF WorkIs, PickedRefund
  <2>5. \A a \in Actions : About(w, a) => a = work[s].a /\ status[a] # "none"
    BY <2>3 DEF About, RecoveryInv, ApprovalOK
  <2>6. \A a \in Actions : About(w, a) =>
          /\ status[a] # "none"
          /\ a \in ruled \ approved => w.op \in {"approve", "reject"}
          /\ w.op = "reverse" /\ a \notin raced /\ Kind[a] = "credit" => w.ref = "entry"
    BY <2>3, <2>5
  <2> HIDE DEF w
  <2>7. QED  BY <2>1, <2>4, <2>6, WorkKeeps
<1>4. QED  BY <1>2, <1>3

LEMMA BeginKeeps ==
  ASSUME RecoveryInv, NEW s \in RecoverySessions, NEW op \in Reviews, NEW a \in Actions,
         Begin(s, op, a)
  PROVE  RecoveryInv'
<1> DEFINE w == [op |-> op, stage |-> "read", a |-> a, seen |-> status[a], ref |-> reference[a]]
<1>1. /\ status[a] \in Accepts(op) /\ work' = [work EXCEPT ![s] = w]
      /\ UNCHANGED <<actionVars, paymentVars>>
  BY DEF Begin
<1>2. WorkIs(w)
  BY <1>1 DEF WorkIs, ReadWork, RecoveryInv, RowsOK
<1>3. status[a] # "none"
  BY <1>1, AcceptsIs DEF Reviews
<1>4. a \in ruled \ approved => op \in {"approve", "reject"}
  BY <1>1, AcceptsIs DEF Reviews, RecoveryInv, ApprovalOK
<1>5. op = "reverse" /\ a \notin raced /\ Kind[a] = "credit" => reference[a] = "entry"
  BY <1>1, AcceptsIs DEF RecoveryInv, GivenOK, Gives
<1>6. \A b \in Actions : About(w, b) =>
        /\ status[b] # "none"
        /\ b \in ruled \ approved => w.op \in {"approve", "reject"}
        /\ w.op = "reverse" /\ b \notin raced /\ Kind[b] = "credit" => w.ref = "entry"
  BY <1>3, <1>4, <1>5 DEF About
<1> HIDE DEF w
<1>7. QED  BY <1>1, <1>2, <1>6, WorkKeeps

LEMMA BeginPaymentKeeps ==
  ASSUME RecoveryInv, NEW s \in RecoverySessions, NEW p \in Payments, NEW to,
         BeginPayment(s, p, to)
  PROVE  RecoveryInv'
<1> DEFINE w == [op |-> "staff", stage |-> "picked", p |-> p, was |-> payment[p], to |-> to,
                 order |-> payStatus]
<1>1. work' = [work EXCEPT ![s] = w] /\ UNCHANGED <<actionVars, paymentVars>>
  BY DEF BeginPayment
<1>2. WorkIs(w) /\ \A a \in Actions : ~About(w, a)
  BY DEF WorkIs, PickedByStaff, About, Reviews
<1> HIDE DEF w
<1>3. QED  BY <1>1, <1>2, WorkKeeps

LEMMA RollBackKeeps ==
  ASSUME RecoveryInv, NEW s \in RecoverySessions, RollBackWork(s)
  PROVE  RecoveryInv'
<1>1. WorkIs(NoWork) /\ \A a \in Actions : ~About(NoWork, a)
  BY DEF WorkIs, About, Reviews, NoWork
<1>2. QED  BY <1>1, WorkKeeps DEF RollBackWork

LEMMA ComputeKeeps ==
  ASSUME RecoveryInv, NEW s \in RecoverySessions, Compute(s)
  PROVE  RecoveryInv'
<1> DEFINE w == [x \in DOMAIN work[s] \union {"new", "others"} |->
                   CASE x = "stage"  -> "computed"
                     [] x = "new"    -> NewStatus(s)
                     [] x = "others" -> payment
                     [] OTHER        -> work[s][x]]
<1>1. /\ work[s].stage = "picked" /\ work' = [work EXCEPT ![s] = w]
      /\ UNCHANGED <<actionVars, paymentVars>>
  BY DEF Compute
<1>2. PickedRefund(work[s]) \/ PickedByStaff(work[s])
  BY <1>1 DEF RecoveryInv, RowsOK, WorkIs, ReadWork, NoWork
<1>3. \A x \in DOMAIN work[s] \ {"stage", "new", "others"} : w[x] = work[s][x]
  OBVIOUS
<1>4. /\ w.stage = "computed" /\ w.new = NewStatus(s) /\ w.others = payment
      /\ w.op = work[s].op /\ w.p = work[s].p /\ w.to = work[s].to
  <2>1. {"op", "p", "to"} \subseteq DOMAIN work[s]
    BY <1>1, <1>2 DEF PickedRefund, PickedByStaff
  <2>2. "stage" \in DOMAIN work[s] \union {"new", "others"} => w.stage = "computed"
    OBVIOUS
  <2>3. w.new = NewStatus(s) /\ w.others = payment
    OBVIOUS
  <2>4. "stage" \in DOMAIN work[s]
    BY <1>1, <1>2 DEF PickedRefund, PickedByStaff
  <2> HIDE DEF w
  <2>5. QED  BY <1>3, <2>1, <2>2, <2>3, <2>4
<1>5. PickedRefund(work[s]) =>
        w.a = work[s].a /\ w.seen = work[s].seen /\ w.was = work[s].was /\ w.order = work[s].order
  BY <1>3 DEF PickedRefund
<1>6. DOMAIN work[s] \subseteq DOMAIN w
  OBVIOUS
<1> HIDE DEF w
<1>7. ComputedWork(w)
  BY <1>4 DEF ComputedWork, NewStatus
<1>8. CASE PickedByStaff(work[s])
  <2>1. PickedByStaff(w) /\ \A a \in Actions : ~About(w, a)
    BY <1>4, <1>6, <1>8 DEF PickedByStaff, About, Reviews
  <2>2. QED  BY <1>1, <1>4, <1>7, <2>1, WorkKeeps DEF WorkIs
<1>9. CASE PickedRefund(work[s])
  <2>1. PickedRefund(w) /\ w.op = "execute"
    BY <1>4, <1>5, <1>6, <1>9 DEF PickedRefund
  <2>2. work[s].a \notin ruled \ approved /\ About(work[s], work[s].a)
    BY <1>9, Request DEF PickedRefund, Reviews
  <2>3. \A a \in Actions : About(w, a) => status[a] # "none" /\ a \notin ruled \ approved
    BY <1>5, <1>9, <2>2 DEF About, RecoveryInv, ApprovalOK
  <2>4. QED  BY <1>1, <1>4, <1>7, <2>1, <2>3, WorkKeeps DEF WorkIs
<1>10. QED  BY <1>2, <1>8, <1>9

-----------------------------------------------------------------------------
LEMMA CommitKeeps ==
  ASSUME RecoveryInv, NEW s \in RecoverySessions, Commit(s)
  PROVE  RecoveryInv'
<1>1. /\ work[s].stage = "computed" /\ work' = [work EXCEPT ![s] = NoWork]
      /\ ComputedWork(work[s]) /\ (PickedRefund(work[s]) \/ PickedByStaff(work[s]))
  BY DEF Commit, RecoveryInv, RowsOK, WorkIs, ReadWork, NoWork
<1>2. PICK p \in Payments : p = work[s].p
  BY <1>1 DEF PickedRefund, PickedByStaff
<1>3. /\ payment' = IF work[s].to = work[s].was THEN payment
                    ELSE [payment EXCEPT ![p] = work[s].to]
      /\ payStatus' = IF work[s].new = work[s].order THEN payStatus ELSE work[s].new
      /\ contested' = IF \/ payment[p] # work[s].was
                         \/ work[s].op = "staff" /\ work[s].was = "refunded"
                      THEN contested \union {p} ELSE contested
      /\ mixed' = (payment # work[s].others \/ payment[p] # work[s].was
                   \/ payStatus # work[s].order)
  BY <1>2 DEF Commit
<1>4. /\ payment' = [q \in Payments |-> payment'[q]]
      /\ \A q \in Payments \ {p} : payment'[q] = payment[q]
      /\ work[s].to # work[s].was => payment'[p] = work[s].to
  BY <1>2, <1>3 DEF RecoveryInv, RowsOK
<1>5. PaymentStatusFollows'
  <2> SUFFICES ASSUME ~mixed'  PROVE payStatus' = Recomputed(payment)'
    BY DEF PaymentStatusFollows
  <2>1. payment = work[s].others /\ payment[p] = work[s].was /\ payStatus = work[s].order
    BY <1>3
  <2>2. payment' = [payment EXCEPT ![p] = work[s].to]
    BY <1>3, <2>1 DEF RecoveryInv, RowsOK
  <2>3. payStatus' = work[s].new
    BY <1>3, <2>1
  <2>4. work[s].new = Recomputed(payment')
    BY <1>1, <1>2, <2>1, <2>2 DEF ComputedWork
  <2>5. QED  BY <2>3, <2>4 DEF Recomputed
<1>6. CASE work[s].op = "staff"
  <2>1. UNCHANGED <<actionVars, refunds>>
    BY <1>6 DEF Commit
  <2>2. RowsOK' /\ ApprovalOK' /\ GivenOK'
    <3>1. WorkIs(NoWork) /\ \A a \in Actions : ~About(NoWork, a)
      BY DEF WorkIs, About, Reviews, NoWork
    <3>2. QED  BY <1>1, <1>4, <2>1, <3>1, OnlyWork
  <2>3. RefundedOK'
    <3> SUFFICES ASSUME NEW q \in Payments \ contested', NEW a \in Actions, NEW b \in Actions,
                        <<a, q>> \in refunds
                 PROVE  payment'[q] = "refunded" /\ (<<b, q>> \in refunds => a = b)
      BY <2>1 DEF RefundedOK
    <3>1. q \notin contested
      BY <1>3
    <3>2. payment[q] = "refunded" /\ (<<b, q>> \in refunds => a = b)
      BY <3>1 DEF RecoveryInv, RefundedOK
    <3>3. q # p
      BY <1>3, <1>6, <3>2
    <3>4. QED  BY <1>4, <3>2, <3>3
  <2>4. QED  BY <1>5, <2>2, <2>3 DEF RecoveryInv
<1>7. CASE PickedRefund(work[s])
  <2>1. PICK a \in Actions : a = work[s].a
    BY <1>7 DEF PickedRefund
  <2>2. /\ work[s].op = "execute"
        /\ Kind[a] = "refund"
        /\ work[s].seen \in {"proposed", "approved"}
        /\ work[s].was = "paid" /\ work[s].to = "refunded"
    BY <1>7, <2>1, AcceptsIs DEF PickedRefund
  <2>3. /\ Record(s, "completed") /\ reference' = [reference EXCEPT ![a] = "payment"]
        /\ refunds' = refunds \union {<<a, p>>}
        /\ UNCHANGED <<ruled, approved, posted>>
    BY <1>2, <2>1, <2>2 DEF Commit
  <2>4. \A b \in Actions \ {a} :
          /\ Credited(b)' = Credited(b)
          /\ RefundedBy(b)' = RefundedBy(b)
          /\ <<b, "reverse">> \in posted' <=> <<b, "reverse">> \in posted
    BY <2>3 DEF Credited, RefundedBy
  <2>5. ASSUME a \notin raced, work[s].seen = status[a]  PROVE Gives(a)'
    <3>1. RefundedBy(a) = {}
      BY <2>2, <2>5, NotCompleted
    <3>2. \A q \in RefundedBy(a)' : q = p
      BY <2>3, <3>1 DEF RefundedBy
    <3>3. status'[a] = "completed"
      BY <2>1, <2>3 DEF Record, RecoveryInv, RowsOK
    <3>4. QED  BY <2>2, <3>2, <3>3 DEF Gives
  <2>6. RowsOK' /\ ApprovalOK' /\ GivenOK'
    BY <1>1, <1>4, <2>1, <2>2, <2>3, <2>4, <2>5, Executed
  <2>7. RefundedOK'
    <3> SUFFICES ASSUME NEW q \in Payments \ contested', NEW c \in Actions, NEW b \in Actions,
                        <<c, q>> \in refunds'
                 PROVE  payment'[q] = "refunded" /\ (<<b, q>> \in refunds' => c = b)
      BY DEF RefundedOK
    <3>1. q \notin contested
      BY <1>3
    <3>2. \A d \in Actions : <<d, q>> \in refunds =>
            payment[q] = "refunded" /\ \A e \in Actions : <<e, q>> \in refunds => d = e
      BY <3>1 DEF RecoveryInv, RefundedOK
    <3>3. CASE q # p
      BY <1>4, <2>3, <3>2, <3>3
    <3>4. CASE q = p
      <4>1. payment[p] = "paid" /\ payment'[p] = "refunded"
        BY <1>3, <1>4, <2>2, <3>4
      <4>2. \A d \in Actions : <<d, q>> \in refunds' => d = a
        BY <2>3, <3>2, <3>4, <4>1
      <4>3. QED  BY <3>4, <4>1, <4>2
    <3>5. QED  BY <3>3, <3>4
  <2>8. QED  BY <1>5, <2>6, <2>7 DEF RecoveryInv
<1>8. QED  BY <1>1, <1>6, <1>7 DEF PickedByStaff

LEMMA ProposeKeeps ==
  ASSUME RecoveryInv, NEW a \in Actions, NEW rule \in BOOLEAN, Propose(a, rule)
  PROVE  RecoveryInv'
<1>1. /\ status[a] = "none" /\ status' = [status EXCEPT ![a] = FirstStatus(rule)]
      /\ ruled' = IF rule THEN ruled \union {a} ELSE ruled
      /\ UNCHANGED <<approved, reference, posted, raced, paymentVars, work,
                     payment, refunds>>
  BY DEF Propose, paymentVars
<1>2. /\ status'[a] = FirstStatus(rule) /\ \A b \in Actions \ {a} : status'[b] = status[b]
      /\ status' = [b \in Actions |-> status'[b]]
      /\ FirstStatus(rule) \in {"proposed", "approval_required"}
      /\ rule => FirstStatus(rule) = "approval_required"
  BY <1>1 DEF RecoveryInv, RowsOK, FirstStatus
<1>3. RowsOK'
  <2>1. work' = work /\ \A t \in RecoverySessions : WorkIs(work'[t])
    BY <1>1 DEF RecoveryInv, RowsOK
  <2>2. QED
    BY <1>1, <1>2, <2>1
    DEF RecoveryInv, RowsOK, WorkIs, ReadWork, PickedRefund, PickedByStaff, ComputedWork
<1>4. Ungiven(a) /\ \A s \in RecoverySessions : ~About(work[s], a)
  BY <1>1 DEF RecoveryInv, ApprovalOK
<1>5. \A b \in Actions : Ungiven(b)' = Ungiven(b)
  BY <1>1 DEF Ungiven, Credited, RefundedBy
<1>6. ApprovalOK'
  <2>1. \A b \in Actions, s \in RecoverySessions : About(work[s], b)' => status'[b] # "none"
    BY <1>1, <1>2, <1>4 DEF RecoveryInv, ApprovalOK, About
  <2>2. ASSUME NEW b \in Actions, status'[b] = "none"  PROVE Ungiven(b)'
    BY <1>2, <1>5, <2>2 DEF RecoveryInv, ApprovalOK
  <2>3. ASSUME NEW b \in ruled' \ approved'
        PROVE  /\ status'[b] \in {"approval_required", "rejected"} /\ Ungiven(b)
               /\ \A s \in RecoverySessions :
                    About(work[s], b) => work[s].op \in {"approve", "reject"}
    <3>1. CASE b = a
      <4>1. rule \/ a \in ruled \ approved
        BY <1>1, <2>3, <3>1
      <4>2. rule
        BY <1>1, <4>1 DEF RecoveryInv, ApprovalOK
      <4>3. QED  BY <1>2, <1>4, <3>1, <4>2
    <3>2. CASE b # a
      BY <1>1, <1>2, <2>3, <3>2 DEF RecoveryInv, ApprovalOK
    <3>3. QED  BY <3>1, <3>2
  <2>4. ruled' \subseteq Actions
    BY <1>1 DEF RecoveryInv, ApprovalOK
  <2>5. \A b \in ruled' \ approved' : Ungiven(b)'
    BY <1>5, <2>3, <2>4
  <2>6. \A b \in ruled' \ approved' : \A s \in RecoverySessions :
          About(work[s], b)' => work'[s].op \in {"approve", "reject"}
    BY <1>1, <2>3 DEF About
  <2>7. QED  BY <2>1, <2>2, <2>3, <2>4, <2>5, <2>6 DEF ApprovalOK
<1>7. GivenOK'
  <2>1. ASSUME NEW b \in Actions \ raced  PROVE Gives(b)' /\ SeesEntry(b)'
    <3>1. Gives(b) /\ SeesEntry(b)
      BY DEF RecoveryInv, GivenOK
    <3>2. SeesEntry(b)'
      BY <1>1, <3>1 DEF SeesEntry
    <3>3. CASE b # a
      BY <1>1, <1>2, <3>1, <3>2, <3>3 DEF Gives, Credited, RefundedBy
    <3>4. CASE b = a
      BY <1>1, <1>2, <1>4, <3>2, <3>4 DEF Gives, Ungiven, Credited, RefundedBy
    <3>5. QED  BY <3>3, <3>4
  <2>2. QED  BY <1>1, <2>1 DEF GivenOK
<1>8. QED  BY <1>1, <1>3, <1>6, <1>7, PaymentsKept DEF RecoveryInv

(* Neither the guest's points nor the bounds are in the invariant.         *)
LEMMA UntouchedKeeps ==
  ASSUME RecoveryInv,
         UNCHANGED <<status, ruled, approved, reference, posted, raced,
                     paymentVars, work>>
  PROVE  RecoveryInv'
<1>1. UNCHANGED <<status, ruled, approved, reference, posted, raced, work, payment, refunds>>
  BY DEF paymentVars
<1>2. RowsOK'
  <2>1. work' = work /\ \A t \in RecoverySessions : WorkIs(work'[t])
    BY <1>1 DEF RecoveryInv, RowsOK
  <2>2. QED
    BY <1>1, <2>1
    DEF RecoveryInv, RowsOK, WorkIs, ReadWork, PickedRefund, PickedByStaff, ComputedWork
<1>3. ApprovalOK'
  BY <1>1 DEF RecoveryInv, ApprovalOK, About, Ungiven, Credited, RefundedBy
<1>4. GivenOK'
  <2>1. ASSUME NEW b \in Actions \ raced  PROVE Gives(b)' /\ SeesEntry(b)'
    <3>1. Gives(b) /\ SeesEntry(b)
      BY DEF RecoveryInv, GivenOK
    <3>2. Gives(b)'
      BY <1>1, <3>1 DEF Gives, Credited, RefundedBy
    <3>3. QED  BY <1>1, <3>1, <3>2 DEF SeesEntry
  <2>2. QED  BY <1>1, <2>1 DEF GivenOK
<1>5. QED  BY <1>2, <1>3, <1>4, PaymentsKept DEF RecoveryInv

LEMMA NextKeeps ==
  ASSUME RecoveryInv, [RecoveryNext]_recoveryVars
  PROVE  RecoveryInv'
<1>1. CASE \E a \in Actions, rule \in BOOLEAN : Propose(a, rule)
  BY <1>1, ProposeKeeps
<1>2. ASSUME NEW s \in RecoverySessions,
             \/ \E a \in Actions, op \in Reviews : Begin(s, op, a)
             \/ \E p \in Payments, to \in StaffStatuses : BeginPayment(s, p, to)
      PROVE  RecoveryInv'
  BY <1>2, BeginKeeps, BeginPaymentKeeps
<1>3. ASSUME NEW s \in RecoverySessions,
             \/ Approve(s) \/ Reject(s) \/ Hand(s)
             \/ Credit(s) \/ Pick(s) \/ ReverseAction(s)
             \/ Compute(s) \/ Commit(s) \/ RollBackWork(s)
      PROVE  RecoveryInv'
  BY <1>3, ReviewKeeps, HandKeeps, CreditKeeps, PickKeeps, ReverseKeeps, ComputeKeeps,
     CommitKeeps, RollBackKeeps
<1>4. CASE Spend
  BY <1>4, UntouchedKeeps DEF Spend
<1>5. CASE UNCHANGED recoveryVars
  BY <1>5, UntouchedKeeps DEF recoveryVars, actionVars
<1>6. QED  BY <1>1, <1>2, <1>3, <1>4, <1>5 DEF RecoveryNext, Reviews

LEMMA Recovers == RecoverySpec => []RecoveryInv
<1>1. RecoveryInit => RecoveryInv
  BY InitRecovers
<1>2. RecoveryInv /\ [RecoveryNext]_recoveryVars => RecoveryInv'
  BY NextKeeps
<1>3. QED  BY <1>1, <1>2, PTL DEF RecoverySpec

(* service_recovery/service.py: a status tells what the guest has got: a   *)
(* credit that counts exactly when the action is completed, a refund only  *)
(* when it was; an action that needs an approval gives nothing before it.  *)
THEOREM StatusIsTrue == RecoverySpec => []StatusTellsValue
<1>1. ASSUME RecoveryInv  PROVE StatusTellsValue
  <2>1. ASSUME NEW a \in Actions \ raced
        PROVE  /\ Kind[a] = "credit" =>
                    (status[a] = "completed"
                       <=> Credited(a) /\ <<a, "reverse">> \notin posted)
               /\ RefundedBy(a) # {} => status[a] \in {"completed", "reversed"}
    BY <1>1 DEF RecoveryInv, GivenOK, Gives
  <2>2. \A a \in ruled \ approved :
          ~Credited(a) /\ RefundedBy(a) = {} /\ status[a] # "completed"
    BY <1>1 DEF RecoveryInv, ApprovalOK, Ungiven
  <2>3. QED  BY <2>1, <2>2 DEF StatusTellsValue
<1>2. QED  BY <1>1, Recovers, PTL

LEMMA AtMostOne ==
  ASSUME NEW S, \A x, y \in S : x = y
  PROVE  Cardinality(S) <= 1
<1>1. CASE S = {}
  BY <1>1, FS_EmptySet
<1>2. CASE S # {}
  <2>1. PICK x \in S : TRUE
    BY <1>2
  <2>2. S = {x}
    BY <2>1
  <2>3. QED  BY <2>2, FS_Singleton
<1>3. QED  BY <1>1, <1>2

(* service_recovery/service.py: an action refunds one payment and a        *)
(* payment is refunded for one action, unless two executions, or staff and *)
(* an execution, overlapped.                                               *)
THEOREM NothingRefundedTwice == RecoverySpec => []RefundsAreDistinct
<1>1. ASSUME RecoveryInv  PROVE RefundsAreDistinct
  <2>1. ASSUME NEW a \in Actions \ raced  PROVE Cardinality(RefundedBy(a)) <= 1
    <3>1. \A p, q \in RefundedBy(a) : p = q
      BY <1>1 DEF RecoveryInv, GivenOK, Gives
    <3>2. QED  BY <3>1, AtMostOne
  <2>2. ASSUME NEW p \in Payments \ contested
        PROVE  Cardinality({a \in Actions : <<a, p>> \in refunds}) <= 1
    <3>1. \A a, b \in {a \in Actions : <<a, p>> \in refunds} : a = b
      BY <1>1 DEF RecoveryInv, RefundedOK
    <3>2. QED  BY <3>1, AtMostOne
  <2>3. QED  BY <2>1, <2>2 DEF RefundsAreDistinct
<1>2. QED  BY <1>1, Recovers, PTL

(* orders/service.py: the payment status of the order is the one its       *)
(* payments add up to, unless the last request about one was overtaken.    *)
THEOREM OrderStatusFollows == RecoverySpec => []PaymentStatusFollows
<1>1. RecoveryInv => PaymentStatusFollows
  BY DEF RecoveryInv
<1>2. QED  BY <1>1, Recovers, PTL

-----------------------------------------------------------------------------
(***************************************************************************)
(* GiftCards: what it keeps for any number of overlapping requests,        *)
(* amounts and entries.                                                    *)
(***************************************************************************)
LEMMA CardSums == \A f : SumFunction(f) = SumFunctionOnSet(f, DOMAIN f)
  BY DEF SumFunction

Kinds == {"activate", "suspend", "reinstate", "cancel", "expire",
          "redeem", "credit", "debit"}

(* A request that has loaded the card, with a status its kind accepts.     *)
Loaded(c) ==
  /\ c \in [kind : Kinds, amount : Nat, status : Statuses, balance : 0 .. Initial]
  /\ c.kind = "activate" => c.status = "draft"
  /\ c.kind = "suspend" => c.status \in Redeemable
  /\ c.kind = "reinstate" => c.status = "suspended"
  /\ c.kind \in {"cancel", "expire"} => c.status \notin {"cancelled", "expired"}

RequestsOK ==
  /\ cardRequest = [s \in CardSessions |-> cardRequest[s]]
  /\ \A s \in CardSessions :
       \/ cardRequest[s] = Idle
       \/ Loaded(cardRequest[s])
       \/ cardRequest[s] \in [kind : {"reverse"}, of : 1 .. Len(cardEntries)]

EntryKinds == {"issue", "redeem", "adjust", "reverse", "cancel", "expire"}

EntriesOK == cardEntries \in Seq([kind : EntryKinds, delta : Int, of : Nat])

CardInv == CardTypeOK /\ EntriesOK /\ RequestsOK /\ ClosedOnce /\ StatusTellsBalance

-----------------------------------------------------------------------------
LEMMA StatusForIs ==
  ASSUME NEW amount \in 0 .. Initial
  PROVE  /\ StatusFor(amount) \in Redeemable \union {"fully_redeemed"}
         /\ StatusFor(amount) = "fully_redeemed" => amount = 0
         /\ StatusFor(amount) = "partially_redeemed" => amount \in 1 .. Initial - 1
BY AmountAssumption DEF StatusFor, Redeemable

LEMMA InitOK == CardInit => CardInv
<1> SUFFICES ASSUME CardInit PROVE CardInv
  OBVIOUS
<1> USE AmountAssumption DEF CardInit, CardEntry, EntryKinds
<1>1. EntriesOK /\ Len(cardEntries) = 1
  <2> DEFINE e == CardEntry("issue", Initial, 0)
  <2>1. e \in [kind : EntryKinds, delta : Int, of : Nat]
    OBVIOUS
  <2>2. cardEntries = <<e>>
    OBVIOUS
  <2> HIDE DEF e
  <2> QED BY <2>1, <2>2 DEF EntriesOK
<1>2. CardTypeOK
  BY DEF CardTypeOK, Statuses
<1>3. RequestsOK
  BY DEF RequestsOK
<1>4. ClosedOnce /\ StatusTellsBalance
  BY DEF ClosedOnce, StatusTellsBalance
<1> QED BY <1>1, <1>2, <1>3, <1>4 DEF CardInv

(* What every commit leaves, from the status and balance it computed.      *)
LEMMA AfterWrite ==
  ASSUME CardTypeOK, RequestsOK, StatusTellsBalance,
         NEW s \in CardSessions, NEW seen, NEW new \in Statuses, NEW left \in 0 .. Initial,
         Write(s, seen, new, left), Len(cardEntries') >= Len(cardEntries),
         Len(cardEntries) \in Nat, Len(cardEntries') \in Nat,
         seen.status = cardStatus /\ seen.balance = cardBalance =>
           /\ new = "fully_redeemed" => left = 0
           /\ new = "partially_redeemed" => left \in 1 .. Initial - 1
  PROVE  /\ cardStatus' \in Statuses /\ cardBalance' \in 0 .. Initial
         /\ RequestsOK'
         /\ StatusTellsBalance'
         /\ ~stale' => cardStatus = seen.status /\ cardStatus' = new
<1>1. cardStatus' \in Statuses /\ cardBalance' \in 0 .. Initial
  BY DEF Write, CardTypeOK
<1>2. RequestsOK'
  BY DEF Write, RequestsOK, Loaded
<1>3. ~stale' => /\ cardStatus = seen.status /\ cardBalance = seen.balance
                 /\ cardStatus' = new /\ cardBalance' = left
  BY DEF Write
<1>4. StatusTellsBalance'
  BY <1>3 DEF StatusTellsBalance
<1> QED BY <1>1, <1>2, <1>3, <1>4

(* An entry more: the old ones stay, and none is closed a second time.     *)
LEMMA AfterAppend ==
  ASSUME CardTypeOK, EntriesOK, ClosedOnce,
         NEW kind \in EntryKinds, NEW delta \in Int, NEW of \in 0 .. Len(cardEntries),
         cardEntries' = Append(cardEntries, CardEntry(kind, delta, of)),
         kind \in {"cancel", "expire"} => ~ClosedBefore(kind)
  PROVE  /\ EntriesOK' /\ ClosedOnce'
         /\ \A n \in DOMAIN cardEntries' : cardEntries'[n].of \in 0 .. n - 1
         /\ Len(cardEntries) \in Nat /\ Len(cardEntries') = Len(cardEntries) + 1
<1>1. CardEntry(kind, delta, of) \in [kind : EntryKinds, delta : Int, of : Nat]
  BY DEF CardEntry, EntriesOK
<1>2. /\ EntriesOK' /\ Len(cardEntries) \in Nat /\ Len(cardEntries') = Len(cardEntries) + 1
      /\ DOMAIN cardEntries = 1 .. Len(cardEntries)
      /\ DOMAIN cardEntries' = 1 .. Len(cardEntries) + 1
      /\ \A n \in DOMAIN cardEntries : cardEntries'[n] = cardEntries[n]
      /\ cardEntries'[Len(cardEntries) + 1] = CardEntry(kind, delta, of)
  BY <1>1 DEF EntriesOK
<1>3. \A n \in DOMAIN cardEntries' : cardEntries'[n].of \in 0 .. n - 1
  BY <1>2 DEF CardTypeOK, CardEntry
<1>4. ClosedOnce'
  BY <1>2 DEF ClosedOnce, ClosedBefore, CardEntry
<1> QED BY <1>2, <1>3, <1>4

-----------------------------------------------------------------------------
(* The requests that post an entry.                                        *)
LEMMA PostKeeps ==
  ASSUME CardInv, NEW s \in CardSessions, NEW seen, NEW kind \in EntryKinds, NEW delta \in Int,
         NEW of \in 0 .. Len(cardEntries), kind \notin {"cancel", "expire"},
         seen.status \in Statuses, seen.balance \in 0 .. Initial,
         PostEntry(s, seen, CardEntry(kind, delta, of))
  PROVE  /\ CardInv'
         /\ cardStatus' # cardStatus /\ ~stale' => cardStatus \notin Frozen
<1> USE DEF CardInv
<1> DEFINE left == Capped(seen.balance + delta)
           new  == StatusAfter(seen, left)
<1>1. /\ Write(s, seen, new, left)
      /\ cardEntries' = Append(cardEntries, CardEntry(kind, delta, of))
      /\ seen.balance + delta >= 0
  BY DEF PostEntry, Covers, CardEntry
<1>2. left \in 0 .. Initial
  BY <1>1, AmountAssumption DEF Capped
<1>3. /\ new \in Statuses
      /\ seen.status \in Frozen => new = seen.status
      /\ new = "fully_redeemed" => left = 0
      /\ new = "partially_redeemed" => left \in 1 .. Initial - 1
  BY <1>2, StatusForIs DEF StatusAfter, Statuses, Redeemable, Frozen
<1>4. /\ EntriesOK' /\ ClosedOnce'
      /\ \A n \in DOMAIN cardEntries' : cardEntries'[n].of \in 0 .. n - 1
      /\ Len(cardEntries) \in Nat /\ Len(cardEntries') = Len(cardEntries) + 1
  BY <1>1, AfterAppend
<1> HIDE DEF new, left
<1>5. /\ cardStatus' \in Statuses /\ cardBalance' \in 0 .. Initial
      /\ RequestsOK' /\ StatusTellsBalance'
      /\ ~stale' => cardStatus = seen.status /\ cardStatus' = new
  BY <1>1, <1>2, <1>3, <1>4, AfterWrite
<1> QED BY <1>3, <1>4, <1>5 DEF CardTypeOK

(* The requests that post none.                                            *)
LEMMA PlainKeeps ==
  ASSUME CardInv, NEW s \in CardSessions, NEW seen, NEW new \in Statuses,
         NEW left \in 0 .. Initial,
         Write(s, seen, new, left), cardEntries' = cardEntries,
         seen.status = cardStatus /\ seen.balance = cardBalance =>
           /\ new = "fully_redeemed" => left = 0
           /\ new = "partially_redeemed" => left \in 1 .. Initial - 1
  PROVE  CardInv' /\ (~stale' => cardStatus = seen.status)
<1> USE DEF CardInv
<1>1. Len(cardEntries) \in Nat
  BY DEF EntriesOK
<1>2. /\ cardStatus' \in Statuses /\ cardBalance' \in 0 .. Initial
      /\ RequestsOK' /\ StatusTellsBalance'
      /\ ~stale' => cardStatus = seen.status /\ cardStatus' = new
  BY <1>1, AfterWrite
<1> QED BY <1>2 DEF CardTypeOK, EntriesOK, ClosedOnce

(* What every step keeps.                                                  *)
Kept ==
  /\ CardInv'
  /\ cardStatus' # cardStatus /\ ~stale' => cardStatus \notin {"cancelled", "expired"}

LEMMA StepKeeps ==
  ASSUME CardInv, [CardNext]_cardVars
  PROVE  Kept
<1> USE DEF CardInv, Kept
<1>0. Len(cardEntries) \in Nat /\ DOMAIN cardEntries = 1 .. Len(cardEntries)
  BY DEF EntriesOK
<1>1. ASSUME NEW s \in CardSessions, NEW kind \in Kinds, NEW amount \in Nat, Load(s, kind, amount)
      PROVE  Kept
  <2>1. Loaded([kind |-> kind, amount |-> amount, status |-> cardStatus, balance |-> cardBalance])
    BY <1>1 DEF Load, May, Loaded, CardTypeOK, Redeemable
  <2>2. RequestsOK'
    BY <1>1, <2>1 DEF Load, RequestsOK, Loaded
  <2> QED BY <1>1, <2>2 DEF Load, CardTypeOK, EntriesOK, ClosedOnce,
             ClosedBefore, StatusTellsBalance
<1>2. ASSUME NEW s \in CardSessions, NEW n \in DOMAIN cardEntries, LoadReversal(s, n)
      PROVE  Kept
  <2>1. RequestsOK'
    BY <1>0, <1>2 DEF LoadReversal, RequestsOK, Loaded
  <2> QED BY <1>2, <2>1 DEF LoadReversal, CardTypeOK, EntriesOK, ClosedOnce,
             StatusTellsBalance
<1>3. ASSUME NEW s \in CardSessions, ChangeStatus(s) PROVE Kept
  <2> DEFINE c == cardRequest[s]
             new == CASE c.kind = "activate"  -> "active"
                      [] c.kind = "suspend"   -> "suspended"
                      [] c.kind = "reinstate" -> StatusFor(c.balance)
  <2>1. /\ c.kind \in {"activate", "suspend", "reinstate"} /\ Loaded(c)
        /\ Write(s, c, new, c.balance) /\ cardEntries' = cardEntries
    BY <1>3 DEF ChangeStatus, RequestsOK, Idle
  <2>2. c.balance \in 0 .. Initial /\ c.status \notin {"cancelled", "expired"}
    BY <2>1 DEF Loaded, Redeemable
  <2>3. /\ new \in Statuses
        /\ new = "fully_redeemed" => c.balance = 0
        /\ new = "partially_redeemed" => c.balance \in 1 .. Initial - 1
    BY <2>1, <2>2, StatusForIs DEF Statuses, Redeemable
  <2> HIDE DEF new, c
  <2>4. CardInv' /\ (~stale' => cardStatus = c.status)
    BY <2>1, <2>2, <2>3, PlainKeeps
  <2> QED BY <2>2, <2>4
<1>4. ASSUME NEW s \in CardSessions, Redeem(s) \/ Adjust(s) PROVE Kept
  <2> DEFINE c == cardRequest[s]
  <2>1. Loaded(c)
    BY <1>4 DEF Redeem, Adjust, RequestsOK, Idle
  <2>2. /\ c.status \in Statuses /\ c.balance \in 0 .. Initial
        /\ c.amount \in Int /\ -c.amount \in Int
    BY <2>1 DEF Loaded
  <2>3. \E kind \in {"redeem", "adjust"}, delta \in Int :
          PostEntry(s, c, CardEntry(kind, delta, 0))
    BY <1>4, <2>2 DEF Redeem, Adjust
  <2>4. PICK kind \in {"redeem", "adjust"}, delta \in Int :
          PostEntry(s, c, CardEntry(kind, delta, 0))
    BY <2>3
  <2> HIDE DEF c
  <2>5. CardInv' /\ (cardStatus' # cardStatus /\ ~stale' => cardStatus \notin Frozen)
    <3>1. /\ kind \in EntryKinds /\ kind \notin {"cancel", "expire"}
          /\ 0 \in 0 .. Len(cardEntries)
      BY <1>0 DEF EntryKinds
    <3> QED BY <2>2, <2>4, <3>1, PostKeeps
  <2> QED BY <2>5 DEF Frozen
<1>5. ASSUME NEW s \in CardSessions, ReverseCardEntry(s) PROVE Kept
  <2> DEFINE n == cardRequest[s].of
             seen == [status |-> cardStatus, balance |-> cardBalance]
  <2>1. n \in 1 .. Len(cardEntries)
    BY <1>5 DEF ReverseCardEntry, RequestsOK, Idle, Loaded, Kinds
  <2>2. -cardEntries[n].delta \in Int
    <3>1. cardEntries[n] \in [kind : EntryKinds, delta : Int, of : Nat]
      <4> DEFINE Row == [kind : EntryKinds, delta : Int, of : Nat]
      <4>1. cardEntries \in Seq(Row)
        BY DEF EntriesOK
      <4> HIDE DEF n, Row
      <4>2. cardEntries[n] \in Row
        BY <2>1, <4>1
      <4> QED BY <4>2 DEF Row
    <3>2. cardEntries[n].delta \in Int
      BY <3>1
    <3> QED BY <3>2
  <2>3. PostEntry(s, seen, CardEntry("reverse", -cardEntries[n].delta, n))
    BY <1>5 DEF ReverseCardEntry
  <2>4. seen.status \in Statuses /\ seen.balance \in 0 .. Initial
    BY DEF CardTypeOK
  <2> HIDE DEF n, seen
  <2>5. CardInv' /\ (cardStatus' # cardStatus /\ ~stale' => cardStatus \notin Frozen)
    <3>1. /\ "reverse" \in EntryKinds /\ "reverse" \notin {"cancel", "expire"}
          /\ n \in 0 .. Len(cardEntries)
      BY <1>0, <2>1 DEF EntryKinds
    <3> DEFINE delta == -cardEntries[n].delta
    <3>2. delta \in Int /\ PostEntry(s, seen, CardEntry("reverse", delta, n))
      BY <2>2, <2>3
    <3> HIDE DEF delta
    <3> QED BY <2>4, <3>1, <3>2, PostKeeps
  <2> QED BY <2>5 DEF Frozen
<1>6. ASSUME NEW s \in CardSessions, Close(s) PROVE Kept
  <2> DEFINE c == cardRequest[s]
             closed == IF c.kind = "cancel" THEN "cancelled" ELSE "expired"
  <2>1. c.kind \in {"cancel", "expire"} /\ Loaded(c) /\ Write(s, c, closed, 0)
    BY <1>6 DEF Close, RequestsOK, Idle
  <2>2. c.status \notin {"cancelled", "expired"} /\ c.balance \in 0 .. Initial
    BY <2>1 DEF Loaded
  <2>3. closed \in {"cancelled", "expired"} /\ 0 \in 0 .. Initial
    BY AmountAssumption
  <2>4. CASE c.balance > 0
    <3>1. /\ ~ClosedBefore(c.kind)
          /\ cardEntries' = Append(cardEntries, CardEntry(c.kind, -c.balance, 0))
      BY <1>6, <2>4 DEF Close
    <3>2. c.kind \in EntryKinds /\ -c.balance \in Int
      <4>1. c.balance \in Int
        BY <2>2
      <4> HIDE DEF c
      <4> QED BY <2>1, <4>1 DEF EntryKinds
    <3> DEFINE delta == -c.balance
    <3> HIDE DEF c, closed
    <3>3. /\ EntriesOK' /\ ClosedOnce'
          /\ \A n \in DOMAIN cardEntries' : cardEntries'[n].of \in 0 .. n - 1
          /\ Len(cardEntries') = Len(cardEntries) + 1
      <4>1. /\ delta \in Int /\ 0 \in 0 .. Len(cardEntries)
            /\ cardEntries' = Append(cardEntries, CardEntry(c.kind, delta, 0))
        BY <1>0, <3>1, <3>2
      <4> HIDE DEF delta
      <4> QED BY <3>1, <3>2, <4>1, AfterAppend
    <3>4. /\ cardStatus' \in Statuses /\ cardBalance' \in 0 .. Initial
          /\ RequestsOK' /\ StatusTellsBalance'
          /\ ~stale' => cardStatus = c.status
      BY <1>0, <2>1, <2>3, <3>3, AfterWrite DEF Statuses
    <3> QED BY <2>2, <3>3, <3>4 DEF CardTypeOK
  <2>5. CASE ~(c.balance > 0)
    <3>1. cardEntries' = cardEntries
      BY <1>6, <2>5 DEF Close
    <3> HIDE DEF c, closed
    <3>2. CardInv' /\ (~stale' => cardStatus = c.status)
      BY <2>1, <2>3, <3>1, PlainKeeps DEF Statuses
    <3> QED BY <2>2, <3>2
  <2> QED BY <2>4, <2>5
<1>7. ASSUME NEW s \in CardSessions, RollBackRequest(s) PROVE Kept
  <2>1. RequestsOK'
    BY <1>7 DEF RollBackRequest, RequestsOK, Loaded
  <2> QED BY <1>7, <2>1 DEF RollBackRequest, CardTypeOK, EntriesOK, ClosedOnce,
             StatusTellsBalance
<1>8. CASE UNCHANGED cardVars
  BY <1>8 DEF cardVars, CardTypeOK, EntriesOK, RequestsOK, Loaded, ClosedOnce,
     StatusTellsBalance
<1> HIDE DEF Kept, CardInv
<1>9. ASSUME NEW s \in CardSessions,
             \E kind \in {"activate", "suspend", "reinstate", "cancel", "expire"} :
               Load(s, kind, 0)
      PROVE  Kept
  BY <1>1, <1>9 DEF Kinds
<1>10. ASSUME NEW s \in CardSessions,
              \E kind \in {"redeem", "credit", "debit"}, amount \in CardAmounts :
                Load(s, kind, amount)
       PROVE  Kept
  BY <1>1, <1>10, AmountAssumption DEF Kinds
<1>11. ASSUME NEW s \in CardSessions, \E n \in DOMAIN cardEntries : LoadReversal(s, n)
       PROVE  Kept
  BY <1>2, <1>11
<1>12. CASE CardNext
  <2>1. PICK s \in CardSessions :
          \/ \E kind \in {"activate", "suspend", "reinstate", "cancel", "expire"} :
               Load(s, kind, 0)
          \/ \E kind \in {"redeem", "credit", "debit"}, amount \in CardAmounts :
               Load(s, kind, amount)
          \/ \E n \in DOMAIN cardEntries : LoadReversal(s, n)
          \/ ChangeStatus(s) \/ Redeem(s) \/ Adjust(s)
          \/ ReverseCardEntry(s) \/ Close(s)
          \/ RollBackRequest(s)
    BY <1>12 DEF CardNext
  <2> QED BY <1>3, <1>4, <1>5, <1>6, <1>7, <1>9, <1>10, <1>11, <2>1
<1> QED BY <1>8, <1>12

LEMMA Inductive == CardSpec => []CardInv
<1>1. CardInv /\ [CardNext]_cardVars => CardInv'
  BY StepKeeps DEF Kept
<1> QED BY <1>1, InitOK, PTL DEF CardSpec

-----------------------------------------------------------------------------
(* The row keeps to the CHECK constraints of gift_cards, whatever overlaps.*)
THEOREM CardsTypeCorrect == CardSpec => []CardTypeOK
BY Inductive, PTL DEF CardInv

(* cancel_card and expire_card: each posts what is left away at most once. *)
THEOREM ClosingIsPostedOnce == CardSpec => []ClosedOnce
BY Inductive, PTL DEF CardInv

(* status_for_balance: the status tells what is left on the card, as long  *)
(* as no commit was computed on an outdated copy.                          *)
THEOREM CardStatusIsTrue == CardSpec => []StatusTellsBalance
BY Inductive, PTL DEF CardInv

(* Nor does a closed card come back.                                       *)
THEOREM ClosedStays == CardSpec => ClosedIsFinal
<1>1. CardInv /\ [CardNext]_cardVars =>
        [cardStatus' # cardStatus /\ ~stale' =>
           cardStatus \notin {"cancelled", "expired"}]_cardVars
  BY StepKeeps DEF Kept
<1> QED BY <1>1, Inductive, PTL DEF CardSpec, ClosedIsFinal

-----------------------------------------------------------------------------
(* The ledger accounts for at least what is left on the card.              *)
NetCovers == ~stale => Net >= cardBalance

LEMMA CardEntriesAre ==
  ASSUME EntriesOK
  PROVE  /\ Len(cardEntries) \in Nat /\ DOMAIN cardEntries = 1 .. Len(cardEntries)
         /\ \A n \in DOMAIN cardEntries : cardEntries[n].delta \in Int
<1> DEFINE Row == [kind : EntryKinds, delta : Int, of : Nat]
<1>1. cardEntries \in Seq(Row)
  BY DEF EntriesOK
<1>2. \A e \in Row : e.delta \in Int
  OBVIOUS
<1> HIDE DEF Row
<1>3. /\ Len(cardEntries) \in Nat /\ DOMAIN cardEntries = 1 .. Len(cardEntries)
      /\ \A n \in DOMAIN cardEntries : cardEntries[n] \in Row
  BY <1>1
<1>4. QED  BY <1>2, <1>3

LEMMA NetInt == ASSUME EntriesOK  PROVE Net \in Int
<1> DEFINE f == [n \in DOMAIN cardEntries |-> cardEntries[n].delta]
<1>1. Len(cardEntries) \in Nat /\ DOMAIN cardEntries = 1 .. Len(cardEntries)
  BY CardEntriesAre
<1>2. IsFiniteSet(DOMAIN cardEntries)
  BY <1>1, FS_Interval
<1>3. DOMAIN f = DOMAIN cardEntries /\ \A n \in DOMAIN cardEntries : f[n] \in Int
  BY CardEntriesAre
<1>4. Net = SumFunctionOnSet(f, DOMAIN f)
  BY CardSums DEF Net
<1> HIDE DEF f
<1>5. QED  BY <1>2, <1>3, <1>4, SumType

(* An entry more adds what it moves.                                       *)
LEMMA NetOfAppend ==
  ASSUME EntriesOK, NEW e, e.delta \in Int, cardEntries' = Append(cardEntries, e)
  PROVE  Net' = Net + e.delta
<1> DEFINE D == DOMAIN cardEntries
           f == [n \in D |-> cardEntries[n].delta]
           g == [n \in DOMAIN cardEntries' |-> cardEntries'[n].delta]
           last == Len(cardEntries) + 1
<1>1. /\ DOMAIN cardEntries' = D \union {last} /\ last \notin D
      /\ cardEntries'[last] = e /\ \A n \in D : cardEntries'[n] = cardEntries[n]
  BY CardEntriesAre DEF EntriesOK
<1>2. IsFiniteSet(D) /\ \A n \in D : f[n] \in Int
  BY CardEntriesAre, FS_Interval
<1>3. g[last] = e.delta /\ \A n \in D : g[n] = f[n]
  BY <1>1
<1>4. Net = SumFunctionOnSet(f, D) /\ Net' = SumFunctionOnSet(g, D \union {last})
  BY <1>1, CardSums DEF Net
<1> HIDE DEF f, g, D, last
<1>5. SumFunctionOnSet(g, D \union {last}) = g[last] + SumFunctionOnSet(g, D)
  BY <1>1, <1>2, <1>3, SumAdd
<1>6. SumFunctionOnSet(g, D) = SumFunctionOnSet(f, D) /\ SumFunctionOnSet(f, D) \in Int
  BY <1>2, <1>3, SumSame, SumType
<1>7. QED  BY <1>3, <1>4, <1>5, <1>6

(* A commit on the card as it stood leaves on it what it computed.         *)
LEMMA WriteCovers ==
  ASSUME CardInv, NetCovers, NEW s \in CardSessions, NEW seen, NEW new, NEW left \in Int,
         Write(s, seen, new, left), Net' \in Int,
         ~stale /\ seen.balance = cardBalance => Net' >= left
  PROVE  NetCovers'
<1>1. ~stale' => ~stale /\ seen.balance = cardBalance /\ cardBalance' = left
  BY DEF Write
<1>2. QED  BY <1>1 DEF NetCovers

LEMMA NextCovers == CardInv /\ NetCovers /\ [CardNext]_cardVars => NetCovers'
<1> SUFFICES ASSUME CardInv, NetCovers, [CardNext]_cardVars  PROVE NetCovers'
  OBVIOUS
<1>1. EntriesOK /\ Net \in Int /\ cardBalance \in Int /\ cardBalance >= 0 /\ Initial \in Int
  BY NetInt, AmountAssumption DEF CardInv, CardTypeOK
<1>2. ASSUME UNCHANGED <<cardBalance, cardEntries, stale>>  PROVE NetCovers'
  BY <1>2 DEF NetCovers, Net
<1>3. ASSUME NEW s \in CardSessions, NEW seen, NEW e, seen.balance \in Int, e.delta \in Int,
             PostEntry(s, seen, e)
      PROVE  NetCovers'
  <2> DEFINE left == Capped(seen.balance + e.delta)
             new  == StatusAfter(seen, left)
  <2>1. Write(s, seen, new, left) /\ cardEntries' = Append(cardEntries, e)
    BY <1>3 DEF PostEntry
  <2>2. left \in Int /\ left <= seen.balance + e.delta
    BY <1>1, <1>3 DEF Capped
  <2>3. Net' = Net + e.delta
    BY <1>1, <1>3, <2>1, NetOfAppend
  <2> HIDE DEF left, new
  <2>4. ~stale /\ seen.balance = cardBalance => Net' >= left
    BY <1>1, <1>3, <2>2, <2>3 DEF NetCovers
  <2>5. Net' \in Int
    BY <1>1, <1>3, <2>3
  <2>6. QED  BY <2>1, <2>2, <2>4, <2>5, WriteCovers
<1>4. ASSUME NEW s \in CardSessions, ChangeStatus(s)  PROVE NetCovers'
  <2>1. Loaded(cardRequest[s]) /\ cardEntries' = cardEntries
        /\ \E new : Write(s, cardRequest[s], new, cardRequest[s].balance)
    BY <1>4 DEF CardInv, ChangeStatus, RequestsOK, Idle
  <2>2. cardRequest[s].balance \in Int /\ Net' = Net
    BY <2>1 DEF Loaded, Net
  <2>3. QED  BY <1>1, <2>1, <2>2, WriteCovers DEF NetCovers
<1>5. ASSUME NEW s \in CardSessions, Redeem(s) \/ Adjust(s)  PROVE NetCovers'
  <2>1. Loaded(cardRequest[s])
    BY <1>5 DEF CardInv, Redeem, Adjust, RequestsOK, Idle
  <2>2. cardRequest[s].balance \in Int /\ cardRequest[s].amount \in Int
    BY <2>1 DEF Loaded
  <2>3. \E e : e.delta \in Int /\ PostEntry(s, cardRequest[s], e)
    <3>1. \A kind, delta : CardEntry(kind, delta, 0).delta = delta
      BY DEF CardEntry
    <3>2. -cardRequest[s].amount \in Int
      BY <2>2
    <3>3. QED  BY <1>5, <2>2, <3>1, <3>2 DEF Redeem, Adjust
  <2>4. QED  BY <1>3, <2>2, <2>3
<1>6. ASSUME NEW s \in CardSessions, ReverseCardEntry(s)  PROVE NetCovers'
  <2> DEFINE n == cardRequest[s].of
             e == CardEntry("reverse", -cardEntries[n].delta, n)
             seen == [status |-> cardStatus, balance |-> cardBalance]
  <2>1. n \in DOMAIN cardEntries
    BY <1>1, <1>6, CardEntriesAre DEF CardInv, ReverseCardEntry, RequestsOK, Idle,
       Loaded, Kinds
  <2>2. cardEntries[n].delta \in Int
    BY <1>1, <2>1, CardEntriesAre
  <2>3. e.delta \in Int /\ seen.balance \in Int
    BY <1>1, <2>2 DEF CardEntry
  <2>4. PostEntry(s, seen, e)
    BY <1>6 DEF ReverseCardEntry
  <2> HIDE DEF e, seen
  <2>5. QED  BY <1>3, <2>3, <2>4
<1>7. ASSUME NEW s \in CardSessions, Close(s)  PROVE NetCovers'
  <2> DEFINE c == cardRequest[s]
  <2>1. Loaded(c) /\ \E new : Write(s, c, new, 0)
    BY <1>7 DEF CardInv, Close, RequestsOK, Idle
  <2>2. c.balance \in Int /\ c.balance >= 0
    BY <2>1 DEF Loaded
  <2>3. CASE c.balance > 0
    <3> DEFINE e == CardEntry(c.kind, -c.balance, 0)
    <3>1. cardEntries' = Append(cardEntries, e) /\ e.delta = -c.balance
      BY <1>7, <2>3 DEF Close, CardEntry
    <3>2. Net' = Net - c.balance
      BY <1>1, <2>2, <3>1, NetOfAppend
    <3> HIDE DEF c
    <3>3. Net' \in Int /\ (~stale /\ c.balance = cardBalance => Net' >= 0)
      BY <1>1, <2>2, <3>2 DEF NetCovers
    <3>4. QED  BY <2>1, <3>3, WriteCovers
  <2>4. CASE ~(c.balance > 0)
    <3>1. Net' = Net
      BY <1>7, <2>4 DEF Close, Net
    <3>2. Net' \in Int /\ (~stale => Net' >= 0)
      BY <1>1, <3>1 DEF NetCovers
    <3>3. QED  BY <2>1, <3>2, WriteCovers
  <2>5. QED  BY <2>3, <2>4
<1>8. CASE CardNext
  <2>1. PICK s \in CardSessions :
          \/ \E kind, amount : Load(s, kind, amount)
          \/ \E n \in DOMAIN cardEntries : LoadReversal(s, n)
          \/ ChangeStatus(s) \/ Redeem(s) \/ Adjust(s)
          \/ ReverseCardEntry(s) \/ Close(s)
          \/ RollBackRequest(s)
    BY <1>8 DEF CardNext
  <2>2. CASE \/ \E kind, amount : Load(s, kind, amount)
             \/ \E n \in DOMAIN cardEntries : LoadReversal(s, n)
             \/ RollBackRequest(s)
    BY <1>2, <2>2 DEF Load, LoadReversal, RollBackRequest
  <2>3. QED  BY <1>4, <1>5, <1>6, <1>7, <2>1, <2>2
<1>9. CASE UNCHANGED cardVars
  BY <1>2, <1>9 DEF cardVars
<1>10. QED  BY <1>8, <1>9

(* No mix of redemptions, corrections, reversals and closings pays out     *)
(* more than was put on the card, unless a commit was computed on an       *)
(* outdated copy (app/gift_cards/ledger.py).                               *)
THEOREM OverspendNeedsStaleCopy == CardSpec => []OverspendOnlyIfStale
<1>1. CardInit => NetCovers
  <2> SUFFICES ASSUME CardInit  PROVE Net = cardBalance /\ cardBalance \in Int
    BY DEF NetCovers
  <2> DEFINE f == [n \in DOMAIN cardEntries |-> cardEntries[n].delta]
  <2>0. PICK e : e = CardEntry("issue", Initial, 0) /\ cardEntries = <<e>>
    BY DEF CardInit
  <2>1. /\ DOMAIN cardEntries = {} \union {1} /\ f[1] = Initial /\ Initial \in Int
        /\ cardBalance = Initial
    BY <2>0, AmountAssumption DEF CardInit, CardEntry
  <2>4. Net = SumFunctionOnSet(f, DOMAIN cardEntries)
    BY CardSums DEF Net
  <2> HIDE DEF f
  <2>2. SumFunctionOnSet(f, {} \union {1}) = f[1] + SumFunctionOnSet(f, {})
    BY <2>1, FS_EmptySet, SumAdd
  <2>3. QED  BY <2>1, <2>2, <2>4, SumEmpty
<1>2. CardInv /\ NetCovers => OverspendOnlyIfStale
  BY NetInt DEF CardInv, CardTypeOK, NetCovers, OverspendOnlyIfStale
<1>3. CardInv /\ NetCovers /\ [CardNext]_cardVars => (CardInv /\ NetCovers)'
  BY NextCovers, StepKeeps DEF Kept
<1>4. QED
  BY <1>1, <1>2, <1>3, InitOK, PTL DEF CardSpec
=============================================================================

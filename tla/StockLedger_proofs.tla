-------------------------- MODULE StockLedger_proofs --------------------------
(***************************************************************************)
(* For any number of rows, batches, documents, requests and lines: every   *)
(* balance, every batch and the roll-up of the item is the sum it should   *)
(* be, a document moves what its lines say once, and an approved count     *)
(* corrects the books by what was found.  The invariant says of a request  *)
(* in progress what still holds of the copies it took: of the locked rows  *)
(* that they stand where they were read, of the document that it is either *)
(* as it was or past the status from which the request may go on, of the   *)
(* roll-up that it has moved only if the request was overlapped.  The sums *)
(* are those of SumTheorems: a commit adds a disjoint set of movements.    *)
(***************************************************************************)
EXTENDS StockLedger, SumTheorems, TLAPS

-----------------------------------------------------------------------------
(* What sets of movements add up to.                                       *)

Moves(P) == IsFiniteSet(P) /\ \A p \in P : p.row \in Rows /\ p.delta \in Int

At(P, row) == {p \in P : p.row = row}

LEMMA AmountIs ==
  ASSUME NEW P, Moves(P), NEW T \in SUBSET P
  PROVE  /\ IsFiniteSet(T) /\ Amount(T) = SumFunctionOnSet([p \in P |-> p.delta], T)
         /\ Amount(T) \in Int
<1>1. IsFiniteSet(T)
  BY FS_Subset DEF Moves
<1>2. \A p \in T : [q \in T |-> q.delta][p] = [q \in P |-> q.delta][p]
                   /\ [q \in P |-> q.delta][p] \in Int
  BY DEF Moves
<1>3. QED  BY <1>1, <1>2, SumSame, SumType DEF Amount

LEMMA DeltaType ==
  ASSUME NEW P, Moves(P), NEW row
  PROVE  DeltaAt(P, row) \in Int
  BY AmountIs DEF DeltaAt

LEMMA AmountUnion ==
  ASSUME NEW P, Moves(P), NEW A \in SUBSET P, NEW B \in SUBSET P, A \cap B = {}
  PROVE  Amount(A \union B) = Amount(A) + Amount(B)
<1> DEFINE f == [p \in P |-> p.delta]
<1>1. /\ IsFiniteSet(A) /\ IsFiniteSet(B) /\ A \union B \in SUBSET P
      /\ \A x \in A \union B : f[x] \in Int
  BY AmountIs DEF Moves
<1>2. /\ Amount(A) = SumFunctionOnSet(f, A) /\ Amount(B) = SumFunctionOnSet(f, B)
      /\ Amount(A \union B) = SumFunctionOnSet(f, A \union B)
  BY <1>1, AmountIs
<1> HIDE DEF f
<1>3. QED  BY <1>1, <1>2, SumUnion

LEMMA DeltaUnion ==
  ASSUME NEW P, Moves(P), NEW Q, Moves(Q), P \cap Q = {}, NEW row
  PROVE  /\ Moves(P \union Q)
         /\ DeltaAt(P \union Q, row) = DeltaAt(P, row) + DeltaAt(Q, row)
<1>1. Moves(P \union Q)
  BY FS_Union DEF Moves
<1>2. /\ {p \in P \union Q : p.row = row}
           = {p \in P : p.row = row} \union {p \in Q : p.row = row}
      /\ {p \in P : p.row = row} \cap {p \in Q : p.row = row} = {}
  OBVIOUS
<1>3. QED  BY <1>1, <1>2, AmountUnion DEF DeltaAt

(* Movements written down again, one by one, amount to the same, or to     *)
(* nothing with them if each is turned round.                              *)
LEMMA DeltaImage ==
  ASSUME NEW P, Moves(P), NEW I, NEW h \in Bijection(P, I),
         \A p \in P : h[p].row = p.row, NEW row
  PROVE  /\ (\A p \in P : h[p].delta = p.delta) =>
              Moves(I) /\ DeltaAt(I, row) = DeltaAt(P, row)
         /\ (\A p \in P : h[p].delta = -p.delta) =>
              Moves(I) /\ DeltaAt(I, row) = -DeltaAt(P, row)
<1>0. I = {h[p] : p \in P} /\ \A p, q \in P : h[p] = h[q] => p = q
  BY DEF Bijection, Surjection, Injection, IsInjective
<1> DEFINE PR == {p \in P : p.row = row}
           IR == {q \in I : q.row = row}
           f == [p \in PR |-> p.delta]
           g == [q \in IR |-> q.delta]
<1>1. IR = {h[p] : p \in PR} /\ PR \subseteq P
  BY <1>0
<1>2. IsFiniteSet(PR) /\ \A p \in PR : f[p] \in Int
  BY FS_Subset DEF Moves
<1>3. \A p, q \in PR : h[p] = h[q] => p = q
  BY <1>0
<1>4. IsFiniteSet(I)
  BY <1>0, ImageFinite DEF Moves
<1>5. DeltaAt(P, row) = SumFunctionOnSet(f, PR) /\ DeltaAt(I, row) = SumFunctionOnSet(g, IR)
  BY DEF DeltaAt, Amount
<1>6. ASSUME \A p \in P : h[p].delta = p.delta
      PROVE  Moves(I) /\ DeltaAt(I, row) = DeltaAt(P, row)
  <2>1. \A p \in PR : g[h[p]] = f[p]
    BY <1>1, <1>6
  <2>2. SumFunctionOnSet(g, {h[p] : p \in PR}) = SumFunctionOnSet(f, PR)
    <3> HIDE DEF f, g, PR
    <3>1. QED  BY <1>2, <1>3, <2>1, SumImage
  <2>3. Moves(I)
    BY <1>0, <1>4, <1>6 DEF Moves
  <2>4. DeltaAt(I, row) = DeltaAt(P, row)
    <3> HIDE DEF f, g, PR, IR
    <3>1. QED  BY <1>1, <1>5, <2>2
  <2>5. QED  BY <2>3, <2>4
<1>7. ASSUME \A p \in P : h[p].delta = -p.delta
      PROVE  Moves(I) /\ DeltaAt(I, row) = -DeltaAt(P, row)
  <2> DEFINE k == [p \in PR |-> -p.delta]
  <2>1. \A p \in PR : g[h[p]] = k[p] /\ k[p] \in Int /\ k[p] = -f[p]
    BY <1>1, <1>2, <1>7
  <2>2. SumFunctionOnSet(g, {h[p] : p \in PR}) = SumFunctionOnSet(k, PR)
    <3> HIDE DEF f, g, k, PR
    <3>1. QED  BY <1>2, <1>3, <2>1, SumImage
  <2>3. SumFunctionOnSet(k, PR) = -SumFunctionOnSet(f, PR)
    <3> HIDE DEF f, k, PR
    <3>1. QED  BY <1>2, <2>1, SumNegate
  <2>4. Moves(I)
    BY <1>0, <1>4, <1>7 DEF Moves
  <2>5. QED  BY <1>1, <1>5, <2>2, <2>3, <2>4
<1>8. QED  BY <1>6, <1>7

LEMMA DeltaNone ==
  ASSUME NEW P, NEW row, row \notin Touched(P)
  PROVE  DeltaAt(P, row) = 0
<1>1. {p \in P : p.row = row} = {}
  BY DEF Touched
<1>2. Amount({}) = 0
  BY SumEmpty DEF Amount
<1>3. QED  BY <1>1, <1>2 DEF DeltaAt

(* The rows of one batch.                                                  *)
LEMMA BatchRows ==
  ASSUME NEW b \in Batches
  PROVE  /\ {row \in Rows : row[2] = b} = {<<Store, b>>, <<Kitchen, b>>}
         /\ <<Store, b>> \in Rows /\ <<Kitchen, b>> \in Rows /\ <<Store, b>> # <<Kitchen, b>>
  BY StockAssumption DEF Rows, Locations

LEMMA TotalOfBatch ==
  ASSUME NEW b \in Batches, NEW f, \A row \in Rows : f[row] \in Int
  PROVE  Total(f, {row \in Rows : row[2] = b}) = f[<<Store, b>>] + f[<<Kitchen, b>>]
<1>1. IsFiniteSet({<<Store, b>>}) /\ IsFiniteSet({<<Kitchen, b>>})
  BY FS_Singleton
<1>2. /\ SumFunctionOnSet(f, {<<Store, b>>}) = f[<<Store, b>>]
      /\ SumFunctionOnSet(f, {<<Kitchen, b>>}) = f[<<Kitchen, b>>]
  BY BatchRows, SumSingleton
<1>3. {<<Store, b>>} \union {<<Kitchen, b>>} = {row \in Rows : row[2] = b}
      /\ {<<Store, b>>} \cap {<<Kitchen, b>>} = {}
  BY BatchRows
<1>4. SumFunctionOnSet(f, {<<Store, b>>} \union {<<Kitchen, b>>})
        = SumFunctionOnSet(f, {<<Store, b>>}) + SumFunctionOnSet(f, {<<Kitchen, b>>})
  BY <1>1, <1>3, BatchRows, SumUnion
<1>5. QED  BY <1>2, <1>3, <1>4 DEF Total

LEMMA DeltaOfBatch ==
  ASSUME NEW b \in Batches, NEW P, Moves(P)
  PROVE  DeltaOf(P, b) = DeltaAt(P, <<Store, b>>) + DeltaAt(P, <<Kitchen, b>>)
<1> DEFINE A == {p \in P : p.row = <<Store, b>>}
           B == {p \in P : p.row = <<Kitchen, b>>}
<1>1. \A p \in P : p.row[2] = b <=> p.row \in {row \in Rows : row[2] = b}
  BY DEF Moves
<1>2. {p \in P : p.row[2] = b} = A \union B /\ A \cap B = {}
  BY <1>1, BatchRows
<1>3. QED  BY <1>2, AmountUnion DEF DeltaOf, DeltaAt

LEMMA RowsFinite == IsFiniteSet(Rows)
<1>1. Locations = {Store, Kitchen} /\ IsFiniteSet({Store, Kitchen})
  <2>1. IsFiniteSet({Store}) /\ {Store} \union {Kitchen} = {Store, Kitchen}
    BY FS_Singleton
  <2>2. QED  BY <2>1, FS_AddElement DEF Locations
<1>2. IsFiniteSet(Batches \union {NoBatch})
  BY StockAssumption, FS_AddElement
<1>3. QED  BY <1>1, <1>2, FS_Product DEF Rows

-----------------------------------------------------------------------------
(* The invariant.                                                          *)

Ops == {"post", "reverse", "approve", "adjust", "rebuild", "start", "record", "submit", "cancel"}
CountOps == {"approve", "start", "record", "submit", "cancel"}
CountStatuses == {"draft", "in_progress", "submitted", "approved", "cancelled"}
DocumentStatuses == {"draft", "posted", "reversed"}

(* The statuses from which each request goes on, and those a document can  *)
(* still have after one.                                                   *)
From(op) ==
  CASE op \in {"post", "start"}    -> {"draft"}
    [] op = "reverse"              -> {"posted"}
    [] op = "approve"              -> {"submitted"}
    [] op \in {"record", "submit"} -> {"in_progress"}
    [] OTHER                       -> {"draft", "in_progress", "submitted"}

Onward(st) ==
  CASE st = "draft"       -> CountStatuses \union DocumentStatuses
    [] st = "in_progress" -> {"in_progress", "submitted", "approved", "cancelled"}
    [] st = "submitted"   -> {"submitted", "approved", "cancelled"}
    [] st = "posted"      -> {"posted", "reversed"}
    [] OTHER              -> {st}

CountedOK(c) ==
  \/ c = Unknown
  \/ c \in [known : {TRUE}, variance : Int, gap : Int, calm : BOOLEAN]
     /\ (c.calm => c.variance = -c.gap)

LineOK(l) ==
  /\ l = [n |-> l.n, row |-> l.row, system |-> l.system, counted |-> l.counted]
  /\ l.n \in Nat /\ l.row \in Rows /\ l.system \in Int /\ CountedOK(l.counted)

OneLineARow(S) == \A l, k \in S : l.row = k.row => l = k

Plan(P) == IsFiniteSet(P) /\ P \subseteq [n : Nat, row : Rows, delta : Int]

PlanOK(w) ==
  /\ w.op \in Posting \union {"start"} => Plan(w.plan)
  /\ w.op = "rebuild" => w.plan = {}
  /\ w.op = "start" => OneLineARow(w.plan)
  /\ w.op = "record" => \E p : w.plan = {p} /\ CountedOK(p.counted) /\ p.counted.known

DocumentOf(w) ==
  /\ w.op \in {"post", "reverse"} => w.doc \in Receipts \union Transfers
  /\ w.op \in CountOps => w.doc \in Counts
  /\ w.op \in {"adjust", "rebuild"} => w.doc = "none"
  /\ w.doc \in Documents => w.status \in From(w.op)

ReadOK(w) ==
  /\ w = [phase |-> "read", op |-> w.op, doc |-> w.doc, plan |-> w.plan,
          undone |-> w.undone, sums |-> w.sums, status |-> w.status,
          remaining |-> w.remaining, rollup |-> w.rollup, alone |-> w.alone]
  /\ w.op \in Ops /\ (w.op = "rebuild" => w.sums \in [Rows -> Int])

LockOK(w) ==
  /\ w = [phase |-> "locked", op |-> w.op, doc |-> w.doc, plan |-> w.plan,
          undone |-> w.undone, status |-> w.status, remaining |-> w.remaining,
          new |-> w.new, early |-> w.early, sum |-> w.sum, rollup |-> w.rollup,
          alone |-> w.alone]
  /\ w.op \in Posting /\ w.sum \in Int
  /\ DOMAIN w.new \subseteq Rows /\ \A row \in DOMAIN w.new : w.new[row] \in Int
  /\ w.op # "rebuild" => DOMAIN w.new = Touched(w.plan)
  /\ DOMAIN w.early = IF w.op = "rebuild" THEN DOMAIN w.new ELSE {}
  /\ \A row \in DOMAIN w.early : w.early[row] \in Int

WorkOK(w) ==
  \/ w = Idle
  \/ /\ ReadOK(w) \/ LockOK(w)
     /\ PlanOK(w) /\ DocumentOf(w)
     /\ w.remaining \in [Batches -> Int] /\ w.rollup \in Int /\ w.alone \in BOOLEAN

TablesOK ==
  /\ tracked \in BOOLEAN /\ made \subseteq Batches
  /\ onHand \in [Rows -> Int] /\ ledger \in [Rows -> Int] /\ gap \in [Rows -> Int]
  /\ missed \in [Rows -> Int]
  /\ remaining \in [Batches -> Int] /\ rollup \in Int
  /\ status = [d \in Documents |-> status[d]]
  /\ lines = [k \in Counts |-> lines[k]]
  /\ \A k \in Counts : IsFiniteSet(lines[k]) /\ \A l \in lines[k] : LineOK(l)
  /\ IsFiniteSet(moves)
  /\ moves \subseteq [doc : Documents, n : Nat, row : Rows, delta : Int, reversed : BOOLEAN]

WorksOK ==
  /\ work = [s \in Sessions |-> work[s]]
  /\ \A s \in Sessions : WorkOK(work[s])

(* What is locked is still as it was when it was read, and a rebuild will  *)
(* leave out no more than it did when it locked.                           *)
Holds(w) ==
  w.phase = "locked" =>
    \A row \in DOMAIN w.new :
      IF w.op = "rebuild" THEN w.new[row] = ledger[row] - w.early[row]
      ELSE w.new[row] = onHand[row] + DeltaAt(w.plan, row)

LocksOK ==
  /\ \A s \in Sessions : Holds(work[s])
  /\ \A s, t \in Sessions :
       s # t /\ work[s].phase = "locked" /\ work[t].phase = "locked" =>
         DOMAIN work[s].new \cap DOMAIN work[t].new = {}

(* A request that nobody overlapped knows the roll-up and its sum.         *)
Knows(w) ==
  w # Idle /\ w.alone =>
    /\ w.rollup = rollup
    /\ w.phase = "locked" =>
         w.sum = Total(w.new, DOMAIN w.new) + Total(onHand, Rows \ DOMAIN w.new)

RollupOK == RollupIsTotal /\ \A s \in Sessions : Knows(work[s])

AllKnown(k) == \A l \in lines[k] : l.counted.known

(* A movement of a document, from its plan.                                *)
Posted(d, p) ==
  [doc |-> d, n |-> p.n, row |-> p.row, delta |-> p.delta, reversed |-> FALSE]

(* A request on a document that nobody has changed since has planned what  *)
(* the document says.                                                      *)
Current(w) ==
  w # Idle /\ w.doc \in Documents \ raced =>
    /\ status[w.doc] \in Onward(w.status)
    /\ w.status = status[w.doc] =>
         /\ w.op = "post" => w.plan = Planned(w.doc)
         /\ w.op = "reverse" => /\ w.plan = Undo(MovesOf(w.doc))
                                /\ w.undone = {m.n : m \in MovesOf(w.doc)}
         /\ w.op = "approve" => w.plan = CountMoves(w.doc)
         /\ w.op = "submit" => AllKnown(w.doc)

DocumentOK(d) ==
  /\ d \in Counts => status[d] \in CountStatuses
  /\ d \notin Counts => status[d] \in DocumentStatuses
  /\ status[d] \notin {"posted", "reversed", "approved"} => MovesOf(d) = {}
  /\ status[d] = "posted" => MovesOf(d) = {Posted(d, p) : p \in Planned(d)}
  /\ status[d] = "reversed" => \A row \in Rows : DeltaAt(MovesOf(d), row) = 0
  /\ status[d] = "approved" =>
       \A row \in Rows : DeltaAt(MovesOf(d), row) = DeltaAt(CountMoves(d), row)

CountOK(k) ==
  /\ status[k] = "draft" => lines[k] = {}
  /\ OneLineARow(lines[k])
  /\ status[k] \in {"submitted", "approved"} => AllKnown(k)

DocumentsOK ==
  /\ \A s \in Sessions : Current(work[s])
  /\ \A d \in Documents \ raced : DocumentOK(d)
  /\ \A k \in Counts \ raced : CountOK(k)

IInv ==
  /\ TablesOK /\ WorksOK /\ LocksOK /\ RollupOK /\ DocumentsOK
  /\ BalanceIsLedger /\ BatchIsLedger

stockVars ==
  <<tracked, made, onHand, remaining, rollup, ledger, moves, status, lines,
    raced, stale, missed, exact>>

LEMMA DocumentsIs ==
  /\ Documents = Receipts \union Transfers \union Counts
  /\ \A d \in Receipts \union Transfers : d \notin Counts
  /\ "none" \notin Documents
  BY StockAssumption DEF Documents

LEMMA InitHolds == Init => IInv
<1> SUFFICES ASSUME Init  PROVE IInv
  OBVIOUS
<1>1. TablesOK
  <2>1. ledger \in [Rows -> Int] /\ onHand \in [Rows -> Int]
    BY StockAssumption DEF Init
  <2>2. \A k \in Counts : lines[k] = {} /\ IsFiniteSet(lines[k])
    BY FS_EmptySet DEF Init
  <2>3. rollup \in Int
    BY StockAssumption DEF Init
  <2>4. IsFiniteSet(moves)
    BY FS_EmptySet DEF Init
  <2>5. QED  BY <2>1, <2>2, <2>3, <2>4 DEF Init, TablesOK
<1>2. WorksOK
  BY DEF Init, WorksOK, WorkOK
<1>3. LocksOK
  BY DEF Init, LocksOK, Holds, Idle
<1>4. RollupOK
  <2> DEFINE row == <<Store, NoBatch>>
             zero == [r \in Rows |-> 0]
  <2>1. row \in Rows
    BY DEF Rows, Locations
  <2>2. /\ \A y \in Rows : zero[y] \in Int /\ onHand[y] \in Int
        /\ \A y \in Rows \ {row} : onHand[y] = zero[y]
        /\ zero[row] = 0 /\ onHand[row] = rollup
    BY <2>1, StockAssumption DEF Init
  <2>3. SumFunctionOnSet(zero, Rows) = 0
    BY RowsFinite, SumZero
  <2> HIDE DEF zero, row
  <2>4. SumFunctionOnSet(onHand, Rows)
          = SumFunctionOnSet(zero, Rows) - zero[row] + onHand[row]
    BY <2>1, <2>2, RowsFinite, SumUpdate
  <2>5. rollup \in Int
    BY <1>1 DEF TablesOK
  <2>6. RollupIsTotal
    BY <2>2, <2>3, <2>4, <2>5 DEF RollupIsTotal, Total
  <2>7. QED  BY <2>6 DEF RollupOK, Knows, Init
<1>5. DocumentsOK
  BY DocumentsIs
  DEF Init, DocumentsOK, Current, DocumentOK, CountOK, MovesOf, OneLineARow,
      CountStatuses, DocumentStatuses
<1>6. BalanceIsLedger
  BY DEF Init, BalanceIsLedger
<1>7. BatchIsLedger
  <2>1. \A b \in Batches : ledger[<<Store, b>>] = 0 /\ ledger[<<Kitchen, b>>] = 0
    BY BatchRows, StockAssumption DEF Init
  <2>2. \A b \in Batches : Total(ledger, {row \in Rows : row[2] = b}) = 0
    <3>1. \A row \in Rows : ledger[row] \in Int
      BY <1>1 DEF TablesOK
    <3>2. \A b \in Batches : Total(ledger, {row \in Rows : row[2] = b})
                             = ledger[<<Store, b>>] + ledger[<<Kitchen, b>>]
      BY <3>1, TotalOfBatch
    <3>3. ASSUME NEW b \in Batches
          PROVE  Total(ledger, {row \in Rows : row[2] = b}) = 0
      <4>1. ledger[<<Store, b>>] + ledger[<<Kitchen, b>>] = 0
        BY <2>1
      <4>2. QED  BY <3>2, <4>1
    <3>4. QED  BY <3>3
  <2>3. QED  BY <2>2 DEF BatchIsLedger, Init
<1>8. QED  BY <1>1, <1>2, <1>3, <1>4, <1>5, <1>6, <1>7 DEF IInv

-----------------------------------------------------------------------------
(* Steps that only change what a request knows.                            *)
LEMMA WorksKeep ==
  ASSUME IInv, UNCHANGED stockVars, gap' \in [Rows -> Int],
         work' = [t \in Sessions |-> work'[t]],
         \A t \in Sessions :
           WorkOK(work'[t]) /\ Holds(work'[t]) /\ Knows(work'[t]) /\ Current(work'[t]),
         \A s, t \in Sessions :
           s # t /\ work'[s].phase = "locked" /\ work'[t].phase = "locked" =>
             DOMAIN work'[s].new \cap DOMAIN work'[t].new = {}
  PROVE  IInv'
<1>2. UNCHANGED <<tracked, made, onHand, remaining, rollup, ledger, moves, status, lines,
                  raced, stale, missed, exact>>
  BY DEF stockVars
<1>3. TablesOK'
  BY <1>2 DEF IInv, TablesOK
<1>4. WorksOK'
  <2>1. \A t \in Sessions : WorkOK(work[t])'
    BY DEF WorkOK, ReadOK, LockOK, PlanOK, DocumentOf
  <2>2. QED  BY <2>1 DEF WorksOK
<1>5. LocksOK'
  <2>1. \A t \in Sessions : Holds(work[t])'
    BY <1>2 DEF Holds, DeltaAt, Amount
  <2>2. QED  BY <2>1 DEF LocksOK
<1>6. RollupOK'
  <2>1. \A t \in Sessions : Knows(work[t])'
    BY <1>2 DEF Knows
  <2>2. QED  BY <1>2, <2>1 DEF IInv, RollupOK, RollupIsTotal
<1>7. DocumentsOK'
  <2>1. \A d : /\ MovesOf(d)' = MovesOf(d) /\ CountMoves(d)' = CountMoves(d)
               /\ Planned(d)' = Planned(d)
    BY <1>2 DEF MovesOf, CountMoves, Planned, ReceiptMoves, TransferMoves, Batch
  <2>2. \A t \in Sessions : Current(work[t])'
    BY <1>2, <2>1 DEF Current, AllKnown
  <2>3. \A d \in Documents \ raced : DocumentOK(d)'
    BY <1>2, <2>1 DEF IInv, DocumentsOK, DocumentOK
  <2>4. \A k \in Counts \ raced : CountOK(k)'
    BY <1>2 DEF IInv, DocumentsOK, CountOK, AllKnown
  <2>5. QED  BY <1>2, <2>2, <2>3, <2>4 DEF DocumentsOK
<1>8. BalanceIsLedger' /\ BatchIsLedger'
  BY <1>2 DEF IInv, BalanceIsLedger, BatchIsLedger
<1>9. QED  BY <1>3, <1>4, <1>5, <1>6, <1>7, <1>8 DEF IInv

LEMMA WorkKeeps ==
  ASSUME IInv, NEW s \in Sessions, NEW w, work' = [work EXCEPT ![s] = w],
         UNCHANGED <<stockVars, gap>>, WorkOK(w), Holds(w), Knows(w), Current(w),
         w.phase = "locked" =>
           \A t \in Sessions \ {s} :
             work[t].phase = "locked" => DOMAIN w.new \cap DOMAIN work[t].new = {}
  PROVE  IInv'
<1>1. /\ work'[s] = w /\ \A t \in Sessions \ {s} : work'[t] = work[t]
      /\ work' = [t \in Sessions |-> work'[t]]
  BY DEF IInv, WorksOK
<1>2. \A t \in Sessions :
        WorkOK(work'[t]) /\ Holds(work'[t]) /\ Knows(work'[t]) /\ Current(work'[t])
  BY <1>1 DEF IInv, WorksOK, LocksOK, RollupOK, DocumentsOK
<1>3. \A t, u \in Sessions :
        t # u /\ work'[t].phase = "locked" /\ work'[u].phase = "locked" =>
          DOMAIN work'[t].new \cap DOMAIN work'[u].new = {}
  BY <1>1 DEF IInv, LocksOK
<1>4. gap' \in [Rows -> Int]
  BY DEF IInv, TablesOK
<1>5. QED  BY <1>1, <1>2, <1>3, <1>4, WorksKeep

(* What happens on the shelf, and what changes nothing.                    *)
LEMMA ShelfKeeps ==
  ASSUME IInv, UNCHANGED <<stockVars, work>>, gap' \in [Rows -> Int]
  PROVE  IInv'
  BY WorksKeep DEF IInv, WorksOK, LocksOK, RollupOK, DocumentsOK

LEMMA LoseKeeps ==
  ASSUME IInv, NEW row \in Rows, Lose(row)
  PROVE  IInv'
<1>1. gap' = [gap EXCEPT ![row] = gap[row] + 1] /\ UNCHANGED <<stockVars, work>>
  BY DEF Lose, stockVars
<1>2. gap' \in [Rows -> Int]
  BY <1>1 DEF IInv, TablesOK
<1>3. QED  BY <1>1, <1>2, ShelfKeeps

LEMMA BeginKeeps ==
  ASSUME IInv, NEW s \in Sessions, NEW op \in Ops, NEW d, NEW plan, NEW undone, NEW sums,
         Begin(s, op, d, plan, undone, sums),
         op \in Posting \union {"start"} => Plan(plan),
         op = "rebuild" => plan = {} /\ sums \in [Rows -> Int],
         op = "start" => OneLineARow(plan),
         op = "record" => \E p : plan = {p} /\ CountedOK(p.counted) /\ p.counted.known,
         op \in {"post", "reverse"} => d \in Receipts \union Transfers,
         op \in CountOps => d \in Counts,
         op \in {"adjust", "rebuild"} => d = "none",
         d \in Documents => status[d] \in From(op),
         d \in Documents \ raced =>
           /\ op = "post" => plan = Planned(d)
           /\ op = "reverse" => plan = Undo(MovesOf(d)) /\ undone = {m.n : m \in MovesOf(d)}
           /\ op = "approve" => plan = CountMoves(d)
           /\ op = "submit" => AllKnown(d)
  PROVE  IInv'
<1> DEFINE w == Read(op, d, plan, undone, sums)
<1>1. work' = [work EXCEPT ![s] = w] /\ UNCHANGED <<stockVars, gap>>
  BY DEF Begin, stockVars
<1>2. /\ w.phase = "read" /\ w.op = op /\ w.doc = d /\ w.plan = plan /\ w.undone = undone
      /\ w.sums = sums /\ w.status = (IF d \in Documents THEN status[d] ELSE "none")
      /\ w.remaining = remaining /\ w.rollup = rollup /\ w.alone = TRUE /\ w # Idle
      /\ w = [phase |-> "read", op |-> w.op, doc |-> w.doc, plan |-> w.plan,
              undone |-> w.undone, sums |-> w.sums, status |-> w.status,
              remaining |-> w.remaining, rollup |-> w.rollup, alone |-> w.alone]
  BY DEF Read, Idle
<1>3. remaining \in [Batches -> Int] /\ rollup \in Int
  BY DEF IInv, TablesOK
<1> HIDE DEF w
<1>4. PlanOK(w) /\ DocumentOf(w) /\ ReadOK(w)
  BY <1>2 DEF PlanOK, DocumentOf, ReadOK
<1>5. WorkOK(w)
  BY <1>2, <1>3, <1>4 DEF WorkOK
<1>6. Holds(w) /\ Knows(w)
  BY <1>2 DEF Holds, Knows
<1>7. Current(w)
  <2>1. d \in Documents => status[d] \in Onward(status[d])
    BY DEF Onward, From, CountStatuses, DocumentStatuses
  <2>2. QED  BY <1>2, <2>1 DEF Current
<1>8. QED  BY <1>1, <1>2, <1>5, <1>6, <1>7, WorkKeeps

LEMMA ReceiptPlan ==
  ASSUME IInv, NEW r \in Receipts
  PROVE  Plan(ReceiptMoves(r)) /\ \E p : ReceiptMoves(r) = {p}
<1>1. Batch(r) \in Batches \union {NoBatch}
  BY StockAssumption DEF Batch
<1>2. Move(1, <<Store, Batch(r)>>, Quantity) \in [n : Nat, row : Rows, delta : Int]
  BY <1>1, StockAssumption DEF Move, Rows, Locations
<1>3. QED  BY <1>2, FS_Singleton DEF ReceiptMoves, Plan

LEMMA TransferPlan ==
  ASSUME NEW t
  PROVE  Plan(TransferMoves(t))
<1> DEFINE out == Move(1, <<Store, NoBatch>>, -1)
           in == Move(2, <<Kitchen, NoBatch>>, 1)
<1>1. {out, in} \subseteq [n : Nat, row : Rows, delta : Int]
  BY DEF Move, Rows, Locations
<1>2. TransferMoves(t) = {out} \union {in}
  BY DEF TransferMoves
<1> HIDE DEF out, in
<1>3. IsFiniteSet({out} \union {in})
  BY FS_Singleton, FS_AddElement
<1>4. QED  BY <1>1, <1>2, <1>3 DEF Plan

LEMMA CountPlan ==
  ASSUME IInv, NEW k \in Counts
  PROVE  Plan(CountMoves(k))
<1> DEFINE S == {x \in lines[k] : x.counted.known /\ x.counted.variance # 0}
           h == [l \in S |-> Move(l.n, l.row, l.counted.variance)]
<1>1. IsFiniteSet(S) /\ \A l \in S : LineOK(l) /\ l.counted.known
  BY FS_Subset DEF IInv, TablesOK
<1>2. CountMoves(k) = {h[l] : l \in S}
  BY DEF CountMoves
<1>3. IsFiniteSet({h[l] : l \in S})
  <2> HIDE DEF S, h
  <2>1. QED  BY <1>1, ImageFinite
<1>4. ASSUME NEW l \in S  PROVE h[l] \in [n : Nat, row : Rows, delta : Int]
  <2>1. l.n \in Nat /\ l.row \in Rows /\ CountedOK(l.counted) /\ l.counted.known
    BY <1>1 DEF LineOK
  <2>2. l.counted.variance \in Int
    <3>1. l.counted # Unknown
      BY <2>1 DEF Unknown
    <3>2. QED  BY <2>1, <3>1 DEF CountedOK
  <2>3. QED  BY <2>1, <2>2 DEF Move
<1>5. QED  BY <1>2, <1>3, <1>4 DEF Plan

LEMMA UndoPlan ==
  ASSUME IInv, NEW d, NEW ms \in SUBSET MovesOf(d)
  PROVE  Plan(Undo(ms)) /\ IsFiniteSet(ms)
<1> DEFINE h == [m \in ms |-> Move(m.n, m.row, -m.delta)]
<1>1. IsFiniteSet(ms) /\ \A m \in ms : m.n \in Nat /\ m.row \in Rows /\ m.delta \in Int
  BY FS_Subset DEF IInv, TablesOK, MovesOf
<1>2. Undo(ms) = {h[m] : m \in ms}
  BY DEF Undo
<1>3. IsFiniteSet({h[m] : m \in ms})
  <2> HIDE DEF h
  <2>1. QED  BY <1>1, ImageFinite
<1>4. \A m \in ms : h[m] \in [n : Nat, row : Rows, delta : Int]
  BY <1>1 DEF Move
<1>5. QED  BY <1>1, <1>2, <1>3, <1>4 DEF Plan

LEMMA SnapshotPlan ==
  ASSUME IInv
  PROVE  Plan(Snapshot) /\ OneLineARow(Snapshot)
<1>1. CASE tracked
  <2> DEFINE S == {x \in made : remaining[x] > 0}
             h == [b \in S |-> Move(1, <<Store, b>>, remaining[b])]
  <2>1. IsFiniteSet(S) /\ S \subseteq Batches /\ \A b \in S : remaining[b] \in Int
    BY FS_Subset, StockAssumption DEF IInv, TablesOK
  <2>2. Snapshot = {h[b] : b \in S}
    BY <1>1 DEF Snapshot
  <2>3. IsFiniteSet({h[b] : b \in S})
    <3> HIDE DEF S, h
    <3>1. QED  BY <2>1, ImageFinite
  <2>4. \A b \in S : h[b] \in [n : Nat, row : Rows, delta : Int] /\ h[b].row = <<Store, b>>
    BY <2>1 DEF Move, Rows, Locations
  <2>5. OneLineARow(Snapshot)
    <3>1. ASSUME NEW b \in S, NEW c \in S, h[b].row = h[c].row  PROVE h[b] = h[c]
      <4>1. <<Store, b>> = <<Store, c>>
        BY <2>4, <3>1
      <4>2. b = c
        BY <4>1
      <4>3. QED  BY <4>2
    <3> HIDE DEF h
    <3>2. QED  BY <2>2, <3>1 DEF OneLineARow
  <2>6. QED  BY <2>2, <2>3, <2>4, <2>5 DEF Plan
<1>2. CASE ~tracked
  <2>1. Move(1, <<Store, NoBatch>>, onHand[<<Store, NoBatch>>])
          \in [n : Nat, row : Rows, delta : Int]
    BY DEF Move, Rows, Locations, IInv, TablesOK
  <2>2. QED  BY <1>2, <2>1, FS_Singleton DEF Snapshot, Plan, OneLineARow
<1>3. QED  BY <1>1, <1>2

(* A reversal of a document nobody raced for takes back all it has moved.  *)
LEMMA ReversesAll ==
  ASSUME IInv, NEW d \in (Receipts \union Transfers) \ raced, status[d] = "posted",
         NEW ms \in Reversible(d)
  PROVE  ms = MovesOf(d)
<1>1. MovesOf(d) = {Posted(d, p) : p \in Planned(d)}
  BY DocumentsIs DEF IInv, DocumentsOK, DocumentOK
<1>2. CASE d \in Receipts
  <2>1. PICK p : ReceiptMoves(d) = {p}
    BY <1>2, ReceiptPlan
  <2>2. MovesOf(d) = {Posted(d, p)}
    BY <1>1, <1>2, <2>1, StockAssumption DEF Planned
  <2>3. ms \subseteq MovesOf(d) /\ Cardinality(ms) = 1
    BY <1>2 DEF Reversible
  <2>4. ms # {}
    BY <2>3, FS_EmptySet
  <2>5. QED  BY <2>2, <2>3, <2>4
<1>3. CASE d \in Transfers
  BY <1>3 DEF Reversible
<1>4. QED  BY <1>2, <1>3

LEMMA BeginReceiptKeeps ==
  ASSUME IInv, NEW s \in Sessions, NEW r \in Receipts, BeginReceipt(s, r)
  PROVE  IInv'
<1>1. Begin(s, "post", r, ReceiptMoves(r), {}, NoSums) /\ status[r] = "draft"
  BY DEF BeginReceipt
<1>2. Plan(ReceiptMoves(r)) /\ Planned(r) = ReceiptMoves(r) /\ status[r] \in From("post")
  BY <1>1, ReceiptPlan, StockAssumption DEF Planned, From
<1>3. "post" \in Ops /\ "post" \notin CountOps
  BY DEF Ops, CountOps
<1>4. QED  BY <1>1, <1>2, <1>3, BeginKeeps

LEMMA BeginTransferKeeps ==
  ASSUME IInv, NEW s \in Sessions, NEW t \in Transfers, BeginTransfer(s, t)
  PROVE  IInv'
<1>1. Begin(s, "post", t, TransferMoves(t), {}, NoSums) /\ status[t] = "draft"
  BY DEF BeginTransfer
<1>2. Plan(TransferMoves(t)) /\ Planned(t) = TransferMoves(t) /\ status[t] \in From("post")
  BY <1>1, TransferPlan, StockAssumption DEF Planned, From
<1>3. "post" \in Ops /\ "post" \notin CountOps
  BY DEF Ops, CountOps
<1>4. QED  BY <1>1, <1>2, <1>3, BeginKeeps

LEMMA BeginReversalKeeps ==
  ASSUME IInv, NEW s \in Sessions, NEW d \in Receipts \union Transfers, BeginReversal(s, d)
  PROVE  IInv'
<1>1. PICK ms \in Reversible(d) : Begin(s, "reverse", d, Undo(ms), {m.n : m \in ms}, NoSums)
  BY DEF BeginReversal
<1>2. status[d] = "posted" /\ status[d] \in From("reverse")
  BY DEF BeginReversal, From
<1>3. Plan(Undo(ms)) /\ (d \notin raced => ms = MovesOf(d))
  BY <1>2, UndoPlan, ReversesAll DEF Reversible
<1>4. "reverse" \in Ops /\ "reverse" \notin CountOps
  BY DEF Ops, CountOps
<1>5. QED  BY <1>1, <1>2, <1>3, <1>4, BeginKeeps

LEMMA BeginApprovalKeeps ==
  ASSUME IInv, NEW s \in Sessions, NEW k \in Counts, BeginApproval(s, k)
  PROVE  IInv'
<1>1. Begin(s, "approve", k, CountMoves(k), {}, NoSums) /\ status[k] \in From("approve")
  BY DEF BeginApproval, From
<1>2. Plan(CountMoves(k)) /\ "approve" \in Ops
  BY CountPlan DEF Ops
<1>3. QED  BY <1>1, <1>2, BeginKeeps

LEMMA BeginAdjustmentKeeps ==
  ASSUME IInv, NEW s \in Sessions, NEW row \in Rows, NEW delta \in Deltas,
         BeginAdjustment(s, row, delta)
  PROVE  IInv'
<1>1. Begin(s, "adjust", "none", {Move(1, row, delta)}, {}, NoSums)
  BY DEF BeginAdjustment
<1>2. Plan({Move(1, row, delta)})
  <2>1. Move(1, row, delta) \in [n : Nat, row : Rows, delta : Int]
    BY StockAssumption DEF Move
  <2>2. QED  BY <2>1, FS_Singleton DEF Plan
<1>3. "adjust" \in Ops /\ "adjust" \notin CountOps
  BY DEF Ops, CountOps
<1>4. QED  BY <1>1, <1>2, <1>3, DocumentsIs, BeginKeeps

LEMMA BeginRebuildKeeps ==
  ASSUME IInv, NEW s \in Sessions, BeginRebuild(s)
  PROVE  IInv'
<1>1. Begin(s, "rebuild", "none", {}, {}, ledger)
  BY DEF BeginRebuild
<1>2. Plan({}) /\ ledger \in [Rows -> Int]
  BY FS_EmptySet DEF Plan, IInv, TablesOK
<1>3. "rebuild" \in Ops /\ "rebuild" \notin CountOps
  BY DEF Ops, CountOps
<1>4. QED  BY <1>1, <1>2, <1>3, DocumentsIs, BeginKeeps

LEMMA BeginStartKeeps ==
  ASSUME IInv, NEW s \in Sessions, NEW k \in Counts, BeginStart(s, k)
  PROVE  IInv'
<1>1. Begin(s, "start", k, Snapshot, {}, NoSums) /\ status[k] \in From("start")
  BY DEF BeginStart, From
<1>2. "start" \in Ops
  BY DEF Ops
<1>3. QED  BY <1>1, <1>2, SnapshotPlan, BeginKeeps

LEMMA BeginRecordKeeps ==
  ASSUME IInv, NEW s \in Sessions, NEW k \in Counts, BeginRecord(s, k)
  PROVE  IInv'
<1>1. PICK l \in lines[k] :
        Begin(s, "record", k, {[n |-> l.n, row |-> l.row, counted |-> Counted(l)]}, {}, NoSums)
  BY DEF BeginRecord
<1>2. status[k] \in From("record") /\ "record" \in Ops /\ "record" \notin Posting
  BY DEF BeginRecord, From, Ops, Posting
<1>3. CountedOK(Counted(l)) /\ Counted(l).known
  <2>1. LineOK(l)
    BY DEF IInv, TablesOK
  <2>2. ledger[l.row] \in Int /\ gap[l.row] \in Int /\ l.system \in Int
    BY <2>1 DEF LineOK, IInv, TablesOK
  <2>3. Counted(l).variance = ledger[l.row] - gap[l.row] - l.system
        /\ Counted(l).gap = gap[l.row] /\ (Counted(l).calm => l.system = ledger[l.row])
    BY DEF Counted
  <2>4. Counted(l) \in [known : {TRUE}, variance : Int, gap : Int, calm : BOOLEAN]
    BY <2>2 DEF Counted
  <2>5. Counted(l).calm => Counted(l).variance = -Counted(l).gap
    BY <2>2, <2>3
  <2>6. QED  BY <2>4, <2>5 DEF CountedOK
<1> DEFINE p == [n |-> l.n, row |-> l.row, counted |-> Counted(l)]
<1>4. p.counted = Counted(l)
  OBVIOUS
<1> HIDE DEF p
<1>5. Begin(s, "record", k, {p}, {}, NoSums)
  BY <1>1 DEF p
<1>6. QED  BY <1>2, <1>3, <1>4, <1>5, BeginKeeps

LEMMA BeginSubmitKeeps ==
  ASSUME IInv, NEW s \in Sessions, NEW k \in Counts, BeginSubmit(s, k)
  PROVE  IInv'
<1>1. Begin(s, "submit", k, {}, {}, NoSums) /\ status[k] \in From("submit") /\ AllKnown(k)
  BY DEF BeginSubmit, From, AllKnown
<1>2. "submit" \in Ops /\ "submit" \notin Posting
  BY DEF Ops, Posting
<1>3. QED  BY <1>1, <1>2, BeginKeeps

LEMMA BeginCancelKeeps ==
  ASSUME IInv, NEW s \in Sessions, NEW k \in Counts, BeginCancel(s, k)
  PROVE  IInv'
<1>1. Begin(s, "cancel", k, {}, {}, NoSums) /\ status[k] \in From("cancel")
  BY DEF BeginCancel, From
<1>2. "cancel" \in Ops /\ "cancel" \notin Posting
  BY DEF Ops, Posting
<1>3. QED  BY <1>1, <1>2, BeginKeeps

LEMMA RollBackKeeps ==
  ASSUME IInv, NEW s \in Sessions, RollBack(s)
  PROVE  IInv'
<1>1. work' = [work EXCEPT ![s] = Idle] /\ UNCHANGED <<stockVars, gap>>
  BY DEF RollBack, stockVars
<1>2. WorkOK(Idle) /\ Holds(Idle) /\ Knows(Idle) /\ Current(Idle) /\ Idle.phase # "locked"
  BY DEF WorkOK, Holds, Knows, Current, Idle
<1>3. QED  BY <1>1, <1>2, WorkKeeps

-----------------------------------------------------------------------------
(* Locking the rows.                                                       *)
LEMMA PlanMoves ==
  ASSUME NEW P, Plan(P)
  PROVE  Moves(P) /\ Touched(P) \subseteq Rows
  BY DEF Plan, Moves, Touched

LEMMA OpenRows == IInv => Open \subseteq Rows
  BY DEF Open, Rows, IInv, TablesOK

LEMMA LockKeeps ==
  ASSUME IInv, NEW s \in Sessions, Lock(s)
  PROVE  IInv'
<1> DEFINE w == work[s]
           new == NewOnHand(w)
           v == [phase |-> "locked", op |-> w.op, doc |-> w.doc, plan |-> w.plan,
                 undone |-> w.undone, status |-> w.status, remaining |-> w.remaining,
                 new |-> new,
                 early |-> IF w.op = "rebuild"
                           THEN [row \in DOMAIN new |-> ledger[row] - new[row]]
                           ELSE NoSums,
                 sum |-> Total(new, DOMAIN new) + Total(onHand, Rows \ DOMAIN new),
                 rollup |-> IF w.op = "rebuild" THEN rollup ELSE w.rollup,
                 alone |-> w.alone]
<1>1. /\ w.phase = "read" /\ w.op \in Posting /\ Unlocked(s, DOMAIN new)
      /\ work' = [work EXCEPT ![s] = v] /\ UNCHANGED <<stockVars, gap>>
  BY DEF Lock, stockVars
<1>2. WorkOK(w) /\ w # Idle
  BY <1>1 DEF IInv, WorksOK, Idle
<1>3. ReadOK(w) /\ PlanOK(w) /\ DocumentOf(w) /\ Plan(w.plan)
  BY <1>1, <1>2 DEF WorkOK, LockOK, PlanOK
<1>4. /\ DOMAIN new \subseteq Rows /\ \A row \in DOMAIN new : new[row] \in Int
      /\ w.op # "rebuild" =>
           /\ DOMAIN new = Touched(w.plan)
           /\ \A row \in DOMAIN new : new[row] = onHand[row] + DeltaAt(w.plan, row)
  <2>1. CASE w.op = "rebuild"
    BY <1>3, <2>1, OpenRows DEF NewOnHand, ReadOK
  <2>2. CASE w.op # "rebuild"
    <3>1. Moves(w.plan) /\ Touched(w.plan) \subseteq Rows
      BY <1>3, PlanMoves
    <3>2. \A row \in Rows : DeltaAt(w.plan, row) \in Int /\ onHand[row] \in Int
      BY <3>1, DeltaType DEF IInv, TablesOK
    <3>3. QED  BY <2>2, <3>1, <3>2 DEF NewOnHand
  <2>3. QED  BY <2>1, <2>2
<1>5. Total(new, DOMAIN new) + Total(onHand, Rows \ DOMAIN new) \in Int
  <2>1. IsFiniteSet(DOMAIN new) /\ IsFiniteSet(Rows \ DOMAIN new)
    BY <1>4, RowsFinite, FS_Subset
  <2>2. \A row \in Rows \ DOMAIN new : onHand[row] \in Int
    BY DEF IInv, TablesOK
  <2> HIDE DEF new
  <2>3. Total(new, DOMAIN new) \in Int /\ Total(onHand, Rows \ DOMAIN new) \in Int
    BY <1>4, <2>1, <2>2, SumType DEF Total
  <2>4. QED  BY <2>3
<1>6. /\ v.phase = "locked" /\ v.op = w.op /\ v.doc = w.doc /\ v.plan = w.plan
      /\ v.undone = w.undone /\ v.status = w.status /\ v.remaining = w.remaining
      /\ v.new = new /\ v.sum = Total(new, DOMAIN new) + Total(onHand, Rows \ DOMAIN new)
      /\ v.early = IF w.op = "rebuild"
                   THEN [row \in DOMAIN new |-> ledger[row] - new[row]] ELSE NoSums
      /\ v.rollup = (IF w.op = "rebuild" THEN rollup ELSE w.rollup)
      /\ v.alone = w.alone /\ v # Idle
      /\ v = [phase |-> "locked", op |-> v.op, doc |-> v.doc, plan |-> v.plan,
              undone |-> v.undone, status |-> v.status, remaining |-> v.remaining,
              new |-> v.new, early |-> v.early, sum |-> v.sum, rollup |-> v.rollup,
              alone |-> v.alone]
  BY DEF Idle
<1> HIDE DEF v, new
<1>13. /\ DOMAIN v.early = IF v.op = "rebuild" THEN DOMAIN v.new ELSE {}
       /\ \A row \in DOMAIN v.early :
            v.early[row] \in Int /\ v.new[row] = ledger[row] - v.early[row]
  <2>1. CASE w.op = "rebuild"
    <3>1. \A row \in DOMAIN new : ledger[row] \in Int /\ new[row] \in Int
      BY <1>4 DEF IInv, TablesOK
    <3>2. QED  BY <1>6, <2>1, <3>1
  <2>2. CASE w.op # "rebuild"
    BY <1>6, <2>2 DEF NoSums
  <2>3. QED  BY <2>1, <2>2
<1>7. WorkOK(v)
  <2>1. PlanOK(v) /\ DocumentOf(v)
    BY <1>3, <1>6 DEF PlanOK, DocumentOf
  <2>2. LockOK(v)
    BY <1>1, <1>4, <1>5, <1>6, <1>13 DEF LockOK
  <2>3. v.rollup \in Int /\ v.remaining \in [Batches -> Int] /\ v.alone \in BOOLEAN
    BY <1>2, <1>6 DEF WorkOK, IInv, TablesOK
  <2>4. QED  BY <2>1, <2>2, <2>3 DEF WorkOK
<1>8. Holds(v)
  BY <1>4, <1>6, <1>13 DEF Holds
<1>9. Knows(v)
  BY <1>2, <1>6 DEF Knows, IInv, RollupOK
<1>10. Current(v)
  BY <1>2, <1>6 DEF Current, IInv, DocumentsOK
<1>11. \A t \in Sessions \ {s} :
         work[t].phase = "locked" => DOMAIN v.new \cap DOMAIN work[t].new = {}
  BY <1>1, <1>6 DEF Unlocked
<1>12. QED  BY <1>1, <1>7, <1>8, <1>9, <1>10, <1>11, WorkKeeps

-----------------------------------------------------------------------------
(* The commits.                                                            *)

(* A request that goes on while another one commits.                       *)
NotAlone(v) == [v EXCEPT !.alone = FALSE]

LEMMA OverlappedWork ==
  ASSUME NEW v, NEW u, WorkOK(v), v # Idle, u = NotAlone(v)
  PROVE  /\ WorkOK(u) /\ u.alone = FALSE /\ u # Idle
         /\ u.phase = v.phase /\ u.op = v.op /\ u.doc = v.doc /\ u.plan = v.plan
         /\ u.undone = v.undone /\ u.status = v.status
         /\ v.phase = "locked" => u.new = v.new /\ u.early = v.early
<1>1. CASE ReadOK(v)
  <2>1. u = [phase |-> "read", op |-> v.op, doc |-> v.doc, plan |-> v.plan,
             undone |-> v.undone, sums |-> v.sums, status |-> v.status,
             remaining |-> v.remaining, rollup |-> v.rollup, alone |-> FALSE]
    <3> DEFINE after == [phase |-> "read", op |-> v.op, doc |-> v.doc, plan |-> v.plan,
                       undone |-> v.undone, sums |-> v.sums, status |-> v.status,
                       remaining |-> v.remaining, rollup |-> v.rollup, alone |-> FALSE]
    <3>1. /\ DOMAIN v = DOMAIN after /\ v = [x \in DOMAIN v |-> v[x]]
          /\ DOMAIN after = {"phase", "op", "doc", "plan", "undone", "sums", "status",
                             "remaining", "rollup", "alone"}
      BY <1>1 DEF ReadOK
    <3>2. after = [x \in DOMAIN after |-> after[x]]
      OBVIOUS
    <3>3. /\ v["phase"] = after["phase"] /\ v["op"] = after["op"]
          /\ v["doc"] = after["doc"] /\ v["plan"] = after["plan"]
          /\ v["undone"] = after["undone"] /\ v["sums"] = after["sums"]
          /\ v["status"] = after["status"] /\ v["remaining"] = after["remaining"]
          /\ v["rollup"] = after["rollup"]
      BY <1>1 DEF ReadOK
    <3>4. after["alone"] = FALSE
      OBVIOUS
    <3> HIDE DEF after
    <3>5. u = after
      BY <3>1, <3>2, <3>3, <3>4 DEF NotAlone
    <3>6. QED  BY <3>5 DEF after
  <2>2. /\ u.phase = "read" /\ v.phase = "read" /\ u.op = v.op /\ u.doc = v.doc
        /\ u.plan = v.plan /\ u.undone = v.undone /\ u.sums = v.sums /\ u.status = v.status
        /\ u.remaining = v.remaining /\ u.rollup = v.rollup /\ u.alone = FALSE /\ u # Idle
    BY <1>1, <2>1 DEF ReadOK, Idle
  <2>3. ReadOK(u)
    BY <1>1, <2>1, <2>2 DEF ReadOK
  <2>4. PlanOK(u) /\ DocumentOf(u)
    BY <2>2 DEF WorkOK, PlanOK, DocumentOf
  <2>5. QED  BY <2>2, <2>3, <2>4 DEF WorkOK
<1>2. CASE LockOK(v)
  <2>1. u = [phase |-> "locked", op |-> v.op, doc |-> v.doc, plan |-> v.plan,
             undone |-> v.undone, status |-> v.status, remaining |-> v.remaining,
             new |-> v.new, early |-> v.early, sum |-> v.sum, rollup |-> v.rollup,
             alone |-> FALSE]
    <3> DEFINE after == [phase |-> "locked", op |-> v.op, doc |-> v.doc, plan |-> v.plan,
                       undone |-> v.undone, status |-> v.status, remaining |-> v.remaining,
                       new |-> v.new, early |-> v.early, sum |-> v.sum,
                       rollup |-> v.rollup, alone |-> FALSE]
    <3>1. /\ DOMAIN v = DOMAIN after /\ v = [x \in DOMAIN v |-> v[x]]
          /\ DOMAIN after = {"phase", "op", "doc", "plan", "undone", "status",
                             "remaining", "new", "early", "sum", "rollup", "alone"}
      BY <1>2 DEF LockOK
    <3>2. after = [x \in DOMAIN after |-> after[x]]
      OBVIOUS
    <3>3. /\ v["phase"] = after["phase"] /\ v["op"] = after["op"]
          /\ v["doc"] = after["doc"] /\ v["plan"] = after["plan"]
          /\ v["undone"] = after["undone"] /\ v["status"] = after["status"]
          /\ v["remaining"] = after["remaining"] /\ v["new"] = after["new"]
          /\ v["early"] = after["early"]
          /\ v["sum"] = after["sum"] /\ v["rollup"] = after["rollup"]
      BY <1>2 DEF LockOK
    <3>4. after["alone"] = FALSE
      OBVIOUS
    <3> HIDE DEF after
    <3>5. u = after
      BY <3>1, <3>2, <3>3, <3>4 DEF NotAlone
    <3>6. QED  BY <3>5 DEF after
  <2>2. /\ u.phase = "locked" /\ v.phase = "locked" /\ u.op = v.op /\ u.doc = v.doc
        /\ u.plan = v.plan /\ u.undone = v.undone /\ u.status = v.status
        /\ u.remaining = v.remaining /\ u.rollup = v.rollup /\ u.alone = FALSE /\ u # Idle
        /\ u.new = v.new /\ u.early = v.early /\ u.sum = v.sum
    BY <1>2, <2>1 DEF LockOK, Idle
  <2>3. LockOK(u)
    BY <1>2, <2>1, <2>2 DEF LockOK
  <2>4. PlanOK(u) /\ DocumentOf(u)
    BY <2>2 DEF WorkOK, PlanOK, DocumentOf
  <2>5. QED  BY <2>2, <2>3, <2>4 DEF WorkOK
<1>3. QED  BY <1>1, <1>2 DEF WorkOK

(* A document that goes on to another status can still be reached from     *)
(* where it was, but is not there any more, unless a line was recorded.    *)
LEMMA StatusMoves ==
  ASSUME NEW op \in Ops \ {"adjust", "rebuild"}, NEW v \in Ops, NEW from, from \in From(op),
         NEW st, st \in From(v), from \in Onward(st)
  PROVE  /\ After(op) \in Onward(st)
         /\ op # "record" => After(op) # st
  BY DEF Ops, From, Onward, After, CountStatuses, DocumentStatuses

(* What a request that commits knows, and what it leaves the others.       *)
LEMMA Committing ==
  ASSUME IInv, NEW s \in Sessions, Commit(s)
  PROVE  /\ WorkOK(work[s]) /\ LockOK(work[s]) /\ PlanOK(work[s]) /\ DocumentOf(work[s])
         /\ work[s] # Idle /\ work[s].op \in Posting
         /\ Plan(work[s].plan) /\ Moves(work[s].plan) /\ Touched(work[s].plan) \subseteq Rows
         /\ \A row \in Rows : DeltaAt(work[s].plan, row) \in Int
<1>1. work[s].phase = "locked"
  BY DEF Commit
<1>2. WorkOK(work[s]) /\ work[s] # Idle
  BY <1>1 DEF IInv, WorksOK, Idle
<1>3. LockOK(work[s]) /\ PlanOK(work[s]) /\ DocumentOf(work[s])
  BY <1>1, <1>2 DEF WorkOK, ReadOK
<1>4. Plan(work[s].plan) /\ work[s].op \in Posting
  BY <1>3 DEF PlanOK, LockOK
<1>5. QED  BY <1>2, <1>3, <1>4, PlanMoves, DeltaType

LEMMA CommitWorks ==
  ASSUME IInv, NEW s \in Sessions, Commit(s)
  PROVE  /\ WorksOK' /\ work'[s] = Idle
         /\ \A t \in Sessions \ {s} :
              \/ work'[t] = Idle
              \/ /\ work[t] # Idle /\ WorkOK(work'[t]) /\ work'[t].alone = FALSE
                 /\ work'[t] # Idle /\ work'[t].phase = work[t].phase
                 /\ work'[t].op = work[t].op /\ work'[t].doc = work[t].doc
                 /\ work'[t].plan = work[t].plan /\ work'[t].undone = work[t].undone
                 /\ work'[t].status = work[t].status
                 /\ work[t].phase = "locked" =>
                      work'[t].new = work[t].new /\ work'[t].early = work[t].early
<1>1. work' = [t \in Sessions |->
                 IF t = s THEN Idle
                 ELSE IF work[t] = Idle THEN Idle
                 ELSE [work[t] EXCEPT !.alone = FALSE]]
  BY DEF Commit
<1>2. ASSUME NEW t \in Sessions \ {s}, work[t] # Idle
      PROVE  work'[t] = NotAlone(work[t]) /\ WorkOK(work[t])
  BY <1>1, <1>2 DEF IInv, WorksOK, NotAlone
<1>3. \A t \in Sessions \ {s} :
        \/ work'[t] = Idle
        \/ /\ work[t] # Idle /\ WorkOK(work'[t]) /\ work'[t].alone = FALSE
           /\ work'[t] # Idle /\ work'[t].phase = work[t].phase
           /\ work'[t].op = work[t].op /\ work'[t].doc = work[t].doc
           /\ work'[t].plan = work[t].plan /\ work'[t].undone = work[t].undone
           /\ work'[t].status = work[t].status
           /\ work[t].phase = "locked" =>
                work'[t].new = work[t].new /\ work'[t].early = work[t].early
  <2> SUFFICES ASSUME NEW t \in Sessions \ {s}, work'[t] # Idle
               PROVE  /\ work[t] # Idle /\ WorkOK(work'[t]) /\ work'[t].alone = FALSE
                      /\ work'[t] # Idle /\ work'[t].phase = work[t].phase
                      /\ work'[t].op = work[t].op /\ work'[t].doc = work[t].doc
                      /\ work'[t].plan = work[t].plan /\ work'[t].undone = work[t].undone
                      /\ work'[t].status = work[t].status
                      /\ work[t].phase = "locked" =>
                           work'[t].new = work[t].new /\ work'[t].early = work[t].early
    OBVIOUS
  <2>1. work[t] # Idle
    BY <1>1
  <2> DEFINE v == work[t]
             u == work'[t]
  <2>2. u = NotAlone(v) /\ WorkOK(v) /\ v # Idle
    BY <1>2, <2>1
  <2> HIDE DEF u, v
  <2>3. /\ WorkOK(u) /\ u.alone = FALSE /\ u # Idle
        /\ u.phase = v.phase /\ u.op = v.op /\ u.doc = v.doc /\ u.plan = v.plan
        /\ u.undone = v.undone /\ u.status = v.status
        /\ v.phase = "locked" => u.new = v.new /\ u.early = v.early
    BY <2>2, OverlappedWork
  <2>4. QED  BY <2>1, <2>3, Zenon DEF u, v
<1>4. work'[s] = Idle /\ work' = [t \in Sessions |-> work'[t]]
  BY <1>1
<1>5. \A t \in Sessions : WorkOK(work'[t])
  BY <1>3, <1>4 DEF WorkOK
<1>6. \A t \in Sessions : WorkOK(work[t])'
  BY <1>5 DEF WorkOK, ReadOK, LockOK, PlanOK, DocumentOf
<1>7. QED  BY <1>3, <1>4, <1>6 DEF WorksOK

LEMMA CommitTables ==
  ASSUME IInv, NEW s \in Sessions, Commit(s)
  PROVE  TablesOK'
<1> DEFINE w == work[s]
<1>1. /\ onHand' = [row \in Rows |-> IF row \in DOMAIN w.new THEN w.new[row] ELSE onHand[row]]
      /\ ledger' = [row \in Rows |-> ledger[row] + DeltaAt(w.plan, row)]
      /\ moves' = Recorded(w)
      /\ made' = made \union ({p.row[2] : p \in w.plan} \ {NoBatch})
      /\ remaining' = [b \in Batches |-> Remaining(w, b)]
      /\ rollup' = Rollup(w) /\ MarkDocument(w)
      /\ gap' = [row \in Rows |->
                   gap[row] + IF w.op = "approve" THEN DeltaAt(w.plan, row) ELSE 0]
      /\ missed' = [row \in Rows |-> IF row \in DOMAIN w.early THEN w.early[row]
                                      ELSE missed[row]]
      /\ UNCHANGED <<tracked, lines>>
  BY DEF Commit
<1>2. /\ LockOK(w) /\ Plan(w.plan) /\ Moves(w.plan)
      /\ \A row \in Rows : DeltaAt(w.plan, row) \in Int
      /\ w.remaining \in [Batches -> Int] /\ w.sum \in Int
  BY Committing DEF WorkOK, LockOK
<1> HIDE DEF w
<1>3. /\ onHand' \in [Rows -> Int] /\ ledger' \in [Rows -> Int] /\ gap' \in [Rows -> Int]
      /\ missed' \in [Rows -> Int]
  BY <1>1, <1>2 DEF IInv, TablesOK, LockOK
<1>4. remaining' \in [Batches -> Int]
  <2>1. ASSUME NEW b \in Batches  PROVE DeltaOf(w.plan, b) \in Int
    <3>1. DeltaAt(w.plan, <<Store, b>>) \in Int /\ DeltaAt(w.plan, <<Kitchen, b>>) \in Int
      BY <1>2, BatchRows
    <3>2. DeltaOf(w.plan, b) = DeltaAt(w.plan, <<Store, b>>) + DeltaAt(w.plan, <<Kitchen, b>>)
      BY <1>2, DeltaOfBatch
    <3>3. QED  BY <3>1, <3>2
  <2>2. QED  BY <1>1, <1>2, <2>1 DEF Remaining, IInv, TablesOK
<1>5. rollup' \in Int
  BY <1>1, <1>2 DEF Rollup, IInv, TablesOK
<1>6. made' \subseteq Batches
  <2>1. \A p \in w.plan : p.row \in Rows
    BY <1>2 DEF Moves
  <2>2. \A p \in w.plan : p.row[2] \in Batches \union {NoBatch}
    BY <2>1 DEF Rows
  <2>3. QED  BY <1>1, <2>2 DEF IInv, TablesOK
<1>7. status' = [d \in Documents |-> status'[d]]
  BY <1>1 DEF MarkDocument, IInv, TablesOK
<1>8. IsFiniteSet(moves')
      /\ moves' \subseteq [doc : Documents, n : Nat, row : Rows, delta : Int, reversed : BOOLEAN]
  <2> DEFINE n == Cardinality(MovesOf(w.doc))
             mark == [m \in moves |-> IF m.doc = w.doc /\ m.n \in w.undone
                                      THEN [m EXCEPT !.reversed = TRUE] ELSE m]
             new == [p \in w.plan |-> [doc |-> w.doc, n |-> n + p.n, row |-> p.row,
                                       delta |-> p.delta, reversed |-> FALSE]]
  <2>1. moves' = {mark[m] : m \in moves}
                 \union (IF w.doc \in Documents THEN {new[p] : p \in w.plan} ELSE {})
    BY <1>1 DEF Recorded
  <2>2. n \in Nat
    BY FS_Subset, FS_CardinalityType DEF MovesOf, IInv, TablesOK
  <2>3. \A m \in moves : mark[m] \in [doc : Documents, n : Nat, row : Rows, delta : Int,
                                      reversed : BOOLEAN]
    <3>1. ASSUME NEW m \in moves
          PROVE  m \in [doc : Documents, n : Nat, row : Rows, delta : Int, reversed : BOOLEAN]
      BY DEF IInv, TablesOK
    <3>2. QED  BY <3>1
  <2>4. \A p \in w.plan : w.doc \in Documents =>
          new[p] \in [doc : Documents, n : Nat, row : Rows, delta : Int, reversed : BOOLEAN]
    <3> HIDE DEF n
    <3>1. \A p \in w.plan : p.n \in Nat /\ p.row \in Rows /\ p.delta \in Int
      BY <1>2 DEF Plan
    <3>2. QED  BY <2>2, <3>1
  <2>5. IsFiniteSet(moves) /\ IsFiniteSet(w.plan)
    BY <1>2 DEF Plan, IInv, TablesOK
  <2> HIDE DEF mark, new
  <2>6. IsFiniteSet({mark[m] : m \in moves}) /\ IsFiniteSet({new[p] : p \in w.plan})
    BY <2>5, ImageFinite
  <2>7. IsFiniteSet(moves')
    BY <2>1, <2>6, FS_Union, FS_EmptySet
  <2>8. QED  BY <2>1, <2>3, <2>4, <2>7
<1>9. QED  BY <1>1, <1>3, <1>4, <1>5, <1>6, <1>7, <1>8 DEF IInv, TablesOK

LEMMA CommitLocks ==
  ASSUME IInv, NEW s \in Sessions, Commit(s)
  PROVE  LocksOK'
<1>1. /\ work[s].phase = "locked"
      /\ onHand' = [row \in Rows |-> IF row \in DOMAIN work[s].new THEN work[s].new[row]
                                     ELSE onHand[row]]
      /\ ledger' = [row \in Rows |-> ledger[row] + DeltaAt(work[s].plan, row)]
  BY DEF Commit
<1>2. ASSUME NEW t \in Sessions, work'[t].phase = "locked"
      PROVE  /\ t # s /\ work[t].phase = "locked"
             /\ work'[t].new = work[t].new /\ work'[t].early = work[t].early
             /\ work'[t].op = work[t].op /\ work'[t].plan = work[t].plan
             /\ DOMAIN work[t].new \cap DOMAIN work[s].new = {}
             /\ DOMAIN work[t].new \subseteq Rows
  <2>1. t # s /\ work'[t] # Idle
    <3>1. work'[t] # Idle
      BY <1>2 DEF Idle
    <3>2. QED  BY <3>1, CommitWorks
  <2>2. /\ work[t].phase = "locked"
        /\ work'[t].new = work[t].new /\ work'[t].early = work[t].early
        /\ work'[t].op = work[t].op /\ work'[t].plan = work[t].plan
    BY <1>2, <2>1, CommitWorks
  <2>3. WorkOK(work[t])
    BY DEF IInv, WorksOK
  <2>4. LockOK(work[t])
    BY <2>2, <2>3 DEF WorkOK, ReadOK, Idle
  <2>5. QED  BY <1>1, <2>1, <2>2, <2>4 DEF LockOK, IInv, LocksOK
<1>3. ASSUME NEW t \in Sessions  PROVE Holds(work[t])'
  <2> SUFFICES ASSUME work'[t].phase = "locked", NEW row \in DOMAIN work'[t].new
               PROVE  IF work'[t].op = "rebuild"
                      THEN work'[t].new[row] = ledger'[row] - work'[t].early[row]
                      ELSE work'[t].new[row] = onHand'[row] + DeltaAt(work'[t].plan, row)
    BY DEF Holds, DeltaAt, Amount
  <2>1. row \in Rows \ DOMAIN work[s].new /\ row \in DOMAIN work[t].new
    BY <1>2
  <2>2. onHand'[row] = onHand[row]
    BY <1>1, <2>1
  <2>3. ledger'[row] = ledger[row]
    <3>1. row \notin Touched(work[s].plan)
      BY <2>1, Committing DEF LockOK, PlanOK, Touched
    <3>2. DeltaAt(work[s].plan, row) = 0
      BY <3>1, DeltaNone
    <3>3. QED  BY <1>1, <2>1, <3>2 DEF IInv, TablesOK
  <2>4. IF work[t].op = "rebuild" THEN work[t].new[row] = ledger[row] - work[t].early[row]
        ELSE work[t].new[row] = onHand[row] + DeltaAt(work[t].plan, row)
    BY <1>2, <2>1 DEF IInv, LocksOK, Holds
  <2>5. QED  BY <1>2, <2>2, <2>3, <2>4
<1>4. \A t, u \in Sessions :
        t # u /\ work'[t].phase = "locked" /\ work'[u].phase = "locked" =>
          DOMAIN work'[t].new \cap DOMAIN work'[u].new = {}
  BY <1>2 DEF IInv, LocksOK
<1>5. QED  BY <1>3, <1>4 DEF LocksOK

LEMMA CommitRollup ==
  ASSUME IInv, NEW s \in Sessions, Commit(s)
  PROVE  RollupOK'
<1> DEFINE w == work[s]
<1>1. /\ w.phase = "locked"
      /\ onHand' = [row \in Rows |-> IF row \in DOMAIN w.new THEN w.new[row] ELSE onHand[row]]
      /\ rollup' = Rollup(w) /\ exact' = w.alone
  BY DEF Commit
<1>2. w # Idle /\ DOMAIN w.new \subseteq Rows /\ \A row \in DOMAIN w.new : w.new[row] \in Int
  BY Committing DEF LockOK
<1>3. ASSUME w.alone  PROVE rollup' = Total(onHand', Rows)
  <2> DEFINE D == DOMAIN w.new
             R == Rows \ D
  <2>1. /\ w.rollup = rollup
        /\ w.sum = Total(w.new, D) + Total(onHand, R)
    BY <1>1, <1>2, <1>3 DEF Knows, IInv, RollupOK
  <2>2. rollup' = w.sum
    BY <1>1, <2>1 DEF Rollup
  <2>3. IsFiniteSet(D) /\ IsFiniteSet(R) /\ D \cap R = {} /\ D \union R = Rows
    BY <1>2, RowsFinite, FS_Subset
  <2>4. \A row \in D : onHand'[row] = w.new[row]
    BY <1>1, <1>2
  <2>5. \A row \in R : onHand'[row] = onHand[row]
    BY <1>1
  <2>6. \A row \in D \union R : onHand'[row] \in Int
    BY CommitTables, <2>3 DEF TablesOK
  <2> HIDE DEF D, R
  <2>7. SumFunctionOnSet(onHand', D) = SumFunctionOnSet(w.new, D)
    BY <2>3, <2>4, SumSame
  <2>8. SumFunctionOnSet(onHand', R) = SumFunctionOnSet(onHand, R)
    BY <2>3, <2>5, SumSame
  <2>9. SumFunctionOnSet(onHand', D \union R)
          = SumFunctionOnSet(onHand', D) + SumFunctionOnSet(onHand', R)
    BY <2>3, <2>6, SumUnion
  <2>10. QED  BY <2>1, <2>2, <2>3, <2>7, <2>8, <2>9 DEF Total
<1>4. RollupIsTotal'
  BY <1>1, <1>3 DEF RollupIsTotal, Total
<1>5. \A t \in Sessions : Knows(work[t])'
  BY CommitWorks DEF Knows
<1>6. QED  BY <1>4, <1>5 DEF RollupOK

LEMMA CommitBalance ==
  ASSUME IInv, NEW s \in Sessions, Commit(s)
  PROVE  BalanceIsLedger'
<1> DEFINE w == work[s]
<1>1. /\ w.phase = "locked"
      /\ onHand' = [row \in Rows |-> IF row \in DOMAIN w.new THEN w.new[row] ELSE onHand[row]]
      /\ ledger' = [row \in Rows |-> ledger[row] + DeltaAt(w.plan, row)]
      /\ missed' = [row \in Rows |-> IF row \in DOMAIN w.early THEN w.early[row]
                                      ELSE missed[row]]
  BY DEF Commit
<1>2. /\ DOMAIN w.new \subseteq Rows
      /\ DOMAIN w.early = IF w.op = "rebuild" THEN DOMAIN w.new ELSE {}
      /\ w.op # "rebuild" => DOMAIN w.new = Touched(w.plan)
      /\ w.op = "rebuild" => w.plan = {}
  BY Committing DEF LockOK, PlanOK
<1>3. ASSUME NEW row \in Rows  PROVE onHand'[row] = ledger'[row] - missed'[row]
  <2>1. /\ ledger[row] \in Int /\ missed[row] \in Int
        /\ onHand[row] = ledger[row] - missed[row]
    BY DEF IInv, TablesOK, BalanceIsLedger
  <2>2. CASE row \notin DOMAIN w.new
    <3>1. row \notin Touched(w.plan) /\ row \notin DOMAIN w.early
      BY <1>2, <2>2 DEF Touched
    <3>2. DeltaAt(w.plan, row) = 0
      BY <3>1, DeltaNone
    <3>3. QED  BY <1>1, <2>1, <2>2, <3>1, <3>2
  <2>3. CASE row \in DOMAIN w.new /\ w.op = "rebuild"
    <3>1. row \notin Touched(w.plan) /\ row \in DOMAIN w.early
      BY <1>2, <2>3 DEF Touched
    <3>2. DeltaAt(w.plan, row) = 0
      BY <3>1, DeltaNone
    <3>3. w.new[row] = ledger[row] - w.early[row]
      BY <1>1, <2>3 DEF Holds, IInv, LocksOK
    <3>4. QED  BY <1>1, <2>1, <2>3, <3>1, <3>2, <3>3
  <2>4. CASE row \in DOMAIN w.new /\ w.op # "rebuild"
    <3>1. row \notin DOMAIN w.early
      BY <1>2, <2>4
    <3>2. w.new[row] = onHand[row] + DeltaAt(w.plan, row)
      BY <1>1, <2>4 DEF Holds, IInv, LocksOK
    <3>3. DeltaAt(w.plan, row) \in Int
      BY Committing
    <3>4. QED  BY <1>1, <2>1, <2>4, <3>1, <3>2, <3>3
  <2>5. QED  BY <2>2, <2>3, <2>4
<1>4. QED  BY <1>3 DEF BalanceIsLedger

LEMMA CommitBatches ==
  ASSUME IInv, NEW s \in Sessions, Commit(s)
  PROVE  BatchIsLedger'
<1> DEFINE w == work[s]
<1>1. /\ ledger' = [row \in Rows |-> ledger[row] + DeltaAt(w.plan, row)]
      /\ remaining' = [b \in Batches |-> Remaining(w, b)]
      /\ stale' = stale \union {b \in Batches : /\ \E p \in w.plan : p.row[2] = b
                                                /\ w.remaining[b] # remaining[b]}
  BY DEF Commit
<1>2. Moves(w.plan) /\ \A row \in Rows : DeltaAt(w.plan, row) \in Int
  BY Committing
<1>3. /\ \A row \in Rows : ledger[row] \in Int /\ ledger'[row] \in Int
      /\ \A b \in Batches : remaining[b] \in Int
  BY CommitTables DEF IInv, TablesOK
<1> HIDE DEF w
<1>4. ASSUME NEW b \in Batches \ stale'
      PROVE  remaining'[b] = Total(ledger', {row \in Rows : row[2] = b})
  <2> DEFINE x == <<Store, b>>
             y == <<Kitchen, b>>
  <2>1. x \in Rows /\ y \in Rows /\ x[2] = b /\ y[2] = b
    BY BatchRows
  <2>2. /\ Total(ledger', {row \in Rows : row[2] = b}) = ledger'[x] + ledger'[y]
        /\ Total(ledger, {row \in Rows : row[2] = b}) = ledger[x] + ledger[y]
    BY <1>3, TotalOfBatch
  <2>3. /\ ledger'[x] = ledger[x] + DeltaAt(w.plan, x)
        /\ ledger'[y] = ledger[y] + DeltaAt(w.plan, y)
    BY <1>1, <2>1
  <2>4. b \notin stale /\ remaining[b] = ledger[x] + ledger[y]
    BY <1>1, <1>4, <2>2 DEF IInv, BatchIsLedger
  <2>5. remaining'[b] = remaining[b] + DeltaAt(w.plan, x) + DeltaAt(w.plan, y)
    <3>1. CASE \E p \in w.plan : p.row[2] = b
      <4>1. w.remaining[b] = remaining[b]
        BY <1>1, <1>4, <3>1
      <4>2. remaining'[b] = remaining[b] + DeltaOf(w.plan, b)
        BY <1>1, <3>1, <4>1 DEF Remaining
      <4>3. DeltaOf(w.plan, b) = DeltaAt(w.plan, x) + DeltaAt(w.plan, y)
        BY <1>2, DeltaOfBatch
      <4>4. DeltaAt(w.plan, x) \in Int /\ DeltaAt(w.plan, y) \in Int /\ remaining[b] \in Int
        BY <1>2, <1>3, <2>1
      <4> HIDE DEF x, y
      <4>5. QED  BY <4>2, <4>3, <4>4
    <3>2. CASE ~ \E p \in w.plan : p.row[2] = b
      <4>1. x \notin Touched(w.plan) /\ y \notin Touched(w.plan)
        BY <2>1, <3>2 DEF Touched
      <4>2. DeltaAt(w.plan, x) = 0 /\ DeltaAt(w.plan, y) = 0
        BY <4>1, DeltaNone
      <4>3. remaining'[b] = remaining[b] /\ remaining[b] \in Int
        BY <1>1, <1>3, <3>2 DEF Remaining
      <4> HIDE DEF x, y
      <4>4. QED  BY <4>2, <4>3
    <3>3. QED  BY <3>1, <3>2
  <2>6. /\ DeltaAt(w.plan, x) \in Int /\ DeltaAt(w.plan, y) \in Int
        /\ ledger[x] \in Int /\ ledger[y] \in Int
    BY <1>2, <1>3, <2>1
  <2> HIDE DEF x, y
  <2>7. QED  BY <2>2, <2>3, <2>4, <2>5, <2>6
<1>5. QED  BY <1>4 DEF BatchIsLedger, Total

Added(d, n, P) ==
  {[doc |-> d, n |-> n + p.n, row |-> p.row, delta |-> p.delta, reversed |-> FALSE] : p \in P}

Marked(m, undone) == IF m.n \in undone THEN [m EXCEPT !.reversed = TRUE] ELSE m

LEMMA CommitMoves ==
  ASSUME IInv, NEW s \in Sessions, Commit(s), NEW d, d = work[s].doc
  PROVE  /\ \A e : e # d => MovesOf(e)' = MovesOf(e)
         /\ d \in Documents =>
              MovesOf(d)' =
                {Marked(m, work[s].undone) : m \in MovesOf(d)}
                \union Added(d, Cardinality(MovesOf(d)), work[s].plan)
<1>1. PICK w : w = work[s] /\ d = w.doc
  OBVIOUS
<1>2. PICK n : n = Cardinality(MovesOf(d))
  OBVIOUS
<1> DEFINE mark == [m \in moves |-> IF m.doc = d /\ m.n \in w.undone
                                    THEN [m EXCEPT !.reversed = TRUE] ELSE m]
           new == [p \in w.plan |-> [doc |-> d, n |-> n + p.n, row |-> p.row,
                                     delta |-> p.delta, reversed |-> FALSE]]
<1>3. moves' = {mark[m] : m \in moves}
               \union (IF d \in Documents THEN {new[p] : p \in w.plan} ELSE {})
  BY <1>1, <1>2 DEF Commit, Recorded
<1>4. \A m \in moves : mark[m].doc = m.doc /\ (m.doc # d => mark[m] = m)
  BY DEF IInv, TablesOK
<1>5. \A p \in w.plan : new[p].doc = d
  OBVIOUS
<1>6. \A m \in moves : m.doc = d => mark[m] = Marked(m, w.undone)
  BY DEF Marked
<1>7. {new[p] : p \in w.plan} = Added(d, n, w.plan)
  BY DEF Added
<1> HIDE DEF mark, new
<1>8. \A e : e # d => MovesOf(e)' = MovesOf(e)
  <2> SUFFICES ASSUME NEW e, e # d  PROVE {m \in moves' : m.doc = e} = MovesOf(e)
    BY DEF MovesOf
  <2>1. QED  BY <1>3, <1>4, <1>5 DEF MovesOf
<1>9. ASSUME d \in Documents
      PROVE  MovesOf(d)' = {mark[m] : m \in MovesOf(d)} \union {new[p] : p \in w.plan}
  <2> SUFFICES {m \in moves' : m.doc = d}
                 = {mark[m] : m \in MovesOf(d)} \union {new[p] : p \in w.plan}
    BY DEF MovesOf
  <2>1. QED  BY <1>3, <1>4, <1>5, <1>9 DEF MovesOf
<1>10. {mark[m] : m \in MovesOf(d)} = {Marked(m, w.undone) : m \in MovesOf(d)}
  <2>1. \A m \in MovesOf(d) : mark[m] = Marked(m, w.undone)
    BY <1>6 DEF MovesOf
  <2>2. QED  BY <2>1
<1>11. d \in Documents =>
         MovesOf(d)' =
           {Marked(m, w.undone) : m \in MovesOf(d)} \union Added(d, n, w.plan)
  BY <1>7, <1>9, <1>10
<1>12. QED  BY <1>1, <1>2, <1>8, <1>11

(* The first movements of a document are those of the plan.                *)
LEMMA CommitFirst ==
  ASSUME IInv, NEW s \in Sessions, Commit(s), NEW d, d = work[s].doc, d \in Documents,
         MovesOf(d) = {}
  PROVE  MovesOf(d)' = {Posted(d, p) : p \in work[s].plan}
<1>1. PICK P : P = work[s].plan
  OBVIOUS
<1>2. \A p \in P : 0 + p.n = p.n
  BY <1>1, Committing DEF Plan
<1>3. Cardinality(MovesOf(d)) = 0
  BY FS_EmptySet
<1>4. MovesOf(d)' = {[doc |-> d, n |-> 0 + p.n, row |-> p.row, delta |-> p.delta,
                      reversed |-> FALSE] : p \in P}
  <2>1. {Marked(m, work[s].undone) : m \in MovesOf(d)} = {}
    OBVIOUS
  <2>2. MovesOf(d)' =
          {Marked(m, work[s].undone) : m \in MovesOf(d)}
          \union Added(d, Cardinality(MovesOf(d)), work[s].plan)
    BY CommitMoves
  <2>3. QED  BY <1>1, <1>3, <2>1, <2>2 DEF Added
<1>5. {[doc |-> d, n |-> 0 + p.n, row |-> p.row, delta |-> p.delta, reversed |-> FALSE]
         : p \in P} = {Posted(d, p) : p \in P}
  BY <1>2 DEF Posted
<1>6. QED  BY <1>1, <1>4, <1>5

(* What is posted amounts to what was planned.                             *)
LEMMA PostedAmount ==
  ASSUME NEW P, Plan(P), NEW d, NEW row
  PROVE  /\ Moves({Posted(d, p) : p \in P})
         /\ DeltaAt({Posted(d, p) : p \in P}, row) = DeltaAt(P, row)
<1> DEFINE h == [p \in P |-> Posted(d, p)]
<1>1. Moves(P) /\ \A p \in P : p = [n |-> p.n, row |-> p.row, delta |-> p.delta]
  BY PlanMoves DEF Plan
<1>2. \A p \in P : h[p].row = p.row /\ h[p].delta = p.delta /\ h[p].n = p.n
  BY DEF Posted
<1>3. PICK I : I = {h[p] : p \in P} /\ I = {Posted(d, p) : p \in P}
  OBVIOUS
<1> HIDE DEF h
<1>4. \A p, q \in P : h[p] = h[q] => p = q
  BY <1>1, <1>2
<1>5. h \in Bijection(P, I)
  BY <1>3, <1>4 DEF Bijection, Surjection, Injection, IsInjective, h
<1>6. Moves(I) /\ DeltaAt(I, row) = DeltaAt(P, row)
  <2>1. Moves(P)
    BY <1>1
  <2>2. QED  BY <1>2, <1>5, <2>1, DeltaImage
<1>7. QED  BY <1>3, <1>6

(* What is taken back amounts to nothing with what it takes back.          *)
LEMMA ReversedAmount ==
  ASSUME IInv, NEW s \in Sessions, Commit(s), NEW d, d = work[s].doc, d \in Documents,
         work[s].plan = Undo(MovesOf(d)), work[s].undone = {m.n : m \in MovesOf(d)},
         \A m \in MovesOf(d) : ~m.reversed, NEW row \in Rows
  PROVE  DeltaAt(MovesOf(d)', row) = 0
<1>1. PICK M : M = MovesOf(d)
  OBVIOUS
<1>2. PICK n : n = Cardinality(M)
  OBVIOUS
<1>3. /\ IsFiniteSet(M) /\ n \in Nat
      /\ \A m \in M : /\ m.n \in Nat /\ m.row \in Rows /\ m.delta \in Int /\ m.doc = d
                      /\ m = [doc |-> m.doc, n |-> m.n, row |-> m.row, delta |-> m.delta,
                              reversed |-> m.reversed]
  BY <1>1, <1>2, FS_Subset, FS_CardinalityType DEF MovesOf, IInv, TablesOK
<1> DEFINE mark == [m \in M |-> [m EXCEPT !.reversed = TRUE]]
           back == [m \in M |-> [doc |-> d, n |-> n + m.n, row |-> m.row, delta |-> -m.delta,
                                 reversed |-> FALSE]]
<1>4. \A m \in M : /\ mark[m].n = m.n /\ mark[m].row = m.row /\ mark[m].delta = m.delta
                   /\ mark[m].reversed = TRUE
  BY <1>3
<1>5. \A m \in M : /\ back[m].n = n + m.n /\ back[m].row = m.row /\ back[m].delta = -m.delta
                   /\ back[m].reversed = FALSE
  BY <1>3
<1>6. MovesOf(d)' = {mark[m] : m \in M} \union {back[m] : m \in M}
  <2>1. {Marked(m, {k.n : k \in M}) : m \in M} = {mark[m] : m \in M}
    <3>1. \A m \in M : Marked(m, {k.n : k \in M}) = mark[m]
      BY DEF Marked
    <3> HIDE DEF mark
    <3>2. QED  BY <3>1
  <2>2. Added(d, n, Undo(M)) = {back[m] : m \in M}
    <3>1. \A m \in M : Move(m.n, m.row, -m.delta).n = m.n
                       /\ Move(m.n, m.row, -m.delta).row = m.row
                       /\ Move(m.n, m.row, -m.delta).delta = -m.delta

      BY <1>3 DEF Move
    <3>2. QED  BY <3>1 DEF Undo, Added
  <2>3. MovesOf(d)' =
          {Marked(m, {k.n : k \in M}) : m \in M} \union Added(d, n, Undo(M))
    <3>1. PICK u : u = work[s].undone /\ u = {k.n : k \in M}
      BY <1>1
    <3>2. MovesOf(d)' = {Marked(m, u) : m \in M} \union Added(d, n, Undo(M))
      <4>1. MovesOf(d)' = {Marked(m, work[s].undone) : m \in MovesOf(d)}
                          \union Added(d, Cardinality(MovesOf(d)), work[s].plan)
        BY CommitMoves
      <4>2. QED  BY <1>1, <1>2, <3>1, <4>1
    <3>3. QED  BY <3>1, <3>2
  <2> HIDE DEF mark, back
  <2>4. QED  BY <2>1, <2>2, <2>3
<1> HIDE DEF mark, back
<1>7. /\ \A m, k \in M : mark[m] = mark[k] => m = k
      /\ \A m, k \in M : back[m] = back[k] => m = k
  <2>1. \A m \in M : m.reversed = FALSE
    BY <1>1, <1>3 DEF MovesOf, IInv, TablesOK
  <2>2. \A m, k \in M : m.n = k.n /\ m.row = k.row /\ m.delta = k.delta => m = k
    BY <1>3, <2>1
  <2>3. ASSUME NEW m \in M, NEW k \in M, back[m] = back[k]  PROVE m = k
    <3>1. n + m.n = n + k.n /\ m.row = k.row /\ -m.delta = -k.delta
      BY <1>5, <2>3
    <3>2. m.n = k.n /\ m.delta = k.delta
      BY <1>3, <3>1
    <3>3. QED  BY <2>2, <3>1, <3>2
  <2>4. QED  BY <1>4, <2>2, <2>3
<1>8. Moves(M)
  BY <1>3 DEF Moves
<1>9. PICK A : A = {mark[m] : m \in M}
  OBVIOUS
<1>10. PICK B : B = {back[m] : m \in M}
  OBVIOUS
<1>11. /\ Moves(A) /\ DeltaAt(A, row) = DeltaAt(M, row)
       /\ Moves(B) /\ DeltaAt(B, row) = -DeltaAt(M, row)
  <2>1. Moves(A) /\ DeltaAt(A, row) = DeltaAt(M, row)
    <3>1. mark \in Bijection(M, A)
      BY <1>7, <1>9 DEF Bijection, Surjection, Injection, IsInjective, mark
    <3>2. QED  BY <1>4, <1>8, <3>1, DeltaImage
  <2>2. Moves(B) /\ DeltaAt(B, row) = -DeltaAt(M, row)
    <3>1. back \in Bijection(M, B)
      BY <1>7, <1>10 DEF Bijection, Surjection, Injection, IsInjective, back
    <3>2. QED  BY <1>5, <1>8, <3>1, DeltaImage
  <2>3. QED  BY <2>1, <2>2
<1>12. A \cap B = {}
  BY <1>4, <1>5, <1>9, <1>10
<1>13. DeltaAt(A \union B, row) = DeltaAt(A, row) + DeltaAt(B, row)
  BY <1>11, <1>12, DeltaUnion
<1>14. DeltaAt(M, row) \in Int
  BY <1>8, DeltaType
<1>15. MovesOf(d)' = A \union B
  BY <1>6, <1>9, <1>10
<1>16. QED  BY <1>11, <1>13, <1>14, <1>15

(* What a commit does to the documents.                                    *)
LEMMA CommitDocument ==
  ASSUME IInv, NEW s \in Sessions, Commit(s), NEW d \in Documents, d \notin raced'
  PROVE  /\ d \notin raced
         /\ d # work[s].doc => status'[d] = status[d]
         /\ d = work[s].doc =>
              /\ work[s].status = status[d] /\ status[d] \in From(work[s].op)
              /\ status'[d] = After(work[s].op)
              /\ work[s].op \in {"post", "reverse", "approve"}
<1>1. PICK w : w = work[s]
  OBVIOUS
<1>2. MarkDocument(w)
  BY <1>1 DEF Commit
<1>3. w.op \in Posting /\ DocumentOf(w)
  BY <1>1, Committing
<1>4. w.doc = d => w.op \in {"post", "reverse", "approve"} /\ w.op # "record"
  BY <1>3, DocumentsIs DEF DocumentOf, Posting
<1>5. d \notin raced /\ (w.doc = d => w.status = status[d])
  BY <1>2 DEF MarkDocument
<1>6. w.doc = d => status[d] \in From(w.op)
  BY <1>3, <1>5 DEF DocumentOf
<1>7. w.doc = d => status'[d] = After(w.op)
  BY <1>2, <1>4 DEF MarkDocument, IInv, TablesOK
<1>8. w.doc # d => status'[d] = status[d]
  BY <1>2 DEF MarkDocument, IInv, TablesOK
<1>9. QED  BY <1>1, <1>4, <1>5, <1>6, <1>7, <1>8

LEMMA PlannedStays ==
  ASSUME UNCHANGED <<tracked, lines>>
  PROVE  \A d : /\ Planned(d)' = Planned(d) /\ CountMoves(d)' = CountMoves(d)
                /\ AllKnown(d)' <=> AllKnown(d)
  BY DEF Planned, CountMoves, ReceiptMoves, TransferMoves, Batch, AllKnown

LEMMA CommitDocumentOK ==
  ASSUME IInv, NEW s \in Sessions, Commit(s), NEW d \in Documents, d \notin raced'
  PROVE  DocumentOK(d)'
<1>1. UNCHANGED <<tracked, lines>>
  BY DEF Commit
<1>2. /\ d \notin raced /\ DocumentOK(d)
      /\ CountMoves(d)' = CountMoves(d) /\ Planned(d)' = Planned(d)
  BY <1>1, CommitDocument, PlannedStays DEF IInv, DocumentsOK
<1>3. CASE d # work[s].doc
  BY <1>2, <1>3, CommitDocument, CommitMoves DEF DocumentOK, DeltaAt, Amount
<1>4. CASE d = work[s].doc
  <2>1. PICK w : w = work[s]
    OBVIOUS
  <2>2. /\ w.doc = d /\ w.status = status[d] /\ status[d] \in From(w.op)
        /\ status'[d] = After(w.op) /\ w.op \in {"post", "reverse", "approve"}
    BY <1>4, <2>1, CommitDocument
  <2>3. Current(w) /\ w # Idle /\ Plan(w.plan) /\ DocumentOf(w)
    BY <2>1, Committing DEF IInv, DocumentsOK
  <2>4. CASE w.op = "post"
    <3>1. status[d] = "draft" /\ status'[d] = "posted" /\ d \notin Counts
      BY <2>2, <2>3, <2>4, DocumentsIs DEF From, After, DocumentOf
    <3>2. w.plan = Planned(d) /\ MovesOf(d) = {}
      BY <1>2, <2>2, <2>3, <2>4, <3>1 DEF Current, DocumentOK
    <3>3. MovesOf(d)' = {Posted(d, p) : p \in Planned(d)}
      BY <1>4, <2>1, <3>2, CommitFirst
    <3>4. MovesOf(d)' = {Posted(d, p) : p \in Planned(d)'}
      BY <1>2, <3>3
    <3>5. QED  BY <3>1, <3>4 DEF DocumentOK, Posted, DocumentStatuses
  <2>5. CASE w.op = "reverse"
    <3>1. status[d] = "posted" /\ status'[d] = "reversed" /\ d \notin Counts
      BY <2>2, <2>3, <2>5, DocumentsIs DEF From, After, DocumentOf
    <3>2. w.plan = Undo(MovesOf(d)) /\ w.undone = {m.n : m \in MovesOf(d)}
      BY <1>2, <2>2, <2>3, <2>5 DEF Current
    <3>3. \A m \in MovesOf(d) : ~m.reversed
      BY <1>2, <3>1 DEF DocumentOK, Posted
    <3>4. \A row \in Rows : DeltaAt(MovesOf(d)', row) = 0
      BY <1>4, <2>1, <3>2, <3>3, ReversedAmount
    <3>5. QED  BY <3>1, <3>4 DEF DocumentOK, DeltaAt, Amount, DocumentStatuses
  <2>6. CASE w.op = "approve"
    <3>1. status[d] = "submitted" /\ status'[d] = "approved" /\ d \in Counts
      BY <2>2, <2>3, <2>6 DEF From, After, DocumentOf, CountOps
    <3>2. w.plan = CountMoves(d) /\ MovesOf(d) = {}
      BY <1>2, <2>2, <2>3, <2>6, <3>1 DEF Current, DocumentOK
    <3>3. PICK M : M = MovesOf(d)' /\ M = {Posted(d, p) : p \in w.plan}
      BY <1>4, <2>1, <3>2, CommitFirst
    <3>4. \A row \in Rows : DeltaAt(M, row) = DeltaAt(w.plan, row)
      BY <2>3, <3>3, PostedAmount
    <3>5. \A row \in Rows : DeltaAt(MovesOf(d), row)' = DeltaAt(CountMoves(d), row)'
      <4>1. \A row \in Rows : DeltaAt(MovesOf(d), row)' = DeltaAt(M, row)
        BY <3>3 DEF DeltaAt, Amount
      <4>2. \A row \in Rows : DeltaAt(CountMoves(d), row)' = DeltaAt(w.plan, row)
        BY <1>2, <3>2 DEF DeltaAt, Amount
      <4>3. QED  BY <3>4, <4>1, <4>2
    <3>6. QED  BY <3>1, <3>5 DEF DocumentOK, CountStatuses
  <2>7. QED  BY <2>2, <2>4, <2>5, <2>6
<1>5. QED  BY <1>3, <1>4

LEMMA CommitDocuments ==
  ASSUME IInv, NEW s \in Sessions, Commit(s)
  PROVE  DocumentsOK'
<1>1. UNCHANGED <<tracked, lines>> /\ raced \subseteq raced'
  BY DEF Commit, MarkDocument
<1>2. \A d \in Documents \ raced' : DocumentOK(d)'
  BY CommitDocumentOK
<1>3. ASSUME NEW k \in Counts, k \notin raced'  PROVE CountOK(k)'
  <2>1. k \in Documents
    BY DocumentsIs
  <2>2. CountOK(k) /\ (AllKnown(k)' <=> AllKnown(k)) /\ lines'[k] = lines[k]
    BY <1>1, <1>3, PlannedStays DEF IInv, DocumentsOK
  <2>3. \/ status'[k] = status[k]
        \/ status[k] = "submitted" /\ status'[k] = "approved"
    <3>1. CASE k # work[s].doc
      BY <1>3, <2>1, <3>1, CommitDocument
    <3>2. CASE k = work[s].doc
      <4>1. PICK op : op = work[s].op
        OBVIOUS
      <4>2. op \in {"post", "reverse", "approve"} /\ status[k] \in From(op)
            /\ status'[k] = After(op)
        BY <1>3, <2>1, <3>2, <4>1, CommitDocument
      <4>3. op \notin {"post", "reverse"}
        BY <3>2, <4>1, Committing, DocumentsIs DEF DocumentOf
      <4>4. QED  BY <4>2, <4>3 DEF From, After
    <3>3. QED  BY <3>1, <3>2
  <2>4. QED  BY <2>2, <2>3 DEF CountOK
<1>4. ASSUME NEW t \in Sessions  PROVE Current(work[t])'
  <2> SUFFICES ASSUME work'[t] # Idle, NEW d \in Documents \ raced', d = work'[t].doc
               PROVE  /\ status'[d] \in Onward(work'[t].status)
                      /\ work'[t].status = status'[d] =>
                           /\ work'[t].op = "post" => work'[t].plan = Planned(d)'
                           /\ work'[t].op = "reverse" =>
                                /\ work'[t].plan = Undo(MovesOf(d)')
                                /\ work'[t].undone = {m.n : m \in MovesOf(d)'}
                           /\ work'[t].op = "approve" => work'[t].plan = CountMoves(d)'
                           /\ work'[t].op = "submit" => AllKnown(d)'
    BY DEF Current, Undo, Planned, CountMoves, MovesOf, AllKnown
  <2>1. PICK v : v = work[t]
    OBVIOUS
  <2>2. /\ v # Idle /\ v.doc = d /\ t # s
        /\ work'[t].op = v.op /\ work'[t].status = v.status /\ work'[t].plan = v.plan
        /\ work'[t].undone = v.undone
    BY <2>1, CommitWorks
  <2>3. WorkOK(v) /\ Current(v)
    BY <2>1 DEF IInv, WorksOK, DocumentsOK
  <2>4. d \notin raced
    BY CommitDocument
  <2>5. CASE d # work[s].doc
    <3>1. status'[d] = status[d] /\ MovesOf(d)' = MovesOf(d)
      BY <2>5, CommitDocument, CommitMoves
    <3>2. Planned(d)' = Planned(d) /\ CountMoves(d)' = CountMoves(d)
          /\ (AllKnown(d)' <=> AllKnown(d))
      BY <1>1, PlannedStays
    <3>3. QED  BY <2>2, <2>3, <2>4, <3>1, <3>2 DEF Current
  <2>6. CASE d = work[s].doc
    <3>1. PICK op : op = work[s].op
      OBVIOUS
    <3>2. /\ op \in {"post", "reverse", "approve"} /\ status[d] \in From(op)
          /\ status'[d] = After(op)
      BY <2>6, <3>1, CommitDocument
    <3>3. op \in Ops \ {"adjust", "rebuild"} /\ op # "record"
      BY <3>2 DEF Ops
    <3>4. v.op \in Ops /\ v.status \in From(v.op)
      BY <2>2, <2>3 DEF WorkOK, ReadOK, LockOK, DocumentOf, Posting, Ops
    <3>5. status[d] \in Onward(v.status)
      BY <2>2, <2>3, <2>4 DEF Current
    <3>6. After(op) \in Onward(v.status) /\ After(op) # v.status
      BY <3>2, <3>3, <3>4, <3>5, StatusMoves
    <3>7. QED  BY <2>2, <3>2, <3>6
  <2>7. QED  BY <2>5, <2>6
<1>5. QED  BY <1>1, <1>2, <1>3, <1>4 DEF DocumentsOK

LEMMA CommitKeeps ==
  ASSUME IInv, NEW s \in Sessions, Commit(s)
  PROVE  IInv'
  BY CommitTables, CommitWorks, CommitLocks, CommitRollup, CommitDocuments,
     CommitBalance, CommitBatches
  DEF IInv

-----------------------------------------------------------------------------
(* The steps of a count that post nothing.                                 *)

(* The lines that a step of a count leaves.                                *)
Recounted(w, l) ==
  LET new == {p \in w.plan : p.n = l.n /\ p.row = l.row} IN
  IF new = {} THEN l ELSE [l EXCEPT !.counted = (CHOOSE p \in new : TRUE).counted]

NewLines(w, old) ==
  CASE w.op = "start" ->
         old \union {[n |-> Cardinality(old) + p.n, row |-> p.row, system |-> p.delta,
                      counted |-> Unknown] : p \in w.plan}
    [] w.op = "record" ->
         {Recounted(w, l) : l \in old}
    [] OTHER -> old

LEMMA CountCommitting ==
  ASSUME IInv, NEW s \in Sessions, CommitCount(s)
  PROVE  /\ WorkOK(work[s]) /\ PlanOK(work[s]) /\ work[s] # Idle
         /\ work[s].op \in {"start", "record", "submit", "cancel"}
         /\ work[s].doc \in Counts /\ work[s].doc \in Documents
         /\ work[s].status \in From(work[s].op)
         /\ work[s].op = "start" => Plan(work[s].plan)
         /\ lines' = [lines EXCEPT ![work[s].doc] = NewLines(work[s], lines[work[s].doc])]
<1>1. work[s].phase = "read" /\ work[s].op \in {"start", "record", "submit", "cancel"}
      /\ lines' = [lines EXCEPT ![work[s].doc] = NewLines(work[s], lines[work[s].doc])]
  BY DEF CommitCount, NewLines, Recounted
<1>2. WorkOK(work[s]) /\ work[s] # Idle
  BY <1>1 DEF IInv, WorksOK, Idle
<1>3. PlanOK(work[s]) /\ DocumentOf(work[s])
  BY <1>1, <1>2 DEF WorkOK, LockOK
<1>4. work[s].doc \in Counts /\ work[s].doc \in Documents
  BY <1>1, <1>3, DocumentsIs DEF DocumentOf, CountOps
<1>5. QED  BY <1>1, <1>2, <1>3, <1>4 DEF PlanOK, DocumentOf

LEMMA NewLinesOK ==
  ASSUME NEW w, PlanOK(w), w.op \in {"start", "record", "submit", "cancel"},
         NEW old, IsFiniteSet(old), \A l \in old : LineOK(l)
  PROVE  /\ IsFiniteSet(NewLines(w, old)) /\ \A l \in NewLines(w, old) : LineOK(l)
         /\ w.op = "start" /\ old = {} => OneLineARow(NewLines(w, old))
         /\ w.op = "record" /\ OneLineARow(old) => OneLineARow(NewLines(w, old))
         /\ w.op = "record" /\ (\A l \in old : l.counted.known) =>
              \A l \in NewLines(w, old) : l.counted.known
         /\ w.op \in {"submit", "cancel"} => NewLines(w, old) = old
<1>1. CASE w.op = "start"
  <2>1. Plan(w.plan) /\ OneLineARow(w.plan)
    BY <1>1 DEF PlanOK
  <2>2. PICK n : n = Cardinality(old)
    OBVIOUS
  <2>3. n \in Nat
    BY <2>2, FS_CardinalityType
  <2> DEFINE h == [p \in w.plan |-> [n |-> n + p.n, row |-> p.row, system |-> p.delta,
                                     counted |-> Unknown]]
  <2>4. NewLines(w, old) = old \union {h[p] : p \in w.plan}
    BY <1>1, <2>2 DEF NewLines
  <2>5. \A p \in w.plan : LineOK(h[p]) /\ h[p].row = p.row
    <3>1. \A p \in w.plan : p.n \in Nat /\ p.row \in Rows /\ p.delta \in Int
      BY <2>1 DEF Plan
    <3>2. ASSUME NEW p \in w.plan  PROVE LineOK(h[p]) /\ h[p].row = p.row
      <4>1. PICK l : l = [n |-> n + p.n, row |-> p.row, system |-> p.delta, counted |-> Unknown]
                     /\ l = h[p]
        OBVIOUS
      <4>2. l.n = n + p.n /\ l.row = p.row /\ l.system = p.delta /\ l.counted = Unknown
        BY <4>1
      <4>3. l = [n |-> l.n, row |-> l.row, system |-> l.system, counted |-> l.counted]
        BY <4>1, <4>2
      <4>4. LineOK(l)
        BY <2>3, <3>1, <4>2, <4>3 DEF LineOK, CountedOK
      <4>5. QED  BY <4>1, <4>2, <4>4
    <3>3. QED  BY <3>2
  <2>6. IsFiniteSet({h[p] : p \in w.plan})
    <3> HIDE DEF h
    <3>1. QED  BY <2>1, ImageFinite DEF Plan
  <2> HIDE DEF h
  <2>7. IsFiniteSet(NewLines(w, old)) /\ \A l \in NewLines(w, old) : LineOK(l)
    BY <2>4, <2>5, <2>6, FS_Union
  <2>8. old = {} => OneLineARow(NewLines(w, old))
    BY <2>1, <2>4, <2>5 DEF OneLineARow
  <2>9. QED  BY <1>1, <2>7, <2>8
<1>2. CASE w.op = "record"
  <2>1. PICK p : w.plan = {p} /\ CountedOK(p.counted) /\ p.counted.known
    BY <1>2 DEF PlanOK
  <2> DEFINE h == [l \in old |-> IF p.n = l.n /\ p.row = l.row
                                 THEN [l EXCEPT !.counted = p.counted] ELSE l]
  <2>2. NewLines(w, old) = {h[l] : l \in old}
    <3>1. ASSUME NEW l \in old  PROVE Recounted(w, l) = h[l]
      <4>1. CASE p.n = l.n /\ p.row = l.row
        <5>1. {q \in w.plan : q.n = l.n /\ q.row = l.row} = {p}
          BY <2>1, <4>1
        <5>2. (CHOOSE q \in {p} : TRUE) = p
          OBVIOUS
        <5>3. QED  BY <4>1, <5>1, <5>2 DEF Recounted
      <4>2. CASE ~(p.n = l.n /\ p.row = l.row)
        <5>1. {q \in w.plan : q.n = l.n /\ q.row = l.row} = {}
          BY <2>1, <4>2
        <5>2. QED  BY <4>2, <5>1 DEF Recounted
      <4>3. QED  BY <4>1, <4>2
    <3> HIDE DEF h
    <3>2. QED  BY <1>2, <3>1 DEF NewLines
  <2>3. \A l \in old : /\ LineOK(h[l]) /\ h[l].row = l.row
                       /\ l.counted.known => h[l].counted.known
    BY <2>1 DEF LineOK
  <2>4. IsFiniteSet({h[l] : l \in old})
    <3> HIDE DEF h
    <3>1. QED  BY ImageFinite
  <2> HIDE DEF h
  <2>5. OneLineARow(old) => OneLineARow(NewLines(w, old))
    BY <2>2, <2>3 DEF OneLineARow
  <2>6. QED  BY <1>2, <2>2, <2>3, <2>4, <2>5
<1>3. CASE w.op \in {"submit", "cancel"}
  <2>1. NewLines(w, old) = old
    BY <1>3 DEF NewLines
  <2>2. QED  BY <1>3, <2>1
<1>4. QED  BY <1>1, <1>2, <1>3

LEMMA CommitCountWorks ==
  ASSUME IInv, NEW s \in Sessions, CommitCount(s)
  PROVE  WorksOK' /\ LocksOK' /\ RollupOK'
<1>1. work' = [work EXCEPT ![s] = Idle] /\ UNCHANGED <<onHand, ledger, rollup, exact>>
  BY DEF CommitCount
<1>2. \A t \in Sessions : work'[t] = IF t = s THEN Idle ELSE work[t]
  BY <1>1 DEF IInv, WorksOK
<1>3. WorksOK'
  <2>1. work' = [t \in Sessions |-> work'[t]]
    BY <1>1 DEF IInv, WorksOK
  <2>2. \A t \in Sessions : WorkOK(work'[t])
    BY <1>2 DEF IInv, WorksOK, WorkOK
  <2>3. \A t \in Sessions : WorkOK(work[t])'
    BY <2>2 DEF WorkOK, ReadOK, LockOK, PlanOK, DocumentOf
  <2>4. QED  BY <2>1, <2>3 DEF WorksOK
<1>4. Idle.phase # "locked"
  BY DEF Idle
<1>5. LocksOK'
  <2>1. \A t \in Sessions : Holds(work'[t])
    BY <1>2, <1>4 DEF IInv, LocksOK, Holds
  <2>2. \A t \in Sessions : Holds(work[t])'
    BY <1>1, <2>1 DEF Holds, DeltaAt, Amount
  <2>3. QED  BY <1>2, <1>4, <2>2 DEF IInv, LocksOK
<1>6. RollupOK'
  <2>1. \A t \in Sessions : Knows(work'[t])
    BY <1>2 DEF IInv, RollupOK, Knows
  <2>2. \A t \in Sessions : Knows(work[t])'
    BY <1>1, <2>1 DEF Knows
  <2>3. QED  BY <1>1, <2>2 DEF IInv, RollupOK, RollupIsTotal
<1>7. QED  BY <1>3, <1>5, <1>6

LEMMA CommitCountTables ==
  ASSUME IInv, NEW s \in Sessions, CommitCount(s)
  PROVE  TablesOK'
<1>1. /\ lines' = [lines EXCEPT ![work[s].doc] = NewLines(work[s], lines[work[s].doc])]
      /\ PlanOK(work[s]) /\ work[s].op \in {"start", "record", "submit", "cancel"}
      /\ work[s].doc \in Counts
  BY CountCommitting
<1>2. \A k \in Counts : IsFiniteSet(lines[k]) /\ \A l \in lines[k] : LineOK(l)
  BY DEF IInv, TablesOK
<1>3. LET k == work[s].doc IN
      IsFiniteSet(NewLines(work[s], lines[k])) /\ \A l \in NewLines(work[s], lines[k]) : LineOK(l)
  BY <1>1, <1>2, NewLinesOK
<1>4. \A k \in Counts : IsFiniteSet(lines'[k]) /\ \A l \in lines'[k] : LineOK(l)
  BY <1>1, <1>2, <1>3 DEF IInv, TablesOK
<1>5. lines' = [k \in Counts |-> lines'[k]]
  BY <1>1 DEF IInv, TablesOK
<1>6. status' = [d \in Documents |-> status'[d]]
  BY DEF CommitCount, MarkDocument, IInv, TablesOK
<1>7. UNCHANGED <<tracked, made, onHand, remaining, rollup, ledger, moves, gap, missed>>
  BY DEF CommitCount
<1>8. QED  BY <1>4, <1>5, <1>6, <1>7 DEF IInv, TablesOK

(* What such a step does to its count.                                     *)
LEMMA CommitCountDocument ==
  ASSUME IInv, NEW s \in Sessions, CommitCount(s), NEW d \in Documents, d \notin raced'
  PROVE  /\ d \notin raced /\ MovesOf(d)' = MovesOf(d)
         /\ d # work[s].doc =>
              /\ status'[d] = status[d] /\ CountMoves(d)' = CountMoves(d)
              /\ Planned(d)' = Planned(d)
              /\ AllKnown(d)' <=> AllKnown(d)
              /\ d \in Counts => lines'[d] = lines[d]
         /\ d = work[s].doc =>
              /\ d \in Counts /\ work[s].status = status[d] /\ status[d] \in From(work[s].op)
              /\ work[s].op # "record" => status'[d] = After(work[s].op)
              /\ work[s].op = "record" => status'[d] = status[d]
              /\ lines'[d] = NewLines(work[s], lines[d])
              /\ work[s].op \in {"start", "record", "submit", "cancel"}
<1>1. PICK w : w = work[s]
  OBVIOUS
<1>2. MarkDocument(w) /\ UNCHANGED <<tracked, moves>>
  BY <1>1 DEF CommitCount
<1>3. /\ w.op \in {"start", "record", "submit", "cancel"} /\ w.doc \in Counts
      /\ w.doc \in Documents /\ w.status \in From(w.op)
      /\ lines' = [lines EXCEPT ![w.doc] = NewLines(w, lines[w.doc])]
  BY <1>1, CountCommitting
<1>4. d \notin raced /\ MovesOf(d)' = MovesOf(d) /\ (w.doc = d => w.status = status[d])
  BY <1>2 DEF MarkDocument, MovesOf
<1>5. /\ w.doc # d => status'[d] = status[d]
      /\ w.doc = d =>
           /\ w.op # "record" => status'[d] = After(w.op)
           /\ w.op = "record" => status'[d] = status[d]
  BY <1>2, <1>3 DEF MarkDocument, IInv, TablesOK
<1>6. ASSUME w.doc # d
      PROVE  /\ CountMoves(d)' = CountMoves(d) /\ (AllKnown(d)' <=> AllKnown(d))
             /\ Planned(d)' = Planned(d)
             /\ d \in Counts => lines'[d] = lines[d]
  <2>1. lines'[d] = lines[d]
    BY <1>3, <1>6 DEF IInv, TablesOK
  <2>2. QED
    BY <1>2, <2>1 DEF CountMoves, AllKnown, Planned, ReceiptMoves, TransferMoves, Batch
<1>7. w.doc = d => lines'[d] = NewLines(w, lines[d])
  BY <1>3 DEF IInv, TablesOK
<1>8. QED  BY <1>1, <1>3, <1>4, <1>5, <1>6, <1>7

LEMMA CommitCountDocuments ==
  ASSUME IInv, NEW s \in Sessions, CommitCount(s)
  PROVE  DocumentsOK'
<1>1. \A k \in Counts : k \in Documents
  BY DocumentsIs
<1>2. raced \subseteq raced'
  BY DEF CommitCount, MarkDocument
<1>3. ASSUME NEW d \in Documents, d \notin raced'  PROVE DocumentOK(d)'
  <2>1. d \notin raced /\ DocumentOK(d) /\ MovesOf(d)' = MovesOf(d)
    BY <1>2, <1>3, CommitCountDocument DEF IInv, DocumentsOK
  <2>2. CASE d # work[s].doc
    <3>1. /\ status'[d] = status[d] /\ CountMoves(d)' = CountMoves(d)
          /\ Planned(d)' = Planned(d)
      BY <1>3, <2>2, CommitCountDocument
    <3>2. QED  BY <2>1, <3>1 DEF DocumentOK, DeltaAt, Amount
  <2>3. CASE d = work[s].doc
    <3>1. PICK op : op = work[s].op
      OBVIOUS
    <3>2. /\ d \in Counts /\ status[d] \in From(op)
          /\ op # "record" => status'[d] = After(op)
          /\ op = "record" => status'[d] = status[d]
          /\ op \in {"start", "record", "submit", "cancel"}
      BY <1>3, <2>3, <3>1, CommitCountDocument
    <3>3. status[d] \in {"draft", "in_progress", "submitted"}
          /\ status'[d] \in {"in_progress", "submitted", "cancelled"}
      BY <3>2 DEF From, After
    <3>4. MovesOf(d)' = {}
      BY <2>1, <3>3 DEF DocumentOK
    <3>5. QED  BY <3>2, <3>3, <3>4 DEF DocumentOK, CountStatuses
  <2>4. QED  BY <2>2, <2>3
<1>4. ASSUME NEW k \in Counts, k \notin raced'  PROVE CountOK(k)'
  <2>1. k \notin raced /\ CountOK(k)
    BY <1>1, <1>2, <1>4 DEF IInv, DocumentsOK
  <2>2. CASE k # work[s].doc
    <3>1. status'[k] = status[k] /\ (AllKnown(k)' <=> AllKnown(k)) /\ lines'[k] = lines[k]
      BY <1>1, <1>4, <2>2, CommitCountDocument
    <3>2. QED  BY <2>1, <3>1 DEF CountOK
  <2>3. CASE k = work[s].doc
    <3>1. PICK w : w = work[s]
      OBVIOUS
    <3>2. /\ w.status = status[k] /\ status[k] \in From(w.op)
          /\ w.op # "record" => status'[k] = After(w.op)
          /\ w.op = "record" => status'[k] = status[k]
          /\ lines'[k] = NewLines(w, lines[k])
          /\ w.op \in {"start", "record", "submit", "cancel"}
      BY <1>1, <1>4, <2>3, <3>1, CommitCountDocument
    <3>3. PlanOK(w) /\ w # Idle /\ Current(w)
      BY <3>1, CountCommitting DEF IInv, DocumentsOK
    <3>4. IsFiniteSet(lines[k]) /\ \A l \in lines[k] : LineOK(l)
      BY DEF IInv, TablesOK
    <3>5. CASE w.op = "start"
      <4>1. status[k] = "draft" /\ status'[k] = "in_progress"
        BY <3>2, <3>5 DEF From, After
      <4>2. OneLineARow(lines'[k])
        BY <2>1, <3>2, <3>3, <3>4, <3>5, <4>1, NewLinesOK DEF CountOK
      <4>3. QED  BY <4>1, <4>2 DEF CountOK
    <3>6. CASE w.op = "record"
      <4>1. status[k] = "in_progress" /\ status'[k] = "in_progress"
        BY <3>2, <3>6 DEF From
      <4>2. OneLineARow(lines'[k])
        BY <2>1, <3>2, <3>3, <3>4, <3>6, NewLinesOK DEF CountOK
      <4>3. QED  BY <4>1, <4>2 DEF CountOK
    <3>7. CASE w.op \in {"submit", "cancel"}
      <4>1. lines'[k] = lines[k]
        BY <3>2, <3>3, <3>4, <3>7, NewLinesOK
      <4>2. \/ status'[k] = "cancelled"
            \/ w.op = "submit" /\ status'[k] = "submitted"
        BY <3>2, <3>7 DEF After
      <4>3. w.op = "submit" => AllKnown(k)
        BY <1>1, <2>1, <2>3, <3>1, <3>2, <3>3 DEF Current
      <4>4. AllKnown(k)' <=> AllKnown(k)
        BY <4>1 DEF AllKnown
      <4>5. QED  BY <2>1, <4>1, <4>2, <4>3, <4>4 DEF CountOK
    <3>8. QED  BY <3>2, <3>5, <3>6, <3>7
  <2>4. QED  BY <2>2, <2>3
<1>5. ASSUME NEW t \in Sessions  PROVE Current(work[t])'
  <2> SUFFICES ASSUME work'[t] # Idle, NEW d \in Documents \ raced', d = work'[t].doc
               PROVE  /\ status'[d] \in Onward(work'[t].status)
                      /\ work'[t].status = status'[d] =>
                           /\ work'[t].op = "post" => work'[t].plan = Planned(d)'
                           /\ work'[t].op = "reverse" =>
                                /\ work'[t].plan = Undo(MovesOf(d)')
                                /\ work'[t].undone = {m.n : m \in MovesOf(d)'}
                           /\ work'[t].op = "approve" => work'[t].plan = CountMoves(d)'
                           /\ work'[t].op = "submit" => AllKnown(d)'
    BY DEF Current, Undo, Planned, CountMoves, MovesOf, AllKnown
  <2>1. PICK v : v = work[t]
    OBVIOUS
  <2>2. t # s /\ work'[t] = v /\ v # Idle /\ v.doc = d
    BY <2>1 DEF CommitCount, IInv, WorksOK
  <2>3. WorkOK(v) /\ Current(v)
    BY <2>1 DEF IInv, WorksOK, DocumentsOK
  <2>4. d \notin raced /\ MovesOf(d)' = MovesOf(d)
    BY CommitCountDocument
  <2>5. CASE d # work[s].doc
    <3>1. /\ status'[d] = status[d] /\ CountMoves(d)' = CountMoves(d)
          /\ Planned(d)' = Planned(d) /\ (AllKnown(d)' <=> AllKnown(d))
      BY <2>5, CommitCountDocument
    <3>2. QED  BY <2>2, <2>3, <2>4, <3>1 DEF Current
  <2>6. CASE d = work[s].doc
    <3>1. PICK w : w = work[s]
      OBVIOUS
    <3>2. /\ d \in Counts /\ status[d] \in From(w.op)
          /\ w.op # "record" => status'[d] = After(w.op)
          /\ w.op = "record" => status'[d] = status[d]
          /\ lines'[d] = NewLines(w, lines[d])
          /\ w.op \in {"start", "record", "submit", "cancel"}
      BY <2>6, <3>1, CommitCountDocument
    <3>3. v.op \in Ops /\ v.status \in From(v.op) /\ v.op \notin {"post", "reverse"}
      BY <2>2, <2>3, <3>2, DocumentsIs
      DEF WorkOK, ReadOK, LockOK, DocumentOf, Posting, Ops
    <3>4. status[d] \in Onward(v.status) /\ (v.status = status[d] /\ v.op = "submit" => AllKnown(d))
      BY <2>2, <2>3, <2>4 DEF Current
    <3>5. CASE w.op # "record"
      <4>1. w.op \in Ops \ {"adjust", "rebuild"}
        BY <3>2 DEF Ops
      <4>2. After(w.op) \in Onward(v.status) /\ After(w.op) # v.status
        BY <3>2, <3>3, <3>4, <3>5, <4>1, StatusMoves
      <4>3. QED  BY <2>2, <3>2, <3>5, <4>2
    <3>6. CASE w.op = "record"
      <4>1. PlanOK(w) /\ IsFiniteSet(lines[d]) /\ \A l \in lines[d] : LineOK(l)
        BY <3>1, <3>2, CountCommitting DEF IInv, TablesOK
      <4>2. AllKnown(d) => AllKnown(d)'
        BY <3>2, <3>6, <4>1, NewLinesOK DEF AllKnown
      <4>3. v.op = "approve" => v.status # status[d]
        BY <3>2, <3>3, <3>6 DEF From
      <4>4. QED  BY <2>2, <3>2, <3>3, <3>4, <3>6, <4>2, <4>3
    <3>7. QED  BY <3>5, <3>6
  <2>7. QED  BY <2>5, <2>6
<1>6. QED  BY <1>3, <1>4, <1>5 DEF DocumentsOK

LEMMA CommitCountKeeps ==
  ASSUME IInv, NEW s \in Sessions, CommitCount(s)
  PROVE  IInv'
<1>1. BalanceIsLedger' /\ BatchIsLedger'
  BY DEF CommitCount, IInv, BalanceIsLedger, BatchIsLedger, Total
<1>2. QED  BY <1>1, CommitCountTables, CommitCountWorks, CommitCountDocuments DEF IInv

-----------------------------------------------------------------------------
LEMMA NextKeeps == IInv /\ [Next]_vars => IInv'
<1> SUFFICES ASSUME IInv, [Next]_vars  PROVE IInv'
  OBVIOUS
<1>1. CASE UNCHANGED vars
  BY <1>1, ShelfKeeps DEF vars, stockVars, IInv, TablesOK
<1>2. ASSUME NEW s \in Sessions, NEW r \in Receipts, BeginReceipt(s, r)  PROVE IInv'
  BY <1>2, BeginReceiptKeeps
<1>3. ASSUME NEW s \in Sessions, NEW t \in Transfers, BeginTransfer(s, t)  PROVE IInv'
  BY <1>3, BeginTransferKeeps
<1>4. ASSUME NEW s \in Sessions, NEW d \in Receipts \union Transfers, BeginReversal(s, d)
      PROVE  IInv'
  BY <1>4, BeginReversalKeeps
<1>5. ASSUME NEW s \in Sessions, NEW k \in Counts,
             BeginStart(s, k) \/ BeginRecord(s, k) \/ BeginSubmit(s, k)
               \/ BeginApproval(s, k) \/ BeginCancel(s, k)
      PROVE  IInv'
  BY <1>5, BeginStartKeeps, BeginRecordKeeps, BeginSubmitKeeps, BeginApprovalKeeps,
     BeginCancelKeeps
<1>6. ASSUME NEW s \in Sessions, NEW row \in Rows, NEW delta \in Deltas,
             BeginAdjustment(s, row, delta)
      PROVE  IInv'
  BY <1>6, BeginAdjustmentKeeps
<1>7. ASSUME NEW s \in Sessions, BeginRebuild(s)  PROVE IInv'
  BY <1>7, BeginRebuildKeeps
<1>8. ASSUME NEW s \in Sessions, Lock(s) \/ Commit(s) \/ CommitCount(s) \/ RollBack(s)
      PROVE  IInv'
  BY <1>8, LockKeeps, CommitKeeps, CommitCountKeeps, RollBackKeeps
<1>9. ASSUME NEW row \in Rows, Lose(row)  PROVE IInv'
  BY <1>9, LoseKeeps
<1>10. QED  BY <1>1, <1>2, <1>3, <1>4, <1>5, <1>6, <1>7, <1>8, <1>9 DEF Next

LEMMA Invariant == Spec => []IInv
  BY InitHolds, NextKeeps, PTL DEF Spec

(* The balance of a row is the sum of its movements, less those that       *)
(* committed after the last rebuild had read its sums and before it locked *)
(* the row.                                                                *)
THEOREM BalancesAreTheLedger == Spec => []BalanceIsLedger
<1>1. IInv => BalanceIsLedger
  BY DEF IInv
<1>2. QED  BY <1>1, Invariant, PTL

(* A batch has the quantity its movements give, unless a posting computed  *)
(* it from a quantity that had changed since.                              *)
THEOREM BatchesAreTheLedger == Spec => []BatchIsLedger
<1>1. IInv => BatchIsLedger
  BY DEF IInv
<1>2. QED  BY <1>1, Invariant, PTL

(* After a posting that no other overlapped, the item's roll-up is the sum *)
(* of its balances.                                                        *)
THEOREM RollupsAddUp == Spec => []RollupIsTotal
<1>1. IInv => RollupIsTotal
  BY DEF IInv, RollupOK
<1>2. QED  BY <1>1, Invariant, PTL

(* A document nobody raced for has moved what its lines say while it is    *)
(* posted or approved, and nothing otherwise.                              *)
THEOREM DocumentsPostOnce == Spec => []EffectMatchesStatus
<1>1. ASSUME IInv  PROVE EffectMatchesStatus
  <2> SUFFICES ASSUME NEW d \in Documents \ raced, NEW row \in Rows
               PROVE  DeltaAt(MovesOf(d), row)
                        = IF status[d] \in {"posted", "approved"}
                          THEN DeltaAt(Planned(d), row) ELSE 0
    BY DEF EffectMatchesStatus
  <2>1. DocumentOK(d)
    BY <1>1 DEF IInv, DocumentsOK
  <2>2. CASE status[d] = "posted"
    <3>1. d \notin Counts
      BY <2>1, <2>2 DEF DocumentOK, CountStatuses
    <3>2. Plan(Planned(d))
      BY <1>1, <3>1, ReceiptPlan, TransferPlan, DocumentsIs, StockAssumption DEF Planned
    <3>3. PICK P : P = Planned(d)
      OBVIOUS
    <3>4. MovesOf(d) = {Posted(d, p) : p \in P}
      BY <2>1, <2>2, <3>3 DEF DocumentOK
    <3>5. DeltaAt({Posted(d, p) : p \in P}, row) = DeltaAt(P, row)
      BY <3>2, <3>3, PostedAmount
    <3>6. QED  BY <2>2, <3>3, <3>4, <3>5
  <2>3. CASE status[d] = "approved"
    <3>1. d \in Counts
      BY <2>1, <2>3 DEF DocumentOK, DocumentStatuses
    <3>2. Planned(d) = CountMoves(d)
      BY <3>1, StockAssumption DEF Planned
    <3>3. QED  BY <2>1, <2>3, <3>2 DEF DocumentOK
  <2>4. CASE status[d] = "reversed"
    BY <2>1, <2>4 DEF DocumentOK
  <2>5. CASE status[d] \notin {"posted", "approved", "reversed"}
    <3>1. MovesOf(d) = {}
      BY <2>1, <2>5 DEF DocumentOK
    <3>2. DeltaAt({}, row) = 0
      BY DeltaNone DEF Touched
    <3>3. QED  BY <2>5, <3>1, <3>2
  <2>6. QED  BY <2>2, <2>3, <2>4, <2>5
<1>2. IInv => EffectMatchesStatus
  BY <1>1
<1>3. QED  BY <1>2, Invariant, PTL

-----------------------------------------------------------------------------
(* What approving a count corrects on the row of a line.                   *)
LEMMA CountCorrects ==
  ASSUME IInv, NEW k \in Counts \ raced, status[k] = "submitted", NEW l \in lines[k]
  PROVE  /\ l.row \in Rows /\ CountedOK(l.counted) /\ l.counted # Unknown
         /\ DeltaAt(CountMoves(k), l.row) = l.counted.variance
<1>1. OneLineARow(lines[k]) /\ AllKnown(k)
  BY DEF IInv, DocumentsOK, CountOK
<1>2. l.row \in Rows /\ CountedOK(l.counted) /\ l.counted.known /\ l.counted # Unknown
  BY <1>1 DEF AllKnown, IInv, TablesOK, LineOK, Unknown
<1>3. l.counted.variance \in Int
  BY <1>2 DEF CountedOK
<1>4. PICK p : p = Move(l.n, l.row, l.counted.variance)
  OBVIOUS
<1>5. p.row = l.row /\ p.delta = l.counted.variance
  BY <1>4 DEF Move
<1>6. CASE l.counted.variance = 0
  <2>1. \A x \in lines[k] : x.row = l.row => x.counted.variance = 0
    BY <1>1, <1>6 DEF OneLineARow
  <2>2. \A q \in CountMoves(k) : q.row # l.row
    BY <2>1 DEF CountMoves, Move
  <2>3. l.row \notin Touched(CountMoves(k))
    BY <2>2 DEF Touched
  <2>4. QED  BY <1>2, <1>6, <2>3, DeltaNone
<1>7. CASE l.counted.variance # 0
  <2>1. p \in CountMoves(k)
    BY <1>2, <1>4, <1>7 DEF CountMoves
  <2>2. \A q \in CountMoves(k) : q.row = l.row => q = p
    <3>1. \A x \in lines[k] : x.row = l.row => x = l
      BY <1>1 DEF OneLineARow
    <3>2. QED  BY <1>4, <3>1 DEF CountMoves, Move
  <2>3. {q \in CountMoves(k) : q.row = l.row} = {p}
    BY <1>5, <2>1, <2>2
  <2>4. Amount({p}) = l.counted.variance
    <3>1. PICK f : f = [q \in {p} |-> q.delta]
      OBVIOUS
    <3>2. f[p] = l.counted.variance
      BY <1>5, <3>1
    <3>3. SumFunctionOnSet(f, {p}) = f[p]
      BY <1>3, <3>2, SumSingleton
    <3>4. QED  BY <3>1, <3>2, <3>3 DEF Amount
  <2>5. QED  BY <1>2, <2>3, <2>4 DEF DeltaAt
<1>8. QED  BY <1>6, <1>7

(* Approving a count takes away what the books showed too much when the    *)
(* line was counted, if nothing had moved since its snapshot.              *)
THEOREM CountsCorrect == Spec => CountCorrectsBooks
<1> DEFINE Corrects ==
      \A k \in Counts \ raced' : status[k] # "approved" /\ status'[k] = "approved" =>
        \A l \in lines[k] : l.counted.calm => gap'[l.row] = gap[l.row] - l.counted.gap
<1>1. ASSUME IInv, Next  PROVE Corrects
  <2> SUFFICES ASSUME NEW k \in Counts, k \notin raced', status[k] # "approved",
                      status'[k] = "approved", NEW l \in lines[k], l.counted.calm
               PROVE  gap'[l.row] = gap[l.row] - l.counted.gap
    OBVIOUS
  <2>1. k \in Documents
    BY DocumentsIs
  <2>2. PICK s \in Sessions : Commit(s) \/ CommitCount(s)
    <3>1. status' # status
      OBVIOUS
    <3>2. \A s, op, d, plan, undone, sums :
            Begin(s, op, d, plan, undone, sums) => status' = status
      BY DEF Begin
    <3>3. PICK s \in Sessions : Commit(s) \/ CommitCount(s) \/ Lock(s) \/ RollBack(s)
      <4>1. \A row : Lose(row) => status' = status
        BY DEF Lose
      <4>2. QED
        BY <1>1, <3>1, <3>2, <4>1
        DEF Next, BeginReceipt, BeginTransfer, BeginReversal, BeginStart, BeginRecord,
            BeginSubmit, BeginApproval, BeginCancel, BeginAdjustment, BeginRebuild
    <3>4. QED  BY <3>1, <3>3 DEF Lock, RollBack
  <2>3. CASE CommitCount(s)
    <3>1. PICK op : op = work[s].op
      OBVIOUS
    <3>2. /\ k # work[s].doc => status'[k] = status[k]
          /\ k = work[s].doc =>
               /\ op # "record" => status'[k] = After(op)
               /\ op = "record" => status'[k] = status[k]
               /\ op \in {"start", "record", "submit", "cancel"}
      BY <1>1, <2>1, <2>3, <3>1, CommitCountDocument
    <3>3. QED  BY <3>2 DEF After
  <2>4. CASE Commit(s)
    <3>1. PICK w : w = work[s]
      OBVIOUS
    <3>2. /\ k \notin raced /\ w.doc = k /\ w.status = status[k] /\ status[k] \in From(w.op)
          /\ status'[k] = After(w.op) /\ w.op \in {"post", "reverse", "approve"}
      BY <1>1, <2>1, <2>4, <3>1, CommitDocument
    <3>3. w.op = "approve" /\ status[k] = "submitted"
      BY <3>2 DEF After, From
    <3>4. Current(w) /\ w # Idle
      BY <1>1, <2>4, <3>1, Committing DEF IInv, DocumentsOK
    <3>5. w.plan = CountMoves(k)
      BY <2>1, <3>2, <3>3, <3>4 DEF Current
    <3>6. /\ l.row \in Rows /\ CountedOK(l.counted) /\ l.counted # Unknown
          /\ DeltaAt(CountMoves(k), l.row) = l.counted.variance
      BY <1>1, <3>2, <3>3, CountCorrects
    <3>7. gap'[l.row] = gap[l.row] + DeltaAt(w.plan, l.row)
      BY <2>4, <3>1, <3>3, <3>6 DEF Commit
    <3>8. gap[l.row] \in Int /\ l.counted.gap \in Int /\ l.counted.variance = -l.counted.gap
      BY <1>1, <3>6 DEF IInv, TablesOK, CountedOK
    <3>9. QED  BY <3>5, <3>6, <3>7, <3>8
  <2>5. QED  BY <2>2, <2>3, <2>4
<1>2. ASSUME UNCHANGED vars  PROVE Corrects
  BY <1>2 DEF vars
<1>3. IInv /\ [Next]_vars => [Corrects]_vars
  BY <1>1
<1>4. QED  BY <1>3, Invariant, PTL DEF Spec, CountCorrectsBooks
=============================================================================

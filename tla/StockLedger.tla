----------------------------- MODULE StockLedger -----------------------------
(***************************************************************************)
(* The stock of one inventory item (app/inventory): the append-only        *)
(* movements, their projections (the balance rows, the batches' remaining  *)
(* quantity, the item's roll-up), and the requests that post through them: *)
(* receipts, transfers, stock counts, adjustments, wastage and the rebuild *)
(* of the balances.  A request reads its document, the item and its        *)
(* batches without a lock; ledger.post_movement locks the balance row of   *)
(* each movement (a row of Rows) and reads it there; the rest becomes      *)
(* visible at the commit.  What orders reserve is in OrderFulfilment.      *)
(***************************************************************************)
EXTENDS Integers, FiniteSets, FiniteSetsExt, Functions

CONSTANTS
  Sessions,        \* concurrent requests
  Store, Kitchen,  \* storage locations: deliveries and counts, transfers
  AllowsNegative,  \* the locations with allows_negative_stock
  Batches, NoBatch,
  Receipts, Transfers, Counts,
  CodeOf,          \* the batch code of a receipt's line
  Quantity,        \* base_quantity of a receipt's line
  Deltas,          \* quantities an adjustment adds or wastage removes
  Opening,         \* opening balance of the Store
  MaxSteps         \* bound: postings, rebuilds and losses

Locations == {Store, Kitchen}
Rows      == Locations \X (Batches \union {NoBatch})
Documents == Receipts \union Transfers \union Counts

ASSUME StockAssumption ==
  /\ Store # Kitchen /\ AllowsNegative \subseteq Locations
  /\ NoBatch \notin Batches /\ CodeOf \in [Receipts -> Batches]
  /\ Quantity \in Nat \ {0} /\ Opening \in Nat /\ Deltas \subseteq Int
  /\ IsFiniteSet(Batches) /\ IsFiniteSet(Documents) /\ "none" \notin Documents
  /\ Receipts \cap Transfers = {} /\ Counts \cap (Receipts \union Transfers) = {}

VARIABLES
  tracked,     \* inventory_items.requires_batch_tracking
  made,        \* inventory_batches that exist
  onHand,      \* stock_balances.on_hand_quantity
  remaining,   \* inventory_batches.remaining_quantity
  rollup,      \* inventory_items.current_stock
  ledger,      \* sum of quantity_delta of the stock_movements of each row
  moves,       \* the movements with a document as their reference
  status,      \* status of each document
  lines,       \* stock_count_lines of each count
  work,        \* what each session is doing, with what it has read
  gap,         \* what the books show beyond what is on the shelf
  steps,       \* bound: postings, rebuilds and losses so far
  raced,       \* history: documents changed on an outdated status
  stale,       \* history: batches written from an outdated quantity
  missed,      \* history: what the last rebuild of a row left out of its sum
  exact        \* history: no posting overlapped the last one

vars == <<tracked, made, onHand, remaining, rollup, ledger, moves, status,
          lines, work, gap, steps, raced, stale, missed, exact>>

Idle    == [phase |-> "idle"]
Unknown == [known |-> FALSE]

Init ==
  /\ tracked \in BOOLEAN
  /\ made = {} /\ moves = {}
  /\ ledger = [row \in Rows |-> IF row = <<Store, NoBatch>> /\ ~tracked
                                 THEN Opening ELSE 0]
  /\ onHand = ledger
  /\ remaining = [b \in Batches |-> 0]
  /\ rollup = IF tracked THEN 0 ELSE Opening
  /\ status = [d \in Documents |-> "draft"]
  /\ lines = [k \in Counts |-> {}]
  /\ work = [s \in Sessions |-> Idle]
  /\ gap = [row \in Rows |-> 0]
  /\ steps = 0
  /\ raced = {} /\ stale = {} /\ exact = TRUE
  /\ missed = [row \in Rows |-> 0]

-----------------------------------------------------------------------------
(* The rows there can be: one per location, and one per location and batch.*)
Open == Locations \X (IF tracked THEN made \union {NoBatch} ELSE {NoBatch})

Total(f, S) == SumFunctionOnSet(f, S)

Move(n, row, delta) == [n |-> n, row |-> row, delta |-> delta]

MovesOf(d) == {m \in moves : m.doc = d}

Batch(r) == IF tracked THEN CodeOf[r] ELSE NoBatch

(* post_receipt: one purchase_receipt for the line.                        *)
ReceiptMoves(r) == {Move(1, <<Store, Batch(r)>>, Quantity)}

(* post_transfer: a transfer_out and a transfer_in.                        *)
TransferMoves(t) ==
  {Move(1, <<Store, NoBatch>>, -1), Move(2, <<Kitchen, NoBatch>>, 1)}

(* Mutant: the correction is posted with the wrong sign.                   *)
CountMovesInverted(k) ==
  {Move(l.n, l.row, -l.counted.variance) :
     l \in {x \in lines[k] : x.counted.known /\ x.counted.variance # 0}}

(* approve_count: one adjustment for every line that differs.              *)
CountMoves(k) ==
  {Move(l.n, l.row, l.counted.variance) :
     l \in {x \in lines[k] : x.counted.known /\ x.counted.variance # 0}}

(* reverse_receipt reverses one movement of its line, whichever the query  *)
(* returns; reverse_transfer reverses all those of its line.  A movement   *)
(* already reversed is an error.                                           *)
Reversible(d) ==
  {ms \in SUBSET MovesOf(d) :
     /\ d \in Receipts => Cardinality(ms) = 1
     /\ d \in Transfers => ms = MovesOf(d)
     /\ \A m \in ms : ~m.reversed}

Undo(ms) == {Move(m.n, m.row, -m.delta) : m \in ms}

-----------------------------------------------------------------------------
NoSums == [row \in {} |-> 0]

(* What a request has read when it turns to its locks.                     *)
Read(op, d, plan, undone, sums) ==
  [phase |-> "read", op |-> op, doc |-> d, plan |-> plan, undone |-> undone,
   sums |-> sums, status |-> IF d \in Documents THEN status[d] ELSE "none",
   remaining |-> remaining, rollup |-> rollup, alone |-> TRUE]

(* A request is taken only if the bound lets it commit.                    *)
Room ==
  steps + Cardinality({t \in Sessions : work[t].phase \in {"read", "locked"}})
    < MaxSteps

Begin(s, op, d, plan, undone, sums) ==
  /\ work[s] = Idle
  /\ work' = [work EXCEPT ![s] = Read(op, d, plan, undone, sums)]
  /\ UNCHANGED <<tracked, made, onHand, remaining, rollup, ledger, moves, status,
                 lines, gap, steps, raced, stale, missed, exact>>

BeginReceipt(s, r) ==
  /\ Room
  /\ status[r] = "draft"
  /\ Begin(s, "post", r, ReceiptMoves(r), {}, NoSums)

(* A line of a tracked item names a batch, whose code the batch made at    *)
(* the destination would repeat: uq_inventory_batches_item_code refuses it.*)
BeginTransfer(s, t) ==
  /\ Room
  /\ status[t] = "draft" /\ ~tracked
  /\ Begin(s, "post", t, TransferMoves(t), {}, NoSums)

BeginReversal(s, d) ==
  /\ Room
  /\ status[d] = "posted"
  /\ \E ms \in Reversible(d) :
       Begin(s, "reverse", d, Undo(ms), {m.n : m \in ms}, NoSums)

BeginApproval(s, k) ==
  /\ Room
  /\ status[k] = "submitted"
  /\ Begin(s, "approve", k, CountMoves(k), {}, NoSums)

(* create_adjustment and record_wastage: the row a request names, with or  *)
(* without a batch, whether the item is tracked or not.                    *)
BeginAdjustment(s, row, delta) ==
  /\ Room
  /\ row \in Open
  /\ Begin(s, "adjust", "none", {Move(1, row, delta)}, {}, NoSums)

(* rebuild_balances: the sums are read before the rows are locked.         *)
BeginRebuild(s) ==
  /\ Room
  /\ Begin(s, "rebuild", "none", {}, {}, ledger)

-----------------------------------------------------------------------------
Posting == {"post", "reverse", "approve", "adjust", "rebuild"}

Touched(plan) == {p.row : p \in plan}

Amount(moved) == SumFunctionOnSet([p \in moved |-> p.delta], moved)

DeltaAt(plan, row) == Amount({p \in plan : p.row = row})

DeltaOf(plan, b) == Amount({p \in plan : p.row[2] = b})

(* The rows a session changes, and what it writes there.                   *)
NewOnHand(w) ==
  IF w.op = "rebuild"
  THEN [row \in Open |-> w.sums[row]]
  ELSE [row \in Touched(w.plan) |-> onHand[row] + DeltaAt(w.plan, row)]

(* Mutant: the balance row is read without FOR UPDATE.                     *)
UnlockedRead(s, rows) == TRUE

Unlocked(s, rows) ==
  \A t \in Sessions \ {s} :
    work[t].phase = "locked" => DOMAIN work[t].new \cap rows = {}

(* The checks of post_movement and reverse_movement and the constraints of *)
(* the two tables; a batch is made once.                                   *)
Accepts(w, new) ==
  /\ \A row \in DOMAIN new : row[1] \in AllowsNegative \/ new[row] >= 0
  /\ \A p \in w.plan : p.row[2] # NoBatch =>
       /\ w.remaining[p.row[2]] + p.delta \in 0 .. Quantity
       /\ w.op = "post" => p.row[2] \notin made

(* post_movement, reverse_movement, rebuild_balances: the rows are locked, *)
(* and the roll-up is summed from the balances committed and the own ones. *)
Lock(s) ==
  LET w == work[s]
      new == NewOnHand(w) IN
  /\ w.phase = "read" /\ w.op \in Posting
  /\ Unlocked(s, DOMAIN new) /\ Accepts(w, new)
  /\ work' = [work EXCEPT ![s] =
       [phase |-> "locked", op |-> w.op, doc |-> w.doc, plan |-> w.plan,
        undone |-> w.undone, status |-> w.status, remaining |-> w.remaining,
        new |-> new,
        early |-> IF w.op = "rebuild"
                  THEN [row \in DOMAIN new |-> ledger[row] - new[row]] ELSE NoSums,
        sum |-> Total(new, DOMAIN new) + Total(onHand, Rows \ DOMAIN new),
        rollup |-> IF w.op = "rebuild" THEN rollup ELSE w.rollup,
        alone |-> w.alone]]
  /\ UNCHANGED <<tracked, made, onHand, remaining, rollup, ledger, moves, status,
                 lines, gap, steps, raced, stale, missed, exact>>

(* Mutant: a reversed document stays posted.                               *)
AfterUnmarked(op) ==
  CASE op \in {"post", "reverse"} -> "posted"
    [] op = "approve" -> "approved"
    [] op = "start"   -> "in_progress"
    [] op = "record"  -> "in_progress"
    [] op = "submit"  -> "submitted"
    [] op = "cancel"  -> "cancelled"

(* The status a request leaves its document in.                            *)
After(op) ==
  CASE op = "post"    -> "posted"
    [] op = "reverse" -> "reversed"
    [] op = "approve" -> "approved"
    [] op = "start"   -> "in_progress"
    [] op = "record"  -> "in_progress"
    [] op = "submit"  -> "submitted"
    [] op = "cancel"  -> "cancelled"

(* The document's row: the status is written whatever it is by then, but   *)
(* recording a line does not write it.                                     *)
MarkDocument(w) ==
  /\ status' = IF w.doc \in Documents /\ w.op # "record"
               THEN [status EXCEPT ![w.doc] = After(w.op)] ELSE status
  /\ raced' = IF w.doc \in Documents /\ w.status # status[w.doc]
              THEN raced \union {w.doc} ELSE raced

(* The movements: those reversed get a mark, the new ones a reference.     *)
Recorded(w) ==
  LET n == Cardinality(MovesOf(w.doc)) IN
  {IF m.doc = w.doc /\ m.n \in w.undone THEN [m EXCEPT !.reversed = TRUE] ELSE m
     : m \in moves}
  \union
  (IF w.doc \in Documents
   THEN {[doc |-> w.doc, n |-> n + p.n, row |-> p.row, delta |-> p.delta,
          reversed |-> FALSE] : p \in w.plan}
   ELSE {})

(* Mutant: the roll-up follows the balance of the last row posted to.      *)
RollupOfLastRow(w) ==
  LET row == CHOOSE r \in DOMAIN w.new : TRUE IN w.new[row]

(* refresh_item_rollup: the column is written if it differs from the copy; *)
(* a second movement writes it again.                                      *)
Rollup(w) ==
  IF w.sum # w.rollup \/ Cardinality(w.plan) > 1 THEN w.sum ELSE rollup

(* Mutant: the batch is changed, its quantity is not.                      *)
RemainingForgotten(w, b) == remaining[b]

(* The batch's quantity is computed on the copy read without a lock.       *)
Remaining(w, b) ==
  IF \E p \in w.plan : p.row[2] = b
  THEN w.remaining[b] + DeltaOf(w.plan, b) ELSE remaining[b]

(* The commit of a request that posts, or of a rebuild.                    *)
Commit(s) ==
  LET w == work[s] IN
  /\ w.phase = "locked"
  /\ onHand' = [row \in Rows |->
                  IF row \in DOMAIN w.new THEN w.new[row] ELSE onHand[row]]
  /\ ledger' = [row \in Rows |-> ledger[row] + DeltaAt(w.plan, row)]
  /\ moves' = Recorded(w)
  /\ made' = made \union ({p.row[2] : p \in w.plan} \ {NoBatch})
  /\ remaining' = [b \in Batches |-> Remaining(w, b)]
  /\ rollup' = Rollup(w)
  /\ MarkDocument(w)
  /\ gap' = [row \in Rows |->
               gap[row] + IF w.op = "approve" THEN DeltaAt(w.plan, row) ELSE 0]
  /\ steps' = steps + 1
  /\ stale' = stale \union {b \in Batches : /\ \E p \in w.plan : p.row[2] = b
                                            /\ w.remaining[b] # remaining[b]}
  /\ missed' = [row \in Rows |->
                  IF row \in DOMAIN w.early THEN w.early[row] ELSE missed[row]]
  /\ exact' = w.alone
  /\ work' = [t \in Sessions |->
                IF t = s THEN Idle
                ELSE IF work[t] = Idle THEN Idle
                ELSE [work[t] EXCEPT !.alone = FALSE]]
  /\ UNCHANGED <<tracked, lines>>

(* A failed check, a deadlock, a lost connection.                          *)
RollBack(s) ==
  /\ work[s] # Idle
  /\ work' = [work EXCEPT ![s] = Idle]
  /\ UNCHANGED <<tracked, made, onHand, remaining, rollup, ledger, moves, status,
                 lines, gap, steps, raced, stale, missed, exact>>

-----------------------------------------------------------------------------
(* The snapshot of start_count: the balance of the Store, or its batches.  *)
Snapshot ==
  IF tracked
  THEN {Move(1, <<Store, b>>, remaining[b]) : b \in {x \in made : remaining[x] > 0}}
  ELSE {Move(1, <<Store, NoBatch>>, onHand[<<Store, NoBatch>>])}

BeginStart(s, k) ==
  /\ status[k] = "draft"
  /\ Begin(s, "start", k, Snapshot, {}, NoSums)

(* Somebody counts the shelf of a line and enters what is there.           *)
Counted(l) ==
  [known |-> TRUE, variance |-> ledger[l.row] - gap[l.row] - l.system,
   gap |-> gap[l.row], calm |-> l.system = ledger[l.row]]

BeginRecord(s, k) ==
  /\ status[k] = "in_progress"
  /\ \E l \in lines[k] :
       /\ ledger[l.row] >= gap[l.row]
       /\ Begin(s, "record", k,
                {[n |-> l.n, row |-> l.row, counted |-> Counted(l)]}, {}, NoSums)

BeginSubmit(s, k) ==
  /\ status[k] = "in_progress"
  /\ \A l \in lines[k] : l.counted.known
  /\ Begin(s, "submit", k, {}, {}, NoSums)

BeginCancel(s, k) ==
  /\ status[k] \in {"draft", "in_progress", "submitted"}
  /\ Begin(s, "cancel", k, {}, {}, NoSums)

(* The commit of a step of a count that posts nothing.                     *)
CommitCount(s) ==
  LET w == work[s] IN
  /\ w.phase = "read" /\ w.op \in {"start", "record", "submit", "cancel"}
  /\ lines' = [lines EXCEPT ![w.doc] =
       CASE w.op = "start" ->
              @ \union {[n |-> Cardinality(@) + p.n, row |-> p.row,
                         system |-> p.delta, counted |-> Unknown] : p \in w.plan}
         [] w.op = "record" ->
              {LET new == {p \in w.plan : p.n = l.n /\ p.row = l.row} IN
               IF new = {} THEN l
               ELSE [l EXCEPT !.counted = (CHOOSE p \in new : TRUE).counted]
                 : l \in @}
         [] OTHER -> @]
  /\ MarkDocument(w)
  /\ work' = [work EXCEPT ![s] = Idle]
  /\ UNCHANGED <<tracked, made, onHand, remaining, rollup, ledger, moves, gap,
                 steps, stale, missed, exact>>

(* A unit leaves the shelf and nobody records it.                          *)
Lose(row) ==
  /\ Room
  /\ row \in Open /\ ledger[row] > gap[row]
  /\ gap' = [gap EXCEPT ![row] = @ + 1]
  /\ steps' = steps + 1
  /\ UNCHANGED <<tracked, made, onHand, remaining, rollup, ledger, moves, status,
                 lines, work, raced, stale, missed, exact>>

Next ==
  \/ \E s \in Sessions :
       \/ \E r \in Receipts : BeginReceipt(s, r)
       \/ \E t \in Transfers : BeginTransfer(s, t)
       \/ \E d \in Receipts \union Transfers : BeginReversal(s, d)
       \/ \E k \in Counts : BeginStart(s, k) \/ BeginRecord(s, k)
                            \/ BeginSubmit(s, k) \/ BeginApproval(s, k)
                            \/ BeginCancel(s, k)
       \/ \E row \in Rows, delta \in Deltas : BeginAdjustment(s, row, delta)
       \/ BeginRebuild(s)
       \/ Lock(s) \/ Commit(s) \/ CommitCount(s) \/ RollBack(s)
  \/ \E row \in Rows : Lose(row)

Spec == Init /\ [][Next]_vars

-----------------------------------------------------------------------------
(* The balance of a row is the sum of its movements, less those that       *)
(* committed after the last rebuild had read its sums and before it locked *)
(* the row: nothing is left out once the row is locked, nor by a posting.  *)
BalanceIsLedger == \A row \in Rows : onHand[row] = ledger[row] - missed[row]

(* A batch has the quantity its movements give, unless a posting computed  *)
(* it from a quantity that had changed since.                              *)
BatchIsLedger ==
  \A b \in Batches \ stale :
    remaining[b] = Total(ledger, {row \in Rows : row[2] = b})

(* What a document is planned to post.                                     *)
Planned(d) ==
  CASE d \in Receipts  -> ReceiptMoves(d)
    [] d \in Transfers -> TransferMoves(d)
    [] d \in Counts    -> CountMoves(d)

(* The movements of a document amount to its lines while it is posted or   *)
(* approved and to nothing otherwise, unless two requests changed it from  *)
(* the same status.                                                        *)
EffectMatchesStatus ==
  \A d \in Documents \ raced, row \in Rows :
    DeltaAt(MovesOf(d), row) =
      IF status[d] \in {"posted", "approved"} THEN DeltaAt(Planned(d), row) ELSE 0

(* The item's roll-up is the sum of its balances after a posting that no   *)
(* other overlapped.                                                       *)
RollupIsTotal == exact => rollup = Total(onHand, Rows)

(* Approving a count takes away what the books showed too much when the    *)
(* line was counted, if nothing had moved since its snapshot.              *)
CountCorrectsBooks ==
  [][\A k \in Counts \ raced' : status[k] # "approved" /\ status'[k] = "approved" =>
       \A l \in lines[k] : l.counted.calm =>
         gap'[l.row] = gap[l.row] - l.counted.gap]_vars
=============================================================================

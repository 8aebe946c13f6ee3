-------------------------- MODULE PaperLedgerSafety --------------------------
(***************************************************************************)
(* The inductive invariant LedgerInv of PaperLedger, and what follows from *)
(* it for every number of positions, orders, faults and crashes: the       *)
(* positions table never gets ahead of or behind the confirmed fills       *)
(* (DurableReconciled), and every row can be restored (RowRestorable).     *)
(*                                                                         *)
(* A step either leaves the snapshots of a position as they are, up to the *)
(* exits (Like), or adds the snapshot of a fill under a fresh order id.    *)
(***************************************************************************)
EXTENDS PaperLedgerProofs

USE SizeAssumption
USE DEF TypeOK, ControlTypeOK, MemoryTypeOK, DurableTypeOK

\* x holds what y holds; only the exits and the time may differ, and TP1 is not
\* armed on a partial exit that had spent it.
Like(x, y) ==
    /\ x.status = y.status /\ x.tokens = y.tokens /\ x.exitOrder = y.exitOrder
    /\ x.tp1 /\ x.status = "PARTIAL_EXIT" => y.tp1

Known(p, x) == \E y \in Snapshots(p) : Like(x, y)

LEMMA SnapshotsOf ==
  ASSUME NEW p \in Pos
  PROVE  /\ mem[p] \in Snapshots(p) /\ row[p] \in Snapshots(p)
         /\ \A i \in 1..Len(pending) : pending[i].pos = p => pending[i].snap \in Snapshots(p)
         /\ \A w \in late : w.pos = p => w.snap \in Snapshots(p)
  BY DEF Snapshots

LEMMA SnapshotIsOneOf ==
  ASSUME NEW p \in Pos, NEW x \in Snapshots(p)'
  PROVE  \/ x = mem'[p] \/ x = row'[p]
         \/ \E i \in 1..Len(pending') : pending'[i].pos = p /\ x = pending'[i].snap
         \/ \E w \in late' : w.pos = p /\ x = w.snap
  BY DEF Snapshots

LEMMA SnapshotsTyped ==
  ASSUME TypeOK, NEW p \in Pos
  PROVE  /\ Snapshots(p) \subseteq PositionRecord
         /\ mem[p] \in PositionRecord /\ row[p] \in PositionRecord
         /\ \A i \in 1..Len(pending) : pending[i].snap \in PositionRecord
         /\ \A w \in late : w.snap \in PositionRecord /\ w.pos \in Pos
  <1>1. \A i \in 1..Len(pending) : pending[i].snap \in PositionRecord
    <2>1. \A i \in 1..Len(pending) : pending[i] \in Fill
      OBVIOUS
    <2> QED
      BY <2>1 DEF Fill
  <1>2. \A w \in late : w.snap \in PositionRecord /\ w.pos \in Pos
    OBVIOUS
  <1>3. mem[p] \in PositionRecord /\ row[p] \in PositionRecord
    OBVIOUS
  <1> QED
    BY <1>1, <1>2, <1>3 DEF Snapshots

\* An entry that is still open has its whole size, and no exit order.
LEMMA AgreeingPair ==
  ASSUME NEW p \in Pos, SnapshotsAgree(p),
         NEW s \in Snapshots(p), NEW t \in Snapshots(p),
         s.status # "NONE", t.status # "NONE", s.exitOrder = t.exitOrder
  PROVE  s.tokens = t.tokens
  BY DEF SnapshotsAgree

-----------------------------------------------------------------------------
(* A step that only moves known snapshots around.                          *)

LEMMA LikeOK ==
  ASSUME TypeOK, NEW p \in Pos, SnapshotsAgree(p), nextOrder' = nextOrder,
         NEW y \in Snapshots(p), NEW x \in PositionRecord, Like(x, y)
  PROVE  SnapshotOK(x)'
  <1>1. SnapshotOK(y)
    BY DEF SnapshotsAgree
  <1>2. y \in PositionRecord
    BY SnapshotsTyped
  <1>3. x.exitOrder < nextOrder'
    BY <1>1 DEF SnapshotOK, Like
  <1>4. x.status = "PARTIAL_EXIT" => ~x.tp1
    BY <1>1 DEF SnapshotOK, Like
  <1> QED
    BY <1>1, <1>3, <1>4 DEF SnapshotOK, Like

LEMMA NoPositionOK ==
  ASSUME TypeOK, NEW p \in Pos, SnapshotsAgree(p), nextOrder' = nextOrder
  PROVE  SnapshotOK(NoPosition)'
  <1>1. mem[p].exitOrder < nextOrder /\ mem[p].exitOrder \in Nat
    BY SnapshotsOf DEF SnapshotsAgree, SnapshotOK, PositionRecord
  <1> QED
    BY <1>1 DEF SnapshotOK, NoPosition, NoOrder

LEMMA KnownAgree ==
  ASSUME TypeOK, TypeOK', NEW p \in Pos, SnapshotsAgree(p), nextOrder' = nextOrder,
         mem'[p] = NoPosition \/ Known(p, mem'[p]),
         Known(p, row'[p]),
         \A i \in 1..Len(pending') :
            pending'[i].pos = p => Known(p, pending'[i].snap),
         \A w \in late' : w.pos = p => Known(p, w.snap)
  PROVE  SnapshotsAgree(p)'
  <1>1. ASSUME NEW x \in Snapshots(p)'
        PROVE  x \in PositionRecord /\ (x = NoPosition \/ Known(p, x))
    <2>1. CASE x = mem'[p] \/ x = row'[p]
      BY <2>1
    <2>2. CASE \E i \in 1..Len(pending') : pending'[i].pos = p /\ x = pending'[i].snap
      <3>1. PICK i \in 1..Len(pending') : pending'[i].pos = p /\ x = pending'[i].snap
        BY <2>2
      <3>2. pending'[i] \in Fill
        OBVIOUS
      <3> QED
        BY <3>1, <3>2 DEF Fill
    <2>3. CASE \E w \in late' : w.pos = p /\ x = w.snap
      BY <2>3
    <2> QED
      BY <2>1, <2>2, <2>3, SnapshotIsOneOf
  <1>2. ASSUME NEW x \in Snapshots(p)' PROVE SnapshotOK(x)'
    BY <1>1, LikeOK, NoPositionOK DEF Known
  <1>3. ASSUME NEW x \in Snapshots(p)', NEW z \in Snapshots(p)',
               x.status # "NONE", z.status # "NONE", x.exitOrder = z.exitOrder
        PROVE  x.tokens = z.tokens
    <2>1. Known(p, x) /\ Known(p, z)
      BY <1>1, <1>3 DEF NoPosition
    <2>2. PICK y \in Snapshots(p) : Like(x, y)
      BY <2>1 DEF Known
    <2>3. PICK u \in Snapshots(p) : Like(z, u)
      BY <2>1 DEF Known
    <2> QED
      BY <1>3, <2>2, <2>3, AgreeingPair DEF Like
  <1> QED
    BY <1>2, <1>3 DEF SnapshotsAgree

-----------------------------------------------------------------------------
(* The part of LedgerInv about data, and what the writes do to it.         *)

DataInv ==
    /\ DurableReconciled /\ QueueBehind /\ LateExist
    /\ \A p \in Pos : SnapshotsAgree(p)

LEMMA SnapshotsKnown ==
  ASSUME NEW p \in Pos, NEW y \in Snapshots(p)
  PROVE  Known(p, y)
  BY DEF Known, Like

LEMMA QueueKnown ==
  ASSUME TypeOK, NEW i \in 1..Len(pending)
  PROVE  pending[i].pos \in Pos /\ Known(pending[i].pos, pending[i].snap)
  <1>1. pending[i] \in Fill
    OBVIOUS
  <1>2. pending[i].pos \in Pos
    BY <1>1 DEF Fill
  <1> QED
    BY <1>2, SnapshotsOf, SnapshotsKnown

\* The guards of updatePosition let a write through only if its quantity is the row's.
LEMMA RowWrittenKeeps ==
  ASSUME TypeOK, DataInv, NEW p \in Pos, NEW s, Known(p, s), s.status # "NONE", NEW q \in Pos
  PROVE  Known(q, RowWritten(p, s)[q]) /\ RowWritten(p, s)[q].tokens = row[q].tokens
  <1>1. CASE RowAccepts(row[p], s) /\ q = p
    <2>1. RowWritten(p, s)[q] = s
      BY <1>1 DEF RowWritten
    <2>2. PICK y \in Snapshots(p) : Like(s, y)
      BY DEF Known
    <2>3. y.tokens = row[p].tokens
      BY <1>1, <2>2, SnapshotsOf, AgreeingPair DEF DataInv, RowAccepts, Like
    <2> QED
      BY <1>1, <2>1, <2>2, <2>3 DEF Like
  <1>2. CASE ~(RowAccepts(row[p], s) /\ q = p)
    <2>1. RowWritten(p, s)[q] = row[q]
      BY <1>2 DEF RowWritten
    <2> QED
      BY <2>1, SnapshotsOf, SnapshotsKnown
  <1> QED
    BY <1>1, <1>2

LEMMA UpdateKeeps ==
  ASSUME TypeOK, DataInv, NEW p \in Pos, NEW s \in PositionRecord, Known(p, s),
         s.status # "NONE", UpdatePositionOk(p, s) \/ UpdatePositionFails(p, s)
  PROVE  /\ DurableReconciled'
         /\ \A q \in Pos : Known(q, row'[q])
         /\ \A w \in late' : Known(w.pos, w.snap) /\ w.snap.status # "NONE"
  <1>1. \A w \in late : Known(w.pos, w.snap) /\ w.snap.status # "NONE"
    BY SnapshotsOf, SnapshotsKnown DEF DataInv, LateExist
  <1>2. CASE UpdatePositionOk(p, s)
    <2>1. row' = RowWritten(p, s) /\ orderQty' = orderQty /\ late' = late
      BY <1>2 DEF UpdatePositionOk
    <2>2. ASSUME NEW q \in Pos PROVE row'[q].tokens = orderQty'[q] /\ Known(q, row'[q])
      <3>1. Known(q, RowWritten(p, s)[q]) /\ RowWritten(p, s)[q].tokens = row[q].tokens
        BY RowWrittenKeeps
      <3>2. row[q].tokens = orderQty[q]
        BY DEF DataInv, DurableReconciled
      <3> QED
        BY <2>1, <3>1, <3>2
    <2> QED
      BY <1>1, <2>1, <2>2 DEF DurableReconciled
  <1>3. CASE UpdatePositionFails(p, s)
    <2>1. /\ row' = row /\ orderQty' = orderQty
          /\ \A w \in late' : w \in late \/ w = [pos |-> p, snap |-> s]
      BY <1>3 DEF UpdatePositionFails
    <2>2. DurableReconciled' /\ \A q \in Pos : Known(q, row'[q])
      BY <2>1, SnapshotsOf, SnapshotsKnown DEF DataInv, DurableReconciled
    <2> QED
      BY <1>1, <2>1, <2>2
  <1> QED
    BY <1>2, <1>3

\* What every step but a new fill has to show.
LEMMA DataKept ==
  ASSUME TypeOK, TypeOK', DataInv, nextOrder' = nextOrder, DurableReconciled', QueueBehind',
         \A p \in Pos : mem'[p] = NoPosition \/ Known(p, mem'[p]),
         \A p \in Pos : Known(p, row'[p]),
         \A i \in 1..Len(pending') : Known(pending'[i].pos, pending'[i].snap),
         \A w \in late' : Known(w.pos, w.snap) /\ w.snap.status # "NONE"
  PROVE  DataInv'
  <1>1. ASSUME NEW p \in Pos PROVE SnapshotsAgree(p)'
    <2>1. /\ SnapshotsAgree(p)
          /\ mem'[p] = NoPosition \/ Known(p, mem'[p])
          /\ Known(p, row'[p])
      BY DEF DataInv
    <2>2. \A i \in 1..Len(pending') : pending'[i].pos = p => Known(p, pending'[i].snap)
      OBVIOUS
    <2>3. \A w \in late' : w.pos = p => Known(p, w.snap)
      OBVIOUS
    <2> HIDE DEF TypeOK
    <2> QED
      BY <2>1, <2>2, <2>3, KnownAgree
  <1>2. LateExist'
    BY DEF LateExist
  <1> QED
    BY <1>1, <1>2 DEF DataInv

\* The transaction of a fill moves the row and the orders by the same quantity.
LEMMA CommitReconciles ==
  ASSUME TypeOK, DataInv, NEW f \in Fill, f.snap \in Snapshots(f.pos),
         FillAccepted(row[f.pos], f), Commit(f)
  PROVE  DurableReconciled' /\ \A p \in Pos : Known(p, row'[p])
  <1>1. /\ f.pos \in Pos /\ f.qty \in Int /\ f.snap \in PositionRecord
        /\ f.snap.tokens \in Int /\ row[f.pos].tokens \in Int
    <2>1. f.pos \in Pos /\ f.qty \in Int /\ f.snap \in PositionRecord
      BY DEF Fill
    <2>2. row[f.pos] \in PositionRecord
      BY <2>1
    <2> HIDE DEF TypeOK
    <2>3. ASSUME NEW r \in PositionRecord PROVE r.tokens \in Int
      BY DEF PositionRecord
    <2> QED
      BY <2>1, <2>2, <2>3
  <1>2. row[f.pos].tokens = orderQty[f.pos]
    BY <1>1 DEF DataInv, DurableReconciled
  <1>3. f.snap.tokens = orderQty[f.pos] + Signed(f.side, f.qty)
    <2>1. CASE f.side = "BUY"
      <3>1. row[f.pos].status = "NONE" /\ f.snap.tokens = f.qty
        BY <2>1 DEF FillAccepted
      <3>2. row[f.pos].tokens = 0
        BY <1>1, <3>1, SnapshotsOf DEF DataInv, SnapshotsAgree, SnapshotOK
      <3> QED
        BY <1>1, <1>2, <2>1, <3>1, <3>2 DEF Signed
    <2>2. CASE f.side # "BUY"
      BY <1>1, <1>2, <2>2 DEF FillAccepted, Signed
    <2> QED
      BY <2>1, <2>2
  <1>4. /\ row' = [row EXCEPT ![f.pos] = f.snap]
        /\ orderQty' = [orderQty EXCEPT ![f.pos] = @ + Signed(f.side, f.qty)]
    BY DEF Commit
  <1>5. ASSUME NEW p \in Pos PROVE row'[p].tokens = orderQty'[p] /\ Known(p, row'[p])
    <2>1. CASE p = f.pos
      BY <1>1, <1>3, <1>4, <2>1, SnapshotsKnown
    <2>2. CASE p # f.pos
      BY <1>1, <1>4, <2>2, SnapshotsOf, SnapshotsKnown DEF DataInv, DurableReconciled
    <2> QED
      BY <2>1, <2>2
  <1> QED
    BY <1>5 DEF DurableReconciled

-----------------------------------------------------------------------------
(* A new fill.                                                             *)

\* RecordFill adds the snapshot s under a fresh order id, or, for an entry, under none.
LEMMA FillKeeps ==
  ASSUME TypeOK, TypeOK', DataInv, NEW p \in Pos, NEW s \in PositionRecord,
         NEW side \in {"BUY", "SELL"}, NEW q \in 0..Size, RecordFill(p, s, side, q),
         s.status # "NONE", SnapshotOK(s)',
         s.exitOrder = nextOrder \/ (pending = <<>> /\ s.status = "OPEN")
  PROVE  DataInv'
  <1>1. /\ mem' = [mem EXCEPT ![p] = s] /\ nextOrder' = nextOrder + 1
        /\ pending' = Append(pending, [order |-> nextOrder, pos |-> p, side |-> side,
                                       qty |-> q, snap |-> s])
        /\ UNCHANGED <<row, orders, orderQty, late>>
    BY DEF RecordFill, durable
  <1>2. /\ Len(pending') = Len(pending) + 1
        /\ \A i \in 1..Len(pending) : pending'[i] = pending[i]
        /\ pending'[Len(pending) + 1].pos = p /\ pending'[Len(pending) + 1].snap = s
        /\ Len(pending) \in Nat
    BY <1>1
  <1>3. DurableReconciled' /\ LateExist'
    BY <1>1 DEF DataInv, DurableReconciled, LateExist
  <1>4. \A i \in 1..Len(pending) : /\ pending[i].pos \in Pos
                                   /\ pending[i].snap.exitOrder < nextOrder
                                   /\ pending[i].snap.exitOrder \in Nat
    <2>1. ASSUME NEW i \in 1..Len(pending)
          PROVE  /\ pending[i].pos \in Pos /\ pending[i].snap \in PositionRecord
                 /\ pending[i].snap \in Snapshots(pending[i].pos)
      BY QueueKnown, SnapshotsTyped, SnapshotsOf
    <2>2. ASSUME NEW i \in 1..Len(pending) PROVE SnapshotOK(pending[i].snap)
      BY <2>1 DEF DataInv, SnapshotsAgree
    <2> QED
      BY <2>1, <2>2 DEF SnapshotOK, PositionRecord
  <1>5. QueueBehind'
    <2>1. ASSUME NEW i \in 1..Len(pending')
          PROVE  pending'[i].snap.exitOrder <= mem'[pending'[i].pos].exitOrder
      <3>0. s.exitOrder \in Nat /\ nextOrder \in Nat
        BY DEF PositionRecord
      <3>1. CASE i = Len(pending) + 1
        BY <1>1, <1>2, <3>0, <3>1
      <3>2. CASE i \in 1..Len(pending) /\ pending[i].pos = p
        <4>1. s.exitOrder = nextOrder
          BY <3>2
        <4> QED
          BY <1>1, <1>2, <1>4, <3>0, <3>2, <4>1
      <3>3. CASE i \in 1..Len(pending) /\ pending[i].pos # p
        BY <1>1, <1>2, <1>4, <3>3 DEF DataInv, QueueBehind
      <3> QED
        BY <1>2, <3>1, <3>2, <3>3
    <2> QED
      BY <2>1 DEF QueueBehind
  <1>6. ASSUME NEW r \in Pos, NEW x \in Snapshots(r)'
        PROVE  x \in Snapshots(r) \/ (r = p /\ x = s)
    <2>1. CASE x = mem'[r] \/ x = row'[r] \/ \E w \in late' : w.pos = r /\ x = w.snap
      BY <1>1, <2>1, SnapshotsOf
    <2>2. CASE \E i \in 1..Len(pending') : pending'[i].pos = r /\ x = pending'[i].snap
      <3>1. PICK i \in 1..Len(pending') : pending'[i].pos = r /\ x = pending'[i].snap
        BY <2>2
      <3>2. CASE i \in 1..Len(pending)
        BY <1>2, <3>1, <3>2, SnapshotsOf
      <3>3. CASE i = Len(pending) + 1
        BY <1>2, <3>1, <3>3
      <3> QED
        BY <1>2, <3>2, <3>3
    <2> QED
      BY <2>1, <2>2, SnapshotIsOneOf
  <1>7. ASSUME NEW r \in Pos, NEW x \in Snapshots(r)' PROVE SnapshotOK(x)'
    <2>1. CASE x \in Snapshots(r)
      <3>1. SnapshotOK(x) /\ x \in PositionRecord /\ nextOrder \in Nat
        BY <2>1, SnapshotsTyped DEF DataInv, SnapshotsAgree
      <3>2. x.exitOrder < nextOrder'
        BY <1>1, <3>1 DEF SnapshotOK, PositionRecord
      <3> QED
        BY <3>1, <3>2 DEF SnapshotOK
    <2> QED
      BY <1>6, <2>1
  <1>8. ASSUME NEW t \in Snapshots(p), t.status # "NONE", t.exitOrder = s.exitOrder
        PROVE  t.tokens = s.tokens
    <2>1. SnapshotOK(t) /\ t \in PositionRecord /\ nextOrder \in Nat
      BY SnapshotsTyped DEF DataInv, SnapshotsAgree
    <2>2. s.exitOrder # nextOrder
      BY <1>8, <2>1 DEF SnapshotOK, PositionRecord
    <2>3. s.status = "OPEN" /\ s.exitOrder = NoOrder /\ s.tokens = Size
      BY <2>2 DEF SnapshotOK
    <2> QED
      BY <1>8, <2>1, <2>3 DEF SnapshotOK
  <1>9. ASSUME NEW r \in Pos, NEW x \in Snapshots(r)', NEW z \in Snapshots(r)',
               x.status # "NONE", z.status # "NONE", x.exitOrder = z.exitOrder
        PROVE  x.tokens = z.tokens
    <2>1. CASE x \in Snapshots(r) /\ z \in Snapshots(r)
      BY <1>9, <2>1, AgreeingPair DEF DataInv
    <2>2. CASE ~(x \in Snapshots(r) /\ z \in Snapshots(r))
      BY <1>6, <1>8, <1>9, <2>2
    <2> QED
      BY <2>1, <2>2
  <1>10. \A r \in Pos : SnapshotsAgree(r)'
    BY <1>7, <1>9 DEF SnapshotsAgree
  <1> QED
    BY <1>3, <1>5, <1>10 DEF DataInv

LEMMA SaleKeeps ==
  ASSUME TypeOK, TypeOK', DataInv, NEW p \in Pos, NEW fraction \in Fractions,
         ExecuteSale(p, fraction)
  PROVE  DataInv' /\ \A r \in Pos : mem[r].status # "NONE" => mem'[r].status # "NONE"
  <1>1. mem[p] \in PositionRecord /\ mem[p].tokens \in 0..Size /\ nextOrder \in Nat
    BY DEF PositionRecord
  <1>2. SellQuantity(mem[p], fraction) \in 0..mem[p].tokens
    BY SellQuantityBound
  <1>3. PICK q \in 0..Size : q = SellQuantity(mem[p], fraction) /\ q \in 0..mem[p].tokens
    BY <1>1, <1>2
  <1>4. PICK s \in PositionRecord : s = Sold(mem[p], fraction, q, nextOrder)
    BY <1>1, <1>3, SoldType
  <1>5. /\ s.exitOrder = nextOrder /\ s.status \in {"PARTIAL_EXIT", "CLOSED"}
        /\ s.status = "PARTIAL_EXIT" => ~s.tp1
    BY <1>4 DEF Sold
  <1>6. /\ s.status = "CLOSED" => s.tokens = 0
        /\ s.status = "PARTIAL_EXIT" => s.tokens > 0
    <2>1. s.tokens = mem[p].tokens - q /\ (fraction = "all" <=> s.status = "CLOSED")
      BY <1>4 DEF Sold
    <2>2. fraction = "all" => q = mem[p].tokens
      BY <1>3 DEF SellQuantity
    <2>3. fraction # "all" => q # mem[p].tokens
      BY <1>3 DEF ExecuteSale, CanSell, Fractions
    <2> QED
      BY <1>1, <1>3, <2>1, <2>2, <2>3
  <1>7. nextOrder > 0
    <2>1. mem[p].exitOrder < nextOrder /\ mem[p].exitOrder \in Nat
      BY <1>1, SnapshotsOf DEF DataInv, SnapshotsAgree, SnapshotOK, PositionRecord
    <2> QED
      BY <1>1, <2>1
  <1>8. RecordFill(p, s, "SELL", q)
    BY <1>3, <1>4 DEF ExecuteSale
  <1>9. nextOrder' = nextOrder + 1 /\ mem' = [mem EXCEPT ![p] = s]
    BY <1>8 DEF RecordFill
  <1>10. SnapshotOK(s)'
    <2>1. s.exitOrder < nextOrder' /\ s.exitOrder # NoOrder
      BY <1>1, <1>5, <1>7, <1>9 DEF NoOrder
    <2> QED
      BY <1>5, <1>6, <2>1 DEF SnapshotOK
  <1>11. DataInv'
    <2> HIDE DEF TypeOK
    <2> QED
      BY <1>5, <1>10, <1>8, FillKeeps
  <1>12. ASSUME NEW r \in Pos, mem[r].status # "NONE" PROVE mem'[r].status # "NONE"
    BY <1>5, <1>9, <1>12
  <1> QED
    BY <1>11, <1>12

LEMMA EntryKeeps ==
  ASSUME TypeOK, TypeOK', DataInv, ExecuteEntry
  PROVE  DataInv' /\ \A r \in Pos : mem[r].status # "NONE" => mem'[r].status # "NONE"
  <1>1. PICK p \in Pos, tp1 \in BOOLEAN : RecordFill(p, Opened(tp1), "BUY", Size)
    BY DEF ExecuteEntry
  <1>2. pending = <<>>
    BY DEF ExecuteEntry, AccountingProblems
  <1>3. Opened(tp1) \in PositionRecord /\ Opened(tp1).status = "OPEN"
    BY OpenedType DEF Opened
  <1>4. nextOrder' = nextOrder + 1 /\ mem' = [mem EXCEPT ![p] = Opened(tp1)]
    BY <1>1 DEF RecordFill
  <1>5. SnapshotOK(Opened(tp1))'
    BY <1>4 DEF SnapshotOK, Opened, NoOrder
  <1>6. DataInv'
    <2>1. Size \in 0..Size
      OBVIOUS
    <2> HIDE DEF TypeOK
    <2> QED
      BY <1>1, <1>2, <1>3, <1>5, <2>1, FillKeeps
  <1>7. ASSUME NEW r \in Pos, mem[r].status # "NONE" PROVE mem'[r].status # "NONE"
    BY <1>3, <1>4, <1>7
  <1> QED
    BY <1>6, <1>7

-----------------------------------------------------------------------------
(* The other steps that touch a position or its row.                       *)

LEMMA QuietKeeps ==
  ASSUME DataInv, UNCHANGED <<mem, pending, row, late, orderQty, nextOrder>>
  PROVE  DataInv'
  BY DEF DataInv, DurableReconciled, QueueBehind, LateExist, SnapshotsAgree, Snapshots, SnapshotOK

\* The hypotheses of DataKept for whatever a step leaves alone.
LEMMA AllKnown ==
  ASSUME TypeOK, DataInv
  PROVE  /\ \A p \in Pos : Known(p, mem[p]) /\ Known(p, row[p])
         /\ \A i \in 1..Len(pending) : Known(pending[i].pos, pending[i].snap)
         /\ \A w \in late : Known(w.pos, w.snap) /\ w.snap.status # "NONE"
  <1>1. \A w \in late : Known(w.pos, w.snap) /\ w.snap.status # "NONE"
    BY SnapshotsOf, SnapshotsKnown DEF DataInv, LateExist
  <1> QED
    BY <1>1, QueueKnown, SnapshotsOf, SnapshotsKnown

LEMMA DropKeeps ==
  ASSUME TypeOK, TypeOK', DataInv, pending # <<>>, pending' = Tail(pending),
         UNCHANGED <<mem, late, nextOrder>>, DurableReconciled',
         \A p \in Pos : Known(p, row'[p])
  PROVE  DataInv'
  <1>1. /\ Len(pending') = Len(pending) - 1 /\ Len(pending) \in Nat
        /\ \A i \in 1..Len(pending') : pending'[i] = pending[i + 1] /\ i + 1 \in 1..Len(pending)
    BY QueueTail
  <1>2. QueueBehind'
    BY <1>1 DEF DataInv, QueueBehind
  <1>3. \A i \in 1..Len(pending') : Known(pending'[i].pos, pending'[i].snap)
    BY <1>1, AllKnown
  <1> HIDE DEF TypeOK
  <1> QED
    BY <1>2, <1>3, AllKnown, DataKept

LEMMA HeadKnown ==
  ASSUME TypeOK, pending # <<>>
  PROVE  /\ Head(pending) \in Fill /\ Head(pending).pos \in Pos
         /\ Head(pending).snap \in Snapshots(Head(pending).pos)
  <1>1. Head(pending) \in Fill /\ 1 \in 1..Len(pending) /\ Head(pending) = pending[1]
    BY QueueTail
  <1>2. Head(pending).pos \in Pos
    BY <1>1 DEF Fill
  <1> QED
    BY <1>1, <1>2, SnapshotsOf

LEMMA FlushKeeps ==
  ASSUME TypeOK, TypeOK', DataInv, FlushCommits \/ FlushDuplicate \/ FlushFails
  PROVE  DataInv'
  <1> USE DEF memory, durable
  <1>0. pending # <<>>
    BY DEF FlushCommits, FlushDuplicate, FlushFails, FlushHead
  <1> DEFINE f == Head(pending)
  <1>1. f \in Fill /\ f.pos \in Pos /\ f.snap \in Snapshots(f.pos)
    BY <1>0, HeadKnown
  <1>2. CASE FlushCommits
    <2>1. DurableReconciled' /\ \A p \in Pos : Known(p, row'[p])
      BY <1>1, <1>2, CommitReconciles DEF FlushCommits
    <2>2. pending' = Tail(pending) /\ UNCHANGED <<mem, late, nextOrder>>
      BY <1>2 DEF FlushCommits, Drop, Commit, bounds
    <2> HIDE DEF TypeOK
    <2> QED
      BY <1>0, <2>1, <2>2, DropKeeps
  <1>3. CASE FlushDuplicate
    <2>1. pending' = Tail(pending) /\ UNCHANGED <<mem, late, nextOrder, row, orderQty>>
      BY <1>3 DEF FlushDuplicate, Drop, bounds
    <2>2. DurableReconciled' /\ \A p \in Pos : Known(p, row'[p])
      BY <2>1, AllKnown DEF DataInv, DurableReconciled
    <2> HIDE DEF TypeOK
    <2> QED
      BY <1>0, <2>1, <2>2, DropKeeps
  <1>4. CASE FlushFails
    <2>1. UNCHANGED <<mem, pending, nextOrder, late>>
      BY <1>4 DEF FlushFails, Commit
    <2>2. DurableReconciled' /\ \A p \in Pos : Known(p, row'[p])
      <3>1. CASE UNCHANGED durable
        BY <3>1, AllKnown DEF DataInv, DurableReconciled
      <3>2. CASE FillAccepted(row[f.pos], f) /\ Commit(f)
        BY <1>1, <3>2, CommitReconciles
      <3> QED
        BY <1>4, <3>1, <3>2 DEF FlushFails
    <2>3. QueueBehind'
      BY <2>1 DEF DataInv, QueueBehind
    <2>4. /\ \A p \in Pos : Known(p, mem'[p])
          /\ \A i \in 1..Len(pending') : Known(pending'[i].pos, pending'[i].snap)
          /\ \A w \in late' : Known(w.pos, w.snap) /\ w.snap.status # "NONE"
      BY <2>1, AllKnown
    <2> HIDE DEF TypeOK
    <2> QED
      BY <2>1, <2>2, <2>3, <2>4, DataKept
  <1> QED
    BY <1>2, <1>3, <1>4

LEMMA LandKeeps ==
  ASSUME TypeOK, TypeOK', DataInv, Land
  PROVE  DataInv'
  <1>1. PICK w \in late : row' = RowWritten(w.pos, w.snap) /\ late' = late \ {w}
    BY DEF Land
  <1>2. UNCHANGED <<mem, pending, orderQty, nextOrder>>
    BY DEF Land, memory, bounds
  <1>3. w.pos \in Pos /\ Known(w.pos, w.snap) /\ w.snap.status # "NONE"
    BY AllKnown
  <1>4. ASSUME NEW p \in Pos PROVE Known(p, row'[p]) /\ row'[p].tokens = row[p].tokens
    <2>0. w.snap \in PositionRecord
      BY SnapshotsTyped
    <2>1. PICK r \in Pos, s \in PositionRecord : r = w.pos /\ s = w.snap
      BY <1>3, <2>0
    <2>2. Known(r, s) /\ s.status # "NONE" /\ row'[p] = RowWritten(r, s)[p]
      BY <1>1, <1>3, <2>1
    <2> HIDE DEF TypeOK
    <2> QED
      BY <2>2, RowWrittenKeeps
  <1>5. DurableReconciled' /\ QueueBehind'
    BY <1>2, <1>4 DEF DataInv, DurableReconciled, QueueBehind
  <1>6. /\ \A p \in Pos : Known(p, mem'[p])
        /\ \A i \in 1..Len(pending') : Known(pending'[i].pos, pending'[i].snap)
        /\ \A v \in late' : Known(v.pos, v.snap) /\ v.snap.status # "NONE"
    BY <1>1, <1>2, AllKnown
  <1> HIDE DEF TypeOK
  <1> QED
    BY <1>2, <1>4, <1>5, <1>6, DataKept

LEMMA PersistKeeps ==
  ASSUME TypeOK, TypeOK', DataInv, MonitoredExist, Persist
  PROVE  DataInv'
  <1>1. UNCHANGED <<mem, pending, nextOrder>> /\ cur \in Pos
    BY DEF Persist
  <1>2. CASE UNCHANGED durable
    BY <1>1, <1>2, QuietKeeps DEF durable
  <1>3. CASE UpdatePositionOk(cur, mem[cur]) \/ UpdatePositionFails(cur, mem[cur])
    <2>1. mem[cur] \in PositionRecord /\ Known(cur, mem[cur]) /\ mem[cur].status # "NONE"
      BY <1>1, AllKnown DEF MonitoredExist
    <2>2. PICK p \in Pos, s \in PositionRecord : p = cur /\ s = mem[cur]
      BY <1>1, <2>1
    <2>3. /\ DurableReconciled'
          /\ \A q \in Pos : Known(q, row'[q])
          /\ \A w \in late' : Known(w.pos, w.snap) /\ w.snap.status # "NONE"
      BY <1>3, <2>1, <2>2, UpdateKeeps
    <2>4. QueueBehind'
      BY <1>1 DEF DataInv, QueueBehind
    <2>5. /\ \A q \in Pos : Known(q, mem'[q])
          /\ \A i \in 1..Len(pending') : Known(pending'[i].pos, pending'[i].snap)
      BY <1>1, AllKnown
    <2> HIDE DEF TypeOK
    <2> QED
      BY <1>1, <2>3, <2>4, <2>5, DataKept
  <1> QED
    BY <1>2, <1>3 DEF Persist

\* tightenExits changes only an open position, and only its exits.
LEMMA TightenedExits ==
  ASSUME NEW m \in PositionRecord, NEW stop \in 1..MaxStop, NEW arm \in BOOLEAN,
         NEW s, s = Tightened(m, stop, arm), s # m
  PROVE  /\ m.status \in OpenStatuses
         /\ s.status = m.status /\ s.tokens = m.tokens /\ s.exitOrder = m.exitOrder
         /\ s.tp1 => m.tp1 \/ m.status = "OPEN"
  <1>1. s.status = m.status /\ s.tokens = m.tokens /\ s.exitOrder = m.exitOrder
    BY DEF Tightened, WithExits
  <1>2. s.tp1 => m.tp1 \/ m.status = "OPEN"
    BY DEF Tightened, WithExits, Tp1Arms
  <1>3. m.status \in OpenStatuses
    <2> SUFFICES ASSUME m.status \notin OpenStatuses PROVE s = m
      OBVIOUS
    <2>1. ~StopTightens(m, stop) /\ ~Tp1Arms(m, arm)
      BY DEF StopTightens, Tp1Arms, OpenStatuses
    <2>2. s = WithExits(m, m.stop, m.tp1 \/ FALSE, m.updatedAt)
      BY <2>1, Zenon DEF Tightened
    <2>3. m = [status |-> m.status, tokens |-> m.tokens, stop |-> m.stop, tp1 |-> m.tp1,
               exitOrder |-> m.exitOrder, updatedAt |-> m.updatedAt]
      BY DEF PositionRecord
    <2>4. (m.tp1 \/ FALSE) = m.tp1
      <3>1. m.tp1 \in BOOLEAN
        BY DEF PositionRecord
      <3> QED
        BY <3>1, Zenon
    <2> QED
      BY <2>2, <2>3, <2>4 DEF WithExits
  <1> QED
    BY <1>1, <1>2, <1>3

\* The queued snapshots of an open position, patched with its new exits, are still known.
LEMMA PatchedKnown ==
  ASSUME TypeOK, DataInv, NEW p \in Pos, NEW s \in PositionRecord,
         mem[p].status \in OpenStatuses, s.status = mem[p].status,
         s.tp1 => mem[p].tp1 \/ mem[p].status = "OPEN",
         NEW i \in 1..Len(pending), pending[i].pos = p
  PROVE  Known(p, Patched(p, s)[i].snap)
  <1>1. /\ pending[i].snap \in Snapshots(p) /\ pending[i].snap \in PositionRecord
        /\ mem[p] \in Snapshots(p) /\ mem[p] \in PositionRecord
    BY SnapshotsOf, SnapshotsTyped
  <1>2. SnapshotOK(pending[i].snap) /\ SnapshotOK(mem[p])
    BY <1>1 DEF DataInv, SnapshotsAgree
  <1> DEFINE y == pending[i].snap
             x == WithExits(y, s.stop, s.tp1, s.updatedAt)
  <1>3. Patched(p, s)[i].snap = x
    <2>1. pending[i] \in Fill
      OBVIOUS
    <2>2. Patched(p, s)[i] =
            [pending[i] EXCEPT !.snap = WithExits(@, s.stop, s.tp1, s.updatedAt)]
      BY DEF Patched
    <2> QED
      BY <2>1, <2>2 DEF Fill
  <1>4. x.status = y.status /\ x.tokens = y.tokens /\ x.exitOrder = y.exitOrder /\ x.tp1 = s.tp1
    BY DEF WithExits
  <1>5. y.status = "PARTIAL_EXIT" => ~s.tp1
    <2> SUFFICES ASSUME y.status = "PARTIAL_EXIT" PROVE ~s.tp1
      OBVIOUS
    <2>1. y.exitOrder # NoOrder /\ y.exitOrder <= mem[p].exitOrder
      <3>1. y.exitOrder # NoOrder
        BY <1>2 DEF SnapshotOK
      <3> QED
        BY <3>1 DEF DataInv, QueueBehind
    <2>2. mem[p].exitOrder # NoOrder
      <3>1. y.exitOrder \in Nat /\ mem[p].exitOrder \in Nat
        BY <1>1 DEF PositionRecord
      <3> HIDE DEF y, TypeOK
      <3> QED
        BY <2>1, <3>1 DEF NoOrder
    <2>3. mem[p].status # "OPEN"
      BY <1>2, <2>2 DEF SnapshotOK
    <2>4. ~mem[p].tp1
      BY <1>2, <2>3 DEF SnapshotOK, OpenStatuses
    <2> QED
      BY <2>3, <2>4
  <1>6. Like(x, y)
    BY <1>4, <1>5 DEF Like
  <1> QED
    BY <1>1, <1>3, <1>6 DEF Known

LEMMA TightenKeeps ==
  ASSUME TypeOK, TypeOK', DataInv, AiTighten
  PROVE  DataInv' /\ \A r \in Pos : mem[r].status # "NONE" => mem'[r].status # "NONE"
  <1>1. PICK p \in Pos, stop \in 1..MaxStop, arm \in BOOLEAN :
          Tighten(p, Tightened(mem[p], stop, arm))
    BY DEF AiTighten
  <1>2. mem[p] \in PositionRecord /\ Tightened(mem[p], stop, arm) \in PositionRecord
    BY TightenedType
  <1>3. PICK m \in PositionRecord, s \in PositionRecord :
          m = mem[p] /\ s = Tightened(m, stop, arm)
    BY <1>2
  <1>4. /\ s # m /\ mem' = [mem EXCEPT ![p] = s] /\ pending' = Patched(p, s)
        /\ nextOrder' = nextOrder
        /\ IF HasPending(p) THEN UNCHANGED durable
           ELSE UpdatePositionOk(p, s) \/ UpdatePositionFails(p, s)
    BY <1>1, <1>3 DEF Tighten, AiTighten
  <1>5. /\ m.status \in OpenStatuses
        /\ s.status = m.status /\ s.tokens = m.tokens /\ s.exitOrder = m.exitOrder
        /\ s.tp1 => m.tp1 \/ m.status = "OPEN"
    BY <1>3, <1>4, TightenedExits
  <1>6. SnapshotOK(m)
    BY <1>3, SnapshotsOf DEF DataInv, SnapshotsAgree
  <1>7. Known(p, s)
    <2>1. m \in Snapshots(p)
      BY <1>3, SnapshotsOf
    <2>2. Like(s, m)
      BY <1>5, <1>6 DEF Like, SnapshotOK
    <2> QED
      BY <2>1, <2>2 DEF Known
  <1>8. /\ Len(pending') = Len(pending)
        /\ \A i \in 1..Len(pending) :
              /\ pending'[i].pos = pending[i].pos
              /\ pending'[i].snap.exitOrder = pending[i].snap.exitOrder
    <2> HIDE DEF TypeOK
    <2> QED
      BY <1>4, PatchedType
  <1>9. QueueBehind'
    <2>1. \A i \in 1..Len(pending) : pending[i].pos \in Pos
      BY QueueKnown
    <2>2. \A r \in Pos : mem'[r].exitOrder = mem[r].exitOrder
      BY <1>3, <1>4, <1>5
    <2> QED
      BY <1>8, <2>1, <2>2 DEF DataInv, QueueBehind
  <1>10. \A i \in 1..Len(pending') : Known(pending'[i].pos, pending'[i].snap)
    <2>1. ASSUME NEW i \in 1..Len(pending) PROVE Known(pending[i].pos, pending'[i].snap)
      <3>1. CASE pending[i].pos = p
        BY <1>3, <1>4, <1>5, <3>1, PatchedKnown
      <3>2. CASE pending[i].pos # p
        <4>1. pending'[i] = pending[i]
          BY <1>4, <3>2 DEF Patched
        <4> QED
          BY <4>1, AllKnown
      <3> QED
        BY <3>1, <3>2
    <2> QED
      BY <1>8, <2>1
  <1>11. /\ DurableReconciled'
         /\ \A q \in Pos : Known(q, row'[q])
         /\ \A w \in late' : Known(w.pos, w.snap) /\ w.snap.status # "NONE"
    <2>1. CASE HasPending(p)
      BY <1>4, <2>1, AllKnown DEF durable, DataInv, DurableReconciled
    <2>2. CASE ~HasPending(p)
      BY <1>4, <1>5, <1>7, <2>2, UpdateKeeps DEF OpenStatuses
    <2> QED
      BY <2>1, <2>2
  <1>12. \A q \in Pos : mem'[q] = NoPosition \/ Known(q, mem'[q])
    BY <1>4, <1>7, AllKnown
  <1>13. DataInv'
    <2> HIDE DEF TypeOK
    <2> QED
      BY <1>4, <1>9, <1>10, <1>11, <1>12, DataKept
  <1>14. ASSUME NEW r \in Pos, mem[r].status # "NONE" PROVE mem'[r].status # "NONE"
    BY <1>3, <1>4, <1>5, <1>14
  <1> QED
    BY <1>13, <1>14

LEMMA ExitKeeps ==
  ASSUME TypeOK, TypeOK', DataInv, Exit
  PROVE  DataInv'
  <1>1. /\ mem' = [p \in Pos |-> NoPosition] /\ pending' = <<>>
        /\ UNCHANGED <<row, orderQty, late, nextOrder>>
    BY DEF Exit, durable
  <1>2. DurableReconciled' /\ QueueBehind'
    BY <1>1 DEF DataInv, DurableReconciled, QueueBehind
  <1>3. /\ \A p \in Pos : mem'[p] = NoPosition /\ Known(p, row'[p])
        /\ \A i \in 1..Len(pending') : Known(pending'[i].pos, pending'[i].snap)
        /\ \A w \in late' : Known(w.pos, w.snap) /\ w.snap.status # "NONE"
    BY <1>1, AllKnown
  <1> HIDE DEF TypeOK
  <1> QED
    BY <1>1, <1>2, <1>3, DataKept

\* A row whose accounting is sound comes back as it is.
LEMMA RestoredKnown ==
  ASSUME TypeOK, DataInv, NEW p \in Pos
  PROVE  Restored(row[p]) \in {row[p], NoPosition}
  <1>1. SnapshotOK(row[p]) /\ row[p] \in PositionRecord
    BY SnapshotsOf, SnapshotsTyped DEF DataInv, SnapshotsAgree
  <1>2. row[p].tokens <= Size
    BY <1>1 DEF PositionRecord
  <1>3. ValidAccounting(row[p])
    BY <1>1, <1>2 DEF SnapshotOK, ValidAccounting
  <1> QED
    BY <1>3 DEF Restored

LEMMA RestartKeeps ==
  ASSUME TypeOK, TypeOK', DataInv, pending = <<>>, Restart \/ RestartBlind
  PROVE  DataInv'
  <1>1. UNCHANGED <<pending, row, orderQty, late, nextOrder>>
    BY DEF Restart, RestartBlind, durable, bounds
  <1>2. \A p \in Pos : mem'[p] \in {Restored(row[p]), NoPosition}
    BY DEF Restart, RestartBlind, RestoredPositions
  <1>3. DurableReconciled' /\ QueueBehind'
    BY <1>1 DEF DataInv, DurableReconciled, QueueBehind
  <1>4. /\ \A p \in Pos : mem'[p] = NoPosition \/ Known(p, mem'[p])
        /\ \A p \in Pos : Known(p, row'[p])
        /\ \A i \in 1..Len(pending') : Known(pending'[i].pos, pending'[i].snap)
        /\ \A w \in late' : Known(w.pos, w.snap) /\ w.snap.status # "NONE"
    BY <1>1, <1>2, RestoredKnown, AllKnown
  <1> HIDE DEF TypeOK
  <1> QED
    BY <1>1, <1>3, <1>4, DataKept

-----------------------------------------------------------------------------
(* The whole step.                                                         *)

LEMMA LedgerStep == LedgerInv /\ [Next]_vars => LedgerInv'
  <1> SUFFICES ASSUME LedgerInv, [Next]_vars PROVE LedgerInv'
    OBVIOUS
  <1> USE NoPosAssumption DEF memory, control, durable, bounds
  <1>1. TypeOK /\ TypeOK' /\ DataInv
    BY TypeStep DEF LedgerInv, DataInv
  <1>2. MonitoredExist /\ DownEmpty
    BY DEF LedgerInv
  <1> SUFFICES DataInv' /\ MonitoredExist' /\ DownEmpty'
    BY <1>1 DEF LedgerInv, DataInv
  <1>3. CASE UNCHANGED vars
    BY <1>1, <1>2, <1>3, QuietKeeps DEF vars, MonitoredExist, DownEmpty
  <1>4. CASE FlushCommits \/ FlushDuplicate \/ FlushFails
    <2>1. UNCHANGED <<mem, todo, cur>> /\ phase' # "down"
      BY <1>1, <1>4 DEF FlushCommits, FlushDuplicate, FlushFails, FlushHead, FlushReturns,
                        ReturnPoints
    <2> QED
      BY <1>1, <1>2, <1>4, <2>1, FlushKeeps DEF MonitoredExist, DownEmpty
  <1>5. CASE FlushDone \/ StartCycle \/ MonitorDone \/ EntriesDone \/ AiDone \/ CopyDone
               \/ Shutdown \/ ShutdownFlush
    <2>1. UNCHANGED <<mem, pending, row, late, orderQty, nextOrder, todo, cur>> /\ phase' # "down"
      BY <1>1, <1>5 DEF FlushDone, FlushReturns, StartCycle, MonitorDone, EntriesDone, AiDone,
                        CopyDone, Shutdown, ShutdownFlush, Running, ReturnPoints
    <2> QED
      BY <1>1, <1>2, <2>1, QuietKeeps DEF MonitoredExist, DownEmpty
  <1>6. CASE LoadPositions \/ Observe \/ ObserveFails \/ Hold \/ SaleFails
    <2>1. UNCHANGED <<mem, pending, row, late, orderQty, nextOrder>> /\ phase' # "down"
      BY <1>6 DEF LoadPositions, Observe, ObserveFails, Hold, SaleFails
    <2>2. MonitoredExist'
      BY <1>2, <1>6, <2>1 DEF LoadPositions, Observe, ObserveFails, Hold, SaleFails,
                              MonitoredExist, OpenPositions, OpenStatuses
    <2> QED
      BY <1>1, <2>1, <2>2, QuietKeeps DEF DownEmpty
  <1>7. CASE Persist
    <2>1. UNCHANGED <<mem, todo, cur>> /\ phase' # "down"
      BY <1>7 DEF Persist
    <2> QED
      BY <1>1, <1>2, <1>7, <2>1, PersistKeeps DEF MonitoredExist, DownEmpty
  <1>8. CASE ExecutePartialTp1 \/ ExecuteExit \/ AiExit
    <2>1. PICK p \in Pos, fraction \in Fractions : ExecuteSale(p, fraction)
      BY <1>1, <1>8 DEF ExecutePartialTp1, ExecuteExit, AiExit, Fractions
    <2>2. todo' = todo /\ cur' \in {cur, NoPos} /\ phase' = "flush"
      BY <1>8, <2>1 DEF ExecutePartialTp1, ExecuteExit, AiExit, ExecuteSale, RecordFill
    <2>3. DataInv' /\ \A r \in Pos : mem[r].status # "NONE" => mem'[r].status # "NONE"
      BY <1>1, <2>1, SaleKeeps
    <2> QED
      BY <1>2, <2>2, <2>3 DEF MonitoredExist, DownEmpty
  <1>9. CASE ExecuteEntry
    <2>1. UNCHANGED <<todo, cur>> /\ phase' = "flush"
      BY <1>9 DEF ExecuteEntry, RecordFill
    <2> QED
      BY <1>1, <1>2, <1>9, <2>1, EntryKeeps DEF MonitoredExist, DownEmpty
  <1>10. CASE AiTighten
    <2>1. UNCHANGED <<todo, cur>> /\ phase' # "down"
      BY <1>10 DEF AiTighten, Tighten
    <2> QED
      BY <1>1, <1>2, <1>10, <2>1, TightenKeeps DEF MonitoredExist, DownEmpty
  <1>11. CASE ShutdownDone \/ Crash
    <2>1. Exit
      BY <1>11 DEF ShutdownDone, Crash
    <2>2. MonitoredExist' /\ DownEmpty'
      BY <2>1 DEF Exit, MonitoredExist, DownEmpty
    <2> QED
      BY <1>1, <2>1, <2>2, ExitKeeps
  <1>12. CASE Restart \/ RestartBlind
    <2>1. phase = "down" /\ phase' = "idle" /\ UNCHANGED <<todo, cur>>
      BY <1>12 DEF Restart, RestartBlind
    <2>2. pending = <<>> /\ todo = {} /\ cur = NoPos
      BY <1>2, <2>1 DEF DownEmpty
    <2> QED
      BY <1>1, <1>12, <2>1, <2>2, RestartKeeps DEF MonitoredExist, DownEmpty
  <1>13. CASE Land
    <2>1. UNCHANGED <<mem, todo, cur, phase, pending>>
      BY <1>13 DEF Land
    <2> QED
      BY <1>1, <1>2, <1>13, <2>1, LandKeeps DEF MonitoredExist, DownEmpty
  <1> QED
    BY <1>3, <1>4, <1>5, <1>6, <1>7, <1>8, <1>9, <1>10, <1>11, <1>12, <1>13
       DEF Next, Flush, Monitor, Entries, Ai, Process

LEMMA LedgerInit == Init => LedgerInv
  <1> SUFFICES ASSUME Init PROVE LedgerInv
    OBVIOUS
  <1> USE NoPosAssumption
  <1>1. TypeOK
    BY TypeInit
  <1>2. /\ mem = [p \in Pos |-> NoPosition] /\ row = [p \in Pos |-> NoPosition]
        /\ orderQty = [p \in Pos |-> 0] /\ pending = <<>> /\ late = {} /\ nextOrder = 1
        /\ todo = {} /\ cur = NoPos
    BY DEF Init
  <1>3. NoPosition.status = "NONE" /\ NoPosition.tokens = 0 /\ NoPosition.exitOrder = 0
    BY DEF NoPosition, NoOrder
  <1>4. ASSUME NEW p \in Pos PROVE SnapshotsAgree(p)
    <2>1. \A s \in Snapshots(p) : s = NoPosition
      BY <1>2 DEF Snapshots
    <2> QED
      BY <1>2, <1>3, <2>1 DEF SnapshotsAgree, SnapshotOK
  <1> QED
    BY <1>1, <1>2, <1>3, <1>4 DEF LedgerInv, DurableReconciled, QueueBehind, MonitoredExist,
                                  LateExist, DownEmpty

\* The inductive invariant: every snapshot that is or may still be written to a row
\* agrees with the others on what the position holds.
THEOREM LedgerCorrect == Spec => []LedgerInv
  <1> HIDE DEF TypeOK
  <1> QED
    BY LedgerInit, LedgerStep, PTL DEF Spec

\* Whatever fails, is applied late, is lost in a crash or restarted, and however many
\* positions and orders there are, each row holds what its confirmed orders add up
\* to (recordConfirmedPaperFill and updatePositionRow in journal.ts).
THEOREM DurableReconciledAlways == Spec => []DurableReconciled
  <1>1. LedgerInv => DurableReconciled
    BY DEF LedgerInv
  <1> QED
    BY <1>1, LedgerCorrect, PTL

\* Every row can be restored: restorePosition never has to turn a journaled position
\* into an unresolved ERROR exposure (position-manager.ts).
THEOREM RowRestorableAlways == Spec => []RowRestorable
  <1>1. LedgerInv => RowRestorable
    <2> SUFFICES ASSUME LedgerInv, NEW p \in Pos PROVE Restored(row[p]).status # "ERROR"
      BY DEF RowRestorable
    <2>1. TypeOK /\ DataInv
      BY DEF LedgerInv, DataInv
    <2>2. SnapshotOK(row[p])
      BY <2>1, SnapshotsOf DEF DataInv, SnapshotsAgree
    <2>3. Restored(row[p]) \in {row[p], NoPosition}
      BY <2>1, RestoredKnown
    <2>4. NoPosition.status # "ERROR"
      BY DEF NoPosition
    <2> QED
      BY <2>2, <2>3, <2>4 DEF SnapshotOK
  <1> QED
    BY <1>1, LedgerCorrect, PTL
=============================================================================

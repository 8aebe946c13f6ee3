--------------------------- MODULE PaperQueueProofs ---------------------------
(***************************************************************************)
(* The queue of confirmed fills of PaperLedger, for any number of          *)
(* positions, orders, faults and crashes: every queued fill can be written *)
(* when its turn comes, the book and the tables agree with the positions,  *)
(* and a row never loses an exit that was tightened or a sale that closed  *)
(* it.                                                                     *)
(*                                                                         *)
(* The argument: the queued fills of one position are a chain.  The first  *)
(* fits the row (or is the one that was committed and whose reply was      *)
(* lost), each fits the snapshot of the one before it, and the last has    *)
(* the position as it is in memory.                                        *)
(***************************************************************************)
EXTENDS PaperLedgerSafety, SequenceTheorems

USE SizeAssumption

-----------------------------------------------------------------------------
(* The inductive invariant.                                                *)

Exists(s) == s.status # "NONE"

\* s and r hold the same, whatever their exits.
SameHolding(r, s) == r.status = s.status /\ r.tokens = s.tokens /\ r.exitOrder = s.exitOrder

Queue == 1..Len(pending)

FirstOf(i) == \A j \in Queue : j < i => pending[j].pos # pending[i].pos
LastOf(i)  == \A j \in Queue : i < j => pending[j].pos # pending[i].pos
Adjacent(i, j) ==
    /\ i < j /\ pending[j].pos = pending[i].pos
    /\ \A k \in Queue : i < k /\ k < j => pending[k].pos # pending[i].pos

\* Order ids are never used twice, and only the head may be durable already.
OrdersFresh ==
    /\ \A o \in orders : o < nextOrder
    /\ \A i \in Queue :
          /\ pending[i].order < nextOrder
          /\ i > 1 => pending[i].order \notin orders
          /\ \A j \in Queue : pending[i].order = pending[j].order => i = j

BookInv ==
    /\ phase = "down" => ~bookOk
    /\ bookOk => /\ \A p \in Pos : bookQty[p] = mem[p].tokens
                 /\ book = orders \cup PendingOrders

\* Fill i waits for its turn.
Chained(i) ==
    LET f == pending[i] IN
    /\ Exists(mem[f.pos])
    /\ f.snap.stop = mem[f.pos].stop /\ f.snap.updatedAt <= mem[f.pos].updatedAt
    /\ FirstOf(i) => IF f.order \in orders THEN SameHolding(row[f.pos], f.snap) ELSE FillAccepted(row[f.pos], f)
    /\ LastOf(i) => f.snap = mem[f.pos]
    /\ f.snap.exitOrder = mem[f.pos].exitOrder => LastOf(i)
    /\ \A j \in Queue : Adjacent(i, j) => FillAccepted(f.snap, pending[j])
    /\ \A w \in late : w.pos = f.pos => w.snap.exitOrder # f.snap.exitOrder

\* With nothing queued for it the row of a position is behind by its exits at most.
Settled(p) ==
    Exists(mem[p]) /\ ~HasPending(p) =>
        SameHolding(row[p], mem[p]) /\ (p \notin stale => row[p] = mem[p])

(***************************************************************************)
(* The versions of a position outside the queue.  None is ahead of the one *)
(* in memory, and of two under the same exit order the later has the       *)
(* tighter stop.                                                           *)
(***************************************************************************)
Written(p) == {row[p]} \cup {w.snap : w \in {v \in late : v.pos = p}}

MemoryLatest(p) ==
    Exists(mem[p]) => \A s \in Written(p) : Exists(s) =>
        /\ s.updatedAt <= mem[p].updatedAt /\ s.stop <= mem[p].stop
        /\ s.exitOrder = mem[p].exitOrder /\ s.updatedAt = mem[p].updatedAt => s = mem[p]

Ratcheted(p) ==
    \A s, t \in Written(p) :
        Exists(s) /\ Exists(t) /\ s.exitOrder = t.exitOrder /\ s.updatedAt <= t.updatedAt => s.stop <= t.stop

Managed(p) ==
    /\ bookOk /\ row[p].status \in OpenStatuses => Exists(mem[p])
    /\ Running /\ ~Exists(mem[p]) => \A w \in late : w.pos # p

RowInv(p) == Settled(p) /\ MemoryLatest(p) /\ Ratcheted(p) /\ Managed(p)

QueueInv ==
    /\ OrdersFresh /\ BookInv /\ OnlyHeadBuys
    /\ \A i \in Queue : Chained(i)
    /\ \A p \in Pos : RowInv(p)
-----------------------------------------------------------------------------
(* What the invariants say of one fill or one row.                         *)

LEMMA QueueTyped ==
  ASSUME TypeOK
  PROVE  /\ pending \in Seq(Fill) /\ Len(pending) \in Nat /\ nextOrder \in Nat
         /\ \A i \in Queue : /\ pending[i] \in Fill /\ pending[i].pos \in Pos /\ pending[i].order \in Nat
                             /\ pending[i].snap \in PositionRecord
         /\ \A p \in Pos : mem[p] \in PositionRecord /\ row[p] \in PositionRecord
         /\ \A w \in late : w.pos \in Pos /\ w.snap \in PositionRecord
  <1>1. pending \in Seq(Fill)
    BY DEF TypeOK, MemoryTypeOK
  <1>2. \A i \in Queue : pending[i] \in Fill
    BY <1>1 DEF Queue
  <1>3. \A f \in Fill : f.pos \in Pos /\ f.order \in Nat /\ f.snap \in PositionRecord
    BY DEF Fill
  <1> QED
    BY <1>1, <1>2, <1>3 DEF TypeOK, MemoryTypeOK, DurableTypeOK

LEMMA RecordFields ==
  ASSUME NEW s \in PositionRecord
  PROVE  /\ s.status \in Statuses /\ s.tokens \in 0..Size /\ s.tokens \in Nat /\ s.stop \in 0..MaxStop /\ s.stop \in Nat
         /\ s.tp1 \in BOOLEAN /\ s.exitOrder \in Nat /\ s.updatedAt \in Nat
  BY StopAssumption DEF PositionRecord

LEMMA LedgerParts ==
  ASSUME LedgerInv
  PROVE  /\ TypeOK /\ DataInv
         /\ \A p \in Pos : \A s \in Snapshots(p) : SnapshotOK(s) /\ s \in PositionRecord
  <1>1. TypeOK /\ DataInv
    BY DEF LedgerInv, DataInv
  <1> QED
    BY <1>1, SnapshotsTyped DEF DataInv, SnapshotsAgree

\* What a fill finds in a row is its status and its tokens.
LEMMA AcceptSame ==
  ASSUME NEW r, NEW s, NEW f, SameHolding(r, s)
  PROVE  FillAccepted(r, f) <=> FillAccepted(s, f)
  BY DEF SameHolding, FillAccepted

LEMMA SameSymmetric ==
  ASSUME NEW r, NEW s, NEW t, SameHolding(r, s)
  PROVE  SameHolding(s, r) /\ (SameHolding(s, t) => SameHolding(r, t))
  BY DEF SameHolding

\* The exit order of a snapshot decides what it holds, its status included.
LEMMA SameVersion ==
  ASSUME LedgerInv, NEW p \in Pos, NEW r \in Snapshots(p), NEW s \in Snapshots(p),
         Exists(r), Exists(s), r.exitOrder = s.exitOrder
  PROVE  SameHolding(r, s)
  <1>1. r.tokens = s.tokens
    BY LedgerParts, AgreeingPair DEF DataInv, Exists
  <1>2. SnapshotOK(r) /\ SnapshotOK(s) /\ r.tokens \in Nat
    BY LedgerParts, RecordFields
  <1> QED
    BY <1>1, <1>2 DEF SnapshotOK, SameHolding, Exists

\* A write that passes the guards of updatePosition changes the exits only.
LEMMA AcceptedSame ==
  ASSUME LedgerInv, NEW p \in Pos, NEW s \in Snapshots(p), Exists(s), RowAccepts(row[p], s)
  PROVE  SameHolding(row[p], s) /\ Exists(row[p]) /\ row[p].updatedAt <= s.updatedAt /\ row[p].exitOrder = s.exitOrder
  BY SnapshotsOf, SameVersion DEF RowAccepts, Exists

\* A sale fits the position it sells.
LEMMA SaleAccepted ==
  ASSUME NEW m \in PositionRecord, NEW fraction \in Fractions, CanSell(m, fraction), NEW order \in Nat,
         NEW q, q = SellQuantity(m, fraction), NEW s, s = Sold(m, fraction, q, order),
         NEW f, f = [order |-> order, pos |-> f.pos, side |-> "SELL", qty |-> q, snap |-> s]
  PROVE  FillAccepted(m, f)
  <1>1. m.tokens \in Nat /\ q \in Nat
    BY RecordFields, SellQuantityBound DEF CanSell
  <1>2. s.exitOrder = order /\ s.status \in {"PARTIAL_EXIT", "CLOSED"} /\ s.tokens = m.tokens - q
        /\ (s.status = "CLOSED" => fraction = "all")
    BY DEF Sold
  <1>3. fraction = "all" => q = m.tokens
    BY DEF SellQuantity
  <1>4. f.side = "SELL" /\ f.order = order /\ f.qty = q /\ f.snap = s
    OBVIOUS
  <1> QED
    BY <1>1, <1>2, <1>3, <1>4 DEF FillAccepted, CanSell
-----------------------------------------------------------------------------
(* Frames.                                                                 *)

LateOf(p) == {w.snap : w \in {v \in late : v.pos = p}}

LEMMA WrittenSnapshots ==
  ASSUME NEW p \in Pos
  PROVE  Written(p) = {row[p]} \cup LateOf(p) /\ Written(p) \subseteq Snapshots(p)
  BY DEF Written, LateOf, Snapshots

\* A position the step is not about.
LEMMA OtherRow ==
  ASSUME NEW p \in Pos, RowInv(p), mem'[p] = mem[p], row'[p] = row[p], LateOf(p)' = LateOf(p),
         HasPending(p)' <=> HasPending(p), p \in stale' <=> p \in stale,
         bookOk' => bookOk, Running' => Running
  PROVE  RowInv(p)'
  <1>1. Written(p)' = Written(p)
    BY DEF Written, LateOf
  <1>2. Settled(p)'
    BY DEF RowInv, Settled
  <1>3. MemoryLatest(p)' /\ Ratcheted(p)'
    BY <1>1 DEF RowInv, MemoryLatest, Ratcheted
  <1>4. (\A w \in late' : w.pos # p) <=> (\A w \in late : w.pos # p)
    <2>1. (\A w \in late : w.pos # p) <=> LateOf(p) = {}
      BY DEF LateOf
    <2>2. (\A w \in late' : w.pos # p) <=> LateOf(p)' = {}
      BY DEF LateOf
    <2> QED
      BY <2>1, <2>2
  <1>5. Managed(p)'
    BY <1>4 DEF RowInv, Managed
  <1> QED
    BY <1>2, <1>3, <1>5 DEF RowInv

\* A step that leaves the queue, the positions and the orders alone.
LEMMA RowStep ==
  ASSUME LedgerInv, QueueInv,
         UNCHANGED <<mem, book, bookQty, bookOk, pending, orders, nextOrder>>,
         phase' = "down" <=> phase = "down",
         \A p \in Pos : \/ row'[p] = row[p]
                        \/ \E s \in {mem[p]} \cup LateOf(p) :
                              Exists(s) /\ RowAccepts(row[p], s) /\ row'[p] = s,
         \A w \in late' : w \in late \/ (w.snap = mem[w.pos] /\ Exists(mem[w.pos]) /\ ~HasPending(w.pos)),
         \A p \in Pos : p \notin stale' => p \notin stale \/ row'[p] = mem[p]
  PROVE  QueueInv'
  <1>1. OrdersFresh' /\ BookInv' /\ OnlyHeadBuys'
    BY DEF QueueInv, OrdersFresh, BookInv, OnlyHeadBuys, Queue, PendingOrders
  <1>2. ASSUME NEW p \in Pos
        PROVE  /\ row'[p] = row[p] \/ SameHolding(row[p], row'[p])
               /\ \A f : FillAccepted(row'[p], f) <=> FillAccepted(row[p], f)
    <2>1. CASE row'[p] = row[p]
      BY <2>1
    <2>2. CASE row'[p] # row[p]
      <3>1. PICK s \in {mem[p]} \cup LateOf(p) : Exists(s) /\ RowAccepts(row[p], s) /\ row'[p] = s
        BY <2>2
      <3>2. s \in Snapshots(p)
        BY <3>1 DEF LateOf, Snapshots
      <3>3. SameHolding(row[p], row'[p])
        BY <3>1, <3>2, AcceptedSame
      <3> QED
        BY <3>3, AcceptSame
    <2> QED
      BY <2>1, <2>2
  <1>3. ASSUME NEW i \in Queue' PROVE Chained(i)'
    <2>1. i \in Queue /\ Queue' = Queue /\ Chained(i) /\ pending[i].pos \in Pos
      BY LedgerParts, QueueTyped DEF Queue, QueueInv
    <2>2. HasPending(pending[i].pos)
      BY <2>1 DEF HasPending, Queue
    <2>3. (FirstOf(i)' <=> FirstOf(i)) /\ (LastOf(i)' <=> LastOf(i)) /\ \A j : Adjacent(i, j)' <=> Adjacent(i, j)
      BY <2>1 DEF FirstOf, LastOf, Adjacent
    <2>4. \A w \in late' : w.pos = pending[i].pos => w \in late
      BY <2>2
    <2>5. SameHolding(row[pending[i].pos], pending[i].snap) => SameHolding(row'[pending[i].pos], pending[i].snap)
      BY <1>2, <2>1 DEF SameHolding
    <2> QED
      BY <1>2, <2>1, <2>3, <2>4, <2>5 DEF Chained
  <1>4. ASSUME NEW p \in Pos PROVE RowInv(p)'
    <2>1. RowInv(p) /\ (HasPending(p)' <=> HasPending(p)) /\ (Running' <=> Running)
      BY DEF QueueInv, HasPending, Running
    <2>2. \A s \in Written(p)' : s \in Written(p) \/ (s = mem[p] /\ Exists(mem[p]))
      BY DEF Written, LateOf
    <2>3. Exists(mem[p]) => \A s \in Written(p) : Exists(s) =>
                               /\ s.updatedAt <= mem[p].updatedAt /\ s.stop <= mem[p].stop
                               /\ s.exitOrder = mem[p].exitOrder /\ s.updatedAt = mem[p].updatedAt => s = mem[p]
      BY <2>1 DEF RowInv, MemoryLatest
    <2>4. mem[p] \in PositionRecord /\ \A s \in Written(p) : s \in PositionRecord
      BY LedgerParts, WrittenSnapshots, SnapshotsOf
    <2>5. MemoryLatest(p)'
      BY <2>2, <2>3, <2>4, RecordFields DEF MemoryLatest
    <2>6. Ratcheted(p)'
      <3> SUFFICES ASSUME NEW s \in Written(p)', NEW t \in Written(p)', Exists(s), Exists(t),
                          s.exitOrder = t.exitOrder, s.updatedAt <= t.updatedAt
                   PROVE  s.stop <= t.stop
        BY DEF Ratcheted
      <3>1. CASE s \in Written(p) /\ t \in Written(p)
        BY <2>1, <3>1 DEF RowInv, Ratcheted
      <3>2. CASE s \in Written(p) /\ t = mem[p]
        BY <2>3, <3>2
      <3>3. CASE s = mem[p] /\ t \in Written(p)
        <4>1. t = mem[p]
          BY <2>3, <2>4, <3>3, RecordFields
        <4> QED
          BY <2>4, <3>3, <4>1, RecordFields
      <3>4. CASE s = mem[p] /\ t = mem[p]
        BY <2>4, <3>4, RecordFields
      <3> QED
        BY <2>2, <3>1, <3>2, <3>3, <3>4
    <2>7. Settled(p)'
      <3> SUFFICES ASSUME Exists(mem[p]), ~HasPending(p)
                   PROVE  SameHolding(row'[p], mem[p]) /\ (p \notin stale' => row'[p] = mem[p])
        BY <2>1 DEF Settled
      <3>1. SameHolding(row[p], mem[p]) /\ (p \notin stale => row[p] = mem[p])
        BY <2>1 DEF RowInv, Settled
      <3>2. SameHolding(row'[p], mem[p])
        BY <1>2, <3>1 DEF SameHolding
      <3>3. ASSUME p \notin stale', row'[p] # mem[p] PROVE FALSE
        <4>1. p \notin stale /\ row[p] = mem[p] /\ row'[p] # row[p]
          BY <3>1, <3>3
        <4>2. PICK s \in {mem[p]} \cup LateOf(p) : Exists(s) /\ RowAccepts(row[p], s) /\ row'[p] = s
          BY <4>1
        <4>3. s \in Written(p)
          BY <3>3, <4>2, WrittenSnapshots
        <4>4. s.updatedAt = mem[p].updatedAt /\ s.exitOrder = mem[p].exitOrder
          BY <2>3, <2>4, <4>1, <4>2, <4>3, RecordFields DEF RowAccepts
        <4> QED
          BY <2>3, <3>3, <4>2, <4>3, <4>4
      <3> QED
        BY <3>2, <3>3
    <2>8. Managed(p)'
      <3>1. row'[p].status \in OpenStatuses => row[p].status \in OpenStatuses
        BY <1>2 DEF SameHolding
      <3>2. \A w \in late' : w.pos = p => w \in late \/ Exists(mem[p])
        OBVIOUS
      <3> QED
        BY <2>1, <3>1, <3>2 DEF RowInv, Managed
    <2> QED
      BY <2>5, <2>6, <2>7, <2>8 DEF RowInv
  <1> QED
    BY <1>1, <1>3, <1>4 DEF QueueInv
-----------------------------------------------------------------------------
(* A new fill.                                                             *)

LEMMA FillAppended ==
  ASSUME LedgerInv, QueueInv, phase # "down", NEW p \in Pos, NEW s \in PositionRecord,
         NEW side \in {"BUY", "SELL"}, NEW q \in 0..Size, RecordFill(p, s, side, q), Exists(s),
         s.tokens = mem[p].tokens + Signed(side, q),
         \/ /\ side = "SELL" /\ s.exitOrder = nextOrder /\ s.stop = mem[p].stop /\ s.updatedAt = mem[p].updatedAt + 1
            /\ Exists(mem[p])
            /\ \A f : f = [order |-> nextOrder, pos |-> p, side |-> side, qty |-> q, snap |-> s] => FillAccepted(mem[p], f)
         \/ /\ side = "BUY" /\ pending = <<>> /\ ~Exists(mem[p]) /\ ~Exists(row[p])
            /\ s.status = "OPEN" /\ s.tokens = q
  PROVE  QueueInv'
  <1> DEFINE new == [order |-> nextOrder, pos |-> p, side |-> side, qty |-> q, snap |-> s]
  <1>0. /\ mem' = [mem EXCEPT ![p] = s] /\ nextOrder' = nextOrder + 1 /\ pending' = Append(pending, new)
        /\ UNCHANGED <<bookOk, row, orders, late, stale>> /\ phase' = "flush"
        /\ IF bookOk /\ nextOrder \notin book
           THEN /\ book' = book \cup {nextOrder}
                /\ bookQty' = [bookQty EXCEPT ![p] = @ + Signed(side, q)]
           ELSE UNCHANGED <<book, bookQty>>
    BY DEF RecordFill, durable
  <1>1. /\ new.order = nextOrder /\ new.pos = p /\ new.side = side /\ new.qty = q /\ new.snap = s
        /\ (side = "SELL" => FillAccepted(mem[p], new))
        /\ (side = "BUY" => FillAccepted(row[p], new))
    BY DEF FillAccepted, Exists
  <1> HIDE DEF new
  <1>2. /\ pending \in Seq(Fill) /\ Len(pending) \in Nat /\ nextOrder \in Nat
        /\ \A i \in Queue : /\ pending[i].pos \in Pos /\ pending[i].order \in Nat
                            /\ pending[i].snap \in PositionRecord
                            /\ SnapshotOK(pending[i].snap)
        /\ mem[p] \in PositionRecord
    BY LedgerParts, QueueTyped, SnapshotsOf DEF Queue
  <1>3. PICK n \in Nat :
           /\ Queue' = Queue \cup {n} /\ n \notin Queue /\ pending'[n] = new
           /\ \A i \in Queue : pending'[i] = pending[i] /\ i < n /\ ~(n < i) /\ i \in Nat
           /\ ~(n < n) /\ (pending = <<>> => n = 1)
    <2>1. /\ Queue' = Queue \cup {Len(pending) + 1} /\ Len(pending) + 1 \notin Queue
          /\ pending'[Len(pending) + 1] = new /\ Len(pending) + 1 \in Nat
          /\ \A i \in Queue : pending'[i] = pending[i] /\ i < Len(pending) + 1 /\ i \in Nat
          /\ pending = <<>> => Len(pending) + 1 = 1
      BY <1>0, <1>2 DEF Queue
    <2>2. \A i, j \in Nat : ~(i < j /\ j < i) /\ ~(i < i)
      OBVIOUS
    <2> QED
      BY <2>1, <2>2
  <1>4. mem'[p] = s /\ \A r \in Pos \ {p} : mem'[r] = mem[r]
    BY <1>0, LedgerParts DEF TypeOK, MemoryTypeOK
  <1>5. \A i \in Queue : /\ FirstOf(i)' <=> FirstOf(i)
                         /\ LastOf(i)' <=> LastOf(i) /\ pending[i].pos # p
                         /\ \A j \in Queue : Adjacent(i, j)' <=> Adjacent(i, j)
                         /\ Adjacent(i, n)' <=> LastOf(i) /\ pending[i].pos = p
    <2> SUFFICES ASSUME NEW i \in Queue
                 PROVE  /\ FirstOf(i)' <=> FirstOf(i)
                        /\ LastOf(i)' <=> LastOf(i) /\ pending[i].pos # p
                        /\ \A j \in Queue : Adjacent(i, j)' <=> Adjacent(i, j)
                        /\ Adjacent(i, n)' <=> LastOf(i) /\ pending[i].pos = p
      OBVIOUS
    <2>1. FirstOf(i)' <=> FirstOf(i)
      BY <1>3 DEF FirstOf
    <2>2. LastOf(i)' <=> LastOf(i) /\ pending[i].pos # p
      BY <1>1, <1>3 DEF LastOf
    <2>3. \A j \in Queue : Adjacent(i, j)' <=> Adjacent(i, j)
      BY <1>3 DEF Adjacent
    <2>4. Adjacent(i, n)' <=> LastOf(i) /\ pending[i].pos = p
      BY <1>1, <1>3 DEF Adjacent, LastOf
    <2> QED
      BY <2>1, <2>2, <2>3, <2>4
  <1>6. FirstOf(n)' => ~HasPending(p)
    BY <1>1, <1>3 DEF FirstOf, HasPending, Queue
  <1>7. HasPending(p)' /\ \A r \in Pos \ {p} : HasPending(r)' <=> HasPending(r)
    <2>1. \A r \in Pos : HasPending(r) <=> \E i \in Queue : pending[i].pos = r
      BY DEF HasPending, Queue
    <2>2. \A r \in Pos : HasPending(r)' <=> \E i \in Queue' : pending'[i].pos = r
      BY DEF HasPending, Queue
    <2> QED
      BY <1>1, <1>3, <2>1, <2>2
  <1>8. RowInv(p) /\ LateOf(p) \subseteq Snapshots(p) /\ row[p] \in Snapshots(p)
    BY WrittenSnapshots DEF QueueInv
  <1>9. \A w \in late : w.pos = p => SnapshotOK(w.snap) /\ w.snap \in PositionRecord /\ w.snap \in Snapshots(p)
    BY LedgerParts, SnapshotsOf
  <1>10. OrdersFresh'
    <2>1. \A o \in orders : o < nextOrder /\ o \in Nat
      BY LedgerParts DEF QueueInv, OrdersFresh, TypeOK, DurableTypeOK
    <2>2. \A i \in Queue : pending[i].order < nextOrder /\ (i > 1 => pending[i].order \notin orders)
      BY DEF QueueInv, OrdersFresh
    <2>3. \A i, j \in Queue : pending[i].order = pending[j].order => i = j
      BY DEF QueueInv, OrdersFresh
    <2>4. \A o \in orders' : o < nextOrder'
      BY <1>0, <1>2, <2>1
    <2>5. ASSUME NEW i \in Queue'
          PROVE  /\ pending'[i].order < nextOrder'
                 /\ i > 1 => pending'[i].order \notin orders'
                 /\ \A j \in Queue' : pending'[i].order = pending'[j].order => i = j
      <3>1. nextOrder \notin orders /\ \A j \in Queue : pending[j].order # nextOrder
        BY <1>2, <2>1, <2>2
      <3>2. orders' = orders /\ nextOrder' = nextOrder + 1 /\ nextOrder \in Nat
        BY <1>0, <1>2
      <3>3. pending'[i].order < nextOrder'
        <4>1. CASE i \in Queue
          BY <1>2, <1>3, <2>2, <3>2, <4>1
        <4>2. CASE i = n
          BY <1>1, <1>3, <3>2, <4>2
        <4> QED
          BY <1>3, <4>1, <4>2
      <3>4. i > 1 => pending'[i].order \notin orders'
        BY <1>1, <1>3, <2>2, <3>1, <3>2
      <3>5. \A j \in Queue' : pending'[i].order = pending'[j].order => i = j
        BY <1>1, <1>3, <2>3, <3>1
      <3> QED
        BY <3>3, <3>4, <3>5
    <2> QED
      BY <2>4, <2>5 DEF OrdersFresh
  <1>11. BookInv'
    <2>1. PendingOrders' = PendingOrders \cup {nextOrder}
      <3>1. PendingOrders = {pending[i].order : i \in Queue} /\ PendingOrders' = {pending'[i].order : i \in Queue'}
        BY DEF PendingOrders, Queue
      <3> QED
        BY <1>1, <1>3, <3>1
    <2>2. bookOk => nextOrder \notin book
      <3>1. bookOk => book = orders \cup PendingOrders
        BY DEF QueueInv, BookInv
      <3>2. \A o \in orders \cup PendingOrders : o < nextOrder
        BY DEF QueueInv, OrdersFresh, PendingOrders, Queue
      <3> QED
        BY <1>2, <3>1, <3>2
    <2>3. ASSUME bookOk PROVE \A r \in Pos : bookQty'[r] = mem'[r].tokens
      <3>1. bookQty' = [bookQty EXCEPT ![p] = @ + Signed(side, q)] /\ bookQty \in [Pos -> Int]
        BY <1>0, <2>2, <2>3, LedgerParts DEF TypeOK, MemoryTypeOK
      <3>2. \A r \in Pos : bookQty[r] = mem[r].tokens
        BY <2>3 DEF QueueInv, BookInv
      <3> QED
        BY <1>4, <3>1, <3>2
    <2>4. bookOk => book' = orders' \cup PendingOrders'
      BY <1>0, <2>1, <2>2 DEF QueueInv, BookInv
    <2> QED
      BY <1>0, <2>3, <2>4 DEF BookInv
  <1>12. OnlyHeadBuys'
    <2>1. \A i \in Queue : pending[i].side = "BUY" => i = 1
      BY DEF QueueInv, OnlyHeadBuys, Queue
    <2>2. side = "BUY" => n = 1
      BY <1>3
    <2>3. \A i \in Queue' : pending'[i].side = "BUY" => i = 1
      BY <1>1, <1>3, <2>1, <2>2
    <2> QED
      BY <2>3 DEF OnlyHeadBuys, Queue
  <1>13. ASSUME NEW i \in Queue PROVE Chained(i)'
    <2>1. Chained(i) /\ pending'[i] = pending[i] /\ pending[i].pos \in Pos
      BY <1>2, <1>3 DEF QueueInv
    <2>2. CASE pending[i].pos # p
      <3>1. mem'[pending[i].pos] = mem[pending[i].pos]
        BY <1>4, <2>1, <2>2
      <3>2. \A j \in Queue' : Adjacent(i, j)' => FillAccepted(pending[i].snap, pending'[j])
        BY <1>3, <1>5, <2>1, <2>2 DEF Chained
      <3>3. late' = late /\ row' = row /\ orders' = orders
        BY <1>0
      <3>4. (FirstOf(i)' <=> FirstOf(i)) /\ (LastOf(i)' <=> LastOf(i))
        BY <1>5, <2>2
      <3> QED
        BY <2>1, <3>1, <3>2, <3>3, <3>4 DEF Chained
    <2>3. CASE pending[i].pos = p
      <3>1. side = "SELL" /\ s.exitOrder = nextOrder /\ s.stop = mem[p].stop /\ s.updatedAt = mem[p].updatedAt + 1
        BY <1>2, <2>3 DEF Queue
      <3>2. pending[i].snap.exitOrder < nextOrder /\ pending[i].snap.exitOrder \in Nat
        BY <1>2, RecordFields DEF SnapshotOK
      <3>3. pending[i].snap.updatedAt <= s.updatedAt
        <4>1. pending[i].snap.updatedAt <= mem[p].updatedAt
          BY <2>1, <2>3 DEF Chained
        <4> QED
          BY <1>2, <3>1, <4>1, RecordFields
      <3>4. \A j \in Queue' : Adjacent(i, j)' => FillAccepted(pending[i].snap, pending'[j])
        BY <1>1, <1>3, <1>5, <2>1, <2>3, <3>1 DEF Chained
      <3>5. ~LastOf(i)' /\ s.exitOrder # pending[i].snap.exitOrder
        BY <1>2, <1>5, <2>3, <3>1, <3>2
      <3> QED
        BY <1>0, <1>4, <1>5, <2>1, <2>3, <3>1, <3>3, <3>4, <3>5 DEF Chained
    <2> QED
      BY <2>2, <2>3
  <1>14. Chained(n)'
    <2>1. FirstOf(n)' => nextOrder \notin orders /\ FillAccepted(row[p], new)
      <3>1. nextOrder \notin orders
        BY <1>2, LedgerParts DEF QueueInv, OrdersFresh, TypeOK, DurableTypeOK
      <3>2. side = "SELL" /\ ~HasPending(p) => SameHolding(row[p], mem[p])
        BY <1>8 DEF RowInv, Settled
      <3> QED
        BY <1>1, <1>6, <3>1, <3>2, AcceptSame
    <2>2. LastOf(n)' /\ \A j \in Queue' : ~Adjacent(n, j)'
      BY <1>3 DEF LastOf, Adjacent
    <2>3. \A w \in late : w.pos = p => w.snap.exitOrder # s.exitOrder
      <3>1. CASE side = "SELL"
        BY <1>2, <1>9, <3>1, RecordFields DEF SnapshotOK
      <3>2. CASE side = "BUY"
        BY <1>8, <3>2 DEF RowInv, Managed, Running
      <3> QED
        BY <3>1, <3>2
    <2>4. s.updatedAt <= s.updatedAt
      BY RecordFields
    <2> QED
      BY <1>0, <1>1, <1>3, <1>4, <2>1, <2>2, <2>3, <2>4 DEF Chained
  <1>15. ASSUME NEW r \in Pos, r # p PROVE RowInv(r)'
    <2>1. RowInv(r) /\ LateOf(r)' = LateOf(r) /\ Running
      BY <1>0 DEF QueueInv, LateOf, Running
    <2> QED
      BY <1>0, <1>4, <1>7, <1>15, <2>1, OtherRow
  <1>16. RowInv(p)'
    <2>1. Written(p)' = Written(p)
      BY <1>0 DEF Written
    <2>2. Settled(p)'
      BY <1>7 DEF Settled
    <2>3. Ratcheted(p)'
      BY <1>8, <2>1 DEF RowInv, Ratcheted
    <2>4. Managed(p)'
      BY <1>4 DEF Managed
    <2>5. MemoryLatest(p)'
      <3>1. CASE side = "SELL"
        <4>1. s.exitOrder = nextOrder /\ s.stop = mem[p].stop /\ s.updatedAt = mem[p].updatedAt + 1 /\ Exists(mem[p])
          BY <3>1
        <4>2. ASSUME NEW x \in Written(p), Exists(x)
              PROVE  x.updatedAt <= s.updatedAt /\ x.stop <= s.stop /\ x.exitOrder # s.exitOrder
          <5>1. SnapshotOK(x) /\ x \in PositionRecord
            BY <4>2, LedgerParts, WrittenSnapshots
          <5>2. x.updatedAt <= mem[p].updatedAt /\ x.stop <= mem[p].stop
            BY <1>8, <4>1, <4>2 DEF RowInv, MemoryLatest
          <5> QED
            BY <1>2, <4>1, <5>1, <5>2, RecordFields DEF SnapshotOK
        <4> QED
          BY <1>4, <2>1, <4>2 DEF MemoryLatest
      <3>2. CASE side = "BUY"
        <4>1. \A x \in Written(p) : ~Exists(x)
          BY <1>8, <3>2 DEF RowInv, Managed, Running, Written
        <4> QED
          BY <2>1, <4>1 DEF MemoryLatest
      <3> QED
        BY <3>1, <3>2
    <2> QED
      BY <2>2, <2>3, <2>4, <2>5 DEF RowInv
  <1> QED
    BY <1>3, <1>10, <1>11, <1>12, <1>13, <1>14, <1>15, <1>16 DEF QueueInv

LEMMA SaleQueued ==
  ASSUME LedgerInv, QueueInv, phase # "down", NEW p \in Pos, NEW fraction \in Fractions,
         ExecuteSale(p, fraction)
  PROVE  QueueInv'
  <1> DEFINE q == SellQuantity(mem[p], fraction)
             s == Sold(mem[p], fraction, q, nextOrder)
  <1>1. CanSell(mem[p], fraction) /\ RecordFill(p, s, "SELL", q)
    BY DEF ExecuteSale
  <1>2. mem[p] \in PositionRecord /\ nextOrder \in Nat
    BY LedgerParts, QueueTyped
  <1>3. q \in 0..mem[p].tokens /\ mem[p].tokens \in 0..Size
    BY <1>2, SellQuantityBound, RecordFields
  <1>4. q \in 0..Size /\ s \in PositionRecord
    BY <1>2, <1>3, SoldType
  <1>5. /\ s.exitOrder = nextOrder /\ s.stop = mem[p].stop /\ s.updatedAt = mem[p].updatedAt + 1
        /\ s.tokens = mem[p].tokens - q /\ Exists(s)
    BY DEF Sold, Exists
  <1>6. Exists(mem[p])
    BY <1>1 DEF CanSell, Exists, OpenStatuses
  <1>7. \A f : f = [order |-> nextOrder, pos |-> p, side |-> "SELL", qty |-> q, snap |-> s] => FillAccepted(mem[p], f)
    <2> TAKE f
    <2> HAVE f = [order |-> nextOrder, pos |-> p, side |-> "SELL", qty |-> q, snap |-> s]
    <2>1. f = [order |-> nextOrder, pos |-> f.pos, side |-> "SELL", qty |-> q, snap |-> s]
      OBVIOUS
    <2> QED
      BY <1>1, <1>2, <2>1, SaleAccepted
  <1>8. s.tokens = mem[p].tokens + Signed("SELL", q)
    BY <1>3, <1>5 DEF Signed
  <1> HIDE DEF q, s
  <1> QED
    BY <1>1, <1>4, <1>5, <1>6, <1>7, <1>8, FillAppended

LEMMA EntryQueued ==
  ASSUME LedgerInv, QueueInv, ExecuteEntry
  PROVE  QueueInv'
  <1>1. PICK p \in Pos, tp1 \in BOOLEAN :
          mem[p].status = "NONE" /\ row[p].status = "NONE" /\ RecordFill(p, Opened(tp1), "BUY", Size)
    BY DEF ExecuteEntry
  <1>2. pending = <<>> /\ phase # "down"
    BY DEF ExecuteEntry, AccountingProblems
  <1>3. PICK s \in PositionRecord : s = Opened(tp1)
    BY OpenedType
  <1>4. s.status = "OPEN" /\ s.tokens = Size /\ Exists(s)
    BY <1>3 DEF Opened, Exists
  <1>5. mem[p].tokens = 0 /\ Size \in 0..Size
    BY <1>1, LedgerParts, SnapshotsOf DEF SnapshotOK
  <1>6. s.tokens = mem[p].tokens + Signed("BUY", Size) /\ ~Exists(mem[p]) /\ ~Exists(row[p])
    BY <1>1, <1>4, <1>5 DEF Signed, Exists
  <1> QED
    BY <1>1, <1>2, <1>3, <1>4, <1>5, <1>6, FillAppended
-----------------------------------------------------------------------------
(* The head of the queue is written.                                       *)

\* What the head's snapshot is to its row.
LEMMA CommittedRow ==
  ASSUME LedgerInv, QueueInv, pending # <<>>, NEW q \in Pos, q = pending[1].pos,
         UNCHANGED <<mem, late>>, row'[q] = pending[1].snap
  PROVE  MemoryLatest(q)' /\ Ratcheted(q)' /\ Managed(q)'
  <1>1. 1 \in Queue /\ Chained(1) /\ pending[1].snap \in PositionRecord /\ mem[q] \in PositionRecord
    BY LedgerParts, QueueTyped DEF QueueInv, Queue
  <1> DEFINE s == pending[1].snap
  <1>2. /\ Exists(mem[q]) /\ s.stop = mem[q].stop /\ s.updatedAt <= mem[q].updatedAt
        /\ s.exitOrder = mem[q].exitOrder => s = mem[q]
        /\ \A w \in late : w.pos = q => w.snap.exitOrder # s.exitOrder
    BY <1>1 DEF Chained
  <1>3. RowInv(q) /\ s.stop \in Nat /\ s.updatedAt \in Nat
    BY <1>1, RecordFields DEF QueueInv
  <1>4. Written(q)' = {s} \cup LateOf(q) /\ LateOf(q) \subseteq Written(q)
    BY DEF Written, LateOf
  <1>5. \A x \in LateOf(q) : x.exitOrder # s.exitOrder
    BY <1>2 DEF LateOf
  <1> HIDE DEF s
  <1>6. MemoryLatest(q)'
    <2>1. s.stop <= mem[q].stop
      BY <1>2, <1>3
    <2> QED
      BY <1>2, <1>3, <1>4, <2>1 DEF RowInv, MemoryLatest
  <1>7. Ratcheted(q)'
    <2>1. s.stop <= s.stop
      BY <1>3
    <2> QED
      BY <1>3, <1>4, <1>5, <2>1 DEF RowInv, Ratcheted
  <1>8. Managed(q)'
    BY <1>2 DEF Managed
  <1> QED
    BY <1>6, <1>7, <1>8

\* The head is durable and leaves the queue.
LEMMA HeadDropped ==
  ASSUME LedgerInv, QueueInv, pending # <<>>, pending' = Tail(pending), NEW q \in Pos, q = pending[1].pos,
         UNCHANGED <<mem, book, bookQty, bookOk, late, nextOrder, phase>>,
         orders' = orders \cup {pending[1].order},
         \A p \in Pos \ {q} : row'[p] = row[p] /\ (p \in stale' <=> p \in stale),
         SameHolding(row'[q], pending[1].snap),
         row'[q] = pending[1].snap \/ (row'[q] = row[q] /\ q \in stale')
  PROVE  QueueInv'
  <1>1. /\ 1 \in Queue
        /\ \A i \in Queue' : /\ i + 1 \in Queue /\ pending'[i] = pending[i + 1]
                             /\ i + 1 > 1 /\ i + 1 # 1 /\ i \in Nat
        /\ \A k \in Queue : /\ k \in Nat
                            /\ k # 1 => k - 1 \in Queue' /\ pending'[k - 1] = pending[k] /\ k > 1
    <2>1. pending \in Seq(Fill) /\ Len(pending) \in Nat
      BY LedgerParts, QueueTyped
    <2> QED
      BY <2>1, QueueTail DEF Queue
  <1>2. /\ \A k \in Queue : Chained(k) /\ pending[k].pos \in Pos /\ pending[k].order \in Nat
        /\ \A p \in Pos : RowInv(p)
    BY LedgerParts, QueueTyped DEF QueueInv
  <1>3. OrdersFresh'
    <2>1. OrdersFresh
      BY DEF QueueInv
    <2>2. \A o \in orders' : o < nextOrder'
      BY <1>1, <2>1 DEF OrdersFresh
    <2>3. ASSUME NEW i \in Queue'
          PROVE  pending'[i].order < nextOrder' /\ pending'[i].order \notin orders'
      <3>1. PICK k \in Queue : k > 1 /\ k # 1 /\ pending'[i] = pending[k]
        BY <1>1
      <3>2. pending[k].order < nextOrder /\ pending[k].order \notin orders /\ pending[k].order # pending[1].order
        BY <1>1, <2>1, <3>1 DEF OrdersFresh
      <3> QED
        BY <3>1, <3>2
    <2>4. ASSUME NEW i \in Queue', NEW j \in Queue', pending'[i].order = pending'[j].order
          PROVE  i = j
      <3>1. PICK k \in Queue : k = i + 1 /\ pending'[i] = pending[k]
        BY <1>1
      <3>2. PICK l \in Queue : l = j + 1 /\ pending'[j] = pending[l]
        BY <1>1
      <3>3. k = l
        <4>1. \A a, b \in Queue : pending[a].order = pending[b].order => a = b
          BY <2>1 DEF OrdersFresh
        <4>2. pending[k].order = pending[l].order
          BY <2>4, <3>1, <3>2, Zenon
        <4> QED
          BY <3>1, <3>2, <4>1, <4>2, Zenon
      <3>4. i \in Nat /\ j \in Nat
        BY <1>1
      <3> QED
        BY <3>1, <3>2, <3>3, <3>4
    <2> QED
      BY <2>2, <2>3, <2>4 DEF OrdersFresh
  <1>4. BookInv'
    <2>1. orders' \cup PendingOrders' = orders \cup PendingOrders
      <3>1. PendingOrders = {pending[i].order : i \in Queue} /\ PendingOrders' = {pending'[i].order : i \in Queue'}
        BY DEF PendingOrders, Queue
      <3>2. ASSUME NEW k \in Queue PROVE pending[k].order = pending[1].order \/ pending[k].order \in PendingOrders'
        <4>1. k = 1 \/ \E i \in Queue' : pending'[i] = pending[k]
          BY <1>1
        <4> QED
          BY <3>1, <4>1
      <3>3. ASSUME NEW i \in Queue' PROVE pending'[i].order \in PendingOrders
        <4>1. \E k \in Queue : pending'[i] = pending[k]
          BY <1>1
        <4> QED
          BY <3>1, <4>1
      <3>4. pending[1].order \in PendingOrders
        BY <1>1, <3>1
      <3>5. PendingOrders \subseteq PendingOrders' \cup {pending[1].order}
        BY <3>1, <3>2
      <3>6. PendingOrders' \subseteq PendingOrders
        BY <3>1, <3>3
      <3> QED
        BY <3>4, <3>5, <3>6
    <2> QED
      BY <2>1 DEF QueueInv, BookInv
  <1>5. OnlyHeadBuys'
    <2>1. \A k \in Queue : pending[k].side = "BUY" => k = 1
      BY DEF QueueInv, OnlyHeadBuys, Queue
    <2>2. ASSUME NEW i \in Queue' PROVE pending'[i].side # "BUY"
      <3>1. PICK k \in Queue : k # 1 /\ pending'[i] = pending[k]
        BY <1>1
      <3> QED
        BY <2>1, <3>1
    <2> QED
      BY <2>2 DEF OnlyHeadBuys, Queue
  <1>6. ASSUME NEW i \in Queue' PROVE Chained(i)'
    <2>1. PICK k \in Queue : k = i + 1 /\ k > 1 /\ pending'[i] = pending[k] /\ k \in Nat /\ i \in Nat
      BY <1>1
    <2>2. Chained(k) /\ pending[k].pos \in Pos /\ pending[k].order \notin orders
      BY <1>2, <2>1 DEF QueueInv, OrdersFresh
    <2>3. pending[k].order \notin orders'
      BY <1>1, <2>1, <2>2 DEF QueueInv, OrdersFresh
    <2>4. FirstOf(i)' => FillAccepted(row'[pending[k].pos], pending[k])
      <3> SUFFICES ASSUME FirstOf(i)' PROVE FillAccepted(row'[pending[k].pos], pending[k])
        OBVIOUS
      <3>1. \A j \in Queue : j < k => j = 1 \/ pending[j].pos # pending[k].pos
        <4> SUFFICES ASSUME NEW j \in Queue, j < k, j # 1 PROVE pending[j].pos # pending[k].pos
          OBVIOUS
        <4>1. PICK h \in Queue' : h = j - 1 /\ pending'[h] = pending[j]
          BY <1>1
        <4>2. h < i
          <5>1. j \in Nat
            BY <1>1
          <5> QED
            BY <2>1, <4>1, <5>1
        <4> QED
          BY <2>1, <4>1, <4>2 DEF FirstOf
      <3>2. CASE pending[k].pos = q
        <4>1. Adjacent(1, k)
          BY <1>1, <2>1, <3>1, <3>2 DEF Adjacent
        <4>2. FillAccepted(pending[1].snap, pending[k])
          BY <1>1, <1>2, <4>1 DEF Chained
        <4> QED
          BY <3>2, <4>2, AcceptSame
      <3>3. CASE pending[k].pos # q
        <4>1. FirstOf(k)
          BY <3>1, <3>3 DEF FirstOf
        <4> QED
          BY <2>2, <3>3, <4>1 DEF Chained
      <3> QED
        BY <3>2, <3>3
    <2>5. LastOf(i)' <=> LastOf(k)
      <3>1. ASSUME LastOf(k), NEW j \in Queue', i < j PROVE pending'[j].pos # pending'[i].pos
        <4>1. PICK h \in Queue : h = j + 1 /\ pending'[j] = pending[h]
          BY <1>1
        <4>2. k < h
          <5>1. j \in Nat
            BY <1>1
          <5> QED
            BY <2>1, <3>1, <4>1, <5>1
        <4> QED
          BY <2>1, <3>1, <4>1, <4>2 DEF LastOf
      <3>2. ASSUME LastOf(i)', NEW j \in Queue, k < j PROVE pending[j].pos # pending[k].pos
        <4>1. j \in Nat /\ j # 1
          BY <1>1, <2>1, <3>2
        <4>2. PICK h \in Queue' : h = j - 1 /\ pending'[h] = pending[j]
          BY <1>1, <4>1
        <4>3. i < h
          BY <2>1, <3>2, <4>1, <4>2
        <4> QED
          BY <2>1, <3>2, <4>2, <4>3 DEF LastOf
      <3> QED
        BY <3>1, <3>2 DEF LastOf
    <2>6. ASSUME NEW j \in Queue', Adjacent(i, j)' PROVE FillAccepted(pending[k].snap, pending'[j])
      <3>1. j + 1 \in Queue /\ pending'[j] = pending[j + 1] /\ i < j /\ pending'[j].pos = pending'[i].pos /\ j \in Nat
        BY <1>1, <2>6 DEF Adjacent
      <3>2. ASSUME NEW l \in Queue, k < l, l < j + 1 PROVE pending[l].pos # pending[k].pos
        <4>1. l \in Nat /\ l # 1
          BY <1>1, <2>1, <3>2
        <4>2. PICK h \in Queue' : h = l - 1 /\ pending'[h] = pending[l]
          BY <1>1, <4>1
        <4>3. i < h /\ h < j
          BY <2>1, <3>1, <3>2, <4>1, <4>2
        <4> QED
          BY <2>1, <2>6, <4>2, <4>3 DEF Adjacent
      <3>3. Adjacent(k, j + 1)
        BY <2>1, <3>1, <3>2 DEF Adjacent
      <3> QED
        BY <2>2, <3>1, <3>3 DEF Chained
    <2> QED
      BY <2>1, <2>2, <2>3, <2>4, <2>5, <2>6 DEF Chained
  <1>7. \A p \in Pos : HasPending(p) <=> p = q \/ HasPending(p)'
    <2>1. \A p \in Pos : HasPending(p) <=> \E i \in Queue : pending[i].pos = p
      BY DEF HasPending, Queue
    <2>2. \A p \in Pos : HasPending(p)' <=> \E i \in Queue' : pending'[i].pos = p
      BY DEF HasPending, Queue
    <2>3. ASSUME NEW p \in Pos, HasPending(p), p # q PROVE HasPending(p)'
      <3>1. PICK k \in Queue : pending[k].pos = p
        BY <2>1, <2>3
      <3>2. k # 1
        BY <2>3, <3>1
      <3>3. k - 1 \in Queue' /\ pending'[k - 1] = pending[k]
        BY <1>1, <3>2
      <3> QED
        BY <2>2, <3>1, <3>3
    <2>4. ASSUME NEW p \in Pos, HasPending(p)' PROVE HasPending(p)
      <3>1. PICK i \in Queue' : pending'[i].pos = p
        BY <2>2, <2>4
      <3>2. i + 1 \in Queue /\ pending'[i] = pending[i + 1]
        BY <1>1
      <3> QED
        BY <2>1, <3>1, <3>2
    <2>5. HasPending(q)
      BY <1>1, <2>1
    <2> QED
      BY <2>3, <2>4, <2>5
  <1>8. ASSUME NEW p \in Pos, p # q PROVE RowInv(p)'
    <2>1. RowInv(p) /\ LateOf(p)' = LateOf(p) /\ (Running' => Running)
      BY <1>2 DEF LateOf, Running
    <2> QED
      BY <1>7, <1>8, <2>1, OtherRow
  <1>9. RowInv(q)'
    <2>1. Settled(q)'
      <3> SUFFICES ASSUME ~HasPending(q)' PROVE pending[1].snap = mem[q]
        BY DEF Settled
      <3>1. \A i \in Queue' : pending'[i].pos # q
        BY DEF HasPending, Queue
      <3>2. ASSUME NEW j \in Queue, 1 < j PROVE pending[j].pos # q
        <4>1. j \in Nat /\ j # 1
          BY <1>1, <3>2
        <4>2. \E i \in Queue' : pending'[i] = pending[j]
          BY <1>1, <4>1
        <4> QED
          BY <3>1, <4>2
      <3>3. LastOf(1)
        BY <3>2 DEF LastOf
      <3> QED
        BY <1>1, <1>2, <3>3 DEF Chained
    <2>2. CASE row'[q] = pending[1].snap
      BY <2>1, <2>2, CommittedRow DEF RowInv
    <2>3. CASE row'[q] = row[q]
      <3>1. RowInv(q) /\ Written(q)' = Written(q)
        BY <1>2, <2>3 DEF Written
      <3>2. MemoryLatest(q)' /\ Ratcheted(q)' /\ Managed(q)'
        BY <2>3, <3>1 DEF RowInv, MemoryLatest, Ratcheted, Managed, Running
      <3> QED
        BY <2>1, <3>2 DEF RowInv
    <2> QED
      BY <2>2, <2>3
  <1> QED
    BY <1>3, <1>4, <1>5, <1>6, <1>8, <1>9 DEF QueueInv

LEMMA FlushQueued ==
  ASSUME LedgerInv, QueueInv, FlushCommits \/ FlushDuplicate
  PROVE  QueueInv'
  <1>1. /\ pending # <<>> /\ pending' = Tail(pending)
        /\ UNCHANGED <<mem, book, bookQty, bookOk, late, nextOrder, phase>>
    BY DEF FlushCommits, FlushDuplicate, FlushHead, Drop, Commit, control, durable, bounds
  <1>2. /\ Head(pending) = pending[1] /\ 1 \in Queue /\ pending[1].pos \in Pos /\ Chained(1)
        /\ row \in [Pos -> PositionRecord] /\ stale \subseteq Pos
    <2>1. pending \in Seq(Fill) /\ Len(pending) > 0 /\ Len(pending) \in Nat
      BY <1>1, LedgerParts, QueueTyped, QueueTail
    <2>2. 1 \in Queue /\ Head(pending) = pending[1]
      BY <1>1, <2>1, QueueTail DEF Queue
    <2> QED
      BY <2>2, LedgerParts, QueueTyped DEF QueueInv, TypeOK, MemoryTypeOK, DurableTypeOK
  <1>3. PICK q \in Pos : q = pending[1].pos
    BY <1>2
  <1>4. CASE FlushCommits
    <2>1. /\ orders' = orders \cup {pending[1].order} /\ row' = [row EXCEPT ![q] = pending[1].snap]
          /\ stale' = stale \ {q}
      BY <1>2, <1>3, <1>4 DEF FlushCommits, Commit
    <2>2. row'[q] = pending[1].snap /\ \A p \in Pos \ {q} : row'[p] = row[p] /\ (p \in stale' <=> p \in stale)
      BY <1>2, <2>1
    <2>3. SameHolding(row'[q], pending[1].snap)
      BY <2>2 DEF SameHolding
    <2> QED
      BY <1>1, <1>3, <2>1, <2>2, <2>3, HeadDropped
  <1>5. CASE FlushDuplicate
    <2>1. /\ pending[1].order \in orders /\ stale' = stale \cup {q} /\ row' = row /\ orders' = orders
      BY <1>2, <1>3, <1>5 DEF FlushDuplicate, durable
    <2>2. orders' = orders \cup {pending[1].order}
      BY <2>1
    <2>3. FirstOf(1)
      <3>1. \A j \in Queue : ~(j < 1)
        BY DEF Queue
      <3> QED
        BY <3>1 DEF FirstOf
    <2>4. SameHolding(row'[q], pending[1].snap)
      BY <1>2, <1>3, <2>1, <2>3 DEF Chained
    <2>5. \A p \in Pos \ {q} : row'[p] = row[p] /\ (p \in stale' <=> p \in stale)
      BY <2>1
    <2>6. row'[q] = row[q] /\ q \in stale'
      BY <2>1
    <2> QED
      BY <1>1, <1>3, <2>2, <2>4, <2>5, <2>6, HeadDropped
  <1> QED
    BY <1>4, <1>5

\* The head was committed and its reply was lost: it stays in the queue as a duplicate.
LEMMA LostReply ==
  ASSUME LedgerInv, QueueInv, FlushHead, Commit(Head(pending)), FlushReturns,
         UNCHANGED <<memory, nextOrder, stale>>
  PROVE  QueueInv'
  <1>1. /\ pending # <<>> /\ UNCHANGED <<mem, book, bookQty, bookOk, pending, late, nextOrder, stale>>
        /\ phase = "flush" /\ phase' # "down"
    <2>1. TypeOK
      BY LedgerParts
    <2>2. phase' # "down"
      BY <2>1 DEF TypeOK, ControlTypeOK, ReturnPoints, FlushReturns
    <2> QED
      BY <2>2 DEF FlushHead, Commit, memory
  <1>2. /\ Head(pending) = pending[1] /\ 1 \in Queue /\ pending[1].pos \in Pos
        /\ row \in [Pos -> PositionRecord] /\ \A i \in Queue : pending[i].pos \in Pos /\ Chained(i) /\ i \in Nat /\ ~(i < 1)
    <2>1. pending \in Seq(Fill) /\ Len(pending) > 0 /\ Len(pending) \in Nat
      BY <1>1, LedgerParts, QueueTyped, QueueTail
    <2>2. 1 \in Queue /\ Head(pending) = pending[1] /\ \A i \in Queue : i \in Nat /\ ~(i < 1)
      BY <1>1, <2>1, QueueTail DEF Queue
    <2> QED
      BY <2>2, LedgerParts, QueueTyped DEF QueueInv, TypeOK, DurableTypeOK
  <1>3. PICK q \in Pos : q = pending[1].pos
    BY <1>2
  <1>4. orders' = orders \cup {pending[1].order} /\ row' = [row EXCEPT ![q] = pending[1].snap]
    BY <1>2, <1>3 DEF Commit
  <1>5. row'[q] = pending[1].snap /\ \A p \in Pos \ {q} : row'[p] = row[p]
    BY <1>2, <1>4
  <1>6. Queue' = Queue /\ OrdersFresh
    BY <1>1 DEF Queue, QueueInv
  <1>7. \A i \in Queue : i = 1 \/ (i > 1 /\ pending[i].order # pending[1].order)
    BY <1>2, <1>6 DEF OrdersFresh
  <1>8. OrdersFresh'
    <2>1. \A o \in orders' : o < nextOrder'
      BY <1>1, <1>2, <1>4, <1>6 DEF OrdersFresh
    <2>2. ASSUME NEW i \in Queue, i > 1 PROVE pending[i].order \notin orders'
      BY <1>2, <1>4, <1>6, <1>7, <2>2 DEF OrdersFresh
    <2> QED
      BY <1>1, <1>6, <2>1, <2>2 DEF OrdersFresh
  <1>9. BookInv' /\ OnlyHeadBuys'
    <2>1. PendingOrders' = PendingOrders /\ pending[1].order \in PendingOrders
      BY <1>1, <1>2 DEF PendingOrders, Queue
    <2>2. orders' \cup PendingOrders' = orders \cup PendingOrders
      BY <1>4, <2>1
    <2> QED
      BY <1>1, <2>2 DEF QueueInv, BookInv, OnlyHeadBuys
  <1>10. ASSUME NEW i \in Queue PROVE Chained(i)'
    <2>1. (FirstOf(i)' <=> FirstOf(i)) /\ (LastOf(i)' <=> LastOf(i)) /\ \A j : Adjacent(i, j)' <=> Adjacent(i, j)
      BY <1>1, <1>6 DEF FirstOf, LastOf, Adjacent
    <2>2. FirstOf(i) => IF pending[i].order \in orders' THEN SameHolding(row'[pending[i].pos], pending[i].snap)
                        ELSE FillAccepted(row'[pending[i].pos], pending[i])
      <3>1. CASE i = 1
        BY <1>3, <1>4, <1>5, <3>1 DEF SameHolding
      <3>2. CASE i # 1
        <4>1. i > 1 /\ pending[i].order \notin orders' /\ pending[i].order \notin orders /\ ~(i < 1) /\ 1 < i
          BY <1>2, <1>4, <1>6, <1>7, <3>2 DEF OrdersFresh
        <4>2. FirstOf(i) => pending[i].pos # q
          BY <1>2, <1>3, <4>1 DEF FirstOf
        <4> QED
          BY <1>2, <1>5, <4>1, <4>2 DEF Chained
      <3> QED
        BY <3>1, <3>2
    <2>3. Chained(i)
      BY <1>2
    <2> QED
      BY <1>1, <1>6, <2>1, <2>2, <2>3 DEF Chained
  <1>11. ASSUME NEW p \in Pos, p # q PROVE RowInv(p)'
    <2>1. RowInv(p) /\ LateOf(p)' = LateOf(p) /\ Running /\ (HasPending(p)' <=> HasPending(p))
      BY <1>1 DEF LateOf, Running, QueueInv, HasPending
    <2> QED
      BY <1>1, <1>5, <1>11, <2>1, OtherRow
  <1>12. RowInv(q)'
    <2>1. MemoryLatest(q)' /\ Ratcheted(q)' /\ Managed(q)'
      BY <1>1, <1>3, <1>5, CommittedRow
    <2>2. HasPending(q)'
      BY <1>1, <1>2, <1>3 DEF HasPending, Queue
    <2> QED
      BY <2>1, <2>2 DEF RowInv, Settled
  <1> QED
    BY <1>6, <1>8, <1>9, <1>10, <1>11, <1>12 DEF QueueInv
-----------------------------------------------------------------------------
(* The exits of a position are tightened.                                  *)

LEMMA TightenedStep ==
  ASSUME NEW m \in PositionRecord, NEW stop \in 1..MaxStop, NEW arm \in BOOLEAN,
         NEW s \in PositionRecord, s = Tightened(m, stop, arm), s # m
  PROVE  /\ m.status \in OpenStatuses /\ SameHolding(m, s)
         /\ m.stop <= s.stop /\ s.updatedAt = m.updatedAt + 1
         /\ s = WithExits(m, s.stop, s.tp1, s.updatedAt)
  <1>1. /\ m.status \in OpenStatuses
        /\ s.status = m.status /\ s.tokens = m.tokens /\ s.exitOrder = m.exitOrder
    BY TightenedExits
  <1>2. m.stop <= s.stop
    <2>1. s.stop = IF StopTightens(m, stop) THEN stop ELSE m.stop
      BY DEF Tightened, WithExits
    <2>2. m.stop \in Nat /\ (StopTightens(m, stop) => m.stop <= stop)
      BY RecordFields DEF StopTightens
    <2> QED
      BY <2>1, <2>2
  <1>3. s = WithExits(m, s.stop, s.tp1, s.updatedAt)
    BY DEF Tightened, WithExits
  <1>4. s.updatedAt = m.updatedAt + 1
    <2> SUFFICES ASSUME ~StopTightens(m, stop), ~Tp1Arms(m, arm) PROVE s = m
      BY DEF Tightened, WithExits
    <2>1. s = WithExits(m, m.stop, m.tp1 \/ FALSE, m.updatedAt)
      BY Zenon DEF Tightened
    <2>2. m = [status |-> m.status, tokens |-> m.tokens, stop |-> m.stop, tp1 |-> m.tp1,
               exitOrder |-> m.exitOrder, updatedAt |-> m.updatedAt]
      BY DEF PositionRecord
    <2>3. (m.tp1 \/ FALSE) = m.tp1
      <3>1. m.tp1 \in BOOLEAN
        BY RecordFields
      <3> QED
        BY <3>1, Zenon
    <2> QED
      BY <2>1, <2>2, <2>3 DEF WithExits
  <1> QED
    BY <1>1, <1>2, <1>3, <1>4 DEF SameHolding

\* A patched fill is the fill it was, up to the exits in its snapshot.
LEMMA PatchedFill ==
  ASSUME TypeOK, NEW p \in Pos, NEW s \in PositionRecord, pending' = Patched(p, s)
  PROVE  /\ Queue' = Queue
         /\ \A i \in Queue :
              /\ pending'[i].order = pending[i].order /\ pending'[i].pos = pending[i].pos
              /\ pending'[i].side = pending[i].side /\ pending'[i].qty = pending[i].qty
              /\ SameHolding(pending'[i].snap, pending[i].snap)
              /\ pending[i].pos # p => pending'[i] = pending[i]
              /\ pending[i].pos = p => pending'[i].snap = WithExits(pending[i].snap, s.stop, s.tp1, s.updatedAt)
  <1>1. Len(pending) \in Nat /\ pending' = [i \in Queue |->
           IF pending[i].pos = p
           THEN [pending[i] EXCEPT !.snap = WithExits(@, s.stop, s.tp1, s.updatedAt)] ELSE pending[i]]
    BY QueueTyped DEF Patched, Queue
  <1>2. Queue' = Queue
    BY PatchedType, QueueTyped DEF Queue
  <1>3. ASSUME NEW i \in Queue
        PROVE  /\ pending'[i].order = pending[i].order /\ pending'[i].pos = pending[i].pos
               /\ pending'[i].side = pending[i].side /\ pending'[i].qty = pending[i].qty
               /\ SameHolding(pending'[i].snap, pending[i].snap)
               /\ pending[i].pos # p => pending'[i] = pending[i]
               /\ pending[i].pos = p => pending'[i].snap = WithExits(pending[i].snap, s.stop, s.tp1, s.updatedAt)
    <2>1. pending[i] \in Fill
      BY QueueTyped
    <2>2. CASE pending[i].pos # p
      BY <1>1, <2>2 DEF SameHolding
    <2>3. CASE pending[i].pos = p
      <3>1. pending'[i] = [pending[i] EXCEPT !.snap = WithExits(@, s.stop, s.tp1, s.updatedAt)]
        BY <1>1, <2>3
      <3>2. /\ pending'[i].order = pending[i].order /\ pending'[i].pos = pending[i].pos
            /\ pending'[i].side = pending[i].side /\ pending'[i].qty = pending[i].qty
            /\ pending'[i].snap = WithExits(pending[i].snap, s.stop, s.tp1, s.updatedAt)
        BY <2>1, <3>1 DEF Fill
      <3>3. SameHolding(pending'[i].snap, pending[i].snap)
        BY <3>2 DEF SameHolding, WithExits
      <3> QED
        BY <2>3, <3>2, <3>3
    <2> QED
      BY <2>2, <2>3
  <1> QED
    BY <1>2, <1>3

LEMMA PatchedAccepted ==
  ASSUME NEW r, NEW f, NEW g, f.order = g.order, f.side = g.side, f.qty = g.qty,
         SameHolding(f.snap, g.snap), FillAccepted(r, g)
  PROVE  FillAccepted(r, f)
  BY DEF SameHolding, FillAccepted

\* The position moves to s, its queued fills with it; its row does too, or else the
\* refusal is remembered.
LEMMA ExitsMoved ==
  ASSUME LedgerInv, QueueInv, phase # "down", phase' # "down", NEW p \in Pos, NEW s \in PositionRecord,
         mem[p].status \in OpenStatuses, SameHolding(mem[p], s),
         mem[p].stop <= s.stop, s.updatedAt = mem[p].updatedAt + 1,
         s = WithExits(mem[p], s.stop, s.tp1, s.updatedAt),
         mem' = [mem EXCEPT ![p] = s], pending' = Patched(p, s),
         UNCHANGED <<book, bookQty, bookOk, orders, nextOrder>>,
         \A r \in Pos \ {p} : row'[r] = row[r] /\ (r \in stale' <=> r \in stale),
         row'[p] \in {row[p], s},
         \A w \in late : w \in late',
         \A w \in late' : w \in late \/ (w.pos = p /\ w.snap = s),
         HasPending(p) => row' = row /\ late' = late,
         ~HasPending(p) => p \in stale' \/ row'[p] = s
  PROVE  QueueInv'
  <1>1. /\ Queue' = Queue /\ LedgerInv /\ TypeOK
        /\ \A i \in Queue :
              /\ pending[i].pos \in Pos /\ Chained(i)
              /\ pending'[i].order = pending[i].order /\ pending'[i].pos = pending[i].pos
              /\ pending'[i].side = pending[i].side /\ pending'[i].qty = pending[i].qty
              /\ SameHolding(pending'[i].snap, pending[i].snap)
              /\ pending[i].pos # p => pending'[i] = pending[i]
              /\ pending[i].pos = p => pending'[i].snap = WithExits(pending[i].snap, s.stop, s.tp1, s.updatedAt)
    BY LedgerParts, QueueTyped, PatchedFill DEF QueueInv
  <1>2. mem'[p] = s /\ (\A r \in Pos \ {p} : mem'[r] = mem[r]) /\ mem[p] \in PositionRecord
    BY LedgerParts, QueueTyped DEF TypeOK, MemoryTypeOK
  <1>3. Exists(mem[p]) /\ Exists(s)
    BY DEF Exists, OpenStatuses, SameHolding
  <1>4. OrdersFresh' /\ OnlyHeadBuys'
    <2>1. OrdersFresh'
      BY <1>1 DEF QueueInv, OrdersFresh
    <2>2. \A i \in Queue : pending[i].side = "BUY" => i = 1
      BY DEF QueueInv, OnlyHeadBuys, Queue
    <2>3. \A i \in Queue' : pending'[i].side = "BUY" => i = 1
      BY <1>1, <2>2
    <2> QED
      BY <2>1, <2>3 DEF OnlyHeadBuys, Queue
  <1>5. BookInv'
    <2>1. PendingOrders' = PendingOrders
      <3>1. PendingOrders = {pending[i].order : i \in Queue} /\ PendingOrders' = {pending'[i].order : i \in Queue'}
        BY DEF PendingOrders, Queue
      <3> QED
        BY <1>1, <3>1
    <2>2. \A r \in Pos : mem'[r].tokens = mem[r].tokens
      BY <1>2 DEF SameHolding
    <2> QED
      BY <2>1, <2>2 DEF QueueInv, BookInv
  <1>6. ASSUME NEW i \in Queue PROVE Chained(i)'
    <2>1. (FirstOf(i)' <=> FirstOf(i)) /\ (LastOf(i)' <=> LastOf(i)) /\ \A j \in Queue : Adjacent(i, j)' <=> Adjacent(i, j)
      BY <1>1 DEF FirstOf, LastOf, Adjacent
    <2>2. ASSUME NEW j \in Queue, Adjacent(i, j) PROVE FillAccepted(pending'[i].snap, pending'[j])
      <3>1. FillAccepted(pending[i].snap, pending[j])
        BY <1>1, <2>2 DEF Chained
      <3>2. FillAccepted(pending'[i].snap, pending[j])
        BY <1>1, <3>1, AcceptSame
      <3> QED
        BY <1>1, <3>2, PatchedAccepted
    <2>3. CASE pending[i].pos # p
      <3>1. mem'[pending[i].pos] = mem[pending[i].pos] /\ row'[pending[i].pos] = row[pending[i].pos]
        BY <1>1, <1>2, <2>3
      <3>2. \A w \in late' : w.pos = pending[i].pos => w \in late
        BY <2>3
      <3>3. pending'[i] = pending[i] /\ Chained(i)
        BY <1>1, <2>3
      <3> QED
        BY <1>1, <2>1, <2>2, <3>1, <3>2, <3>3 DEF Chained
    <2>4. CASE pending[i].pos = p
      <3>1. HasPending(p)
        BY <2>4 DEF HasPending, Queue
      <3>2. row' = row /\ late' = late
        BY <3>1
      <3>3. pending'[i].snap.stop = s.stop /\ pending'[i].snap.updatedAt = s.updatedAt
        <4>1. pending'[i].snap = WithExits(pending[i].snap, s.stop, s.tp1, s.updatedAt)
          BY <1>1, <2>4
        <4> QED
          BY <4>1 DEF WithExits
      <3>4. pending'[i].snap.exitOrder = pending[i].snap.exitOrder
        BY <1>1 DEF SameHolding
      <3>5. LastOf(i) => pending'[i].snap = s
        BY <1>1, <2>4 DEF Chained
      <3>6. pending'[i].snap.exitOrder = s.exitOrder => LastOf(i)
        BY <1>1, <2>4, <3>4 DEF Chained, SameHolding
      <3>7. FirstOf(i) => IF pending'[i].order \in orders THEN SameHolding(row'[p], pending'[i].snap)
                          ELSE FillAccepted(row'[p], pending'[i])
        <4>1. FirstOf(i) => IF pending[i].order \in orders THEN SameHolding(row[p], pending[i].snap)
                            ELSE FillAccepted(row[p], pending[i])
          BY <1>1, <2>4 DEF Chained
        <4>2. SameHolding(row[p], pending[i].snap) => SameHolding(row[p], pending'[i].snap)
          BY <1>1 DEF SameHolding
        <4>3. FillAccepted(row[p], pending[i]) => FillAccepted(row[p], pending'[i])
          BY <1>1, PatchedAccepted
        <4> QED
          BY <1>1, <3>2, <4>1, <4>2, <4>3
      <3>8. \A w \in late : w.pos = p => w.snap.exitOrder # pending'[i].snap.exitOrder
        BY <1>1, <2>4, <3>4 DEF Chained
      <3>9. s.updatedAt <= s.updatedAt
        BY RecordFields
      <3> QED
        BY <1>1, <1>2, <1>3, <2>1, <2>2, <2>4, <3>2, <3>3, <3>5, <3>6, <3>7, <3>8, <3>9 DEF Chained
    <2> QED
      BY <2>3, <2>4
  <1>7. \A r \in Pos : HasPending(r)' <=> HasPending(r)
    <2>1. \A r \in Pos : HasPending(r) <=> \E i \in Queue : pending[i].pos = r
      BY DEF HasPending, Queue
    <2>2. \A r \in Pos : HasPending(r)' <=> \E i \in Queue' : pending'[i].pos = r
      BY DEF HasPending, Queue
    <2> QED
      BY <1>1, <2>1, <2>2
  <1>8. ASSUME NEW r \in Pos, r # p PROVE RowInv(r)'
    <2>1. RowInv(r) /\ LateOf(r)' = LateOf(r) /\ Running
      BY <1>8 DEF LateOf, Running, QueueInv
    <2> QED
      BY <1>2, <1>7, <1>8, <2>1, OtherRow
  <1>9. RowInv(p)'
    <2>1. RowInv(p)
      BY DEF QueueInv
    <2>2. \A x \in Written(p)' : x \in Written(p) \/ x = s
      BY DEF Written
    <2>3. ASSUME NEW x \in Written(p), Exists(x)
          PROVE  /\ x.updatedAt < s.updatedAt /\ x.stop <= s.stop /\ x.updatedAt <= s.updatedAt
                 /\ ~(s.updatedAt <= x.updatedAt)
      <3>1. x.updatedAt <= mem[p].updatedAt /\ x.stop <= mem[p].stop
        BY <1>3, <2>1, <2>3 DEF RowInv, MemoryLatest
      <3>2. x \in PositionRecord
        BY LedgerParts, WrittenSnapshots
      <3> QED
        BY <1>2, <3>1, <3>2, RecordFields
    <2>4. s.updatedAt <= s.updatedAt /\ s.stop <= s.stop /\ s.updatedAt \in Nat
      BY RecordFields
    <2>5. MemoryLatest(p)'
      <3>1. ASSUME NEW x \in Written(p)', Exists(x)
            PROVE  /\ x.updatedAt <= s.updatedAt /\ x.stop <= s.stop
                   /\ x.exitOrder = s.exitOrder /\ x.updatedAt = s.updatedAt => x = s
        BY <2>2, <2>3, <2>4, <3>1
      <3> QED
        BY <1>2, <3>1 DEF MemoryLatest
    <2>6. Ratcheted(p)'
      BY <2>1, <2>2, <2>3, <2>4 DEF RowInv, Ratcheted
    <2>7. Settled(p)'
      <3> SUFFICES ASSUME ~HasPending(p)
                   PROVE  SameHolding(row'[p], s) /\ (p \notin stale' => row'[p] = s)
        BY <1>2, <1>7 DEF Settled
      <3>1. SameHolding(row[p], s)
        BY <1>3, <2>1 DEF RowInv, Settled, SameHolding
      <3> QED
        BY <3>1 DEF SameHolding
    <2>8. Managed(p)'
      BY <1>2, <1>3 DEF Managed
    <2> QED
      BY <2>5, <2>6, <2>7, <2>8 DEF RowInv
  <1> QED
    BY <1>1, <1>4, <1>5, <1>6, <1>8, <1>9 DEF QueueInv

LEMMA TightenQueued ==
  ASSUME LedgerInv, QueueInv, AiTighten
  PROVE  QueueInv'
  <1>1. PICK p \in Pos, stop \in 1..MaxStop, arm \in BOOLEAN :
          Tighten(p, Tightened(mem[p], stop, arm))
    BY DEF AiTighten
  <1>2. mem[p] \in PositionRecord /\ row \in [Pos -> PositionRecord] /\ stale \subseteq Pos
    BY LedgerParts DEF TypeOK, MemoryTypeOK, DurableTypeOK
  <1>3. PICK s \in PositionRecord : s = Tightened(mem[p], stop, arm)
    BY <1>2, TightenedType
  <1>4. /\ s # mem[p] /\ mem' = [mem EXCEPT ![p] = s] /\ pending' = Patched(p, s)
        /\ UNCHANGED <<book, bookQty, bookOk, nextOrder>> /\ phase = "ai" /\ phase' # "down"
        /\ HasPending(p) => UNCHANGED <<durable, stale>>
        /\ ~HasPending(p) => UpdatePositionOk(p, s) \/ UpdatePositionFails(p, s)
    BY <1>1, <1>3 DEF AiTighten, Tighten
  <1>5. /\ mem[p].status \in OpenStatuses /\ SameHolding(mem[p], s)
        /\ mem[p].stop <= s.stop /\ s.updatedAt = mem[p].updatedAt + 1
        /\ s = WithExits(mem[p], s.stop, s.tp1, s.updatedAt)
    BY <1>2, <1>3, <1>4, TightenedStep
  <1>6. /\ orders' = orders
        /\ \A r \in Pos \ {p} : row'[r] = row[r] /\ (r \in stale' <=> r \in stale)
        /\ row'[p] \in {row[p], s}
        /\ \A w \in late : w \in late'
        /\ \A w \in late' : w \in late \/ (w.pos = p /\ w.snap = s)
        /\ HasPending(p) => row' = row /\ late' = late
        /\ ~HasPending(p) => p \in stale' \/ row'[p] = s
    <2>1. CASE HasPending(p)
      BY <1>4, <2>1 DEF durable
    <2>2. CASE ~HasPending(p) /\ UpdatePositionOk(p, s)
      <3>1. row' = RowWritten(p, s) /\ stale' = stale \ {p} /\ UNCHANGED <<orders, late>>
        BY <2>2 DEF UpdatePositionOk
      <3>2. RowAccepts(row[p], s)
        <4>1. Exists(mem[p]) /\ RowInv(p)
          BY <1>5 DEF Exists, OpenStatuses, QueueInv
        <4>2. SameHolding(row[p], mem[p])
          BY <2>2, <4>1 DEF RowInv, Settled
        <4>3. row[p].updatedAt <= mem[p].updatedAt
          <5>1. Exists(row[p]) /\ row[p] \in Written(p)
            BY <4>1, <4>2 DEF SameHolding, Exists, Written
          <5> QED
            BY <4>1, <5>1 DEF RowInv, MemoryLatest
        <4>4. row[p].updatedAt <= s.updatedAt
          BY <1>2, <1>5, <4>3, RecordFields
        <4> QED
          BY <1>5, <4>2, <4>4 DEF SameHolding, RowAccepts, OpenStatuses
      <3>3. row' = [row EXCEPT ![p] = s]
        BY <3>1, <3>2 DEF RowWritten
      <3> QED
        BY <1>2, <2>2, <3>1, <3>3
    <2>3. CASE ~HasPending(p) /\ UpdatePositionFails(p, s)
      <3>1. /\ stale' = stale \cup {p} /\ UNCHANGED <<row, orders>>
            /\ late' = late \/ late' = late \cup {[pos |-> p, snap |-> s]}
        BY <2>3 DEF UpdatePositionFails
      <3> QED
        BY <2>3, <3>1
    <2> QED
      BY <1>4, <2>1, <2>2, <2>3
  <1> HIDE DEF Patched
  <1> QED
    BY <1>4, <1>5, <1>6, ExitsMoved
-----------------------------------------------------------------------------
(* Exits and restarts.                                                     *)

LEMMA ExitQueued ==
  ASSUME LedgerInv, QueueInv, Exit
  PROVE  QueueInv'
  <1>1. /\ phase' = "down" /\ bookOk' = FALSE /\ pending' = <<>> /\ UNCHANGED <<row, orders, late, nextOrder>>
        /\ \A p \in Pos : mem'[p] = NoPosition
    BY DEF Exit, durable
  <1>2. Queue' = {} /\ ~Exists(NoPosition)
    BY <1>1 DEF Queue, Exists, NoPosition
  <1>3. OrdersFresh' /\ BookInv' /\ OnlyHeadBuys'
    BY <1>1, <1>2 DEF QueueInv, OrdersFresh, BookInv, OnlyHeadBuys, Queue
  <1>4. ASSUME NEW p \in Pos PROVE RowInv(p)'
    <2>1. Written(p)' = Written(p) /\ RowInv(p)
      BY <1>1 DEF Written, QueueInv
    <2>2. Settled(p)' /\ MemoryLatest(p)' /\ Managed(p)'
      BY <1>1, <1>2 DEF Settled, MemoryLatest, Managed, Running
    <2> QED
      BY <2>1, <2>2 DEF RowInv, Ratcheted
  <1> QED
    BY <1>2, <1>3, <1>4 DEF QueueInv

LEMMA RestartQueued ==
  ASSUME LedgerInv, QueueInv, Restart \/ RestartBlind
  PROVE  QueueInv'
  <1>1. /\ phase = "down" /\ late = {} /\ late' = {} /\ pending = <<>> /\ pending' = <<>>
        /\ UNCHANGED <<row, orders, nextOrder, stale>> /\ ~bookOk
    BY DEF Restart, RestartBlind, durable, bounds, LedgerInv, DownEmpty, QueueInv, BookInv
  <1>2. \A p \in Pos : mem'[p] \in {Restored(row[p]), NoPosition}
    BY DEF Restart, RestartBlind, RestoredPositions
  <1>3. \A p \in Pos : Restored(row[p]) \in {row[p], NoPosition}
    BY LedgerParts, RestoredKnown
  <1>4. Queue' = {} /\ ~Exists(NoPosition) /\ PendingOrders' = {}
    BY <1>1 DEF Queue, Exists, NoPosition, PendingOrders
  <1>5. bookOk' => /\ \A p \in Pos : mem'[p] = Restored(row[p]) /\ bookQty'[p] = Restored(row[p]).tokens
                   /\ book' = orders
    <2>1. CASE RestartBlind
      BY <1>1, <2>1 DEF RestartBlind
    <2>2. CASE Restart
      <3>1. CASE \A p \in Pos : RestoredPositions[p].tokens = orderQty[p]
        BY <2>2, <3>1 DEF Restart, RestoredPositions
      <3>2. CASE ~ \A p \in Pos : RestoredPositions[p].tokens = orderQty[p]
        <4>1. bookOk' = bookOk
          BY <2>2, <3>2 DEF Restart
        <4> QED
          BY <1>1, <4>1
      <3> QED
        BY <3>1, <3>2
    <2> QED
      BY <2>1, <2>2
  <1>6. phase' # "down"
    BY DEF Restart, RestartBlind
  <1>7. OrdersFresh' /\ OnlyHeadBuys'
    BY <1>1, <1>4 DEF QueueInv, OrdersFresh, OnlyHeadBuys, Queue
  <1>8. BookInv'
    BY <1>1, <1>4, <1>5, <1>6 DEF BookInv
  <1>9. ASSUME NEW p \in Pos PROVE RowInv(p)'
    <2>1. Exists(mem'[p]) => mem'[p] = row'[p]
      BY <1>1, <1>2, <1>3, <1>4
    <2>2. Written(p)' = {row'[p]}
      BY <1>1 DEF Written
    <2>3. row'[p].updatedAt <= row'[p].updatedAt /\ row'[p].stop <= row'[p].stop
      BY <1>1, LedgerParts, QueueTyped, RecordFields
    <2>4. Settled(p)'
      BY <2>1 DEF Settled, SameHolding
    <2>5. MemoryLatest(p)'
      BY <2>1, <2>2, <2>3 DEF MemoryLatest
    <2>6. Ratcheted(p)'
      BY <2>2, <2>3 DEF Ratcheted
    <2>7. Managed(p)'
      <3>1. row[p].status \in OpenStatuses => Restored(row[p]).status # "NONE"
        <4>1. CASE row[p].status \in OpenStatuses /\ ValidAccounting(row[p])
          BY <4>1 DEF Restored, OpenStatuses
        <4>2. CASE row[p].status \in OpenStatuses /\ ~ValidAccounting(row[p])
          <5>1. Restored(row[p]) = [row[p] EXCEPT !.status = "ERROR"]
            BY <4>2 DEF Restored, OpenStatuses
          <5>2. row[p] \in PositionRecord
            BY LedgerParts, QueueTyped
          <5> QED
            BY <5>1, <5>2 DEF PositionRecord
        <4> QED
          BY <4>1, <4>2
      <3> QED
        BY <1>1, <1>5, <3>1 DEF Managed, Exists
    <2> QED
      BY <2>4, <2>5, <2>6, <2>7 DEF RowInv
  <1> QED
    BY <1>4, <1>7, <1>8, <1>9 DEF QueueInv
-----------------------------------------------------------------------------
(* The whole step.                                                         *)

LEMMA PersistQueued ==
  ASSUME LedgerInv, QueueInv, Persist
  PROVE  QueueInv'
  <1>1. /\ UNCHANGED <<mem, book, bookQty, bookOk, pending, nextOrder>>
        /\ phase = "persist" /\ phase' = "exit" /\ cur \in Pos /\ Exists(mem[cur])
    BY LedgerParts DEF Persist, LedgerInv, MonitoredExist, TypeOK, ControlTypeOK, Exists
  <1>2. PICK p \in Pos : p = cur
    BY <1>1
  <1>3. Exists(mem[p]) /\ RowInv(p) /\ row \in [Pos -> PositionRecord] /\ stale \subseteq Pos
    BY <1>1, <1>2, LedgerParts DEF QueueInv, TypeOK, MemoryTypeOK, DurableTypeOK
  <1>4. CASE HasPending(p)
    <2>1. UNCHANGED <<durable, stale>>
      BY <1>2, <1>4 DEF Persist
    <2> QED
      BY <1>1, <2>1, RowStep DEF durable
  <1>5. CASE ~HasPending(p) /\ UpdatePositionOk(p, mem[p])
    <2>1. row' = RowWritten(p, mem[p]) /\ stale' = stale \ {p} /\ UNCHANGED <<orders, late>>
      BY <1>5 DEF UpdatePositionOk
    <2>2. RowAccepts(row[p], mem[p])
      <3>1. SameHolding(row[p], mem[p])
        BY <1>3, <1>5 DEF RowInv, Settled
      <3>2. Exists(row[p]) /\ row[p] \in Written(p)
        BY <1>3, <3>1 DEF SameHolding, Exists, Written
      <3>3. row[p].updatedAt <= mem[p].updatedAt
        BY <1>3, <3>2 DEF RowInv, MemoryLatest
      <3> QED
        BY <3>1, <3>2, <3>3 DEF RowAccepts, SameHolding, Exists
    <2>3. row' = [row EXCEPT ![p] = mem[p]]
      BY <2>1, <2>2 DEF RowWritten
    <2>4. ASSUME NEW r \in Pos
          PROVE  \/ row'[r] = row[r]
                 \/ \E s \in {mem[r]} \cup LateOf(r) :
                       Exists(s) /\ RowAccepts(row[r], s) /\ row'[r] = s
      BY <1>3, <2>2, <2>3
    <2>5. \A r \in Pos : r \notin stale' => r \notin stale \/ row'[r] = mem[r]
      BY <1>3, <2>1, <2>3
    <2> QED
      BY <1>1, <2>1, <2>4, <2>5, RowStep
  <1>6. CASE ~HasPending(p) /\ UpdatePositionFails(p, mem[p])
    <2>1. /\ stale' = stale \cup {p} /\ UNCHANGED <<row, orders>>
          /\ late' = late \/ late' = late \cup {[pos |-> p, snap |-> mem[p]]}
      BY <1>6 DEF UpdatePositionFails
    <2>2. \A w \in late' : w \in late \/ (w.snap = mem[w.pos] /\ Exists(mem[w.pos]) /\ ~HasPending(w.pos))
      BY <1>3, <1>6, <2>1
    <2> QED
      BY <1>1, <2>1, <2>2, RowStep
  <1> QED
    BY <1>2, <1>4, <1>5, <1>6 DEF Persist

LEMMA LandQueued ==
  ASSUME LedgerInv, QueueInv, Land
  PROVE  QueueInv'
  <1>1. PICK w \in late : row' = RowWritten(w.pos, w.snap) /\ late' = late \ {w}
    BY DEF Land
  <1>2. UNCHANGED <<mem, book, bookQty, bookOk, pending, orders, nextOrder, phase, stale>>
    BY DEF Land, memory, control, bounds
  <1>3. row \in [Pos -> PositionRecord] /\ Exists(w.snap)
    BY LedgerParts DEF LedgerInv, LateExist, Exists, TypeOK, DurableTypeOK
  <1>4. ASSUME NEW r \in Pos
        PROVE  \/ row'[r] = row[r]
               \/ \E s \in {mem[r]} \cup LateOf(r) :
                     Exists(s) /\ RowAccepts(row[r], s) /\ row'[r] = s
    <2>1. CASE RowAccepts(row[w.pos], w.snap) /\ r = w.pos
      <3>1. row'[r] = w.snap /\ w.snap \in LateOf(r)
        BY <1>1, <1>3, <2>1 DEF RowWritten, LateOf
      <3> QED
        BY <1>3, <2>1, <3>1
    <2>2. CASE ~(RowAccepts(row[w.pos], w.snap) /\ r = w.pos)
      BY <1>1, <1>3, <2>2 DEF RowWritten
    <2> QED
      BY <2>1, <2>2
  <1> QED
    BY <1>1, <1>2, <1>4, RowStep

\* A step that changes neither the queue nor any row.
LEMMA QuietQueued ==
  ASSUME LedgerInv, QueueInv, UNCHANGED <<mem, book, bookQty, bookOk, pending, durable, nextOrder, stale>>,
         phase' = "down" <=> phase = "down"
  PROVE  QueueInv'
  BY RowStep DEF durable

LEMMA QueueStep == LedgerInv /\ QueueInv /\ [Next]_vars => QueueInv'
  <1> SUFFICES ASSUME LedgerInv, QueueInv, [Next]_vars PROVE QueueInv'
    OBVIOUS
  <1>1. phase \in Phases /\ resume \in ReturnPoints /\ (phase \in {"persist", "exit"} => cur \in Pos)
    BY LedgerParts DEF TypeOK, ControlTypeOK
  <1>2. CASE UNCHANGED vars
    BY <1>2, QuietQueued DEF vars, memory, control, bounds
  <1>3. CASE FlushCommits \/ FlushDuplicate
    BY <1>3, FlushQueued
  <1>4. CASE FlushFails
    <2>1. FlushHead /\ FlushReturns /\ UNCHANGED <<memory, nextOrder, stale>>
      BY <1>4 DEF FlushFails
    <2>2. UNCHANGED durable \/ Commit(Head(pending))
      BY <1>4 DEF FlushFails
    <2>3. phase # "down" /\ phase' # "down"
      BY <1>1, <2>1 DEF FlushHead, FlushReturns, ReturnPoints
    <2>4. CASE UNCHANGED durable
      BY <2>1, <2>3, <2>4, QuietQueued DEF memory
    <2>5. CASE Commit(Head(pending))
      BY <2>1, <2>5, LostReply
    <2> QED
      BY <2>2, <2>4, <2>5
  <1>5. CASE FlushDone \/ StartCycle \/ LoadPositions \/ Observe \/ ObserveFails \/ Hold \/ MonitorDone
             \/ EntriesDone \/ AiDone \/ CopyDone
    <2>1. UNCHANGED <<memory, durable, bounds, stale>> /\ phase # "down" /\ phase' # "down"
      BY <1>1, <1>5 DEF FlushDone, FlushReturns, ReturnPoints, StartCycle, LoadPositions, Observe,
           ObserveFails, Hold, MonitorDone, EntriesDone, AiDone, CopyDone
    <2> QED
      BY <2>1, QuietQueued DEF memory, bounds
  <1>6. CASE SaleFails
    <2>1. UNCHANGED <<mem, book, bookQty, bookOk, pending, durable, nextOrder, stale>>
          /\ phase # "down" /\ phase' # "down"
      BY <1>6 DEF SaleFails
    <2> QED
      BY <2>1, QuietQueued
  <1>7. CASE Shutdown \/ ShutdownFlush
    <2>1. UNCHANGED <<memory, durable, nextOrder, stale>> /\ phase # "down" /\ phase' # "down"
      BY <1>7 DEF Shutdown, ShutdownFlush, Running, bounds
    <2> QED
      BY <2>1, QuietQueued DEF memory
  <1>8. CASE Persist
    BY <1>8, PersistQueued
  <1>9. CASE ExecutePartialTp1 \/ ExecuteExit \/ AiExit
    <2>1. PICK p \in Pos, fraction \in Fractions : ExecuteSale(p, fraction)
      BY <1>1, <1>9 DEF ExecutePartialTp1, ExecuteExit, AiExit, Fractions
    <2>2. phase # "down"
      BY <1>9 DEF ExecutePartialTp1, ExecuteExit, AiExit
    <2> QED
      BY <2>1, <2>2, SaleQueued
  <1>10. CASE ExecuteEntry
    BY <1>10, EntryQueued
  <1>11. CASE AiTighten
    BY <1>11, TightenQueued
  <1>12. CASE ShutdownDone \/ Crash
    BY <1>12, ExitQueued DEF ShutdownDone, Crash
  <1>13. CASE Restart \/ RestartBlind
    BY <1>13, RestartQueued
  <1>14. CASE Land
    BY <1>14, LandQueued
  <1> QED
    BY <1>2, <1>3, <1>4, <1>5, <1>6, <1>7, <1>8, <1>9, <1>10, <1>11, <1>12, <1>13, <1>14
       DEF Next, Flush, Monitor, Entries, Ai, Process

LEMMA QueueInit == Init => QueueInv
  <1> SUFFICES ASSUME Init PROVE QueueInv
    OBVIOUS
  <1>1. /\ \A p \in Pos : mem[p] = NoPosition /\ row[p] = NoPosition /\ bookQty[p] = 0
        /\ pending = <<>> /\ late = {} /\ nextOrder = 1 /\ orders = {} /\ book = {} /\ phase = "idle"
    BY DEF Init
  <1>2. Queue = {} /\ PendingOrders = {} /\ ~Exists(NoPosition) /\ NoPosition.tokens = 0 /\ NoPosition.status = "NONE"
    BY <1>1 DEF Queue, PendingOrders, Exists, NoPosition
  <1>3. OrdersFresh /\ BookInv /\ OnlyHeadBuys
    BY <1>1, <1>2 DEF OrdersFresh, BookInv, OnlyHeadBuys, Queue
  <1>4. ASSUME NEW p \in Pos PROVE RowInv(p)
    <2>1. Written(p) = {NoPosition}
      BY <1>1 DEF Written
    <2> QED
      BY <1>1, <1>2, <2>1 DEF RowInv, Settled, MemoryLatest, Ratcheted, Managed, OpenStatuses
  <1> QED
    BY <1>2, <1>3, <1>4 DEF QueueInv

\* The inductive invariant of the queue: the fills of a position are a chain from its
\* row to the position in memory (recordPaperFill, flushPendingFills, index.ts).
THEOREM QueueCorrect == Spec => [](LedgerInv /\ QueueInv)
  <1>1. Spec => []LedgerInv
    BY LedgerCorrect
  <1> QED
    BY <1>1, QueueInit, QueueStep, LedgerInit, PTL DEF Spec
-----------------------------------------------------------------------------
(* What follows from it.                                                   *)

\* The paper book never disagrees with the positions (PaperBook.reconciliationIssues):
\* its quantities and those of memory change together or are given up together.
THEOREM BookReconciledAlways == Spec => []BookReconciled
  <1>1. LedgerInv /\ QueueInv => BookReconciled
    <2> SUFFICES ASSUME LedgerInv, QueueInv, bookOk, NEW p \in Pos
                 PROVE  IF mem[p].status \in {"NONE", "CLOSED"} THEN bookQty[p] = 0 ELSE bookQty[p] = mem[p].tokens
      BY DEF BookReconciled, ReconciliationIssues
    <2>1. bookQty[p] = mem[p].tokens
      BY DEF QueueInv, BookInv
    <2>2. SnapshotOK(mem[p])
      BY LedgerParts, SnapshotsOf
    <2> QED
      BY <2>1, <2>2 DEF SnapshotOK
  <1> QED
    BY <1>1, QueueCorrect, PTL

\* No confirmed fill is lost while the process runs: what the book counts is in the
\* orders table or still queued (recordPaperFill, flushPendingFills).
THEOREM LedgerCompleteAlways == Spec => []LedgerComplete
  <1>1. QueueInv => LedgerComplete
    BY DEF QueueInv, BookInv, LedgerComplete
  <1> QED
    BY <1>1, QueueCorrect, PTL

\* The head of the queue is never poisoned: recordConfirmedPaperFill finds the row it
\* expects, or finds the order already there, whatever was written late, patched by
\* tightenExits or committed without an answer.
THEOREM HeadAcceptableAlways == Spec => []HeadAcceptable
  <1>1. LedgerInv /\ QueueInv => HeadAcceptable
    <2> SUFFICES ASSUME LedgerInv, QueueInv, pending # <<>> PROVE HeadAcceptable
      BY DEF HeadAcceptable
    <2>1. pending \in Seq(Fill) /\ Len(pending) > 0 /\ Len(pending) \in Nat
      BY LedgerParts, QueueTyped, QueueTail
    <2>2. 1 \in Queue /\ Head(pending) = pending[1] /\ \A j \in Queue : ~(j < 1)
      BY <2>1, QueueTail DEF Queue
    <2>3. FirstOf(1) /\ Chained(1)
      BY <2>2 DEF FirstOf, QueueInv
    <2> QED
      BY <2>2, <2>3 DEF HeadAcceptable, Chained
  <1> QED
    BY <1>1, QueueCorrect, PTL

\* An entry is only ever queued alone: accountingProblems keeps executeEntry from
\* buying while an earlier fill is not durable.
THEOREM OnlyHeadBuysAlways == Spec => []OnlyHeadBuys
  <1>1. QueueInv => OnlyHeadBuys
    BY DEF QueueInv
  <1> QED
    BY <1>1, QueueCorrect, PTL

\* With nothing queued for a position its row has the holdings of memory, so a crash
\* there neither loses nor repeats a sale (persistPosition, flushPendingFills).
THEOREM SettledAgreeAlways == Spec => []SettledAgree
  <1>1. QueueInv => SettledAgree
    BY DEF QueueInv, RowInv, Settled, SameHolding, Exists, SettledAgree
  <1> QED
    BY <1>1, QueueCorrect, PTL

\* What a restart restores includes the tightened exits, unless the journal refused
\* their last write or skipped it as part of a duplicate (runAiAction).
THEOREM ExitsDurableAlways == Spec => []ExitsDurable
  <1>1. QueueInv => ExitsDurable
    BY DEF QueueInv, RowInv, Settled, Exists, OpenStatuses, ExitsDurable
  <1> QED
    BY <1>1, QueueCorrect, PTL

\* A chain that trades manages every position its table has open (buildChainRuntime).
THEOREM ExposureManagedAlways == Spec => []ExposureManaged
  <1>1. QueueInv => ExposureManaged
    BY DEF QueueInv, RowInv, Managed, Exists, ExposureManaged
  <1> QED
    BY <1>1, QueueCorrect, PTL
-----------------------------------------------------------------------------
(* Steps.                                                                  *)

\* A row changes only by a write that passes the guards of updatePosition, of a
\* version already known or of the position just tightened, or by a fill it fits.
LEMMA RowMoves ==
  ASSUME LedgerInv, QueueInv, [Next]_vars, NEW p \in Pos, row'[p] # row[p]
  PROVE  \/ \E s \in {mem[p]} \cup LateOf(p) : Exists(s) /\ RowAccepts(row[p], s) /\ row'[p] = s
         \/ \E i \in Queue : pending[i].pos = p /\ FillAccepted(row[p], pending[i]) /\ row'[p] = pending[i].snap
         \/ /\ Exists(mem[p]) /\ mem[p].stop <= row'[p].stop /\ RowAccepts(row[p], row'[p])
  <1>1. row \in [Pos -> PositionRecord] /\ mem[p] \in PositionRecord
    BY LedgerParts DEF TypeOK, MemoryTypeOK, DurableTypeOK
  <1>2. ASSUME NEW r \in Pos, NEW s, row' = RowWritten(r, s) PROVE r = p /\ RowAccepts(row[p], s) /\ row'[p] = s
    BY <1>1, <1>2 DEF RowWritten
  <1>3. CASE FlushCommits \/ FlushFails
    <2>1. /\ FlushHead /\ Commit(Head(pending)) /\ FillAccepted(row[Head(pending).pos], Head(pending))
      BY <1>3 DEF FlushCommits, FlushFails, durable
    <2>2. 1 \in Queue /\ Head(pending) = pending[1] /\ pending[1].pos \in Pos
      <3>1. pending \in Seq(Fill) /\ Len(pending) > 0 /\ Len(pending) \in Nat
        BY <2>1, LedgerParts, QueueTyped, QueueTail DEF FlushHead
      <3>2. 1 \in Queue /\ Head(pending) = pending[1]
        BY <2>1, <3>1, QueueTail DEF Queue, FlushHead
      <3> QED
        BY <3>2, LedgerParts, QueueTyped
    <2>3. row' = [row EXCEPT ![pending[1].pos] = pending[1].snap]
      BY <2>1, <2>2 DEF Commit
    <2>4. pending[1].pos = p /\ row'[p] = pending[1].snap
      BY <1>1, <2>2, <2>3
    <2> QED
      BY <2>1, <2>2, <2>4
  <1>4. CASE Persist
    <2>1. cur \in Pos /\ Exists(mem[cur])
      BY <1>4, LedgerParts DEF Persist, LedgerInv, MonitoredExist, TypeOK, ControlTypeOK, Exists
    <2>2. row' = RowWritten(cur, mem[cur])
      BY <1>4 DEF Persist, UpdatePositionOk, UpdatePositionFails, durable
    <2>3. cur = p /\ RowAccepts(row[p], mem[p]) /\ row'[p] = mem[p]
      BY <1>2, <2>1, <2>2
    <2> QED
      BY <2>1, <2>3
  <1>5. CASE Land
    <2>1. PICK w \in late : row' = RowWritten(w.pos, w.snap)
      BY <1>5 DEF Land
    <2>2. w.pos \in Pos /\ Exists(w.snap)
      BY LedgerParts, QueueTyped DEF LedgerInv, LateExist, Exists
    <2>3. w.pos = p /\ RowAccepts(row[p], w.snap) /\ row'[p] = w.snap
      BY <1>2, <2>1, <2>2
    <2> QED
      BY <2>2, <2>3 DEF LateOf
  <1>6. CASE AiTighten
    <2>1. PICK r \in Pos, stop \in 1..MaxStop, arm \in BOOLEAN : Tighten(r, Tightened(mem[r], stop, arm))
      BY <1>6 DEF AiTighten
    <2>2. mem[r] \in PositionRecord
      BY LedgerParts, QueueTyped
    <2>3. PICK s \in PositionRecord : s = Tightened(mem[r], stop, arm)
      BY <2>2, TightenedType
    <2>4. s # mem[r] /\ row' = RowWritten(r, s)
      BY <2>1, <2>3 DEF Tighten, UpdatePositionOk, UpdatePositionFails, durable
    <2>5. r = p /\ RowAccepts(row[p], s) /\ row'[p] = s
      BY <1>2, <2>4
    <2>6. mem[r].status \in OpenStatuses /\ mem[r].stop <= s.stop
      BY <2>2, <2>3, <2>4, TightenedStep
    <2> QED
      BY <2>5, <2>6 DEF Exists, OpenStatuses
  <1>7. row' = row \/ FlushCommits \/ FlushFails \/ Persist \/ Land \/ AiTighten
    BY DEF Next, Flush, Monitor, Entries, Ai, Process, vars, memory, control, durable, bounds,
           FlushDuplicate, FlushDone, StartCycle, LoadPositions, Observe, ObserveFails, Hold, SaleFails,
           ExecutePartialTp1, ExecuteExit, MonitorDone, ExecuteEntry, EntriesDone, CopyDone, AiExit, AiDone,
           ExecuteSale, RecordFill, Shutdown, ShutdownFlush, ShutdownDone, Crash, Exit, Restart, RestartBlind
  <1> QED
    BY <1>3, <1>4, <1>5, <1>6, <1>7

\* The stop in the table never moves down, across late writes, queued snapshots,
\* tightenings and restarts (tightenExits, updatePositionRow).
THEOREM DurableRatchetAlways == Spec => DurableRatchet
  <1>1. LedgerInv /\ QueueInv /\ [Next]_vars
          => [\A p \in Pos : row[p].status # "NONE" => row'[p].stop >= row[p].stop]_vars
    <2> SUFFICES ASSUME LedgerInv, QueueInv, [Next]_vars, NEW p \in Pos, row[p].status # "NONE"
                 PROVE  row'[p].stop >= row[p].stop
      OBVIOUS
    <2>1. /\ row[p] \in PositionRecord /\ mem[p] \in PositionRecord /\ RowInv(p)
          /\ row[p].stop \in Nat /\ mem[p].stop \in Nat /\ Exists(row[p]) /\ row[p] \in Written(p)
      BY LedgerParts, QueueTyped, RecordFields DEF QueueInv, Exists, Written
    <2>2. Exists(mem[p]) => row[p].stop <= mem[p].stop
      BY <2>1 DEF RowInv, MemoryLatest
    <2>3. CASE row'[p] = row[p]
      BY <2>1, <2>3
    <2>4. CASE \E s \in {mem[p]} \cup LateOf(p) : Exists(s) /\ RowAccepts(row[p], s) /\ row'[p] = s
      <3>1. PICK s \in {mem[p]} \cup LateOf(p) : Exists(s) /\ RowAccepts(row[p], s) /\ row'[p] = s
        BY <2>4
      <3>2. CASE s = mem[p]
        BY <2>1, <2>2, <3>1, <3>2
      <3>3. CASE s \in LateOf(p)
        <4>1. s \in Written(p) /\ s \in PositionRecord /\ s.stop \in Nat
          BY <3>3, WrittenSnapshots, LedgerParts, RecordFields
        <4>2. row[p].stop <= s.stop
          BY <2>1, <3>1, <4>1 DEF RowInv, Ratcheted, RowAccepts
        <4> QED
          BY <2>1, <3>1, <4>1, <4>2
      <3> QED
        BY <3>1, <3>2, <3>3
    <2>5. CASE \E i \in Queue : pending[i].pos = p /\ FillAccepted(row[p], pending[i]) /\ row'[p] = pending[i].snap
      <3>1. PICK i \in Queue : pending[i].pos = p /\ row'[p] = pending[i].snap
        BY <2>5
      <3>2. Exists(mem[p]) /\ row'[p].stop = mem[p].stop
        BY <3>1 DEF QueueInv, Chained
      <3> QED
        BY <2>1, <2>2, <3>2
    <2>6. CASE Exists(mem[p]) /\ mem[p].stop <= row'[p].stop
      <3>1. row' \in [Pos -> PositionRecord]
        BY LedgerStep, LedgerParts DEF LedgerInv, TypeOK, DurableTypeOK
      <3>2. row'[p].stop \in Nat
        BY <3>1, RecordFields
      <3> QED
        BY <2>1, <2>2, <2>6, <3>2
    <2> QED
      BY <2>3, <2>4, <2>5, <2>6, RowMoves
  <1> QED
    BY <1>1, QueueCorrect, PTL DEF Spec, DurableRatchet

\* A closed row is never reopened or refilled, and an order once in the table stays
\* (updatePositionRow, recordConfirmedPaperFill).
THEOREM ClosedFinalAlways == Spec => ClosedFinal
  <1>1. LedgerInv /\ QueueInv /\ [Next]_vars
          => [/\ orders \subseteq orders'
              /\ \A p \in Pos : row[p].status = "CLOSED" =>
                    row'[p].status = "CLOSED" /\ row'[p].tokens = 0]_vars
    <2> SUFFICES ASSUME LedgerInv, QueueInv, [Next]_vars
                 PROVE  /\ orders \subseteq orders'
                        /\ \A p \in Pos : row[p].status = "CLOSED" =>
                              row'[p].status = "CLOSED" /\ row'[p].tokens = 0
      OBVIOUS
    <2>1. orders \subseteq orders'
      BY DEF Next, Flush, Monitor, Entries, Ai, Process, Land, vars, memory, control, durable, bounds,
           FlushCommits, FlushFails, Commit, Persist, AiTighten, Tighten, UpdatePositionOk, UpdatePositionFails,
           FlushDuplicate, FlushDone, StartCycle, LoadPositions, Observe, ObserveFails, Hold, SaleFails,
           ExecutePartialTp1, ExecuteExit, MonitorDone, ExecuteEntry, EntriesDone, CopyDone, AiExit, AiDone,
           ExecuteSale, RecordFill, Shutdown, ShutdownFlush, ShutdownDone, Crash, Exit, Restart, RestartBlind
    <2>2. ASSUME NEW p \in Pos, row[p].status = "CLOSED" PROVE row'[p].status = "CLOSED" /\ row'[p].tokens = 0
      <3>1. row'[p].status = "CLOSED"
        <4>1. CASE row'[p] = row[p]
          BY <2>2, <4>1
        <4>2. CASE row'[p] # row[p]
          <5>1. \A i \in Queue : ~FillAccepted(row[p], pending[i])
            BY <2>2 DEF FillAccepted, OpenStatuses
          <5> QED
            BY <2>2, <4>2, <5>1, RowMoves DEF RowAccepts
        <4> QED
          BY <4>1, <4>2
      <3>2. SnapshotOK(row[p])'
        <4>1. LedgerInv'
          BY LedgerStep
        <4> QED
          BY <4>1, SnapshotsOf DEF LedgerInv, SnapshotsAgree, Snapshots
      <3> QED
        BY <3>1, <3>2 DEF SnapshotOK
    <2> QED
      BY <2>1, <2>2
  <1> QED
    BY <1>1, QueueCorrect, PTL DEF Spec, ClosedFinal
-----------------------------------------------------------------------------
(***************************************************************************)
(* The refinement of WriteBehind.  A step either confirms a fill, makes    *)
(* the oldest durable, loses what was not, or leaves the holdings of       *)
(* memory and of the rows as they are.                                     *)
(***************************************************************************)
ToWait(f) == [pos |-> f.pos, to |-> HoldingOf(f.snap)]
AsWaiting(q) == [i \in 1..Len(q) |-> ToWait(q[i])]

LEMMA SameHoldingOf ==
  ASSUME NEW r, NEW s, SameHolding(r, s)
  PROVE  HoldingOf(r) = HoldingOf(s)
  BY DEF SameHolding, HoldingOf

LEMMA WaitingAppends ==
  ASSUME NEW q \in Seq(Fill), NEW f \in Fill
  PROVE  AsWaiting(Append(q, f)) = Append(AsWaiting(q), ToWait(f))
  BY DEF AsWaiting

LEMMA WaitingShifts ==
  ASSUME NEW q \in Seq(Fill), q # <<>>
  PROVE  /\ AsWaiting(q) # <<>> /\ Head(AsWaiting(q)) = ToWait(Head(q))
         /\ AsWaiting(Tail(q)) = Tail(AsWaiting(q))
  BY QueueTail DEF AsWaiting

\* The queue without a head that is durable already.
LEMMA Undurable ==
  ASSUME LedgerInv, QueueInv
  PROVE  /\ Waiting = AsWaiting(NotDurable) /\ NotDurable \in Seq(Fill) /\ pending \in Seq(Fill)
         /\ pending = <<>> => NotDurable = <<>>
         /\ pending # <<>> /\ Head(pending).order \notin orders => NotDurable = pending
         /\ pending # <<>> /\ Head(pending).order \in orders => NotDurable = Tail(pending)
  <1>1. pending \in Seq(Fill)
    BY LedgerParts, QueueTyped
  <1>2. pending # <<>> => Tail(pending) \in Seq(Fill)
    BY <1>1
  <1> QED
    BY <1>1, <1>2 DEF Waiting, NotDurable, AsWaiting, ToWait

\* With nothing queued for it, a position counts as it is kept.
LEMMA CountsAsKept ==
  ASSUME LedgerInv, QueueInv, NEW p \in Pos, ~HasPending(p)
  PROVE  Counted[p] = Kept[p]
  <1>1. CASE Exists(mem[p])
    <2>1. SameHolding(row[p], mem[p])
      BY <1>1 DEF QueueInv, RowInv, Settled
    <2> QED
      BY <1>1, <2>1, SameHoldingOf DEF Counted, Kept, Exists
  <1>2. CASE ~Exists(mem[p])
    BY <1>2 DEF Counted, Kept, Exists
  <1> QED
    BY <1>1, <1>2

\* A version that passes the guards of the row holds what the row holds.
LEMMA RowKept ==
  ASSUME LedgerInv, NEW p \in Pos, NEW m \in Snapshots(p), Exists(m), NEW s, SameHolding(m, s),
         row' = RowWritten(p, s)
  PROVE  Kept' = Kept
  <1>1. row \in [Pos -> PositionRecord]
    BY LedgerParts DEF TypeOK, DurableTypeOK
  <1>2. ASSUME NEW r \in Pos PROVE HoldingOf(row'[r]) = HoldingOf(row[r])
    <2>1. CASE RowAccepts(row[p], s) /\ r = p
      <3>1. Exists(row[p]) /\ row[p].exitOrder = m.exitOrder
        BY <2>1 DEF RowAccepts, Exists, SameHolding
      <3>2. SameHolding(row[p], m)
        BY <3>1, SnapshotsOf, SameVersion
      <3>3. row'[r] = s
        BY <1>1, <2>1 DEF RowWritten
      <3> QED
        BY <2>1, <3>2, <3>3, SameSymmetric, SameHoldingOf
    <2>2. CASE ~(RowAccepts(row[p], s) /\ r = p)
      BY <1>1, <2>2 DEF RowWritten
    <2> QED
      BY <2>1, <2>2
  <1> QED
    BY <1>2 DEF Kept

\* A step that changes no holding.
LEMMA HoldingsKept ==
  ASSUME UNCHANGED <<mem, pending, orders>>, Kept' = Kept
  PROVE  UNCHANGED <<Counted, Kept, Waiting>>
  <1>1. Waiting' = Waiting
    BY DEF Waiting, NotDurable
  <1>2. \A p \in Pos : HoldingOf(row'[p]) = HoldingOf(row[p])
    BY DEF Kept
  <1>3. Counted' = Counted
    BY <1>2 DEF Counted
  <1> QED
    BY <1>1, <1>3

\* A confirmed fill.
LEMMA FillWaits ==
  ASSUME LedgerInv, QueueInv, NEW p \in Pos, NEW s \in PositionRecord, Exists(s),
         NEW side \in {"BUY", "SELL"}, NEW q \in 0..Size, RecordFill(p, s, side, q)
  PROVE  /\ Counted' = [Counted EXCEPT ![p] = HoldingOf(s)] /\ Kept' = Kept
         /\ Waiting' = Append(Waiting, [pos |-> p, to |-> HoldingOf(s)])
  <1> DEFINE f == [order |-> nextOrder, pos |-> p, side |-> side, qty |-> q, snap |-> s]
  <1>1. /\ mem' = [mem EXCEPT ![p] = s] /\ pending' = Append(pending, f) /\ UNCHANGED <<row, orders>>
        /\ mem \in [Pos -> PositionRecord] /\ nextOrder \in Nat
    BY LedgerParts DEF RecordFill, durable, TypeOK, MemoryTypeOK, DurableTypeOK
  <1>2. f \in Fill /\ f.order \notin orders /\ ToWait(f) = [pos |-> p, to |-> HoldingOf(s)]
    <2>1. nextOrder \notin orders
      BY <1>1 DEF QueueInv, OrdersFresh
    <2> QED
      BY <1>1, <2>1 DEF Fill, ToWait
  <1> HIDE DEF f
  <1>3. Counted' = [Counted EXCEPT ![p] = HoldingOf(s)] /\ Kept' = Kept
    <2>1. \A r \in Pos : mem'[r] = IF r = p THEN s ELSE mem[r]
      BY <1>1
    <2>2. \A r \in Pos : HoldingOf(IF mem'[r].status = "NONE" THEN row'[r] ELSE mem'[r])
                         = IF r = p THEN HoldingOf(s) ELSE HoldingOf(IF mem[r].status = "NONE" THEN row[r] ELSE mem[r])
      BY <1>1, <2>1 DEF Exists
    <2>3. Counted' = [r \in Pos |-> IF r = p THEN HoldingOf(s) ELSE Counted[r]]
      BY <2>2 DEF Counted
    <2> QED
      BY <1>1, <2>3 DEF Kept, Counted
  <1>4. Waiting' = Append(Waiting, ToWait(f))
    <2>1. Waiting' = AsWaiting(NotDurable')
      BY DEF Waiting, AsWaiting, ToWait
    <2>2. NotDurable' = Append(NotDurable, f)
      <3>1. pending \in Seq(Fill)
        BY Undurable
      <3>2. CASE pending = <<>>
        BY <1>1, <1>2, <3>1, <3>2, HeadTailAppend DEF NotDurable
      <3>3. CASE pending # <<>>
        BY <1>1, <1>2, <3>1, <3>3, HeadTailAppend DEF NotDurable
      <3> QED
        BY <3>2, <3>3
    <2> QED
      BY <1>2, <2>1, <2>2, Undurable, WaitingAppends
  <1> QED
    BY <1>2, <1>3, <1>4

LEMMA SaleSells ==
  ASSUME LedgerInv, QueueInv, NEW p \in Pos, NEW fraction \in Fractions, ExecuteSale(p, fraction)
  PROVE  WB!Sell(p)
  <1>1. PICK m \in PositionRecord : m = mem[p]
    BY LedgerParts, QueueTyped
  <1>2. PICK q \in Nat : q = SellQuantity(m, fraction) /\ q \in 0..m.tokens /\ q > 0
    BY <1>1, SellQuantityBound DEF ExecuteSale, CanSell
  <1>3. PICK s : s = Sold(m, fraction, q, nextOrder)
    OBVIOUS
  <1>4. /\ CanSell(m, fraction) /\ RecordFill(p, s, "SELL", q)
        /\ m.tokens \in Nat /\ m.tokens <= Size /\ nextOrder \in Nat
    BY <1>1, <1>2, <1>3, LedgerParts, RecordFields DEF ExecuteSale, TypeOK, DurableTypeOK
  <1>5. s \in PositionRecord /\ Exists(s) /\ q \in 0..Size
    BY <1>2, <1>3, <1>4, SoldType DEF Sold, Exists
  <1>6. s.tokens = m.tokens - q /\ (s.status = "CLOSED" <=> fraction = "all")
        /\ s.status \in {"CLOSED", "PARTIAL_EXIT"}
    BY <1>3 DEF Sold, Fractions
  <1>7. s.tokens \in 0..Size /\ s.tokens < m.tokens /\ (s.tokens = 0 <=> fraction = "all")
    <2>1. fraction = "all" <=> q = m.tokens
      BY <1>2, <1>4 DEF CanSell, SellQuantity, Fractions
    <2> QED
      BY <1>2, <1>4, <1>6, <2>1
  <1>8. HoldingOf(s) = [life |-> IF s.tokens = 0 THEN "closed" ELSE "open", units |-> s.tokens]
    BY <1>6, <1>7 DEF HoldingOf
  <1>9. Counted[p].life = "open" /\ Counted[p].units = m.tokens
    BY <1>1, <1>4 DEF Counted, HoldingOf, CanSell, OpenStatuses
  <1>10. WB!Confirm(p, HoldingOf(s))
    BY <1>4, <1>5, FillWaits DEF WB!Confirm
  <1>11. s.tokens \in 0 .. Counted[p].units - 1
    BY <1>4, <1>7, <1>9
  <1> QED
    BY <1>8, <1>9, <1>10, <1>11 DEF WB!Sell

LEMMA EntryEnters ==
  ASSUME LedgerInv, QueueInv, ExecuteEntry
  PROVE  \E p \in Pos : WB!Enter(p)
  <1>1. PICK p \in Pos, tp1 \in BOOLEAN :
          mem[p].status = "NONE" /\ row[p].status = "NONE" /\ RecordFill(p, Opened(tp1), "BUY", Size)
    BY DEF ExecuteEntry
  <1>2. PICK s \in PositionRecord : s = Opened(tp1)
    BY OpenedType
  <1>3. HoldingOf(s) = [life |-> "open", units |-> Size] /\ Exists(s) /\ Size \in 0..Size
    BY <1>2 DEF Opened, HoldingOf, Exists
  <1>4. Waiting = <<>>
    <2>1. NotDurable = <<>>
      BY Undurable DEF ExecuteEntry, AccountingProblems
    <2> QED
      BY <2>1, Undurable DEF AsWaiting
  <1>5. Counted[p] = WB!None
    <2>1. row[p].tokens = 0
      BY <1>1, LedgerParts, SnapshotsOf DEF SnapshotOK
    <2> QED
      BY <1>1, <2>1 DEF Counted, HoldingOf, WB!None
  <1>6. WB!Confirm(p, HoldingOf(s))
    BY <1>1, <1>2, <1>3, FillWaits DEF WB!Confirm
  <1> QED
    BY <1>3, <1>4, <1>5, <1>6 DEF WB!Enter

\* What the queue is without its head: nothing behind the head is durable.
LEMMA BehindHead ==
  ASSUME LedgerInv, QueueInv, pending # <<>>, NEW q, q = Tail(pending), NEW O, O \subseteq orders \cup {Head(pending).order}
  PROVE  q \in Seq(Fill) /\ (q # <<>> => Head(q).order \notin O)
  <1>1. pending \in Seq(Fill) /\ Len(pending) \in Nat
    BY Undurable
  <1>2. CASE q # <<>>
    <2>1. 1 \in Queue /\ 2 \in Queue /\ Head(q) = pending[2] /\ Head(pending) = pending[1]
      BY <1>1, <1>2 DEF Queue
    <2>2. pending[2].order \notin orders /\ pending[2].order # pending[1].order
      BY <2>1 DEF QueueInv, OrdersFresh
    <2> QED
      BY <1>1, <2>1, <2>2
  <1> QED
    BY <1>1, <1>2

\* A committed head is durable, whether its reply came or not.
LEMMA CommitSettles ==
  ASSUME LedgerInv, QueueInv, pending # <<>>, Head(pending).order \notin orders, Commit(Head(pending)),
         mem' = mem, pending' \in {pending, Tail(pending)}
  PROVE  WB!Settle
  <1>1. PICK h \in Fill : h = Head(pending)
    BY Undurable
  <1>2. /\ orders' = orders \cup {h.order} /\ row' = [row EXCEPT ![h.pos] = h.snap] /\ h.pos \in Pos
        /\ row \in [Pos -> PositionRecord]
    BY <1>1, LedgerParts DEF Commit, Fill, TypeOK, DurableTypeOK
  <1>3. Exists(mem[h.pos])
    <2>1. 1 \in Queue /\ h = pending[1]
      BY <1>1, Undurable DEF Queue
    <2> QED
      BY <2>1 DEF QueueInv, Chained
  <1>4. NotDurable = pending /\ NotDurable' = Tail(pending)
    <2>1. NotDurable = pending
      BY Undurable
    <2>2. CASE pending' = pending
      BY <1>1, <1>2, <2>2 DEF NotDurable
    <2>3. CASE pending' = Tail(pending)
      <3>1. Tail(pending) # <<>> => Head(Tail(pending)).order \notin orders'
        BY <1>1, <1>2, BehindHead
      <3> QED
        BY <2>3, <3>1 DEF NotDurable
    <2> QED
      BY <2>1, <2>2, <2>3
  <1>5. Waiting # <<>> /\ Head(Waiting) = ToWait(h) /\ Waiting' = Tail(Waiting)
    <2>1. Waiting = AsWaiting(pending) /\ pending \in Seq(Fill)
      BY <1>4, Undurable
    <2>2. Waiting' = AsWaiting(Tail(pending))
      BY <1>4 DEF Waiting, AsWaiting, ToWait
    <2> QED
      BY <1>1, <2>1, <2>2, WaitingShifts
  <1>6. Kept' = [Kept EXCEPT ![Head(Waiting).pos] = Head(Waiting).to]
    <2>1. Head(Waiting).pos = h.pos /\ Head(Waiting).to = HoldingOf(h.snap)
      BY <1>5 DEF ToWait
    <2>2. \A r \in Pos : HoldingOf(row'[r]) = IF r = h.pos THEN HoldingOf(h.snap) ELSE HoldingOf(row[r])
      BY <1>2
    <2> QED
      BY <2>1, <2>2 DEF Kept
  <1>7. Counted' = Counted
    <2>1. \A r \in Pos : r # h.pos => row'[r] = row[r]
      BY <1>2
    <2>2. \A r \in Pos : HoldingOf(IF mem'[r].status = "NONE" THEN row'[r] ELSE mem'[r])
                         = HoldingOf(IF mem[r].status = "NONE" THEN row[r] ELSE mem[r])
      BY <1>3, <2>1 DEF Exists
    <2> QED
      BY <2>2 DEF Counted
  <1> QED
    BY <1>5, <1>6, <1>7 DEF WB!Settle

\* A duplicate was durable already.
LEMMA DuplicateKept ==
  ASSUME LedgerInv, QueueInv, FlushDuplicate
  PROVE  UNCHANGED <<Counted, Kept, Waiting>>
  <1>1. /\ pending # <<>> /\ Head(pending).order \in orders /\ pending' = Tail(pending)
        /\ UNCHANGED <<mem, row, orders>>
    BY DEF FlushDuplicate, FlushHead, Drop, durable
  <1>2. NotDurable = Tail(pending)
    BY <1>1, Undurable
  <1>3. Tail(pending) # <<>> => Head(Tail(pending)).order \notin orders
    BY <1>1, BehindHead
  <1>4. NotDurable' = Tail(pending)
    BY <1>1, <1>3 DEF NotDurable
  <1> QED
    BY <1>1, <1>2, <1>4 DEF Counted, Kept, Waiting

\* Tightened exits change no holding, in memory, in the row or in the queue.
LEMMA TighteningKept ==
  ASSUME LedgerInv, QueueInv, AiTighten
  PROVE  UNCHANGED <<Counted, Kept, Waiting>>
  <1>1. PICK p \in Pos, stop \in 1..MaxStop, arm \in BOOLEAN : Tighten(p, Tightened(mem[p], stop, arm))
    BY DEF AiTighten
  <1>2. mem \in [Pos -> PositionRecord] /\ mem[p] \in PositionRecord
    BY LedgerParts DEF TypeOK, MemoryTypeOK
  <1>3. PICK s \in PositionRecord : s = Tightened(mem[p], stop, arm)
    BY <1>2, TightenedType
  <1>4. /\ s # mem[p] /\ mem' = [mem EXCEPT ![p] = s] /\ pending' = Patched(p, s) /\ orders' = orders
        /\ row' = row \/ row' = RowWritten(p, s)
    BY <1>1, <1>3 DEF Tighten, UpdatePositionOk, UpdatePositionFails, durable
  <1>5. SameHolding(mem[p], s) /\ Exists(mem[p])
    BY <1>2, <1>3, <1>4, TightenedStep DEF Exists, OpenStatuses
  <1>6. Kept' = Kept
    <2>1. row' = row => Kept' = Kept
      BY DEF Kept
    <2>2. row' = RowWritten(p, s) => Kept' = Kept
      BY <1>5, SnapshotsOf, RowKept
    <2> QED
      BY <1>4, <2>1, <2>2
  <1>7. Counted' = Counted
    <2>1. \A r \in Pos : SameHolding(mem[r], mem'[r])
      BY <1>2, <1>4, <1>5 DEF SameHolding
    <2>2. \A r \in Pos : HoldingOf(row'[r]) = HoldingOf(row[r])
      BY <1>6 DEF Kept
    <2>3. ASSUME NEW r \in Pos
          PROVE  HoldingOf(IF mem'[r].status = "NONE" THEN row'[r] ELSE mem'[r])
                 = HoldingOf(IF mem[r].status = "NONE" THEN row[r] ELSE mem[r])
      <3>1. mem'[r].status = mem[r].status /\ HoldingOf(mem'[r]) = HoldingOf(mem[r])
        BY <2>1, SameHoldingOf DEF SameHolding
      <3> QED
        BY <2>2, <3>1
    <2> QED
      BY <2>3 DEF Counted
  <1>8. Waiting' = Waiting
    <2>1. pending \in Seq(Fill) /\ Len(pending) \in Nat
      BY Undurable
    <2>2. /\ Len(pending') = Len(pending) /\ pending' \in Seq(Fill)
          /\ \A i \in Queue : pending'[i].order = pending[i].order /\ ToWait(pending'[i]) = ToWait(pending[i])
      <3>1. pending' \in Seq(Fill)
        BY <1>4, LedgerParts, PatchedType
      <3>2. pending' = [i \in Queue |-> IF pending[i].pos = p
                          THEN [pending[i] EXCEPT !.snap = WithExits(@, s.stop, s.tp1, s.updatedAt)] ELSE pending[i]]
        BY <1>4 DEF Patched, Queue
      <3>3. ASSUME NEW i \in Queue
            PROVE  pending'[i].order = pending[i].order /\ ToWait(pending'[i]) = ToWait(pending[i])
        <4>1. pending[i] \in Fill
          BY <2>1 DEF Queue
        <4>2. CASE pending[i].pos = p
          BY <3>2, <4>1, <4>2 DEF Fill, WithExits, ToWait, HoldingOf
        <4>3. CASE pending[i].pos # p
          BY <3>2, <4>3
        <4> QED
          BY <4>2, <4>3
      <3> QED
        BY <2>1, <3>1, <3>2, <3>3 DEF Queue
    <2>3. CASE pending = <<>>
      BY <1>4, <2>1, <2>2, <2>3 DEF NotDurable, Waiting
    <2>4. CASE pending # <<>>
      <3>1. Head(pending') .order = Head(pending).order /\ pending' # <<>>
        BY <2>1, <2>2, <2>4 DEF Queue
      <3>2. AsWaiting(pending') = AsWaiting(pending)
        BY <2>1, <2>2 DEF AsWaiting, Queue
      <3>3. AsWaiting(Tail(pending')) = AsWaiting(Tail(pending))
        BY <2>1, <2>2, <2>4, <3>1, <3>2, WaitingShifts
      <3>4. Waiting = AsWaiting(NotDurable) /\ Waiting' = AsWaiting(NotDurable')
        BY DEF Waiting, AsWaiting, ToWait
      <3> QED
        BY <1>4, <2>4, <3>1, <3>2, <3>3, <3>4 DEF NotDurable
    <2> QED
      BY <2>3, <2>4
  <1> QED
    BY <1>6, <1>7, <1>8

\* The process dies, and its successor reads the tables.
LEMMA ExitLoses ==
  ASSUME Exit
  PROVE  WB!Lose
  <1>1. /\ mem' = [p \in Pos |-> NoPosition] /\ pending' = <<>> /\ row' = row
    BY DEF Exit, durable
  <1>2. Kept' = Kept
    BY <1>1 DEF Kept
  <1>3. Counted' = Kept
    BY <1>1 DEF Counted, Kept, NoPosition
  <1>4. Waiting' = <<>>
    BY <1>1 DEF Waiting, NotDurable
  <1> QED
    BY <1>2, <1>3, <1>4 DEF WB!Lose

LEMMA RestartKept ==
  ASSUME LedgerInv, QueueInv, Restart \/ RestartBlind
  PROVE  UNCHANGED <<Counted, Kept, Waiting>>
  <1>1. phase = "down" /\ pending = <<>> /\ UNCHANGED <<row, orders, pending>>
    BY DEF Restart, RestartBlind, durable, LedgerInv, DownEmpty
  <1>2. ASSUME NEW p \in Pos
        PROVE  HoldingOf(IF mem'[p].status = "NONE" THEN row'[p] ELSE mem'[p]) = HoldingOf(row[p])
    <2>1. mem'[p] \in {Restored(row[p]), NoPosition}
      BY DEF Restart, RestartBlind, RestoredPositions
    <2>2. Restored(row[p]) \in {row[p], NoPosition}
      BY LedgerParts, RestoredKnown
    <2> QED
      BY <1>1, <2>1, <2>2 DEF NoPosition
  <1>3. ASSUME NEW p \in Pos PROVE Counted[p] = HoldingOf(row[p])
    <2>1. ~HasPending(p)
      BY <1>1 DEF HasPending
    <2> QED
      BY <2>1, CountsAsKept DEF Kept
  <1>4. Counted' = Counted
    BY <1>2, <1>3 DEF Counted
  <1> QED
    BY <1>1, <1>4 DEF Kept, Waiting, NotDurable

LEMMA WriteBehindStep ==
  LedgerInv /\ QueueInv /\ [Next]_vars => [WB!WriteBehindNext]_(WB!writeBehindVars)
  <1> SUFFICES ASSUME LedgerInv, QueueInv, [Next]_vars
               PROVE  WB!WriteBehindNext \/ UNCHANGED <<Counted, Kept, Waiting>>
    BY DEF WB!writeBehindVars
  <1>1. cur \in Pos \/ phase \notin {"persist", "exit"}
    BY LedgerParts DEF TypeOK, ControlTypeOK
  <1>2. CASE UNCHANGED <<mem, pending, row, orders>>
    <2>1. Kept' = Kept
      BY <1>2 DEF Kept
    <2> QED
      BY <1>2, <2>1, HoldingsKept
  <1>3. CASE FlushCommits
    <2>1. /\ pending # <<>> /\ Head(pending).order \notin orders /\ Commit(Head(pending)) /\ mem' = mem
          /\ pending' \in {pending, Tail(pending)}
      BY <1>3 DEF FlushCommits, FlushHead, Drop
    <2> QED
      BY <2>1, CommitSettles DEF WB!WriteBehindNext
  <1>4. CASE FlushDuplicate
    BY <1>4, DuplicateKept
  <1>5. CASE FlushFails
    <2>1. /\ pending # <<>> /\ UNCHANGED <<mem, pending>>
          /\ UNCHANGED durable \/ (Head(pending).order \notin orders /\ Commit(Head(pending)))
      BY <1>5 DEF FlushFails, FlushHead, memory
    <2>2. CASE UNCHANGED durable
      BY <1>2, <2>1, <2>2 DEF durable
    <2>3. CASE Head(pending).order \notin orders /\ Commit(Head(pending))
      BY <2>1, <2>3, CommitSettles DEF WB!WriteBehindNext
    <2> QED
      BY <2>1, <2>2, <2>3
  <1>6. CASE Persist
    <2>1. /\ cur \in Pos /\ Exists(mem[cur]) /\ UNCHANGED <<mem, pending, orders>>
          /\ row' = row \/ row' = RowWritten(cur, mem[cur])
      BY <1>1, <1>6 DEF Persist, LedgerInv, MonitoredExist, Exists, UpdatePositionOk, UpdatePositionFails, durable
    <2>2. CASE row' = RowWritten(cur, mem[cur])
      <3>1. mem[cur] \in Snapshots(cur) /\ SameHolding(mem[cur], mem[cur])
        BY <2>1, SnapshotsOf DEF SameHolding
      <3>2. Kept' = Kept
        BY <2>1, <2>2, <3>1, RowKept
      <3> QED
        BY <2>1, <3>2, HoldingsKept
    <2> QED
      BY <1>2, <2>1, <2>2
  <1>7. CASE Land
    <2>1. PICK w \in late : row' = RowWritten(w.pos, w.snap)
      BY <1>7 DEF Land
    <2>2. /\ w.pos \in Pos /\ w.snap \in Snapshots(w.pos) /\ Exists(w.snap) /\ SameHolding(w.snap, w.snap)
          /\ UNCHANGED <<mem, pending, orders>>
      BY <1>7, LedgerParts, QueueTyped, SnapshotsOf DEF Land, memory, LedgerInv, LateExist, Exists, SameHolding
    <2>3. Kept' = Kept
      BY <2>1, <2>2, RowKept
    <2> QED
      BY <2>2, <2>3, HoldingsKept
  <1>8. CASE ExecutePartialTp1 \/ ExecuteExit \/ AiExit
    <2>1. PICK p \in Pos, fraction \in Fractions : ExecuteSale(p, fraction)
      BY <1>1, <1>8 DEF ExecutePartialTp1, ExecuteExit, AiExit, Fractions
    <2> QED
      BY <2>1, SaleSells DEF WB!WriteBehindNext
  <1>9. CASE ExecuteEntry
    BY <1>9, EntryEnters DEF WB!WriteBehindNext
  <1>10. CASE AiTighten
    BY <1>10, TighteningKept
  <1>11. CASE ShutdownDone \/ Crash
    <2>1. WB!Lose
      BY <1>11, ExitLoses DEF ShutdownDone, Crash
    <2> QED
      BY <2>1 DEF WB!WriteBehindNext
  <1>12. CASE Restart \/ RestartBlind
    BY <1>12, RestartKept
  <1>13. CASE \/ UNCHANGED vars \/ FlushDone \/ StartCycle \/ LoadPositions \/ Observe \/ ObserveFails \/ Hold
              \/ MonitorDone \/ EntriesDone \/ AiDone \/ CopyDone \/ SaleFails \/ Shutdown \/ ShutdownFlush
    <2>1. UNCHANGED <<mem, pending, row, orders>>
      BY <1>13 DEF vars, memory, durable, FlushDone, StartCycle, LoadPositions, Observe, ObserveFails, Hold,
           MonitorDone, EntriesDone, AiDone, CopyDone, SaleFails, Shutdown, ShutdownFlush
    <2> QED
      BY <1>2, <2>1
  <1> QED
    BY <1>3, <1>4, <1>5, <1>6, <1>7, <1>8, <1>9, <1>10, <1>11, <1>12, <1>13
       DEF Next, Flush, Monitor, Entries, Ai, Process

\* The PAPER book is a write-behind ledger (recordPaperFill, flushPendingFills,
\* recordConfirmedPaperFill, buildChainRuntime): fills become durable in the order they
\* were confirmed, exactly once, and a crash loses exactly those that were not.
THEOREM LedgerIsWriteBehind == Spec => WriteBehindImplemented
  <1>1. Init => WB!WriteBehindInit
    <2> SUFFICES ASSUME Init PROVE WB!WriteBehindInit
      OBVIOUS
    <2>1. /\ mem = [p \in Pos |-> NoPosition] /\ row = [p \in Pos |-> NoPosition] /\ pending = <<>>
      BY DEF Init
    <2>2. HoldingOf(NoPosition) = WB!None
      BY DEF HoldingOf, NoPosition, WB!None
    <2>3. Counted = [p \in Pos |-> WB!None] /\ Kept = [p \in Pos |-> WB!None]
      BY <2>1, <2>2 DEF Counted, Kept
    <2>4. Waiting = <<>>
      BY <2>1 DEF Waiting, NotDurable
    <2> QED
      BY <2>3, <2>4 DEF WB!WriteBehindInit
  <1> QED
    BY <1>1, WriteBehindStep, QueueCorrect, PTL DEF Spec, WriteBehindImplemented, WB!WriteBehindSpec
=============================================================================

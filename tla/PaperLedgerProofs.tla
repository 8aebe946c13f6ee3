-------------------------- MODULE PaperLedgerProofs --------------------------
(***************************************************************************)
(* Theorems about PaperLedger, for every value of its constants: its type  *)
(* invariant, and that the positions table always agrees with the orders   *)
(* table (DurableReconciled).                                              *)
(***************************************************************************)
EXTENDS PaperLedger, TLAPS

USE SizeAssumption, StopAssumption, BoundsAssumption, NoPosAssumption, TokenAssumption

-----------------------------------------------------------------------------
(* The operators of Positions keep the type of a position.                 *)

LEMMA NoPositionType == NoPosition \in PositionRecord
  BY DEF NoPosition, PositionRecord, Statuses, NoOrder

LEMMA OpenedType ==
  ASSUME NEW tp1 \in BOOLEAN
  PROVE  Opened(tp1) \in PositionRecord
  BY DEF Opened, PositionRecord, Statuses, OpenStatuses, NoOrder

LEMMA SellQuantityBound ==
  ASSUME NEW s \in PositionRecord, NEW fraction \in Fractions
  PROVE  SellQuantity(s, fraction) \in 0..s.tokens
  <1>1. s.tokens \in 0..Size
    BY DEF PositionRecord
  <1>2. s.tokens \div 2 \in 0..s.tokens
    BY <1>1
  <1> QED
    BY <1>1, <1>2 DEF SellQuantity

LEMMA SoldType ==
  ASSUME NEW s \in PositionRecord, NEW fraction \in Fractions,
         NEW q \in 0..s.tokens, NEW order \in Nat
  PROVE  Sold(s, fraction, q, order) \in PositionRecord
  <1>1. s.tokens \in 0..Size /\ s.tokens - q \in 0..Size
    BY DEF PositionRecord
  <1> QED
    BY <1>1 DEF Sold, PositionRecord, Statuses, OpenStatuses

LEMMA TightenedType ==
  ASSUME NEW s \in PositionRecord, NEW stop \in 1..MaxStop, NEW arm \in BOOLEAN
  PROVE  Tightened(s, stop, arm) \in PositionRecord
  BY DEF Tightened, WithExits, StopTightens, Tp1Arms, PositionRecord

LEMMA RestoredType ==
  ASSUME NEW r \in PositionRecord
  PROVE  Restored(r) \in PositionRecord
  BY NoPositionType DEF Restored, PositionRecord, Statuses

-----------------------------------------------------------------------------
(* The queue of fills.                                                     *)

LEMMA QueueTail ==
  ASSUME NEW q \in Seq(Fill), q # <<>>
  PROVE  /\ Head(q) \in Fill /\ Tail(q) \in Seq(Fill)
         /\ Len(q) > 0 /\ Head(q) = q[1]
         /\ Len(Tail(q)) = Len(q) - 1
         /\ \A i \in 1..Len(Tail(q)) : Tail(q)[i] = q[i + 1]
  OBVIOUS

LEMMA PatchedType ==
  ASSUME TypeOK, NEW p \in Pos, NEW s \in PositionRecord
  PROVE  /\ Patched(p, s) \in Seq(Fill)
         /\ Len(Patched(p, s)) = Len(pending)
         /\ \A i \in 1..Len(pending) :
              /\ Patched(p, s)[i].order = pending[i].order
              /\ Patched(p, s)[i].pos = pending[i].pos
              /\ Patched(p, s)[i].side = pending[i].side
              /\ Patched(p, s)[i].snap.status = pending[i].snap.status
              /\ Patched(p, s)[i].snap.exitOrder = pending[i].snap.exitOrder
              /\ Patched(p, s)[i].snap.tokens = pending[i].snap.tokens
  <1>1. pending \in Seq(Fill) /\ \A i \in 1..Len(pending) : pending[i] \in Fill
    BY DEF TypeOK, MemoryTypeOK
  <1> DEFINE patch(f) == [f EXCEPT !.snap = WithExits(@, s.stop, s.tp1, s.updatedAt)]
  <1>2. ASSUME NEW f \in Fill
        PROVE  /\ patch(f) \in Fill
               /\ patch(f).order = f.order /\ patch(f).pos = f.pos
               /\ patch(f).side = f.side
               /\ patch(f).snap.status = f.snap.status
               /\ patch(f).snap.exitOrder = f.snap.exitOrder
               /\ patch(f).snap.tokens = f.snap.tokens
    <2>1. f.snap \in PositionRecord
      BY DEF Fill
    <2>2. WithExits(f.snap, s.stop, s.tp1, s.updatedAt) \in PositionRecord
      BY <2>1 DEF WithExits, PositionRecord
    <2> QED
      BY <2>1, <2>2 DEF Fill, WithExits
  <1> HIDE DEF patch
  <1>3. Patched(p, s) = [i \in 1..Len(pending) |->
                           IF pending[i].pos = p THEN patch(pending[i]) ELSE pending[i]]
    BY DEF Patched, patch
  <1> QED
    BY <1>1, <1>2, <1>3

-----------------------------------------------------------------------------
(* Type correctness.                                                       *)

USE DEF TypeOK, ControlTypeOK, MemoryTypeOK, DurableTypeOK

LEMMA RowWrittenType ==
  ASSUME TypeOK, NEW p \in Pos, NEW s \in PositionRecord
  PROVE  RowWritten(p, s) \in [Pos -> PositionRecord]
  BY DEF RowWritten

LEMMA UpdatePositionType ==
  ASSUME TypeOK, NEW p \in Pos, NEW s \in PositionRecord,
         UpdatePositionOk(p, s) \/ UpdatePositionFails(p, s)
  PROVE  /\ row' \in [Pos -> PositionRecord]
         /\ orders' = orders /\ orderQty' = orderQty
         /\ late' \in SUBSET [pos : Pos, snap : PositionRecord]
         /\ faults' \in Nat /\ stale' \subseteq Pos
  <1>1. CASE UpdatePositionOk(p, s)
    BY <1>1, RowWrittenType DEF UpdatePositionOk
  <1>2. CASE UpdatePositionFails(p, s)
    <2>1. [pos |-> p, snap |-> s] \in [pos : Pos, snap : PositionRecord]
      OBVIOUS
    <2> QED
      BY <1>2, <2>1 DEF UpdatePositionFails, Fault
  <1> QED
    BY <1>1, <1>2

LEMMA CommitType ==
  ASSUME TypeOK, NEW f \in Fill, Commit(f)
  PROVE  /\ row' \in [Pos -> PositionRecord] /\ orders' \subseteq Nat
         /\ orderQty' \in [Pos -> Int] /\ late' = late
  <1>1. f.pos \in Pos /\ f.snap \in PositionRecord /\ f.order \in Nat /\ f.qty \in Int
    BY DEF Fill
  <1>2. Signed(f.side, f.qty) \in Int
    BY <1>1 DEF Signed
  <1> QED
    <2>1. row' = [row EXCEPT ![f.pos] = f.snap] /\ orders' = orders \cup {f.order}
      BY DEF Commit
    <2>2. orderQty' = [orderQty EXCEPT ![f.pos] = @ + Signed(f.side, f.qty)]
      BY DEF Commit
    <2>3. \A p \in Pos : orderQty'[p] \in Int
      BY <1>1, <1>2, <2>2
    <2> QED
      BY <1>1, <2>1, <2>2, <2>3 DEF Commit

LEMMA RecordFillType ==
  ASSUME TypeOK, NEW p \in Pos, NEW s \in PositionRecord, NEW side \in {"BUY", "SELL"},
         NEW q \in 0..Size, RecordFill(p, s, side, q)
  PROVE  /\ mem' \in [Pos -> PositionRecord]
         /\ book' \subseteq Nat /\ bookQty' \in [Pos -> Int] /\ bookOk' = bookOk
         /\ pending' \in Seq(Fill) /\ phase' = "flush" /\ nextOrder' \in Nat
         /\ UNCHANGED <<todo, stopping, durable, crashes, stale>>
  <1>1. [order |-> nextOrder, pos |-> p, side |-> side, qty |-> q, snap |-> s] \in Fill
    BY DEF Fill
  <1>2. pending' \in Seq(Fill)
    BY <1>1 DEF RecordFill
  <1>3. Signed(side, q) \in Int
    BY DEF Signed
  <1>4. book' \subseteq Nat /\ bookQty' \in [Pos -> Int]
    <2>1. \/ UNCHANGED <<book, bookQty>>
          \/ /\ book' = book \cup {nextOrder}
             /\ bookQty' = [bookQty EXCEPT ![p] = @ + Signed(side, q)]
      BY DEF RecordFill
    <2>2. bookQty[p] + Signed(side, q) \in Int
      BY <1>3
    <2> HIDE DEF Signed
    <2> QED
      BY <2>1, <2>2
  <1> QED
    <2>1. mem' \in [Pos -> PositionRecord] /\ phase' = "flush" /\ nextOrder' = nextOrder + 1
      BY DEF RecordFill
    <2> QED
      BY <1>2, <1>4, <2>1 DEF RecordFill

LEMMA ExecuteSaleType ==
  ASSUME TypeOK, NEW p \in Pos, NEW fraction \in Fractions, ExecuteSale(p, fraction)
  PROVE  /\ mem' \in [Pos -> PositionRecord]
         /\ book' \subseteq Nat /\ bookQty' \in [Pos -> Int] /\ bookOk' = bookOk
         /\ pending' \in Seq(Fill) /\ phase' = "flush" /\ nextOrder' \in Nat
         /\ issue' \subseteq Tokens /\ faults' \in Nat
         /\ UNCHANGED <<todo, stopping, durable, crashes, stale>>
  <1> DEFINE q == SellQuantity(mem[p], fraction)
             s == Sold(mem[p], fraction, q, nextOrder)
  <1>1. mem[p] \in PositionRecord /\ mem[p].tokens \in 0..Size /\ nextOrder \in Nat
    BY DEF PositionRecord
  <1>2. q \in 0..mem[p].tokens /\ q \in 0..Size
    BY <1>1, SellQuantityBound
  <1>3. s \in PositionRecord
    BY <1>1, <1>2, SoldType
  <1>4. RecordFill(p, s, "SELL", q)
    BY DEF ExecuteSale
  <1>5. issue' \subseteq Tokens /\ faults' \in Nat
    BY DEF ExecuteSale, Fault
  <1> HIDE DEF q, s
  <1> QED
    BY <1>2, <1>3, <1>4, <1>5, RecordFillType

LEMMA TypeStep == TypeOK /\ [Next]_vars => TypeOK'
  <1> SUFFICES ASSUME TypeOK, [Next]_vars PROVE TypeOK'
    OBVIOUS
  <1> USE DEF memory, control, durable, bounds
  <1>1. CASE UNCHANGED vars
    BY <1>1 DEF vars
  <1>2. CASE FlushCommits
    BY <1>2, QueueTail, CommitType DEF FlushCommits, FlushHead, Drop
  <1>3. CASE FlushDuplicate
    <2>1. Head(pending) \in Fill /\ Tail(pending) \in Seq(Fill)
      BY <1>3, QueueTail DEF FlushDuplicate, FlushHead
    <2>2. Head(pending).pos \in Pos
      BY <2>1 DEF Fill
    <2> QED
      BY <1>3, <2>1, <2>2 DEF FlushDuplicate, Drop
  <1>4. CASE FlushFails
    <2>1. Head(pending) \in Fill
      BY <1>4, QueueTail DEF FlushFails, FlushHead
    <2>2. /\ row' \in [Pos -> PositionRecord] /\ orders' \subseteq Nat
          /\ orderQty' \in [Pos -> Int] /\ late' = late
      BY <1>4, <2>1, CommitType DEF FlushFails
    <2>3. faults' \in Nat
      BY <1>4 DEF FlushFails, Fault
    <2>4. ControlTypeOK'
      BY <1>4 DEF FlushFails, FlushReturns, Phases, ReturnPoints
    <2>5. UNCHANGED <<memory, stopping, nextOrder, crashes, stale>>
      BY <1>4 DEF FlushFails
    <2> QED
      BY <2>2, <2>3, <2>4, <2>5
  <1>5. CASE FlushDone
    BY <1>5 DEF FlushDone, FlushReturns, Phases, ReturnPoints
  <1>6. CASE StartCycle
    BY <1>6 DEF StartCycle, Phases, ReturnPoints
  <1>7. CASE LoadPositions
    BY <1>7 DEF LoadPositions, OpenPositions, Phases
  <1>8. CASE Observe
    BY <1>8 DEF Observe, Phases
  <1>9. CASE ObserveFails
    BY <1>9 DEF ObserveFails, Phases
  <1>10. CASE Persist
    <2>1. ControlTypeOK' /\ UNCHANGED <<mem, book, bookQty, bookOk, pending, stopping, nextOrder, crashes>>
      BY <1>10 DEF Persist, Phases
    <2>2. CASE HasPending(cur) /\ UNCHANGED <<issue, durable, faults, stale>>
      BY <2>1, <2>2
    <2>3. CASE ~HasPending(cur) /\ issue' \in {issue \ {TokenOf[cur]}, issue \cup {TokenOf[cur]}}
               /\ (UpdatePositionOk(cur, mem[cur]) \/ UpdatePositionFails(cur, mem[cur]))
      <3>1. cur \in Pos /\ mem[cur] \in PositionRecord
        BY <1>10 DEF Persist
      <3>2. issue' \subseteq Tokens
        BY <2>3, <3>1
      <3> QED
        BY <2>1, <2>3, <3>1, <3>2, UpdatePositionType
    <2> QED
      BY <1>10, <2>2, <2>3 DEF Persist
  <1>11. CASE Hold
    BY <1>11 DEF Hold, Phases
  <1>12. CASE SaleFails
    <2>1. faults' \in Nat /\ ControlTypeOK'
      BY <1>12 DEF SaleFails, Fault, Phases
    <2>2. issue' \subseteq Tokens
      <3>1. CASE phase = "exit" /\ issue' = issue \cup {TokenOf[cur]}
        BY <3>1
      <3>2. CASE \E p \in OpenPositions : issue' = issue \cup {TokenOf[p]}
        BY <3>2 DEF OpenPositions
      <3> QED
        BY <1>12, <3>1, <3>2 DEF SaleFails
    <2>3. UNCHANGED <<mem, book, bookQty, bookOk, pending, stopping, durable, nextOrder,
                      crashes, stale>>
      BY <1>12 DEF SaleFails
    <2> QED
      BY <2>1, <2>2, <2>3
  <1>13. CASE ExecutePartialTp1
    <2>1. cur \in Pos /\ ExecuteSale(cur, "half") /\ resume' = "monitor" /\ cur' = NoPos
      BY <1>13 DEF ExecutePartialTp1
    <2> QED
      BY <2>1, ExecuteSaleType DEF Phases, ReturnPoints, Fractions
  <1>14. CASE ExecuteExit
    <2>1. cur \in Pos /\ ExecuteSale(cur, "all") /\ resume' = "monitor" /\ cur' = NoPos
      BY <1>14 DEF ExecuteExit
    <2> QED
      BY <2>1, ExecuteSaleType DEF Phases, ReturnPoints, Fractions
  <1>15. CASE MonitorDone
    BY <1>15 DEF MonitorDone, Phases
  <1>16. CASE ExecuteEntry
    <2>1. PICK p \in Pos, tp1 \in BOOLEAN : RecordFill(p, Opened(tp1), "BUY", Size)
      BY <1>16 DEF ExecuteEntry
    <2>2. /\ mem' \in [Pos -> PositionRecord]
          /\ book' \subseteq Nat /\ bookQty' \in [Pos -> Int] /\ bookOk' = bookOk
          /\ pending' \in Seq(Fill) /\ phase' = "flush" /\ nextOrder' \in Nat
          /\ UNCHANGED <<todo, stopping, durable, crashes, stale>>
      BY <2>1, OpenedType, RecordFillType
    <2>3. resume' = phase /\ phase \in ReturnPoints /\ UNCHANGED <<issue, faults, cur>>
      BY <1>16 DEF ExecuteEntry, ReturnPoints
    <2> QED
      BY <2>2, <2>3 DEF Phases
  <1>17. CASE EntriesDone
    BY <1>17 DEF EntriesDone, Phases
  <1>18. CASE CopyDone
    BY <1>18 DEF CopyDone, Phases
  <1>19. CASE AiExit
    <2>1. resume' = "ai" /\ UNCHANGED cur /\ \E p \in Pos : ExecuteSale(p, "all")
      BY <1>19 DEF AiExit
    <2> QED
      BY <2>1, ExecuteSaleType DEF Phases, ReturnPoints, Fractions
  <1>20. CASE AiTighten
    <2>1. PICK p \in Pos, stop \in 1..MaxStop, arm \in BOOLEAN :
            Tighten(p, Tightened(mem[p], stop, arm))
      BY <1>20 DEF AiTighten
    <2> DEFINE s == Tightened(mem[p], stop, arm)
    <2>2. s \in PositionRecord
      BY TightenedType
    <2>3. Tighten(p, s)
      BY <2>1
    <2> HIDE DEF s
    <2>4. mem' \in [Pos -> PositionRecord] /\ pending' \in Seq(Fill)
      BY <2>2, <2>3, PatchedType DEF Tighten
    <2>5. /\ row' \in [Pos -> PositionRecord]
          /\ orders' = orders /\ orderQty' = orderQty
          /\ late' \in SUBSET [pos : Pos, snap : PositionRecord]
          /\ faults' \in Nat /\ stale' \subseteq Pos
      <3>1. CASE HasPending(p)
        BY <2>3, <3>1 DEF Tighten
      <3>2. CASE ~HasPending(p)
        BY <2>2, <2>3, <3>2, UpdatePositionType DEF Tighten
      <3> QED
        BY <3>1, <3>2
    <2>6. ControlTypeOK'
      BY <1>20, <2>3 DEF AiTighten, Tighten, Phases, ReturnPoints
    <2>7. UNCHANGED <<book, bookQty, bookOk, issue, stopping, nextOrder, crashes>>
      BY <1>20 DEF AiTighten
    <2> QED
      BY <2>4, <2>5, <2>6, <2>7
  <1>21. CASE AiDone
    BY <1>21 DEF AiDone, Phases
  <1>22. CASE Shutdown
    BY <1>22 DEF Shutdown, Phases
  <1>23. CASE ShutdownFlush
    BY <1>23 DEF ShutdownFlush, Phases, ReturnPoints
  <1>24. ASSUME Exit, crashes' \in Nat PROVE TypeOK'
    <2>1. ControlTypeOK' /\ MemoryTypeOK'
      BY <1>24, NoPositionType DEF Exit, Phases, ReturnPoints
    <2>2. DurableTypeOK'
      BY <1>24 DEF Exit
    <2>3. bookOk' = FALSE /\ stopping' = FALSE
      BY <1>24 DEF Exit
    <2> QED
      BY <2>1, <2>2, <2>3
  <1>25. CASE ShutdownDone
    BY <1>24, <1>25 DEF ShutdownDone
  <1>26. CASE Crash
    BY <1>24, <1>26 DEF Crash
  <1>27. CASE Restart
    BY <1>27, RestoredType DEF Restart, RestoredPositions, Phases
  <1>28. CASE RestartBlind
    BY <1>28, RestoredType, NoPositionType DEF RestartBlind, RestoredPositions, Fault, Phases
  <1>29. CASE Land
    <2>1. PICK w \in late : row' = RowWritten(w.pos, w.snap) /\ late' = late \ {w}
      BY <1>29 DEF Land
    <2>2. w.pos \in Pos /\ w.snap \in PositionRecord
      OBVIOUS
    <2> QED
      BY <1>29, <2>1, <2>2, RowWrittenType DEF Land
  <1> QED
    BY <1>1, <1>2, <1>3, <1>4, <1>5, <1>6, <1>7, <1>8, <1>9, <1>10, <1>11, <1>12, <1>13,
       <1>14, <1>15, <1>16, <1>17, <1>18, <1>19, <1>20, <1>21, <1>22, <1>23, <1>25,
       <1>26, <1>27, <1>28, <1>29 DEF Next, Flush, Monitor, Entries, Ai, Process

LEMMA TypeInit == Init => TypeOK
  <1> SUFFICES ASSUME Init PROVE TypeOK
    OBVIOUS
  <1>1. ControlTypeOK
    BY DEF Init, Phases, ReturnPoints
  <1>2. MemoryTypeOK /\ DurableTypeOK
    BY NoPositionType DEF Init
  <1>3. bookOk = TRUE /\ stopping = FALSE
    BY DEF Init
  <1> QED
    BY <1>1, <1>2, <1>3

\* The state of the program, its queue and its tables always have the type the code
\* gives them; in particular no sale takes a position below zero tokens.
THEOREM TypeCorrect == Spec => []TypeOK
  <1> HIDE DEF TypeOK
  <1> QED
    BY TypeInit, TypeStep, PTL DEF Spec
=============================================================================

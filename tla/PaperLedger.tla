----------------------------- MODULE PaperLedger -----------------------------
(***************************************************************************)
(* One chain's PAPER book: the decision cycle of apps/trader/src/index.ts  *)
(* with the PositionManager it drives, the PaperBook it accounts in, the   *)
(* queue of confirmed fills that wait for the database, and the journal's  *)
(* orders and positions tables.  All financial state is changed by one     *)
(* cycle at a time (decisionCycleAll); what interleaves with it is the     *)
(* database (a call may fail, or be applied although its reply is lost),   *)
(* a statement the server finishes after its client gave up, a crash, a    *)
(* shutdown and the restart that reads the tables back.                    *)
(*                                                                         *)
(* Abstracted: which tokens the strategies like and what the market does   *)
(* (a sale, an entry or a tightening may happen whenever its guards let    *)
(* it), the stop and kill flags (module Emergency), dollar amounts (see    *)
(* Positions), the trade_intents rows and the audit events.  The sums over *)
(* fills that PaperBook and the recovery query take are kept as running    *)
(* totals: bookQty for the book, orderQty for the orders table.            *)
(* A statement left behind by a lost connection has finished by the time a *)
(* restarted process reads the tables.                                     *)
(***************************************************************************)
EXTENDS Positions, Sequences, FiniteSets

CONSTANTS Pos,         \* position ids
          NoPos,       \* no position: outside the monitoring loop
          Tokens,      \* token addresses
          TokenOf,     \* the token of a position: the strategies may share one
          MaxOrders,   \* bound: orders the router confirms
          MaxFaults,   \* bound: database calls that fail or lose their reply
          MaxCrashes,  \* bound: crashes and shutdowns
          MaxLate      \* bound: statements outstanding at the server at once

ASSUME NoPosAssumption == NoPos \notin Pos
ASSUME TokenAssumption == TokenOf \in [Pos -> Tokens]
ASSUME BoundsAssumption ==
    /\ MaxOrders \in Nat /\ MaxFaults \in Nat
    /\ MaxCrashes \in Nat /\ MaxLate \in Nat

VARIABLES
    mem,        \* PositionManager.positions
    book,       \* PaperBook.fills: the order ids recorded
    bookQty,    \* the token quantity those fills add up to, per position
    bookOk,     \* rt.paperBook # null and rt.accountingIssues is empty
    pending,    \* rt.pendingFills, in insertion order
    issue,      \* tokens with a ":journal" entry in rt.exitIssues
    phase,      \* where the cycle is
    resume,     \* where flushPendingFills returns to
    todo,       \* open positions this cycle has still to monitor
    cur,        \* the position being monitored, or NoPos
    stopping,   \* shuttingDown
    row,        \* the positions table
    orders,     \* the orders table: ids of CONFIRMED PAPER orders
    orderQty,   \* the token quantity those orders add up to, per position
    late,       \* position UPDATEs the server will finish without a client
    nextOrder,  \* generateOrderId
    faults, crashes,
    stale       \* observer: positions whose last exit change the journal refused,
                \* lost or skipped as part of a duplicate

memory  == <<mem, book, bookQty, bookOk, pending, issue>>
control == <<phase, resume, todo, cur, stopping>>
durable == <<row, orders, orderQty, late>>
bounds  == <<nextOrder, faults, crashes>>
vars    == <<memory, control, durable, bounds, stale>>

Phases == {"down", "idle", "flush", "load", "monitor", "persist", "exit",
           "entry", "ai", "copy", "stop"}

ReturnPoints == {"idle", "load", "monitor", "entry", "ai", "copy", "stop"}

Fill == [order : Nat, pos : Pos, side : {"BUY", "SELL"}, qty : 0..Size,
         snap : PositionRecord]

HasPending(p) == \E i \in 1..Len(pending) : pending[i].pos = p
PendingOrders == {pending[i].order : i \in 1..Len(pending)}
OpenPositions == {p \in Pos : mem[p].status \in OpenStatuses}
Running == phase # "down"

\* PaperBook.reconciliationIssues over getExposurePositions.
ReconciliationIssues ==
    {p \in Pos : IF mem[p].status \in {"NONE", "CLOSED"} THEN bookQty[p] # 0
                 ELSE bookQty[p] # mem[p].tokens}

\* Mutant of Signed: a sale adds to the quantity held.
SignedAlike(side, q) == q

\* What a fill adds to the quantity held: BUY output in, SELL input out.
Signed(side, q) == IF side = "BUY" THEN q ELSE -q

\* Mutant of AccountingProblems: fills that wait for the journal do not count.
AccountingProblemsIgnoringQueue ==
    \/ ~bookOk
    \/ ReconciliationIssues # {}
    \/ issue # {}

\* accountingProblems: what keeps executeEntry from entering.
AccountingProblems ==
    \/ ~bookOk
    \/ ReconciliationIssues # {}
    \/ issue # {}
    \/ pending # <<>>

Init ==
    /\ mem = [p \in Pos |-> NoPosition]
    /\ book = {}
    /\ bookQty = [p \in Pos |-> 0]
    /\ bookOk = TRUE
    /\ pending = <<>>
    /\ issue = {}
    /\ phase = "idle"
    /\ resume = "idle"
    /\ todo = {}
    /\ cur = NoPos
    /\ stopping = FALSE
    /\ row = [p \in Pos |-> NoPosition]
    /\ orders = {}
    /\ orderQty = [p \in Pos |-> 0]
    /\ late = {}
    /\ nextOrder = 1
    /\ faults = 0
    /\ crashes = 0
    /\ stale = {}
-----------------------------------------------------------------------------
(* Database calls.                                                         *)

Fault == faults < MaxFaults /\ faults' = faults + 1

RowWritten(p, s) == IF RowAccepts(row[p], s) THEN [row EXCEPT ![p] = s] ELSE row

\* journal.updatePosition(s) answers.
UpdatePositionOk(p, s) ==
    /\ row' = RowWritten(p, s)
    /\ stale' = stale \ {p}
    /\ UNCHANGED <<orders, orderQty, late, faults>>

\* journal.updatePosition(s) throws; the server may still hold the statement.
UpdatePositionFails(p, s) ==
    /\ Fault
    /\ \/ late' = late
       \/ /\ Cardinality(late) < MaxLate
          /\ late' = late \cup {[pos |-> p, snap |-> s]}
    /\ stale' = stale \cup {p}
    /\ UNCHANGED <<row, orders, orderQty>>

\* The transaction of recordConfirmedPaperFill: the order and the row together.
Commit(f) ==
    /\ orders' = orders \cup {f.order}
    /\ orderQty' = [orderQty EXCEPT ![f.pos] = @ + Signed(f.side, f.qty)]
    /\ row' = [row EXCEPT ![f.pos] = f.snap]
    /\ late' = late

\* A statement whose client has given up reaches its row.
Land ==
    /\ \E w \in late : row' = RowWritten(w.pos, w.snap) /\ late' = late \ {w}
    /\ UNCHANGED <<memory, control, orders, orderQty, bounds, stale>>
-----------------------------------------------------------------------------
(* flushPendingFills: the head is retried until it is durable; the first   *)
(* failure ends the pass.                                                  *)

FlushHead == phase = "flush" /\ pending # <<>>
FlushReturns == phase' = resume /\ resume' = "idle"

Drop ==
    /\ pending' = Tail(pending)
    /\ issue' = issue \ {TokenOf[Head(pending).pos]}

FlushCommits ==
    /\ FlushHead
    /\ Head(pending).order \notin orders
    /\ FillAccepted(row[Head(pending).pos], Head(pending))
    /\ Commit(Head(pending))
    /\ Drop
    /\ stale' = stale \ {Head(pending).pos}
    /\ UNCHANGED <<mem, book, bookQty, bookOk, control, bounds>>

\* Mutant of FlushDuplicate: a duplicate throws like any other conflict.
FlushDuplicateThrows ==
    /\ FlushHead
    /\ Head(pending).order \in orders
    /\ FlushReturns
    /\ UNCHANGED <<memory, todo, cur, stopping, durable, bounds, stale>>

\* A duplicate answers false and does not reapply its snapshot.
FlushDuplicate ==
    /\ FlushHead
    /\ Head(pending).order \in orders
    /\ Drop
    /\ stale' = stale \cup {Head(pending).pos}
    /\ UNCHANGED <<mem, book, bookQty, bookOk, control, durable, bounds>>

\* Mutant of FlushFails: the fill leaves the queue before its write is known.
FlushFailsDropping ==
    /\ FlushHead
    /\ Fault
    /\ Drop
    /\ FlushReturns
    /\ UNCHANGED <<mem, book, bookQty, bookOk, todo, cur, stopping, durable,
                   nextOrder, crashes, stale>>

\* The transaction throws because the row does not match the fill, or the database
\* fails before the commit or after it; the pass ends with the fill still queued.
FlushFails ==
    /\ FlushHead
    /\ IF Head(pending).order \notin orders /\ ~FillAccepted(row[Head(pending).pos], Head(pending))
       THEN UNCHANGED <<durable, faults>>
       ELSE /\ Fault
            /\ \/ UNCHANGED durable
               \/ Head(pending).order \notin orders /\ Commit(Head(pending))
    /\ FlushReturns
    /\ UNCHANGED <<memory, todo, cur, stopping, nextOrder, crashes, stale>>

FlushDone ==
    /\ phase = "flush" /\ pending = <<>>
    /\ FlushReturns
    /\ UNCHANGED <<memory, todo, cur, stopping, durable, bounds, stale>>
-----------------------------------------------------------------------------
(* decisionCycle: flush, then every open position, then entries.           *)

StartCycle ==
    /\ phase = "idle" /\ ~stopping
    /\ phase' = "flush" /\ resume' = "load"
    /\ UNCHANGED <<memory, todo, cur, stopping, durable, bounds, stale>>

LoadPositions ==
    /\ phase = "load"
    /\ phase' = "monitor" /\ todo' = OpenPositions
    /\ UNCHANGED <<memory, resume, cur, stopping, durable, bounds, stale>>

\* The observation arrives and the position is marked.
Observe ==
    /\ phase = "monitor"
    /\ \E p \in todo : cur' = p /\ todo' = todo \ {p}
    /\ phase' = "persist"
    /\ UNCHANGED <<memory, resume, stopping, durable, bounds, stale>>

\* No market data: the loop reports it and goes on with the next position.
ObserveFails ==
    /\ phase = "monitor"
    /\ \E p \in todo : todo' = todo \ {p}
    /\ UNCHANGED <<memory, phase, resume, cur, stopping, durable, bounds, stale>>

\* Persist the evolving state, unless a fill of this position is still queued.
Persist ==
    /\ phase = "persist"
    /\ phase' = "exit"
    /\ \/ /\ HasPending(cur)
          /\ UNCHANGED <<issue, durable, faults, stale>>
       \/ /\ ~HasPending(cur)
          /\ UpdatePositionOk(cur, mem[cur])
          /\ issue' = issue \ {TokenOf[cur]}
       \/ /\ ~HasPending(cur)
          /\ UpdatePositionFails(cur, mem[cur])
          /\ issue' = issue \cup {TokenOf[cur]}
    /\ UNCHANGED <<mem, book, bookQty, bookOk, pending, resume, todo, cur,
                   stopping, nextOrder, crashes>>

\* No exit signal, a shutdown, or a sale that threw before it was filled.
Hold ==
    /\ phase = "exit"
    /\ phase' = "monitor" /\ cur' = NoPos
    /\ UNCHANGED <<memory, resume, todo, stopping, durable, bounds, stale>>

\* recordPaperFill, up to its flush: position s of p has just been committed in
\* memory by a confirmed fill of q units; the book takes it once per order id.
RecordFill(p, s, side, q) ==
    /\ nextOrder <= MaxOrders
    /\ nextOrder' = nextOrder + 1
    /\ mem' = [mem EXCEPT ![p] = s]
    /\ IF bookOk /\ nextOrder \notin book
       THEN /\ book' = book \cup {nextOrder}
            /\ bookQty' = [bookQty EXCEPT ![p] = @ + Signed(side, q)]
       ELSE UNCHANGED <<book, bookQty>>
    /\ pending' = Append(pending, [order |-> nextOrder, pos |-> p, side |-> side,
                                   qty |-> q, snap |-> s])
    /\ phase' = "flush"
    /\ UNCHANGED <<bookOk, todo, stopping, durable, crashes, stale>>

\* executeSale of a PAPER position: a sale whose intent the journal could not take
\* still executes, and leaves a journal issue behind.
ExecuteSale(p, fraction) ==
    /\ ~stopping
    /\ CanSell(mem[p], fraction)
    /\ LET q == SellQuantity(mem[p], fraction)
       IN RecordFill(p, Sold(mem[p], fraction, q, nextOrder), "SELL", q)
    /\ \/ UNCHANGED <<issue, faults>>
       \/ Fault /\ issue' = issue \cup {TokenOf[p]}

\* The journal could not take the intent, and then the router or PositionManager
\* refused the sale: nothing was filled.
SaleFails ==
    /\ ~stopping
    /\ Fault
    /\ \/ /\ phase = "exit"
          /\ issue' = issue \cup {TokenOf[cur]}
          /\ phase' = "monitor" /\ cur' = NoPos
       \/ /\ phase = "ai"
          /\ \E p \in OpenPositions : issue' = issue \cup {TokenOf[p]}
          /\ UNCHANGED <<phase, cur>>
    /\ UNCHANGED <<mem, book, bookQty, bookOk, pending, resume, todo, stopping,
                   durable, nextOrder, crashes, stale>>

\* Take profit 1 sells half of an OPEN position.
ExecutePartialTp1 ==
    /\ phase = "exit"
    /\ mem[cur].status = "OPEN" /\ mem[cur].tp1
    /\ ExecuteSale(cur, "half")
    /\ resume' = "monitor" /\ cur' = NoPos

\* Every other signal sells what is left.
ExecuteExit ==
    /\ phase = "exit"
    /\ ExecuteSale(cur, "all")
    /\ resume' = "monitor" /\ cur' = NoPos

MonitorDone ==
    /\ phase = "monitor" /\ todo = {}
    /\ phase' = "entry"
    /\ UNCHANGED <<memory, resume, todo, cur, stopping, durable, bounds, stale>>

\* executeEntry of a new position id, for the strategies, the AI or a copied wallet.  A
\* journal that cannot take the intent or the risk decision ends it before the
\* order, so a failed entry changes nothing.
ExecuteEntry ==
    /\ phase \in {"entry", "ai", "copy"}
    /\ ~stopping /\ ~AccountingProblems
    /\ \E p \in Pos, tp1 \in BOOLEAN :
          /\ mem[p].status = "NONE" /\ row[p].status = "NONE"
          /\ RecordFill(p, Opened(tp1), "BUY", Size)
    /\ resume' = phase
    /\ UNCHANGED <<issue, faults, cur>>

EntriesDone ==
    /\ phase = "entry"
    /\ phase' = "ai"
    /\ UNCHANGED <<memory, resume, todo, cur, stopping, durable, bounds, stale>>
-----------------------------------------------------------------------------
(* runAiAction: after the deterministic exits of the same tick.            *)

AiExit ==
    /\ phase = "ai"
    /\ \E p \in Pos : ExecuteSale(p, "all")
    /\ resume' = "ai" /\ UNCHANGED cur

\* Mutant of Patched: the queued snapshots keep the old exits.
Unpatched(p, s) == pending

\* The tightened exits, written into every queued snapshot of the position so
\* that the flush does not put the old ones into the row.
Patched(p, s) ==
    [i \in 1..Len(pending) |->
        IF pending[i].pos = p
        THEN [pending[i] EXCEPT !.snap = WithExits(@, s.stop, s.tp1, s.updatedAt)]
        ELSE pending[i]]

\* A failing updatePosition is caught and audited; it leaves no issue behind.
Tighten(p, s) ==
    /\ s # mem[p]
    /\ mem' = [mem EXCEPT ![p] = s]
    /\ pending' = Patched(p, s)
    /\ IF HasPending(p)
       THEN /\ phase' = "flush" /\ resume' = "ai"
            /\ UNCHANGED <<durable, faults, stale>>
       ELSE /\ UNCHANGED <<phase, resume>>
            /\ UpdatePositionOk(p, s) \/ UpdatePositionFails(p, s)

AiTighten ==
    /\ phase = "ai" /\ ~stopping
    /\ \E p \in Pos, stop \in 1..MaxStop, arm \in BOOLEAN :
          Tighten(p, Tightened(mem[p], stop, arm))
    /\ UNCHANGED <<book, bookQty, bookOk, issue, todo, cur, stopping, nextOrder, crashes>>

AiDone ==
    /\ phase = "ai"
    /\ phase' = "copy"
    /\ UNCHANGED <<memory, resume, todo, cur, stopping, durable, bounds, stale>>

CopyDone ==
    /\ phase = "copy"
    /\ phase' = "idle"
    /\ UNCHANGED <<memory, resume, todo, cur, stopping, durable, bounds, stale>>
-----------------------------------------------------------------------------
(* Shutdown, crash and restart.                                            *)

\* SIGTERM: the active cycle runs to its end without new sales or entries.
Shutdown ==
    /\ Running /\ ~stopping
    /\ crashes < MaxCrashes /\ crashes' = crashes + 1
    /\ stopping' = TRUE
    /\ UNCHANGED <<memory, phase, resume, todo, cur, durable, nextOrder, faults, stale>>

ShutdownFlush ==
    /\ phase = "idle" /\ stopping
    /\ phase' = "flush" /\ resume' = "stop"
    /\ UNCHANGED <<memory, todo, cur, stopping, durable, bounds, stale>>

Exit ==
    /\ phase' = "down" /\ resume' = "idle" /\ stopping' = FALSE
    /\ mem' = [p \in Pos |-> NoPosition]
    /\ book' = {} /\ bookQty' = [p \in Pos |-> 0] /\ bookOk' = FALSE
    /\ pending' = <<>> /\ issue' = {} /\ todo' = {} /\ cur' = NoPos /\ stale' = {}
    /\ UNCHANGED <<durable, nextOrder, faults>>

\* process.exit(0): what the last flush did not write is gone.
ShutdownDone == phase = "stop" /\ Exit /\ UNCHANGED crashes

\* An unhandled rejection, a kill or a power loss, at any await.
Crash ==
    /\ Running
    /\ crashes < MaxCrashes /\ crashes' = crashes + 1
    /\ Exit

RestoredPositions == [p \in Pos |-> Restored(row[p])]

\* buildChainRuntime: restore the positions, replay the orders into a new book,
\* and keep the book only if the two reconcile.
Restart ==
    /\ phase = "down" /\ late = {}
    /\ phase' = "idle"
    /\ mem' = RestoredPositions
    /\ IF \A p \in Pos : RestoredPositions[p].tokens = orderQty[p]
       THEN book' = orders /\ bookQty' = orderQty /\ bookOk' = TRUE
       ELSE UNCHANGED <<book, bookQty, bookOk>>
    /\ UNCHANGED <<pending, issue, resume, todo, cur, stopping, durable, bounds, stale>>

\* Mutant of RestartBlind: the failed restore does not give up the book.
RestartBlindWithBook ==
    /\ phase = "down" /\ late = {}
    /\ Fault
    /\ phase' = "idle"
    /\ mem' \in {RestoredPositions, [p \in Pos |-> NoPosition]}
    /\ bookOk' = TRUE
    /\ UNCHANGED <<book, bookQty, pending, issue, resume, todo, cur, stopping,
                   durable, nextOrder, crashes, stale>>

\* The journal fails during the restore, before or after the positions were read:
\* the process runs on without a book, so it exits what it knows and enters nothing.
RestartBlind ==
    /\ phase = "down" /\ late = {}
    /\ Fault
    /\ phase' = "idle"
    /\ mem' \in {RestoredPositions, [p \in Pos |-> NoPosition]}
    /\ UNCHANGED <<book, bookQty, bookOk, pending, issue, resume, todo, cur, stopping,
                   durable, nextOrder, crashes, stale>>
-----------------------------------------------------------------------------
Flush == FlushCommits \/ FlushDuplicate \/ FlushFails \/ FlushDone
Monitor == \/ StartCycle \/ LoadPositions \/ Observe \/ ObserveFails \/ Persist
           \/ Hold \/ SaleFails \/ ExecutePartialTp1 \/ ExecuteExit \/ MonitorDone
Entries == ExecuteEntry \/ EntriesDone \/ CopyDone
Ai == AiExit \/ AiTighten \/ AiDone
Process == Shutdown \/ ShutdownFlush \/ ShutdownDone \/ Crash \/ Restart \/ RestartBlind

Next == Flush \/ Monitor \/ Entries \/ Ai \/ Process \/ Land

Spec == Init /\ [][Next]_vars

\* The timer starts every cycle and a cycle runs on; the server finishes what it
\* holds; the daemon restarts a dead process.  A database call fails only
\* MaxFaults times: the database comes back.
CycleStep == \/ FlushCommits \/ FlushDuplicate \/ FlushDone
             \/ StartCycle \/ LoadPositions \/ Observe \/ Persist \/ Hold
             \/ MonitorDone \/ EntriesDone \/ AiDone \/ CopyDone
             \/ ShutdownFlush \/ ShutdownDone

FairSpec == Spec /\ WF_vars(CycleStep) /\ WF_vars(Land) /\ WF_vars(Restart)
-----------------------------------------------------------------------------
(* Properties.                                                             *)

\* Every variable keeps its type.
ControlTypeOK ==
    /\ phase \in Phases /\ resume \in ReturnPoints
    /\ todo \subseteq Pos /\ cur \in Pos \cup {NoPos}
    /\ phase \in {"persist", "exit"} => cur \in Pos

MemoryTypeOK ==
    /\ mem \in [Pos -> PositionRecord]
    /\ book \subseteq Nat /\ bookQty \in [Pos -> Int]
    /\ pending \in Seq(Fill)
    /\ issue \subseteq Tokens /\ stale \subseteq Pos

DurableTypeOK ==
    /\ row \in [Pos -> PositionRecord]
    /\ orders \subseteq Nat /\ orderQty \in [Pos -> Int]
    /\ late \in SUBSET [pos : Pos, snap : PositionRecord]
    /\ nextOrder \in Nat /\ faults \in Nat /\ crashes \in Nat

TypeOK ==
    /\ ControlTypeOK /\ MemoryTypeOK /\ DurableTypeOK
    /\ bookOk \in BOOLEAN /\ stopping \in BOOLEAN

\* The positions table always holds what the orders table bought and sold, whatever
\* was lost, applied late or cut off by a crash: no row write gets ahead of, or
\* falls behind, the confirmed fills (recordConfirmedPaperFill, updatePositionRow).
DurableReconciled == \A p \in Pos : row[p].tokens = orderQty[p]

\* A row that is not closed can be restored as an executable position: restart
\* never turns a journaled position into an ERROR exposure that nothing exits.
RowRestorable == \A p \in Pos : Restored(row[p]).status # "ERROR"

\* The inductive invariant behind the two above.  Snapshots(p) is everything that is or
\* may still be written to the row of p: two of them that name the same exit order
\* hold the same quantity, so a write that passes the exit_order_id guard cannot
\* change what the fills add up to.
Snapshots(p) ==
    {mem[p], row[p]}
    \cup {pending[i].snap : i \in {j \in 1..Len(pending) : pending[j].pos = p}}
    \cup {w.snap : w \in {v \in late : v.pos = p}}

SnapshotOK(s) ==
    /\ s.status \in {"NONE", "OPEN", "PARTIAL_EXIT", "CLOSED"}
    /\ s.status = "NONE" => s.tokens = 0
    /\ s.status = "OPEN" => s.tokens = Size /\ s.exitOrder = NoOrder
    /\ s.status = "PARTIAL_EXIT" => s.exitOrder # NoOrder /\ ~s.tp1 /\ s.tokens > 0
    /\ s.status = "CLOSED" => s.exitOrder # NoOrder /\ s.tokens = 0
    /\ s.exitOrder < nextOrder

SnapshotsAgree(p) ==
    \A s \in Snapshots(p) :
        /\ SnapshotOK(s)
        /\ \A t \in Snapshots(p) :
              s.status # "NONE" /\ t.status # "NONE" /\ s.exitOrder = t.exitOrder
                => s.tokens = t.tokens

\* A queued snapshot is never ahead of the position in memory.
QueueBehind ==
    \A i \in 1..Len(pending) : pending[i].snap.exitOrder <= mem[pending[i].pos].exitOrder

\* Only positions that exist are monitored, and only those have writes outstanding.
MonitoredExist == \A p \in Pos : p \in todo \/ p = cur => mem[p].status # "NONE"
LateExist == \A w \in late : w.snap.status # "NONE"

DownEmpty == phase = "down" => todo = {} /\ cur = NoPos /\ pending = <<>>

LedgerInv ==
    /\ TypeOK
    /\ DurableReconciled
    /\ \A p \in Pos : SnapshotsAgree(p)
    /\ QueueBehind /\ MonitoredExist /\ LateExist /\ DownEmpty

\* PaperBook.reconciliationIssues stays empty: no sequence of fills, tightenings,
\* lost replies and restarts leaves the book and the positions apart.
BookReconciled == bookOk => ReconciliationIssues = {}

\* Every fill the book counts is in the orders table or in the queue: a confirmed
\* fill is never dropped before it is durable.
LedgerComplete == bookOk => book = orders \cup PendingOrders

\* The head of the queue can always be written: no queued fill is poisoned, so the
\* "entries blocked" state of a failed write can end.
HeadAcceptable ==
    pending # <<>> => \/ Head(pending).order \in orders
                      \/ FillAccepted(row[Head(pending).pos], Head(pending))

\* Only one entry can ever be waiting for the journal, and it is written first: no
\* new position is opened while an earlier fill is not durable.
OnlyHeadBuys == \A i \in 1..Len(pending) : pending[i].side = "BUY" => i = 1

\* With nothing queued for a position, its row shows the holdings memory has, so a
\* crash at that point loses no sale and repeats none.
SettledAgree ==
    \A p \in Pos : mem[p].status # "NONE" /\ ~HasPending(p) =>
        /\ row[p].status = mem[p].status
        /\ row[p].tokens = mem[p].tokens
        /\ row[p].exitOrder = mem[p].exitOrder

\* The comment of decisionCycle: restart restores the tightened exits.  Unless the
\* journal refused or skipped the last change, the row of an open position without
\* queued fills is the position, exits included.
ExitsDurable ==
    \A p \in Pos : mem[p].status \in OpenStatuses /\ ~HasPending(p) /\ p \notin stale
        => row[p] = mem[p]

\* A chain whose restore succeeded manages every position the table has open.
ExposureManaged ==
    bookOk => \A p \in Pos : row[p].status \in OpenStatuses => mem[p].status # "NONE"

\* The stop of a journaled position never moves down, across late writes, queued
\* snapshots and restarts.
DurableRatchet ==
    [][\A p \in Pos : row[p].status # "NONE" => row'[p].stop >= row[p].stop]_vars

\* A closed row stays closed and empty, and no order leaves the orders table.
ClosedFinal ==
    [][/\ orders \subseteq orders'
       /\ \A p \in Pos : row[p].status = "CLOSED" =>
             row'[p].status = "CLOSED" /\ row'[p].tokens = 0]_vars

(***************************************************************************)
(* The refinement.  A position memory does not know counts as its row has  *)
(* it, and a fill whose commit was not answered is durable already.        *)
(***************************************************************************)
HoldingOf(s) ==
    [life |-> CASE s.status = "NONE" -> "none" [] s.status = "CLOSED" -> "closed" [] OTHER -> "open",
     units |-> s.tokens]

Counted == [p \in Pos |-> HoldingOf(IF mem[p].status = "NONE" THEN row[p] ELSE mem[p])]
Kept    == [p \in Pos |-> HoldingOf(row[p])]

NotDurable == IF pending # <<>> /\ Head(pending).order \in orders THEN Tail(pending) ELSE pending
Waiting == [i \in 1..Len(NotDurable) |->
               [pos |-> NotDurable[i].pos, to |-> HoldingOf(NotDurable[i].snap)]]

WB == INSTANCE WriteBehind WITH Position <- Pos, Whole <- Size,
                                counted <- Counted, kept <- Kept, waiting <- Waiting

\* Memory, queue and tables together are a write-behind ledger: fills become durable in
\* the order they were confirmed, each exactly once and whole, whatever replies are
\* lost, retried or late, and a crash loses exactly the ones that were not durable.
WriteBehindImplemented == WB!WriteBehindSpec

\* Liveness: a confirmed fill that waits is in the tables in the end, whatever failed
\* before, unless the process goes down first: the queue never gets stuck behind a
\* head the database refuses, and nothing leaves it unwritten (flushPendingFills).
FillsDrain ==
    \A order \in 1 .. MaxOrders :
       order \in PendingOrders ~> (order \in orders \/ phase = "down")
=============================================================================

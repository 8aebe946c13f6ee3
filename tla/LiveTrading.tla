----------------------------- MODULE LiveTrading -----------------------------
(***************************************************************************)
(* LIVE mode: executeEntry and executeSale of apps/trader/src/index.ts     *)
(* with LiveExecutionRouter, PositionManager.sellPosition for a position   *)
(* that is not PAPER, and the journal's position writes.  A transaction,   *)
(* once submitted, is included by the chain, fails there or never appears; *)
(* the router waits a minute for an answer and then reports it unknown.    *)
(*                                                                         *)
(* A slot of Pos is one strategy's holding of one token: it opens when a   *)
(* BUY confirms, and the strategy may enter again while it is free.        *)
(* Abstracted: prices, the claim of the intent (its id is fresh each time, *)
(* so no claim is ever refused here), the orders rows, of which only the   *)
(* failure to write one matters, and the PAPER book (PaperLedger).         *)
(***************************************************************************)
EXTENDS Integers, FiniteSets

CONSTANTS Pos,         \* slots
          NoPos,       \* no slot
          Size,        \* token units one BUY delivers
          MaxTx,       \* bound: transactions
          MaxTightens, \* bound: updatedAt up to which an AI tighten is explored
          MaxFaults,   \* bound: database calls that fail
          MaxCrashes,  \* bound: crashes
          MaxLate      \* bound: statements outstanding at the server at once

ASSUME LiveAssumption ==
    /\ NoPos \notin Pos
    /\ Size \in Nat /\ Size > 1
    /\ {MaxTx, MaxTightens, MaxFaults, MaxCrashes, MaxLate} \subseteq Nat

VARIABLES
    mem,      \* PositionManager.positions
    row,      \* the positions table
    late,     \* position writes the server will finish without a client
    phase,    \* where the cycle is
    cur,      \* the position it works on
    fraction, \* the share of it being sold
    txs,      \* every transaction submitted
    held,     \* the wallet's tokens, per slot
    faults, crashes

process == <<mem, phase, cur, fraction>>
durable == <<row, late>>
vars    == <<process, durable, txs, held, faults, crashes>>

OpenStatuses == {"OPEN", "PARTIAL_EXIT"}
Statuses == OpenStatuses \cup {"NONE", "CLOSING", "CLOSED"}
Position == [status : Statuses, tokens : Nat, updatedAt : Nat]
Nothing  == [status |-> "NONE", tokens |-> 0, updatedAt |-> 0]

\* fate: what the chain does.  known: whether the program was told.  boot: which
\* run of the program submitted it.  qty: the tokens quoted.
Tx == [id : 1..MaxTx, pos : Pos, side : {"BUY", "SELL"}, qty : 1..Size,
       fate : {"pending", "landed", "failed"}, known : BOOLEAN, boot : 0..MaxCrashes]
Write == [op : {"INSERT", "UPDATE"}, pos : Pos, snap : Position]

Active == {x \in txs : x.id = Cardinality(txs)}   \* the one being monitored
Of(p, side) == {x \in txs : x.pos = p /\ x.side = side}
Unresolved(p, side) == {x \in Of(p, side) : ~x.known}
Running == phase # "down"

Init ==
    /\ mem = [p \in Pos |-> Nothing] /\ row = [p \in Pos |-> Nothing]
    /\ late = {} /\ phase = "idle" /\ cur = NoPos /\ fraction = "all"
    /\ txs = {} /\ held = [p \in Pos |-> 0]
    /\ faults = 0 /\ crashes = 0
-----------------------------------------------------------------------------
(* The journal's writes of a row.                                          *)

Fault == faults < MaxFaults /\ faults' = faults + 1

\* Mutant of RowAccepts: the UPDATE does not compare updated_at.
RowAcceptsAnyTime(r, s) ==
    /\ r.status # "NONE"
    /\ r.status = "CLOSED" => s.status = "CLOSED"

\* updatePositionRow's WHERE clause for a row that is not PAPER.
RowAccepts(r, s) ==
    /\ r.status # "NONE"
    /\ r.updatedAt <= s.updatedAt
    /\ r.status = "CLOSED" => s.status = "CLOSED"

Updated(p, s) == IF RowAccepts(row[p], s) THEN [row EXCEPT ![p] = s] ELSE row

Inserted(p, s) == IF row[p].status = "NONE" THEN [row EXCEPT ![p] = s] ELSE row

\* A call that fails: the server never got the statement, or will still finish it.
WriteFails(op, p) ==
    /\ Fault /\ row' = row
    /\ \/ late' = late
       \/ Cardinality(late) < MaxLate /\ late' = late \cup {[op |-> op, pos |-> p, snap |-> mem[p]]}

\* updatePosition of the position as it is now.
UpdatePosition(p) ==
    \/ row' = Updated(p, mem[p]) /\ UNCHANGED <<late, faults>>
    \/ WriteFails("UPDATE", p)

\* A statement whose client has given up reaches the table.
Land ==
    /\ \E w \in late :
          /\ row' = IF w.op = "INSERT" THEN Inserted(w.pos, w.snap) ELSE Updated(w.pos, w.snap)
          /\ late' = late \ {w}
    /\ UNCHANGED <<process, txs, held, faults, crashes>>
-----------------------------------------------------------------------------
(* The router and the chain.                                               *)

\* LiveExecutionRouter up to submitTransaction.
Submit(p, side, qty) ==
    /\ Cardinality(txs) < MaxTx
    /\ txs' = txs \cup {[id |-> Cardinality(txs) + 1, pos |-> p, side |-> side, qty |-> qty,
                         fate |-> "pending", known |-> FALSE, boot |-> crashes]}

\* A block includes a transaction or rejects it.  A wallet sells no more than it
\* holds; a BUY delivers the tokens quoted or, within the slippage, fewer.
Chain ==
    /\ \E x \in txs, fate \in {"landed", "failed"} :
          /\ x.fate = "pending"
          /\ txs' = (txs \ {x}) \cup {[x EXCEPT !.fate = fate]}
          /\ CASE fate = "failed" -> held' = held
               [] fate = "landed" /\ x.side = "BUY" ->
                    \E n \in {x.qty - 1, x.qty} : held' = [held EXCEPT ![x.pos] = @ + n]
               [] OTHER -> /\ x.qty <= held[x.pos]
                           /\ held' = [held EXCEPT ![x.pos] = @ - x.qty]
    /\ UNCHANGED <<process, durable, faults, crashes>>

\* monitorTransaction answers confirmed or failed.
Told(fate) == \E x \in Active : /\ x.fate = fate
                                /\ txs' = (txs \ {x}) \cup {[x EXCEPT !.known = TRUE]}
-----------------------------------------------------------------------------
(* executeEntry.                                                           *)

\* Everything before the submission may end the entry without a trace.
SubmitBuy ==
    /\ phase = "idle"
    /\ \E p \in Pos :
          /\ mem[p].status = "NONE" /\ row[p].status = "NONE"
          /\ \A w \in late : w.pos # p
          /\ Submit(p, "BUY", Size) /\ cur' = p
    /\ phase' = "buying"
    /\ UNCHANGED <<mem, fraction, durable, held, faults, crashes>>

BuyConfirmed ==
    /\ phase = "buying" /\ Told("landed")
    /\ mem' = [mem EXCEPT ![cur] = [status |-> "OPEN", tokens |-> Size, updatedAt |-> 1]]
    /\ phase' = "insert"
    /\ UNCHANGED <<cur, fraction, durable, held, faults, crashes>>

\* The router throws: executeEntry reports it and returns false.
BuyFails ==
    /\ phase = "buying"
    /\ Told("failed") \/ UNCHANGED txs
    /\ phase' = "idle" /\ cur' = NoPos
    /\ UNCHANGED <<mem, fraction, durable, held, faults, crashes>>

\* recordExecutionResult, then insertPosition.
InsertPosition ==
    /\ phase = "insert"
    /\ row' = Inserted(cur, mem[cur])
    /\ phase' = "idle" /\ cur' = NoPos
    /\ UNCHANGED <<mem, fraction, late, txs, held, faults, crashes>>

\* Either of them throws: the position is held and managed, and has no row yet.
InsertFails ==
    /\ phase = "insert" /\ WriteFails("INSERT", cur)
    /\ phase' = "idle" /\ cur' = NoPos
    /\ UNCHANGED <<mem, fraction, txs, held, crashes>>
-----------------------------------------------------------------------------
(* The monitoring loop and executeSale.                                    *)

\* The write of every tick, before the exit.
Persist ==
    /\ phase = "idle"
    /\ \E p \in Pos :
          /\ mem[p].status \in OpenStatuses
          /\ cur' = p
          /\ UpdatePosition(p)
    /\ phase' = "exit"
    /\ UNCHANGED <<mem, fraction, txs, held, crashes>>

\* An EXIT the AI proposed: no write comes before it.
AiExit ==
    /\ phase = "idle"
    /\ \E p \in Pos : mem[p].status \in OpenStatuses /\ cur' = p
    /\ phase' = "exit"
    /\ UNCHANGED <<mem, fraction, durable, txs, held, faults, crashes>>

\* A TIGHTEN the AI proposed: tightenExits, then updatePosition.
Tighten ==
    /\ phase = "idle"
    /\ \E p \in Pos :
          /\ mem[p].status \in OpenStatuses /\ mem[p].updatedAt < MaxTightens
          /\ mem' = [mem EXCEPT ![p].updatedAt = @ + 1] /\ cur' = p
    /\ phase' = "record"
    /\ UNCHANGED <<fraction, durable, txs, held, faults, crashes>>

\* No exit signal, or the exit ends before the router is called.
Hold ==
    /\ phase = "exit"
    /\ phase' = "idle" /\ cur' = NoPos
    /\ UNCHANGED <<mem, fraction, durable, txs, held, faults, crashes>>

\* Mutant of Exposed: the position stays open when its sale was not confirmed.
StillOpen(s) == [s EXCEPT !.updatedAt = @ + 1]

\* sellPosition's catch: an unknown real fill must remain exposure.
Exposed(s) == [s EXCEPT !.status = "CLOSING", !.updatedAt = @ + 1]

\* The quote asks for a dollar amount in millionths, not for the tokens held: any
\* quantity the wallet can sell may come back.
SubmitSale ==
    /\ phase = "exit" /\ mem[cur].status \in OpenStatuses
    /\ \E f \in {"half", "all"}, q \in 1..Size :
          /\ f = "half" => mem[cur].status = "OPEN" /\ mem[cur].tokens > 1
          /\ fraction' = f /\ Submit(cur, "SELL", q)
    /\ phase' = "selling"
    /\ UNCHANGED <<mem, cur, durable, held, faults, crashes>>

\* The intent expired, the quote or the simulation failed: nothing was submitted.
SaleRefused ==
    /\ phase = "exit" /\ mem[cur].status \in OpenStatuses
    /\ mem' = [mem EXCEPT ![cur] = Exposed(@)]
    /\ phase' = "closing"
    /\ UNCHANGED <<cur, fraction, durable, txs, held, faults, crashes>>

\* Mutant of QuantityMatches: the confirmed quantity is taken as it comes.
QuantityAnything(s, q) == TRUE

\* A full exit must have sold all of it and a partial one must not.
QuantityMatches(s, q) == IF fraction = "all" THEN q = s.tokens ELSE q < s.tokens

SaleConfirmed ==
    /\ phase = "selling" /\ Told("landed")
    /\ \E x \in Active :
          IF QuantityMatches(mem[cur], x.qty)
          THEN /\ mem' = [mem EXCEPT ![cur] =
                             [status |-> IF fraction = "all" THEN "CLOSED" ELSE "PARTIAL_EXIT",
                              tokens |-> @.tokens - x.qty, updatedAt |-> @.updatedAt + 1]]
               /\ phase' = "record"
          ELSE /\ mem' = [mem EXCEPT ![cur] = Exposed(@)]
               /\ phase' = "closing"
    /\ UNCHANGED <<cur, fraction, durable, held, faults, crashes>>

\* The chain rejected it, or no answer came in time.
SaleFails ==
    /\ phase = "selling"
    /\ Told("failed") \/ UNCHANGED txs
    /\ mem' = [mem EXCEPT ![cur] = Exposed(@)]
    /\ phase' = "closing"
    /\ UNCHANGED <<cur, fraction, durable, held, faults, crashes>>

\* recordExecutionResult throws: the row is not written.  (After a TIGHTEN: the
\* UPDATE is lost.)
RecordFails ==
    /\ phase = "record" /\ Fault
    /\ phase' = "idle" /\ cur' = NoPos
    /\ UNCHANGED <<mem, fraction, durable, txs, held, crashes>>

\* Mutant of WriteStatus: a sale that threw is written like one that sold out.
WriteStatusClosed ==
    /\ phase \in {"record", "closing"}
    /\ \/ phase = "record" /\ UpdatePosition(cur)
       \/ /\ phase = "closing" /\ UNCHANGED <<late, faults>>
          /\ row' = Updated(cur, [mem[cur] EXCEPT !.status = "CLOSED"])
    /\ phase' = "idle" /\ cur' = NoPos
    /\ UNCHANGED <<mem, fraction, txs, held, crashes>>

\* updatePosition, after a recorded sale or a TIGHTEN, or for an unresolved sale.
WriteStatus ==
    /\ phase \in {"record", "closing"}
    /\ UpdatePosition(cur)
    /\ phase' = "idle" /\ cur' = NoPos
    /\ UNCHANGED <<mem, fraction, txs, held, crashes>>
-----------------------------------------------------------------------------
Crash ==
    /\ Running
    /\ crashes < MaxCrashes /\ crashes' = crashes + 1
    /\ phase' = "down" /\ cur' = NoPos
    /\ mem' = [p \in Pos |-> Nothing]
    /\ UNCHANGED <<fraction, durable, txs, held, faults>>

\* Mutant of Restored: an unresolved position is put back as an open one.
RestoredOpen(r) ==
    CASE r.status = "CLOSED"  -> Nothing
      [] r.status = "CLOSING" -> [r EXCEPT !.status = "OPEN"]
      [] OTHER                -> r

\* getOpenPositions selects the rows that are not closed; restorePosition keeps
\* their status.
Restored(r) == IF r.status = "CLOSED" THEN Nothing ELSE r

Restart ==
    /\ phase = "down" /\ late = {}
    /\ phase' = "idle"
    /\ mem' = [p \in Pos |-> Restored(row[p])]
    /\ UNCHANGED <<cur, fraction, durable, txs, held, faults, crashes>>

Buy  == SubmitBuy \/ BuyConfirmed \/ BuyFails \/ InsertPosition \/ InsertFails
Sell == \/ Persist \/ AiExit \/ Tighten \/ Hold \/ SubmitSale \/ SaleRefused \/ SaleConfirmed \/ SaleFails
        \/ RecordFails \/ WriteStatus
Next == Buy \/ Sell \/ Land \/ Chain \/ Crash \/ Restart

Spec == Init /\ [][Next]_vars
-----------------------------------------------------------------------------
TypeOK ==
    /\ mem \in [Pos -> Position] /\ row \in [Pos -> Position]
    /\ late \subseteq Write
    /\ phase \in {"idle", "buying", "insert", "exit", "selling", "record", "closing", "down"}
    /\ cur \in Pos \cup {NoPos} /\ fraction \in {"half", "all"}
    /\ txs \subseteq Tx /\ held \in [Pos -> Nat]
    /\ faults \in 0..MaxFaults /\ crashes \in 0..MaxCrashes

\* "An unknown real fill must remain exposure, never silently become an executable
\* OPEN position again": a position one of whose sales this run of the program
\* submitted and never heard of is not open, whatever happened since; and one
\* whose row says so is not opened by a restart.
UnresolvedNotExecutable ==
    \A p \in Pos :
        /\ Running /\ row[p].status = "CLOSING" => mem[p].status \notin OpenStatuses
        /\ phase # "selling" =>
              \A x \in Unresolved(p, "SELL") :
                  x.boot = crashes /\ Running => mem[p].status \notin OpenStatuses

\* What an executable position says it holds is what its answered transactions
\* bought less what they sold, however its exits were split and refused: the
\* quantity a later full exit is compared with.
TokensAccounted ==
    \A p \in Pos :
        LET sold == {x \in Of(p, "SELL") : x.fate = "landed"}
        IN  /\ mem[p].status \in OpenStatuses
            /\ phase # "selling"
            /\ \A x \in txs : x.pos = p => x.known /\ x.boot = crashes
            => \/ sold = {} /\ mem[p].tokens = Size
               \/ \E x \in sold : sold = {x} /\ mem[p].tokens = Size - x.qty

\* A row is CLOSED only when the chain confirmed that the wallet has nothing left
\* of what was bought for it: no crash, late write or unresolved sale closes one.
ClosedSold ==
    \A p \in Pos :
        row[p].status = "CLOSED" /\ Cardinality(Of(p, "BUY")) = 1
            => held[p] = 0 /\ row[p].tokens = 0

\* The row of an unresolved or closed position is final, also for a statement of
\* an earlier moment that reaches the table late.
RowFinal ==
    [][\A p \in Pos : row[p].status \in {"CLOSING", "CLOSED"} =>
                          row'[p].status = row[p].status]_vars
-----------------------------------------------------------------------------
\* docs/architecture.md: an UNKNOWN status is never resubmitted.  Of a BUY: while
\* the chain's answer to one is unknown the strategy does not buy the slot again.
UnknownNeverRebought ==
    phase = "buying" => Cardinality(Unresolved(cur, "BUY")) <= 1

\* index.ts, executeSale: an unresolved real transaction is persisted before a
\* restart can retry it.  So no sale is submitted while the chain's answer to an
\* earlier sale of the position is unknown.
UnknownNeverResold ==
    phase = "selling" => Cardinality(Unresolved(cur, "SELL")) <= 1
=============================================================================

------------------------------ MODULE Positions ------------------------------
(***************************************************************************)
(* One trading position and what packages/position may do to it, and the   *)
(* two ways packages/core/src/db/journal.ts writes it to its row.  Pure    *)
(* operators: PaperLedger and PositionManager build their actions on them. *)
(*                                                                         *)
(* Kept of a Position: its status, the exact remaining token units, the    *)
(* stop-loss level, whether TP1 is still armed, the last exit order and    *)
(* updatedAt (a logical time that advances with every change).  Abstracted *)
(* away: prices, the peak and the dollar figures, which follow the token   *)
(* quantity linearly (sizeUsd = initialSizeUsd * sizeTokens / initial) and *)
(* are checked by the code with the same equations as the tokens.          *)
(***************************************************************************)
EXTENDS Integers

CONSTANTS Size,     \* token units one BUY fills (initialSizeTokens)
          MaxStop   \* stop-loss levels are 1..MaxStop: 1 is the stop of the entry, a
                    \* higher level is tighter

ASSUME SizeAssumption == Size \in Nat /\ Size > 1
ASSUME StopAssumption == MaxStop \in Nat /\ MaxStop > 0

NoOrder == 0
OpenStatuses == {"OPEN", "PARTIAL_EXIT"}
Statuses == OpenStatuses \cup {"NONE", "CLOSING", "CLOSED", "ERROR"}
Fractions == {"half", "all"}

\* A position as PositionManager holds it and as the positions table stores it;
\* status "NONE" is an id that is in neither.
PositionRecord == [status : Statuses, tokens : 0..Size, stop : 0..MaxStop,
                   tp1 : BOOLEAN, exitOrder : Nat, updatedAt : Nat]

NoPosition == [status |-> "NONE", tokens |-> 0, stop |-> 0, tp1 |-> FALSE,
               exitOrder |-> NoOrder, updatedAt |-> 0]

Opened(tp1) == [status |-> "OPEN", tokens |-> Size, stop |-> 1,
                tp1 |-> tp1, exitOrder |-> NoOrder, updatedAt |-> 1]

-----------------------------------------------------------------------------
(* Selling: reducePosition with 0.5 and exitPosition.                      *)

\* Mutant of SellQuantity: a full exit sells the size of the entry.
SellQuantityOfEntry(s, fraction) == IF fraction = "all" THEN Size ELSE s.tokens \div 2

\* A half is rounded down to the smallest unit, a full exit takes what is left.
SellQuantity(s, fraction) == IF fraction = "all" THEN s.tokens ELSE s.tokens \div 2

\* validateAccounting: what a version-2 PAPER position must satisfy to be sold,
\* committed or restored.
ValidAccounting(s) ==
    /\ s.tokens <= Size
    /\ s.status = "PARTIAL_EXIT" => s.exitOrder # NoOrder /\ ~s.tp1
    /\ s.status = "CLOSED" => s.tokens = 0 /\ s.exitOrder # NoOrder

CanSell(s, fraction) ==
    /\ s.status \in OpenStatuses
    /\ s.tokens > 0
    /\ ValidAccounting(s)
    /\ SellQuantity(s, fraction) > 0
    /\ fraction = "half" => SellQuantity(s, fraction) # s.tokens

\* Mutant of Sold: the remainder is taken from the entry size, not from what is left.
SoldFromEntry(s, fraction, q, order) ==
    [status |-> IF fraction = "all" THEN "CLOSED" ELSE "PARTIAL_EXIT",
     tokens |-> Size - q, stop |-> s.stop, tp1 |-> FALSE,
     exitOrder |-> order, updatedAt |-> s.updatedAt + 1]

\* The record a confirmed sale of q units commits: TP1 is spent by any sale.
Sold(s, fraction, q, order) ==
    [status |-> IF fraction = "all" THEN "CLOSED" ELSE "PARTIAL_EXIT",
     tokens |-> s.tokens - q, stop |-> s.stop, tp1 |-> FALSE,
     exitOrder |-> order, updatedAt |-> s.updatedAt + 1]

-----------------------------------------------------------------------------
(* Tightening: tightenExits.  The stop only moves up; TP1 cannot be armed  *)
(* again once a partial exit has spent it.                                 *)

\* Mutant of Tp1Arms: the "already spent" clause is missing.
Tp1ArmsAgain(s, arm) == arm /\ s.status \in OpenStatuses /\ ~s.tp1

StopTightens(s, stop) == s.status \in OpenStatuses /\ stop > s.stop
Tp1Arms(s, arm) == arm /\ s.status = "OPEN" /\ ~s.tp1

WithExits(s, stop, tp1, at) ==
    [status |-> s.status, tokens |-> s.tokens, stop |-> stop, tp1 |-> tp1,
     exitOrder |-> s.exitOrder, updatedAt |-> at]

Tightened(s, stop, arm) ==
    WithExits(s, IF StopTightens(s, stop) THEN stop ELSE s.stop,
              s.tp1 \/ Tp1Arms(s, arm),
              IF StopTightens(s, stop) \/ Tp1Arms(s, arm)
              THEN s.updatedAt + 1 ELSE s.updatedAt)

\* Mutant of Restored: the entry size comes back instead of the remaining one.
RestoredEntrySize(r) == IF r.status \in {"NONE", "CLOSED"} THEN NoPosition
                        ELSE [r EXCEPT !.tokens = Size]

\* restorePosition: a row whose accounting does not reconcile comes back as an
\* unresolved exposure, never as an executable position.
Restored(r) == IF r.status \in {"NONE", "CLOSED"} THEN NoPosition
               ELSE IF ValidAccounting(r) THEN r ELSE [r EXCEPT !.status = "ERROR"]

-----------------------------------------------------------------------------
(* The journal's two writes of a PAPER row.                                *)

\* Mutants of RowAccepts: UPDATE ... WHERE id = $1 alone, and without updated_at.
RowAcceptsById(r, s) == r.status # "NONE"
RowAcceptsAnyTime(r, s) ==
    /\ r.status # "NONE"
    /\ r.exitOrder = s.exitOrder
    /\ r.status = "CLOSED" => s.status = "CLOSED"

\* updatePositionRow without confirmedFill: the UPDATE's WHERE clause.
RowAccepts(r, s) ==
    /\ r.status # "NONE"
    /\ r.exitOrder = s.exitOrder
    /\ r.updatedAt <= s.updatedAt
    /\ r.status = "CLOSED" => s.status = "CLOSED"

\* recordConfirmedPaperFill, before and inside its transaction, for an order that
\* is not in the orders table: r is the row, f the fill with its snapshot.
FillAccepted(r, f) ==
    IF f.side = "BUY"
    THEN /\ r.status = "NONE"
         /\ f.snap.status = "OPEN"
         /\ f.snap.tokens = f.qty
    ELSE /\ f.snap.exitOrder = f.order
         /\ f.snap.status \in {"PARTIAL_EXIT", "CLOSED"}
         /\ f.snap.status = "CLOSED" => f.snap.tokens = 0
         /\ r.status \in OpenStatuses
         /\ r.tokens = f.snap.tokens + f.qty
=============================================================================

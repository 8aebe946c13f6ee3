------------------------------ MODULE WriteBehind -----------------------------
(***************************************************************************)
(* What a PAPER book promises of the positions it confirms: a fill counts  *)
(* at once and is made durable later.  Fills become durable in the order   *)
(* they were confirmed, each once and whole; an entry waits until nothing  *)
(* is left to be made durable; a process that dies loses exactly the fills *)
(* that were not durable yet, and its successor counts what was.           *)
(*                                                                         *)
(* A position is none, open or closed, with the units it holds.  It is     *)
(* bought once, whole; every sale takes units away, and the last one       *)
(* closes it for good.  How a fill gets into the tables, what may fail on  *)
(* the way and what is retried is PaperLedger's to say.                    *)
(***************************************************************************)
EXTENDS Naturals, Sequences

CONSTANTS Position,
          Whole      \* units an entry buys

VARIABLES
    counted,  \* the holdings the trader acts on
    kept,     \* the holdings that are durable
    waiting   \* confirmed fills that are not: [pos, to], to what it leaves of the position

writeBehindVars == <<counted, kept, waiting>>

None == [life |-> "none", units |-> 0]

WriteBehindInit ==
    /\ counted = [p \in Position |-> None]
    /\ kept = [p \in Position |-> None]
    /\ waiting = <<>>

Confirm(p, to) ==
    /\ counted' = [counted EXCEPT ![p] = to]
    /\ waiting' = Append(waiting, [pos |-> p, to |-> to])
    /\ UNCHANGED kept

\* A position is entered once, and only when every fill before it is durable.
Enter(p) ==
    /\ waiting = <<>> /\ counted[p] = None
    /\ Confirm(p, [life |-> "open", units |-> Whole])

\* A sale leaves fewer units, and no position when it leaves none.
Sell(p) ==
    /\ counted[p].life = "open"
    /\ \E left \in 0 .. counted[p].units - 1 :
          Confirm(p, [life |-> IF left = 0 THEN "closed" ELSE "open", units |-> left])

\* The oldest fill becomes durable.
Settle ==
    /\ waiting # <<>>
    /\ kept' = [kept EXCEPT ![Head(waiting).pos] = Head(waiting).to]
    /\ waiting' = Tail(waiting)
    /\ UNCHANGED counted

\* The process dies: what was not durable never happened.
Lose ==
    /\ counted' = kept /\ waiting' = <<>>
    /\ UNCHANGED kept

WriteBehindNext ==
    \/ \E p \in Position : Enter(p) \/ Sell(p)
    \/ Settle \/ Lose

WriteBehindSpec == WriteBehindInit /\ [][WriteBehindNext]_writeBehindVars
=============================================================================

-------------------------------- MODULE Watch --------------------------------
(***************************************************************************)
(* The parts of the desk that must get somewhere by themselves: the        *)
(* refreshes of the scanner (Scanner), those who wait for a price to       *)
(* decide an exit on (ExitQuotes), the evaluation of past signals          *)
(* (Evidence) and the queue of fills that wait for the database            *)
(* (PaperLedger).  They share no state; a behaviour is one of one of them, *)
(* chosen at the start, under the fairness each is entitled to.            *)
(***************************************************************************)
EXTENDS Scanner, ExitQuotes, Evidence

\* Of PaperLedger, with its own names where they are free.
CONSTANTS Pos, NoPos, Tokens, TokenOf, Size, MaxStop, MaxOrders, MaxFaults, MaxLate
VARIABLES mem, book, bookQty, bookOk, pending, issue, cyclePhase, resume, monitored, cur, stopping,
          row, orders, orderQty, late, nextOrder, faults, ledgerCrashes, stale

Ledger == INSTANCE PaperLedger WITH phase <- cyclePhase, todo <- monitored,
                               crashes <- ledgerCrashes

ledgerVars == <<mem, book, bookQty, bookOk, pending, issue, cyclePhase, resume, monitored, cur,
                stopping, row, orders, orderQty, late, nextOrder, faults, ledgerCrashes, stale>>

VARIABLE watch

watchVars == <<watch, vars, quoteVars, evidenceVars, ledgerVars>>

WatchInit ==
    /\ watch \in {"scanner", "quotes", "evidence", "ledger"}
    /\ Init /\ (watch # "scanner" => held = [t \in Tok |-> [s \in Strategies |-> 0]])
    /\ QuotesInit /\ EvidenceInit /\ Ledger!Init

ScannerWatch  == watch = "scanner"  /\ Next         /\ UNCHANGED <<watch, quoteVars, evidenceVars, ledgerVars>>
QuotesWatch   == watch = "quotes"   /\ QuotesNext   /\ UNCHANGED <<watch, vars, evidenceVars, ledgerVars>>
EvidenceWatch == watch = "evidence" /\ EvidenceNext /\ UNCHANGED <<watch, vars, quoteVars, ledgerVars>>
LedgerWatch   == watch = "ledger"   /\ Ledger!Next  /\ UNCHANGED <<watch, vars, quoteVars, evidenceVars>>

WatchNext == ScannerWatch \/ QuotesWatch \/ EvidenceWatch \/ LedgerWatch

(***************************************************************************)
(* The scanner's own fairness; timers fire and time passes for those who   *)
(* wait for a price; decision cycles go on and the supervisor starts a     *)
(* process that was killed; a price that is asked for again and again      *)
(* comes.  The ledger's cycles go on, a statement outstanding at the       *)
(* server is finished, and a process that ended is started again.          *)
(***************************************************************************)
WatchFairness ==
    /\ \A r \in Run : WF_vars(watch = "scanner" /\ RefreshStep(r))
    /\ \A t \in Tok : /\ WF_vars(watch = "scanner" /\ ScreeningDone(t))
                      /\ WF_vars(watch = "scanner" /\ Cooled(t))
    /\ WF_quoteVars(watch = "quotes" /\ QuoteTick)
    /\ \A w \in Watcher : WF_quoteVars(watch = "quotes" /\ DeadlinePasses(w))
    /\ WF_evidenceVars(watch = "evidence" /\ EvaluateDue)
    /\ WF_evidenceVars(watch = "evidence" /\ EvidenceBoot)
    /\ WF_evidenceVars(watch = "evidence" /\ (NotPriced \/ \E outcome \in {"up", "down"} : Priced(outcome)))
    /\ \A i \in 1 .. MaxRows : SF_evidenceVars(watch = "evidence" /\ PricesNext(i))
    /\ WF_ledgerVars(watch = "ledger" /\ Ledger!CycleStep)
    /\ WF_ledgerVars(watch = "ledger" /\ Ledger!Land)
    /\ WF_ledgerVars(watch = "ledger" /\ Ledger!Restart)

WatchSpec == WatchInit /\ [][WatchNext]_watchVars /\ WatchFairness

\* Liveness of the ledger: the queue of confirmed fills drains once the database
\* answers again (retry-pending at the start of every cycle).
FillsDrain == Ledger!FillsDrain
=============================================================================

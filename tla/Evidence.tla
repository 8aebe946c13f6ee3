------------------------------- MODULE Evidence -------------------------------
(***************************************************************************)
(* The evidence the desk keeps of its own signals on one chain: every      *)
(* ENTER is recorded in shadow_decisions, whether it is carried out or     *)
(* not; each cycle evaluates a batch of those whose horizon has passed;    *)
(* the cohort gate bars the strategies the outcomes disprove; and the      *)
(* tokens that were vetoed or gapped are listed, in memory first and then  *)
(* in the journal.  The process may crash between any two of these steps.  *)
(*                                                                         *)
(* Abstracted: a return is "up" or "down", a decision one step of the      *)
(* clock; the memory path of a desk without a database; the statistics of  *)
(* /metrics; two tokens of a list never reach the list's MAX_ENTRIES.      *)
(***************************************************************************)
EXTENDS Integers, FiniteSets, SequencesExt, FiniteSetsExt

CONSTANTS Signaller,     \* strategies that may decide to enter
          Asset,         \* tokens
          Horizon,       \* defaultHorizonMin
          Batch,         \* rows evaluated in a cycle, 10
          GateSamples,   \* DEFAULT_MIN_SAMPLES
          GateWindow,    \* DEFAULT_WINDOW
          GateRefresh,   \* DEFAULT_REFRESH_MS
          MaxEvidenceTime, MaxRows, MaxListed, MaxCrashes   \* bounds

ASSUME EvidenceAssumption ==
    /\ {Batch, GateSamples, GateWindow} \subseteq Nat \ {0}
    /\ {Horizon, GateRefresh, MaxEvidenceTime, MaxRows, MaxListed, MaxCrashes} \subseteq Nat

VARIABLES
    evidenceTime,
    running,    \* the process is up
    dead,       \* tokens no provider will ever price again
    rows,       \* shadow_decisions, in the order of decided_at: [signaller, asset, at, outcome,
                \* done: when evaluated, entered: history, the gate let it pass]
    evaluating, \* the rows of the batch that are still to be priced
    evaluations,\* outcomes written, to order them
    gate,       \* the gate's cache, or NoGate: [at, gated]
    listed,     \* the list in memory
    listWrites, \* lists on their way to the journal
    listSaved,  \* the list in the journal
    crashes

evidenceVars == <<evidenceTime, running, dead, rows, evaluating, evaluations, gate,
                  listed, listWrites, listSaved, crashes>>

NoGate == [at |-> -1, gated |-> {}]

(***************************************************************************)
(* A decision to enter: recorded before anything may stop it.              *)
(***************************************************************************)
Record(signaller, asset) ==
    Append(rows, [signaller |-> signaller, asset |-> asset, at |-> evidenceTime, outcome |-> "none", done |-> 0,
                  entered |-> signaller \notin gate.gated])

\* A listed token is not even evaluated by the strategies; a gated one is measured on.
Signal(signaller, asset) ==
    /\ running /\ Len(rows) < MaxRows /\ evaluating = <<>>
    /\ asset \notin listed
    /\ rows' = Record(signaller, asset)
    /\ UNCHANGED <<evidenceTime, running, dead, evaluating, evaluations, gate, listed, listWrites, listSaved, crashes>>

(***************************************************************************)
(* evaluateDue.  The batch is read once; each row of it is priced and      *)
(* written on its own, and one that cannot be priced is left for later.    *)
(***************************************************************************)
Unevaluated(i) == rows[i].outcome = "none"
Due == {i \in DOMAIN rows : Unevaluated(i) /\ evidenceTime - rows[i].at > Horizon}

\* Mutant of DueBatch: the newest due rows first.
DueNewest == SubSeq(SetToSortSeq(Due, >), 1, Min({Batch, Cardinality(Due)}))

\* getDueShadowDecisions: ORDER BY decided_at LIMIT Batch.
DueBatch == SubSeq(SetToSortSeq(Due, <), 1, Min({Batch, Cardinality(Due)}))

EvaluateDue ==
    /\ running /\ evaluating = <<>> /\ Due # {}
    /\ evaluating' = DueBatch
    /\ UNCHANGED <<evidenceTime, running, dead, rows, evaluations, gate, listed, listWrites, listSaved, crashes>>

Priced(outcome) ==
    /\ running /\ evaluating # <<>> /\ rows[Head(evaluating)].asset \notin dead
    /\ rows' = [rows EXCEPT ![Head(evaluating)].outcome = outcome, ![Head(evaluating)].done = evaluations + 1]
    /\ evaluations' = evaluations + 1
    /\ evaluating' = Tail(evaluating)
    /\ UNCHANGED <<evidenceTime, running, dead, gate, listed, listWrites, listSaved, crashes>>

NotPriced ==
    /\ running /\ evaluating # <<>>
    /\ evaluating' = Tail(evaluating)
    /\ UNCHANGED <<evidenceTime, running, dead, rows, evaluations, gate, listed, listWrites, listSaved, crashes>>

(***************************************************************************)
(* The cohort gate: of the newest outcomes, a strategy with enough of them *)
(* and a median that is not positive is gated until the next refresh.      *)
(***************************************************************************)
Newest == {i \in DOMAIN rows : /\ ~Unevaluated(i)
                               /\ Cardinality({j \in DOMAIN rows : rows[j].done > rows[i].done}) < GateWindow}
OfCohort(signaller) == {i \in Newest : rows[i].signaller = signaller}
Downs(signaller)    == {i \in OfCohort(signaller) : rows[i].outcome = "down"}

\* returns[floor(n / 2)] of the sorted returns is a loss when more than n / 2 of them are.
Disproven(signaller) ==
    LET n == Cardinality(OfCohort(signaller)) IN
    n >= GateSamples /\ Cardinality(Downs(signaller)) > n \div 2

\* A failed query, no step here, keeps what is known.
RefreshGate ==
    /\ running /\ evaluating = <<>>
    /\ gate # NoGate => evidenceTime - gate.at >= GateRefresh
    /\ gate' = [at |-> evidenceTime, gated |-> {s \in Signaller : Disproven(s)}]
    /\ UNCHANGED <<evidenceTime, running, dead, rows, evaluating, evaluations, listed, listWrites, listSaved, crashes>>

(***************************************************************************)
(* TokenBlacklist: add is remembered at once and written, or not, later;   *)
(* two writes on their way may arrive in either order.                     *)
(***************************************************************************)
List(asset) ==
    /\ running /\ asset \notin listed /\ Cardinality(listed) < MaxListed
    /\ listed' = listed \cup {asset}
    /\ listWrites' = listWrites \cup {listed'}
    /\ UNCHANGED <<evidenceTime, running, dead, rows, evaluating, evaluations, gate, listSaved, crashes>>

ListWritten(list, ok) ==
    /\ running
    /\ listWrites' = listWrites \ {list}
    /\ listSaved' = IF ok THEN list ELSE listSaved
    /\ UNCHANGED <<evidenceTime, running, dead, rows, evaluating, evaluations, gate, listed, crashes>>

(***************************************************************************)
(* The providers, the clock and the process.                               *)
(***************************************************************************)
Die(asset) ==
    /\ asset \notin dead /\ dead' = dead \cup {asset}
    /\ UNCHANGED <<evidenceTime, running, rows, evaluating, evaluations, gate, listed, listWrites, listSaved, crashes>>

EvidenceTick ==
    /\ evidenceTime < MaxEvidenceTime /\ evidenceTime' = evidenceTime + 1
    /\ UNCHANGED <<running, dead, rows, evaluating, evaluations, gate, listed, listWrites, listSaved, crashes>>

EvidenceCrash ==
    /\ running /\ crashes < MaxCrashes
    /\ running' = FALSE /\ crashes' = crashes + 1
    /\ evaluating' = <<>> /\ gate' = NoGate /\ listed' = {} /\ listWrites' = {}
    /\ UNCHANGED <<evidenceTime, dead, rows, evaluations, listSaved>>

EvidenceBoot ==
    /\ ~running /\ running' = TRUE
    /\ listed' = listSaved
    /\ UNCHANGED <<evidenceTime, dead, rows, evaluating, evaluations, gate, listWrites, listSaved, crashes>>

EvidenceInit ==
    /\ evidenceTime = 0 /\ running = TRUE /\ dead = {}
    /\ rows = <<>> /\ evaluating = <<>> /\ evaluations = 0
    /\ gate = NoGate
    /\ listed = {} /\ listWrites = {} /\ listSaved = {} /\ crashes = 0

EvidenceNext ==
    \/ \E signaller \in Signaller, asset \in Asset : Signal(signaller, asset)
    \/ EvaluateDue \/ NotPriced \/ \E outcome \in {"up", "down"} : Priced(outcome)
    \/ RefreshGate
    \/ \E asset \in Asset : List(asset) \/ Die(asset)
    \/ \E list \in listWrites, ok \in BOOLEAN : ListWritten(list, ok)
    \/ EvidenceTick \/ EvidenceCrash \/ EvidenceBoot

(***************************************************************************)
(* Every recorded signal whose horizon has passed is evaluated, through    *)
(* failed prices and restarts, unless its token can never be priced again  *)
(* or a whole batch of older rows of such tokens is in front of it: they   *)
(* are read first in every cycle.  Assumed: cycles go on, a killed process *)
(* is started again, and a token that is not dead is priced in the end if  *)
(* it is asked for again and again.                                        *)
(***************************************************************************)
Hopeless(i) ==
    /\ i \in Due
    /\ \/ rows[i].asset \in dead
       \/ Cardinality({j \in Due : j < i /\ rows[j].asset \in dead}) >= Batch

OutcomesEvaluated ==
    \A i \in 1 .. MaxRows :
       (i \in Due) ~> (i \notin Due \/ Hopeless(i))

PricesNext(i) == evaluating # <<>> /\ Head(evaluating) = i /\ \E outcome \in {"up", "down"} : Priced(outcome)
=============================================================================

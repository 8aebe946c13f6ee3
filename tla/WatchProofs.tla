------------------------------ MODULE WatchProofs -----------------------------
(***************************************************************************)
(* Theorems about Watch and two of its parts for every value of their      *)
(* constants.  ExitQuotes: an exit is decided on current data.  Scanner:   *)
(* its type, one position per strategy and token, the queueing of closed   *)
(* tokens, the size of the watchlist and the finality of rejections.       *)
(***************************************************************************)
EXTENDS Watch, FiniteSetTheorems, TLAPS

-----------------------------------------------------------------------------
(* Exit quotes.                                                            *)

QuotesTyped ==
    /\ quoteTime \in Nat
    /\ arrived \in [Watcher -> [at : Int, ok : BOOLEAN]]
    /\ depth \in [at : Int, ok : BOOLEAN]

QuotesInv == QuotesTyped /\ FreshDecision

LEMMA SnapshotsTyped ==
    ASSUME QuotesTyped, NEW snapshot \in Snapshots
    PROVE  snapshot \in [at : Int, ok : BOOLEAN]
<1>1. CASE snapshot \in [at : 0 .. quoteTime + 1, ok : {TRUE}]
  <2>1. 0 .. quoteTime + 1 \subseteq Int /\ {TRUE} \subseteq BOOLEAN
    BY DEF QuotesTyped
  <2>2. QED
    BY <1>1, <2>1
<1>2. CASE snapshot = [at |-> 0, ok |-> FALSE]
  BY <1>2
<1>3. QED
  BY <1>1, <1>2 DEF Snapshots

\* Judged by the clock of the decision, what is current is not older than it may be.
LEMMA CurrentJudged ==
    ASSUME QuotesTyped, NEW snapshot \in [at : Int, ok : BOOLEAN], NEW ttl \in Nat,
           Current(snapshot, ttl)
    PROVE  Judged(snapshot).ok /\ Judged(snapshot).age \in 0 .. ttl
BY DEF QuotesTyped, Current, Judged

LEMMA DecisionFresh ==
    ASSUME QuotesTyped, NEW w \in Watcher, Current(arrived[w], PriceTtl)
    PROVE  LET d == Decision(arrived[w])
           IN  /\ d.price.ok /\ d.price.age \in 0 .. PriceTtl
               /\ d.depth.ok /\ d.depth.age \in 0 .. DepthTtl
<1>1. PriceTtl \in Nat /\ DepthTtl \in Nat
  BY ExitQuotesAssumption
<1>2. /\ Decision(arrived[w]).price = Judged(arrived[w])
      /\ Decision(arrived[w]).depth = IF Current(depth, DepthTtl) THEN Judged(depth) ELSE None
  BY DEF Decision
<1>3. Judged(arrived[w]).ok /\ Judged(arrived[w]).age \in 0 .. PriceTtl
  BY <1>1, CurrentJudged DEF QuotesTyped
<1>4. CASE Current(depth, DepthTtl)
  <2>1. Judged(depth).ok /\ Judged(depth).age \in 0 .. DepthTtl
    BY <1>1, <1>4, CurrentJudged DEF QuotesTyped
  <2>2. QED
    BY <1>2, <1>3, <1>4, <2>1
<1>5. CASE ~ Current(depth, DepthTtl)
  <2>1. None.ok /\ None.age \in 0 .. DepthTtl
    BY <1>1 DEF None
  <2>2. QED
    BY <1>2, <1>3, <1>5, <2>1
<1>6. QED
  BY <1>4, <1>5

(***************************************************************************)
(* An exit is decided on a price, and on a depth where one is used, that   *)
(* are of the token and current at the moment of the decision, whatever    *)
(* answers came when, and whoever asked for them.                          *)
(***************************************************************************)
THEOREM ExitsDecideOnFreshData == QuotesSpec => []FreshDecision
<1>1. QuotesInit => QuotesInv
  <2>1. ASSUME QuotesInit PROVE QuotesTyped
    BY <2>1 DEF QuotesInit, QuotesTyped, NoSnapshot
  <2>2. ASSUME QuotesInit PROVE FreshDecision
    BY <2>2, ExitQuotesAssumption DEF QuotesInit, FreshDecision, None
  <2>3. QED
    BY <2>1, <2>2 DEF QuotesInv
<1>2. QuotesInv /\ [QuotesNext]_quoteVars => QuotesInv'
  <2> SUFFICES ASSUME QuotesInv, [QuotesNext]_quoteVars
               PROVE  QuotesInv'
    OBVIOUS
  <2> USE DEF QuotesInv
  <2>1. ASSUME NEW w \in Watcher, Decide(w)
        PROVE  QuotesInv'
    <3>1. QuotesTyped'
      BY <2>1 DEF Decide, QuotesTyped, NoSnapshot
    <3>2. CASE decided' = decided
      BY <3>1, <3>2 DEF FreshDecision
    <3>3. CASE Current(arrived[w], PriceTtl) /\ decided' = Decision(arrived[w])
      BY <3>1, <3>3, DecisionFresh DEF FreshDecision
    <3>4. QED
      BY <2>1, <3>2, <3>3 DEF Decide
  <2>2. ASSUME NEW w \in Watcher, Observe(w) \/ DeadlinePasses(w)
        PROVE  QuotesInv'
    <3>1. arrived' = [arrived EXCEPT ![w] = NoSnapshot] /\ UNCHANGED <<quoteTime, depth, decided>>
      BY <2>2 DEF Observe, DeadlinePasses
    <3>2. NoSnapshot \in [at : Int, ok : BOOLEAN]
      BY DEF NoSnapshot
    <3>3. QuotesTyped' /\ FreshDecision'
      BY <3>1, <3>2 DEF QuotesTyped, FreshDecision
    <3>4. QED
      BY <3>3
  <2>3. ASSUME NEW snapshot \in Snapshots, PriceAnswers(snapshot) \/ DepthAnswers(snapshot)
        PROVE  QuotesInv'
    <3>1. snapshot \in [at : Int, ok : BOOLEAN]
      BY SnapshotsTyped
    <3>2. QED
      BY <2>3, <3>1 DEF PriceAnswers, DepthAnswers, QuotesTyped, FreshDecision
  <2>4. CASE PriceFails \/ DepthFails \/ Dispose \/ QuoteTick
    BY <2>4 DEF PriceFails, DepthFails, Dispose, QuoteTick, QuotesTyped, FreshDecision
  <2>5. CASE UNCHANGED quoteVars
    BY <2>5 DEF quoteVars, QuotesTyped, FreshDecision
  <2>6. QED
    BY <2>1, <2>2, <2>3, <2>4, <2>5 DEF QuotesNext
<1>3. QED
  BY <1>1, <1>2, PTL DEF QuotesSpec, QuotesInv

-----------------------------------------------------------------------------
(* The scanner.                                                            *)

USE CopyAssumption, TokAssumption, ScannerBounds

-----------------------------------------------------------------------------
(* The state machine.                                                      *)

LEMMA StatusSet ==
  Status = {"UNKNOWN", "DISCOVERED", "OBSERVING", "SCREENING", "ELIGIBLE", "WATCHLIST",
            "TRADE_CANDIDATE", "ENTERED", "OPEN", "EXITING", "CLOSED", "REJECTED", "ARCHIVED"}
  BY DEF Status, Transitions

\* The steps the table allows into the states the properties speak of.
LEMMA Table ==
  ASSUME NEW s \in Status
  PROVE  /\ "CLOSED" \in Transitions[s] <=> s = "EXITING"
         /\ "UNKNOWN" \notin Transitions[s]
         /\ "WATCHLIST" \in Transitions[s] <=> s \in {"ELIGIBLE", "TRADE_CANDIDATE", "CLOSED"}
         /\ "TRADE_CANDIDATE" \in Transitions[s] <=> s = "WATCHLIST"
         /\ Transitions["REJECTED"] = {"ARCHIVED", "OBSERVING"}
         /\ Transitions["ARCHIVED"] = {}
         /\ Transitions["DISCOVERED"] = {"OBSERVING", "REJECTED"}
  BY StatusSet DEF Transitions

LEMMA MovedFacts ==
  ASSUME NEW c \in Candidates, NEW to \in Status
  PROVE  /\ Moved(c, to) \in Candidates
         /\ Moved(c, to).reasons = c.reasons /\ Moved(c, to).rejected = c.rejected
         /\ c.entered => Moved(c, to).entered
         /\ to \in Transitions[c.st] => Moved(c, to).st = to
         /\ to \notin Transitions[c.st] => Moved(c, to) = c
  BY DEF Moved, Candidates

\* d can come of c in any number of steps other than a revival: what is rejected stays
\* rejected or is archived, and nothing is forgotten.
Follows(c, d) ==
    /\ d \in Candidates
    /\ d.st = "UNKNOWN" => c.st = "UNKNOWN"
    /\ c.entered => d.entered
    /\ c.st = "REJECTED" => d.st \in {"REJECTED", "ARCHIVED"}
    /\ c.st = "ARCHIVED" => d.st = "ARCHIVED"

LEMMA FollowsItself == \A c \in Candidates : Follows(c, c)
  BY DEF Follows

LEMMA FollowsOn ==
  ASSUME NEW c \in Candidates, NEW d, NEW e, Follows(c, d), Follows(d, e)
  PROVE  Follows(c, e)
  BY DEF Follows

LEMMA MovedFollows ==
  ASSUME NEW c \in Candidates, NEW to \in Status \ {"OBSERVING"}
  PROVE  Follows(c, Moved(c, to))
  <1>1. CASE to \in Transitions[c.st]
    <2>1. c.st \in Status /\ to # "UNKNOWN"
      BY <1>1, Table DEF Candidates
    <2>2. c.st = "REJECTED" => to = "ARCHIVED"
      BY <1>1, Table, <2>1
    <2>3. c.st # "ARCHIVED"
      BY <1>1, Table, <2>1
    <2> QED
      BY <1>1, <2>1, <2>2, <2>3, MovedFacts DEF Follows
  <1>2. CASE to \notin Transitions[c.st]
    BY <1>2, MovedFacts, FollowsItself
  <1> QED
    BY <1>1, <1>2

\* Rejection by the filters.
LEMMA RejectedForFacts ==
  ASSUME NEW c \in Candidates, NEW why \in Verdicts
  PROVE  /\ Follows(c, RejectedFor(c, why))
         /\ RejectedFor(c, why).st \in {c.st, "REJECTED"}
  <1> DEFINE r == [c EXCEPT !.reasons = why, !.rejected = "recent"]
  <1>1. r \in Candidates /\ Follows(c, r) /\ r.st = c.st
    BY DEF Candidates, Reasons, Verdicts, Follows
  <1>2. "REJECTED" \in Status \ {"OBSERVING"}
    BY StatusSet
  <1>3. RejectedFor(c, why) = Moved(r, "REJECTED")
    BY DEF RejectedFor
  <1> HIDE DEF r
  <1>4. Follows(r, Moved(r, "REJECTED")) /\ Moved(r, "REJECTED").st \in {r.st, "REJECTED"}
    BY <1>1, <1>2, MovedFollows, MovedFacts
  <1> QED
    BY <1>1, <1>3, <1>4, FollowsOn

-----------------------------------------------------------------------------
(* What the pipeline does to a candidate.                                  *)

LEMMA ScreenedFacts ==
  ASSUME cand \in [Tok -> Candidates], NEW t \in Tok, NEW why \in Verdicts
  PROVE  /\ Follows(cand[t], Screened(t, why))
         /\ Screened(t, why).st = "CLOSED" => cand[t].st = "CLOSED"
         /\ Screened(t, why).st \in {"WATCHLIST", "TRADE_CANDIDATE"} =>
               \/ cand[t].st \in {"WATCHLIST", "TRADE_CANDIDATE"}
               \/ Cardinality(Watchlist(cand)) < MaxWatchlist
  <1> DEFINE c == Moved(cand[t], "SCREENING")
             e == Moved(c, "ELIGIBLE")
             w == Moved(e, "WATCHLIST")
             r == RejectedFor(c, why)
  <1>1. {"SCREENING", "ELIGIBLE", "WATCHLIST"} \subseteq Status \ {"OBSERVING"}
    BY StatusSet
  <1>2. cand[t] \in Candidates
    OBVIOUS
  <1>3. Follows(cand[t], c) /\ c \in Candidates /\ c.st \in {cand[t].st, "SCREENING"}
    BY <1>1, <1>2, MovedFollows, MovedFacts
  <1> HIDE DEF c
  <1>4. Follows(c, e) /\ e \in Candidates /\ e.st \in {c.st, "ELIGIBLE"}
    BY <1>1, <1>3, MovedFollows, MovedFacts
  <1> HIDE DEF e
  <1>5. Follows(e, w) /\ w.st \in {e.st, "WATCHLIST"}
    BY <1>1, <1>4, MovedFollows, MovedFacts
  <1>6. Follows(c, r) /\ r.st \in {c.st, "REJECTED"}
    BY <1>3, RejectedForFacts
  <1> HIDE DEF w, r
  <1>7. Follows(cand[t], e) /\ Follows(cand[t], w) /\ Follows(cand[t], r)
    BY <1>2, <1>3, <1>4, <1>5, <1>6, FollowsOn
  <1>8. /\ why # {} => Screened(t, why) = r
        /\ why = {} /\ Cardinality(Watchlist(cand)) < MaxWatchlist => Screened(t, why) = w
        /\ why = {} /\ ~(Cardinality(Watchlist(cand)) < MaxWatchlist) => Screened(t, why) = e
    BY DEF Screened, c, e, w, r
  <1> QED
    BY <1>3, <1>4, <1>5, <1>6, <1>7, <1>8

LEMMA RefreshedFacts ==
  ASSUME NEW c \in Candidates, NEW why \in Verdicts, NEW high \in BOOLEAN
  PROVE  /\ Follows(c, Refreshed(c, why, high))
         /\ Refreshed(c, why, high).st = "CLOSED" => c.st = "CLOSED"
         /\ Refreshed(c, why, high).st \in {"WATCHLIST", "TRADE_CANDIDATE"} =>
               c.st \in {"WATCHLIST", "TRADE_CANDIDATE"}
         /\ c.st = "REJECTED" => Refreshed(c, why, high) = c
  <1>1. {"WATCHLIST", "TRADE_CANDIDATE"} \subseteq Status \ {"OBSERVING"}
    BY StatusSet
  <1> DEFINE w == Moved(c, "WATCHLIST")
             h == Moved(c, "TRADE_CANDIDATE")
             r == RejectedFor(c, why)
  <1>2. Follows(c, w) /\ w.st \in {c.st, "WATCHLIST"}
    BY <1>1, MovedFollows, MovedFacts
  <1>3. Follows(c, h) /\ h.st \in {c.st, "TRADE_CANDIDATE"}
    BY <1>1, MovedFollows, MovedFacts
  <1>4. Follows(c, r) /\ r.st \in {c.st, "REJECTED"}
    BY RejectedForFacts
  <1>5. Follows(c, c)
    BY FollowsItself
  <1>6. \/ Refreshed(c, why, high) = c
        \/ c.st \in {"WATCHLIST", "TRADE_CANDIDATE"} /\ Refreshed(c, why, high) \in {w, h, r}
    BY DEF Refreshed
  <1> HIDE DEF w, h, r
  <1> QED
    BY <1>2, <1>3, <1>4, <1>5, <1>6

LEMMA ArchivedFacts ==
  ASSUME NEW cs \in [Tok -> Candidates], NEW A \in SUBSET Tok
  PROVE  /\ Archived(cs, A) \in [Tok -> Candidates]
         /\ \A t \in Tok : /\ Follows(cs[t], Archived(cs, A)[t])
                           /\ Archived(cs, A)[t].st \in {cs[t].st, "ARCHIVED"}
  <1>1. "ARCHIVED" \in Status \ {"OBSERVING"}
    BY StatusSet
  <1>2. ASSUME NEW t \in Tok
        PROVE  /\ Follows(cs[t], Archived(cs, A)[t]) /\ Archived(cs, A)[t] \in Candidates
               /\ Archived(cs, A)[t].st \in {cs[t].st, "ARCHIVED"}
    <2>1. Archived(cs, A)[t] \in {cs[t], Moved(cs[t], "ARCHIVED")}
      BY DEF Archived
    <2>2. Follows(cs[t], cs[t])
      BY FollowsItself
    <2>3. /\ Follows(cs[t], Moved(cs[t], "ARCHIVED")) /\ Moved(cs[t], "ARCHIVED") \in Candidates
          /\ Moved(cs[t], "ARCHIVED").st \in {cs[t].st, "ARCHIVED"}
      BY <1>1, MovedFollows, MovedFacts
    <2> QED
      BY <2>1, <2>2, <2>3
  <1> QED
    BY <1>2 DEF Archived

LEMMA DrainedFacts ==
  ASSUME NEW cs \in [Tok -> Candidates], NEW D \in SUBSET Tok
  PROVE  /\ Drained(cs, D) \in [Tok -> Candidates]
         /\ \A t \in Tok : /\ Follows(cs[t], Drained(cs, D)[t])
                           /\ Drained(cs, D)[t].st \in {cs[t].st, "WATCHLIST"}
                           /\ t \notin D \/ cs[t].st = "REJECTED" => Drained(cs, D)[t] = cs[t]
                           /\ Drained(cs, D)[t].st = "CLOSED" => cs[t].st = "CLOSED" /\ t \notin D
  <1>1. "WATCHLIST" \in Status \ {"OBSERVING"}
    BY StatusSet
  <1>2. ASSUME NEW t \in Tok
        PROVE  /\ Follows(cs[t], Drained(cs, D)[t]) /\ Drained(cs, D)[t] \in Candidates
               /\ Drained(cs, D)[t].st \in {cs[t].st, "WATCHLIST"}
               /\ t \notin D \/ cs[t].st = "REJECTED" => Drained(cs, D)[t] = cs[t]
               /\ Drained(cs, D)[t].st = "CLOSED" => cs[t].st = "CLOSED" /\ t \notin D
    <2>1. Drained(cs, D)[t] = IF t \in D THEN Moved(cs[t], "WATCHLIST") ELSE cs[t]
      BY DEF Drained
    <2>2. Follows(cs[t], cs[t])
      BY FollowsItself
    <2>3. /\ Follows(cs[t], Moved(cs[t], "WATCHLIST")) /\ Moved(cs[t], "WATCHLIST") \in Candidates
          /\ Moved(cs[t], "WATCHLIST").st \in {cs[t].st, "WATCHLIST"}
      BY <1>1, MovedFollows, MovedFacts
    <2>4. /\ cs[t].st = "CLOSED" => Moved(cs[t], "WATCHLIST").st = "WATCHLIST"
          /\ cs[t].st = "REJECTED" => Moved(cs[t], "WATCHLIST") = cs[t]
      BY <1>1, Table, MovedFacts DEF Candidates
    <2> QED
      BY <2>1, <2>2, <2>3, <2>4
  <1> QED
    BY <1>2 DEF Drained

\* A revived token is under observation again, with its reasons dropped.
LEMMA RevivedFacts ==
  ASSUME NEW c \in Candidates, Revivable(c)
  PROVE  LET d == Moved([c EXCEPT !.reasons = {}], "OBSERVING")
         IN d \in Candidates /\ d.st = "OBSERVING" /\ ~c.entered
  <1> DEFINE r == [c EXCEPT !.reasons = {}]
  <1>1. r \in Candidates /\ r.st = "REJECTED"
    BY DEF Revivable, Candidates
  <1>2. "OBSERVING" \in Status
    BY StatusSet
  <1>3. "OBSERVING" \in Transitions[r.st]
    BY <1>1, Table, StatusSet
  <1> HIDE DEF r
  <1>4. Moved(r, "OBSERVING") \in Candidates /\ Moved(r, "OBSERVING").st = "OBSERVING"
    BY <1>1, <1>2, <1>3, MovedFacts
  <1> QED
    BY <1>4 DEF r, Revivable
-----------------------------------------------------------------------------
(* The inductive invariant.                                                *)

\* The decisions left on the candidate are of strategies that do not hold it, and a
\* token the scanner does not know is not being screened.
DecisionsFresh ==
    phase \in {"decide", "enter"} =>
       /\ now \in [tok : Tok, decisions : SUBSET Strat]
       /\ now.decisions # {}
       /\ \A s \in now.decisions : held[now.tok][s] = 0

UnknownUnscreened == \A t \in Tok : cand[t].st = "UNKNOWN" => screening[t] = 0

ScannerInv ==
    TypeOK /\ UnknownUnscreened /\ ClosedQueued /\ DecisionsFresh /\ OneSlotPerStrategy

\* The part of the invariant about the scanner's own state.
PipelineInv ==
    /\ cand \in [Tok -> Candidates]
    /\ screening \in [Tok -> 0..MaxScreens]
    /\ refresh \in [Run -> [on : BOOLEAN, todo : SUBSET Tok]]
    /\ queue \subseteq Tok
    /\ UnknownUnscreened /\ ClosedQueued

\* The part about positions and the cycle.
CycleInv ==
    /\ held \in [Tok -> [Strategies -> Nat]]
    /\ burnt \subseteq Tok
    /\ phase \in {"monitor", "entries", "decide", "enter"}
    /\ todo \subseteq Tok
    /\ now = Idle \/ now \in [tok : Tok, decisions : SUBSET Strat]
    /\ (phase \in {"decide", "enter"}) <=> (now # Idle)
    /\ entries \in 0..MaxEntries
    /\ DecisionsFresh /\ OneSlotPerStrategy

LEMMA InvParts == ScannerInv <=> PipelineInv /\ CycleInv
  BY DEF ScannerInv, PipelineInv, CycleInv, TypeOK

LEMMA InvInit == Init => ScannerInv
  <1> SUFFICES ASSUME Init PROVE ScannerInv
    OBVIOUS
  <1>1. NoCandidate \in Candidates /\ NoCandidate.st = "UNKNOWN"
    BY StatusSet DEF NoCandidate, Candidates, Reasons
  <1>2. PipelineInv
    BY <1>1 DEF Init, PipelineInv, UnknownUnscreened, ClosedQueued
  <1>3. held \in [Tok -> [Strategies -> 0..1]]
    BY DEF Init, Restorable
  <1>4. held \in [Tok -> [Strategies -> Nat]] /\ OneSlotPerStrategy
    BY <1>3 DEF OneSlotPerStrategy, Strategies
  <1>5. CycleInv
    BY <1>4 DEF Init, CycleInv, DecisionsFresh
  <1> QED
    BY <1>2, <1>5, InvParts

-----------------------------------------------------------------------------
(* The steps of the scanner.                                               *)

LEMMA PipelineFrame ==
  ASSUME PipelineInv, UNCHANGED scanner
  PROVE  PipelineInv'
  BY DEF PipelineInv, scanner, UnknownUnscreened, ClosedQueued

LEMMA CycleFrame ==
  ASSUME CycleInv, UNCHANGED <<held, cycle, burnt, entries>>
  PROVE  CycleInv'
  BY DEF CycleInv, cycle, DecisionsFresh, OneSlotPerStrategy

\* A step that moves one candidate, not to CLOSED, and starts no screening of it.
LEMMA MoveOne ==
  ASSUME PipelineInv, NEW t \in Tok, NEW c \in Candidates,
         cand' = [cand EXCEPT ![t] = c],
         c.st = "UNKNOWN" => cand[t].st = "UNKNOWN",
         c.st = "CLOSED" => cand[t].st = "CLOSED" \/ t \in queue',
         queue \subseteq queue', queue' \subseteq Tok,
         screening' \in [Tok -> 0..MaxScreens],
         \A u \in Tok : screening'[u] <= screening[u],
         refresh' \in [Run -> [on : BOOLEAN, todo : SUBSET Tok]]
  PROVE  PipelineInv'
  <1>1. cand' \in [Tok -> Candidates]
    BY DEF PipelineInv
  <1>2. ASSUME NEW u \in Tok, cand'[u].st = "UNKNOWN" PROVE screening'[u] = 0
    <2>1. cand[u].st = "UNKNOWN"
      BY <1>2 DEF PipelineInv
    <2>2. screening[u] = 0
      BY <2>1 DEF PipelineInv, UnknownUnscreened
    <2>3. screening'[u] \in 0..MaxScreens /\ screening'[u] <= screening[u]
      OBVIOUS
    <2> QED
      BY <2>2, <2>3
  <1>3. ASSUME NEW u \in Tok, cand'[u].st = "CLOSED" PROVE u \in queue'
    BY <1>3 DEF PipelineInv, ClosedQueued
  <1> QED
    BY <1>1, <1>2, <1>3 DEF PipelineInv, UnknownUnscreened, ClosedQueued

LEMMA DiscoverStep ==
  ASSUME PipelineInv, NEW t \in Tok, Discover(t)
  PROVE  PipelineInv'
  <1> DEFINE d == [cand[t] EXCEPT !.st = "DISCOVERED"]
  <1>1. d \in Candidates /\ d.st = "DISCOVERED"
    BY StatusSet DEF PipelineInv, Candidates
  <1>2. Moved(d, "OBSERVING") \in Candidates /\ Moved(d, "OBSERVING").st = "OBSERVING"
    <2>1. "OBSERVING" \in Status /\ Transitions["DISCOVERED"] = {"OBSERVING", "REJECTED"}
      BY StatusSet, Table
    <2> HIDE DEF d
    <2> QED
      BY <1>1, <2>1, MovedFacts
  <1>3. cand' = [cand EXCEPT ![t] = Moved(d, "OBSERVING")]
    BY DEF Discover
  <1> HIDE DEF d
  <1>4. screening[t] = 0 /\ screening' = [screening EXCEPT ![t] = screening[t] + 1]
    BY DEF Discover, PipelineInv, UnknownUnscreened
  <1>5. UNCHANGED <<refresh, queue>>
    BY DEF Discover
  <1>6. cand' \in [Tok -> Candidates] /\ screening' \in [Tok -> 0..MaxScreens]
    BY <1>2, <1>3, <1>4 DEF PipelineInv
  <1>7. UnknownUnscreened' /\ ClosedQueued'
    BY <1>2, <1>3, <1>4, <1>5 DEF PipelineInv, UnknownUnscreened, ClosedQueued
  <1> QED
    BY <1>5, <1>6, <1>7 DEF PipelineInv

LEMMA ScreeningDoneStep ==
  ASSUME PipelineInv, NEW t \in Tok, ScreeningDone(t)
  PROVE  PipelineInv'
  <1>1. PICK why \in Verdicts : cand' = [cand EXCEPT ![t] = Screened(t, why)]
    BY DEF ScreeningDone
  <1>2. /\ Screened(t, why) \in Candidates
        /\ Screened(t, why).st = "UNKNOWN" => cand[t].st = "UNKNOWN"
        /\ Screened(t, why).st = "CLOSED" => cand[t].st = "CLOSED"
    BY ScreenedFacts DEF PipelineInv, Follows
  <1>3. /\ screening' \in [Tok -> 0..MaxScreens] /\ \A u \in Tok : screening'[u] <= screening[u]
        /\ UNCHANGED <<refresh, queue>>
    BY DEF ScreeningDone, PipelineInv
  <1>4. queue' \subseteq Tok /\ refresh' \in [Run -> [on : BOOLEAN, todo : SUBSET Tok]]
    BY <1>3 DEF PipelineInv
  <1> QED
    BY <1>1, <1>2, <1>3, <1>4, MoveOne

LEMMA RefreshOneStep ==
  ASSUME PipelineInv, NEW r \in Run, RefreshOne(r)
  PROVE  PipelineInv'
  <1>1. PICK t \in refresh[r].todo, why \in Verdicts, high \in BOOLEAN :
           /\ cand' = [cand EXCEPT ![t] = Refreshed(@, why, high)]
           /\ refresh' = [refresh EXCEPT ![r].todo = @ \ {t}]
           /\ UNCHANGED <<screening, queue>>
    BY DEF RefreshOne
  <1>2. t \in Tok /\ cand' = [cand EXCEPT ![t] = Refreshed(cand[t], why, high)]
    BY <1>1 DEF PipelineInv
  <1>3. /\ Refreshed(cand[t], why, high) \in Candidates
        /\ Refreshed(cand[t], why, high).st = "UNKNOWN" => cand[t].st = "UNKNOWN"
        /\ Refreshed(cand[t], why, high).st = "CLOSED" => cand[t].st = "CLOSED"
    BY <1>2, RefreshedFacts DEF PipelineInv, Follows
  <1>4. /\ screening' \in [Tok -> 0..MaxScreens] /\ \A u \in Tok : screening'[u] <= screening[u]
        /\ queue' \subseteq Tok /\ queue' = queue
        /\ refresh' \in [Run -> [on : BOOLEAN, todo : SUBSET Tok]]
    BY <1>1 DEF PipelineInv
  <1> QED
    BY <1>2, <1>3, <1>4, MoveOne

\* The end of a refresh, with the names of its definition.
LEMMA RefreshDoneCases ==
  ASSUME PipelineInv, NEW r \in Run, RefreshDone(r)
  PROVE  \E archived, drained \in [Tok -> Candidates], D \in SUBSET queue :
            /\ \A t \in Tok : Follows(cand[t], archived[t]) /\ archived[t].st \in {cand[t].st, "ARCHIVED"}
            /\ drained = Drained(archived, D) /\ Drains(archived, D)
            /\ queue' = queue \ D
            /\ \A t \in Tok :
                  \/ /\ Revivable(drained[t]) /\ screening[t] < MaxScreens
                     /\ cand'[t] = Moved([drained[t] EXCEPT !.reasons = {}], "OBSERVING")
                     /\ screening'[t] = screening[t] + 1
                  \/ ~Revivable(drained[t]) /\ cand'[t] = drained[t] /\ screening'[t] = screening[t]
            /\ DOMAIN cand' = Tok /\ cand' = [t \in Tok |-> cand'[t]]
            /\ DOMAIN screening' = Tok /\ screening' = [t \in Tok |-> screening'[t]]
  <1>1. PICK A \in SUBSET {t \in Tok : "ARCHIVED" \in Transitions[cand[t].st]}, D \in SUBSET queue :
          LET archived == Archived(cand, A)
              drained  == Drained(archived, D)
              revived  == {t \in Tok : Revivable(drained[t])}
          IN /\ Drains(archived, D)
             /\ \A t \in revived : screening[t] < MaxScreens
             /\ queue' = queue \ D
             /\ cand' = [t \in Tok |-> IF t \in revived
                                       THEN Moved([drained[t] EXCEPT !.reasons = {}], "OBSERVING")
                                       ELSE drained[t]]
             /\ screening' = [t \in Tok |-> screening[t] + (IF t \in revived THEN 1 ELSE 0)]
    BY DEF RefreshDone
  <1>2. A \in SUBSET Tok /\ D \in SUBSET Tok /\ cand \in [Tok -> Candidates]
    BY DEF PipelineInv
  <1> DEFINE archived == Archived(cand, A)
             drained  == Drained(archived, D)
  <1>3. /\ archived \in [Tok -> Candidates]
        /\ \A t \in Tok : Follows(cand[t], archived[t]) /\ archived[t].st \in {cand[t].st, "ARCHIVED"}
    BY <1>2, ArchivedFacts
  <1> HIDE DEF archived
  <1>4. drained \in [Tok -> Candidates]
    BY <1>2, <1>3, DrainedFacts
  <1>5. /\ Drains(archived, D) /\ queue' = queue \ D
        /\ \A t \in Tok : Revivable(drained[t]) => screening[t] < MaxScreens
        /\ cand' = [t \in Tok |-> IF Revivable(drained[t])
                                  THEN Moved([drained[t] EXCEPT !.reasons = {}], "OBSERVING")
                                  ELSE drained[t]]
        /\ screening' = [t \in Tok |-> screening[t] + (IF Revivable(drained[t]) THEN 1 ELSE 0)]
    BY <1>1 DEF archived
  <1>6. drained = Drained(archived, D)
    OBVIOUS
  <1> HIDE DEF drained
  <1>7. \A t \in Tok : screening[t] \in Int
    BY DEF PipelineInv
  <1>8. \A t \in Tok :
          \/ /\ Revivable(drained[t]) /\ screening[t] < MaxScreens
             /\ cand'[t] = Moved([drained[t] EXCEPT !.reasons = {}], "OBSERVING")
             /\ screening'[t] = screening[t] + 1
          \/ ~Revivable(drained[t]) /\ cand'[t] = drained[t] /\ screening'[t] = screening[t]
    BY <1>5, <1>7
  <1>9. /\ DOMAIN cand' = Tok /\ cand' = [t \in Tok |-> cand'[t]]
        /\ DOMAIN screening' = Tok /\ screening' = [t \in Tok |-> screening'[t]]
    BY <1>5
  <1> QED
    BY <1>3, <1>4, <1>5, <1>6, <1>8, <1>9

LEMMA RefreshDoneStep ==
  ASSUME PipelineInv, NEW r \in Run, RefreshDone(r)
  PROVE  PipelineInv'
  <1>1. PICK archived, drained \in [Tok -> Candidates], D \in SUBSET queue :
            /\ \A t \in Tok : Follows(cand[t], archived[t]) /\ archived[t].st \in {cand[t].st, "ARCHIVED"}
            /\ drained = Drained(archived, D)
            /\ queue' = queue \ D
            /\ \A t \in Tok :
                  \/ /\ Revivable(drained[t]) /\ screening[t] < MaxScreens
                     /\ cand'[t] = Moved([drained[t] EXCEPT !.reasons = {}], "OBSERVING")
                     /\ screening'[t] = screening[t] + 1
                  \/ ~Revivable(drained[t]) /\ cand'[t] = drained[t] /\ screening'[t] = screening[t]
            /\ DOMAIN cand' = Tok /\ cand' = [t \in Tok |-> cand'[t]]
            /\ DOMAIN screening' = Tok /\ screening' = [t \in Tok |-> screening'[t]]
    BY RefreshDoneCases
  <1>2. D \in SUBSET Tok
    BY DEF PipelineInv
  <1>3. ASSUME NEW t \in Tok
        PROVE  /\ cand'[t] \in Candidates /\ screening'[t] \in 0..MaxScreens
               /\ cand'[t].st = "UNKNOWN" => screening'[t] = 0
               /\ cand'[t].st = "CLOSED" => t \in queue'
    <2>1. screening[t] \in 0..MaxScreens /\ cand[t] \in Candidates
      BY DEF PipelineInv
    <2>2. CASE /\ Revivable(drained[t]) /\ screening[t] < MaxScreens
               /\ cand'[t] = Moved([drained[t] EXCEPT !.reasons = {}], "OBSERVING")
               /\ screening'[t] = screening[t] + 1
      <3>1. cand'[t] \in Candidates /\ cand'[t].st = "OBSERVING"
        BY <2>2, RevivedFacts
      <3>2. screening'[t] \in 0..MaxScreens
        BY <2>1, <2>2
      <3> QED
        BY <3>1, <3>2
    <2>3. CASE ~Revivable(drained[t]) /\ cand'[t] = drained[t] /\ screening'[t] = screening[t]
      <3>1. /\ Follows(archived[t], drained[t])
            /\ drained[t].st = "CLOSED" => archived[t].st = "CLOSED" /\ t \notin D
        BY <1>1, <1>2, DrainedFacts
      <3>2. Follows(cand[t], archived[t]) /\ archived[t].st \in {cand[t].st, "ARCHIVED"}
        BY <1>1
      <3>3. drained[t].st = "UNKNOWN" => cand[t].st = "UNKNOWN"
        BY <3>1, <3>2 DEF Follows
      <3>4. drained[t].st = "CLOSED" => t \in queue /\ t \notin D
        BY <3>1, <3>2 DEF PipelineInv, ClosedQueued
      <3> QED
        BY <1>1, <2>1, <2>3, <3>3, <3>4 DEF PipelineInv, UnknownUnscreened
    <2> QED
      BY <1>1, <2>2, <2>3
  <1>4. cand' \in [Tok -> Candidates] /\ screening' \in [Tok -> 0..MaxScreens]
    BY <1>1, <1>3
  <1>5. refresh' \in [Run -> [on : BOOLEAN, todo : SUBSET Tok]]
    <2>1. refresh' = [refresh EXCEPT ![r].on = FALSE]
      BY DEF RefreshDone
    <2> QED
      BY <2>1 DEF PipelineInv
  <1> QED
    BY <1>1, <1>3, <1>4, <1>5 DEF PipelineInv, UnknownUnscreened, ClosedQueued

LEMMA StartRefreshStep ==
  ASSUME PipelineInv, NEW r \in Run, StartRefresh(r)
  PROVE  PipelineInv'
  BY DEF PipelineInv, StartRefresh, UnknownUnscreened, ClosedQueued

LEMMA CooledStep ==
  ASSUME PipelineInv, NEW t \in Tok, Cooled(t)
  PROVE  PipelineInv'
  <1> DEFINE c == [cand[t] EXCEPT !.rejected = "cooled"]
  <1>1. c \in Candidates /\ c.st = cand[t].st
    BY DEF PipelineInv, Candidates
  <1>2. cand' = [cand EXCEPT ![t] = c]
    BY DEF Cooled, PipelineInv
  <1> HIDE DEF c
  <1>3. /\ queue' = queue /\ queue' \subseteq Tok
        /\ screening' \in [Tok -> 0..MaxScreens] /\ \A u \in Tok : screening'[u] <= screening[u]
        /\ refresh' \in [Run -> [on : BOOLEAN, todo : SUBSET Tok]]
    BY DEF Cooled, PipelineInv
  <1> QED
    BY <1>1, <1>2, <1>3, MoveOne

-----------------------------------------------------------------------------
(* The steps of the cycle.                                                 *)

LEMMA MarkExitedFacts ==
  ASSUME PipelineInv, NEW t \in Tok, NEW k \in Exits, MarkExited(t, k)
  PROVE  \E c \in Candidates :
            /\ cand' = [cand EXCEPT ![t] = c] /\ Follows(cand[t], c)
            /\ c.st = "CLOSED" => cand[t].st = "CLOSED" \/ t \in queue'
            /\ c.st \in {cand[t].st, "REJECTED", "EXITING", "CLOSED"}
            /\ cand[t].st = "REJECTED" => c = cand[t]
            /\ queue \subseteq queue' /\ queue' \subseteq Tok
  <1>1. cand[t] \in Candidates /\ {"REJECTED", "EXITING", "CLOSED"} \subseteq Status \ {"OBSERVING"}
    BY StatusSet DEF PipelineInv
  <1> DEFINE p == Moved(cand[t], "REJECTED")
             x == Moved(cand[t], "EXITING")
             c == Moved(x, "CLOSED")
  <1>2. Follows(cand[t], p) /\ p.st \in {cand[t].st, "REJECTED"} /\ p \in Candidates
    BY <1>1, MovedFollows, MovedFacts
  <1>3. Follows(cand[t], x) /\ x.st \in {cand[t].st, "EXITING"} /\ x \in Candidates
    BY <1>1, MovedFollows, MovedFacts
  <1>4. cand[t].st = "REJECTED" => p = cand[t] /\ x = cand[t]
    BY <1>1, Table, MovedFacts DEF Candidates
  <1> HIDE DEF x
  <1>5. Follows(x, c) /\ c.st \in {x.st, "CLOSED"} /\ c \in Candidates
    BY <1>1, <1>3, MovedFollows, MovedFacts
  <1>6. x.st = "REJECTED" => c = x
    BY <1>1, <1>3, Table, MovedFacts DEF Candidates
  <1>7. Follows(cand[t], c)
    BY <1>1, <1>3, <1>5, FollowsOn
  <1>8. CASE k # "ordinary"
    <2>1. cand' = [cand EXCEPT ![t] = p] /\ queue' = queue
      BY <1>8 DEF MarkExited
    <2> HIDE DEF p
    <2> QED
      BY <1>2, <1>4, <2>1 DEF PipelineInv
  <1>9. CASE k = "ordinary"
    <2>1. cand' = [cand EXCEPT ![t] = c] /\ queue' = queue \cup {t}
      BY <1>9 DEF MarkExited, x
    <2> HIDE DEF c, p
    <2> QED
      BY <1>3, <1>4, <1>5, <1>6, <1>7, <2>1 DEF PipelineInv
  <1> QED
    BY <1>8, <1>9

LEMMA ExitStep ==
  ASSUME PipelineInv, CycleInv, NEW t \in Tok, NEW s \in Strategies, NEW k \in Exits, Exit(t, s, k)
  PROVE  PipelineInv' /\ CycleInv'
  <1>1. MarkExited(t, k) /\ UNCHANGED <<screening, refresh>>
    BY DEF Exit
  <1>2. PipelineInv'
    <2>1. PICK c \in Candidates :
            /\ cand' = [cand EXCEPT ![t] = c] /\ Follows(cand[t], c)
            /\ c.st = "CLOSED" => cand[t].st = "CLOSED" \/ t \in queue'
            /\ queue \subseteq queue' /\ queue' \subseteq Tok
      BY <1>1, MarkExitedFacts
    <2>2. c.st = "UNKNOWN" => cand[t].st = "UNKNOWN"
      BY <2>1 DEF Follows
    <2>3. /\ screening' \in [Tok -> 0..MaxScreens] /\ \A u \in Tok : screening'[u] <= screening[u]
          /\ refresh' \in [Run -> [on : BOOLEAN, todo : SUBSET Tok]]
      BY <1>1 DEF PipelineInv
    <2> QED
      BY <2>1, <2>2, <2>3, MoveOne
  <1>3. /\ held' = [held EXCEPT ![t][s] = held[t][s] - 1] /\ held[t][s] > 0 /\ phase = "monitor"
        /\ UNCHANGED cycle /\ entries' = entries /\ burnt' \in {burnt, burnt \cup {t}}
    BY DEF Exit
  <1>4. held' \in [Tok -> [Strategies -> Nat]]
    BY <1>3 DEF CycleInv
  <1>5. OneSlotPerStrategy'
    <2>1. ASSUME NEW u \in Tok, NEW v \in Strat PROVE held'[u][v] <= 1
      <3>1. held[u][v] \in Nat /\ held[u][v] <= 1
        BY DEF CycleInv, OneSlotPerStrategy, Strategies
      <3>2. held'[u][v] \in {held[u][v], held[u][v] - 1}
        BY <1>3 DEF CycleInv, Strategies
      <3> QED
        BY <3>1, <3>2
    <2> QED
      BY <2>1 DEF OneSlotPerStrategy
  <1>6. CycleInv'
    BY <1>3, <1>4, <1>5 DEF CycleInv, cycle, DecisionsFresh
  <1> QED
    BY <1>2, <1>6

\* Decided(d) with what is left of the decisions on a token.
LEMMA DecidedFacts ==
  ASSUME NEW t \in Tok, NEW d \in SUBSET Strat,
         now = [tok |-> t, decisions |-> now.decisions], Decided(d)
  PROVE  \/ d = {} /\ now' = Idle /\ phase' = "entries"
         \/ d # {} /\ now' = [tok |-> t, decisions |-> d] /\ phase' = "decide"
  BY DEF Decided

LEMMA EntryFilledStep ==
  ASSUME PipelineInv, CycleInv, EntryFilled
  PROVE  PipelineInv' /\ CycleInv'
  <1> DEFINE t == now.tok
             c == Moved(cand[t], "ENTERED")
  <1>1. /\ t \in Tok /\ now.decisions \in SUBSET Strat
        /\ now = [tok |-> t, decisions |-> now.decisions]
        /\ \A s \in now.decisions : held[t][s] = 0
    BY DEF EntryFilled, CycleInv, DecisionsFresh
  <1>2. PICK s \in now.decisions :
           /\ entries < MaxEntries /\ entries' = entries + 1
           /\ held' = [held EXCEPT ![t][s] = held[t][s] + 1]
           /\ Decided(now.decisions \ {s})
    BY DEF EntryFilled, Bought
  <1>3. cand' = [cand EXCEPT ![t] = c] /\ UNCHANGED <<screening, refresh, queue, todo, burnt>>
    BY <1>1 DEF EntryFilled, PipelineInv
  <1>4. c \in Candidates /\ Follows(cand[t], c) /\ c.st \in {cand[t].st, "ENTERED"}
    BY <1>1, StatusSet, MovedFollows, MovedFacts DEF PipelineInv
  <1> HIDE DEF c
  <1>5. PipelineInv'
    <2>1. c.st = "UNKNOWN" => cand[t].st = "UNKNOWN"
      BY <1>4 DEF Follows
    <2>2. /\ queue \subseteq queue' /\ queue' \subseteq Tok
          /\ screening' \in [Tok -> 0..MaxScreens] /\ \A u \in Tok : screening'[u] <= screening[u]
          /\ refresh' \in [Run -> [on : BOOLEAN, todo : SUBSET Tok]]
      BY <1>3 DEF PipelineInv
    <2> HIDE DEF t
    <2> QED
      BY <1>1, <1>3, <1>4, <2>1, <2>2, MoveOne
  <1>6. /\ s \in Strat /\ s \in Strategies
        /\ held' \in [Tok -> [Strategies -> Nat]]
        /\ \A u \in Tok, v \in Strategies : u # t \/ v # s => held'[u][v] = held[u][v]
        /\ held'[t][s] = 1
    <2> HIDE DEF t
    <2>1. s \in Strat /\ s \in Strategies /\ held[t][s] = 0
      BY <1>1, <1>2 DEF Strategies
    <2> QED
      BY <1>1, <1>2, <2>1 DEF CycleInv
  <1>7. OneSlotPerStrategy'
    BY <1>6 DEF OneSlotPerStrategy, CycleInv, Strategies
  <1>8. \/ now' = Idle /\ phase' = "entries"
        \/ /\ now.decisions \ {s} # {} /\ phase' = "decide"
           /\ now' = [tok |-> t, decisions |-> now.decisions \ {s}]
    BY <1>1, <1>2, DecidedFacts
  <1>9. DecisionsFresh' /\ (phase' \in {"decide", "enter"} <=> now' # Idle)
    <2>1. CASE now' = Idle /\ phase' = "entries"
      BY <2>1 DEF DecisionsFresh
    <2>2. CASE /\ now.decisions \ {s} # {} /\ phase' = "decide"
               /\ now' = [tok |-> t, decisions |-> now.decisions \ {s}]
      <3>1. now'.tok = t /\ now'.decisions = now.decisions \ {s} /\ now'.decisions # {}
        BY <2>2
      <3>2. \A v \in now'.decisions : held'[t][v] = 0
        BY <1>1, <1>6, <3>1 DEF Strategies
      <3>3. now' # Idle
        BY <3>1 DEF Idle
      <3> QED
        BY <1>1, <2>2, <3>1, <3>2, <3>3 DEF DecisionsFresh
    <2> QED
      BY <1>8, <2>1, <2>2
  <1>10. /\ phase' \in {"monitor", "entries", "decide", "enter"}
         /\ now' = Idle \/ now' \in [tok : Tok, decisions : SUBSET Strat]
    BY <1>1, <1>8
  <1>11. entries' \in 0..MaxEntries /\ todo' \subseteq Tok /\ burnt' \subseteq Tok
    BY <1>2, <1>3 DEF CycleInv
  <1> QED
    BY <1>5, <1>6, <1>7, <1>9, <1>10, <1>11 DEF CycleInv

LEMMA EntryRefusedStep ==
  ASSUME CycleInv, EntryRefused
  PROVE  CycleInv'
  <1>1. /\ now.tok \in Tok /\ now.decisions \in SUBSET Strat
        /\ now = [tok |-> now.tok, decisions |-> now.decisions]
        /\ \A v \in now.decisions : held[now.tok][v] = 0
    BY DEF EntryRefused, CycleInv, DecisionsFresh
  <1>2. PICK s \in now.decisions : Decided(now.decisions \ {s})
    BY DEF EntryRefused
  <1>3. \/ now' = Idle /\ phase' = "entries"
        \/ /\ now.decisions \ {s} # {} /\ phase' = "decide"
           /\ now' = [tok |-> now.tok, decisions |-> now.decisions \ {s}]
    BY <1>1, <1>2, DecidedFacts
  <1>4. UNCHANGED <<held, todo, burnt, entries>>
    BY DEF EntryRefused
  <1>5. CASE now' = Idle /\ phase' = "entries"
    BY <1>4, <1>5 DEF CycleInv, DecisionsFresh, OneSlotPerStrategy
  <1>6. CASE /\ now.decisions \ {s} # {} /\ phase' = "decide"
             /\ now' = [tok |-> now.tok, decisions |-> now.decisions \ {s}]
    <2>1. /\ now'.tok = now.tok /\ now'.decisions = now.decisions \ {s} /\ now'.decisions # {}
          /\ now' \in [tok : Tok, decisions : SUBSET Strat]
      BY <1>1, <1>6
    <2>2. now' # Idle
      BY <2>1 DEF Idle
    <2>3. DecisionsFresh'
      BY <1>1, <1>4, <2>1 DEF DecisionsFresh
    <2> QED
      BY <1>4, <1>6, <2>1, <2>2, <2>3 DEF CycleInv, OneSlotPerStrategy
  <1> QED
    BY <1>3, <1>5, <1>6

LEMMA EvaluateStep ==
  ASSUME CycleInv, NEW t \in Tok, Evaluate(t)
  PROVE  CycleInv'
  <1>1. /\ phase = "entries" /\ now = Idle /\ todo' \subseteq Tok
        /\ UNCHANGED <<held, burnt, entries>>
    BY DEF Evaluate, CycleInv
  <1>2. CASE UNCHANGED <<now, phase>>
    BY <1>1, <1>2 DEF CycleInv, DecisionsFresh, OneSlotPerStrategy
  <1>3. CASE /\ \E D \in Decisions(t) \ {{}} : now' = [tok |-> t, decisions |-> D]
             /\ phase' = "decide"
    <2>1. PICK D \in Decisions(t) \ {{}} : now' = [tok |-> t, decisions |-> D]
      BY <1>3
    <2>2. D # {} /\ D \in SUBSET Strat /\ \A s \in D : held[t][s] = 0
      BY <2>1 DEF Decisions
    <2>3. now'.tok = t /\ now'.decisions = D /\ now' \in [tok : Tok, decisions : SUBSET Strat]
      BY <2>1, <2>2
    <2>4. now' # Idle
      BY <2>2, <2>3 DEF Idle
    <2>5. DecisionsFresh'
      BY <1>1, <2>2, <2>3 DEF DecisionsFresh
    <2> QED
      BY <1>1, <1>3, <2>3, <2>4, <2>5 DEF CycleInv, OneSlotPerStrategy
  <1> QED
    BY <1>2, <1>3 DEF Evaluate

LEMMA CopyEntryStep ==
  ASSUME CycleInv, NEW t \in Tok, CopyEntry(t)
  PROVE  CycleInv'
  <1>1. /\ entries < MaxEntries /\ entries' = entries + 1
        /\ held' = [held EXCEPT ![t][Copy] = held[t][Copy] + 1]
        /\ UNCHANGED <<cycle, burnt>> /\ phase = "entries"
    BY DEF CopyEntry, Bought
  <1>2. held' \in [Tok -> [Strategies -> Nat]] /\ entries' \in 0..MaxEntries
    <2> DEFINE h == [held[t] EXCEPT ![Copy] = held[t][Copy] + 1]
    <2>1. held[t] \in [Strategies -> Nat] /\ Copy \in Strategies
      BY DEF CycleInv, Strategies
    <2>2. h \in [Strategies -> Nat] /\ held' = [held EXCEPT ![t] = h]
      BY <1>1, <2>1
    <2> HIDE DEF h
    <2>3. held' \in [Tok -> [Strategies -> Nat]]
      BY <2>2 DEF CycleInv
    <2>4. entries' \in 0..MaxEntries
      BY <1>1 DEF CycleInv
    <2> QED
      BY <2>3, <2>4
  <1>3. \A u \in Tok, s \in Strat : held'[u][s] = held[u][s]
    BY <1>1 DEF CycleInv, Strategies
  <1> QED
    BY <1>1, <1>2, <1>3 DEF CycleInv, cycle, DecisionsFresh, OneSlotPerStrategy

LEMMA ControlStep ==
  ASSUME CycleInv, MonitorDone \/ BeginEntry \/ CycleDone
  PROVE  CycleInv'
  <1>1. CASE MonitorDone
    BY <1>1 DEF MonitorDone, TradeCandidates, CycleInv, DecisionsFresh, OneSlotPerStrategy
  <1>2. CASE BeginEntry
    BY <1>2 DEF BeginEntry, CycleInv, DecisionsFresh, OneSlotPerStrategy
  <1>3. CASE CycleDone
    BY <1>3 DEF CycleDone, CycleInv, DecisionsFresh, OneSlotPerStrategy
  <1> QED
    BY <1>1, <1>2, <1>3
-----------------------------------------------------------------------------
(* The invariant holds.                                                    *)

LEMMA InvStep == ScannerInv /\ [Next]_vars => ScannerInv'
  <1> SUFFICES ASSUME PipelineInv, CycleInv, [Next]_vars PROVE PipelineInv' /\ CycleInv'
    BY DEF ScannerInv, TypeOK, PipelineInv, CycleInv
  <1>1. ASSUME NEW t \in Tok, Discover(t) PROVE PipelineInv' /\ CycleInv'
    BY <1>1, DiscoverStep, CycleFrame DEF Discover
  <1>2. ASSUME NEW t \in Tok, ScreeningDone(t) PROVE PipelineInv' /\ CycleInv'
    BY <1>2, ScreeningDoneStep, CycleFrame DEF ScreeningDone
  <1>3. ASSUME NEW t \in Tok, Cooled(t) PROVE PipelineInv' /\ CycleInv'
    BY <1>3, CooledStep, CycleFrame DEF Cooled
  <1>4. ASSUME NEW t \in Tok, NEW s \in Strategies, NEW k \in Exits, Exit(t, s, k)
        PROVE  PipelineInv' /\ CycleInv'
    BY <1>4, ExitStep
  <1>5. ASSUME NEW t \in Tok, Evaluate(t) PROVE PipelineInv' /\ CycleInv'
    BY <1>5, EvaluateStep, PipelineFrame DEF Evaluate
  <1>6. ASSUME NEW t \in Tok, CopyEntry(t) PROVE PipelineInv' /\ CycleInv'
    BY <1>6, CopyEntryStep, PipelineFrame DEF CopyEntry
  <1>7. ASSUME NEW r \in Run, StartRefresh(r) PROVE PipelineInv' /\ CycleInv'
    BY <1>7, StartRefreshStep, CycleFrame DEF StartRefresh
  <1>8. ASSUME NEW r \in Run, RefreshOne(r) PROVE PipelineInv' /\ CycleInv'
    BY <1>8, RefreshOneStep, CycleFrame DEF RefreshOne
  <1>9. ASSUME NEW r \in Run, RefreshDone(r) PROVE PipelineInv' /\ CycleInv'
    BY <1>9, RefreshDoneStep, CycleFrame DEF RefreshDone
  <1>10. CASE MonitorDone \/ BeginEntry \/ CycleDone
    BY <1>10, ControlStep, PipelineFrame DEF MonitorDone, BeginEntry, CycleDone
  <1>11. CASE EntryRefused
    BY <1>11, EntryRefusedStep, PipelineFrame DEF EntryRefused
  <1>12. CASE EntryFilled
    BY <1>12, EntryFilledStep
  <1>13. CASE UNCHANGED vars
    BY <1>13, PipelineFrame, CycleFrame DEF vars
  <1> QED
    BY <1>1, <1>2, <1>3, <1>4, <1>5, <1>6, <1>7, <1>8, <1>9, <1>10, <1>11, <1>12, <1>13
       DEF Next, RefreshStep

LEMMA InvAlways == Spec => []ScannerInv
  BY InvInit, InvStep, PTL DEF Spec

\* The scanner's maps, its queue, the cycle and the positions always have their type.
THEOREM ScannerTypeCorrect == Spec => []TypeOK
  BY InvAlways, PTL DEF ScannerInv

\* However screenings, refreshes, exits and drains of the queue interleave, a token at
\* CLOSED always waits in the re-entry queue.
THEOREM ClosedAlwaysQueued == Spec => []ClosedQueued
  BY InvAlways, PTL DEF ScannerInv

\* No strategy ever holds two positions of one token, whatever the positions of the
\* earlier process and however often the token becomes a candidate again.
THEOREM OneSlotAlways == Spec => []OneSlotPerStrategy
  BY InvAlways, PTL DEF ScannerInv

-----------------------------------------------------------------------------
(* The size of the watchlist.                                              *)

LEMMA WatchlistFinite ==
  ASSUME NEW cs
  PROVE  /\ IsFiniteSet(Watchlist(cs)) /\ Cardinality(Watchlist(cs)) \in Nat
         /\ Watchlist(cs) \subseteq Tok
  BY FS_Subset, FS_CardinalityType DEF Watchlist

LEMMA NoGrowth ==
  ASSUME NEW cs, NEW ds, NEW n \in Nat, Cardinality(Watchlist(cs)) <= n,
         \A t \in Tok : ds[t].st \in {"WATCHLIST", "TRADE_CANDIDATE"} =>
                         cs[t].st \in {"WATCHLIST", "TRADE_CANDIDATE"}
  PROVE  Cardinality(Watchlist(ds)) <= n
  <1>1. Watchlist(ds) \subseteq Watchlist(cs)
    BY DEF Watchlist
  <1>2. Cardinality(Watchlist(ds)) <= Cardinality(Watchlist(cs))
    BY <1>1, WatchlistFinite, FS_Subset
  <1> QED
    BY <1>2, WatchlistFinite

LEMMA GrowthByOne ==
  ASSUME NEW cs, NEW ds, NEW u \in Tok, Cardinality(Watchlist(cs)) < MaxWatchlist,
         \A t \in Tok \ {u} : ds[t] = cs[t]
  PROVE  Cardinality(Watchlist(ds)) <= MaxWatchlist
  <1>1. Watchlist(ds) \subseteq Watchlist(cs) \cup {u}
    BY DEF Watchlist
  <1>2. /\ IsFiniteSet(Watchlist(cs) \cup {u})
        /\ Cardinality(Watchlist(cs) \cup {u}) <= Cardinality(Watchlist(cs)) + 1
        /\ Cardinality(Watchlist(cs) \cup {u}) \in Nat
    <2>1. IsFiniteSet(Watchlist(cs)) /\ Cardinality(Watchlist(cs)) \in Nat
      BY WatchlistFinite
    <2> HIDE DEF Watchlist
    <2>2. /\ IsFiniteSet(Watchlist(cs) \cup {u})
          /\ Cardinality(Watchlist(cs) \cup {u}) =
                IF u \in Watchlist(cs) THEN Cardinality(Watchlist(cs))
                ELSE Cardinality(Watchlist(cs)) + 1
      BY <2>1, FS_AddElement
    <2> QED
      BY <2>1, <2>2
  <1>3. Cardinality(Watchlist(ds)) <= Cardinality(Watchlist(cs) \cup {u})
    BY <1>1, <1>2, FS_Subset
  <1> QED
    BY <1>2, <1>3, WatchlistFinite

LEMMA WatchlistStep == ScannerInv /\ WatchlistBounded /\ [Next]_vars => WatchlistBounded'
  <1> SUFFICES ASSUME PipelineInv, CycleInv, WatchlistBounded, [Next]_vars
               PROVE  Cardinality(Watchlist(cand')) <= MaxWatchlist
    BY InvParts DEF WatchlistBounded, Watchlist
  <1> DEFINE Listed(s) == s \in {"WATCHLIST", "TRADE_CANDIDATE"}
  <1>0. /\ cand \in [Tok -> Candidates] /\ MaxWatchlist \in Nat
        /\ Cardinality(Watchlist(cand)) <= MaxWatchlist
    BY DEF PipelineInv, WatchlistBounded
  <1>1. ASSUME NEW t \in Tok, Discover(t) PROVE Cardinality(Watchlist(cand')) <= MaxWatchlist
    <2> DEFINE d == [cand[t] EXCEPT !.st = "DISCOVERED"]
    <2>1. d \in Candidates /\ d.st = "DISCOVERED"
      BY <1>0, StatusSet DEF Candidates
    <2>2. cand' = [cand EXCEPT ![t] = Moved(d, "OBSERVING")]
      BY <1>1 DEF Discover
    <2> HIDE DEF d
    <2>3. Moved(d, "OBSERVING").st \in {"DISCOVERED", "OBSERVING"}
      BY <2>1, StatusSet, MovedFacts
    <2>4. \A u \in Tok : Listed(cand'[u].st) => Listed(cand[u].st)
      BY <1>0, <2>2, <2>3
    <2> QED
      BY <1>0, <2>4, NoGrowth
  <1>2. ASSUME NEW t \in Tok, ScreeningDone(t) PROVE Cardinality(Watchlist(cand')) <= MaxWatchlist
    <2>1. PICK why \in Verdicts : cand' = [cand EXCEPT ![t] = Screened(t, why)]
      BY <1>2 DEF ScreeningDone
    <2>2. CASE Listed(Screened(t, why).st) /\ ~Listed(cand[t].st)
      <3>1. Cardinality(Watchlist(cand)) < MaxWatchlist
        BY <1>0, <2>2, ScreenedFacts
      <3>2. \A u \in Tok \ {t} : cand'[u] = cand[u]
        BY <1>0, <2>1
      <3> QED
        BY <3>1, <3>2, GrowthByOne
    <2>3. CASE ~(Listed(Screened(t, why).st) /\ ~Listed(cand[t].st))
      <3>1. \A u \in Tok : Listed(cand'[u].st) => Listed(cand[u].st)
        BY <1>0, <2>1, <2>3
      <3> QED
        BY <1>0, <3>1, NoGrowth
    <2> QED
      BY <2>2, <2>3
  <1>3. ASSUME NEW t \in Tok, Cooled(t) PROVE Cardinality(Watchlist(cand')) <= MaxWatchlist
    <2>1. \A u \in Tok : cand'[u].st = cand[u].st
      BY <1>0, <1>3 DEF Cooled, Candidates
    <2> QED
      BY <1>0, <2>1, NoGrowth
  <1>4. ASSUME NEW t \in Tok, NEW s \in Strategies, NEW k \in Exits, Exit(t, s, k)
        PROVE  Cardinality(Watchlist(cand')) <= MaxWatchlist
    <2>1. PICK c \in Candidates : /\ cand' = [cand EXCEPT ![t] = c]
                                  /\ c.st \in {cand[t].st, "REJECTED", "EXITING", "CLOSED"}
      BY <1>4, MarkExitedFacts DEF Exit
    <2>2. \A u \in Tok : Listed(cand'[u].st) => Listed(cand[u].st)
      BY <1>0, <2>1
    <2> QED
      BY <1>0, <2>2, NoGrowth
  <1>5. ASSUME NEW r \in Run, RefreshOne(r) PROVE Cardinality(Watchlist(cand')) <= MaxWatchlist
    <2>1. PICK t \in refresh[r].todo, why \in Verdicts, high \in BOOLEAN :
             cand' = [cand EXCEPT ![t] = Refreshed(@, why, high)]
      BY <1>5 DEF RefreshOne
    <2>2. t \in Tok /\ cand' = [cand EXCEPT ![t] = Refreshed(cand[t], why, high)]
      BY <2>1 DEF PipelineInv
    <2>3. Listed(Refreshed(cand[t], why, high).st) => Listed(cand[t].st)
      BY <1>0, <2>2, RefreshedFacts
    <2>4. \A u \in Tok : Listed(cand'[u].st) => Listed(cand[u].st)
      BY <1>0, <2>2, <2>3
    <2> QED
      BY <1>0, <2>4, NoGrowth
  <1>6. ASSUME NEW r \in Run, RefreshDone(r) PROVE Cardinality(Watchlist(cand')) <= MaxWatchlist
    <2>1. PICK archived, drained \in [Tok -> Candidates], D \in SUBSET queue :
              /\ \A t \in Tok : archived[t].st \in {cand[t].st, "ARCHIVED"}
              /\ drained = Drained(archived, D) /\ Drains(archived, D)
              /\ \A t \in Tok :
                    \/ /\ Revivable(drained[t])
                       /\ cand'[t] = Moved([drained[t] EXCEPT !.reasons = {}], "OBSERVING")
                    \/ cand'[t] = drained[t]
      BY <1>6, RefreshDoneCases
    <2>2. Cardinality(Watchlist(archived)) <= MaxWatchlist
      BY <1>0, <2>1, NoGrowth
    <2>3. Cardinality(Watchlist(drained)) <= MaxWatchlist
      <3>1. CASE D = {}
        <4>1. \A t \in Tok : drained[t] = archived[t]
          BY <2>1, <3>1 DEF Drained
        <4> QED
          BY <1>0, <2>2, <4>1, NoGrowth
      <3>2. CASE D # {}
        BY <2>1, <3>2 DEF Drains
      <3> QED
        BY <3>1, <3>2
    <2>4. ASSUME NEW t \in Tok, Listed(cand'[t].st) PROVE Listed(drained[t].st)
      <3>1. ~Revivable(drained[t]) \/ cand'[t] = drained[t]
        BY <2>1, <2>4, RevivedFacts
      <3> QED
        BY <2>1, <2>4, <3>1
    <2> QED
      BY <1>0, <2>3, <2>4, NoGrowth
  <1>7. CASE EntryFilled
    <2>1. now.tok \in Tok /\ cand' = [cand EXCEPT ![now.tok] = Moved(cand[now.tok], "ENTERED")]
      BY <1>0, <1>7 DEF EntryFilled, CycleInv, DecisionsFresh
    <2>2. Moved(cand[now.tok], "ENTERED").st \in {cand[now.tok].st, "ENTERED"}
      BY <1>0, <2>1, StatusSet, MovedFacts
    <2>3. \A u \in Tok : Listed(cand'[u].st) => Listed(cand[u].st)
      BY <1>0, <2>1, <2>2
    <2> QED
      BY <1>0, <2>3, NoGrowth
  <1>8. CASE cand' = cand
    BY <1>0, <1>8
  <1>9. \/ \E t \in Tok : \/ Discover(t) \/ ScreeningDone(t) \/ Cooled(t)
                          \/ \E s \in Strategies, k \in Exits : Exit(t, s, k)
        \/ \E r \in Run : RefreshOne(r) \/ RefreshDone(r)
        \/ EntryFilled \/ cand' = cand
    BY DEF Next, RefreshStep, StartRefresh, Evaluate, CopyEntry, MonitorDone, BeginEntry,
           EntryRefused, CycleDone, vars, scanner
  <1> QED
    BY <1>1, <1>2, <1>3, <1>4, <1>5, <1>6, <1>7, <1>8, <1>9

\* The watchlist stays within config.maxWatchlistSize for any number of tokens,
\* screenings and overlapping refreshes.
THEOREM WatchlistAlwaysBounded == Spec => []WatchlistBounded
  <1>1. Init => WatchlistBounded
    <2> SUFFICES ASSUME Init PROVE WatchlistBounded
      OBVIOUS
    <2>1. Watchlist(cand) = {}
      BY DEF Init, Watchlist, NoCandidate
    <2> QED
      BY <2>1, FS_EmptySet DEF WatchlistBounded
  <1> QED
    BY <1>1, InvAlways, WatchlistStep, PTL DEF Spec
-----------------------------------------------------------------------------
(* Rejections.                                                             *)

\* What a step does to a condemned token: nothing it was condemned for changes.
LEMMA CondemnedStep ==
  ASSUME PipelineInv, CycleInv, NEW t \in Tok, Condemned(t), [Next]_vars
  PROVE  Condemned(t)' \/ cand'[t].st = "ARCHIVED"
  <1>0. /\ cand \in [Tok -> Candidates] /\ cand[t] \in Candidates /\ cand[t].st = "REJECTED"
        /\ cand[t].entered \/ ("security" \in cand[t].reasons /\ screening[t] = 0)
        /\ screening \in [Tok -> 0..MaxScreens]
    BY DEF PipelineInv, Condemned
  <1>1. CASE cand'[t] = cand[t] /\ (screening'[t] = screening[t] \/ cand[t].entered)
    BY <1>0, <1>1 DEF Condemned
  <1>2. ASSUME NEW u \in Tok, Discover(u) PROVE Condemned(t)' \/ cand'[t].st = "ARCHIVED"
    <2>1. u # t
      BY <1>0, <1>2 DEF Discover
    <2> QED
      BY <1>0, <1>1, <1>2, <2>1 DEF Discover
  <1>3. ASSUME NEW u \in Tok, ScreeningDone(u) PROVE Condemned(t)' \/ cand'[t].st = "ARCHIVED"
    <2>1. PICK why \in Verdicts : cand' = [cand EXCEPT ![u] = Screened(u, why)]
      BY <1>3 DEF ScreeningDone
    <2>2. screening[u] > 0 /\ screening' = [screening EXCEPT ![u] = screening[u] - 1]
      BY <1>3 DEF ScreeningDone
    <2>3. CASE u # t
      BY <1>0, <1>1, <2>1, <2>2, <2>3
    <2>4. CASE u = t
      <3>1. cand[t].entered
        BY <1>0, <2>2, <2>4
      <3>2. cand'[t] = Screened(t, why)
        BY <1>0, <2>1, <2>4
      <3>3. cand'[t].entered /\ cand'[t].st \in {"REJECTED", "ARCHIVED"}
        BY <1>0, <3>1, <3>2, ScreenedFacts DEF Follows
      <3> QED
        BY <3>3 DEF Condemned
    <2> QED
      BY <2>3, <2>4
  <1>4. ASSUME NEW u \in Tok, Cooled(u) PROVE Condemned(t)' \/ cand'[t].st = "ARCHIVED"
    BY <1>0, <1>4 DEF Cooled, Candidates, Condemned
  <1>5. ASSUME NEW u \in Tok, NEW s \in Strategies, NEW k \in Exits, Exit(u, s, k)
        PROVE  Condemned(t)' \/ cand'[t].st = "ARCHIVED"
    <2>1. PICK c \in Candidates : /\ cand' = [cand EXCEPT ![u] = c]
                                  /\ cand[u].st = "REJECTED" => c = cand[u]
      BY <1>5, MarkExitedFacts DEF Exit
    <2>2. cand'[t] = cand[t] /\ screening' = screening
      BY <1>0, <1>5, <2>1 DEF Exit
    <2> QED
      BY <1>1, <2>2
  <1>6. ASSUME NEW r \in Run, RefreshOne(r) PROVE Condemned(t)' \/ cand'[t].st = "ARCHIVED"
    <2>1. PICK u \in refresh[r].todo, why \in Verdicts, high \in BOOLEAN :
             cand' = [cand EXCEPT ![u] = Refreshed(@, why, high)] /\ screening' = screening
      BY <1>6 DEF RefreshOne
    <2>2. u \in Tok /\ cand' = [cand EXCEPT ![u] = Refreshed(cand[u], why, high)]
      BY <2>1 DEF PipelineInv
    <2>3. cand[u].st = "REJECTED" => Refreshed(cand[u], why, high) = cand[u]
      BY <1>0, <2>2, RefreshedFacts
    <2>4. cand'[t] = cand[t]
      BY <1>0, <2>2, <2>3
    <2> QED
      BY <1>1, <2>1, <2>4
  <1>7. ASSUME NEW r \in Run, RefreshDone(r) PROVE Condemned(t)' \/ cand'[t].st = "ARCHIVED"
    <2>1. PICK A \in SUBSET {u \in Tok : "ARCHIVED" \in Transitions[cand[u].st]}, D \in SUBSET queue :
            LET archived == Archived(cand, A)
                drained  == Drained(archived, D)
                revived  == {u \in Tok : Revivable(drained[u])}
            IN /\ cand' = [u \in Tok |-> IF u \in revived
                                         THEN Moved([drained[u] EXCEPT !.reasons = {}], "OBSERVING")
                                         ELSE drained[u]]
               /\ screening' = [u \in Tok |-> screening[u] + (IF u \in revived THEN 1 ELSE 0)]
      BY <1>7 DEF RefreshDone
    <2> DEFINE archived == Archived(cand, A)
               drained  == Drained(archived, D)
    <2>2. archived[t] = cand[t] \/ archived[t] = Moved(cand[t], "ARCHIVED")
      BY DEF Archived
    <2>3. archived \in [Tok -> Candidates]
      BY <1>0, <2>1, ArchivedFacts
    <2>4. archived[t].st \in {"REJECTED", "ARCHIVED"}
      BY <1>0, <2>1, ArchivedFacts
    <2>5. /\ cand'[t] = IF Revivable(drained[t])
                        THEN Moved([drained[t] EXCEPT !.reasons = {}], "OBSERVING")
                        ELSE drained[t]
          /\ screening'[t] = screening[t] + (IF Revivable(drained[t]) THEN 1 ELSE 0)
      BY <2>1
    <2> HIDE DEF archived
    <2>6. /\ archived[t].st = "REJECTED" => drained[t] = archived[t]
          /\ archived[t].st = "ARCHIVED" => drained[t].st = "ARCHIVED"
      <3>1. D \in SUBSET Tok
        BY DEF PipelineInv
      <3> QED
        BY <2>3, <3>1, DrainedFacts DEF Follows
    <2> HIDE DEF drained
    <2>7. CASE archived[t].st = "ARCHIVED"
      BY <2>5, <2>6, <2>7 DEF Revivable
    <2>8. CASE archived[t].st = "REJECTED"
      <3>1. archived[t] = cand[t]
        <4>1. "ARCHIVED" \in Status /\ "ARCHIVED" \in Transitions[cand[t].st]
          BY <1>0, StatusSet, Table
        <4>2. Moved(cand[t], "ARCHIVED").st = "ARCHIVED"
          BY <1>0, <4>1, MovedFacts
        <4> QED
          BY <2>2, <2>8, <4>2
      <3>2. drained[t] = cand[t] /\ ~Revivable(drained[t])
        BY <1>0, <2>6, <2>8, <3>1 DEF Revivable
      <3>3. cand'[t] = cand[t] /\ screening'[t] = screening[t]
        BY <1>0, <2>5, <3>2
      <3> QED
        BY <1>1, <3>3
    <2> QED
      BY <2>4, <2>7, <2>8
  <1>8. CASE EntryFilled
    <2>1. now.tok \in Tok /\ cand' = [cand EXCEPT ![now.tok] = Moved(cand[now.tok], "ENTERED")]
      BY <1>0, <1>8 DEF EntryFilled, CycleInv, DecisionsFresh
    <2>2. cand[now.tok].st = "REJECTED" => Moved(cand[now.tok], "ENTERED") = cand[now.tok]
      BY <1>0, <2>1, StatusSet, Table, MovedFacts DEF Candidates
    <2>3. cand'[t] = cand[t] /\ screening' = screening
      BY <1>0, <1>8, <2>1, <2>2 DEF EntryFilled
    <2> QED
      BY <1>1, <2>3
  <1>9. CASE UNCHANGED <<cand, screening>>
    BY <1>1, <1>9
  <1>10. \/ \E u \in Tok : \/ Discover(u) \/ ScreeningDone(u) \/ Cooled(u)
                           \/ \E s \in Strategies, k \in Exits : Exit(u, s, k)
         \/ \E r \in Run : RefreshOne(r) \/ RefreshDone(r)
         \/ EntryFilled \/ UNCHANGED <<cand, screening>>
    BY DEF Next, RefreshStep, StartRefresh, Evaluate, CopyEntry, MonitorDone, BeginEntry,
           EntryRefused, CycleDone, vars, scanner
  <1> QED
    BY <1>2, <1>3, <1>4, <1>5, <1>6, <1>7, <1>8, <1>9, <1>10

\* No interleaving brings a token back that was rejected for its security, or after it
\* was entered: it stays rejected until it is archived.
THEOREM SecurityAlwaysFinal == Spec => SecurityFinal
  <1> DEFINE Final == \A t \in Tok : Condemned(t) => Condemned(t)' \/ cand'[t].st = "ARCHIVED"
  <1>1. ScannerInv /\ [Next]_vars => Final
    BY InvParts, CondemnedStep
  <1> HIDE DEF Final
  <1>2. Spec => [][Final]_vars
    BY <1>1, InvAlways, PTL DEF Spec
  <1> QED
    BY <1>2 DEF SecurityFinal, Final

-----------------------------------------------------------------------------
(***************************************************************************)
(* Side by side the parts take only the steps each takes alone, so what is *)
(* proved of their safety holds of Watch.                                  *)
(***************************************************************************)
THEOREM WatchBehavesAsItsParts == WatchSpec => Spec /\ QuotesSpec
<1>1. WatchInit => Init /\ QuotesInit
  BY DEF WatchInit
<1>2. [WatchNext]_watchVars => [Next]_vars /\ [QuotesNext]_quoteVars
  BY DEF WatchNext, watchVars, ScannerWatch, QuotesWatch, EvidenceWatch, LedgerWatch
<1> QED
  BY <1>1, <1>2, PTL DEF WatchSpec, Spec, QuotesSpec

(***************************************************************************)
(* Of Watch: the scanner's invariants, that a rejection for security is    *)
(* final, and that an exit is decided on current data.                     *)
(***************************************************************************)
COROLLARY WatchIsSafe ==
    WatchSpec => /\ [](WatchlistBounded /\ ClosedQueued /\ OneSlotPerStrategy /\ FreshDecision)
                 /\ SecurityFinal
BY WatchBehavesAsItsParts, WatchlistAlwaysBounded, ClosedAlwaysQueued, OneSlotAlways,
   ExitsDecideOnFreshData, SecurityAlwaysFinal, PTL
=============================================================================

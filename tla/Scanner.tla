------------------------------- MODULE Scanner -------------------------------
(***************************************************************************)
(* The scanner's token lifecycle and the entries and exits that move it:   *)
(* discovery, screening, the periodic refresh with its archiving, re-entry *)
(* and revival, and the decision cycle that takes trade candidates,        *)
(* enters them and reports exits back through markEntered and markExited.  *)
(*                                                                         *)
(* Screenings, refreshes and the cycle are concurrent.  Each walks the     *)
(* state machine from whatever state it finds after its await, and a step  *)
(* the machine does not allow is silently skipped (Scanner.transition).    *)
(*                                                                         *)
(* Abstracted: snapshots, features and scores (a fetch is followed by any  *)
(* verdict of the filters and by a score above or below the promotion      *)
(* bar), the order of the Maps, the risk engine (an entry may be refused), *)
(* the length of the cooldowns and of maxCandidateAgeMs: any candidate may *)
(* be stale, any queued token due, and the revive cooldown just elapses.   *)
(* Modelled for PAPER mode, where a sale that is done is always reported,  *)
(* and for AI_AUTONOMY other than auto, where the ensemble enters.         *)
(* The AI veto, the cohort gate and the blacklist only remove entries: a   *)
(* candidate may be skipped.  A catastrophic stop, which parks the token   *)
(* like an exit for its security, also lists it.                           *)
(***************************************************************************)
EXTENDS Integers, FiniteSets

CONSTANTS Tok,           \* token addresses
          Strat,         \* strategies of the ensemble
          Copy,          \* the strategy id of copied entries
          Run,           \* refreshes that may be under way at once
          MaxWatchlist,  \* config.maxWatchlistSize
          MaxCopySlots,  \* config.copytrade.maxSlotsPerToken
          MaxScreens,    \* bound: screenings of one token under way
          MaxRestored,   \* bound: positions restored from their rows at the start
          MaxEntries     \* bound: positions opened

ASSUME CopyAssumption == Copy \notin Strat
ASSUME TokAssumption == IsFiniteSet(Tok)
ASSUME ScannerBounds ==
    /\ MaxWatchlist \in Nat /\ MaxCopySlots \in Nat /\ MaxScreens \in Nat \ {0}
    /\ MaxRestored \in Nat /\ MaxEntries \in Nat

VARIABLES
    cand,       \* candidates and stateMachines: one record per token
    screening,  \* per token: runInitialScreening calls awaiting their data
    refresh,    \* per run: the candidates refreshCandidates has still to fetch
    queue,      \* reentryQueue: the tokens that wait for re-entry
    held,       \* positions of a token, per strategy
    phase,      \* the decision cycle
    todo,       \* candidates this cycle has still to evaluate
    now,        \* the candidate being evaluated and its ENTER decisions
    burnt,      \* observer: tokens with an exit of the kind that parks them
    entries

scanner == <<cand, screening, refresh, queue>>
cycle   == <<phase, todo, now>>
vars    == <<scanner, held, cycle, burnt, entries>>

\* TRANSITIONS; "UNKNOWN" is a token without a candidate.
Transitions ==
    [UNKNOWN         |-> {},
     DISCOVERED      |-> {"OBSERVING", "REJECTED"},
     OBSERVING       |-> {"SCREENING", "REJECTED"},
     SCREENING       |-> {"ELIGIBLE", "REJECTED"},
     ELIGIBLE        |-> {"WATCHLIST", "REJECTED"},
     WATCHLIST       |-> {"TRADE_CANDIDATE", "REJECTED", "ARCHIVED"},
     TRADE_CANDIDATE |-> {"ENTERED", "WATCHLIST", "REJECTED"},
     ENTERED         |-> {"OPEN", "EXITING", "REJECTED"},
     OPEN            |-> {"EXITING"},
     EXITING         |-> {"CLOSED"},
     CLOSED          |-> {"WATCHLIST", "ARCHIVED"},
     REJECTED        |-> {"ARCHIVED", "OBSERVING"},
     ARCHIVED        |-> {}]

Status     == DOMAIN Transitions
Reasons    == {"security", "other"}
Verdicts   == {{}, {"security"}, {"other"}}   \* what runFilters returns
Strategies == Strat \cup {Copy}

\* entered: the history holds an ENTERED; rejected: rejectedAt is unset, within
\* the revive cooldown or past it.
Candidates == [st : Status, entered : BOOLEAN, reasons : SUBSET Reasons,
               rejected : {"never", "recent", "cooled"}]

NoCandidate == [st |-> "UNKNOWN", entered |-> FALSE, reasons |-> {}, rejected |-> "never"]

Idle == [tok |-> "none", decisions |-> {}]

\* A process starts with the positions of an earlier one, and a scanner that has
\* forgotten what it knew of their tokens.
Restorable ==
    {h \in [Tok -> [Strategies -> 0..1]] :
        Cardinality({ts \in Tok \X Strategies : h[ts[1]][ts[2]] > 0}) <= MaxRestored}

Init ==
    /\ cand = [t \in Tok |-> NoCandidate]
    /\ screening = [t \in Tok |-> 0]
    /\ refresh = [r \in Run |-> [on |-> FALSE, todo |-> {}]]
    /\ queue = {}
    /\ held \in Restorable
    /\ phase = "monitor" /\ todo = {} /\ now = Idle
    /\ burnt = {} /\ entries = 0
-----------------------------------------------------------------------------
(* The state machine and the pipeline.                                     *)

\* transition(): a step the table does not allow changes nothing.
Moved(c, to) ==
    IF to \in Transitions[c.st]
    THEN [c EXCEPT !.st = to, !.entered = @ \/ to = "ENTERED"]
    ELSE c

\* Rejection by the filters: the reasons are recorded whether or not the token moves.
RejectedFor(c, why) == Moved([c EXCEPT !.reasons = why, !.rejected = "recent"], "REJECTED")

Watchlist(cs) == {t \in Tok : cs[t].st \in {"WATCHLIST", "TRADE_CANDIDATE"}}

TradeCandidates == {t \in Tok : cand[t].st = "TRADE_CANDIDATE"}

\* handleDiscovery: an event of the discovery stream or a seeded token.
Discover(t) ==
    /\ cand[t].st = "UNKNOWN"
    /\ cand' = [cand EXCEPT ![t] = Moved([@ EXCEPT !.st = "DISCOVERED"], "OBSERVING")]
    /\ screening' = [screening EXCEPT ![t] = @ + 1]
    /\ UNCHANGED <<refresh, queue, held, cycle, burnt, entries>>

\* Mutant of Screened: a token joins the watchlist without a look at its size.
ScreenedAlways(t, why) ==
    LET c == Moved(cand[t], "SCREENING")
    IN IF why # {} THEN RejectedFor(c, why) ELSE Moved(Moved(c, "ELIGIBLE"), "WATCHLIST")

\* screen(): the candidate after the filters, with the watchlist's size checked.
Screened(t, why) ==
    LET c == Moved(cand[t], "SCREENING")
        e == Moved(c, "ELIGIBLE")
    IN IF why # {} THEN RejectedFor(c, why)
       ELSE IF Cardinality(Watchlist(cand)) < MaxWatchlist THEN Moved(e, "WATCHLIST")
       ELSE e

\* runInitialScreening once fetchAllData has returned.
ScreeningDone(t) ==
    /\ screening[t] > 0
    /\ screening' = [screening EXCEPT ![t] = @ - 1]
    /\ \E why \in Verdicts : cand' = [cand EXCEPT ![t] = Screened(t, why)]
    /\ UNCHANGED <<refresh, queue, held, cycle, burnt, entries>>
-----------------------------------------------------------------------------
(* refreshCandidates: started by a timer whether or not one is under way.  *)

StartRefresh(r) ==
    /\ ~refresh[r].on
    /\ refresh' = [refresh EXCEPT ![r] =
           [on |-> TRUE,
            todo |-> {t \in Tok : cand[t].st \in {"WATCHLIST", "TRADE_CANDIDATE", "OBSERVING"}}]]
    /\ UNCHANGED <<cand, screening, queue, held, cycle, burnt, entries>>

\* One candidate of the loop after its fetch: reject, promote or demote.
Refreshed(c, why, high) ==
    IF why # {} /\ c.st \in {"WATCHLIST", "TRADE_CANDIDATE"} THEN RejectedFor(c, why)
    ELSE IF c.st = "WATCHLIST" /\ high THEN Moved(c, "TRADE_CANDIDATE")
    ELSE IF c.st = "TRADE_CANDIDATE" /\ ~high THEN Moved(c, "WATCHLIST")
    ELSE c

RefreshOne(r) ==
    \E t \in refresh[r].todo, why \in Verdicts, high \in BOOLEAN :
       /\ refresh' = [refresh EXCEPT ![r].todo = @ \ {t}]
       /\ cand' = [cand EXCEPT ![t] = Refreshed(@, why, high)]
       /\ UNCHANGED <<screening, queue, held, cycle, burnt, entries>>

\* archiveStale() with the stale tokens A.
Archived(cs, A) ==
    [t \in Tok |-> IF t \in A /\ cs[t].st \notin {"OPEN", "EXITING", "ENTERED"}
                   THEN Moved(cs[t], "ARCHIVED") ELSE cs[t]]

\* drainReentryQueue() of the tokens D: WATCHLIST is a legal step of a token at
\* CLOSED, and of one at ELIGIBLE or TRADE_CANDIDATE too.
Drained(cs, D) == [t \in Tok |-> IF t \in D THEN Moved(cs[t], "WATCHLIST") ELSE cs[t]]

\* D can be the queued tokens taken off: those due, up to the first that finds the
\* watchlist full.
Drains(cs, D) ==
    D # {} => /\ Cardinality(Watchlist(cs)) < MaxWatchlist
              /\ Cardinality(Watchlist(Drained(cs, D))) <= MaxWatchlist

\* Mutants of Revivable: reasons and history are not looked at; any reason counts.
RevivableAll(c) == c.st = "REJECTED" /\ c.rejected = "cooled"
RevivableNone(c) == RevivableAll(c) /\ ~c.entered /\ c.reasons = {}

\* reviveRejected()
Revivable(c) ==
    /\ c.st = "REJECTED" /\ c.rejected = "cooled"
    /\ ~c.entered /\ "security" \notin c.reasons

\* The end of the loop: archive, drain and revive without an await between them.
RefreshDone(r) ==
    /\ refresh[r].on /\ refresh[r].todo = {}
    /\ refresh' = [refresh EXCEPT ![r].on = FALSE]
    /\ \E A \in SUBSET {t \in Tok : "ARCHIVED" \in Transitions[cand[t].st]}, D \in SUBSET queue :
          LET archived == Archived(cand, A)
              drained  == Drained(archived, D)
              revived  == {t \in Tok : Revivable(drained[t])}
          IN /\ Drains(archived, D)
             /\ \A t \in revived : screening[t] < MaxScreens
             /\ queue' = queue \ D
             /\ cand' = [t \in Tok |-> IF t \in revived
                                       THEN Moved([drained[t] EXCEPT !.reasons = {}], "OBSERVING")
                                       ELSE drained[t]]
             /\ screening' = [t \in Tok |-> screening[t] + (IF t \in revived THEN 1 ELSE 0)]
    /\ UNCHANGED <<held, cycle, burnt, entries>>

RefreshStep(r) == StartRefresh(r) \/ RefreshOne(r) \/ RefreshDone(r)

\* The revive cooldown of a rejected token elapses; nothing asks before it is rejected.
Cooled(t) ==
    /\ cand[t].st = "REJECTED" /\ cand[t].rejected = "recent"
    /\ cand' = [cand EXCEPT ![t].rejected = "cooled"]
    /\ UNCHANGED <<screening, refresh, queue, held, cycle, burnt, entries>>
-----------------------------------------------------------------------------
(* The decision cycle.                                                     *)

Exits == {"ordinary", "security"}

\* Mutant of MarkExited: an exit that parks walks to CLOSED as well.
MarkExitedClosed(t, kind) ==
    /\ cand' = [cand EXCEPT ![t] = Moved(Moved(@, "EXITING"), "CLOSED")]
    /\ queue' = IF kind = "ordinary" THEN queue \cup {t} ELSE queue

\* markExited(): park at REJECTED, or walk to CLOSED and queue for re-entry.
MarkExited(t, kind) ==
    IF kind # "ordinary"
    THEN /\ cand' = [cand EXCEPT ![t] = Moved(@, "REJECTED")]
         /\ queue' = queue
    ELSE /\ cand' = [cand EXCEPT ![t] = Moved(Moved(@, "EXITING"), "CLOSED")]
         /\ queue' = queue \cup {t}

\* executeSale of a whole position.
Exit(t, s, kind) ==
    /\ phase = "monitor" /\ held[t][s] > 0
    /\ held' = [held EXCEPT ![t][s] = @ - 1]
    /\ MarkExited(t, kind)
    /\ burnt' = IF kind = "ordinary" THEN burnt ELSE burnt \cup {t}
    /\ UNCHANGED <<screening, refresh, cycle, entries>>

MonitorDone ==
    /\ phase = "monitor"
    /\ phase' = "entries" /\ todo' = TradeCandidates
    /\ UNCHANGED <<scanner, held, now, burnt, entries>>

\* Mutant of Decisions: strategies that hold the token are not left out.
AllDecisions(t) == SUBSET Strat

\* The ENTER decisions of strategies that do not hold the token yet.
Decisions(t) == SUBSET {s \in Strat : held[t][s] = 0}

\* One candidate: skipped, or a slot and a decision for some strategies.
Evaluate(t) ==
    /\ phase = "entries" /\ t \in todo
    /\ todo' = todo \ {t}
    /\ \/ /\ \E D \in Decisions(t) \ {{}} : now' = [tok |-> t, decisions |-> D]
          /\ phase' = "decide"
       \/ UNCHANGED <<now, phase>>
    /\ UNCHANGED <<scanner, held, burnt, entries>>

\* Mutant of Decided: the cycle does not leave a candidate without decisions.
DecidedStuck(d) ==
    /\ now' = IF d = {} THEN Idle ELSE [now EXCEPT !.decisions = d]
    /\ phase' = "decide"

\* What is left of the decisions on the candidate; the next one after the last.
Decided(d) ==
    /\ now' = IF d = {} THEN Idle ELSE [now EXCEPT !.decisions = d]
    /\ phase' = IF d = {} THEN "entries" ELSE "decide"

\* executeEntry up to its first await: freshEntryCandidate returns the candidate
\* as it is unless it is a trade candidate still.
BeginEntry ==
    /\ phase = "decide" /\ cand[now.tok].st = "TRADE_CANDIDATE"
    /\ phase' = "enter"
    /\ UNCHANGED <<scanner, held, todo, now, burnt, entries>>

\* The entry of one decision is refused, at either end of the data fetch.
EntryRefused ==
    /\ phase \in {"decide", "enter"}
    /\ \E s \in now.decisions : Decided(now.decisions \ {s})
    /\ UNCHANGED <<scanner, held, todo, burnt, entries>>

Bought(t, s) ==
    /\ entries < MaxEntries /\ entries' = entries + 1
    /\ held' = [held EXCEPT ![t][s] = @ + 1]

\* The order is filled and the position open; markEntered.
EntryFilled ==
    /\ phase = "enter"
    /\ \E s \in now.decisions : Bought(now.tok, s) /\ Decided(now.decisions \ {s})
    /\ cand' = [cand EXCEPT ![now.tok] = Moved(@, "ENTERED")]
    /\ UNCHANGED <<screening, refresh, queue, todo, burnt>>

\* runCopyEntry: any token, whatever the scanner knows of it, and no markEntered.
CopyEntry(t) ==
    /\ phase = "entries" /\ todo = {}
    /\ held[t][Copy] < MaxCopySlots
    /\ Bought(t, Copy)
    /\ UNCHANGED <<scanner, cycle, burnt>>

CycleDone ==
    /\ phase = "entries" /\ todo = {}
    /\ phase' = "monitor"
    /\ UNCHANGED <<scanner, held, todo, now, burnt, entries>>
-----------------------------------------------------------------------------
Next ==
    \/ \E t \in Tok : \/ Discover(t) \/ ScreeningDone(t)
                      \/ Cooled(t)
                      \/ \E s \in Strategies, k \in Exits : Exit(t, s, k)
                      \/ Evaluate(t) \/ CopyEntry(t)
    \/ \E r \in Run : RefreshStep(r)
    \/ MonitorDone \/ BeginEntry \/ EntryRefused \/ EntryFilled
    \/ CycleDone

Spec == Init /\ [][Next]_vars

\* setInterval starts refreshes; provider calls answer or time out; waits elapse.
Fairness ==
    /\ \A r \in Run : WF_vars(RefreshStep(r))
    /\ \A t \in Tok : WF_vars(ScreeningDone(t)) /\ WF_vars(Cooled(t))

FairSpec == Spec /\ Fairness
-----------------------------------------------------------------------------
(* Every variable has its type. *)
TypeOK ==
    /\ cand \in [Tok -> Candidates]
    /\ screening \in [Tok -> 0..MaxScreens]
    /\ refresh \in [Run -> [on : BOOLEAN, todo : SUBSET Tok]]
    /\ queue \subseteq Tok
    /\ held \in [Tok -> [Strategies -> Nat]]
    /\ burnt \subseteq Tok
    /\ phase \in {"monitor", "entries", "decide", "enter"}
    /\ todo \subseteq Tok
    /\ now = Idle \/ now \in [tok : Tok, decisions : SUBSET Strat]
    /\ (phase \in {"decide", "enter"}) <=> (now # Idle)
    /\ entries \in 0..MaxEntries

\* The watchlist never outgrows its limit, though tokens join it from screenings
\* and from the re-entry queue at the same time (scanner.ts:436, 541).
WatchlistBounded == Cardinality(Watchlist(cand)) <= MaxWatchlist

\* A token at CLOSED always has its re-entry queued: no full watchlist, second exit
\* or refresh loses the entry, without which it would stay CLOSED (scanner.ts:541).
ClosedQueued == \A t \in Tok : cand[t].st = "CLOSED" => t \in queue

\* A strategy holds a token once, also when the token became a candidate again while
\* its entry was under way, after a copied position's exit, or after a restart
\* (index.ts:996-1004).
OneSlotPerStrategy == \A t \in Tok, s \in Strat : held[t][s] <= 1

\* Rejected for good: a token once entered, or one with its security among the reasons
\* and no screening of it under way that could still replace them.
Condemned(t) ==
    /\ cand[t].st = "REJECTED"
    /\ cand[t].entered \/ ("security" \in cand[t].reasons /\ screening[t] = 0)

\* A token rejected on evidence against its security, or rejected after it was entered
\* (by the exit that parks it, or by the filters after its re-entry), stays rejected
\* until it is archived (scanner.ts:513-525).
SecurityFinal ==
    [][\A t \in Tok : Condemned(t) => Condemned(t)' \/ cand'[t].st = "ARCHIVED"]_vars

\* A token that was never entered and that the filters rejected for another reason is
\* screened again, or archived, or a screening still under way finds evidence against
\* its security: the watchlist does not drain into REJECTED (scanner.ts:46-48).
RejectedRevived ==
    \A t \in Tok : (cand[t].st = "REJECTED" /\ cand[t].reasons = {"other"} /\ ~cand[t].entered)
                   ~> (screening[t] > 0 \/ cand[t].st = "ARCHIVED" \/ "security" \in cand[t].reasons)

\* No position is opened in a token after an exit that parks it: "never re-entered"
\* (scanner.ts:354-359).  Violated: see the README.
NeverReentered ==
    [][\A t \in burnt, s \in Strategies : held'[t][s] <= held[t][s]]_vars
=============================================================================
